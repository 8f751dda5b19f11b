-------------------------------- MODULE KvLog --------------------------------
(***************************************************************************)
(* What the KV cache promises to the forward pass, without rings, masks or *)
(* snapshots: every layer is an unbounded log of the keys it was fed, the  *)
(* queries of a forward see the part of that log their attention kind      *)
(* allows, and a rollback cuts the log back to a shorter prefix.           *)
(***************************************************************************)
EXTENDS Integers, Sequences

CONSTANTS
  Layers,      (* the transformer layers                          *)
  SwaLayers,   (* those with sliding-window attention             *)
  Window,      (* their window                                    *)
  Cells        (* what a cache slot can hold                      *)

VARIABLES
  kv,          (* kv[l]: the keys layer l holds, by position      *)
  seen         (* seen[l][q]: the keys query position q attended  *)

lvars == <<kv, seen>>

(* The positions a query at position q attends in layer l. *)
Visible(l, q) == {p \in 0..q : l \in SwaLayers => q - p < Window}

Nothing == [l \in Layers |-> <<>>]

Init == kv = Nothing /\ seen = Nothing

(* A layer appends a block of keys and its queries attend over the log. *)
Extend(l, new) ==
  LET log == kv[l] \o new
  IN  /\ kv' = [kv EXCEPT ![l] = log]
      /\ seen' = [seen EXCEPT ![l] =
                    [q \in Len(kv[l])..(Len(log) - 1) |->
                       {log[p + 1] : p \in Visible(l, q)}]]

(* A layer forgets everything from position n on. *)
Retract(l, n) ==
  /\ n \in 0..Len(kv[l])
  /\ kv' = [kv EXCEPT ![l] = SubSeq(@, 1, n)]
  /\ UNCHANGED seen

(* A new forward starts: what the previous one saw is history. *)
NewForward == seen' = Nothing /\ UNCHANGED kv

Clear == kv' = Nothing /\ seen' = Nothing

(* The next-state relation, with the blocks a layer may be fed left to the *)
(* log itself: Extend is any growth of the log of one layer.               *)
Next ==
  \/ \E l \in Layers :
       \/ /\ Len(kv'[l]) > Len(kv[l])
          /\ kv'[l] \in Seq(Cells)
          /\ Extend(l, SubSeq(kv'[l], Len(kv[l]) + 1, Len(kv'[l])))
       \/ \E n \in 0..Len(kv[l]) : Retract(l, n)
  \/ NewForward
  \/ Clear

LogSpec == Init /\ [][Next]_lvars
=============================================================================
