------------------------------ MODULE ExpertMap ------------------------------
(***************************************************************************)
(* The two-pass grouped expert matmul (src/ops/mm_id.metal, encode_map0    *)
(* and encode_mm): pass one groups the token slots by expert into a        *)
(* scratch buffer, pass two multiplies each expert's group in tiles and    *)
(* scatters the rows back to their slots.                                  *)
(*                                                                         *)
(* A routing is a sequence of tokens, each the sequence of the experts     *)
(* (0, 1, ...) of its slots.  Tokens are counted from 0, as in the kernel. *)
(***************************************************************************)
EXTENDS Integers, Sequences, FiniteSets

NR1 == 32        (* token slots of a tile of the second pass               *)

CeilDiv(n, d) == (n + d - 1) \div d

Tokens(r) == 0 .. Len(r) - 1

(* sel: the slot of token t, from 1, that the router gave to expert e; 0   *)
(* when there is none.  The experts of a token are distinct, so the sum    *)
(* the kernel forms over its slots has one term at most.                   *)
Sel(r, e, t) ==
  IF \E s \in DOMAIN r[t + 1] : r[t + 1][s] = e
  THEN CHOOSE s \in DOMAIN r[t + 1] : r[t + 1][s] = e
  ELSE 0

(* n_all when the thread of expert e comes to token t.                     *)
Before(r, e, t) == Cardinality({u \in Tokens(r) : u < t /\ Sel(r, e, u) > 0})
Count(r, e) == Before(r, e, Len(r))

(* The thread of expert e writes for every token, selected or not, at its  *)
(* counter; the last write to an index stands.  -1 is never written.       *)
Entry(r, e, n, topk) ==
  LET writers == {t \in Tokens(r) : Before(r, e, t) = n}
      last    == CHOOSE t \in writers : \A u \in writers : u <= t
  IN  IF writers = {} THEN -1 ELSE last * topk + Sel(r, e, last) - 1

(* Mutant of Map0: the counter moves on before the write.                  *)
Map0Late(r, nexpert, topk) ==
  [n_expert |-> nexpert, t |-> Len(r), top_k |-> topk,
   tpe  |-> [e \in 0 .. nexpert - 1 |-> Count(r, e)],
   hids |-> [e \in 0 .. nexpert - 1 |->
               [n \in Tokens(r) |-> IF n = 0 THEN -1 ELSE Entry(r, e, n - 1, topk)]]]

(* The scratch after the first pass: per expert its count and its region   *)
(* of the map, one entry per token.                                        *)
Map0(r, nexpert, topk) ==
  [n_expert |-> nexpert, t |-> Len(r), top_k |-> topk,
   tpe  |-> [e \in 0 .. nexpert - 1 |-> Count(r, e)],
   hids |-> [e \in 0 .. nexpert - 1 |-> [n \in Tokens(r) |-> Entry(r, e, n, topk)]]]

(* The slots of expert e that its tile x stores: none past its count.      *)
TileRows(m, e, x) ==
  LET left == m.tpe[e] - x * NR1
  IN  0 .. (IF left < NR1 THEN left ELSE NR1) - 1

(* The tiles launched for each expert: enough should it get every token.   *)
TilesX(m) == 0 .. CeilDiv(m.t, NR1) - 1

(* Every row the second pass stores, and the slot it goes to.              *)
Stores(m) ==
  {st \in (0 .. m.n_expert - 1) \X TilesX(m) \X (0 .. NR1 - 1) :
     st[3] \in TileRows(m, st[1], st[2])}

(* The tokens a short tells apart, and a value kept in one. *)
ShortTokens == 32768
Short(n) == ((n + ShortTokens) % (2 * ShortTokens)) - ShortTokens

(* A row finds its token and slot again from the map's entry; the token    *)
(* goes through a short (idt).                                             *)
StoredSlot(m, st) ==
  LET id == m.hids[st[1]][st[2] * NR1 + st[3]]
  IN  Short(id \div m.top_k) * m.top_k + (id % m.top_k)

-----------------------------------------------------------------------------
(* Every slot of the routing is stored by one tile row, under the expert   *)
(* it was routed to, no row goes elsewhere, and the first pass writes      *)
(* inside the region of its expert.                                        *)
GroupsEverySlot(r, m) ==
  /\ \A t \in Tokens(r), s \in 0 .. m.top_k - 1 :
       \E st \in Stores(m) :
         /\ StoredSlot(m, st) = t * m.top_k + s
         /\ st[1] = r[t + 1][s + 1]
  /\ \A a, b \in Stores(m) : StoredSlot(m, a) = StoredSlot(m, b) => a = b
  /\ \A st \in Stores(m) : StoredSlot(m, st) \in 0 .. Len(r) * m.top_k - 1
  /\ \A e \in 0 .. m.n_expert - 1, t \in Tokens(r) : Before(r, e, t) < Len(r)
=============================================================================
