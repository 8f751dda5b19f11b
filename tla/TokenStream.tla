----------------------------- MODULE TokenStream -----------------------------
(***************************************************************************)
(* What Generator::generate promises its caller, whichever decode loop runs:*)
(* the reply is one fixed sequence of tokens, the one the sampler draws    *)
(* from the prompt; it is streamed token by token, in order, until its     *)
(* first end-of-generation token or the caller's cap; and it may be cut    *)
(* short only after the caller asked to stop, or by a failure.             *)
(***************************************************************************)
EXTENDS Integers, Sequences

CONSTANTS
  Tokens,      (* token ids                                               *)
  Eog,         (* those that end a generation                             *)
  MaxNew       (* bound on a caller's max_tokens                          *)

VARIABLES
  script,      (* the tokens the sampler draws for this prompt, in order  *)
  cap,         (* the caller's max_tokens                                 *)
  out,         (* the tokens handed to on_text so far                     *)
  status,      (* where the call stands                                   *)
  stop         (* should_stop would return true                           *)

svars == <<script, cap, out, status, stop>>

Statuses == {"idle", "running", "complete", "cancelled", "failed", "refused"}

(* The reply is over: the cap is reached or the next draw is an EOG.       *)
Over == Len(out) = cap \/ script[Len(out) + 1] \in Eog

Init ==
  /\ out = <<>>
  /\ status = "idle"
  /\ stop = FALSE

(* A new call, with nothing said yet. *)
Reset ==
  /\ status # "running"
  /\ status' = "idle"
  /\ out' = <<>>
  /\ stop' = FALSE

(* The request is taken up, or refused. *)
Begin ==
  /\ status = "idle"
  /\ status' \in {"running", "refused"}
  /\ script' \in [1..MaxNew -> Tokens]
  /\ cap' \in 0..MaxNew
  /\ UNCHANGED <<out, stop>>

Emit ==
  /\ status = "running"
  /\ ~Over
  /\ out' = Append(out, script[Len(out) + 1])
  /\ status' = IF Len(out') = cap THEN "complete" ELSE status
  /\ UNCHANGED <<script, cap, stop>>

Finish ==
  /\ status = "running"
  /\ \/ Over /\ status' = "complete"
     \/ stop /\ status' = "cancelled"
     \/ status' = "failed"
  /\ UNCHANGED <<script, cap, out, stop>>

RequestStop ==
  /\ stop' = TRUE
  /\ UNCHANGED <<script, cap, out, status>>

Next == Reset \/ Begin \/ Emit \/ Finish \/ RequestStop

StreamSpec == Init /\ [][Next]_svars
=============================================================================
