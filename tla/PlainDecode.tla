----------------------------- MODULE PlainDecode -----------------------------
(***************************************************************************)
(* Generator::generate without a drafter: chunked prefill, then one token  *)
(* at a time.  Each turn of the decode loop polls, draws, emits and feeds  *)
(* the token back; the caller's flag may come up between any two steps.    *)
(***************************************************************************)
EXTENDS Generation

Init == GenInit

(* One turn of the prefill loop. *)
Prefill ==
  /\ pc = "prefill"
  /\ IF stop
     THEN Return("cancelled") /\ UNCHANGED <<kv, pos>>
     ELSE /\ Fits(Len(Chunk))
          /\ kv' = Forwarded(Chunk)
          /\ pos' = pos + Len(Chunk)
          /\ IF pos' < Len(prompt) THEN UNCHANGED <<status, pc>>
             ELSE IF cap = 0 THEN Return("complete")
             ELSE status' = status /\ pc' = "poll"
  /\ UNCHANGED <<script, cap, minThink, prompt, reply, stop, late, drawn>>

(* Mutant of Poll: the decode loop does not poll. *)
PollNever ==
  /\ pc = "poll"
  /\ status' = status /\ pc' = "draw"
  /\ UNCHANGED <<script, cap, minThink, prompt, reply, stop, late, kv, pos, drawn>>

(* Mutant of Poll: a stop skips the turn where it should end the loop. *)
PollContinues ==
  /\ pc = "poll"
  /\ status' = status /\ pc' = IF stop THEN "poll" ELSE "draw"
  /\ UNCHANGED <<script, cap, minThink, prompt, reply, stop, late, kv, pos, drawn>>

(* The head of the decode loop. *)
Poll ==
  /\ pc = "poll"
  /\ IF stop THEN Return("cancelled") ELSE status' = status /\ pc' = "draw"
  /\ UNCHANGED <<script, cap, minThink, prompt, reply, stop, late, kv, pos, drawn>>

(* Mutant of DrawAndEmit: the EOG is looked for after the emission. *)
DrawAndEmitEog ==
  /\ pc = "draw"
  /\ drawn' = drawn + 1
  /\ \E t \in Draws(drawn + 1, kv, Len(out) < minThink) :
       IF t \in Eog THEN Return("complete") /\ out' = Append(out, t) /\ UNCHANGED <<stream, text, late>>
                    ELSE EmitToken(t, "forward")
  /\ UNCHANGED <<script, cap, minThink, prompt, stop, kv, pos>>

(* Sample the next token from the last logits, and emit it. *)
DrawAndEmit ==
  /\ pc = "draw"
  /\ drawn' = drawn + 1
  /\ \E t \in Draws(drawn + 1, kv, Len(out) < minThink) :
       IF t \in Eog THEN Return("complete") /\ UNCHANGED <<reply, late>>
                    ELSE EmitToken(t, "forward")
  /\ UNCHANGED <<script, cap, minThink, prompt, stop, kv, pos>>

(* Mutant of Forward: the position stays behind. *)
ForwardInPlace ==
  /\ pc = "forward"
  /\ Fits(1)
  /\ kv' = Forwarded(<<LastOf(out)>>)
  /\ pc' = "poll"
  /\ UNCHANGED <<script, cap, minThink, prompt, reply, status, stop, late, pos, drawn>>

(* Feed the emitted token back. *)
Forward ==
  /\ pc = "forward"
  /\ Fits(1)
  /\ kv' = Forwarded(<<LastOf(out)>>)
  /\ pos' = pos + 1
  /\ pc' = "poll"
  /\ UNCHANGED <<script, cap, minThink, prompt, reply, status, stop, late, drawn>>

Step == Prefill \/ Poll \/ DrawAndEmit \/ Forward

Next ==
  \/ Reset
  \/ \E p \in Prompts, max \in Budgets, floor \in Floors : Check(p, max, floor)
  \/ Step
  \/ RequestStop
  \/ Fail

(* The loop runs whenever it can; nobody owes a call, a stop or a failure. *)
Spec == Init /\ [][Next]_gvars /\ WF_gvars(Step)

-----------------------------------------------------------------------------
(* Properties *)

TypeOK ==
  /\ script \in Scripts(minThink) \cup {<<>>}
  /\ cap \in 0..MaxNew
  /\ minThink \in Floors \cup {0}
  /\ prompt \in Seq(Tokens)
  /\ out \in Seq(Tokens) /\ Len(out) <= cap
  /\ status \in Statuses
  /\ pc \in {"prefill", "poll", "draw", "forward", "check", "return"}
  /\ stop \in BOOLEAN
  /\ late \in 0..MaxNew
  /\ kv \in Seq(Nat \X Tokens)
  /\ pos \in 0..MaxCtx
  /\ drawn \in 0..MaxNew

(* The one check of prompt + max_tokens against max_ctx is enough: no      *)
(* forward of the call ever trips run_stack's guard.                       *)
BudgetSuffices ==
  /\ pc = "prefill" => Fits(Len(Chunk))
  /\ pc = "forward" => Fits(1)

(* However the call ends, the caches hold the prompt and the reply without *)
(* a final EOG or a token at the cap, and the sampler was drawn from once  *)
(* per emitted token and once for the EOG.                                 *)
ExitState ==
  status = "complete" /\ cap > 0 =>
    /\ kv = Cells(prompt \o SubSeq(script, 1, drawn - 1))
    /\ drawn = IF Len(out) = cap THEN cap ELSE Len(out) + 1

(* should_stop is polled once per decoded token (the doc of generate): at  *)
(* most the one token already being drawn comes out after the request.     *)
PolledPerToken == late <= 1

(* The text handed over is, at every moment, the decoded reply up to its   *)
(* last whole character: a character split over tokens comes out once, when*)
(* it is complete, however the id window slid in between, and the stream   *)
(* never takes a token for one that does not extend what it has said.      *)
TextIsReply ==
  [][/\ text' = Settled(out')
     /\ drawn' # drawn => status' # "failed"]_gvars

(* A running call ends: by its EOG, its cap, its caller or an error. *)
Terminates == status = "running" ~> status # "running"
=============================================================================
