----------------------------- MODULE SpecDecode ------------------------------
(***************************************************************************)
(* Generator::generate_spec: speculative decode with the DFlash drafter of *)
(* src/dflash.rs.  A round drafts a block after the last drawn token,      *)
(* verifies it in one forward of the target, draws a token for each row    *)
(* until the walk stops, rolls the target back to the kept prefix, injects *)
(* that prefix into the drafter and emits what was drawn.                  *)
(*                                                                         *)
(* Whether a round drafts at all is the pause controller's choice (see     *)
(* PauseController); which tokens it drafts is the drafter's.  Both are    *)
(* left open here: the reply may not depend on them.                       *)
(***************************************************************************)
EXTENDS Generation

CONSTANTS
  DraftMax,      (* --draft-max                                           *)
  DraftMin,      (* --draft-min                                           *)
  BlockSize,     (* the drafter's trained block size                      *)
  Noise,         (* a drafter row written by draft_forward                *)
  Unwritten      (* a drafter row never written                           *)

ASSUME DraftAssumption ==
  /\ DraftMax \in Nat /\ DraftMin \in Nat /\ BlockSize \in Nat
  /\ Noise \notin Nat \X Tokens /\ Unwritten \notin Nat \X Tokens

VARIABLES
  rows,          (* the drafter's cache: rows[p] is the fused tap of the  *)
                 (* target at position p, by the cell it was taken from   *)
  committed,     (* DflashDrafter::committed                              *)
  idLast,        (* id_last: drawn, not yet fed to the target             *)
  drafts,        (* the drafts of the round                               *)
  queue          (* the round's committed tokens that remain to be emitted*)

dvars == <<rows, committed, idLast, drafts, queue>>
vars == <<gvars, dvars>>

(* What id_last is before the first draw of a call does not matter. *)
AnyToken == ThinkClose

(* id_last and the drafts behind it: the block a verify feeds. *)
Block == <<idLast>> \o drafts

DraftWidth == Smaller(DraftMax, IF BlockSize = 0 THEN 0 ELSE BlockSize - 1)
(* Mutant of NDraft: the context left does not limit the block. *)
NDraftUnclamped == DraftWidth

NDraft == Smaller(DraftWidth, MaxCtx - pos - 1)

(* What the p_min walk and the draft_min test can leave of n drafted rows. *)
DraftOutcomes(n) ==
  {<<>>} \cup UNION {[1..k -> Tokens] : k \in {k \in 1..n : k >= DraftMin}}

(* DflashDrafter::inject of the fused taps of the cells fed from at on. *)
Injected(cells, at) ==
  [p \in DOMAIN rows |->
     IF p \in at..(at + Len(cells) - 1) THEN cells[p - at + 1] ELSE rows[p]]

(* DflashDrafter::draft_forward leaves its noise block in scratch rows.    *)
Dirtied(n) ==
  [p \in DOMAIN rows |-> IF p \in committed..(committed + n - 1) THEN Noise ELSE rows[p]]

(* Mutant of Accepts: a matched EOG does not end the walk. *)
AcceptsPastEog(ds, budget, c) ==
  /\ Len(c) \in 1..Smaller(Len(ds) + 1, budget)
  /\ \A i \in 1..(Len(c) - 1) : c[i] = ds[i]
  /\ Len(c) = budget \/ Len(c) = Len(ds) + 1 \/ LastOf(c) # ds[Len(c)]

(* accept_drafts: c is what the walk over the verify rows commits, when it *)
(* draws c[i] at row i: it goes on past a matched draft that is no EOG, and*)
(* stops at the budget, a mismatch, an EOG or the bonus row.               *)
Accepts(ds, budget, c) ==
  /\ Len(c) \in 1..Smaller(Len(ds) + 1, budget)
  /\ \A i \in 1..(Len(c) - 1) : c[i] = ds[i] /\ c[i] \notin Eog
  /\ \/ Len(c) = budget
     \/ Len(c) = Len(ds) + 1
     \/ LastOf(c) # ds[Len(c)]
     \/ LastOf(c) \in Eog

(* Mutant of Walks: the verify rows are drawn without the floor's mask. *)
WalksUnmasked(ds, cells, budget) ==
  {c \in UNION {[1..n -> Tokens] : n \in 1..(Len(ds) + 1)} :
     /\ Accepts(ds, budget, c)
     /\ \A i \in DOMAIN c : c[i] \in Draws(drawn + i, SubSeq(cells, 1, pos + i), FALSE)}

(* The committed sequences the sampler can give over the logged rows: row  *)
(* i sees the block up to its own token and is draw drawn + i.             *)
Walks(ds, cells, budget) ==
  {c \in UNION {[1..n -> Tokens] : n \in 1..(Len(ds) + 1)} :
     /\ Accepts(ds, budget, c)
     /\ \A i \in DOMAIN c :
          c[i] \in Draws(drawn + i, SubSeq(cells, 1, pos + i), Len(out) + i <= minThink)}

-----------------------------------------------------------------------------
Init ==
  /\ GenInit
  /\ rows = [p \in 0..(MaxCtx - 1) |-> Unwritten]
  /\ committed = 0
  /\ idLast = AnyToken
  /\ drafts = <<>>
  /\ queue = <<>>

(* The call also resets the drafter; its rows keep their old contents. *)
SpecReset ==
  /\ Reset
  /\ committed' = 0
  /\ idLast' = AnyToken
  /\ drafts' = <<>>
  /\ queue' = <<>>
  /\ UNCHANGED rows

(* One turn of the prefill loop: the chunk's taps go into the drafter. *)
Prefill ==
  /\ pc = "prefill"
  /\ IF stop
     THEN Return("cancelled") /\ UNCHANGED <<kv, pos, rows, committed>>
     ELSE /\ Fits(Len(Chunk)) /\ pos = committed
          /\ kv' = Forwarded(Chunk)
          /\ rows' = Injected(SubSeq(kv', pos + 1, pos + Len(Chunk)), pos)
          /\ pos' = pos + Len(Chunk)
          /\ committed' = committed + Len(Chunk)
          /\ IF pos' < Len(prompt) THEN UNCHANGED <<status, pc>>
             ELSE IF cap = 0 THEN Return("complete")
             ELSE status' = status /\ pc' = "first"
  /\ UNCHANGED <<script, cap, minThink, prompt, reply, stop, late, drawn, idLast, drafts, queue>>

(* The first token is drawn from the prefill logits, before any round. *)
FirstToken ==
  /\ pc = "first"
  /\ drawn' = drawn + 1
  /\ \E t \in Draws(drawn + 1, kv, minThink > 0) :
       /\ idLast' = t
       /\ IF t \in Eog THEN Return("complete") /\ UNCHANGED <<reply, late>>
                       ELSE EmitToken(t, "poll")
  /\ UNCHANGED <<script, cap, minThink, prompt, stop, kv, pos, rows, committed, drafts, queue>>

(* What a round drafts: nothing, or what is left of a drafted block. *)
DraftBlock ==
  \/ drafts' = <<>> /\ pc' = "step" /\ UNCHANGED rows
  \/ /\ NDraft > 0 /\ pos = committed /\ Fits(NDraft + 1)
     /\ rows' = Dirtied(NDraft + 1)
     /\ drafts' \in DraftOutcomes(NDraft)
     /\ pc' = IF drafts' = <<>> THEN "step" ELSE "verify"

(* Mutant of Draft: rounds do not poll. *)
DraftUnpolled ==
  /\ pc = "poll"
  /\ status' = status /\ DraftBlock
  /\ UNCHANGED <<script, cap, minThink, prompt, reply, stop, late, kv, pos, drawn,
                 committed, idLast, queue>>

(* Mutant of Draft: a stop skips the round where it should end the loop. *)
DraftContinues ==
  /\ pc = "poll" /\ ~stop
  /\ status' = status /\ DraftBlock
  /\ UNCHANGED <<script, cap, minThink, prompt, reply, stop, late, kv, pos, drawn,
                 committed, idLast, queue>>

(* The head of a round: poll, then draft, or leave it to a plain step.     *)
Draft ==
  /\ pc = "poll"
  /\ IF stop
     THEN Return("cancelled") /\ UNCHANGED <<rows, drafts>>
     ELSE status' = status /\ DraftBlock
  /\ UNCHANGED <<script, cap, minThink, prompt, reply, stop, late, kv, pos, drawn,
                 committed, idLast, queue>>

(* No usable draft: one plain decode step. *)
PlainStep ==
  /\ pc = "step"
  /\ Fits(1) /\ pos = committed
  /\ kv' = Forwarded(<<idLast>>)
  /\ rows' = Injected(<<LastOf(kv')>>, pos)
  /\ committed' = committed + 1
  /\ pos' = pos + 1
  /\ drawn' = drawn + 1
  /\ \E t \in Draws(drawn + 1, kv', Len(out) < minThink) : queue' = <<t>> /\ idLast' = t
  /\ pc' = "emit"
  /\ UNCHANGED <<script, cap, minThink, prompt, reply, status, stop, late, drafts>>

(* Mutant of Verify: a token is drawn for every row of the block. *)
VerifyDrawsAll ==
  /\ pc = "verify"
  /\ Fits(Len(Block))
  /\ kv' = Forwarded(Block)
  /\ queue' \in Walks(drafts, kv', cap - Len(out))
  /\ drawn' = drawn + Len(Block)
  /\ pc' = "commit"
  /\ UNCHANGED <<script, cap, minThink, prompt, reply, status, stop, late, pos,
                 rows, committed, idLast, drafts>>

(* kv_checkpoint, the verify forward over the whole block, and the walk.   *)
Verify ==
  /\ pc = "verify"
  /\ Fits(Len(Block))
  /\ kv' = Forwarded(Block)
  /\ queue' \in Walks(drafts, kv', cap - Len(out))
  /\ drawn' = drawn + Len(queue')
  /\ pc' = "commit"
  /\ UNCHANGED <<script, cap, minThink, prompt, reply, status, stop, late, pos,
                 rows, committed, idLast, drafts>>

(* Mutant of Commit: the target is not rolled back. *)
CommitUnrolled ==
  /\ pc = "commit"
  /\ pos = committed
  /\ LET keep == Len(queue)
     IN  /\ rows' = Injected(SubSeq(kv, pos + 1, pos + keep), pos)
         /\ committed' = committed + keep
         /\ pos' = pos + keep
  /\ idLast' = LastOf(queue)
  /\ drafts' = <<>>
  /\ pc' = "emit"
  /\ UNCHANGED <<script, cap, minThink, prompt, reply, status, stop, late, kv, drawn, queue>>

(* kv_rollback to the committed prefix of the block, its injection into    *)
(* the drafter, and the bookkeeping of the round.                          *)
Commit ==
  /\ pc = "commit"
  /\ pos = committed
  /\ LET keep == Len(queue)
     IN  /\ kv' = SubSeq(kv, 1, pos + keep)
         /\ rows' = Injected(SubSeq(kv, pos + 1, pos + keep), pos)
         /\ committed' = committed + keep
         /\ pos' = pos + keep
  /\ idLast' = LastOf(queue)
  /\ drafts' = <<>>
  /\ pc' = "emit"
  /\ UNCHANGED <<script, cap, minThink, prompt, reply, status, stop, late, drawn, queue>>

(* One turn of the emission loop over the committed tokens. *)
Emit ==
  /\ pc = "emit"
  /\ queue' = Tail(queue)
  /\ IF Head(queue) \in Eog
     THEN Return("complete") /\ UNCHANGED <<reply, late>>
     ELSE EmitToken(Head(queue), IF queue' = <<>> THEN "poll" ELSE "emit")
  /\ UNCHANGED <<script, cap, minThink, prompt, stop, kv, pos, drawn,
                 rows, committed, idLast, drafts>>

Step == Prefill \/ FirstToken \/ Draft \/ PlainStep \/ Verify \/ Commit \/ Emit

Next ==
  \/ SpecReset
  \/ \E p \in Prompts, max \in Budgets, floor \in Floors : Check(p, max, floor) /\ UNCHANGED dvars
  \/ Step
  \/ (RequestStop \/ Fail) /\ UNCHANGED dvars

(* The loop runs whenever it can; nobody owes a call, a stop or a failure. *)
Spec == Init /\ [][Next]_vars /\ WF_vars(Step)

-----------------------------------------------------------------------------
(* Properties *)

(* One check of prompt + max_tokens against max_ctx is enough, although a  *)
(* verify feeds tokens that may be rejected: no forward, no draft block    *)
(* and no injection of the call ever trips its guard.                      *)
BudgetSuffices ==
  /\ pc = "prefill" => Fits(Len(Chunk)) /\ pos = committed
  /\ pc \in {"poll", "step"} => Fits(1) /\ pos = committed
  /\ pc = "poll" /\ NDraft > 0 => Fits(NDraft + 1)
  /\ pc = "verify" => Fits(Len(Block)) /\ pos = committed
  /\ pc = "commit" => pos = committed

(* At a round boundary the target's caches hold exactly the prompt and the *)
(* emitted tokens but the last, whatever was drafted and rejected before,  *)
(* and the drafter's committed rows were fused from those very positions.  *)
CachesAtBoundary ==
  pc \in {"poll", "step", "verify"} =>
    /\ kv = Cells(prompt \o SubSeq(out, 1, Len(out) - 1))
    /\ idLast = LastOf(out)
    /\ pos = Len(kv) /\ committed = pos
    /\ \A p \in 0..(committed - 1) : rows[p] = kv[p + 1]

(* The sampler advances once per committed token, in sequence order: what  *)
(* was drawn is what was or will be emitted, and no row past the stopping  *)
(* row was drawn.                                                          *)
OneDrawPerToken ==
  status = "running" =>
    /\ drawn = Len(out) + Len(queue)
    /\ out \o queue = SubSeq(script, 1, drawn)

(* The exit state plain decode leaves (the same formula as PlainDecode's): *)
(* an EOG or a token at the cap is never retained in the caches.           *)
ExitState ==
  status = "complete" /\ cap > 0 =>
    /\ kv = Cells(prompt \o SubSeq(script, 1, drawn - 1))
    /\ drawn = IF Len(out) = cap THEN cap ELSE Len(out) + 1

(* A stop request is honoured within the round in flight. *)
StopsWithinRound == late <= DraftWidth + 1

(* The doc of generate: should_stop is "polled once per prefill chunk and  *)
(* once per decoded token", so at most the token being drawn still appears.*)
PolledPerToken == late <= 1

(* A running call ends: every round commits at least one token. *)
Terminates == status = "running" ~> status # "running"
=============================================================================
