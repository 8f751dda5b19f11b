--------------------------- MODULE PauseController ---------------------------
(***************************************************************************)
(* The auto-pause of speculative decode (PauseController in                *)
(* src/generate.rs): per round it chooses between drafting and a plain     *)
(* step, from what the rounds so far cost.                                 *)
(*                                                                         *)
(* Wall-clock costs are not modelled: wherever the code compares two costs *)
(* the outcome is left open, so everything below holds for every sequence  *)
(* of measurements.  A moving average is present exactly when a sample was *)
(* folded into it, so the sample counts stand for both.                    *)
(***************************************************************************)
EXTENDS Integers

CONSTANTS
  WarmupSpec,            (* WARMUP_SPEC                                   *)
  WarmupPlain,           (* WARMUP_PLAIN                                  *)
  ForcePlainEvery,       (* FORCE_PLAIN_EVERY                             *)
  WarmupForcePlainEvery, (* WARMUP_FORCE_PLAIN_EVERY                      *)
  ProbePair,             (* PROBE_PAIR                                    *)
  BackoffStart,          (* BACKOFF_START                                 *)
  BackoffCap,            (* BACKOFF_CAP                                   *)
  MaxCommit              (* most tokens a round commits, draft_max + 1    *)

ASSUME ControllerAssumption ==
  /\ WarmupSpec \in Nat \ {0}
  /\ WarmupPlain \in Nat \ {0}
  /\ ForcePlainEvery \in Nat \ {0}
  /\ WarmupForcePlainEvery \in 1..ForcePlainEvery
  /\ ProbePair \in Nat \ {0}
  /\ BackoffStart \in Nat \ {0}
  /\ BackoffCap \in Nat /\ BackoffStart <= BackoffCap
  /\ MaxCommit \in Nat \ {0}

VARIABLES
  margin,         (* is auto-pause on (margin > 0) or off (margin = 0)    *)
  state,          (* PauseState                                           *)
  backoff,        (* the backoff of PauseState::Paused                    *)
  specSamples,    (* spec_samples, up to the warm-up it is compared with  *)
  plainSamples,   (* plain_samples, likewise                              *)
  sincePlain,     (* rounds_since_plain, up to FORCE_PLAIN_EVERY          *)
  sinceProbe,     (* tokens_since_probe, up to BACKOFF_CAP                *)
  probeRounds,    (* probe_event: its rounds; 0 when there is no event    *)
  probeReal,      (* probe_event: its real rounds                         *)
  rounds,         (* history: rounds so far, up to the warm-up horizon    *)
  stale,          (* history: rounds since a plain sample, up to StaleCap *)
  lull            (* history: plain rounds in a row while paused, up to   *)
                  (* BackoffCap + 1                                       *)

pauseVars == <<margin, state, backoff, specSamples, plainSamples, sincePlain,
               sinceProbe, probeRounds, probeReal, rounds, stale, lull>>

Capped(n, top) == IF n <= top THEN n ELSE top

(* The longest a plain measurement may be left unrefreshed, and the rounds *)
(* within which the plain warm-up must be over.                            *)
FreshBound == ForcePlainEvery + ProbePair
WarmupHorizon == WarmupPlain * (WarmupForcePlainEvery + 1)
StaleCap == FreshBound + 1

PauseInit ==
  /\ margin \in {"off", "on"}
  /\ state = "active"
  /\ backoff = BackoffStart
  /\ specSamples = 0
  /\ plainSamples = 0
  /\ sincePlain = 0
  /\ sinceProbe = 0
  /\ probeRounds = 0
  /\ probeReal = 0
  /\ rounds = 0
  /\ stale = 0
  /\ lull = 0

(* Mutant of Cadence: no tighter cadence during the warm-up. *)
CadenceLoose == ForcePlainEvery

(* force_plain_every *)
Cadence == IF plainSamples < WarmupPlain THEN WarmupForcePlainEvery ELSE ForcePlainEvery

(* Mutant of NextKind: an active round always drafts. *)
NextKindUnforced ==
  IF margin = "off" \/ state = "active" THEN "Spec"
  ELSE IF probeRounds > 0 \/ sinceProbe >= backoff THEN "Probe" ELSE "PausedPlain"

(* Mutant of NextKind: a probe waits for one token more than the backoff. *)
NextKindLate ==
  IF margin = "off" THEN "Spec"
  ELSE IF state = "active"
       THEN IF sincePlain >= Cadence THEN "ForcedPlain" ELSE "Spec"
       ELSE IF probeRounds > 0 \/ sinceProbe > backoff THEN "Probe" ELSE "PausedPlain"

(* next_kind *)
NextKind ==
  IF margin = "off" THEN "Spec"
  ELSE IF state = "active"
       THEN IF sincePlain >= Cadence THEN "ForcedPlain" ELSE "Spec"
       ELSE IF probeRounds > 0 \/ sinceProbe >= backoff THEN "Probe" ELSE "PausedPlain"

(* A round that was to draft may find nothing to draft and run plain; a    *)
(* round that drafted commits 1 to MaxCommit tokens, a plain one just one. *)
Outcome(ranSpec, count) ==
  /\ NextKind \in {"ForcedPlain", "PausedPlain"} => ~ranSpec
  /\ IF ranSpec THEN count \in 1..MaxCommit ELSE count = 1

(* record: fold the round into the average of its kind. *)
Fold(ranSpec) ==
  /\ IF ranSpec
     THEN /\ specSamples' = Capped(specSamples + 1, WarmupSpec)
          /\ stale' = Capped(stale + 1, StaleCap)
          /\ UNCHANGED plainSamples
     ELSE /\ plainSamples' = Capped(plainSamples + 1, WarmupPlain)
          /\ stale' = 0
          /\ UNCHANGED specSamples
  /\ rounds' = Capped(rounds + 1, WarmupHorizon)
  /\ UNCHANGED margin

(* warm, after the round's own sample *)
WarmNow == specSamples' >= WarmupSpec /\ plainSamples' >= WarmupPlain

(* record in the Active state. *)
ActiveRound(ranSpec, count) ==
  /\ state = "active"
  /\ Outcome(ranSpec, count)
  /\ Fold(ranSpec)
  /\ sincePlain' = IF ranSpec THEN Capped(sincePlain + 1, ForcePlainEvery) ELSE 0
  /\ \/ UNCHANGED <<state, backoff, sinceProbe>>
     \/ /\ margin = "on" /\ WarmNow      \* spec_cost > ema_plain * margin
        /\ state' = "paused"
        /\ backoff' = BackoffStart
        /\ sinceProbe' = 0
  /\ lull' = 0
  /\ UNCHANGED <<probeRounds, probeReal>>

(* Mutant of PausedRound: its token does not count towards the backoff. *)
PausedRoundUncounted ==
  /\ state = "paused" /\ NextKind = "PausedPlain"
  /\ Outcome(FALSE, 1)
  /\ Fold(FALSE)
  /\ lull' = Capped(lull + 1, BackoffCap + 1)
  /\ UNCHANGED <<state, backoff, sincePlain, sinceProbe, probeRounds, probeReal>>

(* record of a paused round that does not probe. *)
PausedRound ==
  /\ state = "paused" /\ NextKind = "PausedPlain"
  /\ Outcome(FALSE, 1)
  /\ Fold(FALSE)
  /\ sinceProbe' = Capped(sinceProbe + 1, BackoffCap)
  /\ lull' = Capped(lull + 1, BackoffCap + 1)
  /\ UNCHANGED <<state, backoff, sincePlain, probeRounds, probeReal>>

(* A probe round, and what it adds to the event in flight. *)
Probe(ranSpec, count) ==
  /\ state = "paused" /\ NextKind = "Probe"
  /\ Outcome(ranSpec, count)
  /\ Fold(ranSpec)
  /\ lull' = 0

(* Mutant of RealAfter: a probe round that drafted nothing counts, too. *)
RealAfterAny(ranSpec) == probeReal + 1

(* The rounds of the pair that drafted, after this one. *)
RealAfter(ranSpec) == probeReal + (IF ranSpec THEN 1 ELSE 0)

(* record of a probe round that leaves the pair incomplete. *)
ProbeGoesOn(ranSpec, count) ==
  /\ Probe(ranSpec, count)
  /\ probeRounds + 1 < ProbePair
  /\ probeRounds' = probeRounds + 1
  /\ probeReal' = RealAfter(ranSpec)
  /\ sinceProbe' = Capped(sinceProbe + count, BackoffCap)
  /\ UNCHANGED <<state, backoff, sincePlain>>

(* The backoff after a pair that failed. *)
Doubled == Capped(backoff * 2, BackoffCap)

(* Mutant of ProbeEnds: a resume keeps the count it was paused with. *)
ProbeEndsUnreset(ranSpec, count) ==
  /\ Probe(ranSpec, count)
  /\ probeRounds + 1 >= ProbePair
  /\ probeRounds' = 0
  /\ probeReal' = 0
  /\ UNCHANGED sincePlain
  /\ IF RealAfter(ranSpec) > 0
     THEN /\ sinceProbe' = 0
          /\ \/ plainSamples' > 0 /\ state' = "active" /\ UNCHANGED backoff
             \/ backoff' = Doubled /\ UNCHANGED state
     ELSE /\ sinceProbe' = Capped(sinceProbe + count, BackoffCap)
          /\ UNCHANGED <<state, backoff>>

(* record of the probe round that completes the pair: with a real round in *)
(* it the pair decides, on its own rate; without one it only ends.         *)
ProbeEnds(ranSpec, count) ==
  /\ Probe(ranSpec, count)
  /\ probeRounds + 1 >= ProbePair
  /\ probeRounds' = 0
  /\ probeReal' = 0
  /\ IF RealAfter(ranSpec) > 0
     THEN /\ sinceProbe' = 0
          /\ \/ plainSamples' > 0 /\ state' = "active"   \* resume
                /\ sincePlain' = 0 /\ UNCHANGED backoff
             \/ /\ backoff' = Doubled
                /\ UNCHANGED <<state, sincePlain>>
     ELSE /\ sinceProbe' = Capped(sinceProbe + count, BackoffCap)
          /\ UNCHANGED <<state, backoff, sincePlain>>

Round ==
  \/ PausedRound
  \/ \E ranSpec \in BOOLEAN, count \in 1..MaxCommit :
       ActiveRound(ranSpec, count) \/ ProbeGoesOn(ranSpec, count) \/ ProbeEnds(ranSpec, count)

(* The decode loop runs round after round. *)
PauseSpec == PauseInit /\ [][Round]_pauseVars /\ WF_pauseVars(Round)

-----------------------------------------------------------------------------
(* Properties *)

TypeOK ==
  /\ margin \in {"off", "on"}
  /\ state \in {"active", "paused"}
  /\ backoff \in BackoffStart..BackoffCap
  /\ specSamples \in 0..WarmupSpec
  /\ plainSamples \in 0..WarmupPlain
  /\ sincePlain \in 0..ForcePlainEvery
  /\ sinceProbe \in 0..BackoffCap
  /\ probeRounds \in 0..(ProbePair - 1)
  /\ probeReal \in 0..probeRounds
  /\ rounds \in 0..WarmupHorizon
  /\ stale \in 0..StaleCap
  /\ lull \in 0..(BackoffCap + 1)

(* The cost of a plain step is measured again before it is FreshBound      *)
(* drafting rounds old, in whatever way the controller moves between       *)
(* active, paused and probing (rounds_since_plain: "so ema_plain_ms never  *)
(* goes stale on a run where speculation always wins").                    *)
PlainStaysFresh == margin = "on" => stale <= FreshBound

(* A run that always drafts still has its plain warm-up after WarmupPlain  *)
(* turns of the tight cadence, early enough to pause a short run.          *)
WarmsUpEarly ==
  margin = "on" /\ rounds >= WarmupHorizon => plainSamples >= WarmupPlain

(* A forced plain round costs a round of drafting, and is asked for only   *)
(* when the plain measure really is that old: Cadence drafting rounds have *)
(* run since its latest sample, counted across the pauses, probes and empty*)
(* drafts between (a resume starts rounds_since_plain over, so what it had *)
(* reached before the pause never forces a round after it).                *)
ForcedOnlyWhenStale == NextKind = "ForcedPlain" => stale >= Cadence

(* No more than a backoff's worth of plain rounds separate two probes, and *)
(* a pair once begun is finished before any plain round: while paused the  *)
(* controller never loses sight of a world that has recovered.             *)
ProbesOnTime ==
  /\ state = "paused" => lull <= backoff
  /\ probeRounds > 0 => state = "paused" /\ lull = 0 /\ sinceProbe >= backoff

(* A pause is left, and its backoff lengthened, only by a pair that drafted*)
(* in one of its two rounds; a backoff starts over only with a new pause.  *)
BackoffDiscipline ==
  [][LET drafted == stale > 0 \/ stale' > 0
     IN  /\ state = "paused" /\ state' = "active" => drafted /\ sinceProbe' = 0
         /\ backoff' # backoff =>
              \/ /\ state = "paused" /\ state' = "paused" /\ drafted
                 /\ backoff' = Capped(2 * backoff, BackoffCap) /\ sinceProbe' = 0
              \/ state = "active" /\ state' = "paused" /\ backoff' = BackoffStart]_pauseVars

(* Speculation is never given up for good: drafting is tried again and     *)
(* again, however the measurements fall.                                   *)
KeepsTrying == []<>(NextKind \in {"Spec", "Probe"})
=============================================================================
