-------------------------- MODULE PlainDecodeProofs --------------------------
(***************************************************************************)
(* Plain decode keeps its promise for every prompt, cap, context, chunk    *)
(* size and reasoning floor: it implements TokenStream, no forward ever    *)
(* overruns the context, and the caches it leaves hold the prompt and the  *)
(* reply.  Up to there nothing is assumed of the stream decoder: whether it*)
(* takes a token or rejects it, the argument is the same.  That it takes   *)
(* every token, and that the text is the reply's, comes last.              *)
(***************************************************************************)
EXTENDS PlainDecode, Lemmas, TLAPS

Turning == {"prefill", "poll", "draw", "forward"}

(* The caches, after the whole prompt and n tokens of the reply.           *)
Fed(n) == kv = Cells(prompt \o SubSeq(script, 1, n)) /\ pos = Len(prompt) + n

(* A call that runs was accepted.                                          *)
Accepted ==
  /\ status = "running" <=> pc \in Turning
  /\ pc = "check" => status = "idle" /\ out = <<>> /\ late = 0 /\ kv = <<>> /\ pos = 0 /\ drawn = 0
  /\ pc \in Turning =>
       /\ Len(prompt) + cap <= MaxCtx
       /\ script \in [1..MaxNew -> Tokens]

Prefilling ==
  pc = "prefill" =>
    /\ drawn = 0 /\ out = <<>>
    /\ pos < Len(prompt) /\ kv = Cells(SubSeq(prompt, 1, pos))

(* The reply is what the sampler draws over the prompt and the reply so    *)
(* far; between the draw and the forward its last token is not fed yet.    *)
Decoding ==
  pc \in {"poll", "draw", "forward"} =>
    /\ drawn < cap
    /\ out = SubSeq(script, 1, drawn)
    /\ IF pc = "forward" THEN drawn > 0 /\ Fed(drawn - 1) ELSE Fed(drawn)

(* The flag is looked at between any two draws.                            *)
Polled ==
  /\ late <= 1
  /\ (~stop \/ pc \in {"prefill", "draw"}) => late = 0

IInv == TypeOK /\ Accepted /\ Prefilling /\ Decoding /\ Polled /\ ExitState

-----------------------------------------------------------------------------
(* The cells of the caches. *)

LEMMA Associates ==
  ASSUME NEW a \in Seq(Tokens), NEW b \in Seq(Tokens), NEW c \in Seq(Tokens)
  PROVE  (a \o b) \o c = a \o (b \o c)
  BY ConcatAssociative

LEMMA CellsOf ==
  ASSUME NEW q \in Seq(Tokens)
  PROVE  /\ Cells(q) = CellsAt(0, q)
         /\ Cells(q) \in Seq(Nat \X Tokens)
         /\ Len(Cells(q)) = Len(q)
<1>1. Cells(q) = CellsAt(0, q)
  <2>1. \A i \in DOMAIN q : i - 1 = 0 + i - 1
    BY LenProperties
  <2> QED
    BY <2>1 DEF Cells, CellsAt
<1>2. 0 \in Nat
  OBVIOUS
<1>3. CellsAt(0, q) \in Seq(Nat \X Tokens) /\ Len(CellsAt(0, q)) = Len(q)
  BY <1>2, CellsAtOf, Zenon
<1> QED
  BY <1>1, <1>3, Zenon

(* The caches after a forward are the cells of what was fed before and of  *)
(* what it feeds.                                                          *)
LEMMA Feeds ==
  ASSUME NEW q \in Seq(Tokens), NEW x \in Seq(Tokens), kv = Cells(q), pos = Len(q)
  PROVE  Forwarded(x) = Cells(q \o x)
<1>1. q \o x \in Seq(Tokens) /\ Len(q) \in Nat
  BY ConcatProperties, LenProperties
<1>2. Forwarded(x) = CellsAt(0, q) \o CellsAt(Len(q), x)
  BY CellsOf DEF Forwarded, CellsAt
<1>3. IsJoin(CellsAt(0, q \o x), CellsAt(0, q), CellsAt(0 + Len(q), x))
  BY CellsJoin
<1>4. 0 + Len(q) = Len(q)
  BY <1>1
<1>5. Cells(q \o x) = CellsAt(0, q \o x)
  BY <1>1, CellsOf
<1> QED
  BY <1>2, <1>3, <1>4, <1>5, Zenon DEF IsJoin

-----------------------------------------------------------------------------
(* The steps of a call. *)

LEMMA Assumed ==
  /\ MaxNew \in Nat /\ MaxCtx \in Nat
  /\ PrefillChunk \in Nat /\ PrefillChunk > 0
  /\ \A p \in Prompts : p \in Seq(Tokens)
  /\ \A max \in Budgets : max \in 0..MaxNew
  BY GenerationAssumption

LEMMA Nothing ==
  /\ <<>> \in Seq(Tokens) /\ <<>> \in Seq(Nat \X Tokens) /\ Len(<<>>) = 0
  BY EmptySeq

LEMMA ScriptOf ==
  ASSUME script \in [1..MaxNew -> Tokens]
  PROVE  script \in Seq(Tokens) /\ Len(script) = MaxNew
  BY Assumed, IsSequence

LEMMA InitInv == Init => IInv
<1> SUFFICES ASSUME Init PROVE IInv
  OBVIOUS
<1>1. TypeOK
  <2>1. kv \in Seq(Nat \X Tokens) /\ out \in Seq(Tokens) /\ prompt \in Seq(Tokens) /\ Len(out) = 0
    BY Nothing, Zenon DEF Init, GenInit
  <2>2. script \in {<<>>} /\ 0 \in 0..MaxNew /\ 0 \in 0..MaxCtx
    BY Assumed DEF Init, GenInit
  <2>3. /\ cap = 0 /\ minThink = 0 /\ status = "idle" /\ pc = "return"
        /\ stop = FALSE /\ late = 0 /\ pos = 0 /\ drawn = 0
    BY DEF Init, GenInit
  <2>4. Len(out) <= cap
    BY <2>1, <2>3
  <2> QED
    BY ONLY <2>1, <2>2, <2>3, <2>4 DEF TypeOK, Statuses
<1>2. Accepted /\ Prefilling /\ Decoding /\ Polled /\ ExitState
  BY DEF Init, GenInit, Accepted, Prefilling, Decoding, Polled, ExitState, Turning
<1> QED
  BY <1>1, <1>2 DEF IInv

LEMMA ResetStep ==
  ASSUME IInv, Reset
  PROVE  IInv'
<1>1. TypeOK'
  <2>1. /\ kv' \in Seq(Nat \X Tokens) /\ out' \in Seq(Tokens) /\ prompt' \in Seq(Tokens)
        /\ Len(out') = 0
    BY Nothing, Zenon DEF Reset
  <2>2. script' \in {<<>>} /\ 0 \in 0..MaxNew /\ 0 \in 0..MaxCtx
    BY Assumed DEF Reset
  <2>3. /\ cap' = 0 /\ minThink' = 0 /\ status' = "idle" /\ pc' = "check"
        /\ stop' = FALSE /\ late' = 0 /\ pos' = 0 /\ drawn' = 0
    BY DEF Reset
  <2>4. Len(out') <= cap'
    BY <2>1, <2>3
  <2> QED
    BY ONLY <2>1, <2>2, <2>3, <2>4 DEF TypeOK, Statuses
<1>2. (Accepted /\ Prefilling /\ Decoding /\ Polled /\ ExitState)'
  BY DEF Reset, Accepted, Prefilling, Decoding, Polled, ExitState, Turning
<1> QED
  BY <1>1, <1>2 DEF IInv

LEMMA CheckStep ==
  ASSUME IInv, NEW p \in Prompts, NEW max \in Budgets, NEW floor \in Floors,
         Check(p, max, floor)
  PROVE  IInv'
<1>1. /\ p \in Seq(Tokens) /\ Len(p) \in Nat /\ max \in 0..MaxNew
      /\ p # <<>> => Len(p) > 0
  BY Assumed, EmptySeq, LenProperties
<1>2. /\ pc = "check" /\ prompt' = p /\ cap' = max /\ minThink' = floor
      /\ script' \in Scripts(floor)
      /\ UNCHANGED <<out, late, stop, kv, pos, drawn>>
      /\ \/ /\ p # <<>> /\ Len(p) + max <= MaxCtx
            /\ status' = "running" /\ pc' = "prefill"
         \/ status' = "refused" /\ pc' = "return"
  BY DEF Check, reply
<1>3. out = <<>> /\ late = 0 /\ kv = <<>> /\ pos = 0 /\ drawn = 0
  BY <1>2 DEF IInv, Accepted
<1>4. TypeOK'
  BY <1>1, <1>2, <1>3, Assumed, EmptySeq DEF IInv, TypeOK, Statuses
<1>5. Accepted'
  BY <1>1, <1>2 DEF Accepted, Turning, Scripts
<1>6. Prefilling'
  <2>1. SubSeq(p, 1, 0) = <<>> /\ Cells(<<>>) = <<>>
    BY <1>1, SubSeqEmpty DEF Cells
  <2> QED
    BY <1>1, <1>2, <1>3, <2>1 DEF Prefilling
<1>7. (Decoding /\ Polled /\ ExitState)'
  BY <1>2, <1>3 DEF Decoding, Polled, ExitState
<1> QED
  BY <1>4, <1>5, <1>6, <1>7 DEF IInv

LEMMA StopStep ==
  ASSUME IInv, RequestStop
  PROVE  IInv'
<1>1. /\ UNCHANGED <<script, cap, minThink, prompt, out, status, pc, late, kv, pos, drawn>>
      /\ ~stop /\ stop' = TRUE
  BY DEF RequestStop, reply
<1>2. TypeOK' /\ Accepted' /\ Prefilling' /\ Decoding' /\ ExitState'
  BY <1>1 DEF IInv, TypeOK, Accepted, Prefilling, Decoding, ExitState, Fed
<1>3. Polled'
  BY <1>1 DEF IInv, Polled
<1> QED
  BY <1>2, <1>3 DEF IInv

(* A call that returns keeps what the caches and the reply are.            *)
LEMMA LeaveStep ==
  ASSUME IInv, pc' = "return", status' \in {"cancelled", "failed"},
         UNCHANGED <<script, cap, minThink, prompt, out, stop, late>>,
         kv' = kv, pos' = pos, drawn' \in 0..MaxNew
  PROVE  IInv'
<1>1. TypeOK'
  BY DEF IInv, TypeOK, Statuses
<1>2. (Accepted /\ Prefilling /\ Decoding /\ ExitState)'
  BY DEF Accepted, Prefilling, Decoding, ExitState, Turning
<1>3. Polled'
  BY DEF IInv, Polled
<1> QED
  BY <1>1, <1>2, <1>3 DEF IInv

LEMMA FailStep ==
  ASSUME IInv, Fail
  PROVE  IInv'
  BY LeaveStep DEF Fail, reply, IInv, TypeOK

LEMMA PollStep ==
  ASSUME IInv, Poll
  PROVE  IInv'
<1>1. CASE stop
  BY <1>1, LeaveStep DEF Poll, Return, reply, IInv, TypeOK
<1>2. CASE ~stop
  <2>1. /\ pc = "poll" /\ pc' = "draw"
        /\ UNCHANGED <<script, cap, minThink, prompt, out, status, stop, late, kv, pos, drawn>>
    BY <1>2 DEF Poll, reply
  <2>2. TypeOK' /\ Accepted' /\ Prefilling' /\ ExitState'
    BY <2>1 DEF IInv, TypeOK, Accepted, Prefilling, ExitState, Turning
  <2>3. Decoding' /\ Polled'
    BY <1>2, <2>1 DEF IInv, Decoding, Polled, Fed
  <2> QED
    BY <2>2, <2>3 DEF IInv
<1> QED
  BY <1>1, <1>2

LEMMA NextChunk ==
  ASSUME prompt \in Seq(Tokens), pos \in Nat, pos < Len(prompt)
  PROVE  /\ Chunk \in Seq(Tokens)
         /\ Len(Chunk) \in 1..(Len(prompt) - pos)
         /\ SubSeq(prompt, 1, pos) \o Chunk = SubSeq(prompt, 1, pos + Len(Chunk))
<1> DEFINE n == Smaller(pos + PrefillChunk, Len(prompt))
<1>1. Len(prompt) \in Nat
  BY LenProperties
<1>2. n \in Nat /\ pos < n /\ pos <= n /\ n <= Len(prompt)
  BY <1>1, Assumed DEF Smaller
<1>3. Chunk = SubSeq(prompt, pos + 1, n)
  BY DEF Chunk
<1> HIDE DEF n
<1>4. /\ Chunk \in Seq(Tokens) /\ Len(Chunk) = n - pos
      /\ SubSeq(prompt, 1, pos) \o Chunk = SubSeq(prompt, 1, n)
  <2>1. /\ SubSeq(prompt, pos + 1, n) \in Seq(Tokens)
        /\ Len(SubSeq(prompt, pos + 1, n)) = n - pos
        /\ SubSeq(prompt, 1, pos) \o SubSeq(prompt, pos + 1, n) = SubSeq(prompt, 1, n)
    BY <1>2, PrefixChunk, Zenon
  <2> QED
    BY <1>3, <2>1
<1>5. pos + Len(Chunk) = n
  BY <1>2, <1>4
<1> QED
  BY <1>1, <1>2, <1>4, <1>5

(* What a turn of the prefill leaves, unless it stops.                     *)
LEMMA ChunkFed ==
  ASSUME IInv, Prefill, ~stop
  PROVE  /\ prompt \in Seq(Tokens) /\ Len(prompt) + cap <= MaxCtx
         /\ pos' \in 0..Len(prompt)
         /\ kv' = Cells(SubSeq(prompt, 1, pos'))
         /\ drawn = 0 /\ out = <<>> /\ late = 0
         /\ script \in [1..MaxNew -> Tokens]
         /\ UNCHANGED <<script, cap, minThink, prompt, out, stop, late, drawn>>
         /\ \/ pos' < Len(prompt) /\ UNCHANGED <<status, pc>>
            \/ pos' = Len(prompt) /\ cap = 0 /\ status' = "complete" /\ pc' = "return"
            \/ pos' = Len(prompt) /\ cap > 0 /\ status' = status /\ pc' = "poll"
<1>1. pc = "prefill" /\ prompt \in Seq(Tokens) /\ cap \in Nat /\ pos \in Nat
  BY DEF Prefill, IInv, TypeOK
<1>2. /\ drawn = 0 /\ out = <<>> /\ late = 0 /\ pos < Len(prompt)
      /\ kv = Cells(SubSeq(prompt, 1, pos))
      /\ script \in [1..MaxNew -> Tokens] /\ Len(prompt) + cap <= MaxCtx
  BY <1>1 DEF IInv, Accepted, Prefilling, Polled, Turning
<1>3. /\ Chunk \in Seq(Tokens)
      /\ Len(Chunk) \in 1..(Len(prompt) - pos)
      /\ SubSeq(prompt, 1, pos) \o Chunk = SubSeq(prompt, 1, pos + Len(Chunk))
  BY <1>1, <1>2, NextChunk
<1>4. Len(prompt) \in Nat
  BY <1>1, LenProperties
<1>5. Forwarded(Chunk) = Cells(SubSeq(prompt, 1, pos + Len(Chunk)))
  <2>1. SubSeq(prompt, 1, pos) \in Seq(Tokens) /\ Len(SubSeq(prompt, 1, pos)) = pos
    BY <1>1, <1>2, <1>4, PrefixOf
  <2> QED
    BY <1>2, <1>3, <2>1, Feeds
<1>6. pos' = pos + Len(Chunk) /\ kv' = Forwarded(Chunk)
  BY <1>1 DEF Prefill
<1>7. pos' \in 0..Len(prompt)
  BY <1>1, <1>3, <1>4, <1>6
<1>8. \/ pos' < Len(prompt) /\ UNCHANGED <<status, pc>>
      \/ ~(pos' < Len(prompt)) /\ cap = 0 /\ status' = "complete" /\ pc' = "return"
      \/ ~(pos' < Len(prompt)) /\ cap # 0 /\ status' = status /\ pc' = "poll"
  BY DEF Prefill, Return
<1>9. UNCHANGED <<script, cap, minThink, prompt, out, stop, late, drawn>>
  BY DEF Prefill, reply
<1> QED
  BY <1>1, <1>2, <1>4, <1>5, <1>6, <1>7, <1>8, <1>9

(* The whole prompt fed is a reply of no tokens fed.                       *)
LEMMA PromptFed ==
  ASSUME prompt \in Seq(Tokens), script \in [1..MaxNew -> Tokens]
  PROVE  /\ SubSeq(script, 1, 0) = <<>>
         /\ prompt \o SubSeq(script, 1, 0) = SubSeq(prompt, 1, Len(prompt))
<1>1. SubSeq(script, 1, 0) = <<>>
  BY SubSeqEmpty
<1>2. prompt \o <<>> = prompt
  BY ConcatEmptySeq
<1>3. SubSeq(prompt, 1, Len(prompt)) = prompt
  <2>1. Len(prompt) \in 0..Len(prompt)
    BY LenProperties
  <2> QED
    BY <2>1, PrefixOf, SeqEqual
<1> QED
  BY <1>1, <1>2, <1>3

LEMMA PrefillStep ==
  ASSUME IInv, Prefill
  PROVE  IInv'
<1>1. CASE stop
  BY <1>1, LeaveStep DEF Prefill, Return, reply, IInv, TypeOK
<1>2. CASE ~stop
  <2>1. /\ prompt \in Seq(Tokens) /\ Len(prompt) + cap <= MaxCtx
        /\ pos' \in 0..Len(prompt)
        /\ kv' = Cells(SubSeq(prompt, 1, pos'))
        /\ drawn = 0 /\ out = <<>> /\ late = 0
        /\ script \in [1..MaxNew -> Tokens]
        /\ UNCHANGED <<script, cap, minThink, prompt, out, stop, late, drawn>>
        /\ \/ pos' < Len(prompt) /\ UNCHANGED <<status, pc>>
           \/ pos' = Len(prompt) /\ cap = 0 /\ status' = "complete" /\ pc' = "return"
           \/ pos' = Len(prompt) /\ cap > 0 /\ status' = status /\ pc' = "poll"
    BY <1>2, ChunkFed
  <2>2. Len(prompt) \in Nat /\ cap \in 0..MaxNew /\ pc = "prefill"
    BY <2>1, LenProperties DEF IInv, TypeOK, Prefill
  <2>3. TypeOK'
    <3>1. pos' \in 0..MaxCtx
      BY <2>1, <2>2, Assumed
    <3>2. kv' \in Seq(Nat \X Tokens)
      <4>1. SubSeq(prompt, 1, pos') \in Seq(Tokens)
        BY <2>1, PrefixOf
      <4> QED
        BY <2>1, <4>1, CellsOf
    <3> QED
      BY <2>1, <3>1, <3>2 DEF IInv, TypeOK, Statuses
  <2>4. Accepted'
    BY <2>1, <2>2 DEF IInv, Accepted, Turning
  <2>5. Prefilling' /\ Polled' /\ ExitState'
    BY <2>1, <2>2 DEF IInv, Prefilling, Polled, ExitState
  <2>6. Decoding'
    <3>1. CASE pos' = Len(prompt) /\ cap > 0 /\ pc' = "poll"
      <4>1. /\ SubSeq(script, 1, 0) = <<>>
            /\ prompt \o SubSeq(script, 1, 0) = SubSeq(prompt, 1, Len(prompt))
        BY <2>1, PromptFed
      <4>2. kv' = Cells(prompt \o SubSeq(script, 1, 0)) /\ pos' = Len(prompt) + 0
        <5>1. kv' = Cells(SubSeq(prompt, 1, Len(prompt)))
          BY <2>1, <3>1, Zenon
        <5>2. pos' = Len(prompt) + 0
          BY <2>2, <3>1
        <5> QED
          BY <4>1, <5>1, <5>2, Zenon
      <4>3. Fed(drawn)'
        BY <2>1, <4>2 DEF Fed
      <4>4. drawn' < cap' /\ out' = SubSeq(script', 1, drawn')
        BY <2>1, <3>1, <4>1
      <4> QED
        BY <3>1, <4>3, <4>4 DEF Decoding
    <3>2. CASE pc' \in {"prefill", "return"}
      BY <3>2 DEF Decoding
    <3> QED
      BY <2>1, <2>2, <3>1, <3>2
  <2> QED
    BY <2>3, <2>4, <2>5, <2>6 DEF IInv
<1> QED
  BY <1>1, <1>2

(* The next draw is the next token of the script: the context and the mask *)
(* are the ones the script was drawn with.                                 *)
LEMMA DrawIs ==
  ASSUME IInv, pc = "draw"
  PROVE  /\ drawn \in Nat /\ drawn < cap /\ cap <= MaxNew /\ Len(out) = drawn
         /\ out = SubSeq(script, 1, drawn)
         /\ script \in Seq(Tokens) /\ Len(script) = MaxNew
         /\ Fed(drawn)
         /\ Draws(drawn + 1, kv, Len(out) < minThink) = {script[drawn + 1]}
<1>1. /\ script \in [1..MaxNew -> Tokens] /\ drawn < cap
      /\ out = SubSeq(script, 1, drawn) /\ Fed(drawn)
  BY DEF IInv, Accepted, Decoding, Turning
<1>2. drawn \in Nat /\ cap \in 0..MaxNew /\ minThink \in Nat /\ MaxNew \in Nat
  BY GenerationAssumption DEF IInv, TypeOK
<1>3. script \in Seq(Tokens) /\ Len(script) = MaxNew
  BY <1>1, ScriptOf
<1>4. Len(out) = drawn
  BY <1>1, <1>2, <1>3, PrefixOf
<1>5. /\ drawn + 1 \in 1..MaxNew
      /\ kv = Cells(prompt \o SubSeq(script, 1, (drawn + 1) - 1))
      /\ (Len(out) < minThink) = (drawn + 1 <= minThink)
  <2>1. (drawn + 1) - 1 = drawn
    BY <1>2
  <2> QED
    BY <1>1, <1>2, <1>4, <2>1 DEF Fed
<1>6. Draws(drawn + 1, kv, Len(out) < minThink) = {script[drawn + 1]}
  BY <1>5, Zenon DEF Draws
<1> QED
  BY <1>1, <1>2, <1>3, <1>4, <1>6

(* So a turn ends the reply at an EOG, or says the next token of the       *)
(* script, or fails when the stream rejects it.                            *)
LEMMA DrawOutcome ==
  ASSUME IInv, DrawAndEmit
  PROVE  /\ pc = "draw" /\ drawn' = drawn + 1
         /\ UNCHANGED <<script, cap, minThink, prompt, stop, kv, pos>>
         /\ \/ /\ script[drawn + 1] \in Eog
               /\ status' = "complete" /\ pc' = "return" /\ UNCHANGED <<out, late>>
            \/ /\ script[drawn + 1] \notin Eog
               /\ out' = Append(out, script[drawn + 1])
               /\ late' = IF stop THEN late + 1 ELSE late
               /\ IF Len(out) + 1 >= cap THEN status' = "complete" /\ pc' = "return"
                                         ELSE status' = status /\ pc' = "forward"
            \/ /\ status' = "failed" /\ pc' = "return" /\ UNCHANGED <<out, late>>
<1> DEFINE t == script[drawn + 1]
<1>1. /\ pc = "draw" /\ drawn' = drawn + 1
      /\ UNCHANGED <<script, cap, minThink, prompt, stop, kv, pos>>
  BY DEF DrawAndEmit
<1>2. Draws(drawn + 1, kv, Len(out) < minThink) = {t}
  BY <1>1, DrawIs
<1>3. IF t \in Eog THEN Return("complete") /\ UNCHANGED <<reply, late>>
                   ELSE EmitToken(t, "forward")
  BY <1>2 DEF DrawAndEmit
<1> HIDE DEF t
<1>4. CASE t \in Eog
  BY <1>1, <1>3, <1>4 DEF Return, reply, t
<1>5. CASE t \notin Eog
  <2> DEFINE step == StreamStep(stream, t)
  <2>1. \/ /\ out' = Append(out, t)
           /\ late' = IF stop THEN late + 1 ELSE late
           /\ IF Len(out) + 1 >= cap THEN Return("complete")
              ELSE status' = status /\ pc' = "forward"
        \/ Return("failed") /\ UNCHANGED <<reply, late>>
    BY <1>3, <1>5, Zenon DEF EmitToken
  <2> QED
    BY <1>1, <1>5, <2>1 DEF Return, reply, t
<1> QED
  BY <1>4, <1>5

LEMMA DrawStep ==
  ASSUME IInv, DrawAndEmit
  PROVE  IInv'
<1>1. /\ pc = "draw" /\ drawn' = drawn + 1
      /\ UNCHANGED <<script, cap, minThink, prompt, stop, kv, pos>>
  BY DrawOutcome
<1>2. /\ drawn \in Nat /\ drawn < cap /\ cap <= MaxNew /\ Len(out) = drawn
      /\ out = SubSeq(script, 1, drawn)
      /\ script \in Seq(Tokens) /\ Len(script) = MaxNew
      /\ Fed(drawn)
  BY <1>1, DrawIs
<1>3. late = 0 /\ cap \in Nat /\ MaxNew \in Nat /\ drawn' \in 0..MaxNew
  BY <1>1, <1>2, Assumed DEF IInv, Polled, TypeOK
<1>4. Len(prompt) \in Nat /\ status = "running"
  BY <1>1, LenProperties DEF IInv, TypeOK, Accepted, Turning
<1>5. kv = Cells(prompt \o SubSeq(script, 1, drawn' - 1))
  <2>1. drawn' - 1 = drawn
    BY <1>1, <1>2
  <2> QED
    BY <1>2, <2>1 DEF Fed
<1>6. CASE /\ status' = "complete" /\ pc' = "return" /\ UNCHANGED <<out, late>>
  <2>1. TypeOK'
    BY <1>1, <1>3, <1>6 DEF IInv, TypeOK, Statuses
  <2>2. Accepted' /\ Prefilling' /\ Decoding' /\ Polled'
    BY <1>1, <1>3, <1>6 DEF IInv, Accepted, Prefilling, Decoding, Polled, Turning
  <2>3. ExitState'
    BY <1>1, <1>2, <1>5, <1>6 DEF ExitState
  <2> QED
    BY <2>1, <2>2, <2>3 DEF IInv
<1>7. CASE /\ out' = Append(out, script[drawn + 1])
           /\ late' = IF stop THEN late + 1 ELSE late
           /\ IF Len(out) + 1 >= cap THEN status' = "complete" /\ pc' = "return"
                                     ELSE status' = status /\ pc' = "forward"
  <2>1. out' = SubSeq(script, 1, drawn')
    BY <1>1, <1>2, <1>7, PrefixGrows
  <2>2. out' \in Seq(Tokens) /\ Len(out') = drawn'
    BY <1>1, <1>2, <1>3, <2>1, PrefixOf
  <2>3. late' \in 0..1 /\ (~stop => late' = 0)
    BY <1>3, <1>7
  <2>4. IF drawn' = cap THEN status' = "complete" /\ pc' = "return"
                        ELSE drawn' < cap /\ status' = "running" /\ pc' = "forward"
    BY <1>1, <1>2, <1>3, <1>4, <1>7
  <2>5. late' \in 0..MaxNew /\ drawn' <= cap
    BY <1>1, <1>2, <1>3, <2>3
  <2>6. TypeOK'
    BY <1>1, <1>3, <2>2, <2>4, <2>5 DEF IInv, TypeOK, Statuses
  <2>7. Accepted' /\ Prefilling' /\ Polled'
    BY <1>1, <2>3, <2>4 DEF IInv, Accepted, Prefilling, Polled, Turning
  <2>8. Decoding'
    <3>1. CASE drawn' = cap
      BY <2>4, <3>1 DEF Decoding
    <3>2. CASE drawn' # cap
      <4>1. drawn' < cap' /\ drawn' > 0 /\ pc' = "forward" /\ out' = SubSeq(script', 1, drawn')
        BY <1>1, <1>2, <2>1, <2>4, <3>2
      <4>2. pos' = Len(prompt') + (drawn' - 1)
        BY <1>1, <1>2 DEF Fed
      <4>3. kv' = Cells(prompt' \o SubSeq(script', 1, drawn' - 1))
        BY <1>1, <1>5
      <4> QED
        BY <4>1, <4>2, <4>3 DEF Decoding, Fed
    <3> QED
      BY <3>1, <3>2
  <2>9. ExitState'
    BY <1>1, <1>4, <1>5, <2>2, <2>4 DEF ExitState
  <2> QED
    BY <2>6, <2>7, <2>8, <2>9 DEF IInv
<1>8. CASE status' = "failed" /\ pc' = "return" /\ UNCHANGED <<out, late>>
  BY <1>1, <1>3, <1>8, LeaveStep
<1> QED
  BY <1>6, <1>7, <1>8, DrawOutcome

LEMMA ForwardStep ==
  ASSUME IInv, Forward
  PROVE  IInv'
<1>1. /\ pc = "forward" /\ pc' = "poll" /\ pos' = pos + 1
      /\ kv' = Forwarded(<<LastOf(out)>>)
      /\ UNCHANGED <<script, cap, minThink, prompt, out, status, stop, late, drawn>>
  BY DEF Forward, reply
<1>2. /\ drawn < cap /\ drawn > 0 /\ Fed(drawn - 1) /\ out = SubSeq(script, 1, drawn)
      /\ script \in [1..MaxNew -> Tokens] /\ Len(prompt) + cap <= MaxCtx
  BY <1>1 DEF IInv, Accepted, Decoding, Turning
<1>3. /\ drawn \in Nat /\ cap \in 0..MaxNew /\ MaxNew \in Nat /\ MaxCtx \in Nat
      /\ prompt \in Seq(Tokens) /\ Len(prompt) \in Nat
  BY Assumed, LenProperties DEF IInv, TypeOK
<1>4. script \in Seq(Tokens) /\ Len(script) = MaxNew
  BY <1>2, ScriptOf
<1> DEFINE n == drawn - 1
<1>5. n \in Nat /\ n + 1 = drawn /\ n < Len(script) /\ n \in 0..Len(script) /\ drawn \in 0..Len(script)
  BY <1>2, <1>3, <1>4
<1>6. kv = Cells(prompt \o SubSeq(script, 1, n)) /\ pos = Len(prompt) + n
  BY <1>2 DEF Fed
<1> HIDE DEF n
<1>7. LastOf(out) = script[n + 1] /\ script[n + 1] \in Tokens
  <2>1. Len(out) = drawn /\ out[drawn] = script[drawn]
    BY <1>2, <1>3, <1>4, <1>5, PrefixOf
  <2>2. script[n + 1] \in Tokens
    BY <1>4, <1>5, ElementOfSeq
  <2> QED
    BY <1>5, <2>1, <2>2 DEF LastOf
<1>8. kv' = Cells(prompt \o SubSeq(script, 1, drawn))
  <2> DEFINE p == SubSeq(script, 1, n)
             x == <<script[n + 1]>>
  <2>1. p \in Seq(Tokens) /\ Len(p) = n
    BY <1>4, <1>5, PrefixOf
  <2>2. x \in Seq(Tokens)
    BY <1>7
  <2>3. p \o x = SubSeq(script, 1, drawn)
    BY <1>4, <1>5, PrefixGrows
  <2> HIDE DEF p, x
  <2>4. prompt \o p \in Seq(Tokens) /\ Len(prompt \o p) = Len(prompt) + n
    BY <1>3, <2>1, ConcatProperties
  <2>5. Forwarded(x) = Cells((prompt \o p) \o x)
    BY <1>6, <2>2, <2>4, Feeds DEF p
  <2>6. (prompt \o p) \o x = prompt \o (p \o x)
    BY <1>3, <2>1, <2>2, Associates
  <2> QED
    BY <1>1, <1>7, <2>3, <2>5, <2>6 DEF x
<1>9. pos' = Len(prompt) + drawn
  BY <1>1, <1>3, <1>5, <1>6
<1>10. TypeOK'
  <2>1. kv' \in Seq(Nat \X Tokens)
    <3>1. SubSeq(script, 1, drawn) \in Seq(Tokens)
      BY <1>4, <1>5, PrefixOf
    <3>2. prompt \o SubSeq(script, 1, drawn) \in Seq(Tokens)
      BY <1>3, <3>1, ConcatProperties
    <3> QED
      BY <1>8, <3>2, CellsOf
  <2>2. pos' \in 0..MaxCtx
    BY <1>2, <1>3, <1>9
  <2> QED
    BY <1>1, <2>1, <2>2 DEF IInv, TypeOK
<1>11. Accepted' /\ Prefilling' /\ Polled' /\ ExitState'
  BY <1>1 DEF IInv, Accepted, Prefilling, Polled, ExitState, Turning
<1>12. Decoding'
  BY <1>1, <1>2, <1>8, <1>9 DEF Decoding, Fed
<1> QED
  BY <1>10, <1>11, <1>12 DEF IInv

LEMMA StepInv == IInv /\ [Next]_gvars => IInv'
<1> SUFFICES ASSUME IInv, [Next]_gvars PROVE IInv'
  OBVIOUS
<1>1. ASSUME NEW p \in Prompts, NEW max \in Budgets, NEW floor \in Floors,
             Check(p, max, floor)
      PROVE  IInv'
  BY <1>1, CheckStep
<1>2. CASE UNCHANGED gvars
  BY <1>2 DEF gvars, reply, IInv, TypeOK, Accepted, Prefilling, Decoding, Polled, ExitState, Fed
<1> QED
  BY <1>1, <1>2, ResetStep, PrefillStep, PollStep, DrawStep, ForwardStep, StopStep, FailStep
     DEF Next, Step

LEMMA Inductive == Spec => []IInv
  BY InitInv, StepInv, PTL DEF Spec

-----------------------------------------------------------------------------
(* No forward of an accepted call overruns the context: the one check of   *)
(* the prompt and the cap against max_ctx covers every later step.         *)
THEOREM NeverOverruns == Spec => []BudgetSuffices
<1>1. IInv => BudgetSuffices
  <2> SUFFICES ASSUME IInv PROVE BudgetSuffices
    OBVIOUS
  <2>1. /\ prompt \in Seq(Tokens) /\ Len(prompt) \in Nat /\ cap \in Nat
        /\ pos \in Nat /\ drawn \in Nat /\ MaxCtx \in Nat
    BY Assumed, LenProperties DEF IInv, TypeOK
  <2>2. CASE pc = "prefill"
    <3>1. pos < Len(prompt) /\ Len(prompt) + cap <= MaxCtx
      BY <2>2 DEF IInv, Accepted, Prefilling, Turning
    <3>2. Len(Chunk) \in 1..(Len(prompt) - pos)
      BY <2>1, <3>1, NextChunk
    <3> QED
      BY <2>1, <2>2, <3>1, <3>2 DEF BudgetSuffices, Fits
  <2>3. CASE pc = "forward"
    <3>1. Len(prompt) + cap <= MaxCtx /\ drawn < cap /\ pos = Len(prompt) + (drawn - 1)
      BY <2>3 DEF IInv, Accepted, Decoding, Turning, Fed
    <3> QED
      BY <2>1, <2>3, <3>1 DEF BudgetSuffices, Fits
  <2> QED
    BY <2>2, <2>3 DEF BudgetSuffices
<1> QED
  BY <1>1, Inductive, PTL

(* A call that ends by itself leaves the prompt and the reply without its  *)
(* last, unfed draw in the caches, one draw per token.                     *)
THEOREM LeavesTheReply == Spec => []ExitState
<1>1. IInv => ExitState
  BY DEF IInv
<1> QED
  BY <1>1, Inductive, PTL

(* At most one token comes out after the caller asked to stop.             *)
THEOREM PollsPerToken == Spec => []PolledPerToken
<1>1. IInv => PolledPerToken
  BY DEF IInv, Polled, PolledPerToken
<1> QED
  BY <1>1, Inductive, PTL

-----------------------------------------------------------------------------
(* The refinement: a draw is an emission or the end of the reply, a poll   *)
(* may end it, everything else stutters.                                   *)

LEMMA PrefillImplements ==
  ASSUME IInv, Prefill
  PROVE  [Stream!Next]_Stream!svars
<1>1. pc = "prefill" /\ UNCHANGED <<script, cap, out, stop>>
  BY DEF Prefill, reply
<1>2. status = "running" /\ out = <<>> /\ Len(out) = 0
  BY <1>1, Nothing DEF IInv, Accepted, Prefilling, Turning
<1>3. CASE stop
  <2>1. status' = "cancelled"
    BY <1>3 DEF Prefill, Return
  <2> QED
    BY <1>1, <1>2, <1>3, <2>1 DEF Stream!Next, Stream!Finish
<1>4. CASE ~stop
  <2>1. \/ UNCHANGED status
        \/ cap = 0 /\ status' = "complete"
    BY <1>4 DEF Prefill, Return
  <2>2. CASE UNCHANGED status
    BY <1>1, <2>2 DEF Stream!svars
  <2>3. CASE cap = 0 /\ status' = "complete"
    BY <1>1, <1>2, <2>3 DEF Stream!Next, Stream!Finish, Stream!Over
  <2> QED
    BY <2>1, <2>2, <2>3
<1> QED
  BY <1>3, <1>4

LEMMA DrawImplements ==
  ASSUME IInv, DrawAndEmit
  PROVE  Stream!Next
<1> DEFINE t == script[drawn + 1]
<1>1. /\ pc = "draw" /\ UNCHANGED <<script, cap, stop>>
      /\ \/ t \in Eog /\ status' = "complete" /\ UNCHANGED out
         \/ /\ t \notin Eog /\ out' = Append(out, t)
            /\ IF Len(out) + 1 >= cap THEN status' = "complete" ELSE status' = status
         \/ status' = "failed" /\ UNCHANGED out
  BY DrawOutcome
<1>2. /\ Len(out) = drawn /\ drawn \in Nat /\ drawn < cap /\ cap \in Nat
      /\ status = "running" /\ out \in Seq(Tokens)
  BY <1>1, DrawIs DEF IInv, TypeOK, Accepted, Turning
<1>3. t = script[Len(out) + 1] /\ Len(out) # cap
  BY <1>2
<1> HIDE DEF t
<1>4. CASE t \in Eog /\ status' = "complete" /\ UNCHANGED out
  BY <1>1, <1>2, <1>3, <1>4 DEF Stream!Next, Stream!Finish, Stream!Over
<1>5. CASE /\ t \notin Eog /\ out' = Append(out, t)
           /\ IF Len(out) + 1 >= cap THEN status' = "complete" ELSE status' = status
  <2>1. t \in Tokens
    <3>1. script \in Seq(Tokens) /\ Len(script) = MaxNew /\ cap <= MaxNew /\ MaxNew \in Nat
      BY <1>1, DrawIs, Assumed
    <3>2. drawn + 1 \in 1..Len(script)
      BY <1>2, <3>1
    <3> QED
      BY <3>1, <3>2, ElementOfSeq DEF t
  <2>2. Len(out') = Len(out) + 1
    BY <1>2, <1>5, <2>1, AppendProperties
  <2>3. status' = IF Len(out') = cap THEN "complete" ELSE status
    BY <1>2, <1>5, <2>2
  <2>4. ~Stream!Over
    BY <1>3, <1>5 DEF Stream!Over
  <2> QED
    BY <1>1, <1>2, <1>3, <1>5, <2>3, <2>4 DEF Stream!Next, Stream!Emit
<1>6. CASE status' = "failed" /\ UNCHANGED out
  BY <1>1, <1>2, <1>6 DEF Stream!Next, Stream!Finish
<1> QED
  BY <1>1, <1>4, <1>5, <1>6

LEMMA StepImplements ==
  ASSUME IInv, [Next]_gvars
  PROVE  [Stream!Next]_Stream!svars
<1>1. CASE Reset
  BY <1>1 DEF Reset, Stream!Next, Stream!Reset
<1>2. ASSUME NEW p \in Prompts, NEW max \in Budgets, NEW floor \in Floors,
             Check(p, max, floor)
      PROVE  [Stream!Next]_Stream!svars
  <2>1. /\ status = "idle" /\ status' \in {"running", "refused"}
        /\ UNCHANGED <<out, stop>>
    BY <1>2 DEF Check, reply, IInv, Accepted
  <2>2. script' \in [1..MaxNew -> Tokens] /\ cap' \in 0..MaxNew
    BY <1>2, Assumed DEF Check, Scripts
  <2> QED
    BY <2>1, <2>2 DEF Stream!Next, Stream!Begin
<1>3. CASE Poll
  <2>1. pc = "poll" /\ status = "running" /\ UNCHANGED <<script, cap, out, stop>>
    BY <1>3 DEF Poll, reply, IInv, Accepted, Turning
  <2>2. IF stop THEN status' = "cancelled" ELSE status' = status
    BY <1>3 DEF Poll, Return
  <2> QED
    BY <2>1, <2>2 DEF Stream!Next, Stream!Finish, Stream!svars
<1>4. CASE Forward
  BY <1>4 DEF Forward, reply, Stream!svars
<1>5. CASE RequestStop
  BY <1>5 DEF RequestStop, reply, Stream!Next, Stream!RequestStop
<1>6. CASE Fail
  BY <1>6 DEF Fail, reply, Stream!Next, Stream!Finish
<1>7. CASE UNCHANGED gvars
  BY <1>7 DEF gvars, reply, Stream!svars
<1> QED
  BY <1>1, <1>2, <1>3, <1>4, <1>5, <1>6, <1>7, PrefillImplements, DrawImplements
     DEF Next, Step

(* Plain decode implements the promise to the caller: the reply is the     *)
(* sampled sequence, token by token, up to its first EOG or the cap, and   *)
(* is cut short only by the caller or a failure.                           *)
THEOREM StreamsTheReply == Spec => ImplementsStream
<1>1. Init => Stream!Init
  BY DEF Init, GenInit, Stream!Init
<1>2. IInv /\ [Next]_gvars => [Stream!Next]_Stream!svars
  BY StepImplements
<1> QED
  BY <1>1, <1>2, Inductive, PTL DEF Spec, ImplementsStream, Stream!StreamSpec
-----------------------------------------------------------------------------
(* The text of a run of tokens. *)

Chars == DOMAIN Width

Spelled(ids) == S!FlattenSeq([k \in DOMAIN ids |-> Bytes[ids[k]]])

LEMMA CharsAre ==
  /\ Chars = {"plain", "wide", "fffd"}
  /\ \A c \in Chars : Width[c] \in Nat /\ Width[c] > 0
  BY DEF Chars, Width

LEMMA FlattenIs ==
  ASSUME NEW seqs
  PROVE  S!FlattenSeq(seqs) = Joins(seqs)
  BY DEF S!FlattenSeq, Joins

LEMMA TokensSpell ==
  DOMAIN Bytes = Tokens /\ \A t \in Tokens : Bytes[t] \in Seq(Byte)
  BY GenerationAssumption, BytesAssumption

(* The bytes of two runs of tokens are those of the one and of the other.  *)
LEMMA SpelledJoin ==
  ASSUME NEW x \in Seq(Tokens), NEW y \in Seq(Tokens)
  PROVE  /\ Spelled(x) \in Seq(Byte) /\ Spelled(y) \in Seq(Byte)
         /\ Spelled(x \o y) = Spelled(x) \o Spelled(y)
<1> DEFINE z  == x \o y
           bx == [k \in DOMAIN x |-> Bytes[x[k]]]
           by == [k \in DOMAIN y |-> Bytes[y[k]]]
           bz == [k \in DOMAIN z |-> Bytes[z[k]]]
<1>1. PICK A \in Nat, B \in Nat : A = Len(x) /\ B = Len(y)
  BY LenProperties
<1>2. /\ z \in Seq(Tokens) /\ Len(z) = A + B
      /\ \A i \in 1..A : z[i] = x[i]
      /\ \A i \in 1..B : z[A + i] = y[i]
  <2>1. /\ x \o y \in Seq(Tokens) /\ Len(x \o y) = Len(x) + Len(y)
        /\ \A i \in 1..Len(x) : (x \o y)[i] = x[i]
        /\ \A i \in 1..Len(y) : (x \o y)[Len(x) + i] = y[i]
    BY JoinParts
  <2>2. z = x \o y
    OBVIOUS
  <2> HIDE DEF z
  <2> QED
    BY <1>1, <2>1, <2>2
<1> HIDE DEF z
<1>3. /\ DOMAIN x = 1..A /\ DOMAIN y = 1..B /\ DOMAIN z = 1..(A + B)
      /\ \A i \in 1..A : x[i] \in Tokens
      /\ \A i \in 1..B : y[i] \in Tokens
      /\ \A i \in 1..(A + B) : z[i] \in Tokens
  BY <1>1, <1>2, LenProperties, ElementOfSeq
<1>4. /\ bx \in [1..A -> Seq(Byte)] /\ by \in [1..B -> Seq(Byte)] /\ bz \in [1..(A + B) -> Seq(Byte)]
      /\ \A i \in 1..A : bx[i] = Bytes[x[i]]
      /\ \A i \in 1..B : by[i] = Bytes[y[i]]
      /\ \A i \in 1..(A + B) : bz[i] = Bytes[z[i]]
  BY <1>3, TokensSpell
<1> HIDE DEF bx, by, bz
<1>5. /\ bx \in Seq(Seq(Byte)) /\ Len(bx) = A
      /\ by \in Seq(Seq(Byte)) /\ Len(by) = B
      /\ bz \in Seq(Seq(Byte)) /\ Len(bz) = A + B
  <2>1. PICK n \in Nat : n = A + B
    BY <1>1
  <2>2. bz \in Seq(Seq(Byte)) /\ Len(bz) = n
    BY <1>4, <2>1, IsSequence, Zenon
  <2> QED
    BY <1>1, <1>4, <2>1, <2>2, IsSequence, Zenon
<1>6. bx \o by = bz
  <2>1. ASSUME NEW i \in 1..Len(bx) PROVE bz[i] = bx[i]
    <3>1. i \in 1..(A + B) /\ i \in 1..A
      BY <1>1, <1>5
    <3>2. bz[i] = Bytes[z[i]] /\ bx[i] = Bytes[x[i]] /\ z[i] = x[i]
      BY <1>2, <1>4, <3>1
    <3> QED
      BY <3>2, Zenon
  <2>2. ASSUME NEW i \in 1..Len(by) PROVE bz[Len(bx) + i] = by[i]
    <3>1. A + i \in 1..(A + B) /\ i \in 1..B /\ Len(bx) + i = A + i
      BY <1>1, <1>5
    <3>2. bz[A + i] = Bytes[z[A + i]] /\ by[i] = Bytes[y[i]] /\ z[A + i] = y[i]
      BY <1>2, <1>4, <3>1
    <3> QED
      BY <3>1, <3>2, Zenon
  <2>3. Len(bz) = Len(bx) + Len(by)
    BY <1>5
  <2> QED
    BY <1>5, <2>1, <2>2, <2>3, JoinEqual, Zenon
<1>7. /\ Joins(bx) \in Seq(Byte) /\ Joins(by) \in Seq(Byte)
      /\ Joins(bx \o by) = Joins(bx) \o Joins(by)
  BY <1>5, JoinsJoin, Zenon
<1>8. Spelled(x) = Joins(bx) /\ Spelled(y) = Joins(by) /\ Spelled(x \o y) = Joins(bz)
  BY FlattenIs, Zenon DEF Spelled, bx, by, bz, z
<1> QED
  BY <1>6, <1>7, <1>8

(* What each byte reads as. *)
Run(b) == [i \in DOMAIN b |-> Reads(b, i)]

LEMMA RunOf ==
  ASSUME NEW b \in Seq(Byte)
  PROVE  /\ Run(b) \in Seq(Seq(Chars)) /\ Len(Run(b)) = Len(b)
         /\ \A i \in 1..Len(b) : Run(b)[i] = Reads(b, i)
         /\ Text[b] = Joins(Run(b)) /\ Text[b] \in Seq(Chars)
<1>1. Len(b) \in Nat /\ DOMAIN b = 1..Len(b)
  BY LenProperties
<1>2. ASSUME NEW i \in 1..Len(b) PROVE Reads(b, i) \in Seq(Chars)
  <2>1. /\ <<"plain">> \in Seq(Chars) /\ <<"wide">> \in Seq(Chars) /\ <<"fffd">> \in Seq(Chars)
        /\ <<>> \in Seq(Chars)
    BY CharsAre, Singleton, EmptySeq
  <2> QED
    BY <2>1, Zenon DEF Reads
<1>3. Run(b) \in [1..Len(b) -> Seq(Chars)]
  BY <1>1, <1>2 DEF Run
<1>4. Run(b) \in Seq(Seq(Chars)) /\ Len(Run(b)) = Len(b)
  BY <1>1, <1>3, IsSequence
<1>5. \A i \in 1..Len(b) : Run(b)[i] = Reads(b, i)
  BY <1>1, Zenon DEF Run
<1>6. Text[b] = Joins(Run(b))
  BY FlattenIs, Zenon DEF Text, Run
<1>7. Joins(Run(b)) \in Seq(Chars)
  BY <1>4, JoinsJoin
<1> QED
  BY <1>4, <1>5, <1>6, <1>7

(* Bytes that end with a half that opens a character. *)
Halved(b) == b # <<>> /\ b[Len(b)] = "lead"

(* Unless a character lies across the cut, text is cut where bytes are.    *)
LEMMA TextJoin ==
  ASSUME NEW a \in Seq(Byte), NEW b \in Seq(Byte), ~Halved(a)
  PROVE  Text[a \o b] = Text[a] \o Text[b]
<1> DEFINE c == a \o b
<1>1. PICK A \in Nat, B \in Nat : A = Len(a) /\ B = Len(b)
  BY LenProperties
<1>2. c \in Seq(Byte) /\ Len(c) = A + B
  BY <1>1, JoinParts, Zenon
<1>3. /\ \A i \in 1..A : c[i] = a[i]
      /\ \A i \in 1..B : c[A + i] = b[i]
  <2>1. /\ \A i \in 1..Len(a) : (a \o b)[i] = a[i]
        /\ \A i \in 1..Len(b) : (a \o b)[Len(a) + i] = b[i]
    BY JoinParts
  <2>2. c = a \o b
    OBVIOUS
  <2> HIDE DEF c
  <2> QED
    BY <1>1, <2>1, <2>2
<1> HIDE DEF c
<1>4. DOMAIN a = 1..A /\ DOMAIN b = 1..B /\ DOMAIN c = 1..(A + B)
  BY <1>1, <1>2, LenProperties
<1>5. A > 0 => a[A] # "lead"
  BY <1>1, EmptySeq DEF Halved
<1>6. ASSUME NEW i \in 0..A PROVE Paired(c, i) <=> Paired(a, i)
  <2>1. CASE i = A
    BY <1>1, <1>3, <1>4, <1>5, <2>1 DEF Paired
  <2>2. CASE i # A
    BY <1>1, <1>3, <1>4, <2>2 DEF Paired
  <2> QED
    BY <2>1, <2>2
<1>7. ASSUME NEW i \in 0..B PROVE Paired(c, A + i) <=> Paired(b, i)
  <2>1. CASE i = 0
    <3>1. ~Paired(b, i)
      BY <1>4, <2>1 DEF Paired
    <3>2. ~Paired(c, A + i)
      BY <1>1, <1>3, <1>4, <1>5, <2>1 DEF Paired
    <3> QED
      BY <3>1, <3>2
  <2>2. CASE i # 0
    <3>1. i \in 1..B /\ A + i \in 1..(A + B) /\ (A + i) + 1 = A + (i + 1) /\ c[A + i] = b[i]
      BY <1>1, <1>3, <2>2
    <3>2. i + 1 \in DOMAIN b <=> (A + i) + 1 \in DOMAIN c
      BY <1>1, <1>4
    <3>3. i + 1 \in DOMAIN b => c[(A + i) + 1] = b[i + 1]
      BY <1>3, <1>4, <3>1
    <3>4. i \in DOMAIN b /\ A + i \in DOMAIN c
      BY <1>1, <1>4, <3>1
    <3>5. Paired(b, i) <=> i + 1 \in DOMAIN b /\ b[i] = "lead" /\ b[i + 1] = "tail"
      BY <3>4 DEF Paired
    <3>6. Paired(c, A + i) <=>
            (A + i) + 1 \in DOMAIN c /\ c[A + i] = "lead" /\ c[(A + i) + 1] = "tail"
      BY <3>4 DEF Paired
    <3> QED
      BY <3>1, <3>2, <3>3, <3>5, <3>6, Zenon
  <2> QED
    BY <2>1, <2>2
<1>8. \A i \in 1..A : Run(c)[i] = Run(a)[i]
  <2> SUFFICES ASSUME NEW i \in 1..A PROVE Run(c)[i] = Run(a)[i]
    OBVIOUS
  <2>1. i \in 0..A /\ i - 1 \in 0..A /\ i \in 1..Len(c) /\ i \in 1..Len(a)
    BY <1>1, <1>2
  <2>2. Reads(c, i) = Reads(a, i)
    <3>1. /\ Paired(c, i) <=> Paired(a, i)
          /\ Paired(c, i - 1) <=> Paired(a, i - 1)
          /\ c[i] = a[i]
      BY <1>3, <1>6, <2>1
    <3> QED
      BY <3>1, Zenon DEF Reads
  <2> QED
    BY <1>2, <2>1, <2>2, RunOf
<1>9. \A i \in 1..B : Run(c)[A + i] = Run(b)[i]
  <2> SUFFICES ASSUME NEW i \in 1..B PROVE Run(c)[A + i] = Run(b)[i]
    OBVIOUS
  <2>1. /\ i \in 0..B /\ i - 1 \in 0..B /\ A + i \in 1..Len(c) /\ i \in 1..Len(b)
        /\ (A + i) - 1 = A + (i - 1)
    BY <1>1, <1>2
  <2>2. Reads(c, A + i) = Reads(b, i)
    <3>1. /\ Paired(c, A + i) <=> Paired(b, i)
          /\ Paired(c, (A + i) - 1) <=> Paired(b, i - 1)
          /\ c[A + i] = b[i]
      BY <1>3, <1>7, <2>1
    <3> QED
      BY <3>1, Zenon DEF Reads
  <2> QED
    BY <1>2, <2>1, <2>2, RunOf
<1>10. Run(a) \o Run(b) = Run(c)
  <2>1. /\ Run(a) \in Seq(Seq(Chars)) /\ Len(Run(a)) = A
        /\ Run(b) \in Seq(Seq(Chars)) /\ Len(Run(b)) = B
        /\ Run(c) \in Seq(Seq(Chars)) /\ Len(Run(c)) = A + B
    BY <1>1, <1>2, RunOf
  <2>2. /\ Len(Run(c)) = Len(Run(a)) + Len(Run(b))
        /\ \A i \in 1..Len(Run(a)) : Run(c)[i] = Run(a)[i]
        /\ \A i \in 1..Len(Run(b)) : Run(c)[Len(Run(a)) + i] = Run(b)[i]
    BY <1>8, <1>9, <2>1
  <2> QED
    BY <2>1, <2>2, JoinEqual, Zenon
<1>11. /\ Run(a) \in Seq(Seq(Chars)) /\ Run(b) \in Seq(Seq(Chars))
       /\ Text[a] = Joins(Run(a)) /\ Text[b] = Joins(Run(b)) /\ Text[c] = Joins(Run(c))
  BY <1>2, RunOf
<1>12. Joins(Run(a) \o Run(b)) = Joins(Run(a)) \o Joins(Run(b))
  BY <1>11, JoinsJoin, Zenon
<1> QED
  BY <1>10, <1>11, <1>12 DEF c

LEMMA OpenJoin ==
  ASSUME NEW x \in Seq(Chars), NEW y \in Seq(Chars)
  PROVE  /\ y = <<>> => (EndsOpen(x \o y) <=> EndsOpen(x))
         /\ y # <<>> => (EndsOpen(x \o y) <=> EndsOpen(y))
<1>1. PICK A \in Nat, B \in Nat : A = Len(x) /\ B = Len(y)
  BY LenProperties
<1>2. CASE y = <<>>
  <2>1. x \o y = x
    BY <1>2, ConcatEmptySeq
  <2> QED
    BY <1>2, <2>1
<1>3. CASE y # <<>>
  <2>1. B \in 1..B
    BY <1>1, <1>3, EmptySeq
  <2>2. PICK z \in Seq(Chars) : z = x \o y /\ Len(z) = A + B /\ z[A + B] = y[B]
    <3>1. /\ x \o y \in Seq(Chars) /\ Len(x \o y) = Len(x) + Len(y)
          /\ \A i \in 1..Len(y) : (x \o y)[Len(x) + i] = y[i]
      BY JoinParts
    <3> QED
      BY <1>1, <2>1, <3>1
  <2>3. z # <<>>
    BY <1>1, <2>1, <2>2, EmptySeq
  <2> QED
    BY <1>1, <1>3, <2>2, <2>3 DEF EndsOpen
<1> QED
  BY <1>2, <1>3

(* A character that is begun and not ended shows at the end of the text.   *)
LEMMA HalvedOpens ==
  ASSUME NEW a \in Seq(Byte), Halved(a)
  PROVE  EndsOpen(Text[a])
<1>1. PICK n \in Nat : Len(a) = n + 1 /\ a[n + 1] = "lead"
  <2>1. Len(a) \in Nat /\ Len(a) # 0 /\ a[Len(a)] = "lead"
    BY LenProperties, EmptySeq DEF Halved
  <2>2. Len(a) - 1 \in Nat /\ (Len(a) - 1) + 1 = Len(a)
    BY <2>1
  <2> QED
    BY <2>1, <2>2
<1>2. Reads(a, n + 1) = <<"fffd">>
  <2>1. DOMAIN a = 1..(n + 1)
    BY <1>1, LenProperties
  <2>2. (n + 1) + 1 \notin 1..(n + 1) /\ ((n + 1) - 1) + 1 = n + 1
    OBVIOUS
  <2>3. ~Paired(a, n + 1)
    BY <2>1, <2>2, Zenon DEF Paired
  <2>4. ~Paired(a, (n + 1) - 1)
    <3>1. a[((n + 1) - 1) + 1] # "tail"
      BY <1>1, <2>2
    <3> QED
      BY <3>1, Zenon DEF Paired
  <2>5. a[n + 1] # "plain"
    BY <1>1
  <2> QED
    BY <2>3, <2>4, <2>5, Zenon DEF Reads
<1>3. PICK r \in Seq(Seq(Chars)) : r = Run(a) /\ Len(r) = n + 1 /\ r[n + 1] = <<"fffd">>
  <2>1. n + 1 \in 1..Len(a)
    BY <1>1
  <2> QED
    BY <1>1, <1>2, <2>1, RunOf
<1>4. PICK q \in Seq(Seq(Chars)) : r = Append(q, <<"fffd">>)
  <2>1. n < Len(r)
    BY <1>3
  <2>2. SubSeq(r, 1, n + 1) = Append(SubSeq(r, 1, n), r[n + 1])
    BY <2>1, PrefixGrows, Zenon
  <2>3. SubSeq(r, 1, n + 1) = r
    BY <1>3, SubSeqFull
  <2>4. SubSeq(r, 1, n) \in Seq(Seq(Chars))
    <3>1. n \in 0..Len(r)
      BY <1>3
    <3> QED
      BY <3>1, PrefixOf
  <2> QED
    BY <1>3, <2>2, <2>3, <2>4
<1>5. <<"fffd">> \in Seq(Chars) /\ <<"fffd">> # <<>> /\ EndsOpen(<<"fffd">>)
  BY CharsAre, Singleton DEF EndsOpen
<1>6. Joins(q) \in Seq(Chars) /\ Joins(r) = Joins(q) \o <<"fffd">>
  BY <1>4, <1>5, JoinsAppend
<1>7. EndsOpen(Joins(r))
  <2>1. PICK x \in Seq(Chars), y \in Seq(Chars) :
          /\ x = Joins(q) /\ y = <<"fffd">>
          /\ Joins(r) = x \o y
    BY <1>5, <1>6, Zenon
  <2>2. y # <<>> /\ EndsOpen(y)
    BY <1>5, <2>1, Zenon
  <2>3. EndsOpen(x \o y)
    BY <2>2, OpenJoin, Zenon
  <2> QED
    BY <2>1, <2>3, Zenon
<1> QED
  BY <1>3, <1>7, RunOf

LEMMA DecodeIs ==
  ASSUME NEW ids \in Seq(Tokens)
  PROVE  Decode[ids] = Text[Spelled(ids)] /\ Spelled(ids) \in Seq(Byte) /\ Decode[ids] \in Seq(Chars)
<1>1. Decode[ids] = Text[Spelled(ids)]
  BY TokensSpell, Zenon DEF Decode, Spelled
<1>2. Spelled(ids) \in Seq(Byte)
  BY SpelledJoin
<1>3. Text[Spelled(ids)] \in Seq(Chars)
  BY <1>2, RunOf
<1> QED
  BY <1>1, <1>2, <1>3

(* Behind whole text, what follows decodes on its own.                     *)
LEMMA DecodeJoin ==
  ASSUME NEW x \in Seq(Tokens), NEW y \in Seq(Tokens), ~EndsOpen(Decode[x])
  PROVE  Decode[x \o y] = Decode[x] \o Decode[y]
<1>1. /\ Decode[x] = Text[Spelled(x)] /\ Spelled(x) \in Seq(Byte)
      /\ Decode[y] = Text[Spelled(y)] /\ Spelled(y) \in Seq(Byte)
  BY DecodeIs
<1>2. Decode[x \o y] = Text[Spelled(x \o y)]
  BY ConcatProperties, DecodeIs
<1>3. Spelled(x \o y) = Spelled(x) \o Spelled(y)
  BY SpelledJoin
<1>4. ~Halved(Spelled(x))
  BY <1>1, HalvedOpens
<1>5. Text[Spelled(x) \o Spelled(y)] = Text[Spelled(x)] \o Text[Spelled(y)]
  BY <1>1, <1>4, TextJoin, Zenon
<1> QED
  BY <1>1, <1>2, <1>3, <1>5

LEMMA NothingDecodes == Decode[<<>>] = <<>> /\ ~EndsOpen(<<>>)
<1>1. ~EndsOpen(<<>>)
  BY DEF EndsOpen
<1>2. PICK e \in Seq(Tokens) : e = <<>>
  BY EmptySeq
<1>3. e \o e = e
  BY <1>2, ConcatEmptySeq
<1>4. PICK b \in Seq(Byte) : b = Spelled(e) /\ b \o b = b
  BY <1>3, SpelledJoin
<1>5. b = <<>>
  <2>1. Len(b) \in Nat /\ Len(b) = Len(b) + Len(b)
    BY <1>4, JoinParts
  <2> QED
    BY <2>1, EmptySeq
<1>6. ~Halved(b)
  BY <1>5 DEF Halved
<1>7. PICK t \in Seq(Chars) : t = Text[b] /\ t \o t = t
  BY <1>4, <1>6, RunOf, TextJoin
<1>8. t = <<>>
  <2>1. Len(t) \in Nat /\ Len(t) = Len(t) + Len(t)
    BY <1>7, JoinParts
  <2> QED
    BY <2>1, EmptySeq
<1> QED
  BY <1>1, <1>2, <1>4, <1>7, <1>8, DecodeIs

(* The partial sums of ByteLen. *)
Measured(f, t) ==
  /\ f \in [0..Len(t) -> Nat]
  /\ f[0] = 0
  /\ \A n \in 1..Len(t) : f[n] = f[n - 1] + Width[t[n]]

LEMMA MeasuredExists ==
  ASSUME NEW t \in Seq(Chars)
  PROVE  \E f : Measured(f, t)
<1> DEFINE N == Len(t)
           step == [x \in Nat \X (1..N) |-> x[1] + Width[t[x[2]]]]
<1>1. N \in Nat /\ \A n \in 1..N : Width[t[n]] \in Nat
  BY LenProperties, ElementOfSeq, CharsAre
<1>2. step \in [Nat \X (1..N) -> Nat]
  <2>1. ASSUME NEW x \in Nat \X (1..N) PROVE x[1] + Width[t[x[2]]] \in Nat
    <3>1. x[1] \in Nat /\ Width[t[x[2]]] \in Nat
      BY <1>1
    <3> QED
      BY <3>1
  <2> QED
    BY <2>1
<1>3. \A v \in Nat : \A n \in 1..N : step[<<v, n>>] = v + Width[t[n]]
  OBVIOUS
<1> HIDE DEF step, N
<1>4. PICK f \in [0..N -> Nat] : Recurs(f, 0, step, N)
  BY <1>1, <1>2, RecursionExists
<1>5. f[0] = 0 /\ \A n \in 1..N : f[n] = step[<<f[n - 1], n>>]
  BY <1>4 DEF Recurs
<1>6. ASSUME NEW n \in 1..N PROVE f[n] = f[n - 1] + Width[t[n]]
  <2>1. f[n - 1] \in Nat
    BY <1>1
  <2> QED
    BY <1>3, <1>5, <2>1
<1> QED
  BY <1>5, <1>6 DEF Measured, N

LEMMA MeasuredIs ==
  ASSUME NEW t \in Seq(Chars), NEW f, Measured(f, t)
  PROVE  ByteLen[t] = f[Len(t)]
<1> DEFINE N == Len(t)
           Body(h, n) == IF n = 0 THEN 0 ELSE h[n - 1] + Width[t[n]]
           len == CHOOSE h : h = [n \in 0..N |-> Body(h, n)]
<1>1. N \in Nat
  BY LenProperties
<1>2. ByteLen[t] = len[N]
  BY DEF ByteLen, Chars
<1>3. f = [n \in 0..N |-> Body(f, n)]
  <2>1. f = [n \in 0..N |-> f[n]]
    BY DEF Measured
  <2>2. ASSUME NEW n \in 0..N PROVE f[n] = Body(f, n)
    <3>1. CASE n = 0
      BY <3>1 DEF Measured
    <3>2. CASE n # 0
      <4>1. n \in 1..N
        BY <1>1, <3>2
      <4> QED
        BY <3>2, <4>1 DEF Measured
    <3> QED
      BY <3>1, <3>2
  <2> HIDE DEF Body
  <2> QED
    BY <2>1, <2>2
<1>4. len = [n \in 0..N |-> Body(len, n)]
  <2>1. \E h : h = [n \in 0..N |-> Body(h, n)]
    BY <1>3, Zenon
  <2> QED
    BY <2>1, Zenon
<1> HIDE DEF len
<1>5. \A n \in 0..N : len[n] = Body(len, n) /\ f[n] = Body(f, n)
  <2> HIDE DEF Body
  <2> QED
    BY <1>3, <1>4, Zenon
<1>6. len[0] = f[0]
  BY <1>1, <1>5
<1>7. ASSUME NEW n \in 1..N, len[n - 1] = f[n - 1] PROVE len[n] = f[n]
  <2>1. n \in 0..N /\ n # 0
    BY <1>1
  <2> QED
    BY <1>5, <1>7, <2>1
<1>8. \A n \in 0..N : len[n] = f[n]
  BY <1>1, <1>6, <1>7, RecursionUnique
<1> QED
  BY <1>1, <1>2, <1>8

(* A text is longer than one it extends, unless it is that one.            *)
LEMMA LongerJoin ==
  ASSUME NEW p \in Seq(Chars), NEW r \in Seq(Chars)
  PROVE  (ByteLen[p \o r] <= ByteLen[p]) <=> r = <<>>
<1>1. CASE r = <<>>
  <2>1. p \o r = p
    BY <1>1, ConcatEmptySeq
  <2>2. ByteLen[p] \in Nat
    <3>1. PICK f : Measured(f, p)
      BY MeasuredExists
    <3> QED
      BY <3>1, MeasuredIs, LenProperties DEF Measured
  <2> QED
    BY <1>1, <2>1, <2>2
<1>2. CASE r # <<>>
  <2>1. PICK P \in Nat, R \in Nat : P = Len(p) /\ R = Len(r) /\ R # 0
    BY <1>2, LenProperties, EmptySeq
  <2>2. PICK t \in Seq(Chars) : t = p \o r /\ Len(t) = P + R /\ \A i \in 1..P : t[i] = p[i]
    <3>1. /\ p \o r \in Seq(Chars) /\ Len(p \o r) = Len(p) + Len(r)
          /\ \A i \in 1..Len(p) : (p \o r)[i] = p[i]
      BY JoinParts
    <3> QED
      BY <2>1, <3>1
  <2>3. PICK f : Measured(f, t)
    BY MeasuredExists
  <2>4. /\ f[0] = 0 /\ \A n \in 0..(P + R) : f[n] \in Nat
        /\ \A n \in 1..(P + R) : f[n] = f[n - 1] + Width[t[n]] /\ Width[t[n]] > 0 /\ Width[t[n]] \in Nat
    <3>1. \A n \in 1..(P + R) : t[n] \in Chars
      BY <2>2, ElementOfSeq
    <3> QED
      BY <2>2, <2>3, <3>1, CharsAre DEF Measured
  <2>5. ByteLen[p] = f[P]
    <3> DEFINE g == [n \in 0..P |-> f[n]]
    <3>1. \A n \in 0..P : g[n] = f[n] /\ f[n] \in Nat
      BY <2>4
    <3>2. g \in [0..P -> Nat]
      BY <2>4
    <3> HIDE DEF g
    <3>3. ASSUME NEW n \in 1..P PROVE g[n] = g[n - 1] + Width[p[n]]
      <4>1. n \in 0..P /\ n - 1 \in 0..P /\ n \in 1..(P + R)
        OBVIOUS
      <4> QED
        BY <2>2, <2>4, <3>1, <4>1
    <3>4. Measured(g, p)
      BY <2>1, <2>4, <3>1, <3>2, <3>3 DEF Measured
    <3> QED
      BY <2>1, <3>1, <3>4, MeasuredIs
  <2>6. ByteLen[t] = f[P + R]
    BY <2>2, <2>3, MeasuredIs
  <2>7. f[P + R] > f[P]
    <3> DEFINE Bad == {n \in (P + 1)..(P + R) : ~(f[n] > f[P])}
    <3>1. ASSUME NEW some \in Bad PROVE FALSE
      <4>1. Bad \in SUBSET Nat
        OBVIOUS
      <4>2. PICK m \in Bad : \A k \in Bad : ~(k < m)
        <5> HIDE DEF Bad
        <5> QED
          BY <3>1, <4>1, LeastOf, Zenon
      <4>3. m \in (P + 1)..(P + R) /\ ~(f[m] > f[P])
        OBVIOUS
      <4>4. m - 1 = P \/ f[m - 1] > f[P]
        <5>1. CASE m - 1 = P
          BY <5>1
        <5>2. CASE m - 1 # P
          <6>1. m - 1 \in (P + 1)..(P + R) /\ m - 1 < m
            BY <4>3, <5>2
          <6> QED
            BY <4>2, <6>1
        <5> QED
          BY <5>1, <5>2
      <4>5. m \in 1..(P + R) /\ m - 1 \in 0..(P + R) /\ P \in 0..(P + R)
        BY <4>3
      <4>6. /\ f[m] \in Nat /\ f[m - 1] \in Nat /\ f[P] \in Nat /\ Width[t[m]] \in Nat
            /\ f[m] = f[m - 1] + Width[t[m]] /\ Width[t[m]] > 0
        <5>1. m \in 0..(P + R)
          BY <4>5
        <5> HIDE DEF Bad
        <5> QED
          BY <2>4, <4>5, <5>1
      <4> HIDE DEF Bad
      <4>7. f[m - 1] = f[P] \/ f[m - 1] > f[P]
        BY <4>4
      <4> QED
        BY <4>3, <4>6, <4>7
    <3>2. P + R \in (P + 1)..(P + R)
      BY <2>1
    <3> QED
      BY <3>1, <3>2
  <2> QED
    BY <1>2, <2>1, <2>2, <2>4, <2>5, <2>6, <2>7
<1> QED
  BY <1>1, <1>2

-----------------------------------------------------------------------------
(* The stream. *)

(* The ids a stream holds on to: what stands before prefix_index decodes   *)
(* to the prefix, and what came since is open or adds nothing to it.       *)
Window(st) ==
  /\ st \in [ids : Seq(Tokens), prefix : Seq(Chars), prefix_index : Nat]
  /\ st.prefix_index <= Len(st.ids)
  /\ st.prefix = Decode[SubSeq(st.ids, 1, st.prefix_index)]
  /\ ~EndsOpen(st.prefix)
  /\ \A j \in st.prefix_index..Len(st.ids) :
       EndsOpen(Decode[SubSeq(st.ids, 1, j)]) \/ Decode[SubSeq(st.ids, 1, j)] = st.prefix

(* They are the last of the tokens fed, from a place no character lies     *)
(* across, and what was said is the text before that and the prefix.       *)
Streamed(st, toks, said) ==
  /\ Window(st)
  /\ \E head \in Seq(Tokens) :
       /\ ~EndsOpen(Decode[head])
       /\ toks = head \o st.ids
       /\ said = Decode[head] \o st.prefix

LEMMA FreshStreams == Streamed(Fresh, <<>>, <<>>)
<1>1. PICK e \in Seq(Tokens), t \in Seq(Chars) :
        /\ e = <<>> /\ t = <<>> /\ Len(e) = 0 /\ e \o e = e /\ t \o t = t
        /\ Decode[e] = t /\ ~EndsOpen(t) /\ SubSeq(e, 1, 0) = e
  <2>1. /\ <<>> \in Seq(Tokens) /\ <<>> \in Seq(Chars) /\ Len(<<>>) = 0 /\ <<>> \o <<>> = <<>>
        /\ SubSeq(<<>>, 1, 0) = <<>>
    BY EmptySeq, ConcatEmptySeq, SubSeqEmpty
  <2> QED
    BY <2>1, NothingDecodes
<1>2. Fresh = [ids |-> e, prefix |-> t, prefix_index |-> 0]
  BY <1>1 DEF Fresh
<1>3. Window(Fresh)
  <2>1. /\ Fresh.ids = e /\ Fresh.prefix = t /\ Fresh.prefix_index = 0
        /\ Fresh \in [ids : Seq(Tokens), prefix : Seq(Chars), prefix_index : Nat]
    BY <1>2
  <2>2. \A j \in 0..0 : Decode[SubSeq(e, 1, j)] = t
    <3>1. \A j \in 0..0 : j = 0
      OBVIOUS
    <3> QED
      BY <1>1, <3>1, Zenon
  <2>3. Decode[SubSeq(e, 1, 0)] = t
    BY <1>1, Zenon
  <2>4. 0 <= Len(e) /\ Len(e) = 0
    BY <1>1
  <2> QED
    BY <1>1, <2>1, <2>2, <2>3, <2>4 DEF Window
<1> QED
  BY <1>1, <1>2, <1>3 DEF Streamed

(* What was held back is never whole when step looks again: it would have  *)
(* been said. So only the place of the prefix moves.                       *)
LEMMA AnchoredStreams ==
  ASSUME NEW st, NEW toks, NEW said, Streamed(st, toks, said)
  PROVE  Streamed(Anchored(st), toks, said)
<1>1. CASE st.prefix = <<>> /\ st.ids # <<>> /\ ~EndsOpen(Decode[st.ids])
  <2> DEFINE n == Len(st.ids)
             new == [st EXCEPT !.prefix = Decode[st.ids], !.prefix_index = n]
  <2>1. Anchored(st) = new
    BY <1>1 DEF Anchored
  <2>2. /\ st \in [ids : Seq(Tokens), prefix : Seq(Chars), prefix_index : Nat]
        /\ st.prefix_index <= n /\ ~EndsOpen(st.prefix)
        /\ \A j \in st.prefix_index..n :
             EndsOpen(Decode[SubSeq(st.ids, 1, j)]) \/ Decode[SubSeq(st.ids, 1, j)] = st.prefix
    BY DEF Streamed, Window
  <2>3. st.ids \in Seq(Tokens) /\ n \in Nat /\ SubSeq(st.ids, 1, n) = st.ids
    BY <2>2, LenProperties, SubSeqFull
  <2>4. Decode[st.ids] = st.prefix
    <3>1. n \in st.prefix_index..n
      BY <2>2, <2>3
    <3> QED
      BY <1>1, <2>2, <2>3, <3>1
  <2>5. /\ new.ids = st.ids /\ new.prefix = st.prefix /\ new.prefix_index = n
        /\ new \in [ids : Seq(Tokens), prefix : Seq(Chars), prefix_index : Nat]
    BY <2>2, <2>3, <2>4
  <2> HIDE DEF new
  <2>6. Window(new)
    <3>1. ASSUME NEW j \in n..n PROVE Decode[SubSeq(st.ids, 1, j)] = st.prefix
      <4>1. j = n
        BY <2>3
      <4> QED
        BY <2>3, <2>4, <4>1
    <3> QED
      BY <2>2, <2>3, <2>4, <2>5, <3>1 DEF Window
  <2> QED
    BY <2>1, <2>5, <2>6 DEF Streamed
<1>2. CASE ~(st.prefix = <<>> /\ st.ids # <<>> /\ ~EndsOpen(Decode[st.ids]))
  BY <1>2 DEF Anchored
<1> QED
  BY <1>1, <1>2

(* One more token: what stands before the prefix's end decodes as before.  *)
LEMMA WindowGrows ==
  ASSUME NEW st, Window(st), NEW id \in Tokens
  PROVE  \E a \in Seq(Tokens), kept \in Seq(Tokens) :
           /\ Append(st.ids, id) \in Seq(Tokens) /\ Len(Append(st.ids, id)) = Len(st.ids) + 1
           /\ Append(st.ids, id) = a \o kept
           /\ kept = SubSeq(Append(st.ids, id), st.prefix_index + 1, Len(Append(st.ids, id)))
           /\ Len(kept) = Len(Append(st.ids, id)) - st.prefix_index
           /\ Decode[a] = st.prefix
           /\ Decode[Append(st.ids, id)] = st.prefix \o Decode[kept]
           /\ \A j \in 0..Len(st.ids) : SubSeq(Append(st.ids, id), 1, j) = SubSeq(st.ids, 1, j)
<1>1. PICK q \in Seq(Tokens), P \in Nat, N \in Nat :
        /\ q = st.ids /\ P = st.prefix_index /\ N = Len(q) /\ P <= N
        /\ st.prefix = Decode[SubSeq(q, 1, P)] /\ ~EndsOpen(st.prefix)
  BY LenProperties DEF Window
<1>2. PICK ids \in Seq(Tokens), e \in Seq(Tokens) :
        ids = Append(q, id) /\ Len(ids) = N + 1 /\ e = <<id>> /\ ids = q \o e
  <2>1. Append(q, id) \in Seq(Tokens) /\ Len(Append(q, id)) = Len(q) + 1
    BY AppendProperties
  <2>2. Append(q, id) = q \o <<id>> /\ <<id>> \in Seq(Tokens)
    BY AppendIsConcat, Singleton
  <2> QED
    BY <1>1, <2>1, <2>2, Zenon
<1>3. \A j \in 0..N : SubSeq(ids, 1, j) = SubSeq(q, 1, j)
  BY <1>1, <1>2, PrefixOfJoin
<1>4. PICK a \in Seq(Tokens), kept \in Seq(Tokens) :
        /\ a = SubSeq(ids, 1, P) /\ kept = SubSeq(ids, P + 1, Len(ids))
        /\ Len(kept) = Len(ids) - P /\ a \o kept = ids
  <2>1. P \in 0..Len(ids)
    BY <1>1, <1>2
  <2>2. /\ SubSeq(ids, 1, P) \in Seq(Tokens) /\ SubSeq(ids, P + 1, Len(ids)) \in Seq(Tokens)
        /\ Len(SubSeq(ids, P + 1, Len(ids))) = Len(ids) - P
        /\ SubSeq(ids, 1, P) \o SubSeq(ids, P + 1, Len(ids)) = ids
    BY <2>1, SplitAt, Zenon
  <2> QED
    BY <2>2, Zenon
<1>5. Decode[a] = st.prefix
  <2>1. P \in 0..N
    BY <1>1
  <2> QED
    BY <1>1, <1>3, <1>4, <2>1
<1>6. Decode[a \o kept] = Decode[a] \o Decode[kept]
  BY <1>1, <1>5, DecodeJoin
<1> QED
  BY <1>1, <1>2, <1>3, <1>4, <1>5, <1>6

(* A sequence extends the one it was joined to, by the other.              *)
LEMMA Splits ==
  ASSUME NEW p \in Seq(Chars), NEW r \in Seq(Chars)
  PROVE  /\ S!IsPrefix(p, p \o r)
         /\ SubSeq(p \o r, Len(p) + 1, Len(p \o r)) = r
<1>1. PICK t \in Seq(Chars), P \in Nat, R \in Nat :
        /\ t = p \o r /\ P = Len(p) /\ R = Len(r) /\ Len(t) = P + R
        /\ \A i \in 1..R : t[P + i] = r[i]
  <2>1. /\ p \o r \in Seq(Chars) /\ Len(p \o r) = Len(p) + Len(r)
        /\ Len(p) \in Nat /\ Len(r) \in Nat
        /\ \A i \in 1..Len(r) : (p \o r)[Len(p) + i] = r[i]
    BY JoinParts
  <2> QED
    BY <2>1
<1>2. S!IsPrefix(p, t)
  <2>1. P \in 0..Len(p) /\ P <= Len(t)
    BY <1>1
  <2>2. SubSeq(t, 1, P) = SubSeq(p, 1, P)
    BY <1>1, <2>1, PrefixOfJoin, Zenon
  <2> QED
    BY <1>1, <2>1, <2>2 DEF S!IsPrefix
<1>3. SubSeq(t, P + 1, Len(t)) = r
  <2>1. P \in 0..Len(t)
    BY <1>1
  <2>2. PICK s \in Seq(Chars) :
          /\ s = SubSeq(t, P + 1, Len(t)) /\ Len(s) = Len(t) - P
          /\ \A i \in 1..(Len(t) - P) : s[i] = t[P + i]
    <3>1. /\ SubSeq(t, P + 1, Len(t)) \in Seq(Chars)
          /\ Len(SubSeq(t, P + 1, Len(t))) = Len(t) - P
          /\ \A i \in 1..(Len(t) - P) : SubSeq(t, P + 1, Len(t))[i] = t[P + i]
      BY <2>1, SplitAt, Zenon
    <3> QED
      BY <3>1, Zenon
  <2>3. Len(s) = Len(r) /\ \A i \in 1..Len(s) : s[i] = r[i]
    BY <1>1, <2>2
  <2>4. s = r
    BY <2>3, SeqEqual
  <2> QED
    BY <2>2, <2>4
<1> QED
  BY <1>1, <1>2, <1>3, Zenon

(* The text of a token more goes with it, or is held back; the stream is   *)
(* never at a loss.                                                        *)
LEMMA StepStreams ==
  ASSUME NEW old, NEW toks \in Seq(Tokens), NEW said, Streamed(old, toks, said), NEW id \in Tokens
  PROVE  /\ StreamStep(old, id).ok
         /\ Streamed(StreamStep(old, id).stream, Append(toks, id), said \o StreamStep(old, id).text)
<1>1. PICK st : st = Anchored(old) /\ Streamed(st, toks, said)
  BY AnchoredStreams
<1>2. PICK head \in Seq(Tokens) :
        /\ ~EndsOpen(Decode[head]) /\ toks = head \o st.ids /\ said = Decode[head] \o st.prefix
  BY <1>1 DEF Streamed
<1>3. PICK ids : ids = Append(st.ids, id)
  OBVIOUS
<1>4. PICK a \in Seq(Tokens), kept \in Seq(Tokens) :
        /\ ids \in Seq(Tokens) /\ Len(ids) = Len(st.ids) + 1
        /\ ids = a \o kept
        /\ kept = SubSeq(ids, st.prefix_index + 1, Len(ids))
        /\ Len(kept) = Len(ids) - st.prefix_index
        /\ Decode[a] = st.prefix
        /\ Decode[ids] = st.prefix \o Decode[kept]
        /\ \A j \in 0..Len(st.ids) : SubSeq(ids, 1, j) = SubSeq(st.ids, 1, j)
  BY <1>1, <1>3, WindowGrows DEF Streamed
<1>5. PICK p \in Seq(Chars), r \in Seq(Chars), string \in Seq(Chars), h \in Seq(Chars) :
        /\ p = st.prefix /\ r = Decode[kept] /\ string = Decode[ids] /\ h = Decode[head]
        /\ string = p \o r
  BY <1>4, DecodeIs
<1>6. PICK P \in Nat, N \in Nat :
        /\ P = st.prefix_index /\ N = Len(st.ids) /\ P <= N /\ Len(ids) = N + 1
        /\ st.ids \in Seq(Tokens)
        /\ Len(kept) = (N + 1) - P
  BY <1>1, <1>4, LenProperties DEF Streamed, Window
<1>7. /\ st \in [ids : Seq(Tokens), prefix : Seq(Chars), prefix_index : Nat]
      /\ p = Decode[SubSeq(st.ids, 1, P)] /\ ~EndsOpen(p)
      /\ \A j \in P..N : EndsOpen(Decode[SubSeq(st.ids, 1, j)]) \/ Decode[SubSeq(st.ids, 1, j)] = p
  BY <1>1, <1>5, <1>6 DEF Streamed, Window
<1>8. Append(toks, id) = head \o ids
  <2>1. PICK q \in Seq(Tokens), e \in Seq(Tokens) : q = st.ids /\ e = <<id>>
    BY <1>6, Singleton
  <2>2. Append(toks, id) = toks \o e /\ ids = q \o e
    BY <1>3, <2>1, AppendIsConcat
  <2>3. (head \o q) \o e = head \o (q \o e)
    BY Associates
  <2> QED
    BY <1>2, <2>1, <2>2, <2>3
<1>9. SubSeq(ids, 1, N + 1) = ids
  BY <1>4, <1>6, SubSeqFull
<1> DEFINE held == [ok |-> TRUE, text |-> <<>>, stream |-> [st EXCEPT !.ids = ids]]
           more == Emitted(st, ids, string)
<1>10. StreamStep(old, id) =
         IF ByteLen[string] <= ByteLen[p] \/ EndsOpen(string) THEN held
         ELSE IF S!IsPrefix(p, string) THEN more
         ELSE [held EXCEPT !.ok = FALSE]
  BY <1>1, <1>3, <1>5, Zenon DEF StreamStep
<1>11. CASE r = <<>> \/ EndsOpen(string)
  <2>1. StreamStep(old, id) = held
    <3>1. ByteLen[string] <= ByteLen[p] \/ EndsOpen(string)
      BY <1>5, <1>11, LongerJoin
    <3> QED
      BY <1>10, <3>1, Zenon
  <2>2. PICK new : new = [st EXCEPT !.ids = ids]
    OBVIOUS
  <2>3. /\ new.ids = ids /\ new.prefix = p /\ new.prefix_index = P
        /\ new \in [ids : Seq(Tokens), prefix : Seq(Chars), prefix_index : Nat]
    BY <1>4, <1>5, <1>6, <1>7, <2>2
  <2>4. ASSUME NEW j \in P..(N + 1)
        PROVE  EndsOpen(Decode[SubSeq(ids, 1, j)]) \/ Decode[SubSeq(ids, 1, j)] = p
    <3>1. CASE j = N + 1
      <4>1. r = <<>> => string = p
        BY <1>5, ConcatEmptySeq
      <4>2. Decode[SubSeq(ids, 1, j)] = string
        BY <1>5, <1>9, <3>1
      <4> QED
        BY <1>11, <4>1, <4>2
    <3>2. CASE j # N + 1
      <4>1. j \in P..N /\ j \in 0..N
        BY <1>6, <3>2
      <4> QED
        BY <1>4, <1>6, <1>7, <4>1
    <3> QED
      BY <3>1, <3>2
  <2>5. p = Decode[SubSeq(ids, 1, P)]
    <3>1. P \in 0..N
      BY <1>6
    <3> QED
      BY <1>4, <1>6, <1>7, <3>1
  <2>6. Window(new)
    BY <1>6, <1>7, <2>3, <2>4, <2>5 DEF Window
  <2>7. said \o <<>> = said
    <3>1. said \in Seq(Chars)
      BY <1>2, <1>5, ConcatProperties
    <3> QED
      BY <3>1, ConcatEmptySeq
  <2>8. Streamed(new, Append(toks, id), said)
    BY <1>2, <1>5, <1>8, <2>3, <2>6 DEF Streamed
  <2>9. held.ok /\ held.text = <<>> /\ held.stream = new
    BY <2>2
  <2> QED
    BY <2>1, <2>7, <2>8, <2>9
<1>12. CASE r # <<>> /\ ~EndsOpen(string)
  <2>1. ~(ByteLen[string] <= ByteLen[p])
    BY <1>5, <1>12, LongerJoin
  <2>2. S!IsPrefix(p, string) /\ SubSeq(string, Len(p) + 1, Len(string)) = r
    <3>1. /\ S!IsPrefix(p, p \o r)
          /\ SubSeq(p \o r, Len(p) + 1, Len(p \o r)) = r
      BY Splits
    <3> QED
      BY <1>5, <3>1, Zenon
  <2>3. StreamStep(old, id) = more
    BY <1>10, <1>12, <2>1, <2>2, Zenon
  <2>4. PICK new : new = [ids |-> kept, prefix |-> r, prefix_index |-> (N + 1) - P]
    OBVIOUS
  <2>5. more.ok /\ more.text = r /\ more.stream = new
    <3>1. more = [ok |-> TRUE, text |-> r, stream |-> new]
      BY <1>4, <1>5, <1>6, <2>2, <2>4 DEF Emitted
    <3> QED
      BY <3>1
  <2>6. /\ new.ids = kept /\ new.prefix = r /\ new.prefix_index = (N + 1) - P
        /\ new \in [ids : Seq(Tokens), prefix : Seq(Chars), prefix_index : Nat]
    BY <1>6, <2>4
  <2>7. PICK n \in Nat : n = (N + 1) - P /\ n = Len(kept)
    BY <1>6
  <2>8. SubSeq(kept, 1, n) = kept
    BY <2>7, SubSeqFull
  <2>9. ~EndsOpen(r)
    BY <1>5, <1>12, OpenJoin
  <2>10. Window(new)
    <3>1. \A j \in n..n : Decode[SubSeq(kept, 1, j)] = r
      <4>1. \A j \in n..n : j = n
        OBVIOUS
      <4> QED
        BY <1>5, <2>8, <4>1, Zenon
    <3>2. Decode[SubSeq(kept, 1, n)] = r
      BY <1>5, <2>8, Zenon
    <3>3. n <= Len(kept)
      BY <2>7
    <3> QED
      BY <2>6, <2>7, <2>9, <3>1, <3>2, <3>3 DEF Window
  <2>11. PICK front \in Seq(Tokens) :
           front = head \o a /\ Decode[front] = h \o p /\ front \o kept = head \o ids
    <3>1. head \o a \in Seq(Tokens) /\ (head \o a) \o kept = head \o (a \o kept)
      BY ConcatProperties, ConcatAssociative
    <3>2. Decode[head \o a] = Decode[head] \o Decode[a]
      BY <1>2, DecodeJoin
    <3> QED
      BY <1>4, <1>5, <3>1, <3>2, Zenon
  <2>12. ~EndsOpen(Decode[front])
    BY <1>2, <1>5, <1>7, <2>11, OpenJoin
  <2>13. said \o r = Decode[front] \o r
    BY <1>2, <1>5, <2>11
  <2>14. Streamed(new, Append(toks, id), said \o r)
    BY <1>8, <2>6, <2>10, <2>11, <2>12, <2>13 DEF Streamed
  <2> QED
    BY <2>3, <2>5, <2>14
<1> QED
  BY <1>11, <1>12

(* What was said is what the stream owes.                                  *)
LEMMA SettledIs ==
  ASSUME NEW st, NEW toks \in Seq(Tokens), NEW said, Streamed(st, toks, said)
  PROVE  Settled(toks) = said
<1>1. PICK head \in Seq(Tokens) :
        /\ ~EndsOpen(Decode[head]) /\ toks = head \o st.ids /\ said = Decode[head] \o st.prefix
  BY DEF Streamed
<1>2. PICK q \in Seq(Tokens), P \in Nat, N \in Nat, H \in Nat, p \in Seq(Chars), h \in Seq(Chars) :
        /\ q = st.ids /\ P = st.prefix_index /\ N = Len(q) /\ H = Len(head)
        /\ p = st.prefix /\ h = Decode[head]
        /\ P <= N /\ ~EndsOpen(p)
        /\ \A j \in P..N : EndsOpen(Decode[SubSeq(q, 1, j)]) \/ Decode[SubSeq(q, 1, j)] = p
        /\ p = Decode[SubSeq(q, 1, P)]
  <2>1. Window(st)
    BY DEF Streamed
  <2>2. PICK q \in Seq(Tokens), P \in Nat, p \in Seq(Chars) :
          q = st.ids /\ P = st.prefix_index /\ p = st.prefix
    BY <2>1 DEF Window
  <2>3. PICK N \in Nat, H \in Nat, h \in Seq(Chars) : N = Len(q) /\ H = Len(head) /\ h = Decode[head]
    BY LenProperties, DecodeIs
  <2>4. /\ P <= N /\ ~EndsOpen(p)
        /\ \A j \in P..N : EndsOpen(Decode[SubSeq(q, 1, j)]) \/ Decode[SubSeq(q, 1, j)] = p
        /\ p = Decode[SubSeq(q, 1, P)]
    BY <2>1, <2>2, <2>3 DEF Window
  <2> QED
    BY <2>2, <2>3, <2>4, Zenon
<1>3. toks = head \o q /\ Len(toks) = H + N /\ said = h \o p
  BY <1>1, <1>2, JoinParts
<1>4. ASSUME NEW j \in 0..N
      PROVE  Decode[SubSeq(toks, 1, H + j)] = h \o Decode[SubSeq(q, 1, j)]
  <2>1. SubSeq(toks, 1, H + j) = head \o SubSeq(q, 1, j)
    <3>1. j \in 0..Len(q)
      BY <1>2
    <3>2. SubSeq(head \o q, 1, Len(head) + j) = head \o SubSeq(q, 1, j)
      BY <3>1, PrefixPastJoin, Zenon
    <3> QED
      BY <1>2, <1>3, <3>2, Zenon
  <2>2. SubSeq(q, 1, j) \in Seq(Tokens)
    BY <1>2, PrefixOf
  <2> QED
    BY <1>1, <1>2, <2>1, <2>2, DecodeJoin
<1> DEFINE whole == {n \in 0..Len(toks) : ~EndsOpen(Decode[SubSeq(toks, 1, n)])}
           last  == CHOOSE n \in whole : \A k \in whole : k <= n
<1>5. H + P \in whole
  <2>1. P \in 0..N /\ H + P \in 0..Len(toks)
    BY <1>2, <1>3
  <2>2. Decode[SubSeq(toks, 1, H + P)] = h \o p
    BY <1>2, <1>4, <2>1
  <2>3. ~EndsOpen(h \o p)
    BY <1>1, <1>2, OpenJoin
  <2> QED
    BY <2>1, <2>2, <2>3
<1>6. last \in whole /\ \A k \in whole : k <= last
  <2>1. Len(toks) \in Nat /\ whole \in SUBSET (0..Len(toks))
    BY <1>3
  <2> HIDE DEF whole
  <2>2. \E x \in whole : \A y \in whole : y <= x
    BY <1>5, <2>1, GreatestOf, Zenon
  <2> QED
    BY <2>2, Zenon
<1>7. Settled(toks) = Decode[SubSeq(toks, 1, last)]
  BY DEF Settled
<1>8. last \in 0..Len(toks) /\ ~EndsOpen(Decode[SubSeq(toks, 1, last)]) /\ H + P <= last
  BY <1>5, <1>6
<1> HIDE DEF last, whole
<1>9. PICK j \in 0..N : j \in P..N /\ last = H + j
  <2>1. last - H \in P..N /\ last - H \in 0..N /\ last = H + (last - H)
    BY <1>2, <1>3, <1>8
  <2> QED
    BY <2>1, Zenon
<1>10. PICK d \in Seq(Chars) : d = Decode[SubSeq(q, 1, j)] /\ Decode[SubSeq(toks, 1, last)] = h \o d
  <2>1. SubSeq(q, 1, j) \in Seq(Tokens)
    BY <1>2, PrefixOf
  <2> QED
    BY <1>4, <1>9, <2>1, DecodeIs
<1>11. EndsOpen(d) \/ d = p
  BY <1>2, <1>9, <1>10
<1>12. ~EndsOpen(d)
  <2>1. CASE d = <<>>
    BY <2>1, NothingDecodes
  <2>2. CASE d # <<>>
    BY <1>8, <1>10, <2>2, OpenJoin
  <2> QED
    BY <2>1, <2>2
<1> QED
  BY <1>3, <1>7, <1>10, <1>11, <1>12

-----------------------------------------------------------------------------
(* The text of a reply. *)

Said == Streamed(stream, out, text)

LEMMA QuietStep ==
  ASSUME IInv, Said, UNCHANGED reply
  PROVE  Said' /\ text' = Settled(out')
<1>1. out' = out /\ stream' = stream /\ text' = text /\ out \in Seq(Tokens)
  BY DEF reply, IInv, TypeOK
<1>2. Settled(out) = text
  BY <1>1, SettledIs, Zenon DEF Said
<1> QED
  BY <1>1, <1>2, Zenon DEF Said

LEMMA NothingOwed == Settled(<<>>) = <<>>
  BY FreshStreams, EmptySeq, SettledIs, Zenon

LEMMA SayStep ==
  ASSUME IInv, Said, DrawAndEmit
  PROVE  Said' /\ text' = Settled(out') /\ (status' # "complete" => status' = status)
<1> DEFINE t    == script[drawn + 1]
           step == StreamStep(stream, t)
<1>1. /\ pc = "draw" /\ Draws(drawn + 1, kv, Len(out) < minThink) = {t}
      /\ t \in Tokens /\ out \in Seq(Tokens)
  <2>1. pc = "draw"
    BY DEF DrawAndEmit
  <2>2. /\ drawn \in Nat /\ drawn < cap /\ cap <= MaxNew /\ cap \in Nat /\ MaxNew \in Nat
        /\ script \in Seq(Tokens) /\ Len(script) = MaxNew
        /\ Draws(drawn + 1, kv, Len(out) < minThink) = {t}
    BY <2>1, DrawIs, Assumed DEF IInv, TypeOK
  <2>3. drawn + 1 \in 1..Len(script)
    BY <2>2
  <2> QED
    BY <2>1, <2>2, <2>3, ElementOfSeq DEF IInv, TypeOK
<1>2. IF t \in Eog THEN Return("complete") /\ UNCHANGED <<reply, late>>
                   ELSE EmitToken(t, "forward")
  BY <1>1 DEF DrawAndEmit
<1> HIDE DEF t
<1>3. step.ok /\ Streamed(step.stream, Append(out, t), text \o step.text)
  BY <1>1, StepStreams, Zenon DEF Said
<1>4. CASE t \in Eog
  <2>1. UNCHANGED reply /\ status' = "complete"
    BY <1>2, <1>4, Zenon DEF Return
  <2> QED
    BY <2>1, QuietStep
<1>5. CASE t \notin Eog
  <2>1. /\ out' = Append(out, t) /\ stream' = step.stream /\ text' = text \o step.text
        /\ IF Len(out) + 1 >= cap THEN Return("complete")
           ELSE status' = status /\ pc' = "forward"
    BY <1>2, <1>3, <1>5, Zenon DEF EmitToken
  <2>2. Streamed(stream', out', text')
    BY <1>3, <2>1, Zenon
  <2>3. Append(out, t) \in Seq(Tokens)
    BY <1>1, AppendProperties
  <2>4. text' = Settled(out')
    BY <2>1, <2>2, <2>3, SettledIs, Zenon
  <2> QED
    BY <2>1, <2>2, <2>4, Zenon DEF Return, Said
<1> QED
  BY <1>4, <1>5

LEMMA SaidStep ==
  ASSUME IInv, Said, [Next]_gvars
  PROVE  Said' /\ text' = Settled(out') /\ (drawn' # drawn => status' # "failed")
<1>1. CASE Reset
  <2>1. out' = <<>> /\ stream' = Fresh /\ text' = <<>> /\ status' = "idle"
    BY <1>1 DEF Reset
  <2>2. Said' /\ text' = Settled(out')
    BY <2>1, FreshStreams, NothingOwed, Zenon DEF Said
  <2> QED
    BY <2>1, <2>2
<1>2. CASE DrawAndEmit
  <2>1. Said' /\ text' = Settled(out') /\ (status' # "complete" => status' = status)
    BY <1>2, SayStep
  <2>2. status = "running"
    BY <1>2 DEF DrawAndEmit, IInv, Accepted, Turning
  <2> QED
    BY <2>1, <2>2
<1>3. ASSUME UNCHANGED reply, drawn' = drawn
      PROVE  Said' /\ text' = Settled(out') /\ (drawn' # drawn => status' # "failed")
  BY <1>3, QuietStep
<1>4. ASSUME NEW p \in Prompts, NEW max \in Budgets, NEW floor \in Floors, Check(p, max, floor)
      PROVE  UNCHANGED reply /\ drawn' = drawn
  BY <1>4 DEF Check
<1>5. CASE Prefill
  BY <1>3, <1>5 DEF Prefill
<1>6. CASE Poll
  BY <1>3, <1>6 DEF Poll
<1>7. CASE Forward
  BY <1>3, <1>7 DEF Forward
<1>8. CASE RequestStop
  BY <1>3, <1>8 DEF RequestStop
<1>9. CASE Fail
  BY <1>3, <1>9 DEF Fail
<1>10. CASE UNCHANGED gvars
  BY <1>3, <1>10 DEF gvars
<1> QED
  BY <1>1, <1>2, <1>3, <1>4, <1>5, <1>6, <1>7, <1>8, <1>9, <1>10 DEF Next, Step

(* What the caller has been handed is always the decoded reply up to its   *)
(* last whole character, whatever bytes the tokens stand for, and no token *)
(* is ever rejected for not extending what was said: the error of          *)
(* DecodeStream::step is unreachable (tokenizer.rs:117).                   *)
THEOREM SpeaksTheReply == Spec => TextIsReply
<1>1. Init => Said
  <2> SUFFICES ASSUME Init PROVE Said
    OBVIOUS
  <2>1. out = <<>> /\ stream = Fresh /\ text = <<>>
    BY DEF Init, GenInit
  <2> QED
    BY <2>1, FreshStreams, Zenon DEF Said
<1>2. IInv /\ Said /\ [Next]_gvars => Said'
  BY SaidStep
<1>3. Spec => []Said
  BY <1>1, <1>2, Inductive, PTL DEF Spec
<1>4. IInv /\ Said /\ [Next]_gvars =>
        [text' = Settled(out') /\ (drawn' # drawn => status' # "failed")]_gvars
  BY SaidStep
<1> QED
  BY <1>3, <1>4, Inductive, PTL DEF Spec, TextIsReply
=============================================================================
