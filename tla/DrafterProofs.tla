---------------------------- MODULE DrafterProofs ----------------------------
(***************************************************************************)
(* Drafter for every drafter file, tap layout, context and draft length:   *)
(* each committed row of the drafter's caches is fused from the target's   *)
(* residuals at its own position, and a draft forward attends to those and *)
(* to its own block alone, whatever was rejected or abandoned before; a    *)
(* drafter of the wrong width is stopped before it stores anything.  And   *)
(* the controller that pauses it keeps its promises: the plain average     *)
(* stays fresh, the warm-up ends early, a plain round is forced only when  *)
(* it is due, and probes come on time.                                     *)
(***************************************************************************)
EXTENDS Drafter, PauseController, Lemmas, TLAPS

-----------------------------------------------------------------------------
(* The inductive invariant.                                                *)

Cell == Tokens \cup {NoToken}

Types ==
  /\ file \in Files
  /\ il \in 1..DraftLayers
  /\ committed \in 0..MaxCtx /\ n_past = committed
  /\ log \in Seq(Cell) /\ committed <= Len(log) /\ Len(log) <= MaxCtx
  /\ id_last \in Cell
  /\ drafts \in Seq(Tokens)
  /\ block \in Nat
  /\ rows = [l \in 1..DraftLayers |-> rows[l]]
  /\ \A l \in 1..DraftLayers : DOMAIN rows[l] = 0..(MaxCtx - 1)

(* Once a drafter is attached, the target captures the outputs of layers   *)
(* it has, one for each entry of target_layers.                            *)
Attached ==
  /\ pc \notin {"load", "exit"} => NAux >= 1
  /\ pc \notin {"load", "attach", "exit"} =>
       /\ \A k \in 1..NAux : InRange(file.target_layers[k])
       /\ spec_tap_layers = [k \in 1..NAux |-> file.target_layers[k] - 1]

(* The taps of the first n positions the drafter has not committed. *)
Owed(n) == [a \in 1..NAux |-> [k \in 1..n |-> TapsAt(n_past + k - 1)[a]]]
OwedRows(n) == [k \in 1..n |-> TapsAt(n_past + k - 1)]

(* The positions of the target's caches not committed yet. *)
Ahead == Len(log) - n_past

(* Where the target stands at each step of the call. *)
Phases ==
  /\ pc \in {"prefill", "draw", "round", "draft", "drafted", "step", "verify"} => Ahead = 0
  /\ pc \in {"load", "attach", "idle", "prefill", "draw", "round", "draft", "drafted", "step"} =>
       drafts = <<>>
  /\ pc = "take" => /\ Ahead >= 1 /\ spec_taps = Owed(Ahead)
                    /\ drafts # <<>> => Ahead = Len(drafts) + 1
  /\ pc = "accept" => Ahead = Len(drafts) + 1 /\ taps = Owed(Ahead)
  /\ pc = "encode" => Ahead >= 1 /\ taps = Owed(Ahead)
  /\ pc = "inject" => Ahead >= 1 /\ fused = OwedRows(Ahead)
  /\ pc = "draft" => committed + block <= MaxCtx

(* The rows that are fused: all committed ones, and during an injection    *)
(* those of the layers it has served.                                      *)
InPlace(l, p) == rows[l][p] = FusedRow(TapsAt(p), p)

Rows ==
  /\ \A l \in 1..DraftLayers : \A p \in 0..(committed - 1) : InPlace(l, p)
  /\ pc = "inject" =>
       \A l \in 1..(il - 1) : \A p \in committed..(Len(log) - 1) : InPlace(l, p)

Noise ==
  /\ DraftsSeeTheirContext
  /\ hidden # <<>> => pc \in {"draft", "drafted"}

IInv == Types /\ Attached /\ Phases /\ Rows /\ Noise

-----------------------------------------------------------------------------
LEMMA Sizes ==
  /\ ModelLayers \in Nat \ {0} /\ DraftLayers \in Nat \ {0}
  /\ MaxCtx \in Nat \ {0} /\ DraftMax \in Nat
BY DrafterAssumption

LEMMA Targets ==
  ASSUME Types
  PROVE  file.target_layers \in Seq(Nat) /\ NAux \in Nat
BY DrafterAssumption DEF Types, NAux

LEMMA InitIInv == Init => IInv
<1> SUFFICES ASSUME Init PROVE IInv
  OBVIOUS
<1>1. /\ file \in Files /\ il = 1 /\ committed = 0 /\ n_past = 0 /\ log = <<>>
      /\ id_last = NoToken /\ drafts = <<>> /\ block = 0 /\ hidden = <<>> /\ pc = "load"
      /\ rows = [l \in 1..DraftLayers |-> [p \in 0..(MaxCtx - 1) |-> Unwritten]]
  BY DEF Init
<1>2. Types
  BY <1>1, Sizes DEF Types, Cell
<1>3. Attached /\ Phases /\ Rows /\ Noise
  BY <1>1 DEF Attached, Phases, Rows, Noise, DraftsSeeTheirContext
<1> QED
  BY <1>2, <1>3 DEF IInv

-----------------------------------------------------------------------------
(* What a step that leaves the target's cells and the drafter's rows alone *)
(* and drops the hidden states cannot disturb.                             *)
LEMMA Quiet ==
  ASSUME IInv, UNCHANGED <<file, log, rows, committed, n_past>>,
         hidden' = <<>>, pc' = "inject" => il' = 1
  PROVE  /\ NAux' = NAux /\ Ahead' = Ahead
         /\ \A n : Owed(n)' = Owed(n) /\ OwedRows(n)' = OwedRows(n)
         /\ Rows' /\ Noise'
<1>1. \A p : TapsAt(p)' = TapsAt(p)
  BY DEF TapsAt, NAux
<1>2. \A n : Owed(n)' = Owed(n) /\ OwedRows(n)' = OwedRows(n)
  BY DEF Owed, OwedRows, TapsAt, NAux
<1>3. \A l, p : InPlace(l, p)' = InPlace(l, p)
  BY <1>1 DEF InPlace
<1>4. Rows'
  BY <1>3 DEF IInv, Rows
<1>5. Noise'
  BY DEF Noise, DraftsSeeTheirContext
<1> QED
  BY <1>2, <1>4, <1>5 DEF NAux, Ahead

LEMMA LoadStep ==
  ASSUME IInv, Load
  PROVE  IInv'
<1>1. /\ pc = "load" /\ pc' \in {"attach", "exit"}
      /\ UNCHANGED <<file, log, rows, committed, n_past, il, id_last, drafts, block, hidden>>
      /\ pc' = "attach" => file.target_layers # <<>>
  BY DEF Load, local, Configures
<1>2. hidden' = <<>> /\ (pc' = "inject" => il' = 1)
  BY <1>1 DEF IInv, Noise
<1>3. NAux' = NAux /\ Rows' /\ Noise'
  BY <1>1, <1>2, Quiet
<1>4. pc' = "attach" => NAux >= 1
  BY <1>1, Targets DEF IInv, NAux
<1>5. Types'
  BY <1>1 DEF IInv, Types
<1>6. Attached' /\ Phases'
  BY <1>1, <1>3, <1>4 DEF IInv, Attached, Phases
<1> QED
  BY <1>3, <1>5, <1>6 DEF IInv

LEMMA AttachStep ==
  ASSUME IInv, Attach
  PROVE  IInv'
<1>1. /\ pc = "attach" /\ pc' \in {"idle", "exit"}
      /\ UNCHANGED <<file, log, rows, committed, n_past, il, id_last, drafts, block, hidden>>
      /\ pc' = "idle" =>
           /\ \A k \in 1..NAux : InRange(file.target_layers[k])
           /\ spec_tap_layers' = [k \in 1..NAux |-> file.target_layers[k] - 1]
  BY DEF Attach, local
<1>2. hidden' = <<>> /\ (pc' = "inject" => il' = 1)
  BY <1>1 DEF IInv, Noise
<1>3. NAux' = NAux /\ Rows' /\ Noise'
  BY <1>1, <1>2, Quiet
<1>4. Types'
  BY <1>1 DEF IInv, Types
<1>5. Attached' /\ Phases'
  BY <1>1, <1>3 DEF IInv, Attached, Phases, InRange
<1> QED
  BY <1>3, <1>4, <1>5 DEF IInv

LEMMA CallStep ==
  ASSUME IInv, Call
  PROVE  IInv'
<1>1. /\ pc = "idle" /\ pc' = "prefill"
      /\ log' = <<>> /\ n_past' = 0 /\ committed' = 0 /\ id_last' = NoToken
      /\ UNCHANGED <<file, spec_tap_layers, rows, il, drafts, block, hidden>>
  BY DEF Call, local
<1>2. hidden' = <<>>
  BY <1>1 DEF IInv, Noise
<1>3. Types'
  BY <1>1, Sizes DEF IInv, Types, Cell
<1>4. Attached'
  BY <1>1 DEF IInv, Attached, NAux, InRange
<1>5. Phases'
  BY <1>1 DEF IInv, Phases, Ahead
<1>6. Rows' /\ Noise'
  BY <1>1, <1>2 DEF Rows, Noise, DraftsSeeTheirContext
<1> QED
  BY <1>3, <1>4, <1>5, <1>6 DEF IInv

-----------------------------------------------------------------------------
(* The taps of a forward.                                                  *)

(* When every configured layer was captured, order_spec_taps returns its   *)
(* tap in its place.                                                       *)
LEMMA OrderedAll ==
  ASSUME NEW captured, NEW config \in Seq(DOMAIN captured)
  PROVE  Ordered(config, captured) = [k \in 1..Len(config) |-> captured[config[k]]]
<1>1. PICK N \in Nat : N = Len(config)
  BY LenProperties
<1> DEFINE Step(f, n) == IF n = 0 THEN <<>>
                         ELSE IF config[n] \in DOMAIN captured
                              THEN Append(f[n - 1], captured[config[n]]) ELSE f[n - 1]
           Found == CHOOSE f : f = [n \in 0..N |-> Step(f, n)]
           All == [n \in 0..N |-> [k \in 1..n |-> captured[config[k]]]]
<1>2. Ordered(config, captured) = Found[N]
  BY <1>1 DEF Ordered
<1>3. \A k \in 1..N : config[k] \in DOMAIN captured
  BY <1>1, ElementOfSeq
<1>4. All = [n \in 0..N |-> Step(All, n)]
  <2>1. ASSUME NEW n \in 0..N
        PROVE  [k \in 1..n |-> captured[config[k]]] = Step(All, n)
    <3>1. CASE n = 0
      BY <3>1
    <3>2. CASE n # 0
      <4>1. n - 1 \in 0..N /\ n \in 1..N /\ (n - 1) + 1 = n
        BY <3>2
      <4>2. All[n - 1] = [k \in 1..(n - 1) |-> captured[config[k]]]
        BY <4>1
      <4>3. Step(All, n) = Append(All[n - 1], captured[config[n]])
        BY <1>3, <3>2, <4>1
      <4> HIDE DEF Step, All
      <4>4. Append([k \in 1..(n - 1) |-> captured[config[k]]], captured[config[n]])
              = [k \in 1..n |-> captured[config[k]]]
        BY <4>1
      <4> QED
        BY <4>2, <4>3, <4>4
    <3> QED
      BY <3>1, <3>2
  <2> QED
    BY <2>1
<1>5. Found = [n \in 0..N |-> Step(Found, n)]
  <2>1. \E f : f = [n \in 0..N |-> Step(f, n)]
    BY <1>4, Zenon
  <2> QED
    BY <2>1, Zenon
<1> HIDE DEF Found
<1>6. ASSUME NEW n \in 0..N, Found[n] # All[n]
      PROVE  FALSE
  <2> DEFINE Bad == {m \in 0..N : Found[m] # All[m]}
  <2>1. PICK m \in Bad : \A j \in Bad : ~(j < m)
    <3>1. Bad \in SUBSET Nat /\ n \in Bad
      BY <1>6
    <3> HIDE DEF Bad
    <3> QED
      BY <3>1, LeastOf, Zenon
  <2>2. m \in 0..N /\ Found[m] # All[m] /\ Found[m] = Step(Found, m) /\ All[m] = Step(All, m)
    BY <1>4, <1>5, Zenon
  <2>3. m # 0
    BY <2>2
  <2>4. m - 1 \in 0..N /\ m - 1 < m
    BY <2>2, <2>3
  <2>5. Found[m - 1] = All[m - 1]
    BY <2>1, <2>4
  <2> QED
    BY <2>2, <2>3, <2>5
<1>7. Found[N] = All[N]
  BY <1>6
<1> QED
  BY <1>1, <1>2, <1>7

(* A forward leaves, for each entry of target_layers in its order, the     *)
(* residual that enters that layer, at every position it covers.           *)
LEMMA ForwardTaps ==
  ASSUME IInv, pc \in {"prefill", "round", "step", "verify"},
         NEW cells, NEW from
  PROVE  Ordered(spec_tap_layers, Captured(cells, from))
           = [a \in 1..NAux |-> Residuals(file.target_layers[a] - 1, cells, from)]
<1> DEFINE captured == Captured(cells, from)
<1>1. PICK N \in Nat : N = NAux
  BY Targets DEF IInv
<1>2. PICK layers \in Seq(Nat) : layers = file.target_layers /\ Len(layers) = N
  BY <1>1, Targets DEF IInv, NAux
<1>3. \A k \in 1..N : layers[k] \in 1..ModelLayers
  BY <1>1, <1>2 DEF IInv, Attached, InRange
<1>4. PICK config : config = [k \in 1..N |-> layers[k] - 1] /\ config = spec_tap_layers
  BY <1>1, <1>2 DEF IInv, Attached
<1>5. \A k \in 1..N : layers[k] - 1 \in 0..(ModelLayers - 1)
  BY <1>3, Sizes
<1>6. /\ DOMAIN captured = {l \in 0..(ModelLayers - 1) : \E k \in DOMAIN config : config[k] = l}
      /\ \A l \in DOMAIN captured : captured[l] = Residuals(l, cells, from)
  BY <1>4, Zenon DEF Captured
<1> HIDE DEF captured
<1>7. \A k \in 1..N : config[k] = layers[k] - 1 /\ config[k] \in DOMAIN captured
  <2>1. DOMAIN config = 1..N /\ \A k \in 1..N : config[k] = layers[k] - 1
    BY <1>4
  <2> QED
    BY <1>5, <1>6, <2>1, Zenon
<1>8. config \in Seq(DOMAIN captured) /\ Len(config) = N
  <2>1. config \in [1..N -> DOMAIN captured]
    BY <1>4, <1>7
  <2> QED
    BY <2>1, IsSequence
<1>9. Ordered(config, captured) = [k \in 1..N |-> captured[config[k]]]
  BY <1>8, OrderedAll
<1>10. \A k \in 1..N : captured[config[k]] = Residuals(layers[k] - 1, cells, from)
  BY <1>6, <1>7
<1>11. [k \in 1..N |-> captured[config[k]]] = [k \in 1..N |-> Residuals(layers[k] - 1, cells, from)]
  BY <1>10, Zenon
<1> QED
  BY <1>1, <1>2, <1>4, <1>9, <1>11, Zenon DEF captured

(* A step of the target's that leaves the drafter's rows and the committed *)
(* cells alone.                                                            *)
LEMMA CommittedCells ==
  ASSUME IInv, UNCHANGED <<file, rows, committed, n_past>>, hidden' = <<>>, pc' # "inject",
         \A n \in 0..committed : SubSeq(log', 1, n) = SubSeq(log, 1, n)
  PROVE  NAux' = NAux /\ Rows' /\ Noise'
<1>1. committed \in Nat
  BY Sizes DEF IInv, Types
<1>2. NAux' = NAux
  BY DEF NAux
<1>3. ASSUME NEW p \in 0..(committed - 1) PROVE TapsAt(p)' = TapsAt(p)
  <2>1. SubSeq(log', 1, p + 1) = SubSeq(log, 1, p + 1)
    BY <1>1, <1>3
  <2> QED
    BY <2>1 DEF TapsAt, NAux
<1>4. Rows'
  BY <1>3 DEF IInv, Rows, InPlace
<1> QED
  BY <1>2, <1>4 DEF Noise, DraftsSeeTheirContext

(* A forward over these tokens, from a prefill or a round. *)
LEMMA ForwardStep ==
  ASSUME IInv, pc \in {"prefill", "round", "step", "verify"},
         NEW toks \in Seq(Cell), Len(toks) >= 1, TargetForward(toks),
         drafts # <<>> => Len(toks) = Len(drafts) + 1,
         UNCHANGED <<file, spec_tap_layers, rows, committed, il, n_past, id_last, local>>
  PROVE  IInv'
<1>1. /\ log' = log \o toks /\ n_past + Len(toks) <= MaxCtx /\ pc' = "take"
      /\ spec_taps' = Ordered(spec_tap_layers, Captured(log', n_past))
      /\ UNCHANGED <<drafts, block, hidden, taps, fused>>
  BY DEF TargetForward, local
<1>2. /\ log \in Seq(Cell) /\ Len(log) = n_past /\ committed = n_past
      /\ n_past \in Nat /\ Len(toks) \in Nat /\ MaxCtx \in Nat
  <2>1. log \in Seq(Cell) /\ committed \in 0..MaxCtx /\ n_past = committed
    BY DEF IInv, Types
  <2>2. Len(log) \in Nat /\ Len(toks) \in Nat
    BY <2>1, LenProperties
  <2>3. Len(log) - n_past = 0
    BY DEF IInv, Phases, Ahead
  <2> QED
    BY Sizes, <2>1, <2>2, <2>3
<1>3. log' \in Seq(Cell) /\ Len(log') = n_past + Len(toks)
  BY <1>1, <1>2, ConcatProperties
<1>4. hidden' = <<>>
  BY <1>1 DEF IInv, Noise
<1>5. Types'
  BY <1>1, <1>2, <1>3 DEF IInv, Types
<1>6. \A n \in 0..committed : SubSeq(log', 1, n) = SubSeq(log, 1, n)
  BY <1>1, <1>2, PrefixOfJoin
<1>7. NAux' = NAux /\ Rows' /\ Noise'
  BY <1>1, <1>4, <1>6, CommittedCells
<1>8. Attached'
  BY <1>1, <1>7 DEF IInv, Attached, InRange
<1>9. Ahead' = Len(toks)
  BY <1>2, <1>3 DEF Ahead
<1>10. spec_taps' = [a \in 1..NAux |-> Residuals(file.target_layers[a] - 1, log', n_past)]
  <2>1. PICK cells : cells = log'
    OBVIOUS
  <2>2. Ordered(spec_tap_layers, Captured(cells, n_past))
          = [a \in 1..NAux |-> Residuals(file.target_layers[a] - 1, cells, n_past)]
    BY ForwardTaps, Zenon
  <2> QED
    BY <1>1, <2>1, <2>2
<1>11. Owed(Ahead)' = [a \in 1..NAux |-> Residuals(file.target_layers[a] - 1, log', n_past)]
  BY <1>1, <1>2, <1>3, <1>7, <1>9 DEF Owed, TapsAt, Residuals
<1>12. Phases'
  BY <1>1, <1>9, <1>10, <1>11 DEF Phases
<1> QED
  BY <1>5, <1>7, <1>8, <1>12 DEF IInv

LEMMA PrefillStep ==
  ASSUME IInv, Prefill
  PROVE  IInv'
<1>1. PICK chunk \in PrefillChunks : TargetForward(chunk)
  BY DEF Prefill
<1>2. pc = "prefill" /\ UNCHANGED <<file, spec_tap_layers, rows, committed, il, n_past, id_last, local>>
  BY DEF Prefill
<1>3. PICK n \in 1..PrefillChunk : chunk \in [1..n -> Tokens]
  BY DEF PrefillChunks
<1>4. n \in Nat /\ n >= 1 /\ chunk \in [1..n -> Cell]
  BY <1>3, DrafterAssumption DEF Cell
<1>5. chunk \in Seq(Cell) /\ Len(chunk) >= 1
  BY <1>4, IsSequence
<1>6. drafts = <<>>
  BY <1>2 DEF IInv, Phases
<1> QED
  BY <1>1, <1>2, <1>5, <1>6, ForwardStep

LEMMA PlainStepStep ==
  ASSUME IInv, PlainStep
  PROVE  IInv'
<1>1. pc \in {"round", "step"} /\ TargetForward(<<id_last>>)
  BY DEF PlainStep
<1>2. UNCHANGED <<file, spec_tap_layers, rows, committed, il, n_past, id_last, local>>
  BY DEF PlainStep
<1>3. <<id_last>> \in Seq(Cell) /\ Len(<<id_last>>) >= 1 /\ drafts = <<>>
  BY <1>1 DEF IInv, Types, Phases
<1> QED
  BY <1>1, <1>2, <1>3, ForwardStep

LEMMA VerifyStep ==
  ASSUME IInv, Verify
  PROVE  IInv'
<1>1. pc = "verify" /\ TargetForward(<<id_last>> \o drafts)
  BY DEF Verify
<1>2. UNCHANGED <<file, spec_tap_layers, rows, committed, il, n_past, id_last, local>>
  BY DEF Verify
<1>3. id_last \in Cell /\ drafts \in Seq(Cell) /\ Len(drafts) \in Nat
  BY LenProperties DEF IInv, Types, Cell
<1>4. <<id_last>> \in Seq(Cell) /\ Len(<<id_last>>) = 1
  BY <1>3
<1>5. /\ <<id_last>> \o drafts \in Seq(Cell)
      /\ Len(<<id_last>> \o drafts) = 1 + Len(drafts)
  BY <1>3, <1>4, ConcatProperties, Zenon
<1>6. Len(<<id_last>> \o drafts) >= 1 /\ Len(<<id_last>> \o drafts) = Len(drafts) + 1
  BY <1>3, <1>5
<1> QED
  BY <1>1, <1>2, <1>5, <1>6, ForwardStep

-----------------------------------------------------------------------------
(* The steps that only move the call along.                                *)

LEMMA DrawTokenStep ==
  ASSUME IInv, DrawToken
  PROVE  IInv'
<1>1. /\ pc \in {"draw", "prefill"} /\ pc' = "round" /\ id_last' \in Tokens
      /\ UNCHANGED <<file, spec_tap_layers, log, rows, committed, n_past, il, drafts, block, hidden>>
  BY DEF DrawToken, local
<1>2. hidden' = <<>> /\ (pc' = "inject" => il' = 1)
  BY <1>1 DEF IInv, Noise
<1>3. NAux' = NAux /\ Ahead' = Ahead /\ Rows' /\ Noise'
  BY <1>1, <1>2, Quiet
<1>4. Types'
  BY <1>1 DEF IInv, Types, Cell
<1>5. Attached' /\ Phases'
  BY <1>1, <1>3 DEF IInv, Attached, Phases, InRange
<1> QED
  BY <1>3, <1>4, <1>5 DEF IInv

LEMMA DraftStep ==
  ASSUME IInv, Draft
  PROVE  IInv'
<1> DEFINE n_draft == Smaller(DraftMax, MaxCtx - n_past - 1)
<1>1. /\ pc = "round" /\ pc' = "draft" /\ il' = 1
      /\ n_draft > 0 /\ block' = n_draft + 1 /\ committed + block' <= MaxCtx
      /\ UNCHANGED <<file, spec_tap_layers, log, rows, committed, n_past, id_last, drafts, hidden>>
  BY DEF Draft
<1>2. hidden' = <<>> /\ (pc' = "inject" => il' = 1)
  BY <1>1 DEF IInv, Noise
<1>3. NAux' = NAux /\ Ahead' = Ahead /\ Rows' /\ Noise'
  BY <1>1, <1>2, Quiet
<1>4. block' \in Nat /\ il' \in 1..DraftLayers
  BY <1>1, Sizes DEF IInv, Types, Smaller
<1>5. Types'
  BY <1>1, <1>4 DEF IInv, Types
<1>6. Attached' /\ Phases'
  BY <1>1, <1>3 DEF IInv, Attached, Phases, InRange
<1> QED
  BY <1>3, <1>5, <1>6 DEF IInv

LEMMA KeepDraftsStep ==
  ASSUME IInv, KeepDrafts
  PROVE  IInv'
<1>1. /\ pc = "drafted" /\ hidden' = <<>>
      /\ drafts' \in {<<>>} \cup UNION {[1..n -> Tokens] : n \in 1..(block - 1)}
      /\ pc' = IF drafts' = <<>> THEN "step" ELSE "verify"
      /\ UNCHANGED <<file, spec_tap_layers, log, rows, committed, n_past, il, id_last, block>>
  BY DEF KeepDrafts
<1>2. NAux' = NAux /\ Ahead' = Ahead /\ Rows' /\ Noise'
  BY <1>1, Quiet
<1>3. drafts' \in Seq(Tokens)
  <2>1. CASE drafts' = <<>>
    BY <2>1
  <2>2. CASE drafts' # <<>>
    <3>1. PICK n \in 1..(block - 1) : drafts' \in [1..n -> Tokens]
      BY <1>1, <2>2
    <3>2. n \in Nat
      BY <3>1
    <3> QED
      BY <3>1, <3>2, IsSequence
  <2> QED
    BY <2>1, <2>2
<1>4. Types'
  BY <1>1, <1>3 DEF IInv, Types
<1>5. Attached' /\ Phases'
  BY <1>1, <1>2 DEF IInv, Attached, Phases, InRange
<1> QED
  BY <1>2, <1>4, <1>5 DEF IInv

LEMMA TakeStep ==
  ASSUME IInv, Take
  PROVE  IInv'
<1>1. /\ pc = "take" /\ taps' = spec_taps
      /\ pc' = IF drafts = <<>> THEN "encode" ELSE "accept"
      /\ UNCHANGED <<file, spec_tap_layers, log, rows, committed, n_past, il, id_last,
                     drafts, block, hidden>>
  BY DEF Take
<1>2. hidden' = <<>> /\ (pc' = "inject" => il' = 1)
  BY <1>1 DEF IInv, Noise
<1>3. NAux' = NAux /\ Ahead' = Ahead /\ Rows' /\ Noise'
  BY <1>1, <1>2, Quiet
<1>4. Types'
  BY <1>1 DEF IInv, Types
<1>5. taps' = Owed(Ahead) /\ Owed(Ahead)' = Owed(Ahead)
  BY <1>1 DEF IInv, Phases, Owed, TapsAt, NAux, Ahead
<1>6. Attached' /\ Phases'
  BY <1>1, <1>3, <1>5 DEF IInv, Attached, Phases, InRange
<1> QED
  BY <1>3, <1>4, <1>6 DEF IInv

LEMMA LeaveStep ==
  ASSUME IInv, Leave
  PROVE  IInv'
<1>1. /\ pc \notin {"load", "attach", "idle", "exit"} /\ pc' = "idle" /\ il' = 1
      /\ drafts' = <<>> /\ block' = 0 /\ hidden' = <<>>
      /\ UNCHANGED <<file, spec_tap_layers, log, rows, committed, n_past, id_last>>
  BY DEF Leave
<1>2. NAux' = NAux /\ Rows' /\ Noise'
  BY <1>1, Quiet
<1>3. Types'
  BY <1>1, Sizes DEF IInv, Types
<1>4. Attached' /\ Phases'
  BY <1>1, <1>2 DEF IInv, Attached, Phases, InRange
<1> QED
  BY <1>2, <1>3, <1>4 DEF IInv

-----------------------------------------------------------------------------
(* The steps on taps and rows.                                             *)

LEMMA AcceptStep ==
  ASSUME IInv, Accept
  PROVE  IInv'
<1>1. /\ pc = "accept" /\ pc' = "encode"
      /\ UNCHANGED <<file, spec_tap_layers, rows, committed, n_past, il, drafts, block, hidden>>
  BY DEF Accept
<1>2. PICK keep \in 1..(Len(drafts) + 1) :
        /\ log' = SubSeq(log, 1, n_past + keep)
        /\ taps' = Prefix(taps, keep)
        /\ id_last' \in Tokens
  BY DEF Accept
<1>3. /\ log \in Seq(Cell) /\ Len(log) \in Nat /\ Len(log) <= MaxCtx
      /\ n_past \in Nat /\ committed = n_past /\ MaxCtx \in Nat
      /\ drafts \in Seq(Tokens) /\ Len(drafts) \in Nat /\ Len(log) - n_past = Len(drafts) + 1
      /\ taps = Owed(Ahead) /\ hidden = <<>>
  BY <1>1, Sizes, LenProperties DEF IInv, Types, Phases, Noise, Ahead
<1>4. keep \in Nat /\ keep >= 1 /\ n_past + keep \in 0..Len(log) /\ keep <= Ahead /\ Ahead \in Nat
  BY <1>2, <1>3 DEF Ahead
<1>5. log' \in Seq(Cell) /\ Len(log') = n_past + keep
  BY <1>2, <1>3, <1>4, PrefixOf
<1>6. \A n \in 0..(n_past + keep) : SubSeq(log', 1, n) = SubSeq(log, 1, n)
  BY <1>2, <1>3, <1>4, PrefixOfPrefix
<1>7. NAux' = NAux /\ Rows' /\ Noise'
  <2>1. \A n \in 0..committed : SubSeq(log', 1, n) = SubSeq(log, 1, n)
    BY <1>3, <1>4, <1>6
  <2>2. hidden' = <<>> /\ pc' # "inject"
    BY <1>1, <1>3
  <2> QED
    BY <1>1, <2>1, <2>2, CommittedCells
<1>8. Types'
  BY <1>1, <1>2, <1>3, <1>4, <1>5 DEF IInv, Types, Cell
<1>9. Attached'
  BY <1>1, <1>7 DEF IInv, Attached, InRange
<1>10. Ahead' = keep
  BY <1>1, <1>3, <1>4, <1>5 DEF Ahead
<1>11. taps' = Owed(Ahead)'
  <2> DEFINE Tap(a, cells) == [k \in 1..keep |-> <<file.target_layers[a] - 1, SubSeq(cells, 1, n_past + k)>>]
  <2>1. Owed(Ahead)' = [a \in 1..NAux |-> Tap(a, log')]
    BY <1>1, <1>3, <1>4, <1>7, <1>10 DEF Owed, TapsAt
  <2>2. \A k \in 1..keep : SubSeq(log', 1, n_past + k) = SubSeq(log, 1, n_past + k)
    BY <1>3, <1>4, <1>6
  <2>3. \A a \in 1..NAux : Tap(a, log') = Tap(a, log)
    BY <2>2
  <2>4. DOMAIN taps = 1..NAux
    BY <1>3 DEF Owed
  <2>5. ASSUME NEW a \in 1..NAux
        PROVE  SubSeq(taps[a], 1, keep) = Tap(a, log)
    <3>1. PICK f : f = taps[a]
      OBVIOUS
    <3>2. PICK n \in Nat : n = Ahead
      BY <1>4
    <3>3. f = [k \in 1..n |-> <<file.target_layers[a] - 1, SubSeq(log, 1, n_past + k)>>]
      BY <1>3, <3>1, <3>2 DEF Owed, TapsAt
    <3>4. f = [k \in 1..n |-> f[k]] /\ keep \in 0..n
      BY <1>4, <3>2, <3>3
    <3>5. SubSeq(f, 1, keep) = [k \in 1..keep |-> f[k]]
      BY <3>4, PrefixOfFunction, Zenon
    <3>6. \A k \in 1..keep : f[k] = <<file.target_layers[a] - 1, SubSeq(log, 1, n_past + k)>>
      BY <3>3, <3>4
    <3> QED
      BY <3>1, <3>5, <3>6
  <2>6. taps' = [a \in 1..NAux |-> SubSeq(taps[a], 1, keep)]
    BY <1>2, <2>4 DEF Prefix
  <2> HIDE DEF Tap
  <2> QED
    BY <2>1, <2>3, <2>5, <2>6
<1>12. Phases'
  BY <1>1, <1>4, <1>10, <1>11 DEF Phases
<1> QED
  BY <1>7, <1>8, <1>9, <1>12 DEF IInv

LEMMA EncodeStep ==
  ASSUME IInv, Encode
  PROVE  IInv'
<1>1. /\ pc = "encode" /\ pc' = "inject" /\ il' = 1
      /\ fused' = [k \in DOMAIN taps[1] |-> [a \in DOMAIN taps |-> taps[a][k]]]
      /\ UNCHANGED <<file, spec_tap_layers, log, rows, committed, n_past, id_last,
                     drafts, block, hidden>>
  BY DEF Encode
<1>2. hidden' = <<>>
  BY <1>1 DEF IInv, Noise
<1>3. NAux' = NAux /\ Ahead' = Ahead /\ Rows' /\ Noise'
  BY <1>1, <1>2, Quiet
<1>4. Types'
  BY <1>1, Sizes DEF IInv, Types
<1>5. NAux \in Nat /\ 1 \in 1..NAux /\ taps = Owed(Ahead) /\ Ahead >= 1
  BY <1>1, Targets DEF IInv, Attached, Phases
<1>6. DOMAIN taps = 1..NAux /\ DOMAIN taps[1] = 1..Ahead
  BY <1>5 DEF Owed
<1>7. fused' = OwedRows(Ahead)
  <2>1. \A k \in 1..Ahead : [a \in 1..NAux |-> taps[a][k]] = TapsAt(n_past + k - 1)
    BY <1>5 DEF Owed, TapsAt
  <2> QED
    BY <1>1, <1>6, <2>1 DEF OwedRows
<1>8. OwedRows(Ahead)' = OwedRows(Ahead)
  BY <1>1 DEF OwedRows, TapsAt, NAux, Ahead
<1>9. Attached' /\ Phases'
  BY <1>1, <1>3, <1>5, <1>7, <1>8 DEF IInv, Attached, Phases, InRange
<1> QED
  BY <1>3, <1>4, <1>9 DEF IInv

(* Rows stored from `committed` on leave the committed rows alone.         *)
LEMMA Stored ==
  ASSUME NEW cache, NEW at \in Nat, NEW n \in Nat, NEW size \in Nat,
         DOMAIN cache = 0..(size - 1), at + n <= size,
         NEW new, DOMAIN new = 0..(n - 1)
  PROVE  /\ DOMAIN Overwritten(cache, at, new) = 0..(size - 1)
         /\ \A p \in 0..(at - 1) : Overwritten(cache, at, new)[p] = cache[p]
         /\ \A i \in 0..(n - 1) : Overwritten(cache, at, new)[at + i] = new[i]
<1> DEFINE O == Overwritten(cache, at, new)
<1>1. /\ DOMAIN O = 0..(size - 1)
      /\ \A p \in 0..(size - 1) : O[p] = IF p - at \in 0..(n - 1) THEN new[p - at] ELSE cache[p]
  BY DEF Overwritten
<1> HIDE DEF O
<1>2. ASSUME NEW p \in 0..(at - 1) PROVE O[p] = cache[p]
  <2>1. p \in 0..(size - 1) /\ p - at \notin 0..(n - 1)
    OBVIOUS
  <2> QED
    BY <1>1, <2>1
<1>3. ASSUME NEW i \in 0..(n - 1) PROVE O[at + i] = new[i]
  <2>1. at + i \in 0..(size - 1) /\ (at + i) - at = i
    OBVIOUS
  <2> QED
    BY <1>1, <2>1
<1> QED
  BY <1>1, <1>2, <1>3 DEF O

LEMMA InjectLayerStep ==
  ASSUME IInv, InjectLayer
  PROVE  IInv'
<1> DEFINE new == [k \in 0..(Len(fused) - 1) |-> FusedRow(fused[k + 1], n_past + k)]
           stored == Overwritten(rows[il], committed, new)
<1>1. /\ pc = "inject" /\ rows' = [rows EXCEPT ![il] = stored]
      /\ UNCHANGED <<file, spec_tap_layers, log, id_last, hidden>>
  BY DEF InjectLayer
<1>2. /\ log \in Seq(Cell) /\ Len(log) \in Nat /\ Len(log) <= MaxCtx
      /\ n_past = committed /\ committed \in Nat /\ committed <= Len(log)
      /\ il \in 1..DraftLayers /\ DraftLayers \in Nat \ {0} /\ MaxCtx \in Nat
      /\ rows = [l \in 1..DraftLayers |-> rows[l]]
      /\ \A l \in 1..DraftLayers : DOMAIN rows[l] = 0..(MaxCtx - 1)
      /\ fused = OwedRows(Ahead) /\ hidden = <<>>
  BY <1>1, Sizes, LenProperties DEF IInv, Types, Phases, Noise
<1>3. PICK n \in Nat : n = Ahead /\ committed + n = Len(log)
  BY <1>2 DEF Ahead
<1>4. Len(fused) = n /\ \A k \in 1..n : fused[k] = TapsAt(n_past + k - 1)
  BY <1>2, <1>3 DEF OwedRows
<1>5. DOMAIN new = 0..(n - 1) /\ \A i \in 0..(n - 1) : new[i] = FusedRow(TapsAt(n_past + i), n_past + i)
  <2>1. \A i \in 0..(n - 1) : i + 1 \in 1..n /\ n_past + (i + 1) - 1 = n_past + i
    BY <1>2
  <2>2. \A i \in 0..(n - 1) : fused[i + 1] = TapsAt(n_past + i)
    BY <1>4, <2>1
  <2> QED
    BY <1>4, <2>2
<1> HIDE DEF new
<1>6. /\ DOMAIN stored = 0..(MaxCtx - 1)
      /\ \A p \in 0..(committed - 1) : stored[p] = rows[il][p]
      /\ \A i \in 0..(n - 1) : stored[committed + i] = new[i]
  BY <1>2, <1>3, <1>5, Stored
<1>7. \A p \in committed..(Len(log) - 1) : stored[p] = FusedRow(TapsAt(p), p)
  <2>1. ASSUME NEW p \in committed..(Len(log) - 1) PROVE stored[p] = FusedRow(TapsAt(p), p)
    <3>1. p - committed \in 0..(n - 1) /\ committed + (p - committed) = p /\ n_past + (p - committed) = p
      BY <1>2, <1>3
    <3> QED
      BY <1>5, <1>6, <3>1
  <2> QED
    BY <2>1
<1> HIDE DEF stored
<1>8. /\ rows' = [l \in 1..DraftLayers |-> rows'[l]]
      /\ rows'[il] = stored /\ \A l \in 1..DraftLayers : l # il => rows'[l] = rows[l]
  BY <1>1, <1>2
<1>9. \A p : TapsAt(p)' = TapsAt(p)
  BY <1>1 DEF TapsAt, NAux
<1>10. NAux' = NAux /\ Noise'
  BY <1>1, <1>2 DEF NAux, Noise, DraftsSeeTheirContext
<1>11. \A l \in 1..DraftLayers : DOMAIN rows'[l] = 0..(MaxCtx - 1)
  BY <1>2, <1>6, <1>8
<1>12. \A l \in 1..DraftLayers : \A p \in 0..(committed - 1) : rows'[l][p] = FusedRow(TapsAt(p), p)
  BY <1>6, <1>8 DEF IInv, Rows, InPlace
<1>13. \A l \in 1..il : \A p \in committed..(Len(log) - 1) : rows'[l][p] = FusedRow(TapsAt(p), p)
  <2>1. ASSUME NEW l \in 1..il, NEW p \in committed..(Len(log) - 1)
        PROVE  rows'[l][p] = FusedRow(TapsAt(p), p)
    <3>1. CASE l = il
      BY <1>7, <1>8, <3>1
    <3>2. CASE l # il
      <4>1. l \in 1..(il - 1) /\ l \in 1..DraftLayers
        BY <1>2, <3>2
      <4>2. rows[l][p] = FusedRow(TapsAt(p), p)
        BY <1>1, <4>1 DEF IInv, Rows, InPlace
      <4> QED
        BY <1>8, <3>2, <4>1, <4>2
    <3> QED
      BY <3>1, <3>2
  <2> QED
    BY <2>1
<1>14. CASE il < DraftLayers
  <2>1. /\ il' = il + 1 /\ pc' = "inject"
        /\ UNCHANGED <<committed, n_past, drafts, block, fused>>
    BY <1>1, <1>14 DEF InjectLayer
  <2>2. Types'
    BY <1>1, <1>2, <1>8, <1>11, <1>14, <2>1 DEF IInv, Types
  <2>3. Attached'
    BY <1>1, <1>10, <2>1 DEF IInv, Attached, InRange
  <2>4. Ahead' = Ahead /\ OwedRows(Ahead)' = OwedRows(Ahead)
    BY <1>1, <2>1 DEF OwedRows, TapsAt, NAux, Ahead
  <2>5. Phases'
    BY <1>1, <1>2, <2>1, <2>4 DEF IInv, Phases
  <2>6. Rows'
    <3>1. (il' - 1) = il
      BY <1>2, <2>1
    <3> QED
      BY <1>1, <1>9, <1>12, <1>13, <2>1, <3>1 DEF Rows, InPlace
  <2> QED
    BY <1>10, <2>2, <2>3, <2>5, <2>6 DEF IInv
<1>15. CASE ~(il < DraftLayers)
  <2>1. /\ il' = 1 /\ committed' = committed + Len(fused) /\ n_past' = n_past + Len(fused)
        /\ pc' \in {"prefill", "draw", "round"}
        /\ drafts' = <<>> /\ block' = 0
    BY <1>1, <1>15 DEF InjectLayer
  <2>2. committed' = Len(log) /\ n_past' = Len(log) /\ il = DraftLayers
    BY <1>2, <1>3, <1>4, <1>15, <2>1
  <2>3. Types'
    BY <1>1, <1>2, <1>8, <1>11, <2>1, <2>2 DEF IInv, Types
  <2>4. Attached'
    BY <1>1, <1>10, <2>1 DEF IInv, Attached, InRange
  <2>5. Ahead' = 0
    BY <1>1, <1>2, <2>2 DEF Ahead
  <2>6. Phases'
    BY <2>1, <2>5 DEF Phases
  <2>7. Rows'
    <3>1. ASSUME NEW l \in 1..DraftLayers, NEW p \in 0..(Len(log) - 1)
          PROVE  rows'[l][p] = FusedRow(TapsAt(p), p)
      <4>1. p \in 0..(committed - 1) \/ p \in committed..(Len(log) - 1)
        BY <1>2
      <4> QED
        BY <1>12, <1>13, <2>2, <4>1
    <3> QED
      BY <1>9, <2>1, <2>2, <3>1 DEF Rows, InPlace
  <2> QED
    BY <1>10, <2>3, <2>4, <2>6, <2>7 DEF IInv
<1> QED
  BY <1>14, <1>15

LEMMA DraftLayerStep ==
  ASSUME IInv, DraftLayer
  PROVE  IInv'
<1> DEFINE new == [i \in 0..(block - 1) |-> NoiseRow(i)]
           stored == Overwritten(rows[il], committed, new)
<1>1. /\ pc = "draft" /\ rows' = [rows EXCEPT ![il] = stored]
      /\ hidden' = [i \in 0..(block - 1) |->
           {<<c, rows'[il][c]>> : c \in {c \in 0..(committed + block - 1) : Visible(i, c)}}]
      /\ UNCHANGED <<file, spec_tap_layers, log, committed, n_past, id_last, drafts, block>>
      /\ IF il < DraftLayers THEN il' = il + 1 /\ pc' = "draft" ELSE il' = 1 /\ pc' = "drafted"
  BY DEF DraftLayer
<1>2. /\ n_past = committed /\ committed \in Nat /\ block \in Nat /\ committed + block <= MaxCtx
      /\ il \in 1..DraftLayers /\ DraftLayers \in Nat \ {0} /\ MaxCtx \in Nat
      /\ rows = [l \in 1..DraftLayers |-> rows[l]]
      /\ \A l \in 1..DraftLayers : DOMAIN rows[l] = 0..(MaxCtx - 1)
  BY <1>1, Sizes DEF IInv, Types, Phases
<1>3. DOMAIN new = 0..(block - 1) /\ \A i \in 0..(block - 1) : new[i] = NoiseRow(i)
  OBVIOUS
<1> HIDE DEF new
<1>4. /\ DOMAIN stored = 0..(MaxCtx - 1)
      /\ \A p \in 0..(committed - 1) : stored[p] = rows[il][p]
      /\ \A i \in 0..(block - 1) : stored[committed + i] = new[i]
  BY <1>2, <1>3, Stored
<1> HIDE DEF stored
<1>5. /\ rows' = [l \in 1..DraftLayers |-> rows'[l]]
      /\ rows'[il] = stored /\ \A l \in 1..DraftLayers : l # il => rows'[l] = rows[l]
  BY <1>1, <1>2
<1>6. \A p : TapsAt(p)' = TapsAt(p) /\ NoiseRow(p)' = NoiseRow(p)
  BY <1>1 DEF TapsAt, NAux, NoiseRow
<1>7. NAux' = NAux /\ Ahead' = Ahead
  BY <1>1 DEF NAux, Ahead
<1>8. \A l \in 1..DraftLayers : \A p \in 0..(committed - 1) : rows'[l][p] = FusedRow(TapsAt(p), p)
  BY <1>4, <1>5 DEF IInv, Rows, InPlace
<1>9. Types'
  <2>1. il' \in 1..DraftLayers
    BY <1>1, <1>2
  <2>2. \A l \in 1..DraftLayers : DOMAIN rows'[l] = 0..(MaxCtx - 1)
    BY <1>2, <1>4, <1>5
  <2> QED
    BY <1>1, <1>5, <2>1, <2>2 DEF IInv, Types
<1>10. Attached'
  BY <1>1, <1>7 DEF IInv, Attached, InRange
<1>11. Phases'
  BY <1>1, <1>7 DEF IInv, Phases
<1>12. Rows'
  BY <1>1, <1>6, <1>8 DEF Rows, InPlace
<1>13. ASSUME NEW i \in 0..(block - 1)
       PROVE  hidden'[i] = {<<p, FusedRow(TapsAt(p), p)>> : p \in 0..(committed - 1)}
                           \cup {<<committed + j, NoiseRow(j)>> : j \in 0..i}
  <2> DEFINE Context == {<<p, FusedRow(TapsAt(p), p)>> : p \in 0..(committed - 1)}
             Own == {<<committed + j, NoiseRow(j)>> : j \in 0..i}
             Columns == {c \in 0..(committed + block - 1) : Visible(i, c)}
  <2>1. hidden'[i] = {<<c, stored[c]>> : c \in Columns}
    BY <1>1, <1>5
  <2>2. \A c : c \in Columns <=> c \in 0..(committed - 1) \/ (c - committed \in 0..i /\ c \in Nat)
    BY <1>2 DEF Visible
  <2>3. \A p \in 0..(committed - 1) : stored[p] = FusedRow(TapsAt(p), p)
    BY <1>2, <1>5, <1>8
  <2>4. \A j \in 0..i : committed + j \in Nat /\ (committed + j) - committed = j
                        /\ stored[committed + j] = NoiseRow(j)
    BY <1>2, <1>3, <1>4
  <2>5. ASSUME NEW c \in Columns PROVE <<c, stored[c]>> \in Context \cup Own
    <3>1. CASE c \in 0..(committed - 1)
      BY <2>3, <3>1
    <3>2. CASE c - committed \in 0..i /\ c \in Nat
      <4>1. committed + (c - committed) = c
        BY <1>2, <3>2
      <4>2. stored[c] = NoiseRow(c - committed)
        BY <2>4, <3>2, <4>1
      <4>3. <<c, stored[c]>> = <<committed + (c - committed), NoiseRow(c - committed)>>
        BY <4>1, <4>2
      <4> QED
        BY <3>2, <4>3
    <3> QED
      BY <2>2, <3>1, <3>2
  <2>6. ASSUME NEW x \in Context \cup Own PROVE x \in {<<c, stored[c]>> : c \in Columns}
    <3>1. CASE x \in Context
      <4>1. PICK p \in 0..(committed - 1) : x = <<p, FusedRow(TapsAt(p), p)>>
        BY <3>1
      <4>2. p \in Columns /\ x = <<p, stored[p]>>
        BY <2>2, <2>3, <4>1
      <4> QED
        BY <4>2
    <3>2. CASE x \in Own
      <4>1. PICK j \in 0..i : x = <<committed + j, NoiseRow(j)>>
        BY <3>2
      <4>2. committed + j \in Columns /\ x = <<committed + j, stored[committed + j]>>
        BY <2>2, <2>4, <4>1
      <4> QED
        BY <4>2
    <3> QED
      BY <3>1, <3>2
  <2> HIDE DEF Context, Own, Columns
  <2>7. hidden'[i] = Context \cup Own
    BY <2>1, <2>5, <2>6
  <2> QED
    BY <2>7 DEF Context, Own
<1>14. Noise'
  <2>1. DOMAIN hidden' = 0..(block - 1)
    BY <1>1
  <2>2. pc' \in {"draft", "drafted"}
    BY <1>1
  <2>3. DraftsSeeTheirContext'
    BY <1>1, <1>6, <1>13, <2>1 DEF DraftsSeeTheirContext
  <2> QED
    BY <2>2, <2>3 DEF Noise
<1> QED
  BY <1>9, <1>10, <1>11, <1>12, <1>14 DEF IInv

LEMMA NextIInv == IInv /\ [Next]_vars => IInv'
<1> SUFFICES ASSUME IInv, [Next]_vars PROVE IInv'
  OBVIOUS
<1>1. CASE UNCHANGED vars
  <2>1. /\ UNCHANGED <<file, spec_tap_layers, spec_taps, log, rows, committed, pc, il, n_past>>
        /\ UNCHANGED <<id_last, drafts, block, hidden, taps, fused>>
    BY <1>1 DEF vars
  <2>2. NAux' = NAux /\ Ahead' = Ahead /\ Owed(Ahead)' = Owed(Ahead) /\ OwedRows(Ahead)' = OwedRows(Ahead)
    BY <2>1 DEF NAux, Ahead, Owed, OwedRows, TapsAt
  <2>3. Types' /\ Attached' /\ Phases'
    BY <2>1, <2>2 DEF IInv, Types, Attached, Phases, InRange
  <2>4. \A p : TapsAt(p)' = TapsAt(p) /\ NoiseRow(p)' = NoiseRow(p)
    BY <2>1 DEF TapsAt, NAux, NoiseRow
  <2>5. Rows' /\ Noise'
    BY <2>1, <2>4 DEF IInv, Rows, InPlace, Noise, DraftsSeeTheirContext
  <2> QED
    BY <2>3, <2>5 DEF IInv
<1>2. CASE Next
  BY <1>2, LoadStep, AttachStep, CallStep, PrefillStep, DrawTokenStep, DraftStep, DraftLayerStep,
     KeepDraftsStep, PlainStepStep, VerifyStep, TakeStep, AcceptStep, EncodeStep, InjectLayerStep,
     LeaveStep, Zenon DEF Next
<1> QED
  BY <1>1, <1>2

LEMMA Inductive == Spec => []IInv
<1> QED
  BY InitIInv, NextIInv, PTL DEF Spec

-----------------------------------------------------------------------------
(***************************************************************************)
(* A drafter of another width than the target's.  build fixes the rows of  *)
(* fc, and a call with the wrong width gets no further than the encode of  *)
(* its first forward.                                                      *)
(***************************************************************************)
Built == pc \notin {"load", "exit"} => file.fc[1] = file.n_embd

Stopped ==
  file.n_embd # ModelEmbd =>
    /\ pc \in {"load", "attach", "exit", "idle", "prefill", "take", "encode"}
    /\ n_past = 0 /\ drafts = <<>>
    /\ rows = [l \in 1..DraftLayers |-> [p \in 0..(MaxCtx - 1) |-> Unwritten]]

Widths == Built /\ Stopped

LEMMA InitWidths == Init => Widths
  BY DEF Init, Widths, Built, Stopped

LEMMA BuiltStep == Built /\ [Next]_vars => Built'
<1> SUFFICES ASSUME Built, [Next]_vars PROVE Built'
  OBVIOUS
<1>1. CASE Load
  <2>1. file' = file /\ (pc' \notin {"load", "exit"} => Builds(file))
    BY <1>1 DEF Load
  <2> QED
    BY <2>1 DEF Built, Builds
<1>2. ASSUME file' = file, pc \notin {"load", "exit"} PROVE Built'
  BY <1>2 DEF Built
<1>3. CASE Attach \/ Call \/ Prefill \/ DrawToken \/ Draft \/ DraftLayer \/ KeepDrafts
  <2>1. file' = file /\ pc \notin {"load", "exit"}
    BY <1>3 DEF Attach, Call, Prefill, DrawToken, Draft, DraftLayer, KeepDrafts
  <2> QED
    BY <1>2, <2>1
<1>4. CASE PlainStep \/ Verify \/ Take \/ Accept \/ Encode \/ InjectLayer \/ Leave
  <2>1. file' = file /\ pc \notin {"load", "exit"}
    BY <1>4 DEF PlainStep, Verify, Take, Accept, Encode, InjectLayer, Leave
  <2> QED
    BY <1>2, <2>1
<1>5. CASE UNCHANGED vars
  BY <1>5 DEF vars, Built
<1> QED
  BY <1>1, <1>3, <1>4, <1>5 DEF Next

LEMMA StoppedStep == Stopped /\ [Next]_vars => Stopped'
<1> SUFFICES ASSUME Stopped, [Next]_vars, file'.n_embd # ModelEmbd PROVE Stopped'
  BY DEF Stopped
<1>1. file' = file
  BY DEF Next, vars, Load, Attach, Call, Prefill, DrawToken, Draft, DraftLayer, KeepDrafts,
         PlainStep, Verify, Take, Accept, Encode, InjectLayer, Leave
<1>2. /\ pc \in {"load", "attach", "exit", "idle", "prefill", "take", "encode"}
      /\ n_past = 0 /\ drafts = <<>>
      /\ rows = [l \in 1..DraftLayers |-> [p \in 0..(MaxCtx - 1) |-> Unwritten]]
  BY <1>1 DEF Stopped
<1>3. ASSUME rows' = rows, n_past' = 0, drafts' = <<>>,
             pc' \in {"load", "attach", "exit", "idle", "prefill", "take", "encode"}
      PROVE  Stopped'
  BY <1>2, <1>3 DEF Stopped
<1>4. CASE Load
  BY <1>2, <1>3, <1>4 DEF Load, local
<1>5. CASE Attach
  BY <1>2, <1>3, <1>5 DEF Attach, local
<1>6. CASE Call
  BY <1>2, <1>3, <1>6 DEF Call, local
<1>7. CASE Prefill
  BY <1>2, <1>3, <1>7 DEF Prefill, TargetForward, local
<1>8. CASE Take
  BY <1>2, <1>3, <1>8 DEF Take
<1>9. CASE Leave
  BY <1>2, <1>3, <1>9 DEF Leave
<1>10. CASE UNCHANGED vars
  BY <1>2, <1>3, <1>10 DEF vars
<1>11. ~Encode
  BY <1>1 DEF Encode, Encodes
<1>12. ~(DrawToken \/ Draft \/ DraftLayer \/ KeepDrafts \/ PlainStep \/ Verify \/ Accept \/ InjectLayer)
  BY <1>2 DEF DrawToken, Draft, DraftLayer, KeepDrafts, PlainStep, Verify, Accept, InjectLayer
<1> QED
  BY <1>4, <1>5, <1>6, <1>7, <1>8, <1>9, <1>10, <1>11, <1>12 DEF Next

LEMMA WidthsHold == Spec => []Widths
<1>1. Widths /\ [Next]_vars => Widths'
  BY BuiltStep, StoppedStep DEF Widths
<1> QED
  BY <1>1, InitWidths, PTL DEF Spec

-----------------------------------------------------------------------------
(* What the encoder gets and the caches keep: the taps of exactly the kept *)
(* positions, each row fused from the residuals at its own, after any      *)
(* rejected, failed or abandoned forward.  inject's guards hold whenever   *)
(* they are reached, and encode's exactly when the drafter is as wide as   *)
(* the target; a drafter that is not leaves every row unwritten.           *)
THEOREM FusesTheKeptPositions == Spec => []FusedFromItsForward
<1>1. IInv /\ Widths => FusedFromItsForward
  <2> SUFFICES ASSUME IInv, Widths PROVE FusedFromItsForward
    OBVIOUS
  <2>1. /\ n_past = committed /\ committed \in Nat /\ Len(log) \in Nat /\ Len(log) <= MaxCtx
        /\ NAux \in Nat /\ MaxCtx \in Nat
    BY Sizes, Targets, LenProperties DEF IInv, Types
  <2>2. PICK n \in Int : n = Ahead /\ n = Len(log) - n_past
    BY <2>1 DEF Ahead
  <2>3. ASSUME pc = "encode"
        PROVE  /\ Encodes(taps) <=> file.n_embd = ModelEmbd
               /\ \A a \in 1..NAux :
                    taps[a] = [k \in 1..(Len(log) - n_past) |-> TapsAt(n_past + k - 1)[a]]
    <3>1. NAux >= 1 /\ n >= 1 /\ taps = Owed(n)
      BY <2>2, <2>3 DEF IInv, Attached, Phases
    <3>2. DOMAIN taps = 1..NAux /\ \A a \in 1..NAux : taps[a] = [k \in 1..n |-> TapsAt(n_past + k - 1)[a]]
      BY <3>1 DEF Owed
    <3>3. Len(taps) = NAux /\ \A a \in 1..NAux : Len(taps[a]) = n
      <4>1. taps = [a \in 1..NAux |-> taps[a]]
        BY <3>1 DEF Owed
      <4>2. n \in Nat
        BY <3>1
      <4> QED
        BY <2>1, <3>2, <4>1, <4>2
    <3>4. \A a \in 1..NAux : Len(taps[a]) = Len(taps[1])
      BY <2>1, <3>1, <3>3
    <3> QED
      BY <2>2, <3>2, <3>3, <3>4 DEF Encodes
  <2>4. ASSUME pc = "inject" PROVE Injects
    <3>1. n >= 1 /\ fused = OwedRows(n)
      BY <2>2, <2>4 DEF IInv, Phases
    <3>2. Len(fused) = n
      BY <3>1 DEF OwedRows
    <3>3. file.fc[1] = file.n_embd
      BY <2>4 DEF Widths, Built
    <3> QED
      BY <2>1, <2>2, <3>2, <3>3 DEF Injects
  <2>5. \A l \in 1..DraftLayers, p \in 0..(committed - 1) : rows[l][p] = FusedRow(TapsAt(p), p)
    BY DEF IInv, Rows, InPlace
  <2>6. file.n_embd # ModelEmbd =>
          \A l \in 1..DraftLayers, p \in 0..(MaxCtx - 1) : rows[l][p] = Unwritten
    BY DEF Widths, Stopped
  <2> QED
    BY <2>3, <2>4, <2>5, <2>6 DEF FusedFromItsForward
<1> QED
  BY <1>1, Inductive, WidthsHold, PTL

(* What a draft attends to, in every layer: the committed context and its  *)
(* own block up to itself, never a row left in the scratch rows by an      *)
(* earlier round, a rejected draft or an earlier call.                     *)
THEOREM ScratchRowsUnseen == Spec => []DraftsSeeTheirContext
<1>1. IInv => DraftsSeeTheirContext
  BY DEF IInv, Noise
<1> QED
  BY <1>1, Inductive, PTL

-----------------------------------------------------------------------------
(***************************************************************************)
(* The auto-pause controller, for every setting of its constants and every *)
(* sequence of measurements.                                               *)
(***************************************************************************)

(* A pause is only entered, and only held, with samples of both kinds, and *)
(* never with auto-pause off.                                              *)
Warmed ==
  state = "paused" =>
    margin = "on" /\ specSamples >= WarmupSpec /\ plainSamples >= WarmupPlain

(* rounds_since_plain counts drafting rounds since a plain sample, or fewer*)
(* since a resume.                                                         *)
Counted == state = "active" => sincePlain <= stale

(* A probe event belongs to a pause.  Between events a pause has run at    *)
(* most as many plain rounds as tokens_since_probe counts.                 *)
Probing ==
  /\ state = "active" => probeRounds = 0
  /\ state = "paused" /\ probeRounds = 0 => lull <= sinceProbe

(* An active run is never past its cadence, and resumed at most a pair of  *)
(* probe rounds after a plain one.  A pause begins with plain rounds, and  *)
(* in a pair only the real rounds age the plain average.                   *)
Fresh ==
  margin = "on" =>
    /\ state = "active" => sincePlain <= Cadence /\ stale <= sincePlain + ProbePair
    /\ state = "paused" /\ probeRounds = 0 =>
         stale <= FreshBound /\ (sinceProbe > 0 => stale = 0)
    /\ probeRounds > 0 => stale <= probeReal

(* Every plain sample of the warm-up took at most one turn of the tight    *)
(* cadence.                                                                *)
WarmingUp ==
  margin = "on" /\ plainSamples < WarmupPlain =>
    rounds <= plainSamples * (WarmupForcePlainEvery + 1) + sincePlain

PauseInv == TypeOK /\ Warmed /\ Counted /\ ProbesOnTime /\ Probing /\ Fresh /\ WarmingUp

-----------------------------------------------------------------------------
(* Counters. *)

LEMMA CappedBounds ==
  ASSUME NEW n \in Nat, NEW top \in Nat
  PROVE  /\ Capped(n, top) \in 0 .. top
         /\ Capped(n, top) <= n
         /\ n <= top => Capped(n, top) = n
         /\ \A k \in Nat : k <= n /\ k <= top => k <= Capped(n, top)
  BY DEF Capped

LEMMA Products ==
  ASSUME NEW p \in Nat, NEW w \in Nat
  PROVE  /\ p * (w + 1) \in Nat
         /\ (p + 1) * (w + 1) = p * (w + 1) + w + 1
<1>1. p * (w + 1) = p * w + p /\ (p + 1) * (w + 1) = p * w + p + w + 1
  OBVIOUS
<1>2. p * w \in Nat
  OBVIOUS
<1> QED
  BY <1>1, <1>2

(* The constants the cadences compare. *)
LEMMA Constants ==
  /\ WarmupSpec \in Nat /\ WarmupSpec > 0
  /\ WarmupPlain \in Nat /\ WarmupPlain > 0
  /\ ForcePlainEvery \in Nat /\ ForcePlainEvery > 0
  /\ WarmupForcePlainEvery \in Nat /\ WarmupForcePlainEvery > 0
  /\ WarmupForcePlainEvery <= ForcePlainEvery
  /\ ProbePair \in Nat /\ ProbePair > 0
  /\ BackoffStart \in Nat /\ BackoffStart > 0
  /\ BackoffCap \in Nat /\ BackoffStart <= BackoffCap
  /\ MaxCommit \in Nat /\ MaxCommit > 0
  /\ FreshBound \in Nat /\ StaleCap = FreshBound + 1
  /\ FreshBound = ForcePlainEvery + ProbePair
  /\ WarmupHorizon \in Nat
<1>1. WarmupForcePlainEvery \in Nat /\ WarmupPlain \in Nat
  BY ControllerAssumption
<1>2. WarmupHorizon \in Nat
  BY <1>1, Products DEF WarmupHorizon
<1> QED
  BY <1>2, ControllerAssumption DEF FreshBound, StaleCap

LEMMA WithinFresh ==
  ASSUME NEW a \in Nat, NEW s \in Nat, a <= s + ProbePair, s <= ForcePlainEvery
  PROVE  a <= FreshBound
  BY Constants

LEMMA PauseInitInv == PauseInit => PauseInv
<1> SUFFICES ASSUME PauseInit PROVE PauseInv
  OBVIOUS
<1>1. TypeOK
  BY Constants DEF PauseInit, TypeOK
<1>2. Warmed /\ Counted /\ ProbesOnTime /\ Probing /\ Fresh
  BY Constants DEF PauseInit, Warmed, Counted, ProbesOnTime, Probing, Fresh, Cadence
<1>3. WarmingUp
  BY Constants DEF PauseInit, WarmingUp
<1> QED
  BY <1>1, <1>2, <1>3 DEF PauseInv

-----------------------------------------------------------------------------
(* record, action by action. *)

(* What every round does to the averages and to the histories. *)
LEMMA FoldStep ==
  ASSUME TypeOK, NEW ranSpec \in BOOLEAN, Fold(ranSpec)
  PROVE  /\ margin' = margin
         /\ specSamples' \in 0 .. WarmupSpec /\ specSamples <= specSamples'
         /\ plainSamples' \in 0 .. WarmupPlain /\ plainSamples <= plainSamples'
         /\ rounds' \in 0 .. WarmupHorizon /\ rounds' <= rounds + 1
         /\ stale' \in 0 .. StaleCap /\ stale' <= stale + 1
         /\ ranSpec => plainSamples' = plainSamples
         /\ ~ranSpec => stale' = 0
         /\ ~ranSpec /\ plainSamples < WarmupPlain => plainSamples' = plainSamples + 1
<1>1. /\ specSamples \in 0 .. WarmupSpec /\ WarmupSpec \in Nat
      /\ plainSamples \in 0 .. WarmupPlain /\ WarmupPlain \in Nat
      /\ rounds \in 0 .. WarmupHorizon /\ WarmupHorizon \in Nat
      /\ stale \in 0 .. StaleCap /\ StaleCap \in Nat
  BY Constants DEF TypeOK
<1>2. margin' = margin /\ rounds' = Capped(rounds + 1, WarmupHorizon)
  BY DEF Fold
<1>3. rounds' \in 0 .. WarmupHorizon /\ rounds' <= rounds + 1
  BY <1>1, <1>2 DEF Capped
<1>4. CASE ranSpec
  <2>1. /\ specSamples' = Capped(specSamples + 1, WarmupSpec)
        /\ stale' = Capped(stale + 1, StaleCap)
        /\ plainSamples' = plainSamples
    BY <1>4 DEF Fold
  <2>2. specSamples' \in 0 .. WarmupSpec /\ specSamples <= specSamples'
    BY <1>1, <2>1 DEF Capped
  <2>3. stale' \in 0 .. StaleCap /\ stale' <= stale + 1
    BY <1>1, <2>1 DEF Capped
  <2> QED
    BY <1>1, <1>2, <1>3, <1>4, <2>1, <2>2, <2>3
<1>5. CASE ~ranSpec
  <2>1. /\ plainSamples' = Capped(plainSamples + 1, WarmupPlain)
        /\ stale' = 0
        /\ specSamples' = specSamples
    BY <1>5 DEF Fold
  <2>2. /\ plainSamples' \in 0 .. WarmupPlain /\ plainSamples <= plainSamples'
        /\ plainSamples < WarmupPlain => plainSamples' = plainSamples + 1
    BY <1>1, <2>1 DEF Capped
  <2> QED
    BY <1>1, <1>2, <1>3, <1>5, <2>1, <2>2
<1> QED
  BY <1>4, <1>5

LEMMA ActiveStep ==
  ASSUME PauseInv, NEW ranSpec \in BOOLEAN, NEW count \in 1 .. MaxCommit,
         ActiveRound(ranSpec, count)
  PROVE  PauseInv'
<1> USE Constants
<1>1. TypeOK /\ state = "active" /\ probeRounds = 0 /\ probeReal = 0
  BY DEF PauseInv, Probing, TypeOK, ActiveRound
<1>2. /\ margin' = margin /\ probeRounds' = 0 /\ probeReal' = 0 /\ lull' = 0
      /\ specSamples' \in 0 .. WarmupSpec /\ specSamples <= specSamples'
      /\ plainSamples' \in 0 .. WarmupPlain /\ plainSamples <= plainSamples'
      /\ rounds' \in 0 .. WarmupHorizon /\ rounds' <= rounds + 1
      /\ stale' \in 0 .. StaleCap /\ stale' <= stale + 1
      /\ ranSpec => plainSamples' = plainSamples
      /\ ~ranSpec => stale' = 0
      /\ ~ranSpec /\ plainSamples < WarmupPlain => plainSamples' = plainSamples + 1
  BY <1>1, FoldStep DEF ActiveRound
<1>3. /\ sincePlain' \in 0 .. ForcePlainEvery
      /\ ranSpec => sincePlain' <= sincePlain + 1
      /\ ranSpec /\ sincePlain < ForcePlainEvery => sincePlain' = sincePlain + 1
      /\ ~ranSpec => sincePlain' = 0
  <2>1. sincePlain + 1 \in Nat
    BY <1>1 DEF TypeOK
  <2>2. sincePlain' = IF ranSpec THEN Capped(sincePlain + 1, ForcePlainEvery) ELSE 0
    BY DEF ActiveRound
  <2> QED
    BY <1>1, <2>1, <2>2, CappedBounds DEF TypeOK
<1>4. \/ state' = "active" /\ UNCHANGED <<backoff, sinceProbe>>
      \/ /\ margin = "on" /\ WarmNow
         /\ state' = "paused" /\ backoff' = BackoffStart /\ sinceProbe' = 0
  BY <1>1 DEF ActiveRound
<1>5. TypeOK'
  BY <1>1, <1>2, <1>3, <1>4 DEF TypeOK
<1>6. Warmed'
  BY <1>2, <1>4 DEF Warmed, WarmNow
<1>7. ProbesOnTime' /\ Probing'
  BY <1>1, <1>2, <1>4, <1>5 DEF ProbesOnTime, Probing, TypeOK
<1>8. margin = "on" /\ ranSpec => sincePlain < Cadence
  <2>1. sincePlain \in Nat /\ Cadence \in Nat
    BY <1>1 DEF TypeOK, Cadence
  <2>2. ranSpec => NextKind # "ForcedPlain"
    BY DEF ActiveRound, Outcome
  <2> QED
    BY <1>1, <2>1, <2>2 DEF NextKind
<1>9. ASSUME margin = "on"
      PROVE  sincePlain' <= Cadence' /\ stale' <= sincePlain' + ProbePair
  <2>1. sincePlain <= Cadence /\ stale <= sincePlain + ProbePair
    BY <1>1, <1>9 DEF PauseInv, Fresh
  <2>2. Cadence <= ForcePlainEvery /\ Cadence \in Nat /\ Cadence' \in Nat
    BY DEF Cadence
  <2>3. CASE ranSpec
    <3>1. Cadence' = Cadence /\ sincePlain' = sincePlain + 1
      <4>1. sincePlain < ForcePlainEvery
        BY <1>1, <1>8, <1>9, <2>2, <2>3 DEF TypeOK
      <4> QED
        BY <1>2, <1>3, <2>3, <4>1 DEF Cadence
    <3> QED
      BY <1>1, <1>2, <1>8, <1>9, <2>1, <2>2, <2>3, <3>1 DEF TypeOK
  <2>4. CASE ~ranSpec
    BY <1>2, <1>3, <2>2, <2>4
  <2> QED
    BY <2>3, <2>4
<1>10. Fresh'
  <2>1. margin = "on" => stale' <= FreshBound
    <3>1. sincePlain' \in Nat /\ sincePlain' <= ForcePlainEvery /\ stale' \in Nat
      BY <1>2, <1>3
    <3>2. ASSUME stale' <= sincePlain' + ProbePair PROVE stale' <= FreshBound
      BY <3>1, <3>2, WithinFresh, Zenon
    <3> QED
      BY <1>9, <3>2
  <2> QED
    BY <1>2, <1>4, <1>9, <2>1 DEF Fresh
<1>11. WarmingUp'
  <2> DEFINE W == WarmupForcePlainEvery
  <2> SUFFICES ASSUME margin = "on", plainSamples' < WarmupPlain
               PROVE  rounds' <= plainSamples' * (W + 1) + sincePlain'
    BY <1>2 DEF WarmingUp
  <2>1. plainSamples < WarmupPlain /\ plainSamples \in Nat
    BY <1>1, <1>2 DEF TypeOK
  <2>2. rounds <= plainSamples * (W + 1) + sincePlain
    BY <2>1 DEF PauseInv, WarmingUp
  <2>3. sincePlain <= W /\ Cadence = W
    BY <1>1, <2>1 DEF PauseInv, Fresh, Cadence
  <2>4. plainSamples * (W + 1) \in Nat
        /\ (plainSamples + 1) * (W + 1) = plainSamples * (W + 1) + W + 1
    BY <2>1, Products
  <2>5. CASE ranSpec
    <3>1. sincePlain' = sincePlain + 1 /\ plainSamples' = plainSamples
      BY <1>1, <1>2, <1>3, <1>8, <2>3, <2>5 DEF TypeOK
    <3> QED
      BY <1>1, <1>2, <2>2, <2>4, <3>1 DEF TypeOK
  <2>6. CASE ~ranSpec
    <3>1. sincePlain' = 0 /\ plainSamples' = plainSamples + 1
      BY <1>2, <1>3, <2>1, <2>6
    <3> QED
      BY <1>1, <1>2, <2>2, <2>3, <2>4, <3>1 DEF TypeOK
  <2> QED
    BY <2>5, <2>6
<1>12. Counted'
  <2>1. sincePlain <= stale /\ stale \in Nat /\ sincePlain \in Nat
    BY <1>1 DEF PauseInv, Counted, TypeOK
  <2>2. ranSpec => stale' = Capped(stale + 1, StaleCap)
    BY DEF ActiveRound, Fold
  <2>3. ASSUME ranSpec PROVE sincePlain' <= stale'
    <3>1. sincePlain' \in Nat /\ sincePlain' <= StaleCap /\ sincePlain' <= stale + 1
      BY <1>3, <2>1, <2>3
    <3> QED
      BY <2>1, <2>2, <2>3, <3>1 DEF Capped
  <2> QED
    BY <1>2, <1>3, <2>3 DEF Counted
<1> QED
  BY <1>5, <1>6, <1>7, <1>10, <1>11, <1>12 DEF PauseInv

LEMMA PausedStep ==
  ASSUME PauseInv, PausedRound
  PROVE  PauseInv'
<1> USE Constants
<1>1. /\ TypeOK /\ state = "paused" /\ margin = "on"
      /\ plainSamples >= WarmupPlain
      /\ UNCHANGED <<state, backoff, sincePlain, probeRounds, probeReal>>
  BY DEF PauseInv, Warmed, PausedRound
<1>2. probeRounds = 0 /\ sinceProbe < backoff
  BY <1>1 DEF PausedRound, NextKind, TypeOK
<1>3. Fold(FALSE)
  BY DEF PausedRound
<1>4. /\ margin' = margin
      /\ specSamples' \in 0 .. WarmupSpec /\ specSamples <= specSamples'
      /\ plainSamples' \in 0 .. WarmupPlain /\ plainSamples <= plainSamples'
      /\ rounds' \in 0 .. WarmupHorizon
      /\ stale' = 0
  BY <1>1, <1>3, FoldStep
<1>5. sinceProbe' = sinceProbe + 1 /\ sinceProbe' <= backoff
  <2>1. sinceProbe + 1 \in Nat /\ sinceProbe + 1 <= backoff /\ backoff <= BackoffCap
    BY <1>1, <1>2 DEF TypeOK
  <2>2. sinceProbe' = Capped(sinceProbe + 1, BackoffCap)
    BY DEF PausedRound
  <2> QED
    BY <1>1, <2>1, <2>2, CappedBounds DEF TypeOK
<1>6. lull' \in 0 .. BackoffCap + 1 /\ lull' <= sinceProbe'
  <2>1. lull + 1 \in Nat /\ lull <= sinceProbe
    BY <1>1, <1>2 DEF PauseInv, Probing, TypeOK
  <2>2. lull' = Capped(lull + 1, BackoffCap + 1)
    BY DEF PausedRound
  <2> QED
    BY <1>1, <1>5, <2>1, <2>2, CappedBounds DEF TypeOK
<1>7. TypeOK'
  BY <1>1, <1>4, <1>5, <1>6 DEF TypeOK
<1>8. Warmed'
  BY <1>1, <1>4 DEF PauseInv, Warmed, TypeOK
<1>9. ProbesOnTime' /\ Probing'
  BY <1>1, <1>2, <1>5, <1>6, <1>7 DEF ProbesOnTime, Probing, TypeOK
<1>10. Fresh'
  BY <1>1, <1>2, <1>4 DEF Fresh
<1>11. WarmingUp'
  BY <1>1, <1>4 DEF WarmingUp, TypeOK
<1>12. Counted'
  BY <1>1 DEF Counted
<1> QED
  BY <1>7, <1>8, <1>9, <1>10, <1>11, <1>12 DEF PauseInv

(* What a probe round finds and does, whether or not it completes a pair.  *)
LEMMA ProbeStep ==
  ASSUME PauseInv, NEW ranSpec \in BOOLEAN, NEW count \in 1 .. MaxCommit,
         Probe(ranSpec, count)
  PROVE  /\ TypeOK /\ state = "paused" /\ margin = "on" /\ margin' = "on"
         /\ specSamples' = WarmupSpec /\ plainSamples' = WarmupPlain
         /\ rounds' \in 0 .. WarmupHorizon /\ lull' = 0
         /\ sinceProbe >= backoff
         /\ stale' \in 0 .. StaleCap /\ stale' <= RealAfter(ranSpec)
         /\ RealAfter(ranSpec) \in 0 .. probeRounds + 1
         /\ Capped(sinceProbe + count, BackoffCap) \in backoff .. BackoffCap
<1> USE Constants
<1>1. /\ TypeOK /\ state = "paused" /\ margin = "on" /\ lull' = 0 /\ Fold(ranSpec)
      /\ specSamples >= WarmupSpec /\ plainSamples >= WarmupPlain
  BY DEF PauseInv, Warmed, Probe
<1>2. /\ margin' = margin
      /\ specSamples' \in 0 .. WarmupSpec /\ specSamples <= specSamples'
      /\ plainSamples' \in 0 .. WarmupPlain /\ plainSamples <= plainSamples'
      /\ rounds' \in 0 .. WarmupHorizon
      /\ stale' \in 0 .. StaleCap /\ stale' <= stale + 1
      /\ ~ranSpec => stale' = 0
  BY <1>1, FoldStep
<1>3. specSamples' = WarmupSpec /\ plainSamples' = WarmupPlain
  BY <1>1, <1>2 DEF TypeOK
<1>4. sinceProbe >= backoff
  BY <1>1 DEF PauseInv, ProbesOnTime, Probe, NextKind, TypeOK
<1>5. stale <= probeReal
  <2>1. CASE probeRounds = 0
    <3>1. stale = 0 /\ probeReal = 0
      BY <1>1, <1>4, <2>1 DEF PauseInv, Fresh, TypeOK
    <3> QED
      BY <3>1
  <2>2. CASE probeRounds > 0
    BY <1>1, <2>2 DEF PauseInv, Fresh
  <2> QED
    BY <1>1, <2>1, <2>2 DEF TypeOK
<1>6. /\ RealAfter(ranSpec) \in 0 .. probeRounds + 1
      /\ stale' <= RealAfter(ranSpec)
  BY <1>1, <1>2, <1>5 DEF RealAfter, TypeOK
<1>7. Capped(sinceProbe + count, BackoffCap) \in backoff .. BackoffCap
  <2>1. sinceProbe + count \in Nat /\ backoff \in Nat /\ backoff <= BackoffCap
        /\ backoff <= sinceProbe + count
    BY <1>1, <1>4 DEF TypeOK
  <2> QED
    BY <2>1 DEF Capped
<1> QED
  BY <1>1, <1>2, <1>3, <1>4, <1>6, <1>7

LEMMA GoesOnStep ==
  ASSUME PauseInv, NEW ranSpec \in BOOLEAN, NEW count \in 1 .. MaxCommit,
         ProbeGoesOn(ranSpec, count)
  PROVE  PauseInv'
<1> USE Constants
<1>1. Probe(ranSpec, count)
  BY DEF ProbeGoesOn
<1>2. /\ TypeOK /\ state = "paused" /\ margin = "on" /\ margin' = "on"
      /\ specSamples' = WarmupSpec /\ plainSamples' = WarmupPlain
      /\ rounds' \in 0 .. WarmupHorizon /\ lull' = 0
      /\ stale' \in 0 .. StaleCap /\ stale' <= RealAfter(ranSpec)
      /\ RealAfter(ranSpec) \in 0 .. probeRounds + 1
      /\ Capped(sinceProbe + count, BackoffCap) \in backoff .. BackoffCap
  BY <1>1, ProbeStep
<1>3. /\ probeRounds' = probeRounds + 1 /\ probeRounds' \in 1 .. ProbePair - 1
      /\ probeReal' = RealAfter(ranSpec)
      /\ sinceProbe' = Capped(sinceProbe + count, BackoffCap)
      /\ UNCHANGED <<state, backoff, sincePlain>>
  BY <1>2 DEF ProbeGoesOn, TypeOK
<1>4. TypeOK'
  BY <1>2, <1>3 DEF TypeOK
<1>5. Warmed' /\ WarmingUp'
  BY <1>2 DEF Warmed, WarmingUp
<1>6. ProbesOnTime' /\ Probing' /\ Fresh' /\ Counted'
  BY <1>2, <1>3, <1>4 DEF ProbesOnTime, Probing, Fresh, Counted, TypeOK
<1> QED
  BY <1>4, <1>5, <1>6 DEF PauseInv

LEMMA EndsStep ==
  ASSUME PauseInv, NEW ranSpec \in BOOLEAN, NEW count \in 1 .. MaxCommit,
         ProbeEnds(ranSpec, count)
  PROVE  PauseInv'
<1> USE Constants
<1>1. Probe(ranSpec, count)
  BY DEF ProbeEnds
<1>2. /\ TypeOK /\ state = "paused" /\ margin = "on" /\ margin' = "on"
      /\ specSamples' = WarmupSpec /\ plainSamples' = WarmupPlain
      /\ rounds' \in 0 .. WarmupHorizon /\ lull' = 0
      /\ stale' \in 0 .. StaleCap /\ stale' <= RealAfter(ranSpec)
      /\ RealAfter(ranSpec) \in 0 .. probeRounds + 1
      /\ Capped(sinceProbe + count, BackoffCap) \in backoff .. BackoffCap
  BY <1>1, ProbeStep
<1>3. probeRounds' = 0 /\ probeReal' = 0 /\ stale' <= ProbePair
  BY <1>2 DEF ProbeEnds, TypeOK
<1>4. \/ /\ state' = "active" /\ sincePlain' = 0 /\ sinceProbe' = 0 /\ backoff' = backoff
      \/ /\ state' = "paused" /\ sincePlain' = sincePlain /\ sinceProbe' = 0
         /\ backoff' = Doubled
      \/ /\ state' = "paused" /\ sincePlain' = sincePlain /\ backoff' = backoff
         /\ sinceProbe' = Capped(sinceProbe + count, BackoffCap) /\ stale' = 0
  BY <1>2 DEF ProbeEnds
<1>5. Doubled \in BackoffStart .. BackoffCap
  <2>1. backoff * 2 \in Nat /\ BackoffStart <= backoff * 2
    BY <1>2 DEF TypeOK
  <2> QED
    BY <2>1 DEF Doubled, Capped
<1>6. TypeOK'
  BY <1>2, <1>3, <1>4, <1>5 DEF TypeOK
<1>7. Warmed' /\ WarmingUp'
  BY <1>2 DEF Warmed, WarmingUp
<1>8. ProbesOnTime' /\ Probing'
  BY <1>2, <1>3, <1>4, <1>6 DEF ProbesOnTime, Probing, TypeOK
<1>9. Fresh'
  <2>1. Cadence' \in Nat /\ stale' \in Nat /\ stale' <= FreshBound
    BY <1>2, <1>3 DEF Cadence
  <2>2. state' = "active" => sincePlain' <= Cadence' /\ stale' <= sincePlain' + ProbePair
    BY <1>3, <1>4, <2>1
  <2>3. state' = "paused" /\ sinceProbe' > 0 => stale' = 0
    BY <1>4
  <2> QED
    BY <1>3, <2>1, <2>2, <2>3 DEF Fresh
<1>10. Counted'
  BY <1>2, <1>4 DEF Counted
<1> QED
  BY <1>6, <1>7, <1>8, <1>9, <1>10 DEF PauseInv

LEMMA PauseStepInv == PauseInv /\ [Round]_pauseVars => PauseInv'
<1> SUFFICES ASSUME PauseInv, [Round]_pauseVars PROVE PauseInv'
  OBVIOUS
<1>1. CASE PausedRound
  BY <1>1, PausedStep
<1>2. CASE \E ranSpec \in BOOLEAN, count \in 1..MaxCommit :
             ActiveRound(ranSpec, count) \/ ProbeGoesOn(ranSpec, count) \/ ProbeEnds(ranSpec, count)
  BY <1>2, ActiveStep, GoesOnStep, EndsStep
<1>3. CASE UNCHANGED pauseVars
  BY <1>3 DEF pauseVars, PauseInv, TypeOK, Warmed, Counted, ProbesOnTime, Probing, Fresh, Cadence, WarmingUp
<1> QED
  BY <1>1, <1>2, <1>3 DEF Round

LEMMA PauseInductive == PauseSpec => []PauseInv
  BY PauseInitInv, PauseStepInv, PTL DEF PauseSpec

-----------------------------------------------------------------------------
(* The cost of a plain step is never older than FreshBound drafting rounds *)
(* (rounds_since_plain), in whatever way the controller moves between      *)
(* active, paused and probing.                                             *)
THEOREM StaysFresh == PauseSpec => []PlainStaysFresh
<1>1. PauseInv => PlainStaysFresh
  <2> SUFFICES ASSUME PauseInv, margin = "on" PROVE stale <= FreshBound
    BY DEF PlainStaysFresh
  <2>1. Cadence \in Nat /\ Cadence <= ForcePlainEvery
    BY Constants DEF Cadence
  <2>2. CASE state = "active"
    BY <2>1, <2>2, Constants DEF PauseInv, Fresh, TypeOK
  <2>3. CASE state = "paused"
    <3>1. probeReal <= ProbePair
      BY Constants DEF PauseInv, TypeOK
    <3> QED
      BY <2>3, <3>1, Constants DEF PauseInv, Fresh, TypeOK
  <2> QED
    BY <2>2, <2>3 DEF PauseInv, TypeOK
<1> QED
  BY <1>1, PauseInductive, PTL

(* The plain warm-up is over after WarmupPlain turns of the tight cadence  *)
(* (force_plain_every), however much the run drafts.                       *)
THEOREM WarmsUp == PauseSpec => []WarmsUpEarly
<1>1. PauseInv => WarmsUpEarly
  <2> DEFINE W == WarmupForcePlainEvery
             p == plainSamples
  <2> SUFFICES ASSUME PauseInv, margin = "on", rounds >= WarmupHorizon, p < WarmupPlain
               PROVE  FALSE
    BY Constants DEF WarmsUpEarly, PauseInv, TypeOK
  <2>1. TypeOK /\ state = "active"
    BY Constants DEF PauseInv, Warmed, TypeOK
  <2>2. sincePlain <= W /\ rounds <= p * (W + 1) + sincePlain
    BY <2>1 DEF PauseInv, Fresh, WarmingUp, Cadence
  <2>3. p \in Nat /\ WarmupPlain - (p + 1) \in Nat /\ W \in Nat
    BY <2>1, Constants DEF TypeOK
  <2>4. (p + 1) * (W + 1) = p * (W + 1) + W + 1 /\ p * (W + 1) \in Nat
    BY <2>3, Products
  <2>5. WarmupHorizon = (WarmupPlain - (p + 1)) * (W + 1) + (p + 1) * (W + 1)
    BY <2>3, Constants DEF WarmupHorizon
  <2>6. (WarmupPlain - (p + 1)) * (W + 1) \in Nat
    BY <2>3, Products
  <2> QED
    BY <2>1, <2>2, <2>3, <2>4, <2>5, <2>6 DEF TypeOK
<1> QED
  BY <1>1, PauseInductive, PTL

(* A plain round is forced (ForcedPlain) only when Cadence drafting rounds *)
(* have run since the latest plain sample, whatever pauses, probes and     *)
(* resumes lie between: rounds_since_plain never counts more than those.   *)
THEOREM ForcesOnlyStale == PauseSpec => []ForcedOnlyWhenStale
<1>1. PauseInv => ForcedOnlyWhenStale
  <2> SUFFICES ASSUME PauseInv, NextKind = "ForcedPlain" PROVE stale >= Cadence
    BY DEF ForcedOnlyWhenStale
  <2>1. state = "active" /\ sincePlain >= Cadence
    BY DEF NextKind
  <2>2. Cadence \in Nat /\ sincePlain \in Nat /\ stale \in Nat
    BY Constants DEF Cadence, PauseInv, TypeOK
  <2> QED
    BY <2>1, <2>2 DEF PauseInv, Counted
<1> QED
  BY <1>1, PauseInductive, PTL

(* While paused at most a backoff of plain rounds separates two probes,    *)
(* and a pair once begun is finished first (next_kind, record).            *)
THEOREM ProbesPunctual == PauseSpec => []ProbesOnTime
<1>1. PauseInv => ProbesOnTime
  BY DEF PauseInv
<1> QED
  BY <1>1, PauseInductive, PTL

-----------------------------------------------------------------------------
(* How a pause ends.                                                       *)

(* A pair is two rounds (PROBE_PAIR), so when its second round is recorded *)
(* either that round drafted or the plain average is one drafting round    *)
(* old.                                                                    *)
ShortPair == ProbePair <= 2

PairRemembered == probeRounds > 0 /\ probeReal > 0 => stale > 0

LEMMA DraftingAges ==
  ASSUME TypeOK, Fold(TRUE)
  PROVE  stale' > 0
<1>1. stale' = Capped(stale + 1, StaleCap) /\ stale \in Nat /\ StaleCap \in Nat \ {0}
  BY Constants DEF Fold, TypeOK
<1> QED
  BY <1>1 DEF Capped

LEMMA PairStep ==
  ASSUME PauseInv, ShortPair, PairRemembered, [Round]_pauseVars
  PROVE  PairRemembered'
<1>1. CASE PausedRound
  <2>1. probeRounds' = probeRounds /\ probeRounds = 0
    BY <1>1 DEF PausedRound, NextKind, PauseInv, Warmed, TypeOK
  <2> QED
    BY <2>1 DEF PairRemembered
<1>2. ASSUME NEW ranSpec \in BOOLEAN, NEW count \in 1..MaxCommit, ActiveRound(ranSpec, count)
      PROVE  PairRemembered'
  <2>1. probeRounds' = 0
    BY <1>2 DEF ActiveRound, PauseInv, Probing
  <2> QED
    BY <2>1 DEF PairRemembered
<1>3. ASSUME NEW ranSpec \in BOOLEAN, NEW count \in 1..MaxCommit, ProbeGoesOn(ranSpec, count)
      PROVE  PairRemembered'
  <2>1. probeRounds = 0 /\ probeReal = 0
    BY <1>3, Constants DEF ProbeGoesOn, ShortPair, PauseInv, TypeOK
  <2>2. probeReal' = IF ranSpec THEN 1 ELSE 0
    BY <1>3, <2>1 DEF ProbeGoesOn, RealAfter
  <2>3. ranSpec => stale' > 0
    BY <1>3, DraftingAges DEF ProbeGoesOn, Probe, PauseInv
  <2> QED
    BY <2>2, <2>3 DEF PairRemembered
<1>4. ASSUME NEW ranSpec \in BOOLEAN, NEW count \in 1..MaxCommit, ProbeEnds(ranSpec, count)
      PROVE  PairRemembered'
  BY <1>4 DEF ProbeEnds, PairRemembered
<1>5. CASE UNCHANGED pauseVars
  BY <1>5 DEF pauseVars, PairRemembered
<1> QED
  BY <1>1, <1>2, <1>3, <1>4, <1>5 DEF Round

(* A pair that decides drafted in the round before its last or in the last.*)
LEMMA DecidingPair ==
  ASSUME PauseInv, ShortPair, PairRemembered,
         NEW ranSpec \in BOOLEAN, NEW count \in 1..MaxCommit,
         ProbeEnds(ranSpec, count), RealAfter(ranSpec) > 0
  PROVE  stale > 0 \/ stale' > 0
<1>1. CASE ranSpec
  BY <1>1, DraftingAges DEF ProbeEnds, Probe, PauseInv
<1>2. CASE ~ranSpec
  <2>1. probeReal > 0 /\ probeReal \in 0..probeRounds /\ probeRounds \in Nat
    BY <1>2, Constants DEF RealAfter, PauseInv, TypeOK
  <2> QED
    BY <2>1 DEF PairRemembered
<1> QED
  BY <1>1, <1>2

LEMMA DisciplineStep ==
  ASSUME PauseInv, ShortPair, PairRemembered, [Round]_pauseVars
  PROVE  [LET drafted == stale > 0 \/ stale' > 0
          IN  /\ state = "paused" /\ state' = "active" => drafted /\ sinceProbe' = 0
              /\ backoff' # backoff =>
                   \/ /\ state = "paused" /\ state' = "paused" /\ drafted
                      /\ backoff' = Capped(2 * backoff, BackoffCap) /\ sinceProbe' = 0
                   \/ state = "active" /\ state' = "paused" /\ backoff' = BackoffStart]_pauseVars
<1>1. CASE PausedRound
  BY <1>1 DEF PausedRound
<1>2. ASSUME NEW ranSpec \in BOOLEAN, NEW count \in 1..MaxCommit, ActiveRound(ranSpec, count)
      PROVE  /\ state = "active"
             /\ backoff' # backoff => state' = "paused" /\ backoff' = BackoffStart
  BY <1>2 DEF ActiveRound
<1>3. ASSUME NEW ranSpec \in BOOLEAN, NEW count \in 1..MaxCommit, ProbeGoesOn(ranSpec, count)
      PROVE  state' = state /\ backoff' = backoff
  BY <1>3 DEF ProbeGoesOn
<1>4. ASSUME NEW ranSpec \in BOOLEAN, NEW count \in 1..MaxCommit, ProbeEnds(ranSpec, count)
      PROVE  \/ state' = state /\ backoff' = backoff
             \/ /\ stale > 0 \/ stale' > 0
                /\ sinceProbe' = 0
                /\ \/ backoff' = backoff
                   \/ state' = state /\ backoff' = Capped(2 * backoff, BackoffCap)
  <2>1. CASE RealAfter(ranSpec) > 0
    <3>1. stale > 0 \/ stale' > 0
      BY <1>4, <2>1, DecidingPair
    <3>2. backoff * 2 = 2 * backoff
      BY Constants DEF PauseInv, TypeOK
    <3> QED
      BY <1>4, <2>1, <3>1, <3>2 DEF ProbeEnds, Doubled
  <2>2. CASE ~(RealAfter(ranSpec) > 0)
    BY <1>4, <2>2 DEF ProbeEnds
  <2> QED
    BY <2>1, <2>2
<1>5. ASSUME NEW ranSpec \in BOOLEAN, NEW count \in 1..MaxCommit, ProbeEnds(ranSpec, count)
      PROVE  state = "paused"
  BY <1>5 DEF ProbeEnds, Probe
<1>6. CASE UNCHANGED pauseVars
  BY <1>6
<1> QED
  BY <1>1, <1>2, <1>3, <1>4, <1>5, <1>6 DEF Round

(* A pause is left, and its backoff doubled, only on the evidence of a     *)
(* pair that really drafted (record, the probe_event branch); a backoff    *)
(* starts over only with a new pause.                                      *)
THEOREM KeepsDiscipline == ASSUME ShortPair PROVE PauseSpec => BackoffDiscipline
<1>1. PauseInit => PairRemembered
  BY DEF PauseInit, PairRemembered
<1>2. PauseInv /\ PairRemembered /\ [Round]_pauseVars => PairRemembered'
  BY PairStep
<1>3. PauseInv /\ PairRemembered /\ [Round]_pauseVars =>
        [LET drafted == stale > 0 \/ stale' > 0
         IN  /\ state = "paused" /\ state' = "active" => drafted /\ sinceProbe' = 0
             /\ backoff' # backoff =>
                  \/ /\ state = "paused" /\ state' = "paused" /\ drafted
                     /\ backoff' = Capped(2 * backoff, BackoffCap) /\ sinceProbe' = 0
                  \/ state = "active" /\ state' = "paused" /\ backoff' = BackoffStart]_pauseVars
  BY DisciplineStep
<1> QED
  BY <1>1, <1>2, <1>3, PauseInductive, PTL DEF PauseSpec, BackoffDiscipline
=============================================================================
