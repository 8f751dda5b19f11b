------------------------------- MODULE Drafter -------------------------------
(***************************************************************************)
(* DflashDrafter of src/dflash.rs and the spec taps of src/model.rs that   *)
(* feed it, layer by layer: what SpecDecode takes as one step.  The target *)
(* model leaves the residuals of some of its layers behind each forward;   *)
(* the call takes them, the encoder fuses them, and inject stores the      *)
(* fused rows in every layer's cache.  A draft forward borrows the rows    *)
(* behind them for its noise block.                                        *)
(*                                                                         *)
(* A residual is the target layer it leaves and the tokens it was computed *)
(* over; a cache row stands for its K and its V.                           *)
(***************************************************************************)
EXTENDS Integers, Sequences, FiniteSets

CONSTANTS
  Tokens,        (* token ids                                             *)
  NoToken,       (* id_last before the first draw                         *)
  ModelLayers,   (* layers of the target model                            *)
  ModelEmbd,     (* width of its residuals and its embeddings             *)
  DraftLayers,   (* layers of the drafter, n_layer                        *)
  MaxCtx,        (* max_ctx of both                                       *)
  PrefillChunk,  (* PREFILL_CHUNK                                         *)
  DraftMax,      (* min(draft_max, block_size - 1)                        *)
  Files,         (* the drafter files one might be given                  *)
  Calls,         (* bound on the calls of generate                        *)
  Unwritten      (* a cache row never written                             *)

ASSUME DrafterAssumption ==
  /\ NoToken \notin Tokens
  /\ {ModelLayers, DraftLayers, MaxCtx, PrefillChunk} \subseteq Nat \ {0}
  /\ ModelEmbd \in Nat /\ DraftMax \in Nat /\ Calls \in Nat
  /\ \A f \in Files : f.target_layers \in Seq(Nat)

VARIABLES
  file,          (* the drafter's file (metadata and tensor shapes), and  *)
                 (* whether LAGUNA_DRAFT_F32 is set as it is loaded       *)
  spec_tap_layers, (* LagunaModel's, <<>> while unset                     *)
  spec_taps,     (* LagunaModel's: the last forward's, until taken        *)
  log,           (* the tokens in the target's caches                     *)
  rows,          (* LayerCache of each drafter layer, by row              *)
  committed,     (* DflashDrafter::committed                              *)
  pc, il,        (* where the call stands, and at which drafter layer     *)
  n_past,        (* the position of the next forward                      *)
  id_last,       (* drawn, not yet fed                                    *)
  drafts,        (* the drafts of the round                               *)
  block,         (* rows of its noise block                               *)
  hidden,        (* what each noise row attended to in the last layer run *)
  taps, fused,   (* the taps taken, and the encoder's rows                *)
  calls          (* calls so far                                          *)

vars == <<file, spec_tap_layers, spec_taps, log, rows, committed, pc, il, n_past,
          id_last, drafts, block, hidden, taps, fused, calls>>

local == <<drafts, block, hidden, taps, fused>>

Smaller(a, b) == IF a <= b THEN a ELSE b
NAux == Len(file.target_layers)

-----------------------------------------------------------------------------
(* Loading *)

(* DflashConfig::from_gguf *)
Configures(f) ==
  /\ f.arch = "dflash" /\ f.decoder_arch = "laguna"
  /\ f.target_layers # <<>>

(* matmul_weight: what narrowing a weight to f16 demands of it. *)
Narrows(w) == w.k % 32 = 0 /\ w.n_out % 4 = 0 /\ w.finite

(* DflashDrafter::build *)
Builds(f) ==
  /\ f.head_dim % 2 = 0
  /\ f.n_head % f.n_head_kv = 0
  /\ f.aux_norm = <<Len(f.target_layers), f.n_embd>>
  /\ f.fc = <<f.n_embd, Len(f.target_layers) * f.n_embd>>
  /\ f.f32 \/ \A w \in f.weights : Narrows(w)

(* read_tensor_f32 *)
Reads(f) == f.dtypes \subseteq {"F32", "BF16"}

Load ==
  /\ pc = "load"
  /\ pc' = IF Configures(file) /\ Builds(file) /\ Reads(file) THEN "attach" ELSE "exit"
  /\ UNCHANGED <<file, spec_tap_layers, spec_taps, log, rows, committed, il, n_past,
                 id_last, local, calls>>

(* A target_layers entry has an l_out capture point: spec_tap_layers'      *)
(* checked_sub and set_spec_taps' assertion.                               *)
InRange(t) == t \in 1..ModelLayers

(* Generator::attach_drafter: the entries name layer inputs, the taps are  *)
(* the outputs of the layers before.  Nothing compares the two widths.     *)
Attach ==
  /\ pc = "attach"
  /\ IF \A k \in 1..NAux : InRange(file.target_layers[k])
     THEN /\ spec_tap_layers' = [k \in 1..NAux |-> file.target_layers[k] - 1]
          /\ spec_taps' = <<>>
          /\ pc' = "idle"
     ELSE pc' = "exit" /\ UNCHANGED <<spec_tap_layers, spec_taps>>
  /\ UNCHANGED <<file, log, rows, committed, il, n_past, id_last, local, calls>>

-----------------------------------------------------------------------------
(* The target's side *)

(* The residuals that leave layer l over the cells from position `from` on.*)
Residuals(l, cells, from) ==
  [k \in 1..(Len(cells) - from) |-> <<l, SubSeq(cells, 1, from + k)>>]

(* What run_stack captures on its way through the layers. *)
Captured(cells, from) ==
  [l \in {l \in 0..(ModelLayers - 1) : \E k \in DOMAIN spec_tap_layers : spec_tap_layers[k] = l} |->
     Residuals(l, cells, from)]

(* Mutant of Ordered: the taps stay in the order of their capture. *)
OrderedAsCaptured(config, captured) ==
  LET Before(l) == {m \in DOMAIN captured : m < l}
      Rank(k) == Smaller(k, Cardinality(DOMAIN captured)) - 1
  IN  [k \in DOMAIN config |->
         captured[CHOOSE l \in DOMAIN captured : Cardinality(Before(l)) = Rank(k)]]

(* order_spec_taps: a configured layer without a capture is skipped. *)
Ordered(config, captured) ==
  LET Found[n \in 0..Len(config)] ==
        IF n = 0 THEN <<>>
        ELSE IF config[n] \in DOMAIN captured
             THEN Append(Found[n - 1], captured[config[n]]) ELSE Found[n - 1]
  IN  Found[Len(config)]

(* forward / forward_all_logits over these tokens: the cells grow, and     *)
(* publish_spec_taps replaces the taps.                                    *)
TargetForward(toks) ==
  /\ n_past + Len(toks) <= MaxCtx
  /\ log' = log \o toks
  /\ spec_taps' = Ordered(spec_tap_layers, Captured(log', n_past))
  /\ pc' = "take"

-----------------------------------------------------------------------------
(* The drafter's side *)

(* The row inject stores of one fused row, roped to its position. *)
FusedRow(f, p) == [fused |-> f, rope |-> p]

(* The row draft_forward stores of row i of its noise block. *)
NoiseRow(i) == [noise |-> i, after |-> Append(SubSeq(log, 1, committed), id_last),
                rope |-> committed + i]

(* slice_set of these rows, from 0, at row `at`. *)
Overwritten(cache, at, new) ==
  [p \in DOMAIN cache |-> IF p - at \in DOMAIN new THEN new[p - at] ELSE cache[p]]

(* encode's ensures: a tap per target layer, all of one length and of the  *)
(* drafter's width (every tap is as wide as the target).                   *)
Encodes(ts) ==
  /\ Len(ts) = NAux
  /\ ModelEmbd = file.n_embd
  /\ \A a \in DOMAIN ts : Len(ts[a]) = Len(ts[1])

(* DflashDrafter::encode: row k fuses the taps' rows k, slot by slot. *)
Encode ==
  /\ pc = "encode"
  /\ Encodes(taps)
  /\ fused' = [k \in DOMAIN taps[1] |-> [a \in DOMAIN taps |-> taps[a][k]]]
  /\ taps' = <<>>
  /\ pc' = "inject" /\ il' = 1
  /\ UNCHANGED <<file, spec_tap_layers, spec_taps, log, rows, committed, n_past,
                 id_last, drafts, block, hidden, calls>>

(* inject's ensures: the fused rows are as wide as fc has rows. *)
Injects ==
  /\ n_past = committed
  /\ file.fc[1] = file.n_embd
  /\ committed + Len(fused) <= MaxCtx

(* DflashDrafter::inject of one layer; the last one commits the rows.      *)
InjectLayer ==
  /\ pc = "inject"
  /\ Injects
  /\ rows' = [rows EXCEPT ![il] =
       Overwritten(@, committed,
                   [k \in 0..(Len(fused) - 1) |-> FusedRow(fused[k + 1], n_past + k)])]
  /\ IF il < DraftLayers
     THEN /\ il' = il + 1
          /\ UNCHANGED <<committed, n_past, pc, drafts, block, fused>>
     ELSE /\ il' = 1
          /\ committed' = committed + Len(fused)
          /\ n_past' = n_past + Len(fused)
          /\ pc' = IF id_last = NoToken THEN "prefill" ELSE IF drafts = <<>> THEN "draw" ELSE "round"
          /\ drafts' = <<>> /\ block' = 0 /\ fused' = <<>>
  /\ UNCHANGED <<file, spec_tap_layers, spec_taps, log, id_last, hidden, taps, calls>>

(* Mutant of Visible: a noise row sees the whole block. *)
VisibleWholeBlock(i, c) == c < committed + block

(* causal_mask: the columns of the narrowed cache that row i attends to.   *)
Visible(i, c) == c < committed \/ c - committed <= i

(* DflashDrafter::draft_forward of one layer: its noise rows go into the   *)
(* scratch rows, then attention reads committed + n_block rows.            *)
DraftLayer ==
  /\ pc = "draft"
  /\ rows' = [rows EXCEPT ![il] = Overwritten(@, committed, [i \in 0..(block - 1) |-> NoiseRow(i)])]
  /\ hidden' = [i \in 0..(block - 1) |->
       {<<c, rows'[il][c]>> : c \in {c \in 0..(committed + block - 1) : Visible(i, c)}}]
  /\ IF il < DraftLayers THEN il' = il + 1 /\ UNCHANGED pc
                         ELSE il' = 1 /\ pc' = "drafted"
  /\ UNCHANGED <<file, spec_tap_layers, spec_taps, log, committed, n_past,
                 id_last, drafts, block, taps, fused, calls>>

-----------------------------------------------------------------------------
(* Generator::generate_spec, as far as it drives the two *)

Init ==
  /\ file \in Files
  /\ spec_tap_layers = <<>> /\ spec_taps = <<>>
  /\ log = <<>>
  /\ rows = [l \in 1..DraftLayers |-> [p \in 0..(MaxCtx - 1) |-> Unwritten]]
  /\ committed = 0
  /\ pc = "load" /\ il = 1
  /\ n_past = 0
  /\ id_last = NoToken
  /\ drafts = <<>> /\ block = 0 /\ hidden = <<>> /\ taps = <<>> /\ fused = <<>>
  /\ calls = 0

(* A call resets the target's caches and the drafter's length; the cache   *)
(* rows, and taps nobody took, stay.                                       *)
Call ==
  /\ pc = "idle" /\ calls < Calls
  /\ calls' = calls + 1
  /\ log' = <<>> /\ n_past' = 0 /\ committed' = 0
  /\ id_last' = NoToken
  /\ pc' = "prefill"
  /\ UNCHANGED <<file, spec_tap_layers, spec_taps, rows, il, local>>

PrefillChunks == UNION {[1..n -> Tokens] : n \in 1..PrefillChunk}

Prefill ==
  /\ pc = "prefill"
  /\ \E chunk \in PrefillChunks : TargetForward(chunk)
  /\ UNCHANGED <<file, spec_tap_layers, rows, committed, il, n_past, id_last, local, calls>>

(* The draw after the prefill, and the one of a plain round. *)
DrawToken ==
  /\ pc = "draw" \/ (pc = "prefill" /\ n_past > 0)
  /\ id_last' \in Tokens
  /\ pc' = "round"
  /\ UNCHANGED <<file, spec_tap_layers, spec_taps, log, rows, committed, il, n_past, local, calls>>

(* draft_forward of id_last and the masks behind it, up to its layers; the *)
(* noise embeddings are the target's.                                      *)
Draft ==
  /\ pc = "round"
  /\ LET n_draft == Smaller(DraftMax, MaxCtx - n_past - 1)
     IN  n_draft > 0 /\ block' = n_draft + 1
  /\ n_past = committed /\ ModelEmbd = file.n_embd /\ committed + block' <= MaxCtx
  /\ pc' = "draft" /\ il' = 1
  /\ UNCHANGED <<file, spec_tap_layers, spec_taps, log, rows, committed, n_past,
                 id_last, drafts, hidden, taps, fused, calls>>

(* What p_min and draft_min leave of the masked rows' drafts. *)
KeepDrafts ==
  /\ pc = "drafted"
  /\ drafts' \in {<<>>} \cup UNION {[1..n -> Tokens] : n \in 1..(block - 1)}
  /\ pc' = IF drafts' = <<>> THEN "step" ELSE "verify"
  /\ hidden' = <<>>
  /\ UNCHANGED <<file, spec_tap_layers, spec_taps, log, rows, committed, il, n_past,
                 id_last, block, taps, fused, calls>>

(* The plain fallback of a round; its draw follows the injection. *)
PlainStep ==
  /\ pc \in {"round", "step"}
  /\ TargetForward(<<id_last>>)
  /\ UNCHANGED <<file, spec_tap_layers, rows, committed, il, n_past, id_last, local, calls>>

Verify ==
  /\ pc = "verify"
  /\ TargetForward(<<id_last>> \o drafts)
  /\ UNCHANGED <<file, spec_tap_layers, rows, committed, il, n_past, id_last, local, calls>>

(* take_spec_taps, after the forward has returned its logits. *)
Take ==
  /\ pc = "take"
  /\ taps' = spec_taps
  /\ spec_taps' = <<>>
  /\ pc' = IF drafts = <<>> THEN "encode" ELSE "accept"
  /\ UNCHANGED <<file, spec_tap_layers, log, rows, committed, il, n_past,
                 id_last, drafts, block, hidden, fused, calls>>

(* The kept rows of each tap. *)
Prefix(ts, keep) == [a \in DOMAIN ts |-> SubSeq(ts[a], 1, keep)]

(* accept_drafts keeps a prefix of the block and draws id_last behind it,  *)
(* the draft there being rejected; kv_rollback.  (A draw that stops the    *)
(* walk by an EOG or the budget ends the call, too.)                       *)
Accept ==
  /\ pc = "accept"
  /\ \E keep \in 1..(Len(drafts) + 1) :
       /\ log' = SubSeq(log, 1, n_past + keep)
       /\ taps' = Prefix(taps, keep)
       /\ \E t \in Tokens : (keep <= Len(drafts) => t # drafts[keep]) /\ id_last' = t
  /\ pc' = "encode"
  /\ UNCHANGED <<file, spec_tap_layers, spec_taps, rows, committed, il, n_past,
                 drafts, block, hidden, fused, calls>>

(* The call returns, or an error of any step unwinds it and drops what it  *)
(* held; the model and the drafter stay as they are.                       *)
Leave ==
  /\ pc \notin {"load", "attach", "idle", "exit"}
  /\ pc' = "idle" /\ il' = 1
  /\ drafts' = <<>> /\ block' = 0 /\ hidden' = <<>> /\ taps' = <<>> /\ fused' = <<>>
  /\ UNCHANGED <<file, spec_tap_layers, spec_taps, log, rows, committed, n_past, id_last, calls>>

Next ==
  \/ Load \/ Attach \/ Call
  \/ Prefill \/ DrawToken \/ Draft \/ DraftLayer \/ KeepDrafts
  \/ PlainStep \/ Verify \/ Take \/ Accept \/ Encode \/ InjectLayer
  \/ Leave

Spec == Init /\ [][Next]_vars

-----------------------------------------------------------------------------
(* Properties *)

(* What the encoder is owed for position p: the residual that enters each  *)
(* target layer, in target_layers order, over the tokens up to p.          *)
TapsAt(p) == [a \in 1..NAux |-> <<file.target_layers[a] - 1, SubSeq(log, 1, p + 1)>>]

(* Whatever forwards were verified, rejected, failed or abandoned before,  *)
(* the encoder gets the taps of exactly the positions the target has just  *)
(* kept, and every committed row of every drafter layer was fused from the *)
(* target's residuals at its own position, in the drafter's layer order.   *)
(* inject never trips its guards, and encode's stop a drafter of another   *)
(* width than the target's and no other: neither loading nor attaching     *)
(* refuses it, but every call fails at its first encode, before any row of *)
(* the caches is written.                                                  *)
FusedFromItsForward ==
  /\ pc = "encode" =>
       /\ Encodes(taps) <=> file.n_embd = ModelEmbd
       /\ \A a \in 1..NAux : taps[a] = [k \in 1..(Len(log) - n_past) |-> TapsAt(n_past + k - 1)[a]]
  /\ pc = "inject" => Injects
  /\ \A l \in 1..DraftLayers, p \in 0..(committed - 1) : rows[l][p] = FusedRow(TapsAt(p), p)
  /\ file.n_embd # ModelEmbd =>
       \A l \in 1..DraftLayers, p \in 0..(MaxCtx - 1) : rows[l][p] = Unwritten

(* Each row of a noise block attends, in every layer, to all the committed *)
(* context and to its own block up to itself: never to a row an earlier    *)
(* round, a rejected draft or an earlier call left in the scratch rows.    *)
DraftsSeeTheirContext ==
  hidden # <<>> =>
    \A i \in DOMAIN hidden :
      hidden[i] = {<<p, FusedRow(TapsAt(p), p)>> : p \in 0..(committed - 1)}
                  \cup {<<committed + j, NoiseRow(j)>> : j \in 0..i}
=============================================================================
