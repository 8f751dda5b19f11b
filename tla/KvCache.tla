------------------------------- MODULE KvCache -------------------------------
(***************************************************************************)
(* The KV caches of src/kv_cache.rs as src/model.rs drives them: forwards  *)
(* append to one layer after the other, a speculative verify is bracketed  *)
(* by kv_checkpoint and kv_rollback, any step may fail and unwind to the   *)
(* caller, and the next generation starts with reset_cache.                *)
(*                                                                         *)
(* One action per step of the loops over the layers, so that a failure in  *)
(* the middle of a forward or of a rollback leaves the layers apart.       *)
(***************************************************************************)
EXTENDS KvRing

CONSTANTS
  NLayers,     (* number of transformer layers                            *)
  SwaLayers,   (* the sliding-window layers; the others attend in full    *)
  Window,      (* sliding_window                                          *)
  MaxCtx,      (* max_ctx, the slots of a full-attention layer            *)
  MaxSeq,      (* bound on the tokens of one forward                      *)
  MaxSpan,     (* bound on the verify span                                *)
  Tokens,      (* token ids                                               *)
  NoToken,     (* no token was ever fed at this position                  *)
  Zeros        (* the contents of a freshly allocated slot                *)

Layers == 1..NLayers

ASSUME SizeAssumption ==
  /\ NLayers \in Nat \ {0}
  /\ Window \in Nat \ {0}
  /\ MaxCtx \in Nat \ {0}
  /\ MaxSeq \in Nat \ {0}
  /\ MaxSpan \in Nat \ {0}
ASSUME LayerAssumption == SwaLayers \subseteq Layers
ASSUME TokenAssumption == NoToken \notin Tokens /\ Zeros \notin Int \X Tokens

VARIABLES
  buf,         (* buf[l]: the K/V tensor of layer l, by slot              *)
  len,         (* len[l]: the positions layer l has stored                *)
  pos,         (* the position the caller passes to its next forward      *)
  phase,       (* where the caller is between its calls                   *)
  work,        (* the tokens of the forward in progress                   *)
  il,          (* the layer the loop in progress is at                    *)
  ckpt,        (* the KvCheckpoint: len0, span and a snapshot per layer   *)
  commit,      (* the argument of the rollback in progress                *)
  log,         (* history: the token last fed at each position since reset*)
  seen         (* seen[l][q]: the cells query q attended in layer l       *)

vars == <<buf, len, pos, phase, work, il, ckpt, commit, log, seen>>

Phases == {"idle", "forward", "armed", "verify", "verified", "rollback", "failed"}

(* The key of token t at absolute position p (rope makes it depend on p). *)
Key(p, t) == <<p, t>>
Cells == (Int \X Tokens) \cup {Zeros}

Slots(l) == 0..((IF l \in SwaLayers THEN Window ELSE MaxCtx) - 1)

NoCheckpoint == [len0 |-> 0, span |-> 0, snap |-> [l \in Layers |-> <<>>]]
NothingFed == [p \in 0..(MaxCtx - 1) |-> NoToken]
NothingSeen == [l \in Layers |-> <<>>]

(* The keys the forward in progress feeds to every layer. *)
NewKeys == [i \in 1..Len(work) |-> Key(pos + i - 1, work[i])]

-----------------------------------------------------------------------------
(* LayerCache::new for every layer. *)
Init ==
  /\ buf = [l \in Layers |-> [i \in Slots(l) |-> Zeros]]
  /\ len = [l \in Layers |-> 0]
  /\ pos = 0
  /\ phase = "idle"
  /\ work = <<>>
  /\ il = 1
  /\ ckpt = NoCheckpoint
  /\ commit = 0
  /\ log = NothingFed
  /\ seen = NothingSeen

(* run_stack accepts the tokens of a forward: the guard on max_ctx.        *)
BeginForward(toks, next) ==
  /\ pos + Len(toks) <= MaxCtx
  /\ phase' = next
  /\ work' = toks
  /\ il' = 1
  /\ log' = [p \in DOMAIN log |->
               IF p \in pos..(pos + Len(toks) - 1) THEN toks[p - pos + 1] ELSE log[p]]
  /\ seen' = NothingSeen
  /\ UNCHANGED <<buf, len, pos, ckpt, commit>>

(* LagunaModel::forward of a prefill chunk or of one decode token. *)
Forward(toks) ==
  /\ phase = "idle"
  /\ BeginForward(toks, "forward")

(* LagunaModel::forward_all_logits of the verify span. *)
VerifyForward(toks) ==
  /\ phase = "armed"
  /\ Len(toks) = ckpt.span
  /\ BeginForward(toks, "verify")

(* LayerCache::append: the buffer it leaves behind. *)
AppendBuf(l) ==
  IF l \notin SwaLayers THEN SliceSet(buf[l], NewKeys, len[l])
  ELSE IF Len(work) = 1 THEN SliceSet(buf[l], NewKeys, len[l] % Window)
  ELSE WriteRingMulti(buf[l], NewKeys, len[l], Window)

(* LayerCache::append: the view it returns.  A ring in single-token decode *)
(* is returned as it lies, otherwise its keys are put in order first.      *)
AppendView(l) ==
  LET total == len[l] + Len(work)
  IN  IF l \notin SwaLayers THEN Narrow(AppendBuf(l), 0, total)
      ELSE IF Len(work) = 1 THEN Narrow(AppendBuf(l), 0, Smaller(total, Window))
      ELSE OrderedExisting(buf[l], len[l], Window) \o NewKeys

(* attn_mask_for: no mask at all for a single token. *)
Unmasked(l, qi, c) ==
  \/ Len(work) = 1
  \/ IF l \in SwaLayers THEN SwaUnmasked(pos, qi, c, Window)
                        ELSE FullUnmasked(pos, qi, c)

(* The cells the queries of the forward attend to, by query position. *)
Attended(l) ==
  [q \in pos..(pos + Len(work) - 1) |->
     {AppendView(l)[c + 1] :
        c \in {c \in 0..(Len(AppendView(l)) - 1) : Unmasked(l, q - pos, c)}}]

(* One iteration of the layer loop of run_stack. *)
LayerAppend ==
  /\ phase \in {"forward", "verify"}
  /\ buf' = [buf EXCEPT ![il] = AppendBuf(il)]
  /\ len' = [len EXCEPT ![il] = @ + Len(work)]
  /\ seen' = [seen EXCEPT ![il] = Attended(il)]
  /\ IF il < NLayers
     THEN il' = il + 1 /\ UNCHANGED <<pos, phase, work>>
     ELSE /\ il' = 1
          /\ work' = <<>>
          /\ phase' = IF phase = "forward" THEN "idle" ELSE "verified"
          /\ pos' = IF phase = "forward" THEN pos + Len(work) ELSE pos
  /\ UNCHANGED <<ckpt, commit, log>>

(* LagunaModel::kv_checkpoint, with LayerCache::checkpoint of every layer. *)
KvCheckpoint(span) ==
  /\ phase = "idle"
  /\ len[1] + span <= MaxCtx
  /\ \A l \in SwaLayers : SnapshotFits(len[l], span, Window)
  /\ ckpt' = [len0 |-> len[1], span |-> span,
              snap |-> [l \in Layers |->
                          IF l \in SwaLayers
                          THEN SnapshotRing(buf[l], len[l], span, Window)
                          ELSE <<>>]]
  /\ phase' = "armed"
  /\ UNCHANGED <<buf, len, pos, work, il, commit, log, seen>>

(* Mutant of KvRollback: any number of positions may be kept. *)
KvRollbackUnguarded(keep) ==
  /\ phase = "verified"
  /\ commit' = keep
  /\ phase' = "rollback"
  /\ il' = 1
  /\ UNCHANGED <<buf, len, pos, work, ckpt, log, seen>>

(* LagunaModel::kv_rollback is called with the positions to keep. *)
KvRollback(keep) ==
  /\ phase = "verified"
  /\ keep <= ckpt.span
  /\ commit' = keep
  /\ phase' = "rollback"
  /\ il' = 1
  /\ UNCHANGED <<buf, len, pos, work, ckpt, log, seen>>

(* LayerCache::rollback: the buffer it leaves behind. *)
RollbackBuf(l) ==
  IF l \notin SwaLayers \/ commit = ckpt.span THEN buf[l]
  ELSE WriteWrapped(buf[l], SubSeq(ckpt.snap[l], commit + 1, ckpt.span),
                    (ckpt.len0 + commit) % Window, Window)

(* Mutant of LayerRollback: a full layer keeps its length. *)
LayerRollbackRingsOnly ==
  /\ phase = "rollback"
  /\ buf' = [buf EXCEPT ![il] = RollbackBuf(il)]
  /\ len' = [len EXCEPT ![il] = IF il \in SwaLayers THEN ckpt.len0 + commit ELSE @]
  /\ IF il < NLayers
     THEN il' = il + 1 /\ UNCHANGED <<pos, phase, ckpt, commit>>
     ELSE /\ il' = 1
          /\ phase' = "idle"
          /\ pos' = pos + commit
          /\ ckpt' = NoCheckpoint
          /\ commit' = 0
  /\ UNCHANGED <<work, log, seen>>

(* One iteration of the layer loop of kv_rollback.  After the last layer   *)
(* the caller moves on by the committed positions and drops the checkpoint.*)
LayerRollback ==
  /\ phase = "rollback"
  /\ buf' = [buf EXCEPT ![il] = RollbackBuf(il)]
  /\ len' = [len EXCEPT ![il] = ckpt.len0 + commit]
  /\ IF il < NLayers
     THEN il' = il + 1 /\ UNCHANGED <<pos, phase, ckpt, commit>>
     ELSE /\ il' = 1
          /\ phase' = "idle"
          /\ pos' = pos + commit
          /\ ckpt' = NoCheckpoint
          /\ commit' = 0
  /\ UNCHANGED <<work, log, seen>>

(* Any call may fail (a device error, a guard) and unwind out of generate; *)
(* the layers stay as the loop left them.                                  *)
Fail ==
  /\ phase # "failed"
  /\ phase' = "failed"
  /\ UNCHANGED <<buf, len, pos, work, il, ckpt, commit, log, seen>>

(* LagunaModel::reset_cache at the start of every generation: the lengths  *)
(* go to zero, the tensors keep their old contents.                        *)
ResetCache ==
  /\ phase \in {"idle", "failed"}
  /\ len' = [l \in Layers |-> 0]
  /\ pos' = 0
  /\ phase' = "idle"
  /\ work' = <<>>
  /\ il' = 1
  /\ ckpt' = NoCheckpoint
  /\ commit' = 0
  /\ log' = NothingFed
  /\ seen' = NothingSeen
  /\ UNCHANGED buf

Blocks(n) == UNION {[1..k -> Tokens] : k \in 1..n}

Next ==
  \/ \E toks \in Blocks(MaxSeq) : Forward(toks)
  \/ \E span \in 1..MaxSpan : KvCheckpoint(span)
  \/ \E toks \in Blocks(MaxSpan) : VerifyForward(toks)
  \/ \E keep \in 0..MaxSpan : KvRollback(keep)
  \/ LayerAppend
  \/ LayerRollback
  \/ Fail
  \/ ResetCache

Spec == Init /\ [][Next]_vars

-----------------------------------------------------------------------------
(* Properties *)

TypeOK ==
  /\ buf = [l \in Layers |-> buf[l]]
  /\ \A l \in Layers : buf[l] \in [Slots(l) -> Cells]
  /\ len \in [Layers -> 0..MaxCtx]
  /\ pos \in 0..MaxCtx
  /\ phase \in Phases
  /\ work \in Seq(Tokens)
  /\ il \in Layers
  /\ ckpt \in [len0 : 0..MaxCtx, span : 0..MaxSpan, snap : [Layers -> Seq(Cells)]]
  /\ commit \in 0..MaxSpan
  /\ log \in [0..(MaxCtx - 1) -> Tokens \cup {NoToken}]
  /\ seen = [l \in Layers |-> seen[l]]

(* The key the caller fed at position p. *)
Fed(p) == Key(p, log[p])

(* Every layer holds, in the slot the code will look it up in, the key of  *)
(* each position its attention can still reach: all stored positions of a  *)
(* full layer, the last Window ones of a ring.  It holds for each layer by *)
(* itself, also between two layers of a loop and after a failure, and is   *)
(* what rollback must re-establish after a partial accept                  *)
(* (LayerCache::rollback, "byte-identical to one that only ever appended   *)
(* the committed prefix").  During a rollback and after a failed call a    *)
(* layer may still hold rejected keys: those count as stored until the     *)
(* rollback reaches the layer.                                             *)
KeysInPlace ==
  \A l \in Layers : \A p \in 0..(len[l] - 1) :
    IF l \in SwaLayers
    THEN p >= len[l] - Window => buf[l][p % Window] = Fed(p)
    ELSE buf[l][p] = Fed(p)

(* Whenever the caller is back in charge, every layer has stored exactly   *)
(* the positions the caller believes it has: the code reads the length off *)
(* the first layer (kv_checkpoint) and masks by the caller's position.     *)
Lockstep ==
  /\ phase \in {"idle", "armed"} => \A l \in Layers : len[l] = pos
  /\ phase = "verified" => \A l \in Layers : len[l] = pos + ckpt.span

(* View and mask together let a query attend to exactly the keys of the    *)
(* positions it must see: every earlier one in a full layer, the Window    *)
(* last ones in a sliding layer, in prefill, decode and verify forwards.   *)
AttendsWindow ==
  \A l \in Layers : \A q \in DOMAIN seen[l] :
    seen[l][q] = {Fed(p) : p \in {p \in 0..q : l \in SwaLayers => q - p < Window}}

(* While a verify is in flight the checkpoint still holds the keys its     *)
(* span evicts from every ring.                                            *)
SnapshotHoldsEvicted ==
  \A l \in SwaLayers : \A j \in 0..(ckpt.span - 1) :
    LET evicted == ckpt.len0 + j - Window
    IN  evicted >= 0 => ckpt.snap[l][j + 1] = Fed(evicted)

(* The caches implement one unbounded log per layer. *)
StoredKeys == [l \in Layers |-> [i \in 1..len[l] |-> Fed(i - 1)]]

KvLog == INSTANCE KvLog WITH kv <- StoredKeys
ImplementsLog == KvLog!LogSpec
=============================================================================
