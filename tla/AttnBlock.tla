------------------------------ MODULE AttnBlock ------------------------------
(***************************************************************************)
(* AttnBlock::forward (src/attention.rs): projections, head norms, rope,   *)
(* cache append, attention by one of four routes, output gate and output   *)
(* projection.  Every site of the attention glue has a fused kernel and a  *)
(* candle chain.                                                           *)
(***************************************************************************)
EXTENDS ForwardState

Ring == INSTANCE KvRing

FusedGlue == case.metal /\ ~sw.GLUE_CLASSIC
HeadDim == Config.head_dim

-----------------------------------------------------------------------------
(* The prefill masks, one per kind, for every layer of that kind. *)

(* PrefillMask::build: the mask is broadcast over the heads.               *)
PrefillMask(i) ==
  [n_head |-> NHead(i), seq |-> seq,
   k |-> IF IsFullAttn(i) THEN pos + seq ELSE Ring!Smaller(pos, Window(i)) + seq]

(* attn_mask_for: does query row q attend to column c of the view?         *)
Unmasked(i, q, c) == IF IsFullAttn(i) THEN Ring!FullUnmasked(pos, q, c)
                                      ELSE Ring!SwaUnmasked(pos, q, c, Window(i))

(* run_stack builds none for a single token or for the flash kernel; each  *)
(* kind takes the head count of its first layer.                           *)
HoistedMasks ==
  [kind \in {"full", "swa"} |->
     LET of == {i \in Layers : Kind(i) = kind} IN
     IF seq > 1 /\ ~(case.metal /\ ~sw.FLASH_CLASSIC) /\ of # {}
     THEN PrefillMask(CHOOSE i \in of : \A j \in of : i <= j)
     ELSE NoMask]

-----------------------------------------------------------------------------
Q8_DECODE_MAX_SEQ == 8

(* AttnBlock::new, for all five projections alike: a quantized matmul, a   *)
(* dense f16 plane, or the plane and the raw q8_0 bytes beside it.         *)
ProjKind == IF sw.ATTN_F32 THEN "quant"
            ELSE IF case.ck.attn = "q8_0" THEN "f16+q8" ELSE "f16"

(* Mutant of Proj: ATTN_DEQUANT is only read where the model is loaded. *)
ProjAliased(w, x) ==
  CASE ProjKind = "quant" -> QLinear(w, x)
    [] ProjKind = "f16+q8" /\ seq <= Q8_DECODE_MAX_SEQ -> run_matmul_q8(w, x)
    [] OTHER -> run_matmul_f16(sw, w, x)

(* Proj::forward. *)
Proj(w, x) ==
  CASE ProjKind = "quant" -> QLinear(w, x)
    [] ProjKind = "f16+q8" /\ seq <= Q8_DECODE_MAX_SEQ /\ ~sw.ATTN_DEQUANT -> run_matmul_q8(w, x)
    [] OTHER -> run_matmul_f16(sw, w, x)

Heads(c, n, norm) ==
  LET split == Reshape(c.out, <<seq, n, HeadDim>>)
  IN  IF norm = "" THEN split ELSE Op(split, norm)

(* Gate logits and q, k, v of the normed input; q and k are normed again   *)
(* head by head.                                                           *)
Project ==
  /\ pc = "project"
  /\ LET g == Proj(Weight("g", NHead(il), Config.hidden), r.x)
         q == Proj(Weight("q", NHead(il) * HeadDim, Config.hidden), r.x)
         k == Proj(Weight("k", Config.n_kv_head * HeadDim, Config.hidden), r.x)
         v == Proj(Weight("v", Config.n_kv_head * HeadDim, Config.hidden), r.x)
     IN  Do(<<g, q, k, v>>,
            [r EXCEPT !.g = g.out, !.q = Heads(q, NHead(il), "q_norm"),
                      !.k = Heads(k, Config.n_kv_head, "k_norm"),
                      !.v = Heads(v, Config.n_kv_head, "")],
            "permute")
  /\ UNCHANGED <<case, il, masks, map0, seen, log>>

(* To [head, seq, head_dim]: for one token the bytes already lie so. *)
HeadFirst(x, dt) ==
  IF seq = 1 THEN Candle(Reshape(x, <<x.dims[2], 1, HeadDim>>))
  ELSE IF FusedGlue THEN run_permute_cast(x, dt)
  ELSE Candle(Contiguous(Transpose01(x)))

Permute ==
  /\ pc = "permute"
  /\ LET q == HeadFirst(r.q, "f32")
         k == HeadFirst(r.k, "f32")
         v == HeadFirst(r.v, "f16")
     IN  Do(<<q, k, v>>, [r EXCEPT !.q = q.out, !.k = k.out, !.v = v.out], "rotate")
  /\ UNCHANGED <<case, il, masks, map0, seen, log>>

(* Rope::new: one table for the full layers and one for the others, with a *)
(* row per position of the context.                                        *)
RopeTable(kind) == [rows |-> Config.max_ctx, n_rot |-> Config.n_rot[kind]]

(* Rope::rotate. *)
RotateBy(x, dt) ==
  LET table == RopeTable(Kind(il)) IN
  IF case.metal /\ x.cont /\ ~sw.GLUE_CLASSIC
  THEN run_rope(x, table.rows, pos, table.n_rot, dt)
  ELSE Candle(ToDtype(Op(x, "rope"), dt))

(* The fused kernel stores the dtype its consumer reads: k for the cache,  *)
(* q for the sdpa of a decode step.                                        *)
Rotate ==
  /\ pc = "rotate"
  /\ LET q == RotateBy(r.q, IF FusedGlue /\ seq = 1 /\ ~sw.SDPA_F32 THEN "f16" ELSE "f32")
         k == RotateBy(r.k, IF FusedGlue THEN "f16" ELSE "f32")
     IN  Do(<<q, k>>, [r EXCEPT !.q = q.out, !.k = k.out], "append")
  /\ UNCHANGED <<case, il, masks, map0, seen, log>>

-----------------------------------------------------------------------------
(* The ring of a sliding-window layer before the forward: slot s holds the *)
(* latest position it was written with.                                    *)
Stored(w) ==
  [s \in 0 .. w - 1 |-> IF s < pos THEN s + w * ((pos - 1 - s) \div w) ELSE -1]

NewPositions == [i \in 1 .. seq |-> pos + i - 1]

(* LayerCache::append: the position in each column of the view it returns. *)
ViewPositions ==
  LET w == Window(il) IN
  IF IsFullAttn(il) THEN [c \in 1 .. pos + seq |-> c - 1]
  ELSE IF seq = 1
  THEN Ring!Narrow(Ring!SliceSet(Stored(w), NewPositions, pos % w), 0, Ring!Smaller(pos + 1, w))
  ELSE Ring!OrderedExisting(Stored(w), pos, w) \o NewPositions

CastF16(x) ==
  IF x.dt = "f16" THEN Candle(x)
  ELSE IF FusedGlue THEN cast_to(x, "f16")
  ELSE Candle(ToDtype(x, "f16"))

(* The cache holds f16; its view has a gap between the heads. *)
CacheAppend ==
  /\ pc = "append"
  /\ LET k == Candle(ToDtype(r.k, "f16"))
         v == CastF16(r.v)
         View(x) == [Reshape(x, <<Config.n_kv_head, Len(ViewPositions), HeadDim>>)
                       EXCEPT !.cont = FALSE]
     IN  Do(<<k, v>>, [r EXCEPT !.k = View(k.out), !.v = View(v.out)], "attend")
  /\ UNCHANGED <<case, il, masks, map0, seen, log>>

-----------------------------------------------------------------------------
(* Attention proper.  `See` gives the positions behind a set of columns;   *)
(* a column past the view holds no position.                               *)
See(cols) == {IF c < Len(ViewPositions) THEN ViewPositions[c + 1] ELSE -1 : c \in cols}

TakesFlash == case.metal /\ seq > 1 /\ ~sw.FLASH_CLASSIC

(* The call of the flash kernel: column 0 of the view is position koff.    *)
FlashCall ==
  [seq |-> seq, kl |-> r.k.dims[2], pos |-> pos,
   koff |-> IF IsFullAttn(il) THEN 0 ELSE pos - Ring!Smaller(pos, Window(il)),
   window |-> Window(il)]

AttendFlash ==
  /\ pc = "attend" /\ TakesFlash
  /\ LET c == FlashCall
         a == run_flash_attn(r.q, r.k, r.v, c.pos, c.koff, c.window)
     IN  /\ Do(<<a>>, [r EXCEPT !.attn = a.out], "gate")
         /\ seen' = IF pc' = "gate" THEN [i \in 0 .. seq - 1 |-> See(Flash!FlashCols(c, i))]
                                    ELSE Unseen
  /\ UNCHANGED <<case, il, masks, map0, log>>

(* candle's sdpa and the explicit softmax, both over every column that the *)
(* mask leaves.  The mask must have the shape of the scores: sdpa takes it *)
(* broadcast over the heads, the explicit softmax as it is.                *)
Softmax(q, k, v, out_dt) ==
  LET mask == masks[Kind(il)]
      val  == q.val \o k.val \o v.val \o <<"attend">>
  IN  Call(/\ q.dt = k.dt /\ k.dt = v.dt
           /\ mask # NoMask => /\ mask.seq = seq /\ mask.k = k.dims[2]
                               /\ case.metal => mask.n_head = q.dims[1],
           Tensor(out_dt, q.dims, IF out_dt = "f16" THEN val \o <<"f16">> ELSE val), <<>>)

SeenThroughMask ==
  [i \in 0 .. seq - 1 |->
     See({c \in 0 .. Len(ViewPositions) - 1 :
            masks[Kind(il)] = NoMask \/ Unmasked(il, i, c)})]

(* sdpa_attention, and sdpa_attention_f32 under SDPA_F32.  In a fused      *)
(* decode step the f16 output goes to the gate as it is.                   *)
AttendSdpa ==
  /\ pc = "attend" /\ case.metal /\ ~TakesFlash
  /\ IF sw.SDPA_F32
     THEN LET a == Softmax(r.q, ToDtype(r.k, "f32"), ToDtype(r.v, "f32"), "f32")
          IN  Do(<<a>>, [r EXCEPT !.attn = a.out], "gate")
     ELSE LET q == CastF16(r.q)
              a == Softmax(q.out, r.k, r.v, "f16")
              w == IF FusedGlue /\ seq = 1 THEN Candle(a.out)
                   ELSE IF FusedGlue THEN cast_to(a.out, "f32")
                   ELSE Candle(ToDtype(a.out, "f32"))
          IN  Do(<<q, a, w>>, [r EXCEPT !.attn = w.out], "gate")
  /\ seen' = IF pc' = "gate" THEN SeenThroughMask ELSE Unseen
  /\ UNCHANGED <<case, il, masks, map0, log>>

(* manual_attention, off Metal. *)
AttendManual ==
  /\ pc = "attend" /\ ~case.metal
  /\ LET a == Softmax(r.q, ToDtype(r.k, "f32"), ToDtype(r.v, "f32"), "f32")
     IN  Do(<<a>>, [r EXCEPT !.attn = a.out], "gate")
  /\ seen' = IF pc' = "gate" THEN SeenThroughMask ELSE Unseen
  /\ UNCHANGED <<case, il, masks, map0, log>>

-----------------------------------------------------------------------------
(* The softplus gate of each head, from the logits of the block's input.   *)
Gate ==
  /\ pc = "gate"
  /\ LET a == IF FusedGlue THEN run_attn_gate(r.attn, r.g)
              ELSE Candle(Tensor("f32", r.attn.dims,
                                 r.attn.val \o r.g.val \o <<"softplus", "gate">>))
     IN  Do(<<a>>, [r EXCEPT !.attn = a.out], "output")
  /\ UNCHANGED <<case, il, masks, map0, seen, log>>

(* Back to [seq, n_head * head_dim] and through o_proj, which ends the     *)
(* block; the caller adds it to the residual stream.                       *)
Output ==
  /\ pc = "output"
  /\ LET width == NHead(il) * HeadDim
         p == IF seq = 1 THEN Candle(r.attn)
              ELSE IF FusedGlue THEN run_permute_cast(r.attn, "f32")
              ELSE Candle(Contiguous(Transpose01(r.attn)))
         o == Proj(Weight("o", Config.hidden, width), Reshape(p.out, <<seq, width>>))
     IN  /\ Do(<<p, o>>, [r EXCEPT !.x = Hidden], "ffn")
         /\ log' = IF pc' = "ffn"
                   THEN Append(log, [at |-> "attn", il |-> il, out |-> o.out]) ELSE log
  /\ UNCHANGED <<case, il, masks, map0, seen>>
=============================================================================
