------------------------------- MODULE Forward -------------------------------
(***************************************************************************)
(* LagunaModel::forward and forward_all_logits (src/model.rs): one forward *)
(* pass over every layer, and the output head.  The keys of the earlier    *)
(* positions are in the caches, which KvCache is about.                    *)
(***************************************************************************)
EXTENDS AttnBlock, MoeBlock

NoBlock == [x |-> NoTensor, g |-> NoTensor, q |-> NoTensor, k |-> NoTensor, v |-> NoTensor,
            attn |-> NoTensor, gate |-> NoTensor, up |-> NoTensor, act |-> NoTensor,
            l2 |-> NoL2, down |-> NoTensor, y |-> NoTensor]

Init ==
  /\ case \in Cases
  /\ pc = "begin" /\ il = 0 /\ r = NoBlock
  /\ masks = [kind \in {"full", "swa"} |-> NoMask]
  /\ map0 = NoMap /\ seen = Unseen
  /\ launched = {} /\ ran = {} /\ libs = {} /\ log = <<>>

(* run_stack: a forward past the context is refused before anything runs.  *)
Begin ==
  /\ pc = "begin"
  /\ IF pos + seq <= Config.max_ctx
     THEN /\ Do(<<>>, [r EXCEPT !.x = Hidden], "project")
          /\ masks' = HoistedMasks
     ELSE /\ Do(<<Call(FALSE, NoTensor, <<>>)>>, r, "project")
          /\ UNCHANGED masks
  /\ UNCHANGED <<case, il, map0, seen, log>>

(* The last position: still the storage of the whole chunk. *)
LastRow(x) ==
  [x EXCEPT !.dims = <<1, Config.hidden>>, !.off = (seq - 1) * Config.hidden * 4]

HeadWeight ==
  [name |-> "output", dt |-> case.ck.head, n_out |-> Config.vocab, k |-> Config.hidden, off |-> 0]

Normed == Op(r.x, "output_norm")

EmitLogits(c) ==
  /\ Do(<<c>>, NoBlock, "done")
  /\ log' = IF pc' = "done" THEN Append(log, [at |-> "head", il |-> il, out |-> c.out]) ELSE log
  /\ UNCHANGED <<case, il, masks, map0, seen>>

(* forward: the decode mat-vec for a single token it has a kernel for,     *)
(* candle's quantized matmul otherwise.                                    *)
LastLogits ==
  /\ pc = "head" /\ ~case.all
  /\ EmitLogits(
       IF case.metal /\ seq = 1 /\ ~sw.MV_CLASSIC /\ mv_vendored_supported(case.ck.head)
       THEN mul_mv(HeadWeight, LastRow(Normed))
       ELSE QLinear(HeadWeight, LastRow(Normed)))

(* forward_all_logits: every position, and never the decode mat-vec.       *)
AllLogits == pc = "head" /\ case.all /\ EmitLogits(QLinear(HeadWeight, Normed))

Attention ==
  \/ Project \/ Permute \/ Rotate \/ CacheAppend
  \/ AttendFlash \/ AttendSdpa \/ AttendManual
  \/ Gate \/ Output

Ffn ==
  \/ Dense \/ Route \/ ReferenceExperts
  \/ PrepareMap \/ NoMapNeeded \/ GateUp \/ Activate \/ Down \/ Combine
  \/ Shared

Next == Begin \/ Attention \/ Ffn \/ LastLogits \/ AllLogits

Spec == Init /\ [][Next]_vars

-----------------------------------------------------------------------------
(* Every query attends to its own position and the ones before it, down    *)
(* to the window of its layer, whichever route attends and wherever the    *)
(* chunk lies: flash skips blocks of keys by integer bounds                *)
(* (flash.metal:652), a decode step reads the ring as it lies, sdpa takes  *)
(* a mask that was built for another layer of the kind.                    *)
SeesItsWindow ==
  (pc = "gate") =>
    \A i \in 0 .. seq - 1 :
      seen[i] = {p \in 0 .. pos + i : IsFullAttn(il) \/ (pos + i) - p < Config.sliding_window}

(* Every element of every output is computed by some threadgroup of its    *)
(* launch, and the grouped matmul stores every routed slot exactly once,   *)
(* under its expert, although the first pass writes a map entry for every  *)
(* token before it knows whether the expert was selected (mm_id.metal:249).*)
WritesOnce ==
  /\ \A l \in launched : Covers(l)
  /\ (pc = "gate_up" /\ map0 # NoMap) => Map!GroupsEverySlot(Routing, map0)

-----------------------------------------------------------------------------
(* What the values of the blocks should be, from the switches that are     *)
(* meant to change numerics: none of GLUE_CLASSIC, ACT_CLASSIC,            *)
(* COMBINE_CLASSIC, MV_CLASSIC, ATTN_DEQUANT is among them.                *)
If(b, s) == IF b THEN s ELSE <<>>

TensorGemm == ~sw.ATTN_F32 /\ ~sw.ATTN_MM_CLASSIC /\ seq > 8
HalfSdpa == case.metal /\ ~sw.SDPA_F32 /\ ~(seq > 1 /\ ~sw.FLASH_CLASSIC)

(* A block whose projections stage their input as f16, or do not, and      *)
(* whose attention computes in f16, or does not.                           *)
AttnValue(gemm, sdpa) ==
  LET in == If(gemm, <<"f16">>) IN
  <<"x">> \o in \o <<"q", "q_norm", "rope">> \o If(sdpa, <<"f16">>)
  \o <<"x">> \o in \o <<"k", "k_norm", "rope", "f16">>
  \o <<"x">> \o in \o <<"v", "f16">> \o <<"attend">> \o If(sdpa, <<"f16">>)
  \o <<"x">> \o in \o <<"g", "softplus", "gate">> \o in \o <<"o">>

ExpectedAttn == AttnValue(TensorGemm, HalfSdpa)

(* The half tiles of the grouped matmul round the activations, the one of  *)
(* the down projection only between a scaling and its inverse.             *)
HalfTiles ==
  /\ case.runner = "fused" /\ seq >= case.min_seq /\ ~sw.NO_MM_ID
  /\ MmVariant \in {"tensor", "classic_f16"}
  /\ {case.ck.gate, case.ck.up, case.ck.down} \subseteq MmDtypes
  /\ Config.n_expert_used \in Map0Sizes

SwigluValue(name) ==
  <<"x", name \o ".gate", "silu", "x", name \o ".up", "mul", name \o ".down">>

ExpectedFfn(i) ==
  IF i < Config.dense_layers THEN SwigluValue("dense")
  ELSE LET in == If(HalfTiles, <<"f16">>) IN
       <<"x">> \o in \o <<"gate", "silu", "x">> \o in \o <<"up", "mul">>
       \o If(HalfTiles, <<"scale", "f16">>) \o <<"down">> \o If(HalfTiles, <<"rescale">>)
       \o <<"weigh", "sum">> \o SwigluValue("shared") \o <<"add">>

(* The kill switches that promise bit-identity are invisible in every      *)
(* block's result, f16 enters only where the precision design has it, and  *)
(* a large down activation is never rounded to f16 unscaled               *)
(* (attention.rs:245, moe.rs:316).                                         *)
SwitchesInvisible ==
  \A n \in DOMAIN log :
    log[n].out.val = CASE log[n].at = "attn" -> ExpectedAttn
                       [] log[n].at = "ffn" -> ExpectedFfn(log[n].il)
                       [] log[n].at = "head" -> <<"x", "output_norm", "output">>

-----------------------------------------------------------------------------
(* The libraries a forward is meant to touch under its switches. *)
Needed ==
  LET attn(b) == b /\ case.metal /\ ~sw.ATTN_F32
      q8 == case.ck.attn = "q8_0" /\ ~sw.ATTN_DEQUANT
      fused(b) == b /\ case.runner = "fused"
  IN  {lib \in {"q8", "f16", "f16_t", "attn_glue", "rope", "flash", "mv", "mm_id", "mm_id_t_hp",
                "combine", "silu_mul"} :
         CASE lib = "q8" -> attn(q8 /\ seq <= 8)
           [] lib = "f16" -> attn(IF seq > 8 THEN sw.ATTN_MM_CLASSIC ELSE ~q8)
           [] lib = "f16_t" -> attn(seq > 8 /\ ~sw.ATTN_MM_CLASSIC)
           [] lib \in {"attn_glue", "rope"} -> case.metal /\ ~sw.GLUE_CLASSIC
           [] lib = "flash" -> case.metal /\ seq > 1 /\ ~sw.FLASH_CLASSIC
           [] lib = "mv" -> case.metal /\ ~sw.MV_CLASSIC
           [] lib = "mm_id" -> fused(seq >= case.min_seq /\ ~sw.NO_MM_ID)
           [] lib = "mm_id_t_hp" -> fused(MmVariant = "tensor_hp" /\ ~sw.NO_MM_ID)
           [] lib = "combine" -> fused(~sw.COMBINE_CLASSIC)
           [] lib = "silu_mul" -> fused(~sw.ACT_CLASSIC)}

(* What the kernels take for granted of a checkpoint, and config.rs does   *)
(* not check: heads of 128 (dispatch.rs:2007), which every query group     *)
(* shares out (:2019) and the layers of a kind have in the same number     *)
(* (model.rs:306), widths their tiles divide (:1127, :1130), rotary        *)
(* dimensions in pairs within a head (:1867), experts that fit a           *)
(* threadgroup (:588) and a slot reduction that fits a simdgroup (:1417).  *)
CheckpointFits ==
  /\ Config.head_dim = 128 /\ Config.hidden % 32 = 0 /\ Config.n_kv_head > 0
  /\ \A i \in Layers :
       /\ NHead(i) % 4 = 0 /\ NHead(i) % Config.n_kv_head = 0
       /\ \A j \in Layers : Kind(j) = Kind(i) => NHead(j) = NHead(i)
  /\ \A kind \in {"full", "swa"} : Config.n_rot[kind] \in {2 * n : n \in 1 .. 64}
  /\ Config.n_expert_used <= 65 /\ Config.n_expert <= 1024
  /\ Config.n_expert * Config.n_expert_used * 2 <= 32768

(* And of a forward: experts of a dtype candle has a kernel for (:72), in  *)
(* rows of whole quantization blocks, as GGUF has them (:840), positions   *)
(* and a chunk that i32 indices reach (:1425, :1660).                      *)
ForwardFits(c) ==
  /\ {c.ck.gate, c.ck.up, c.ck.down} \subseteq MvDtypes
  /\ Config.hidden % QK(c.ck.gate) = 0 /\ Config.hidden % QK(c.ck.up) = 0
  /\ Config.expert_ff % QK(c.ck.down) = 0 /\ Config.hidden % QK(c.ck.head) = 0
  /\ Config.max_ctx \in 0 .. MaxI32
  /\ \A i \in Layers : c.seq * NHead(i) * Config.head_dim <= MaxI32
  /\ c.seq * Config.n_kv_head * Config.head_dim <= MaxI32
  /\ c.seq * Config.n_expert_used * Config.hidden <= MaxI32
  /\ c.seq * Config.n_expert_used * Config.expert_ff <= MaxI32

(* A chunk whose tokens the short indices of the grouped matmul tell apart *)
(* (mm_id.metal:438).  A prefill sends at most 512 tokens, a dump all of   *)
(* its prompt.                                                             *)
ShortChunks == \A c \in Cases : c.seq <= Map!ShortTokens

(* A library is compiled only where its switches ask for it, and a forward *)
(* fails only for a library it needs, for fast math switched off, for a    *)
(* context that is full, or off Metal for the f16 projections or the fused *)
(* experts: every kernel that is looked up exists, every shape and dtype   *)
(* suits the kernel it is handed to (pipelines.rs:133).                    *)
FailsOnlyForCause ==
  /\ libs \subseteq Needed
  /\ pc = "failed" =>
       \/ pos + seq > Config.max_ctx
       \/ Needed \cap case.broken # {}
       \/ case.nofast /\ Needed # {}
       \/ ~case.metal /\ (~sw.ATTN_F32 \/ case.runner = "fused")

-----------------------------------------------------------------------------
(* What a dump says of how it was made.  The paths of the projections are  *)
(* resolved when the model is loaded.                                      *)
AttnMm == IF sw.ATTN_F32 THEN "f32-bypass" ELSE IF sw.ATTN_MM_CLASSIC THEN "classic" ELSE "tensor"
AttnDecode ==
  IF sw.ATTN_F32 THEN "f32-bypass"
  ELSE IF ~sw.ATTN_DEQUANT /\ case.ck.attn = "q8_0" THEN "q8" ELSE "f16"

(* provenance; sdpa, like flash and attn_glue, is read from its switch      *)
(* alone, and is recorded of a flash prefill, too, which runs no sdpa.     *)
Provenance ==
  LET reference == case.runner = "reference" IN
  [attn_dtype |-> IF sw.ATTN_F32 THEN "f32" ELSE "f16",
   attn_mm |-> AttnMm, attn_decode |-> AttnDecode,
   combine |-> IF reference THEN "reference"
               ELSE IF sw.COMBINE_CLASSIC THEN "classic" ELSE "fused",
   act     |-> IF reference \/ sw.ACT_CLASSIC THEN "classic" ELSE "fused",
   attn_glue |-> IF sw.GLUE_CLASSIC THEN "classic" ELSE "fused",
   sdpa    |-> IF sw.SDPA_F32 THEN "f32" ELSE "f16",
   flash   |-> IF sw.FLASH_CLASSIC THEN "classic" ELSE "fused",
   mm_variant |-> MmVariant,
   mm_on   |-> ~reference /\ seq >= case.min_seq /\ ~sw.NO_MM_ID]

Ran(names) == \E k \in ran : k[1] \in names

Projections == {"mul_mm_f16_t", "mul_mm_f16", "mul_mv_q8_0_attn", "mul_mv_f16"}

(* A dump of a Metal forward names the kernels that really made it, and    *)
(* what it says of them fixes where its attention blocks rounded to f16:   *)
(* the record comes from the switches and the model, the kernels from the  *)
(* tests each call site makes for itself (logits-dump.rs:266).             *)
RecordTrue ==
  (pc = "done" /\ case.metal) =>
    LET p == Provenance IN
    /\ Ran(Projections) <=> p.attn_dtype = "f16"
    /\ Ran({"mul_mm_f16_t"}) <=> (seq > 8 /\ p.attn_mm = "tensor")
    /\ Ran({"mul_mm_f16"}) <=> (seq > 8 /\ p.attn_mm = "classic")
    /\ Ran({"mul_mv_q8_0_attn"}) <=> (seq <= 8 /\ p.attn_decode = "q8")
    /\ Ran({"mul_mv_f16"}) <=> (seq <= 8 /\ p.attn_decode = "f16")
    /\ Ran({"combine", "combine_rescale"}) <=> p.combine = "fused"
    /\ Ran({"silu_mul"}) <=> p.act = "fused"
    /\ Ran({"attn_gate", "permute_cast", "rope"}) <=> p.attn_glue = "fused"
    /\ Ran({"flash"}) <=> (seq > 1 /\ p.flash = "fused")
    /\ Ran({"map0", "mul_mm_id"}) => p.mm_on
    /\ \A k \in ran : k[1] = "mul_mm_id" => k[3] = Suffix(p.mm_variant)
    /\ \A n \in DOMAIN log : log[n].at = "attn" =>
         log[n].out.val = AttnValue(seq > 8 /\ p.attn_mm = "tensor",
                                    ~(seq > 1 /\ p.flash = "fused") /\ p.sdpa = "f16")
=============================================================================
