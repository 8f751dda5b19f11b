---------------------------- MODULE ForwardState ----------------------------
(***************************************************************************)
(* What the steps of one forward pass of the model (src/model.rs) share:   *)
(* the configuration of the process, the tensors of the block in progress  *)
(* and the cache of compiled kernels (src/ops/pipelines.rs).               *)
(***************************************************************************)
EXTENDS Kernels

S == INSTANCE SequencesExt

CONSTANTS
  Config,        (* the LagunaConfig of the checkpoint, with max_ctx       *)
  Cases          (* what a process may be started with and asked to do     *)

VARIABLES
  case,          (* switches, checkpoint, device and forward of this run   *)
  pc,            (* the step that is due                                   *)
  il,            (* the layer it belongs to, from 0                        *)
  r,             (* the tensors of the block in progress, by name          *)
  masks,         (* the hoisted prefill masks, by kind                     *)
  map0,          (* the expert map of the MoE block in progress            *)
  seen,          (* per query row, the positions it attended to last       *)
  launched,      (* the launches of the last step                          *)
  ran,           (* every kernel of laguna's own launched so far           *)
  libs,          (* the libraries in the pipeline cache                    *)
  log            (* the values of the finished blocks                      *)

vars == <<case, pc, il, r, masks, map0, seen, launched, ran, libs, log>>

(* The LAGUNA_* switches of src/ops/mod.rs: each is set by its presence    *)
(* and read once, so they are constants of the process.                    *)
Switches ==
  {"GLUE_CLASSIC", "FLASH_CLASSIC", "SDPA_F32", "ATTN_MM_CLASSIC", "ATTN_DEQUANT", "ATTN_F32",
   "NO_MM_ID", "COMBINE_CLASSIC", "ACT_CLASSIC", "MV_CLASSIC",
   "MM_ID_F16", "MM_ID_CLASSIC", "MM_ID_TENSOR_HP"}

ASSUME ConfigAssumption ==
  /\ {Config.n_layer, Config.sliding_window, Config.n_expert} \subseteq Nat \ {0}
  /\ {Config.n_kv_head, Config.head_dim, Config.hidden, Config.n_expert_used, Config.expert_ff,
      Config.dense_layers, Config.dense_ff, Config.vocab} \subseteq Nat
  /\ Config.n_head \in [1 .. Config.n_layer -> Nat]

(* A forward feeds a token at least, and route_from_logits returns         *)
(* distinct experts for each.                                              *)
ASSUME CasesAssumption ==
  \A c \in Cases :
    /\ c.sw \in [Switches -> BOOLEAN] /\ c.runner \in {"fused", "reference"}
    /\ c.seq \in Nat \ {0} /\ c.pos \in Nat
    /\ c.route \in Seq([1 .. Config.n_expert_used -> 0 .. Config.n_expert - 1]) /\ c.route # <<>>
    /\ \A n \in 1 .. Len(c.route) : \A a, b \in 1 .. Config.n_expert_used :
         c.route[n][a] = c.route[n][b] => a = b

sw == case.sw
seq == case.seq
pos == case.pos

Layers == 0 .. Config.n_layer - 1
IsFullAttn(i) == i % Config.swa_period = 0
Kind(i) == IF IsFullAttn(i) THEN "full" ELSE "swa"
Window(i) == IF IsFullAttn(i) THEN Flash!NoWindow ELSE Config.sliding_window
NHead(i) == Config.n_head[i + 1]

NoTensor == <<>>
NoMask == <<>>
NoMap == <<>>
Unseen == <<>>

-----------------------------------------------------------------------------
(* compiled_pipeline: the library is compiled on first use and kept, then  *)
(* the kernel is looked up in it.  A library that fails to compile is not  *)
(* kept; under a falsy CANDLE_METAL_ENABLE_FAST_MATH nothing is compiled.  *)
(* Off Metal a dispatch refuses, candle's own expert kernels included.     *)
FastMath == ~case.nofast
Compiles(l) == case.metal /\ FastMath /\ l.lib \notin case.broken
Found(l) ==
  case.metal /\ (l.lib = "candle" \/ (Compiles(l) /\ l.kernel \in Defined(l.lib)))

(* The calls of a step in order, up to the first that fails.  `regs` is    *)
(* what they leave behind and `next` the step that is due then; a failed   *)
(* call abandons the forward.                                              *)
Do(calls, regs, next) ==
  LET Works(c) == c.ok /\ \A l \in S!Range(c.launches) : Found(l)
      failed  == {n \in DOMAIN calls : ~Works(calls[n])}
      reached == {n \in DOMAIN calls : \A m \in failed : n <= m}
      looked  == {n \in reached : calls[n].ok}
      asked   == UNION {S!Range(calls[n].launches) : n \in looked}
  IN  /\ libs' = libs \cup {l.lib : l \in {k \in asked : k.lib # "candle" /\ Compiles(k)}}
      /\ launched' = UNION {S!Range(calls[n].launches) : n \in reached \ failed}
      /\ ran' = ran \cup {l.kernel : l \in {k \in launched' : k.lib # "candle"}}
      /\ IF failed = {} THEN pc' = next /\ r' = regs
                        ELSE pc' = "failed" /\ r' = r

(* QLinear::forward: an input that does not start its buffer is copied     *)
(* first, for candle's own kernel would read from the start.               *)
QMatMul(w, x) ==
  Candle(Tensor("f32", <<x.dims[1], w.n_out>>,
                (IF x.off = 0 THEN x.val ELSE <<"wrong rows">>) \o <<w.name>>))
QLinear(w, x) == QMatMul(w, [Contiguous(x) EXCEPT !.off = 0])

Weight(name, n, k) == [name |-> name, n_out |-> n, k |-> k, off |-> 0]
(* What a norm returns, and an element-wise operation of candle's.         *)
Op(x, name) == Tensor("f32", x.dims, x.val \o <<name>>)

(* A block starts from the residual stream, whose history the log has.     *)
Hidden == Tensor("f32", <<seq, Config.hidden>>, <<"x">>)
=============================================================================
