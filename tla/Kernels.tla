------------------------------- MODULE Kernels -------------------------------
(***************************************************************************)
(* The dispatch of laguna's own Metal kernels (src/ops/dispatch.rs,        *)
(* src/ops/pipelines.rs): per kernel what it refuses, the tensor it        *)
(* returns, and the grid it launches.                                      *)
(*                                                                         *)
(* A tensor is its dtype, dimensions, contiguity, byte offset and value.   *)
(* A value is the sequence of operations that made it, "f16" marking each  *)
(* rounding to half precision; widening is exact and leaves no mark.       *)
(***************************************************************************)
EXTENDS Integers, Sequences

Map == INSTANCE ExpertMap
Flash == INSTANCE FlashBlocks

CeilDiv(n, d) == (n + d - 1) \div d
MaxI32 == 2147483647

Elems(dims) ==
  LET product[i \in 0 .. Len(dims)] == IF i = 0 THEN 1 ELSE product[i - 1] * dims[i]
  IN  product[Len(dims)]

Tensor(dt, dims, val) == [dt |-> dt, dims |-> dims, cont |-> TRUE, off |-> 0, val |-> val]
Reshape(x, dims) == [x EXCEPT !.dims = dims]
Rounded(x, dt) == x.val \o (IF x.dt = "f32" /\ dt = "f16" THEN <<"f16">> ELSE <<>>)
(* Tensor::to_dtype: the same view when the dtype is already that. *)
ToDtype(x, dt) == IF x.dt = dt THEN x ELSE Tensor(dt, x.dims, Rounded(x, dt))
Transpose01(x) ==
  [x EXCEPT !.dims = <<@[2], @[1]>> \o SubSeq(@, 3, Len(@)), !.cont = FALSE]
Contiguous(x) == IF x.cont THEN x ELSE Tensor(x.dt, x.dims, x.val)

(* What an operation returns: whether its checks hold, its output and its  *)
(* launches.  candle's own operations launch nothing of laguna's.          *)
Call(checks, out, launches) == [ok |-> checks, out |-> out, launches |-> launches]
Candle(out) == Call(TRUE, out, <<>>)

F32(x) == x.dt = "f32" /\ x.cont

-----------------------------------------------------------------------------
(* pipelines.rs: the kernels each library instantiates. *)

MmDtypes == {"q8_0", "q4_K", "q5_K", "q6_K"}

Defined(lib) ==
  CASE lib = "mm_id" -> {<<"map0", "">>} \cup ({"mul_mm_id"} \X MmDtypes \X {"", "_hp", "_t"})
    [] lib = "mm_id_t_hp" -> {"mul_mm_id"} \X {"q4_K", "q6_K"} \X {"_t_hp"}
    [] lib = "mv" -> {"mul_mv_id_v", "mul_mv_v"} \X MmDtypes
    [] lib = "f16" -> {<<"mul_mv_f16">>, <<"mul_mm_f16">>}
    [] lib = "f16_t" -> {<<"mul_mm_f16_t">>}
    [] lib = "q8" -> {<<"mul_mv_q8_0_attn">>}
    [] lib = "combine" -> {<<"combine">>, <<"combine_rescale">>}
    [] lib = "silu_mul" -> {<<"silu_mul">>}
    [] lib = "attn_glue" -> ({"attn_gate"} \X {"f32", "f16"})
         \cup {<<"permute_cast", "f32", "f32">>, <<"permute_cast", "f32", "f16">>,
               <<"permute_cast", "f16", "f32">>}
    [] lib = "rope" -> {"rope"} \X {"f32", "f16"}
    [] lib = "flash" -> {<<"flash">>}

(* mm_id_pipeline: the _t_hp kernels have a library of their own.          *)
MmLibrary(sfx) == IF sfx = "_t_hp" THEN "mm_id_t_hp" ELSE "mm_id"

(* The *_pipeline function each dispatch asks, hence the library that is   *)
(* compiled on the kernel's first use.  candle keeps its own kernels.      *)
LibraryOf(kernel) ==
  CASE kernel[1] \in {"mul_mv_id_v", "mul_mv_v"} -> "mv"
    [] kernel[1] \in {"mul_mv_f16", "mul_mm_f16"} -> "f16"
    [] kernel[1] = "mul_mm_f16_t" -> "f16_t"
    [] kernel[1] = "mul_mv_q8_0_attn" -> "q8"
    [] kernel[1] \in {"combine", "combine_rescale"} -> "combine"
    [] kernel[1] \in {"attn_gate", "permute_cast"} -> "attn_glue"
    [] kernel[1] \in {"silu_mul", "rope", "flash"} -> kernel[1]
    [] kernel[1] = "map0" -> MmLibrary("")
    [] kernel[1] = "mul_mm_id" -> MmLibrary(kernel[3])
    [] OTHER -> "candle"

(* A launch: grid[i] threadgroups, each taking tile[i] of extent[i].       *)
Launch(kernel, grid, tile, extent) ==
  [lib |-> LibraryOf(kernel), kernel |-> kernel, grid |-> grid, tile |-> tile,
   extent |-> extent]

(* Every element of the output falls into a threadgroup of the grid.       *)
Covers(l) == \A i \in 1 .. 3 : (l.extent[i] - 1) \div l.tile[i] < l.grid[i]

(* dispatch_linear, with the width every pipeline allows.                  *)
Linear(kernel, n) ==
  Launch(kernel, <<CeilDiv(n, 256), 1, 1>>, <<256, 1, 1>>, <<n, 1, 1>>)

-----------------------------------------------------------------------------
(* The variants of the grouped expert matmul (ops/mod.rs). *)

Suffix(variant) ==
  CASE variant = "tensor" -> "_t" [] variant = "tensor_hp" -> "_t_hp"
    [] variant = "classic_hp" -> "_hp" [] variant = "classic_f16" -> ""

(* Mutant of CastsActivationF16: the tensor variant counted as exact.      *)
CastsActivationF16ClassicOnly(variant) == variant = "classic_f16"
CastsActivationF16(variant) == variant \in {"tensor", "classic_f16"}

(* Mutant of mm_kernel_instantiated: the full matrix for every variant.    *)
mm_kernel_instantiated_all(dt, variant) == dt \in MmDtypes

mm_kernel_instantiated(dt, variant) ==
  /\ dt \in MmDtypes
  /\ variant = "tensor_hp" => dt \in {"q4_K", "q6_K"}

Map0Sizes == {1, 2, 4, 5, 6, 8, 10}

(* mm_id::supported *)
supported(dt, topk, variant) == mm_kernel_instantiated(dt, variant) /\ topk \in Map0Sizes

-----------------------------------------------------------------------------
(* Expert matmuls.  A stack has n_expert matrices [n_out, k] of dtype dt;  *)
(* x is [t, x_per_row, k] and ids [t, top_k].                              *)

QK(dt) == IF dt \in {"q4_K", "q5_K", "q6_K", "q2_K", "q3_K"} THEN 256
          ELSE IF dt \in {"f16", "f32"} THEN 1 ELSE 32

RunChecks(stack, x, ids) ==
  /\ F32(x) /\ ids.dt = "u32" /\ ids.cont
  /\ x.dims[3] = stack.k /\ ids.dims[1] = x.dims[1]
  /\ x.dims[2] \in {1, ids.dims[2]}
  /\ stack.k % QK(stack.dt) = 0

RunOut(stack, x, ids, staged) ==
  Tensor("f32", <<x.dims[1], ids.dims[2], stack.n_out>>, x.val \o staged \o <<stack.name>>)

(* candle's own kernels, and the rows of the output a threadgroup of       *)
(* theirs takes.                                                           *)
MvDtypes == {"q4_0", "q4_1", "q5_0", "q5_1", "q8_0", "f16", "f32",
             "q2_K", "q3_K", "q4_K", "q5_K", "q6_K"}
MvAlign(dt) == CASE dt = "q6_K" -> 2 [] dt \in {"q2_K", "q3_K", "q4_K", "q5_K"} -> 4
                 [] OTHER -> 8

(* And of the vendored one: q8_0 splits a row over its simdgroups.         *)
MvVendoredRows(dt) == CASE dt \in {"q4_K", "q6_K"} -> 4 [] dt \in {"q5_K", "q8_0"} -> 2

mv_vendored_supported(dt) == dt \in MmDtypes

mul_mv_id(sw, stack, x, ids) ==
  LET slots == ids.dims[2] * x.dims[1]
      own   == ~sw.MV_CLASSIC /\ mv_vendored_supported(stack.dt)
      rows  == IF own THEN MvVendoredRows(stack.dt) ELSE MvAlign(stack.dt)
  IN  Call(RunChecks(stack, x, ids) /\ (own \/ stack.dt \in MvDtypes),
           RunOut(stack, x, ids, <<>>),
           <<Launch(IF own THEN <<"mul_mv_id_v", stack.dt>> ELSE <<"mul_mv_id", stack.dt>>,
                    <<CeilDiv(stack.n_out, rows), 1, slots>>, <<rows, 1, 1>>,
                    <<stack.n_out, 1, slots>>)>>)

(* run_plain_mv: one matrix of vectors, the lm_head of a decode step.      *)
mul_mv(w, x) ==
  LET rows == MvVendoredRows(w.dt) IN
  Call(/\ F32(x) /\ x.dims[2] = w.k
       /\ mv_vendored_supported(w.dt) /\ w.k % QK(w.dt) = 0,
       Tensor("f32", <<x.dims[1], w.n_out>>, x.val \o <<w.name>>),
       <<Launch(<<"mul_mv_v", w.dt>>, <<CeilDiv(w.n_out, rows), x.dims[1], 1>>,
                <<rows, 1, 1>>, <<w.n_out, x.dims[1], 1>>)>>)

(* encode_map0: one threadgroup, with a thread per expert and a 16 bit     *)
(* entry per expert and slot in its memory.                                *)
Map0Fits(nexpert, topk) ==
  topk \in Map0Sizes /\ nexpert * topk * 2 <= 32768 /\ nexpert <= 1024

(* prepare_mm_id_map0 *)
prepare_map0(nexpert, ids, routing) ==
  Call(ids.dt = "u32" /\ ids.cont /\ Map0Fits(nexpert, ids.dims[2]),
       Map!Map0(routing, nexpert, ids.dims[2]),
       <<Launch(<<"map0", "">>, <<1, 1, 1>>, <<nexpert, 1, 1>>, <<nexpert, 1, 1>>)>>)

(* encode_mm: a z-slab of tiles per expert, over tokens and output rows.   *)
MmLaunch(variant, stack, t) ==
  Launch(<<"mul_mm_id", stack.dt, Suffix(variant)>>,
         <<CeilDiv(t, 32), CeilDiv(stack.n_out, 64), stack.n_expert>>,
         <<32, 64, 1>>, <<t, stack.n_out, stack.n_expert>>)

(* run_mm_shared: the map must be that of these ids and this stack.  The   *)
(* half tiles of two of the kernels stage the activation as f16.           *)
mul_mm_id_shared(variant, stack, x, ids, scratch) ==
  Call(/\ RunChecks(stack, x, ids)
       /\ scratch.n_expert = stack.n_expert /\ scratch.t = x.dims[1]
       /\ scratch.top_k = ids.dims[2],
       RunOut(stack, x, ids, IF Suffix(variant) \in {"_t", ""} THEN <<"f16">> ELSE <<>>),
       <<MmLaunch(variant, stack, x.dims[1])>>)

-----------------------------------------------------------------------------
(* Attention projections.  w is a matrix [n_out, k]. *)

F16_MM_MIN_SEQ == 8

(* The kernel of the tiled branch; production never takes the third one.   *)
F16MmKernel(sw) == IF sw.ATTN_MM_CLASSIC THEN <<"mul_mm_f16">> ELSE <<"mul_mm_f16_t">>

(* run_matmul_f16_variant.  The tensor kernel stages the activation as f16.*)
run_matmul_f16(sw, w, x) ==
  LET t == x.dims[1]
      kernel == IF t > F16_MM_MIN_SEQ THEN F16MmKernel(sw) ELSE <<"mul_mv_f16">>
      staged == IF kernel = <<"mul_mm_f16_t">> THEN <<"f16">> ELSE <<>>
  IN  Call(/\ F32(x) /\ x.dims[2] = w.k
           /\ w.k % 32 = 0 /\ w.n_out % 4 = 0
           /\ w.off % 16 = 0 /\ x.off % 16 = 0,
           Tensor("f32", <<t, w.n_out>>, x.val \o staged \o <<w.name>>),
           IF t > F16_MM_MIN_SEQ
           THEN <<Launch(kernel, <<CeilDiv(t, 32), CeilDiv(w.n_out, 64), 1>>, <<32, 64, 1>>,
                         <<t, w.n_out, 1>>)>>
           ELSE <<Launch(kernel, <<CeilDiv(w.n_out, 2), t, 1>>, <<2, 1, 1>>,
                         <<w.n_out, t, 1>>)>>)

run_matmul_q8(w, x) ==
  Call(F32(x) /\ x.dims[2] = w.k /\ w.k % 32 = 0,
       Tensor("f32", <<x.dims[1], w.n_out>>, x.val \o <<w.name>>),
       <<Launch(<<"mul_mv_q8_0_attn">>, <<CeilDiv(w.n_out, 2), x.dims[1], 1>>,
                <<2, 1, 1>>, <<w.n_out, x.dims[1], 1>>)>>)

-----------------------------------------------------------------------------
(* The fused element-wise kernels. *)

NextPow2(n) == CHOOSE p \in {1, 2, 4, 8, 16, 32, 64} : n <= p /\ (p = 1 \/ p \div 2 < n)

(* A column rescaled by its L2 norm gets it back.  NoL2 is `None`.         *)
NoL2 == <<>>

run_combine(down, l2, weights) ==
  LET seq == down.dims[1]  topk == down.dims[2]  n == down.dims[3] IN
  Call(/\ F32(down) /\ F32(weights) /\ weights.dims = <<seq, topk>>
       /\ l2 # NoL2 => F32(l2[1]) /\ l2[1].dims = <<seq, topk, 1>>
       /\ NextPow2(topk \div 2) <= 32 /\ seq * topk * n <= MaxI32,
       Tensor("f32", <<seq, n>>,
              down.val \o (IF l2 = NoL2 THEN <<>> ELSE <<"rescale">>) \o <<"weigh", "sum">>),
       <<Launch(IF l2 = NoL2 THEN <<"combine">> ELSE <<"combine_rescale">>,
                <<seq * n, 1, 1>>, <<1, 1, 1>>, <<seq * n, 1, 1>>)>>)

run_silu_mul(gate, up) ==
  LET n == Elems(gate.dims) IN
  Call(F32(gate) /\ F32(up) /\ gate.dims = up.dims /\ n <= MaxI32,
       Tensor("f32", gate.dims, gate.val \o <<"silu">> \o up.val \o <<"mul">>),
       <<Linear(<<"silu_mul">>, n)>>)

run_attn_gate(attn, gate) ==
  LET n == Elems(attn.dims) IN
  Call(/\ attn.dt \in {"f32", "f16"} /\ attn.cont
       /\ F32(gate) /\ gate.dims = <<attn.dims[2], attn.dims[1]>> /\ n <= MaxI32,
       Tensor("f32", attn.dims, attn.val \o gate.val \o <<"softplus", "gate">>),
       <<Linear(<<"attn_gate", attn.dt>>, n)>>)

run_permute_cast(x, dt) ==
  LET n == Elems(x.dims) IN
  Call(/\ Len(x.dims) = 3 /\ x.cont /\ n <= MaxI32
       /\ <<x.dt, dt>> \in {<<"f32", "f32">>, <<"f32", "f16">>, <<"f16", "f32">>},
       Tensor(dt, <<x.dims[2], x.dims[1], x.dims[3]>>, Rounded(x, dt)),
       <<Linear(<<"permute_cast", x.dt, dt>>, n)>>)

(* cast_to: as one row, which a permutation of the first two axes keeps.   *)
cast_to(x, dt) ==
  LET c == run_permute_cast(Reshape(x, <<1, 1, Elems(x.dims)>>), dt)
  IN  [c EXCEPT !.out = Reshape(@, x.dims)]

(* The tables have a row for each of max_ctx positions.                    *)
run_rope(x, rows, pos, nrot, dt) ==
  LET seq == x.dims[2]  n == Elems(x.dims) IN
  Call(/\ F32(x) /\ dt \in {"f32", "f16"}
       /\ nrot > 0 /\ nrot % 2 = 0 /\ nrot <= x.dims[3]
       /\ pos + seq <= rows /\ n <= MaxI32,
       Tensor(dt, x.dims, x.val \o <<"rope">> \o (IF dt = "f16" THEN <<"f16">> ELSE <<>>)),
       <<Linear(<<"rope", dt>>, n)>>)

(* check_flash_kv.  A cache view may have a gap between its heads but not  *)
(* between its rows, so contiguity is not asked of it.                     *)
FlashKv(x) == x.dt = "f16" /\ Len(x.dims) = 3 /\ x.dims[3] = 128 /\ x.dims[2] > 0

run_flash_attn(q, k, v, pos, koff, window) ==
  LET nhead == q.dims[1]  seq == q.dims[2]  nkv == k.dims[1]
      c == [seq |-> seq, kl |-> k.dims[2], pos |-> pos, koff |-> koff, window |-> window]
  IN  Call(/\ F32(q) /\ q.dims[3] = 128
           /\ FlashKv(k) /\ FlashKv(v) /\ k.dims = v.dims
           /\ nkv > 0 /\ nhead % nkv = 0
           /\ Flash!FlashAccepts(c),
           Tensor("f32", q.dims, q.val \o k.val \o v.val \o <<"attend">>),
           <<Launch(<<"flash">>, <<CeilDiv(seq, 32), nhead, 1>>, <<32, 1, 1>>,
                    <<seq, nhead, 1>>)>>)
=============================================================================
