------------------------------ MODULE MoeBlock ------------------------------
(***************************************************************************)
(* The feed-forward half of a layer (src/moe.rs): the dense MLP of the     *)
(* leading layers, and the mixture of experts of the others, with its two  *)
(* runners and, in the fused one, the choice between the matrix-vector     *)
(* kernels and the two-pass grouped matmul.                                *)
(***************************************************************************)
EXTENDS ForwardState

(* mm_id_variant: the first switch that is set wins. *)
MmVariant == CASE sw.MM_ID_F16 -> "classic_f16"
               [] ~sw.MM_ID_F16 /\ sw.MM_ID_CLASSIC -> "classic_hp"
               [] ~sw.MM_ID_F16 /\ ~sw.MM_ID_CLASSIC /\ sw.MM_ID_TENSOR_HP -> "tensor_hp"
               [] OTHER -> "tensor"

Stack(name, dt, n, k) ==
  [name |-> name, dt |-> dt, n_expert |-> Config.n_expert, n_out |-> n, k |-> k]
GateStack == Stack("gate", case.ck.gate, Config.expert_ff, Config.hidden)
UpStack   == Stack("up", case.ck.up, Config.expert_ff, Config.hidden)
DownStack == Stack("down", case.ck.down, Config.hidden, Config.expert_ff)

(* The experts of each token, in the order of its slots. *)
Routing == [t \in 1 .. seq |-> case.route[((t - 1) % Len(case.route)) + 1]]
Ids == Tensor("u32", <<seq, Config.n_expert_used>>, <<>>)
RouteWeights == Tensor("f32", <<seq, Config.n_expert_used>>, <<"weights">>)

(* Mutant of UseMm: only the gate stack is looked at. *)
UseMmGateOnly ==
  /\ seq >= case.min_seq /\ ~sw.NO_MM_ID
  /\ supported(GateStack.dt, Config.n_expert_used, MmVariant)

(* The grouped matmul wants enough tokens and a kernel for every stack. *)
UseMm ==
  /\ seq >= case.min_seq /\ ~sw.NO_MM_ID
  /\ \A stack \in {GateStack, UpStack, DownStack} :
       supported(stack.dt, Config.n_expert_used, MmVariant)

NeedsRescale == UseMm /\ CastsActivationF16(MmVariant)

Matmul(stack, x) ==
  IF UseMm THEN mul_mm_id_shared(MmVariant, stack, x, Ids, map0)
           ELSE mul_mv_id(sw, stack, x, Ids)

-----------------------------------------------------------------------------
(* FusedExperts::forward.  One map serves the three projections. *)
PrepareMap ==
  /\ pc = "experts" /\ UseMm
  /\ LET m == prepare_map0(Config.n_expert, Ids, Routing)
     IN  /\ Do(<<m>>, r, "gate_up")
         /\ map0' = IF pc' = "gate_up" THEN m.out ELSE NoMap
  /\ UNCHANGED <<case, il, masks, seen, log>>

NoMapNeeded ==
  /\ pc = "experts" /\ ~UseMm
  /\ Do(<<>>, r, "gate_up")
  /\ UNCHANGED <<case, il, masks, map0, seen, log>>

(* Gate and up share the activation of their token. *)
GateUp ==
  /\ pc = "gate_up"
  /\ LET x == Reshape(r.x, <<seq, 1, Config.hidden>>)
         g == Matmul(GateStack, x)
         u == Matmul(UpStack, x)
     IN  Do(<<g, u>>, [r EXCEPT !.gate = g.out, !.up = u.out], "activate")
  /\ UNCHANGED <<case, il, masks, map0, seen, log>>

SiluMul(g, u) == Tensor("f32", g.dims, g.val \o <<"silu">> \o u.val \o <<"mul">>)

Activate ==
  /\ pc = "activate"
  /\ LET a == IF sw.ACT_CLASSIC THEN Candle(SiluMul(r.gate, r.up)) ELSE run_silu_mul(r.gate, r.up)
     IN  Do(<<a>>, [r EXCEPT !.act = a.out], "down")
  /\ UNCHANGED <<case, il, masks, map0, seen, log>>

(* The down projection; where its kernel stages the activation as f16 each *)
(* column is scaled into range first, by a factor kept for Combine.        *)
Down ==
  /\ pc = "down"
  /\ LET l2 == IF NeedsRescale THEN <<Tensor("f32", <<seq, Config.n_expert_used, 1>>, <<"l2">>)>>
               ELSE NoL2
         d  == Matmul(DownStack, IF NeedsRescale THEN Op(r.act, "scale") ELSE r.act)
     IN  Do(<<d>>, [r EXCEPT !.down = d.out, !.l2 = l2], "combine")
  /\ UNCHANGED <<case, il, masks, map0, seen, log>>

(* The scale undone, the routing weights applied, the slots of a token     *)
(* summed.                                                                 *)
CombineClassic(down, l2) ==
  Candle(Tensor("f32", <<seq, Config.hidden>>,
                down.val \o (IF l2 = NoL2 THEN <<>> ELSE <<"rescale">>) \o <<"weigh", "sum">>))

Combine ==
  /\ pc = "combine"
  /\ LET c == IF sw.COMBINE_CLASSIC THEN CombineClassic(r.down, r.l2)
              ELSE run_combine(r.down, r.l2, RouteWeights)
     IN  Do(<<c>>, [r EXCEPT !.y = c.out], "shared")
  /\ map0' = NoMap
  /\ UNCHANGED <<case, il, masks, seen, log>>

-----------------------------------------------------------------------------
(* ReferenceExperts::forward: the slots are bucketed by expert, and each   *)
(* expert with a slot adds its rows into the output.                       *)
ReferenceExperts ==
  /\ pc = "reference"
  /\ LET h == SiluMul(Op(r.x, "gate"), Op(r.x, "up"))
         y == Tensor("f32", <<seq, Config.hidden>>, h.val \o <<"down", "weigh", "sum">>)
     IN  Do(<<>>, [r EXCEPT !.y = y], "shared")
  /\ UNCHANGED <<case, il, masks, map0, seen, log>>

(* MoeBlock::forward begins: the routing, then the runner it was built with. *)
Route ==
  /\ pc = "ffn" /\ il >= Config.dense_layers
  /\ Do(<<>>, r, IF case.runner = "reference" THEN "reference" ELSE "experts")
  /\ UNCHANGED <<case, il, masks, map0, seen, log>>

Swiglu(name, width, x) ==
  LET g == QLinear(Weight(name \o ".gate", width, Config.hidden), x)
      u == QLinear(Weight(name \o ".up", width, Config.hidden), x)
      d == QLinear(Weight(name \o ".down", Config.hidden, width), SiluMul(g.out, u.out))
  IN  <<g, u, d>>

(* The layer is over: its output joins the residual stream. *)
Block(out) == [at |-> "ffn", il |-> il, out |-> out]
NextLayer == IF il + 1 \in Layers THEN "project" ELSE "head"

EndLayer(calls, out) ==
  /\ Do(calls, [r EXCEPT !.x = Hidden], NextLayer)
  /\ il' = IF pc' = "project" THEN il + 1 ELSE il
  /\ log' = IF pc' = "failed" THEN log ELSE Append(log, Block(out))
  /\ UNCHANGED <<case, masks, map0, seen>>

(* SharedExpert::forward, added to the routed experts. *)
Shared ==
  /\ pc = "shared"
  /\ LET s == Swiglu("shared", Config.expert_ff, r.x)
     IN  EndLayer(s, Tensor("f32", <<seq, Config.hidden>>, r.y.val \o s[3].out.val \o <<"add">>))

(* DenseMlp::forward of a leading layer. *)
Dense ==
  /\ pc = "ffn" /\ il < Config.dense_layers
  /\ LET s == Swiglu("dense", Config.dense_ff, r.x) IN EndLayer(s, s[3].out)
=============================================================================
