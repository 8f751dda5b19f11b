------------------------------ MODULE MCForward ------------------------------
EXTENDS Forward

MCConfig ==
  [n_layer |-> 3, swa_period |-> 2, dense_layers |-> 1, n_head |-> <<4, 8, 4>>,
   n_kv_head |-> 2, head_dim |-> 128, n_rot |-> [full |-> 64, swa |-> 128],
   hidden |-> 256, sliding_window |-> 20, max_ctx |-> 64, n_expert |-> 4,
   n_expert_used |-> 2, expert_ff |-> 256, dense_ff |-> 512, vocab |-> 10]

Set(on) == [s \in Switches |-> s \in on]

(* The official checkpoint, the UD one, and one with an expert dtype that  *)
(* no grouped kernel is instantiated for.                                  *)
Ck(attn, gate, down, head) ==
  [attn |-> attn, gate |-> gate, up |-> gate, down |-> down, head |-> head]
Official == Ck("f16", "q4_K", "q6_K", "q6_K")
UD       == Ck("q8_0", "q4_K", "q5_K", "q8_0")
Foreign  == Ck("f16", "q4_K", "q3_K", "q3_K")

Skewed == <<<<0, 1>>>>
Spread == <<<<0, 1>>, <<2, 0>>, <<3, 1>>, <<1, 2>>>>

Case(on, ck, at, n) ==
  [sw |-> Set(on), ck |-> ck, pos |-> at, seq |-> n, min_seq |-> 32, route |-> Spread,
   metal |-> TRUE, runner |-> "fused", nofast |-> FALSE, broken |-> {}, all |-> FALSE]

(* Attention: every switch, the chunk and the ring at their boundaries.    *)
Attentions ==
  {Case(on, ck, p[1], p[2]) :
     on \in SUBSET {"GLUE_CLASSIC", "FLASH_CLASSIC", "SDPA_F32", "ATTN_MM_CLASSIC",
                    "ATTN_DEQUANT", "ATTN_F32"},
     ck \in {Official, UD},
     p \in {<<0, 1>>, <<25, 1>>, <<0, 2>>, <<25, 8>>, <<3, 9>>, <<17, 33>>}}

(* Experts: every switch and variant around the threshold.                 *)
Experts ==
  {[Case(on \cup variant, ck, 0, t[1]) EXCEPT !.min_seq = t[2], !.route = t[3]] :
     on \in SUBSET {"NO_MM_ID", "COMBINE_CLASSIC", "ACT_CLASSIC", "MV_CLASSIC"},
     variant \in {{}, {"MM_ID_F16", "MM_ID_CLASSIC"}, {"MM_ID_CLASSIC", "MM_ID_TENSOR_HP"},
                  {"MM_ID_TENSOR_HP"}},
     ck \in {Official, UD, Foreign},
     t \in {<<1, 32, Spread>>, <<2, 2, Spread>>, <<31, 32, Spread>>, <<33, 32, Skewed>>}}

(* One library that does not compile, in a default and a classic process.  *)
Broken ==
  {[Case(on, UD, 0, n) EXCEPT !.broken = {lib}, !.nofast = nofast, !.min_seq = 2] :
     on \in {{}, {"MM_ID_TENSOR_HP"},
             {"GLUE_CLASSIC", "FLASH_CLASSIC", "ATTN_F32", "COMBINE_CLASSIC", "ACT_CLASSIC",
              "MV_CLASSIC", "NO_MM_ID"}},
     n \in {1, 9}, nofast \in BOOLEAN,
     lib \in {"q8", "f16", "f16_t", "attn_glue", "rope", "flash", "mv", "mm_id", "mm_id_t_hp",
              "combine", "silu_mul", "none"}}

(* Either runner, the CPU, a full context, every position's logits.        *)
Others ==
  {[Case(on, Official, p[1], p[2]) EXCEPT !.runner = runner, !.metal = metal, !.all = all] :
     on \in {{}, {"ATTN_F32"}, {"ATTN_F32", "GLUE_CLASSIC"}}, metal \in BOOLEAN, all \in BOOLEAN,
     runner \in {"fused", "reference"},
     p \in {<<25, 1>>, <<3, 9>>, <<63, 2>>}}

MCCases == Attentions \cup Experts \cup Broken \cup Others

(* What FailsOnlyForCause is proved under. *)
ASSUME InstanceFits == CheckpointFits /\ \A c \in Cases : ForwardFits(c)

(* And WritesOnce. *)
ASSUME InstanceShort == ShortChunks
=============================================================================
