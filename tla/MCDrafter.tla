------------------------------ MODULE MCDrafter ------------------------------
(* Model checking of Drafter: two files that load, with taps out of layer  *)
(* order and with a repeated one, one that loads but is narrower than the  *)
(* target, and one that fails at each check.                               *)
EXTENDS Drafter

Good == [arch |-> "dflash", decoder_arch |-> "laguna", target_layers |-> <<3, 1>>,
         head_dim |-> 64, n_head |-> 4, n_head_kv |-> 2, n_embd |-> 64,
         aux_norm |-> <<2, 64>>, fc |-> <<64, 128>>, f32 |-> FALSE,
         weights |-> {[n_out |-> 64, k |-> 128, finite |-> TRUE]}, dtypes |-> {"BF16", "F32"}]

MCFiles ==
  { Good,
    [Good EXCEPT !.target_layers = <<2, 2>>],
    [Good EXCEPT !.n_embd = 32, !.aux_norm = <<2, 32>>, !.fc = <<32, 64>>],
    [Good EXCEPT !.target_layers = <<0, 1>>],
    [Good EXCEPT !.target_layers = <<1, 4>>],
    [Good EXCEPT !.target_layers = <<>>],
    [Good EXCEPT !.target_layers = <<1>>],
    [Good EXCEPT !.n_head_kv = 3],
    [Good EXCEPT !.weights = {[n_out |-> 64, k |-> 128, finite |-> FALSE]}],
    [Good EXCEPT !.dtypes = {"Q4K"}] }
=============================================================================
