------------------------------ MODULE MCWeights ------------------------------
(* Layouts of four tensors in a file of 19 bytes and pages of 8: all       *)
(* inside the file, the first straddling two pages; a stack off its        *)
(* alignment; a stack past the end of the file.                            *)
EXTENDS Weights

At(o, l) == [off |-> o, len |-> l]

MCKinds == <<"f16", "q8", "stack", "copied">>
MCAlign == [f16 |-> 4, q8 |-> 2, stack |-> 4]
MCLayouts == {<<At(4, 6), At(10, 2), At(12, 7), At(0, 4)>>,
              <<At(0, 8), At(8, 2), At(14, 4), At(0, 4)>>,
              <<At(4, 4), At(10, 1), At(16, 4), At(0, 4)>>}
=============================================================================
