----------------------------- MODULE MCKvCache -----------------------------
(* Model checking of KvCache: layer 1 attends in full, layer 2 is a ring. *)
EXTENDS KvCache, TLC

MCSwaLayers == {2}

TokenSymmetry == Permutations(Tokens)
=============================================================================
