----------------------------- MODULE MCSpecDecode ---------------------------
(* Model checking of SpecDecode; PlainDecode's run splits characters.      *)
EXTENDS SpecDecode, MCGeneration

MCBytes == [t \in Tokens |-> <<"plain">>]
=============================================================================
