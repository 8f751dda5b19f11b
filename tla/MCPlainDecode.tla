---------------------------- MODULE MCPlainDecode ---------------------------
(* Model checking of PlainDecode: besides </think> and a plain token, the  *)
(* halves of a two-byte character, a token that closes one and opens the   *)
(* next, and an id without text.                                           *)
EXTENDS PlainDecode, MCGeneration

CONSTANTS lead, tail, both, none

MCBytes == [t \in Tokens |->
              CASE t = lead -> <<"lead">>
                [] t = tail -> <<"tail">>
                [] t = both -> <<"tail", "lead">>
                [] t = none -> <<>>
                [] OTHER -> <<"plain">>]
=============================================================================
