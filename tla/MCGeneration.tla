---------------------------- MODULE MCGeneration ----------------------------
(* Small prompts for the decode loops: none, one chunk, and two chunks.    *)
EXTENDS Integers, Sequences

CONSTANTS a, close

MCPrompts == {<<>>, <<a>>, <<a, close, a>>}
=============================================================================
