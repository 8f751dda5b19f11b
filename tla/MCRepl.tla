-------------------------------- MODULE MCRepl -------------------------------
(* The replies that tell the chat's cases apart: reasoning that was never  *)
(* closed, closed without an answer, and closed with one.                  *)
EXTENDS Repl

MCReplies ==
  {<<"thought">>, <<"thought", "</think>", "ws">>, <<"thought", "ws", "</think>", "ws", "answer">>}
=============================================================================
