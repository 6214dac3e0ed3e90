----------------------------- MODULE MCWebChat -----------------------------
(* Every connection on a loop of its own.                                  *)
EXTENDS WebChat, TLC

CONSTANTS c1, c2, l1, l2

MCLoopOf == (c1 :> l1) @@ (c2 :> l2)

MCReads == {<<>>, <<"/", "/other">>, <<"/chat">>, <<"/chat", "/chat">>}
=============================================================================
