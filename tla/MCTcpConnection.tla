-------------------------- MODULE MCTcpConnection --------------------------
(* TcpConnection on small instances.                                       *)
EXTENDS TcpConnection, TLC

InterchangeableMessages == Permutations(Messages)
=============================================================================
