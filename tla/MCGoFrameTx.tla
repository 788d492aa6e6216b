---------------------------- MODULE MCGoFrameTx ----------------------------
(* A small instance of GoFrameTx: statements of every class ExecContext    *)
(* tells apart, pool requests on both sides of each limit.                 *)
EXTENDS GoFrameTx

Stmt(verb, tail) ==
  [verb |-> verb, into |-> TRUE, words |-> 4, tail |-> tail,
   returning |-> FALSE, duplicate |-> FALSE, args |-> TRUE]

MCStatements ==
  {Stmt("REPLACE", "none"), Stmt("CREATE", "none"), Stmt("COMMIT", "none"), Stmt("UPDATE", "COMMIT")}

Request(override, node) ==
  [openOverride |-> override, nodeOpen |-> node, idleOverride |-> <<>>, nodeIdle |-> 1]

MCPoolRequests == {Request(<<9>>, 1), Request(<<>>, -1)}
=============================================================================
