-------------------------- MODULE MCExecutionOrder --------------------------
(***************************************************************************)
(* Every graph of four properties of three materials without self-loops,   *)
(* and every graph of three of them.                                       *)
(***************************************************************************)
EXTENDS ExecutionOrder

MCNode     == 1..4
MCRankings == {<<2, 1, 1, 0>>}

Loops == {<<n, n>> : n \in MCNode}
MCGraphs == SUBSET ((MCNode \X MCNode) \ Loops) \cup SUBSET ((2..4) \X (2..4))
=============================================================================
