--------------------------- MODULE MCCodexThreads ---------------------------
(* Model checking the looks at codex threads: a session and its subagent *)
EXTENDS CodexThreads, TLC

CONSTANTS t1, t2

SessionAndSubagent == [t \in Threads |-> t1]
Lengths == (t1 :> 3) @@ (t2 :> 1)

Symmetry == Permutations(Procs)
=============================================================================
