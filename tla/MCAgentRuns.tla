---------------------------- MODULE MCAgentRuns ----------------------------
(* Small instances of AgentRuns for TLC.                                   *)
EXTENDS AgentRuns, TLC
CONSTANTS t1, t2, r1, r2, alice, x1

Symmetry == Permutations(Threads)

MCTarget == [r \in Runs |-> x1]
MCOwner  == [r \in Runs |-> alice]
\* Two writes of one path, or a write and a directory.
AllWrite == [r \in Runs |-> "write"]
WriteAndDirectory == [r \in Runs |-> IF r = r1 THEN "write" ELSE "mkdir"]
=============================================================================
