------------------------------ MODULE MCTurns ------------------------------
(* Small instances of ThreadTurns for TLC.                                 *)
EXTENDS ThreadTurns, TLC

MessageSymmetry == Permutations(Messages)

Only(resumes, stops, restarts, may) == [resumes |-> resumes, stops |-> stops, restarts |-> restarts, may |-> may]

\* Resumed turns and a stop; restarts; and each mishap.
Ways == {Only(1, 1, 0, {"resume"}),
         Only(0, 1, 1, {"restart", "forced_stop"}),
         Only(0, 0, 2, {"restart", "torn"}),
         Only(1, 0, 1, {"resume", "restart"}),
         Only(0, 0, 0, {"exit"}),
         Only(0, 0, 0, {"refusal"}),
         Only(0, 0, 0, {"resume", "early_result"}),
         Only(0, 1, 0, {"close_fails"})}
\* The liveness run: a stop; output while no turn is installed, which waits for a permit.
Live == {Only(0, 1, 0, {}), Only(0, 0, 0, {"resume"})}
=============================================================================
