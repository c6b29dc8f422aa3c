-------------------------- MODULE MCScheduledReport --------------------------
(* Small instances of ScheduledReport: two Lambda environments and one API  *)
(* worker that may report the same period by hand.                          *)
EXTENDS ScheduledReport, TLC

CONSTANTS a1, l1, l2, api, env1, env2, r1, r2, r3, r4, human, system, jan, feb,
          t1, t2, e1, e2

MCHostOf == [w \in Workers |-> IF w = l1 THEN env1 ELSE IF w = l2 THEN env2 ELSE api]
MCPeriodOf == [t \in Txns |-> jan]
MCBatches == {Txns}
MCEventPeriod == [e \in Events |-> IF e = e2 THEN feb ELSE jan]

RunSymmetry == Permutations(RunIds)

(* A read that fails stands for every failure before something was          *)
(* committed, a crash for every way to leave a run behind.                  *)
SerialFaults == {"read", "commit_ambiguous", "crash"}
=============================================================================
