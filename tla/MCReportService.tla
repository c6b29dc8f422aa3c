--------------------------- MODULE MCReportService ---------------------------
(* Small instances of ReportService: API workers on one host and a Lambda   *)
(* environment; two uploads, the first with two transactions of the period. *)
EXTENDS ReportService, TLC

CONSTANTS a1, a2, l1, api, env, r1, r2, r3, human, jan, feb, t1, t2, t3

MCHostOf == [w \in Workers |-> IF w = l1 THEN env ELSE api]
MCPeriodOf == [t \in Txns |-> IF t = t3 THEN feb ELSE jan]
MCBatches == {{t1, t2}, {t3}} \cap SUBSET Txns

(* Run ids are interchangeable, and so are the two API workers.             *)
RunSymmetry == Permutations(RunIds)
Symmetry == Permutations(RunIds) \cup Permutations(Workers \ {l1})
=============================================================================
