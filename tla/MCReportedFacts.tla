-------------------------- MODULE MCReportedFacts --------------------------
(* Three facts at one locator over two sources (two artifacts and one),    *)
(* two registrations, two extractor versions, two identity definitions.    *)
EXTENDS ReportedFacts, TLC

CONSTANTS f1, f2, f3, a1, a2, b1, srcA, srcB, g1, g2, x1, x2

MCFactIds == {f1, f2, f3}
MCArtifacts == {a1, a2, b1}
MCArtifactSource == (a1 :> srcA) @@ (a2 :> srcA) @@ (b1 :> srcB)
MCPairs == {x1, x2}
MCRegistrations == {g1, g2}

Symmetry == Permutations(MCFactIds) \cup Permutations(MCRegistrations)
=============================================================================
