-------------------------- MODULE MCIngestionRuns --------------------------
(* Two sessions and two runs over a catalog of one original and one        *)
(* superseding artifact; the second source has no artifact of its own.     *)
EXTENDS IngestionRuns, TLC

CONSTANTS s1, s2, r1, r2, src1, src2, original, revision, nobody

MCSessions == {s1, s2}
MCRuns == {r1, r2}
MCSources == {src1, src2}
MCArtifacts == {original, revision}
MCArtifactSource == [a \in MCArtifacts |-> src1]
MCSuperseding == {revision}

Symmetry == Permutations(MCSessions) \cup Permutations(MCRuns)
=============================================================================
