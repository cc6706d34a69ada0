--------------------------- MODULE MCFactServing ---------------------------
(* Three facts of one source: a chain of three, a branch with two leaves   *)
(* and two lineages all occur; three decisions and two instants.           *)
EXTENDS FactServing, TLC

CONSTANTS f1, f2, f3, a1, a2, a3, src

MCFactIds == {f1, f2, f3}
MCArtifacts == {a1, a2, a3}
MCArtifactSource == [a \in MCArtifacts |-> src]

Symmetry == Permutations(MCFactIds) \cup Permutations(MCArtifacts)
=============================================================================
