------------------------- MODULE MCReviewDecisions -------------------------
(* Two sessions, two facts, three ids and a clock of two instants.          *)
EXTENDS ReviewDecisions, TLC

CONSTANTS s1, s2, f1, f2

MCSessions == {s1, s2}
MCFacts == {f1, f2}

Symmetry == Permutations(MCSessions) \cup Permutations(MCFacts)
=============================================================================
