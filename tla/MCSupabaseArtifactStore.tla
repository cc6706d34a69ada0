---------------------- MODULE MCSupabaseArtifactStore ----------------------
(* Two concurrent uploads with the code's two creates and three reads.     *)
EXTENDS SupabaseArtifactStore, TLC

CONSTANTS c1, c2

MCCalls == {c1, c2}
=============================================================================
