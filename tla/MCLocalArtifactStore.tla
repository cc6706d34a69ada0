----------------------- MODULE MCLocalArtifactStore -----------------------
(* Three concurrent writers of one payload.                                *)
EXTENDS LocalArtifactStore, TLC

CONSTANTS c1, c2, c3

MCCalls == {c1, c2, c3}
=============================================================================
