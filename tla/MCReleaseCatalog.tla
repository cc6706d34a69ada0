-------------------------- MODULE MCReleaseCatalog --------------------------
(* Two observers and four artifact sets: three over the same two roles,    *)
(* one over another role set; the catalog starts in any state its          *)
(* constraints allow, forks and cycles included.                           *)
EXTENDS ReleaseCatalog

CONSTANTS o1, o2

MCObservers == {o1, o2}
MCReleases == {[catalog |-> "c1", archive |-> "a1"],
               [catalog |-> "c2", archive |-> "a1"],
               [catalog |-> "c2", archive |-> "a2"],
               [archive |-> "a1"]}
=============================================================================
