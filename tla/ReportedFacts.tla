--------------------------- MODULE ReportedFacts ---------------------------
(***************************************************************************)
(* Append-only reported facts and their revision lineage: the constraints  *)
(* of reported.reported_facts and the trigger that prepares an insert.     *)
(*                                                                         *)
(* Rows never change, so an insert reads its predecessor without a lock    *)
(* and is one atomic step.  The data of a row is reduced to what the       *)
(* trigger and the queries compare:                                        *)
(*   detail     concept, economic period, scope, unit and dimensions, the  *)
(*              part of fact_key_hash that is not the registration         *)
(*   extractor  source definition version, parser key and parser version   *)
(*   identity   identity_definition_hash                                   *)
(*   observed   first_observed_at, which nothing compares with the clock   *)
(* The foreign keys to the registry, the catalog and the run hold of every *)
(* row a caller supplies here.                                             *)
(***************************************************************************)
EXTENDS Naturals

CONSTANTS
    FactIds, Registrations, Details, Artifacts, Locators, Extractors, Identities,
    ArtifactSource,  \* the source of each artifact's release
    Times,           \* values of first_observed_at
    Nothing          \* SQL null: no row, no predecessor, no reason

Corrections == {"EXTRACTION_CORRECTION", "IDENTITY_CORRECTION"}
Reasons == {"SOURCE_REVISION"} \cup Corrections

Fact == [registration : Registrations, detail : Details, artifact : Artifacts,
         locator : Locators, extractor : Extractors, identity : Identities,
         observed : Times, predecessor : FactIds \cup {Nothing},
         reason : Reasons \cup {Nothing}]

ASSUME FactAssumption == Nothing \notin FactIds \cup Fact

VARIABLE facts  \* the row of each fact id, or Nothing

Init == facts = [f \in FactIds |-> Nothing]

Recorded == {f \in FactIds : facts[f] # Nothing}

Predecessor(f) == facts[f].predecessor

SourceOf(row) == ArtifactSource[row.artifact]

\* unique (artifact, locator_hash, definition version, parser, fact_key_hash)
SameExtraction(x, y) ==
    /\ x.artifact = y.artifact
    /\ x.locator = y.locator
    /\ x.extractor = y.extractor
    /\ x.registration = y.registration
    /\ x.detail = y.detail

\* Mutant: an identity correction may cite another artifact.
ReasonFitsAnyArtifact(new, old) ==
    \/ /\ new.reason = "SOURCE_REVISION"
       /\ new.artifact # old.artifact
    \/ /\ new.reason = "EXTRACTION_CORRECTION"
       /\ new.artifact = old.artifact
       /\ new.extractor # old.extractor
    \/ /\ new.reason = "IDENTITY_CORRECTION"
       /\ new.locator = old.locator
       /\ new.registration # old.registration
       /\ new.identity # old.identity

\* What the trigger asks of each supersession reason.
ReasonFits(new, old) ==
    \/ /\ new.reason = "SOURCE_REVISION"
       /\ new.artifact # old.artifact
    \/ /\ new.reason = "EXTRACTION_CORRECTION"
       /\ new.artifact = old.artifact
       /\ new.extractor # old.extractor
    \/ /\ new.reason = "IDENTITY_CORRECTION"
       /\ new.artifact = old.artifact
       /\ new.locator = old.locator
       /\ new.registration # old.registration
       /\ new.identity # old.identity

\* A root has no reason; a successor follows a recorded fact of its source.
LineageFits(new) ==
    \/ /\ new.predecessor = Nothing
       /\ new.reason = Nothing
    \/ /\ new.predecessor \in Recorded
       /\ SourceOf(facts[new.predecessor]) = SourceOf(new)
       /\ ReasonFits(new, facts[new.predecessor])

\* Mutant: an existing row is replaced instead of refused.
InsertOrReplaceFact(f, row) ==
    /\ \A g \in Recorded \ {f} : ~ SameExtraction(facts[g], row)
    /\ LineageFits(row)
    /\ facts' = [facts EXCEPT ![f] = row]

\* Mutant: a root is stored with an empty reason instead of none.
InsertFactEmptyReason(f, row) ==
    /\ facts[f] = Nothing
    /\ \A g \in Recorded : ~ SameExtraction(facts[g], row)
    /\ LineageFits(row)
    /\ facts' = [facts EXCEPT ![f] =
          IF row.reason = Nothing THEN [row EXCEPT !.reason = ""] ELSE row]

InsertFact(f, row) ==
    /\ facts[f] = Nothing
    /\ \A g \in Recorded : ~ SameExtraction(facts[g], row)
    /\ LineageFits(row)
    /\ facts' = [facts EXCEPT ![f] = row]

Next == \E f \in FactIds, row \in Fact : InsertFact(f, row)

Spec == Init /\ [][Next]_facts

-----------------------------------------------------------------------------
(* Lineage                                                                 *)

ClosedUnderPredecessor(S) ==
    \A g \in S : Predecessor(g) = Nothing \/ Predecessor(g) \in S

\* The fact and everything it revises, directly or not: the least set closed
\* under predecessors (the recursive ancestry view, generations >= 0).
Ancestors(f) ==
    {a \in Recorded : \A S \in SUBSET Recorded :
        f \in S /\ ClosedUnderPredecessor(S) => a \in S}

ProperAncestors(f) == Ancestors(f) \ {f}

Root(f) == CHOOSE a \in Ancestors(f) : Predecessor(a) = Nothing

-----------------------------------------------------------------------------

TypeOK == facts \in [FactIds -> Fact \cup {Nothing}]

\* Following predecessors never comes back: every non-empty set of facts has
\* one whose predecessor lies outside it, so each lineage ends in a root.
LineageIsAcyclic ==
    \A C \in SUBSET Recorded : C # {} => \E f \in C : Predecessor(f) \notin C

\* Revisions of revisions stay with one source, and a fact reached through
\* corrections alone still rests on the artifact it started from.
LineageKeepsProvenance ==
    \A f \in Recorded : \A a \in Ancestors(f) :
        /\ SourceOf(facts[a]) = SourceOf(facts[f])
        /\ (\A g \in Ancestors(f) \ Ancestors(a) : facts[g].reason \in Corrections)
              => facts[a].artifact = facts[f].artifact

\* ADR 0005: SOURCE_REVISION requires new or revised official evidence, so
\* its artifact is none that the revised lineage already rested on.
SourceRevisionBringsNewEvidence ==
    \A f \in Recorded : facts[f].reason = "SOURCE_REVISION" =>
        \A a \in ProperAncestors(f) : facts[a].artifact # facts[f].artifact
=============================================================================
