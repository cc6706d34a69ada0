--------------------------- MODULE ReleaseCatalog ---------------------------
(***************************************************************************)
(* classify_release and the catalog of one source release family.          *)
(*                                                                         *)
(* A release is identified by its exact artifact set, so its identity hash *)
(* is the set itself: a function from roles to digests.  An observer reads *)
(* the prior state of the family, classifies what it observed against it,  *)
(* and inserts the release; nothing makes the three steps one.  The        *)
(* classification is local and pure, hence one step; the orchestrator that *)
(* will do the reading and the insert is not written yet, so Read and      *)
(* Publish are what the classifier and the schema ask of it.               *)
(***************************************************************************)
EXTENDS Naturals, FiniteSets, SequencesExt

CONSTANTS
    Observers,  \* concurrent observations of the family
    Releases,   \* artifact sets that may be observed
    None,       \* SQL null, and no classification
    Absent,     \* not in the catalog
    Ambiguous   \* release_lineage_ambiguous

ASSUME SentinelAssumption ==
    None # Absent /\ {None, Absent, Ambiguous} \cap Releases = {}

\* A release has at least one artifact, and there are finitely many hashes.
ASSUME ReleaseAssumption ==
    /\ IsFiniteSet(Releases)
    /\ \A r \in Releases : DOMAIN r # {} /\ r = [role \in DOMAIN r |-> r[role]]

VARIABLES
    catalog,   \* for each release, the one it supersedes, None, or Absent
    prior,     \* the PriorFamilyState each observer classifies against
    observed,  \* the release each observer observed, None when idle
    verdict    \* its ReleaseClassification: None, Ambiguous or a record

vars == <<catalog, prior, observed, verdict>>

Known(state) == {r \in Releases : state[r] # Absent}

\* source_releases keeps nothing from superseding anything but itself.
Catalogs == {s \in [Releases -> Releases \cup {None, Absent}] :
                \A r \in Releases : s[r] # r}

Init ==
    /\ catalog \in Catalogs
    /\ \A r \in Known(catalog) : catalog[r] \in Known(catalog) \cup {None}
    /\ prior = [o \in Observers |-> [r \in Releases |-> Absent]]
    /\ observed = [o \in Observers |-> None]
    /\ verdict = [o \in Observers |-> None]

-----------------------------------------------------------------------------
(* _resolve_unique_head                                                    *)

Superseded(state) == {state[r] : r \in Known(state)} \ {None}

Heads(state) == Known(state) \ Superseded(state)

\* The n-th release met on the way back from r, None after the first one.
Walk(state, r) ==
    LET walk[n \in 0..Cardinality(Known(state))] ==
            IF n = 0 THEN r
            ELSE IF walk[n - 1] = None THEN None ELSE state[walk[n - 1]]
    IN walk

\* Mutant: the walk back from the head is left out.
ResolvesByHeadsAlone(state) ==
    /\ Superseded(state) \subseteq Known(state)
    /\ Cardinality(Heads(state)) = 1

\* Nothing dangles, one head, and the walk from it ends having met them all.
Resolves(state) ==
    /\ Superseded(state) \subseteq Known(state)
    /\ Cardinality(Heads(state)) = 1
    /\ LET walk == Walk(state, CHOOSE h \in Heads(state) : TRUE)
       IN /\ walk[Cardinality(Known(state))] = None
          /\ {walk[n] : n \in DOMAIN walk} \ {None} = Known(state)

TheHead(state) == CHOOSE h \in Heads(state) : TRUE

-----------------------------------------------------------------------------
(* classify_release                                                        *)

Classification(change, supersedes, results) ==
    [change |-> change, supersedes |-> supersedes, results |-> results]

Revised(release, head) ==
    Classification("revised", head,
        [role \in DOMAIN release |->
            IF release[role] # head[role] THEN "revised" ELSE "reused"])

\* Mutant: a superseded identity may come back.
ClassifyReverting(release, state) ==
    IF Known(state) = {} THEN
        Classification("first_release", None, [role \in DOMAIN release |-> "new"])
    ELSE IF ~ Resolves(state) \/ DOMAIN TheHead(state) # DOMAIN release THEN Ambiguous
    ELSE IF release = TheHead(state) THEN
        Classification("unchanged", None, [role \in DOMAIN release |-> "reused"])
    ELSE Revised(release, TheHead(state))

\* Mutant: every artifact of a changed release is new.
ClassifyAllNew(release, state) ==
    IF Known(state) = {} THEN
        Classification("first_release", None, [role \in DOMAIN release |-> "new"])
    ELSE IF ~ Resolves(state) \/ DOMAIN TheHead(state) # DOMAIN release
            \/ release \in Superseded(state) THEN Ambiguous
    ELSE IF release = TheHead(state) THEN
        Classification("unchanged", None, [role \in DOMAIN release |-> "reused"])
    ELSE Classification("revised", TheHead(state), [role \in DOMAIN release |-> "new"])

Classify(release, state) ==
    IF Known(state) = {} THEN
        Classification("first_release", None, [role \in DOMAIN release |-> "new"])
    ELSE IF ~ Resolves(state) \/ DOMAIN TheHead(state) # DOMAIN release THEN Ambiguous
    ELSE IF release = TheHead(state) THEN
        Classification("unchanged", None, [role \in DOMAIN release |-> "reused"])
    ELSE IF release \in Superseded(state) THEN Ambiguous
    ELSE Revised(release, TheHead(state))

-----------------------------------------------------------------------------

\* An observer has a release in hand and reads the family's prior state.  A
\* caller may hand over a state that lacks a release, which is what the
\* check for dangling supersession is there for.
Read(o, release, state) ==
    /\ observed[o] = None
    /\ observed' = [observed EXCEPT ![o] = release]
    /\ prior' = [prior EXCEPT ![o] = state]
    /\ UNCHANGED <<catalog, verdict>>

ClassifyRelease(o) ==
    /\ observed[o] # None
    /\ verdict[o] = None
    /\ verdict' = [verdict EXCEPT ![o] = Classify(observed[o], prior[o])]
    /\ UNCHANGED <<catalog, prior, observed>>

\* Mutant: the classification outlives the observation.
ForgetObservation(o) ==
    /\ observed' = [observed EXCEPT ![o] = None]
    /\ UNCHANGED verdict
    /\ prior' = [prior EXCEPT ![o] = [r \in Releases |-> Absent]]

Forget(o) ==
    /\ observed' = [observed EXCEPT ![o] = None]
    /\ verdict' = [verdict EXCEPT ![o] = None]
    /\ prior' = [prior EXCEPT ![o] = [r \in Releases |-> Absent]]

IsNewRelease(v) ==
    v \notin {None, Ambiguous} /\ v.change \in {"first_release", "revised"}

\* INSERT of the release: its identity is new, its predecessor is there.
Publish(o) ==
    /\ IsNewRelease(verdict[o])
    /\ catalog[observed[o]] = Absent
    /\ verdict[o].supersedes \in Known(catalog) \cup {None}
    /\ catalog' = [catalog EXCEPT ![observed[o]] = verdict[o].supersedes]
    /\ Forget(o)

\* Unchanged or ambiguous, refused by a constraint, or crashed.
Abandon(o) ==
    /\ observed[o] # None
    /\ Forget(o)
    /\ UNCHANGED catalog

Next ==
    \E o \in Observers :
        \/ \E release \in Releases, lost \in Releases \cup {None} :
              Read(o, release, [r \in Releases |->
                                  IF r = lost THEN Absent ELSE catalog[r]])
        \/ ClassifyRelease(o) \/ Publish(o) \/ Abandon(o)

Spec == Init /\ [][Next]_vars

-----------------------------------------------------------------------------

TypeOK ==
    /\ catalog \in Catalogs
    /\ \A r \in Known(catalog) : catalog[r] \in Known(catalog) \cup {None}
    /\ \A o \in Observers :
          /\ prior[o] \in Catalogs
          /\ observed[o] \in Releases \cup {None}
          /\ verdict[o] # None => observed[o] # None

\* The releases of the state, one after the other, each superseding the last.
IsChainTo(state, head) ==
    \E s \in SetToSeqs(Known(state)) :
        /\ s # <<>> /\ Last(s) = head
        /\ state[s[1]] = None
        /\ \A i \in 2..Len(s) : state[s[i]] = s[i - 1]

\* No hidden winner: against prior releases a verdict other than ambiguous is
\* given only when they are one supersession chain, and a new release then
\* supersedes the end of it and repeats none of it.
VerdictsRestOnOneChain ==
    \A o \in Observers :
        verdict[o] \notin {None, Ambiguous} /\ Known(prior[o]) # {} =>
            IF verdict[o].change = "unchanged"
            THEN IsChainTo(prior[o], observed[o])
            ELSE /\ IsChainTo(prior[o], verdict[o].supersedes)
                 /\ observed[o] \notin Known(prior[o])

\* A writer that read the whole family and was not overtaken leaves a chain a
\* chain, ending in its own release.  (One that was overtaken may fork it.)
UpToDateWriterKeepsTheChain ==
    [][\A o \in Observers :
          /\ observed[o] # None /\ prior[o] = catalog
          /\ catalog' # catalog /\ observed'[o] = None
          /\ catalog'[observed[o]] # catalog[observed[o]]
          => /\ Known(catalog) = {} \/ \E h \in Releases : IsChainTo(catalog, h)
             /\ IsChainTo(catalog', observed[o])]_vars

\* Every result of a published release is one the audit trigger accepts for
\* an artifact of that release: revised needs a superseded release, new must
\* not have one, and a published release is never all reused.
AuditAcceptsPublishedResults ==
    \A o \in Observers : IsNewRelease(verdict[o]) =>
        LET results == {verdict[o].results[role] : role \in DOMAIN observed[o]}
        IN /\ "revised" \in results => verdict[o].supersedes # None
           /\ "new" \in results => verdict[o].supersedes = None
           /\ results \cap {"new", "revised"} # {}
=============================================================================
