--------------------------- MODULE IngestionRuns ---------------------------
(***************************************************************************)
(* The ingestion-run lifecycle of the audit schema: runs, their append-    *)
(* only artifact observations, and the triggers that own the status, the   *)
(* terminal counters and the restart lineage.                              *)
(*                                                                         *)
(* Writers are database sessions.  A session runs one transaction at a     *)
(* time at READ COMMITTED, the only isolation level the repository uses.   *)
(* Every statement here writes one run row or locks it FOR UPDATE, so a    *)
(* statement is one atomic step taken once the row lock is free: a trigger *)
(* is volatile, each of its queries takes a new snapshot, and no other     *)
(* session can write what it reads while the lock is held.                 *)
(*                                                                         *)
(* A statement that raises or breaks a CHECK aborts its transaction; so do *)
(* a lost connection and a deadlock victim.  All of them are Abort.        *)
(***************************************************************************)
EXTENDS Naturals, FiniteSets

CONSTANTS
    Sessions,        \* database connections of the service role
    Runs,            \* ingestion_run_id values that may be allocated
    Sources,         \* source_id values
    Artifacts,       \* artifacts in the evidence catalog
    ArtifactSource,  \* the source of each artifact's release
    Superseding,     \* artifacts whose release supersedes another release
    Nobody,          \* no session, no run and no artifact: SQL null
    MaxObservations  \* bound: observation ids the identity column hands out

ASSUME NobodyAssumption ==
    Nobody \notin Sessions \cup Runs \cup Sources \cup Artifacts

ASSUME CatalogAssumption ==
    /\ ArtifactSource \in [Artifacts -> Sources]
    /\ Superseding \subseteq Artifacts
    /\ MaxObservations \in Nat

Results  == {"new", "reused", "revised", "failed"}
Terminal == {"succeeded", "failed", "no_change"}
Statuses == {"absent", "pending", "running"} \cup Terminal

RunRow == [status  : Statuses,
           source  : Sources \cup {Nobody},
           restart : Runs \cup {Nobody},
           counts  : [Results -> Nat]]

Observation == [id : Nat, run : Runs, result : Results,
                artifact : Artifacts \cup {Nobody}]

ZeroCounts == [x \in Results |-> 0]

NoRow == [status |-> "absent", source |-> Nobody, restart |-> Nobody,
          counts |-> ZeroCounts]

VARIABLES
    committed,     \* the latest committed version of each run row
    working,       \* the latest version, the lock holder's uncommitted one included
    lockedBy,      \* the session that holds the row lock of each run
    observations,  \* committed observation rows
    inserted,      \* each session's uncommitted observation rows
    nextId         \* the observation identity sequence; it never rolls back

vars == <<committed, working, lockedBy, observations, inserted, nextId>>

Init ==
    /\ committed = [r \in Runs |-> NoRow]
    /\ working = [r \in Runs |-> NoRow]
    /\ lockedBy = [r \in Runs |-> Nobody]
    /\ observations = {}
    /\ inserted = [s \in Sessions |-> {}]
    /\ nextId = 1

-----------------------------------------------------------------------------
(* What a session sees and locks                                           *)

\* A row another session is writing is read in its committed version.
Seen(s, r) == IF lockedBy[r] = s THEN working[r] ELSE committed[r]

SeenObservations(s, r) == {o \in observations \cup inserted[s] : o.run = r}

LockFree(s, r) == lockedBy[r] \in {s, Nobody}

Holds(s) == {r \in Runs : lockedBy[r] = s}

\* One version of row r is written, and s keeps its lock until it ends.
Write(s, r, row) ==
    /\ working' = [working EXCEPT ![r] = row]
    /\ lockedBy' = [lockedBy EXCEPT ![r] = s]

OfResult(S, x) == {o \in S : o.result = x}

\* The terminal counters the trigger computes, whatever the UPDATE says.
CountsOf(s, r) ==
    [x \in Results |-> Cardinality(OfResult(SeenObservations(s, r), x))]

-----------------------------------------------------------------------------
(* Statements                                                              *)

\* Mutant: the predecessor's status is not checked.
InsertRunUnchecked(s, r, source, predecessor) ==
    /\ lockedBy[r] = Nobody
    /\ committed[r].status = "absent"
    /\ predecessor # Nobody => Seen(s, predecessor).source = source
    /\ Write(s, r, [status |-> "pending", source |-> source,
                    restart |-> predecessor, counts |-> ZeroCounts])
    /\ UNCHANGED <<committed, observations, inserted, nextId>>

\* Mutant: the counters are left to the caller, who leaves one null.
InsertRunNullCounters(s, r, source, predecessor) ==
    /\ lockedBy[r] = Nobody
    /\ committed[r].status = "absent"
    /\ predecessor = Nobody
    /\ Write(s, r, [status |-> "pending", source |-> source,
                    restart |-> predecessor,
                    counts |-> [ZeroCounts EXCEPT !["new"] = Nobody]])
    /\ UNCHANGED <<committed, observations, inserted, nextId>>

\* INSERT of a run.  The identifier is new, and a restart names a failed run
\* of the same source that the inserting session can see; the trigger takes
\* no lock on it, the foreign key only shares it.
InsertRun(s, r, source, predecessor) ==
    /\ lockedBy[r] = Nobody
    /\ committed[r].status = "absent"
    /\ predecessor # Nobody =>
          /\ Seen(s, predecessor).status = "failed"
          /\ Seen(s, predecessor).source = source
    /\ Write(s, r, [status |-> "pending", source |-> source,
                    restart |-> predecessor, counts |-> ZeroCounts])
    /\ UNCHANGED <<committed, observations, inserted, nextId>>

\* Mutant: a failed run may be started again in place.
StartRunAgain(s, r) ==
    /\ LockFree(s, r)
    /\ Seen(s, r).status \in {"pending", "failed"}
    /\ Write(s, r, [Seen(s, r) EXCEPT !.status = "running",
                                      !.counts = ZeroCounts])
    /\ UNCHANGED <<committed, observations, inserted, nextId>>

\* UPDATE pending -> running
StartRun(s, r) ==
    /\ LockFree(s, r)
    /\ Seen(s, r).status = "pending"
    /\ Write(s, r, [Seen(s, r) EXCEPT !.status = "running",
                                      !.counts = ZeroCounts])
    /\ UNCHANGED <<committed, observations, inserted, nextId>>

\* Mutant: no_change is refused for new evidence only.
CloseRunForgetsRevised(s, r, outcome) ==
    /\ LockFree(s, r)
    /\ Seen(s, r).status = "running"
    /\ outcome = "no_change" => CountsOf(s, r)["new"] = 0
    /\ Write(s, r, [Seen(s, r) EXCEPT !.status = outcome,
                                      !.counts = CountsOf(s, r)])
    /\ UNCHANGED <<committed, observations, inserted, nextId>>

\* UPDATE running -> succeeded, failed or no_change.  The caller supplies the
\* error columns that failed needs; the CHECK on no_change reads the counters.
CloseRun(s, r, outcome) ==
    /\ LockFree(s, r)
    /\ Seen(s, r).status = "running"
    /\ outcome = "no_change" =>
          /\ CountsOf(s, r)["new"] = 0
          /\ CountsOf(s, r)["revised"] = 0
    /\ Write(s, r, [Seen(s, r) EXCEPT !.status = outcome,
                                      !.counts = CountsOf(s, r)])
    /\ UNCHANGED <<committed, observations, inserted, nextId>>

\* The result an observation may carry, from its catalog artifact.
ResultFits(result, artifact, source) ==
    \/ /\ result = "failed"
       /\ artifact = Nobody
    \/ /\ result # "failed"
       /\ artifact \in Artifacts
       /\ ArtifactSource[artifact] = source
       /\ result = "revised" => artifact \in Superseding
       /\ result = "new" => artifact \notin Superseding

\* Mutant: the run's status is read without FOR UPDATE.
ObserveArtifactUnlocked(s, r, result, artifact) ==
    /\ nextId <= MaxObservations
    /\ Seen(s, r).status = "running"
    /\ ResultFits(result, artifact, Seen(s, r).source)
    /\ inserted' = [inserted EXCEPT ![s] = @ \cup
          {[id |-> nextId, run |-> r, result |-> result, artifact |-> artifact]}]
    /\ nextId' = nextId + 1
    /\ UNCHANGED <<committed, working, lockedBy, observations>>

\* INSERT of an observation: SELECT ... FOR UPDATE of the run, then the checks.
ObserveArtifact(s, r, result, artifact) ==
    /\ nextId <= MaxObservations
    /\ LockFree(s, r)
    /\ Seen(s, r).status = "running"
    /\ ResultFits(result, artifact, Seen(s, r).source)
    /\ Write(s, r, Seen(s, r))
    /\ inserted' = [inserted EXCEPT ![s] = @ \cup
          {[id |-> nextId, run |-> r, result |-> result, artifact |-> artifact]}]
    /\ nextId' = nextId + 1
    /\ UNCHANGED <<committed, observations>>

-----------------------------------------------------------------------------
(* The end of a transaction                                                *)

Release(s) ==
    /\ lockedBy' = [r \in Runs |-> IF lockedBy[r] = s THEN Nobody ELSE lockedBy[r]]
    /\ inserted' = [inserted EXCEPT ![s] = {}]

\* A session in a transaction has written something.
Active(s) == Holds(s) # {} \/ inserted[s] # {}

Commit(s) ==
    /\ Active(s)
    /\ committed' = [r \in Runs |-> IF lockedBy[r] = s THEN working[r]
                                                       ELSE committed[r]]
    /\ observations' = observations \cup inserted[s]
    /\ Release(s)
    /\ UNCHANGED <<working, nextId>>

Abort(s) ==
    /\ Active(s)
    /\ working' = [r \in Runs |-> IF lockedBy[r] = s THEN committed[r]
                                                     ELSE working[r]]
    /\ Release(s)
    /\ UNCHANGED <<committed, observations, nextId>>

Next ==
    \E s \in Sessions :
        \/ \E r \in Runs, source \in Sources, p \in Runs \cup {Nobody} :
              InsertRun(s, r, source, p)
        \/ \E r \in Runs : StartRun(s, r)
        \/ \E r \in Runs, outcome \in Terminal : CloseRun(s, r, outcome)
        \/ \E r \in Runs, x \in Results, a \in Artifacts \cup {Nobody} :
              ObserveArtifact(s, r, x, a)
        \/ Commit(s)
        \/ Abort(s)

Spec == Init /\ [][Next]_vars

-----------------------------------------------------------------------------
(* Properties of the committed tables                                      *)

TypeOK ==
    /\ committed \in [Runs -> RunRow]
    /\ working \in [Runs -> RunRow]
    /\ lockedBy \in [Runs -> Sessions \cup {Nobody}]
    /\ observations \subseteq Observation
    /\ inserted \in [Sessions -> SUBSET Observation]
    /\ nextId \in Nat
    /\ IsFiniteSet(observations)
    /\ \A s \in Sessions : IsFiniteSet(inserted[s])

CommittedOf(r) == {o \in observations : o.run = r}

\* A terminal run's counters count exactly its committed observations,
\* forever: a late observation can neither miss the count nor follow it
\* (trigger enforce_ingestion_run_artifact_insert, select ... for update).
TerminalCountersAreExact ==
    \A r \in Runs : committed[r].status \in Terminal =>
        \A x \in Results :
            committed[r].counts[x] = Cardinality(OfResult(CommittedOf(r), x))

\* A run that reports no change carries no new or revised evidence in its
\* observations, not only in its counters (no_change_has_no_new_or_revised).
NoChangeMeansNoEvidence ==
    \A o \in observations :
        committed[o.run].status = "no_change" => o.result \in {"reused", "failed"}

\* A restart names a failed run of its own source, and no run is, through any
\* chain of restarts, a restart of itself: every non-empty set of runs has one
\* whose predecessor lies outside it (lineage check of the insert trigger).
RestartLineageIsSound ==
    /\ \A r \in Runs : committed[r].restart # Nobody =>
          LET p == committed[committed[r].restart] IN
          /\ p.status = "failed"
          /\ p.source = committed[r].source
    /\ \A C \in SUBSET Runs : C # {} => \E r \in C : committed[r].restart \notin C

\* Once a run is terminal no step changes its row or its set of observations,
\* in whatever order sessions start, wait, commit and abort.
TerminalRunsAreFrozen ==
    [][\A r \in Runs : committed[r].status \in Terminal =>
          /\ committed'[r] = committed[r]
          /\ CommittedOf(r)' = CommittedOf(r)]_vars
=============================================================================
