------------------------ MODULE IngestionRunsProofs ------------------------
(***************************************************************************)
(* Proofs about IngestionRuns, for any numbers of sessions, runs, sources, *)
(* artifacts and observations.  The inductive invariant says what the row  *)
(* lock protects: who may hold uncommitted observations of a run, and that *)
(* the uncommitted version of a terminal row already has exact counters.   *)
(***************************************************************************)
EXTENDS IngestionRuns, FiniteSetTheorems, TLAPS

\* A free row has one version; a row that is committed terminal keeps it even
\* while a session holds its lock.
VersionsAgree ==
    \A r \in Runs :
        (lockedBy[r] = Nobody \/ committed[r].status \in Terminal)
            => working[r] = committed[r]

\* Only the holder of a run's lock has uncommitted observations of it.
InsertedUnderLock ==
    \A s \in Sessions : \A o \in inserted[s] : lockedBy[o.run] = s

\* Nothing is being added to a run that is committed terminal.
TerminalRunsAreClosed ==
    \A s \in Sessions : \A o \in inserted[s] :
        committed[o.run].status \notin Terminal

\* The counters of an uncommitted terminal row count what its writer sees.
WorkingCountersAreExact ==
    \A s \in Sessions, r \in Runs :
        lockedBy[r] = s /\ working[r].status \in Terminal
            => working[r].counts = CountsOf(s, r)

LockInv ==
    /\ VersionsAgree
    /\ InsertedUnderLock
    /\ TerminalRunsAreClosed
    /\ WorkingCountersAreExact
    /\ TerminalCountersAreExact

IInv == TypeOK /\ LockInv

-----------------------------------------------------------------------------

\* The counters the trigger computes are numbers, and a zero counter means
\* that nothing with that result was seen.
LEMMA CountsAreExact ==
    ASSUME TypeOK, NEW s \in Sessions, NEW r \in Runs
    PROVE  /\ CountsOf(s, r) \in [Results -> Nat]
           /\ \A x \in Results : CountsOf(s, r)[x] = 0 =>
                 OfResult(SeenObservations(s, r), x) = {}
<1>1. IsFiniteSet(observations \cup inserted[s])
  BY FS_Union DEF TypeOK
<1>2. IsFiniteSet(SeenObservations(s, r))
  BY <1>1, FS_Subset DEF SeenObservations
<1>3. ASSUME NEW x \in Results
      PROVE IsFiniteSet(OfResult(SeenObservations(s, r), x))
  BY <1>2, FS_Subset DEF OfResult
<1>4. ASSUME NEW x \in Results
      PROVE /\ Cardinality(OfResult(SeenObservations(s, r), x)) \in Nat
            /\ Cardinality(OfResult(SeenObservations(s, r), x)) = 0
                  => OfResult(SeenObservations(s, r), x) = {}
  BY <1>3, FS_CardinalityType, FS_EmptySet
<1>5. QED BY <1>4 DEF CountsOf

\* The rows and observations written by every statement are well typed.
LEMMA TypeStep == TypeOK /\ [Next]_vars => TypeOK'
<1> SUFFICES ASSUME TypeOK, [Next]_vars PROVE TypeOK'
  OBVIOUS
<1> USE DEF TypeOK
<1>0. \A s \in Sessions, r \in Runs : Seen(s, r) \in RunRow
  BY DEF Seen
<1>1. ASSUME NEW s \in Sessions, NEW r \in Runs, NEW source \in Sources,
             NEW p \in Runs \cup {Nobody}, InsertRun(s, r, source, p)
      PROVE TypeOK'
  <2>1. [status |-> "pending", source |-> source, restart |-> p,
         counts |-> ZeroCounts] \in RunRow
    BY DEF RunRow, Statuses, ZeroCounts
  <2>2. QED BY <1>1, <2>1 DEF InsertRun, Write
<1>2. ASSUME NEW s \in Sessions, NEW r \in Runs, StartRun(s, r)
      PROVE TypeOK'
  <2>1. [Seen(s, r) EXCEPT !.status = "running", !.counts = ZeroCounts] \in RunRow
    BY <1>0 DEF RunRow, Statuses, ZeroCounts
  <2>2. QED BY <1>2, <2>1 DEF StartRun, Write
<1>3. ASSUME NEW s \in Sessions, NEW r \in Runs, NEW outcome \in Terminal,
             CloseRun(s, r, outcome)
      PROVE TypeOK'
  <2>1. [Seen(s, r) EXCEPT !.status = outcome, !.counts = CountsOf(s, r)] \in RunRow
    BY <1>0, CountsAreExact DEF RunRow, Statuses
  <2>2. QED BY <1>3, <2>1 DEF CloseRun, Write
<1>4. ASSUME NEW s \in Sessions, NEW r \in Runs, NEW x \in Results,
             NEW a \in Artifacts \cup {Nobody}, ObserveArtifact(s, r, x, a)
      PROVE TypeOK'
  <2> DEFINE o == [id |-> nextId, run |-> r, result |-> x, artifact |-> a]
  <2>1. o \in Observation
    BY DEF Observation
  <2>2. IsFiniteSet(inserted[s] \cup {o})
    BY FS_AddElement
  <2>3. QED BY <1>0, <1>4, <2>1, <2>2 DEF ObserveArtifact, Write
<1>5. ASSUME NEW s \in Sessions, Commit(s) PROVE TypeOK'
  <2>1. IsFiniteSet(observations \cup inserted[s])
    BY FS_Union
  <2>2. QED BY <1>5, <2>1, FS_EmptySet DEF Commit, Release
<1>6. ASSUME NEW s \in Sessions, Abort(s) PROVE TypeOK'
  BY <1>6, FS_EmptySet DEF Abort, Release
<1>7. CASE UNCHANGED vars
  BY <1>7 DEF vars
<1>8. QED BY <1>1, <1>2, <1>3, <1>4, <1>5, <1>6, <1>7 DEF Next

\* Every variable keeps its type (the table definitions and the triggers).
THEOREM TypeCorrect == Spec => []TypeOK
<1>1. Init => TypeOK
  BY NobodyAssumption, FS_EmptySet
  DEF Init, TypeOK, NoRow, RunRow, Statuses, ZeroCounts
<1>2. QED BY <1>1, TypeStep, PTL DEF Spec


-----------------------------------------------------------------------------

\* The lock invariants hold at first, when nothing is locked or inserted.
LEMMA InitIInv == Init => IInv
<1> SUFFICES ASSUME Init PROVE IInv
  OBVIOUS
<1>1. TypeOK
  BY NobodyAssumption, FS_EmptySet
  DEF Init, TypeOK, NoRow, RunRow, Statuses, ZeroCounts
<1>2. QED
  BY <1>1, NobodyAssumption
  DEF IInv, LockInv, Init, NoRow, Terminal, VersionsAgree, InsertedUnderLock,
      TerminalRunsAreClosed, WorkingCountersAreExact, TerminalCountersAreExact

\* A statement of session s on run r that inserts no observation: the row it
\* writes is terminal only with the counters s sees.
LEMMA RowWriteStep ==
    ASSUME IInv, NEW s \in Sessions, NEW r \in Runs, NEW row,
           Write(s, r, row), UNCHANGED <<committed, observations, inserted>>,
           LockFree(s, r), committed[r].status \notin Terminal,
           row.status \in Terminal => row.counts = CountsOf(s, r)
    PROVE  LockInv'
<1> USE DEF IInv, LockInv, Write, TypeOK
<1>1. VersionsAgree'
  BY NobodyAssumption DEF VersionsAgree
<1>2. InsertedUnderLock'
  BY NobodyAssumption DEF InsertedUnderLock, LockFree, Observation
<1>3. TerminalRunsAreClosed'
  BY DEF TerminalRunsAreClosed
<1>4. WorkingCountersAreExact'
  <2>1. \A s2 \in Sessions, r2 \in Runs : CountsOf(s2, r2)' = CountsOf(s2, r2)
    BY DEF CountsOf, SeenObservations
  <2>2. QED BY <2>1 DEF WorkingCountersAreExact
<1>5. TerminalCountersAreExact'
  BY DEF TerminalCountersAreExact, CommittedOf
<1>6. QED BY <1>1, <1>2, <1>3, <1>4, <1>5 DEF LockInv

\* A run a session may still write is not committed terminal.
LEMMA SeenActive ==
    ASSUME IInv, NEW s \in Sessions, NEW r \in Runs,
           Seen(s, r).status \notin Terminal
    PROVE  committed[r].status \notin Terminal
BY DEF IInv, LockInv, VersionsAgree, Seen

LEMMA ObserveStep ==
    ASSUME IInv, NEW s \in Sessions, NEW r \in Runs, NEW x \in Results,
           NEW a \in Artifacts \cup {Nobody}, ObserveArtifact(s, r, x, a)
    PROVE  LockInv'
<1> DEFINE new == [id |-> nextId, run |-> r, result |-> x, artifact |-> a]
<1> USE DEF IInv, LockInv, ObserveArtifact, Write, TypeOK
<1>0. Seen(s, r).status \notin Terminal /\ committed[r].status \notin Terminal
  BY SeenActive DEF Terminal
<1>1. VersionsAgree'
  BY <1>0, NobodyAssumption DEF VersionsAgree
<1>2. InsertedUnderLock'
  <2> SUFFICES ASSUME NEW s2 \in Sessions, NEW o \in inserted'[s2]
               PROVE  lockedBy'[o.run] = s2
    BY DEF InsertedUnderLock
  <2>1. CASE o \in inserted[s2]
    BY <2>1, NobodyAssumption DEF InsertedUnderLock, LockFree, Observation
  <2>2. CASE s2 = s /\ o = new
    BY <2>2
  <2>3. QED BY <2>1, <2>2
<1>3. TerminalRunsAreClosed'
  BY <1>0 DEF TerminalRunsAreClosed
<1>4. WorkingCountersAreExact'
  <2> SUFFICES ASSUME NEW s2 \in Sessions, NEW r2 \in Runs, lockedBy'[r2] = s2,
                      working'[r2].status \in Terminal
               PROVE  working'[r2].counts = CountsOf(s2, r2)'
    BY DEF WorkingCountersAreExact
  <2>1. r2 # r
    BY <1>0
  <2>2. SeenObservations(s2, r2)' = SeenObservations(s2, r2)
    BY <2>1 DEF SeenObservations
  <2>3. CountsOf(s2, r2)' = CountsOf(s2, r2)
    BY <2>2 DEF CountsOf
  <2>4. QED BY <2>1, <2>3 DEF WorkingCountersAreExact
<1>5. TerminalCountersAreExact'
  BY DEF TerminalCountersAreExact, CommittedOf
<1>6. QED BY <1>1, <1>2, <1>3, <1>4, <1>5 DEF LockInv

\* What a commit publishes of a run is what its session saw, if it holds the
\* run's lock, and nothing otherwise.
LEMMA CommitPublishes ==
    ASSUME IInv, NEW s \in Sessions, Commit(s), NEW r \in Runs
    PROVE  CommittedOf(r)' = IF lockedBy[r] = s THEN SeenObservations(s, r)
                                                ELSE CommittedOf(r)
<1>1. CommittedOf(r)' = {o \in observations \cup inserted[s] : o.run = r}
  BY DEF Commit, CommittedOf
<1>2. lockedBy[r] # s => \A o \in inserted[s] : o.run # r
  BY DEF IInv, LockInv, InsertedUnderLock
<1>3. QED BY <1>1, <1>2 DEF SeenObservations, CommittedOf

LEMMA CommitStep ==
    ASSUME IInv, NEW s \in Sessions, Commit(s)
    PROVE  LockInv'
<1> USE DEF IInv, LockInv, Commit, Release, TypeOK
<1>1. VersionsAgree'
  BY DEF VersionsAgree
<1>2. InsertedUnderLock'
  BY DEF InsertedUnderLock, Observation
<1>3. TerminalRunsAreClosed'
  BY DEF TerminalRunsAreClosed, InsertedUnderLock, Observation
<1>4. WorkingCountersAreExact'
  <2> SUFFICES ASSUME NEW s2 \in Sessions, NEW r \in Runs, lockedBy'[r] = s2,
                      working'[r].status \in Terminal
               PROVE  working'[r].counts = CountsOf(s2, r)'
    BY DEF WorkingCountersAreExact
  <2>1. s2 # s /\ lockedBy[r] = s2
    BY NobodyAssumption
  <2>2. \A o \in inserted[s] : o.run # r
    BY <2>1 DEF InsertedUnderLock
  <2>3. SeenObservations(s2, r)' = SeenObservations(s2, r)
    BY <2>1, <2>2 DEF SeenObservations
  <2>4. CountsOf(s2, r)' = CountsOf(s2, r)
    BY <2>3 DEF CountsOf
  <2>5. QED BY <2>1, <2>4 DEF WorkingCountersAreExact
<1>5. TerminalCountersAreExact'
  <2> SUFFICES ASSUME NEW r \in Runs, committed'[r].status \in Terminal,
                      NEW x \in Results
               PROVE  committed'[r].counts[x]
                         = Cardinality(OfResult(CommittedOf(r)', x))
    BY DEF TerminalCountersAreExact, OfResult
  <2>1. CASE lockedBy[r] = s
    <3>1. committed'[r].counts = CountsOf(s, r)
      BY <2>1 DEF WorkingCountersAreExact
    <3>2. QED BY <2>1, <3>1, CommitPublishes DEF CountsOf
  <2>2. CASE lockedBy[r] # s
    BY <2>2, CommitPublishes DEF TerminalCountersAreExact
  <2>3. QED BY <2>1, <2>2
<1>6. QED BY <1>1, <1>2, <1>3, <1>4, <1>5 DEF LockInv

LEMMA AbortStep ==
    ASSUME IInv, NEW s \in Sessions, Abort(s)
    PROVE  LockInv'
<1> USE DEF IInv, LockInv, Abort, Release, TypeOK
<1>1. VersionsAgree'
  BY DEF VersionsAgree
<1>2. InsertedUnderLock'
  BY DEF InsertedUnderLock, Observation
<1>3. TerminalRunsAreClosed'
  BY DEF TerminalRunsAreClosed
<1>4. WorkingCountersAreExact'
  <2> SUFFICES ASSUME NEW s2 \in Sessions, NEW r \in Runs, lockedBy'[r] = s2,
                      working'[r].status \in Terminal
               PROVE  working'[r].counts = CountsOf(s2, r)'
    BY DEF WorkingCountersAreExact
  <2>1. s2 # s /\ lockedBy[r] = s2
    BY NobodyAssumption
  <2>2. CountsOf(s2, r)' = CountsOf(s2, r)
    BY <2>1 DEF CountsOf, SeenObservations
  <2>3. QED BY <2>1, <2>2 DEF WorkingCountersAreExact
<1>5. TerminalCountersAreExact'
  BY DEF TerminalCountersAreExact, CommittedOf
<1>6. QED BY <1>1, <1>2, <1>3, <1>4, <1>5 DEF LockInv

LEMMA IInvStep == IInv /\ [Next]_vars => IInv'
<1> SUFFICES ASSUME IInv, [Next]_vars PROVE IInv'
  OBVIOUS
<1>0. TypeOK'
  BY TypeStep DEF IInv
<1>1. ASSUME NEW s \in Sessions, NEW r \in Runs, NEW source \in Sources,
             NEW p \in Runs \cup {Nobody}, InsertRun(s, r, source, p)
      PROVE LockInv'
  BY <1>1, RowWriteStep DEF InsertRun, LockFree, Terminal
<1>2. ASSUME NEW s \in Sessions, NEW r \in Runs, StartRun(s, r)
      PROVE LockInv'
  <2>1. Seen(s, r) \in RunRow
    BY DEF IInv, TypeOK, Seen
  <2>2. [Seen(s, r) EXCEPT !.status = "running", !.counts = ZeroCounts].status = "running"
    BY <2>1 DEF RunRow
  <2>3. QED BY <1>2, <2>2, RowWriteStep, SeenActive DEF StartRun, Terminal
<1>3. ASSUME NEW s \in Sessions, NEW r \in Runs, NEW outcome \in Terminal,
             CloseRun(s, r, outcome)
      PROVE LockInv'
  <2>1. Seen(s, r) \in RunRow
    BY DEF IInv, TypeOK, Seen
  <2>2. [Seen(s, r) EXCEPT !.status = outcome, !.counts = CountsOf(s, r)].counts
           = CountsOf(s, r)
    BY <2>1 DEF RunRow
  <2>3. QED BY <1>3, <2>2, RowWriteStep, SeenActive DEF CloseRun, Terminal
<1>4. ASSUME NEW s \in Sessions, NEW r \in Runs, NEW x \in Results,
             NEW a \in Artifacts \cup {Nobody}, ObserveArtifact(s, r, x, a)
      PROVE LockInv'
  BY <1>4, ObserveStep
<1>5. ASSUME NEW s \in Sessions, Commit(s) PROVE LockInv'
  BY <1>5, CommitStep
<1>6. ASSUME NEW s \in Sessions, Abort(s) PROVE LockInv'
  BY <1>6, AbortStep
<1>7. ASSUME UNCHANGED vars PROVE LockInv'
  <2>1. /\ \A s \in Sessions, r \in Runs : CountsOf(s, r)' = CountsOf(s, r)
        /\ \A r \in Runs : CommittedOf(r)' = CommittedOf(r)
    BY <1>7 DEF vars, CountsOf, SeenObservations, CommittedOf
  <2>2. WorkingCountersAreExact' /\ TerminalCountersAreExact'
    BY <1>7, <2>1
    DEF vars, IInv, LockInv, WorkingCountersAreExact, TerminalCountersAreExact, OfResult
  <2>3. VersionsAgree' /\ InsertedUnderLock' /\ TerminalRunsAreClosed'
    BY <1>7
    DEF vars, IInv, LockInv, VersionsAgree, InsertedUnderLock, TerminalRunsAreClosed
  <2>4. QED BY <2>2, <2>3 DEF LockInv
<1>8. LockInv'
  BY <1>1, <1>2, <1>3, <1>4, <1>5, <1>6, <1>7 DEF Next
<1>9. QED BY <1>0, <1>8 DEF IInv

LEMMA Invariance == Spec => []IInv
<1>1. QED BY InitIInv, IInvStep, PTL DEF Spec

\* The row lock makes the terminal counters exact for every number of
\* concurrent sessions.
THEOREM CountersExact == Spec => []TerminalCountersAreExact
<1>1. IInv => TerminalCountersAreExact
  BY DEF IInv, LockInv
<1>2. QED BY <1>1, Invariance, PTL

\* No interleaving changes a terminal run or adds an observation to it.
THEOREM TerminalFrozen == Spec => TerminalRunsAreFrozen
<1> DEFINE Frozen == \A r \in Runs : committed[r].status \in Terminal =>
                        /\ committed'[r] = committed[r]
                        /\ CommittedOf(r)' = CommittedOf(r)
<1>1. IInv /\ [Next]_vars => [Frozen]_vars
  <2> SUFFICES ASSUME IInv, Next, NEW r \in Runs, committed[r].status \in Terminal
               PROVE  committed'[r] = committed[r] /\ CommittedOf(r)' = CommittedOf(r)
    OBVIOUS
  <2>1. CASE UNCHANGED <<committed, observations>>
    BY <2>1 DEF CommittedOf
  <2>2. ASSUME NEW s \in Sessions, Commit(s)
        PROVE committed'[r] = committed[r] /\ CommittedOf(r)' = CommittedOf(r)
    <3>1. committed'[r] = committed[r]
      BY <2>2 DEF Commit, IInv, LockInv, VersionsAgree, TypeOK
    <3>2. \A o \in inserted[s] : o.run # r
      BY DEF IInv, LockInv, TerminalRunsAreClosed
    <3>3. CommittedOf(r)' = CommittedOf(r)
      BY <2>2, <3>2 DEF Commit, CommittedOf
    <3>4. QED BY <3>1, <3>3
  <2>3. QED
    BY <2>1, <2>2 DEF Next, InsertRun, StartRun, CloseRun, ObserveArtifact, Abort
<1>2. QED BY <1>1, Invariance, PTL DEF Spec, TerminalRunsAreFrozen

-----------------------------------------------------------------------------
(* no_change                                                               *)

\* The CHECK on no_change, of every version of every row.
NoChangeHasNoNewOrRevised ==
    \A r \in Runs : \A row \in {committed[r], working[r]} :
        row.status = "no_change" => row.counts["new"] = 0 /\ row.counts["revised"] = 0

LEMMA NoChangeStep ==
    ASSUME TypeOK, NoChangeHasNoNewOrRevised, [Next]_vars
    PROVE  NoChangeHasNoNewOrRevised'
<1> USE DEF NoChangeHasNoNewOrRevised
<1>1. ASSUME NEW s \in Sessions, NEW r \in Runs, NEW row, Write(s, r, row),
             UNCHANGED committed,
             row.status = "no_change" =>
                row.counts["new"] = 0 /\ row.counts["revised"] = 0
      PROVE  NoChangeHasNoNewOrRevised'
  BY <1>1 DEF Write, TypeOK
<1>2. ASSUME NEW s \in Sessions, NEW r \in Runs
      PROVE  Seen(s, r) \in RunRow /\ Seen(s, r) \in {committed[r], working[r]}
  BY DEF Seen, TypeOK
<1>3. ASSUME NEW s \in Sessions, NEW r \in Runs, NEW source \in Sources,
             NEW p \in Runs \cup {Nobody}, InsertRun(s, r, source, p)
      PROVE  NoChangeHasNoNewOrRevised'
  BY <1>3, <1>1 DEF InsertRun
<1>4. ASSUME NEW s \in Sessions, NEW r \in Runs, StartRun(s, r)
      PROVE  NoChangeHasNoNewOrRevised'
  <2>1. [Seen(s, r) EXCEPT !.status = "running", !.counts = ZeroCounts].status # "no_change"
    BY <1>2 DEF RunRow
  <2>2. QED BY <1>4, <2>1, <1>1 DEF StartRun
<1>5. ASSUME NEW s \in Sessions, NEW r \in Runs, NEW outcome \in Terminal,
             CloseRun(s, r, outcome)
      PROVE  NoChangeHasNoNewOrRevised'
  <2> DEFINE row == [Seen(s, r) EXCEPT !.status = outcome, !.counts = CountsOf(s, r)]
  <2>1. row.status = outcome /\ row.counts = CountsOf(s, r)
    BY <1>2 DEF RunRow
  <2>2. row.status = "no_change" => row.counts["new"] = 0 /\ row.counts["revised"] = 0
    BY <1>5, <2>1 DEF CloseRun
  <2>3. Write(s, r, row) /\ UNCHANGED committed
    BY <1>5 DEF CloseRun
  <2> HIDE DEF row
  <2>4. QED BY <2>2, <2>3, <1>1
<1>6. ASSUME NEW s \in Sessions, NEW r \in Runs, NEW x \in Results,
             NEW a \in Artifacts \cup {Nobody}, ObserveArtifact(s, r, x, a)
      PROVE  NoChangeHasNoNewOrRevised'
  BY <1>6, <1>1, <1>2 DEF ObserveArtifact
<1>7. ASSUME NEW s \in Sessions, Commit(s) \/ Abort(s)
      PROVE  NoChangeHasNoNewOrRevised'
  BY <1>7 DEF Commit, Abort, TypeOK
<1>8. CASE UNCHANGED vars
  BY <1>8 DEF vars
<1>9. QED BY <1>3, <1>4, <1>5, <1>6, <1>7, <1>8 DEF Next

\* A run that reports no change has no new and no revised observation, however
\* its sessions interleave (ingestion_runs_no_change_has_no_new_or_revised and
\* the counters of the closing trigger together).
THEOREM NoChangeIsNoEvidence == Spec => []NoChangeMeansNoEvidence
<1>1. Init => NoChangeHasNoNewOrRevised
  BY DEF Init, NoRow, NoChangeHasNoNewOrRevised
<1>2. IInv /\ NoChangeHasNoNewOrRevised => NoChangeMeansNoEvidence
  <2> SUFFICES ASSUME IInv, NoChangeHasNoNewOrRevised, NEW o \in observations,
                      committed[o.run].status = "no_change",
                      o.result \in {"new", "revised"}
               PROVE  FALSE
    BY DEF NoChangeMeansNoEvidence, IInv, TypeOK, Observation, Results
  <2>1. o.run \in Runs /\ o.result \in Results
    BY DEF IInv, TypeOK, Observation
  <2>2. Cardinality(OfResult(CommittedOf(o.run), o.result)) = 0
    BY <2>1 DEF IInv, LockInv, TerminalCountersAreExact, Terminal,
       NoChangeHasNoNewOrRevised
  <2>3. IsFiniteSet(OfResult(CommittedOf(o.run), o.result))
    BY FS_Subset DEF IInv, TypeOK, OfResult, CommittedOf
  <2>4. OfResult(CommittedOf(o.run), o.result) = {}
    BY <2>2, <2>3, FS_EmptySet
  <2>5. QED BY <2>4 DEF OfResult, CommittedOf
<1>3. IInv /\ NoChangeHasNoNewOrRevised /\ [Next]_vars => NoChangeHasNoNewOrRevised'
  BY NoChangeStep DEF IInv
<1>4. QED BY <1>1, <1>2, <1>3, Invariance, PTL DEF Spec

-----------------------------------------------------------------------------
(* Restarts.  A session checks its predecessor in its own view, where it    *)
(* may itself have closed it without committing, and without a lock on it.  *)

AbsentRestartsNothing ==
    \A r \in Runs : \A row \in {committed[r], working[r]} :
        row.status = "absent" => row.restart = Nobody

Acyclic(rows) ==
    \A C \in SUBSET Runs : C # {} => \E r \in C : rows[r].restart \notin C

\* A restart, once committed, is the restart of every version of the row.
RestartIsKept ==
    \A r \in Runs : committed[r].restart # Nobody =>
        working[r].restart = committed[r].restart

CommittedRestarts ==
    \A r \in Runs : committed[r].restart # Nobody =>
        LET p == committed[committed[r].restart] IN
        p.status = "failed" /\ p.source = committed[r].source

\* A session that holds a restart sees the predecessor it checked.
UncommittedRestarts ==
    \A s \in Sessions, r \in Runs, p \in Runs :
        lockedBy[r] = s /\ working[r].restart = p =>
            Seen(s, p).status = "failed" /\ Seen(s, p).source = working[r].source

RestartInv ==
    /\ AbsentRestartsNothing
    /\ RestartIsKept
    /\ CommittedRestarts
    /\ UncommittedRestarts
    /\ Acyclic(working)

\* Rows that lose restarts, or keep them, close no cycle.
LEMMA FewerRestarts ==
    ASSUME NEW rows, NEW rows2, Acyclic(rows),
           \A r \in Runs : rows2[r].restart \in {Nobody, rows[r].restart}
    PROVE  Acyclic(rows2)
<1> SUFFICES ASSUME NEW C \in SUBSET Runs, C # {}
             PROVE  \E r \in C : rows2[r].restart \notin C
  BY DEF Acyclic
<1>1. PICK r \in C : rows[r].restart \notin C
  BY DEF Acyclic
<1>2. QED BY <1>1, NobodyAssumption

\* A statement on a run that is neither absent nor failed, and keeps its
\* source and its restart.
LEMMA UpdateKeepsRestarts ==
    ASSUME IInv, RestartInv, NEW s \in Sessions, NEW r \in Runs, NEW row,
           Write(s, r, row), UNCHANGED committed, LockFree(s, r),
           Seen(s, r).status \notin {"absent", "failed"}, row.status # "absent",
           row.restart = Seen(s, r).restart, row.source = Seen(s, r).source
    PROVE  RestartInv'
<1> USE DEF IInv, TypeOK, RestartInv
<1>1. /\ Seen(s, r) = working[r]
      /\ lockedBy[r] \in {s, Nobody} /\ Nobody \notin Sessions
      /\ lockedBy[r] = Nobody => working[r] = committed[r]
  BY NobodyAssumption DEF LockInv, VersionsAgree, Seen, LockFree
<1>2. /\ \A q \in Runs \ {r} : working'[q] = working[q] /\ lockedBy'[q] = lockedBy[q]
      /\ working'[r] = row /\ lockedBy'[r] = s /\ committed' = committed
  BY DEF Write
<1>3. /\ AbsentRestartsNothing' /\ RestartIsKept'
      /\ CommittedRestarts'
  BY <1>1, <1>2 DEF AbsentRestartsNothing, RestartIsKept, CommittedRestarts
<1>4. Acyclic(working)'
  <2>1. Acyclic(working')
    BY <1>1, <1>2, FewerRestarts
  <2>2. QED BY <2>1 DEF Acyclic
<1>5. UncommittedRestarts'
  <2> SUFFICES ASSUME NEW s2 \in Sessions, NEW q \in Runs, NEW p \in Runs,
                      lockedBy'[q] = s2, working'[q].restart = p
               PROVE  /\ Seen(s2, p)'.status = "failed"
                      /\ Seen(s2, p)'.source = working'[q].source
    BY DEF UncommittedRestarts, Seen
  <2>1. working[q].restart = p /\ working'[q].source = working[q].source
    BY <1>1, <1>2 DEF RunRow
  <2>2. /\ Seen(s2, p).status = "failed"
        /\ Seen(s2, p).source = working[q].source
    <3>1. CASE lockedBy[q] = s2
      BY <2>1, <3>1 DEF UncommittedRestarts
    <3>2. CASE lockedBy[q] # s2
      <4>1. q = r /\ s2 = s /\ lockedBy[r] = Nobody /\ working[q] = committed[q]
        BY <1>1, <1>2, <3>2
      <4>2. committed[p].status = "failed" /\ committed[p].source = working[q].source
        BY <2>1, <4>1, NobodyAssumption DEF CommittedRestarts
      <4>3. working[p] = committed[p]
        BY <2>1, <4>2 DEF LockInv, VersionsAgree, Terminal
      <4>4. QED BY <4>2, <4>3 DEF Seen
    <3>3. QED BY <3>1, <3>2
  <2>3. Seen(s2, p)' = Seen(s2, p)
    <3>1. CASE p # r
      BY <1>2, <2>1, <3>1 DEF Seen
    <3>2. CASE p = r /\ s2 # s
      BY <1>1, <1>2, <3>2 DEF Seen
    <3>3. CASE p = r /\ s2 = s
      BY <2>2, <3>3
    <3>4. QED BY <3>1, <3>2, <3>3
  <2>4. QED BY <2>1, <2>2, <2>3
<1>6. QED BY <1>3, <1>4, <1>5

LEMMA InsertKeepsRestarts ==
    ASSUME IInv, RestartInv, NEW s \in Sessions, NEW r \in Runs, NEW source \in Sources,
           NEW p \in Runs \cup {Nobody}, InsertRun(s, r, source, p)
    PROVE  RestartInv'
<1> DEFINE row == [status |-> "pending", source |-> source, restart |-> p,
                   counts |-> ZeroCounts]
<1> USE DEF IInv, TypeOK, RestartInv
<1>1. /\ lockedBy[r] = Nobody /\ Nobody \notin Sessions /\ Nobody \notin Runs
      /\ committed[r].status = "absent" /\ working[r] = committed[r]
      /\ committed[r].restart = Nobody
  BY NobodyAssumption
  DEF InsertRun, LockInv, VersionsAgree, AbsentRestartsNothing
<1>2. /\ \A q \in Runs \ {r} : working'[q] = working[q] /\ lockedBy'[q] = lockedBy[q]
      /\ working'[r] = row /\ lockedBy'[r] = s /\ committed' = committed
  BY DEF InsertRun, Write
<1>3. p # Nobody => /\ p # r
                    /\ Seen(s, p).status = "failed" /\ Seen(s, p).source = source
  BY <1>1 DEF InsertRun, Seen
<1>4. \A s2 \in Sessions : Seen(s2, r).status = "absent"
  BY <1>1 DEF Seen
<1>5. \A q \in Runs : working[q].restart # r
  <2> SUFFICES ASSUME NEW q \in Runs, working[q].restart = r PROVE FALSE
    OBVIOUS
  <2>1. CASE lockedBy[q] \in Sessions
    BY <1>1, <1>4, <2>1 DEF UncommittedRestarts
  <2>2. CASE lockedBy[q] = Nobody
    BY <1>1, <2>2 DEF CommittedRestarts, LockInv, VersionsAgree
  <2>3. QED BY <2>1, <2>2
<1>6. AbsentRestartsNothing' /\ RestartIsKept' /\ CommittedRestarts'
  BY <1>1, <1>2 DEF AbsentRestartsNothing, RestartIsKept, CommittedRestarts
<1>7. UncommittedRestarts'
  <2> SUFFICES ASSUME NEW s2 \in Sessions, NEW q \in Runs, NEW x \in Runs,
                      lockedBy'[q] = s2, working'[q].restart = x
               PROVE  /\ Seen(s2, x)'.status = "failed"
                      /\ Seen(s2, x)'.source = working'[q].source
    BY DEF UncommittedRestarts, Seen
  <2>1. x # r
    BY <1>1, <1>2, <1>3, <1>5
  <2>2. Seen(s2, x)' = Seen(s2, x)
    BY <1>2, <2>1 DEF Seen
  <2>3. CASE q = r
    BY <1>1, <1>2, <1>3, <2>2, <2>3
  <2>4. CASE q # r
    BY <1>2, <2>2, <2>4 DEF UncommittedRestarts
  <2>5. QED BY <2>3, <2>4
<1>8. Acyclic(working)'
  <2> SUFFICES ASSUME NEW C \in SUBSET Runs, C # {}
               PROVE  \E q \in C : working'[q].restart \notin C
    BY DEF Acyclic
  <2>1. CASE C \subseteq {r}
    BY <1>2, <1>3, <1>1, <2>1
  <2>2. CASE ~ (C \subseteq {r})
    <3>1. PICK q \in C \ {r} : working[q].restart \notin C \ {r}
      BY <2>2 DEF Acyclic
    <3>2. QED BY <1>2, <1>5, <3>1
  <2>3. QED BY <2>1, <2>2
<1>9. QED BY <1>6, <1>7, <1>8

LEMMA CommitKeepsRestarts ==
    ASSUME IInv, RestartInv, NEW s \in Sessions, Commit(s)
    PROVE  RestartInv'
<1> USE DEF IInv, TypeOK, RestartInv
<1>1. /\ \A q \in Runs : committed'[q] = Seen(s, q)
      /\ \A q \in Runs : lockedBy'[q] = IF lockedBy[q] = s THEN Nobody ELSE lockedBy[q]
      /\ working' = working /\ Nobody \notin Sessions /\ Nobody \notin Runs
  BY NobodyAssumption DEF Commit, Release, Seen
<1>2. \A q \in Runs : committed[q].status = "failed" =>
          committed'[q] = committed[q] /\ working[q] = committed[q]
  BY <1>1 DEF LockInv, VersionsAgree, Terminal, Seen
<1>3. AbsentRestartsNothing' /\ RestartIsKept'
  BY <1>1 DEF AbsentRestartsNothing, RestartIsKept, Seen
<1>4. CommittedRestarts'
  <2> SUFFICES ASSUME NEW q \in Runs, committed'[q].restart # Nobody
               PROVE  /\ committed'[committed'[q].restart].status = "failed"
                      /\ committed'[committed'[q].restart].source = committed'[q].source
    BY DEF CommittedRestarts
  <2>1. Seen(s, q).restart \in Runs /\ committed'[q] = Seen(s, q)
    BY <1>1 DEF Seen, RunRow
  <2>2. CASE lockedBy[q] = s
    BY <1>1, <2>1, <2>2 DEF UncommittedRestarts, Seen
  <2>3. CASE lockedBy[q] # s
    <3>1. committed'[q] = committed[q]
      BY <2>1, <2>3 DEF Seen
    <3>2. QED BY <1>2, <2>1, <3>1 DEF CommittedRestarts
  <2>4. QED BY <2>2, <2>3
<1>5. UncommittedRestarts'
  <2> SUFFICES ASSUME NEW s2 \in Sessions, NEW q \in Runs, NEW p \in Runs,
                      lockedBy'[q] = s2, working[q].restart = p
               PROVE  /\ Seen(s2, p)'.status = "failed"
                      /\ Seen(s2, p)'.source = working[q].source
    BY <1>1 DEF UncommittedRestarts, Seen
  <2>1. lockedBy[q] = s2 /\ s2 # s
    BY <1>1
  <2>2. Seen(s2, p).status = "failed" /\ Seen(s2, p).source = working[q].source
    BY <2>1 DEF UncommittedRestarts
  <2>3. Seen(s2, p)' = Seen(s2, p)
    BY <1>1, <1>2, <2>1, <2>2 DEF Seen
  <2>4. QED BY <2>2, <2>3
<1>6. Acyclic(working)'
  BY <1>1 DEF Acyclic
<1>7. QED BY <1>3, <1>4, <1>5, <1>6

LEMMA AbortKeepsRestarts ==
    ASSUME IInv, RestartInv, NEW s \in Sessions, Abort(s)
    PROVE  RestartInv'
<1> USE DEF IInv, TypeOK, RestartInv
<1>1. /\ \A q \in Runs : working'[q] = IF lockedBy[q] = s THEN committed[q] ELSE working[q]
      /\ \A q \in Runs : lockedBy'[q] = IF lockedBy[q] = s THEN Nobody ELSE lockedBy[q]
      /\ committed' = committed /\ Nobody \notin Sessions
  BY NobodyAssumption DEF Abort, Release
<1>2. AbsentRestartsNothing' /\ RestartIsKept' /\ CommittedRestarts'
  BY <1>1 DEF AbsentRestartsNothing, RestartIsKept, CommittedRestarts
<1>3. UncommittedRestarts'
  <2> SUFFICES ASSUME NEW s2 \in Sessions, NEW q \in Runs, NEW p \in Runs,
                      lockedBy'[q] = s2, working'[q].restart = p
               PROVE  /\ Seen(s2, p)'.status = "failed"
                      /\ Seen(s2, p)'.source = working'[q].source
    BY DEF UncommittedRestarts, Seen
  <2>1. lockedBy[q] = s2 /\ s2 # s /\ working'[q] = working[q]
    BY <1>1
  <2>2. Seen(s2, p)' = Seen(s2, p)
    BY <1>1, <2>1 DEF Seen
  <2>3. QED BY <2>1, <2>2 DEF UncommittedRestarts
<1>4. Acyclic(working)'
  <2>1. \A q \in Runs : working'[q].restart \in {Nobody, working[q].restart}
    BY <1>1 DEF RestartIsKept
  <2>2. Acyclic(working')
    BY <2>1, FewerRestarts
  <2>3. QED BY <2>2 DEF Acyclic
<1>5. QED BY <1>2, <1>3, <1>4

LEMMA RestartStep == IInv /\ RestartInv /\ [Next]_vars => RestartInv'
<1> SUFFICES ASSUME IInv, RestartInv, [Next]_vars PROVE RestartInv'
  OBVIOUS
<1>0. ASSUME NEW s \in Sessions, NEW r \in Runs PROVE Seen(s, r) \in RunRow
  BY DEF IInv, TypeOK, Seen
<1>1. ASSUME NEW s \in Sessions, NEW r \in Runs, NEW source \in Sources,
             NEW p \in Runs \cup {Nobody}, InsertRun(s, r, source, p)
      PROVE RestartInv'
  BY <1>1, InsertKeepsRestarts
<1>2. ASSUME NEW s \in Sessions, NEW r \in Runs, StartRun(s, r)
      PROVE RestartInv'
  <2> DEFINE row == [Seen(s, r) EXCEPT !.status = "running", !.counts = ZeroCounts]
  <2>1. row.status = "running" /\ row.restart = Seen(s, r).restart
        /\ row.source = Seen(s, r).source
    BY <1>0 DEF RunRow
  <2>2. Write(s, r, row) /\ LockFree(s, r) /\ Seen(s, r).status = "pending"
        /\ UNCHANGED committed
    BY <1>2 DEF StartRun
  <2> HIDE DEF row
  <2>3. QED BY <2>1, <2>2, UpdateKeepsRestarts
<1>3. ASSUME NEW s \in Sessions, NEW r \in Runs, NEW outcome \in Terminal,
             CloseRun(s, r, outcome)
      PROVE RestartInv'
  <2> DEFINE row == [Seen(s, r) EXCEPT !.status = outcome, !.counts = CountsOf(s, r)]
  <2>1. row.status = outcome /\ row.restart = Seen(s, r).restart
        /\ row.source = Seen(s, r).source
    BY <1>0 DEF RunRow
  <2>2. Write(s, r, row) /\ LockFree(s, r) /\ Seen(s, r).status = "running"
        /\ UNCHANGED committed /\ outcome # "absent"
    BY <1>3 DEF CloseRun, Terminal
  <2> HIDE DEF row
  <2>3. QED BY <2>1, <2>2, UpdateKeepsRestarts
<1>4. ASSUME NEW s \in Sessions, NEW r \in Runs, NEW x \in Results,
             NEW a \in Artifacts \cup {Nobody}, ObserveArtifact(s, r, x, a)
      PROVE RestartInv'
  BY <1>4, UpdateKeepsRestarts DEF ObserveArtifact
<1>5. ASSUME NEW s \in Sessions, Commit(s) PROVE RestartInv'
  BY <1>5, CommitKeepsRestarts
<1>6. ASSUME NEW s \in Sessions, Abort(s) PROVE RestartInv'
  BY <1>6, AbortKeepsRestarts
<1>7. CASE UNCHANGED vars
  BY <1>7 DEF vars, RestartInv, AbsentRestartsNothing, RestartIsKept, CommittedRestarts,
     UncommittedRestarts, Acyclic, Seen
<1>8. QED BY <1>1, <1>2, <1>3, <1>4, <1>5, <1>6, <1>7 DEF Next

\* Restarts name failed runs of their own source and close no cycle, whoever
\* commits or rolls back first (lineage check of the insert trigger).
THEOREM RestartsAreSound == Spec => []RestartLineageIsSound
<1>1. Init => RestartInv
  <2> SUFFICES ASSUME Init PROVE RestartInv
    OBVIOUS
  <2>1. \A r \in Runs : committed[r].restart = Nobody /\ working[r].restart = Nobody
                        /\ lockedBy[r] = Nobody
    BY DEF Init, NoRow
  <2>2. QED
    BY <2>1, NobodyAssumption
    DEF RestartInv, AbsentRestartsNothing, RestartIsKept, CommittedRestarts,
        UncommittedRestarts, Acyclic
<1>2. RestartInv => RestartLineageIsSound
  <2> SUFFICES ASSUME RestartInv PROVE RestartLineageIsSound
    OBVIOUS
  <2>1. Acyclic(committed)
    BY FewerRestarts DEF RestartInv, RestartIsKept
  <2>2. QED BY <2>1 DEF RestartInv, CommittedRestarts, Acyclic, RestartLineageIsSound
<1>3. QED BY <1>1, <1>2, RestartStep, Invariance, PTL DEF Spec
=============================================================================
