----------------------- MODULE ReviewDecisionsProofs -----------------------
(***************************************************************************)
(* Proofs about ReviewDecisions: for any number of sessions and facts the  *)
(* advisory lock makes the concurrent log implement the append-only        *)
(* timeline of ReviewTimeline.                                             *)
(***************************************************************************)
EXTENDS ReviewDecisions, TLAPS

\* Only the holder of a fact's lock has uncommitted events of it.
InsertedUnderLock ==
    \A s \in Sessions : \A e \in inserted[s] : lockedBy[e.fact] = s

\* Uncommitted events come after every committed event of their fact.
InsertedAfterEvents ==
    \A s \in Sessions : \A e \in inserted[s] :
        \A d \in Log!Timeline(events, e.fact) : Log!Before(d, e)

\* An uncommitted REVOKE stands on an ACCEPT its session sees.
InsertedRevokes ==
    \A s \in Sessions : \A e \in inserted[s] :
        Log!RevokesAcceptance(events \cup inserted[s], e)

LogInv ==
    /\ InsertedUnderLock
    /\ InsertedAfterEvents
    /\ InsertedRevokes
    /\ RevokeStandsOnAccept

IInv == TypeOK /\ LogInv

-----------------------------------------------------------------------------

\* Timeline order is strict.
LEMMA BeforeIsStrict ==
    ASSUME NEW d \in Event, NEW e \in Event, Log!Before(d, e)
    PROVE  ~ Log!Before(e, d)
BY DEF Log!Before, Event

\* What precedes e depends only on the events of its fact that are not later.
LEMMA EarlierUnchanged ==
    ASSUME NEW E \in SUBSET Event, NEW N \in SUBSET Event, NEW e \in Event,
           \A n \in N : n.fact = e.fact => Log!Before(e, n)
    PROVE  Log!Earlier(E \cup N, e) = Log!Earlier(E, e)
<1>1. \A n \in N : n.fact = e.fact => ~ Log!Before(n, e)
  BY BeforeIsStrict
<1>2. QED BY <1>1 DEF Log!Earlier, Log!Timeline

\* Later events and other facts' events leave a REVOKE standing where it was.
LEMMA RevokeUnchanged ==
    ASSUME NEW E \in SUBSET Event, NEW N \in SUBSET Event, NEW e \in Event,
           \A n \in N : n.fact = e.fact => Log!Before(e, n)
    PROVE  Log!RevokesAcceptance(E \cup N, e) <=> Log!RevokesAcceptance(E, e)
BY EarlierUnchanged DEF Log!RevokesAcceptance

-----------------------------------------------------------------------------

LEMMA TypeStep == TypeOK /\ [Next]_vars => TypeOK'
<1> SUFFICES ASSUME TypeOK, [Next]_vars PROVE TypeOK'
  OBVIOUS
<1> USE DEF TypeOK
<1>1. CASE Tick
  BY <1>1 DEF Tick
<1>2. ASSUME NEW s \in Sessions, NEW f \in Facts, NEW d \in Decisions,
             NEW at \in 1..MaxTime, NEW c \in 1..MaxId \cup {Nothing},
             Submit(s, f, d, at, c)
      PROVE TypeOK'
  <2>1. [fact |-> f, id |-> nextId, at |-> at, decision |-> d, corrects |-> c]
          \in Event
    BY BoundAssumption DEF Event
  <2>2. QED BY <1>2, <2>1 DEF Submit
<1>3. ASSUME NEW s \in Sessions, Decide(s) PROVE TypeOK'
  <2>1. request[s] \in Event
    BY <1>3 DEF Decide
  <2>2. request[s].fact \in Facts
    BY <2>1 DEF Event
  <2>3. QED BY <1>3, <2>1, <2>2 DEF Decide
<1>4. ASSUME NEW s \in Sessions, Commit(s) PROVE TypeOK'
  BY <1>4 DEF Commit, Release
<1>5. ASSUME NEW s \in Sessions, Abort(s) PROVE TypeOK'
  BY <1>5 DEF Abort, Release
<1>6. CASE UNCHANGED vars
  BY <1>6 DEF vars
<1>7. QED BY <1>1, <1>2, <1>3, <1>4, <1>5, <1>6 DEF Next

LEMMA InitIInv == Init => IInv
BY DEF Init, IInv, TypeOK, LogInv, InsertedUnderLock, InsertedAfterEvents,
       InsertedRevokes, RevokeStandsOnAccept

\* Every variable keeps its type.
THEOREM TypeCorrect == Spec => []TypeOK
<1>1. Init => TypeOK
  BY DEF Init, TypeOK
<1>2. QED BY <1>1, TypeStep, PTL DEF Spec

\* The trigger inserts at the end of a timeline nobody else may extend.
LEMMA DecideStep ==
    ASSUME IInv, NEW s \in Sessions, Decide(s)
    PROVE  LogInv'
<1> DEFINE e == request[s]
<1> USE DEF IInv, LogInv, TypeOK
<1>1. /\ e \in Event
      /\ LockFree(s, e.fact)
      /\ \A d \in Seen(s, e.fact) : Log!Before(d, e)
      /\ e.decision = "REVOKE" => Log!Effective(Seen(s, e.fact), e.fact) = "ACCEPT"
  BY DEF Decide, ExtendsTimeline
<1>2. /\ lockedBy' = [lockedBy EXCEPT ![e.fact] = s]
      /\ inserted' = [inserted EXCEPT ![s] = inserted[s] \cup {e}]
      /\ events' = events
  BY DEF Decide
<1>3. InsertedUnderLock'
  BY <1>1, <1>2, NothingAssumption DEF InsertedUnderLock, LockFree, Event
<1>4. InsertedAfterEvents'
  <2>1. \A d \in Log!Timeline(events, e.fact) : Log!Before(d, e)
    BY <1>1 DEF Seen, Log!Timeline
  <2>2. QED BY <1>2, <2>1 DEF InsertedAfterEvents
<1>5. InsertedRevokes'
  <2> SUFFICES ASSUME NEW s2 \in Sessions, NEW e2 \in inserted'[s2]
               PROVE  Log!RevokesAcceptance(events \cup inserted'[s2], e2)
    BY <1>2 DEF InsertedRevokes
  <2>1. CASE s2 # s
    BY <1>2, <2>1 DEF InsertedRevokes
  <2>2. CASE s2 = s /\ e2 \in inserted[s]
    <3>1. e2.fact = e.fact => Log!Before(e2, e)
      BY <1>1, <2>2 DEF Seen
    <3>2. Log!RevokesAcceptance(events \cup inserted[s], e2)
      BY <2>2 DEF InsertedRevokes
    <3>3. events \cup inserted'[s] = (events \cup inserted[s]) \cup {e}
      BY <1>2
    <3>4. Log!RevokesAcceptance((events \cup inserted[s]) \cup {e}, e2)
      BY <1>1, <2>2, <3>1, <3>2, RevokeUnchanged
    <3>5. QED BY <2>2, <3>3, <3>4
  <2>3. CASE s2 = s /\ e2 = e
    <3>1. Log!Earlier(events \cup inserted'[s], e) = Seen(s, e.fact)
      BY <1>1, <1>2, BeforeIsStrict DEF Log!Earlier, Log!Timeline, Seen
    <3>2. QED BY <1>1, <2>3, <3>1 DEF Log!RevokesAcceptance
  <2>4. QED BY <1>2, <2>1, <2>2, <2>3
<1>6. RevokeStandsOnAccept'
  BY <1>2 DEF RevokeStandsOnAccept
<1>7. QED BY <1>3, <1>4, <1>5, <1>6

\* A commit publishes at the end of its facts' timelines.
LEMMA CommitStep ==
    ASSUME IInv, NEW s \in Sessions, Commit(s)
    PROVE  LogInv' /\ Log!Extend
<1> USE DEF IInv, LogInv, TypeOK
<1>1. /\ events' = events \cup inserted[s]
      /\ inserted' = [inserted EXCEPT ![s] = {}]
      /\ lockedBy' = [f \in Facts |-> IF lockedBy[f] = s THEN Nothing ELSE lockedBy[f]]
  BY DEF Commit, Release
<1>2. ASSUME NEW s2 \in Sessions, s2 # s, NEW e \in inserted[s2], NEW d \in inserted[s]
      PROVE  d.fact # e.fact
  BY <1>2 DEF InsertedUnderLock
<1>3. InsertedUnderLock'
  BY <1>1 DEF InsertedUnderLock, Event
<1>4. InsertedAfterEvents'
  BY <1>1, <1>2 DEF InsertedAfterEvents, Log!Timeline
<1>5. InsertedRevokes'
  <2> SUFFICES ASSUME NEW s2 \in Sessions, NEW e \in inserted'[s2]
               PROVE  Log!RevokesAcceptance(events' \cup inserted'[s2], e)
    BY DEF InsertedRevokes
  <2>1. s2 # s /\ e \in inserted[s2] /\ inserted'[s2] = inserted[s2]
    BY <1>1
  <2>2. events' \cup inserted'[s2] = (events \cup inserted[s2]) \cup inserted[s]
    BY <1>1, <2>1
  <2>3. Log!RevokesAcceptance(events \cup inserted[s2], e)
    BY <2>1 DEF InsertedRevokes
  <2>4. QED BY <1>2, <2>1, <2>2, <2>3, RevokeUnchanged
<1>6. RevokeStandsOnAccept'
  <2> SUFFICES ASSUME NEW e \in events'
               PROVE  Log!RevokesAcceptance(events', e)
    BY DEF RevokeStandsOnAccept
  <2>1. CASE e \in events
    <3>1. \A n \in inserted[s] : n.fact = e.fact => Log!Before(e, n)
      BY <2>1 DEF InsertedAfterEvents, Log!Timeline
    <3>2. Log!RevokesAcceptance(events, e)
      BY <2>1 DEF RevokeStandsOnAccept
    <3>3. QED BY <1>1, <2>1, <3>1, <3>2, RevokeUnchanged
  <2>2. CASE e \in inserted[s]
    BY <1>1, <2>2 DEF InsertedRevokes
  <2>3. QED BY <1>1, <2>1, <2>2
<1>7. Log!Extend
  BY <1>1, <1>6 DEF Log!Extend, InsertedAfterEvents, RevokeStandsOnAccept
<1>8. QED BY <1>3, <1>4, <1>5, <1>6, <1>7

LEMMA NextStep == IInv /\ [Next]_vars => IInv' /\ [Log!Extend]_events
<1> SUFFICES ASSUME IInv, [Next]_vars PROVE IInv' /\ [Log!Extend]_events
  OBVIOUS
<1>0. TypeOK'
  BY TypeStep DEF IInv
<1>1. ASSUME UNCHANGED <<events, inserted, lockedBy>> PROVE LogInv'
  BY <1>1 DEF IInv, LogInv, InsertedUnderLock, InsertedAfterEvents,
              InsertedRevokes, RevokeStandsOnAccept
<1>2. ASSUME NEW s \in Sessions, Abort(s) PROVE LogInv' /\ UNCHANGED events
  BY <1>2 DEF Abort, Release, IInv, TypeOK, Event, LogInv, InsertedUnderLock,
              InsertedAfterEvents, InsertedRevokes, RevokeStandsOnAccept
<1>3. ASSUME NEW s \in Sessions, Decide(s) PROVE LogInv' /\ UNCHANGED events
  BY <1>3, DecideStep DEF Decide
<1>4. ASSUME NEW s \in Sessions, Commit(s) PROVE LogInv' /\ Log!Extend
  BY <1>4, CommitStep
<1>5. LogInv' /\ [Log!Extend]_events
  BY <1>1, <1>2, <1>3, <1>4 DEF Next, Tick, Submit, vars
<1>6. QED BY <1>0, <1>5 DEF IInv

LEMMA Invariance == Spec => []IInv
BY InitIInv, NextStep, PTL DEF Spec

\* No interleaving of concurrent decisions leaves a REVOKE that does not
\* directly follow an ACCEPT of its fact.
THEOREM RevokesAreSound == Spec => []RevokeStandsOnAccept
<1>1. IInv => RevokeStandsOnAccept
  BY DEF IInv, LogInv
<1>2. QED BY <1>1, Invariance, PTL

\* The concurrent log implements the abstract timeline: readers only ever
\* see events appended after what they saw before.
THEOREM LogIsTimeline == Spec => ImplementsTimeline
<1>1. Init => Log!Init
  BY DEF Init, Log!Init
<1>2. IInv /\ [Next]_vars => [Log!Extend]_events
  BY NextStep
<1>3. QED BY <1>1, <1>2, Invariance, PTL DEF Spec, ImplementsTimeline, Log!Spec

-----------------------------------------------------------------------------

\* A timeline has one head at most.
LEMMA HeadIsUnique ==
    ASSUME NEW E \in SUBSET Event, NEW d, NEW e,
           Log!IsHead(E, d), Log!IsHead(E, e), d.fact = e.fact
    PROVE  d = e
<1>1. d \in Event /\ e \in Event
  BY DEF Log!IsHead
<1>2. (d = e \/ Log!Before(d, e)) /\ (d = e \/ Log!Before(e, d))
  BY DEF Log!IsHead, Log!Timeline
<1>3. QED BY <1>1, <1>2, BeforeIsStrict

\* The decision in force is a matter of the fact's own timeline.
LEMMA EffectiveOfTimeline ==
    ASSUME NEW E \in SUBSET Event, NEW F \in SUBSET Event, NEW f,
           Log!Timeline(E, f) = Log!Timeline(F, f)
    PROVE  Log!Effective(E, f) = Log!Effective(F, f)
<1>1. ASSUME NEW e PROVE (e \in E /\ e.fact = f /\ Log!IsHead(E, e))
                     <=> (e \in F /\ e.fact = f /\ Log!IsHead(F, e))
  BY DEF Log!IsHead, Log!Timeline
<1> DEFINE InE(e) == e.fact = f /\ Log!IsHead(E, e)
           InF(e) == e.fact = f /\ Log!IsHead(F, e)
<1>2. CASE \E e \in E : InE(e)
  <2>1. \E e \in F : InF(e)
    BY <1>1, <1>2
  <2>2. InE(CHOOSE e \in E : InE(e))
    BY <1>2
  <2>3. InF(CHOOSE e \in F : InF(e)) /\ (CHOOSE e \in F : InF(e)) \in F
    BY <2>1
  <2>4. InE(CHOOSE e \in F : InF(e))
    BY <2>3, <1>1
  <2>5. (CHOOSE e \in E : InE(e)) = (CHOOSE e \in F : InF(e))
    BY <2>2, <2>4, HeadIsUnique
  <2>6. QED
    BY <1>2, <2>1, <2>5 DEF Log!Effective
<1>3. CASE ~ \E e \in E : InE(e)
  <2>1. ~ \E e \in F : InF(e)
    BY <1>1, <1>3
  <2>2. QED
    BY <1>3, <2>1 DEF Log!Effective
<1>4. QED
  BY <1>2, <1>3

\* A commit that extends the timelines decides nothing by an earlier cutoff.
LEMMA ExtensionIsLater ==
    ASSUME TypeOK, TypeOK', Log!Extend, NEW f \in Facts, NEW cutoff \in 0..MaxTime,
           \E e \in events : e.fact = f /\ e.at > cutoff
    PROVE  Log!EffectiveAsOf(events', f, cutoff) = Log!EffectiveAsOf(events, f, cutoff)
<1> DEFINE Old == Log!DecidedBy(events, cutoff)
           New == Log!DecidedBy(events', cutoff)
<1>1. Old \in SUBSET Event /\ New \in SUBSET Event
  BY DEF TypeOK, Log!DecidedBy
<1>2. PICK e \in events : e.fact = f /\ e.at > cutoff
  OBVIOUS
<1>3. ASSUME NEW n \in events' \ events, n.fact = f PROVE n.at > cutoff
  <2>1. Log!Before(e, n)
    BY <1>2, <1>3 DEF Log!Extend, Log!Timeline
  <2>2. n.at \in Nat /\ e.at \in Nat /\ cutoff \in Nat
    BY <1>2, BoundAssumption DEF TypeOK, Event
  <2>3. QED
    BY <1>2, <2>1, <2>2 DEF Log!Before
<1>4. ASSUME NEW n \in events' \ events, n.fact = f PROVE ~ n.at <= cutoff
  <2>1. n.at \in Nat /\ cutoff \in Nat
    BY BoundAssumption DEF TypeOK, Event
  <2>2. QED
    BY <1>3, <1>4, <2>1
<1>5. Log!Timeline(New, f) = Log!Timeline(Old, f)
  BY <1>4 DEF Log!Extend, Log!Timeline, Log!DecidedBy
<1>6. QED
  BY <1>1, <1>5, EffectiveOfTimeline DEF Log!EffectiveAsOf

\* Once a fact's head is later than a cutoff, what was in force then stays.
THEOREM PastSettled == Spec => PastIsSettled
<1>1. IInv /\ IInv' /\ [Log!Extend]_events =>
        [\A f \in Facts, cutoff \in 0..MaxTime :
            (\E e \in events : e.fact = f /\ e.at > cutoff) =>
               Log!EffectiveAsOf(events', f, cutoff)
                  = Log!EffectiveAsOf(events, f, cutoff)]_vars
  <2> SUFFICES ASSUME TypeOK, TypeOK', [Log!Extend]_events,
                      NEW f \in Facts, NEW cutoff \in 0..MaxTime,
                      \E e \in events : e.fact = f /\ e.at > cutoff
               PROVE  Log!EffectiveAsOf(events', f, cutoff)
                        = Log!EffectiveAsOf(events, f, cutoff)
    BY DEF IInv
  <2>1. CASE Log!Extend
    BY <2>1, ExtensionIsLater
  <2>2. CASE UNCHANGED events
    BY <2>2
  <2>3. QED
    BY <2>1, <2>2
<1>2. IInv /\ [Next]_vars => [Log!Extend]_events
  BY NextStep
<1>3. QED
  BY <1>1, <1>2, Invariance, PTL DEF Spec, PastIsSettled

-----------------------------------------------------------------------------

\* Uncommitted corrections point back, too, at an event their session sees.
InsertedPointBack ==
    \A s \in Sessions : \A e \in inserted[s] : e.corrects # Nothing =>
        \E d \in events \cup inserted[s] :
            d.id = e.corrects /\ d.fact = e.fact /\ Log!Before(d, e)

LEMMA CorrectionStep ==
    TypeOK /\ CorrectionsPointBack /\ InsertedPointBack /\ [Next]_vars
        => CorrectionsPointBack' /\ InsertedPointBack'
<1> SUFFICES ASSUME TypeOK, CorrectionsPointBack, InsertedPointBack, [Next]_vars
             PROVE  CorrectionsPointBack' /\ InsertedPointBack'
  OBVIOUS
<1> USE DEF CorrectionsPointBack, InsertedPointBack
<1>1. CASE UNCHANGED <<events, inserted>>
  BY <1>1
<1>2. ASSUME NEW s \in Sessions, Decide(s)
      PROVE  CorrectionsPointBack' /\ InsertedPointBack'
  <2>1. /\ events' = events
        /\ inserted' = [inserted EXCEPT ![s] = inserted[s] \cup {request[s]}]
    BY <1>2 DEF Decide
  <2>2. request[s].corrects # Nothing =>
          \E d \in events \cup inserted[s] :
             /\ d.id = request[s].corrects /\ d.fact = request[s].fact
             /\ Log!Before(d, request[s])
    BY <1>2 DEF Decide, CorrectionExists, ExtendsTimeline, Seen
  <2>3. QED
    BY <2>1, <2>2 DEF TypeOK
<1>3. ASSUME NEW s \in Sessions, Commit(s)
      PROVE  CorrectionsPointBack' /\ InsertedPointBack'
  BY <1>3 DEF Commit, TypeOK
<1>4. ASSUME NEW s \in Sessions, Abort(s)
      PROVE  CorrectionsPointBack' /\ InsertedPointBack'
  BY <1>4 DEF Abort, TypeOK
<1>5. QED
  BY <1>1, <1>2, <1>3, <1>4 DEF Next, Tick, Submit, vars

\* A correction that readers see names an earlier event of its own fact.
THEOREM CorrectionsAreBackward == Spec => []CorrectionsPointBack
<1>1. Init => CorrectionsPointBack /\ InsertedPointBack
  BY DEF Init, CorrectionsPointBack, InsertedPointBack
<1>2. QED
  BY <1>1, CorrectionStep, TypeCorrect, PTL DEF Spec
=============================================================================
