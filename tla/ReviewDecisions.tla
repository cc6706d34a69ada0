-------------------------- MODULE ReviewDecisions --------------------------
(***************************************************************************)
(* The review-decision log as sessions write it: an INSERT takes its id    *)
(* from the identity sequence and checks the clock first, then waits for   *)
(* the fact's advisory lock, then reads the head and checks the timeline;  *)
(* its row is visible to others when the transaction commits, which also   *)
(* frees the lock.  So ids may enter a timeline out of allocation order.   *)
(*                                                                         *)
(* The head is read by a new snapshot (READ COMMITTED, volatile trigger)   *)
(* after the lock is granted.  A raised exception, a lost connection and a *)
(* deadlock victim end in Abort, which leaves a gap in the sequence.       *)
(***************************************************************************)
EXTENDS Naturals, FiniteSets

CONSTANTS
    Sessions,  \* database connections of reviewers and policies
    Facts,     \* reported facts
    Nothing,   \* SQL null
    MaxId,     \* bound: ids the identity column hands out
    MaxTime    \* bound: the last value of the clock

ASSUME NothingAssumption == Nothing \notin Sessions \cup Facts \cup Nat
ASSUME BoundAssumption == MaxId \in Nat /\ MaxTime \in Nat

Decisions == {"ACCEPT", "REJECT", "REVOKE"}

Event == [fact : Facts, id : Nat, at : Nat, decision : Decisions,
          corrects : Nat \cup {Nothing}]

VARIABLES
    events,    \* committed rows of audit.review_decisions
    inserted,  \* each session's uncommitted rows
    request,   \* the INSERT a session is executing, or Nothing
    lockedBy,  \* the session that holds each fact's advisory lock
    nextId,    \* the identity sequence; it never rolls back
    clock      \* pg_catalog.clock_timestamp()

vars == <<events, inserted, request, lockedBy, nextId, clock>>

Log == INSTANCE ReviewTimeline

Init ==
    /\ events = {}
    /\ inserted = [s \in Sessions |-> {}]
    /\ request = [s \in Sessions |-> Nothing]
    /\ lockedBy = [f \in Facts |-> Nothing]
    /\ nextId = 1
    /\ clock = 1

-----------------------------------------------------------------------------

Tick ==
    /\ clock < MaxTime
    /\ clock' = clock + 1
    /\ UNCHANGED <<events, inserted, request, lockedBy, nextId>>

\* Mutant: the caller's null id is taken instead of the sequence's.
SubmitWithoutId(s, f, decision, at, corrects) ==
    /\ nextId <= MaxId
    /\ request[s] = Nothing
    /\ at <= clock
    /\ request' = [request EXCEPT ![s] =
          [fact |-> f, id |-> Nothing, at |-> at, decision |-> decision,
           corrects |-> corrects]]
    /\ nextId' = nextId + 1
    /\ UNCHANGED <<events, inserted, lockedBy, clock>>

\* The INSERT starts: the identity column is evaluated, then the BEFORE
\* trigger refuses a decision dated in the future.
Submit(s, f, decision, at, corrects) ==
    /\ nextId <= MaxId
    /\ request[s] = Nothing
    /\ at <= clock
    /\ request' = [request EXCEPT ![s] =
          [fact |-> f, id |-> nextId, at |-> at, decision |-> decision,
           corrects |-> corrects]]
    /\ nextId' = nextId + 1
    /\ UNCHANGED <<events, inserted, lockedBy, clock>>

\* The rows of f that session s sees: committed ones and its own.
Seen(s, f) == {e \in events \cup inserted[s] : e.fact = f}

\* Mutant: a tie on decided_at is let through whatever the ids.
ExtendsTimelineOrTies(S, e) == \A d \in S : d.at <= e.at

\* Mutant: the head is the row with the largest id.
ExtendsById(S, e) == \A d \in S : d.id < e.id

\* The new row comes strictly after the head, hence after every row seen.
ExtendsTimeline(S, e) == \A d \in S : Log!Before(d, e)

LockFree(s, f) == lockedBy[f] \in {s, Nothing}

\* Mutant: the foreign key names the event only, so any visible row of any
\* fact will do.
CorrectionExistsAnywhere(S, e) ==
    e.corrects # Nothing =>
        \E d \in S \cup events : d.id = e.corrects

\* The foreign key of a correction: an event of the same fact, not itself.
CorrectionExists(S, e) ==
    e.corrects # Nothing => \E d \in S : d.id = e.corrects

\* Mutant: the head is read without taking the advisory lock.
DecideUnlocked(s) ==
    LET e == request[s] IN
    /\ e # Nothing
    /\ ExtendsTimeline(Seen(s, e.fact), e)
    /\ e.decision = "REVOKE" => Log!Effective(Seen(s, e.fact), e.fact) = "ACCEPT"
    /\ CorrectionExists(Seen(s, e.fact), e)
    /\ inserted' = [inserted EXCEPT ![s] = @ \cup {e}]
    /\ request' = [request EXCEPT ![s] = Nothing]
    /\ UNCHANGED <<events, lockedBy, nextId, clock>>

\* The lock is granted; the trigger reads the head, checks, and inserts.
Decide(s) ==
    LET e == request[s] IN
    /\ e # Nothing
    /\ LockFree(s, e.fact)
    /\ ExtendsTimeline(Seen(s, e.fact), e)
    /\ e.decision = "REVOKE" => Log!Effective(Seen(s, e.fact), e.fact) = "ACCEPT"
    /\ CorrectionExists(Seen(s, e.fact), e)
    /\ lockedBy' = [lockedBy EXCEPT ![e.fact] = s]
    /\ inserted' = [inserted EXCEPT ![s] = @ \cup {e}]
    /\ request' = [request EXCEPT ![s] = Nothing]
    /\ UNCHANGED <<events, nextId, clock>>

Release(s) ==
    lockedBy' = [f \in Facts |-> IF lockedBy[f] = s THEN Nothing ELSE lockedBy[f]]

Commit(s) ==
    /\ request[s] = Nothing
    /\ inserted[s] # {}
    /\ events' = events \cup inserted[s]
    /\ inserted' = [inserted EXCEPT ![s] = {}]
    /\ Release(s)
    /\ UNCHANGED <<request, nextId, clock>>

Abort(s) ==
    /\ inserted[s] # {} \/ request[s] # Nothing
    /\ inserted' = [inserted EXCEPT ![s] = {}]
    /\ request' = [request EXCEPT ![s] = Nothing]
    /\ Release(s)
    /\ UNCHANGED <<events, nextId, clock>>

Next ==
    \/ Tick
    \/ \E s \in Sessions :
          \/ \E f \in Facts, d \in Decisions, at \in 1..MaxTime,
                c \in 1..MaxId \cup {Nothing} : Submit(s, f, d, at, c)
          \/ Decide(s)
          \/ Commit(s)
          \/ Abort(s)

Spec == Init /\ [][Next]_vars

-----------------------------------------------------------------------------

TypeOK ==
    /\ events \subseteq Event
    /\ inserted \in [Sessions -> SUBSET Event]
    /\ request \in [Sessions -> Event \cup {Nothing}]
    /\ lockedBy \in [Facts -> Sessions \cup {Nothing}]
    /\ nextId \in Nat
    /\ clock \in Nat

\* Whatever the order in which concurrent decisions commit, a REVOKE that
\* readers see stands directly on an ACCEPT of the same fact.
RevokeStandsOnAccept ==
    \A e \in events : Log!RevokesAcceptance(events, e)

\* A correction points back along its own fact's timeline, even when the
\* corrected event took a larger id from the sequence.
CorrectionsPointBack ==
    \A e \in events : e.corrects # Nothing =>
        \E d \in events : d.id = e.corrects /\ d.fact = e.fact /\ Log!Before(d, e)

\* The log is the abstract timeline: concurrent commits only ever append.
ImplementsTimeline == Log!Spec

\* Once a fact's head is later than a cutoff, no commit changes the decision
\* in force at that cutoff: a backdated decision cannot slip in behind.
PastIsSettled ==
    [][\A f \in Facts, cutoff \in 0..MaxTime :
          (\E e \in events : e.fact = f /\ e.at > cutoff) =>
             Log!EffectiveAsOf(events', f, cutoff)
                = Log!EffectiveAsOf(events, f, cutoff)]_vars
=============================================================================
