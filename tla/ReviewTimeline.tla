--------------------------- MODULE ReviewTimeline ---------------------------
(***************************************************************************)
(* What the review-decision log promises its readers: for each fact a      *)
(* timeline that only ever grows at its end, in which acceptance is        *)
(* revoked only where it is in force.  The effective decision is the last  *)
(* event; the decision in force at a cutoff is the last event by then.     *)
(***************************************************************************)
EXTENDS Naturals

CONSTANTS
    Facts,   \* reported facts under review
    Nothing  \* no decision: a pending fact

VARIABLE events  \* the committed decision events

Decisions == {"ACCEPT", "REJECT", "REVOKE"}

\* The order of a timeline: (decided_at, review_decision_id).
Before(d, e) == \/ d.at < e.at
                \/ d.at = e.at /\ d.id < e.id

Timeline(E, f) == {e \in E : e.fact = f}

IsHead(E, e) == /\ e \in E
                /\ \A d \in Timeline(E, e.fact) : d = e \/ Before(d, e)

\* The decision in force for f after the events of E.
Effective(E, f) ==
    IF \E e \in E : e.fact = f /\ IsHead(E, e)
      THEN (CHOOSE e \in E : e.fact = f /\ IsHead(E, e)).decision
      ELSE Nothing

DecidedBy(E, cutoff) == {e \in E : e.at <= cutoff}

EffectiveAsOf(E, f, cutoff) == Effective(DecidedBy(E, cutoff), f)

\* The events of E that precede e on its fact's timeline.
Earlier(E, e) == {d \in Timeline(E, e.fact) : Before(d, e)}

RevokesAcceptance(E, e) ==
    e.decision = "REVOKE" => Effective(Earlier(E, e), e.fact) = "ACCEPT"

Init == events = {}

\* A commit adds events, each after everything its fact's timeline held.
Extend ==
    /\ events \subseteq events'
    /\ \A e \in events' \ events :
          /\ \A d \in Timeline(events, e.fact) : Before(d, e)
          /\ RevokesAcceptance(events', e)

Spec == Init /\ [][Extend]_events
=============================================================================
