---------------------------- MODULE FactServing ----------------------------
(***************************************************************************)
(* The serving queries over reported facts and review decisions: observed  *)
(* and publishable facts, now and as of a cutoff.  Facts are inserted as   *)
(* ReportedFacts has them; the decision log grows as ReviewTimeline lets   *)
(* it, which is what ReviewDecisions is proved to implement.               *)
(***************************************************************************)
EXTENDS ReportedFacts, FiniteSets

CONSTANT MaxDecisions  \* bound: decision events recorded

VARIABLE events  \* the decision log

servingVars == <<facts, events>>

Log == INSTANCE ReviewTimeline WITH Facts <- FactIds

ASSUME ServingAssumption ==
    /\ Times \subseteq Nat /\ MaxDecisions \in Nat
    /\ Nothing \notin Log!Decisions

ServingInit == Init /\ Log!Init

Record(f, row) == InsertFact(f, row) /\ UNCHANGED events

\* Mutant: the decision column is left null.
ReviewWithoutDecision(f, decision, at) ==
    /\ Cardinality(events) < MaxDecisions
    /\ f \in Recorded
    /\ events' = events \cup {[fact |-> f, id |-> Cardinality(events) + 1,
                               at |-> at, decision |-> Nothing]}
    /\ Log!Extend
    /\ UNCHANGED facts

\* A decision on a recorded fact.  Ids only break ties within one timeline,
\* where they must grow, so numbering events as they come loses nothing.
Review(f, decision, at) ==
    /\ Cardinality(events) < MaxDecisions
    /\ f \in Recorded
    /\ events' = events \cup {[fact |-> f, id |-> Cardinality(events) + 1,
                               at |-> at, decision |-> decision]}
    /\ Log!Extend
    /\ UNCHANGED facts

ServingNext ==
    \/ \E f \in FactIds, row \in Fact : Record(f, row)
    \/ \E f \in FactIds, d \in Log!Decisions, at \in Times : Review(f, d, at)

ServingSpec == ServingInit /\ [][ServingNext]_servingVars

-----------------------------------------------------------------------------
(* The queries                                                             *)

\* Facts of G with no successor in G.
Heads(G) == {f \in G : ~ \E child \in G : Predecessor(child) = f}

CurrentObserved == Heads(Recorded)

\* Mutant: a descendant that was reviewed at all displaces its ancestors.
FrontierOfReviewed(accepted) ==
    {f \in accepted : ~ \E e \in events : e.fact \in Recorded
                                          /\ f \in ProperAncestors(e.fact)}

\* Mutant: an observed descendant displaces its ancestors.
FrontierOfObserved(accepted) ==
    {f \in accepted : ~ \E d \in Recorded : f \in ProperAncestors(d)}

\* Accepted facts with no accepted proper descendant.
Frontier(accepted) ==
    {f \in accepted : ~ \E d \in accepted : f \in ProperAncestors(d)}

\* Mutant: every frontier member is published.
EveryFrontierMember(F) == F

\* More than one frontier member in a lineage publishes nothing for it.
SoleInLineage(F) == {f \in F : \A g \in F : Root(g) = Root(f) => g = f}

Accepted == {f \in Recorded : Log!Effective(events, f) = "ACCEPT"}

CurrentPublishable == SoleInLineage(Frontier(Accepted))

\* Mutant: the cutoff instant itself is excluded.
EligibleBefore(cutoff) ==
    {f \in Recorded : \A a \in Ancestors(f) : facts[a].observed < cutoff}

\* Observed by the cutoff together with every ancestor.
Eligible(cutoff) ==
    {f \in Recorded : \A a \in Ancestors(f) : facts[a].observed <= cutoff}

\* Mutant: a child displaces its parent before it is itself eligible.
ObservedAsOfAnyChild(cutoff) == Eligible(cutoff) \cap Heads(Recorded)

ObservedAsOf(cutoff) == Heads(Eligible(cutoff))

\* Mutant: decisions are read as they stand now.
AcceptedNow(cutoff) ==
    {f \in Eligible(cutoff) : Log!Effective(events, f) = "ACCEPT"}

AcceptedAsOf(cutoff) ==
    {f \in Eligible(cutoff) : Log!EffectiveAsOf(events, f, cutoff) = "ACCEPT"}

PublishableAsOf(cutoff) == SoleInLineage(Frontier(AcceptedAsOf(cutoff)))

-----------------------------------------------------------------------------

ServingTypeOK ==
    /\ TypeOK
    /\ events \subseteq [fact : FactIds, id : 1..MaxDecisions, at : Times,
                         decision : Log!Decisions]

\* A published fact is undisputed: it is accepted, and every other accepted
\* fact of its lineage is one it revises.
PublishedIsUndisputed ==
    \A f \in CurrentPublishable :
        /\ f \in Accepted
        /\ \A g \in Accepted : Root(g) = Root(f) => g \in Ancestors(f)

\* The current queries are the as-of queries at a cutoff nothing is later
\* than, though neither is written in terms of the other.
CurrentIsAsOfTheEnd ==
    \A end \in Times : (\A t \in Times : t <= end) =>
        /\ ObservedAsOf(end) = CurrentObserved
        /\ PublishableAsOf(end) = CurrentPublishable

\* At any cutoff a fact known with its ancestry is shown by the observed
\* query, itself or through a revision of it: no branch is lost.
ObservedQueryLosesNoBranch ==
    \A cutoff \in Times : \A f \in Eligible(cutoff) :
        \E h \in ObservedAsOf(cutoff) : f \in Ancestors(h)

\* An unaccepted or rejected successor displaces nothing: what is published
\* changes only when the set of effectively accepted facts does.
OnlyAcceptanceDisplaces ==
    [][Accepted' = Accepted => CurrentPublishable' = CurrentPublishable]_servingVars

\* A cutoff's answers are settled against everything later: facts that were
\* observed after it, or hang below such a fact, and decisions made after it.
LaterNewsIsInvisible ==
    [][\A cutoff \in Times :
          /\ \A f \in Recorded' \ Recorded :
                \E a \in Ancestors(f)' : facts'[a].observed > cutoff
          /\ \A e \in events' \ events : e.at > cutoff
          => /\ ObservedAsOf(cutoff)' = ObservedAsOf(cutoff)
             /\ PublishableAsOf(cutoff)' = PublishableAsOf(cutoff)]_servingVars

\* When a published fact loses its acceptance, publication falls back to the
\* latest accepted fact it revised, and to nothing if there is none.
FallsBackToLastAccepted ==
    [][\A f \in CurrentPublishable : f \notin Accepted' =>
          LET left == Accepted \cap ProperAncestors(f)
          IN {g \in CurrentPublishable' : Root(g) = Root(f)}
                = {g \in left : left \subseteq Ancestors(g)}]_servingVars
=============================================================================
