----------------------------- MODULE FactProofs -----------------------------
(***************************************************************************)
(* Proofs about ReportedFacts, and about FactServing, which extends it.    *)
(*                                                                         *)
(* Lineages are well founded, for any set of facts, although no constraint *)
(* or trigger of the schema checks for cycles.  It follows from inserts    *)
(* being the only writes and from each insert naming a predecessor that is *)
(* already there.  That a lineage keeps its source, and its artifact under *)
(* corrections, then follows from the trigger's look at one predecessor,   *)
(* without any induction.  The serving queries rest on the same order:     *)
(* what they answer changes with acceptance and with nothing else.         *)
(***************************************************************************)
EXTENDS FactServing, FiniteSetTheorems, WellFoundedInduction, TLAPS

\* Every predecessor named by a recorded fact is recorded (the foreign key).
PredecessorsRecorded ==
    \A f \in Recorded : Predecessor(f) = Nothing \/ Predecessor(f) \in Recorded

LineageInv == TypeOK /\ PredecessorsRecorded /\ LineageIsAcyclic

-----------------------------------------------------------------------------

\* An inserted fact joins the recorded ones and changes no other row.
LEMMA InsertAdds ==
    ASSUME TypeOK, NEW f \in FactIds, NEW row \in Fact, InsertFact(f, row)
    PROVE  /\ TypeOK'
           /\ f \notin Recorded
           /\ Recorded' = Recorded \cup {f}
           /\ \A g \in Recorded : Predecessor(g)' = Predecessor(g)
           /\ Predecessor(f)' = row.predecessor
           /\ row.predecessor \in Recorded \cup {Nothing}
<1>1. row # Nothing /\ row.predecessor \in FactIds \cup {Nothing}
  BY FactAssumption DEF Fact
<1>2. /\ facts' = [facts EXCEPT ![f] = row]
      /\ facts[f] = Nothing
      /\ row.predecessor \in Recorded \cup {Nothing}
  BY DEF InsertFact, LineageFits
<1>3. facts \in [FactIds -> Fact \cup {Nothing}]
  BY DEF TypeOK
<1>4. facts'[f] = row /\ \A g \in FactIds \ {f} : facts'[g] = facts[g]
  BY <1>2, <1>3
<1>5. TypeOK'
  BY <1>2, <1>3 DEF TypeOK
<1>6. f \notin Recorded /\ Recorded' = Recorded \cup {f}
  BY <1>1, <1>2, <1>4 DEF Recorded
<1>7. \A g \in Recorded : Predecessor(g)' = Predecessor(g)
  BY <1>4, <1>6 DEF Recorded, Predecessor
<1>8. Predecessor(f)' = row.predecessor
  BY <1>4 DEF Predecessor
<1>9. QED
  BY <1>2, <1>5, <1>6, <1>7, <1>8

\* The new fact cannot close a cycle: nothing recorded points to it yet.
LEMMA InsertKeepsAcyclic ==
    ASSUME LineageInv, NEW f \in FactIds, NEW row \in Fact, InsertFact(f, row)
    PROVE  LineageIsAcyclic'
<1>0. TypeOK /\ PredecessorsRecorded /\ LineageIsAcyclic
  BY DEF LineageInv
<1>1. /\ f \notin Recorded
      /\ Recorded' = Recorded \cup {f}
      /\ \A g \in Recorded : Predecessor(g)' = Predecessor(g)
      /\ Predecessor(f)' = row.predecessor
      /\ row.predecessor \in Recorded \cup {Nothing}
  BY <1>0, InsertAdds
<1>2. f # Nothing
  BY FactAssumption
<1>3. \A g \in Recorded : Predecessor(g) # f
  BY <1>0, <1>1, <1>2 DEF PredecessorsRecorded
<1>4. SUFFICES ASSUME NEW C \in SUBSET (Recorded \cup {f}), C # {}
               PROVE  \E g \in C : Predecessor(g)' \notin C
  BY <1>1 DEF LineageIsAcyclic
<1>5. CASE C \subseteq {f}
  <2>1. f \in C /\ row.predecessor # f
    BY <1>1, <1>2, <1>4, <1>5
  <2>2. QED BY <2>1, <1>1, <1>5
<1>6. CASE ~ (C \subseteq {f})
  <2>1. PICK g \in C \ {f} : Predecessor(g) \notin C \ {f}
    BY <1>0, <1>4, <1>6 DEF LineageIsAcyclic
  <2>2. g \in Recorded
    BY <1>4, <2>1
  <2>3. Predecessor(g)' \notin C
    BY <1>1, <1>3, <2>1, <2>2
  <2>4. QED BY <2>1, <2>3
<1>7. QED BY <1>5, <1>6

LEMMA LineageStep == LineageInv /\ [Next]_facts => LineageInv'
<1> SUFFICES ASSUME LineageInv, [Next]_facts PROVE LineageInv'
  OBVIOUS
<1>1. ASSUME NEW f \in FactIds, NEW row \in Fact, InsertFact(f, row)
      PROVE  LineageInv'
  <2>1. TypeOK' /\ Recorded' = Recorded \cup {f}
    BY <1>1, InsertAdds DEF LineageInv
  <2>2. PredecessorsRecorded'
    BY <1>1, InsertAdds DEF LineageInv, PredecessorsRecorded
  <2>3. LineageIsAcyclic'
    BY <1>1, InsertKeepsAcyclic
  <2>4. QED BY <2>1, <2>2, <2>3 DEF LineageInv
<1>2. CASE UNCHANGED facts
  BY <1>2 DEF LineageInv, TypeOK, PredecessorsRecorded, LineageIsAcyclic,
              Recorded, Predecessor
<1>3. QED BY <1>1, <1>2 DEF Next

LEMMA InitLineage == Init => LineageInv
BY DEF Init, LineageInv, TypeOK, PredecessorsRecorded, LineageIsAcyclic, Recorded

LEMMA LineageInvariance == Spec => []LineageInv
BY InitLineage, LineageStep, PTL DEF Spec

\* Every row of the table has the shape its columns and checks give it.
THEOREM TypeCorrect == Spec => []TypeOK
BY LineageInvariance, PTL DEF LineageInv

\* Following predecessors never comes back, in a schema whose only defence
\* against cycles is that an insert names a row that is already there.
THEOREM LineageAcyclic == Spec => []LineageIsAcyclic
BY LineageInvariance, PTL DEF LineageInv

-----------------------------------------------------------------------------
(* Ancestors is defined as a least closed set, so facts about it are proved *)
(* by naming a closed set, and need no induction.                           *)

LEMMA AncestorsLeast ==
    ASSUME NEW f, NEW S \in SUBSET Recorded, f \in S, ClosedUnderPredecessor(S)
    PROVE  Ancestors(f) \subseteq S
BY DEF Ancestors

LEMMA AncestorsClosed ==
    ASSUME PredecessorsRecorded, NEW f \in Recorded
    PROVE  /\ f \in Ancestors(f) /\ Ancestors(f) \subseteq Recorded
           /\ ClosedUnderPredecessor(Ancestors(f))
<1>1. f \in Ancestors(f) /\ Ancestors(f) \subseteq Recorded
  BY DEF Ancestors
<1>2. SUFFICES ASSUME NEW g \in Ancestors(f), Predecessor(g) # Nothing,
                      NEW S \in SUBSET Recorded, f \in S, ClosedUnderPredecessor(S)
               PROVE  Predecessor(g) \in S /\ Predecessor(g) \in Recorded
  <2>1. PredecessorsRecorded
    OBVIOUS
  <2>2. QED BY <1>1, <2>1 DEF ClosedUnderPredecessor, PredecessorsRecorded, Ancestors
<1>3. g \in S
  BY <1>2 DEF Ancestors
<1>4. QED BY <1>2, <1>3 DEF ClosedUnderPredecessor, PredecessorsRecorded

LEMMA AncestorsTransitive ==
    ASSUME PredecessorsRecorded, NEW f \in Recorded, NEW g \in Ancestors(f)
    PROVE  Ancestors(g) \subseteq Ancestors(f)
BY AncestorsClosed, AncestorsLeast

\* A fact's other ancestors are those of its predecessor.
LEMMA AncestorsStep ==
    ASSUME PredecessorsRecorded, NEW f \in Recorded
    PROVE  /\ Predecessor(f) = Nothing => Ancestors(f) = {f}
           /\ Predecessor(f) # Nothing =>
                 /\ Predecessor(f) \in Ancestors(f)
                 /\ Ancestors(f) \subseteq {f} \cup Ancestors(Predecessor(f))
<1>1. ASSUME Predecessor(f) = Nothing PROVE Ancestors(f) = {f}
  <2>1. ClosedUnderPredecessor({f})
    BY <1>1 DEF ClosedUnderPredecessor
  <2>2. QED BY <2>1, AncestorsLeast, AncestorsClosed
<1>2. ASSUME Predecessor(f) # Nothing
      PROVE  /\ Predecessor(f) \in Ancestors(f)
             /\ Ancestors(f) \subseteq {f} \cup Ancestors(Predecessor(f))
  <2> DEFINE S == {f} \cup Ancestors(Predecessor(f))
  <2>1. Predecessor(f) \in Recorded
    BY <1>2 DEF PredecessorsRecorded
  <2>2. /\ Predecessor(f) \in Ancestors(Predecessor(f))
        /\ Ancestors(Predecessor(f)) \subseteq Recorded
        /\ ClosedUnderPredecessor(Ancestors(Predecessor(f)))
    BY <2>1, AncestorsClosed
  <2>3. S \in SUBSET Recorded /\ f \in S /\ ClosedUnderPredecessor(S)
    BY <2>2 DEF ClosedUnderPredecessor
  <2>4. Ancestors(f) \subseteq S
    BY <2>3, AncestorsLeast
  <2>5. Predecessor(f) \in Ancestors(f)
    BY <1>2, AncestorsClosed DEF ClosedUnderPredecessor
  <2>6. QED BY <2>4, <2>5
<1>3. QED BY <1>1, <1>2

\* Ancestry is an order, because lineages are acyclic ...
LEMMA AncestorsAntisymmetric ==
    ASSUME LineageInv, NEW f \in Recorded, NEW g \in Ancestors(f), f \in Ancestors(g)
    PROVE  f = g
<1> SUFFICES ASSUME f # g PROVE FALSE
  OBVIOUS
<1> DEFINE C == {x \in Ancestors(f) : f \in Ancestors(x)}
<1>0. PredecessorsRecorded /\ LineageIsAcyclic
  BY DEF LineageInv
<1>1. C \in SUBSET Recorded /\ f \in C
  BY <1>0, AncestorsClosed
<1>2. ASSUME NEW x \in C PROVE Predecessor(x) \in C
  <2>1. x \in Recorded
    BY <1>1
  <2>2. CASE x = f
    <3>1. Predecessor(f) # Nothing
      BY <1>0, AncestorsStep
    <3>2. Predecessor(f) \in Ancestors(f) /\ g \in Ancestors(Predecessor(f))
      BY <1>0, <3>1, AncestorsStep
    <3>3. Predecessor(f) \in Recorded
      BY <1>0, <3>2, AncestorsClosed
    <3>4. f \in Ancestors(Predecessor(f))
      BY <1>0, <3>2, <3>3, AncestorsTransitive
    <3>5. QED BY <2>2, <3>2, <3>4
  <2>3. CASE x # f
    <3>1. Predecessor(x) # Nothing
      BY <1>0, <2>1, <2>3, AncestorsStep
    <3>2. f \in Ancestors(Predecessor(x))
      BY <1>0, <2>1, <2>3, <3>1, AncestorsStep
    <3>3. Predecessor(x) \in Ancestors(f)
      BY <1>0, <3>1, AncestorsClosed DEF ClosedUnderPredecessor
    <3>4. QED BY <3>2, <3>3
  <2>4. QED BY <2>2, <2>3
<1>3. QED
  <2>1. PICK x \in C : Predecessor(x) \notin C
    BY <1>0, <1>1 DEF LineageIsAcyclic
  <2>2. QED BY <1>2, <2>1

\* ... and a chain, because each fact has one predecessor.
LEMMA AncestorsChain ==
    ASSUME PredecessorsRecorded, NEW f \in Recorded, NEW a \in Ancestors(f),
           NEW b \in Ancestors(f)
    PROVE  a \in Ancestors(b) \/ b \in Ancestors(a)
<1> DEFINE S == {x \in Ancestors(f) : x \in Ancestors(a) \/ a \in Ancestors(x)}
<1>1. /\ f \in Ancestors(f) /\ Ancestors(f) \subseteq Recorded
      /\ ClosedUnderPredecessor(Ancestors(f))
      /\ a \in Recorded /\ ClosedUnderPredecessor(Ancestors(a)) /\ a \in Ancestors(a)
  BY AncestorsClosed
<1>2. ASSUME NEW x \in S, Predecessor(x) # Nothing PROVE Predecessor(x) \in S
  <2>1. Predecessor(x) \in Ancestors(f)
    BY <1>1, <1>2 DEF ClosedUnderPredecessor
  <2>2. CASE x \in Ancestors(a)
    BY <1>1, <1>2, <2>1, <2>2 DEF ClosedUnderPredecessor
  <2>3. CASE x # a /\ a \in Ancestors(x)
    <3>1. x \in Recorded
      BY <1>1
    <3>2. a \in Ancestors(Predecessor(x))
      BY <1>2, <2>3, <3>1, AncestorsStep
    <3>3. QED BY <2>1, <3>2
  <2>4. QED BY <1>1, <2>2, <2>3
<1>3. S \in SUBSET Recorded /\ f \in S /\ ClosedUnderPredecessor(S)
  BY <1>1, <1>2 DEF ClosedUnderPredecessor
<1>4. Ancestors(f) \subseteq S
  BY <1>3, AncestorsLeast
<1>5. QED BY <1>4

-----------------------------------------------------------------------------

\* What the trigger checked of each edge still holds, as rows never change.
EdgesFit == \A f \in Recorded : LineageFits(facts[f])

LEMMA EdgesFitAlways == Spec => []EdgesFit
<1>1. Init => EdgesFit
  BY DEF Init, EdgesFit, Recorded
<1>2. LineageInv /\ EdgesFit /\ [Next]_facts => EdgesFit'
  <2> SUFFICES ASSUME LineageInv, EdgesFit, [Next]_facts PROVE EdgesFit'
    OBVIOUS
  <2>1. ASSUME NEW f \in FactIds, NEW row \in Fact, InsertFact(f, row)
        PROVE  EdgesFit'
    <3>1. f \notin Recorded /\ Recorded' = Recorded \cup {f}
      BY <2>1, InsertAdds DEF LineageInv
    <3>2. facts'[f] = row /\ \A g \in Recorded : facts'[g] = facts[g]
      BY <2>1, <3>1 DEF InsertFact, LineageInv, TypeOK, Recorded
    <3>3. \A g \in Recorded' : LineageFits(facts'[g])
      BY <2>1, <3>1, <3>2 DEF EdgesFit, InsertFact
    <3>4. \A g \in Recorded' : facts'[g].predecessor \in Recorded =>
             facts'[facts'[g].predecessor] = facts[facts'[g].predecessor]
      BY <3>2
    <3>5. QED BY <3>1, <3>3, <3>4 DEF EdgesFit, LineageFits, SourceOf
  <2>2. CASE UNCHANGED facts
    BY <2>2 DEF EdgesFit, LineageFits, SourceOf, Recorded
  <2>3. QED BY <2>1, <2>2 DEF Next
<1>3. QED BY <1>1, <1>2, LineageInvariance, PTL DEF Spec

\* The source is the same along every edge.
LEMMA OneSource ==
    ASSUME LineageInv, EdgesFit, NEW f \in Recorded, NEW a \in Ancestors(f)
    PROVE  SourceOf(facts[a]) = SourceOf(facts[f])
<1> DEFINE S == {x \in Recorded : SourceOf(facts[x]) = SourceOf(facts[f])}
<1>1. ASSUME NEW x \in S, Predecessor(x) # Nothing PROVE Predecessor(x) \in S
  BY <1>1 DEF EdgesFit, LineageFits, Predecessor
<1>2. ClosedUnderPredecessor(S)
  BY <1>1 DEF ClosedUnderPredecessor
<1>3. Ancestors(f) \subseteq S
  BY <1>2, AncestorsLeast
<1>4. QED BY <1>3

\* If all facts between are corrections, walking back from f one would stay on
\* its artifact and so never come to an ancestor that rests on another one.
LEMMA OneArtifact ==
    ASSUME LineageInv, EdgesFit, NEW f \in Recorded, NEW a \in Ancestors(f),
           \A g \in Ancestors(f) \ Ancestors(a) : facts[g].reason \in Corrections
    PROVE  facts[a].artifact = facts[f].artifact
<1> SUFFICES ASSUME facts[a].artifact # facts[f].artifact PROVE FALSE
  OBVIOUS
<1> DEFINE S == {x \in Ancestors(f) \ Ancestors(a) :
                    facts[x].artifact = facts[f].artifact}
<1>0. PredecessorsRecorded
  BY DEF LineageInv
<1>1. /\ f \in Ancestors(f) /\ Ancestors(f) \subseteq Recorded
      /\ ClosedUnderPredecessor(Ancestors(f)) /\ a \in Recorded /\ a \in Ancestors(a)
  BY <1>0, AncestorsClosed
<1>2. f \in S
  BY <1>1, AncestorsAntisymmetric
<1>3. ASSUME NEW x \in S, Predecessor(x) # Nothing PROVE Predecessor(x) \in S
  <2> DEFINE p == Predecessor(x)
  <2>1. x \in Recorded /\ p \in Ancestors(f) /\ p \in Recorded
    BY <1>1, <1>3 DEF ClosedUnderPredecessor
  <2>2. facts[p].artifact = facts[f].artifact
    BY <1>3, <2>1 DEF EdgesFit, LineageFits, ReasonFits, Corrections, Predecessor
  <2>3. ASSUME p \in Ancestors(a) PROVE FALSE
    <3>1. a \in Ancestors(x) /\ a # x
      BY <1>0, <1>1, AncestorsChain
    <3>2. a \in Ancestors(p)
      BY <1>0, <1>3, <2>1, <3>1, AncestorsStep
    <3>3. a = p
      BY <1>1, <2>3, <3>2, AncestorsAntisymmetric
    <3>4. QED BY <2>2, <3>3
  <2>4. QED BY <2>1, <2>2, <2>3
<1>4. Ancestors(f) \subseteq S
  <2>1. S \in SUBSET Recorded /\ ClosedUnderPredecessor(S)
    BY <1>1, <1>3 DEF ClosedUnderPredecessor
  <2>2. QED BY <1>2, <2>1, AncestorsLeast
<1>5. QED BY <1>1, <1>4

\* Revisions of revisions stay with one source, and corrections of corrections
\* with one artifact, although the trigger looks at one predecessor only.
THEOREM ProvenanceKept == Spec => []LineageKeepsProvenance
<1>1. LineageInv /\ EdgesFit => LineageKeepsProvenance
  BY OneSource, OneArtifact DEF LineageKeepsProvenance
<1>2. QED BY <1>1, LineageInvariance, EdgesFitAlways, PTL

-----------------------------------------------------------------------------
(* Serving: every step of FactServing is one of ReportedFacts, or leaves    *)
(* the facts alone.                                                         *)

Decided == [fact : FactIds, id : 1..MaxDecisions, at : Times, decision : Log!Decisions]

ServingInv ==
    /\ LineageInv
    /\ ServingTypeOK
    /\ IsFiniteSet(Recorded) /\ IsFiniteSet(events)
    /\ \A e \in events : e.fact \in Recorded

LEMMA ReviewStep ==
    ASSUME ServingInv, NEW f \in FactIds, NEW d \in Log!Decisions, NEW at \in Times,
           Review(f, d, at)
    PROVE  ServingInv'
<1> DEFINE e == [fact |-> f, id |-> Cardinality(events) + 1, at |-> at, decision |-> d]
<1>1. Cardinality(events) \in Nat
  BY FS_CardinalityType DEF ServingInv
<1>2. e \in Decided
  BY <1>1, ServingAssumption DEF Review, Decided
<1>3. events' = events \cup {e} /\ f \in Recorded /\ facts' = facts
  BY DEF Review
<1>4. IsFiniteSet(events')
  BY <1>3, FS_AddElement DEF ServingInv
<1>5. Recorded' = Recorded /\ TypeOK' /\ LineageInv'
  BY <1>3, LineageStep DEF Recorded, LineageInv, ServingInv
<1>6. ServingTypeOK'
  BY <1>2, <1>3, <1>5 DEF ServingInv, ServingTypeOK, Decided
<1>7. QED BY <1>3, <1>4, <1>5, <1>6 DEF ServingInv

LEMMA ServingStep == ServingInv /\ [ServingNext]_servingVars => ServingInv'
<1> SUFFICES ASSUME ServingInv, [ServingNext]_servingVars PROVE ServingInv'
  OBVIOUS
<1>1. ASSUME NEW f \in FactIds, NEW row \in Fact, Record(f, row) PROVE ServingInv'
  <2>1. InsertFact(f, row) /\ events' = events
    BY <1>1 DEF Record
  <2>2. LineageInv'
    BY <2>1, LineageStep DEF Next, ServingInv
  <2>3. Recorded' = Recorded \cup {f}
    BY <2>1, InsertAdds DEF ServingInv, LineageInv
  <2>4. IsFiniteSet(Recorded')
    BY <2>3, FS_AddElement DEF ServingInv
  <2>5. QED BY <2>1, <2>2, <2>3, <2>4 DEF ServingInv, ServingTypeOK, LineageInv
<1>2. ASSUME NEW f \in FactIds, NEW d \in Log!Decisions, NEW at \in Times,
             Review(f, d, at)
      PROVE  ServingInv'
  BY <1>2, ReviewStep
<1>3. CASE UNCHANGED servingVars
  BY <1>3 DEF servingVars, ServingInv, LineageInv, ServingTypeOK, TypeOK, Recorded,
     PredecessorsRecorded, LineageIsAcyclic, Predecessor
<1>4. QED BY <1>1, <1>2, <1>3 DEF ServingNext

LEMMA ServingInvariance == ServingSpec => []ServingInv
<1>1. ServingInit => ServingInv
  <2> SUFFICES ASSUME ServingInit PROVE ServingInv
    OBVIOUS
  <2>1. LineageInv /\ Recorded = {} /\ events = {}
    BY InitLineage DEF ServingInit, Init, Recorded, Log!Init
  <2>2. QED BY <2>1, FS_EmptySet DEF ServingInv, ServingTypeOK, LineageInv
<1>2. QED BY <1>1, ServingStep, PTL DEF ServingSpec

\* Facts and decisions are well typed, for any number of both.
THEOREM ServingTypeCorrect == ServingSpec => []ServingTypeOK
BY ServingInvariance, PTL DEF ServingInv

-----------------------------------------------------------------------------
(* Roots and leaves                                                         *)

LEMMA RootIsUnique ==
    ASSUME LineageInv, NEW f \in Recorded
    PROVE  /\ Root(f) \in Ancestors(f) /\ Predecessor(Root(f)) = Nothing
           /\ \A r \in Ancestors(f) : Predecessor(r) = Nothing => r = Root(f)
<1>0. PredecessorsRecorded /\ LineageIsAcyclic
  BY DEF LineageInv
<1>1. f \in Ancestors(f) /\ Ancestors(f) \in SUBSET Recorded
      /\ ClosedUnderPredecessor(Ancestors(f))
  BY <1>0, AncestorsClosed
<1>2. PICK x \in Ancestors(f) : Predecessor(x) \notin Ancestors(f)
  BY <1>0, <1>1 DEF LineageIsAcyclic
<1>3. Predecessor(x) = Nothing
  BY <1>1, <1>2 DEF ClosedUnderPredecessor
<1>4. Root(f) \in Ancestors(f) /\ Predecessor(Root(f)) = Nothing
  BY <1>2, <1>3 DEF Root
<1>5. ASSUME NEW r \in Ancestors(f), Predecessor(r) = Nothing PROVE r = Root(f)
  <2>1. r \in Recorded /\ Root(f) \in Recorded
    BY <1>1, <1>4
  <2>2. Ancestors(r) = {r} /\ Ancestors(Root(f)) = {Root(f)}
    BY <1>0, <1>4, <1>5, <2>1, AncestorsStep
  <2>3. r \in Ancestors(Root(f)) \/ Root(f) \in Ancestors(r)
    BY <1>0, <1>4, AncestorsChain
  <2>4. QED BY <2>2, <2>3
<1>6. QED BY <1>4, <1>5

LEMMA SameRoot ==
    ASSUME LineageInv, NEW f \in Recorded, NEW a \in Ancestors(f)
    PROVE  a \in Recorded /\ Root(a) = Root(f)
<1>0. PredecessorsRecorded
  BY DEF LineageInv
<1>1. a \in Recorded
  BY <1>0, AncestorsClosed
<1>2. Ancestors(a) \subseteq Ancestors(f)
  BY <1>0, AncestorsTransitive
<1>3. QED BY <1>1, <1>2, RootIsUnique

\* Among finitely many facts there is a last one above any of them.
LEMMA LastDescendant ==
    ASSUME ServingInv, NEW A \in SUBSET Recorded, NEW g \in A
    PROVE  \E h \in A : g \in Ancestors(h) /\ ~ \E d \in A : h \in ProperAncestors(d)
<1> DEFINE Descendants(x) == {d \in Recorded : x \in Ancestors(d)}
           T == {Descendants(x) : x \in {x \in A : g \in Ancestors(x)}}
<1>0. LineageInv /\ PredecessorsRecorded /\ IsFiniteSet(Recorded)
  BY DEF ServingInv, LineageInv
<1>1. \A x \in Recorded : Descendants(x) \in FiniteSubsetsOf(Recorded)
  BY <1>0, FS_Subset DEF FiniteSubsetsOf
<1>2. T \subseteq FiniteSubsetsOf(Recorded) /\ T # {}
  <2>1. \A x \in A : Descendants(x) \in FiniteSubsetsOf(Recorded)
    BY <1>1
  <2>2. T \subseteq FiniteSubsetsOf(Recorded)
    <3> HIDE DEF Descendants
    <3>1. QED BY <2>1
  <2>3. g \in Ancestors(g)
    BY <1>0, AncestorsClosed
  <2>4. Descendants(g) \in T
    BY <2>3
  <2>5. QED BY <2>2, <2>4
<1>3. IsWellFoundedOn(StrictSubsetOrdering(Recorded), FiniteSubsetsOf(Recorded))
  BY FS_StrictSubsetOrderingWellFounded
<1>4. PICK D \in T : \A E \in T : ~ (<<E, D>> \in StrictSubsetOrdering(Recorded))
  <2> HIDE DEF T
  <2>1. QED BY <1>2, <1>3, WFMin
<1>5. PICK h \in A : g \in Ancestors(h) /\ D = Descendants(h)
  BY <1>4
<1>6. ASSUME NEW d \in A, h \in ProperAncestors(d) PROVE FALSE
  <2>1. h \in Ancestors(d) /\ h # d /\ d \in Recorded /\ h \in Recorded
    BY <1>6 DEF ProperAncestors
  <2>2. g \in Ancestors(d)
    BY <1>0, <1>5, <2>1, AncestorsTransitive
  <2>3. Descendants(d) \in T
    BY <2>2
  <2>4. ASSUME NEW x \in Descendants(d) PROVE x \in Descendants(h)
    BY <1>0, <2>1, <2>4, AncestorsTransitive
  <2>5. h \in Descendants(h) /\ h \notin Descendants(d)
    BY <1>0, <2>1, AncestorsClosed, AncestorsAntisymmetric
  <2>6. <<Descendants(d), Descendants(h)>> \in StrictSubsetOrdering(Recorded)
    BY <2>4, <2>5 DEF StrictSubsetOrdering
  <2>7. QED BY <1>4, <1>5, <2>3, <2>6
<1>7. QED BY <1>5, <1>6

\* Two accepted branches of one lineage publish nothing, and a published fact
\* has all other accepted facts of its lineage behind it (the frontier query).
THEOREM PublishedUndisputed == ServingSpec => []PublishedIsUndisputed
<1>1. ServingInv => PublishedIsUndisputed
  <2> SUFFICES ASSUME ServingInv, NEW f \in CurrentPublishable
               PROVE  /\ f \in Accepted
                      /\ \A g \in Accepted : Root(g) = Root(f) => g \in Ancestors(f)
    BY DEF PublishedIsUndisputed
  <2>1. /\ f \in Frontier(Accepted)
        /\ \A h \in Frontier(Accepted) : Root(h) = Root(f) => h = f
    BY DEF CurrentPublishable, SoleInLineage
  <2>2. f \in Accepted /\ Accepted \in SUBSET Recorded
    BY <2>1 DEF Frontier, Accepted
  <2>3. ASSUME NEW g \in Accepted, Root(g) = Root(f) PROVE g \in Ancestors(f)
    <3>1. PICK h \in Accepted : g \in Ancestors(h)
                                /\ ~ \E d \in Accepted : h \in ProperAncestors(d)
      BY <2>2, LastDescendant
    <3>2. h \in Frontier(Accepted)
      BY <3>1 DEF Frontier
    <3>3. Root(g) = Root(h)
      BY <2>2, <3>1, SameRoot DEF ServingInv
    <3>4. QED BY <2>1, <2>3, <3>1, <3>2, <3>3
  <2>4. QED BY <2>2, <2>3
<1>2. QED BY <1>1, ServingInvariance, PTL

\* Whatever is known with its ancestry at a cutoff is shown by the observed
\* query at that cutoff, itself or through a revision of it.
THEOREM NoBranchIsLost == ServingSpec => []ObservedQueryLosesNoBranch
<1>1. ServingInv => ObservedQueryLosesNoBranch
  <2> SUFFICES ASSUME ServingInv, NEW cutoff \in Times, NEW f \in Eligible(cutoff)
               PROVE  \E h \in ObservedAsOf(cutoff) : f \in Ancestors(h)
    BY DEF ObservedQueryLosesNoBranch
  <2>0. LineageInv /\ PredecessorsRecorded /\ LineageIsAcyclic
    BY DEF ServingInv, LineageInv
  <2>1. Eligible(cutoff) \in SUBSET Recorded
    BY DEF Eligible
  <2>2. PICK h \in Eligible(cutoff) :
          f \in Ancestors(h) /\ ~ \E d \in Eligible(cutoff) : h \in ProperAncestors(d)
    BY <2>1, LastDescendant
  <2>3. ASSUME NEW child \in Eligible(cutoff), Predecessor(child) = h PROVE FALSE
    <3>1. child \in Recorded /\ h \in Recorded /\ h # Nothing
      BY <2>1, FactAssumption DEF Recorded
    <3>2. h \in Ancestors(child)
      BY <2>0, <2>3, <3>1, AncestorsStep
    <3>3. child # h
      <4>1. \E x \in {child} : Predecessor(x) \notin {child}
        BY <2>0, <3>1 DEF LineageIsAcyclic
      <4>2. QED BY <2>3, <4>1
    <3>4. QED BY <2>2, <3>2, <3>3 DEF ProperAncestors
  <2>4. QED BY <2>2, <2>3 DEF ObservedAsOf, Heads
<1>2. QED BY <1>1, ServingInvariance, PTL

\* The current queries are the as-of queries at the last instant there is.
THEOREM AsOfTheEnd == ServingSpec => []CurrentIsAsOfTheEnd
<1>1. ServingInv => CurrentIsAsOfTheEnd
  <2> SUFFICES ASSUME ServingInv, NEW end \in Times, \A t \in Times : t <= end
               PROVE  /\ ObservedAsOf(end) = CurrentObserved
                      /\ PublishableAsOf(end) = CurrentPublishable
    BY DEF CurrentIsAsOfTheEnd
  <2>1. \A f \in Recorded : facts[f].observed \in Times
    BY DEF ServingInv, LineageInv, TypeOK, Recorded, Fact
  <2>2. \A f \in Recorded : Ancestors(f) \subseteq Recorded
    BY DEF Ancestors
  <2>3. Eligible(end) = Recorded
    BY <2>1, <2>2 DEF Eligible
  <2>4. Log!DecidedBy(events, end) = events
    BY DEF ServingInv, ServingTypeOK, Log!DecidedBy
  <2>5. AcceptedAsOf(end) = Accepted
    BY <2>3, <2>4 DEF AcceptedAsOf, Accepted, Log!EffectiveAsOf
  <2>6. QED
    BY <2>3, <2>5 DEF ObservedAsOf, CurrentObserved, PublishableAsOf, CurrentPublishable
<1>2. QED BY <1>1, ServingInvariance, PTL

-----------------------------------------------------------------------------
(* Steps: a new fact is nobody's ancestor, so lineages known before it keep *)
(* their ancestry and their root, and it has no decision yet.               *)

LEMMA StepKeepsRows ==
    ASSUME LineageInv, [ServingNext]_servingVars
    PROVE  /\ Recorded \subseteq Recorded'
           /\ \A x \in Recorded : facts'[x] = facts[x]
           /\ \A x \in Recorded : Predecessor(x)' = Predecessor(x)
<1>1. ASSUME NEW f \in FactIds, NEW row \in Fact, Record(f, row)
      PROVE  Recorded \subseteq Recorded' /\ \A x \in Recorded : facts'[x] = facts[x]
  <2>1. InsertFact(f, row) /\ f \notin Recorded /\ Recorded' = Recorded \cup {f}
    BY <1>1, InsertAdds DEF Record, LineageInv
  <2>2. QED BY <2>1 DEF InsertFact, LineageInv, TypeOK, Recorded
<1>2. ASSUME UNCHANGED facts
      PROVE  Recorded \subseteq Recorded' /\ \A x \in Recorded : facts'[x] = facts[x]
  BY <1>2 DEF Recorded
<1>3. Recorded \subseteq Recorded' /\ \A x \in Recorded : facts'[x] = facts[x]
  BY <1>1, <1>2 DEF ServingNext, Review, servingVars
<1>4. QED BY <1>3 DEF Predecessor

LEMMA StepKeepsAncestry ==
    ASSUME LineageInv, [ServingNext]_servingVars, NEW x \in Recorded
    PROVE  Ancestors(x)' = Ancestors(x)
<1>1. /\ Recorded \subseteq Recorded'
      /\ \A g \in Recorded : Predecessor(g)' = Predecessor(g)
      /\ \A g \in Recorded : Predecessor(g) = Nothing \/ Predecessor(g) \in Recorded
  BY StepKeepsRows DEF LineageInv, PredecessorsRecorded
<1>2. \A S \in SUBSET Recorded : ClosedUnderPredecessor(S)' <=> ClosedUnderPredecessor(S)
  BY <1>1 DEF ClosedUnderPredecessor
<1>3. \A S \in SUBSET Recorded :
        x \in S /\ ClosedUnderPredecessor(S) => Ancestors(x)' \subseteq S
  BY <1>1, <1>2 DEF Ancestors
<1>4. Ancestors(x)' \subseteq Recorded
  BY <1>1, <1>3 DEF ClosedUnderPredecessor
<1>5. Ancestors(x)' \subseteq Ancestors(x)
  BY <1>3, <1>4 DEF Ancestors
<1>6. ASSUME NEW S \in SUBSET Recorded', x \in S, ClosedUnderPredecessor(S)'
      PROVE  Ancestors(x) \subseteq S
  <2> DEFINE T == S \cap Recorded
  <2>1. T \in SUBSET Recorded /\ x \in T /\ ClosedUnderPredecessor(T)
    BY <1>1, <1>6 DEF ClosedUnderPredecessor
  <2>2. QED BY <2>1, AncestorsLeast
<1>7. Ancestors(x) \subseteq Recorded'
  BY <1>1 DEF Ancestors
<1>8. Ancestors(x) \subseteq Ancestors(x)'
  BY <1>6, <1>7 DEF Ancestors
<1>9. QED BY <1>5, <1>8

LEMMA StepKeepsRoot ==
    ASSUME LineageInv, [ServingNext]_servingVars, NEW x \in Recorded
    PROVE  Root(x)' = Root(x)
<1>1. Ancestors(x)' = Ancestors(x) /\ Ancestors(x) \subseteq Recorded
  BY StepKeepsAncestry DEF Ancestors
<1>2. \A a \in Ancestors(x) : Predecessor(a)' = Predecessor(a)
  BY <1>1, StepKeepsRows
<1>3. Root(x) \in Ancestors(x) /\ Predecessor(Root(x)) = Nothing
  BY RootIsUnique
<1>4. \E a \in Ancestors(x)' : Predecessor(a)' = Nothing
  BY <1>1, <1>2, <1>3
<1>5. PICK r \in Ancestors(x) : r = Root(x)' /\ Predecessor(r)' = Nothing
  BY <1>1, <1>4 DEF Root, Predecessor
<1>6. Predecessor(r) = Nothing
  BY <1>2, <1>5
<1>7. QED BY <1>5, <1>6, RootIsUnique

LEMMA RecordAcceptsNothing ==
    ASSUME ServingInv, NEW f \in FactIds, NEW row \in Fact, Record(f, row)
    PROVE  Accepted' = Accepted
<1>1. events' = events /\ f \notin Recorded /\ Recorded' = Recorded \cup {f}
  BY InsertAdds DEF Record, ServingInv, LineageInv
<1>2. ~ \E e \in events : e.fact = f
  BY <1>1 DEF ServingInv
<1>3. Log!Effective(events, f) # "ACCEPT"
  BY <1>2, ServingAssumption DEF Log!Effective, Log!Decisions
<1>4. QED BY <1>1, <1>3 DEF Accepted

\* What is published changes only when the set of accepted facts does.
THEOREM AcceptanceDisplaces == ServingSpec => OnlyAcceptanceDisplaces
<1>1. ServingInv /\ [ServingNext]_servingVars =>
        [Accepted' = Accepted => CurrentPublishable' = CurrentPublishable]_servingVars
  <2> SUFFICES ASSUME ServingInv, [ServingNext]_servingVars, Accepted' = Accepted
               PROVE  CurrentPublishable' = CurrentPublishable
    OBVIOUS
  <2>1. Accepted \subseteq Recorded
    BY DEF Accepted
  <2>2. \A x \in Accepted : Ancestors(x)' = Ancestors(x) /\ Root(x)' = Root(x)
    BY <2>1, StepKeepsAncestry, StepKeepsRoot DEF ServingInv
  <2>3. Frontier(Accepted)' = Frontier(Accepted)
    BY <2>2 DEF Frontier, ProperAncestors
  <2>4. Frontier(Accepted) \subseteq Accepted
    BY DEF Frontier
  <2>5. SoleInLineage(Frontier(Accepted))' = SoleInLineage(Frontier(Accepted))
    BY <2>2, <2>3, <2>4 DEF SoleInLineage
  <2>6. QED BY <2>5 DEF CurrentPublishable
<1>2. QED BY <1>1, ServingInvariance, PTL DEF ServingSpec, OnlyAcceptanceDisplaces

\* Answers as of a cutoff do not change with facts and decisions after it.
THEOREM LaterNewsUnseen == ServingSpec => LaterNewsIsInvisible
<1> DEFINE OnlyLater(cutoff) ==
             /\ \A f \in Recorded' \ Recorded :
                   \E a \in Ancestors(f)' : facts'[a].observed > cutoff
             /\ \A e \in events' \ events : e.at > cutoff
           Same(cutoff) == /\ ObservedAsOf(cutoff)' = ObservedAsOf(cutoff)
                           /\ PublishableAsOf(cutoff)' = PublishableAsOf(cutoff)
<1>1. ASSUME ServingInv, ServingInv', [ServingNext]_servingVars,
             NEW cutoff \in Times, OnlyLater(cutoff)
      PROVE  Same(cutoff)
  <2>0. /\ Recorded \subseteq Recorded'
        /\ \A x \in Recorded : facts'[x] = facts[x] /\ Predecessor(x)' = Predecessor(x)
    BY <1>1, StepKeepsRows DEF ServingInv
  <2>1. \A x \in Recorded : /\ Ancestors(x)' = Ancestors(x) /\ Root(x)' = Root(x)
                            /\ Ancestors(x) \subseteq Recorded
    BY <1>1, StepKeepsAncestry, StepKeepsRoot DEF ServingInv, Ancestors
  <2>2. \A f \in Recorded' \ Recorded : f \notin Eligible(cutoff)'
    <3>1. \A a \in Recorded' : facts'[a].observed \in Nat /\ cutoff \in Nat
      BY <1>1, ServingAssumption DEF ServingInv, LineageInv, TypeOK, Recorded, Fact
    <3>2. SUFFICES ASSUME NEW f \in Recorded' \ Recorded
                   PROVE  f \notin Eligible(cutoff)'
      OBVIOUS
    <3>3. PICK a \in Ancestors(f)' : facts'[a].observed > cutoff
      BY <1>1
    <3>4. a \in Recorded'
      BY <3>3 DEF Ancestors
    <3>5. ~ (facts'[a].observed <= cutoff)
      BY <3>1, <3>3, <3>4
    <3>6. QED BY <3>3, <3>5 DEF Eligible
  <2>3. Eligible(cutoff)' = Eligible(cutoff)
    BY <2>0, <2>1, <2>2 DEF Eligible
  <2>4. Eligible(cutoff) \subseteq Recorded
    BY DEF Eligible
  <2>5. ObservedAsOf(cutoff)' = ObservedAsOf(cutoff)
    BY <2>0, <2>3, <2>4 DEF ObservedAsOf, Heads
  <2>6. Log!DecidedBy(events', cutoff) = Log!DecidedBy(events, cutoff)
    <3>1. events \subseteq events'
      BY <1>1 DEF ServingNext, Record, Review, servingVars
    <3>2. \A e \in events' \ events : ~ (e.at <= cutoff)
      <4>1. \A e \in events' : e.at \in Nat /\ cutoff \in Nat
        BY <1>1, ServingAssumption DEF ServingInv, ServingTypeOK
      <4>2. QED BY <1>1, <4>1
    <3>3. QED BY <3>1, <3>2 DEF Log!DecidedBy
  <2>7. AcceptedAsOf(cutoff)' = AcceptedAsOf(cutoff)
    BY <2>3, <2>6 DEF AcceptedAsOf, Log!EffectiveAsOf
  <2>8. AcceptedAsOf(cutoff) \subseteq Recorded
    BY <2>4 DEF AcceptedAsOf
  <2>9. Frontier(AcceptedAsOf(cutoff))' = Frontier(AcceptedAsOf(cutoff))
    BY <2>1, <2>7, <2>8 DEF Frontier, ProperAncestors
  <2>10. Frontier(AcceptedAsOf(cutoff)) \subseteq Recorded
    BY <2>8 DEF Frontier
  <2>11. PublishableAsOf(cutoff)' = PublishableAsOf(cutoff)
    BY <2>1, <2>9, <2>10 DEF PublishableAsOf, SoleInLineage
  <2>12. QED BY <2>5, <2>11
<1>2. ServingInv /\ ServingInv' /\ [ServingNext]_servingVars =>
        [\A cutoff \in Times : OnlyLater(cutoff) => Same(cutoff)]_servingVars
  BY <1>1
<1>3. QED BY <1>2, ServingInvariance, PTL DEF ServingSpec, LaterNewsIsInvisible

\* A decision changes what is in force for its own fact only.
LEMMA HeadIsUnique ==
    ASSUME NEW E \in SUBSET Decided, NEW d, NEW e,
           Log!IsHead(E, d), Log!IsHead(E, e), d.fact = e.fact
    PROVE  d = e
<1>1. d \in Decided /\ e \in Decided
  BY DEF Log!IsHead
<1>2. d.at \in Nat /\ e.at \in Nat /\ d.id \in Int /\ e.id \in Int
  <2>1. \A x \in Decided : x.at \in Times /\ x.id \in 1..MaxDecisions
    BY DEF Decided
  <2>2. d.at \in Times /\ e.at \in Times
    BY <1>1, <2>1
  <2>3. d.at \in Nat /\ e.at \in Nat
    BY <2>2, ServingAssumption
  <2>4. \A i \in 1..MaxDecisions : i \in Int
    BY ServingAssumption
  <2>5. QED BY <1>1, <2>1, <2>3, <2>4
<1>3. (d = e \/ Log!Before(d, e)) /\ (d = e \/ Log!Before(e, d))
  BY DEF Log!IsHead, Log!Timeline
<1>4. QED BY <1>2, <1>3 DEF Log!Before

LEMMA EffectiveOfTimeline ==
    ASSUME NEW E \in SUBSET Decided, NEW F \in SUBSET Decided, NEW f,
           Log!Timeline(E, f) = Log!Timeline(F, f)
    PROVE  Log!Effective(E, f) = Log!Effective(F, f)
<1> DEFINE HeadIn(G, e) == e.fact = f /\ Log!IsHead(G, e)
<1>1. \A e : (e \in E /\ HeadIn(E, e)) <=> (e \in F /\ HeadIn(F, e))
  BY DEF Log!IsHead, Log!Timeline
<1>2. CASE \E e \in E : HeadIn(E, e)
  <2>1. \E e \in F : HeadIn(F, e)
    BY <1>1, <1>2
  <2>2. HeadIn(E, CHOOSE e \in E : HeadIn(E, e))
    BY <1>2
  <2>3. LET e == CHOOSE e \in F : HeadIn(F, e) IN e \in F /\ HeadIn(F, e)
    BY <2>1
  <2>4. HeadIn(E, CHOOSE e \in F : HeadIn(F, e))
    BY <2>3, <1>1
  <2>5. (CHOOSE e \in E : HeadIn(E, e)) = (CHOOSE e \in F : HeadIn(F, e))
    BY <2>2, <2>4, HeadIsUnique
  <2>6. QED BY <1>2, <2>1, <2>5 DEF Log!Effective
<1>3. CASE ~ \E e \in E : HeadIn(E, e)
  <2>1. ~ \E e \in F : HeadIn(F, e)
    BY <1>1, <1>3
  <2>2. QED BY <1>3, <2>1 DEF Log!Effective
<1>4. QED BY <1>2, <1>3

LEMMA ReviewDecidesOne ==
    ASSUME ServingInv, ServingInv', NEW f \in FactIds, NEW d \in Log!Decisions,
           NEW at \in Times, Review(f, d, at)
    PROVE  Recorded' = Recorded /\ Accepted' \ {f} = Accepted \ {f}
<1>1. facts' = facts /\ Recorded' = Recorded
  BY DEF Review, Recorded
<1>2. events \in SUBSET Decided /\ events' \in SUBSET Decided
  BY DEF ServingInv, ServingTypeOK, Decided
<1>3. ASSUME NEW x \in FactIds \ {f}
      PROVE  Log!Effective(events', x) = Log!Effective(events, x)
  <2>1. Log!Timeline(events', x) = Log!Timeline(events, x)
    BY <1>3 DEF Review, Log!Timeline
  <2>2. QED BY <1>2, <2>1, EffectiveOfTimeline
<1>4. QED BY <1>1, <1>3 DEF Accepted, Recorded

\* Between an accepted fact that was published and lost its acceptance and
\* what is published instead, nothing is skipped and nothing new appears.
LEMMA FallBack ==
    ASSUME LineageInv, NEW f \in Recorded, NEW A \in SUBSET Recorded,
           \A g \in A : Root(g) = Root(f) => g \in Ancestors(f),
           NEW x \in A \cap ProperAncestors(f),
           A \cap ProperAncestors(f) \subseteq Ancestors(x), f \notin A
    PROVE  x \in SoleInLineage(Frontier(A))
<1>1. Root(x) = Root(f) /\ x \in Recorded
  BY SameRoot DEF ProperAncestors
<1>2. ASSUME NEW g \in A, Root(g) = Root(x) PROVE g \in Ancestors(x)
  BY <1>1, <1>2 DEF ProperAncestors
<1>3. ASSUME NEW g \in A, x \in ProperAncestors(g) PROVE FALSE
  <2>1. Root(x) = Root(g) /\ x \in Ancestors(g) /\ x # g /\ g \in Recorded
    BY <1>3, SameRoot DEF ProperAncestors
  <2>2. g \in Ancestors(x)
    BY <1>2, <2>1
  <2>3. QED BY <2>1, <2>2, AncestorsAntisymmetric
<1>4. x \in Frontier(A)
  BY <1>3 DEF Frontier
<1>5. ASSUME NEW g \in Frontier(A), Root(g) = Root(x) PROVE g = x
  BY <1>2, <1>4, <1>5 DEF Frontier, ProperAncestors
<1>6. QED BY <1>4, <1>5 DEF SoleInLineage

\* Losing acceptance uncovers the latest accepted fact behind, if there is one.
THEOREM FallsBack == ServingSpec => FallsBackToLastAccepted
<1> DEFINE Left(f) == Accepted \cap ProperAncestors(f)
           FallsTo(f) == {g \in CurrentPublishable' : Root(g) = Root(f)}
                            = {g \in Left(f) : Left(f) \subseteq Ancestors(g)}
<1>1. ASSUME ServingInv, ServingInv', PublishedIsUndisputed, PublishedIsUndisputed',
             [ServingNext]_servingVars, NEW f \in CurrentPublishable, f \notin Accepted'
      PROVE  FallsTo(f)
  <2>0. LineageInv /\ f \in Accepted /\ Accepted \in SUBSET Recorded
        /\ \A g \in Accepted : Root(g) = Root(f) => g \in Ancestors(f)
    BY <1>1 DEF ServingInv, PublishedIsUndisputed, Accepted
  <2>1. ASSUME NEW g \in FactIds, NEW row \in Fact, Record(g, row) PROVE FALSE
    BY <1>1, <2>0, <2>1, RecordAcceptsNothing
  <2>2. ASSUME UNCHANGED servingVars PROVE FALSE
    BY <1>1, <2>0, <2>2 DEF servingVars, Accepted, Recorded
  <2>3. PICK h \in FactIds, d \in Log!Decisions, at \in Times : Review(h, d, at)
    BY <1>1, <2>1, <2>2 DEF ServingNext
  <2>4. Accepted' = Accepted \ {f} /\ Recorded' = Recorded
    BY <1>1, <2>0, <2>3, ReviewDecidesOne
  <2>5. \A x \in Recorded : Ancestors(x)' = Ancestors(x) /\ Root(x)' = Root(x)
    BY <1>1, <2>0, StepKeepsAncestry, StepKeepsRoot
  <2>6. CurrentPublishable' = SoleInLineage(Frontier(Accepted \ {f}))
    <3>1. Frontier(Accepted)' = Frontier(Accepted \ {f})
      BY <2>0, <2>4, <2>5 DEF Frontier, ProperAncestors
    <3>2. Frontier(Accepted \ {f}) \subseteq Recorded
      BY <2>0 DEF Frontier
    <3>3. QED BY <2>5, <3>1, <3>2 DEF CurrentPublishable, SoleInLineage
  <2>7. ASSUME NEW x \in CurrentPublishable', Root(x) = Root(f)
        PROVE  x \in Left(f) /\ Left(f) \subseteq Ancestors(x)
    <3>1. x \in Accepted \ {f} /\ x \in Recorded
      BY <2>0, <2>6 DEF SoleInLineage, Frontier
    <3>2. \A g \in Accepted' : Root(g)' = Root(x)' => g \in Ancestors(x)'
      BY <1>1 DEF PublishedIsUndisputed
    <3>3. \A g \in Accepted \ {f} : Root(g) = Root(x) => g \in Ancestors(x)
      BY <2>0, <2>4, <2>5, <3>1, <3>2
    <3>4. \A g \in Left(f) : g \in Accepted \ {f} /\ Root(g) = Root(f)
      BY <2>0, SameRoot DEF ProperAncestors
    <3>5. QED BY <2>0, <2>7, <3>1, <3>3, <3>4 DEF ProperAncestors
  <2>8. ASSUME NEW x \in Left(f), Left(f) \subseteq Ancestors(x)
        PROVE  x \in CurrentPublishable' /\ Root(x) = Root(f)
    <3>1. Root(x) = Root(f)
      BY <2>0, SameRoot DEF ProperAncestors
    <3>2. Left(f) = (Accepted \ {f}) \cap ProperAncestors(f)
      BY DEF ProperAncestors
    <3>3. x \in SoleInLineage(Frontier(Accepted \ {f}))
      <4> HIDE DEF Left
      <4>1. x \in (Accepted \ {f}) \cap ProperAncestors(f)
            /\ (Accepted \ {f}) \cap ProperAncestors(f) \subseteq Ancestors(x)
        BY <2>8, <3>2
      <4>2. QED BY <2>0, <4>1, FallBack
    <3>4. QED BY <2>6, <3>1, <3>3
  <2>9. QED BY <2>7, <2>8
<1>2. ServingInv /\ ServingInv' /\ PublishedIsUndisputed /\ PublishedIsUndisputed'
      /\ [ServingNext]_servingVars =>
        [\A f \in CurrentPublishable : f \notin Accepted' => FallsTo(f)]_servingVars
  BY <1>1
<1>3. QED
  BY <1>2, ServingInvariance, PublishedUndisputed, PTL DEF ServingSpec,
     FallsBackToLastAccepted
=============================================================================
