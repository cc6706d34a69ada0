------------------------ MODULE ReleaseCatalogProofs ------------------------
(***************************************************************************)
(* Proofs about ReleaseCatalog, for any releases and any number of         *)
(* observers.  The classifier and the audit trigger know nothing of each   *)
(* other: one compares artifact sets, the other only asks whether a        *)
(* release supersedes one.  What a verdict says holds of the state it was  *)
(* made from, which stays with the observer, not of the catalog.           *)
(***************************************************************************)
EXTENDS ReleaseCatalog, FiniteSetTheorems, WellFoundedInduction, TLAPS

\* A verdict is what classify_release makes of what the observer has in hand.
VerdictsAreClassifications ==
    \A o \in Observers : verdict[o] # None =>
        verdict[o] = Classify(observed[o], prior[o])

\* TypeOK says nothing of the domains of the observers' own variables.
OwnState ==
    /\ prior \in [Observers -> Catalogs]
    /\ observed \in [Observers -> Releases \cup {None}]
    /\ DOMAIN verdict = Observers /\ verdict = [o \in Observers |-> verdict[o]]

IInv == TypeOK /\ OwnState /\ VerdictsAreClassifications

-----------------------------------------------------------------------------

LEMMA EmptyStateIsCatalog == [r \in Releases |-> Absent] \in Catalogs
BY SentinelAssumption DEF Catalogs

\* An observation that is over leaves no verdict behind.
LEMMA ForgetStep ==
    ASSUME IInv, NEW o \in Observers, Forget(o)
    PROVE  /\ OwnState' /\ VerdictsAreClassifications'
           /\ \A p \in Observers : verdict'[p] # None => observed'[p] # None
<1> USE DEF IInv, TypeOK, OwnState, Forget
<1>1. OwnState'
  BY EmptyStateIsCatalog
<1>2. VerdictsAreClassifications'
  BY DEF VerdictsAreClassifications
<1>3. QED BY <1>1, <1>2

\* The catalog after an insert that its keys and checks accept.
LEMMA PublishStep ==
    ASSUME IInv, NEW o \in Observers, Publish(o)
    PROVE  /\ catalog' \in Catalogs
           /\ \A r \in Known(catalog') : catalog'[r] \in Known(catalog') \cup {None}
<1> DEFINE r == observed[o]
           s == verdict[o].supersedes
<1>1. /\ catalog \in Catalogs /\ verdict[o] # None
      /\ r \in Releases
  BY DEF IInv, TypeOK, Publish, IsNewRelease
<1>2. /\ catalog' = [catalog EXCEPT ![r] = s] /\ catalog[r] = Absent
      /\ s \in Known(catalog) \cup {None}
  BY DEF Publish
<1>3. s # r /\ s # Absent /\ s \in Releases \cup {None}
  BY <1>1, <1>2, SentinelAssumption DEF Known
<1> HIDE DEF s, r
<1>4. catalog' \in Catalogs
  BY <1>1, <1>2, <1>3 DEF Catalogs
<1>5. catalog'[r] = s /\ \A q \in Releases \ {r} : catalog'[q] = catalog[q]
  BY <1>1, <1>2 DEF Catalogs
<1>6. Known(catalog') = Known(catalog) \cup {r}
  BY <1>1, <1>3, <1>5 DEF Known
<1>7. \A q \in Known(catalog) : q # r /\ catalog[q] \in Known(catalog) \cup {None}
  BY <1>2 DEF Known, IInv, TypeOK
<1>8. QED BY <1>2, <1>4, <1>5, <1>6, <1>7 DEF Known

LEMMA IInvStep == IInv /\ [Next]_vars => IInv'
<1> SUFFICES ASSUME IInv, [Next]_vars PROVE IInv'
  OBVIOUS
<1> USE DEF IInv
<1>1. ASSUME NEW o \in Observers, NEW release \in Releases,
             NEW lost \in Releases \cup {None},
             Read(o, release, [r \in Releases |-> IF r = lost THEN Absent ELSE catalog[r]])
      PROVE  IInv'
  <2> DEFINE state == [r \in Releases |-> IF r = lost THEN Absent ELSE catalog[r]]
  <2>1. state \in Catalogs
    BY SentinelAssumption DEF TypeOK, Catalogs
  <2>2. Read(o, release, state)
    BY <1>1
  <2> HIDE DEF state
  <2>3. release # None /\ verdict[o] = None
    BY <2>2, SentinelAssumption DEF Read, TypeOK
  <2>4. /\ prior' = [prior EXCEPT ![o] = state] /\ observed' = [observed EXCEPT ![o] = release]
        /\ catalog' = catalog /\ verdict' = verdict
    BY <2>2 DEF Read
  <2>5. OwnState'
    BY <2>1, <2>4 DEF OwnState
  <2>6. TypeOK'
    BY <2>1, <2>3, <2>4, <2>5 DEF TypeOK, OwnState
  <2>7. VerdictsAreClassifications'
    BY <2>3, <2>4 DEF VerdictsAreClassifications, OwnState
  <2>8. QED BY <2>5, <2>6, <2>7
<1>2. ASSUME NEW o \in Observers, ClassifyRelease(o) PROVE IInv'
  <2>1. OwnState' /\ VerdictsAreClassifications'
    BY <1>2 DEF ClassifyRelease, OwnState, VerdictsAreClassifications
  <2>2. TypeOK'
    BY <1>2 DEF ClassifyRelease, OwnState, TypeOK
  <2>3. QED BY <2>1, <2>2
<1>3. ASSUME NEW o \in Observers, Publish(o) PROVE IInv'
  <2>1. Forget(o)
    BY <1>3 DEF Publish
  <2>2. OwnState' /\ VerdictsAreClassifications'
        /\ \A p \in Observers : verdict'[p] # None => observed'[p] # None
    BY <2>1, ForgetStep
  <2>3. QED BY <1>3, <2>2, PublishStep DEF TypeOK, OwnState
<1>4. ASSUME NEW o \in Observers, Abandon(o) PROVE IInv'
  <2>1. OwnState' /\ VerdictsAreClassifications'
        /\ \A p \in Observers : verdict'[p] # None => observed'[p] # None
    BY <1>4, ForgetStep DEF Abandon
  <2>2. QED BY <1>4, <2>1 DEF Abandon, TypeOK, OwnState
<1>5. CASE UNCHANGED vars
  BY <1>5 DEF vars, TypeOK, OwnState, VerdictsAreClassifications
<1>6. QED BY <1>1, <1>2, <1>3, <1>4, <1>5 DEF Next

LEMMA Invariance == Spec => []IInv
<1>1. Init => IInv
  BY EmptyStateIsCatalog
  DEF Init, IInv, TypeOK, OwnState, VerdictsAreClassifications
<1>2. QED BY <1>1, IInvStep, PTL DEF Spec

\* The catalog satisfies its keys and checks, whoever inserts what.
THEOREM TypeCorrect == Spec => []TypeOK
BY Invariance, PTL DEF IInv

-----------------------------------------------------------------------------

\* A chain that resolves has a head, and it is one of the releases.
LEMMA HeadExists ==
    ASSUME NEW state, Resolves(state)
    PROVE  TheHead(state) \in Releases
<1>1. Heads(state) # {}
  <2>1. Cardinality(Heads(state)) = 1
    BY DEF Resolves
  <2>2. Cardinality({}) = 0
    BY FS_EmptySet
  <2> HIDE DEF Heads
  <2>3. QED BY <2>1, <2>2
<1>2. QED BY <1>1 DEF TheHead, Heads, Known

\* Two releases over the same roles that differ, differ in some role.
LEMMA SomeRoleDiffers ==
    ASSUME NEW r \in Releases, NEW h \in Releases, DOMAIN h = DOMAIN r, r # h
    PROVE  \E role \in DOMAIN r : r[role] # h[role]
BY ReleaseAssumption

\* The audit trigger accepts every artifact result of a release that the
\* classifier lets publish: the two rules agree, though neither knows the
\* other (audit.ingestion_run_artifacts and classify_release).
THEOREM ResultsAreAudited == Spec => []AuditAcceptsPublishedResults
<1>1. IInv => AuditAcceptsPublishedResults
  <2> SUFFICES ASSUME IInv, NEW o \in Observers, IsNewRelease(verdict[o])
               PROVE  LET results == {verdict[o].results[role] : role \in DOMAIN observed[o]}
                      IN /\ "revised" \in results => verdict[o].supersedes # None
                         /\ "new" \in results => verdict[o].supersedes = None
                         /\ results \cap {"new", "revised"} # {}
    BY DEF AuditAcceptsPublishedResults
  <2> DEFINE r == observed[o]
             h == TheHead(prior[o])
  <2>1. /\ verdict[o] = Classify(r, prior[o]) /\ verdict[o] # Ambiguous
        /\ r \in Releases /\ verdict[o].change \in {"first_release", "revised"}
    BY DEF IInv, TypeOK, VerdictsAreClassifications, IsNewRelease
  <2>2. CASE verdict[o] = Classification("first_release", None,
                                         [role \in DOMAIN r |-> "new"])
    BY <2>1, <2>2, ReleaseAssumption DEF Classification
  <2>3. CASE verdict[o] = Revised(r, h) /\ r # h /\ DOMAIN h = DOMAIN r /\ h \in Releases
    <3>1. PICK role \in DOMAIN r : r[role] # h[role]
      BY <2>1, <2>3, SomeRoleDiffers
    <3>2. h # None
      BY <2>3, SentinelAssumption
    <3>3. verdict[o].supersedes = h
      BY <2>3 DEF Revised, Classification
    <3>4. verdict[o].results
             = [x \in DOMAIN r |-> IF r[x] # h[x] THEN "revised" ELSE "reused"]
      BY <2>3 DEF Revised, Classification
    <3>5. QED BY <3>1, <3>2, <3>3, <3>4
  <2>4. verdict[o] = Classification("unchanged", None, [role \in DOMAIN r |-> "reused"])
          => verdict[o].change = "unchanged"
    BY DEF Classification
  <2>5. \/ verdict[o] = Classification("first_release", None, [role \in DOMAIN r |-> "new"])
        \/ verdict[o] = Revised(r, h) /\ r # h /\ DOMAIN h = DOMAIN r /\ Resolves(prior[o])
    BY <2>1, <2>4 DEF Classify
  <2>6. QED BY <2>2, <2>3, <2>5, HeadExists
<1>2. QED BY <1>1, Invariance, PTL

-----------------------------------------------------------------------------
(* The walk back from the head.  It is a recursive function, so that it is  *)
(* one at all has to be shown, by induction over the steps of the walk.     *)

\* Induction over the naturals, with a set in place of a predicate.
LEMMA Induction ==
    ASSUME NEW S, 0 \in S, \A n \in Nat : n \in S => n + 1 \in S
    PROVE  Nat \subseteq S
<1> DEFINE T == Nat \ S
<1>1. SUFFICES ASSUME T # {} PROVE FALSE
  OBVIOUS
<1>2. PICK x \in T : \A y \in T : ~ (<<y, x>> \in OpToRel(<, Nat))
  BY <1>1, NatLessThanWellFounded, WFMin
<1>3. \A y \in T : ~ (y < x)
  BY <1>2 DEF OpToRel
<1>4. x # 0 /\ x - 1 \in Nat /\ x - 1 \notin T
  BY <1>3
<1>5. QED BY <1>4

\* The walk's recursive definition has the function it describes.
LEMMA WalkIsDefined ==
    ASSUME NEW state, NEW r, IsFiniteSet(Known(state))
    PROVE  LET walk == Walk(state, r)
               K == Cardinality(Known(state))
           IN /\ DOMAIN walk = 0..K
              /\ walk[0] = r
              /\ \A n \in 1..K : walk[n] = IF walk[n - 1] = None THEN None
                                           ELSE state[walk[n - 1]]
<1> DEFINE Back(x) == IF x = None THEN None ELSE state[x]
           Fits(f, m) == f = [n \in 0..m |-> IF n = 0 THEN r ELSE Back(f[n - 1])]
           S == {m \in Nat : \E f : Fits(f, m)}
           K == Cardinality(Known(state))
<1>0. K \in Nat
  BY FS_CardinalityType
<1>1. 0 \in S
  <2>1. Fits([n \in 0..0 |-> r], 0)
    OBVIOUS
  <2>2. QED BY <2>1
<1>2. ASSUME NEW m \in Nat, m \in S PROVE m + 1 \in S
  <2>1. PICK f : Fits(f, m)
    BY <1>2
  <2> DEFINE g == [n \in 0..(m + 1) |-> IF n = 0 THEN r ELSE Back(f[n - 1])]
  <2> HIDE DEF Back
  <2>2. \A n \in 0..m : g[n] = f[n]
    BY <2>1
  <2>3. \A n \in 0..(m + 1) : n # 0 => n - 1 \in 0..m
    OBVIOUS
  <2>4. m + 1 \in Nat
    OBVIOUS
  <2>5. Fits(g, m + 1)
    BY <2>2, <2>3
  <2>6. \E f1 : Fits(f1, m + 1)
    <3> HIDE DEF g, Fits
    <3>1. QED BY <2>5
  <2>7. QED BY <2>4, <2>6
<1>3. Nat \subseteq S
  <2> HIDE DEF S
  <2>1. QED BY <1>1, <1>2, Induction
<1>4. \E f : Fits(f, K)
  BY <1>0, <1>3
<1>5. Fits(CHOOSE f : Fits(f, K), K)
  BY <1>4
<1>6. PICK walk : walk = Walk(state, r)
  OBVIOUS
<1>7. walk = CHOOSE f : Fits(f, K)
  BY <1>6 DEF Walk
<1>8. Fits(walk, K)
  <2> HIDE DEF Fits
  <2>1. QED BY <1>5, <1>7
<1>9. /\ DOMAIN walk = 0..K /\ walk[0] = r
      /\ \A n \in 1..K : walk[n] = Back(walk[n - 1])
  <2> HIDE DEF K, Back
  <2>1. QED BY <1>0, <1>8
<1>10. QED BY <1>6, <1>9

\* What resolves is one chain: the walk meets as many releases as it has
\* steps, so it meets each of them once.
LEMMA ResolvedIsChain ==
    ASSUME NEW state, Resolves(state), IsFiniteSet(Known(state))
    PROVE  IsChainTo(state, TheHead(state))
<1> DEFINE K == Cardinality(Known(state))
           walk == Walk(state, TheHead(state))
           D == {n \in 0..K : walk[n] # None}
           met == [n \in D |-> walk[n]]
           s == [i \in 1..K |-> walk[K - i]]
<1>0. K \in Nat /\ 0 \in 0..K
  BY FS_CardinalityType
<1>1. /\ DOMAIN walk = 0..K /\ walk[0] = TheHead(state)
      /\ \A n \in 1..K : walk[n] = IF walk[n - 1] = None THEN None ELSE state[walk[n - 1]]
  BY WalkIsDefined
<1>2. walk[K] = None /\ {walk[n] : n \in DOMAIN walk} \ {None} = Known(state)
  BY DEF Resolves, TheHead
<1> HIDE DEF walk
<1>3. D \subseteq 0..(K - 1)
  BY <1>0, <1>2
<1>4. IsFiniteSet(0..(K - 1)) /\ Cardinality(0..(K - 1)) = K
  BY <1>0, FS_Interval
<1>5. met \in Surjection(D, Known(state))
  BY <1>1, <1>2 DEF Surjection
<1>6. IsFiniteSet(D) /\ Cardinality(D) <= K
  BY <1>3, <1>4, FS_Subset
<1>7. /\ K <= Cardinality(D)
      /\ K = Cardinality(D) => met \in Injection(D, Known(state))
  BY <1>5, <1>6, FS_Surjection
<1>8. Cardinality(D) = K
  <2>1. Cardinality(D) \in Nat
    BY <1>6, FS_CardinalityType
  <2>2. QED BY <1>0, <1>6, <1>7, <2>1
<1>9. D = 0..(K - 1)
  BY <1>3, <1>4, <1>8, FS_Subset
<1>10. /\ \A n \in 0..(K - 1) : walk[n] \in Known(state) /\ walk[n] # None
       /\ \A m, n \in 0..(K - 1) : m # n => walk[m] # walk[n]
  BY <1>7, <1>8, <1>9 DEF Injection, IsInjective
<1>11. s \in SetToSeqs(Known(state))
  <2>1. \A i \in 1..K : K - i \in 0..(K - 1)
    BY <1>0
  <2>2. \A i, j \in 1..K : i # j => K - i # K - j
    BY <1>0
  <2>3. QED BY <1>10, <2>1, <2>2 DEF SetToSeqs
<1>12. K # 0
  <2>1. Cardinality(Heads(state)) = 1 /\ Heads(state) \subseteq Known(state)
    BY DEF Resolves, Heads
  <2>2. K = 0 => Known(state) = {}
    BY FS_EmptySet
  <2>3. Heads(state) # {}
    <3> HIDE DEF Heads
    <3>1. QED BY <2>1, FS_EmptySet
  <2>4. QED BY <2>1, <2>2, <2>3
<1>13. Len(s) = K /\ s # <<>>
  BY <1>0, <1>12
<1>14. Last(s) = TheHead(state)
  BY <1>0, <1>1, <1>12, <1>13 DEF Last
<1>15. state[s[1]] = None
  <2>1. s[1] = walk[K - 1] /\ K - 1 \in 0..(K - 1)
    BY <1>0, <1>12
  <2>2. QED BY <1>0, <1>1, <1>2, <1>10, <1>12, <2>1
<1>16. ASSUME NEW i \in 2..Len(s) PROVE state[s[i]] = s[i - 1]
  <2>1. s[i] = walk[K - i] /\ s[i - 1] = walk[K - (i - 1)]
        /\ K - i \in 0..(K - 1) /\ K - (i - 1) \in 1..K /\ (K - (i - 1)) - 1 = K - i
    BY <1>0, <1>13, <1>16
  <2>2. QED BY <1>1, <1>10, <2>1
<1>17. QED BY <1>11, <1>13, <1>14, <1>15, <1>16 DEF IsChainTo

\* A release the classifier calls revised is none the family had.
LEMMA RevisedIsNew ==
    ASSUME NEW state, NEW r, Resolves(state), r # TheHead(state),
           r \notin Superseded(state), IsFiniteSet(Known(state))
    PROVE  r \notin Known(state)
<1>1. Cardinality(Heads(state)) = 1 /\ IsFiniteSet(Heads(state))
  BY FS_Subset DEF Resolves, Heads
<1>2. PICK x : Heads(state) = {x}
  BY <1>1, FS_Singleton
<1>3. TheHead(state) = x
  BY <1>2 DEF TheHead
<1>4. QED BY <1>2, <1>3 DEF Heads

\* A verdict other than ambiguous against prior releases rests on one chain.
LEMMA ClassifiedOnChain ==
    ASSUME NEW state, NEW r, IsFiniteSet(Known(state)), Known(state) # {},
           Classify(r, state) # Ambiguous
    PROVE  \/ /\ Classify(r, state).change = "unchanged"
              /\ IsChainTo(state, r)
           \/ /\ Classify(r, state).change = "revised"
              /\ IsChainTo(state, Classify(r, state).supersedes)
              /\ r \notin Known(state)
<1>1. Resolves(state)
  BY DEF Classify
<1>2. IsChainTo(state, TheHead(state))
  BY <1>1, ResolvedIsChain
<1>3. CASE r = TheHead(state)
  <2>1. Classify(r, state)
          = Classification("unchanged", None, [role \in DOMAIN r |-> "reused"])
    BY <1>1, <1>3 DEF Classify
  <2>2. QED BY <1>2, <1>3, <2>1 DEF Classification
<1>4. CASE r # TheHead(state)
  <2>1. r \notin Superseded(state) /\ Classify(r, state) = Revised(r, TheHead(state))
    BY <1>1, <1>4 DEF Classify
  <2>2. r \notin Known(state)
    BY <1>1, <1>4, <2>1, RevisedIsNew
  <2>3. QED BY <1>2, <2>1, <2>2 DEF Revised, Classification
<1>5. QED BY <1>3, <1>4

\* A family has finitely many releases.
LEMMA KnownIsFinite ==
    ASSUME NEW state
    PROVE  IsFiniteSet(Known(state))
BY FS_Subset, ReleaseAssumption DEF Known

\* No hidden winner: _resolve_unique_head lets a verdict through only against
\* a family that is one supersession chain, of any length.
THEOREM NoHiddenWinner == Spec => []VerdictsRestOnOneChain
<1>1. IInv => VerdictsRestOnOneChain
  <2> SUFFICES ASSUME IInv, NEW o \in Observers,
                      verdict[o] \notin {None, Ambiguous}, Known(prior[o]) # {}
               PROVE  IF verdict[o].change = "unchanged"
                      THEN IsChainTo(prior[o], observed[o])
                      ELSE /\ IsChainTo(prior[o], verdict[o].supersedes)
                           /\ observed[o] \notin Known(prior[o])
    BY DEF VerdictsRestOnOneChain
  <2>1. verdict[o] = Classify(observed[o], prior[o]) /\ verdict[o] # Ambiguous
    BY DEF IInv, VerdictsAreClassifications
  <2>2. QED BY <2>1, KnownIsFinite, ClassifiedOnChain
<1>2. QED BY <1>1, Invariance, PTL

\* A release that supersedes the end of a chain becomes its end.
LEMMA ChainGrows ==
    ASSUME NEW h, IsChainTo(catalog, h), NEW r \in Releases, r \notin Known(catalog),
           catalog \in Catalogs, catalog' = [catalog EXCEPT ![r] = h], h \in Known(catalog)
    PROVE  IsChainTo(catalog', r)
<1> DEFINE K == Cardinality(Known(catalog))
<1>1. PICK s \in SetToSeqs(Known(catalog)) :
        /\ s # <<>> /\ Last(s) = h /\ catalog[s[1]] = None
        /\ \A i \in 2..Len(s) : catalog[s[i]] = s[i - 1]
  BY DEF IsChainTo
<1>2. IsFiniteSet(Known(catalog)) /\ K \in Nat
  BY KnownIsFinite, FS_CardinalityType
<1>3. h # Absent /\ h # r
  BY SentinelAssumption DEF Known
<1>4. Known(catalog') = Known(catalog) \cup {r}
  BY <1>3 DEF Known, Catalogs
<1>5. Cardinality(Known(catalog')) = K + 1
  <2>1. Cardinality(Known(catalog) \cup {r}) = K + 1
    BY <1>2, FS_AddElement
  <2>2. QED BY <1>4, <2>1
<1> DEFINE t == [i \in 1..(K + 1) |-> IF i = K + 1 THEN r ELSE s[i]]
<1> HIDE DEF K
<1>6. /\ s \in [1..K -> Known(catalog)] /\ Len(s) = K /\ K # 0
      /\ \A i, j \in 1..K : i # j => s[i] # s[j]
  <2>1. s \in [1..K -> Known(catalog)] /\ \A i, j \in 1..K : i # j => s[i] # s[j]
    BY <1>1 DEF SetToSeqs, K
  <2>2. s \in Seq(Known(catalog)) /\ Len(s) = K
    BY <1>2, <2>1
  <2>3. QED BY <1>1, <2>1, <2>2
<1>7. t \in SetToSeqs(Known(catalog'))
  <2>1. t \in [1..(K + 1) -> Known(catalog) \cup {r}]
    BY <1>2, <1>6
  <2>2. ASSUME NEW i \in 1..(K + 1), NEW j \in 1..(K + 1), i # j PROVE t[i] # t[j]
    <3>1. CASE i = K + 1
      BY <1>2, <1>6, <2>2, <3>1
    <3>2. CASE j = K + 1
      BY <1>2, <1>6, <2>2, <3>2
    <3>3. CASE i # K + 1 /\ j # K + 1
      BY <1>2, <1>6, <2>2, <3>3
    <3>4. QED BY <3>1, <3>2, <3>3
  <2> HIDE DEF t
  <2>3. QED BY <1>4, <1>5, <2>1, <2>2 DEF SetToSeqs
<1>8. Len(t) = K + 1 /\ t # <<>> /\ Last(t) = r
  BY <1>2 DEF Last
<1>9. \A q \in Known(catalog) : catalog'[q] = catalog[q]
  BY DEF Known, Catalogs
<1>10. catalog'[r] = h /\ h = s[K]
  BY <1>1, <1>6 DEF Catalogs, Last
<1>11. catalog'[t[1]] = None
  BY <1>1, <1>2, <1>6, <1>9
<1>12. ASSUME NEW i \in 2..Len(t) PROVE catalog'[t[i]] = t[i - 1]
  <2>1. CASE i = K + 1
    BY <1>2, <1>6, <1>10, <2>1
  <2>2. CASE i # K + 1
    BY <1>1, <1>2, <1>6, <1>8, <1>9, <2>2
  <2>3. QED BY <2>1, <2>2
<1>13. QED BY <1>7, <1>8, <1>11, <1>12 DEF IsChainTo

\* The first release of a family is a chain of its own.
LEMMA ChainStarts ==
    ASSUME NEW r \in Releases, Known(catalog) = {}, catalog \in Catalogs,
           catalog' = [catalog EXCEPT ![r] = None]
    PROVE  IsChainTo(catalog', r)
<1>1. Known(catalog') = {r} /\ catalog'[r] = None
  BY SentinelAssumption DEF Known, Catalogs
<1>2. Cardinality(Known(catalog')) = 1
  BY <1>1, FS_Singleton
<1> DEFINE t == [i \in 1..1 |-> r]
<1>3. t \in SetToSeqs(Known(catalog'))
  <2>1. t \in [1..1 -> {r}] /\ \A i, j \in 1..1 : i = j
    OBVIOUS
  <2>2. QED BY <1>1, <1>2, <2>1 DEF SetToSeqs
<1>4. Len(t) = 1 /\ t # <<>> /\ t[1] = r
  OBVIOUS
<1> HIDE DEF t
<1>5. QED BY <1>1, <1>3, <1>4 DEF IsChainTo, Last

\* Read, classify and insert are one step for a writer nobody overtook: it
\* finds a chain and leaves a chain.
THEOREM ChainIsKept == Spec => UpToDateWriterKeepsTheChain
<1> DEFINE UpToDate(o) == /\ observed[o] # None /\ prior[o] = catalog
                          /\ catalog' # catalog /\ observed'[o] = None
                          /\ catalog'[observed[o]] # catalog[observed[o]]
           Kept(o) == /\ Known(catalog) = {} \/ \E h \in Releases : IsChainTo(catalog, h)
                      /\ IsChainTo(catalog', observed[o])
<1>1. ASSUME IInv, [Next]_vars, NEW o \in Observers, UpToDate(o) PROVE Kept(o)
  <2> DEFINE r == observed[o]
             v == verdict[o]
  <2>1. Publish(o)
    <3>1. PICK p \in Observers : Publish(p)
      BY <1>1 DEF Next, vars, Read, ClassifyRelease, Abandon
    <3>2. observed' = [observed EXCEPT ![p] = None]
      BY <3>1 DEF Publish, Forget
    <3>3. p = o
      BY <1>1, <3>2 DEF IInv, OwnState
    <3>4. QED BY <3>1, <3>3
  <2>2. /\ v = Classify(r, catalog) /\ v \notin {None, Ambiguous}
        /\ v.change \in {"first_release", "revised"}
        /\ r \in Releases /\ r \notin Known(catalog) /\ catalog \in Catalogs
        /\ catalog' = [catalog EXCEPT ![r] = v.supersedes]
        /\ v.supersedes \in Known(catalog) \cup {None}
    BY <1>1, <2>1 DEF IInv, TypeOK, VerdictsAreClassifications, Publish, IsNewRelease, Known
  <2>3. CASE Known(catalog) = {}
    <3>1. v.supersedes = None
      BY <2>2, <2>3
    <3>2. QED BY <2>2, <2>3, <3>1, ChainStarts
  <2>4. CASE Known(catalog) # {}
    <3>1. v.change = "revised" /\ IsChainTo(catalog, v.supersedes)
      BY <2>2, <2>4, KnownIsFinite, ClassifiedOnChain
    <3>2. Resolves(catalog) /\ r # TheHead(catalog) /\ v = Revised(r, TheHead(catalog))
      <4>1. r = TheHead(catalog) =>
              v.change = "unchanged" \/ ~ Resolves(catalog) \/ DOMAIN TheHead(catalog) # DOMAIN r
        BY <2>2, <2>4 DEF Classify, Classification
      <4>2. QED BY <2>2, <2>4, <3>1, <4>1 DEF Classify
    <3>3. v.supersedes = TheHead(catalog) /\ TheHead(catalog) \in Releases
      BY <3>2, HeadExists DEF Revised, Classification
    <3>4. v.supersedes \in Known(catalog)
      BY <2>2, <3>3, SentinelAssumption
    <3>5. QED BY <2>2, <3>1, <3>3, <3>4, ChainGrows
  <2>5. QED BY <2>3, <2>4
<1>2. IInv /\ [Next]_vars => [\A o \in Observers : UpToDate(o) => Kept(o)]_vars
  BY <1>1
<1>3. QED BY <1>2, Invariance, PTL DEF Spec, UpToDateWriterKeepsTheChain
=============================================================================
