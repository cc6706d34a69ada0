----------------------- MODULE MigrationDeployProofs -----------------------
(***************************************************************************)
(* Proofs about MigrationDeploy, for any migration files, any versions     *)
(* applied by others and any number of deployments.  What a deployment     *)
(* read is stale by the time it is used; the inductive invariant says      *)
(* which conclusions survive because the remote history only grows.        *)
(*                                                                         *)
(* The larger part is about the scanner of MigrationGate: for every script *)
(* of segments that fit, it is between tokens wherever a segment ends, so  *)
(* it hides exactly what PostgreSQL does not execute.  The proof follows   *)
(* the scanner through tokens, runs of one mode, segments and scripts.     *)
(***************************************************************************)
EXTENDS MigrationDeploy, FiniteSetTheorems, SequenceTheorems,
        WellFoundedInduction, TLAPS

ValidRepository ==
    pc \notin Ended \cup {"repository"} \/ pc = "succeeded" => RepositoryAccepted(checkout)

Gated == {"sql", "preview", "push", "pushing"}

\* The listing the gate accepted, and what it takes to be pending.
AcceptedListing ==
    pc \in Gated => /\ HistoryAccepted(listing, checkout, FALSE)
                    /\ pending = Pending(listing, checkout)

\* Whatever is missing now was missing when the history was inspected, and
\* during a push also when the push made its plan.
MissingIsGated ==
    /\ pc \in Gated => Missing \subseteq pending
    /\ pc = "pushing" => plan \subseteq pending /\ Missing \subseteq plan

InspectedIsHarmless ==
    pc \in Gated \ {"sql"} => \A f \in pending : SqlAccepted(Text(f.script))

PushedIsHarmless == \A f \in pushed : SqlAccepted(Text(f.script))

PushedInOrder ==
    pc = "pushing" => \A f \in pushed : \A g \in plan : NameBefore(f, g)

NothingPushedYet ==
    pc \in {"repository", "history", "sql", "preview", "push"} => pushed = {}

AppliedAtTheEnd ==
    pc \in {"noop", "succeeded"} => Versions(checkout) \subseteq remote

DeployInv ==
    /\ ValidRepository
    /\ AcceptedListing
    /\ MissingIsGated
    /\ InspectedIsHarmless
    /\ PushedIsHarmless
    /\ PushedInOrder
    /\ NothingPushedYet
    /\ AppliedAtTheEnd

IInv == TypeOK /\ DeployInv

-----------------------------------------------------------------------------

LEMMA TypeStep == TypeOK /\ [Next]_vars => TypeOK'
<1> SUFFICES ASSUME TypeOK, [Next]_vars PROVE TypeOK'
  OBVIOUS
<1> USE DEF TypeOK, Ended, Versions
<1>1. ASSUME NEW f \in Files, Merge(f) PROVE TypeOK'
  BY <1>1 DEF Merge, Main
<1>2. ASSUME NEW v \in Outsiders, ApplyElsewhere(v) PROVE TypeOK'
  BY <1>2, DeployAssumption DEF ApplyElsewhere
<1>3. ASSUME NEW tree \in trees, Start(tree) PROVE TypeOK'
  BY <1>3, DeployAssumption DEF Start
<1>4. CASE ValidateRepository
  BY <1>4 DEF ValidateRepository, Gate, Unpushed
<1>5. CASE GateHistory
  BY <1>5 DEF GateHistory, Gate, Unpushed, Pending
<1>6. CASE RejectDestructive
  BY <1>6 DEF RejectDestructive, Gate, Unpushed
<1>7. ASSUME NEW b \in BOOLEAN, VerifyPlan(b) PROVE TypeOK'
  BY <1>7 DEF VerifyPlan, Gate, Unpushed
<1>8. ASSUME NEW b \in BOOLEAN, VerifyNoOp(b) PROVE TypeOK'
  BY <1>8 DEF VerifyNoOp, Gate, Unpushed
<1>9. CASE StartPush
  BY <1>9 DEF StartPush, Missing
<1>10. ASSUME NEW f \in Files, ApplyMigration(f) PROVE TypeOK'
  BY <1>10 DEF ApplyMigration
<1>11. CASE EndPush
  BY <1>11 DEF EndPush
<1>12. CASE VerifyHistory
  BY <1>12 DEF VerifyHistory, Gate, Unpushed, Pending
<1>13. CASE Fail
  BY <1>13 DEF Fail
<1>14. CASE UNCHANGED vars
  BY <1>14 DEF vars
<1>15. QED
  BY <1>1, <1>2, <1>3, <1>4, <1>5, <1>6, <1>7, <1>8, <1>9, <1>10, <1>11, <1>12,
     <1>13, <1>14 DEF Next

\* Every reachable state is well typed.
THEOREM TypeCorrect == Spec => []TypeOK
<1>1. Init => TypeOK
  BY DeployAssumption DEF Init, TypeOK, Ended, Versions
<1>2. QED
  BY <1>1, TypeStep, PTL DEF Spec
-----------------------------------------------------------------------------

\* A difference before the ends decides the order, whatever follows.
LEMMA OrderOfExtensions ==
    ASSUME NEW s \in Seq(Nat), NEW t \in Seq(Nat), NEW a \in Seq(Nat), NEW b \in Seq(Nat),
           TextBefore(s, t), ~ IsPrefix(s, t)
    PROVE  TextBefore(s \o a, t \o b)
<1>1. PICK n \in 0..Len(s) :
         /\ n < Len(t)
         /\ SubSeq(s, 1, n) = SubSeq(t, 1, n)
         /\ n = Len(s) \/ s[n + 1] < t[n + 1]
  BY DEF TextBefore
<1>2. n # Len(s)
  BY <1>1 DEF IsPrefix
<1>3. /\ s \o a \in Seq(Nat) /\ t \o b \in Seq(Nat)
      /\ Len(s \o a) = Len(s) + Len(a) /\ Len(t \o b) = Len(t) + Len(b)
      /\ Len(s) \in Nat /\ Len(t) \in Nat /\ Len(a) \in Nat /\ Len(b) \in Nat
  OBVIOUS
<1>4. /\ (s \o a)[n + 1] = s[n + 1]
      /\ (t \o b)[n + 1] = t[n + 1]
  BY <1>1, <1>2
<1>5. SubSeq(s \o a, 1, n) = SubSeq(s, 1, n)
  BY <1>1, <1>3
<1>6. SubSeq(t \o b, 1, n) = SubSeq(t, 1, n)
  BY <1>1, <1>3
<1>7. n \in 0..Len(s \o a) /\ n < Len(t \o b)
  BY <1>1, <1>3
<1>8. QED
  BY <1>1, <1>2, <1>4, <1>5, <1>6, <1>7 DEF TextBefore

\* Order of versions that are no prefix of each other is order of file names.
LEMMA VersionOrderIsNameOrder ==
    ASSUME NEW f \in Files, NEW g \in Files,
           TextBefore(f.version, g.version), ~ IsPrefix(f.version, g.version)
    PROVE  NameBefore(f, g)
<1>1. /\ f.version \in Seq(Nat) /\ g.version \in Seq(Nat)
      /\ <<Underscore, f.label>> \in Seq(Nat) /\ <<Underscore, g.label>> \in Seq(Nat)
  BY DeployAssumption DEF Underscore
<1>2. QED
  BY <1>1, OrderOfExtensions DEF NameBefore, Name

-----------------------------------------------------------------------------

LEMMA InvStep == IInv /\ [Next]_vars => DeployInv'
<1> SUFFICES ASSUME TypeOK, DeployInv, [Next]_vars PROVE DeployInv'
  BY DEF IInv
<1> USE DEF DeployInv, ValidRepository, AcceptedListing, MissingIsGated,
            InspectedIsHarmless, PushedIsHarmless, PushedInOrder, NothingPushedYet,
            AppliedAtTheEnd, Gated, Ended, Missing
<1>1. ASSUME NEW f \in Files, Merge(f) PROVE DeployInv'
  BY <1>1 DEF Merge
<1>2. ASSUME NEW v \in Outsiders, ApplyElsewhere(v) PROVE DeployInv'
  BY <1>2 DEF ApplyElsewhere
<1>3. ASSUME NEW tree \in trees, Start(tree) PROVE DeployInv'
  BY <1>3 DEF Start
<1>4. CASE ValidateRepository
  BY <1>4 DEF ValidateRepository, Gate, Unpushed
<1>5. CASE GateHistory
  <2>1. Missing \subseteq Pending(MigrationList(checkout, remote), checkout)
    BY DEF Pending, MigrationList, Versions
  <2>2. QED
    BY <1>5, <2>1 DEF GateHistory, Gate, Unpushed
<1>6. CASE RejectDestructive
  BY <1>6 DEF RejectDestructive, Gate, Unpushed
<1>7. ASSUME NEW b \in BOOLEAN, VerifyPlan(b) PROVE DeployInv'
  BY <1>7 DEF VerifyPlan, Gate, Unpushed
<1>8. ASSUME NEW b \in BOOLEAN, VerifyNoOp(b) PROVE DeployInv'
  BY <1>8 DEF VerifyNoOp, Gate, Unpushed
<1>9. CASE StartPush
  BY <1>9 DEF StartPush
<1>10. ASSUME NEW f \in Files, ApplyMigration(f) PROVE DeployInv'
  BY <1>10 DEF ApplyMigration
<1>11. CASE EndPush
  BY <1>11 DEF EndPush
<1>12. CASE VerifyHistory
  <2>1. HistoryAccepted(MigrationList(checkout, remote), checkout, TRUE)
            => Versions(checkout) \subseteq remote
    BY DEF HistoryAccepted, MigrationList
  <2>2. QED
    BY <1>12, <2>1 DEF VerifyHistory, Gate, Unpushed
<1>13. CASE Fail
  BY <1>13 DEF Fail
<1>14. CASE UNCHANGED vars
  BY <1>14 DEF vars
<1>15. QED
  BY <1>1, <1>2, <1>3, <1>4, <1>5, <1>6, <1>7, <1>8, <1>9, <1>10, <1>11, <1>12,
     <1>13, <1>14 DEF Next

LEMMA Invariance == Spec => []IInv
<1>1. Init => IInv
  BY DeployAssumption DEF Init, IInv, TypeOK, DeployInv, ValidRepository, AcceptedListing,
     MissingIsGated, InspectedIsHarmless, PushedIsHarmless, PushedInOrder,
     NothingPushedYet, AppliedAtTheEnd, Gated, Ended, Versions
<1>2. IInv /\ [Next]_vars => IInv'
  BY TypeStep, InvStep DEF IInv
<1>3. QED
  BY <1>1, <1>2, PTL DEF Spec

\* A deployment reports success only when everything it checked out is applied.
THEOREM SuccessIsApplied == Spec => []SuccessMeansApplied
<1>1. IInv => SuccessMeansApplied
  BY DEF IInv, DeployInv, ValidRepository, AppliedAtTheEnd, SuccessMeansApplied
<1>2. QED
  BY <1>1, Invariance, PTL

-----------------------------------------------------------------------------
(* Induction, with sets in place of predicates.                            *)

\* Induction over the naturals, with a set in place of a predicate.
LEMMA Induction ==
    ASSUME NEW S, 0 \in S, \A n \in Nat : n \in S => n + 1 \in S
    PROVE  Nat \subseteq S
<1> DEFINE T == Nat \ S
<1>1. SUFFICES ASSUME T # {} PROVE FALSE
  OBVIOUS
<1>2. PICK x \in T : \A y \in T : ~ (<<y, x>> \in OpToRel(<, Nat))
  BY <1>1, NatLessThanWellFounded, WFMin
<1>3. \A y \in T : ~ (y < x)
  BY <1>2 DEF OpToRel
<1>4. x # 0 /\ x - 1 \in Nat /\ x - 1 \notin T
  BY <1>3
<1>5. QED
  BY <1>4

-----------------------------------------------------------------------------
(* Concatenations: where each part of FlattenSeq(parts) ends.              *)

\* What the concatenation of two sequences is made of.
LEMMA Concatenation ==
    ASSUME NEW C, NEW s \in Seq(C), NEW t \in Seq(C)
    PROVE  /\ s \o t \in Seq(C)
           /\ Len(s \o t) = Len(s) + Len(t)
           /\ \A k \in 1..Len(s) : (s \o t)[k] = s[k]
           /\ \A k \in 1..Len(t) : (s \o t)[Len(s) + k] = t[k]
OBVIOUS

\* Where the parts end.
PartEnds(parts, ends) ==
    /\ ends \in [0..Len(parts) -> Nat]
    /\ ends[0] = 0
    /\ \A i \in 1..Len(parts) : ends[i] = ends[i - 1] + Len(parts[i])

\* The ends of the parts of a concatenation are well defined.
LEMMA EndsExist ==
    ASSUME NEW C, NEW parts \in Seq(Seq(C))
    PROVE  \E ends : PartEnds(parts, ends)
<1> DEFINE Fits(e, m) == /\ e \in [0..m -> Nat]
                         /\ e[0] = 0
                         /\ \A i \in 1..m : e[i] = e[i - 1] + Len(parts[i])
           S == {m \in Nat : m <= Len(parts) => \E e : Fits(e, m)}
<1>1. 0 \in S
  <2>1. Fits([i \in 0..0 |-> 0], 0)
    OBVIOUS
  <2> HIDE DEF Fits
  <2>2. QED
    BY <2>1
<1>2. ASSUME NEW m \in Nat, m \in S PROVE m + 1 \in S
  <2>1. Len(parts) \in Nat
    OBVIOUS
  <2>2. ASSUME m + 1 <= Len(parts) PROVE \E e : Fits(e, m + 1)
    <3>1. m <= Len(parts) /\ m + 1 \in 1..Len(parts)
      BY <2>1, <2>2
    <3>2. PICK e : Fits(e, m)
      <4> HIDE DEF Fits
      <4>1. QED
        BY <1>2, <3>1
    <3>3. Len(parts[m + 1]) \in Nat
      BY <3>1
    <3> DEFINE f == [i \in 0..(m + 1) |-> IF i = m + 1 THEN e[m] + Len(parts[m + 1]) ELSE e[i]]
    <3>4. f \in [0..(m + 1) -> Nat] /\ f[0] = 0
      BY <3>2, <3>3
    <3>5. ASSUME NEW i \in 1..(m + 1) PROVE f[i] = f[i - 1] + Len(parts[i])
      <4>1. CASE i = m + 1
        BY <4>1
      <4>2. CASE i # m + 1
        <5>1. i \in 1..m /\ i - 1 \in 0..m
          BY <4>2
        <5>2. e[i] = e[i - 1] + Len(parts[i])
          BY <3>2, <5>1
        <5>3. f[i] = e[i] /\ f[i - 1] = e[i - 1]
          BY <5>1
        <5>4. QED
          BY <5>2, <5>3
      <4>3. QED
        BY <4>1, <4>2
    <3>6. Fits(f, m + 1)
      <4> HIDE DEF f
      <4>1. QED
        BY <3>4, <3>5
    <3> HIDE DEF f, Fits
    <3>7. QED
      BY <3>6
  <2> HIDE DEF Fits
  <2>3. QED
    BY <2>2
<1>3. Nat \subseteq S
  <2> HIDE DEF S
  <2>1. QED
    BY <1>1, <1>2, Induction
<1>4. \E e : Fits(e, Len(parts))
  <2> HIDE DEF Fits
  <2>1. Len(parts) \in Nat
    OBVIOUS
  <2>2. QED
    BY <1>3, <2>1
<1>5. QED
  BY <1>4 DEF PartEnds

\* They never decrease, and whatever lies before the last is in some part.
LEMMA EndsGrow ==
    ASSUME NEW C, NEW parts \in Seq(Seq(C)), NEW ends, PartEnds(parts, ends)
    PROVE  /\ \A j \in 0..Len(parts) : \A i \in 0..j : ends[i] <= ends[j]
           /\ \A m \in 1..ends[Len(parts)] :
                 \E i \in 1..Len(parts) : \E k \in 1..Len(parts[i]) : m = ends[i - 1] + k
<1> DEFINE n == Len(parts)
<1>1. /\ n \in Nat /\ \A i \in 1..n : Len(parts[i]) \in Nat
      /\ ends \in [0..n -> Nat] /\ ends[0] = 0
      /\ \A i \in 1..n : ends[i] = ends[i - 1] + Len(parts[i])
  BY DEF PartEnds
<1> HIDE DEF n
<1>2. ASSUME NEW j \in Nat, j + 1 <= n
      PROVE  /\ ends[j + 1] = ends[j] + Len(parts[j + 1]) /\ j + 1 \in 1..n
             /\ Len(parts[j + 1]) \in Nat /\ ends[j] \in Nat /\ (j + 1) - 1 = j
  <2>1. j + 1 \in 1..n /\ (j + 1) - 1 = j /\ j \in 0..n
    BY <1>1, <1>2
  <2>2. QED
    BY <1>1, <2>1
<1> DEFINE Above(j) == \A i \in 0..j : ends[i] <= ends[j]
           S == {j \in Nat : j <= n => Above(j)}
<1>3. 0 \in S
  BY <1>1
<1>4. ASSUME NEW j \in Nat, j \in S PROVE j + 1 \in S
  <2>1. ASSUME j + 1 <= n PROVE Above(j + 1)
    <3>1. SUFFICES ASSUME NEW i \in 0..(j + 1) PROVE ends[i] <= ends[j + 1]
      OBVIOUS
    <3>2. Above(j)
      <4> HIDE DEF Above
      <4>1. QED
        BY <1>1, <1>4, <2>1
    <3>3. CASE i = j + 1
      <4>1. j + 1 \in 0..n
        BY <1>1, <2>1
      <4>2. ends[j + 1] \in Nat
        BY <1>1, <4>1
      <4>3. QED
        BY <3>3, <4>2
    <3>4. CASE i # j + 1
      <4>1. i \in 0..j /\ i \in 0..n
        BY <1>1, <2>1, <3>4
      <4>2. ends[i] <= ends[j] /\ ends[i] \in Nat
        BY <1>1, <3>2, <4>1
      <4>3. QED
        BY <1>2, <2>1, <4>2
    <3>5. QED
      BY <3>3, <3>4
  <2> HIDE DEF Above
  <2>2. QED
    BY <2>1
<1>5. \A j \in 0..n : Above(j)
  <2>1. Nat \subseteq S
    <3> HIDE DEF S
    <3>1. QED
      BY <1>3, <1>4, Induction
  <2> HIDE DEF Above
  <2>2. QED
    BY <1>1, <2>1
<1> DEFINE Met(j) == \A m \in 1..ends[j] :
                        \E i \in 1..n : \E k \in 1..Len(parts[i]) : m = ends[i - 1] + k
           T == {j \in Nat : j <= n => Met(j)}
<1>6. 0 \in T
  BY <1>1
<1>7. ASSUME NEW j \in Nat, j \in T PROVE j + 1 \in T
  <2>1. ASSUME j + 1 <= n PROVE Met(j + 1)
    <3>1. SUFFICES ASSUME NEW m \in 1..ends[j + 1]
                   PROVE  \E i \in 1..n : \E k \in 1..Len(parts[i]) : m = ends[i - 1] + k
      OBVIOUS
    <3>2. Met(j)
      <4> HIDE DEF Met
      <4>1. QED
        BY <1>1, <1>7, <2>1
    <3>3. CASE m <= ends[j]
      <4>1. m \in 1..ends[j]
        BY <1>2, <2>1, <3>3
      <4>2. QED
        BY <3>2, <4>1
    <3>4. CASE m > ends[j]
      <4>1. m - ends[j] \in 1..Len(parts[j + 1]) /\ m = ends[j] + (m - ends[j])
        BY <1>2, <2>1, <3>4
      <4>2. m = ends[(j + 1) - 1] + (m - ends[j])
        BY <1>2, <2>1, <4>1
      <4>3. QED
        BY <1>2, <2>1, <4>1, <4>2
    <3>5. QED
      BY <1>2, <2>1, <3>3, <3>4
  <2> HIDE DEF Met
  <2>2. QED
    BY <2>1
<1>8. Met(n)
  <2>1. Nat \subseteq T
    <3> HIDE DEF T
    <3>1. QED
      BY <1>6, <1>7, Induction
  <2> HIDE DEF Met
  <2>2. QED
    BY <1>1, <2>1
<1>9. QED
  BY <1>5, <1>8 DEF n

\* Every character of the whole is one of a part.
Covers(parts, ends) ==
    \A m \in 1..ends[Len(parts)] :
        \E i \in 1..Len(parts) : \E k \in 1..Len(parts[i]) : m = ends[i - 1] + k

\* The second half of EndsGrow, under a name.
LEMMA EndsCover ==
    ASSUME NEW C, NEW parts \in Seq(Seq(C)), NEW ends, PartEnds(parts, ends)
    PROVE  Covers(parts, ends)
BY EndsGrow DEF Covers

\* FlattenSeq puts every part where the parts before it end.
LEMMA FlattenParts ==
    ASSUME NEW C, NEW parts \in Seq(Seq(C)), NEW ends, PartEnds(parts, ends)
    PROVE  /\ FlattenSeq(parts) \in Seq(C)
           /\ Len(FlattenSeq(parts)) = ends[Len(parts)]
           /\ \A i \in 1..Len(parts) : \A k \in 1..Len(parts[i]) :
                 FlattenSeq(parts)[ends[i - 1] + k] = parts[i][k]
<1> DEFINE n == Len(parts)
           Fits(f, m) == f = [i \in 1..m |-> IF i = 1 THEN parts[i] ELSE f[i - 1] \o parts[i]]
           S == {m \in Nat : \E f : Fits(f, m)}
<1>1. /\ n \in Nat /\ \A i \in 1..n : parts[i] \in Seq(C) /\ Len(parts[i]) \in Nat
      /\ ends \in [0..n -> Nat] /\ ends[0] = 0
      /\ \A i \in 1..n : ends[i] = ends[i - 1] + Len(parts[i])
  BY DEF PartEnds
<1>2. 0 \in S
  <2>1. Fits([i \in 1..0 |-> parts[i]], 0)
    OBVIOUS
  <2> HIDE DEF Fits
  <2>2. QED
    BY <2>1
<1>3. ASSUME NEW m \in Nat, m \in S PROVE m + 1 \in S
  <2>1. PICK f : Fits(f, m)
    <3> HIDE DEF Fits
    <3>1. QED
      BY <1>3
  <2> DEFINE g == [i \in 1..(m + 1) |-> IF i = 1 THEN parts[i] ELSE f[i - 1] \o parts[i]]
  <2>2. \A i \in 1..m : g[i] = f[i]
    <3> SUFFICES ASSUME NEW i \in 1..m PROVE g[i] = f[i]
      OBVIOUS
    <3>1. f[i] = IF i = 1 THEN parts[i] ELSE f[i - 1] \o parts[i]
      BY <2>1
    <3>2. i \in 1..(m + 1)
      OBVIOUS
    <3>3. QED
      BY <3>1, <3>2
  <2>3. \A i \in 1..(m + 1) : i # 1 => i - 1 \in 1..m
    OBVIOUS
  <2>4. Fits(g, m + 1)
    BY <2>2, <2>3
  <2>5. \E h : Fits(h, m + 1)
    <3> HIDE DEF g, Fits
    <3>1. QED
      BY <2>4
  <2> HIDE DEF Fits
  <2>6. QED
    BY <2>5
<1>4. Nat \subseteq S
  <2> HIDE DEF S
  <2>1. QED
    BY <1>2, <1>3, Induction
<1>5. \E f : Fits(f, n)
  <2> HIDE DEF Fits
  <2>1. QED
    BY <1>1, <1>4
<1> DEFINE joined == CHOOSE f : Fits(f, n)
<1>6. Fits(joined, n)
  <2> HIDE DEF Fits
  <2>1. QED
    BY <1>5
<1>7. n # 0 => FlattenSeq(parts) = joined[n]
  BY DEF FlattenSeq
<1> HIDE DEF joined
<1>8. \A i \in 1..n : joined[i] = IF i = 1 THEN parts[i] ELSE joined[i - 1] \o parts[i]
  BY <1>6
<1> HIDE DEF n, Fits, S
<1> DEFINE Spread(s, j) == \A i \in 1..j : \A k \in 1..Len(parts[i]) : s[ends[i - 1] + k] = parts[i][k]
           Joined(j) == joined[j] \in Seq(C) /\ Len(joined[j]) = ends[j] /\ Spread(joined[j], j)
           T == {m \in Nat : m + 1 <= n => Joined(m + 1)}
<1>9. 0 \in T
  <2>1. ASSUME 1 <= n PROVE Joined(1)
    <3>1. 1 \in 1..n /\ 1 - 1 = 0 /\ \A i \in 1..1 : i = 1
      BY <1>1, <2>1
    <3>2. joined[1] = parts[1] /\ parts[1] \in Seq(C) /\ ends[1] = Len(parts[1]) /\ ends[0] = 0
      BY <1>1, <1>8, <3>1
    <3>3. joined[1] \in Seq(C) /\ Len(joined[1]) = ends[1]
      BY <3>2
    <3>4. ASSUME NEW k \in 1..Len(parts[1])
          PROVE  joined[1][ends[0] + k] = parts[1][k]
      <4>1. ends[0] + k = k
        BY <3>2
      <4>2. QED
        BY <3>2, <4>1
    <3>5. Spread(joined[1], 1)
      BY <3>1, <3>4
    <3>6. QED
      <4> HIDE DEF Spread
      <4>1. QED
        BY <3>3, <3>5
  <2> HIDE DEF Joined
  <2>2. QED
    BY <2>1
<1>10. ASSUME NEW m \in Nat, m \in T PROVE m + 1 \in T
  <2> DEFINE j == m + 1
  <2>1. ASSUME j + 1 <= n PROVE Joined(j + 1)
    <3>1. j \in 1..n /\ j + 1 \in 1..n /\ (j + 1) - 1 = j /\ j + 1 # 1 /\ j \in Nat
      BY <1>1, <2>1
    <3>2. Joined(j)
      <4> HIDE DEF Joined
      <4>1. QED
        BY <1>10, <3>1
    <3> HIDE DEF j
    <3>3. joined[j + 1] = joined[j] \o parts[j + 1] /\ parts[j + 1] \in Seq(C)
      BY <1>1, <1>8, <3>1
    <3>4. ends[j + 1] = ends[j] + Len(parts[j + 1]) /\ ends[j] \in Nat
      BY <1>1, <3>1
    <3>5. /\ joined[j] \in Seq(C) /\ Len(joined[j]) = ends[j]
          /\ \A i \in 1..j : \A k \in 1..Len(parts[i]) : joined[j][ends[i - 1] + k] = parts[i][k]
      BY <3>2
    <3> HIDE DEF Joined
    <3>6. /\ joined[j + 1] \in Seq(C)
          /\ Len(joined[j + 1]) = ends[j] + Len(parts[j + 1])
          /\ \A k \in 1..ends[j] : joined[j + 1][k] = joined[j][k]
          /\ \A k \in 1..Len(parts[j + 1]) : joined[j + 1][ends[j] + k] = parts[j + 1][k]
      <4> DEFINE s == joined[j]  t == parts[j + 1]
      <4>1. s \in Seq(C) /\ t \in Seq(C) /\ Len(s) = ends[j] /\ joined[j + 1] = s \o t
        BY <3>3, <3>5
      <4> HIDE DEF s, t
      <4>2. /\ s \o t \in Seq(C)
            /\ Len(s \o t) = Len(s) + Len(t)
            /\ \A k \in 1..Len(s) : (s \o t)[k] = s[k]
            /\ \A k \in 1..Len(t) : (s \o t)[Len(s) + k] = t[k]
        <5>1. s \in Seq(C) /\ t \in Seq(C)
          BY <4>1
        <5>2. QED
          BY <5>1, Concatenation
      <4>3. QED
        BY <4>1, <4>2 DEF s, t
    <3>7. joined[j + 1] \in Seq(C) /\ Len(joined[j + 1]) = ends[j + 1]
      BY <3>4, <3>6
    <3>8. ASSUME NEW i \in 1..j, NEW k \in 1..Len(parts[i])
          PROVE  joined[j + 1][ends[i - 1] + k] = parts[i][k]
      <4>1. ends[i] <= ends[j]
        <5>1. j \in 0..Len(parts) /\ i \in 0..j
          BY <3>1 DEF n
        <5>2. QED
          BY <5>1, EndsGrow
      <4>2. i \in 1..n /\ i - 1 \in 0..n /\ i \in 0..n
        BY <1>1, <3>1
      <4>3. ends[i] = ends[i - 1] + Len(parts[i]) /\ ends[i - 1] \in Nat /\ ends[i] \in Nat
            /\ Len(parts[i]) \in Nat
        BY <1>1, <4>2
      <4>4. ends[i - 1] + k \in 1..ends[j]
        <5> DEFINE a == ends[i - 1]  b == ends[i]  c == ends[j]  d == Len(parts[i])
        <5>1. a \in Nat /\ b \in Nat /\ c \in Nat /\ d \in Nat /\ b = a + d /\ b <= c
          BY <3>4, <4>1, <4>3
        <5>2. k \in 1..d
          OBVIOUS
        <5> HIDE DEF a, b, c, d
        <5>3. a + k \in 1..c
          BY <5>1, <5>2
        <5>4. QED
          BY <5>3 DEF a, c
      <4>5. QED
        BY <3>5, <3>6, <4>4
    <3>9. ASSUME NEW k \in 1..Len(parts[j + 1])
          PROVE  joined[j + 1][ends[(j + 1) - 1] + k] = parts[j + 1][k]
      <4>1. joined[j + 1][ends[j] + k] = parts[j + 1][k]
        BY <3>6
      <4>2. (j + 1) - 1 = j
        BY <3>1
      <4>3. QED
        BY <4>1, <4>2, Zenon
    <3>10. \A i \in 1..(j + 1) : i \in 1..j \/ i = j + 1
      BY <3>1
    <3>11. Spread(joined[j + 1], j + 1)
      BY <3>8, <3>9, <3>10
    <3> HIDE DEF Spread
    <3>12. QED
      BY <3>7, <3>11 DEF Joined
  <2> HIDE DEF Joined
  <2>2. QED
    BY <2>1
<1>11. Nat \subseteq T
  <2> HIDE DEF T
  <2>1. QED
    BY <1>9, <1>10, Induction
<1>12. CASE n = 0
  <2>1. parts = <<>>
    BY <1>12 DEF n
  <2>2. FlattenSeq(parts) = <<>>
    BY <2>1 DEF FlattenSeq
  <2>3. ends[n] = 0
    BY <1>1, <1>12
  <2>4. <<>> \in Seq(C) /\ Len(<<>>) = 0
    OBVIOUS
  <2>5. Len(parts) = 0 /\ FlattenSeq(parts) \in Seq(C) /\ Len(FlattenSeq(parts)) = 0
    <3> HIDE DEF n
    <3>1. QED
      BY <2>1, <2>2, <2>4, Zenon
  <2>6. ends[Len(parts)] = 0
    BY <2>3 DEF n
  <2>7. \A i \in 1..Len(parts) : FALSE
    BY <2>5
  <2>8. QED
    BY <2>5, <2>6, <2>7
<1>13. CASE n # 0
  <2>1. n - 1 \in Nat /\ (n - 1) + 1 = n /\ n <= n
    BY <1>1, <1>13
  <2>2. Joined(n)
    <3> HIDE DEF Joined
    <3>1. QED
      BY <1>11, <2>1
  <2>3. QED
    BY <1>7, <1>13, <2>2 DEF n
<1>14. QED
  BY <1>12, <1>13

-----------------------------------------------------------------------------
(* The scanner's states, as a recursive function, and tokens in a text.     *)

\* The scanner's recursive definition has the function it describes: LexStart,
\* then one LexStep for each character.
LEMMA ScanIsDefined ==
    ASSUME NEW sql, Len(sql) \in Nat
    PROVE  /\ Scan(sql)[0] = LexStart
           /\ \A i \in 1..Len(sql) : Scan(sql)[i] = LexStep(sql, i, Scan(sql)[i - 1])
<1> DEFINE Fits(f, m) == f = [i \in 0..m |-> IF i = 0 THEN LexStart ELSE LexStep(sql, i, f[i - 1])]
           S == {m \in Nat : \E f : Fits(f, m)}
           n == Len(sql)
<1>1. 0 \in S
  <2>1. Fits([i \in 0..0 |-> LexStart], 0)
    OBVIOUS
  <2> HIDE DEF Fits
  <2>2. QED
    BY <2>1
<1>2. ASSUME NEW m \in Nat, m \in S PROVE m + 1 \in S
  <2>1. PICK f : Fits(f, m)
    <3> HIDE DEF Fits
    <3>1. QED
      BY <1>2
  <2> DEFINE g == [i \in 0..(m + 1) |-> IF i = 0 THEN LexStart ELSE LexStep(sql, i, f[i - 1])]
  <2>2. \A i \in 0..m : g[i] = f[i]
    <3> SUFFICES ASSUME NEW i \in 0..m PROVE g[i] = f[i]
      OBVIOUS
    <3>1. f[i] = IF i = 0 THEN LexStart ELSE LexStep(sql, i, f[i - 1])
      BY <2>1
    <3>2. i \in 0..(m + 1)
      OBVIOUS
    <3>3. QED
      BY <3>1, <3>2
  <2>3. \A i \in 0..(m + 1) : i # 0 => i - 1 \in 0..m
    OBVIOUS
  <2>4. Fits(g, m + 1)
    BY <2>2, <2>3
  <2>5. \E h : Fits(h, m + 1)
    <3> HIDE DEF g, Fits
    <3>1. QED
      BY <2>4
  <2> HIDE DEF Fits
  <2>6. QED
    BY <2>5
<1>3. Nat \subseteq S
  <2> HIDE DEF S
  <2>1. QED
    BY <1>1, <1>2, Induction
<1> DEFINE scan == CHOOSE f : Fits(f, n)
<1>4. Fits(scan, n)
  <2>1. \E f : Fits(f, n)
    <3> HIDE DEF Fits
    <3>1. QED
      BY <1>3
  <2> HIDE DEF Fits
  <2>2. QED
    BY <2>1
<1>5. Scan(sql) = scan
  BY DEF Scan
<1> HIDE DEF scan
<1>6. \A i \in 0..n : scan[i] = IF i = 0 THEN LexStart ELSE LexStep(sql, i, scan[i - 1])
  BY <1>4
<1> HIDE DEF n, Fits, S
<1>7. n \in Nat
  BY DEF n
<1>8. scan[0] = LexStart /\ \A i \in 1..n : scan[i] = LexStep(sql, i, scan[i - 1])
  BY <1>6, <1>7
<1>9. QED
  BY <1>5, <1>8 DEF n

\* What each step keeps stays.
LEMMA Stays ==
    ASSUME NEW X, NEW a \in Nat, NEW b \in Nat, a \in X,
           \A i \in (a + 1)..b : i - 1 \in X => i \in X
    PROVE  \A i \in a..b : i \in X
<1> DEFINE S == {m \in Nat : a + m <= b => a + m \in X}
<1>1. 0 \in S
  OBVIOUS
<1>2. ASSUME NEW m \in Nat, m \in S PROVE m + 1 \in S
  <2>1. ASSUME a + (m + 1) <= b PROVE a + (m + 1) \in X
    <3>1. a + m \in X
      BY <1>2, <2>1
    <3>2. a + (m + 1) \in (a + 1)..b /\ (a + (m + 1)) - 1 = a + m
      BY <2>1
    <3>3. QED
      BY <3>1, <3>2
  <2>2. QED
    BY <2>1
<1>3. Nat \subseteq S
  <2> HIDE DEF S
  <2>1. QED
    BY <1>1, <1>2, Induction
<1>4. \A i \in a..b : i - a \in Nat /\ a + (i - a) = i /\ i <= b
  OBVIOUS
<1>5. QED
  BY <1>3, <1>4

\* A token is at i when its characters are there one after another.
LEMMA AtChars ==
    ASSUME NEW C, NEW sql \in Seq(C), NEW i \in 1..Len(sql), NEW token \in Seq(C), token # <<>>
    PROVE  At(sql, i, token)
             <=> /\ i + Len(token) - 1 <= Len(sql)
                 /\ \A k \in 1..Len(token) : sql[i + k - 1] = token[k]
<1> DEFINE n == Len(token)
           part == SubSeq(sql, i, i + n - 1)
<1>1. n \in Nat /\ n >= 1
  OBVIOUS
<1>2. SUFFICES ASSUME i + n - 1 <= Len(sql)
               PROVE  part = token <=> \A k \in 1..n : sql[i + k - 1] = token[k]
  BY DEF At
<1>3. /\ part \in Seq(C) /\ Len(part) = n
      /\ \A k \in 1..n : part[k] = sql[i + k - 1]
  <2> HIDE DEF n
  <2>1. /\ i \in Int /\ i + n - 1 \in Int /\ i <= i + n - 1 /\ (i + n - 1) - i + 1 = n
        /\ \A k \in i..(i + n - 1) : sql[k] \in C
    BY <1>1, <1>2
  <2>2. QED
    BY <2>1, SubSeqProperties
<1> HIDE DEF part
<1>4. part = token <=> \A k \in 1..n : part[k] = token[k]
  BY <1>3, SeqEqual
<1>5. QED
  BY <1>3, <1>4

\* A token of one character.
LEMMA AtOne ==
    ASSUME NEW C, NEW sql \in Seq(C), NEW i \in 1..Len(sql), NEW a \in C
    PROVE  At(sql, i, <<a>>) <=> sql[i] = a
<1> DEFINE token == <<a>>
<1>1. token \in Seq(C)
  OBVIOUS
<1>2. token # <<>>
  OBVIOUS
<1>3. Len(token) = 1 /\ token[1] = a
  OBVIOUS
<1> HIDE DEF token
<1>4. At(sql, i, token) <=> sql[i] = a
  <2>1. \A k \in 1..1 : k = 1
    OBVIOUS
  <2>2. At(sql, i, token) <=> /\ i + Len(token) - 1 <= Len(sql)
                              /\ \A k \in 1..Len(token) : sql[i + k - 1] = token[k]
    BY <1>1, <1>2, AtChars
  <2> HIDE DEF token
  <2>3. QED
    BY <1>3, <2>1, <2>2
<1>5. QED
  BY <1>4 DEF token

\* A token of two characters.
LEMMA AtTwo ==
    ASSUME NEW C, NEW sql \in Seq(C), NEW i \in 1..Len(sql), NEW a \in C, NEW b \in C
    PROVE  At(sql, i, <<a, b>>) <=> i + 1 <= Len(sql) /\ sql[i] = a /\ sql[i + 1] = b
<1> DEFINE token == <<a, b>>
<1>1. token \in Seq(C)
  OBVIOUS
<1>2. token # <<>>
  OBVIOUS
<1>3. Len(token) = 2 /\ token[1] = a /\ token[2] = b
  OBVIOUS
<1> HIDE DEF token
<1>4. At(sql, i, token) <=> i + 1 <= Len(sql) /\ sql[i] = a /\ sql[i + 1] = b
  <2>1. \A k \in 1..2 : k = 1 \/ k = 2
    OBVIOUS
  <2>2. At(sql, i, token) <=> /\ i + Len(token) - 1 <= Len(sql)
                              /\ \A k \in 1..Len(token) : sql[i + k - 1] = token[k]
    BY <1>1, <1>2, AtChars
  <2> HIDE DEF token
  <2>3. QED
    BY <1>3, <2>1, <2>2
<1>5. QED
  BY <1>4 DEF token

\* A token of three characters.
LEMMA AtThree ==
    ASSUME NEW C, NEW sql \in Seq(C), NEW i \in 1..Len(sql), NEW a \in C, NEW b \in C,
           NEW c \in C
    PROVE  At(sql, i, <<a, b, c>>)
             <=> i + 2 <= Len(sql) /\ sql[i] = a /\ sql[i + 1] = b /\ sql[i + 2] = c
<1> DEFINE token == <<a, b, c>>
<1>1. token \in Seq(C)
  OBVIOUS
<1>2. token # <<>>
  OBVIOUS
<1>3. /\ Len(token) = 3
      /\ token[1] = a /\ token[2] = b /\ token[3] = c
  OBVIOUS
<1> HIDE DEF token
<1>4. At(sql, i, token) <=> i + 2 <= Len(sql) /\ sql[i] = a /\ sql[i + 1] = b /\ sql[i + 2] = c
  <2>1. \A k \in 1..3 : k = 1 \/ k = 2 \/ k = 3
    OBVIOUS
  <2>2. At(sql, i, token) <=> /\ i + Len(token) - 1 <= Len(sql)
                              /\ \A k \in 1..Len(token) : sql[i + k - 1] = token[k]
    BY <1>1, <1>2, AtChars
  <2> HIDE DEF token
  <2>3. QED
    BY <1>3, <2>1, <2>2
<1>5. QED
  BY <1>4 DEF token

-----------------------------------------------------------------------------
(* The steps of the scanner.                                               *)

\* The characters tokens are made of.
Tokens == {"-", "/", "*", "'", "\"", "$", "x", "\n", "\\"}

\* The elements of a text.
Chars == STRING \cup Tokens

\* Each of them may be an element of a text.
LEMMA Tokenized ==
    /\ "-" \in Chars /\ "/" \in Chars /\ "*" \in Chars /\ "'" \in Chars /\ "\"" \in Chars
    /\ "$" \in Chars /\ "x" \in Chars /\ "\n" \in Chars /\ "\\" \in Chars
  BY DEF Chars, Tokens

\* The scanner's mode, depth and skip.
Reads(s, mode, depth, skip) ==
    /\ DOMAIN s = {"mode", "depth", "tag", "skip", "hidden"}
    /\ s.mode = mode /\ s.depth = depth /\ s.skip = skip

\* Hide at a token of one character.
LEMMA HidesOne ==
    ASSUME NEW s, NEW m, NEW d, NEW k, Reads(s, m, d, k), NEW mode, NEW r, r = Hide(s, mode, 1)
    PROVE  Reads(r, mode, d, 0) /\ r.hidden /\ r.tag = s.tag
BY DEF Reads, Hide

\* Hide at a token of two characters.
LEMMA HidesTwo ==
    ASSUME NEW s, NEW m, NEW d, NEW k, Reads(s, m, d, k), NEW mode, NEW r, r = Hide(s, mode, 2)
    PROVE  Reads(r, mode, d, 1) /\ r.hidden /\ r.tag = s.tag
BY DEF Reads, Hide

\* Hide at a token of three characters.
LEMMA HidesThree ==
    ASSUME NEW s, NEW m, NEW d, NEW k, Reads(s, m, d, k), NEW mode, NEW r, r = Hide(s, mode, 3)
    PROVE  Reads(r, mode, d, 2) /\ r.hidden /\ r.tag = s.tag
BY DEF Reads, Hide

\* The rest of a token shares the fate of its first character.
LEMMA Skips ==
    ASSUME NEW sql, NEW i, NEW s, NEW m, NEW d
    PROVE  LET r == LexStep(sql, i, s)
           IN /\ Reads(s, m, d, 1) => Reads(r, m, d, 0) /\ r.tag = s.tag /\ r.hidden = s.hidden
              /\ Reads(s, m, d, 2) => Reads(r, m, d, 1) /\ r.tag = s.tag /\ r.hidden = s.hidden
<1> DEFINE r == LexStep(sql, i, s)
<1>1. ASSUME s.skip > 0 PROVE r = [s EXCEPT !.skip = s.skip - 1]
  BY <1>1 DEF LexStep
<1>2. ASSUME Reads(s, m, d, 1) PROVE Reads(r, m, d, 0) /\ r.tag = s.tag /\ r.hidden = s.hidden
  <2>1. r = [s EXCEPT !.skip = 0]
    BY <1>1, <1>2 DEF Reads
  <2> HIDE DEF r
  <2>2. QED
    BY <2>1, <1>2 DEF Reads
<1>3. ASSUME Reads(s, m, d, 2) PROVE Reads(r, m, d, 1) /\ r.tag = s.tag /\ r.hidden = s.hidden
  <2>1. r = [s EXCEPT !.skip = 1]
    BY <1>1, <1>3 DEF Reads
  <2> HIDE DEF r
  <2>2. QED
    BY <2>1, <1>3 DEF Reads
<1>4. QED
  BY <1>2, <1>3

\* Which rule applies in each mode.
LEMMA StepsFrom ==
    ASSUME NEW sql, NEW i, NEW s, NEW d
    PROVE  /\ Reads(s, "normal", d, 0) => LexStep(sql, i, s) = LexNormal(sql, i, s)
           /\ Reads(s, "line-comment", d, 0) =>
                LexStep(sql, i, s) =
                    IF sql[i] = "\n" THEN [s EXCEPT !.mode = "normal", !.hidden = FALSE]
                                     ELSE Hide(s, "line-comment", 1)
           /\ Reads(s, "block-comment", d, 0) => LexStep(sql, i, s) = LexBlockComment(sql, i, s)
           /\ Reads(s, "single-quote", d, 0) => LexStep(sql, i, s) = LexQuote(sql, i, s, "'")
           /\ Reads(s, "double-quote", d, 0) => LexStep(sql, i, s) = LexQuote(sql, i, s, "\"")
           /\ Reads(s, "dollar-quote", d, 0) =>
                LexStep(sql, i, s) = IF At(sql, i, s.tag) THEN Hide(s, "normal", Len(s.tag))
                                                          ELSE Hide(s, "dollar-quote", 1)
<1>1. ASSUME Reads(s, "normal", d, 0)
      PROVE  LexStep(sql, i, s) =
               LexNormal(sql, i, s)
  <2>1. ~ (s.skip > 0) /\ s.mode = "normal"
    BY <1>1 DEF Reads
  <2>2. QED
    BY <2>1, Zenon DEF LexStep
<1>2. ASSUME Reads(s, "line-comment", d, 0)
      PROVE  LexStep(sql, i, s) =
               IF sql[i] = "\n" THEN [s EXCEPT !.mode = "normal", !.hidden = FALSE]
                             ELSE Hide(s, "line-comment", 1)
  <2>1. ~ (s.skip > 0) /\ s.mode = "line-comment"
    BY <1>2 DEF Reads
  <2>2. QED
    BY <2>1, Zenon DEF LexStep
<1>3. ASSUME Reads(s, "block-comment", d, 0)
      PROVE  LexStep(sql, i, s) =
               LexBlockComment(sql, i, s)
  <2>1. ~ (s.skip > 0) /\ s.mode = "block-comment"
    BY <1>3 DEF Reads
  <2>2. QED
    BY <2>1, Zenon DEF LexStep
<1>4. ASSUME Reads(s, "single-quote", d, 0)
      PROVE  LexStep(sql, i, s) =
               LexQuote(sql, i, s, "'")
  <2>1. ~ (s.skip > 0) /\ s.mode = "single-quote"
    BY <1>4 DEF Reads
  <2>2. QED
    BY <2>1, Zenon DEF LexStep
<1>5. ASSUME Reads(s, "double-quote", d, 0)
      PROVE  LexStep(sql, i, s) =
               LexQuote(sql, i, s, "\"")
  <2>1. ~ (s.skip > 0) /\ s.mode = "double-quote"
    BY <1>5 DEF Reads
  <2>2. QED
    BY <2>1, Zenon DEF LexStep
<1>6. ASSUME Reads(s, "dollar-quote", d, 0)
      PROVE  LexStep(sql, i, s) =
               IF At(sql, i, s.tag) THEN Hide(s, "normal", Len(s.tag))
                                  ELSE Hide(s, "dollar-quote", 1)
  <2>1. ~ (s.skip > 0) /\ s.mode = "dollar-quote"
    BY <1>6 DEF Reads
  <2>2. QED
    BY <2>1, Zenon DEF LexStep
<1>7. QED
  BY <1>1, <1>2, <1>3, <1>4, <1>5, <1>6

\* A line comment ends with its line.
LEMMA LineStep ==
    ASSUME NEW sql, NEW i, NEW s, NEW d, Reads(s, "line-comment", d, 0),
           NEW r, r = LexStep(sql, i, s)
    PROVE  /\ sql[i] = "\n" => Reads(r, "normal", d, 0)
           /\ sql[i] # "\n" => Reads(r, "line-comment", d, 0) /\ r.hidden
<1>1. r = IF sql[i] = "\n" THEN [s EXCEPT !.mode = "normal", !.hidden = FALSE]
                           ELSE Hide(s, "line-comment", 1)
  BY StepsFrom
<1>2. CASE sql[i] = "\n"
  BY <1>1, <1>2 DEF Reads
<1>3. CASE sql[i] # "\n"
  BY <1>1, <1>3, HidesOne
<1>4. QED
  BY <1>2, <1>3

\* A dollar quote ends at its own tag only.
LEMMA DollarStep ==
    ASSUME NEW sql, NEW i, NEW s, NEW d, Reads(s, "dollar-quote", d, 0),
           NEW r, r = LexStep(sql, i, s)
    PROVE  /\ At(sql, i, s.tag) => r = Hide(s, "normal", Len(s.tag))
           /\ ~ At(sql, i, s.tag) => Reads(r, "dollar-quote", d, 0) /\ r.hidden /\ r.tag = s.tag
<1>1. r = IF At(sql, i, s.tag) THEN Hide(s, "normal", Len(s.tag)) ELSE Hide(s, "dollar-quote", 1)
  BY StepsFrom
<1>2. QED
  BY <1>1, HidesOne

\* The tokens of two characters.
LEMMA TwoStarts ==
    ASSUME NEW sql \in Seq(Chars), NEW i \in 1..Len(sql)
    PROVE  /\ At(sql, i, <<"-", "-">>) <=> i + 1 <= Len(sql) /\ sql[i] = "-" /\ sql[i + 1] = "-"
           /\ At(sql, i, <<"/", "*">>) <=> i + 1 <= Len(sql) /\ sql[i] = "/" /\ sql[i + 1] = "*"
           /\ At(sql, i, <<"*", "/">>) <=> i + 1 <= Len(sql) /\ sql[i] = "*" /\ sql[i + 1] = "/"
           /\ At(sql, i, <<"'", "'">>) <=> i + 1 <= Len(sql) /\ sql[i] = "'" /\ sql[i + 1] = "'"
           /\ At(sql, i, <<"\"", "\"">>) <=> i + 1 <= Len(sql) /\ sql[i] = "\"" /\ sql[i + 1] = "\""
           /\ At(sql, i, <<"$", "$">>) <=> i + 1 <= Len(sql) /\ sql[i] = "$" /\ sql[i + 1] = "$"
<1>1. At(sql, i, <<"-", "-">>) <=> i + 1 <= Len(sql) /\ sql[i] = "-" /\ sql[i + 1] = "-"
  BY AtTwo, Tokenized
<1>2. At(sql, i, <<"/", "*">>) <=> i + 1 <= Len(sql) /\ sql[i] = "/" /\ sql[i + 1] = "*"
  BY AtTwo, Tokenized
<1>3. At(sql, i, <<"*", "/">>) <=> i + 1 <= Len(sql) /\ sql[i] = "*" /\ sql[i + 1] = "/"
  BY AtTwo, Tokenized
<1>4. At(sql, i, <<"'", "'">>) <=> i + 1 <= Len(sql) /\ sql[i] = "'" /\ sql[i + 1] = "'"
  BY AtTwo, Tokenized
<1>5. At(sql, i, <<"\"", "\"">>) <=> i + 1 <= Len(sql) /\ sql[i] = "\"" /\ sql[i + 1] = "\""
  BY AtTwo, Tokenized
<1>6. At(sql, i, <<"$", "$">>) <=> i + 1 <= Len(sql) /\ sql[i] = "$" /\ sql[i + 1] = "$"
  BY AtTwo, Tokenized
<1>7. QED
  BY <1>1, <1>2, <1>3, <1>4, <1>5, <1>6

\* No dollar quote opens where there is no dollar sign.
LEMMA NoDollar ==
    ASSUME NEW sql, NEW i, sql[i] # "$"
    PROVE  DollarQuotes(sql, i) = {}
BY DEF DollarQuotes

\* Two dashes open a line comment.
LEMMA OpensLine ==
    ASSUME NEW sql \in Seq(Chars), NEW i \in 1..Len(sql), NEW s, NEW d, Reads(s, "normal", d, 0),
           i + 1 <= Len(sql), sql[i] = "-", sql[i + 1] = "-",
           NEW r, r = LexStep(sql, i, s)
    PROVE  Reads(r, "line-comment", d, 1) /\ r.hidden
<1>1. At(sql, i, <<"-", "-">>) /\ ~ At(sql, i, <<"/", "*">>) /\ DollarQuotes(sql, i) = {}
  BY TwoStarts, NoDollar
<1>2. r = LexNormal(sql, i, s)
  BY StepsFrom
<1>3. r = Hide(s, "line-comment", 2)
  BY <1>1, <1>2 DEF LexNormal
<1>4. QED
  BY <1>3, HidesTwo

\* A block comment opens with depth 1.
LEMMA OpensBlock ==
    ASSUME NEW sql \in Seq(Chars), NEW i \in 1..Len(sql), NEW s, NEW d, Reads(s, "normal", d, 0),
           i + 1 <= Len(sql), sql[i] = "/", sql[i + 1] = "*",
           NEW r, r = LexStep(sql, i, s)
    PROVE  Reads(r, "block-comment", 1, 1) /\ r.hidden
<1>1. ~ At(sql, i, <<"-", "-">>) /\ At(sql, i, <<"/", "*">>) /\ DollarQuotes(sql, i) = {}
  BY TwoStarts, NoDollar
<1>2. r = LexNormal(sql, i, s)
  BY StepsFrom
<1>3. PICK h : h = Hide(s, "block-comment", 2)
  OBVIOUS
<1>4. r = [h EXCEPT !.depth = 1]
  BY <1>3, <1>1, <1>2, Zenon DEF LexNormal
<1>5. Reads(h, "block-comment", d, 1) /\ h.hidden
  BY <1>3, HidesTwo
<1>6. QED
  BY <1>4, <1>5 DEF Reads

\* A quote opens a literal or a quoted identifier.
LEMMA OpensQuote ==
    ASSUME NEW sql \in Seq(Chars), NEW i \in 1..Len(sql), NEW s, NEW d, Reads(s, "normal", d, 0),
           NEW r, r = LexStep(sql, i, s)
    PROVE  /\ sql[i] = "'" => Reads(r, "single-quote", d, 0) /\ r.hidden
           /\ sql[i] = "\"" => Reads(r, "double-quote", d, 0) /\ r.hidden
<1>1. ASSUME sql[i] = "'" \/ sql[i] = "\""
      PROVE  ~ At(sql, i, <<"-", "-">>) /\ ~ At(sql, i, <<"/", "*">>) /\ DollarQuotes(sql, i) = {}
  BY <1>1, TwoStarts, NoDollar
<1>2. r = LexNormal(sql, i, s)
  BY StepsFrom
<1>3. CASE sql[i] = "'"
  <2>1. r = Hide(s, "single-quote", 1)
    BY <1>1, <1>2, <1>3 DEF LexNormal
  <2>2. QED
    BY <1>3, <2>1, HidesOne
<1>4. CASE sql[i] = "\""
  <2>1. r = Hide(s, "double-quote", 1)
    BY <1>1, <1>2, <1>4 DEF LexNormal
  <2>2. QED
    BY <1>4, <2>1, HidesOne
<1>5. QED
  BY <1>3, <1>4

\* A character that begins no token is code.
LEMMA ReadsCode ==
    ASSUME NEW sql \in Seq(Chars), NEW i \in 1..Len(sql), NEW s, NEW d, Reads(s, "normal", d, 0),
           sql[i] \notin {"'", "\"", "$"},
           ~ At(sql, i, <<"-", "-">>), ~ At(sql, i, <<"/", "*">>),
           NEW r, r = LexStep(sql, i, s)
    PROVE  Reads(r, "normal", d, 0) /\ ~ r.hidden
<1>1. DollarQuotes(sql, i) = {}
  BY NoDollar
<1>2. r = LexNormal(sql, i, s)
  BY StepsFrom
<1>3. r = [s EXCEPT !.hidden = FALSE]
  BY <1>1, <1>2 DEF LexNormal
<1>4. QED
  BY <1>3 DEF Reads

\* Within quotes: the quote doubled, the quote that ends them, anything else.
LEMMA QuoteStep ==
    ASSUME NEW sql \in Seq(Chars), NEW i \in 1..Len(sql), NEW s, NEW mode, NEW d, Reads(s, mode, d, 0),
           NEW quote \in Chars, quote # "\\", NEW r, r = LexQuote(sql, i, s, quote)
    PROVE  /\ r.hidden
           /\ i + 1 <= Len(sql) /\ sql[i] = quote /\ sql[i + 1] = quote => Reads(r, mode, d, 1)
           /\ sql[i] = quote /\ (i = Len(sql) \/ sql[i + 1] # quote) => Reads(r, "normal", d, 0)
           /\ sql[i] # quote /\ (quote = "'" => sql[i] # "\\") => Reads(r, mode, d, 0)
<1>1. At(sql, i, <<quote, quote>>) <=> i + 1 <= Len(sql) /\ sql[i] = quote /\ sql[i + 1] = quote
  BY AtTwo
<1>2. s.mode = mode
  BY DEF Reads
<1>3. CASE At(sql, i, <<quote, quote>>)
  <2>1. ~ (quote = "'" /\ sql[i] = "\\" /\ i < Len(sql))
    BY <1>1, <1>3
  <2>2. r = Hide(s, mode, 2)
    BY <1>2, <1>3, <2>1, Zenon DEF LexQuote
  <2>3. Reads(r, mode, d, 1) /\ r.hidden
    BY <2>2, HidesTwo
  <2>4. QED
    BY <1>1, <1>3, <2>3
<1>4. CASE sql[i] = quote /\ ~ At(sql, i, <<quote, quote>>)
  <2>1. ~ (quote = "'" /\ sql[i] = "\\" /\ i < Len(sql))
    BY <1>4
  <2>2. r = Hide(s, "normal", 1)
    BY <1>4, <2>1, Zenon DEF LexQuote
  <2>3. Reads(r, "normal", d, 0) /\ r.hidden
    BY <2>2, HidesOne
  <2>4. QED
    BY <1>1, <1>4, <2>3
<1>5. CASE sql[i] # quote
  <2>1. ~ At(sql, i, <<quote, quote>>)
    BY <1>1, <1>5
  <2>2. CASE quote = "'" /\ sql[i] = "\\" /\ i < Len(sql)
    <3>1. r = Hide(s, mode, 2)
      BY <1>2, <1>5, <2>1, <2>2, Zenon DEF LexQuote
    <3>2. QED
      BY <1>5, <2>2, <3>1, HidesTwo
  <2>3. CASE ~ (quote = "'" /\ sql[i] = "\\" /\ i < Len(sql))
    <3>1. r = Hide(s, mode, 1)
      BY <1>2, <1>5, <2>1, <2>3, Zenon DEF LexQuote
    <3>2. QED
      BY <1>5, <3>1, HidesOne
  <2>4. QED
    BY <2>2, <2>3
<1>6. QED
  BY <1>3, <1>4, <1>5

\* Within a block comment: one more, one less or the last, anything else.
LEMMA BlockStep ==
    ASSUME NEW sql \in Seq(Chars), NEW i \in 1..Len(sql), NEW s, NEW d \in Nat, Reads(s, "block-comment", d, 0),
           NEW r, r = LexBlockComment(sql, i, s)
    PROVE  /\ r.hidden
           /\ At(sql, i, <<"/", "*">>) => Reads(r, "block-comment", d + 1, 1)
           /\ At(sql, i, <<"*", "/">>) /\ d = 1 => Reads(r, "normal", 0, 1)
           /\ At(sql, i, <<"*", "/">>) /\ d # 1 => Reads(r, "block-comment", d - 1, 1)
           /\ ~ At(sql, i, <<"/", "*">>) /\ ~ At(sql, i, <<"*", "/">>) => Reads(r, "block-comment", d, 0)
<1>1. ~ (At(sql, i, <<"/", "*">>) /\ At(sql, i, <<"*", "/">>))
  BY TwoStarts
<1>2. s.mode = "block-comment" /\ s.depth = d
  BY DEF Reads
<1>3. CASE At(sql, i, <<"/", "*">>)
  <2>1. PICK h : h = Hide(s, "block-comment", 2)
    OBVIOUS
  <2>2. r = [h EXCEPT !.depth = h.depth + 1]
    BY <1>1, <1>2, <1>3, <2>1, Zenon DEF LexBlockComment
  <2>3. Reads(h, "block-comment", d, 1) /\ h.hidden
    BY <2>1, HidesTwo
  <2>4. Reads(r, "block-comment", d + 1, 1) /\ r.hidden
    BY <2>2, <2>3 DEF Reads
  <2>5. QED
    BY <1>1, <1>3, <2>4
<1>4. CASE At(sql, i, <<"*", "/">>)
  <2>1. PICK m : m = IF d = 1 THEN "normal" ELSE "block-comment"
    OBVIOUS
  <2>2. PICK h : h = Hide(s, m, 2)
    OBVIOUS
  <2>3. r = [h EXCEPT !.depth = h.depth - 1]
    BY <1>1, <1>2, <1>4, <2>1, <2>2, Zenon DEF LexBlockComment
  <2>4. Reads(h, m, d, 1) /\ h.hidden
    BY <2>2, HidesTwo
  <2>5. Reads(r, m, d - 1, 1) /\ r.hidden
    BY <2>3, <2>4 DEF Reads
  <2>6. QED
    BY <1>1, <1>4, <2>1, <2>5
<1>5. CASE ~ At(sql, i, <<"/", "*">>) /\ ~ At(sql, i, <<"*", "/">>)
  <2>1. r = Hide(s, "block-comment", 1)
    BY <1>2, <1>5, Zenon DEF LexBlockComment
  <2>2. QED
    BY <1>5, <2>1, HidesOne
<1>6. QED
  BY <1>3, <1>4, <1>5

\* $$ opens a dollar quote with that tag.
LEMMA OpensDollar ==
    ASSUME NEW sql \in Seq(Chars), NEW i \in 1..Len(sql), NEW s, NEW d, Reads(s, "normal", d, 0),
           i + 1 <= Len(sql), sql[i] = "$", sql[i + 1] = "$",
           NEW r, r = LexStep(sql, i, s)
    PROVE  Reads(r, "dollar-quote", d, 1) /\ r.hidden /\ r.tag = <<"$", "$">>
<1>1. At(sql, i, <<"$", "$">>) /\ ~ At(sql, i, <<"-", "-">>) /\ ~ At(sql, i, <<"/", "*">>)
  BY TwoStarts
<1>2. SubSeq(sql, i, i + 1) = <<"$", "$">>
  BY <1>1 DEF At
<1>3. DollarQuotes(sql, i) = {SubSeq(sql, i, i + 1)}
  <2>1. ASSUME NEW j \in (i + 1)..Len(sql), \A k \in (i + 1)..(j - 1) : sql[k] \in Letters
        PROVE  j = i + 1
    <3>1. j # i + 1 => i + 1 \in (i + 1)..(j - 1)
      OBVIOUS
    <3>2. QED
      BY <2>1, <3>1 DEF Letters
  <2>2. i + 1 \in (i + 1)..Len(sql) /\ \A k \in (i + 1)..((i + 1) - 1) : sql[k] \in Letters
    OBVIOUS
  <2> HIDE DEF Letters
  <2>3. QED
    BY <2>1, <2>2 DEF DollarQuotes
<1>4. PICK t : t = <<"$", "$">>
  OBVIOUS
<1>5. DollarQuotes(sql, i) = {t} /\ Len(t) = 2
  BY <1>2, <1>3, <1>4
<1>6. PICK h : h = Hide(s, "dollar-quote", Len(t))
  OBVIOUS
<1>7. r = LexNormal(sql, i, s)
  BY StepsFrom
<1>8. r = [h EXCEPT !.tag = t]
  <2>1. (CHOOSE u \in DollarQuotes(sql, i) : TRUE) = t
    BY <1>5
  <2>2. DollarQuotes(sql, i) # {} /\ sql[i] # "'" /\ sql[i] # "\""
    BY <1>5, Zenon
  <2>3. QED
    BY <1>1, <1>6, <1>7, <2>1, <2>2, Zenon DEF LexNormal
<1>9. Reads(h, "dollar-quote", d, 1) /\ h.hidden
  BY <1>5, <1>6, HidesTwo
<1>10. Reads(r, "dollar-quote", d, 1) /\ r.hidden /\ r.tag = t
  <2> DEFINE tt == t
  <2>1. QED
    BY <1>8, <1>9 DEF Reads
<1>11. QED
  BY <1>4, <1>10

-----------------------------------------------------------------------------
(* Runs: the scanner reads through code, a comment or a quote.              *)

\* The states of a scan.
Scanned(sql, scan) ==
    /\ sql \in Seq(Chars)
    /\ \A i \in 1..Len(sql) : scan[i] = LexStep(sql, i, scan[i - 1])

\* $x$ opens a dollar quote with that tag.
LEMMA OpensTagged ==
    ASSUME NEW sql \in Seq(Chars), NEW i \in 1..Len(sql), NEW s, NEW d, Reads(s, "normal", d, 0),
           i + 2 <= Len(sql), sql[i] = "$", sql[i + 1] = "x", sql[i + 2] = "$",
           NEW r, r = LexStep(sql, i, s)
    PROVE  Reads(r, "dollar-quote", d, 2) /\ r.hidden /\ r.tag = <<"$", "x", "$">>
<1>1. ~ At(sql, i, <<"-", "-">>) /\ ~ At(sql, i, <<"/", "*">>)
  BY TwoStarts
<1>2. SubSeq(sql, i, i + 2) = <<"$", "x", "$">>
  <2>1. At(sql, i, <<"$", "x", "$">>)
    <3>1. At(sql, i, <<"$", "x", "$">>)
             <=> i + 2 <= Len(sql) /\ sql[i] = "$" /\ sql[i + 1] = "x" /\ sql[i + 2] = "$"
      BY Tokenized, AtThree
    <3>2. QED
      BY <3>1
  <2>2. QED
    BY <2>1 DEF At
<1>3. DollarQuotes(sql, i) = {SubSeq(sql, i, i + 2)}
  <2>1. ASSUME NEW j \in (i + 1)..Len(sql), sql[j] = "$", \A k \in (i + 1)..(j - 1) : sql[k] \in Letters
        PROVE  j = i + 2
    <3>1. j # i + 1
      BY <2>1
    <3>2. j > i + 2 => i + 2 \in (i + 1)..(j - 1)
      OBVIOUS
    <3>3. QED
      BY <2>1, <3>1, <3>2 DEF Letters
  <2>2. i + 2 \in (i + 1)..Len(sql) /\ \A k \in (i + 1)..((i + 2) - 1) : sql[k] \in Letters
    BY DEF Letters
  <2> HIDE DEF Letters
  <2>3. QED
    BY <2>1, <2>2 DEF DollarQuotes
<1>4. PICK t : t = <<"$", "x", "$">>
  OBVIOUS
<1>5. DollarQuotes(sql, i) = {t} /\ Len(t) = 3
  BY <1>2, <1>3, <1>4
<1>6. PICK h : h = Hide(s, "dollar-quote", Len(t))
  OBVIOUS
<1>7. r = LexNormal(sql, i, s)
  BY StepsFrom
<1>8. r = [h EXCEPT !.tag = t]
  <2>1. (CHOOSE u \in DollarQuotes(sql, i) : TRUE) = t
    BY <1>5
  <2>2. DollarQuotes(sql, i) # {} /\ sql[i] # "'" /\ sql[i] # "\""
    BY <1>5, Zenon
  <2>3. QED
    BY <1>1, <1>6, <1>7, <2>1, <2>2, Zenon DEF LexNormal
<1>9. Reads(h, "dollar-quote", d, 2) /\ h.hidden
  BY <1>5, <1>6, HidesThree
<1>10. Reads(r, "dollar-quote", d, 2) /\ r.hidden /\ r.tag = t
  BY <1>8, <1>9 DEF Reads
<1>11. QED
  BY <1>4, <1>10

\* What begins a token on its own.
Special == {"'", "\"", "$"}

\* Code without tokens is left alone, to its last character.
LEMMA CodeRun ==
    ASSUME NEW sql, NEW scan, Scanned(sql, scan), NEW p \in Nat, NEW n \in Nat \ {0},
           p + n <= Len(sql), Reads(scan[p], "normal", 0, 0),
           \A i \in (p + 1)..(p + n) : sql[i] \notin Special,
           \A i \in (p + 1)..(p + n - 1) : /\ ~ (sql[i] = "-" /\ sql[i + 1] = "-")
                                           /\ ~ (sql[i] = "/" /\ sql[i + 1] = "*"),
           sql[p + n] # "-", sql[p + n] # "/"
    PROVE  /\ Reads(scan[p + n], "normal", 0, 0)
           /\ \A i \in (p + 1)..(p + n) : ~ scan[i].hidden
<1>1. ASSUME NEW i \in (p + 1)..(p + n), Reads(scan[i - 1], "normal", 0, 0)
      PROVE  Reads(scan[i], "normal", 0, 0) /\ ~ scan[i].hidden
  <2>1. sql \in Seq(Chars) /\ i \in 1..Len(sql) /\ scan[i] = LexStep(sql, i, scan[i - 1])
    BY DEF Scanned
  <2>2. ~ (i + 1 <= Len(sql) /\ sql[i] = "-" /\ sql[i + 1] = "-")
        /\ ~ (i + 1 <= Len(sql) /\ sql[i] = "/" /\ sql[i + 1] = "*")
    <3>1. i = p + n \/ i \in (p + 1)..(p + n - 1)
      OBVIOUS
    <3>2. QED
      BY <3>1
  <2>3. ~ At(sql, i, <<"-", "-">>) /\ ~ At(sql, i, <<"/", "*">>)
    BY <2>1, <2>2, TwoStarts
  <2>4. sql[i] \notin Special
    OBVIOUS
  <2>5. sql[i] \notin {"'", "\"", "$"}
    BY <2>4, Zenon DEF Special
  <2>6. QED
    BY <1>1, <2>1, <2>3, <2>5, ReadsCode
<1> DEFINE X == {i \in Nat : Reads(scan[i], "normal", 0, 0)}
<1>2. \A i \in p..(p + n) : i \in X
  <2>1. p \in X
    OBVIOUS
  <2>2. \A i \in (p + 1)..(p + n) : i - 1 \in X => i \in X
    BY <1>1
  <2> HIDE DEF X
  <2>3. p + n \in Nat
    OBVIOUS
  <2>4. QED
    BY <2>1, <2>2, <2>3, Stays
<1>3. \A i \in (p + 1)..(p + n) : i - 1 \in p..(p + n)
  OBVIOUS
<1>4. QED
  BY <1>1, <1>2, <1>3

\* A line comment is hidden up to the end of its line.
LEMMA LineRun ==
    ASSUME NEW sql, NEW scan, Scanned(sql, scan), NEW p \in Nat, NEW n \in Nat,
           p + n + 3 <= Len(sql), Reads(scan[p], "normal", 0, 0),
           sql[p + 1] = "-", sql[p + 2] = "-", \A i \in (p + 3)..(p + n + 2) : sql[i] # "\n",
           sql[p + n + 3] = "\n"
    PROVE  /\ Reads(scan[p + n + 3], "normal", 0, 0)
           /\ \A i \in (p + 1)..(p + n + 2) : scan[i].hidden
<1>1. /\ sql \in Seq(Chars) /\ Len(sql) \in Nat
      /\ \A i \in (p + 1)..(p + n + 3) : i \in 1..Len(sql) /\ scan[i] = LexStep(sql, i, scan[i - 1])
  BY DEF Scanned
<1>2. Reads(scan[p + 1], "line-comment", 0, 1) /\ scan[p + 1].hidden
  <2> DEFINE i == p + 1
  <2>1. i \in 1..Len(sql) /\ scan[i] = LexStep(sql, i, scan[p]) /\ i + 1 <= Len(sql)
        /\ sql[i] = "-" /\ sql[i + 1] = "-"
    BY <1>1
  <2> HIDE DEF i
  <2>2. Reads(scan[i], "line-comment", 0, 1) /\ scan[i].hidden
    BY <1>1, <2>1, OpensLine
  <2>3. QED
    BY <2>2 DEF i
<1>3. Reads(scan[p + 2], "line-comment", 0, 0) /\ scan[p + 2].hidden
  <2>1. p + 2 \in (p + 1)..(p + n + 3) /\ (p + 2) - 1 = p + 1
    OBVIOUS
  <2>2. scan[p + 2] = LexStep(sql, p + 2, scan[p + 1])
    BY <1>1, <2>1
  <2>3. QED
    BY <1>2, <2>2, Skips
<1> DEFINE X == {i \in Nat : Reads(scan[i], "line-comment", 0, 0) /\ scan[i].hidden}
<1>4. \A i \in (p + 2)..(p + n + 2) : i \in X
  <2>1. p + 2 \in X
    BY <1>3
  <2>2. ASSUME NEW i \in ((p + 2) + 1)..(p + n + 2), i - 1 \in X PROVE i \in X
    <3>1. i \in (p + 1)..(p + n + 3) /\ i \in (p + 3)..(p + n + 2) /\ i \in Nat
      OBVIOUS
    <3>2. scan[i] = LexStep(sql, i, scan[i - 1]) /\ sql[i] # "\n"
      BY <1>1, <3>1
    <3>3. Reads(scan[i - 1], "line-comment", 0, 0)
      BY <2>2
    <3>4. QED
      BY <3>1, <3>2, <3>3, LineStep
  <2> HIDE DEF X
  <2>3. p + 2 \in Nat /\ p + n + 2 \in Nat
    OBVIOUS
  <2>4. QED
    BY <2>1, <2>2, <2>3, Stays
<1>5. Reads(scan[p + n + 3], "normal", 0, 0)
  <2>1. p + n + 3 \in (p + 1)..(p + n + 3) /\ (p + n + 3) - 1 = p + n + 2 /\ p + n + 2 \in (p + 2)..(p + n + 2)
    OBVIOUS
  <2>2. scan[p + n + 3] = LexStep(sql, p + n + 3, scan[p + n + 2])
    BY <1>1, <2>1
  <2>3. Reads(scan[p + n + 2], "line-comment", 0, 0)
    BY <1>4, <2>1
  <2>4. QED
    BY <2>2, <2>3, LineStep
<1>6. \A i \in (p + 1)..(p + n + 2) : i = p + 1 \/ i \in (p + 2)..(p + n + 2)
  OBVIOUS
<1>7. QED
  BY <1>2, <1>4, <1>5, <1>6

\* A dollar quote is hidden up to the first occurrence of its tag.
LEMMA DollarRun ==
    ASSUME NEW sql, NEW scan, Scanned(sql, scan), NEW a \in Nat, NEW n \in Nat, NEW t, NEW l,
           l = 2 \/ l = 3, Len(t) = l, a + n + l <= Len(sql),
           Reads(scan[a], "dollar-quote", 0, 0), scan[a].tag = t,
           \A i \in (a + 1)..(a + n) : ~ At(sql, i, t), At(sql, a + n + 1, t)
    PROVE  /\ Reads(scan[a + n + l], "normal", 0, 0)
           /\ \A i \in (a + 1)..(a + n + l) : scan[i].hidden
<1>1. /\ sql \in Seq(Chars) /\ Len(sql) \in Nat
      /\ \A i \in (a + 1)..(a + n + l) : i \in 1..Len(sql) /\ scan[i] = LexStep(sql, i, scan[i - 1])
  BY DEF Scanned
<1> DEFINE X == {i \in Nat : /\ Reads(scan[i], "dollar-quote", 0, 0) /\ scan[i].tag = t
                             /\ i # a => scan[i].hidden}
<1>2. \A i \in a..(a + n) : i \in X
  <2>1. a \in X
    OBVIOUS
  <2>2. ASSUME NEW i \in (a + 1)..(a + n), i - 1 \in X PROVE i \in X
    <3>1. i \in (a + 1)..(a + n + l) /\ i \in Nat
      OBVIOUS
    <3>2. scan[i] = LexStep(sql, i, scan[i - 1]) /\ ~ At(sql, i, t)
      BY <1>1, <3>1
    <3>3. Reads(scan[i - 1], "dollar-quote", 0, 0) /\ scan[i - 1].tag = t
      BY <2>2
    <3>4. QED
      BY <3>1, <3>2, <3>3, DollarStep
  <2> HIDE DEF X
  <2>3. a + n \in Nat
    OBVIOUS
  <2>4. QED
    BY <2>1, <2>2, <2>3, Stays
<1> DEFINE b == a + n
<1>3. b \in Nat /\ b \in X /\ b + 1 \in (a + 1)..(a + n + l) /\ b + 2 \in (a + 1)..(a + n + l)
      /\ (b + 1) - 1 = b /\ (b + 2) - 1 = b + 1 /\ b + l = a + n + l
  BY <1>2
<1>4. Reads(scan[b], "dollar-quote", 0, 0) /\ scan[b].tag = t /\ At(sql, b + 1, t)
  BY <1>3
<1> HIDE DEF b
<1>5. scan[b + 1] = Hide(scan[b], "normal", l)
  <2>1. scan[b + 1] = LexStep(sql, b + 1, scan[b])
    BY <1>1, <1>3
  <2>2. At(sql, b + 1, scan[b].tag) /\ Len(scan[b].tag) = l
    BY <1>4
  <2>3. scan[b + 1] = Hide(scan[b], "normal", Len(scan[b].tag))
    BY <1>4, <2>1, <2>2, DollarStep
  <2>4. QED
    BY <2>2, <2>3
<1>6. Reads(scan[b + 1], "normal", 0, l - 1) /\ scan[b + 1].hidden
  BY <1>4, <1>5, HidesTwo, HidesThree
<1>7. scan[b + 2] = LexStep(sql, b + 2, scan[b + 1])
  BY <1>1, <1>3
<1>8. CASE l = 2
  <2>1. Reads(scan[b + 1], "normal", 0, 1)
    BY <1>6, <1>8
  <2>2. Reads(scan[b + 2], "normal", 0, 0) /\ scan[b + 2].hidden
    BY <1>6, <1>7, <2>1, Skips
  <2>3. \A i \in (a + 1)..(a + n + l) : i = b + 1 \/ i = b + 2 \/ (i \in a..(a + n) /\ i # a)
    BY <1>8 DEF b
  <2>4. QED
    BY <1>2, <1>3, <1>6, <1>8, <2>2, <2>3
<1>9. CASE l = 3
  <2>1. Reads(scan[b + 1], "normal", 0, 2)
    BY <1>6, <1>9
  <2>2. Reads(scan[b + 2], "normal", 0, 1) /\ scan[b + 2].hidden
    BY <1>6, <1>7, <2>1, Skips
  <2>3. b + 3 \in (a + 1)..(a + n + l) /\ (b + 3) - 1 = b + 2
    BY <1>9 DEF b
  <2>4. scan[b + 3] = LexStep(sql, b + 3, scan[b + 2])
    BY <1>1, <2>3
  <2>5. Reads(scan[b + 3], "normal", 0, 0) /\ scan[b + 3].hidden
    BY <2>2, <2>4, Skips
  <2>6. \A i \in (a + 1)..(a + n + l) : i = b + 1 \/ i = b + 2 \/ i = b + 3 \/ (i \in a..(a + n) /\ i # a)
    BY <1>9 DEF b
  <2>7. QED
    BY <1>2, <1>3, <1>6, <1>9, <2>2, <2>5, <2>6
<1>10. QED
  BY <1>8, <1>9

\* The mode within each kind of quote.
QuotedBy(mode, quote) ==
    (mode = "single-quote" /\ quote = "'") \/ (mode = "double-quote" /\ quote = "\"")

\* Both quotes are characters, and neither is the backslash.
LEMMA QuotesAreChars ==
    ASSUME NEW mode, NEW quote, QuotedBy(mode, quote)
    PROVE  quote \in Chars /\ quote # "\\"
<1>1. "'" \in Chars /\ "'" # "\\"
  BY Tokenized
<1>2. "\"" \in Chars /\ "\"" # "\\"
  BY Tokenized, Zenon
<1>3. QED
  BY <1>1, <1>2, Zenon DEF QuotedBy

\* Either quote opens its mode.
LEMMA QuoteOpens ==
    ASSUME NEW sql \in Seq(Chars), NEW i \in 1..Len(sql), NEW s, NEW mode, NEW quote,
           QuotedBy(mode, quote), sql[i] = quote, Reads(s, "normal", 0, 0),
           NEW r, r = LexStep(sql, i, s)
    PROVE  Reads(r, mode, 0, 0) /\ r.hidden
<1>1. CASE mode = "single-quote" /\ quote = "'"
  BY <1>1, OpensQuote
<1>2. CASE mode = "double-quote" /\ quote = "\""
  BY <1>2, OpensQuote, Zenon
<1>3. QED
  BY <1>1, <1>2, Zenon DEF QuotedBy

\* Either mode is read by LexQuote.
LEMMA QuoteReads ==
    ASSUME NEW sql, NEW i, NEW s, NEW mode, NEW quote, QuotedBy(mode, quote),
           Reads(s, mode, 0, 0), NEW r, r = LexStep(sql, i, s)
    PROVE  r = LexQuote(sql, i, s, quote)
<1>1. CASE mode = "single-quote" /\ quote = "'"
  BY <1>1, StepsFrom, Zenon
<1>2. CASE mode = "double-quote" /\ quote = "\""
  BY <1>2, StepsFrom, Zenon
<1>3. QED
  BY <1>1, <1>2, Zenon DEF QuotedBy

\* The parts Doubled is made of.
Pieces(text, quote) ==
    [i \in DOMAIN text |-> IF text[i] = quote THEN <<quote, quote>> ELSE <<text[i]>>]

\* Neither quote is escaped by a backslash.
NoEscape(text, quote) == \A j \in 1..Len(text) : quote = "'" => text[j] # "\\"

\* The parts are what is written after p.
Spells(sql, p, parts, ends) ==
    \A j \in 1..Len(parts) : \A k \in 1..Len(parts[j]) : sql[p + ends[j - 1] + k] = parts[j][k]

\* A quote is hidden up to a closing quote that is not doubled: between the
\* pieces the scanner is in its mode, with nothing left to skip.
LEMMA QuoteRun ==
    ASSUME NEW sql, NEW scan, Scanned(sql, scan), NEW p \in Nat, NEW mode, NEW quote,
           QuotedBy(mode, quote), NEW text \in Seq(Chars), NEW ends,
           PartEnds(Pieces(text, quote), ends),
           NoEscape(text, quote),
           p + ends[Len(text)] + 2 <= Len(sql), Reads(scan[p], "normal", 0, 0),
           sql[p + 1] = quote,
           Spells(sql, p + 1, Pieces(text, quote), ends),
           sql[p + ends[Len(text)] + 2] = quote,
           \/ p + ends[Len(text)] + 2 = Len(sql)
           \/ sql[p + ends[Len(text)] + 3] # quote
    PROVE  /\ Reads(scan[p + ends[Len(text)] + 2], "normal", 0, 0)
           /\ \A i \in (p + 1)..(p + ends[Len(text)] + 2) : scan[i].hidden
<1> DEFINE parts == Pieces(text, quote)
           n == Len(text)
           e == ends[n]
           a == p + 1
<1>1. n \in Nat /\ a \in Nat /\ Len(sql) \in Nat /\ sql \in Seq(Chars)
  BY DEF Scanned
<1>2. quote \in Chars /\ quote # "\\"
  BY QuotesAreChars
<1>3. parts \in Seq(Seq(Chars)) /\ Len(parts) = n
  <2>1. \A j \in 1..n : parts[j] \in Seq(Chars)
    BY <1>2 DEF Pieces
  <2>2. DOMAIN parts = 1..n
    BY DEF Pieces
  <2>3. parts = [j \in 1..n |-> parts[j]]
    BY DEF Pieces
  <2> HIDE DEF parts
  <2>4. QED
    BY <1>1, <2>1, <2>2, <2>3
<1>4. /\ ends \in [0..n -> Nat] /\ ends[0] = 0
      /\ \A j \in 1..n : ends[j] = ends[j - 1] + Len(parts[j])
  BY <1>3 DEF PartEnds
<1>5. \A j \in 0..n : ends[j] \in Nat /\ ends[j] <= e
  <2>1. \A j \in 0..n : \A i \in 0..j : ends[i] <= ends[j]
    BY <1>3, EndsGrow
  <2>2. n \in 0..n
    BY <1>1
  <2>3. QED
    BY <1>4, <2>1, <2>2
<1>6. \A m \in 1..e : \E j \in 1..n : \E k \in 1..Len(parts[j]) : m = ends[j - 1] + k
  <2>1. PartEnds(parts, ends) /\ e = ends[n]
    OBVIOUS
  <2> HIDE DEF parts, e, n
  <2> SUFFICES ASSUME NEW m \in 1..e
               PROVE  \E j \in 1..n : \E k \in 1..Len(parts[j]) : m = ends[j - 1] + k
    OBVIOUS
  <2>2. m \in 1..ends[Len(parts)]
    BY <1>3, <2>1
  <2>3. Covers(parts, ends)
    BY <1>3, <2>1, EndsCover
  <2>4. QED
    BY <1>3, <2>2, <2>3 DEF Covers
<1>7. e \in Nat
  BY <1>1, <1>5
<1>8. \A i \in (p + 1)..(p + e + 2) : i \in 1..Len(sql) /\ scan[i] = LexStep(sql, i, scan[i - 1])
  BY <1>7 DEF Scanned
<1>9. Reads(scan[a], mode, 0, 0) /\ scan[a].hidden
  <2>1. p + 1 \in (p + 1)..(p + e + 2) /\ (p + 1) - 1 = p
    <3> HIDE DEF e
    <3>1. QED
      BY <1>7
  <2>2. p + 1 \in 1..Len(sql) /\ scan[p + 1] = LexStep(sql, p + 1, scan[p])
    BY <1>8, <2>1
  <2>3. a \in 1..Len(sql) /\ scan[a] = LexStep(sql, a, scan[p]) /\ sql[a] = quote
    BY <2>2
  <2> HIDE DEF a
  <2>4. QED
    BY <1>1, <2>3, QuoteOpens
<1>10. ASSUME NEW j \in 1..n
       PROVE  \/ text[j] = quote /\ parts[j] = <<quote, quote>> /\ Len(parts[j]) = 2
              \/ text[j] # quote /\ parts[j] = <<text[j]>> /\ Len(parts[j]) = 1
  BY DEF Pieces
<1> HIDE DEF parts, n, e, a
<1>11. ASSUME NEW i \in (a + 1)..(a + e + 1), Reads(scan[i - 1], mode, 0, 0)
       PROVE  i \in 1..Len(sql) /\ scan[i] = LexQuote(sql, i, scan[i - 1], quote)
  <2>1. i \in (p + 1)..(p + e + 2)
    BY <1>7 DEF a
  <2>2. i \in 1..Len(sql) /\ scan[i] = LexStep(sql, i, scan[i - 1])
    BY <1>8, <2>1
  <2>3. scan[i] = LexQuote(sql, i, scan[i - 1], quote)
    BY <1>11, <2>2, QuoteReads
  <2>4. QED
    BY <2>2, <2>3
<1>12. ASSUME NEW j \in 1..n, Reads(scan[a + ends[j - 1]], mode, 0, 0)
       PROVE  /\ Reads(scan[a + ends[j]], mode, 0, 0)
              /\ \A k \in 1..Len(parts[j]) : scan[a + ends[j - 1] + k].hidden
  <2> DEFINE b == a + ends[j - 1]
  <2>1. j \in 0..n /\ j - 1 \in 0..n
    BY <1>1
  <2>2. /\ ends[j - 1] \in Nat /\ ends[j] \in Nat /\ ends[j] <= e
        /\ ends[j] = ends[j - 1] + Len(parts[j])
    BY <1>4, <1>5, <2>1
  <2>3. b \in Nat /\ (b + 1) - 1 = b
    BY <1>1, <2>2
  <2>4. b = a + ends[j - 1]
    OBVIOUS
  <2>5. \A k \in 1..Len(parts[j]) : sql[b + k] = parts[j][k]
    <3>1. Spells(sql, a, parts, ends)
      BY DEF a, parts
    <3>2. QED
      BY <1>3, <3>1 DEF Spells
  <2>6. CASE text[j] = quote
    <3>1. parts[j] = <<quote, quote>> /\ Len(parts[j]) = 2
      BY <1>10, <2>6
    <3>2. sql[b + 1] = quote /\ sql[b + 2] = quote
      <4>1. 1 \in 1..Len(parts[j]) /\ 2 \in 1..Len(parts[j])
        BY <3>1
      <4>2. sql[b + 1] = parts[j][1] /\ sql[b + 2] = parts[j][2]
        BY <2>5, <4>1
      <4>3. parts[j][1] = quote /\ parts[j][2] = quote
        BY <3>1
      <4>4. QED
        BY <4>2, <4>3
    <3>3. b + 1 \in (a + 1)..(a + e + 1) /\ b + 2 \in (a + 1)..(a + e + 1) /\ a + ends[j] = b + 2
          /\ (b + 2) - 1 = b + 1 /\ (b + 1) + 1 = b + 2
      <4> DEFINE f == ends[j - 1]  g == ends[j]
      <4>1. f \in Nat /\ g <= e /\ g = f + 2 /\ b = a + f
        BY <2>2, <2>4, <3>1
      <4> HIDE DEF b, f, g
      <4>2. QED
        BY <1>1, <1>7, <2>3, <4>1 DEF g
    <3> HIDE DEF b
    <3>4. b + 1 \in 1..Len(sql) /\ scan[b + 1] = LexQuote(sql, b + 1, scan[b], quote)
      <4>1. Reads(scan[b], mode, 0, 0)
        BY <1>12 DEF b
      <4>2. Reads(scan[(b + 1) - 1], mode, 0, 0)
        BY <2>3, <4>1
      <4>3. QED
        BY <1>11, <2>3, <3>3, <4>2
    <3>5. b + 2 \in 1..Len(sql)
      <4>1. b + 2 \in (p + 1)..(p + e + 2)
        BY <1>7, <3>3 DEF a
      <4>2. QED
        BY <1>8, <4>1
    <3>6. Reads(scan[b + 1], mode, 0, 1) /\ scan[b + 1].hidden
      <4>1. Reads(scan[b], mode, 0, 0)
        BY <1>12 DEF b
      <4>2. (b + 1) + 1 <= Len(sql)
        BY <2>3, <3>5
      <4>3. sql[(b + 1) + 1] = quote
        BY <3>2, <3>3
      <4>4. QED
        BY <1>1, <1>2, <3>2, <3>4, <4>1, <4>2, <4>3, QuoteStep
    <3>7. scan[b + 2] = LexStep(sql, b + 2, scan[b + 1])
      <4>1. b + 2 \in (p + 1)..(p + e + 2)
        BY <1>7, <3>3 DEF a
      <4>2. QED
        BY <1>8, <3>3, <4>1
    <3>8. Reads(scan[b + 2], mode, 0, 0) /\ scan[b + 2].hidden
      BY <3>6, <3>7, Skips
    <3>9. \A k \in 1..Len(parts[j]) : k = 1 \/ k = 2
      BY <3>1
    <3>10. QED
      BY <3>3, <3>6, <3>8, <3>9 DEF b
  <2>7. CASE text[j] # quote
    <3>1. parts[j] = <<text[j]>> /\ Len(parts[j]) = 1
      BY <1>10, <2>7
    <3>2. sql[b + 1] = text[j]
      <4>1. 1 \in 1..Len(parts[j]) /\ parts[j][1] = text[j]
        BY <3>1
      <4>2. QED
        BY <2>5, <4>1
    <3>3. b + 1 \in (a + 1)..(a + e + 1) /\ a + ends[j] = b + 1
      <4> DEFINE f == ends[j - 1]  g == ends[j]
      <4>1. f \in Nat /\ g <= e /\ g = f + 1 /\ b = a + f
        BY <2>2, <2>4, <3>1
      <4> HIDE DEF b, f, g
      <4>2. QED
        BY <1>1, <1>7, <2>3, <4>1 DEF g
    <3>4. quote = "'" => text[j] # "\\"
      BY DEF n, NoEscape
    <3> HIDE DEF b
    <3>5. Reads(scan[b], mode, 0, 0)
      BY <1>12 DEF b
    <3>6. b + 1 \in 1..Len(sql) /\ scan[b + 1] = LexQuote(sql, b + 1, scan[b], quote)
      <4>1. Reads(scan[(b + 1) - 1], mode, 0, 0)
        BY <2>3, <3>5
      <4>2. QED
        BY <1>11, <2>3, <3>3, <4>1
    <3>7. Reads(scan[b + 1], mode, 0, 0) /\ scan[b + 1].hidden
      BY <1>1, <1>2, <2>7, <3>2, <3>4, <3>5, <3>6, QuoteStep
    <3>8. \A k \in 1..Len(parts[j]) : k = 1
      BY <3>1
    <3>9. QED
      BY <3>3, <3>7, <3>8 DEF b
  <2>8. QED
    BY <2>6, <2>7
<1> DEFINE X == {j \in Nat : Reads(scan[a + ends[j]], mode, 0, 0)}
<1>13. \A j \in 0..n : j \in X
  <2>1. 0 \in X
    <3>1. a + ends[0] = a
      BY <1>1, <1>4
    <3>2. QED
      BY <1>9, <3>1
  <2>2. ASSUME NEW j \in (0 + 1)..n, j - 1 \in X PROVE j \in X
    <3>1. j \in 1..n /\ j \in Nat
      BY <1>1
    <3>2. QED
      BY <1>12, <2>2, <3>1
  <2> HIDE DEF X
  <2>3. QED
    BY <1>1, <2>1, <2>2, Stays
<1>14. \A m \in 1..e : scan[a + m].hidden
  <2> SUFFICES ASSUME NEW m \in 1..e PROVE scan[a + m].hidden
    OBVIOUS
  <2>1. PICK j \in 1..n : \E k \in 1..Len(parts[j]) : m = ends[j - 1] + k
    BY <1>6
  <2>2. PICK k \in 1..Len(parts[j]) : m = ends[j - 1] + k
    BY <2>1
  <2>3. j - 1 \in 0..n /\ j - 1 \in X
    <3> HIDE DEF X
    <3>1. QED
      BY <1>1, <1>13
  <2>4. scan[a + ends[j - 1] + k].hidden
    BY <1>12, <2>3
  <2>5. ends[j - 1] \in Nat /\ k \in Nat
    <3>1. Len(parts[j]) \in Nat
      BY <1>10
    <3>2. QED
      BY <1>5, <2>3, <3>1
  <2>6. a + ends[j - 1] + k = a + m
    BY <1>1, <2>2, <2>5
  <2>7. QED
    BY <2>4, <2>6
<1>15. Reads(scan[a + e + 1], "normal", 0, 0) /\ scan[a + e + 1].hidden
  <2> DEFINE i == a + e + 1
  <2>1. i \in (a + 1)..(a + e + 1) /\ i - 1 = a + e /\ i = p + e + 2
    BY <1>1, <1>7 DEF a
  <2>2. Reads(scan[a + e], mode, 0, 0)
    BY <1>1, <1>13 DEF e
  <2>3. sql[i] = quote /\ (i = Len(sql) \/ sql[i + 1] # quote)
    <3>1. sql[p + e + 2] = quote /\ (p + e + 2 = Len(sql) \/ sql[p + e + 3] # quote)
      BY DEF e, n
    <3>2. p + e + 3 = i + 1
      BY <1>7, <2>1
    <3>3. QED
      BY <2>1, <3>1, <3>2
  <2> HIDE DEF i
  <2>4. i \in 1..Len(sql) /\ scan[i] = LexQuote(sql, i, scan[a + e], quote)
    BY <1>11, <2>1, <2>2
  <2>5. Reads(scan[i], "normal", 0, 0) /\ scan[i].hidden
    BY <1>1, <1>2, <2>2, <2>3, <2>4, QuoteStep
  <2>6. QED
    BY <2>5 DEF i
<1>16. \A i \in (p + 1)..(p + e + 2) : i = a \/ i = a + e + 1 \/ (i - a \in 1..e /\ a + (i - a) = i)
  BY <1>7 DEF a
<1>17. a + e + 1 = p + e + 2
  BY <1>7 DEF a
<1>18. \A i \in (p + 1)..(p + e + 2) : scan[i].hidden
  BY <1>9, <1>14, <1>15, <1>16
<1>19. Reads(scan[p + e + 2], "normal", 0, 0)
  BY <1>15, <1>17
<1>20. QED
  BY <1>18, <1>19 DEF e, n

\* How often x is among the first n elements.
Count(text, x, n) == Cardinality({i \in 1..n : text[i] = x})

\* One more element, one more or none.
LEMMA CountStep ==
    ASSUME NEW text, NEW x, NEW j \in Nat
    PROVE  /\ Count(text, x, j) \in Nat
           /\ Count(text, x, j + 1) = Count(text, x, j) + IF text[j + 1] = x THEN 1 ELSE 0
<1> DEFINE A == {i \in 1..j : text[i] = x}
           B == {i \in 1..(j + 1) : text[i] = x}
<1>1. Count(text, x, j) = Cardinality(A) /\ Count(text, x, j + 1) = Cardinality(B)
  BY DEF Count
<1>2. IsFiniteSet(A) /\ Cardinality(A) \in Nat /\ j + 1 \notin A
  <2>1. IsFiniteSet(1..j) /\ A \subseteq 1..j
    BY FS_Interval
  <2>2. QED
    BY <2>1, FS_Subset, FS_CardinalityType
<1>3. CASE text[j + 1] = x
  <2>1. B = A \cup {j + 1}
    BY <1>3
  <2> HIDE DEF A, B
  <2>2. Cardinality(B) = Cardinality(A) + 1
    BY <1>2, <2>1, FS_AddElement
  <2>3. QED
    BY <1>1, <1>2, <1>3, <2>2
<1>4. CASE text[j + 1] # x
  <2>1. B = A
    BY <1>4
  <2> HIDE DEF A, B
  <2>2. QED
    BY <1>1, <1>2, <1>4, <2>1
<1> HIDE DEF A, B
<1>5. QED
  BY <1>1, <1>2, <1>3, <1>4

\* How OpenIn changes from element to element.
LEMMA OpenSteps ==
    ASSUME NEW text
    PROVE  /\ OpenIn(text, 0) = 0
           /\ \A j \in Nat : OpenIn(text, j) \in Int
           /\ \A j \in Nat :
                 /\ text[j + 1] = "/*" => OpenIn(text, j + 1) = OpenIn(text, j) + 1
                 /\ text[j + 1] = "*/" => OpenIn(text, j + 1) = OpenIn(text, j) - 1
                 /\ text[j + 1] \notin {"/*", "*/"} => OpenIn(text, j + 1) = OpenIn(text, j)
<1>1. OpenIn(text, 0) = 0
  <2>1. {i \in 1..0 : text[i] = "/*"} = {} /\ {i \in 1..0 : text[i] = "*/"} = {}
    OBVIOUS
  <2>2. Cardinality({}) = 0
    BY FS_EmptySet
  <2>3. QED
    BY <2>1, <2>2 DEF OpenIn
<1>2. ASSUME NEW j \in Nat
      PROVE  /\ OpenIn(text, j) \in Int
             /\ text[j + 1] = "/*" => OpenIn(text, j + 1) = OpenIn(text, j) + 1
             /\ text[j + 1] = "*/" => OpenIn(text, j + 1) = OpenIn(text, j) - 1
             /\ text[j + 1] \notin {"/*", "*/"} => OpenIn(text, j + 1) = OpenIn(text, j)
  <2>1. /\ Count(text, "/*", j) \in Nat
        /\ Count(text, "/*", j + 1) = Count(text, "/*", j) + IF text[j + 1] = "/*" THEN 1 ELSE 0
    BY CountStep
  <2>2. /\ Count(text, "*/", j) \in Nat
        /\ Count(text, "*/", j + 1) = Count(text, "*/", j) + IF text[j + 1] = "*/" THEN 1 ELSE 0
    BY CountStep
  <2>3. \A n : OpenIn(text, n) = Count(text, "/*", n) - Count(text, "*/", n)
    BY DEF OpenIn, Count
  <2>4. QED
    BY <2>1, <2>2, <2>3
<1>3. QED
  BY <1>1, <1>2

\* The parts Nested is made of.
NestedPieces(text) ==
    [i \in DOMAIN text |->
        CASE text[i] = "/*" -> <<"/", "*">>
          [] text[i] = "*/" -> <<"*", "/">>
          [] OTHER          -> <<text[i]>>]

\* The character an element of a comment's text is written with first.
FirstOf(x) == CASE x = "/*" -> "/" [] x = "*/" -> "*" [] OTHER -> x

\* Each of those parts.
LEMMA NestedPiece ==
    ASSUME NEW text \in Seq(Chars), NEW j \in 1..Len(text), NEW piece, piece = NestedPieces(text)[j]
    PROVE  /\ text[j] = "/*" => piece = <<"/", "*">>
           /\ text[j] = "*/" => piece = <<"*", "/">>
           /\ text[j] \notin {"/*", "*/"} => piece = <<text[j]>>
           /\ piece \in Seq(Chars)
           /\ Len(piece) \in {1, 2}
           /\ piece[1] = FirstOf(text[j])
<1>1. piece = CASE text[j] = "/*" -> <<"/", "*">>
                [] text[j] = "*/" -> <<"*", "/">>
                [] OTHER          -> <<text[j]>>
  BY DEF NestedPieces
<1>2. "/" \in Chars /\ "*" \in Chars /\ text[j] \in Chars
  <2>1. "/" \in Chars /\ "*" \in Chars
    BY Tokenized
  <2>2. QED
    BY <2>1
<1>3. CASE text[j] = "/*"
  BY <1>1, <1>2, <1>3 DEF FirstOf
<1>4. CASE text[j] = "*/"
  BY <1>1, <1>2, <1>4 DEF FirstOf
<1>5. CASE text[j] \notin {"/*", "*/"}
  BY <1>1, <1>2, <1>5 DEF FirstOf
<1>6. QED
  BY <1>3, <1>4, <1>5

\* BlockStep in terms of the two characters at i.
LEMMA ReadsComment ==
    ASSUME NEW sql \in Seq(Chars), NEW i \in 1..Len(sql), NEW s, NEW d \in Nat,
           Reads(s, "block-comment", d, 0), NEW r, r = LexStep(sql, i, s)
    PROVE  /\ r.hidden
           /\ i + 1 <= Len(sql) /\ sql[i] = "/" /\ sql[i + 1] = "*" => Reads(r, "block-comment", d + 1, 1)
           /\ i + 1 <= Len(sql) /\ sql[i] = "*" /\ sql[i + 1] = "/" =>
                /\ d = 1 => Reads(r, "normal", 0, 1)
                /\ d # 1 => Reads(r, "block-comment", d - 1, 1)
           /\ ~ (sql[i] = "/" /\ sql[i + 1] = "*") /\ ~ (sql[i] = "*" /\ sql[i + 1] = "/") =>
                Reads(r, "block-comment", d, 0)
<1>1. r = LexBlockComment(sql, i, s)
  BY StepsFrom
<1>2. /\ At(sql, i, <<"/", "*">>) <=> i + 1 <= Len(sql) /\ sql[i] = "/" /\ sql[i + 1] = "*"
      /\ At(sql, i, <<"*", "/">>) <=> i + 1 <= Len(sql) /\ sql[i] = "*" /\ sql[i + 1] = "/"
  BY TwoStarts
<1>3. /\ r.hidden
      /\ At(sql, i, <<"/", "*">>) => Reads(r, "block-comment", d + 1, 1)
      /\ At(sql, i, <<"*", "/">>) /\ d = 1 => Reads(r, "normal", 0, 1)
      /\ At(sql, i, <<"*", "/">>) /\ d # 1 => Reads(r, "block-comment", d - 1, 1)
      /\ ~ At(sql, i, <<"/", "*">>) /\ ~ At(sql, i, <<"*", "/">>) => Reads(r, "block-comment", d, 0)
  BY <1>1, BlockStep
<1>4. QED
  BY <1>2, <1>3

\* They are parts of a text, one for each element.
LEMMA NestedAreParts ==
    ASSUME NEW text \in Seq(Chars)
    PROVE  NestedPieces(text) \in Seq(Seq(Chars)) /\ Len(NestedPieces(text)) = Len(text)
<1> DEFINE parts == NestedPieces(text)
           n == Len(text)
<1>1. n \in Nat /\ \A j \in 1..n : parts[j] \in Seq(Chars)
  <2>1. n \in Nat
    OBVIOUS
  <2> SUFFICES ASSUME NEW j \in 1..n PROVE parts[j] \in Seq(Chars)
    BY <2>1
  <2>2. QED
    BY NestedPiece
<1>2. parts = [j \in 1..n |-> parts[j]]
  BY DEF NestedPieces
<1> HIDE DEF parts, n
<1>3. parts \in Seq(Seq(Chars)) /\ Len(parts) = n
  BY <1>1, <1>2
<1>4. QED
  BY <1>3 DEF parts, n

\* What ClosesWithin says of an element and what is written after it.
LEMMA NoStraddling ==
    ASSUME NEW text \in Seq(Chars), ClosesWithin(text), NEW j \in 1..Len(text),
           NEW after, IF j = Len(text) THEN after = "*" ELSE after = FirstOf(text[j + 1])
    PROVE  ~ (text[j] = "/" /\ after = "*") /\ ~ (text[j] = "*" /\ after = "/")
<1> DEFINE next == IF j = Len(text) THEN "*/" ELSE text[j + 1]
<1>1. text[j] = "/" => next \notin {"*", "*/"}
  BY DEF ClosesWithin
<1>2. text[j] = "*" => next \notin {"/", "/*"}
  BY DEF ClosesWithin
<1>3. after = FirstOf(next)
  BY DEF FirstOf
<1> HIDE DEF next
<1>4. (FirstOf(next) = "*" => next \in {"*", "*/"}) /\ (FirstOf(next) = "/" => next \in {"/", "/*"})
  BY DEF FirstOf
<1>5. QED
  BY <1>1, <1>2, <1>3, <1>4

\* A block comment is hidden up to the end that closes the first: between the
\* pieces the depth is the number of comments open.
LEMMA BlockRun ==
    ASSUME NEW sql, NEW scan, Scanned(sql, scan), NEW p \in Nat, NEW text \in Seq(Chars),
           ClosesWithin(text), NEW ends, PartEnds(NestedPieces(text), ends),
           p + ends[Len(text)] + 4 <= Len(sql), Reads(scan[p], "normal", 0, 0),
           sql[p + 1] = "/", sql[p + 2] = "*",
           Spells(sql, p + 2, NestedPieces(text), ends),
           sql[p + ends[Len(text)] + 3] = "*", sql[p + ends[Len(text)] + 4] = "/"
    PROVE  /\ Reads(scan[p + ends[Len(text)] + 4], "normal", 0, 0)
           /\ \A i \in (p + 1)..(p + ends[Len(text)] + 4) : scan[i].hidden
<1> DEFINE parts == NestedPieces(text)
           n == Len(text)
           e == ends[n]
           a == p + 2
           d(j) == 1 + OpenIn(text, j)
<1>1. n \in Nat /\ a \in Nat /\ Len(sql) \in Nat /\ sql \in Seq(Chars)
  BY DEF Scanned
<1>2. parts \in Seq(Seq(Chars)) /\ Len(parts) = n
  BY NestedAreParts
<1>3. /\ ends \in [0..n -> Nat] /\ ends[0] = 0
      /\ \A j \in 1..n : ends[j] = ends[j - 1] + Len(parts[j])
  BY <1>2 DEF PartEnds
<1>4. \A j \in 0..n : ends[j] \in Nat /\ ends[j] <= e
  <2>1. \A j \in 0..n : \A i \in 0..j : ends[i] <= ends[j]
    BY <1>2, EndsGrow
  <2>2. n \in 0..n
    BY <1>1
  <2>3. QED
    BY <1>3, <2>1, <2>2
<1>5. \A m \in 1..e : \E j \in 1..n : \E k \in 1..Len(parts[j]) : m = ends[j - 1] + k
  <2>1. PartEnds(parts, ends) /\ e = ends[n]
    OBVIOUS
  <2> HIDE DEF parts, e, n
  <2> SUFFICES ASSUME NEW m \in 1..e
               PROVE  \E j \in 1..n : \E k \in 1..Len(parts[j]) : m = ends[j - 1] + k
    OBVIOUS
  <2>2. m \in 1..ends[Len(parts)]
    BY <1>2, <2>1
  <2>3. Covers(parts, ends)
    BY <1>2, <2>1, EndsCover
  <2>4. QED
    BY <1>2, <2>2, <2>3 DEF Covers
<1>6. e \in Nat /\ a = p + 2
  BY <1>1, <1>4
<1>7. \A i \in (p + 1)..(p + e + 4) : i \in 1..Len(sql) /\ scan[i] = LexStep(sql, i, scan[i - 1])
  BY <1>6 DEF Scanned
<1>8. ASSUME NEW j \in 1..n
      PROVE  /\ text[j] = "/*" => parts[j] = <<"/", "*">>
             /\ text[j] = "*/" => parts[j] = <<"*", "/">>
             /\ text[j] \notin {"/*", "*/"} => parts[j] = <<text[j]>>
             /\ Len(parts[j]) \in {1, 2} /\ parts[j][1] = FirstOf(text[j])
             /\ \A k \in 1..Len(parts[j]) : sql[a + ends[j - 1] + k] = parts[j][k]
  <2>1. \A k \in 1..Len(parts[j]) : sql[a + ends[j - 1] + k] = parts[j][k]
    <3>1. Spells(sql, a, parts, ends)
      OBVIOUS
    <3> HIDE DEF parts, n, a
    <3>2. QED
      BY <1>2, <3>1 DEF Spells
  <2>2. QED
    BY <2>1, NestedPiece
<1>9. d(0) = 1 /\ d(n) = 1
      /\ \A j \in 1..n :
            /\ d(j) \in Nat \ {0} /\ d(j - 1) \in Nat \ {0}
            /\ text[j] = "/*" => d(j) = d(j - 1) + 1
            /\ text[j] = "*/" => d(j) = d(j - 1) - 1
            /\ text[j] \notin {"/*", "*/"} => d(j) = d(j - 1)
  <2>1. OpenIn(text, 0) = 0 /\ OpenIn(text, n) = 0
    BY OpenSteps DEF ClosesWithin
  <2>2. \A j \in 0..n : OpenIn(text, j) \in Nat
    <3> SUFFICES ASSUME NEW j \in 0..n PROVE OpenIn(text, j) \in Nat
      OBVIOUS
    <3>1. OpenIn(text, j) \in Int
      BY OpenSteps
    <3>2. CASE j = 0
      BY <2>1, <3>2
    <3>3. CASE j # 0
      <4>1. j \in DOMAIN text
        BY <3>3
      <4>2. OpenIn(text, j) >= 0
        BY <4>1 DEF ClosesWithin
      <4>3. QED
        BY <3>1, <4>2
    <3>4. QED
      BY <3>2, <3>3
  <2>3. ASSUME NEW j \in 1..n
        PROVE  /\ d(j) \in Nat \ {0} /\ d(j - 1) \in Nat \ {0}
               /\ text[j] = "/*" => d(j) = d(j - 1) + 1
               /\ text[j] = "*/" => d(j) = d(j - 1) - 1
               /\ text[j] \notin {"/*", "*/"} => d(j) = d(j - 1)
    <3>1. j - 1 \in 0..n /\ j \in 0..n /\ j - 1 \in Nat /\ (j - 1) + 1 = j
      BY <1>1
    <3>2. OpenIn(text, j) \in Nat /\ OpenIn(text, j - 1) \in Nat
      BY <2>2, <3>1
    <3>3. /\ text[(j - 1) + 1] = "/*" => OpenIn(text, (j - 1) + 1) = OpenIn(text, j - 1) + 1
          /\ text[(j - 1) + 1] = "*/" => OpenIn(text, (j - 1) + 1) = OpenIn(text, j - 1) - 1
          /\ text[(j - 1) + 1] \notin {"/*", "*/"} => OpenIn(text, (j - 1) + 1) = OpenIn(text, j - 1)
      BY <3>1, OpenSteps
    <3>4. PICK before, after : before = OpenIn(text, j - 1) /\ after = OpenIn(text, j)
      OBVIOUS
    <3>5. /\ before \in Nat /\ after \in Nat
          /\ text[j] = "/*" => after = before + 1
          /\ text[j] = "*/" => after = before - 1
          /\ text[j] \notin {"/*", "*/"} => after = before
      BY <3>1, <3>2, <3>3, <3>4
    <3>6. d(j) = 1 + after /\ d(j - 1) = 1 + before
      BY <3>4
    <3> HIDE DEF parts, n, e, a, d
    <3>7. QED
      BY <3>5, <3>6
  <2>4. QED
    BY <2>1, <2>3
<1> HIDE DEF parts, n, e, a, d
<1>10. Reads(scan[a], "block-comment", 1, 0) /\ scan[p + 1].hidden /\ scan[a].hidden
  <2>1. p + 1 \in (p + 1)..(p + e + 4) /\ p + 2 \in (p + 1)..(p + e + 4)
        /\ (p + 1) - 1 = p /\ (p + 2) - 1 = p + 1 /\ (p + 1) + 1 = p + 2
    BY <1>6
  <2>2. p + 1 \in 1..Len(sql) /\ scan[p + 1] = LexStep(sql, p + 1, scan[p])
        /\ p + 2 \in 1..Len(sql) /\ scan[p + 2] = LexStep(sql, p + 2, scan[p + 1])
    BY <1>7, <2>1
  <2>3. Reads(scan[p + 1], "block-comment", 1, 1) /\ scan[p + 1].hidden
    <3>1. (p + 1) + 1 <= Len(sql) /\ sql[(p + 1) + 1] = "*"
      BY <1>1, <2>1, <2>2
    <3>2. QED
      BY <1>1, <2>2, <3>1, OpensBlock
  <2>4. Reads(scan[p + 2], "block-comment", 1, 0) /\ scan[p + 2].hidden
    BY <2>2, <2>3, Skips
  <2>5. QED
    BY <1>6, <2>3, <2>4
<1>11. ASSUME NEW j \in 1..n
       PROVE  sql[a + ends[j] + 1] = IF j = n THEN "*" ELSE FirstOf(text[j + 1])
  <2>1. CASE j = n
    <3>1. sql[p + e + 3] = "*"
      BY DEF e, n
    <3>2. ends[j] = e
      BY <2>1 DEF e
    <3>3. a + e + 1 = p + e + 3
      BY <1>6
    <3>4. QED
      BY <2>1, <3>1, <3>2, <3>3
  <2>2. CASE j # n
    <3>1. j + 1 \in 1..n /\ (j + 1) - 1 = j
      BY <1>1, <2>2
    <3>2. Len(parts[j + 1]) \in {1, 2} /\ parts[j + 1][1] = FirstOf(text[j + 1])
      BY <1>8, <3>1
    <3>3. sql[a + ends[(j + 1) - 1] + 1] = parts[j + 1][1]
      <4>1. 1 \in 1..Len(parts[j + 1])
        BY <3>2
      <4>2. QED
        BY <1>8, <3>1, <4>1
    <3>4. QED
      BY <2>2, <3>1, <3>2, <3>3
  <2>3. QED
    BY <2>1, <2>2
<1>12. ASSUME NEW j \in 1..n, Reads(scan[a + ends[j - 1]], "block-comment", d(j - 1), 0)
       PROVE  /\ Reads(scan[a + ends[j]], "block-comment", d(j), 0)
              /\ \A k \in 1..Len(parts[j]) : scan[a + ends[j - 1] + k].hidden
  <2> DEFINE b == a + ends[j - 1]
             f == ends[j - 1]
             g == ends[j]
             l == Len(parts[j])
  <2>1. j \in 0..n /\ j - 1 \in 0..n
    BY <1>1
  <2>2. f \in Nat /\ g \in Nat /\ g <= e /\ g = f + l /\ l \in {1, 2} /\ b = a + f
    BY <1>3, <1>4, <1>8, <2>1
  <2>3. Reads(scan[b], "block-comment", d(j - 1), 0) /\ d(j - 1) \in Nat \ {0}
    BY <1>9, <1>12
  <2>4. \A k \in 1..l : sql[b + k] = parts[j][k]
    BY <1>8
  <2>5. sql[a + g + 1] = IF j = n THEN "*" ELSE FirstOf(text[j + 1])
    BY <1>11
  <2>6. QED
    <3> HIDE DEF b, f, g, l
    <3>1. /\ b \in Nat /\ b + 1 \in (p + 1)..(p + e + 4) /\ b + 2 \in (p + 1)..(p + e + 4)
          /\ (b + 1) - 1 = b /\ (b + 2) - 1 = b + 1 /\ (b + 1) + 1 = b + 2
          /\ l = 1 => a + g = b + 1
          /\ l = 2 => a + g = b + 2
      BY <1>1, <1>6, <2>2
    <3>2. b + 1 \in 1..Len(sql) /\ scan[b + 1] = LexStep(sql, b + 1, scan[b])
          /\ b + 2 \in 1..Len(sql) /\ scan[b + 2] = LexStep(sql, b + 2, scan[b + 1])
          /\ (b + 1) + 1 <= Len(sql)
      BY <1>1, <1>7, <3>1
    <3>3. ASSUME l = 2, Reads(scan[b + 1], "block-comment", d(j), 1), scan[b + 1].hidden
          PROVE  /\ Reads(scan[a + g], "block-comment", d(j), 0)
                 /\ \A k \in 1..l : scan[b + k].hidden
      <4>1. Reads(scan[b + 2], "block-comment", d(j), 0) /\ scan[b + 2].hidden
        BY <3>2, <3>3, Skips
      <4>2. \A k \in 1..l : k = 1 \/ k = 2
        BY <3>3
      <4>3. QED
        BY <3>1, <3>3, <4>1, <4>2
    <3>4. CASE text[j] = "/*"
      <4>1. parts[j] = <<"/", "*">>
        BY <1>8, <3>4
      <4>2. l = 2 /\ sql[b + 1] = "/" /\ sql[b + 2] = "*"
        <5>1. l = 2 /\ parts[j][1] = "/" /\ parts[j][2] = "*"
          BY <4>1 DEF l
        <5>2. 1 \in 1..l /\ 2 \in 1..l
          BY <5>1
        <5>3. sql[b + 1] = parts[j][1] /\ sql[b + 2] = parts[j][2]
          BY <2>4, <5>2
        <5>4. QED
          BY <5>1, <5>3
      <4>3. Reads(scan[b + 1], "block-comment", d(j - 1) + 1, 1) /\ scan[b + 1].hidden
        <5>1. sql[(b + 1) + 1] = "*"
          BY <3>1, <4>2
        <5>2. QED
          BY <1>1, <2>3, <3>2, <4>2, <5>1, ReadsComment
      <4>4. d(j) = d(j - 1) + 1
        BY <1>9, <3>4
      <4>5. QED
        BY <3>3, <4>2, <4>3, <4>4 DEF b, g, l
    <3>5. CASE text[j] = "*/"
      <4>1. parts[j] = <<"*", "/">>
        BY <1>8, <3>5
      <4>2. l = 2 /\ sql[b + 1] = "*" /\ sql[b + 2] = "/"
        <5>1. l = 2 /\ parts[j][1] = "*" /\ parts[j][2] = "/"
          BY <4>1 DEF l
        <5>2. 1 \in 1..l /\ 2 \in 1..l
          BY <5>1
        <5>3. sql[b + 1] = parts[j][1] /\ sql[b + 2] = parts[j][2]
          BY <2>4, <5>2
        <5>4. QED
          BY <5>1, <5>3
      <4>3. d(j) = d(j - 1) - 1 /\ d(j) \in Nat \ {0} /\ d(j - 1) # 1
        BY <1>9, <3>5
      <4>4. Reads(scan[b + 1], "block-comment", d(j - 1) - 1, 1) /\ scan[b + 1].hidden
        <5>1. sql[(b + 1) + 1] = "/"
          BY <3>1, <4>2
        <5>2. PICK c : c = d(j - 1)
          OBVIOUS
        <5>3. c \in Nat /\ c # 1 /\ Reads(scan[b], "block-comment", c, 0)
          BY <2>3, <4>3, <5>2
        <5>4. Reads(scan[b + 1], "block-comment", c - 1, 1) /\ scan[b + 1].hidden
          BY <1>1, <3>2, <4>2, <5>1, <5>3, ReadsComment
        <5>5. QED
          BY <5>2, <5>4
      <4>5. QED
        BY <3>3, <4>2, <4>3, <4>4 DEF b, g, l
    <3>6. CASE text[j] \notin {"/*", "*/"}
      <4>1. parts[j] = <<text[j]>>
        BY <1>8, <3>6
      <4>2. l = 1 /\ sql[b + 1] = text[j]
        <5>1. l = 1 /\ parts[j][1] = text[j]
          BY <4>1 DEF l
        <5>2. 1 \in 1..l
          BY <5>1
        <5>3. sql[b + 1] = parts[j][1]
          BY <2>4, <5>2
        <5>4. QED
          BY <5>1, <5>3
      <4>3. sql[(b + 1) + 1] = IF j = n THEN "*" ELSE FirstOf(text[j + 1])
        BY <2>5, <3>1, <4>2
      <4>4. /\ ~ (sql[b + 1] = "/" /\ sql[(b + 1) + 1] = "*")
            /\ ~ (sql[b + 1] = "*" /\ sql[(b + 1) + 1] = "/")
        BY <4>2, <4>3, NoStraddling DEF n
      <4>5. Reads(scan[b + 1], "block-comment", d(j - 1), 0) /\ scan[b + 1].hidden
        BY <1>1, <2>3, <3>2, <4>4, ReadsComment
      <4>6. d(j) = d(j - 1)
        BY <1>9, <3>6
      <4>7. \A k \in 1..l : k = 1
        BY <4>2
      <4>8. QED
        BY <3>1, <4>2, <4>5, <4>6, <4>7 DEF b, g, l
    <3>7. QED
      BY <3>4, <3>5, <3>6
<1> DEFINE X == {j \in Nat : Reads(scan[a + ends[j]], "block-comment", d(j), 0)}
<1>13. \A j \in 0..n : j \in X
  <2>1. 0 \in X
    <3>1. a + ends[0] = a
      BY <1>1, <1>3
    <3>2. QED
      BY <1>9, <1>10, <3>1
  <2>2. ASSUME NEW j \in (0 + 1)..n, j - 1 \in X PROVE j \in X
    <3>1. j \in 1..n /\ j \in Nat
      BY <1>1
    <3>2. QED
      BY <1>12, <2>2, <3>1
  <2> HIDE DEF X
  <2>3. QED
    BY <1>1, <2>1, <2>2, Stays
<1>14. \A m \in 1..e : scan[a + m].hidden
  <2> SUFFICES ASSUME NEW m \in 1..e PROVE scan[a + m].hidden
    OBVIOUS
  <2>1. PICK j \in 1..n : \E k \in 1..Len(parts[j]) : m = ends[j - 1] + k
    BY <1>5
  <2>2. PICK k \in 1..Len(parts[j]) : m = ends[j - 1] + k
    BY <2>1
  <2>3. j - 1 \in 0..n /\ j - 1 \in X
    <3> HIDE DEF X
    <3>1. QED
      BY <1>1, <1>13
  <2>4. scan[a + ends[j - 1] + k].hidden
    BY <1>12, <2>3
  <2>5. ends[j - 1] \in Nat /\ k \in Nat
    <3>1. Len(parts[j]) \in Nat
      BY <1>8
    <3>2. QED
      BY <1>4, <2>3, <3>1
  <2>6. a + ends[j - 1] + k = a + m
    BY <1>1, <2>2, <2>5
  <2>7. QED
    BY <2>4, <2>6
<1>15. /\ Reads(scan[p + e + 4], "normal", 0, 0)
       /\ scan[p + e + 3].hidden /\ scan[p + e + 4].hidden
  <2> DEFINE i == p + e + 3
  <2>1. i \in (p + 1)..(p + e + 4) /\ i + 1 \in (p + 1)..(p + e + 4) /\ i - 1 = a + e
        /\ (i + 1) - 1 = i /\ i + 1 = p + e + 4
    BY <1>6
  <2>2. Reads(scan[a + e], "block-comment", 1, 0)
    BY <1>1, <1>9, <1>13 DEF e
  <2>3. sql[i] = "*" /\ sql[p + e + 4] = "/"
    BY DEF e, n
  <2> HIDE DEF i
  <2>4. i \in 1..Len(sql) /\ scan[i] = LexStep(sql, i, scan[a + e])
        /\ i + 1 \in 1..Len(sql) /\ scan[i + 1] = LexStep(sql, i + 1, scan[i])
        /\ i + 1 <= Len(sql) /\ sql[i + 1] = "/"
    BY <1>1, <1>7, <2>1, <2>3
  <2>5. Reads(scan[i], "normal", 0, 1) /\ scan[i].hidden
    <3>1. 1 \in Nat
      OBVIOUS
    <3>2. QED
      BY <1>1, <2>2, <2>3, <2>4, <3>1, ReadsComment
  <2>6. Reads(scan[i + 1], "normal", 0, 0) /\ scan[i + 1].hidden
    BY <2>4, <2>5, Skips
  <2>7. QED
    BY <2>1, <2>5, <2>6 DEF i
<1>16. \A i \in (p + 1)..(p + e + 4) :
          \/ i = p + 1 \/ i = a \/ i = p + e + 3 \/ i = p + e + 4
          \/ i - a \in 1..e /\ a + (i - a) = i
  BY <1>6
<1>17. \A i \in (p + 1)..(p + e + 4) : scan[i].hidden
  BY <1>10, <1>14, <1>15, <1>16
<1>18. QED
  BY <1>15, <1>17 DEF e, n

-----------------------------------------------------------------------------
(* Segments: what is written between two tokens.                           *)

\* The text goes on with this part after p characters.
Continues(sql, p, part) ==
    p + Len(part) <= Len(sql) /\ \A k \in 1..Len(part) : sql[p + k] = part[k]

\* A text between two tokens.
Wrapped(opening, text, closing) == opening \o text \o closing

\* Each of them where it belongs.
Layout(sql, p, w, opening, text, closing) ==
    /\ Len(w) = Len(opening) + Len(text) + Len(closing)
    /\ p + Len(opening) + Len(text) + Len(closing) <= Len(sql)
    /\ Continues(sql, p, opening)
    /\ Continues(sql, p + Len(opening), text \o closing)
    /\ Continues(sql, p + Len(opening), text)
    /\ Continues(sql, p + Len(opening) + Len(text), closing)

\* It is laid out so wherever the text goes on with it.
LEMMA Enclosed ==
    ASSUME NEW C, NEW sql, Len(sql) \in Nat, NEW p \in Nat, NEW opening \in Seq(C), NEW text \in Seq(C),
           NEW closing \in Seq(C), NEW w, w = Wrapped(opening, text, closing), Continues(sql, p, w)
    PROVE  Layout(sql, p, w, opening, text, closing)
<1> DEFINE a == Len(opening)
           n == Len(text)
           b == Len(closing)
<1>1. a \in Nat /\ n \in Nat /\ b \in Nat
  OBVIOUS
<1>2. /\ opening \o text \in Seq(C) /\ Len(opening \o text) = a + n
      /\ \A k \in 1..a : (opening \o text)[k] = opening[k]
      /\ \A k \in 1..n : (opening \o text)[a + k] = text[k]
  BY Concatenation
<1>3. w = (opening \o text) \o closing
  BY DEF Wrapped
<1>4. /\ Len(w) = a + n + b
      /\ \A k \in 1..(a + n) : w[k] = (opening \o text)[k]
      /\ \A k \in 1..b : w[a + n + k] = closing[k]
  <2>1. PICK s : s = opening \o text
    OBVIOUS
  <2>2. s \in Seq(C) /\ Len(s) = a + n
    BY <1>2, <2>1
  <2>3. w = s \o closing
    BY <1>3, <2>1, Zenon
  <2>4. /\ Len(s \o closing) = Len(s) + b
        /\ \A k \in 1..Len(s) : (s \o closing)[k] = s[k]
        /\ \A k \in 1..b : (s \o closing)[Len(s) + k] = closing[k]
    <3>1. s \in Seq(C)
      BY <2>2
    <3>2. QED
      BY <3>1, Concatenation
  <2>5. /\ Len(w) = a + n + b
        /\ \A k \in 1..(a + n) : w[k] = s[k]
        /\ \A k \in 1..b : w[a + n + k] = closing[k]
    BY <2>2, <2>3, <2>4, Zenon
  <2>6. QED
    BY <2>1, <2>5, Zenon
<1>5. /\ text \o closing \in Seq(C) /\ Len(text \o closing) = n + b
      /\ \A k \in 1..n : (text \o closing)[k] = text[k]
      /\ \A k \in 1..b : (text \o closing)[n + k] = closing[k]
  BY Concatenation
<1>6. p + a + n + b <= Len(sql) /\ \A k \in 1..(a + n + b) : sql[p + k] = w[k]
  BY <1>1, <1>4 DEF Continues
<1> HIDE DEF a, n, b
<1>7. \A k \in 1..a : sql[p + k] = opening[k]
  <2> SUFFICES ASSUME NEW k \in 1..a PROVE sql[p + k] = opening[k]
    OBVIOUS
  <2>1. k \in 1..(a + n + b) /\ k \in 1..(a + n)
    BY <1>1
  <2>2. QED
    BY <1>2, <1>4, <1>6, <2>1
<1>8. \A k \in 1..n : sql[p + a + k] = text[k]
  <2> SUFFICES ASSUME NEW k \in 1..n PROVE sql[p + a + k] = text[k]
    OBVIOUS
  <2>1. PICK m : m = a + k
    OBVIOUS
  <2>2. m \in 1..(a + n + b) /\ m \in 1..(a + n) /\ p + m = p + a + k
    BY <1>1, <2>1
  <2>3. sql[p + m] = w[m] /\ w[m] = (opening \o text)[m]
    BY <1>4, <1>6, <2>2
  <2>4. (opening \o text)[a + k] = text[k]
    BY <1>2
  <2>5. QED
    BY <2>1, <2>2, <2>3, <2>4
<1>9. \A k \in 1..b : sql[p + a + n + k] = closing[k]
  <2> SUFFICES ASSUME NEW k \in 1..b PROVE sql[p + a + n + k] = closing[k]
    OBVIOUS
  <2>1. PICK m : m = a + n + k
    OBVIOUS
  <2>2. m \in 1..(a + n + b) /\ p + m = p + a + n + k
    BY <1>1, <2>1
  <2>3. sql[p + m] = w[m]
    BY <1>6, <2>2
  <2>4. w[a + n + k] = closing[k]
    BY <1>4
  <2>5. QED
    BY <2>1, <2>2, <2>3, <2>4
<1>10. \A k \in 1..(n + b) : sql[p + a + k] = (text \o closing)[k]
  <2> SUFFICES ASSUME NEW k \in 1..(n + b) PROVE sql[p + a + k] = (text \o closing)[k]
    OBVIOUS
  <2>1. CASE k <= n
    <3>1. k \in 1..n
      BY <1>1, <2>1
    <3>2. QED
      BY <1>5, <1>8, <3>1
  <2>2. CASE k > n
    <3>1. PICK m : m = k - n
      OBVIOUS
    <3>2. m \in 1..b /\ n + m = k /\ p + a + n + m = p + a + k
      BY <1>1, <2>2, <3>1
    <3>3. sql[p + a + n + m] = closing[m]
      BY <1>9, <3>2
    <3>4. (text \o closing)[n + m] = closing[m]
      BY <1>5, <3>2
    <3>5. PICK whole : whole = text \o closing
      OBVIOUS
    <3>6. whole[n + m] = closing[m]
      BY <3>4, <3>5
    <3>7. sql[p + a + k] = whole[k]
      BY <3>2, <3>3, <3>6
    <3>8. QED
      BY <3>5, <3>7
  <2>3. k <= n \/ k > n
    BY <1>1
  <2>4. QED
    BY <2>1, <2>2, <2>3
<1>11. Len(w) = a + n + b /\ p + a + n + b <= Len(sql)
  BY <1>4, <1>6
<1>12. p + a <= Len(sql) /\ p + a + n <= Len(sql) /\ p + a + (n + b) <= Len(sql)
       /\ p + a + n + b <= Len(sql)
  BY <1>1, <1>6
<1>13. Continues(sql, p, opening)
  BY <1>7, <1>12 DEF Continues, a
<1>14. Continues(sql, p + a, text)
  BY <1>8, <1>12 DEF Continues, n
<1>15. Continues(sql, p + a + n, closing)
  BY <1>9, <1>12 DEF Continues, b
<1>16. Continues(sql, p + a, text \o closing)
  BY <1>5, <1>10, <1>12 DEF Continues
<1>17. QED
  BY <1>11, <1>13, <1>14, <1>15, <1>16 DEF a, n, b, Layout

\* A token that fits into the part is at its place in the whole text.
LEMMA AtWithin ==
    ASSUME NEW C, NEW sql \in Seq(C), NEW p \in Nat, NEW part \in Seq(C), Continues(sql, p, part),
           NEW i \in 1..Len(part), NEW token \in Seq(C), token # <<>>,
           i + Len(token) - 1 <= Len(part)
    PROVE  At(sql, p + i, token) <=> At(part, i, token)
<1> DEFINE n == Len(token)
           q == p + i
<1>1. n \in Nat /\ Len(part) \in Nat /\ Len(sql) \in Nat
  OBVIOUS
<1>2. p + Len(part) <= Len(sql) /\ \A k \in 1..Len(part) : sql[p + k] = part[k]
  BY DEF Continues
<1>3. q \in 1..Len(sql) /\ q + n - 1 <= Len(sql) /\ i + n - 1 <= Len(part)
  BY <1>1, <1>2
<1>4. \A k \in 1..n : sql[q + k - 1] = part[i + k - 1]
  <2> SUFFICES ASSUME NEW k \in 1..n PROVE sql[q + k - 1] = part[i + k - 1]
    OBVIOUS
  <2>1. i + k - 1 \in 1..Len(part) /\ p + (i + k - 1) = q + k - 1
    BY <1>1
  <2>2. sql[p + (i + k - 1)] = part[i + k - 1]
    BY <1>2, <2>1
  <2>3. QED
    BY <2>1, <2>2
<1> HIDE DEF q
<1>5. At(sql, q, token) <=> \A k \in 1..n : sql[q + k - 1] = token[k]
  BY <1>3, AtChars
<1>6. At(part, i, token) <=> \A k \in 1..n : part[i + k - 1] = token[k]
  BY <1>3, AtChars
<1> HIDE DEF n
<1>7. At(sql, q, token) <=> At(part, i, token)
  BY <1>4, <1>5, <1>6
<1>8. QED
  BY <1>7 DEF q

\* A text that goes on with a concatenation spells its parts.
LEMMA SpellsParts ==
    ASSUME NEW C, NEW parts \in Seq(Seq(C)), NEW ends, PartEnds(parts, ends), NEW sql, NEW p \in Nat,
           Continues(sql, p, FlattenSeq(parts))
    PROVE  Spells(sql, p, parts, ends) /\ Len(FlattenSeq(parts)) = ends[Len(parts)]
<1> DEFINE whole == FlattenSeq(parts)
           n == Len(parts)
<1>1. /\ Len(whole) = ends[n]
      /\ \A i \in 1..n : \A k \in 1..Len(parts[i]) : whole[ends[i - 1] + k] = parts[i][k]
  BY FlattenParts
<1>2. \A j \in 0..n : \A i \in 0..j : ends[i] <= ends[j]
  BY EndsGrow
<1>3. /\ n \in Nat /\ ends \in [0..n -> Nat]
      /\ \A i \in 1..n : ends[i] = ends[i - 1] + Len(parts[i]) /\ Len(parts[i]) \in Nat
  BY DEF PartEnds
<1> HIDE DEF n, whole
<1>4. \A k \in 1..ends[n] : sql[p + k] = whole[k]
  BY <1>1 DEF Continues, whole
<1>5. ASSUME NEW j \in 1..n, NEW k \in 1..Len(parts[j])
      PROVE  sql[p + ends[j - 1] + k] = parts[j][k]
  <2>1. j \in 0..n /\ j - 1 \in 0..n /\ n \in 0..n /\ j \in 0..n
    BY <1>3
  <2>2. PICK a, b, e, l : a = ends[j - 1] /\ b = ends[j] /\ e = ends[n] /\ l = Len(parts[j])
    OBVIOUS
  <2>3. a \in Nat /\ b \in Nat /\ e \in Nat /\ l \in Nat /\ b = a + l /\ b <= e /\ k \in 1..l
    BY <1>2, <1>3, <2>1, <2>2
  <2>4. a + k \in 1..e /\ p + (a + k) = p + a + k
    BY <2>3
  <2>5. sql[p + (a + k)] = whole[a + k] /\ whole[a + k] = parts[j][k]
    BY <1>1, <1>4, <2>2, <2>4
  <2>6. QED
    BY <2>2, <2>4, <2>5
<1>6. QED
  BY <1>1, <1>5 DEF Spells, n, whole

\* The pieces of a quote are parts of a text.
LEMMA PiecesAreParts ==
    ASSUME NEW text \in Seq(Chars), NEW quote \in Chars
    PROVE  Pieces(text, quote) \in Seq(Seq(Chars)) /\ Len(Pieces(text, quote)) = Len(text)
<1> DEFINE parts == Pieces(text, quote)
           n == Len(text)
<1>1. n \in Nat /\ \A j \in 1..n : parts[j] \in Seq(Chars)
  BY DEF Pieces
<1>2. parts = [j \in 1..n |-> parts[j]]
  BY DEF Pieces
<1> HIDE DEF parts, n
<1>3. parts \in Seq(Seq(Chars)) /\ Len(parts) = n
  BY <1>1, <1>2
<1>4. QED
  BY <1>3 DEF parts, n

\* What avoiding a token of one character means.
LEMMA AvoidsOne ==
    ASSUME NEW text \in Seq(Chars), NEW tokens, Avoids(text, <<>>, tokens),
           NEW c \in Chars, <<c>> \in tokens
    PROVE  \A i \in 1..Len(text) : text[i] # c
<1>1. text \o <<>> = text
  OBVIOUS
<1>2. \A i \in 1..Len(text) : ~ At(text, i, <<c>>)
  <2>1. \A i \in DOMAIN text : ~ At(text \o <<>>, i, <<c>>)
    BY Zenon DEF Avoids
  <2>2. DOMAIN text = 1..Len(text)
    OBVIOUS
  <2>3. QED
    BY <1>1, <2>1, <2>2, Zenon
<1>3. QED
  BY <1>2, AtOne

\* What avoiding a token of two characters means.
LEMMA AvoidsTwo ==
    ASSUME NEW text \in Seq(Chars), NEW tokens, Avoids(text, <<>>, tokens),
           NEW b \in Chars, NEW c \in Chars, <<b, c>> \in tokens
    PROVE  \A i \in 1..(Len(text) - 1) : ~ (text[i] = b /\ text[i + 1] = c)
<1>1. text \o <<>> = text
  OBVIOUS
<1>2. \A i \in 1..Len(text) : ~ At(text, i, <<b, c>>)
  <2>1. \A i \in DOMAIN text : ~ At(text \o <<>>, i, <<b, c>>)
    BY Zenon DEF Avoids
  <2>2. DOMAIN text = 1..Len(text)
    OBVIOUS
  <2>3. QED
    BY <1>1, <2>1, <2>2, Zenon
<1>3. ASSUME NEW i \in 1..(Len(text) - 1) PROVE ~ (text[i] = b /\ text[i + 1] = c)
  <2>1. i \in 1..Len(text) /\ i + 1 <= Len(text)
    OBVIOUS
  <2>2. QED
    BY <1>2, <2>1, AtTwo
<1>4. QED
  BY <1>3

\* After a segment of code the scanner is between tokens, and it hid nothing.
LEMMA CodeSegment ==
    ASSUME NEW sql, NEW scan, Scanned(sql, scan), NEW p \in Nat, Reads(scan[p], "normal", 0, 0),
           NEW text \in Seq(Chars), text # <<>>, Last(text) # "-", Last(text) # "/",
           NEW tokens, Avoids(text, <<>>, tokens), <<"-", "-">> \in tokens, <<"/", "*">> \in tokens,
           \A c \in Special : <<c>> \in tokens,
           Continues(sql, p, text)
    PROVE  /\ Reads(scan[p + Len(text)], "normal", 0, 0)
           /\ \A i \in (p + 1)..(p + Len(text)) : ~ scan[i].hidden
<1> DEFINE n == Len(text)
<1>1. n \in Nat \ {0} /\ p + n <= Len(sql) /\ \A k \in 1..n : sql[p + k] = text[k]
  BY DEF Continues
<1>2. Special \subseteq Chars
  BY Tokenized, Zenon DEF Special
<1>3. \A i \in 1..n : text[i] \notin Special
  <2> SUFFICES ASSUME NEW i \in 1..n, NEW c \in Special PROVE text[i] # c
    OBVIOUS
  <2> HIDE DEF n
  <2>1. c \in Chars /\ <<c>> \in tokens
    BY <1>2
  <2>2. QED
    BY <2>1, AvoidsOne DEF n
<1>4. "-" \in Chars /\ "/" \in Chars /\ "*" \in Chars
  BY Tokenized
<1>5. \A i \in 1..(n - 1) : /\ ~ (text[i] = "-" /\ text[i + 1] = "-")
                            /\ ~ (text[i] = "/" /\ text[i + 1] = "*")
  BY <1>4, AvoidsTwo
<1>6. text[n] # "-" /\ text[n] # "/"
  BY DEF Last
<1> HIDE DEF n
<1>7. ASSUME NEW i \in (p + 1)..(p + n)
      PROVE  i - p \in 1..n /\ sql[i] = text[i - p]
  <2>1. i - p \in 1..n /\ p + (i - p) = i
    BY <1>1
  <2>2. QED
    BY <1>1, <2>1
<1>8. \A i \in (p + 1)..(p + n) : sql[i] \notin Special
  BY <1>3, <1>7
<1>9. ASSUME NEW i \in (p + 1)..(p + n - 1)
      PROVE  /\ ~ (sql[i] = "-" /\ sql[i + 1] = "-")
             /\ ~ (sql[i] = "/" /\ sql[i + 1] = "*")
  <2>1. PICK k : k = i - p
    OBVIOUS
  <2>2. k \in 1..(n - 1) /\ k \in 1..n /\ k + 1 \in 1..n /\ p + k = i /\ p + (k + 1) = i + 1
    BY <1>1, <2>1
  <2>3. sql[i] = text[k] /\ sql[i + 1] = text[k + 1]
    BY <1>1, <2>2
  <2>4. QED
    BY <1>5, <2>2, <2>3
<1>10. sql[p + n] # "-" /\ sql[p + n] # "/"
  <2>1. n \in 1..n
    BY <1>1
  <2>2. QED
    BY <1>1, <1>6, <2>1
<1>11. Reads(scan[p + n], "normal", 0, 0) /\ \A i \in (p + 1)..(p + n) : ~ scan[i].hidden
  BY <1>1, <1>8, <1>9, <1>10, CodeRun
<1>12. QED
  BY <1>11 DEF n

\* The same for a line comment, which is hidden, its line end aside.
LEMMA LineSegment ==
    ASSUME NEW sql, NEW scan, Scanned(sql, scan), NEW p \in Nat, Reads(scan[p], "normal", 0, 0),
           NEW text \in Seq(Chars), Avoids(text, <<>>, {<<"\n">>}),
           NEW w, w = Wrapped(<<"-", "-">>, text, <<"\n">>), Continues(sql, p, w)
    PROVE  /\ Reads(scan[p + Len(w)], "normal", 0, 0)
           /\ \A i \in (p + 1)..(p + Len(w)) : scan[i].hidden \/ sql[i] = "\n"
<1>1. PICK opening, closing : opening = <<"-", "-">> /\ closing = <<"\n">>
  OBVIOUS
<1>2. /\ Len(sql) \in Nat /\ opening \in Seq(Chars) /\ closing \in Seq(Chars)
      /\ Len(opening) = 2 /\ opening[1] = "-" /\ opening[2] = "-"
      /\ Len(closing) = 1 /\ closing[1] = "\n"
  <2>1. "-" \in Chars /\ "\n" \in Chars
    BY Tokenized
  <2>2. QED
    BY <1>1, <2>1 DEF Scanned
<1>3. Layout(sql, p, w, opening, text, closing)
  <2>1. w = Wrapped(opening, text, closing)
    BY <1>1
  <2>2. Len(sql) \in Nat /\ opening \in Seq(Chars) /\ closing \in Seq(Chars)
    BY <1>2
  <2>3. QED
    BY <2>1, <2>2, Enclosed
<1>4. \A i \in 1..Len(text) : text[i] # "\n"
  <2>1. "\n" \in Chars
    BY Tokenized
  <2>2. QED
    BY <2>1, AvoidsOne
<1> DEFINE n == Len(text)
<1>5. n \in Nat /\ Len(w) = n + 3 /\ p + n + 3 <= Len(sql)
      /\ p + Len(opening) = p + 2 /\ p + Len(opening) + Len(text) = p + n + 2
  BY <1>2, <1>3 DEF Layout
<1>6. sql[p + 1] = "-" /\ sql[p + 2] = "-"
  BY <1>2, <1>3 DEF Layout, Continues
<1>7. \A k \in 1..n : sql[p + 2 + k] = text[k]
  BY <1>3, <1>5 DEF Layout, Continues
<1>8. sql[p + n + 3] = "\n"
  <2>1. sql[(p + n + 2) + 1] = "\n"
    BY <1>2, <1>3, <1>5 DEF Layout, Continues
  <2> HIDE DEF n
  <2>2. (p + n + 2) + 1 = p + n + 3
    BY <1>5
  <2>3. QED
    BY <2>1, <2>2
<1>9. \A i \in (p + 3)..(p + n + 2) : sql[i] # "\n"
  <2> SUFFICES ASSUME NEW i \in (p + 3)..(p + n + 2) PROVE sql[i] # "\n"
    OBVIOUS
  <2>1. PICK k : k = i - (p + 2)
    OBVIOUS
  <2>2. k \in 1..n /\ p + 2 + k = i
    <3> HIDE DEF n
    <3>1. QED
      BY <1>5, <2>1
  <2>3. QED
    BY <1>4, <1>7, <2>2
<1> HIDE DEF n
<1>10. Reads(scan[p + n + 3], "normal", 0, 0) /\ \A i \in (p + 1)..(p + n + 2) : scan[i].hidden
  BY <1>5, <1>6, <1>8, <1>9, LineRun
<1>11. \A i \in (p + 1)..(p + Len(w)) : i \in (p + 1)..(p + n + 2) \/ i = p + n + 3
  BY <1>5
<1>12. p + Len(w) = p + n + 3
  <2>1. PICK l : l = Len(w)
    OBVIOUS
  <2>2. p + l = p + n + 3
    BY <1>5, <2>1
  <2>3. QED
    BY <2>1, <2>2, Zenon
<1>13. QED
  BY <1>8, <1>10, <1>11, <1>12

\* The scanner is within a dollar quote after its opening tag.
LEMMA DollarOpens ==
    ASSUME NEW sql, NEW scan, Scanned(sql, scan), NEW p \in Nat, Reads(scan[p], "normal", 0, 0),
           NEW tag, tag = <<"$", "$">> \/ tag = <<"$", "x", "$">>, Continues(sql, p, tag)
    PROVE  /\ tag \in Seq(Chars) /\ Len(tag) \in {2, 3}
           /\ Reads(scan[p + Len(tag)], "dollar-quote", 0, 0) /\ scan[p + Len(tag)].tag = tag
           /\ \A i \in (p + 1)..(p + Len(tag)) : scan[i].hidden
<1>1. "$" \in Chars /\ "x" \in Chars
  BY Tokenized
<1>2. /\ sql \in Seq(Chars) /\ Len(sql) \in Nat
      /\ \A i \in 1..Len(sql) : scan[i] = LexStep(sql, i, scan[i - 1])
  BY DEF Scanned
<1>3. CASE tag = <<"$", "$">>
  <2>1. tag \in Seq(Chars) /\ Len(tag) = 2 /\ tag[1] = "$" /\ tag[2] = "$"
    BY <1>1, <1>3
  <2>2. p + 2 <= Len(sql) /\ sql[p + 1] = "$" /\ sql[p + 2] = "$"
    BY <2>1 DEF Continues
  <2>3. /\ p + 1 \in 1..Len(sql) /\ (p + 1) - 1 = p /\ (p + 1) + 1 = p + 2
        /\ p + 2 \in 1..Len(sql) /\ (p + 2) - 1 = p + 1
    BY <1>2, <2>2
  <2>4. scan[p + 1] = LexStep(sql, p + 1, scan[p]) /\ scan[p + 2] = LexStep(sql, p + 2, scan[p + 1])
    BY <1>2, <2>3
  <2>5. sql[(p + 1) + 1] = "$" /\ (p + 1) + 1 <= Len(sql)
    BY <2>2, <2>3
  <2>6. Reads(scan[p + 1], "dollar-quote", 0, 1) /\ scan[p + 1].hidden /\ scan[p + 1].tag = tag
    BY <1>2, <1>3, <2>2, <2>3, <2>4, <2>5, OpensDollar
  <2>7. Reads(scan[p + 2], "dollar-quote", 0, 0) /\ scan[p + 2].hidden /\ scan[p + 2].tag = tag
    BY <2>4, <2>6, Skips
  <2>8. \A i \in (p + 1)..(p + 2) : i = p + 1 \/ i = p + 2
    OBVIOUS
  <2>9. QED
    BY <2>1, <2>6, <2>7, <2>8
<1>4. CASE tag = <<"$", "x", "$">>
  <2>1. tag \in Seq(Chars) /\ Len(tag) = 3 /\ tag[1] = "$" /\ tag[2] = "x" /\ tag[3] = "$"
    BY <1>1, <1>4
  <2>2. p + 3 <= Len(sql) /\ sql[p + 1] = "$" /\ sql[p + 2] = "x" /\ sql[p + 3] = "$"
    BY <2>1 DEF Continues
  <2>3. /\ p + 1 \in 1..Len(sql) /\ (p + 1) - 1 = p /\ (p + 1) + 1 = p + 2 /\ (p + 1) + 2 = p + 3
        /\ p + 2 \in 1..Len(sql) /\ (p + 2) - 1 = p + 1
        /\ p + 3 \in 1..Len(sql) /\ (p + 3) - 1 = p + 2
    BY <1>2, <2>2
  <2>4. /\ scan[p + 1] = LexStep(sql, p + 1, scan[p]) /\ scan[p + 2] = LexStep(sql, p + 2, scan[p + 1])
        /\ scan[p + 3] = LexStep(sql, p + 3, scan[p + 2])
    BY <1>2, <2>3
  <2>5. sql[(p + 1) + 1] = "x" /\ sql[(p + 1) + 2] = "$" /\ (p + 1) + 2 <= Len(sql)
    BY <2>2, <2>3
  <2>6. Reads(scan[p + 1], "dollar-quote", 0, 2) /\ scan[p + 1].hidden /\ scan[p + 1].tag = tag
    BY <1>2, <1>4, <2>2, <2>3, <2>4, <2>5, OpensTagged
  <2>7. Reads(scan[p + 2], "dollar-quote", 0, 1) /\ scan[p + 2].hidden /\ scan[p + 2].tag = tag
    BY <2>4, <2>6, Skips
  <2>8. Reads(scan[p + 3], "dollar-quote", 0, 0) /\ scan[p + 3].hidden /\ scan[p + 3].tag = tag
    BY <2>4, <2>7, Skips
  <2>9. \A i \in (p + 1)..(p + 3) : i = p + 1 \/ i = p + 2 \/ i = p + 3
    OBVIOUS
  <2>10. QED
    BY <2>1, <2>6, <2>7, <2>8, <2>9
<1>5. QED
  BY <1>3, <1>4

\* The two tags.
LEMMA TagShape ==
    ASSUME NEW tag, tag = <<"$", "$">> \/ tag = <<"$", "x", "$">>
    PROVE  tag \in Seq(Chars) /\ Len(tag) \in {2, 3} /\ tag # <<>>
<1>1. "$" \in Chars /\ "x" \in Chars
  BY Tokenized
<1>2. CASE tag = <<"$", "$">>
  BY <1>1, <1>2
<1>3. CASE tag = <<"$", "x", "$">>
  BY <1>1, <1>3
<1>4. QED
  BY <1>2, <1>3

\* The same for a dollar quote.
LEMMA DollarSegment ==
    ASSUME NEW sql, NEW scan, Scanned(sql, scan), NEW p \in Nat, Reads(scan[p], "normal", 0, 0),
           NEW text \in Seq(Chars), NEW tag, tag = <<"$", "$">> \/ tag = <<"$", "x", "$">>,
           Avoids(text, tag, {tag}), NEW w, w = Wrapped(tag, text, tag), Continues(sql, p, w)
    PROVE  /\ Reads(scan[p + Len(w)], "normal", 0, 0)
           /\ \A i \in (p + 1)..(p + Len(w)) : scan[i].hidden
<1>1. /\ sql \in Seq(Chars) /\ Len(sql) \in Nat
      /\ tag \in Seq(Chars) /\ Len(tag) \in {2, 3} /\ tag # <<>>
  BY TagShape DEF Scanned
<1>2. Layout(sql, p, w, tag, text, tag)
  BY <1>1, Enclosed
<1> DEFINE l == Len(tag)
           n == Len(text)
           a == p + l
<1>3. /\ l \in {2, 3} /\ n \in Nat /\ a \in Nat /\ a = p + l
      /\ Len(w) = l + n + l /\ a + n + l <= Len(sql)
      /\ Continues(sql, p, tag) /\ Continues(sql, a, text \o tag) /\ Continues(sql, a + n, tag)
  BY <1>1, <1>2 DEF Layout
<1>4. Reads(scan[a], "dollar-quote", 0, 0) /\ scan[a].tag = tag
      /\ \A i \in (p + 1)..a : scan[i].hidden
  BY <1>3, DollarOpens
<1> HIDE DEF a
<1>5. ASSUME NEW i \in (a + 1)..(a + n) PROVE ~ At(sql, i, tag)
  <2>1. PICK k, part : k = i - a /\ part = text \o tag
    OBVIOUS
  <2>2. part \in Seq(Chars) /\ Len(part) = n + l
    BY <1>1, <2>1
  <2>3. ~ At(part, k, tag)
    <3>1. k \in 1..Len(text)
      <4> HIDE DEF n
      <4>1. k \in 1..n
        BY <1>3, <2>1
      <4>2. QED
        BY <4>1 DEF n
    <3>2. \A j \in DOMAIN text : ~ At(text \o tag, j, tag)
      BY Zenon DEF Avoids
    <3>3. DOMAIN text = 1..Len(text)
      OBVIOUS
    <3>4. QED
      BY <2>1, <3>1, <3>2, <3>3, Zenon
  <2>4. k \in 1..Len(part) /\ k + Len(tag) - 1 <= Len(part) /\ a + k = i
    <3>1. k \in 1..(n + l) /\ k + l - 1 <= n + l /\ a + k = i
      <4> HIDE DEF n, l
      <4>1. QED
        BY <1>3, <2>1
    <3>2. QED
      BY <2>2, <3>1
  <2>5. Continues(sql, a, part) /\ tag # <<>>
    BY <1>1, <1>3, <2>1, Zenon
  <2> HIDE DEF n, l
  <2>6. At(sql, a + k, tag) <=> At(part, k, tag)
    BY <1>1, <1>3, <2>2, <2>4, <2>5, AtWithin
  <2>7. QED
    BY <2>3, <2>4, <2>6
<1>6. At(sql, a + n + 1, tag)
  <2>1. PICK b : b = a + n
    OBVIOUS
  <2>2. b \in Nat /\ Continues(sql, b, tag)
    <3> HIDE DEF n
    <3>1. QED
      BY <1>3, <2>1
  <2>3. b + 1 \in 1..Len(sql) /\ (b + 1) + l - 1 <= Len(sql)
    <3> HIDE DEF n
    <3>1. b + l <= Len(sql)
      BY <1>3, <2>1
    <3> HIDE DEF l
    <3>2. QED
      BY <1>1, <1>3, <2>2, <3>1
  <2>4. \A k \in 1..l : sql[(b + 1) + k - 1] = tag[k]
    <3>1. \A k \in 1..l : sql[b + k] = tag[k]
      BY <2>2 DEF Continues
    <3> HIDE DEF l
    <3>2. \A k \in 1..l : (b + 1) + k - 1 = b + k
      BY <1>3, <2>2
    <3>3. QED
      BY <3>1, <3>2
  <2>5. At(sql, b + 1, tag)
    BY <1>1, <2>3, <2>4, AtChars
  <2>6. QED
    BY <2>1, <2>5
<1> HIDE DEF l, n
<1>7. Len(tag) = l
  BY DEF l
<1>8. Reads(scan[a + n + l], "normal", 0, 0) /\ \A i \in (a + 1)..(a + n + l) : scan[i].hidden
  BY <1>3, <1>4, <1>5, <1>6, <1>7, DollarRun
<1>9. PICK m : m = Len(w)
  OBVIOUS
<1>10. p + m = a + n + l /\ \A i \in (p + 1)..(p + m) : i \in (p + 1)..a \/ i \in (a + 1)..(a + n + l)
  BY <1>3, <1>9
<1>11. Reads(scan[p + m], "normal", 0, 0) /\ \A i \in (p + 1)..(p + m) : scan[i].hidden
  BY <1>4, <1>8, <1>10
<1>12. QED
  BY <1>9, <1>11, Zenon

\* The same for a literal or a quoted identifier that is not resumed.
LEMMA QuoteSegment ==
    ASSUME NEW sql, NEW scan, Scanned(sql, scan), NEW p \in Nat, Reads(scan[p], "normal", 0, 0),
           NEW text \in Seq(Chars), NEW mode, NEW quote, QuotedBy(mode, quote), NoEscape(text, quote),
           NEW w, w = Wrapped(<<quote>>, Doubled(text, quote), <<quote>>), Continues(sql, p, w),
           p + Len(w) = Len(sql) \/ sql[p + Len(w) + 1] # quote
    PROVE  /\ Reads(scan[p + Len(w)], "normal", 0, 0)
           /\ \A i \in (p + 1)..(p + Len(w)) : scan[i].hidden
<1> DEFINE parts == Pieces(text, quote)
           n == Len(text)
<1>1. Len(sql) \in Nat /\ quote \in Chars
  BY QuotesAreChars DEF Scanned
<1>2. PICK mark : mark = <<quote>>
  OBVIOUS
<1>3. mark \in Seq(Chars) /\ Len(mark) = 1 /\ mark[1] = quote
  BY <1>1, <1>2
<1>4. parts \in Seq(Seq(Chars)) /\ Len(parts) = n
  BY <1>1, PiecesAreParts
<1>5. Doubled(text, quote) = FlattenSeq(parts)
  BY DEF Doubled, Pieces
<1>6. PICK ends : PartEnds(parts, ends)
  <2> HIDE DEF parts
  <2>1. QED
    BY <1>4, EndsExist
<1>7. PICK body : body = FlattenSeq(parts)
  OBVIOUS
<1>8. body \in Seq(Chars) /\ Len(body) = ends[n]
  <2> HIDE DEF parts, n
  <2>1. QED
    BY <1>4, <1>6, <1>7, FlattenParts
<1>9. Layout(sql, p, w, mark, body, mark)
  <2>1. w = Wrapped(mark, body, mark)
    BY <1>2, <1>5, <1>7
  <2>2. QED
    BY <1>1, <1>3, <1>8, <2>1, Enclosed
<1> DEFINE e == ends[n]
<1>10. /\ e \in Nat /\ Len(w) = e + 2 /\ p + e + 2 <= Len(sql)
       /\ sql[p + 1] = quote /\ Continues(sql, p + 1, body) /\ sql[p + e + 2] = quote
  <2>1. PICK d : d = ends[n]
    OBVIOUS
  <2>2. /\ d \in Nat /\ Len(w) = 1 + d + 1 /\ p + 1 + d + 1 <= Len(sql)
        /\ sql[p + 1] = quote /\ Continues(sql, p + 1, body) /\ sql[(p + 1 + d) + 1] = quote
    BY <1>3, <1>8, <1>9, <2>1 DEF Layout, Continues
  <2>3. 1 + d + 1 = d + 2 /\ p + 1 + d + 1 = p + d + 2 /\ (p + 1 + d) + 1 = p + d + 2
    BY <2>2
  <2>4. QED
    BY <2>1, <2>2, <2>3
<1>11. Spells(sql, p + 1, parts, ends)
  <2> HIDE DEF parts
  <2>1. p + 1 \in Nat
    OBVIOUS
  <2>2. QED
    BY <1>4, <1>6, <1>7, <1>10, <2>1, SpellsParts
<1>12. p + e + 2 = Len(sql) \/ sql[p + e + 3] # quote
  <2> HIDE DEF e
  <2>1. PICK m : m = Len(w)
    OBVIOUS
  <2>2. p + m = p + e + 2 /\ p + m + 1 = p + e + 3
    BY <1>10, <2>1
  <2>3. p + m = Len(sql) \/ sql[p + m + 1] # quote
    BY <2>1
  <2>4. QED
    BY <2>2, <2>3
<1>13. Reads(scan[p + e + 2], "normal", 0, 0) /\ \A i \in (p + 1)..(p + e + 2) : scan[i].hidden
  BY <1>6, <1>10, <1>11, <1>12, QuoteRun
<1> HIDE DEF e
<1>14. p + Len(w) = p + e + 2
  <2>1. PICK m : m = Len(w)
    OBVIOUS
  <2>2. p + m = p + e + 2
    BY <1>10, <2>1
  <2>3. QED
    BY <2>1, <2>2, Zenon
<1>15. QED
  BY <1>13, <1>14, Zenon

\* The same for a block comment.
LEMMA BlockSegment ==
    ASSUME NEW sql, NEW scan, Scanned(sql, scan), NEW p \in Nat, Reads(scan[p], "normal", 0, 0),
           NEW text \in Seq(Chars), ClosesWithin(text),
           NEW w, w = Wrapped(<<"/", "*">>, Nested(text), <<"*", "/">>), Continues(sql, p, w)
    PROVE  /\ Reads(scan[p + Len(w)], "normal", 0, 0)
           /\ \A i \in (p + 1)..(p + Len(w)) : scan[i].hidden
<1> DEFINE parts == NestedPieces(text)
           n == Len(text)
<1>1. Len(sql) \in Nat /\ "/" \in Chars /\ "*" \in Chars
  <2>1. "/" \in Chars /\ "*" \in Chars
    BY Tokenized
  <2>2. QED
    BY <2>1 DEF Scanned
<1>2. PICK opening, closing : opening = <<"/", "*">> /\ closing = <<"*", "/">>
  OBVIOUS
<1>3. /\ opening \in Seq(Chars) /\ Len(opening) = 2 /\ opening[1] = "/" /\ opening[2] = "*"
      /\ closing \in Seq(Chars) /\ Len(closing) = 2 /\ closing[1] = "*" /\ closing[2] = "/"
  BY <1>1, <1>2
<1>4. parts \in Seq(Seq(Chars)) /\ Len(parts) = n
  BY NestedAreParts
<1>5. Nested(text) = FlattenSeq(parts)
  BY Zenon DEF Nested, NestedPieces
<1>6. PICK ends : PartEnds(parts, ends)
  <2> HIDE DEF parts
  <2>1. QED
    BY <1>4, EndsExist
<1>7. PICK body : body = FlattenSeq(parts)
  OBVIOUS
<1>8. body \in Seq(Chars) /\ Len(body) = ends[n]
  <2> HIDE DEF parts, n
  <2>1. QED
    BY <1>4, <1>6, <1>7, FlattenParts
<1>9. Layout(sql, p, w, opening, body, closing)
  <2>1. w = Wrapped(opening, body, closing)
    BY <1>2, <1>5, <1>7
  <2>2. QED
    BY <1>1, <1>3, <1>8, <2>1, Enclosed
<1> DEFINE e == ends[n]
<1>10. /\ e \in Nat /\ Len(w) = e + 4 /\ p + e + 4 <= Len(sql)
       /\ sql[p + 1] = "/" /\ sql[p + 2] = "*" /\ Continues(sql, p + 2, body)
       /\ sql[p + e + 3] = "*" /\ sql[p + e + 4] = "/"
  <2>1. PICK d : d = ends[n]
    OBVIOUS
  <2>2. /\ d \in Nat /\ Len(w) = 2 + d + 2 /\ p + 2 + d + 2 <= Len(sql)
        /\ sql[p + 1] = "/" /\ sql[p + 2] = "*" /\ Continues(sql, p + 2, body)
        /\ sql[(p + 2 + d) + 1] = "*" /\ sql[(p + 2 + d) + 2] = "/"
    BY <1>3, <1>8, <1>9, <2>1 DEF Layout, Continues
  <2>3. /\ 2 + d + 2 = d + 4 /\ p + 2 + d + 2 = p + d + 4
        /\ (p + 2 + d) + 1 = p + d + 3 /\ (p + 2 + d) + 2 = p + d + 4
    BY <2>2
  <2>4. QED
    BY <2>1, <2>2, <2>3
<1>11. Spells(sql, p + 2, parts, ends)
  <2> HIDE DEF parts
  <2>1. p + 2 \in Nat
    OBVIOUS
  <2>2. QED
    BY <1>4, <1>6, <1>7, <1>10, <2>1, SpellsParts
<1>12. Reads(scan[p + e + 4], "normal", 0, 0) /\ \A i \in (p + 1)..(p + e + 4) : scan[i].hidden
  BY <1>6, <1>10, <1>11, BlockRun
<1> HIDE DEF e
<1>13. p + Len(w) = p + e + 4
  <2>1. PICK m : m = Len(w)
    OBVIOUS
  <2>2. p + m = p + e + 4
    BY <1>10, <2>1
  <2>3. QED
    BY <2>1, <2>2, Zenon
<1>14. QED
  BY <1>12, <1>13, Zenon

\* The quote a segment ends with; what follows must not be another one.
EndsWith(kind, quote) ==
    (kind = "literal" /\ quote = "'") \/ (kind = "identifier" /\ quote = "\"")

\* No further quote follows at once.
NotResumed(sql, q, kind) ==
    \A quote : EndsWith(kind, quote) => q = Len(sql) \/ sql[q + 1] # quote

\* Code is shown, and the rest hidden unless it ends a line.
Shown(sql, scan, i, kind) ==
    IF kind = "code" THEN ~ scan[i].hidden ELSE scan[i].hidden \/ sql[i] = "\n"

\* Whatever the segment, the scanner is between tokens before it and after it,
\* and shows it if it is code.
LEMMA SegmentRun ==
    ASSUME NEW sql, NEW scan, Scanned(sql, scan), NEW p \in Nat, Reads(scan[p], "normal", 0, 0),
           NEW segment, segment.kind \in Kinds, segment.text \in Seq(Chars), SegmentFits(segment),
           NEW w, w = SegmentText(segment), Continues(sql, p, w),
           NotResumed(sql, p + Len(w), segment.kind)
    PROVE  /\ Reads(scan[p + Len(w)], "normal", 0, 0)
           /\ \A i \in (p + 1)..(p + Len(w)) : Shown(sql, scan, i, segment.kind)
<1> DEFINE kind == segment.kind
           text == segment.text
<1>1. CASE kind = "code"
  <2>1. w = text
    BY <1>1, Zenon DEF SegmentText
  <2>2. PICK tokens : tokens = {<<"-", "-">>, <<"/", "*">>, <<"'">>, <<"\"">>, <<"$">>}
    OBVIOUS
  <2>3. /\ <<"-", "-">> \in tokens /\ <<"/", "*">> \in tokens
        /\ \A c \in Special : <<c>> \in tokens
    BY <2>2, Zenon DEF Special
  <2>4. /\ text # <<>> /\ Last(text) \notin {"-", "/"} /\ Avoids(text, <<>>, tokens)
    BY <1>1, <2>2, Zenon DEF SegmentFits
  <2>5. Last(text) # "-" /\ Last(text) # "/"
    BY <2>4
  <2>6. text \in Seq(Chars) /\ Continues(sql, p, text)
    BY <2>1
  <2> HIDE DEF text, kind
  <2>7. /\ Reads(scan[p + Len(text)], "normal", 0, 0)
        /\ \A i \in (p + 1)..(p + Len(text)) : ~ scan[i].hidden
    BY <2>3, <2>4, <2>5, <2>6, CodeSegment
  <2>8. /\ Reads(scan[p + Len(w)], "normal", 0, 0)
        /\ \A i \in (p + 1)..(p + Len(w)) : ~ scan[i].hidden
    BY <2>1, <2>7
  <2>9. QED
    BY <1>1, <2>8, Zenon DEF Shown, kind
<1>2. ASSUME kind # "code",
             /\ Reads(scan[p + Len(w)], "normal", 0, 0)
             /\ \A i \in (p + 1)..(p + Len(w)) : scan[i].hidden \/ sql[i] = "\n"
      PROVE  /\ Reads(scan[p + Len(w)], "normal", 0, 0)
             /\ \A i \in (p + 1)..(p + Len(w)) : Shown(sql, scan, i, kind)
  BY <1>2, Zenon DEF Shown
<1>3. CASE kind = "line"
  <2>1. w = Wrapped(<<"-", "-">>, text, <<"\n">>)
    BY <1>3, Zenon DEF SegmentText, Wrapped
  <2>2. Avoids(text, <<>>, {<<"\n">>})
    BY <1>3, Zenon DEF SegmentFits
  <2>3. text \in Seq(Chars) /\ kind # "code"
    BY <1>3
  <2> HIDE DEF text, kind
  <2>4. QED
    BY <1>2, <2>1, <2>2, <2>3, LineSegment DEF kind
<1>4. CASE kind = "block"
  <2>1. w = Wrapped(<<"/", "*">>, Nested(text), <<"*", "/">>)
    BY <1>4, Zenon DEF SegmentText, Wrapped
  <2>2. ClosesWithin(text)
    BY <1>4, Zenon DEF SegmentFits
  <2>3. text \in Seq(Chars) /\ kind # "code"
    BY <1>4
  <2> HIDE DEF text, kind
  <2>4. QED
    BY <1>2, <2>1, <2>2, <2>3, BlockSegment DEF kind
<1>5. ASSUME NEW mode, NEW quote, QuotedBy(mode, quote), EndsWith(kind, quote),
             NoEscape(text, quote), w = Wrapped(<<quote>>, Doubled(text, quote), <<quote>>)
      PROVE  /\ Reads(scan[p + Len(w)], "normal", 0, 0)
             /\ \A i \in (p + 1)..(p + Len(w)) : scan[i].hidden \/ sql[i] = "\n"
  <2>1. p + Len(w) = Len(sql) \/ sql[p + Len(w) + 1] # quote
    BY <1>5, Zenon DEF NotResumed
  <2>2. text \in Seq(Chars)
    OBVIOUS
  <2> HIDE DEF text, kind
  <2>3. QED
    BY <1>5, <2>1, <2>2, QuoteSegment
<1>6. CASE kind = "literal"
  <2>1. w = Wrapped(<<"'">>, Doubled(text, "'"), <<"'">>)
    BY <1>6, Zenon DEF SegmentText, Wrapped
  <2>2. NoEscape(text, "'")
    <3>1. Avoids(text, <<>>, {<<"\\">>})
      BY <1>6, Zenon DEF SegmentFits
    <3>2. "\\" \in Chars
      BY Tokenized, Zenon
    <3>3. QED
      BY <3>1, <3>2, AvoidsOne DEF NoEscape
  <2>3. QuotedBy("single-quote", "'") /\ EndsWith(kind, "'") /\ kind # "code"
    BY <1>6 DEF QuotedBy, EndsWith
  <2> HIDE DEF text, kind
  <2>4. QED
    BY <1>2, <1>5, <2>1, <2>2, <2>3, Zenon DEF kind
<1>7. CASE kind = "identifier"
  <2>1. w = Wrapped(<<"\"">>, Doubled(text, "\""), <<"\"">>)
    BY <1>7, Zenon DEF SegmentText, Wrapped
  <2>2. NoEscape(text, "\"")
    BY Zenon DEF NoEscape
  <2>3. QuotedBy("double-quote", "\"") /\ EndsWith(kind, "\"") /\ kind # "code"
    BY <1>7, Zenon DEF QuotedBy, EndsWith
  <2> HIDE DEF text, kind
  <2>4. QED
    BY <1>2, <1>5, <2>1, <2>2, <2>3, Zenon DEF kind
<1>8. CASE kind = "dollar"
  <2>1. PICK tag : tag = <<"$", "$">>
    OBVIOUS
  <2>2. w = Wrapped(tag, text, tag)
    BY <1>8, <2>1, Zenon DEF SegmentText, Wrapped
  <2>3. Avoids(text, tag, {tag})
    BY <1>8, <2>1, Zenon DEF SegmentFits
  <2>4. text \in Seq(Chars) /\ kind # "code"
    BY <1>8
  <2> HIDE DEF text, kind
  <2>5. QED
    BY <1>2, <2>1, <2>2, <2>3, <2>4, DollarSegment DEF kind
<1>9. CASE kind = "tagged"
  <2>1. PICK tag : tag = <<"$", "x", "$">>
    OBVIOUS
  <2>2. w = Wrapped(tag, text, tag)
    BY <1>9, <2>1, Zenon DEF SegmentText, Wrapped
  <2>3. Avoids(text, tag, {tag})
    BY <1>9, <2>1, Zenon DEF SegmentFits
  <2>4. text \in Seq(Chars) /\ kind # "code"
    BY <1>9
  <2> HIDE DEF text, kind
  <2>5. QED
    BY <1>2, <2>1, <2>2, <2>3, <2>4, DollarSegment DEF kind
<1>10. QED
  BY <1>1, <1>3, <1>4, <1>6, <1>7, <1>8, <1>9 DEF Kinds

\* A text between tokens begins with the first.
LEMMA WrappedText ==
    ASSUME NEW C, NEW opening \in Seq(C), NEW text \in Seq(C), NEW closing \in Seq(C),
           Len(opening) >= 1
    PROVE  /\ Wrapped(opening, text, closing) \in Seq(C)
           /\ Len(Wrapped(opening, text, closing)) >= 1
           /\ Wrapped(opening, text, closing)[1] = opening[1]
<1>1. PICK s : s = opening \o text
  OBVIOUS
<1>2. s \in Seq(C) /\ Len(s) = Len(opening) + Len(text) /\ s[1] = opening[1]
  BY <1>1, Concatenation
<1>3. s \o closing \in Seq(C) /\ Len(s \o closing) = Len(s) + Len(closing)
      /\ (s \o closing)[1] = s[1]
  <2>1. 1 \in 1..Len(s)
    BY <1>2
  <2>2. /\ s \o closing \in Seq(C) /\ Len(s \o closing) = Len(s) + Len(closing)
        /\ \A k \in 1..Len(s) : (s \o closing)[k] = s[k]
    <3>1. s \in Seq(C)
      BY <1>2
    <3>2. QED
      BY <3>1, Concatenation
  <2>3. QED
    BY <2>1, <2>2, Zenon
<1>4. Len(s) >= 1 /\ Len(closing) \in Nat
  BY <1>2
<1>5. Wrapped(opening, text, closing) = s \o closing
  BY <1>1, Zenon DEF Wrapped
<1>6. Len(s \o closing) >= 1
  BY <1>3, <1>4
<1>7. QED
  BY <1>2, <1>3, <1>5, <1>6, Zenon

\* A concatenation of texts is a text.
LEMMA FlattenedIsText ==
    ASSUME NEW C, NEW parts \in Seq(Seq(C)) PROVE FlattenSeq(parts) \in Seq(C)
<1>1. PICK ends : PartEnds(parts, ends)
  BY EndsExist
<1>2. QED
  BY <1>1, FlattenParts

\* The text of a segment, and how it begins.
LEMMA SegmentShape ==
    ASSUME NEW segment, segment.kind \in Kinds, segment.text \in Seq(Chars), SegmentFits(segment),
           NEW w, w = SegmentText(segment)
    PROVE  /\ w \in Seq(Chars)
           /\ \A quote, kind : EndsWith(kind, quote) /\ segment.kind # kind => Len(w) >= 1 /\ w[1] # quote
<1> DEFINE text == segment.text
           k == segment.kind
<1>1. ASSUME NEW opening \in Seq(Chars), NEW body \in Seq(Chars), NEW closing \in Seq(Chars),
             w = Wrapped(opening, body, closing), Len(opening) >= 1
      PROVE  w \in Seq(Chars) /\ Len(w) >= 1 /\ w[1] = opening[1]
  BY <1>1, WrappedText
<1>2. ASSUME NEW quote, NEW kind, EndsWith(kind, quote)
      PROVE  quote = "'" \/ quote = "\""
  BY <1>2, Zenon DEF EndsWith
<1>3. CASE k = "code"
  <2>1. w = text
    BY <1>3, Zenon DEF SegmentText
  <2>2. PICK tokens : tokens = {<<"-", "-">>, <<"/", "*">>, <<"'">>, <<"\"">>, <<"$">>}
    OBVIOUS
  <2>3. \A quote : quote = "'" \/ quote = "\"" => <<quote>> \in tokens /\ quote \in Chars
    BY <2>2, Tokenized, Zenon
  <2>4. text # <<>> /\ Avoids(text, <<>>, tokens)
    BY <1>3, <2>2, Zenon DEF SegmentFits
  <2>5. text \in Seq(Chars) /\ Len(text) >= 1 /\ 1 \in 1..Len(text)
    BY <2>4
  <2> HIDE DEF text, k
  <2>6. ASSUME NEW quote, NEW kind, EndsWith(kind, quote) PROVE text[1] # quote
    <3>1. <<quote>> \in tokens /\ quote \in Chars
      BY <1>2, <2>3, <2>6, Zenon
    <3>2. QED
      BY <2>4, <2>5, <3>1, AvoidsOne
  <2>7. QED
    BY <2>1, <2>5, <2>6, Zenon
<1>4. CASE k = "line"
  <2>1. PICK opening, closing : opening = <<"-", "-">> /\ closing = <<"\n">>
    OBVIOUS
  <2>2. "-" \in Chars /\ "\n" \in Chars /\ text \in Seq(Chars)
    <3>1. "-" \in Chars /\ "\n" \in Chars
      BY Tokenized
    <3>2. QED
      BY <3>1
  <2>3. opening \in Seq(Chars) /\ closing \in Seq(Chars) /\ Len(opening) >= 1 /\ opening[1] = "-"
    BY <2>1, <2>2
  <2>4. w = Wrapped(opening, text, closing)
    BY <1>4, <2>1, Zenon DEF SegmentText, Wrapped
  <2>5. w \in Seq(Chars) /\ Len(w) >= 1 /\ w[1] = "-"
    BY <1>1, <2>2, <2>3, <2>4, Zenon
  <2>6. QED
    BY <1>2, <2>5, Zenon
<1>5. CASE k = "block"
  <2>1. PICK opening, closing, body :
           opening = <<"/", "*">> /\ closing = <<"*", "/">> /\ body = Nested(text)
    OBVIOUS
  <2>2. "/" \in Chars /\ "*" \in Chars
    BY Tokenized
  <2>3. opening \in Seq(Chars) /\ closing \in Seq(Chars) /\ Len(opening) >= 1 /\ opening[1] = "/"
    BY <2>1, <2>2
  <2>4. w = Wrapped(opening, body, closing)
    BY <1>5, <2>1, Zenon DEF SegmentText, Wrapped
  <2>5. body \in Seq(Chars)
    <3>1. body = FlattenSeq(NestedPieces(text))
      BY <2>1, Zenon DEF Nested, NestedPieces
    <3>2. QED
      BY <3>1, NestedAreParts, FlattenedIsText
  <2>6. w \in Seq(Chars) /\ Len(w) >= 1 /\ w[1] = "/"
    BY <1>1, <2>3, <2>4, <2>5, Zenon
  <2>7. QED
    BY <1>2, <2>6, Zenon
<1>6. ASSUME NEW mark \in Chars, w = Wrapped(<<mark>>, Doubled(text, mark), <<mark>>)
      PROVE  w \in Seq(Chars) /\ Len(w) >= 1 /\ w[1] = mark
  <2>1. PICK opening, body : opening = <<mark>> /\ body = Doubled(text, mark)
    OBVIOUS
  <2>2. opening \in Seq(Chars) /\ Len(opening) >= 1 /\ opening[1] = mark
    BY <2>1
  <2>3. body \in Seq(Chars)
    <3>1. body = FlattenSeq(Pieces(text, mark))
      BY <2>1, Zenon DEF Doubled, Pieces
    <3>2. QED
      BY <3>1, PiecesAreParts, FlattenedIsText
  <2>4. w = Wrapped(opening, body, opening)
    BY <1>6, <2>1
  <2>5. QED
    BY <1>1, <2>2, <2>3, <2>4, Zenon
<1>7. CASE k = "literal"
  <2>1. "'" \in Chars /\ w = Wrapped(<<"'">>, Doubled(text, "'"), <<"'">>)
    BY <1>7, Tokenized, Zenon DEF SegmentText, Wrapped
  <2>2. w \in Seq(Chars) /\ Len(w) >= 1 /\ w[1] = "'"
    BY <1>6, <2>1, Zenon
  <2>3. QED
    BY <1>7, <2>2, Zenon DEF EndsWith
<1>8. CASE k = "identifier"
  <2>1. "\"" \in Chars /\ w = Wrapped(<<"\"">>, Doubled(text, "\""), <<"\"">>)
    BY <1>8, Tokenized, Zenon DEF SegmentText, Wrapped
  <2>2. w \in Seq(Chars) /\ Len(w) >= 1 /\ w[1] = "\""
    BY <1>6, <2>1, Zenon
  <2>3. QED
    BY <1>8, <2>2, Zenon DEF EndsWith
<1>9. ASSUME NEW tag, tag = <<"$", "$">> \/ tag = <<"$", "x", "$">>, w = Wrapped(tag, text, tag)
      PROVE  w \in Seq(Chars) /\ Len(w) >= 1 /\ w[1] = "$"
  <2>1. tag \in Seq(Chars) /\ Len(tag) >= 1
    BY <1>9, TagShape
  <2>2. tag[1] = "$"
    BY <1>9
  <2>3. text \in Seq(Chars)
    OBVIOUS
  <2>4. QED
    BY <1>1, <1>9, <2>1, <2>2, <2>3, Zenon
<1>10. CASE k = "dollar"
  <2>1. w = Wrapped(<<"$", "$">>, text, <<"$", "$">>)
    BY <1>10, Zenon DEF SegmentText, Wrapped
  <2>2. w \in Seq(Chars) /\ Len(w) >= 1 /\ w[1] = "$"
    BY <1>9, <2>1, Zenon
  <2>3. QED
    BY <1>2, <2>2, Zenon
<1>11. CASE k = "tagged"
  <2>1. w = Wrapped(<<"$", "x", "$">>, text, <<"$", "x", "$">>)
    BY <1>11, Zenon DEF SegmentText, Wrapped
  <2>2. w \in Seq(Chars) /\ Len(w) >= 1 /\ w[1] = "$"
    BY <1>9, <2>1, Zenon
  <2>3. QED
    BY <1>2, <2>2, Zenon
<1>12. QED
  BY <1>3, <1>4, <1>5, <1>7, <1>8, <1>10, <1>11 DEF Kinds

-----------------------------------------------------------------------------
(* Scripts, a segment at a time.                                           *)

\* The parts Text is made of.
SegmentTexts(script) == [i \in DOMAIN script |-> SegmentText(script[i])]

\* What ScriptFits says of a script and its segments.
LEMMA ScriptShape ==
    ASSUME NEW script, ScriptFits(script), NEW parts, parts = SegmentTexts(script)
    PROVE  /\ parts \in Seq(Seq(Chars)) /\ Len(parts) = Len(script) /\ Len(script) \in Nat
           /\ Text(script) = FlattenSeq(parts)
           /\ \A i \in 1..Len(script) :
                 /\ script[i].kind \in Kinds /\ script[i].text \in Seq(Chars)
                 /\ SegmentFits(script[i])
                 /\ parts[i] = SegmentText(script[i])
           /\ \A i \in 1..(Len(script) - 1) :
                 script[i].kind \in {"literal", "identifier"} => script[i + 1].kind # script[i].kind
<1> DEFINE n == Len(script)
           Segments == [kind : Kinds, text : Seq(STRING)]
<1>1. script \in Seq(Segments)
  BY DEF ScriptFits
<1>2. \A s \in Segments : s.kind \in Kinds /\ s.text \in Seq(Chars)
  <2>1. Seq(STRING) \subseteq Seq(Chars)
    <3> SUFFICES ASSUME NEW t \in Seq(STRING) PROVE t \in Seq(Chars)
      OBVIOUS
    <3>1. Len(t) \in Nat /\ \A i \in 1..Len(t) : t[i] \in STRING
      OBVIOUS
    <3>2. \A i \in 1..Len(t) : t[i] \in Chars
      BY <3>1, Zenon DEF Chars
    <3>3. t = [i \in 1..Len(t) |-> t[i]]
      OBVIOUS
    <3>4. QED
      BY <3>1, <3>2, <3>3
  <2>2. QED
    BY <2>1
<1> HIDE DEF Segments
<1>3. n \in Nat /\ DOMAIN script = 1..n /\ \A i \in 1..n : script[i] \in Segments
  BY <1>1
<1>4. parts = [i \in 1..n |-> SegmentText(script[i])]
  BY <1>3 DEF SegmentTexts
<1>5. Text(script) = FlattenSeq(parts)
  BY DEF Text, SegmentTexts
<1>6. \A i \in 1..n : SegmentFits(script[i])
  BY <1>3 DEF ScriptFits
<1>7. ASSUME NEW i \in 1..n
      PROVE  /\ script[i].kind \in Kinds /\ script[i].text \in Seq(Chars)
             /\ SegmentFits(script[i])
             /\ parts[i] = SegmentText(script[i])
             /\ parts[i] \in Seq(Chars)
  <2>1. script[i].kind \in Kinds /\ script[i].text \in Seq(Chars) /\ SegmentFits(script[i])
    BY <1>2, <1>3, <1>6
  <2>2. parts[i] = SegmentText(script[i])
    BY <1>4
  <2>3. parts[i] \in Seq(Chars)
    BY <2>1, <2>2, SegmentShape
  <2>4. QED
    BY <2>1, <2>2, <2>3
<1>8. parts \in Seq(Seq(Chars)) /\ Len(parts) = n
  BY <1>3, <1>4, <1>7
<1>9. \A i \in 1..(n - 1) :
         script[i].kind \in {"literal", "identifier"} => script[i + 1].kind # script[i].kind
  BY Zenon DEF ScriptFits
<1>10. QED
  BY <1>3, <1>5, <1>7, <1>8, <1>9

\* A part of a concatenation is where the parts before it end.
LEMMA PartsContinue ==
    ASSUME NEW C, NEW parts \in Seq(Seq(C)), NEW ends, PartEnds(parts, ends),
           NEW sql, sql = FlattenSeq(parts), NEW j \in 1..Len(parts)
    PROVE  /\ Continues(sql, ends[j - 1], parts[j])
           /\ ends[j - 1] \in Nat /\ ends[j] = ends[j - 1] + Len(parts[j])
           /\ Len(parts[j]) \in Nat /\ ends[j] <= Len(sql)
<1>1. /\ Len(sql) = ends[Len(parts)]
      /\ \A k \in 1..Len(parts[j]) : sql[ends[j - 1] + k] = parts[j][k]
  BY FlattenParts
<1>2. ends[j] <= ends[Len(parts)]
  <2>1. Len(parts) \in 0..Len(parts) /\ j \in 0..Len(parts)
    OBVIOUS
  <2>2. QED
    BY <2>1, EndsGrow
<1>3. ends[j - 1] \in Nat /\ ends[j] = ends[j - 1] + Len(parts[j]) /\ Len(parts[j]) \in Nat
  <2>1. j - 1 \in 0..Len(parts) /\ Len(parts[j]) \in Nat
    OBVIOUS
  <2>2. ends[j - 1] \in Nat
    BY <2>1 DEF PartEnds
  <2>3. ends[j] = ends[j - 1] + Len(parts[j])
    BY DEF PartEnds
  <2>4. QED
    BY <2>1, <2>2, <2>3
<1>4. QED
  BY <1>1, <1>2, <1>3 DEF Continues

\* The scanner is between tokens wherever a segment ends, and has hidden
\* what is not code.
LEMMA ScriptRun ==
    ASSUME NEW script, ScriptFits(script), NEW sql, sql = Text(script), NEW scan, Scanned(sql, scan),
           Reads(scan[0], "normal", 0, 0), NEW ends, PartEnds(SegmentTexts(script), ends)
    PROVE  /\ Reads(scan[Len(sql)], "normal", 0, 0)
           /\ \A j \in 1..Len(script) : \A k \in 1..Len(SegmentText(script[j])) :
                 Shown(sql, scan, ends[j - 1] + k, script[j].kind)
<1> DEFINE n == Len(script)
<1>1. PICK parts : parts = SegmentTexts(script)
  OBVIOUS
<1>2. /\ parts \in Seq(Seq(Chars)) /\ Len(parts) = n /\ n \in Nat
      /\ sql = FlattenSeq(parts)
      /\ \A i \in 1..n :
            /\ script[i].kind \in Kinds /\ script[i].text \in Seq(Chars)
            /\ SegmentFits(script[i])
            /\ parts[i] = SegmentText(script[i])
      /\ \A i \in 1..(n - 1) :
            script[i].kind \in {"literal", "identifier"} => script[i + 1].kind # script[i].kind
  BY <1>1, ScriptShape
<1>3. PartEnds(parts, ends)
  BY <1>1
<1>4. \A j \in 1..n :
         /\ Continues(sql, ends[j - 1], parts[j])
         /\ ends[j - 1] \in Nat /\ ends[j] = ends[j - 1] + Len(parts[j])
         /\ Len(parts[j]) \in Nat /\ ends[j] <= Len(sql)
  BY <1>2, <1>3, PartsContinue
<1>5. ends[0] = 0 /\ Len(sql) = ends[n]
  <2>1. Len(sql) = ends[Len(parts)]
    BY <1>2, <1>3, FlattenParts
  <2>2. QED
    BY <1>2, <1>3, <2>1 DEF PartEnds
<1> HIDE DEF n
<1>6. ASSUME NEW j \in 1..n PROVE NotResumed(sql, ends[j], script[j].kind)
  <2>1. SUFFICES ASSUME NEW quote, EndsWith(script[j].kind, quote), j # n
                 PROVE  sql[ends[j] + 1] # quote
    BY <1>5 DEF NotResumed
  <2>2. j \in 1..(n - 1) /\ j + 1 \in 1..n /\ (j + 1) - 1 = j
    BY <1>2, <2>1
  <2>3. script[j].kind \in {"literal", "identifier"}
    BY <2>1, Zenon DEF EndsWith
  <2>4. script[j + 1].kind # script[j].kind
    BY <1>2, <2>2, <2>3
  <2>5. Len(parts[j + 1]) >= 1 /\ parts[j + 1][1] # quote
    <3>1. /\ script[j + 1].kind \in Kinds /\ script[j + 1].text \in Seq(Chars)
          /\ SegmentFits(script[j + 1]) /\ parts[j + 1] = SegmentText(script[j + 1])
      BY <1>2, <2>2
    <3>2. QED
      BY <2>1, <2>4, <3>1, SegmentShape
  <2>6. sql[ends[j] + 1] = parts[j + 1][1]
    <3>1. Continues(sql, ends[j], parts[j + 1]) /\ Len(parts[j + 1]) \in Nat
      BY <1>4, <2>2
    <3>2. 1 \in 1..Len(parts[j + 1])
      BY <2>5, <3>1
    <3>3. QED
      BY <3>1, <3>2 DEF Continues
  <2>7. QED
    BY <2>5, <2>6
<1>7. ASSUME NEW j \in 1..n, Reads(scan[ends[j - 1]], "normal", 0, 0)
      PROVE  /\ Reads(scan[ends[j]], "normal", 0, 0)
             /\ \A i \in (ends[j - 1] + 1)..ends[j] : Shown(sql, scan, i, script[j].kind)
  <2>1. PICK p, w : p = ends[j - 1] /\ w = parts[j]
    OBVIOUS
  <2>2. p \in Nat /\ Continues(sql, p, w) /\ ends[j] = p + Len(w)
        /\ w = SegmentText(script[j]) /\ script[j].kind \in Kinds
        /\ script[j].text \in Seq(Chars) /\ SegmentFits(script[j])
    BY <1>2, <1>4, <2>1
  <2>3. NotResumed(sql, p + Len(w), script[j].kind) /\ Reads(scan[p], "normal", 0, 0)
    BY <1>6, <1>7, <2>1, <2>2
  <2>4. /\ Reads(scan[p + Len(w)], "normal", 0, 0)
        /\ \A i \in (p + 1)..(p + Len(w)) : Shown(sql, scan, i, script[j].kind)
    BY <2>2, <2>3, SegmentRun
  <2>5. QED
    BY <2>1, <2>2, <2>4
<1> DEFINE X == {j \in Nat : Reads(scan[ends[j]], "normal", 0, 0)}
<1>8. \A j \in 0..n : j \in X
  <2>1. 0 \in X
    BY <1>5
  <2>2. ASSUME NEW j \in (0 + 1)..n, j - 1 \in X PROVE j \in X
    <3>1. j \in 1..n /\ j \in Nat
      BY <1>2
    <3>2. QED
      BY <1>7, <2>2, <3>1
  <2> HIDE DEF X
  <2>3. QED
    BY <1>2, <2>1, <2>2, Stays
<1>9. Reads(scan[Len(sql)], "normal", 0, 0)
  <2>1. n \in 0..n
    BY <1>2
  <2>2. QED
    BY <1>5, <1>8, <2>1
<1>10. ASSUME NEW j \in 1..n, NEW k \in 1..Len(parts[j])
       PROVE  Shown(sql, scan, ends[j - 1] + k, script[j].kind)
  <2>1. j - 1 \in 0..n
    BY <1>2
  <2>2. Reads(scan[ends[j - 1]], "normal", 0, 0)
    <3>1. j - 1 \in X
      <4> HIDE DEF X
      <4>1. QED
        BY <1>8, <2>1
    <3>2. QED
      BY <3>1
  <2>3. PICK p, q, l : p = ends[j - 1] /\ q = ends[j] /\ l = Len(parts[j])
    OBVIOUS
  <2>4. p \in Nat /\ l \in Nat /\ q = p + l /\ k \in 1..l
    BY <1>4, <2>3
  <2>5. p + k \in (p + 1)..q
    BY <2>4
  <2>6. QED
    BY <1>7, <2>2, <2>3, <2>5
<1>11. QED
  BY <1>2, <1>9, <1>10 DEF n

\* What is hidden is replaced by this.
Blank == " "

\* The parts CodeOnly is made of.
Blanked(script) ==
    [i \in DOMAIN script |->
        IF script[i].kind = "code" THEN script[i].text
        ELSE [k \in DOMAIN SegmentText(script[i]) |->
                IF SegmentText(script[i])[k] = "\n" THEN "\n" ELSE Blank]]

\* CodeOnly is made of parts as long as those of Text.
LEMMA BlankedShape ==
    ASSUME NEW script, ScriptFits(script), NEW blanks, blanks = Blanked(script)
    PROVE  /\ CodeOnly(script) = FlattenSeq(blanks)
           /\ blanks \in Seq(Seq(Chars \cup {Blank})) /\ Len(blanks) = Len(script)
           /\ \A j \in 1..Len(script) : Len(blanks[j]) = Len(SegmentText(script[j]))
           /\ \A j \in 1..Len(script) : \A k \in 1..Len(SegmentText(script[j])) :
                 blanks[j][k] =
                    IF script[j].kind = "code" \/ SegmentText(script[j])[k] = "\n"
                    THEN SegmentText(script[j])[k] ELSE Blank
<1> DEFINE n == Len(script)
           C == Chars \cup {Blank}
<1>1. PICK parts : parts = SegmentTexts(script)
  OBVIOUS
<1>2. /\ parts \in Seq(Seq(Chars)) /\ Len(parts) = n /\ n \in Nat
      /\ \A i \in 1..n :
            /\ script[i].kind \in Kinds /\ script[i].text \in Seq(Chars)
            /\ parts[i] = SegmentText(script[i])
  BY <1>1, ScriptShape
<1>3. CodeOnly(script) = FlattenSeq(blanks)
  BY Zenon DEF CodeOnly, Blanked, Blank
<1>4. DOMAIN script = 1..n
  <2>1. script \in Seq([kind : Kinds, text : Seq(STRING)])
    BY DEF ScriptFits
  <2>2. QED
    BY <2>1
<1>5. blanks = [j \in 1..n |-> blanks[j]]
  BY <1>4 DEF Blanked
<1>6. ASSUME NEW j \in 1..n
      PROVE  /\ blanks[j] \in Seq(C) /\ Len(blanks[j]) = Len(parts[j])
             /\ \A k \in 1..Len(parts[j]) :
                   blanks[j][k] = IF script[j].kind = "code" \/ parts[j][k] = "\n"
                                  THEN parts[j][k] ELSE Blank
  <2>1. PICK part, kind : part = parts[j] /\ kind = script[j].kind
    OBVIOUS
  <2>2. part \in Seq(Chars) /\ part = SegmentText(script[j])
    BY <1>2, <2>1
  <2>3. blanks[j] = IF kind = "code" THEN script[j].text
                    ELSE [k \in DOMAIN part |-> IF part[k] = "\n" THEN "\n" ELSE Blank]
    BY <1>4, <2>1, <2>2 DEF Blanked
  <2>4. CASE kind = "code"
    <3>1. part = script[j].text
      BY <2>1, <2>2, <2>4, Zenon DEF SegmentText
    <3>2. blanks[j] = part
      BY <2>3, <2>4, <3>1
    <3>3. part \in Seq(C)
      <4>1. Len(part) \in Nat /\ part = [k \in 1..Len(part) |-> part[k]]
            /\ \A k \in 1..Len(part) : part[k] \in C
        BY <2>2
      <4> HIDE DEF C
      <4>2. QED
        BY <4>1
    <3>4. QED
      BY <2>1, <2>4, <3>2, <3>3
  <2>5. CASE kind # "code"
    <3>1. blanks[j] = [k \in DOMAIN part |-> IF part[k] = "\n" THEN "\n" ELSE Blank]
      BY <2>3, <2>5
    <3>2. PICK s : s = blanks[j]
      OBVIOUS
    <3>3. Len(part) \in Nat /\ DOMAIN part = 1..Len(part)
      BY <2>2
    <3>4. "\n" \in C /\ Blank \in C
      <4>1. "\n" \in Chars
        BY Tokenized
      <4>2. QED
        BY <4>1
    <3>5. s = [k \in 1..Len(part) |-> IF part[k] = "\n" THEN "\n" ELSE Blank]
      BY <3>1, <3>2, <3>3
    <3> HIDE DEF C
    <3>6. s \in Seq(C) /\ Len(s) = Len(part)
      BY <3>3, <3>4, <3>5
    <3>7. \A k \in 1..Len(part) : s[k] = IF part[k] = "\n" THEN part[k] ELSE Blank
      BY <3>5
    <3>8. QED
      BY <2>1, <2>5, <3>2, <3>6, <3>7
  <2>6. QED
    BY <2>4, <2>5
<1> HIDE DEF C
<1>7. blanks \in Seq(Seq(C)) /\ Len(blanks) = n
  BY <1>2, <1>5, <1>6
<1>8. QED
  BY <1>2, <1>3, <1>6, <1>7 DEF C

\* The scanner strips exactly what is not code, and ends between tokens,
\* whatever the segments of the script and whatever they contain.
THEOREM StripsExactly ==
    ASSUME NEW script, ScriptFits(script)
    PROVE  StrippingIsExact(script)
<1> DEFINE n == Len(script)
           C == Chars \cup {Blank}
<1>1. PICK parts, blanks, sql, scan, code :
         /\ parts = SegmentTexts(script) /\ blanks = Blanked(script)
         /\ sql = Text(script) /\ scan = Scan(sql) /\ code = CodeOnly(script)
  OBVIOUS
<1>2. /\ parts \in Seq(Seq(Chars)) /\ Len(parts) = n /\ n \in Nat
      /\ sql = FlattenSeq(parts)
      /\ \A i \in 1..n : parts[i] = SegmentText(script[i])
  BY <1>1, ScriptShape
<1>3. /\ code = FlattenSeq(blanks) /\ blanks \in Seq(Seq(C)) /\ Len(blanks) = n
      /\ \A j \in 1..n : Len(blanks[j]) = Len(parts[j])
      /\ \A j \in 1..n : \A k \in 1..Len(parts[j]) :
            blanks[j][k] = IF script[j].kind = "code" \/ parts[j][k] = "\n"
                           THEN parts[j][k] ELSE Blank
  <2>1. /\ code = FlattenSeq(blanks) /\ blanks \in Seq(Seq(C)) /\ Len(blanks) = n
        /\ \A j \in 1..n : Len(blanks[j]) = Len(SegmentText(script[j]))
        /\ \A j \in 1..n : \A k \in 1..Len(SegmentText(script[j])) :
              blanks[j][k] = IF script[j].kind = "code" \/ SegmentText(script[j])[k] = "\n"
                             THEN SegmentText(script[j])[k] ELSE Blank
    BY <1>1, BlankedShape
  <2>2. QED
    BY <1>2, <2>1
<1>4. PICK ends : PartEnds(parts, ends)
  BY <1>2, EndsExist
<1>5. PartEnds(blanks, ends)
  BY <1>2, <1>3, <1>4 DEF PartEnds
<1>6. /\ sql \in Seq(Chars) /\ Len(sql) = ends[n]
      /\ \A j \in 1..n : \A k \in 1..Len(parts[j]) : sql[ends[j - 1] + k] = parts[j][k]
  <2>1. /\ sql \in Seq(Chars) /\ Len(sql) = ends[Len(parts)]
        /\ \A j \in 1..Len(parts) : \A k \in 1..Len(parts[j]) : sql[ends[j - 1] + k] = parts[j][k]
    BY <1>2, <1>4, FlattenParts
  <2>2. QED
    BY <1>2, <2>1
<1> HIDE DEF C
<1>7. /\ code \in Seq(C) /\ Len(code) = ends[n]
      /\ \A j \in 1..n : \A k \in 1..Len(blanks[j]) : code[ends[j - 1] + k] = blanks[j][k]
  <2>1. /\ code \in Seq(C) /\ Len(code) = ends[Len(blanks)]
        /\ \A j \in 1..Len(blanks) : \A k \in 1..Len(blanks[j]) : code[ends[j - 1] + k] = blanks[j][k]
    BY <1>3, <1>5, FlattenParts
  <2>2. QED
    BY <1>3, <2>1
<1>8. Scanned(sql, scan) /\ Reads(scan[0], "normal", 0, 0)
  <2>1. Len(sql) \in Nat
    BY <1>6
  <2>2. scan[0] = LexStart /\ \A i \in 1..Len(sql) : scan[i] = LexStep(sql, i, scan[i - 1])
    BY <1>1, <2>1, ScanIsDefined
  <2>3. Reads(LexStart, "normal", 0, 0)
    BY DEF LexStart, Reads
  <2>4. QED
    BY <1>6, <2>2, <2>3 DEF Scanned
<1>9. /\ Reads(scan[Len(sql)], "normal", 0, 0)
      /\ \A j \in 1..n : \A k \in 1..Len(parts[j]) :
            Shown(sql, scan, ends[j - 1] + k, script[j].kind)
  <2>1. /\ Reads(scan[Len(sql)], "normal", 0, 0)
        /\ \A j \in 1..n : \A k \in 1..Len(SegmentText(script[j])) :
              Shown(sql, scan, ends[j - 1] + k, script[j].kind)
    BY <1>1, <1>4, <1>8, ScriptRun
  <2>2. QED
    BY <1>2, <2>1
<1>10. Terminated(sql)
  BY <1>1, <1>9 DEF Terminated, Reads
<1>11. PICK stripped : stripped = Stripped(sql)
  OBVIOUS
<1>12. stripped = [i \in DOMAIN sql |-> IF scan[i].hidden /\ sql[i] # "\n" THEN Blank ELSE sql[i]]
  BY <1>1, <1>11, Zenon DEF Stripped, Blank
<1>13. Covers(parts, ends)
  BY <1>2, <1>4, EndsCover
<1> HIDE DEF n
<1>14. ASSUME NEW m \in 1..ends[n]
       PROVE  (IF scan[m].hidden /\ sql[m] # "\n" THEN Blank ELSE sql[m]) = code[m]
  <2>1. PICK j \in 1..n : \E k \in 1..Len(parts[j]) : m = ends[j - 1] + k
    BY <1>2, <1>13 DEF Covers
  <2>2. PICK k \in 1..Len(parts[j]) : m = ends[j - 1] + k
    BY <2>1
  <2>3. sql[m] = parts[j][k] /\ Shown(sql, scan, m, script[j].kind)
    BY <1>6, <1>9, <2>2
  <2>4. code[m] = blanks[j][k]
    BY <1>3, <1>7, <2>2
  <2>5. blanks[j][k] = IF script[j].kind = "code" \/ parts[j][k] = "\n" THEN parts[j][k] ELSE Blank
    BY <1>3
  <2>6. QED
    BY <2>3, <2>4, <2>5 DEF Shown
<1>15. stripped = code
  <2>1. DOMAIN sql = 1..ends[n] /\ DOMAIN code = 1..ends[n]
    BY <1>6, <1>7
  <2>2. code = [m \in 1..ends[n] |-> code[m]]
    BY <1>7
  <2>3. stripped = [m \in 1..ends[n] |-> IF scan[m].hidden /\ sql[m] # "\n" THEN Blank ELSE sql[m]]
    BY <1>12, <2>1
  <2>4. QED
    BY <1>14, <2>2, <2>3
<1>16. QED
  BY <1>1, <1>10, <1>11, <1>15 DEF StrippingIsExact

-----------------------------------------------------------------------------

\* Whenever the SQL of the pending migrations is searched, what is searched
\* is exactly the code PostgreSQL would execute: no statement is hidden from the
\* search and no comment or quoted text is searched.
THEOREM StrippingIsRight == Spec => []StrippingLeavesTheCode
<1>1. TypeOK => StrippingLeavesTheCode
  <2> SUFFICES ASSUME TypeOK PROVE StrippingLeavesTheCode
    OBVIOUS
  <2>1. \A f \in pending : ScriptFits(f.script)
    BY ScriptAssumption DEF TypeOK
  <2>2. QED
    BY <2>1, ScriptAssumption, StripsExactly DEF StrippingLeavesTheCode
<1>2. QED
  BY <1>1, TypeCorrect, PTL

\* No deployment ever pushes a destructive statement, whatever changes
\* between the inspection of the SQL and the push.
THEOREM PushesAreHarmless == Spec => []NothingDestructiveIsPushed
<1>1. IInv => NothingDestructiveIsPushed
  <2> SUFFICES ASSUME IInv, NEW f \in pushed PROVE ~ Destructive(f)
    BY DEF NothingDestructiveIsPushed
  <2>1. ScriptFits(f.script)
    BY ScriptAssumption DEF IInv, TypeOK
  <2>2. Stripped(Text(f.script)) = CodeOnly(f.script)
    BY <2>1, StripsExactly DEF StrippingIsExact
  <2>3. ~ Forbidden(CodeOnly(f.script))
    BY <2>2 DEF IInv, DeployInv, PushedIsHarmless, SqlAccepted
  <2>4. QED
    BY <2>3 DEF Forbidden, Destructive
<1>2. QED
  BY <1>1, Invariance, PTL

-----------------------------------------------------------------------------

\* The heart of the push: what f finds applied when its turn comes.
LEMMA NextInLine ==
    ASSUME IInv, Untouched, NEW f \in Files, ApplyMigration(f)
    PROVE  /\ remote \subseteq Versions(checkout)
           /\ \A v \in remote : AsInt(v) <= AsInt(f.version)
           /\ \A g \in checkout : AsInt(g.version) < AsInt(f.version) => g.version \in remote
<1>1. /\ pc = "pushing" /\ f \in plan /\ f \in pending /\ f \in checkout
      /\ f.version \notin remote
      /\ \A g \in plan \ {f} : NameBefore(f, g)
  BY DEF ApplyMigration, IInv, TypeOK, DeployInv, MissingIsGated
<1>2. /\ HistoryAccepted(listing, checkout, FALSE) /\ pending = Pending(listing, checkout)
      /\ RepositoryAccepted(checkout) /\ checkout \subseteq Files /\ pushed \subseteq checkout
  BY <1>1 DEF IInv, TypeOK, DeployInv, ValidRepository, AcceptedListing, Gated, Ended
<1>3. \A g \in checkout : AsInt(g.version) \in Int
  BY <1>2, DeployAssumption
<1>4. \A g, h \in checkout : NameBefore(g, h) => AsInt(g.version) <= AsInt(h.version)
  BY <1>2 DEF RepositoryAccepted
<1>5. \A v \in Remotes(listing) : v \in Versions(checkout)
                                  /\ \E row \in listing : row.local = v /\ row.remote = v /\ v # Null
  BY <1>2 DEF HistoryAccepted, Remotes
<1>6. remote \subseteq Versions(checkout)
  BY <1>2, <1>5 DEF Untouched, Versions
<1>7. ASSUME NEW v \in remote PROVE AsInt(v) <= AsInt(f.version)
  <2>1. PICK g \in checkout : g.version = v /\ (v \in Remotes(listing) \/ g \in pushed)
    BY <1>2, <1>6 DEF Untouched, Versions
  <2>2. CASE g \in pushed
    BY <1>1, <1>4, <2>1, <2>2 DEF IInv, DeployInv, PushedInOrder
  <2>3. CASE v \in Remotes(listing)
    <3>1. PICK applied \in listing : applied.local = v /\ applied.remote = v /\ v # Null
      BY <1>5, <2>3
    <3>2. [local |-> f.version, remote |-> Null] \in listing
      BY <1>1, <1>2 DEF Pending
    <3>3. TextBefore(v, f.version)
      BY <1>2, <3>1, <3>2 DEF HistoryAccepted
    <3>4. g # f /\ ~ IsPrefix(v, f.version)
      BY <1>1, <1>2, <2>1 DEF RepositoryAccepted
    <3>5. NameBefore(g, f)
      BY <1>1, <1>2, <2>1, <3>3, <3>4, VersionOrderIsNameOrder
    <3>6. QED
      BY <1>1, <1>4, <2>1, <3>5
  <2>4. QED
    BY <2>1, <2>2, <2>3
<1>8. ASSUME NEW g \in checkout, AsInt(g.version) < AsInt(f.version) PROVE g.version \in remote
  <2>1. CASE g \in plan
    <3>1. g # f
      BY <1>1, <1>3, <1>8
    <3>2. AsInt(f.version) <= AsInt(g.version)
      BY <1>1, <1>4, <2>1, <3>1
    <3>3. QED
      BY <1>1, <1>3, <1>8, <3>2
  <2>2. CASE g \notin plan
    BY <1>1, <2>2 DEF IInv, DeployInv, MissingIsGated, Missing
  <2>3. QED
    BY <2>1, <2>2
<1>9. QED
  BY <1>6, <1>7, <1>8

\* Without interference, every push continues the chronological history of
\* its checkout, whatever deployments came before and however they ended.
THEOREM PushIsChronological == Spec => PushAppliesTheNextMigration
<1>1. ASSUME IInv, [Next]_vars, Untouched, NEW f \in pushed' \ pushed
      PROVE  /\ f \in Files
             /\ ApplyMigration(f)
  BY <1>1 DEF Next, vars, Merge, ApplyElsewhere, Start, ValidateRepository, GateHistory,
     RejectDestructive, VerifyPlan, VerifyNoOp, StartPush, ApplyMigration, EndPush,
     VerifyHistory, Fail, Unpushed
<1>2. IInv /\ [Next]_vars =>
        [Untouched => \A f \in pushed' \ pushed :
            /\ remote \subseteq Versions(checkout)
            /\ \A v \in remote : AsInt(v) <= AsInt(f.version)
            /\ \A g \in checkout :
                  AsInt(g.version) < AsInt(f.version) => g.version \in remote]_vars
  BY <1>1, NextInLine
<1>3. QED
  BY <1>2, Invariance, PTL DEF PushAppliesTheNextMigration, Spec
=============================================================================
