---------------------- MODULE LocalArtifactStoreProofs ----------------------
(***************************************************************************)
(* Proofs about LocalArtifactStore: for any number of concurrent writers,  *)
(* crashes and errors, the file system store implements WriteOnce.         *)
(***************************************************************************)
EXTENDS LocalArtifactStore, TLAPS

\* A temporary name leads to its own writer's inode, which exists from
\* mkstemp on and is complete when it is linked.
TempsArePrivate ==
    \A c \in Calls :
        /\ temp[c] \in {"absent", c}
        /\ pc[c] \in {"write", "sync", "link", "verify"} => temp[c] = c
        /\ pc[c] \in {"link", "verify"} => content[c] = "exact"

\* The key leads to a file that was there before, or to the complete file of
\* a writer that will never write to it again.
TargetIsSettled ==
    /\ content["earlier"] = "exact"
    /\ content["other"] = "other"
    /\ \A c \in Calls : target = c =>
          /\ content[c] = "exact"
          /\ pc[c] \in {"verify", "done", "crashed"}

\* What a writer concludes from follows from its own link, or another's.
ProgressFits ==
    \A c \in Calls :
        /\ pc[c] = "verify" => target = c
        /\ pc[c] = "reuse" => target \notin {"absent", c}
        /\ outcome[c] # "open" => pc[c] = "done"

OutcomesFit ==
    \A c \in Calls :
        /\ outcome[c] = "stored" => target = c
        /\ outcome[c] = "reused" =>
              target \notin {"absent", c} /\ content[target] = "exact"

IInv == TypeOK /\ TempsArePrivate /\ TargetIsSettled /\ ProgressFits /\ OutcomesFit

-----------------------------------------------------------------------------

LEMMA InitIInv == Init => IInv
BY CallsAssumption DEF Init, IInv, TypeOK, TempsArePrivate, TargetIsSettled,
   ProgressFits, OutcomesFit, Before

\* Ending a call keeps the invariant when its outcome fits the target.
LEMMA ConcludeStep ==
    ASSUME IInv, NEW c \in Calls, pc[c] \notin {"done", "crashed"},
           NEW how \in {"stored", "reused", "corrupt", "collision", "error"},
           Conclude(c, how),
           how = "stored" => target = c,
           how = "reused" => target \notin {"absent", c} /\ content[target] = "exact"
    PROVE  IInv'
<1> USE DEF IInv, Conclude
<1>1. TypeOK'
  BY DEF TypeOK
<1>2. TempsArePrivate'
  BY DEF TypeOK, TempsArePrivate
<1>3. TargetIsSettled'
  BY DEF TypeOK, TargetIsSettled
<1>4. ProgressFits'
  BY DEF TypeOK, ProgressFits
<1>5. OutcomesFit'
  BY DEF TypeOK, OutcomesFit
<1>6. QED BY <1>1, <1>2, <1>3, <1>4, <1>5

\* The content of a writer's own inode changes while the key leads elsewhere.
LEMMA WriteStep ==
    ASSUME IInv, NEW c \in Calls, NEW what \in {"empty", "partial", "exact"},
           NEW next \in {"write", "sync", "link"},
           pc[c] \in {"create", "write", "sync"},
           content' = [content EXCEPT ![c] = what],
           pc' = [pc EXCEPT ![c] = next],
           temp' = [temp EXCEPT ![c] = c],
           next = "link" => what = "exact",
           UNCHANGED <<target, outcome>>
    PROVE  IInv' /\ target # c
<1> USE DEF IInv
<1>1. target # c
  BY DEF TargetIsSettled
<1>2. TypeOK'
  BY DEF TypeOK
<1>3. TempsArePrivate'
  BY DEF TypeOK, TempsArePrivate
<1>4. TargetIsSettled'
  BY <1>1, CallsAssumption DEF TypeOK, TargetIsSettled, Before
<1>5. ProgressFits'
  BY <1>1 DEF TypeOK, ProgressFits
<1>6. OutcomesFit'
  <2>1. content'[target] = content[target] \/ target = "absent"
    BY <1>1 DEF TypeOK
  <2>2. QED BY <2>1 DEF OutcomesFit
<1>7. QED BY <1>1, <1>2, <1>3, <1>4, <1>5, <1>6

LEMMA CheckStep ==
    ASSUME IInv, NEW c \in Calls, Check(c)
    PROVE  IInv'
<1> USE DEF IInv, Check, Go
<1>1. target # c
  BY DEF TargetIsSettled
<1>2. TypeOK'
  BY DEF TypeOK
<1>3. TempsArePrivate'
  BY DEF TypeOK, TempsArePrivate
<1>4. TargetIsSettled'
  BY DEF TypeOK, TargetIsSettled
<1>5. ProgressFits'
  BY <1>1 DEF TypeOK, ProgressFits
<1>6. OutcomesFit'
  BY DEF OutcomesFit
<1>7. QED BY <1>2, <1>3, <1>4, <1>5, <1>6

LEMMA LinkStep ==
    ASSUME IInv, NEW c \in Calls, Link(c)
    PROVE  IInv'
<1> USE DEF IInv, Link, Go
<1>1. target # c /\ temp[c] = c /\ content[c] = "exact"
  BY DEF TargetIsSettled, TempsArePrivate
<1>2. TypeOK'
  BY <1>1 DEF TypeOK
<1>3. TempsArePrivate'
  BY DEF TypeOK, TempsArePrivate
<1>4. TargetIsSettled'
  BY <1>1 DEF TypeOK, TargetIsSettled
<1>5. ProgressFits'
  BY <1>1, CallsAssumption DEF TypeOK, ProgressFits, TargetIsSettled
<1>6. OutcomesFit'
  BY CallsAssumption DEF OutcomesFit
<1>7. QED BY <1>2, <1>3, <1>4, <1>5, <1>6

LEMMA CrashStep ==
    ASSUME IInv, NEW c \in Calls, Crash(c)
    PROVE  IInv'
<1> USE DEF IInv, Crash, Go
<1>1. TypeOK'
  BY DEF TypeOK
<1>2. TempsArePrivate'
  BY DEF TypeOK, TempsArePrivate
<1>3. TargetIsSettled'
  BY DEF TypeOK, TargetIsSettled
<1>4. ProgressFits'
  BY DEF TypeOK, ProgressFits
<1>5. OutcomesFit'
  BY DEF OutcomesFit
<1>6. QED BY <1>1, <1>2, <1>3, <1>4, <1>5

-----------------------------------------------------------------------------
(* Every step, with what it is in WriteOnce                                *)

\* The calls that ended, as WriteOnce sees them.
Ended == [c \in Calls |->
            IF outcome[c] \in {"open", "stored", "reused"} THEN outcome[c]
            ELSE "error"]

Object == IF target = "absent" THEN "absent" ELSE content[target]

\* A concluded call is an End of WriteOnce.
LEMMA ConcludeEnds ==
    ASSUME IInv, NEW c \in Calls, pc[c] \notin {"done", "crashed"},
           NEW how \in {"stored", "reused", "corrupt", "collision", "error"},
           Conclude(c, how),
           how = "stored" => target = c /\ content[target] = "exact",
           how = "reused" => target \notin {"absent", c} /\ content[target] = "exact"
    PROVE  IInv' /\ Abstract!Next
<1> DEFINE seen == IF how \in {"stored", "reused"} THEN how ELSE "error"
<1>1. IInv'
  BY ConcludeStep
<1>2. Ended[c] = "open"
  BY DEF IInv, TypeOK, ProgressFits, Ended
<1>3. Ended' = [Ended EXCEPT ![c] = seen]
  BY DEF IInv, TypeOK, Conclude, Ended
<1>4. UNCHANGED Object
  BY DEF Conclude, Object
<1>5. seen \in {"stored", "reused"} => Object = "exact"
  BY CallsAssumption DEF Object
<1>6. seen = "stored" => \A d \in Calls : Ended[d] # "stored"
  BY <1>2 DEF IInv, OutcomesFit, Ended
<1>7. seen \in {"stored", "reused", "error"}
  OBVIOUS
<1>8. Abstract!End(c, seen)
  BY <1>2, <1>3, <1>4, <1>5, <1>6 DEF Abstract!End, Ended, Object
<1>9. QED BY <1>1, <1>7, <1>8 DEF Abstract!Next

\* A step that leaves the object and the outcomes alone stutters in WriteOnce.
LEMMA NextStep == IInv /\ [Next]_vars => IInv' /\ [Abstract!Next]_<<Object, Ended>>
<1> SUFFICES ASSUME IInv, [Next]_vars
             PROVE  IInv' /\ [Abstract!Next]_<<Object, Ended>>
  OBVIOUS
<1>1. ASSUME NEW c \in Calls, Check(c)
      PROVE  IInv' /\ UNCHANGED <<Object, Ended>>
  <2>1. UNCHANGED <<Object, Ended>>
    BY <1>1 DEF Check, Go, Object, Ended
  <2>2. QED BY <1>1, <2>1, CheckStep
<1>2. ASSUME NEW c \in Calls, MakeTemp(c) \/ WriteSome(c) \/ Sync(c)
      PROVE  IInv' /\ UNCHANGED <<Object, Ended>>
  <2>1. temp[c] = c \/ MakeTemp(c)
    BY <1>2 DEF IInv, TempsArePrivate, WriteSome, Sync
  <2>2. temp' = [temp EXCEPT ![c] = c]
    BY <1>2, <2>1 DEF MakeTemp, WriteSome, Sync, IInv, TypeOK
  <2>3. PICK what \in {"empty", "partial", "exact"},
             next \in {"write", "sync", "link"} :
          /\ content' = [content EXCEPT ![c] = what]
          /\ pc' = [pc EXCEPT ![c] = next]
          /\ next = "link" => what = "exact"
    BY <1>2, <2>1 DEF MakeTemp, WriteSome, Sync, Go
  <2>4. pc[c] \in {"create", "write", "sync"} /\ UNCHANGED <<target, outcome>>
    BY <1>2 DEF MakeTemp, WriteSome, Sync, Go
  <2>5. IInv' /\ target # c
    BY <2>2, <2>3, <2>4, WriteStep
  <2>6. UNCHANGED Object
    BY <2>3, <2>4, <2>5 DEF Object, IInv, TypeOK
  <2>7. QED BY <2>4, <2>5, <2>6 DEF Ended
<1>3. ASSUME NEW c \in Calls, Link(c)
      PROVE  IInv' /\ [Abstract!Next]_<<Object, Ended>>
  <2>1. IInv'
    BY <1>3, LinkStep
  <2>2. UNCHANGED Ended
    BY <1>3 DEF Link, Go, Ended
  <2>3. CASE target = "absent"
    <3>1. target' = c /\ content'[c] = "exact" /\ c # "absent"
      BY <1>3, <2>3, CallsAssumption DEF Link, IInv, TempsArePrivate
    <3>2. Object = "absent" /\ Object' = "exact"
      BY <2>3, <3>1 DEF Object
    <3>3. QED BY <2>1, <2>2, <3>2 DEF Abstract!Next, Abstract!Appear, Object, Ended
  <2>4. CASE target # "absent"
    BY <1>3, <2>1, <2>2, <2>4 DEF Link, Object
  <2>5. QED BY <2>3, <2>4
<1>4. ASSUME NEW c \in Calls, ReadBack(c)
      PROVE  IInv' /\ Abstract!Next
  <2>1. CASE pc[c] = "verify" /\ Conclude(c, IF content[target] = "exact"
                                             THEN "stored" ELSE "corrupt")
    BY <2>1, ConcludeEnds DEF IInv, ProgressFits
  <2>2. CASE pc[c] = "reuse" /\ Conclude(c, IF content[target] = "exact"
                                            THEN "reused" ELSE "collision")
    BY <2>2, ConcludeEnds DEF IInv, ProgressFits
  <2>3. CASE pc[c] \in {"verify", "reuse"} /\ Conclude(c, "error")
    BY <2>3, ConcludeEnds
  <2>4. QED BY <1>4, <2>1, <2>2, <2>3 DEF ReadBack
<1>5. ASSUME NEW c \in Calls, Fail(c)
      PROVE  IInv' /\ Abstract!Next
  BY <1>5, ConcludeEnds DEF Fail
<1>6. ASSUME NEW c \in Calls, Crash(c)
      PROVE  IInv' /\ UNCHANGED <<Object, Ended>>
  <2>1. UNCHANGED <<Object, Ended>>
    BY <1>6 DEF Crash, Go, Object, Ended
  <2>2. QED BY <1>6, <2>1, CrashStep
<1>7. ASSUME UNCHANGED vars
      PROVE  IInv' /\ UNCHANGED <<Object, Ended>>
  BY <1>7 DEF vars, IInv, TypeOK, TempsArePrivate, TargetIsSettled,
     ProgressFits, OutcomesFit, Object, Ended
<1>8. QED BY <1>1, <1>2, <1>3, <1>4, <1>5, <1>6, <1>7 DEF Next, Step

\* Every state satisfies the inductive invariant.
LEMMA Invariance == Spec => []IInv
<1>1. IInv /\ [Next]_vars => IInv'
  BY NextStep
<1>2. QED BY <1>1, InitIInv, PTL DEF Spec

\* TypeOK in every state: files, temporary names and outcomes of
\* put_if_absent are well formed for any number of writers.
THEOREM TypeCorrect == Spec => []TypeOK
<1>1. IInv => TypeOK
  BY DEF IInv
<1>2. QED BY <1>1, Invariance, PTL

\* Of the writers that succeed, the one whose file is in place ends stored
\* and every other ends reused.
THEOREM Convergence == Spec => []WritersConverge
<1>1. IInv => WritersConverge
  BY DEF IInv, OutcomesFit, WritersConverge
<1>2. QED BY <1>1, Invariance, PTL

\* LocalArtifactStore.put_if_absent implements the write-once store, whatever
\* the number of writers and wherever they crash.
THEOREM StoreIsWriteOnce == Spec => ImplementsWriteOnce
<1>1. Init => Abstract!Init
  BY CallsAssumption DEF Init, Abstract!Init, Before
<1>2. IInv /\ [Next]_vars => [Abstract!Next]_<<Object, Ended>>
  BY NextStep
<1>3. QED BY <1>1, <1>2, Invariance, PTL
     DEF Spec, ImplementsWriteOnce, Abstract!Spec, Object, Ended
=============================================================================
