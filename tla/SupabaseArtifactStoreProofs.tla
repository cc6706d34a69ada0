-------------------- MODULE SupabaseArtifactStoreProofs --------------------
(***************************************************************************)
(* Proofs about SupabaseArtifactStore, for any number of calls, attempts   *)
(* and reads.  The network may answer late, wrongly or never; what a call  *)
(* may conclude rests on what each answer says of the object for good.     *)
(***************************************************************************)
EXTENDS SupabaseArtifactStore, TLAPS

\* Where a call is, and how many POSTs it has sent by then.
Progress ==
    /\ \A c \in Calls :
          /\ pc[c] = "create" => attempt[c] < CreateAttempts
          /\ pc[c] # "create" => attempt[c] # 0
          /\ pc[c] # "done" => outcome[c] = "open"
          /\ attempt[c] = 0 => why[c] = "nothing"
    /\ \A post \in inFlight : post[2] <= attempt[post[1]]

\* "created" reaches only the call whose POST created the object, and what
\* is created stays.
CreatedIsMine ==
    \A c \in Calls :
        reply[c] = "created" \/ why[c] = "created" \/ outcome[c] = "stored" => object = c

Definite == {"duplicate", "unauthorized", "error"}

\* A first POST creates nothing while it is in flight, and one that got a
\* definite answer other than "created" never will.
FirstPostIsClean ==
    \A c \in Calls :
        /\ attempt[c] = 0 => object # c
        /\ attempt[c] = 1 /\ <<c, 1>> \in inFlight => object # c /\ reply[c] = NoReply
        /\ /\ attempt[c] = 1
           /\ \/ reply[c] \in Definite
              \/ why[c] = "duplicate"
              \/ outcome[c] \in {"unauthorized", "error"}
           => object # c /\ <<c, 1>> \notin inFlight

IInv == TypeOK /\ Progress /\ CreatedIsMine /\ FirstPostIsClean

-----------------------------------------------------------------------------

LEMMA InitInv == Init => IInv
BY AttemptsAssumption, CallsAssumption
   DEF Init, IInv, TypeOK, Progress, CreatedIsMine, FirstPostIsClean, NoReply, Outcomes

LEMMA CarryOutStep ==
    ASSUME IInv, NEW c \in Calls, NEW n \in 1..CreateAttempts, CarryOut(c, n)
    PROVE  IInv' /\ [Abstract!Next]_<<Object, Ended>>
<1> USE DEF CarryOut, IInv, Answers, NoReply
<1>1. TypeOK'
  BY DEF TypeOK, Answer, Posts
<1>2. Progress'
  BY DEF TypeOK, Progress
<1>3. CreatedIsMine'
  BY CallsAssumption DEF TypeOK, CreatedIsMine, Answer
<1>4. FirstPostIsClean'
  <2> SUFFICES ASSUME NEW d \in Calls
               PROVE  /\ attempt[d] = 0 => object' # d
                      /\ attempt[d] = 1 /\ <<d, 1>> \in inFlight' =>
                             object' # d /\ reply'[d] = NoReply
                      /\ /\ attempt[d] = 1
                         /\ \/ reply'[d] \in Definite
                            \/ why[d] = "duplicate"
                            \/ outcome[d] \in {"unauthorized", "error"}
                         => object' # d /\ <<d, 1>> \notin inFlight'
    BY DEF FirstPostIsClean
  <2>1. n <= attempt[c] /\ attempt[c] \in Nat
    BY DEF Progress, TypeOK
  <2>2. CASE d # c
    <3>1. reply'[d] = reply[d] /\ (<<d, 1>> \in inFlight' <=> <<d, 1>> \in inFlight)
      BY <2>2 DEF Answer, TypeOK
    <3>2. object # d => object' # d
      BY <2>2
    <3>3. QED
      BY <3>1, <3>2 DEF FirstPostIsClean
  <2>3. CASE d = c /\ attempt[c] = 1
    <3>1. n = 1 /\ object # c /\ reply[c] = NoReply /\ why[c] # "duplicate"
          /\ outcome[c] \notin {"unauthorized", "error"}
      BY <2>1, <2>3 DEF FirstPostIsClean
    <3>2. <<c, 1>> \notin inFlight'
      BY <3>1
    <3>3. CASE object = "absent" /\ reply' = reply
      BY <2>3, <3>1, <3>2, <3>3 DEF Definite
    <3>4. CASE object # "absent"
      BY <2>3, <3>1, <3>2, <3>4 DEF Definite
    <3>5. CASE object = "absent" /\ reply' # reply
      <4>1. reply'[c] \in {"created", "transient"}
        BY <3>5 DEF Answer, TypeOK
      <4>2. QED
        BY <2>3, <3>1, <3>2, <4>1 DEF Definite
    <3>6. QED
      BY <3>3, <3>4, <3>5
  <2>4. CASE d = c /\ attempt[c] # 1
    BY <2>1, <2>4
  <2>5. QED
    BY <2>2, <2>3, <2>4
<1>5. Ended' = Ended
  BY DEF Ended
<1>6. Object' = Object \/ (Object = "absent" /\ Object' = "exact")
  BY CallsAssumption DEF TypeOK, Object
<1>7. QED
  BY <1>1, <1>2, <1>3, <1>4, <1>5, <1>6 DEF Abstract!Next, Abstract!Appear

LEMMA RefuseStep ==
    ASSUME IInv, NEW c \in Calls, NEW n \in 1..CreateAttempts,
           NEW answer \in {"transient", "unauthorized", "error"}, Refuse(c, n, answer)
    PROVE  IInv' /\ UNCHANGED <<Object, Ended>>
<1> USE DEF Refuse, IInv, Answers, NoReply
<1>1. TypeOK'
  BY DEF TypeOK, Answer, Posts
<1>2. Progress'
  BY DEF TypeOK, Progress
<1>3. CreatedIsMine'
  BY DEF TypeOK, CreatedIsMine, Answer
<1>4. FirstPostIsClean'
  BY AttemptsAssumption DEF TypeOK, Progress, FirstPostIsClean, Answer, Definite, Posts
<1>5. QED
  BY <1>1, <1>2, <1>3, <1>4 DEF Object, Ended

\* A call ends: what the write-once store allows it to end with.
LEMMA EndStep ==
    ASSUME IInv, NEW c \in Calls, pc[c] # "done", NEW how \in Outcomes,
           how \in {"stored", "reused"} => Object = "exact",
           how = "stored" => object = c,
           object' = object, outcome' = [outcome EXCEPT ![c] = how]
    PROVE  Abstract!Next
<1>1. outcome[c] = "open" /\ Ended[c] = "open"
  BY DEF IInv, Progress, Ended
<1>2. how = "stored" => \A d \in Calls : Ended[d] # "stored"
  <2> SUFFICES ASSUME how = "stored", NEW d \in Calls, Ended[d] = "stored" PROVE FALSE
    OBVIOUS
  <2>1. outcome[d] = "stored"
    BY DEF Ended
  <2>2. object = d
    BY <2>1 DEF IInv, CreatedIsMine
  <2>3. QED
    BY <1>1, <2>1, <2>2
<1> DEFINE end == IF how \in {"stored", "reused"} THEN how ELSE "error"
<1>3. Ended' = [Ended EXCEPT ![c] = end]
  BY DEF Ended, IInv, TypeOK, Outcomes
<1>4. Object' = Object
  BY DEF Object
<1>5. Abstract!End(c, end)
  BY <1>1, <1>2, <1>3, <1>4 DEF Abstract!End
<1>6. QED
  BY <1>5 DEF Abstract!Next

LEMMA PostStep ==
    ASSUME IInv, NEW c \in Calls, Post(c)
    PROVE  IInv' /\ UNCHANGED <<Object, Ended>>
<1> USE DEF Post, IInv
<1>1. TypeOK'
  BY AttemptsAssumption DEF TypeOK, Progress, Posts
<1>2. Progress'
  <2>1. ASSUME NEW post \in inFlight' PROVE post[2] <= attempt'[post[1]]
    <3>1. attempt[c] \in Nat /\ attempt'[c] = attempt[c] + 1
      BY DEF TypeOK
    <3>2. CASE post = <<c, attempt[c] + 1>>
      BY <3>1, <3>2
    <3>3. CASE post \in inFlight
      <4>1. post[1] \in Calls /\ post[2] \in Nat /\ post[2] <= attempt[post[1]]
        BY <3>3 DEF TypeOK, Progress, Posts
      <4>2. QED
        BY <3>1, <4>1 DEF TypeOK
    <3>4. QED
      BY <2>1, <3>2, <3>3
  <2>2. QED
    BY <2>1 DEF TypeOK, Progress
<1>3. CreatedIsMine'
  BY DEF TypeOK, CreatedIsMine, NoReply
<1>4. FirstPostIsClean'
  <2> SUFFICES ASSUME NEW d \in Calls
               PROVE  /\ attempt'[d] = 0 => object # d
                      /\ attempt'[d] = 1 /\ <<d, 1>> \in inFlight' =>
                             object # d /\ reply'[d] = NoReply
                      /\ /\ attempt'[d] = 1
                         /\ \/ reply'[d] \in Definite
                            \/ why[d] = "duplicate"
                            \/ outcome[d] \in {"unauthorized", "error"}
                         => object # d /\ <<d, 1>> \notin inFlight'
    BY DEF FirstPostIsClean
  <2>1. CASE d # c
    <3>1. attempt'[d] = attempt[d] /\ reply'[d] = reply[d]
          /\ (<<d, 1>> \in inFlight' <=> <<d, 1>> \in inFlight)
      BY <2>1 DEF TypeOK
    <3>2. QED
      BY <3>1 DEF FirstPostIsClean
  <2>2. CASE d = c /\ attempt[c] = 0
    <3>1. object # c /\ reply'[c] = NoReply /\ why[c] = "nothing" /\ outcome[c] = "open"
      BY <2>2 DEF FirstPostIsClean, Progress, TypeOK
    <3>2. attempt'[c] # 0
      BY <2>2 DEF TypeOK
    <3>3. QED
      BY <2>2, <3>1, <3>2 DEF Definite, NoReply
  <2>3. CASE d = c /\ attempt[c] # 0
    BY <2>3 DEF TypeOK
  <2>4. QED
    BY <2>1, <2>2, <2>3
<1>5. QED
  BY <1>1, <1>2, <1>3, <1>4 DEF Object, Ended

LEMMA ReceiveStep ==
    ASSUME IInv, NEW c \in Calls, Receive(c)
    PROVE  IInv' /\ [Abstract!Next]_<<Object, Ended>>
<1> USE DEF Receive, AfterReply, ReadBack, Conclude, IInv
<1>1. TypeOK'
  BY AttemptsAssumption DEF TypeOK, Outcomes
<1>2. Progress'
  BY DEF TypeOK, Progress
<1>3. CreatedIsMine'
  BY DEF TypeOK, CreatedIsMine
<1>4. FirstPostIsClean'
  BY DEF TypeOK, Progress, FirstPostIsClean, Definite, NoReply
<1>5. CASE outcome' = outcome
  BY <1>1, <1>2, <1>3, <1>4, <1>5 DEF Object, Ended
<1>6. CASE reply[c] \in {"unauthorized", "error"} /\ Conclude(c, reply[c])
  <2>1. Abstract!Next
    BY <1>6, EndStep DEF Outcomes
  <2>2. QED
    BY <1>1, <1>2, <1>3, <1>4, <2>1
<1>7. QED
  BY <1>5, <1>6

LEMMA TimeOutStep ==
    ASSUME IInv, NEW c \in Calls, TimeOut(c)
    PROVE  IInv' /\ UNCHANGED <<Object, Ended>>
<1> USE DEF TimeOut, ReadBack, IInv
<1>1. TypeOK'
  BY AttemptsAssumption DEF TypeOK
<1>2. Progress'
  BY DEF TypeOK, Progress
<1>3. CreatedIsMine'
  BY DEF TypeOK, CreatedIsMine
<1>4. FirstPostIsClean'
  BY DEF TypeOK, FirstPostIsClean, Definite
<1>5. QED
  BY <1>1, <1>2, <1>3, <1>4 DEF Object, Ended

LEMMA ReadAgainStep ==
    ASSUME IInv, NEW c \in Calls, ReadAgain(c)
    PROVE  IInv' /\ UNCHANGED <<Object, Ended>>
<1> USE DEF ReadAgain, IInv
<1>1. TypeOK'
  BY AttemptsAssumption DEF TypeOK
<1>2. QED
  BY <1>1 DEF Progress, CreatedIsMine, FirstPostIsClean, Object, Ended

LEMMA ReadStep ==
    ASSUME IInv, NEW c \in Calls, Read(c)
    PROVE  IInv' /\ [Abstract!Next]_<<Object, Ended>>
<1>1. PICK answer \in ReadAnswers(c) : AfterRead(c, answer)
  BY DEF Read
<1>2. /\ pc[c] = "reading"
      /\ UNCHANGED <<object, inFlight, reply, attempt, reads, why>>
  BY <1>1 DEF Read, AfterRead, Conclude
<1>3. answer = "exact" => object \notin {"absent", "other"}
  BY DEF ReadAnswers
<1>4. CASE /\ answer = "missing" /\ why[c] = "ambiguous" /\ attempt[c] < CreateAttempts
           /\ pc' = [pc EXCEPT ![c] = "create"]
           /\ outcome' = outcome
  BY <1>2, <1>4 DEF IInv, TypeOK, Progress, CreatedIsMine, FirstPostIsClean, Object, Ended
<1>5. ASSUME NEW how \in Outcomes, Conclude(c, how),
             how \in {"stored", "reused"} => Object = "exact",
             how = "stored" => why[c] = "created",
             how \in {"unauthorized", "error"} => why[c] = "duplicate"
      PROVE  IInv' /\ Abstract!Next
  <2> USE <1>2, <1>5 DEF Conclude, IInv
  <2>1. TypeOK' /\ Progress'
    BY DEF TypeOK, Progress
  <2>2. CreatedIsMine'
    BY DEF TypeOK, CreatedIsMine
  <2>3. FirstPostIsClean'
    BY DEF TypeOK, FirstPostIsClean
  <2>4. Abstract!Next
    BY EndStep DEF CreatedIsMine
  <2>5. QED
    BY <2>1, <2>2, <2>3, <2>4
<1>6. CASE answer = "exact" /\ Conclude(c, IF why[c] = "created" THEN "stored" ELSE "reused")
  BY <1>3, <1>5, <1>6 DEF Outcomes, Object
<1>7. CASE answer = "corrupt" /\ Conclude(c, "corrupt")
  BY <1>5, <1>7 DEF Outcomes
<1>8. CASE Conclude(c, "unknown")
  BY <1>5, <1>8 DEF Outcomes
<1>9. CASE answer \notin {"exact", "corrupt"} /\ why[c] = "duplicate"
           /\ Conclude(c, PlainError(answer))
  <2>1. PlainError(answer) \in {"unauthorized", "error", "missing"}
    BY <1>9 DEF ReadAnswers, PlainError
  <2>2. QED
    BY <1>5, <1>9, <2>1 DEF Outcomes
<1>10. QED
  BY <1>1, <1>4, <1>6, <1>7, <1>8, <1>9 DEF AfterRead

LEMMA NextStep == IInv /\ [Next]_vars => IInv' /\ [Abstract!Next]_<<Object, Ended>>
<1> SUFFICES ASSUME IInv, [Next]_vars PROVE IInv' /\ [Abstract!Next]_<<Object, Ended>>
  OBVIOUS
<1>1. CASE Server
  BY <1>1, CarryOutStep, RefuseStep DEF Server
<1>2. ASSUME NEW c \in Calls, Client(c) PROVE IInv' /\ [Abstract!Next]_<<Object, Ended>>
  BY <1>2, PostStep, ReceiveStep, TimeOutStep, ReadAgainStep, ReadStep DEF Client
<1>3. CASE UNCHANGED vars
  BY <1>3 DEF vars, IInv, TypeOK, Progress, CreatedIsMine, FirstPostIsClean, Object, Ended
<1>4. QED
  BY <1>1, <1>2, <1>3 DEF Next

-----------------------------------------------------------------------------

LEMMA Invariance == Spec => []IInv
<1>1. IInv /\ [Next]_vars => IInv'
  BY NextStep
<1>2. QED
  BY InitInv, <1>1, PTL DEF Spec

\* Every reachable state of the store and its callers is well typed.
THEOREM TypeCorrect == Spec => []TypeOK
BY Invariance, PTL DEF IInv

\* A definite failure of a first upload leaves nothing behind, now or later,
\* for any number of calls, attempts and reads.
THEOREM FirstFailureIsClean == Spec => []CleanFirstFailure
<1>1. IInv => CleanFirstFailure
  BY DEF IInv, FirstPostIsClean, CleanFirstFailure
<1>2. QED
  BY <1>1, Invariance, PTL

\* The Supabase store implements the write-once store, whatever the network
\* does to its requests and answers.
THEOREM StoreIsWriteOnce == Spec => ImplementsWriteOnce
<1>1. Init => Abstract!Init
  BY DEF Init, Abstract!Init, Object, Ended
<1>2. IInv /\ [Next]_vars => [Abstract!Next]_<<Object, Ended>>
  BY NextStep
<1>3. QED
  BY <1>1, <1>2, Invariance, PTL DEF Spec, ImplementsWriteOnce, Abstract!Spec, Object, Ended

\* What WriteOnce says of the calls that succeeded, in every state.
SuccessesAgree ==
    /\ \A c \in Calls : outcome[c] \in {"stored", "reused"} => Object = "exact"
    /\ \A c, d \in Calls : outcome[c] = "stored" /\ outcome[d] = "stored" => c = d

\* What callers of put_if_absent may rely on, as a consequence of the
\* refinement: while any call has returned, the bucket holds the exact bytes,
\* and at most one of all calls reports that it stored them.
THEOREM SuccessIsShared == Spec => []SuccessesAgree
<1>1. Abstract!Init => SuccessesAgree
  BY DEF Abstract!Init, SuccessesAgree, Ended
<1>2. ASSUME SuccessesAgree, [Abstract!Next]_<<Object, Ended>>
      PROVE  SuccessesAgree'
  <2>1. /\ \A c \in Calls : outcome[c] \in {"stored", "reused"} \/ Ended[c] \in {"stored", "reused"}
                            => outcome[c] = Ended[c]
        /\ \A c \in Calls : outcome'[c] \in {"stored", "reused"} \/ Ended'[c] \in {"stored", "reused"}
                            => outcome'[c] = Ended'[c]
    BY DEF Ended
  <2>2. CASE UNCHANGED <<Object, Ended>>
    <3>1. \A c \in Calls : Ended'[c] = Ended[c]
      BY <2>2
    <3>2. QED BY <1>2, <2>1, <2>2, <3>1 DEF SuccessesAgree
  <2>3. CASE Abstract!Appear
    <3>1. \A c \in Calls : Ended'[c] = Ended[c]
      BY <2>3 DEF Abstract!Appear
    <3>2. Object' = "exact"
      BY <2>3 DEF Abstract!Appear
    <3>3. QED BY <1>2, <2>1, <3>1, <3>2 DEF SuccessesAgree
  <2>4. ASSUME NEW c \in Calls, NEW how \in {"stored", "reused", "error"}, Abstract!End(c, how)
        PROVE  SuccessesAgree'
    <3>1. /\ how \in {"stored", "reused"} => Object = "exact"
          /\ how = "stored" => \A d \in Calls : Ended[d] # "stored"
          /\ Object' = Object
      BY <2>4 DEF Abstract!End
    <3>2. \A d \in Calls : Ended'[d] = IF d = c THEN how ELSE Ended[d]
      <4>1. Ended' = [Ended EXCEPT ![c] = how]
        BY <2>4 DEF Abstract!End
      <4>2. DOMAIN Ended = Calls
        BY DEF Ended
      <4> HIDE DEF Ended
      <4>3. QED BY <4>1, <4>2
    <3>3. QED BY <1>2, <2>1, <3>1, <3>2 DEF SuccessesAgree
  <2>5. QED BY <1>2, <2>2, <2>3, <2>4 DEF Abstract!Next
<1>3. QED
  BY <1>1, <1>2, StoreIsWriteOnce, PTL DEF ImplementsWriteOnce, Abstract!Spec
=============================================================================
