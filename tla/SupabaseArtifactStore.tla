----------------------- MODULE SupabaseArtifactStore -----------------------
(***************************************************************************)
(* SupabaseArtifactStore.put_if_absent: concurrent create-only uploads of  *)
(* one payload to one key, over a network that times out, delays and loses *)
(* requests and replies.  A POST that timed out is still in flight: the    *)
(* server may carry it out at any later moment, or never.                  *)
(*                                                                         *)
(* A GET changes nothing, so it is one step: the answer is the server's at *)
(* the instant it reads the object, and the client acts on it alone.       *)
(* Bytes are reduced to whether they are the payload; get() already fails  *)
(* on other bytes, because their digest is not the one in the key.         *)
(***************************************************************************)
EXTENDS Naturals

CONSTANTS
    Calls,           \* put_if_absent calls with the payload of this key
    CreateAttempts,  \* create_attempts
    ReadAttempts     \* read_attempts

ASSUME AttemptsAssumption ==
    CreateAttempts \in Nat \ {0} /\ ReadAttempts \in Nat \ {0}

ASSUME CallsAssumption == {"absent", "other", "earlier"} \cap Calls = {}

VARIABLES
    object,    \* "absent", "other", "earlier", or the call that created it
    inFlight,  \* POSTs the server has neither carried out nor lost
    reply,     \* the server's answer to the POST each call waits for
    pc,        \* what each call is doing
    attempt,   \* POSTs each call has sent
    reads,     \* GETs of the current read-back that failed transiently
    why,       \* what each call's read-back decides
    outcome    \* what each call returned or raised

vars == <<object, inFlight, reply, pc, attempt, reads, why, outcome>>

NoReply == "none"
Answers == {"created", "duplicate", "transient", "unauthorized", "error"}
Outcomes == {"stored", "reused", "corrupt", "unknown", "missing",
             "unauthorized", "error"}

Posts == Calls \X (1..CreateAttempts)

Init ==
    /\ object \in {"absent", "other", "earlier"}
    /\ inFlight = {}
    /\ reply = [c \in Calls |-> NoReply]
    /\ pc = [c \in Calls |-> "create"]
    /\ attempt = [c \in Calls |-> 0]
    /\ reads = [c \in Calls |-> 0]
    /\ why = [c \in Calls |-> "nothing"]
    /\ outcome = [c \in Calls |-> "open"]

-----------------------------------------------------------------------------
(* The storage service                                                     *)

\* The server answers the call if it still waits for this POST.
Answer(c, n, answer) ==
    reply' = IF pc[c] = "waiting" /\ attempt[c] = n
             THEN [reply EXCEPT ![c] = answer] ELSE reply

\* x-upsert is false: the object is created only where there is none.  The
\* answer may turn into a gateway error on its way back.
CarryOut(c, n) ==
    /\ <<c, n>> \in inFlight
    /\ inFlight' = inFlight \ {<<c, n>>}
    /\ object' = IF object = "absent" THEN c ELSE object
    /\ \/ Answer(c, n, IF object = "absent" THEN "created" ELSE "duplicate")
       \/ Answer(c, n, "transient")
    /\ UNCHANGED <<pc, attempt, reads, why, outcome>>

\* A POST the server turns down, or the network loses, has no effect.
Refuse(c, n, answer) ==
    /\ <<c, n>> \in inFlight
    /\ inFlight' = inFlight \ {<<c, n>>}
    /\ Answer(c, n, answer)
    /\ UNCHANGED <<object, pc, attempt, reads, why, outcome>>

-----------------------------------------------------------------------------
(* The client                                                              *)

Conclude(c, how) ==
    /\ outcome' = [outcome EXCEPT ![c] = how]
    /\ pc' = [pc EXCEPT ![c] = "done"]
    /\ UNCHANGED why

ReadBack(c, reason) ==
    /\ pc' = [pc EXCEPT ![c] = "reading"]
    /\ why' = [why EXCEPT ![c] = reason]
    /\ UNCHANGED outcome

\* Mutant: the attempt is not counted.
PostUncounted(c) ==
    /\ pc[c] = "create"
    /\ attempt' = [attempt EXCEPT ![c] = 1]
    /\ inFlight' = inFlight \cup {<<c, 1>>}
    /\ reply' = [reply EXCEPT ![c] = NoReply]
    /\ pc' = [pc EXCEPT ![c] = "waiting"]
    /\ UNCHANGED <<object, reads, why, outcome>>

\* The create-only POST is sent.
Post(c) ==
    /\ pc[c] = "create"
    /\ attempt' = [attempt EXCEPT ![c] = @ + 1]
    /\ inFlight' = inFlight \cup {<<c, attempt[c] + 1>>}
    /\ reply' = [reply EXCEPT ![c] = NoReply]
    /\ pc' = [pc EXCEPT ![c] = "waiting"]
    /\ UNCHANGED <<object, reads, why, outcome>>

\* Mutant: a gateway error is taken for a refusal.
AfterReplyTrustingErrors(c, answer) ==
    \/ answer = "created" /\ ReadBack(c, "created")
    \/ answer = "duplicate" /\ ReadBack(c, "duplicate")
    \/ answer = "transient" /\ Conclude(c, "error")
    \/ answer \in {"unauthorized", "error"} /\ Conclude(c, answer)

\* What each answer to a POST leads to.
AfterReply(c, answer) ==
    \/ answer = "created" /\ ReadBack(c, "created")
    \/ answer = "duplicate" /\ ReadBack(c, "duplicate")
    \/ answer = "transient" /\ ReadBack(c, "ambiguous")
    \/ answer \in {"unauthorized", "error"} /\ Conclude(c, answer)

Receive(c) ==
    /\ pc[c] = "waiting"
    /\ reply[c] # NoReply
    /\ reads' = [reads EXCEPT ![c] = 0]
    /\ AfterReply(c, reply[c])
    /\ UNCHANGED <<object, inFlight, reply, attempt>>

\* A timeout or a broken connection, whatever became of the POST.
TimeOut(c) ==
    /\ pc[c] = "waiting"
    /\ reads' = [reads EXCEPT ![c] = 0]
    /\ ReadBack(c, "ambiguous")
    /\ UNCHANGED <<object, inFlight, reply, attempt>>

\* Answers a GET can get; "exhausted" is the last transient failure.
ReadAnswers(c) ==
    {"unauthorized", "error"}
      \cup (IF object = "absent" THEN {"missing"}
            ELSE IF object = "other" THEN {"corrupt"} ELSE {"exact"})
      \cup (IF reads[c] + 1 = ReadAttempts THEN {"exhausted"} ELSE {})

ReadAgain(c) ==
    /\ pc[c] = "reading"
    /\ reads[c] + 1 < ReadAttempts
    /\ reads' = [reads EXCEPT ![c] = @ + 1]
    /\ UNCHANGED <<object, inFlight, reply, pc, attempt, why, outcome>>

\* An error of the read-back of an explicit duplicate is raised as it is.
PlainError(answer) == IF answer = "exhausted" THEN "error" ELSE answer

\* Mutant: any read-back that finds the bytes claims to have stored them.
AfterReadClaimingStored(c, answer) ==
    \/ answer = "exact" /\ Conclude(c, IF why[c] = "duplicate" THEN "reused" ELSE "stored")
    \/ answer = "corrupt" /\ Conclude(c, "corrupt")
    \/ answer \notin {"exact", "corrupt"} /\ Conclude(c, "unknown")

\* Mutant: an ambiguous upload is retried until the read-back finds it.
AfterReadForever(c, answer) ==
    \/ answer = "exact" /\ Conclude(c, "reused")
    \/ answer = "corrupt" /\ Conclude(c, "corrupt")
    \/ /\ answer \notin {"exact", "corrupt"}
       /\ pc' = [pc EXCEPT ![c] = "create"]
       /\ UNCHANGED <<why, outcome>>

\* Verification after a success, reuse of a duplicate, or the resolution of
\* an ambiguous upload; only a definite absence sends the POST again.
AfterRead(c, answer) ==
    \/ /\ answer = "exact"
       /\ Conclude(c, IF why[c] = "created" THEN "stored" ELSE "reused")
    \/ answer = "corrupt" /\ Conclude(c, "corrupt")
    \/ /\ answer = "missing"
       /\ why[c] = "ambiguous"
       /\ attempt[c] < CreateAttempts
       /\ pc' = [pc EXCEPT ![c] = "create"]
       /\ UNCHANGED <<why, outcome>>
    \/ /\ answer \notin {"exact", "corrupt"}
       /\ why[c] # "duplicate"
       /\ answer = "missing" /\ why[c] = "ambiguous" => attempt[c] = CreateAttempts
       /\ Conclude(c, "unknown")
    \/ /\ answer \notin {"exact", "corrupt"}
       /\ why[c] = "duplicate"
       /\ Conclude(c, PlainError(answer))

Read(c) ==
    /\ pc[c] = "reading"
    /\ \E answer \in ReadAnswers(c) : AfterRead(c, answer)
    /\ UNCHANGED <<object, inFlight, reply, attempt, reads>>

-----------------------------------------------------------------------------

Client(c) == Post(c) \/ Receive(c) \/ TimeOut(c) \/ ReadAgain(c) \/ Read(c)

Server ==
    \E c \in Calls, n \in 1..CreateAttempts :
        \/ CarryOut(c, n)
        \/ \E answer \in {"transient", "unauthorized", "error"} : Refuse(c, n, answer)

Next == Server \/ \E c \in Calls : Client(c)

\* The client's HTTP timeout ends every wait, so a call always has a next
\* step; nothing is assumed of the server.
Fairness == \A c \in Calls : WF_vars(Client(c))

Spec == Init /\ [][Next]_vars /\ Fairness

-----------------------------------------------------------------------------

TypeOK ==
    /\ object \in {"absent", "other", "earlier"} \cup Calls
    /\ inFlight \subseteq Posts
    /\ reply \in [Calls -> Answers \cup {NoReply}]
    /\ pc \in [Calls -> {"create", "waiting", "reading", "done"}]
    /\ attempt \in [Calls -> 0..CreateAttempts]
    /\ reads \in [Calls -> 0..ReadAttempts]
    /\ why \in [Calls -> {"nothing", "created", "duplicate", "ambiguous"}]
    /\ outcome \in [Calls -> Outcomes \cup {"open"}]

\* Refinement mapping: any exact object is as good as another, and so is any
\* error.
Object == IF object \in {"absent", "other"} THEN object ELSE "exact"

Ended == [c \in Calls |->
            IF outcome[c] \in {"open", "stored", "reused"} THEN outcome[c] ELSE "error"]

Abstract == INSTANCE WriteOnce WITH object <- Object, ended <- Ended

\* put_if_absent keeps its promise whatever the network does: nothing is
\* overwritten, no success without the exact bytes, one call at most stored.
ImplementsWriteOnce == Abstract!Spec

\* A definite failure of a first upload is clean: this call has created
\* nothing and can create nothing later.  (After a retry it may not be: the
\* first POST can still be in flight.)
CleanFirstFailure ==
    \A c \in Calls : outcome[c] \in {"unauthorized", "error"} /\ attempt[c] = 1 =>
        object # c /\ <<c, 1>> \notin inFlight

\* Every call ends: attempts are bounded and every wait has a timeout.
EveryCallEnds == \A c \in Calls : <>(pc[c] = "done")
=============================================================================
