------------------------- MODULE LocalArtifactStore -------------------------
(***************************************************************************)
(* LocalArtifactStore.put_if_absent: concurrent writers of one payload on  *)
(* a file system, any of which may crash or meet an OSError at any step.   *)
(* Threads and processes alike: the directory lock covers only mkdir.      *)
(*                                                                         *)
(* A file is an inode with content and the names that lead to it.  A hard  *)
(* link gives the temporary file's inode a second name, so what is written *)
(* through the first would show through the second.                        *)
(***************************************************************************)
CONSTANT Calls  \* put_if_absent calls with the payload of this key

\* Files there before the first call: one with the payload, one without.
Before == {"earlier", "other"}

ASSUME CallsAssumption == Calls \cap ({"absent"} \cup Before) = {}

VARIABLES
    content,  \* what each inode holds
    target,   \* the inode the canonical key leads to, or "absent"
    temp,     \* the inode of each call's temporary name, or "absent"
    pc,       \* what each call is doing
    outcome   \* what each call returned or raised

vars == <<content, target, temp, pc, outcome>>

Init ==
    /\ content = [i \in Calls \cup Before |->
                    IF i = "earlier" THEN "exact"
                    ELSE IF i = "other" THEN "other" ELSE "empty"]
    /\ target \in {"absent"} \cup Before
    /\ temp = [c \in Calls |-> "absent"]
    /\ pc = [c \in Calls |-> "check"]
    /\ outcome = [c \in Calls |-> "open"]

\* The finally block drops the temporary name, if the file system lets it.
Conclude(c, how) ==
    /\ outcome' = [outcome EXCEPT ![c] = how]
    /\ pc' = [pc EXCEPT ![c] = "done"]
    /\ temp' \in {temp, [temp EXCEPT ![c] = "absent"]}
    /\ UNCHANGED <<content, target>>

Go(c, step) ==
    /\ pc' = [pc EXCEPT ![c] = step]
    /\ UNCHANGED outcome

\* target.exists()
Check(c) ==
    /\ pc[c] = "check"
    /\ Go(c, IF target = "absent" THEN "create" ELSE "reuse")
    /\ UNCHANGED <<content, target, temp>>

\* Mutant: the temporary name is made of the digest alone.
MakeTempShared(c) ==
    /\ pc[c] = "create"
    /\ LET shared == CHOOSE d \in Calls : TRUE
       IN /\ temp' = [temp EXCEPT ![c] = shared]
          /\ content' = [content EXCEPT ![shared] = "empty"]
    /\ Go(c, "write")
    /\ UNCHANGED target

\* mkstemp: a fresh name for a new inode.
MakeTemp(c) ==
    /\ pc[c] = "create"
    /\ temp' = [temp EXCEPT ![c] = c]
    /\ content' = [content EXCEPT ![c] = "empty"]
    /\ Go(c, "write")
    /\ UNCHANGED target

\* Bytes reach the file piecemeal until fsync returns.
WriteSome(c) ==
    /\ pc[c] = "write"
    /\ content' = [content EXCEPT ![temp[c]] = "partial"]
    /\ Go(c, "sync")
    /\ UNCHANGED <<target, temp>>

Sync(c) ==
    /\ pc[c] = "sync"
    /\ content' = [content EXCEPT ![temp[c]] = "exact"]
    /\ Go(c, "link")
    /\ UNCHANGED <<target, temp>>

\* Mutant: os.replace instead of os.link.
LinkOver(c) ==
    /\ pc[c] = "link"
    /\ target' = temp[c]
    /\ Go(c, "verify")
    /\ UNCHANGED <<content, temp>>

\* os.link: the target gets the inode, or FileExistsError.
Link(c) ==
    /\ pc[c] = "link"
    /\ IF target = "absent"
       THEN target' = temp[c] /\ Go(c, "verify")
       ELSE UNCHANGED target /\ Go(c, "reuse")
    /\ UNCHANGED <<content, temp>>

\* _assert_exact_payload over the target's bytes, or a failing read of them.
ReadBack(c) ==
    \/ /\ pc[c] = "verify"
       /\ Conclude(c, IF content[target] = "exact" THEN "stored" ELSE "corrupt")
    \/ /\ pc[c] = "reuse"
       /\ Conclude(c, IF content[target] = "exact" THEN "reused" ELSE "collision")
    \/ pc[c] \in {"verify", "reuse"} /\ Conclude(c, "error")

\* Mutant: the OSError is suppressed and the call returns None.
FailSilently(c) ==
    /\ pc[c] \in {"create", "write", "sync", "link"}
    /\ Conclude(c, "none")

\* An OSError of mkdir, mkstemp, write, fsync or link: nothing was published.
Fail(c) ==
    /\ pc[c] \in {"check", "create", "write", "sync", "link"}
    /\ Conclude(c, "error")

Crash(c) ==
    /\ pc[c] \notin {"done", "crashed"}
    /\ Go(c, "crashed")
    /\ UNCHANGED <<content, target, temp>>

Step(c) ==
    \/ Check(c) \/ MakeTemp(c) \/ WriteSome(c) \/ Sync(c) \/ Link(c)
    \/ ReadBack(c) \/ Fail(c)

Next == \E c \in Calls : Step(c) \/ Crash(c)

Spec == Init /\ [][Next]_vars

-----------------------------------------------------------------------------

TypeOK ==
    /\ content \in [Calls \cup Before -> {"empty", "partial", "exact", "other"}]
    /\ target \in {"absent"} \cup Before \cup Calls
    /\ temp \in [Calls -> Calls \cup {"absent"}]
    /\ pc \in [Calls -> {"check", "create", "write", "sync", "link", "verify",
                         "reuse", "done", "crashed"}]
    /\ outcome \in [Calls -> {"open", "stored", "reused", "corrupt",
                              "collision", "error"}]

Abstract == INSTANCE WriteOnce WITH
    object <- IF target = "absent" THEN "absent" ELSE content[target],
    ended  <- [c \in Calls |->
                 IF outcome[c] \in {"open", "stored", "reused"} THEN outcome[c]
                 ELSE "error"]

\* The file system store keeps the promise of put_if_absent: under its key a
\* reader finds nothing or whole bytes that never change, through races,
\* crashes in the middle of a write, and leftover temporary names.
ImplementsWriteOnce == Abstract!Spec

\* Concurrent writers converge: of the calls that succeed, the one whose
\* file is in place ends stored and every other reused.
WritersConverge ==
    \A c \in Calls : outcome[c] \in {"stored", "reused"} =>
        (outcome[c] = "stored" <=> target = c)

\* ArtifactWriteOutcomeUnknownError is for a create-only write that could not
\* be resolved by reading back, so a call that published its file and could
\* not read it ends with that, never with a plain backend error.
PublishedFailureIsUnknown ==
    \A c \in Calls : target = c => outcome[c] # "error"
=============================================================================
