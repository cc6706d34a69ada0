----------------------------- MODULE WriteOnce -----------------------------
(***************************************************************************)
(* What ArtifactStore.put_if_absent promises for one content-addressed     *)
(* key: the object appears at most once and never changes, a call that     *)
(* ends "stored" or "reused" leaves the exact bytes in place, and at most  *)
(* one call ends "stored".  A call may also end with an error.             *)
(***************************************************************************)
CONSTANT Calls  \* put_if_absent calls with the payload of this key

VARIABLES
    object,  \* what the key holds: nothing, the payload, or other bytes
    ended    \* how each call ended, "open" before it does

Init ==
    /\ object \in {"absent", "exact", "other"}
    /\ ended = [c \in Calls |-> "open"]

Appear ==
    /\ object = "absent"
    /\ object' = "exact"
    /\ UNCHANGED ended

End(c, how) ==
    /\ ended[c] = "open"
    /\ how \in {"stored", "reused"} => object = "exact"
    /\ how = "stored" => \A d \in Calls : ended[d] # "stored"
    /\ ended' = [ended EXCEPT ![c] = how]
    /\ UNCHANGED object

Next ==
    \/ Appear
    \/ \E c \in Calls, how \in {"stored", "reused", "error"} : End(c, how)

Spec == Init /\ [][Next]_<<object, ended>>
=============================================================================
