---------------------------- MODULE OutboxPromise ----------------------------
(***************************************************************************)
(* What the outbox promises to the code that enqueues: a message accepted  *)
(* is pending until its channel took it and said so (sent) or it is given  *)
(* up (dead); both are final.  A channel takes pending messages only, and  *)
(* a key is pending or sent on one message at a time.                      *)
(***************************************************************************)
EXTENDS Naturals

CONSTANTS Id, Key, NoKey

VARIABLES
    fate,   \* fate[i]: what became of message i
    key,    \* key[i]: its target and dedupe key
    taken   \* copies of i a channel took, counted up to two

vars == <<fate, key, taken>>

Init ==
    /\ fate = [i \in Id |-> "free"]
    /\ key = [i \in Id |-> NoKey]
    /\ taken = [i \in Id |-> 0]

Accept(i, k) ==
    /\ fate[i] = "free"
    /\ k # NoKey => \A j \in Id : key[j] = k => fate[j] \notin {"pending", "sent"}
    /\ fate' = [fate EXCEPT ![i] = "pending"]
    /\ key' = [key EXCEPT ![i] = k]
    /\ UNCHANGED taken

Take(i) ==
    /\ fate[i] = "pending"
    /\ taken' = [taken EXCEPT ![i] = IF @ < 2 THEN @ + 1 ELSE @]
    /\ UNCHANGED <<fate, key>>

Confirm(i) ==
    /\ fate[i] = "pending"
    /\ taken[i] > 0
    /\ fate' = [fate EXCEPT ![i] = "sent"]
    /\ UNCHANGED <<key, taken>>

GiveUp(i) ==
    /\ fate[i] = "pending"
    /\ fate' = [fate EXCEPT ![i] = "dead"]
    /\ UNCHANGED <<key, taken>>

Forget(S) ==
    /\ \A i \in S : fate[i] \in {"sent", "dead"}
    /\ fate' = [i \in Id |-> IF i \in S THEN "purged" ELSE fate[i]]
    /\ UNCHANGED <<key, taken>>

Next ==
    \/ \E i \in Id, k \in Key \cup {NoKey} : Accept(i, k)
    \/ \E i \in Id : Take(i) \/ Confirm(i) \/ GiveUp(i)
    \/ \E S \in SUBSET Id : Forget(S)

Spec == Init /\ [][Next]_vars
=============================================================================
