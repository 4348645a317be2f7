------------------------------ MODULE WorkQueue ------------------------------
(***************************************************************************)
(* What the dispatch queue promises to those who enqueue work: a dispatch  *)
(* is pending until it gets one outcome, which is final, and a dispatch    *)
(* that fails is retried by one other dispatch at most.                    *)
(***************************************************************************)
EXTENDS Naturals

CONSTANTS Id, Outcomes

VARIABLES
    fate,   \* fate[i]: "free", "pending" or the outcome of dispatch i
    of      \* of[i]: the dispatch that i retries, 0 when it is a first attempt

vars == <<fate, of>>

Init == fate = [i \in Id |-> "free"] /\ of = [i \in Id |-> 0]

Accept(i) ==
    /\ fate[i] = "free"
    /\ fate' = [fate EXCEPT ![i] = "pending"]
    /\ UNCHANGED of

Retry(i, j) ==
    /\ fate[i] = "free"
    /\ fate[j] \in {"pending", "failed"}
    /\ \A k \in Id : of[k] # j
    /\ fate' = [fate EXCEPT ![i] = "pending"]
    /\ of' = [of EXCEPT ![i] = j]

\* One process may settle what several interrupted ones left pending.
Settle(some) ==
    /\ \A i \in some : fate[i] = "pending"
    /\ \E outcome \in [some -> Outcomes] :
          fate' = [i \in Id |-> IF i \in some THEN outcome[i] ELSE fate[i]]
    /\ UNCHANGED of

Next ==
    \/ \E i \in Id : Accept(i)
    \/ \E i, j \in Id : Retry(i, j)
    \/ \E some \in SUBSET Id : Settle(some)

Spec == Init /\ [][Next]_vars
=============================================================================
