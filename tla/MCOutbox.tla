------------------------------ MODULE MCOutbox ------------------------------
(* Instances of Outbox for TLC: two calls of dispatchOutbox, the timer's     *)
(* over every channel and an admin's "send it now" over one.                 *)
EXTENDS Outbox, TLC

CONSTANTS timer, admin, k1, k2, noKey, facebook, discord

MCScope == (timer :> Channel) @@ (admin :> {facebook})

MCBackoff == <<1>>
=============================================================================
