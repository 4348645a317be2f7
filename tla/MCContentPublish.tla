-------------------------- MODULE MCContentPublish --------------------------
(* Instances of ContentPublish for TLC: two calls that may each be the tick, *)
(* an admin's "Post now", or the mail timer.                                     *)
EXTENDS ContentPublish, TLC

CONSTANTS tick, admin, noKey, facebook

MCScope == [d \in Dispatcher |-> {facebook}]

\* Longer than a timely call: a row put back is not due again within it.
MCBackoff == <<2>>

\* Any call may be a tick, an admin's or the mail timer's.
MCSymmetry == Permutations(Dispatcher)
=============================================================================
