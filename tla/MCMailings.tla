----------------------------- MODULE MCMailings -----------------------------
(* Instances of Mailings for TLC: one mail job, with a post before it in one of them, due *)
(* in the first minute of days of a few minutes.                                          *)
EXTENDS Mailings

CONSTANTS ann, bob, shell

MCAlertOrder == <<"price_alerts">>

MCPostOrder == <<"deals_post", "price_alerts">>

MCAt == [j \in {"price_alerts", "deals_post"} |-> 0]

MCRule == [a \in {ann, bob} |-> IF a = ann THEN [mode |-> "below", mark |-> 95]
                                ELSE [mode |-> "any_drop", mark |-> 0]]
=============================================================================
