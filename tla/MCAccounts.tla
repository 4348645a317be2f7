----------------------------- MODULE MCAccounts -----------------------------
(* Instance of Accounts for TLC: two accounts, addresses, Google users and  *)
(* chats, each interchangeable with the other of its kind.                  *)
EXTENDS Accounts, TLC

MCSymmetry ==
    UNION {Permutations(S) : S \in {Account, Address, Subject, Chat}}
=============================================================================
