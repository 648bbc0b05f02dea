----------------------------- MODULE MCAccounts -----------------------------
(* Instances of Accounts for TLC. *)
EXTENDS Accounts, TLC

CONSTANTS c1, c2, ann, bea, work, home

Alike == Permutations(Clients) \cup Permutations(Names) \cup Permutations(Emails)

=============================================================================
