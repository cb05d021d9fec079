----------------------------- MODULE MCAccounts -----------------------------
(* Browsers, accounts and slots are interchangeable. *)
EXTENDS Accounts, TLC

Interchangeable ==
  Permutations(Browsers) \cup Permutations(Names) \cup Permutations(Slots)
=============================================================================
