----------------------------- MODULE MCAccounts ------------------------------
(* Accounts for TLC: symmetry.                                              *)
EXTENDS Accounts, TLC

Symmetry == Permutations(Users) \cup Permutations(Browsers) \cup Permutations(Tasks)
=============================================================================
