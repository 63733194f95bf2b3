----------------------------- MODULE MCAccounts ------------------------------
(* Accounts with two administrators.                                          *)
EXTENDS Accounts, TLC

Symmetry == Permutations(Member)

=============================================================================
