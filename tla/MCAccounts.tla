------------------------------ MODULE MCAccounts ------------------------------
EXTENDS Accounts, TLC

\* Requests differ in nothing but their names.
Symmetry == Permutations(Requests)
=============================================================================
