----------------------------- MODULE MCAccounts -----------------------------
(* Accounts on small instances for TLC.                                     *)
EXTENDS Accounts, TLC

CONSTANTS r1, r2, r3

RequestSymmetry == Permutations(Requests)
=============================================================================
