---------------------------- MODULE MCFollowGraph ----------------------------
(* FollowGraph on small instances for TLC.                                  *)
EXTENDS FollowGraph, TLC

CONSTANTS r1, r2, r3, u1, u2, x

Symmetry == Permutations(Requests) \cup Permutations(Users)
=============================================================================
