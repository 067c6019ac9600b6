--------------------------- MODULE MCRegistration ---------------------------
(* Registration on small instances for TLC.                                 *)
EXTENDS Registration, TLC

CONSTANTS r1, r2, r3

n1 == <<"n", "1">>
n2 == <<"wide", "1">>
e1 == <<"n", "@", "1">>
e2 == <<"m", "@", "1">>

\* Two user names and two addresses; what is too short for a name, and what is short
\* enough for an address in characters but not in bytes.
Texts == {n1, n2, e1, e2, <<"n">>, <<"wide", "@", "1">>}

\* One account from before the run: two pages when a page holds one name.
OneAccount == <<[by |-> Earlier, username |-> n1, email |-> e1]>>

\* The table is empty: every name and email is free.
NoAccounts == <<>>

PasswordTexts == {<<"n", "1">>, <<"wide", "1">>}

RequestSymmetry == Permutations(Requests)
=============================================================================
