------------------------------ MODULE Sessions ------------------------------
(***************************************************************************)
(* What the service promises of its login tokens, whatever the calls that  *)
(* run at the same time do: a token is handed out once, to one user, is    *)
(* active from then on or never, and once ended never becomes active       *)
(* again.  Accounts.tla implements this specification.                     *)
(***************************************************************************)
CONSTANTS
    Tokens,
    Users,
    NoUser      \* the owner of a token nobody has yet

VARIABLES
    phase,      \* "fresh", "active" or "ended", for each token
    owner       \* the user a token was issued to

vars == <<phase, owner>>

Init ==
    /\ phase = [t \in Tokens |-> "fresh"]
    /\ owner = [t \in Tokens |-> NoUser]

Active(u) == {t \in Tokens : phase[t] = "active" /\ owner[t] = u}

\* A login hands token t to user u.  The token works from now on, or, when
\* its row could not be stored, never.
Issue(t, u) ==
    /\ phase[t] = "fresh"
    /\ \E p \in {"active", "ended"} : phase' = [phase EXCEPT ![t] = p]
    /\ owner' = [owner EXCEPT ![t] = u]

\* A logout ends one token.
Revoke(t) ==
    /\ phase[t] = "active"
    /\ phase' = [phase EXCEPT ![t] = "ended"]
    /\ UNCHANGED owner

\* The deletion of an account ends all the tokens its user has.
RevokeAll(u) ==
    /\ phase' = [t \in Tokens |-> IF t \in Active(u) THEN "ended" ELSE phase[t]]
    /\ UNCHANGED owner

Next ==
    \/ \E t \in Tokens, u \in Users : Issue(t, u)
    \/ \E t \in Tokens : Revoke(t)
    \/ \E u \in Users : RevokeAll(u)

Spec == Init /\ [][Next]_vars

=============================================================================
