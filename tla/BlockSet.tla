------------------------------ MODULE BlockSet -------------------------------
(***************************************************************************)
(* What the blacklist promises: a user is blocked by another or is not.    *)
(* Blocking twice is blocking once, and unblocking undoes all of it.       *)
(* SocialRelations.tla implements this specification.                      *)
(***************************************************************************)
CONSTANTS
    Requests,
    Pairs     \* <<who blocks, who is blocked>>

VARIABLES
    blocked,  \* the pairs in force
    wish,     \* the pair each request names
    reply     \* "none", "blocked", "unblocked", "yes", "no" or "refused"

vars == <<blocked, wish, reply>>

Init == blocked \subseteq Pairs /\ reply = [r \in Requests |-> "none"]

Reply(r, p, to) ==
    /\ wish' = [wish EXCEPT ![r] = p]
    /\ reply[r] = "none"
    /\ reply' = [reply EXCEPT ![r] = to]

\* A call that takes effect may still be reported as failed.
Block(r, p) ==
    /\ \E to \in {"blocked", "refused"} : Reply(r, p, to)
    /\ blocked' = blocked \cup {p}

Unblock(r, p) ==
    /\ \E to \in {"unblocked", "refused"} : Reply(r, p, to)
    /\ blocked' = blocked \ {p}

Ask(r, p) ==
    /\ Reply(r, p, IF p \in blocked THEN "yes" ELSE "no")
    /\ UNCHANGED blocked

Fail(r, p) ==
    /\ Reply(r, p, "refused")
    /\ UNCHANGED blocked

Next ==
    \E r \in Requests, p \in Pairs :
        Block(r, p) \/ Unblock(r, p) \/ Ask(r, p) \/ Fail(r, p)

Spec == Init /\ [][Next]_vars

=============================================================================
