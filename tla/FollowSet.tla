------------------------------ MODULE FollowSet ------------------------------
(***************************************************************************)
(* What following promises ("idempotent", internal/repository/             *)
(* follow_repo.go:11-23): a set of edges that lead to users and never from *)
(* an id to itself; a call that is answered "ok" took effect once and at   *)
(* once, one that is refused may have.                                     *)
(* FollowGraph.tla implements this specification.                          *)
(***************************************************************************)
CONSTANTS
    Requests,
    Users,
    Named,   \* who may follow; nobody looks whether that is a user
    Ids      \* what a request may name

VARIABLES
    edges,   \* <<follower, followed>>
    wish,    \* the edge each request names
    state    \* "none", "follow", "unfollow", "ok" or "refused", for each request

vars == <<edges, wish, state>>

Init ==
    /\ edges \subseteq {e \in Named \X Users : e[1] # e[2]}
    /\ state = [r \in Requests |-> "none"]

Become(r, from, to) ==
    /\ state[r] = from
    /\ state' = [state EXCEPT ![r] = to]

\* A call is turned down, or has nothing to do, or is taken on.
Ask(r, e, to) ==
    /\ wish' = [wish EXCEPT ![r] = e]
    /\ Become(r, "none", to)
    /\ \/ to = "refused"
       \/ to = "ok" /\ e \notin edges
       \/ to = "follow" /\ e \in Named \X Users /\ e[1] # e[2]
       \/ to = "unfollow"
    /\ UNCHANGED edges

Follow(r) ==
    /\ \E answer \in {"ok", "refused"} : Become(r, "follow", answer)
    /\ edges' = edges \cup {wish[r]}
    /\ UNCHANGED wish

Unfollow(r) ==
    /\ \E answer \in {"ok", "refused"} : Become(r, "unfollow", answer)
    /\ edges' = edges \ {wish[r]}
    /\ UNCHANGED wish

Fail(r) ==
    /\ \E kind \in {"follow", "unfollow"} : Become(r, kind, "refused")
    /\ UNCHANGED <<edges, wish>>

Next ==
    \E r \in Requests :
        \/ \E e \in Ids \X Ids, to \in {"follow", "unfollow", "ok", "refused"} : Ask(r, e, to)
        \/ Follow(r) \/ Unfollow(r) \/ Fail(r)

Spec == Init /\ [][Next]_vars

=============================================================================
