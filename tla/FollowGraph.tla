----------------------------- MODULE FollowGraph -----------------------------
(***************************************************************************)
(* Following, unfollowing, and the fans board of the ranking service that  *)
(* each of them tells of it.  (internal/service/follow_service.go,         *)
(* internal/repository/follow_repo.go, internal/client/ranking.go,         *)
(* internal/model/follow.go)                                               *)
(*                                                                         *)
(* A request runs one statement on the database or one call of the ranking *)
(* service per step; the service keeps nothing in memory between them.     *)
(***************************************************************************)
EXTENDS Integers, FiniteSets

CONSTANTS
    Requests,   \* the calls of one run; their number bounds the run
    Users,      \* the ids of the users table
    Zero,       \* the id 0, which no row has
    Strangers,  \* other ids that no row has
    Faults      \* whether the database and the ranking service may fail

ASSUME IdsAssumption == Zero \notin Users \cup Strangers /\ Users \cap Strangers = {}
ASSUME FaultsAssumption == Faults \in BOOLEAN
ASSUME FiniteAssumption == IsFiniteSet(Requests) /\ IsFiniteSet(Users) /\ IsFiniteSet(Strangers)

VARIABLES
    follows,    \* user_follows: <<follower_id, following_id>>, unique
    deleted,    \* users: the ids with deleted_at
    score,      \* ranking service: board:user:fans
    pc,         \* process: where each request is
    edge,       \* process: what each request carries
    drift       \* history: by how much each score departs from the followers

vars == <<follows, deleted, score, pc, edge, drift>>

Steps == {"insert", "pushUp", "remove", "pushDown"}
Replied == {"ok", "refused"}
\* A request may name any id.  Nobody looks up the follower.
Named == Users \cup Strangers
Ids == Named \cup {Zero}

-----------------------------------------------------------------------------
\* How a write ends: applied and confirmed, refused, applied but unconfirmed.
Outcomes == IF Faults THEN {"done", "refused", "unconfirmed"} ELSE {"done"}
Applied(o) == o # "refused"
Confirmed(o) == o = "done"

\* Whether a read is answered.
Answers == IF Faults THEN BOOLEAN ELSE {TRUE}

Go(r, to) == pc' = [pc EXCEPT ![r] = to]
Drifts(u, by) == drift' = [drift EXCEPT ![u] = @ + by]
Start(r, a, b) == pc[r] = "idle" /\ edge' = [edge EXCEPT ![r] = <<a, b>>]

IsFollowing(a, b) == <<a, b>> \in follows
Followers(u) == Cardinality({e \in follows : e[2] = u})

Init ==
    /\ follows \in SUBSET {e \in Named \X Users : e[1] # e[2]}
    /\ deleted = {}
    /\ score = [u \in Users |-> Followers(u)]
    /\ pc = [r \in Requests |-> "idle"]
    /\ edge = [r \in Requests |-> <<Zero, Zero>>]
    /\ drift = [u \in Users |-> 0]

-----------------------------------------------------------------------------
\* Mistake: the followed user is looked up, the follower is not compared with it.
FollowAnyone(r, a, b) ==
    /\ Start(r, a, b)
    /\ Go(r, IF b \in Users \ deleted THEN "insert" ELSE "refused")
    /\ UNCHANGED <<follows, deleted, score, drift>>

\* Follow: two ids, not the same, and the followed user is there.
Follow(r, a, b) ==
    /\ Start(r, a, b)
    /\ \E answered \in Answers :
         LET valid == Zero \notin {a, b} /\ a # b
         IN  Go(r, IF valid /\ answered /\ b \in Users \ deleted THEN "insert" ELSE "refused")
    /\ UNCHANGED <<follows, deleted, score, drift>>

\* Mistake: follower and followed change places.
InsertEdgeReversed(r) ==
    /\ pc[r] = "insert"
    /\ follows' = follows \cup {<<edge[r][2], edge[r][1]>>}
    /\ Go(r, "pushUp")
    /\ UNCHANGED <<deleted, score, edge, drift>>

\* INSERT ... ON CONFLICT DO NOTHING: a row that is there already is no error.
\* A row whose insertion is not confirmed is not told to the ranking service.
InsertEdge(r) ==
    LET e == edge[r]
    IN  /\ pc[r] = "insert"
        /\ \E o \in Outcomes :
             LET fresh == Applied(o) /\ e \notin follows
             IN  /\ follows' = IF Applied(o) THEN follows \cup {e} ELSE follows
                 /\ Drifts(e[2], IF Confirmed(o) /\ ~fresh THEN 1
                                 ELSE IF ~Confirmed(o) /\ fresh THEN -1 ELSE 0)
                 /\ Go(r, IF Confirmed(o) THEN "pushUp" ELSE "refused")
        /\ UNCHANGED <<deleted, score, edge>>

\* Mistake: the followed user loses a fan.
PushUpInverted(r) ==
    /\ pc[r] = "pushUp"
    /\ score' = [score EXCEPT ![edge[r][2]] = @ - 1]
    /\ Go(r, "ok")
    /\ UNCHANGED <<follows, deleted, edge, drift>>

\* An increment of the score: it reaches the ranking service, or is lost.
RecordFansScore(u, delta, o) ==
    score' = IF Applied(o) THEN [score EXCEPT ![u] = @ + delta] ELSE score

\* The push of +1, best effort: one that is lost (as in a crash) is never made up for.
PushUp(r) ==
    LET u == edge[r][2]
    IN  /\ pc[r] = "pushUp"
        /\ \E o \in Outcomes :
             /\ RecordFansScore(u, 1, o)
             /\ Drifts(u, IF Applied(o) THEN 0 ELSE -1)
        /\ Go(r, "ok")
        /\ UNCHANGED <<follows, deleted, edge>>

\* Unfollow: success at once when there is no such row.
Unfollow(r, a, b) ==
    /\ Start(r, a, b)
    /\ \E answered \in Answers :
         Go(r, IF Zero \in {a, b} \/ ~answered THEN "refused"
               ELSE IF IsFollowing(a, b) THEN "remove" ELSE "ok")
    /\ UNCHANGED <<follows, deleted, score, drift>>

\* DELETE: a row that another request has removed since it was looked up is no
\* error, and the ranking service is told once more.
RemoveEdge(r) ==
    LET e == edge[r]
    IN  /\ pc[r] = "remove"
        /\ \E o \in Outcomes :
             LET removed == Applied(o) /\ e \in follows
             IN  /\ follows' = IF Applied(o) THEN follows \ {e} ELSE follows
                 /\ Drifts(e[2], IF Confirmed(o) /\ ~removed THEN -1
                                 ELSE IF ~Confirmed(o) /\ removed THEN 1 ELSE 0)
                 /\ Go(r, IF Confirmed(o) THEN "pushDown" ELSE "refused")
        /\ UNCHANGED <<deleted, score, edge>>

\* The push of -1, best effort.
PushDown(r) ==
    LET u == edge[r][2]
    IN  /\ pc[r] = "pushDown"
        /\ \E o \in Outcomes :
             /\ RecordFansScore(u, -1, o)
             /\ Drifts(u, IF Applied(o) THEN 0 ELSE 1)
        /\ Go(r, "ok")
        /\ UNCHANGED <<follows, deleted, edge>>

\* DeleteUser leaves the rows of user_follows, and the score, where they are.
DeleteUser(u) ==
    /\ u \in Users \ deleted
    /\ deleted' = deleted \cup {u}
    /\ UNCHANGED <<follows, score, pc, edge, drift>>

-----------------------------------------------------------------------------
Proceed(r) == InsertEdge(r) \/ PushUp(r) \/ RemoveEdge(r) \/ PushDown(r)

Next ==
    \/ \E r \in Requests, a, b \in Ids : Follow(r, a, b) \/ Unfollow(r, a, b)
    \/ \E r \in Requests : Proceed(r)
    \/ \E u \in Users : DeleteUser(u)

Spec == Init /\ [][Next]_vars

-----------------------------------------------------------------------------
\* The type invariant; an edge that is about to be written leads to a user, from an id
\* that is not 0.
TypeOK ==
    /\ follows \subseteq Named \X Users
    /\ deleted \subseteq Users
    /\ score \in [Users -> Int]
    /\ pc \in [Requests -> {"idle"} \cup Steps \cup Replied]
    /\ edge \in [Requests -> Ids \X Ids]
    /\ drift \in [Users -> Int]
    /\ \A r \in Requests : pc[r] \in Steps => edge[r] \in Named \X Users

\* FollowGraph implements FollowSet: calls that overlap, repeat or half fail take
\* effect one by one on the edges they name and no other, and nobody follows
\* himself.  A call is decided once its row is written: the push cannot undo it.
State(r) == IF pc[r] = "insert" THEN "follow"
            ELSE IF pc[r] = "remove" THEN "unfollow"
            ELSE IF pc[r] = "idle" THEN "none"
            ELSE IF pc[r] = "refused" THEN "refused" ELSE "ok"
F == INSTANCE FollowSet WITH edges <- follows, wish <- edge,
                             state <- [r \in Requests |-> State(r)]
FollowSpec == F!Spec

\* What the board owes a user: pushes that are still to come.
Coming(u, step) == Cardinality({r \in Requests : pc[r] = step /\ edge[r][2] = u})

\* The fans board and the table agree but for the pushes still to come and for
\* the drift, which only four things add to: a Follow of someone already
\* followed, an Unfollow of a row another request has just removed, a push that
\* is lost, and a write that took effect but was reported as failed.
BoardFollowsTable ==
    \A u \in Users :
        score[u] + Coming(u, "pushUp") - Coming(u, "pushDown") = Followers(u) + drift[u]

\* Between board and table of a user, the pushes still to come counted in, nothing
\* comes for any other reason: the gap widens or narrows by a call that names this
\* user and repeats a Follow, finds its row removed by another, loses its push, or
\* is told that a write failed which did not (follow_service.go:12-28, 30-53).
Gap(u) == score[u] + Coming(u, "pushUp") - Coming(u, "pushDown") - Followers(u)
Repeats(r) == pc[r] = "insert" /\ pc'[r] = "pushUp" /\ edge[r] \in follows
ComesLate(r) == pc[r] = "remove" /\ pc'[r] = "pushDown" /\ edge[r] \notin follows
LosesPush(r) == pc[r] \in {"pushUp", "pushDown"} /\ pc'[r] = "ok" /\ score' = score
Misreported(r) == pc[r] \in {"insert", "remove"} /\ pc'[r] = "refused" /\ follows' # follows
GapHasACause ==
    [][\A u \in Users : Gap(u)' # Gap(u) =>
         \E r \in Requests : edge[r][2] = u /\
            (Repeats(r) \/ ComesLate(r) \/ (Faults /\ (LosesPush(r) \/ Misreported(r))))]_vars

\* "Idempotent; the fans board is pushed +1 on success" (follow_service.go:11):
\* with nothing in progress, the score is the number of followers.
ScoreIsFollowers ==
    (\A r \in Requests : pc[r] \notin Steps) => \A u \in Users : score[u] = Followers(u)

=============================================================================
