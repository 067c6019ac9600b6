-------------------------- MODULE FollowGraphProofs --------------------------
(***************************************************************************)
(* Proofs about FollowGraph: its type invariant, that it implements        *)
(* FollowSet, and that the fans board and the table agree but for the      *)
(* pushes still to come and the drift.                                     *)
(***************************************************************************)
EXTENDS FollowGraph, FiniteSetTheorems, TLAPS

-----------------------------------------------------------------------------
(* The type invariant. *)

Fans(u) == {e \in follows : e[2] = u}

LEMMA FansAreFinite ==
  ASSUME follows \subseteq Named \X Users, NEW u
  PROVE  /\ IsFiniteSet(Fans(u))
         /\ Followers(u) = Cardinality(Fans(u))
         /\ Followers(u) \in Nat
<1>1. IsFiniteSet(Named \X Users)
  BY FiniteAssumption, FS_Union, FS_Product DEF Named
<1>2. IsFiniteSet(Fans(u))
  BY <1>1, FS_Subset DEF Fans
<1>3. QED
  BY <1>2, FS_CardinalityType DEF Fans, Followers

LEMMA InitTypes == Init => TypeOK
<1> SUFFICES ASSUME Init PROVE TypeOK
  OBVIOUS
<1>1. follows \subseteq Named \X Users
  BY DEF Init
<1>2. \A u \in Users : Followers(u) \in Int
  BY <1>1, FansAreFinite
<1>3. score \in [Users -> Int] /\ drift \in [Users -> Int]
  BY <1>2 DEF Init
<1>4. QED
  BY <1>1, <1>3 DEF Init, TypeOK, Ids, Named, Steps

LEMMA FollowTypes ==
  ASSUME TypeOK, NEW r \in Requests, NEW a \in Ids, NEW b \in Ids,
         Follow(r, a, b) \/ Unfollow(r, a, b)
  PROVE  TypeOK'
<1>1. CASE Follow(r, a, b)
  BY <1>1, IdsAssumption DEF TypeOK, Follow, Start, Go, Ids, Named, Steps, Replied
<1>2. CASE Unfollow(r, a, b)
  BY <1>2, IdsAssumption DEF TypeOK, Unfollow, IsFollowing, Start, Go, Ids, Named, Steps, Replied
<1>3. QED  BY <1>1, <1>2

LEMMA WriteTypes ==
  ASSUME TypeOK, NEW r \in Requests, InsertEdge(r) \/ RemoveEdge(r)
  PROVE  TypeOK'
<1>1. edge[r] \in Named \X Users
  BY DEF TypeOK, InsertEdge, RemoveEdge, Steps
<1>2. CASE InsertEdge(r)
  BY <1>1, <1>2 DEF TypeOK, InsertEdge, Drifts, Go, Steps, Replied
<1>3. CASE RemoveEdge(r)
  BY <1>1, <1>3 DEF TypeOK, RemoveEdge, Drifts, Go, Steps, Replied
<1>4. QED  BY <1>2, <1>3

LEMMA PushTypes ==
  ASSUME TypeOK, NEW r \in Requests, PushUp(r) \/ PushDown(r)
  PROVE  TypeOK'
<1>1. edge[r] \in Named \X Users
  BY DEF TypeOK, PushUp, PushDown, RecordFansScore, Steps
<1>2. CASE PushUp(r)
  BY <1>1, <1>2 DEF TypeOK, PushUp, RecordFansScore, Drifts, Go, Steps, Replied
<1>3. CASE PushDown(r)
  BY <1>1, <1>3 DEF TypeOK, PushDown, RecordFansScore, Drifts, Go, Steps, Replied
<1>4. QED  BY <1>2, <1>3

LEMMA NextTypes == TypeOK /\ [Next]_vars => TypeOK'
<1> SUFFICES ASSUME TypeOK, [Next]_vars PROVE TypeOK'
  OBVIOUS
<1>1. CASE \E r \in Requests, a, b \in Ids : Follow(r, a, b) \/ Unfollow(r, a, b)
  BY <1>1, FollowTypes
<1>2. CASE \E r \in Requests : Proceed(r)
  BY <1>2, WriteTypes, PushTypes DEF Proceed
<1>3. CASE \E u \in Users : DeleteUser(u)
  BY <1>3 DEF TypeOK, DeleteUser
<1>4. CASE UNCHANGED vars
  BY <1>4 DEF TypeOK, vars
<1>5. QED  BY <1>1, <1>2, <1>3, <1>4 DEF Next

\* Every variable keeps its type, and a request that is about to write an edge
\* carries one between two users (follow_service.go checks the ids first).
THEOREM TypeCorrect == Spec => []TypeOK
<1>1. QED  BY InitTypes, NextTypes, PTL DEF Spec

-----------------------------------------------------------------------------
(* FollowGraph implements FollowSet. *)

\* What a request is for FollowSet when it is at p.
Standing(p) == IF p = "insert" THEN "follow"
               ELSE IF p = "remove" THEN "unfollow"
               ELSE IF p = "idle" THEN "none"
               ELSE IF p = "refused" THEN "refused" ELSE "ok"
Standings == [r \in Requests |-> State(r)]

LEMMA InitImplements == Init => F!Init
  BY DEF Init, F!Init, State

\* A request that moves is the only one whose standing changes.
LEMMA MovesStanding ==
  ASSUME TypeOK, NEW r \in Requests, NEW p, Go(r, p)
  PROVE  Standings' = [Standings EXCEPT ![r] = Standing(p)]
  BY DEF Standings, State, Standing, Go, TypeOK

LEMMA FollowImplements ==
  ASSUME TypeOK, NEW r \in Requests, NEW a \in Ids, NEW b \in Ids, Follow(r, a, b)
  PROVE  F!Next
<1>1. PICK p \in {"insert", "refused"} :
        /\ Go(r, p)
        /\ p = "insert" => b \in Users /\ a # b /\ Zero \notin {a, b}
  BY DEF Follow
<1>2. Standings' = [Standings EXCEPT ![r] = Standing(p)]
  BY <1>1, MovesStanding
<1>3. p = "insert" => <<a, b>> \in Named \X Users
  BY <1>1 DEF Ids, Named
<1>4. F!Ask(r, <<a, b>>, Standing(p))
  BY <1>1, <1>2, <1>3 DEF F!Ask, F!Become, Follow, Start, Standing, Standings, State
<1>5. QED
  BY <1>4, <1>1 DEF F!Next, Standing, Ids, Named

LEMMA UnfollowImplements ==
  ASSUME TypeOK, NEW r \in Requests, NEW a \in Ids, NEW b \in Ids, Unfollow(r, a, b)
  PROVE  F!Next
<1>1. PICK p \in {"remove", "refused", "ok"} :
        Go(r, p) /\ (p = "ok" => <<a, b>> \notin follows)
  BY DEF Unfollow, IsFollowing
<1>2. Standings' = [Standings EXCEPT ![r] = Standing(p)]
  BY <1>1, MovesStanding
<1>3. F!Ask(r, <<a, b>>, Standing(p))
  BY <1>1, <1>2 DEF F!Ask, F!Become, Unfollow, IsFollowing, Start, Standing, Standings, State
<1>4. QED
  BY <1>3, <1>1 DEF F!Next, Standing, Ids, Named

LEMMA InsertImplements ==
  ASSUME TypeOK, NEW r \in Requests, InsertEdge(r)
  PROVE  F!Next
<1>1. PICK o \in Outcomes :
        /\ follows' = IF Applied(o) THEN follows \cup {edge[r]} ELSE follows
        /\ Go(r, IF Confirmed(o) THEN "pushUp" ELSE "refused")
  BY DEF InsertEdge
<1>2. Standings' = [Standings EXCEPT ![r] = IF Confirmed(o) THEN "ok" ELSE "refused"]
  BY <1>1, MovesStanding DEF Standing
<1>3. Standings[r] = "follow" /\ UNCHANGED edge
  BY DEF InsertEdge, Standings, State
<1>4. CASE Applied(o)
  BY <1>1, <1>2, <1>3, <1>4 DEF F!Next, F!Follow, F!Become, Standings
<1>5. CASE ~Applied(o)
  BY <1>1, <1>2, <1>3, <1>5 DEF F!Next, F!Fail, F!Become, Standings, Applied, Confirmed
<1>6. QED  BY <1>4, <1>5

LEMMA RemoveImplements ==
  ASSUME TypeOK, NEW r \in Requests, RemoveEdge(r)
  PROVE  F!Next
<1>1. PICK o \in Outcomes :
        /\ follows' = IF Applied(o) THEN follows \ {edge[r]} ELSE follows
        /\ Go(r, IF Confirmed(o) THEN "pushDown" ELSE "refused")
  BY DEF RemoveEdge
<1>2. Standings' = [Standings EXCEPT ![r] = IF Confirmed(o) THEN "ok" ELSE "refused"]
  BY <1>1, MovesStanding DEF Standing
<1>3. Standings[r] = "unfollow" /\ UNCHANGED edge
  BY DEF RemoveEdge, Standings, State
<1>4. CASE Applied(o)
  BY <1>1, <1>2, <1>3, <1>4 DEF F!Next, F!Unfollow, F!Become, Standings
<1>5. CASE ~Applied(o)
  BY <1>1, <1>2, <1>3, <1>5 DEF F!Next, F!Fail, F!Become, Standings, Applied, Confirmed
<1>6. QED  BY <1>4, <1>5

\* The pushes are no part of what following promises.
LEMMA PushImplements ==
  ASSUME TypeOK, NEW r \in Requests, PushUp(r) \/ PushDown(r)
  PROVE  UNCHANGED F!vars
<1>1. Go(r, "ok") /\ UNCHANGED <<follows, edge>>
  BY DEF PushUp, PushDown, RecordFansScore
<1>2. Standings' = [Standings EXCEPT ![r] = "ok"] /\ Standings[r] = "ok"
  BY <1>1, MovesStanding DEF Standing, PushUp, PushDown, RecordFansScore, Standings, State
<1>3. Standings' = Standings
  BY <1>2 DEF Standings
<1>4. QED  BY <1>1, <1>3 DEF F!vars, Standings

LEMMA NextImplements == TypeOK /\ [Next]_vars => [F!Next]_(F!vars)
<1> SUFFICES ASSUME TypeOK, [Next]_vars PROVE [F!Next]_(F!vars)
  OBVIOUS
<1>1. CASE \E r \in Requests, a, b \in Ids : Follow(r, a, b) \/ Unfollow(r, a, b)
  BY <1>1, FollowImplements, UnfollowImplements
<1>2. CASE \E r \in Requests : Proceed(r)
  BY <1>2, InsertImplements, RemoveImplements, PushImplements DEF Proceed
<1>3. CASE \E u \in Users : DeleteUser(u)
  BY <1>3 DEF DeleteUser, F!vars, State
<1>4. CASE UNCHANGED vars
  BY <1>4 DEF vars, F!vars, State
<1>5. QED  BY <1>1, <1>2, <1>3, <1>4 DEF Next

\* Follow and Unfollow calls that overlap, repeat or half fail take effect one by
\* one, on the edges they name.
THEOREM FollowGraphImplementsFollowSet == Spec => FollowSpec
<1>1. QED
  BY TypeCorrect, InitImplements, NextImplements, PTL DEF Spec, FollowSpec, F!Spec

-----------------------------------------------------------------------------
(* The fans board. *)

Pending(u, step) == {r \in Requests : pc[r] = step /\ edge[r][2] = u}

LEMMA PendingAreFinite ==
  ASSUME NEW u, NEW step \in Steps
  PROVE  /\ IsFiniteSet(Pending(u, step))
         /\ Coming(u, step) = Cardinality(Pending(u, step))
         /\ Coming(u, step) \in Nat
<1>1. IsFiniteSet(Pending(u, step))
  BY FiniteAssumption, FS_Subset DEF Pending
<1>2. QED
  BY <1>1, FS_CardinalityType DEF Pending, Coming

LEMMA NewFan ==
  ASSUME TypeOK, NEW d \in Named \X Users, NEW u \in Users, follows' = follows \cup {d}
  PROVE  Followers(u)' = Followers(u) + (IF d \notin follows /\ d[2] = u THEN 1 ELSE 0)
<1>1. CASE d[2] = u
  <2>1. Fans(u)' = Fans(u) \cup {d}  BY <1>1 DEF Fans
  <2>2. d \in Fans(u) <=> d \in follows  BY <1>1 DEF Fans
  <2>3. Followers(u)' = Cardinality(Fans(u)')  BY DEF Followers, Fans
  <2>4. Cardinality(Fans(u) \cup {d})
          = IF d \in Fans(u) THEN Cardinality(Fans(u)) ELSE Cardinality(Fans(u)) + 1
    <3>1. IsFiniteSet(Fans(u))  BY FansAreFinite DEF TypeOK
    <3>2. QED  BY <3>1, FS_AddElement
  <2>5. Followers(u) \in Nat /\ Followers(u) = Cardinality(Fans(u))
    BY FansAreFinite DEF TypeOK
  <2>6. QED  BY <1>1, <2>1, <2>2, <2>3, <2>4, <2>5
<1>2. CASE d[2] # u
  <2>1. Fans(u)' = Fans(u)  BY <1>2 DEF Fans
  <2>2. Followers(u)' = Followers(u)  BY <2>1 DEF Followers, Fans
  <2>3. QED  BY <1>2, <2>2, FansAreFinite DEF TypeOK
<1>3. QED  BY <1>1, <1>2

LEMMA LostFan ==
  ASSUME TypeOK, NEW d \in Named \X Users, NEW u \in Users, follows' = follows \ {d}
  PROVE  Followers(u)' = Followers(u) - (IF d \in follows /\ d[2] = u THEN 1 ELSE 0)
<1>1. CASE d[2] = u
  <2>1. Fans(u)' = Fans(u) \ {d}  BY <1>1 DEF Fans
  <2>2. d \in Fans(u) <=> d \in follows  BY <1>1 DEF Fans
  <2>3. Followers(u)' = Cardinality(Fans(u)')  BY DEF Followers, Fans
  <2>4. Cardinality(Fans(u) \ {d})
          = IF d \in Fans(u) THEN Cardinality(Fans(u)) - 1 ELSE Cardinality(Fans(u))
    <3>1. IsFiniteSet(Fans(u))  BY FansAreFinite DEF TypeOK
    <3>2. QED  BY <3>1, FS_RemoveElement
  <2>5. Followers(u) \in Nat /\ Followers(u) = Cardinality(Fans(u))
    BY FansAreFinite DEF TypeOK
  <2>6. QED  BY <1>1, <2>1, <2>2, <2>3, <2>4, <2>5
<1>2. CASE d[2] # u
  <2>1. Fans(u)' = Fans(u)  BY <1>2 DEF Fans
  <2>2. Followers(u)' = Followers(u)  BY <2>1 DEF Followers, Fans
  <2>3. QED  BY <1>2, <2>2, FansAreFinite DEF TypeOK
<1>3. QED  BY <1>1, <1>2

SameFans(u) == Followers(u)' = Followers(u)

LEMMA NoNewFan ==
  ASSUME NEW u, UNCHANGED follows
  PROVE  SameFans(u)
  BY DEF SameFans, Followers

Stages == {"idle"} \cup Steps \cup Replied
Joins(p, d, u, step) == p = step /\ d[2] = u
Counts(r, u, step) == IF pc[r] = step /\ edge[r][2] = u THEN 1 ELSE 0

\* A request that moves leaves one count and joins another.
LEMMA MovesCount ==
  ASSUME TypeOK, NEW r \in Requests, NEW p \in Stages, Go(r, p),
         NEW d \in Ids \X Ids, edge' = [edge EXCEPT ![r] = d],
         NEW u \in Users, NEW step \in Steps
  PROVE  /\ Joins(p, d, u, step) =>
              Coming(u, step)' = Coming(u, step) - Counts(r, u, step) + 1
         /\ ~Joins(p, d, u, step) =>
              Coming(u, step)' = Coming(u, step) - Counts(r, u, step)
<1> DEFINE Others == Pending(u, step) \ {r}
<1>1. r \in Pending(u, step) <=> Counts(r, u, step) = 1
  BY DEF Pending, Counts
<1>2. /\ IsFiniteSet(Others)
      /\ Cardinality(Others) = Coming(u, step) - Counts(r, u, step)
      /\ Cardinality(Others) \in Nat
  BY <1>1, PendingAreFinite, FS_RemoveElement, FS_CardinalityType DEF Counts
<1>3. /\ pc'[r] = p /\ edge'[r] = d
      /\ \A q \in Requests \ {r} : pc'[q] = pc[q] /\ edge'[q] = edge[q]
  BY DEF Go, TypeOK
<1>4. Coming(u, step)' = Cardinality(Pending(u, step)')
  BY DEF Coming, Pending
<1>5. CASE Joins(p, d, u, step)
  <2>1. Pending(u, step)' = Others \cup {r}  BY <1>3, <1>5 DEF Pending, Joins
  <2>2. Cardinality(Others \cup {r}) = Cardinality(Others) + 1
    BY <1>2, FS_AddElement
  <2>3. Coming(u, step)' = Coming(u, step) - Counts(r, u, step) + 1
    BY <1>2, <1>4, <2>1, <2>2
  <2>4. QED  BY <1>5, <2>3
<1>6. CASE ~Joins(p, d, u, step)
  <2>1. Pending(u, step)' = Others  BY <1>3, <1>6 DEF Pending, Joins
  <2>2. Coming(u, step)' = Coming(u, step) - Counts(r, u, step)
    BY <1>2, <1>4, <2>1
  <2>3. QED  BY <1>6, <2>2
<1>7. QED  BY <1>5, <1>6

Balance(u) ==
    score[u] + Coming(u, "pushUp") - Coming(u, "pushDown") = Followers(u) + drift[u]

LEMMA InitBalance == Init => BoardFollowsTable
<1> SUFFICES ASSUME Init, NEW u \in Users PROVE Balance(u)
  BY DEF BoardFollowsTable, Balance
<1>1. TypeOK
  BY InitTypes
<1>2. Pending(u, "pushUp") = {} /\ Pending(u, "pushDown") = {}
  BY DEF Init, Pending
<1>3. Coming(u, "pushUp") = 0 /\ Coming(u, "pushDown") = 0
  BY <1>2, FS_EmptySet DEF Pending, Coming
<1>4. score[u] = Followers(u) /\ drift[u] = 0
  BY DEF Init
<1>5. QED
  BY <1>1, <1>3, <1>4, FansAreFinite DEF Balance, TypeOK

\* A request that is admitted or turned down, or finds nothing to do.
LEMMA AskBalance ==
  ASSUME TypeOK, NEW r \in Requests, NEW a \in Ids, NEW b \in Ids,
         Follow(r, a, b) \/ Unfollow(r, a, b), NEW u \in Users, Balance(u)
  PROVE  Balance(u)'
<1>1. PICK p \in {"insert", "remove", "ok", "refused"} : Go(r, p)
  BY DEF Follow, Unfollow, IsFollowing
<1>2. /\ pc[r] = "idle" /\ edge' = [edge EXCEPT ![r] = <<a, b>>]
      /\ UNCHANGED <<follows, score, drift>>
  BY DEF Follow, Unfollow, IsFollowing, Start
<1>3. ASSUME NEW step \in {"pushUp", "pushDown"}
      PROVE  Coming(u, step)' = Coming(u, step)
  <2>1. p # step /\ <<a, b>> \in Ids \X Ids /\ p \in Stages /\ step \in Steps
    BY DEF Steps, Stages, Replied
  <2>2. ~Joins(p, <<a, b>>, u, step) /\ Counts(r, u, step) = 0
    BY <1>2, <2>1 DEF Counts, Joins
  <2>3. Coming(u, step)' = Coming(u, step) - Counts(r, u, step)
    BY <1>1, <1>2, <2>1, <2>2, MovesCount
  <2>4. QED  BY <2>1, <2>2, <2>3, PendingAreFinite
<1>4. Coming(u, "pushUp")' = Coming(u, "pushUp")
      /\ Coming(u, "pushDown")' = Coming(u, "pushDown")
  BY <1>3
<1>6. SameFans(u)
  BY <1>2, NoNewFan
<1>7. QED
  BY <1>2, <1>4, <1>6 DEF Balance, SameFans

LEMMA InsertBalance ==
  ASSUME TypeOK, NEW r \in Requests, InsertEdge(r), NEW u \in Users, Balance(u)
  PROVE  Balance(u)'
<1> DEFINE e == edge[r]
<1>1. e \in Named \X Users /\ e \in Ids \X Ids
  BY DEF TypeOK, InsertEdge, Steps, Ids, Named
<1>2. edge' = [edge EXCEPT ![r] = e] /\ score' = score /\ pc[r] = "insert"
  BY DEF InsertEdge, TypeOK
<1>3. PICK o \in Outcomes, p \in {"pushUp", "refused"} :
        /\ follows' = IF Applied(o) THEN follows \cup {e} ELSE follows
        /\ Drifts(e[2], IF Confirmed(o) /\ ~(Applied(o) /\ e \notin follows) THEN 1
                        ELSE IF ~Confirmed(o) /\ Applied(o) /\ e \notin follows THEN -1
                        ELSE 0)
        /\ Go(r, p) /\ p = IF Confirmed(o) THEN "pushUp" ELSE "refused"
  BY DEF InsertEdge
<1>4. ASSUME NEW step \in {"pushUp", "pushDown"}
      PROVE  Coming(u, step)' = Coming(u, step)
                                + (IF p = step /\ e[2] = u THEN 1 ELSE 0)
  <2>1. p \in Stages /\ step \in Steps /\ Go(r, p) /\ Counts(r, u, step) = 0
    BY <1>2, <1>3 DEF Counts, Steps, Stages, Replied
  <2>2. /\ Joins(p, e, u, step) =>
             Coming(u, step)' = Coming(u, step) - Counts(r, u, step) + 1
        /\ ~Joins(p, e, u, step) =>
             Coming(u, step)' = Coming(u, step) - Counts(r, u, step)
    BY <1>1, <1>2, <2>1, MovesCount
  <2>3. QED  BY <2>1, <2>2, PendingAreFinite DEF Joins
<1>5. /\ Coming(u, "pushUp")' = Coming(u, "pushUp")
                                  + (IF Confirmed(o) /\ e[2] = u THEN 1 ELSE 0)
      /\ Coming(u, "pushDown")' = Coming(u, "pushDown")
  BY <1>3, <1>4, PendingAreFinite DEF Steps
<1>6. Followers(u)' = Followers(u)
                       + (IF Applied(o) /\ e \notin follows /\ e[2] = u THEN 1 ELSE 0)
  <2>1. CASE Applied(o)   BY <2>1, <1>1, <1>3, NewFan
  <2>2. CASE ~Applied(o)  BY <2>2, <1>3, NoNewFan, FansAreFinite DEF SameFans, TypeOK
  <2>3. QED  BY <2>1, <2>2
<1>7. drift[u]' = drift[u]
        + (IF e[2] # u THEN 0
           ELSE IF Confirmed(o) /\ ~(Applied(o) /\ e \notin follows) THEN 1
           ELSE IF ~Confirmed(o) /\ Applied(o) /\ e \notin follows THEN -1 ELSE 0)
  BY <1>1, <1>3 DEF Drifts, TypeOK
<1>8. Confirmed(o) => Applied(o)
  BY DEF Confirmed, Applied
<1>9. score[u] \in Int /\ drift[u] \in Int
  BY DEF TypeOK
<1>10. /\ Coming(u, "pushUp") \in Nat /\ Coming(u, "pushDown") \in Nat
       /\ Followers(u) \in Nat
  BY PendingAreFinite, FansAreFinite DEF Steps, TypeOK
<1>11. QED
  BY <1>2, <1>5, <1>6, <1>7, <1>8, <1>9, <1>10 DEF Balance

LEMMA RemoveBalance ==
  ASSUME TypeOK, NEW r \in Requests, RemoveEdge(r), NEW u \in Users, Balance(u)
  PROVE  Balance(u)'
<1> DEFINE e == edge[r]
<1>1. e \in Named \X Users /\ e \in Ids \X Ids
  BY DEF TypeOK, RemoveEdge, Steps, Ids, Named
<1>2. edge' = [edge EXCEPT ![r] = e] /\ score' = score /\ pc[r] = "remove"
  BY DEF RemoveEdge, TypeOK
<1>3. PICK o \in Outcomes, p \in {"pushDown", "refused"} :
        /\ follows' = IF Applied(o) THEN follows \ {e} ELSE follows
        /\ Drifts(e[2], IF Confirmed(o) /\ ~(Applied(o) /\ e \in follows) THEN -1
                        ELSE IF ~Confirmed(o) /\ Applied(o) /\ e \in follows THEN 1
                        ELSE 0)
        /\ Go(r, p) /\ p = IF Confirmed(o) THEN "pushDown" ELSE "refused"
  BY DEF RemoveEdge
<1>4. ASSUME NEW step \in {"pushUp", "pushDown"}
      PROVE  Coming(u, step)' = Coming(u, step)
                                + (IF p = step /\ e[2] = u THEN 1 ELSE 0)
  <2>1. p \in Stages /\ step \in Steps /\ Go(r, p) /\ Counts(r, u, step) = 0
    BY <1>2, <1>3 DEF Counts, Steps, Stages, Replied
  <2>2. /\ Joins(p, e, u, step) =>
             Coming(u, step)' = Coming(u, step) - Counts(r, u, step) + 1
        /\ ~Joins(p, e, u, step) =>
             Coming(u, step)' = Coming(u, step) - Counts(r, u, step)
    BY <1>1, <1>2, <2>1, MovesCount
  <2>3. QED  BY <2>1, <2>2, PendingAreFinite DEF Joins
<1>5. /\ Coming(u, "pushDown")' = Coming(u, "pushDown")
                                  + (IF Confirmed(o) /\ e[2] = u THEN 1 ELSE 0)
      /\ Coming(u, "pushUp")' = Coming(u, "pushUp")
  BY <1>3, <1>4, PendingAreFinite DEF Steps
<1>6. Followers(u)' = Followers(u)
                       - (IF Applied(o) /\ e \in follows /\ e[2] = u THEN 1 ELSE 0)
  <2>1. CASE Applied(o)   BY <2>1, <1>1, <1>3, LostFan
  <2>2. CASE ~Applied(o)  BY <2>2, <1>3, NoNewFan, FansAreFinite DEF SameFans, TypeOK
  <2>3. QED  BY <2>1, <2>2
<1>7. drift[u]' = drift[u]
        + (IF e[2] # u THEN 0
           ELSE IF Confirmed(o) /\ ~(Applied(o) /\ e \in follows) THEN -1
           ELSE IF ~Confirmed(o) /\ Applied(o) /\ e \in follows THEN 1 ELSE 0)
  BY <1>1, <1>3 DEF Drifts, TypeOK
<1>8. Confirmed(o) => Applied(o)
  BY DEF Confirmed, Applied
<1>9. score[u] \in Int /\ drift[u] \in Int
  BY DEF TypeOK
<1>10. /\ Coming(u, "pushUp") \in Nat /\ Coming(u, "pushDown") \in Nat
       /\ Followers(u) \in Nat
  BY PendingAreFinite, FansAreFinite DEF Steps, TypeOK
<1>11. QED
  BY <1>2, <1>5, <1>6, <1>7, <1>8, <1>9, <1>10 DEF Balance

\* A push settles what the request owed, or leaves the board behind by one.
LEMMA PushBalance ==
  ASSUME TypeOK, NEW r \in Requests, PushUp(r) \/ PushDown(r), NEW u \in Users, Balance(u)
  PROVE  Balance(u)'
<1> DEFINE e == edge[r]
           by == IF pc[r] = "pushUp" THEN 1 ELSE -1
<1>1. e \in Named \X Users /\ e \in Ids \X Ids
  BY DEF TypeOK, PushUp, PushDown, RecordFansScore, Steps, Ids, Named
<1>2. /\ edge' = [edge EXCEPT ![r] = e] /\ follows' = follows /\ Go(r, "ok")
      /\ pc[r] \in {"pushUp", "pushDown"}
  BY DEF PushUp, PushDown, RecordFansScore, TypeOK
<1>3. PICK o \in Outcomes :
        /\ score' = IF Applied(o) THEN [score EXCEPT ![e[2]] = @ + by] ELSE score
        /\ Drifts(e[2], IF Applied(o) THEN 0 ELSE -by)
  BY DEF PushUp, PushDown, RecordFansScore, TypeOK
<1>4. ASSUME NEW step \in {"pushUp", "pushDown"}
      PROVE  Coming(u, step)' = Coming(u, step)
                                - (IF pc[r] = step /\ e[2] = u THEN 1 ELSE 0)
  <2>1. "ok" # step /\ "ok" \in Stages /\ step \in Steps
    BY DEF Steps, Stages, Replied
  <2>2. Coming(u, step)' = Coming(u, step) - Counts(r, u, step)
    BY <1>1, <1>2, <2>1, MovesCount DEF Joins
  <2>3. QED  BY <2>2 DEF Counts
<1>5. /\ Coming(u, "pushUp") \in Nat /\ Coming(u, "pushDown") \in Nat
      /\ Followers(u) \in Nat
  BY PendingAreFinite, FansAreFinite DEF Steps, TypeOK
<1>6. score[u] \in Int /\ drift[u] \in Int
  BY DEF TypeOK
<1>7. score[u]' = score[u] + (IF Applied(o) /\ e[2] = u THEN by ELSE 0)
  BY <1>1, <1>3, <1>6 DEF TypeOK
<1>8. drift[u]' = drift[u] + (IF ~Applied(o) /\ e[2] = u THEN -by ELSE 0)
  BY <1>1, <1>3, <1>6 DEF Drifts, TypeOK
<1>9. SameFans(u)
  BY <1>2, NoNewFan
<1>10. QED
  BY <1>2, <1>4, <1>5, <1>6, <1>7, <1>8, <1>9 DEF Balance, SameFans

LEMMA NextBalance == TypeOK /\ BoardFollowsTable /\ [Next]_vars => BoardFollowsTable'
<1> SUFFICES ASSUME TypeOK, [Next]_vars, NEW u \in Users, Balance(u) PROVE Balance(u)'
  BY DEF BoardFollowsTable, Balance
<1>1. CASE \E r \in Requests, a, b \in Ids : Follow(r, a, b) \/ Unfollow(r, a, b)
  BY <1>1, AskBalance
<1>2. CASE \E r \in Requests : Proceed(r)
  BY <1>2, InsertBalance, RemoveBalance, PushBalance DEF Proceed
<1>3. CASE \E d \in Users : DeleteUser(d)
  BY <1>3 DEF DeleteUser, Balance, Followers, Coming
<1>4. CASE UNCHANGED vars
  BY <1>4 DEF vars, Balance, Followers, Coming
<1>5. QED  BY <1>1, <1>2, <1>3, <1>4 DEF Next

\* However requests interleave and whatever fails, the board and the table are
\* apart by the pushes still to come and by the drift alone.
THEOREM BoardCorrect == Spec => []BoardFollowsTable
<1>1. QED  BY TypeCorrect, InitBalance, NextBalance, PTL DEF Spec

\* What a step can do to the difference between board and table is what it does to
\* the drift.
LEMMA GapIsDrift == TypeOK /\ BoardFollowsTable => \A u \in Users : Gap(u) = drift[u]
<1> SUFFICES ASSUME TypeOK, BoardFollowsTable, NEW u \in Users PROVE Gap(u) = drift[u]
  OBVIOUS
<1>1. Balance(u)
  BY DEF BoardFollowsTable, Balance
<1>2. /\ Coming(u, "pushUp") \in Nat /\ Coming(u, "pushDown") \in Nat
      /\ Followers(u) \in Nat
  BY PendingAreFinite, FansAreFinite DEF Steps, TypeOK
<1>3. score[u] \in Int /\ drift[u] \in Int
  BY DEF TypeOK
<1>4. QED  BY <1>1, <1>2, <1>3 DEF Balance, Gap

LEMMA GapIsDriftNext == (TypeOK /\ BoardFollowsTable => \A u \in Users : Gap(u) = drift[u])'
  BY GapIsDrift, PTL

Cause(r) == \/ Repeats(r)
            \/ ComesLate(r)
            \/ Faults /\ (LosesPush(r) \/ Misreported(r))

LEMMA InsertCause ==
  ASSUME TypeOK, NEW r \in Requests, InsertEdge(r), NEW u \in Users, drift'[u] # drift[u]
  PROVE  edge[r][2] = u /\ Cause(r)
<1> DEFINE e == edge[r]
<1>1. PICK o \in Outcomes :
        /\ follows' = IF Applied(o) THEN follows \cup {e} ELSE follows
        /\ Drifts(e[2], IF Confirmed(o) /\ ~(Applied(o) /\ e \notin follows) THEN 1
                        ELSE IF ~Confirmed(o) /\ Applied(o) /\ e \notin follows THEN -1
                        ELSE 0)
        /\ Go(r, IF Confirmed(o) THEN "pushUp" ELSE "refused")
  BY DEF InsertEdge
<1>2. pc[r] = "insert" /\ pc'[r] = IF Confirmed(o) THEN "pushUp" ELSE "refused"
  BY <1>1 DEF InsertEdge, Go, TypeOK
<1>3. e[2] = u
  BY <1>1 DEF Drifts, TypeOK
<1>4. \/ Confirmed(o) /\ ~(Applied(o) /\ e \notin follows)
      \/ ~Confirmed(o) /\ Applied(o) /\ e \notin follows
  BY <1>1 DEF Drifts, TypeOK
<1>5. CASE Confirmed(o) /\ ~(Applied(o) /\ e \notin follows)
  BY <1>2, <1>3, <1>5 DEF Cause, Repeats, Confirmed, Applied
<1>6. CASE ~Confirmed(o) /\ Applied(o) /\ e \notin follows
  <2>1. Faults
    BY <1>6 DEF Outcomes, Confirmed
  <2>2. Misreported(r)
    BY <1>1, <1>2, <1>6 DEF Misreported
  <2>3. QED  BY <1>3, <2>1, <2>2 DEF Cause
<1>7. QED  BY <1>3, <1>4, <1>5, <1>6

LEMMA RemoveCause ==
  ASSUME TypeOK, NEW r \in Requests, RemoveEdge(r), NEW u \in Users, drift'[u] # drift[u]
  PROVE  edge[r][2] = u /\ Cause(r)
<1> DEFINE e == edge[r]
<1>1. PICK o \in Outcomes :
        /\ follows' = IF Applied(o) THEN follows \ {e} ELSE follows
        /\ Drifts(e[2], IF Confirmed(o) /\ ~(Applied(o) /\ e \in follows) THEN -1
                        ELSE IF ~Confirmed(o) /\ Applied(o) /\ e \in follows THEN 1
                        ELSE 0)
        /\ Go(r, IF Confirmed(o) THEN "pushDown" ELSE "refused")
  BY DEF RemoveEdge
<1>2. pc[r] = "remove" /\ pc'[r] = IF Confirmed(o) THEN "pushDown" ELSE "refused"
  BY <1>1 DEF RemoveEdge, Go, TypeOK
<1>3. e[2] = u
  BY <1>1 DEF Drifts, TypeOK
<1>4. \/ Confirmed(o) /\ ~(Applied(o) /\ e \in follows)
      \/ ~Confirmed(o) /\ Applied(o) /\ e \in follows
  BY <1>1 DEF Drifts, TypeOK
<1>5. CASE Confirmed(o) /\ ~(Applied(o) /\ e \in follows)
  BY <1>2, <1>3, <1>5 DEF Cause, ComesLate, Confirmed, Applied
<1>6. CASE ~Confirmed(o) /\ Applied(o) /\ e \in follows
  <2>1. Faults
    BY <1>6 DEF Outcomes, Confirmed
  <2>2. Misreported(r)
    BY <1>1, <1>2, <1>6 DEF Misreported
  <2>3. QED  BY <1>3, <2>1, <2>2 DEF Cause
<1>7. QED  BY <1>3, <1>4, <1>5, <1>6

LEMMA PushCause ==
  ASSUME TypeOK, NEW r \in Requests, PushUp(r) \/ PushDown(r), NEW u \in Users, drift'[u] # drift[u]
  PROVE  edge[r][2] = u /\ Cause(r)
<1>1. PICK o \in Outcomes, by \in {1, -1} :
        /\ ~Applied(o) => score' = score
        /\ Drifts(edge[r][2], IF Applied(o) THEN 0 ELSE by)
  BY DEF PushUp, PushDown, RecordFansScore
<1>2. pc[r] \in {"pushUp", "pushDown"} /\ pc'[r] = "ok"
  BY DEF PushUp, PushDown, RecordFansScore, Go, TypeOK
<1>3. edge[r][2] = u /\ ~Applied(o)
  BY <1>1 DEF Drifts, TypeOK
<1>4. Faults
  BY <1>3 DEF Outcomes, Applied
<1>5. QED  BY <1>1, <1>2, <1>3, <1>4 DEF Cause, LosesPush

\* A step opens or closes the gap of a user only for one of the reasons listed there.
LEMMA GapStep ==
  ASSUME TypeOK, BoardFollowsTable, [Next]_vars, NEW u \in Users, Gap(u)' # Gap(u)
  PROVE  \E r \in Requests : edge[r][2] = u /\ Cause(r)
<1>1. TypeOK' /\ BoardFollowsTable'
  BY NextTypes, NextBalance
<1>2. Gap(u) = drift[u]
  BY GapIsDrift
<1>3. Gap(u)' = drift'[u]
  BY <1>1, GapIsDriftNext
<1>4. drift'[u] # drift[u]
  BY <1>2, <1>3
<1>5. PICK r \in Requests : Proceed(r)
  BY <1>4 DEF Next, Follow, Unfollow, IsFollowing, DeleteUser, vars
<1>6. QED  BY <1>4, <1>5, InsertCause, RemoveCause, PushCause DEF Proceed

\* However requests interleave, the board and the table of a user part, or come
\* together again, only by a repeated Follow, a late Unfollow, a lost push or a
\* write whose outcome was misreported, and each time in a call that names the user;
\* if nothing fails, the first two are all there is.
\* (internal/service/follow_service.go:12-53)
THEOREM GapCorrect == Spec => GapHasACause
<1> DEFINE Caused ==
      \A u \in Users : Gap(u)' # Gap(u) =>
         \E r \in Requests : edge[r][2] = u /\
            (Repeats(r) \/ ComesLate(r) \/ (Faults /\ (LosesPush(r) \/ Misreported(r))))
<1>1. TypeOK /\ BoardFollowsTable /\ [Next]_vars => [Caused]_vars
  BY GapStep DEF Cause
<1>2. QED  BY <1>1, TypeCorrect, BoardCorrect, PTL DEF Spec, GapHasACause

=============================================================================
