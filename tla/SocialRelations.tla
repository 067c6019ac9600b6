--------------------------- MODULE SocialRelations ---------------------------
(***************************************************************************)
(* The calls about what users are to each other: FollowGraph with the      *)
(* counts its replies carry, the questions about followers, the blacklist, *)
(* and the decoration of a board's members.                                *)
(* (internal/handler/v1/follow_handler.go, decorator_handler.go,           *)
(* grpc_handler.go:261-321, internal/service/follow_service.go:55-71,      *)
(* user_service.go:564-594, internal/repository/follow_repo.go:46-68,      *)
(* user_repo.go:112-122, 238-257)                                          *)
(*                                                                         *)
(* Every read is a statement of its own, so the numbers of one reply may   *)
(* come from different moments.  A call of one statement is one step.      *)
(***************************************************************************)
EXTENDS FollowGraph

\* Who blocks, and whom: the caller is a user, the target is not looked up.
Pairs == Users \X Ids

CONSTANT Blacklists   \* what the blacklist may hold at first

ASSUME BlacklistsAssumption == Blacklists \subseteq [Pairs -> Nat]

VARIABLES
    blocks,   \* user_blacklists: the rows of each pair; no index makes them unique
    call,     \* process: which call a request is, beside Follow and Unfollow
    step,     \* process: "second" with a read still to run, or how the call ended
    asked,    \* process: the two ids it carries
    answer,   \* process: the fields its reply has so far
    quiet     \* history: the requests whose reads all succeeded on the same rows

related == <<blocks, call, step, asked, answer, quiet>>
socialVars == <<vars, related>>

BlockCalls == {"block", "unblock", "isBlocked"}
Blank == [followers |-> 0, following |-> 0, yes |-> FALSE, shown |-> {}]

\* GetUsersByIDs: of two members, those who are users that are there.
Known(a, b) == {a, b} \cap (Users \ deleted)

Following(u) == Cardinality({e \in follows : e[1] = u})

SocialInit ==
    /\ Init
    /\ blocks \in Blacklists
    /\ call = [r \in Requests |-> "none"]
    /\ step = [r \in Requests |-> "none"]
    /\ asked = [r \in Requests |-> <<Zero, Zero>>]
    /\ answer = [r \in Requests |-> Blank]
    /\ quiet = {}

-----------------------------------------------------------------------------
\* A step of Follow, Unfollow or DeleteUser; rows that change disturb every read.
Relate ==
    /\ Next
    /\ \A r \in Requests : call[r] # "none" => pc'[r] = pc[r]
    /\ quiet' = IF follows' = follows /\ deleted' = deleted THEN quiet ELSE {}
    /\ UNCHANGED <<blocks, call, step, asked, answer>>

Arrive(r, c, p) ==
    /\ pc[r] = "idle" /\ call[r] = "none"
    /\ call' = [call EXCEPT ![r] = c]
    /\ asked' = [asked EXCEPT ![r] = p]

\* A write on the blacklist.
Ends(r, o) ==
    /\ step' = [step EXCEPT ![r] = IF Confirmed(o) THEN "answered" ELSE "refused"]
    /\ quiet' = IF Applied(o) THEN {} ELSE quiet
    /\ UNCHANGED <<vars, answer>>

\* A read: it fills `fields' of the reply, or fails.
Read(r, fields, to) ==
    /\ TRUE \in Answers
    /\ answer' = [answer EXCEPT ![r] = fields]
    /\ step' = [step EXCEPT ![r] = to]
    /\ UNCHANGED <<vars, blocks>>
FailRead(r, to) ==
    /\ FALSE \in Answers
    /\ step' = [step EXCEPT ![r] = to]
    /\ quiet' = quiet \ {r}
    /\ UNCHANGED <<vars, blocks, answer>>
FirstRead(r, fields, to) == Read(r, fields, to) /\ quiet' = quiet \cup {r}
NextRead(r, fields, to) == Read(r, fields, to) /\ UNCHANGED quiet

\* AddToBlacklist: INSERT of a row, another one where there is one.
Block(r, p) ==
    /\ Arrive(r, "block", p)
    /\ \E o \in Outcomes :
         /\ blocks' = IF Applied(o) THEN [blocks EXCEPT ![p] = @ + 1] ELSE blocks
         /\ Ends(r, o)

\* Mistake: DELETE ... LIMIT 1.
UnblockOnce(r, p) ==
    /\ Arrive(r, "unblock", p)
    /\ \E o \in Outcomes :
         /\ blocks' = IF Applied(o) /\ blocks[p] > 0 THEN [blocks EXCEPT ![p] = @ - 1] ELSE blocks
         /\ Ends(r, o)

\* RemoveFromBlacklist: DELETE of every row of the pair; none is no error.
Unblock(r, p) ==
    /\ Arrive(r, "unblock", p)
    /\ \E o \in Outcomes :
         /\ blocks' = IF Applied(o) THEN [blocks EXCEPT ![p] = 0] ELSE blocks
         /\ Ends(r, o)

IsInBlacklist(r, p) ==
    /\ Arrive(r, "isBlocked", p)
    /\ \/ FirstRead(r, [Blank EXCEPT !.yes = blocks[p] > 0], "answered")
       \/ FailRead(r, "refused")

GetFollowStatus(r, a, b) ==
    /\ Arrive(r, "status", <<a, b>>)
    /\ \/ FirstRead(r, [Blank EXCEPT !.yes = IsFollowing(a, b)], "answered")
       \/ FailRead(r, "refused")

\* Decorate answers with nothing on an error.
Decorate(r, a, b) ==
    /\ Arrive(r, "decorate", <<a, b>>)
    /\ \/ FirstRead(r, [Blank EXCEPT !.shown = Known(a, b)], "answered")
       \/ FailRead(r, "answered")

\* GetFollowStats: two counts; the reply has both or is an error.
GetFollowStats(r, u) ==
    /\ Arrive(r, "stats", <<u, u>>)
    /\ \/ FirstRead(r, [Blank EXCEPT !.followers = Followers(u)], "second")
       \/ FailRead(r, "refused")

CountFollowing(r) ==
    /\ call[r] = "stats" /\ step[r] = "second"
    /\ \/ NextRead(r, [answer[r] EXCEPT !.following = Following(asked[r][1])], "answered")
       \/ FailRead(r, "refused")
    /\ UNCHANGED <<call, asked>>

\* The reply to a Follow or an Unfollow that succeeded says whom the follower
\* follows, and then who follows the followed; 0 where a GetFollowStats fails.
ReplyFollowing(r) ==
    /\ pc[r] = "ok" /\ call[r] = "none"
    /\ call' = [call EXCEPT ![r] = "reply"]
    /\ asked' = [asked EXCEPT ![r] = edge[r]]
    /\ \/ FirstRead(r, [Blank EXCEPT !.following = Following(edge[r][1])], "second")
       \/ FailRead(r, "second")

\* Mistake: the counts of the follower once more.
ReplySameUser(r) ==
    /\ call[r] = "reply" /\ step[r] = "second"
    /\ \/ NextRead(r, [answer[r] EXCEPT !.followers = Followers(asked[r][1])], "answered")
       \/ FailRead(r, "answered")
    /\ UNCHANGED <<call, asked>>

ReplyFollowers(r) ==
    /\ call[r] = "reply" /\ step[r] = "second"
    /\ \/ NextRead(r, [answer[r] EXCEPT !.followers = Followers(asked[r][2])], "answered")
       \/ FailRead(r, "answered")
    /\ UNCHANGED <<call, asked>>

-----------------------------------------------------------------------------
Blacklist(r) == \E p \in Pairs : Block(r, p) \/ Unblock(r, p) \/ IsInBlacklist(r, p)
Question(r) ==
    \/ \E a, b \in Ids : GetFollowStatus(r, a, b) \/ Decorate(r, a, b)
    \/ \E u \in Ids : GetFollowStats(r, u)
    \/ CountFollowing(r) \/ ReplyFollowing(r) \/ ReplyFollowers(r)

SocialNext == Relate \/ \E r \in Requests : Blacklist(r) \/ Question(r)

SocialSpec == SocialInit /\ [][SocialNext]_socialVars

-----------------------------------------------------------------------------
Replies == [followers : Nat, following : Nat, yes : BOOLEAN, shown : SUBSET Users]

SocialTypeOK ==
    /\ TypeOK
    /\ blocks \in [Pairs -> Nat]
    /\ call \in [Requests -> {"none", "reply", "status", "stats", "decorate"} \cup BlockCalls]
    /\ step \in [Requests -> {"none", "second", "answered", "refused"}]
    /\ asked \in [Requests -> Ids \X Ids]
    /\ answer \in [Requests -> Replies]
    /\ quiet \subseteq Requests

\* The blacklist implements BlockSet although a pair may have many rows: blocking
\* twice is blocking once, and one removal undoes it, whatever fails or overlaps.
BlockReply(r) ==
    IF call[r] \notin BlockCalls THEN "none"
    ELSE IF step[r] = "refused" THEN "refused"
    ELSE IF call[r] = "block" THEN "blocked"
    ELSE IF call[r] = "unblock" THEN "unblocked"
    ELSE IF answer[r].yes THEN "yes" ELSE "no"
BlockWish(r) == IF call[r] \in BlockCalls THEN asked[r] ELSE <<Zero, Zero>>
B == INSTANCE BlockSet WITH blocked <- {p \in Pairs : blocks[p] > 0},
                            wish <- [r \in Requests |-> BlockWish(r)],
                            reply <- [r \in Requests |-> BlockReply(r)]
BlockSpec == B!Spec

\* A reply whose reads all succeeded while no row changed says what the tables say,
\* in every field it fills: a count taken in one statement belongs to the same
\* user, direction and moment as the count taken in the next.
AnswerIsExact(r) ==
    LET a == asked[r][1]  b == asked[r][2]
    IN  answer[r] =
          [followers |-> IF call[r] \in {"stats", "reply"} THEN Followers(b) ELSE 0,
           following |-> IF call[r] \in {"stats", "reply"} THEN Following(a) ELSE 0,
           yes       |-> \/ call[r] = "status" /\ IsFollowing(a, b)
                         \/ call[r] = "isBlocked" /\ blocks[<<a, b>>] > 0,
           shown     |-> IF call[r] = "decorate" THEN Known(a, b) ELSE {}]
QuietAnswersAreExact == \A r \in quiet : step[r] = "answered" => AnswerIsExact(r)

=============================================================================
