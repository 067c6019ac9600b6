------------------------ MODULE SocialRelationsProofs ------------------------
(***************************************************************************)
(* Proofs about SocialRelations: it is a FollowGraph, so that what was     *)
(* proved of the graph holds of it; its type invariant; and that the       *)
(* blacklist, whose rows nothing keeps unique, implements BlockSet; and    *)
(* that an answer nobody wrote under says what the rows say.               *)
(***************************************************************************)
EXTENDS SocialRelations, FollowGraphProofs

\* The steps that read or write without moving the graph.
Aside == \E r \in Requests : Blacklist(r) \/ Question(r)

LEMMA AsideLeavesGraph == Aside => UNCHANGED vars
  BY DEF Aside, Blacklist, Block, Unblock, IsInBlacklist, Ends, Question, GetFollowStatus, IsFollowing,
         Decorate, GetFollowStats, CountFollowing, ReplyFollowing, ReplyFollowers, FirstRead,
         NextRead, Read, FailRead

\* Every step is a step of the graph, or leaves it alone.
LEMMA StepIsGraph == [SocialNext]_socialVars => [Next]_vars
  BY AsideLeavesGraph DEF SocialNext, socialVars, Relate, Aside

\* The replies and the blacklist do not disturb the follow graph: it still
\* implements the set of edges that FollowSet promises.
THEOREM SocialImplementsFollowSet == SocialSpec => FollowSpec
<1>1. SocialInit => TypeOK /\ F!Init
  BY InitTypes, InitImplements DEF SocialInit
<1>2. TypeOK /\ [SocialNext]_socialVars => TypeOK' /\ [F!Next]_(F!vars)
  BY StepIsGraph, NextTypes, NextImplements
<1>3. QED  BY <1>1, <1>2, PTL DEF SocialSpec, FollowSpec, F!Spec

\* Whatever is asked meanwhile, the board departs from the table by the pushes to
\* come and the drift only.
THEOREM SocialBoardCorrect == SocialSpec => []BoardFollowsTable
<1>1. SocialInit => TypeOK /\ BoardFollowsTable
  BY InitTypes, InitBalance DEF SocialInit
<1>2. TypeOK /\ BoardFollowsTable /\ [SocialNext]_socialVars => (TypeOK /\ BoardFollowsTable)'
  BY StepIsGraph, NextTypes, NextBalance
<1>3. QED  BY <1>1, <1>2, PTL DEF SocialSpec

\* The blacklist and the questions open no gap between board and table either.
THEOREM SocialGapCorrect == SocialSpec => GapHasACause
<1> DEFINE Caused ==
      \A u \in Users : Gap(u)' # Gap(u) =>
         \E r \in Requests : edge[r][2] = u /\
            (Repeats(r) \/ ComesLate(r) \/ (Faults /\ (LosesPush(r) \/ Misreported(r))))
<1>1. SocialInit => TypeOK
  BY InitTypes DEF SocialInit
<1>2. TypeOK /\ [SocialNext]_socialVars => TypeOK'
  BY StepIsGraph, NextTypes
<1>3. TypeOK /\ BoardFollowsTable /\ [SocialNext]_socialVars => [Caused]_vars
  BY StepIsGraph, GapStep DEF Cause
<1>4. QED
  BY <1>1, <1>2, <1>3, SocialBoardCorrect, PTL DEF SocialSpec, GapHasACause

-----------------------------------------------------------------------------
(* The type invariant. *)

Calls == {"none", "reply", "status", "stats", "decorate"} \cup BlockCalls
BlocksOK == blocks \in [Pairs -> Nat]
CallOK == call \in [Requests -> Calls]
StepOK == step \in [Requests -> {"none", "second", "answered", "refused"}]
AskedOK == asked \in [Requests -> Ids \X Ids]
AnswerOK == answer \in [Requests -> Replies]
QuietOK == quiet \subseteq Requests

LEMMA TypeParts ==
  SocialTypeOK <=> TypeOK /\ BlocksOK /\ CallOK /\ StepOK /\ AskedOK /\ AnswerOK /\ QuietOK
  BY DEF SocialTypeOK, BlocksOK, CallOK, Calls, StepOK, AskedOK, AnswerOK, QuietOK

LEMMA InitSocialTypes == SocialInit => SocialTypeOK
<1> SUFFICES ASSUME SocialInit PROVE SocialTypeOK
  OBVIOUS
<1>1. TypeOK
  BY InitTypes DEF SocialInit
<1>2. BlocksOK
  BY BlacklistsAssumption DEF SocialInit, BlocksOK
<1>3. CallOK /\ StepOK /\ AskedOK /\ QuietOK
  BY DEF SocialInit, CallOK, Calls, StepOK, AskedOK, QuietOK, Ids
<1>4. AnswerOK
  BY DEF SocialInit, AnswerOK, Blank, Replies
<1>5. QED  BY <1>1, <1>2, <1>3, <1>4, TypeParts

LEMMA NextBlocks == BlocksOK /\ [SocialNext]_socialVars => BlocksOK'
<1> SUFFICES ASSUME BlocksOK, [SocialNext]_socialVars PROVE BlocksOK'
  OBVIOUS
<1>1. ASSUME NEW r \in Requests, NEW p \in Pairs, Block(r, p) PROVE BlocksOK'
  <2>1. PICK o \in Outcomes :
          blocks' = IF Applied(o) THEN [blocks EXCEPT ![p] = blocks[p] + 1] ELSE blocks
    BY <1>1 DEF Block
  <2>2. QED  BY <2>1 DEF BlocksOK
<1>2. ASSUME NEW r \in Requests, NEW p \in Pairs, Unblock(r, p) PROVE BlocksOK'
  <2>1. PICK o \in Outcomes :
          blocks' = IF Applied(o) THEN [blocks EXCEPT ![p] = 0] ELSE blocks
    BY <1>2 DEF Unblock
  <2>2. QED  BY <2>1 DEF BlocksOK
<1>3. ASSUME NEW r \in Requests, NEW p \in Pairs, IsInBlacklist(r, p) PROVE BlocksOK'
  BY <1>3 DEF BlocksOK, IsInBlacklist, FirstRead, Read, FailRead
<1>4. ASSUME NEW r \in Requests, Question(r) PROVE BlocksOK'
  BY <1>4 DEF BlocksOK, Question, GetFollowStatus, IsFollowing, Decorate, GetFollowStats, CountFollowing,
         ReplyFollowing, ReplyFollowers, FirstRead, NextRead, Read, FailRead
<1>5. CASE Relate \/ UNCHANGED socialVars
  BY <1>5 DEF BlocksOK, Relate, socialVars, related
<1>6. QED  BY <1>1, <1>2, <1>3, <1>4, <1>5 DEF SocialNext, Blacklist

LEMMA IdsAreKept == ASSUME TypeOK, NEW r \in Requests PROVE edge[r] \in Ids \X Ids
  BY DEF TypeOK

\* One step changes the call, the ids and the step of one request at most.
LEMMA NextCalls == TypeOK /\ CallOK /\ StepOK /\ AskedOK /\ [SocialNext]_socialVars
                   => CallOK' /\ StepOK' /\ AskedOK'
<1> SUFFICES ASSUME TypeOK, CallOK, StepOK, AskedOK, [SocialNext]_socialVars
             PROVE  CallOK' /\ StepOK' /\ AskedOK'
  OBVIOUS
<1> USE DEF CallOK, Calls, BlockCalls, StepOK, AskedOK
<1>1. ASSUME NEW r \in Requests, NEW p \in Pairs,
             Block(r, p) \/ Unblock(r, p) \/ IsInBlacklist(r, p)
      PROVE  CallOK' /\ StepOK' /\ AskedOK'
  <2>1. p \in Ids \X Ids
    BY DEF Pairs, Ids, Named
  <2>2. QED
    BY <1>1, <2>1 DEF Block, Unblock, IsInBlacklist, Arrive, Ends, FirstRead, Read, FailRead
<1>2. ASSUME NEW r \in Requests, NEW a \in Ids, NEW b \in Ids,
             GetFollowStatus(r, a, b) \/ Decorate(r, a, b) \/ GetFollowStats(r, a)
      PROVE  CallOK' /\ StepOK' /\ AskedOK'
  <2>1. \E c \in {"status", "decorate", "stats"}, p \in Ids \X Ids,
           s \in {"second", "answered", "refused"} :
          Arrive(r, c, p) /\ step' = [step EXCEPT ![r] = s]
    <3>1. <<a, b>> \in Ids \X Ids /\ <<a, a>> \in Ids \X Ids
      OBVIOUS
    <3>2. CASE GetFollowStatus(r, a, b)
      BY <3>1, <3>2, Zenon DEF GetFollowStatus, IsFollowing, FirstRead, Read, FailRead
    <3>3. CASE Decorate(r, a, b)
      BY <3>1, <3>3, Zenon DEF Decorate, FirstRead, Read, FailRead
    <3>4. CASE GetFollowStats(r, a)
      BY <3>1, <3>4, Zenon DEF GetFollowStats, FirstRead, Read, FailRead
    <3>5. QED  BY <1>2, <3>2, <3>3, <3>4
  <2>2. QED  BY <2>1 DEF Arrive
<1>3. ASSUME NEW r \in Requests, CountFollowing(r) \/ ReplyFollowers(r)
      PROVE  CallOK' /\ StepOK' /\ AskedOK'
  BY <1>3 DEF CountFollowing, ReplyFollowers, NextRead, Read, FailRead
<1>4. ASSUME NEW r \in Requests, ReplyFollowing(r) PROVE CallOK' /\ StepOK' /\ AskedOK'
  <2>1. edge[r] \in Ids \X Ids
    BY IdsAreKept
  <2>2. /\ call' = [call EXCEPT ![r] = "reply"]
        /\ asked' = [asked EXCEPT ![r] = edge[r]]
        /\ step' = [step EXCEPT ![r] = "second"]
    BY <1>4 DEF ReplyFollowing, FirstRead, Read, FailRead
  <2>3. QED  BY <2>1, <2>2
<1>5. CASE Relate \/ UNCHANGED socialVars
  BY <1>5 DEF Relate, socialVars, related
<1>6. QED  BY <1>1, <1>2, <1>3, <1>4, <1>5 DEF SocialNext, Blacklist, Question

LEMMA FollowingIsNat ==
  ASSUME follows \subseteq Named \X Users, NEW u
  PROVE  Following(u) \in Nat
<1>1. IsFiniteSet(Named \X Users)
  BY FiniteAssumption, FS_Union, FS_Product DEF Named
<1>2. IsFiniteSet({e \in follows : e[1] = u})
  BY <1>1, FS_Subset
<1>3. QED
  BY <1>2, FS_CardinalityType DEF Following

LEMMA YesIsTyped == \A y \in BOOLEAN : [Blank EXCEPT !.yes = y] \in Replies
  BY DEF Blank, Replies

LEMMA NextAnswers == TypeOK /\ AnswerOK /\ [SocialNext]_socialVars => AnswerOK'
<1> SUFFICES ASSUME TypeOK, AnswerOK, [SocialNext]_socialVars PROVE AnswerOK'
  OBVIOUS
<1>1. \A u : Followers(u) \in Nat /\ Following(u) \in Nat
  BY FansAreFinite, FollowingIsNat DEF TypeOK
<1>2. ASSUME NEW r \in Requests, NEW f \in Replies, answer' = [answer EXCEPT ![r] = f]
      PROVE  AnswerOK'
  BY <1>2 DEF AnswerOK
<1>3. ASSUME NEW r \in Requests, NEW p \in Pairs,
             Block(r, p) \/ Unblock(r, p) \/ IsInBlacklist(r, p)
      PROVE  AnswerOK'
  <2>1. [Blank EXCEPT !.yes = blocks[p] > 0] \in Replies
    <3>1. (blocks[p] > 0) \in BOOLEAN
      OBVIOUS
    <3>2. QED  BY <3>1, YesIsTyped, Zenon
  <2>2. answer' = answer \/ answer' = [answer EXCEPT ![r] = [Blank EXCEPT !.yes = blocks[p] > 0]]
    BY <1>3 DEF Block, Unblock, IsInBlacklist, Ends, FirstRead, Read, FailRead
  <2>3. QED  BY <1>2, <2>1, <2>2 DEF AnswerOK
<1>4. ASSUME NEW r \in Requests, NEW a \in Ids, NEW b \in Ids,
             GetFollowStatus(r, a, b) \/ Decorate(r, a, b) \/ GetFollowStats(r, a)
      PROVE  AnswerOK'
  <2>1. [Blank EXCEPT !.yes = <<a, b>> \in follows] \in Replies
    <3>1. (<<a, b>> \in follows) \in BOOLEAN
      OBVIOUS
    <3>2. QED  BY <3>1, YesIsTyped, Zenon
  <2>2. [Blank EXCEPT !.shown = Known(a, b)] \in Replies
    BY DEF Blank, Replies, Known
  <2>3. [Blank EXCEPT !.followers = Followers(a)] \in Replies
    BY <1>1 DEF Blank, Replies
  <2>4. \/ answer' = answer
        \/ answer' = [answer EXCEPT ![r] = [Blank EXCEPT !.yes = <<a, b>> \in follows]]
        \/ answer' = [answer EXCEPT ![r] = [Blank EXCEPT !.shown = Known(a, b)]]
        \/ answer' = [answer EXCEPT ![r] = [Blank EXCEPT !.followers = Followers(a)]]
    BY <1>4 DEF GetFollowStatus, IsFollowing, Decorate, GetFollowStats, FirstRead, Read, FailRead
  <2>5. QED  BY <1>2, <2>1, <2>2, <2>3, <2>4 DEF AnswerOK
<1>5. ASSUME NEW r \in Requests, CountFollowing(r) \/ ReplyFollowing(r) \/ ReplyFollowers(r)
      PROVE  AnswerOK'
  <2>1. answer[r] \in Replies
    BY DEF AnswerOK
  <2>2. \A u : [answer[r] EXCEPT !.following = Following(u)] \in Replies
    BY <1>1, <2>1 DEF Replies
  <2>3. \A u : [answer[r] EXCEPT !.followers = Followers(u)] \in Replies
    BY <1>1, <2>1 DEF Replies
  <2>4. \A u : [Blank EXCEPT !.following = Following(u)] \in Replies
    BY <1>1 DEF Blank, Replies
  <2>5. CASE CountFollowing(r)
    BY <1>2, <2>2, <2>5 DEF CountFollowing, NextRead, Read, FailRead, AnswerOK
  <2>6. CASE ReplyFollowing(r)
    BY <1>2, <2>4, <2>6 DEF ReplyFollowing, FirstRead, Read, FailRead, AnswerOK
  <2>7. CASE ReplyFollowers(r)
    BY <1>2, <2>3, <2>7 DEF ReplyFollowers, NextRead, Read, FailRead, AnswerOK
  <2>8. QED  BY <1>5, <2>5, <2>6, <2>7
<1>6. CASE Relate \/ UNCHANGED socialVars
  BY <1>6 DEF AnswerOK, Relate, socialVars, related
<1>7. QED  BY <1>3, <1>4, <1>5, <1>6 DEF SocialNext, Blacklist, Question

LEMMA NextQuiet == QuietOK /\ [SocialNext]_socialVars => QuietOK'
  BY DEF QuietOK, SocialNext, socialVars, related, Relate, Blacklist, Block, Unblock, IsInBlacklist,
         Ends, Question, GetFollowStatus, IsFollowing, Decorate, GetFollowStats, CountFollowing, ReplyFollowing,
         ReplyFollowers, FirstRead, NextRead, Read, FailRead

LEMMA NextSocialTypes == SocialTypeOK /\ [SocialNext]_socialVars => SocialTypeOK'
<1> SUFFICES ASSUME SocialTypeOK, [SocialNext]_socialVars PROVE SocialTypeOK'
  OBVIOUS
<1>1. TypeOK /\ BlocksOK /\ CallOK /\ StepOK /\ AskedOK /\ AnswerOK /\ QuietOK
  BY TypeParts
<1>2. TypeOK'
  BY <1>1, StepIsGraph, NextTypes
<1>3. BlocksOK' /\ CallOK' /\ StepOK' /\ AskedOK' /\ AnswerOK' /\ QuietOK'
  BY <1>1, NextBlocks, NextCalls, NextAnswers, NextQuiet
<1>4. QED
  BY <1>2, <1>3 DEF SocialTypeOK, BlocksOK, CallOK, Calls, StepOK, AskedOK, AnswerOK, QuietOK

\* Every variable keeps its type, the counts of the replies included.
THEOREM SocialTypeCorrect == SocialSpec => []SocialTypeOK
<1>1. QED  BY InitSocialTypes, NextSocialTypes, PTL DEF SocialSpec

-----------------------------------------------------------------------------
(* The blacklist implements BlockSet. *)

Blocked == {p \in Pairs : blocks[p] > 0}
BlockReplies == [r \in Requests |-> BlockReply(r)]
BlockWishes == [r \in Requests |-> BlockWish(r)]

Others(r) == Requests \ {r}
OneMoves(r) == \A s \in Others(r) : /\ call'[s] = call[s] /\ step'[s] = step[s]
                                    /\ asked'[s] = asked[s] /\ answer'[s] = answer[s]

LEMMA OthersStay ==
  ASSUME NEW r \in Requests, OneMoves(r)
  PROVE  /\ BlockReplies' = [BlockReplies EXCEPT ![r] = BlockReply(r)']
         /\ BlockWishes' = [BlockWishes EXCEPT ![r] = BlockWish(r)']
<1>1. \A s \in Others(r) : BlockReply(s)' = BlockReply(s) /\ BlockWish(s)' = BlockWish(s)
  BY DEF OneMoves, BlockReply, BlockWish
<1>2. QED  BY <1>1 DEF Others, BlockReplies, BlockWishes

LEMMA InitBlocks == SocialInit => B!Init
  BY DEF SocialInit, B!Init, BlockReply, BlockCalls

\* A write on the rows of one pair, with the reply it leads to.
LEMMA WriteMoves ==
  ASSUME SocialTypeOK, NEW r \in Requests, NEW p \in Pairs, NEW o \in Outcomes,
         NEW c \in {"block", "unblock"}, Arrive(r, c, p), Ends(r, o)
  PROVE  /\ BlockReplies[r] = "none"
         /\ BlockReplies' = [BlockReplies EXCEPT ![r] = IF ~Confirmed(o) THEN "refused"
                                                        ELSE IF c = "block" THEN "blocked" ELSE "unblocked"]
         /\ BlockWishes' = [BlockWishes EXCEPT ![r] = p]
<1>1. CallOK /\ StepOK /\ AskedOK
  BY TypeParts
<1>2. OneMoves(r)
  BY <1>1 DEF OneMoves, Others, Arrive, Ends, CallOK, StepOK, AskedOK
<1>3. call'[r] = c /\ asked'[r] = p
  BY <1>1 DEF Arrive, CallOK, AskedOK
<1>4. step'[r] = IF Confirmed(o) THEN "answered" ELSE "refused"
  BY <1>1 DEF Ends, StepOK
<1>5. BlockWish(r)' = p
  BY <1>3 DEF BlockWish, BlockCalls
<1>6. BlockReply(r)' = IF ~Confirmed(o) THEN "refused"
                       ELSE IF c = "block" THEN "blocked" ELSE "unblocked"
  BY <1>3, <1>4 DEF BlockReply, BlockCalls
<1>7. BlockReplies[r] = "none"
  BY DEF BlockReplies, BlockReply, Arrive, BlockCalls
<1>8. QED  BY <1>2, <1>5, <1>6, <1>7, OthersStay

LEMMA BlockImplements ==
  ASSUME SocialTypeOK, NEW r \in Requests, NEW p \in Pairs, Block(r, p)
  PROVE  B!Next
<1>1. PICK o \in Outcomes :
        /\ Arrive(r, "block", p) /\ Ends(r, o)
        /\ blocks' = IF Applied(o) THEN [blocks EXCEPT ![p] = blocks[p] + 1] ELSE blocks
  BY DEF Block
<1>2. /\ BlockReplies[r] = "none"
      /\ BlockReplies' = [BlockReplies EXCEPT ![r] = IF Confirmed(o) THEN "blocked" ELSE "refused"]
      /\ BlockWishes' = [BlockWishes EXCEPT ![r] = p]
  BY <1>1, WriteMoves
<1>3. CASE Applied(o)
  <2>1. blocks \in [Pairs -> Nat] /\ blocks' = [blocks EXCEPT ![p] = blocks[p] + 1]
    BY <1>1, <1>3, TypeParts DEF BlocksOK
  <2>2. Blocked' = Blocked \cup {p}
    BY <2>1 DEF Blocked
  <2>3. B!Block(r, p)
    BY <1>2, <2>2 DEF B!Block, B!Reply, BlockReplies, BlockWishes, Blocked
  <2>4. QED  BY <2>3 DEF B!Next
<1>4. CASE ~Applied(o)
  <2>1. Blocked' = Blocked /\ ~Confirmed(o)
    BY <1>1, <1>4 DEF Blocked, Applied, Confirmed
  <2>2. B!Fail(r, p)
    BY <1>2, <2>1 DEF B!Fail, B!Reply, BlockReplies, BlockWishes, Blocked
  <2>3. QED  BY <2>2 DEF B!Next
<1>5. QED  BY <1>3, <1>4

LEMMA UnblockImplements ==
  ASSUME SocialTypeOK, NEW r \in Requests, NEW p \in Pairs, Unblock(r, p)
  PROVE  B!Next
<1>1. PICK o \in Outcomes :
        /\ Arrive(r, "unblock", p) /\ Ends(r, o)
        /\ blocks' = IF Applied(o) THEN [blocks EXCEPT ![p] = 0] ELSE blocks
  BY DEF Unblock
<1>2. /\ BlockReplies[r] = "none"
      /\ BlockReplies' = [BlockReplies EXCEPT ![r] = IF Confirmed(o) THEN "unblocked" ELSE "refused"]
      /\ BlockWishes' = [BlockWishes EXCEPT ![r] = p]
  BY <1>1, WriteMoves
<1>3. CASE Applied(o)
  <2>1. blocks \in [Pairs -> Nat] /\ blocks' = [blocks EXCEPT ![p] = 0]
    BY <1>1, <1>3, TypeParts DEF BlocksOK
  <2>2. Blocked' = Blocked \ {p}
    BY <2>1 DEF Blocked
  <2>3. B!Unblock(r, p)
    BY <1>2, <2>2 DEF B!Unblock, B!Reply, BlockReplies, BlockWishes, Blocked
  <2>4. QED  BY <2>3 DEF B!Next
<1>4. CASE ~Applied(o)
  <2>1. Blocked' = Blocked /\ ~Confirmed(o)
    BY <1>1, <1>4 DEF Blocked, Applied, Confirmed
  <2>2. B!Fail(r, p)
    BY <1>2, <2>1 DEF B!Fail, B!Reply, BlockReplies, BlockWishes, Blocked
  <2>3. QED  BY <2>2 DEF B!Next
<1>5. QED  BY <1>3, <1>4

LEMMA AskImplements ==
  ASSUME SocialTypeOK, NEW r \in Requests, NEW p \in Pairs, IsInBlacklist(r, p)
  PROVE  B!Next
<1>1. CallOK /\ StepOK /\ AskedOK /\ AnswerOK
  BY TypeParts
<1>2. call'[r] = "isBlocked" /\ asked'[r] = p /\ call[r] = "none"
  BY <1>1 DEF IsInBlacklist, Arrive, CallOK, AskedOK
<1>3. OneMoves(r) /\ UNCHANGED blocks
  BY <1>1 DEF IsInBlacklist, Arrive, FirstRead, Read, FailRead, OneMoves, Others, CallOK,
              StepOK, AskedOK, AnswerOK
<1>4. BlockReplies[r] = "none" /\ BlockWish(r)' = p
  BY <1>2 DEF BlockReplies, BlockReply, BlockWish, BlockCalls
<1>5. Blocked' = Blocked /\ (p \in Blocked <=> blocks[p] > 0)
  BY <1>3 DEF Blocked
<1>6. CASE step'[r] = "refused"
  <2>1. BlockReply(r)' = "refused"
    BY <1>2, <1>6 DEF BlockReply, BlockCalls
  <2>2. B!Fail(r, p)
    BY <1>3, <1>4, <1>5, <2>1, OthersStay DEF B!Fail, B!Reply, BlockReplies, BlockWishes, Blocked
  <2>3. QED  BY <2>2 DEF B!Next
<1>7. CASE step'[r] # "refused"
  <2>1. step'[r] = "answered" /\ answer'[r] = [Blank EXCEPT !.yes = blocks[p] > 0]
    BY <1>1, <1>7 DEF IsInBlacklist, FirstRead, Read, FailRead, StepOK, AnswerOK
  <2>2. answer'[r].yes <=> p \in Blocked
    BY <2>1, <1>5 DEF Blank
  <2>3. BlockReply(r)' = IF p \in Blocked THEN "yes" ELSE "no"
    BY <1>2, <2>1, <2>2 DEF BlockReply, BlockCalls
  <2>4. B!Ask(r, p)
    BY <1>3, <1>4, <1>5, <2>3, OthersStay DEF B!Ask, B!Reply, BlockReplies, BlockWishes, Blocked
  <2>5. QED  BY <2>4 DEF B!Next
<1>8. QED  BY <1>6, <1>7

NoBlacklist(r) == OneMoves(r) /\ call[r] \notin BlockCalls /\ call'[r] \notin BlockCalls

LEMMA QuestionImplements ==
  ASSUME SocialTypeOK, NEW r \in Requests, Question(r)
  PROVE  UNCHANGED B!vars
<1>1. CallOK /\ StepOK /\ AskedOK /\ AnswerOK
  BY TypeParts
<1> USE DEF CallOK, StepOK, AskedOK, AnswerOK
<1>2. UNCHANGED blocks
  BY DEF Question, GetFollowStatus, IsFollowing, Decorate, GetFollowStats, CountFollowing, ReplyFollowing,
         ReplyFollowers, FirstRead, NextRead, Read, FailRead
<1>3. NoBlacklist(r)
  <2>1. ASSUME NEW a \in Ids, NEW b \in Ids, GetFollowStatus(r, a, b) \/ Decorate(r, a, b)
        PROVE  NoBlacklist(r)
    BY <1>1, <2>1 DEF NoBlacklist, OneMoves, Others, GetFollowStatus, IsFollowing, Decorate, Arrive, FirstRead, Read,
                      FailRead, BlockCalls
  <2>2. ASSUME NEW u \in Ids, GetFollowStats(r, u) PROVE NoBlacklist(r)
    BY <1>1, <2>2 DEF NoBlacklist, OneMoves, Others, GetFollowStats, Arrive, FirstRead, Read, FailRead, BlockCalls
  <2>3. CASE CountFollowing(r) \/ ReplyFollowers(r)
    BY <1>1, <2>3 DEF NoBlacklist, OneMoves, Others, CountFollowing, ReplyFollowers, NextRead, Read, FailRead,
                      BlockCalls
  <2>4. CASE ReplyFollowing(r)
    BY <1>1, <2>4 DEF NoBlacklist, OneMoves, Others, ReplyFollowing, FirstRead, Read, FailRead, BlockCalls
  <2>5. QED  BY <2>1, <2>2, <2>3, <2>4 DEF Question
<1>4. BlockReply(r)' = BlockReplies[r] /\ BlockWish(r)' = BlockWishes[r]
  BY <1>3 DEF NoBlacklist, BlockReplies, BlockWishes, BlockReply, BlockWish
<1>5. BlockReplies' = BlockReplies /\ BlockWishes' = BlockWishes
  BY <1>3, <1>4, OthersStay DEF NoBlacklist, BlockReplies, BlockWishes
<1>6. QED  BY <1>2, <1>5 DEF B!vars, BlockReplies, BlockWishes

LEMMA NextImplementsBlocks == SocialTypeOK /\ [SocialNext]_socialVars => [B!Next]_(B!vars)
<1> SUFFICES ASSUME SocialTypeOK, [SocialNext]_socialVars PROVE [B!Next]_(B!vars)
  OBVIOUS
<1>1. CASE Relate \/ UNCHANGED socialVars
  <2>1. UNCHANGED <<blocks, call, step, asked, answer>>
    BY <1>1 DEF Relate, socialVars, related
  <2>2. QED  BY <2>1 DEF B!vars, BlockReply, BlockWish
<1>2. QED
  BY <1>1, BlockImplements, UnblockImplements, AskImplements, QuestionImplements
  DEF SocialNext, Blacklist

\* A table in which a pair may have any number of rows keeps the promise of a set
\* of pairs: blocking twice is blocking once, and one removal undoes it.
THEOREM BlacklistImplementsBlockSet == SocialSpec => BlockSpec
<1>1. QED
  BY InitBlocks, InitSocialTypes, NextSocialTypes, NextImplementsBlocks, PTL
  DEF SocialSpec, BlockSpec, B!Spec

-----------------------------------------------------------------------------
(* What a reply says. *)

\* The field a reply of two counts has after the first of them.
HalfAnswer(r) ==
    IF call[r] = "stats" THEN [Blank EXCEPT !.followers = Followers(asked[r][2])]
    ELSE [Blank EXCEPT !.following = Following(asked[r][1])]

\* What a request that has read quiet rows holds, at whichever step it is.
QuietOf(r) ==
    /\ call[r] \notin {"none", "block", "unblock"}
    /\ step[r] \in {"second", "answered"}
    /\ call[r] = "stats" => asked[r][1] = asked[r][2]
    /\ step[r] = "second" => call[r] \in {"stats", "reply"} /\ answer[r] = HalfAnswer(r)
    /\ step[r] = "answered" => AnswerIsExact(r)
QuietInv == \A r \in quiet : QuietOf(r)

LEMMA QuietInit == SocialInit => QuietInv
  BY DEF SocialInit, QuietInv

\* A reply that is left alone stays as true as the rows stay the same.
LEMMA QuietStays ==
  ASSUME NEW r, QuietOf(r), UNCHANGED <<follows, deleted, blocks>>,
         call'[r] = call[r], step'[r] = step[r], asked'[r] = asked[r], answer'[r] = answer[r]
  PROVE  QuietOf(r)'
  BY DEF QuietOf, HalfAnswer, AnswerIsExact, IsFollowing, Followers, Following, Known

\* A read of one request leaves the other requests' replies alone.
LEMMA QuietRead ==
  ASSUME QuietInv, QuietOK, NEW r \in Requests, UNCHANGED <<follows, deleted, blocks>>,
         \A q \in Requests \ {r} : /\ call'[q] = call[q] /\ step'[q] = step[q]
                                   /\ asked'[q] = asked[q] /\ answer'[q] = answer[q],
         quiet' \subseteq quiet \cup {r},
         r \in quiet' => QuietOf(r)'
  PROVE  QuietInv'
<1> SUFFICES ASSUME NEW q \in quiet' PROVE QuietOf(q)'
  BY DEF QuietInv
<1>1. CASE q = r
  BY <1>1
<1>2. CASE q # r
  BY <1>2, QuietStays DEF QuietInv, QuietOK
<1>3. QED  BY <1>1, <1>2

\* A write on the blacklist has no reply that could be wrong, and disturbs all others.
LEMMA QuietWrite ==
  ASSUME SocialTypeOK, QuietInv, NEW r \in Requests, NEW p \in Pairs, Block(r, p) \/ Unblock(r, p)
  PROVE  QuietInv'
<1>1. r \notin quiet
  BY DEF QuietInv, QuietOf, Block, Unblock, Arrive
<1>2. PICK o \in Outcomes : Ends(r, o) /\ (~Applied(o) => blocks' = blocks)
  BY DEF Block, Unblock
<1>3. CASE Applied(o)
  BY <1>2, <1>3 DEF Ends, QuietInv
<1>4. CASE ~Applied(o)
  <2>1. UNCHANGED <<follows, deleted, blocks>> /\ quiet' = quiet
    BY <1>2, <1>4 DEF Ends, vars
  <2>2. \A q \in Requests \ {r} : /\ call'[q] = call[q] /\ step'[q] = step[q]
                                  /\ asked'[q] = asked[q] /\ answer'[q] = answer[q]
    BY <1>2 DEF Block, Unblock, Arrive, Ends, SocialTypeOK
  <2>3. QED  BY <1>1, <2>1, <2>2, QuietRead, TypeParts
<1>5. QED  BY <1>3, <1>4

\* A reply of one field.
LEMMA ReplyOfYes ==
  \A y \in BOOLEAN :
      [Blank EXCEPT !.yes = y] = [followers |-> 0, following |-> 0, yes |-> y, shown |-> {}]
  BY DEF Blank

LEMMA ReplyOfShown ==
  \A s : [Blank EXCEPT !.shown = s] = [followers |-> 0, following |-> 0, yes |-> FALSE, shown |-> s]
<1>1. \A e, f, s : e = [followers |-> 0, following |-> 0, yes |-> f, shown |-> {}]
        => [e EXCEPT !.shown = s] = [followers |-> 0, following |-> 0, yes |-> f, shown |-> s]
  OBVIOUS
<1>2. Blank = [followers |-> 0, following |-> 0, yes |-> FALSE, shown |-> {}]
  BY DEF Blank
<1>3. QED  BY <1>1, <1>2, Zenon

LEMMA BoolEq == ASSUME NEW P \in BOOLEAN, NEW Q \in BOOLEAN, P <=> Q PROVE P = Q
  OBVIOUS

\* AnswerIsExact for the calls of one statement that answer yes or no.
YesIs(r) ==
    \/ call[r] = "status" /\ <<asked[r][1], asked[r][2]>> \in follows
    \/ call[r] = "isBlocked" /\ blocks[<<asked[r][1], asked[r][2]>>] > 0

LEMMA YesExactNext ==
  ASSUME NEW r, call'[r] \in {"status", "isBlocked"},
         answer'[r] = [followers |-> 0, following |-> 0, yes |-> YesIs(r)', shown |-> {}]
  PROVE  AnswerIsExact(r)'
<1>1. call'[r] \notin {"stats", "reply"} /\ call'[r] # "decorate"
  OBVIOUS
<1>2. QED
  BY <1>1, Zenon DEF AnswerIsExact, IsFollowing, YesIs

\* The one statement of a call of one statement fills the reply as it should be.
LEMMA QuietAsk ==
  ASSUME SocialTypeOK, QuietInv, NEW r \in Requests, NEW a \in Ids, NEW b \in Ids,
         \/ <<a, b>> \in Pairs /\ IsInBlacklist(r, <<a, b>>)
         \/ GetFollowStatus(r, a, b)
         \/ Decorate(r, a, b)
  PROVE  QuietInv'
<1>1. r \notin quiet
  BY DEF QuietInv, QuietOf, IsInBlacklist, GetFollowStatus, IsFollowing, Decorate, Arrive
<1>2. UNCHANGED <<follows, deleted, blocks>>
  BY DEF IsInBlacklist, GetFollowStatus, IsFollowing, Decorate, FirstRead, Read, FailRead, vars
<1>3. \A q \in Requests \ {r} : /\ call'[q] = call[q] /\ step'[q] = step[q]
                                /\ asked'[q] = asked[q] /\ answer'[q] = answer[q]
  BY DEF IsInBlacklist, GetFollowStatus, IsFollowing, Decorate, Arrive, FirstRead, Read, FailRead, SocialTypeOK
<1>4. quiet' \subseteq quiet \cup {r}
  BY DEF IsInBlacklist, GetFollowStatus, IsFollowing, Decorate, FirstRead, FailRead
<1>5. asked'[r] = <<a, b>> /\ (r \in quiet' => step'[r] = "answered")
  BY <1>1 DEF IsInBlacklist, GetFollowStatus, IsFollowing, Decorate, Arrive, FirstRead, Read, FailRead, SocialTypeOK
<1>6. ASSUME r \in quiet', IsInBlacklist(r, <<a, b>>) PROVE QuietOf(r)'
  <2>1. call'[r] = "isBlocked" /\ answer'[r] = [Blank EXCEPT !.yes = blocks[<<a, b>>] > 0]
    BY <1>1, <1>6 DEF IsInBlacklist, Arrive, FirstRead, Read, FailRead, SocialTypeOK
  <2>2. answer'[r] = [followers |-> 0, following |-> 0, yes |-> blocks[<<a, b>>] > 0, shown |-> {}]
    BY <2>1, ReplyOfYes, Zenon
  <2>3. YesIs(r)' = (blocks[<<a, b>>] > 0)
    <3>1. YesIs(r)' <=> (blocks[<<a, b>>] > 0)
      BY <1>2, <1>5, <2>1 DEF YesIs
    <3>2. YesIs(r)' \in BOOLEAN /\ (blocks[<<a, b>>] > 0) \in BOOLEAN
      BY DEF YesIs
    <3>3. QED  BY <3>1, <3>2, BoolEq, Zenon
  <2>4. answer'[r] = [followers |-> 0, following |-> 0, yes |-> YesIs(r)', shown |-> {}]
    BY <2>2, <2>3, Zenon
  <2>5. AnswerIsExact(r)'
    BY <2>1, <2>4, YesExactNext
  <2>6. QED  BY <1>5, <1>6, <2>1, <2>5 DEF QuietOf
<1>7. ASSUME r \in quiet', GetFollowStatus(r, a, b) PROVE QuietOf(r)'
  <2>1. call'[r] = "status" /\ answer'[r] = [Blank EXCEPT !.yes = <<a, b>> \in follows]
    BY <1>1, <1>7 DEF GetFollowStatus, IsFollowing, Arrive, FirstRead, Read, FailRead, SocialTypeOK
  <2>2. answer'[r] = [followers |-> 0, following |-> 0, yes |-> <<a, b>> \in follows, shown |-> {}]
    BY <2>1, ReplyOfYes, Zenon
  <2>3. YesIs(r)' = (<<a, b>> \in follows)
    <3>1. YesIs(r)' <=> (<<a, b>> \in follows)
      BY <1>2, <1>5, <2>1 DEF YesIs
    <3>2. YesIs(r)' \in BOOLEAN /\ (<<a, b>> \in follows) \in BOOLEAN
      BY DEF YesIs
    <3>3. QED  BY <3>1, <3>2, BoolEq, Zenon
  <2>4. answer'[r] = [followers |-> 0, following |-> 0, yes |-> YesIs(r)', shown |-> {}]
    BY <2>2, <2>3, Zenon
  <2>5. AnswerIsExact(r)'
    BY <2>1, <2>4, YesExactNext
  <2>6. QED  BY <1>5, <1>7, <2>1, <2>5 DEF QuietOf
<1>8. ASSUME r \in quiet', Decorate(r, a, b) PROVE QuietOf(r)'
  <2>1. call'[r] = "decorate" /\ answer'[r] = [Blank EXCEPT !.shown = Known(a, b)]
    BY <1>1, <1>8 DEF Decorate, Arrive, FirstRead, Read, FailRead, SocialTypeOK
  <2>2. answer'[r] = [followers |-> 0, following |-> 0, yes |-> FALSE, shown |-> Known(a, b)]
    BY <2>1, ReplyOfShown, Zenon
  <2>3. AnswerIsExact(r)'
    BY <1>2, <1>5, <2>1, <2>2 DEF AnswerIsExact, IsFollowing, Known
  <2>4. QED  BY <1>5, <1>8, <2>1, <2>3 DEF QuietOf
<1>9. QED  BY <1>2, <1>3, <1>4, <1>6, <1>7, <1>8, QuietRead, TypeParts

\* The first count of a reply of two.
LEMMA QuietFirst ==
  ASSUME SocialTypeOK, QuietInv, NEW r \in Requests,
         ReplyFollowing(r) \/ \E u \in Ids : GetFollowStats(r, u)
  PROVE  QuietInv'
<1>1. r \notin quiet
  BY DEF QuietInv, QuietOf, ReplyFollowing, GetFollowStats, Arrive
<1>2. UNCHANGED <<follows, deleted, blocks>>
  BY DEF ReplyFollowing, GetFollowStats, FirstRead, Read, FailRead, vars
<1>3. \A q \in Requests \ {r} : /\ call'[q] = call[q] /\ step'[q] = step[q]
                                /\ asked'[q] = asked[q] /\ answer'[q] = answer[q]
  BY DEF ReplyFollowing, GetFollowStats, Arrive, FirstRead, Read, FailRead, SocialTypeOK
<1>4. quiet' \subseteq quiet \cup {r}
  BY DEF ReplyFollowing, GetFollowStats, FirstRead, FailRead
<1>5. ASSUME r \in quiet' PROVE QuietOf(r)'
  <2>1. CASE ReplyFollowing(r)
    <3>1. /\ call'[r] = "reply" /\ asked'[r] = edge[r] /\ step'[r] = "second"
          /\ answer'[r] = [Blank EXCEPT !.following = Following(edge[r][1])]
      BY <1>1, <1>5, <2>1 DEF ReplyFollowing, FirstRead, Read, FailRead, SocialTypeOK
    <3>2. Following(asked[r][1])' = Following(edge[r][1])
      BY <1>2, <3>1 DEF Following
    <3>3. QED  BY <3>1, <3>2 DEF QuietOf, HalfAnswer
  <2>2. ASSUME NEW u \in Ids, GetFollowStats(r, u) PROVE QuietOf(r)'
    <3>1. /\ call'[r] = "stats" /\ asked'[r] = <<u, u>> /\ step'[r] = "second"
          /\ answer'[r] = [Blank EXCEPT !.followers = Followers(u)]
      BY <1>1, <1>5, <2>2 DEF GetFollowStats, Arrive, FirstRead, Read, FailRead, SocialTypeOK
    <3>2. Followers(asked[r][2])' = Followers(u)
      BY <1>2, <3>1 DEF Followers
    <3>3. QED  BY <3>1, <3>2 DEF QuietOf, HalfAnswer
  <2>3. QED  BY <2>1, <2>2
<1>6. QED  BY <1>2, <1>3, <1>4, <1>5, QuietRead, TypeParts

\* The second count completes the reply.
LEMMA QuietSecond ==
  ASSUME SocialTypeOK, QuietInv, NEW r \in Requests, CountFollowing(r) \/ ReplyFollowers(r)
  PROVE  QuietInv'
<1>1. UNCHANGED <<follows, deleted, blocks, call, asked>>
  BY DEF CountFollowing, ReplyFollowers, NextRead, Read, FailRead, vars
<1>2. \A q \in Requests \ {r} : step'[q] = step[q] /\ answer'[q] = answer[q]
  BY DEF CountFollowing, ReplyFollowers, NextRead, Read, FailRead, SocialTypeOK
<1>3. quiet' \subseteq quiet
  BY DEF CountFollowing, ReplyFollowers, NextRead, FailRead
<1>4. ASSUME r \in quiet' PROVE QuietOf(r)'
  <2>1. QuietOf(r) /\ step[r] = "second" /\ step'[r] = "answered"
    BY <1>3, <1>4 DEF QuietInv, CountFollowing, ReplyFollowers, NextRead, Read, FailRead, SocialTypeOK
  <2>2. \/ /\ call[r] = "stats"
           /\ answer'[r] = [HalfAnswer(r) EXCEPT !.following = Following(asked[r][1])]
        \/ /\ call[r] = "reply"
           /\ answer'[r] = [HalfAnswer(r) EXCEPT !.followers = Followers(asked[r][2])]
    BY <1>4, <2>1 DEF QuietOf, CountFollowing, ReplyFollowers, NextRead, Read, FailRead, SocialTypeOK
  <2>3. answer'[r] = [followers |-> Followers(asked[r][2]), following |-> Following(asked[r][1]),
                      yes |-> FALSE, shown |-> {}]
    BY <2>2 DEF HalfAnswer, Blank
  <2>4. AnswerIsExact(r)'
    BY <1>1, <2>2, <2>3 DEF AnswerIsExact, IsFollowing, Followers, Following
  <2>5. QED  BY <1>1, <2>1, <2>2, <2>4 DEF QuietOf
<1>5. QED  BY <1>1, <1>2, <1>3, <1>4, QuietRead, TypeParts

LEMMA NextQuietInv == SocialTypeOK /\ QuietInv /\ [SocialNext]_socialVars => QuietInv'
<1> SUFFICES ASSUME SocialTypeOK, QuietInv, [SocialNext]_socialVars PROVE QuietInv'
  OBVIOUS
<1>1. ASSUME NEW r \in Requests, Blacklist(r) PROVE QuietInv'
  <2>1. PICK p \in Pairs : Block(r, p) \/ Unblock(r, p) \/ IsInBlacklist(r, p)
    BY <1>1 DEF Blacklist
  <2>2. PICK a \in Ids, b \in Ids : p = <<a, b>>
    BY DEF Pairs, Ids, Named
  <2>3. QED  BY <2>1, <2>2, QuietWrite, QuietAsk
<1>2. ASSUME NEW r \in Requests, Question(r) PROVE QuietInv'
  BY <1>2, QuietAsk, QuietFirst, QuietSecond DEF Question
<1>3. CASE Relate
  <2>1. CASE UNCHANGED <<follows, deleted>>
    BY <1>3, <2>1, QuietStays DEF QuietInv, Relate
  <2>2. CASE ~(UNCHANGED <<follows, deleted>>)
    BY <1>3, <2>2 DEF QuietInv, Relate
  <2>3. QED  BY <2>1, <2>2
<1>4. CASE UNCHANGED socialVars
  BY <1>4, QuietStays DEF QuietInv, socialVars, related, vars
<1>5. QED  BY <1>1, <1>2, <1>3, <1>4 DEF SocialNext

\* A reply whose statements all succeeded on the same rows says what the rows say,
\* although each of its counts was read by a statement of its own.
\* (internal/handler/v1/follow_handler.go, internal/service/follow_service.go:55-71)
THEOREM QuietAnswersCorrect == SocialSpec => []QuietAnswersAreExact
<1>1. QuietInv => QuietAnswersAreExact
  BY DEF QuietInv, QuietOf, QuietAnswersAreExact
<1>2. QED
  BY <1>1, QuietInit, NextQuietInv, SocialTypeCorrect, PTL DEF SocialSpec

=============================================================================
