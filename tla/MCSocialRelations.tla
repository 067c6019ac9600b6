-------------------------- MODULE MCSocialRelations --------------------------
(* SocialRelations on small instances for TLC.                              *)
EXTENDS SocialRelations, TLC

CONSTANTS r1, r2, r3, u1, u2, x

Symmetry == Permutations(Requests) \cup Permutations(Users)

\* An empty blacklist, or one on which a user has blocked the other twice.
Nobody == [p \in Pairs |-> 0]
OldBlacklists == {Nobody, [Nobody EXCEPT ![<<u1, u2>>] = 2], [Nobody EXCEPT ![<<u2, u1>>] = 2]}

\* The blacklist shares no rows with the rest: a behaviour looks at one or the other.
InBlacklist == blocks # Nobody \/ \E r \in Requests : call[r] \in BlockCalls
InFollows ==
    \/ deleted # {}
    \/ \E r \in Requests : pc[r] # "idle" \/ call[r] \notin BlockCalls \cup {"none"}
OneTableAtATime == ~(InBlacklist /\ InFollows)

\* A stranger can do to users what a user can: where one turns up, only strangers act.
Names(p) == {p[1], p[2]}
Strange(p) == Names(p) \cap Strangers # {}
StrangersAmongThemselves ==
    \/ \A p \in follows \cup {edge[r] : r \in Requests} \cup {asked[r] : r \in Requests} : ~Strange(p)
    \/ /\ deleted = {}
       /\ \A p \in follows : Strange(p)
       /\ \A r \in Requests : \A p \in {edge[r], asked[r]} : Strange(p) \/ p = <<Zero, Zero>>
=============================================================================
