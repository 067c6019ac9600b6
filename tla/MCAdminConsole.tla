--------------------------- MODULE MCAdminConsole ----------------------------
(* AdminConsole on small instances for TLC.                                 *)
EXTENDS AdminConsole, TLC

CONSTANTS r1, r2, u1, u2

Symmetry == Permutations(Requests) \cup Permutations(Users)

\* The clock, the trail and the listings share little: a behaviour looks at one of
\* them.  The trail is walked while the roles stand still, one call at a time.
\* Against the clock, a demotion stands for a deletion too: it can do all a deletion
\* can, and be undone; and no more than three tokens are handed out.
OnTrail == log # {} \/ walk # "none"
OneTopic ==
    /\ now > 0 => /\ ~OnTrail /\ ~list.open /\ \A u \in Users : Present(u)
                  /\ Cardinality(tokens) <= 3
    /\ OnTrail => /\ ~list.open
                  /\ role = [u \in Users |-> RoleAdmin]
                  /\ tokens = [user : Users, exp : {Expire}]
                  /\ Cardinality({r \in Requests : Calling(r)}) <= 1
                  /\ \A r \in Requests : job[r] # "write" /\ (Calling(r) /\ log # {} => Active(r))
    /\ list.open => /\ Cardinality(tokens) <= 1
                    /\ \A r \in Requests : call[r].what # "login" /\ job[r] # "done"
=============================================================================
