-------------------------- MODULE AccountDirectory --------------------------
(***************************************************************************)
(* What registration promises, however its many checks and stores behave:  *)
(* a user name and an email address each open one account at most, for     *)
(* ever, and success is answered only to a request whose account is there. *)
(* Registration.tla implements this specification.                         *)
(***************************************************************************)
CONSTANTS
    Requests,
    Usernames,
    Emails

VARIABLES
    accounts,   \* the accounts, each with the request that opened it
    answer      \* "none", "ok" or "refused", for each request

vars == <<accounts, answer>>

Unused(n, e) == \A a \in accounts : a.username # n /\ a.email # e

Init ==
    /\ \A a, b \in accounts : a.username = b.username \/ a.email = b.email => a = b
    /\ \A a \in accounts : a.by \notin Requests
    /\ answer = [r \in Requests |-> "none"]

\* The account opens; the client may be told of a failure all the same.
Open(r, n, e) ==
    /\ answer[r] = "none"
    /\ \A a \in accounts : a.by # r
    /\ Unused(n, e)
    /\ accounts' = accounts \cup {[by |-> r, username |-> n, email |-> e]}
    /\ answer' \in {answer, [answer EXCEPT ![r] = "refused"]}

Confirm(r) ==
    /\ answer[r] = "none"
    /\ \E a \in accounts : a.by = r
    /\ answer' = [answer EXCEPT ![r] = "ok"]
    /\ UNCHANGED accounts

\* Refusal is always allowed: it tells the client nothing about the account.
\* A crash refuses every request in progress at once.
Refuse(R) ==
    /\ \A r \in R : answer[r] = "none"
    /\ answer' = [r \in Requests |-> IF r \in R THEN "refused" ELSE answer[r]]
    /\ UNCHANGED accounts

Next ==
    \/ \E R \in SUBSET Requests : Refuse(R)
    \/ \E r \in Requests : Confirm(r)
    \/ \E r \in Requests, n \in Usernames, e \in Emails : Open(r, n, e)

Spec == Init /\ [][Next]_vars

=============================================================================
