---------------------------- MODULE ServerProcess ----------------------------
(***************************************************************************)
(* The process of ServerLifecycle with the goroutines that run beside its  *)
(* servers: the metrics server, and one loop per ranking board that        *)
(* declares the board to the ranking service, retries a few times and      *)
(* gives up.  Nothing waits for them and no stop reaches them.             *)
(* (cmd/server/main.go:88-119, 131-134, 303-312, 386-418,                  *)
(* internal/client/ranking.go:13-59)                                       *)
(***************************************************************************)
EXTENDS ServerLifecycle

CONSTANTS
    Boards,      \* board:author:articles and board:user:fans
    MaxAttempts  \* declarations a loop tries; 5 in the code

ASSUME MaxAttemptsAssumption == MaxAttempts \in Nat \ {0}

VARIABLES
    metrics,    \* the goroutine of the metrics server
    announcer,  \* where the loop of each board is
    attempts,   \* declarations each loop has tried
    declared    \* ranking service: the boards this instance has declared

beside == <<metrics, announcer, attempts, declared>>
processVars == <<vars, beside>>

Settled == {"done", "gaveUp"}

ProcessInit ==
    /\ Init
    /\ metrics = "none"
    /\ announcer = [b \in Boards |-> "none"]
    /\ attempts = [b \in Boards |-> 0]
    /\ declared = {}

-----------------------------------------------------------------------------
\* run() starts the loops when it has built the server; Run starts the metrics
\* server if the configuration has one.
StartBeside ==
    /\ announcer' = IF main = "register" /\ main' = "serve"
                    THEN [b \in Boards |-> "try"] ELSE announcer
    /\ IF main = "serve" /\ main' = "notify" THEN metrics' \in {"none", "start"}
       ELSE UNCHANGED metrics
    /\ UNCHANGED <<attempts, declared>>

Lifecycle(A) == A /\ StartBeside

\* A metrics server that cannot listen is logged, and quitCh stays open.
RunMetrics ==
    /\ Running /\ metrics \in {"start", "serving"}
    /\ \/ metrics = "start" /\ metrics' = "serving"
       \/ metrics' = "failed"
    /\ UNCHANGED <<vars, announcer, attempts, declared>>

\* Mistake: an attempt that fails is not counted.
AnnounceUncounted(b) ==
    /\ Running /\ announcer[b] = "try"
    /\ \/ declared' = declared \cup {b} /\ announcer' = [announcer EXCEPT ![b] = "done"]
       \/ UNCHANGED declared /\ announcer' = [announcer EXCEPT ![b] = "sleep"]
    /\ UNCHANGED <<vars, metrics, attempts>>

\* One call of RegisterBoard; one that is reported as failed, or timed out after
\* three seconds, may have reached the ranking service.
Announce(b) ==
    /\ Running /\ announcer[b] = "try"
    /\ attempts' = [attempts EXCEPT ![b] = @ + 1]
    /\ \/ declared' = declared \cup {b} /\ announcer' = [announcer EXCEPT ![b] = "done"]
       \/ declared' \in {declared, declared \cup {b}}
          /\ announcer' = [announcer EXCEPT ![b] = "sleep"]
    /\ UNCHANGED <<vars, metrics>>

\* Mistake: the last attempt is not made.
WakeEarly(b) ==
    /\ Running /\ announcer[b] = "sleep"
    /\ announcer' = [announcer EXCEPT ![b] = IF attempts[b] + 1 < MaxAttempts THEN "try" ELSE "gaveUp"]
    /\ UNCHANGED <<vars, metrics, attempts, declared>>

\* Mistake: the attempts are counted from zero up to the limit included.
WakeOnceMore(b) ==
    /\ Running /\ announcer[b] = "sleep"
    /\ announcer' = [announcer EXCEPT ![b] = IF attempts[b] <= MaxAttempts THEN "try" ELSE "gaveUp"]
    /\ UNCHANGED <<vars, metrics, attempts, declared>>

\* The loop sleeps after its last attempt too.
Wake(b) ==
    /\ Running /\ announcer[b] = "sleep"
    /\ announcer' = [announcer EXCEPT ![b] = IF attempts[b] < MaxAttempts THEN "try" ELSE "gaveUp"]
    /\ UNCHANGED <<vars, metrics, attempts, declared>>

-----------------------------------------------------------------------------
AnnounceBoard(b) == Announce(b) \/ Wake(b)

ProcessNext == Lifecycle(Next) \/ RunMetrics \/ \E b \in Boards : AnnounceBoard(b)

ProcessFairness ==
    /\ WF_processVars(Lifecycle(Main))
    /\ WF_processVars(Lifecycle(EndCall))
    /\ \A b \in Boards : WF_processVars(AnnounceBoard(b))

ProcessSpec == ProcessInit /\ [][ProcessNext]_processVars /\ ProcessFairness

-----------------------------------------------------------------------------
BesideOK ==
    /\ metrics \in {"none", "start", "serving", "failed"}
    /\ announcer \in [Boards -> {"none", "try", "sleep"} \cup Settled]
    /\ attempts \in [Boards -> 0 .. MaxAttempts]
    /\ declared \subseteq Boards
ProcessTypeOK == TypeOK /\ BesideOK

\* A board is left undeclared by a loop that is over only when every one of the
\* attempts the code allows has failed, whichever order the loops, the servers
\* and the shutdown take.
UndeclaredOnlyAfterAllAttempts ==
    \A b \in Boards :
        announcer[b] \in Settled /\ b \notin declared => attempts[b] = MaxAttempts

\* A loop ends, with the board declared or given up, unless the process ends
\* first: it never retries for ever, and a ranking service that is down delays
\* neither the other loop nor the servers (see StopIsHeeded).
BoardsSettle ==
    \A b \in Boards : announcer[b] # "none" ~> announcer[b] \in Settled \/ ~Running

=============================================================================
