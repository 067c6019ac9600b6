--------------------------- MODULE ServerLifecycle ---------------------------
(***************************************************************************)
(* The process from main() to its end: start-up, the goroutines of the     *)
(* probe (HTTP) and gRPC servers, the wait for a signal or for a server    *)
(* that fails, and the release of what was opened.                         *)
(* (cmd/server/main.go:53-159, 193-301, 314-468)                           *)
(*                                                                         *)
(* net/http and grpc-go are modelled by what main.go relies on.  The       *)
(* metrics server and the loops that declare boards to the ranking         *)
(* service are added by ServerProcess.                                     *)
(***************************************************************************)
EXTENDS Integers

CONSTANT MaxCalls   \* bounds the RPCs in progress at once

ASSUME MaxCallsAssumption == MaxCalls \in Nat

VARIABLES
    main,       \* where the main goroutine is
    opened,     \* what releaseInfra has to release
    consul,     \* Consul: this instance's registration
    http,       \* the goroutine of the probe server
    grpc,       \* the goroutine of the gRPC server
    stopping,   \* the servers told to stop
    quitClosed, \* quitCh is closed
    notified,   \* Run has asked for SIGINT and SIGTERM
    signalled,  \* one of them has been sent
    calls,      \* RPCs in progress
    exit        \* how the process ended

vars == <<main, opened, consul, http, grpc, stopping, quitClosed, notified, signalled, calls, exit>>
signals == <<notified, signalled>>
servers == <<http, grpc, quitClosed, calls>>

Running == exit = "none"

\* An HTTP server exists from NewServer's assignment on; so does a gRPC server.
HasHTTP == http \notin {"none", "start"}
HasGRPC == grpc \notin {"none", "start", "listening", "refused"}

Init ==
    /\ main = "config"
    /\ opened = {}
    /\ consul = "absent"
    /\ http = "none"
    /\ grpc = "none"
    /\ stopping = {}
    /\ quitClosed = FALSE
    /\ notified = FALSE
    /\ signalled = FALSE
    /\ calls = 0
    /\ exit = "none"

\* releaseInfra: everything that is open, nothing else.
ReleaseInfra == opened' = {}

\* A panic outside the main goroutine, or a signal nobody asked for, ends the
\* process at once.
Killed == exit' = "killed"

-----------------------------------------------------------------------------
\* run(): each step may fail and then leaves the release to main's defer.
LoadConfig ==
    /\ Running /\ main = "config"
    /\ \/ main' = "failed" /\ UNCHANGED opened
       \/ main' = "database" /\ opened' = {"metrics", "hotConfig"}
    /\ UNCHANGED <<consul, servers, stopping, signals, exit>>

InitDatabase ==
    /\ Running /\ main = "database"
    /\ \/ main' = "failed" /\ UNCHANGED opened
       \/ main' = "redis" /\ opened' = opened \cup {"database"}
    /\ UNCHANGED <<consul, servers, stopping, signals, exit>>

InitRedis ==
    /\ Running /\ main = "redis"
    /\ \/ main' = "failed" /\ UNCHANGED opened
       \/ main' = "register" /\ opened' = opened \cup {"redis"}
    /\ UNCHANGED <<consul, servers, stopping, signals, exit>>

\* A registration reported as failed may have reached Consul.
RegisterToConsul ==
    /\ Running /\ main = "register"
    /\ \/ main' = "failed" /\ consul' \in {"absent", "registered"}
       \/ main' = "serve" /\ consul' = "registered"
    /\ UNCHANGED <<opened, servers, stopping, signals, exit>>

\* Run starts the two goroutines, and asks for the signals after that.
Serve ==
    /\ Running /\ main = "serve"
    /\ main' = "notify"
    /\ http' = "start"
    /\ grpc' = "start"
    /\ UNCHANGED <<opened, consul, stopping, quitClosed, signals, calls, exit>>

Notify ==
    /\ Running /\ main = "notify"
    /\ main' = "select"
    /\ notified' = TRUE
    /\ UNCHANGED <<opened, consul, servers, stopping, signalled, exit>>

\* A signal: the default action unless Run has asked for it, so also while main
\* unwinds after a start-up that failed.
Signal ==
    /\ Running /\ ~signalled
    /\ signalled' = TRUE
    /\ IF notified THEN UNCHANGED exit ELSE Killed
    /\ UNCHANGED <<main, opened, consul, servers, stopping, notified>>

\* The select of Run.
Awake ==
    /\ Running /\ main = "select"
    /\ signalled \/ quitClosed
    /\ main' = "stopHTTP"
    /\ UNCHANGED <<opened, consul, servers, stopping, signals, exit>>

\* Shutdown of a server that is not there yet panics; main recovers.
ShutdownHTTP ==
    /\ Running /\ main = "stopHTTP"
    /\ IF HasHTTP THEN main' = "stopGRPC" /\ stopping' = stopping \cup {"http"}
       ELSE main' = "failed" /\ UNCHANGED stopping
    /\ UNCHANGED <<opened, consul, servers, signals, exit>>

StopGRPC ==
    /\ Running /\ main = "stopGRPC"
    /\ IF HasGRPC THEN main' = "drain" /\ stopping' = stopping \cup {"grpc"}
       ELSE main' = "failed" /\ UNCHANGED stopping
    /\ UNCHANGED <<opened, consul, servers, signals, exit>>

\* Mistake: Stop instead of GracefulStop.
DrainNothing ==
    /\ Running /\ main = "drain"
    /\ main' = "deregister"
    /\ UNCHANGED <<opened, consul, servers, stopping, signals, exit>>

\* GracefulStop returns when the last RPC has.
DrainGRPC ==
    /\ Running /\ main = "drain"
    /\ calls = 0
    /\ main' = "deregister"
    /\ UNCHANGED <<opened, consul, servers, stopping, signals, exit>>

\* Mistake: an error of Consul ends the shutdown.
DeregisterOrFail ==
    /\ Running /\ main = "deregister"
    /\ \/ consul' = "absent" /\ main' = "release" /\ UNCHANGED exit
       \/ UNCHANGED <<consul, main>> /\ exit' = "failed"
    /\ UNCHANGED <<opened, servers, stopping, signals>>

\* shutdown(): an error of Consul is logged.
Deregister ==
    /\ Running /\ main = "deregister"
    /\ consul' \in {"absent", "stuck"}
    /\ main' = "release"
    /\ UNCHANGED <<opened, servers, stopping, signals, exit>>

Release ==
    /\ Running /\ main = "release"
    /\ ReleaseInfra
    /\ main' = "returned"
    /\ UNCHANGED <<consul, servers, stopping, signals, exit>>

\* main's deferred function runs, on every path, and releases once more.
Unwind ==
    /\ Running /\ main \in {"returned", "failed"}
    /\ ReleaseInfra
    /\ main' = IF main = "failed" THEN "exitFailed" ELSE "exitOk"
    /\ UNCHANGED <<consul, servers, stopping, signals, exit>>

Exit ==
    /\ Running /\ main \in {"exitOk", "exitFailed"}
    /\ exit' = IF main = "exitOk" THEN "ok" ELSE "failed"
    /\ UNCHANGED <<main, opened, consul, servers, stopping, signals>>

-----------------------------------------------------------------------------
\* Mistake: log.Fatalf, which exits at once.
FatalError == quitClosed' = TRUE /\ Killed

\* close(quitCh) panics when the other server has closed it before.
CloseQuit ==
    /\ quitClosed' = TRUE
    /\ IF quitClosed THEN Killed ELSE UNCHANGED exit

\* runHTTPServer.
NewHTTP ==
    /\ Running /\ http = "start"
    /\ http' = "made"
    /\ UNCHANGED <<main, opened, consul, grpc, stopping, quitClosed, signals, calls, exit>>

\* Mistake: the failure is logged and nothing else.
FailHTTPSilently ==
    /\ Running /\ http \in {"made", "serving"} /\ "http" \notin stopping
    /\ http' = "failed"
    /\ UNCHANGED <<main, opened, consul, grpc, stopping, quitClosed, signals, calls, exit>>

\* ListenAndServe returns an error, at once or later.
FailHTTP ==
    /\ Running /\ http \in {"made", "serving"} /\ "http" \notin stopping
    /\ http' = "failed"
    /\ CloseQuit
    /\ UNCHANGED <<main, opened, consul, grpc, stopping, signals, calls>>

ServeHTTP ==
    /\ Running /\ http = "made" /\ "http" \notin stopping
    /\ http' = "serving"
    /\ UNCHANGED <<main, opened, consul, grpc, stopping, quitClosed, signals, calls, exit>>

\* ListenAndServe returns ErrServerClosed, which is no failure.
ReturnHTTP ==
    /\ Running /\ http \in {"made", "serving"} /\ "http" \in stopping
    /\ http' = "done"
    /\ UNCHANGED <<main, opened, consul, grpc, stopping, quitClosed, signals, calls, exit>>

\* runGRPCServer: it listens before there is a server.
ListenGRPC ==
    /\ Running /\ grpc = "start"
    /\ \/ grpc' = "listening" /\ UNCHANGED <<quitClosed, exit>>
       \/ grpc' = "refused" /\ CloseQuit
    /\ UNCHANGED <<main, opened, consul, http, stopping, signals, calls>>

NewGRPC ==
    /\ Running /\ grpc = "listening"
    /\ grpc' = "made"
    /\ UNCHANGED <<main, opened, consul, http, stopping, quitClosed, signals, calls, exit>>

\* Serve on a server that was told to stop returns ErrServerStopped at once.
ServeGRPC ==
    /\ Running /\ grpc = "made"
    /\ \/ "grpc" \notin stopping /\ grpc' = "serving" /\ UNCHANGED <<quitClosed, exit>>
       \/ "grpc" \in stopping /\ grpc' = "failed" /\ CloseQuit
    /\ UNCHANGED <<main, opened, consul, http, stopping, signals, calls>>

\* The listener breaks; the connections it accepted live on.
FailGRPC ==
    /\ Running /\ grpc = "serving" /\ "grpc" \notin stopping
    /\ grpc' = "failed"
    /\ CloseQuit
    /\ UNCHANGED <<main, opened, consul, http, stopping, signals, calls>>

ReturnGRPC ==
    /\ Running /\ grpc = "serving" /\ "grpc" \in stopping /\ calls = 0
    /\ grpc' = "done"
    /\ UNCHANGED <<main, opened, consul, http, stopping, quitClosed, signals, calls, exit>>

\* Mistake: a server that is told to stop takes new RPCs while it waits for the old.
BeginCallAnyTime ==
    /\ Running /\ grpc \in {"serving", "failed"}
    /\ calls < MaxCalls
    /\ calls' = calls + 1
    /\ UNCHANGED <<main, opened, consul, http, grpc, stopping, quitClosed, signals, exit>>

BeginCall ==
    /\ Running /\ grpc \in {"serving", "failed"} /\ "grpc" \notin stopping
    /\ calls < MaxCalls
    /\ calls' = calls + 1
    /\ UNCHANGED <<main, opened, consul, http, grpc, stopping, quitClosed, signals, exit>>

EndCall ==
    /\ Running /\ calls > 0
    /\ calls' = calls - 1
    /\ UNCHANGED <<main, opened, consul, http, grpc, stopping, quitClosed, signals, exit>>

-----------------------------------------------------------------------------
Main ==
    \/ LoadConfig \/ InitDatabase \/ InitRedis \/ RegisterToConsul \/ Serve
    \/ Notify \/ Awake \/ ShutdownHTTP \/ StopGRPC \/ DrainGRPC \/ Deregister
    \/ Release \/ Unwind \/ Exit

HTTPServer == NewHTTP \/ FailHTTP \/ ServeHTTP \/ ReturnHTTP
GRPCServer == ListenGRPC \/ NewGRPC \/ ServeGRPC \/ FailGRPC \/ ReturnGRPC

Next == Main \/ Signal \/ HTTPServer \/ GRPCServer \/ BeginCall \/ EndCall

\* The goroutines are scheduled, and RPCs end: the interceptor that guards every
\* one of them gives it a deadline.
Fairness == WF_vars(Main) /\ WF_vars(EndCall)

Spec == Init /\ [][Next]_vars /\ Fairness

-----------------------------------------------------------------------------
PlacesOK ==
    /\ main \in {"config", "database", "redis", "register", "serve", "notify", "select",
                 "stopHTTP", "stopGRPC", "drain", "deregister", "release", "returned",
                 "failed", "exitOk", "exitFailed"}
    /\ consul \in {"absent", "registered", "stuck"}
    /\ http \in {"none", "start", "made", "serving", "failed", "done"}
    /\ grpc \in {"none", "start", "listening", "refused", "made", "serving", "failed", "done"}
    /\ exit \in {"none", "ok", "failed", "killed"}
SetsOK ==
    /\ opened \subseteq {"metrics", "hotConfig", "database", "redis"}
    /\ stopping \subseteq {"http", "grpc"}
FlagsOK == quitClosed \in BOOLEAN /\ notified \in BOOLEAN /\ signalled \in BOOLEAN
CallsOK == calls \in 0 .. MaxCalls
TypeOK == PlacesOK /\ SetsOK /\ FlagsOK /\ CallsOK

\* A process that ends by itself has released all it opened, whatever failed on
\* the way; one that ends well has also left Consul, or tried to, and answered
\* every RPC.
NothingLeaks ==
    /\ exit \in {"ok", "failed"} => opened = {}
    /\ exit = "ok" => consul # "registered" /\ calls = 0

\* No RPC runs on a closed database, except where the shutdown itself panics.
DatabaseOutlivesCalls == calls > 0 /\ "database" \notin opened => main \in {"failed", "exitFailed"}

\* Only two things kill the process before it has released what it opened: a signal
\* that Run has not asked for, which it never does when the start-up fails, and the
\* failure of both servers, whenever it comes.  One server that fails does not.
BothFailed == http = "failed" /\ grpc \in {"refused", "failed"}
OneFailureIsSurvived == exit = "killed" => (signalled /\ ~notified) \/ BothFailed

\* What main has left to do at most, in steps: its places up to the end, and the RPCs
\* whose end it waits for in GracefulStop.
StepsAhead ==
    [config |-> 15, database |-> 14, redis |-> 13, register |-> 12, serve |-> 11,
     notify |-> 10, select |-> 9, stopHTTP |-> 8, stopGRPC |-> 7, drain |-> 6,
     deregister |-> 5, release |-> 4, returned |-> 3, failed |-> 3, exitOk |-> 2, exitFailed |-> 2]
Awaited == IF main = "drain" THEN calls ELSE IF StepsAhead[main] > 6 THEN MaxCalls ELSE 0
StepsLeft == IF Running THEN StepsAhead[main] + Awaited ELSE 0

\* Main and the RPCs it waits for get on with every step, and no server, signal or
\* client sets them back: GracefulStop is waiting for RPCs that were there before it,
\* and its wait is not prolonged by those that clients would like to begin.
StopGetsOn ==
    [][/\ StepsLeft' \in 0 .. StepsLeft
       /\ Main \/ (main = "drain" /\ EndCall) => StepsLeft' < StepsLeft]_vars

\* A signal, or a server that fails, ends the process, however many RPCs are in
\* progress and whichever servers have started by then.
StopIsHeeded == signalled \/ http = "failed" \/ grpc \in {"refused", "failed"} ~> ~Running

-----------------------------------------------------------------------------
\* README.md:1362: a server that cannot listen makes Run take the normal
\* shutdown() path.  (Here: one of the two, and no signal besides.)
ListenFailureShutsDown ==
    ~Running /\ ~signalled /\ (http = "failed" \/ grpc = "refused")
    /\ ~BothFailed
    => exit = "ok"

=============================================================================
