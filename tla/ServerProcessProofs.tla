------------------------- MODULE ServerProcessProofs -------------------------
(***************************************************************************)
(* Proofs about ServerLifecycle: what the end of the process leaves        *)
(* behind, and which failures it survives, for any number of RPCs; and     *)
(* about ServerProcess: it is a ServerLifecycle, so that what was proved   *)
(* of the life cycle holds of it, and its loops make every attempt.        *)
(***************************************************************************)
EXTENDS ServerProcess, TLAPS


\* The actions, but for those that only move a server along.
ServerSteps == HTTPServer \/ GRPCServer
CallSteps == BeginCall \/ EndCall

LEMMA InitTypes == Init => TypeOK
<1>1. Init => PlacesOK /\ SetsOK /\ FlagsOK
  BY DEF Init, PlacesOK, SetsOK, FlagsOK
<1>2. Init => CallsOK
  BY MaxCallsAssumption DEF Init, CallsOK
<1>3. QED  BY <1>1, <1>2 DEF TypeOK

LEMMA NextPlaces == PlacesOK /\ [Next]_vars => PlacesOK'
<1> SUFFICES ASSUME PlacesOK, [Next]_vars PROVE PlacesOK'
  OBVIOUS
<1> USE DEF PlacesOK, servers, signals, Killed, CloseQuit
<1>1. CASE LoadConfig \/ InitDatabase \/ InitRedis \/ RegisterToConsul \/ Serve \/ Notify
  BY <1>1 DEF LoadConfig, InitDatabase, InitRedis, RegisterToConsul, Serve, Notify
<1>2. CASE Awake \/ ShutdownHTTP \/ StopGRPC \/ DrainGRPC \/ Deregister
  BY <1>2 DEF Awake, ShutdownHTTP, StopGRPC, DrainGRPC, Deregister
<1>3. CASE Release \/ Unwind \/ Exit \/ Signal
  BY <1>3 DEF Release, Unwind, Exit, ReleaseInfra, Signal
<1>4. CASE HTTPServer
  BY <1>4 DEF HTTPServer, NewHTTP, FailHTTP, ServeHTTP, ReturnHTTP
<1>5. CASE GRPCServer
  BY <1>5 DEF GRPCServer, ListenGRPC, NewGRPC, ServeGRPC, FailGRPC, ReturnGRPC
<1>6. CASE BeginCall \/ EndCall
  BY <1>6 DEF BeginCall, EndCall
<1>7. CASE UNCHANGED vars
  BY <1>7 DEF vars
<1>8. QED  BY <1>1, <1>2, <1>3, <1>4, <1>5, <1>6, <1>7 DEF Next, Main

LEMMA NextSets == SetsOK /\ [Next]_vars => SetsOK'
<1> SUFFICES ASSUME SetsOK, [Next]_vars PROVE SetsOK'
  OBVIOUS
<1> USE DEF SetsOK, servers, signals, Killed, CloseQuit
<1>1. CASE LoadConfig \/ InitDatabase \/ InitRedis \/ RegisterToConsul \/ Serve \/ Notify
  BY <1>1 DEF LoadConfig, InitDatabase, InitRedis, RegisterToConsul, Serve, Notify
<1>2. CASE Awake \/ ShutdownHTTP \/ StopGRPC \/ DrainGRPC \/ Deregister
  BY <1>2 DEF Awake, ShutdownHTTP, StopGRPC, DrainGRPC, Deregister
<1>3. CASE Release \/ Unwind \/ Exit \/ Signal
  BY <1>3 DEF Release, Unwind, Exit, ReleaseInfra, Signal
<1>4. CASE HTTPServer
  BY <1>4 DEF HTTPServer, NewHTTP, FailHTTP, ServeHTTP, ReturnHTTP
<1>5. CASE GRPCServer
  BY <1>5 DEF GRPCServer, ListenGRPC, NewGRPC, ServeGRPC, FailGRPC, ReturnGRPC
<1>6. CASE BeginCall \/ EndCall
  BY <1>6 DEF BeginCall, EndCall
<1>7. CASE UNCHANGED vars
  BY <1>7 DEF vars
<1>8. QED  BY <1>1, <1>2, <1>3, <1>4, <1>5, <1>6, <1>7 DEF Next, Main

LEMMA NextFlags == FlagsOK /\ [Next]_vars => FlagsOK'
  BY DEF FlagsOK, Next, Main, LoadConfig, InitDatabase, InitRedis, RegisterToConsul, Serve,
         Notify, Awake, ShutdownHTTP, StopGRPC, DrainGRPC, Deregister, Release, Unwind, Exit,
         Signal, HTTPServer, NewHTTP, FailHTTP, ServeHTTP, ReturnHTTP, GRPCServer, ListenGRPC,
         NewGRPC, ServeGRPC, FailGRPC, ReturnGRPC, CloseQuit, BeginCall, EndCall, servers, signals, vars

LEMMA NextCalls == CallsOK /\ [Next]_vars => CallsOK'
<1>1. CallsOK /\ CallSteps => CallsOK'
  BY MaxCallsAssumption DEF CallsOK, CallSteps, BeginCall, EndCall
<1>2. [Next]_vars /\ ~CallSteps => UNCHANGED calls
  BY DEF CallSteps, Next, Main, LoadConfig, InitDatabase, InitRedis, RegisterToConsul, Serve,
         Notify, Awake, ShutdownHTTP, StopGRPC, DrainGRPC, Deregister, Release, Unwind, Exit,
         Signal, HTTPServer, NewHTTP, FailHTTP, ServeHTTP, ReturnHTTP, GRPCServer, ListenGRPC,
         NewGRPC, ServeGRPC, FailGRPC, ReturnGRPC, servers, signals, vars
<1>3. QED  BY <1>1, <1>2 DEF CallsOK

LEMMA NextTypes == TypeOK /\ [Next]_vars => TypeOK'
  BY NextPlaces, NextSets, NextFlags, NextCalls DEF TypeOK

\* Every variable keeps its type; the count of RPCs stays within its bounds.
THEOREM TypeCorrect == Spec => []TypeOK
<1>1. QED  BY InitTypes, NextTypes, PTL DEF Spec

-----------------------------------------------------------------------------
(* What the end of the process leaves behind. *)

Starting == main \in {"config", "database", "redis", "register", "serve"}
Drained == main \in {"deregister", "release", "returned", "exitOk"}

\* An RPC needs a server, which is made after the database was opened; once the
\* servers have drained no RPC starts; the resources go after that, or after a panic.
ReleaseInv ==
    /\ Starting => grpc = "none" /\ calls = 0
    /\ Drained => calls = 0 /\ "grpc" \in stopping
    /\ main = "drain" => "grpc" \in stopping
    /\ main \in {"release", "returned", "exitOk"} => consul # "registered"
    /\ main \in {"redis", "register", "serve", "notify", "select", "stopHTTP", "stopGRPC",
                 "drain", "deregister"} => "database" \in opened
    /\ main \in {"exitOk", "exitFailed"} => opened = {}
    /\ exit = "ok" => main = "exitOk"
    /\ exit = "failed" => main = "exitFailed"

LEMMA InitReleases == Init => ReleaseInv
  BY DEF Init, ReleaseInv, Starting, Drained

LEMMA MainReleases == TypeOK /\ ReleaseInv /\ Main => ReleaseInv'
<1> SUFFICES ASSUME TypeOK, ReleaseInv, Main PROVE ReleaseInv'
  OBVIOUS
<1> USE DEF ReleaseInv, Starting, Drained, servers, signals, Running
<1>1. CASE LoadConfig \/ InitDatabase \/ InitRedis \/ RegisterToConsul \/ Serve \/ Notify
  BY <1>1 DEF LoadConfig, InitDatabase, InitRedis, RegisterToConsul, Serve, Notify
<1>2. CASE Awake \/ ShutdownHTTP \/ StopGRPC \/ DrainGRPC \/ Deregister
  BY <1>2 DEF Awake, ShutdownHTTP, StopGRPC, DrainGRPC, Deregister
<1>3. CASE Release \/ Unwind \/ Exit
  BY <1>3 DEF Release, Unwind, Exit, ReleaseInfra
<1>4. QED  BY <1>1, <1>2, <1>3 DEF Main

LEMMA ServerReleases == TypeOK /\ ReleaseInv /\ ServerSteps => ReleaseInv'
  BY DEF ReleaseInv, Starting, Drained, ServerSteps, HTTPServer, GRPCServer, NewHTTP, FailHTTP,
         ServeHTTP, ReturnHTTP, ListenGRPC, NewGRPC, ServeGRPC, FailGRPC, ReturnGRPC,
         CloseQuit, Killed, Running

\* Where there are RPCs main is neither starting nor done, so one more or less is
\* no matter.
LEMMA CallReleases == TypeOK /\ ReleaseInv /\ CallSteps => ReleaseInv'
<1> SUFFICES ASSUME TypeOK, ReleaseInv, CallSteps PROVE ReleaseInv'
  OBVIOUS
<1>1. UNCHANGED <<main, opened, consul, http, grpc, stopping, quitClosed, signalled, exit>>
  BY DEF CallSteps, BeginCall, EndCall, signals
<1>2. ~Starting /\ ~Drained
  <2>1. BeginCall => grpc # "none" /\ "grpc" \notin stopping
    BY DEF BeginCall
  <2>2. EndCall => calls # 0
    BY DEF EndCall
  <2>3. QED  BY <2>1, <2>2 DEF CallSteps, ReleaseInv
<1>3. ~Starting' /\ ~Drained'
  BY <1>1, <1>2 DEF Starting, Drained
<1>4. QED  BY <1>1, <1>3 DEF ReleaseInv

LEMMA NextReleases == TypeOK /\ ReleaseInv /\ [Next]_vars => ReleaseInv'
<1>1. ReleaseInv /\ Signal => ReleaseInv'
  BY DEF ReleaseInv, Starting, Drained, Signal, Killed, Running, servers, signals
<1>2. ReleaseInv /\ UNCHANGED vars => ReleaseInv'
  BY DEF ReleaseInv, Starting, Drained, vars
<1>3. QED
  BY <1>1, <1>2, MainReleases, ServerReleases, CallReleases DEF Next, ServerSteps, CallSteps

LEMMA ReleaseCorrect == Spec => [](TypeOK /\ ReleaseInv)
<1>1. QED
  BY InitTypes, InitReleases, NextTypes, NextReleases, PTL DEF Spec

\* However main() ends by itself, everything it opened is released; when it ends
\* well, every RPC was answered and Consul told.
THEOREM NothingLeaksCorrect == Spec => []NothingLeaks
<1>1. ReleaseInv => NothingLeaks
  BY DEF ReleaseInv, NothingLeaks, Drained
<1>2. QED  BY <1>1, ReleaseCorrect, PTL

LEMMA ReleaseOutlives == TypeOK /\ ReleaseInv => DatabaseOutlivesCalls
  BY DEF TypeOK, PlacesOK, CallsOK, ReleaseInv, DatabaseOutlivesCalls, Starting, Drained

\* The database is closed after the last RPC, but for a shutdown that panics.
THEOREM DatabaseCorrect == Spec => []DatabaseOutlivesCalls
  BY ReleaseOutlives, ReleaseCorrect, PTL

-----------------------------------------------------------------------------
(* Which failures the process survives. *)

GRPCFailed == grpc \in {"refused", "failed"}

\* quitCh is closed by the first server that fails, and closing it again is fatal.
QuitInv ==
    /\ Starting => http = "none" /\ grpc = "none" /\ ~quitClosed
    /\ quitClosed => http = "failed" \/ GRPCFailed
    /\ OneFailureIsSurvived

LEMMA NextSurvives == QuitInv /\ [Next]_vars => QuitInv'
<1> SUFFICES ASSUME QuitInv, [Next]_vars PROVE QuitInv'
  OBVIOUS
<1> USE DEF QuitInv, OneFailureIsSurvived, BothFailed, GRPCFailed, Starting, Running, servers, signals,
            Killed, CloseQuit
<1>1. CASE Main
  <2>1. CASE LoadConfig \/ InitDatabase \/ InitRedis \/ RegisterToConsul \/ Serve \/ Notify
    BY <2>1 DEF LoadConfig, InitDatabase, InitRedis, RegisterToConsul, Serve, Notify
  <2>2. CASE Awake \/ ShutdownHTTP \/ StopGRPC \/ DrainGRPC \/ Deregister
    BY <2>2 DEF Awake, ShutdownHTTP, StopGRPC, DrainGRPC, Deregister
  <2>3. CASE Release \/ Unwind \/ Exit
    BY <2>3 DEF Release, Unwind, Exit, ReleaseInfra
  <2>4. QED  BY <1>1, <2>1, <2>2, <2>3 DEF Main
<1>2. CASE HTTPServer
  BY <1>2 DEF HTTPServer, NewHTTP, FailHTTP, ServeHTTP, ReturnHTTP
<1>3. CASE GRPCServer
  BY <1>3 DEF GRPCServer, ListenGRPC, NewGRPC, ServeGRPC, FailGRPC, ReturnGRPC
<1>4. CASE Signal
  BY <1>4 DEF Signal
<1>5. CASE BeginCall \/ EndCall
  BY <1>5 DEF BeginCall, EndCall
<1>6. CASE UNCHANGED vars
  BY <1>6 DEF vars
<1>7. QED  BY <1>1, <1>2, <1>3, <1>4, <1>5, <1>6 DEF Next

LEMMA QuitCorrect == Spec => []QuitInv
<1>1. Init => QuitInv
  BY DEF Init, QuitInv, OneFailureIsSurvived, GRPCFailed
<1>2. QED  BY <1>1, NextSurvives, PTL DEF Spec

\* The process is killed only by a signal nobody has asked for yet, during a start-up
\* or while main unwinds one that failed, or by the failure of both servers, which
\* closes quitCh a second time.  (cmd/server/main.go:93-158, 314-335)
THEOREM OneFailureCorrect == Spec => []OneFailureIsSurvived
<1>1. QuitInv => OneFailureIsSurvived
  BY DEF QuitInv
<1>2. QED  BY <1>1, QuitCorrect, PTL

\* The process has ended on its own, with everything it opened released, and in
\* success only when Consul was told and every RPC was answered.
CleanEnd == /\ exit \in {"ok", "failed"}
            /\ opened = {}
            /\ exit = "ok" => consul # "registered" /\ calls = 0

LEMMA EndsClean == TypeOK /\ ReleaseInv /\ QuitInv => (~Running /\ ~signalled /\ ~BothFailed => CleanEnd)
<1>1. ReleaseInv => NothingLeaks
  BY DEF ReleaseInv, NothingLeaks, Drained
<1>2. QED
  BY <1>1 DEF TypeOK, PlacesOK, Running, QuitInv, OneFailureIsSurvived, NothingLeaks, CleanEnd

\* What holds in place of "a server that cannot listen makes Run take the normal
\* shutdown path": without a signal, and with one server left that did not fail,
\* the process comes to a clean end, in success or not.
\* (cmd/server/main.go:100-159, 241-256)
THEOREM ListenFailureIsClean == Spec => [](~Running /\ ~signalled /\ ~BothFailed => CleanEnd)
  BY EndsClean, ReleaseCorrect, QuitCorrect, PTL

-----------------------------------------------------------------------------
(* Getting to the end. *)

LEMMA PlacesAhead ==
  /\ StepsAhead["config"] = 15 /\ StepsAhead["database"] = 14 /\ StepsAhead["redis"] = 13
  /\ StepsAhead["register"] = 12 /\ StepsAhead["serve"] = 11 /\ StepsAhead["notify"] = 10
  /\ StepsAhead["select"] = 9 /\ StepsAhead["stopHTTP"] = 8 /\ StepsAhead["stopGRPC"] = 7
  /\ StepsAhead["drain"] = 6 /\ StepsAhead["deregister"] = 5 /\ StepsAhead["release"] = 4
  /\ StepsAhead["returned"] = 3 /\ StepsAhead["failed"] = 3
  /\ StepsAhead["exitOk"] = 2 /\ StepsAhead["exitFailed"] = 2
  BY DEF StepsAhead

LEMMA LeftIsNat == TypeOK => StepsLeft \in Nat
<1> SUFFICES ASSUME TypeOK PROVE StepsLeft \in Nat
  OBVIOUS
<1>1. StepsAhead[main] \in Nat
  BY PlacesAhead DEF TypeOK, PlacesOK
<1>2. calls \in Nat /\ MaxCalls \in Nat
  BY MaxCallsAssumption DEF TypeOK, CallsOK
<1>3. QED  BY <1>1, <1>2 DEF StepsLeft, Awaited

LEMMA LeftIsNatNext == (TypeOK => StepsLeft \in Nat)'
  BY LeftIsNat, PTL

\* Each step of main takes it to a place that is nearer to the end.
LEMMA MainGetsOn ==
  ASSUME TypeOK, Main
  PROVE  StepsLeft' < StepsLeft
<1> USE DEF servers, signals, Running
<1>1. calls \in 0 .. MaxCalls /\ MaxCalls \in Nat
  BY MaxCallsAssumption DEF TypeOK, CallsOK
<1>2. CASE Exit
  <2>1. StepsLeft' = 0
    BY <1>2 DEF Exit, StepsLeft
  <2>2. StepsLeft = 2
    BY <1>2, PlacesAhead DEF Exit, StepsLeft, Awaited
  <2>3. QED  BY <2>1, <2>2
<1>3. CASE ~Exit
  <2>1. Running /\ exit' = exit /\ calls' = calls
    BY <1>3 DEF Main, LoadConfig, InitDatabase, InitRedis, RegisterToConsul, Serve, Notify, Awake,
           ShutdownHTTP, StopGRPC, DrainGRPC, Deregister, Release, Unwind
  <2>2. \/ main = "config" /\ main' \in {"failed", "database"}
        \/ main = "database" /\ main' \in {"failed", "redis"}
        \/ main = "redis" /\ main' \in {"failed", "register"}
        \/ main = "register" /\ main' \in {"failed", "serve"}
        \/ main = "serve" /\ main' = "notify"
        \/ main = "notify" /\ main' = "select"
        \/ main = "select" /\ main' = "stopHTTP"
        \/ main = "stopHTTP" /\ main' \in {"failed", "stopGRPC"}
        \/ main = "stopGRPC" /\ main' \in {"failed", "drain"}
        \/ main = "drain" /\ main' = "deregister"
        \/ main = "deregister" /\ main' = "release"
        \/ main = "release" /\ main' = "returned"
        \/ main \in {"returned", "failed"} /\ main' \in {"exitOk", "exitFailed"}
    BY <1>3 DEF Main, LoadConfig, InitDatabase, InitRedis, RegisterToConsul, Serve, Notify, Awake,
           ShutdownHTTP, StopGRPC, DrainGRPC, Deregister, Release, Unwind
  <2>3. StepsLeft = StepsAhead[main] + Awaited /\ StepsLeft' = StepsAhead[main'] + Awaited'
    BY <2>1 DEF StepsLeft
  <2>4. QED  BY <1>1, <2>1, <2>2, <2>3, PlacesAhead DEF Awaited
<1>4. QED  BY <1>2, <1>3

\* No other step takes main back, and none but the end of an RPC changes what it
\* waits for: no RPC begins once the gRPC server was told to stop.
LEMMA OthersGetOn ==
  ASSUME TypeOK, ReleaseInv, [Next]_vars, ~Main
  PROVE  /\ StepsLeft' \in 0 .. StepsLeft
         /\ main = "drain" /\ EndCall => StepsLeft' < StepsLeft
<1> USE DEF servers, signals, Running
<1>1. calls \in 0 .. MaxCalls /\ MaxCalls \in Nat /\ StepsAhead[main] \in Nat
  BY MaxCallsAssumption, PlacesAhead DEF TypeOK, CallsOK, PlacesOK
<1>2. main' = main
  BY DEF Next, Signal, HTTPServer, NewHTTP, FailHTTP, ServeHTTP, ReturnHTTP, GRPCServer, ListenGRPC,
         NewGRPC, ServeGRPC, FailGRPC, ReturnGRPC, CloseQuit, BeginCall, EndCall, vars
<1>3. exit' = exit \/ exit' = "killed"
  BY DEF Next, Signal, HTTPServer, NewHTTP, FailHTTP, ServeHTTP, ReturnHTTP, GRPCServer, ListenGRPC,
         NewGRPC, ServeGRPC, FailGRPC, ReturnGRPC, CloseQuit, Killed, BeginCall, EndCall, vars
<1>4. main = "drain" => calls' \in 0 .. calls
  <2>1. ~BeginCall => calls' = calls \/ EndCall
    BY DEF Next, Signal, HTTPServer, NewHTTP, FailHTTP, ServeHTTP, ReturnHTTP, GRPCServer, ListenGRPC,
           NewGRPC, ServeGRPC, FailGRPC, ReturnGRPC, BeginCall, vars
  <2>2. BeginCall => main # "drain"
    BY DEF BeginCall, ReleaseInv
  <2>3. EndCall => calls' \in 0 .. calls
    BY <1>1 DEF EndCall
  <2>4. QED  BY <1>1, <2>1, <2>2, <2>3
<1>5. StepsLeft \in Nat
  BY LeftIsNat
<1>6. CASE exit' = "killed"
  <2>1. StepsLeft' = 0
    BY <1>6 DEF StepsLeft
  <2>2. ~EndCall \/ exit' = exit
    BY DEF EndCall
  <2>3. main = "drain" /\ EndCall => FALSE
    BY <1>6 DEF EndCall
  <2>4. QED  BY <1>5, <2>1, <2>3
<1>7. CASE exit' = exit
  <2>1. CASE ~Running
    <3>1. StepsLeft' = 0 /\ ~EndCall
      BY <1>7, <2>1 DEF StepsLeft, EndCall
    <3>2. QED  BY <1>5, <3>1
  <2>2. CASE Running
    <3>1. StepsLeft = StepsAhead[main] + Awaited /\ StepsLeft' = StepsAhead[main] + Awaited'
      BY <1>2, <1>7, <2>2 DEF StepsLeft
    <3>2. main = "drain" => Awaited = calls /\ Awaited' = calls'
      BY <1>2 DEF Awaited
    <3>3. main # "drain" => Awaited \in Nat /\ Awaited' = Awaited
      BY <1>1, <1>2 DEF Awaited
    <3>4. EndCall => calls' = calls - 1
      BY DEF EndCall
    <3>5. QED  BY <1>1, <1>4, <3>1, <3>2, <3>3, <3>4
  <2>3. QED  BY <2>1, <2>2
<1>8. QED  BY <1>3, <1>6, <1>7

LEMMA StopStep ==
  ASSUME TypeOK, ReleaseInv, [Next]_vars
  PROVE  /\ StepsLeft' \in 0 .. StepsLeft
         /\ Main \/ (main = "drain" /\ EndCall) => StepsLeft' < StepsLeft
<1>1. CASE Main
  <2>1. TypeOK'
    BY NextTypes
  <2>2. StepsLeft' \in Nat
    BY <2>1, LeftIsNatNext
  <2>3. QED  BY <1>1, <2>2, MainGetsOn, LeftIsNat
<1>2. CASE ~Main
  BY <1>2, OthersGetOn
<1>3. QED  BY <1>1, <1>2

\* What the end of the process rests on, fairness apart: main takes at most fifteen
\* steps and waits for at most the RPCs that were there when the servers were told to
\* stop; nothing that clients, servers or signals do adds to that.
THEOREM StopCorrect == Spec => StopGetsOn
<1> DEFINE GetsOn == /\ StepsLeft' \in 0 .. StepsLeft
                     /\ Main \/ (main = "drain" /\ EndCall) => StepsLeft' < StepsLeft
<1>1. TypeOK /\ ReleaseInv /\ [Next]_vars => [GetsOn]_vars
  BY StopStep
<1>2. QED  BY <1>1, ReleaseCorrect, PTL DEF Spec, StopGetsOn

------------------------------------------------------------------------------
(* The goroutines beside the servers.                                       *)


\* Every step of the process is a step of the life cycle, or leaves it alone.
LEMMA StepIsLifecycle == [ProcessNext]_processVars => [Next]_vars
  BY DEF ProcessNext, processVars, Lifecycle, RunMetrics, AnnounceBoard, Announce, Wake

\* The goroutines beside the servers can neither stop nor delay a step that the
\* life cycle allows into one it does not.
THEOREM ImplementsLifecycle == ProcessSpec => Init /\ [][Next]_vars
<1>1. ProcessInit => Init
  BY DEF ProcessInit
<1>2. QED  BY <1>1, StepIsLifecycle, PTL DEF ProcessSpec

\* So the invariants of the life cycle are those of the process.
LEMMA ProcessKeepsInvariants == ProcessSpec => [](TypeOK /\ ReleaseInv /\ QuitInv)
<1>1. ProcessInit => TypeOK /\ ReleaseInv
  BY InitTypes, InitReleases DEF ProcessInit
<1>2. ProcessInit => QuitInv
  BY DEF ProcessInit, Init, QuitInv, OneFailureIsSurvived, GRPCFailed
<1>3. TypeOK /\ ReleaseInv /\ [ProcessNext]_processVars => (TypeOK /\ ReleaseInv)'
  BY StepIsLifecycle, NextTypes, NextReleases
<1>4. QuitInv /\ [ProcessNext]_processVars => QuitInv'
  BY StepIsLifecycle, NextSurvives
<1>5. QED  BY <1>1, <1>2, <1>3, <1>4, PTL DEF ProcessSpec

\* What main() leaves behind when it ends by itself does not depend on the loops
\* or the metrics server that still run then.
THEOREM ProcessLeaksNothing == ProcessSpec => []NothingLeaks
<1>1. ReleaseInv => NothingLeaks
  BY DEF ReleaseInv, NothingLeaks, Drained
<1>2. QED  BY <1>1, ProcessKeepsInvariants, PTL

\* Nor does the order in which the RPCs end and the database is closed.
THEOREM ProcessKeepsDatabase == ProcessSpec => []DatabaseOutlivesCalls
  BY ReleaseOutlives, ProcessKeepsInvariants, PTL

\* They cannot kill the process: a metrics server that fails is not one of the two.
THEOREM ProcessSurvives == ProcessSpec => []OneFailureIsSurvived
<1>1. QuitInv => OneFailureIsSurvived
  BY DEF QuitInv
<1>2. QED  BY <1>1, ProcessKeepsInvariants, PTL

\* With them, too, the process comes to a clean end unless a signal or the failure of
\* both servers kills it.
THEOREM ProcessEndsClean == ProcessSpec => [](~Running /\ ~signalled /\ ~BothFailed => CleanEnd)
  BY EndsClean, ProcessKeepsInvariants, PTL

\* Nor can they hold up its end.
THEOREM ProcessStops == ProcessSpec => StopGetsOn
<1> DEFINE GetsOn == /\ StepsLeft' \in 0 .. StepsLeft
                     /\ Main \/ (main = "drain" /\ EndCall) => StepsLeft' < StepsLeft
<1>1. TypeOK /\ ReleaseInv /\ [ProcessNext]_processVars => [GetsOn]_vars
  BY StepIsLifecycle, StopStep
<1>2. QED  BY <1>1, ProcessKeepsInvariants, PTL DEF ProcessSpec, StopGetsOn

-----------------------------------------------------------------------------
(* The loops that declare the boards. *)

BeforeLoops == main \in {"config", "database", "redis", "register"}

\* Types of the variables beside the life cycle's.
MetricsOK == metrics \in {"none", "start", "serving", "failed"}
LoopsOK ==
    /\ announcer \in [Boards -> {"none", "try", "sleep"} \cup Settled]
    /\ attempts \in [Boards -> 0 .. MaxAttempts]
DeclaredOK == declared \subseteq Boards

\* A loop is started once, tries only while attempts are left, ends well only with
\* its board declared, and gives up only when no attempt is left.
LoopInv(b) ==
    /\ BeforeLoops => announcer[b] = "none" /\ attempts[b] = 0
    /\ announcer[b] = "none" => attempts[b] = 0
    /\ announcer[b] = "try" => attempts[b] < MaxAttempts
    /\ announcer[b] = "done" => b \in declared
    /\ announcer[b] = "gaveUp" => attempts[b] = MaxAttempts
LoopsInv == \A b \in Boards : LoopInv(b)

LEMMA InitLoops == ProcessInit => MetricsOK /\ LoopsOK /\ DeclaredOK /\ LoopsInv
  BY MaxAttemptsAssumption
  DEF ProcessInit, MetricsOK, LoopsOK, DeclaredOK, LoopsInv, LoopInv, BeforeLoops, Init

\* The goroutine starts nothing before run() has got that far.
LEMMA MainGoesOn == Next => (main' # main /\ main = "register" => main' \in {"serve", "failed"})
                            /\ (BeforeLoops' => BeforeLoops)
  BY DEF Next, Main, LoadConfig, InitDatabase, InitRedis, RegisterToConsul, Serve, Notify, Awake,
         ShutdownHTTP, StopGRPC, DrainGRPC, Deregister, Release, Unwind, Exit, Signal, HTTPServer,
         NewHTTP, FailHTTP, ServeHTTP, ReturnHTTP, GRPCServer, ListenGRPC, NewGRPC, ServeGRPC,
         FailGRPC, ReturnGRPC, BeginCall, EndCall, servers, BeforeLoops

LEMMA LifecycleLoops ==
  ASSUME LoopsOK, LoopsInv, Lifecycle(Next)
  PROVE  LoopsOK' /\ LoopsInv'
<1>1. UNCHANGED <<attempts, declared>> /\ (BeforeLoops' => BeforeLoops)
  BY MainGoesOn DEF Lifecycle, StartBeside
<1>2. CASE main = "register" /\ main' = "serve"
  <2>1. announcer' = [b \in Boards |-> "try"]
    BY <1>2 DEF Lifecycle, StartBeside
  <2>2. \A b \in Boards : attempts[b] = 0
    BY <1>2 DEF LoopsInv, LoopInv, BeforeLoops
  <2>3. ~BeforeLoops'
    BY <1>2 DEF BeforeLoops
  <2>4. QED  BY <1>1, <2>1, <2>2, <2>3, MaxAttemptsAssumption DEF LoopsOK, LoopsInv, LoopInv
<1>3. CASE ~(main = "register" /\ main' = "serve")
  <2>1. announcer' = announcer
    BY <1>3 DEF Lifecycle, StartBeside
  <2>2. QED  BY <1>1, <2>1 DEF LoopsOK, LoopsInv, LoopInv
<1>4. QED  BY <1>2, <1>3

LEMMA AnnounceLoops ==
  ASSUME LoopsOK, LoopsInv, NEW b \in Boards, Announce(b)
  PROVE  LoopsOK' /\ LoopsInv'
<1>1. attempts[b] \in 0 .. MaxAttempts /\ attempts[b] < MaxAttempts /\ ~BeforeLoops
  BY DEF LoopsOK, LoopsInv, LoopInv, Announce
<1>2. main' = main /\ attempts' = [attempts EXCEPT ![b] = attempts[b] + 1]
  BY DEF Announce, vars
<1>3. attempts[b] + 1 \in 0 .. MaxAttempts
  BY <1>1, MaxAttemptsAssumption
<1>4. \/ announcer' = [announcer EXCEPT ![b] = "done"] /\ b \in declared'
      \/ announcer' = [announcer EXCEPT ![b] = "sleep"]
  BY DEF Announce
<1>5. declared \subseteq declared'
  BY DEF Announce
<1>6. LoopsOK'
  BY <1>2, <1>3, <1>4 DEF LoopsOK, Settled
<1>7. ~BeforeLoops'
  BY <1>1, <1>2 DEF BeforeLoops
<1>8. LoopsInv'
  <2>1. ASSUME NEW c \in Boards PROVE LoopInv(c)'
    <3>1. CASE c = b
      BY <1>4, <1>7, <3>1 DEF LoopsOK, LoopInv
    <3>2. CASE c # b
      <4>1. announcer'[c] = announcer[c] /\ attempts'[c] = attempts[c]
        BY <1>2, <1>4, <3>2 DEF LoopsOK
      <4>2. QED  BY <1>5, <1>7, <4>1 DEF LoopsInv, LoopInv
    <3>3. QED  BY <3>1, <3>2
  <2>2. QED  BY <2>1 DEF LoopsInv
<1>9. QED  BY <1>6, <1>8

LEMMA WakeLoops ==
  ASSUME LoopsOK, LoopsInv, NEW b \in Boards, Wake(b)
  PROVE  LoopsOK' /\ LoopsInv'
<1>1. ~BeforeLoops /\ attempts[b] \in 0 .. MaxAttempts
  BY DEF LoopsOK, LoopsInv, LoopInv, Wake
<1>2. main' = main /\ attempts' = attempts /\ declared' = declared
  BY DEF Wake, vars
<1>3. \/ announcer' = [announcer EXCEPT ![b] = "try"] /\ attempts[b] < MaxAttempts
      \/ announcer' = [announcer EXCEPT ![b] = "gaveUp"] /\ attempts[b] = MaxAttempts
  <2>1. CASE attempts[b] < MaxAttempts
    BY <2>1 DEF Wake
  <2>2. CASE ~(attempts[b] < MaxAttempts)
    <3>1. attempts[b] = MaxAttempts
      BY <1>1, <2>2, MaxAttemptsAssumption
    <3>2. announcer' = [announcer EXCEPT ![b] = "gaveUp"]
      BY <2>2 DEF Wake
    <3>3. QED  BY <3>1, <3>2
  <2>3. QED  BY <2>1, <2>2
<1>4. LoopsOK'
  BY <1>2, <1>3 DEF LoopsOK, Settled
<1>5. ~BeforeLoops'
  BY <1>1, <1>2 DEF BeforeLoops
<1>6. ASSUME NEW c \in Boards PROVE LoopInv(c)'
  BY <1>2, <1>3, <1>5 DEF LoopsOK, LoopsInv, LoopInv
<1>7. QED  BY <1>4, <1>6 DEF LoopsInv

LEMMA NextLoops == LoopsOK /\ LoopsInv /\ [ProcessNext]_processVars => (LoopsOK /\ LoopsInv)'
<1> SUFFICES ASSUME LoopsOK, LoopsInv, [ProcessNext]_processVars PROVE LoopsOK' /\ LoopsInv'
  OBVIOUS
<1>1. CASE RunMetrics \/ UNCHANGED processVars
  BY <1>1 DEF RunMetrics, processVars, beside, vars, LoopsOK, LoopsInv, LoopInv, BeforeLoops
<1>2. QED
  BY <1>1, LifecycleLoops, AnnounceLoops, WakeLoops DEF ProcessNext, AnnounceBoard

LEMMA NextMetrics == MetricsOK /\ [ProcessNext]_processVars => MetricsOK'
  BY DEF MetricsOK, ProcessNext, processVars, beside, Lifecycle, StartBeside, RunMetrics,
         AnnounceBoard, Announce, Wake

LEMMA NextDeclared == DeclaredOK /\ [ProcessNext]_processVars => DeclaredOK'
  BY DEF DeclaredOK, ProcessNext, processVars, beside, Lifecycle, StartBeside, RunMetrics,
         AnnounceBoard, Announce, Wake

\* Every variable of the process keeps its type, and no loop makes more attempts
\* than it is allowed.
THEOREM ProcessTypeCorrect == ProcessSpec => []ProcessTypeOK
<1>1. ProcessInit => TypeOK
  BY InitTypes DEF ProcessInit
<1>2. TypeOK /\ [ProcessNext]_processVars => TypeOK'
  BY StepIsLifecycle, NextTypes
<1>3. TypeOK /\ MetricsOK /\ LoopsOK /\ DeclaredOK => ProcessTypeOK
  BY DEF ProcessTypeOK, BesideOK, MetricsOK, LoopsOK, DeclaredOK
<1>4. QED
  BY <1>1, <1>2, <1>3, InitLoops, NextLoops, NextMetrics, NextDeclared, PTL DEF ProcessSpec

\* A board is left undeclared only after every attempt has failed, for any number
\* of boards and attempts.
THEOREM AttemptsCorrect == ProcessSpec => []UndeclaredOnlyAfterAllAttempts
<1>1. LoopsInv => UndeclaredOnlyAfterAllAttempts
  BY DEF LoopsInv, LoopInv, UndeclaredOnlyAfterAllAttempts, Settled
<1>2. QED  BY <1>1, InitLoops, NextLoops, PTL DEF ProcessSpec

=============================================================================
