------------------------------ MODULE EchoApp ------------------------------
(***************************************************************************)
(* The example apps of src/apps/echo/echo.app.example.h.  The client app's *)
(* start() creates an echo_client and a periodic timer whose              *)
(* on_test_timer pings the server through it; stop() cancels the timer,   *)
(* waiting for a running tick, then deletes the client; the destructor    *)
(* calls stop() again.  The timer's ticks run on a pool thread while       *)
(* stop() runs on another.  The perf-test client app and the server app   *)
(* only create or open their service in start() and release it in stop(). *)
(***************************************************************************)
EXTENDS Naturals

CONSTANTS Argcs    \* the argument counts start() may be given

VARIABLES
    app,        \* client app: "constructed", "failed" (start() returned an
                \* error), "started", "cancelling" (stop() inside the
                \* cancel), "stopping", "stopped", "dcancelling" and
                \* "destroying" (the destructor's stop()), "destroyed"
    timer,      \* _timer: "null", "armed", "cancelling" (a cancel waits for
                \* the running tick) or "cancelled"
    tick,       \* on_test_timer is running, inside _echo_client->ping
    ptr,        \* _echo_client: "null" or the client object
    obj,        \* the echo_client object: "none", "live" or "freed"
    fault,      \* "none", "nullTimer" (a null _timer dereferenced) or
                \* "useAfterFree" (a freed client used or deleted again)
    perf,       \* perf client app: "constructed", "failed", "started",
                \* "stopped", "destroyed"
    perfArg,    \* argv[2] the perf start() read: "port" or "null"
    serving     \* echo_server_app's _echo_svc is open

vars == <<app, timer, tick, ptr, obj, fault, perf, perfArg, serving>>

Init ==
    /\ app = "constructed" /\ timer = "null" /\ tick = FALSE
    /\ ptr = "null" /\ obj = "none" /\ fault = "none"
    /\ perf = "constructed" /\ perfArg = "port" /\ serving = FALSE

Ok == fault = "none"

(* echo_client_app::start: fewer than 3 arguments -> ERR_INVALID_PARAMETERS *)
(* with nothing created; otherwise the client and the 1 s timer.           *)
ClientStart(argc) ==
    /\ Ok /\ app = "constructed"
    /\ IF argc < 3
       THEN app' = "failed" /\ UNCHANGED <<timer, ptr, obj>>
       ELSE /\ app' = "started" /\ timer' = "armed"
            /\ ptr' = "obj" /\ obj' = "live"
    /\ UNCHANGED <<tick, fault, perf, perfArg, serving>>

(* A tick of the timer enters on_test_timer and calls the synchronous     *)
(* _echo_client->ping, which uses the client until TickEnds.              *)
TickBegins ==
    /\ Ok /\ timer = "armed" /\ ~tick
    /\ tick' = TRUE
    /\ fault' = IF ptr = "obj" /\ obj = "live" THEN "none" ELSE "useAfterFree"
    /\ UNCHANGED <<app, timer, ptr, obj, perf, perfArg, serving>>

TickEnds ==
    /\ Ok /\ tick /\ tick' = FALSE
    /\ fault' = IF obj = "live" THEN "none" ELSE "useAfterFree"
    /\ UNCHANGED <<app, timer, ptr, obj, perf, perfArg, serving>>

\* Mutant: the cancel lets later ticks start and waits for a moment when
\* none runs.
MutCancelTimer ==
    IF timer = "null" THEN fault' = "nullTimer" /\ UNCHANGED timer
    ELSE UNCHANGED <<timer, fault>>

\* _timer->cancel(true), entry: a null _timer is dereferenced; otherwise the
\* timer fires no more.
CancelTimer ==
    IF timer = "null" THEN fault' = "nullTimer" /\ UNCHANGED timer
    ELSE /\ timer' = IF timer = "armed" THEN "cancelling" ELSE timer
         /\ UNCHANGED fault

(* echo_client_app::stop enters _timer->cancel(true); called by the app   *)
(* framework, or by the destructor (again after an explicit stop, or on  *)
(* an app never started or whose start() failed).                        *)
StopCancel ==
    /\ Ok /\ app \in {"constructed", "failed", "started", "stopped"}
    /\ CancelTimer
    /\ app' = IF app = "started" THEN "cancelling" ELSE "dcancelling"
    /\ UNCHANGED <<tick, ptr, obj, perf, perfArg, serving>>

(* cancel(true) returns once no tick of the timer is running. *)
CancelReturns ==
    /\ Ok /\ app \in {"cancelling", "dcancelling"} /\ ~tick
    /\ timer' = "cancelled"
    /\ app' = IF app = "cancelling" THEN "stopping" ELSE "destroying"
    /\ UNCHANGED <<tick, ptr, obj, fault, perf, perfArg, serving>>

\* Mutant: delete _echo_client without resetting it to nullptr.
MutDeleteClient ==
    /\ obj' = IF ptr = "obj" THEN "freed" ELSE obj
    /\ UNCHANGED ptr

\* if (_echo_client != nullptr) { delete _echo_client; _echo_client = nullptr; }
DeleteClient ==
    IF ptr = "obj" THEN obj' = "freed" /\ ptr' = "null"
    ELSE UNCHANGED <<obj, ptr>>

(* Second step of stop(): delete the client; deleting a freed one is a    *)
(* use after free.                                                        *)
StopDelete ==
    /\ Ok /\ app \in {"stopping", "destroying"}
    /\ DeleteClient
    /\ fault' = IF ptr = "obj" /\ obj = "freed" THEN "useAfterFree" ELSE fault
    /\ app' = IF app = "stopping" THEN "stopped" ELSE "destroyed"
    /\ UNCHANGED <<timer, tick, perf, perfArg, serving>>

(* echo_perf_test_client_app::start: fewer than 2 arguments ->             *)
(* ERR_INVALID_PARAMETERS; otherwise argv[2] is read for the port, which   *)
(* is the terminating null pointer when argc = 2.                          *)
PerfStart(argc) ==
    /\ Ok /\ perf = "constructed"
    /\ IF argc < 2 THEN perf' = "failed" /\ UNCHANGED perfArg
       ELSE perf' = "started" /\ perfArg' = IF argc > 2 THEN "port" ELSE "null"
    /\ UNCHANGED <<app, timer, tick, ptr, obj, fault, serving>>

(* stop() deletes the perf client if non-null; the destructor calls it     *)
(* again.                                                                  *)
PerfStop ==
    /\ Ok /\ perf \in {"constructed", "failed", "started", "stopped"}
    /\ perf' = IF perf = "started" THEN "stopped" ELSE "destroyed"
    /\ UNCHANGED <<app, timer, tick, ptr, obj, fault, perfArg, serving>>

(* echo_server_app::start opens the echo service, stop closes it. *)
ServerStart ==
    /\ Ok /\ ~serving /\ serving' = TRUE
    /\ UNCHANGED <<app, timer, tick, ptr, obj, fault, perf, perfArg>>

ServerStop ==
    /\ Ok /\ serving /\ serving' = FALSE
    /\ UNCHANGED <<app, timer, tick, ptr, obj, fault, perf, perfArg>>

Next ==
    \/ \E argc \in Argcs : ClientStart(argc) \/ PerfStart(argc)
    \/ TickBegins \/ TickEnds \/ StopCancel \/ CancelReturns \/ StopDelete
    \/ PerfStop \/ ServerStart \/ ServerStop

(* The synchronous ping of a tick returns (the RPC times out at worst),   *)
(* and the thread in stop() is scheduled.                                 *)
Spec == Init /\ [][Next]_vars
        /\ WF_vars(TickEnds) /\ WF_vars(CancelReturns) /\ WF_vars(StopDelete)

-----------------------------------------------------------------------------
(* The echo_client is never used after it is deleted, by a tick pinging  *)
(* through it or by a second delete: stop() cancels the timer with        *)
(* wait_until_finished = true before deleting the client, so a tick on a  *)
(* pool thread ends first and no later one starts, and it resets          *)
(* _echo_client so the destructor's stop() deletes nothing.               *)
NoUseAfterFree == fault /= "useAfterFree" /\ ~(tick /\ obj = "freed")

(* stop() never dereferences a null _timer, including the stop() the      *)
(* destructor makes on an app whose start() returned an error.            *)
NoNullTimer == fault /= "nullTimer"

(* The perf-test client's start() reads only the arguments it was given:   *)
(* the argc check guards every argv index start() uses.                    *)
PerfReadsGivenArgs == perfArg /= "null"

(* stop() returns, from the framework or from the destructor: the cancel  *)
(* keeps the timer from firing again and so waits for one tick at most.   *)
StopCompletes ==
    app \in {"cancelling", "dcancelling"}
        ~> (app \in {"stopped", "destroyed"} \/ ~Ok)
=============================================================================
