--------------------------- MODULE ServerLifecycle ---------------------------
(***************************************************************************)
(* The life of one server process: runCommand (cmd/goconduct/main.go), the *)
(* application it activates, serves and shuts down (application.go), the   *)
(* HTTP server (internal/library/httpserver/server.go) and the dashboard   *)
(* (pkg/plugin/architecture/dashboard.go), whose first request analyzes    *)
(* the repository while it holds dashboardService.mutex.                   *)
(*                                                                         *)
(* service.ctx derives from the signal context of main.  The context of a  *)
(* request does not: BaseContext is context.WithoutCancel, so a request is *)
(* cancelled only when its client leaves or httpServer.Close is called.    *)
(***************************************************************************)
EXTENDS Naturals

CONSTANTS
  Requests,     \* requests to the dashboard
  Streams,      \* those that are WatchGraph calls
  Nobody,       \* no goroutine
  MaxFailures,  \* bound: first analyses that fail by themselves
  Patient       \* whether every handler but a stream ends within the 15 s of shutdownTimeout

ASSUME LifecycleAssumption ==
  /\ Streams \subseteq Requests
  /\ Nobody \notin Requests
  /\ MaxFailures \in Nat
  /\ Patient \in BOOLEAN

VARIABLES
  main,       \* where runCommand is
  signal,     \* whether the signal context is done
  runError,   \* whether the command of runCommand returned an error
  active,     \* service.ctx # nil
  stopped,    \* whether Shutdown cancelled service.ctx
  owner,      \* who holds service.mutex, over several steps
  handler,    \* service.handler # nil
  monitors,   \* goroutines of monitor.run
  pc,         \* where each request is
  gone,       \* whether its context is done
  refused,    \* the requests answered 503
  failures,   \* how many first analyses failed by themselves
  blamed      \* history: the requests whose own analysis failed

processVars == <<main, signal, runError>>
serviceVars == <<active, stopped, owner, handler, monitors>>
requestVars == <<pc, gone, refused, failures, blamed>>
vars == <<processVars, serviceVars, requestVars>>

Init ==
  /\ main = "starting" /\ signal = FALSE /\ runError = FALSE
  /\ active = FALSE /\ stopped = FALSE /\ owner = Nobody
  /\ handler = FALSE /\ monitors = 0
  /\ pc = [r \in Requests |-> "none"]
  /\ gone = [r \in Requests |-> FALSE]
  /\ refused = {} /\ failures = 0 /\ blamed = {}

ServiceDone == signal \/ stopped
InFlight == {r \in Requests : pc[r] \in {"accepted", "initializing", "handling"}}

-----------------------------------------------------------------------------
(* runCommand.                                                             *)

Signal ==
  /\ main # "exited"
  /\ ~signal
  /\ signal' = TRUE
  /\ UNCHANGED <<main, runError, serviceVars, requestVars>>

(* PersistentPreRunE: the configuration is rejected, or app.Activate       *)
(* activates the dashboard.                                                *)
Activate ==
  /\ main = "starting"
  /\ \/ main' = "activated" /\ active' = TRUE /\ UNCHANGED runError
     \/ main' = "stopping" /\ runError' = TRUE /\ UNCHANGED active
  /\ UNCHANGED <<signal, stopped, owner, handler, monitors, requestVars>>

(* app.Serve: ComposeServer, then Run, which listens or fails to. *)
Serve ==
  /\ main = "activated"
  /\ \/ main' = "serving" /\ UNCHANGED runError
     \/ main' = "stopping" /\ runError' = TRUE
  /\ UNCHANGED <<signal, serviceVars, requestVars>>

(* The accept loop fails: Serve returns while handlers still run. *)
AcceptFails ==
  /\ main = "serving"
  /\ main' = "stopping"
  /\ runError' = TRUE
  /\ UNCHANGED <<signal, serviceVars, requestVars>>

(* httpServer.Shutdown closes the listener. *)
Drain ==
  /\ main = "serving"
  /\ signal
  /\ main' = "draining"
  /\ UNCHANGED <<signal, runError, serviceVars, requestVars>>

Drained ==
  /\ main = "draining"
  /\ InFlight = {}
  /\ main' = "stopping"
  /\ UNCHANGED <<signal, runError, serviceVars, requestVars>>

(* shutdownTimeout passes: httpServer.Close drops the connections, which   *)
(* cancels the requests, and waits for none of their handlers.  The mutant *)
(* sets no deadline.                                                       *)
GivesUpMutant == FALSE
GivesUp == InFlight # {}

DrainTimesOut ==
  /\ main = "draining"
  /\ GivesUp
  /\ Patient => InFlight \subseteq {r \in Streams : pc[r] = "handling" /\ ~gone[r]}
  /\ main' = "stopping"
  /\ runError' = TRUE
  /\ gone' = [r \in Requests |-> gone[r] \/ r \in InFlight]
  /\ UNCHANGED <<signal, serviceVars, pc, refused, failures, blamed>>

(* app.Shutdown: dashboardService.Shutdown takes the mutex.  main returns  *)
(* after that, or at its own deadline, and the process is gone.            *)
Stop ==
  /\ main = "stopping"
  /\ \/ owner = Nobody /\ stopped' = active
     \/ owner # Nobody /\ UNCHANGED stopped
  /\ main' = "exited"
  /\ UNCHANGED <<signal, runError, active, owner, handler, monitors, requestVars>>

-----------------------------------------------------------------------------
(* Requests.                                                               *)

Arrive(r) ==
  /\ main = "serving"
  /\ pc[r] = "none"
  /\ pc' = [pc EXCEPT ![r] = "accepted"]
  /\ UNCHANGED <<processVars, serviceVars, gone, refused, failures, blamed>>

Disconnect(r) ==
  /\ main # "exited"
  /\ r \in InFlight
  /\ ~gone[r]
  /\ gone' = [gone EXCEPT ![r] = TRUE]
  /\ UNCHANGED <<processVars, serviceVars, pc, refused, failures, blamed>>

Refuse(r) ==
  /\ pc' = [pc EXCEPT ![r] = "done"]
  /\ refused' = refused \cup {r}

Initialized == handler

(* The mutant remembers that the first analysis failed. *)
MayInitializeMutant == active /\ ~ServiceDone /\ blamed = {}
MayInitialize == active /\ ~ServiceDone

(* initialize takes the mutex, whether or not the client is still there. *)
Enter(r) ==
  /\ main # "exited"
  /\ pc[r] = "accepted"
  /\ owner = Nobody
  /\ \/ Initialized /\ pc' = [pc EXCEPT ![r] = "handling"] /\ UNCHANGED <<owner, refused>>
     \/ ~Initialized /\ MayInitialize
        /\ pc' = [pc EXCEPT ![r] = "initializing"] /\ owner' = r /\ UNCHANGED refused
     \/ ~Initialized /\ ~MayInitialize /\ Refuse(r) /\ UNCHANGED owner
  /\ UNCHANGED <<processVars, active, stopped, handler, monitors, gone, failures, blamed>>

(* The mutant returns without the deferred Unlock. *)
UnlockedMutant == owner
Unlocked == Nobody

(* newGraphMonitor runs under the context of the request. *)
InitializeFails(r) ==
  /\ main # "exited"
  /\ pc[r] = "initializing"
  /\ IF gone[r] THEN UNCHANGED failures
                ELSE failures < MaxFailures /\ failures' = failures + 1
  /\ blamed' = blamed \cup {r}
  /\ Refuse(r)
  /\ owner' = Unlocked
  /\ UNCHANGED <<processVars, active, stopped, handler, monitors, gone>>

(* The monitor starts under service.ctx, even if that is done by now. *)
InitializeSucceeds(r) ==
  /\ main # "exited"
  /\ pc[r] = "initializing"
  /\ handler' = TRUE
  /\ monitors' = monitors + 1
  /\ pc' = [pc EXCEPT ![r] = "handling"]
  /\ owner' = Nobody
  /\ UNCHANGED <<processVars, active, stopped, gone, refused, failures, blamed>>

(* A stream ends with its context, any other call by itself. *)
Answer(r) ==
  /\ main # "exited"
  /\ pc[r] = "handling"
  /\ r \in Streams => gone[r]
  /\ pc' = [pc EXCEPT ![r] = "done"]
  /\ UNCHANGED <<processVars, serviceVars, gone, refused, failures, blamed>>

(* The mutant runs the monitor under the context of the first request. *)
MonitorDoneMutant == ServiceDone \/ \E r \in Requests : pc[r] = "done"
MonitorDone == ServiceDone

MonitorReturns ==
  /\ main # "exited"
  /\ MonitorDone
  /\ monitors > 0
  /\ monitors' = monitors - 1
  /\ UNCHANGED <<processVars, active, stopped, owner, handler, requestVars>>

Main == Activate \/ Serve \/ Drain \/ Drained \/ DrainTimesOut \/ Stop
Work(r) == InitializeFails(r) \/ InitializeSucceeds(r) \/ Answer(r)

Next ==
  \/ Signal \/ Main \/ AcceptFails \/ MonitorReturns
  \/ \E r \in Requests : Arrive(r) \/ Disconnect(r) \/ Enter(r) \/ Work(r)

(* Goroutines run, analyses end, timers fire, and a sync.Mutex that is     *)
(* released again and again is granted to every waiter.                    *)
Fairness ==
  /\ WF_vars(Main) /\ WF_vars(MonitorReturns)
  /\ \A r \in Requests : SF_vars(Enter(r)) /\ WF_vars(Work(r))

Spec == Init /\ [][Next]_vars /\ Fairness

-----------------------------------------------------------------------------
(* A dashboard that serves a graph refreshes it: as long as its context is *)
(* live, exactly one monitor runs behind the handler, and none before,     *)
(* however many first requests raced, failed or were abandoned.            *)
OneMonitor == ~ServiceDone => monitors = IF handler THEN 1 ELSE 0

(* A request is refused for its own failure, or because the process is     *)
(* told to stop, never for the failure or the departure of another one.    *)
RefusedForCause == [][\A r \in refused' \ refused : r \in blamed' \/ ServiceDone]_refused

(* A request to a running server is answered; a stream may go on. *)
RequestsEnd ==
  \A r \in Requests :
    pc[r] = "accepted" ~> \/ pc[r] = "done" \/ main = "exited"
                          \/ r \in Streams /\ pc[r] = "handling"

(* The process ends after the signal, with streams open or a first         *)
(* analysis under way.                                                     *)
SignalEnds == signal ~> main = "exited"

(* Serve reports no error after cancellation: server_test.go runs it with  *)
(* a handler that has returned, and this property with any handler.  One   *)
(* open WatchGraph stream makes Shutdown run into its deadline.            *)
StopsCleanly == [][main = "draining" => ~runError']_main

=============================================================================
