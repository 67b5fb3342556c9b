------------------------- MODULE ServerLifecycleProofs -------------------------
(***************************************************************************)
(* Proofs about ServerLifecycle, for any number of requests, streams and   *)
(* failing first analyses.                                                 *)
(*                                                                         *)
(* A second monitor could only come from a second first analysis, so the   *)
(* invariant says who may be in one: the owner of the mutex, while there   *)
(* is no handler yet (FirstIsAlone).  The context of the service is done   *)
(* for good once it is done (StopIsLast).                                  *)
(***************************************************************************)
EXTENDS ServerLifecycle, TLAPS

(* The types that the proofs need. *)
Typed ==
  /\ main \in {"starting", "activated", "serving", "draining", "stopping", "exited"}
  /\ signal \in BOOLEAN /\ runError \in BOOLEAN
  /\ active \in BOOLEAN /\ stopped \in BOOLEAN /\ handler \in BOOLEAN
  /\ owner \in Requests \cup {Nobody}
  /\ monitors \in Nat
  /\ pc \in [Requests -> {"none", "accepted", "initializing", "handling", "done"}]

(* Whoever is in the first analysis holds the mutex, before any handler.   *)
FirstIsAlone ==
  \A r \in Requests : pc[r] = "initializing" => owner = r /\ ~handler

StopIsLast == stopped => main = "exited"

(* The server listens only after the dashboard was activated.              *)
ServedIsActive ==
  /\ main \in {"activated", "serving"} => active
  /\ \A r \in Requests : pc[r] # "none" => active

LifecycleInv == Typed /\ FirstIsAlone /\ StopIsLast /\ ServedIsActive /\ OneMonitor

LEMMA InitHolds == Init => LifecycleInv
<1>1. Init => Typed
  <2> SUFFICES ASSUME Init PROVE Typed
    OBVIOUS
  <2>1. pc \in [Requests -> {"none", "accepted", "initializing", "handling", "done"}]
    BY DEF Init
  <2>2. monitors \in Nat /\ owner \in Requests \cup {Nobody}
    BY DEF Init
  <2>3. signal \in BOOLEAN /\ runError \in BOOLEAN /\ active \in BOOLEAN
    BY DEF Init
  <2>4. stopped \in BOOLEAN /\ handler \in BOOLEAN
    BY DEF Init
  <2>5. main = "starting"
    BY DEF Init
  <2> QED
    BY <2>1, <2>2, <2>3, <2>4, <2>5 DEF Typed
<1>2. Init => FirstIsAlone /\ StopIsLast /\ ServedIsActive /\ OneMonitor
  BY DEF Init, FirstIsAlone, StopIsLast, ServedIsActive, OneMonitor
<1> QED
  BY <1>1, <1>2 DEF LifecycleInv

(* The steps of runCommand and of the environment start no analysis.       *)
LEMMA ProcessStep ==
  ASSUME LifecycleInv, Signal \/ Main \/ AcceptFails \/ MonitorReturns
  PROVE  LifecycleInv'
<1> USE DEF LifecycleInv, Typed, FirstIsAlone, StopIsLast, ServedIsActive, OneMonitor,
            ServiceDone, processVars, serviceVars, requestVars
<1>1. CASE Signal
  <2>1. signal' = TRUE
    BY <1>1 DEF Signal
  <2>2. Typed'
    BY <1>1, <2>1 DEF Signal
  <2>3. FirstIsAlone' /\ StopIsLast' /\ ServedIsActive'
    BY <1>1 DEF Signal
  <2>4. OneMonitor'
    BY <2>1
  <2> QED
    BY <2>2, <2>3, <2>4
<1>2. CASE Activate
  BY <1>2 DEF Activate
<1>3. CASE Serve \/ Drain \/ Drained \/ AcceptFails
  <2>1. /\ UNCHANGED <<signal, serviceVars, requestVars>>
        /\ main \in {"activated", "serving", "draining"}
        /\ main' \in {"serving", "draining", "stopping"}
        /\ main' = "serving" => main = "activated"
    BY <1>3 DEF Serve, Drain, Drained, AcceptFails
  <2>2. runError' \in BOOLEAN
    BY <1>3 DEF Serve, Drain, Drained, AcceptFails
  <2>3. UNCHANGED <<active, stopped, owner, handler, monitors, pc>>
    BY <2>1
  <2>4. Typed'
    BY <2>1, <2>2, <2>3
  <2>5. FirstIsAlone' /\ StopIsLast' /\ ServedIsActive'
    BY <2>1, <2>3
  <2>6. OneMonitor'
    BY <2>1, <2>3
  <2> QED
    BY <2>4, <2>5, <2>6
<1>4. CASE DrainTimesOut
  BY <1>4 DEF DrainTimesOut
<1>5. CASE Stop
  BY <1>5 DEF Stop
<1>6. CASE MonitorReturns
  BY <1>6 DEF MonitorReturns, MonitorDone
<1> QED
  BY <1>1, <1>2, <1>3, <1>4, <1>5, <1>6 DEF Main

LEMMA RequestStep ==
  ASSUME LifecycleInv, NEW r \in Requests, Arrive(r) \/ Disconnect(r) \/ Enter(r) \/ Work(r)
  PROVE  LifecycleInv'
<1> USE LifecycleAssumption
    DEF LifecycleInv, Typed, FirstIsAlone, StopIsLast, ServedIsActive, OneMonitor, ServiceDone,
        processVars, serviceVars, requestVars
<1>1. CASE Arrive(r)
  BY <1>1 DEF Arrive
<1>2. CASE Disconnect(r)
  BY <1>2 DEF Disconnect
<1>3. CASE Enter(r)
  BY <1>3 DEF Enter, Initialized, MayInitialize, Refuse
<1>4. CASE InitializeFails(r)
  BY <1>4 DEF InitializeFails, Refuse, Unlocked
<1>5. CASE InitializeSucceeds(r)
  BY <1>5 DEF InitializeSucceeds
<1>6. CASE Answer(r)
  BY <1>6 DEF Answer
<1> QED
  BY <1>1, <1>2, <1>3, <1>4, <1>5, <1>6 DEF Work

LEMMA LifecycleStep == LifecycleInv /\ [Next]_vars => LifecycleInv'
<1>1. LifecycleInv /\ UNCHANGED vars => LifecycleInv'
  BY DEF vars, processVars, serviceVars, requestVars, LifecycleInv, Typed, FirstIsAlone,
         StopIsLast, ServedIsActive, OneMonitor, ServiceDone
<1> QED
  BY <1>1, ProcessStep, RequestStep DEF Next

(* As long as the service is not told to stop, one monitor refreshes the   *)
(* graph behind the handler, and none runs before there is one: for any    *)
(* number of requests that race, fail or leave.                            *)
THEOREM OneMonitorRuns == Spec => []OneMonitor
<1>1. LifecycleInv => OneMonitor
  BY DEF LifecycleInv
<1> QED
  BY <1>1, InitHolds, LifecycleStep, PTL DEF Spec

(* initialize refuses a request for its own failed analysis or because the *)
(* service is told to stop, never for what happened to another request.    *)
THEOREM RefusalsHaveACause == Spec => RefusedForCause
<1> DEFINE Cause == \A r \in refused' \ refused : r \in blamed' \/ ServiceDone
<1>1. LifecycleInv /\ [Next]_vars => [Cause]_refused
  <2> SUFFICES ASSUME LifecycleInv, Next PROVE Cause \/ UNCHANGED refused
    BY DEF vars, requestVars
  <2>1. ASSUME NEW r \in Requests, Enter(r) PROVE Cause \/ UNCHANGED refused
    BY <2>1 DEF Enter, Refuse, MayInitialize, LifecycleInv, ServedIsActive
  <2>2. ASSUME NEW r \in Requests, InitializeFails(r) PROVE Cause
    BY <2>2 DEF InitializeFails, Refuse
  <2>3. ASSUME NEW r \in Requests,
               Arrive(r) \/ Disconnect(r) \/ InitializeSucceeds(r) \/ Answer(r)
        PROVE  UNCHANGED refused
    BY <2>3 DEF Arrive, Disconnect, InitializeSucceeds, Answer
  <2>4. CASE Signal \/ Main \/ AcceptFails \/ MonitorReturns
    BY <2>4 DEF Signal, Main, Activate, Serve, Drain, Drained, DrainTimesOut, Stop, AcceptFails,
                MonitorReturns, requestVars
  <2> QED
    BY <2>1, <2>2, <2>3, <2>4 DEF Next, Work
<1> QED
  BY <1>1, InitHolds, LifecycleStep, PTL DEF Spec, RefusedForCause

=============================================================================
