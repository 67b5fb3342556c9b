------------------------------- MODULE TypesStore -------------------------------
(***************************************************************************)
(* The types of one component as the console holds them                    *)
(* (kernel/graph/component-types.store.ts).  Calls of GetComponentTypes    *)
(* are concurrent, their answers arrive in any order.  The server answers  *)
(* with the types of the component that was asked for, or fails.           *)
(***************************************************************************)
EXTENDS Naturals

CONSTANTS
  TypePaths,     \* identifiers of components
  NoPath,        \* the empty string
  NoType,        \* the empty string, where the identifier of a type is expected
  TypesOf(_),    \* the types that a component declares
  IncomingOf(_)  \* the relations that reach them from other components

ASSUME TypePathAssumption == NoPath \notin TypePaths

VARIABLES
  loadSequence,
  calls,          \* the calls in flight: their sequence and what they ask for
  componentId,
  typesState,
  incomingState,
  selectedId,
  collapsedState,
  loading,
  failed          \* whether error() is not empty

storeVars ==
  <<loadSequence, calls, componentId, typesState, incomingState, selectedId, collapsedState,
    loading, failed>>

StoreInit ==
  /\ loadSequence = 0
  /\ calls = {}
  /\ componentId = NoPath
  /\ typesState = {}
  /\ incomingState = {}
  /\ selectedId = NoType
  /\ collapsedState = {}
  /\ loading = FALSE
  /\ failed = FALSE

(* The store of a reloaded tab. *)
StoreRestarts ==
  /\ loadSequence' = 0
  /\ calls' = {}
  /\ componentId' = NoPath
  /\ typesState' = {}
  /\ incomingState' = {}
  /\ selectedId' = NoType
  /\ collapsedState' = {}
  /\ loading' = FALSE
  /\ failed' = FALSE

IsNoLoad(path) == path = NoPath \/ path = componentId

(* load, up to its await. *)
load(path) ==
  IF IsNoLoad(path) THEN UNCHANGED storeVars
  ELSE /\ loadSequence' = loadSequence + 1
       /\ calls' = calls \cup {[sequence |-> loadSequence + 1, componentId |-> path]}
       /\ componentId' = path
       /\ selectedId' = NoType
       /\ collapsedState' = {}
       /\ loading' = TRUE
       /\ UNCHANGED <<typesState, incomingState, failed>>

IsSupersededMutant(call) == FALSE

IsSuperseded(call) == call.sequence # loadSequence

(* load, from its await on. *)
LoadAnswered(call) ==
  /\ call \in calls
  /\ calls' = calls \ {call}
  /\ IF IsSuperseded(call)
       THEN UNCHANGED <<typesState, incomingState, collapsedState, failed, loading>>
       ELSE /\ typesState' = TypesOf(call.componentId)
            /\ incomingState' = IncomingOf(call.componentId)
            /\ collapsedState' = {d.id : d \in TypesOf(call.componentId)}
            /\ failed' = FALSE
            /\ loading' = FALSE
  /\ UNCHANGED <<loadSequence, componentId, selectedId>>

LoadFails(call) ==
  /\ call \in calls
  /\ calls' = calls \ {call}
  /\ IF IsSuperseded(call)
       THEN UNCHANGED <<typesState, incomingState, failed, loading>>
       ELSE /\ typesState' = {}
            /\ incomingState' = {}
            /\ failed' = TRUE
            /\ loading' = FALSE
  /\ UNCHANGED <<loadSequence, componentId, selectedId, collapsedState>>

selectType(id) ==
  /\ selectedId' = id
  /\ UNCHANGED <<loadSequence, calls, componentId, typesState, incomingState, collapsedState,
                 loading, failed>>

closeDetail == selectType(NoType)

toggleCollapsed(id) ==
  /\ collapsedState' =
       IF id \in collapsedState THEN collapsedState \ {id} ELSE collapsedState \cup {id}
  /\ UNCHANGED <<loadSequence, calls, componentId, typesState, incomingState, selectedId,
                 loading, failed>>

(* Only what is drawn can be clicked: the canvas is hidden while a load is *)
(* in flight, and the detail panel closes as a load starts.                *)
Select == ~loading /\ \E d \in typesState : selectType(d.id)
Toggle == ~loading /\ \E d \in typesState : toggleCollapsed(d.id)

StoreNext ==
  \/ \E path \in TypePaths \cup {NoPath} : load(path)
  \/ \E call \in calls : LoadAnswered(call) \/ LoadFails(call)
  \/ Select
  \/ Toggle
  \/ closeDetail
  \/ StoreRestarts

StoreSpec == StoreInit /\ [][StoreNext]_storeVars

-----------------------------------------------------------------------------
HoldsTypesOf(path) == typesState = TypesOf(path) /\ incomingState = IncomingOf(path)

selectedType == {d \in typesState : d.id = selectedId}

selectedIncoming == {r \in incomingState : r.targetId = selectedId}

(* Whatever order the answers of overlapping loads arrive in: once nothing *)
(* is loading, the store holds the types of the component that was asked   *)
(* for last, or none after a failure; and a type whose details are open is *)
(* one of that component, and not of the one the reader came from.         *)
TypesOfTheComponent ==
  /\ ~loading /\ componentId # NoPath =>
       IF failed THEN typesState = {} /\ incomingState = {} ELSE HoldsTypesOf(componentId)
  /\ loading => selectedId = NoType
  /\ selectedId # NoType => selectedId \in {d.id : d \in TypesOf(componentId)}

=============================================================================
