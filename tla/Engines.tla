-------------------------------- MODULE Engines --------------------------------
(***************************************************************************)
(* The drawing engines of the pages.  An engine is imported on demand, so  *)
(* that it may be created after its surface disappeared or its page was    *)
(* left.                                                                   *)
(*                                                                         *)
(* There are two ways to own one.  A component of its own (type-diagram,   *)
(* dependency-map and strategy-map .component.ts) creates one engine when  *)
(* it is first rendered and is destroyed with its surface.  A page         *)
(* (balance.page.ts, strategy.page.ts) outlives its surfaces: an effect    *)
(* that runs after each rendering creates an engine while it holds none.   *)
(***************************************************************************)
EXTENDS Naturals, FiniteSets

CONSTANTS
  OwnKinds,   \* engines that a component of their own holds
  PageKinds   \* engines that a page holds

Kinds == OwnKinds \cup PageKinds

ASSUME KindAssumption == OwnKinds \cap PageKinds = {}

VARIABLES
  surfaces,  \* the kinds whose surface is on screen
  engines,   \* those in creation, those alive, and failed creations
  remount    \* whether the effect of the page runs again after the next rendering

engineVars == <<surfaces, engines, remount>>

(* hosted: whether its owner exists; onScreen: whether its surface does.   *)
Engine ==
  [kind : Kinds, id : Nat, state : {"importing", "alive", "failed"},
   hosted : BOOLEAN, onScreen : BOOLEAN]

EnginesInit == surfaces = {} /\ engines = {} /\ remount = FALSE

Unused(kind) ==
  CHOOSE n \in 1 .. Cardinality(engines) + 1 : \A e \in engines : e.kind = kind => e.id # n

Created(kind) ==
  [kind |-> kind, id |-> Unused(kind), state |-> "importing", hosted |-> TRUE,
   onScreen |-> TRUE]

IsHeld(e) == e.state = "alive" /\ e.hosted

MissingMutant(shown, kept) ==
  IF \E e \in kept : IsHeld(e) THEN {} ELSE shown \cap PageKinds

(* The page mounts what has a surface and no holder. *)
Missing(shown, kept) ==
  {kind \in shown \cap PageKinds : \A e \in kept : e.kind = kind => ~IsHeld(e)}

(* onDestroy disposes what is alive; a creation in flight finds out later. *)
Disposed(e) == e.state # "importing"

Orphaned(e) == [e EXCEPT !.hosted = FALSE, !.onScreen = FALSE]

Detached(e) == [e EXCEPT !.onScreen = FALSE]

(* What remains of the engines once only the surfaces shown are left. *)
Remaining(shown) ==
  LET gone(e) == e.hosted /\ e.kind \notin shown
      own(e) == e.kind \in OwnKinds IN
    {e \in engines : ~gone(e)}
      \cup {Orphaned(e) : e \in {d \in engines : gone(d) /\ own(d) /\ ~Disposed(d)}}
      \cup {Detached(e) : e \in {d \in engines : gone(d) /\ ~own(d)}}

(* A rendering: components come and go with their surfaces, and the effect *)
(* of the page runs if anything that it read has changed.                  *)
Render(shown) ==
  LET kept == Remaining(shown)
      isDue == remount \/ shown \cap PageKinds # surfaces \cap PageKinds
      mounted == (shown \ surfaces) \cap OwnKinds IN
    /\ surfaces' = shown
    /\ engines' =
         kept \cup {Created(kind) :
                      kind \in mounted \cup (IF isDue THEN Missing(shown, kept) ELSE {})}
    /\ remount' = FALSE

(* The page is destroyed, with the components in it. *)
Leave ==
  /\ surfaces' = {}
  /\ engines' =
       {e \in engines : ~e.hosted}
         \cup {Orphaned(e) : e \in {d \in engines : d.hosted /\ ~Disposed(d)}}
  /\ remount' = FALSE

HasHolder(kind) == \E e \in engines : e.kind = kind /\ IsHeld(e)

IsAdoptedMutant(e) == e.kind \in OwnKinds \/ ~HasHolder(e.kind)

(* `then` after a creation: an engine that came too late is disposed. *)
IsAdopted(e) == e.hosted /\ (e.kind \in PageKinds => ~HasHolder(e.kind))

CreationEnds(e) ==
  /\ e \in engines
  /\ e.state = "importing"
  /\ engines' =
       (engines \ {e}) \cup (IF IsAdopted(e) THEN {[e EXCEPT !.state = "alive"]} ELSE {})
  /\ remount' = (remount \/ (IsAdopted(e) /\ e.kind \in PageKinds))
  /\ UNCHANGED surfaces

CreationFailsMutant(e) ==
  /\ e \in engines
  /\ e.state = "importing"
  /\ engines' = engines \ {e}
  /\ remount' = e.hosted
  /\ UNCHANGED surfaces

CreationFails(e) ==
  /\ e \in engines
  /\ e.state = "importing"
  /\ engines' =
       (engines \ {e}) \cup (IF e.hosted THEN {[e EXCEPT !.state = "failed"]} ELSE {})
  /\ UNCHANGED <<surfaces, remount>>

(* A reload of the tab ends every engine and every creation. *)
EnginesRestart == surfaces' = {} /\ engines' = {} /\ remount' = FALSE

EnginesNext ==
  \/ \E shown \in SUBSET Kinds : Render(shown)
  \/ Leave
  \/ EnginesRestart
  \/ \E e \in engines : CreationEnds(e) \/ CreationFails(e)

EnginesSpec == EnginesInit /\ [][EnginesNext]_engineVars

-----------------------------------------------------------------------------
(* No engine outlives its owner, which alone could dispose it, and no owner*)
(* has two: not when a page is left while one is created, and not when two *)
(* creations for one holder overlap.                                       *)
NoEngineLeaks ==
  /\ \A e \in engines : e.state = "alive" => e.hosted
  /\ \A d, e \in engines : d.kind = e.kind /\ IsHeld(d) /\ IsHeld(e) => d = e

=============================================================================
