--------------------------- MODULE ConsolePagesProofs ---------------------------
(***************************************************************************)
(* Proofs about the console's pages, for any tours, types and kinds of     *)
(* surfaces.  First the engines by themselves:  NoEngineLeaks says nothing *)
(* of creations in flight, and the two ways to own an engine keep it apart *)
(* from each other: a component of its own has one engine from the start   *)
(* (OneOwned), because it appears and disappears with its surface          *)
(* (OwnOnScreen); a page may start several creations for one surface and   *)
(* adopts one of them (OneHolder).                                         *)
(*                                                                         *)
(* Then every step of the pages does with the engines what Engines allows, *)
(* or leaves them alone: so what is proved of the engines by themselves    *)
(* holds of the console.                                                   *)
(*                                                                         *)
(* The types store comes in the same way.  By itself it has one load that  *)
(* counts, the last one (CallsInv).  That the console asks of it only what *)
(* the store allows takes three facts of the console that no part of it    *)
(* checks: addresses name components (AddressesAim), what is selected and  *)
(* collapsed are types that are there (TypesAreNamed), and the canvas is   *)
(* filled while it is on screen (CanvasIsFilled).  The last part is the    *)
(* diagram: the layout of any declared types puts each on the canvas once  *)
(* and apart from the others, which with the store makes every diagram on  *)
(* display closed.                                                         *)
(***************************************************************************)
EXTENDS ConsolePages, OrdersProofs

Call == [sequence : Nat, componentId : TypePaths]

CallsInv ==
  /\ loadSequence \in Nat
  /\ componentId \in TypePaths \cup {NoPath}
  /\ loading \in BOOLEAN
  /\ failed \in BOOLEAN
  /\ calls \subseteq Call
  /\ \A c \in calls : c.sequence <= loadSequence
  /\ \A c, d \in calls : c.sequence = d.sequence => c = d
  /\ \A c \in calls : c.sequence = loadSequence => c.componentId = componentId
  /\ loading <=> \E c \in calls : c.sequence = loadSequence

(* Before the first load there is nothing to select. *)
NothingYet == componentId = NoPath => typesState = {}

StoreInv == CallsInv /\ NothingYet /\ TypesOfTheComponent

LEMMA InitStore == StoreInit => StoreInv
<1> SUFFICES ASSUME StoreInit PROVE StoreInv
  OBVIOUS
<1>1. CallsInv
  BY DEF StoreInit, CallsInv
<1>2. NothingYet /\ TypesOfTheComponent
  BY DEF StoreInit, NothingYet, TypesOfTheComponent
<1> QED
  BY <1>1, <1>2 DEF StoreInv

(* A load hands the newest sequence to its call and shows nothing selected.*)
LEMMA LoadStep ==
  ASSUME NEW path \in TypePaths \cup {NoPath}, StoreInv, load(path)
  PROVE  StoreInv'
<1>1. CASE IsNoLoad(path)
  BY <1>1 DEF load, StoreInv, CallsInv, NothingYet, TypesOfTheComponent, HoldsTypesOf, storeVars
<1>2. CASE ~IsNoLoad(path)
  <2> DEFINE call == [sequence |-> loadSequence + 1, componentId |-> path]
  <2>1. /\ path \in TypePaths /\ call \in Call /\ loadSequence \in Nat
    BY <1>2 DEF IsNoLoad, StoreInv, CallsInv, Call
  <2>2. /\ loadSequence' = loadSequence + 1
        /\ calls' = calls \cup {call}
        /\ componentId' = path /\ selectedId' = NoType /\ loading' = TRUE
        /\ UNCHANGED failed
    BY <1>2 DEF load
  <2>3. \A c \in calls : c.sequence \in Nat /\ c.sequence <= loadSequence
    BY DEF StoreInv, CallsInv, Call
  <2>4. \A c \in calls : c.sequence < loadSequence'
    BY <2>1, <2>2, <2>3
  <2>5. CallsInv'
    BY <2>1, <2>2, <2>3, <2>4 DEF StoreInv, CallsInv
  <2> QED
    BY TypePathAssumption, <2>1, <2>2, <2>5 DEF StoreInv, NothingYet, TypesOfTheComponent
<1> QED
  BY <1>1, <1>2

(* A call that leaves keeps what CallsInv says of the others; loading ends *)
(* with the call that carries the last sequence.                           *)
LEMMA CallLeaves ==
  ASSUME CallsInv, NEW call \in calls,
         calls' = calls \ {call},
         UNCHANGED <<loadSequence, componentId>>,
         failed' \in BOOLEAN,
         loading' = IF IsSuperseded(call) THEN loading ELSE FALSE
  PROVE  CallsInv'
<1>1. CASE IsSuperseded(call)
  BY <1>1 DEF CallsInv, IsSuperseded
<1>2. CASE ~IsSuperseded(call)
  <2>1. \A c \in calls' : c.sequence # loadSequence
    BY <1>2 DEF CallsInv, IsSuperseded
  <2> QED
    BY <1>2, <2>1 DEF CallsInv
<1> QED
  BY <1>1, <1>2

LEMMA AnswerStep ==
  ASSUME NEW call \in calls, StoreInv, LoadAnswered(call)
  PROVE  StoreInv'
<1>1. CallsInv'
  BY CallLeaves DEF StoreInv, CallsInv, LoadAnswered
<1>2. CASE IsSuperseded(call)
  BY <1>1, <1>2 DEF StoreInv, LoadAnswered, NothingYet, TypesOfTheComponent, HoldsTypesOf
<1>3. CASE ~IsSuperseded(call)
  <2>1. call.componentId = componentId /\ loading /\ componentId # NoPath
    BY <1>3, TypePathAssumption DEF StoreInv, CallsInv, IsSuperseded, Call
  <2>2. selectedId' = NoType /\ loading' = FALSE /\ failed' = FALSE /\ componentId' = componentId
    BY <1>3, <2>1 DEF StoreInv, LoadAnswered, TypesOfTheComponent
  <2>3. typesState' = TypesOf(componentId) /\ incomingState' = IncomingOf(componentId)
    BY <1>3, <2>1 DEF LoadAnswered
  <2> QED
    BY <1>1, <2>1, <2>2, <2>3 DEF StoreInv, NothingYet, TypesOfTheComponent, HoldsTypesOf
<1> QED
  BY <1>2, <1>3

LEMMA FailureStep ==
  ASSUME NEW call \in calls, StoreInv, LoadFails(call)
  PROVE  StoreInv'
<1>1. CallsInv'
  BY CallLeaves DEF StoreInv, CallsInv, LoadFails
<1>2. CASE IsSuperseded(call)
  BY <1>1, <1>2 DEF StoreInv, LoadFails, NothingYet, TypesOfTheComponent, HoldsTypesOf
<1>3. CASE ~IsSuperseded(call)
  BY <1>1, <1>3 DEF StoreInv, CallsInv, IsSuperseded, LoadFails, NothingYet, TypesOfTheComponent, HoldsTypesOf
<1> QED
  BY <1>2, <1>3

(* Selecting and closing touch no call; what is selected is a type on      *)
(* display, and with no load in flight that is one of the component.       *)
LEMMA SelectStep == StoreInv /\ Select => StoreInv'
<1> SUFFICES ASSUME StoreInv, Select PROVE StoreInv'
  OBVIOUS
<1>1. PICK d \in typesState : ~loading /\ selectType(d.id)
  BY DEF Select
<1>2. CallsInv'
  BY <1>1 DEF StoreInv, CallsInv, selectType
<1>3. componentId # NoPath => d \in TypesOf(componentId)
  BY <1>1 DEF StoreInv, NothingYet, TypesOfTheComponent, HoldsTypesOf
<1> QED
  BY <1>1, <1>2, <1>3 DEF StoreInv, NothingYet, TypesOfTheComponent, HoldsTypesOf, selectType

LEMMA CloseStep == StoreInv /\ closeDetail => StoreInv'
<1> SUFFICES ASSUME StoreInv, closeDetail PROVE StoreInv'
  OBVIOUS
<1>1. selectedId' = NoType
      /\ UNCHANGED <<loadSequence, calls, componentId, typesState, incomingState, loading, failed>>
  BY DEF closeDetail, selectType
<1>2. CallsInv'
  BY <1>1 DEF StoreInv, CallsInv
<1> QED
  BY <1>1, <1>2 DEF StoreInv, NothingYet, TypesOfTheComponent, HoldsTypesOf

LEMMA UnseenStep ==
  StoreInv /\ UNCHANGED <<loadSequence, calls, componentId, typesState, incomingState,
                          selectedId, loading, failed>> => StoreInv'
BY DEF StoreInv, CallsInv, NothingYet, TypesOfTheComponent, HoldsTypesOf

LEMMA StoreStep == StoreInv /\ [StoreNext]_storeVars => StoreInv'
<1> SUFFICES ASSUME StoreInv, [StoreNext]_storeVars PROVE StoreInv'
  OBVIOUS
<1>1. CASE \E path \in TypePaths \cup {NoPath} : load(path)
  BY <1>1, LoadStep
<1>2. CASE \E call \in calls : LoadAnswered(call) \/ LoadFails(call)
  BY <1>2, AnswerStep, FailureStep
<1>3. CASE Select
  BY <1>3, SelectStep
<1>4. CASE Toggle
  BY <1>4, UnseenStep DEF Toggle, toggleCollapsed
<1>5. CASE closeDetail
  BY <1>5, CloseStep
<1>6. CASE StoreRestarts
  BY <1>6 DEF StoreRestarts, StoreInv, CallsInv, NothingYet, TypesOfTheComponent
<1>7. CASE UNCHANGED storeVars
  BY <1>7, UnseenStep DEF storeVars
<1> QED
  BY <1>1, <1>2, <1>3, <1>4, <1>5, <1>6, <1>7 DEF StoreNext

(* Whatever order answers and failures come in, for any components and any *)
(* number of overlapping loads: a store at rest holds the types of the     *)
(* component on display, and an open detail is of that component.          *)
THEOREM TypesAreOfTheComponent == StoreSpec => []TypesOfTheComponent
<1>1. StoreInv => TypesOfTheComponent
  BY DEF StoreInv
<1> QED
  BY <1>1, InitStore, StoreStep, PTL DEF StoreSpec

-----------------------------------------------------------------------------
(* An engine, whatever number tells it from the others. *)
IsEngine(e) ==
  e \in [kind : Kinds, id : {e.id}, state : {"importing", "alive", "failed"},
         hosted : BOOLEAN, onScreen : BOOLEAN]

Shaped == \A e \in engines : IsEngine(e)

AliveIsHosted == \A e \in engines : e.state = "alive" => e.hosted

OneHolder == \A d, e \in engines : d.kind = e.kind /\ IsHeld(d) /\ IsHeld(e) => d = e

OwnOnScreen == \A e \in engines : e.kind \in OwnKinds /\ e.hosted => e.kind \in surfaces

OneOwned ==
  \A d, e \in engines :
    d.kind \in OwnKinds /\ d.kind = e.kind /\ d.hosted /\ e.hosted => d = e

EnginesInv == Shaped /\ AliveIsHosted /\ OneHolder /\ OwnOnScreen /\ OneOwned

(* What becomes of an engine that was alive or in creation changes neither *)
(* its kind nor its state.                                                 *)
LEMMA Reshaped ==
  ASSUME NEW e, IsEngine(e)
  PROVE  /\ IsEngine(Orphaned(e)) /\ Orphaned(e).kind = e.kind
         /\ Orphaned(e).state = e.state /\ ~Orphaned(e).hosted
         /\ IsEngine(Detached(e)) /\ Detached(e).kind = e.kind
         /\ Detached(e).state = e.state /\ Detached(e).hosted = e.hosted
<1> DEFINE Engines(id) == [kind : Kinds, id : {id}, state : {"importing", "alive", "failed"},
                           hosted : BOOLEAN, onScreen : BOOLEAN]
<1>1. e \in Engines(e.id)
  BY DEF IsEngine
<1>2. /\ Orphaned(e) \in Engines(e.id) /\ Orphaned(e).id = e.id
      /\ Orphaned(e).kind = e.kind /\ Orphaned(e).state = e.state /\ ~Orphaned(e).hosted
  BY <1>1 DEF Orphaned
<1>3. /\ Detached(e) \in Engines(e.id) /\ Detached(e).id = e.id
      /\ Detached(e).kind = e.kind /\ Detached(e).state = e.state
      /\ Detached(e).hosted = e.hosted
  BY <1>1 DEF Detached
<1> QED
  BY <1>2, <1>3 DEF IsEngine

LEMMA CreatedIsEngine ==
  ASSUME NEW kind \in Kinds
  PROVE  /\ IsEngine(Created(kind)) /\ Created(kind).kind = kind
         /\ Created(kind).state = "importing" /\ Created(kind).hosted
BY DEF IsEngine, Created

(* What remains after a rendering came from one engine, as it was, without *)
(* an owner, or without a surface.                                         *)
LEMMA RemainingComesFrom ==
  ASSUME NEW shown, EnginesInv, NEW r \in Remaining(shown)
  PROVE  \E e \in engines :
           /\ r.kind = e.kind /\ r.state = e.state /\ IsEngine(r)
           /\ \/ r = e /\ (e.hosted => e.kind \in shown)
              \/ r = Orphaned(e) /\ ~r.hosted /\ r.state # "alive"
              \/ r = Detached(e) /\ e.hosted /\ r.hosted /\ e.kind \notin shown
                   /\ e.kind \notin OwnKinds
<1> USE DEF EnginesInv, Shaped
<1>1. CASE r \in engines /\ ~(r.hosted /\ r.kind \notin shown)
  BY <1>1
<1>2. ASSUME NEW e \in engines, r = Orphaned(e), ~Disposed(e)
      PROVE  r.kind = e.kind /\ r.state = e.state /\ IsEngine(r) /\ ~r.hosted /\ r.state # "alive"
  BY <1>2, Reshaped DEF Disposed
<1>3. ASSUME NEW e \in engines, r = Detached(e), e.hosted
      PROVE  r.kind = e.kind /\ r.state = e.state /\ IsEngine(r) /\ r.hosted
  BY <1>3, Reshaped
<1>4. \/ r \in engines /\ ~(r.hosted /\ r.kind \notin shown)
      \/ \E e \in engines : r = Orphaned(e) /\ ~Disposed(e)
      \/ \E e \in engines : r = Detached(e) /\ e.hosted /\ e.kind \notin shown
                              /\ e.kind \notin OwnKinds
  BY DEF Remaining
<1> QED
  BY <1>1, <1>2, <1>3, <1>4

(* A rendering creates engines only for surfaces on screen, and those of   *)
(* components of their own only for surfaces that were not there before.   *)
LEMMA RenderedComesFrom ==
  ASSUME NEW shown \in SUBSET Kinds, Render(shown), NEW x \in engines'
  PROVE  \/ x \in Remaining(shown)
         \/ \E kind \in shown : x = Created(kind) /\ (kind \in OwnKinds => kind \notin surfaces)
<1>1. \/ x \in Remaining(shown)
      \/ \E kind \in (shown \ surfaces) \cap OwnKinds : x = Created(kind)
      \/ \E kind \in Missing(shown, Remaining(shown)) : x = Created(kind)
  BY DEF Render
<1>2. Missing(shown, Remaining(shown)) \subseteq shown \ OwnKinds
  BY KindAssumption DEF Missing
<1> QED
  BY <1>1, <1>2

LEMMA RenderStep ==
  ASSUME NEW shown \in SUBSET Kinds, EnginesInv, Render(shown)
  PROVE  EnginesInv'
<1> DEFINE IsNew(x) == /\ IsEngine(x) /\ x.state = "importing" /\ x.hosted
                       /\ x.kind \in shown /\ x = Created(x.kind)
                       /\ x.kind \in OwnKinds => x.kind \notin surfaces
           IsKept(x, e) == /\ IsEngine(x) /\ x.kind = e.kind /\ x.state = e.state
                           /\ \/ x = e /\ (e.hosted => e.kind \in shown)
                              \/ ~x.hosted /\ x.state # "alive"
                              \/ /\ x = Detached(e) /\ e.hosted /\ x.hosted
                                 /\ e.kind \notin shown /\ e.kind \notin OwnKinds
<1>1. \A x \in engines' : IsNew(x) \/ \E e \in engines : IsKept(x, e)
  <2> SUFFICES ASSUME NEW x \in engines' PROVE IsNew(x) \/ \E e \in engines : IsKept(x, e)
    OBVIOUS
  <2>1. CASE x \in Remaining(shown)
    BY <2>1, RemainingComesFrom
  <2>2. CASE \E kind \in shown : x = Created(kind) /\ (kind \in OwnKinds => kind \notin surfaces)
    BY <2>2, CreatedIsEngine
  <2> QED
    BY <2>1, <2>2, RenderedComesFrom
<1>2. surfaces' = shown
  BY DEF Render
<1>3. Shaped'
  BY <1>1 DEF Shaped, IsEngine
<1>4. AliveIsHosted'
  BY <1>1 DEF EnginesInv, AliveIsHosted
<1>5. OwnOnScreen'
  BY <1>1, <1>2 DEF OwnOnScreen
<1>6. OneHolder'
  <2> SUFFICES ASSUME NEW c \in engines', NEW d \in engines', c.kind = d.kind,
                      c.state = "alive", c.hosted, d.state = "alive", d.hosted
               PROVE  c = d
    BY DEF OneHolder, IsHeld
  <2>1. PICK a \in engines : IsKept(c, a)
    BY <1>1
  <2>2. PICK b \in engines : IsKept(d, b)
    BY <1>1
  <2>3. a.state = "alive" /\ a.hosted /\ b.state = "alive" /\ b.hosted /\ a.kind = b.kind
    BY <2>1, <2>2
  <2>4. a = b
    BY <2>3 DEF EnginesInv, OneHolder, IsHeld
  <2> QED
    BY <2>1, <2>2, <2>4
<1>7. OneOwned'
  <2> SUFFICES ASSUME NEW c \in engines', NEW d \in engines', c.kind = d.kind,
                      c.kind \in OwnKinds, c.hosted, d.hosted
               PROVE  c = d
    BY DEF OneOwned
  <2>1. CASE IsNew(c) /\ IsNew(d)
    BY <2>1
  <2>2. \A x \in {c, d} : IsNew(x) \/ (x \in engines /\ x.kind \in surfaces)
    BY <1>1 DEF EnginesInv, OwnOnScreen
  <2>3. CASE c \in engines /\ d \in engines
    BY <2>3 DEF EnginesInv, OneOwned
  <2> QED
    BY <2>1, <2>2, <2>3
<1> QED
  BY <1>3, <1>4, <1>5, <1>6, <1>7 DEF EnginesInv

(* Leaving a page keeps only what is still being created, without an owner.*)
LEMMA LeaveStep ==
  ASSUME EnginesInv, Leave
  PROVE  EnginesInv'
<1>1. \A x \in engines' : IsEngine(x) /\ ~x.hosted /\ x.state # "alive"
  <2> SUFFICES ASSUME NEW x \in engines' PROVE IsEngine(x) /\ ~x.hosted /\ x.state # "alive"
    OBVIOUS
  <2>1. CASE x \in engines /\ ~x.hosted
    BY <2>1 DEF EnginesInv, Shaped, AliveIsHosted
  <2>2. CASE \E d \in engines : x = Orphaned(d) /\ ~Disposed(d)
    BY <2>2, Reshaped DEF EnginesInv, Shaped, Disposed
  <2> QED
    BY <2>1, <2>2 DEF Leave
<1> QED
  BY <1>1 DEF EnginesInv, Shaped, AliveIsHosted, OneHolder, OwnOnScreen, OneOwned, IsHeld, IsEngine

(* An engine that is created after its owner is gone, or for an owner that *)
(* holds one, is dropped at once.                                          *)
LEMMA CreationEndsStep ==
  ASSUME NEW e, EnginesInv, CreationEnds(e)
  PROVE  EnginesInv'
<1> DEFINE alive == [e EXCEPT !.state = "alive"]
<1>1. e \in engines /\ IsEngine(e) /\ e.state = "importing" /\ surfaces' = surfaces
  BY DEF CreationEnds, EnginesInv, Shaped
<1>2. IsEngine(alive) /\ alive.kind = e.kind /\ alive.hosted = e.hosted /\ alive.state = "alive"
  BY <1>1 DEF IsEngine
<1>3. CASE ~IsAdopted(e)
  <2>1. engines' \subseteq engines
    BY <1>3 DEF CreationEnds
  <2> QED
    BY <1>1, <2>1 DEF EnginesInv, Shaped, AliveIsHosted, OneHolder, OwnOnScreen, OneOwned, IsHeld,
                      IsEngine
<1>4. CASE IsAdopted(e)
  <2>1. \A x \in engines' : (x \in engines /\ x # e) \/ x = alive
    BY <1>4 DEF CreationEnds
  <2>2. e.hosted
    BY <1>4 DEF IsAdopted
  <2>3. \A d \in engines : d.kind = e.kind /\ IsHeld(d) => FALSE
    <3> SUFFICES ASSUME NEW d \in engines, d.kind = e.kind, IsHeld(d) PROVE FALSE
      OBVIOUS
    <3>1. CASE e.kind \in PageKinds
      BY <1>4, <3>1 DEF IsAdopted, HasHolder
    <3>2. CASE e.kind \in OwnKinds
      BY <1>1, <2>2, <3>2 DEF EnginesInv, OneOwned, IsHeld
    <3> QED
      BY <1>1, <3>1, <3>2 DEF IsEngine, Kinds
  <2>4. Shaped' /\ AliveIsHosted'
    BY <1>2, <2>1, <2>2 DEF EnginesInv, Shaped, AliveIsHosted, IsEngine
  <2>5. OneHolder'
    BY <1>2, <2>1, <2>3 DEF EnginesInv, OneHolder, IsHeld
  <2>6. OwnOnScreen'
    BY <1>1, <1>2, <2>1, <2>2 DEF EnginesInv, OwnOnScreen
  <2>7. OneOwned'
    BY <1>1, <1>2, <2>1, <2>2 DEF EnginesInv, OneOwned
  <2> QED
    BY <2>4, <2>5, <2>6, <2>7 DEF EnginesInv
<1> QED
  BY <1>3, <1>4

LEMMA CreationFailsStep ==
  ASSUME NEW e, EnginesInv, CreationFails(e)
  PROVE  EnginesInv'
<1> DEFINE broken == [e EXCEPT !.state = "failed"]
<1>1. e \in engines /\ IsEngine(e) /\ surfaces' = surfaces
  BY DEF CreationFails, EnginesInv, Shaped
<1>2. IsEngine(broken) /\ broken.kind = e.kind /\ broken.hosted = e.hosted
      /\ broken.state = "failed"
  BY <1>1 DEF IsEngine
<1>3. \A x \in engines' : (x \in engines /\ x # e) \/ x = broken
  BY DEF CreationFails
<1>4. Shaped' /\ AliveIsHosted'
  BY <1>2, <1>3 DEF EnginesInv, Shaped, AliveIsHosted, IsEngine
<1>5. OneHolder'
  BY <1>2, <1>3 DEF EnginesInv, OneHolder, IsHeld
<1>6. OwnOnScreen'
  BY <1>1, <1>2, <1>3 DEF EnginesInv, OwnOnScreen
<1>7. OneOwned'
  BY <1>1, <1>2, <1>3 DEF EnginesInv, OneOwned
<1> QED
  BY <1>4, <1>5, <1>6, <1>7 DEF EnginesInv

(* Every surface has an engine whose owner is there: in creation, alive or *)
(* failed.  That of a component of its own is drawn on the surface; that of*)
(* a page may be one that it still holds from an earlier surface.          *)
EachIsServed ==
  \A kind \in surfaces :
    \E e \in engines : e.kind = kind /\ e.hosted /\ (kind \in OwnKinds => e.onScreen)

LEMMA RenderServes ==
  ASSUME NEW shown \in SUBSET Kinds, EnginesInv, EachIsServed, Render(shown)
  PROVE  EachIsServed'
<1> SUFFICES ASSUME NEW kind \in shown
             PROVE  \E e \in engines' : e.kind = kind /\ e.hosted /\ (kind \in OwnKinds => e.onScreen)
  BY DEF EachIsServed, Render
<1>1. Remaining(shown) \subseteq engines'
  BY DEF Render
<1>2. Created(kind).kind = kind /\ Created(kind).hosted /\ Created(kind).onScreen
  BY DEF Created
<1>3. CASE kind \in surfaces
  <2>1. PICK e \in engines : e.kind = kind /\ e.hosted /\ (kind \in OwnKinds => e.onScreen)
    BY <1>3 DEF EachIsServed
  <2>2. e \in Remaining(shown)
    BY <2>1 DEF Remaining
  <2> QED
    BY <1>1, <2>1, <2>2
<1>4. CASE kind \notin surfaces /\ kind \in OwnKinds
  <2>1. Created(kind) \in engines'
    BY <1>4 DEF Render
  <2> QED
    BY <1>2, <2>1
<1>5. CASE kind \notin surfaces /\ kind \notin OwnKinds
  <2>1. kind \in PageKinds /\ shown \cap PageKinds # surfaces \cap PageKinds
    BY <1>5 DEF Kinds
  <2>2. CASE kind \in Missing(shown, Remaining(shown))
    <3>1. Created(kind) \in engines'
      BY <2>1, <2>2 DEF Render
    <3> QED
      BY <1>2, <1>5, <3>1
  <2>3. CASE kind \notin Missing(shown, Remaining(shown))
    BY <1>1, <1>5, <2>1, <2>3 DEF Missing, IsHeld
  <2> QED
    BY <2>2, <2>3
<1> QED
  BY <1>3, <1>4, <1>5

(* A creation that is not adopted has a holder before it.                  *)
LEMMA CreationServes ==
  ASSUME NEW e, EnginesInv, EachIsServed, CreationEnds(e) \/ CreationFails(e)
  PROVE  EachIsServed'
<1> DEFINE Serves(x, kind) == x.kind = kind /\ x.hosted /\ (kind \in OwnKinds => x.onScreen)
<1>1. e \in engines /\ IsEngine(e) /\ surfaces' = surfaces /\ e.state = "importing"
  BY DEF CreationEnds, CreationFails, EnginesInv, Shaped
<1>2. ASSUME NEW state \in {"alive", "failed"}, NEW kind, Serves(e, kind)
      PROVE  Serves([e EXCEPT !.state = state], kind)
  BY <1>1, <1>2 DEF IsEngine
<1>3. SUFFICES ASSUME NEW kind \in surfaces PROVE \E x \in engines' : Serves(x, kind)
  BY <1>1 DEF EachIsServed
<1>4. PICK d \in engines : Serves(d, kind)
  BY DEF EachIsServed
<1>5. CASE d # e
  BY <1>4, <1>5 DEF CreationEnds, CreationFails
<1>6. CASE d = e /\ CreationEnds(e) /\ IsAdopted(e)
  <2>1. [e EXCEPT !.state = "alive"] \in engines'
    BY <1>6 DEF CreationEnds
  <2> QED
    BY <1>2, <1>4, <1>6, <2>1
<1>7. CASE d = e /\ CreationEnds(e) /\ ~IsAdopted(e)
  <2>1. e.kind \in PageKinds /\ HasHolder(e.kind)
    BY <1>4, <1>7 DEF IsAdopted
  <2>2. PICK h \in engines : h.kind = e.kind /\ IsHeld(h)
    BY <2>1 DEF HasHolder
  <2>3. h # e /\ Serves(h, kind)
    BY <1>1, <1>4, <1>7, <2>1, <2>2, KindAssumption DEF IsHeld
  <2> QED
    BY <1>7, <2>3 DEF CreationEnds
<1>8. CASE d = e /\ CreationFails(e)
  <2>1. [e EXCEPT !.state = "failed"] \in engines'
    BY <1>4, <1>8 DEF CreationFails
  <2> QED
    BY <1>2, <1>4, <1>8, <2>1
<1> QED
  BY <1>5, <1>6, <1>7, <1>8

LEMMA EnginesBegin == EnginesInit => EnginesInv /\ EachIsServed
BY DEF EnginesInit, EnginesInv, Shaped, AliveIsHosted, OneHolder, OwnOnScreen, OneOwned, EachIsServed

LEMMA EnginesStep ==
  EnginesInv /\ EachIsServed /\ [EnginesNext]_engineVars => EnginesInv' /\ EachIsServed'
<1> SUFFICES ASSUME EnginesInv, EachIsServed, [EnginesNext]_engineVars
             PROVE  EnginesInv' /\ EachIsServed'
  OBVIOUS
<1>1. CASE \E shown \in SUBSET Kinds : Render(shown)
  BY <1>1, RenderStep, RenderServes
<1>2. CASE Leave
  <2>1. EachIsServed'
    BY <1>2 DEF Leave, EachIsServed
  <2> QED
    BY <1>2, <2>1, LeaveStep
<1>3. CASE \E e \in engines : CreationEnds(e) \/ CreationFails(e)
  BY <1>3, CreationEndsStep, CreationFailsStep, CreationServes
<1>4. CASE EnginesRestart
  BY <1>4 DEF EnginesRestart, EnginesInv, Shaped, AliveIsHosted, OneHolder, OwnOnScreen,
              OneOwned, EachIsServed
<1>5. CASE UNCHANGED engineVars
  BY <1>5 DEF engineVars, EnginesInv, Shaped, AliveIsHosted, OneHolder, OwnOnScreen, OneOwned,
              EachIsServed, IsHeld, IsEngine
<1> QED
  BY <1>1, <1>2, <1>3, <1>4, <1>5 DEF EnginesNext

(* For any kinds of surfaces, any order of renderings, navigations and     *)
(* imports: no engine is alive without an owner that can dispose it, and   *)
(* no owner holds two engines for one surface.                             *)
THEOREM EnginesDoNotLeak == EnginesSpec => []NoEngineLeaks
<1>1. EnginesInv => NoEngineLeaks
  BY DEF EnginesInv, AliveIsHosted, OneHolder, NoEngineLeaks
<1> QED
  BY <1>1, EnginesBegin, EnginesStep, PTL DEF EnginesSpec

-----------------------------------------------------------------------------
(* A page that is replaced takes its engines with it. *)
LEMMA ArrivalsLeave ==
  ASSUME Arrive \/ ArriveOnNewPage
  PROVE  Leave \/ UNCHANGED engineVars
BY DEF ArriveOnNewPage, Arrive

LEMMA ReaderStep == Reader => [EnginesNext]_engineVars
<1> SUFFICES ASSUME Reader PROVE Leave \/ EnginesRestart \/ UNCHANGED engineVars
  BY DEF EnginesNext
<1>1. ASSUME NEW path \in ROUTE_PATH, Sidebar(path)
      PROVE  Leave \/ UNCHANGED engineVars
  BY <1>1, ArrivalsLeave DEF Sidebar
<1>2. ASSUME NEW to \in DOMAIN history, BackOrForward(to)
      PROVE  Leave \/ UNCHANGED engineVars
  BY <1>2, ArrivalsLeave DEF BackOrForward
<1>3. CASE Reload
  BY <1>3 DEF Reload
<1>4. CASE Filter
  BY <1>4, ArrivalsLeave DEF Filter
<1>5. ASSUME NEW path, SetComponent(path)
      PROVE  Leave \/ UNCHANGED engineVars
  BY <1>5, ArrivalsLeave DEF SetComponent
<1>6. CASE PickComponent
  BY <1>5, <1>6 DEF PickComponent
<1>7. CASE ClickDiagram
  <2>1. PICK cell \in draw(Diagram, selectedId).cells, onToggle \in BOOLEAN :
          \/ InPlace
          \/ SetComponent(Clicked(cell, onToggle).of)
    BY <1>7 DEF ClickDiagram
  <2> QED
    BY <1>5, <2>1 DEF InPlace
<1>8. CASE FollowReference
  BY <1>5, <1>8 DEF FollowReference, InPlace
<1>9. CASE CollapseDetail \/ CloseDetail \/ ToggleDensity
  BY <1>9 DEF CollapseDetail, CloseDetail, ToggleDensity, InPlace
<1> QED
  BY <1>1, <1>2, <1>3, <1>4, <1>6, <1>7, <1>8, <1>9 DEF Reader

LEMMA NetworkStep == Network => [EnginesNext]_engineVars
<1> SUFFICES ASSUME Network PROVE [EnginesNext]_engineVars
  OBVIOUS
<1>1. ASSUME NEW document \in Documents, MainStarts(document)
      PROVE  UNCHANGED engineVars
  BY <1>1 DEF MainStarts
<1>2. ASSUME NEW navigation \in pending, PageArrives(navigation) \/ PageFails(navigation)
      PROVE  Leave \/ UNCHANGED engineVars
  BY <1>2, ArrivalsLeave DEF PageArrives, PageFails
<1>3. ASSUME NEW call \in calls, TypesArrive(call)
      PROVE  UNCHANGED engineVars
  BY <1>3 DEF TypesArrive
<1>4. ASSUME NEW e \in engines, EngineArrives(e)
      PROVE  CreationEnds(e) \/ CreationFails(e)
  BY <1>4 DEF EngineArrives
<1> QED
  BY <1>1, <1>2, <1>3, <1>4 DEF Network, EnginesNext

LEMMA TickStep == Tick => [EnginesNext]_engineVars
<1> SUFFICES ASSUME Tick PROVE EnginesNext
  OBVIOUS
<1>1. Render(Surfaces') /\ Surfaces' \in SUBSET Kinds
  BY DEF Tick, Surfaces
<1> QED
  BY <1>1 DEF EnginesNext

(* The console implements Engines: no page, reload, filter or answer does  *)
(* with an engine what its owner would not do.                             *)
THEOREM PagesOwnEngines == Spec => EnginesSpec
<1>1. Init => EnginesInit
  BY DEF Init
<1>2. [Next]_vars => [EnginesNext]_engineVars
  <2>1. GraphChanges => UNCHANGED engineVars
    BY DEF GraphChanges
  <2>2. UNCHANGED vars => UNCHANGED engineVars
    BY DEF vars
  <2> QED
    BY <2>1, <2>2, ReaderStep, NetworkStep, TickStep DEF Next
<1> QED
  BY <1>1, <1>2, PTL DEF Spec, EnginesSpec

(* Whatever the reader, the router, the server and the network do, and in  *)
(* whatever order the code of pages and engines arrives: no drawing engine *)
(* of the console is left alive without an owner, and no chart has two.    *)
THEOREM PagesDoNotLeak == Spec => []NoEngineLeaks
BY PagesOwnEngines, EnginesDoNotLeak, PTL

-----------------------------------------------------------------------------
(* Nothing is on screen before the first page is.                          *)
NothingBeforeAPage ==
  /\ app # "console" => page = NoPage
  /\ page = NoPage => surfaces = {}

LEMMA ScreenStep == NothingBeforeAPage /\ [Next]_vars => NothingBeforeAPage'
<1> SUFFICES ASSUME NothingBeforeAPage, [Next]_vars PROVE NothingBeforeAPage'
  OBVIOUS
<1> USE DEF NothingBeforeAPage
<1>1. ASSUME Arrive \/ ArriveOnNewPage, app = "console", app' = app PROVE NothingBeforeAPage'
  <2>1. Leave \/ (page' = page /\ UNCHANGED surfaces)
    BY <1>1 DEF ArriveOnNewPage, Arrive, engineVars
  <2> QED
    BY <1>1, <2>1 DEF Leave
<1> USE DEF startupVars, engineVars, addressVars
<1>2. ASSUME NEW path \in ROUTE_PATH, Sidebar(path) PROVE NothingBeforeAPage'
  BY <1>1, <1>2 DEF Sidebar, IsOpen
<1>3. ASSUME NEW to \in DOMAIN history, BackOrForward(to) PROVE NothingBeforeAPage'
  BY <1>1, <1>3 DEF BackOrForward, IsOpen
<1>4. CASE Reload
  BY <1>4 DEF Reload, Start, EnginesRestart, Restart
<1>5. CASE Filter
  BY <1>1, <1>5 DEF Filter, IsOpen
<1>6. ASSUME NEW path, SetComponent(path), app = "console" PROVE NothingBeforeAPage'
  BY <1>1, <1>6 DEF SetComponent
<1>7. CASE PickComponent
  BY <1>6, <1>7 DEF PickComponent, OnTypes, IsOpen
<1>8. CASE ClickDiagram
  <2>1. app = "console"
    BY <1>8 DEF ClickDiagram, OnTypes, IsOpen
  <2>2. PICK cell \in draw(Diagram, selectedId).cells, onToggle \in BOOLEAN :
          InPlace \/ SetComponent(Clicked(cell, onToggle).of)
    BY <1>8 DEF ClickDiagram
  <2> QED
    BY <1>6, <2>1, <2>2 DEF InPlace
<1>9. CASE FollowReference
  BY <1>6, <1>9 DEF FollowReference, InPlace, OnTypes, IsOpen
<1>10. CASE CollapseDetail \/ CloseDetail \/ ToggleDensity
  BY <1>10 DEF CollapseDetail, CloseDetail, ToggleDensity, InPlace, toggleDensity
<1>11. ASSUME NEW document \in Documents, MainStarts(document) PROVE NothingBeforeAPage'
  BY <1>11 DEF MainStarts, Bootstrap
<1>12. ASSUME NEW navigation \in pending, PageArrives(navigation) PROVE NothingBeforeAPage'
  BY <1>1, <1>12 DEF PageArrives
<1>13. ASSUME NEW navigation \in pending, PageFails(navigation) PROVE NothingBeforeAPage'
  BY <1>13 DEF PageFails, CodeFails
<1>14. ASSUME NEW call \in calls, TypesArrive(call) PROVE NothingBeforeAPage'
  BY <1>14 DEF TypesArrive
<1>15. ASSUME NEW e \in engines, EngineArrives(e) PROVE NothingBeforeAPage'
  BY <1>15 DEF EngineArrives, CreationEnds, CreationFails
<1>16. CASE GraphChanges
  BY <1>16 DEF GraphChanges
<1>17. CASE Tick
  <2>1. page = NoPage => Surfaces' = {}
    BY <1>17 DEF Tick, Surfaces, NoPage
  <2> QED
    BY <1>17, <2>1 DEF Tick, Render
<1>18. CASE UNCHANGED vars
  BY <1>18 DEF vars
<1> QED
  BY <1>2, <1>3, <1>4, <1>5, <1>7, <1>8, <1>9, <1>10, <1>11, <1>12, <1>13, <1>14, <1>15, <1>16,
     <1>17, <1>18 DEF Next, Reader, Network

(* At rest every surface is drawn on, whichever way renderings, imports and*)
(* navigations overlapped, unless an import failed or the page still holds *)
(* the engine of a surface that was replaced.                              *)
THEOREM SurfacesAreDrawn == Spec => []DrawnUnlessReplaced
<1>1. Init => NothingBeforeAPage
  BY DEF Init, StartupInit, EnginesInit, NothingBeforeAPage
<1>2. EnginesInv /\ EachIsServed /\ NothingBeforeAPage => DrawnUnlessReplaced
  <2> SUFFICES ASSUME EnginesInv, EachIsServed, NothingBeforeAPage, AtRest, NEW kind \in surfaces
               PROVE  \E e \in engines :
                        /\ e.kind = kind
                        /\ \/ IsHeld(e) /\ e.onScreen
                           \/ e.state = "failed"
                           \/ kind \in PageKinds /\ IsHeld(e)
    BY DEF DrawnUnlessReplaced
  <2>1. PICK e \in engines : e.kind = kind /\ e.hosted /\ (kind \in OwnKinds => e.onScreen)
    BY DEF EachIsServed
  <2>2. e.state \in {"alive", "failed"} /\ kind \in Kinds
    BY <2>1 DEF AtRest, NothingBeforeAPage, EnginesInv, Shaped, IsEngine
  <2> QED
    BY <2>1, <2>2 DEF IsHeld, Kinds
<1> QED
  BY <1>1, <1>2, PagesOwnEngines, EnginesBegin, EnginesStep, ScreenStep, PTL DEF Spec, EnginesSpec

-----------------------------------------------------------------------------
(* A sequence, whatever it is a sequence of.                               *)
IsSeq(s) == s \in Seq({s[i] : i \in DOMAIN s})

(* The reader is at an entry of the history, on a page whose code is there.*)
Located ==
  /\ IsSeq(history)
  /\ position \in DOMAIN history
  /\ page = NoPage \/ page \in loaded

(* The component that the store was asked for last is the one that the     *)
(* address names.                                                          *)
TypesAreAddressed ==
  page = "types" /\ address.parameters.component # NoPath =>
    componentId = address.parameters.component

(* What the effects have not read yet is scheduled; what they have read is *)
(* what the address still says.                                            *)
ReadBack ==
  /\ changed \in BOOLEAN
  /\ changed => due
  /\ ~changed => FiltersAreAddressed /\ TypesAreAddressed

PreferenceInv == dense \in BOOLEAN /\ PreferenceIsKept

AddressInv == Located /\ ReadBack /\ PreferenceInv

(* A new entry replaces those after the one that the reader was at.        *)
LEMMA PushedEntry ==
  ASSUME NEW s, IsSeq(s), NEW at \in DOMAIN s, NEW entry
  PROVE  /\ IsSeq(Append(SubSeq(s, 1, at), entry))
         /\ at + 1 \in DOMAIN Append(SubSeq(s, 1, at), entry)
<1> DEFINE S == {s[i] : i \in DOMAIN s} \cup {entry}
           t == Append(SubSeq(s, 1, at), entry)
<1>1. s \in Seq(S) /\ entry \in S /\ at \in 1 .. Len(s)
  BY DEF IsSeq
<1> HIDE DEF S
<1>2. SubSeq(s, 1, at) \in Seq(S) /\ Len(SubSeq(s, 1, at)) = at
  BY <1>1
<1>3. t \in Seq(S) /\ Len(t) = at + 1 /\ at \in Nat
  BY <1>1, <1>2
<1>4. at + 1 \in DOMAIN t
  BY <1>3
<1> HIDE DEF t
<1>5. t \in Seq({t[i] : i \in DOMAIN t})
  BY <1>3
<1> QED
  BY <1>4, <1>5 DEF t, IsSeq

LEMMA ReplacedEntry ==
  ASSUME NEW s, IsSeq(s), NEW at \in DOMAIN s, NEW entry
  PROVE  /\ IsSeq([s EXCEPT ![at] = entry])
         /\ at \in DOMAIN [s EXCEPT ![at] = entry]
         /\ [s EXCEPT ![at] = entry][at] = entry
<1> DEFINE S == {s[i] : i \in DOMAIN s} \cup {entry}
           t == [s EXCEPT ![at] = entry]
<1>1. s \in Seq(S) /\ entry \in S /\ at \in 1 .. Len(s)
  BY DEF IsSeq
<1> HIDE DEF S
<1>2. t \in Seq(S) /\ at \in DOMAIN t /\ t[at] = entry
  BY <1>1
<1> HIDE DEF t
<1>3. t \in Seq({t[i] : i \in DOMAIN t})
  BY <1>2
<1> QED
  BY <1>2, <1>3 DEF t, IsSeq

(* A navigation to a page whose code is there leads to its entry at once,  *)
(* unless the reader already is where it leads.                            *)
LEMMA NavigateStep ==
  ASSUME Located, NEW navigation, Navigate(navigation)
  PROVE  /\ Located'
         /\ navigation.replaceUrl /\ navigation.entry.page \in loaded => address' = navigation.entry
<1>1. CASE navigation.entry = address
  BY <1>1 DEF Navigate, Located, address
<1>2. CASE navigation.entry # address /\ navigation.entry.page \in loaded
  <2>1. Commit(navigation) /\ loaded' = loaded
    BY <1>2 DEF Navigate
  <2>2. CASE navigation.replaceUrl
    BY <1>2, <2>1, <2>2, ReplacedEntry DEF Commit, Located, address
  <2>3. CASE ~navigation.replaceUrl
    BY <1>2, <2>1, <2>3, PushedEntry DEF Commit, Located, address
  <2> QED
    BY <2>2, <2>3
<1>3. CASE navigation.entry # address /\ navigation.entry.page \notin loaded
  BY <1>3 DEF Navigate, Located
<1> QED
  BY <1>1, <1>2, <1>3

(* What a control writes is what the address then says.                    *)
LEMMA WrittenParameters ==
  ASSUME Located, page # NoPage, NEW parameters, WriteParameters(parameters, TRUE)
  PROVE  /\ Located'
         /\ \A name \in DOMAIN parameters : address'.parameters[name] = parameters[name]
<1> DEFINE entry == [page |-> page, parameters |-> Merged(parameters, address.parameters)]
           navigation == Navigation(entry, TRUE)
<1>1. Navigate(navigation)
  BY DEF WriteParameters
<1>2. navigation.replaceUrl /\ navigation.entry = entry /\ entry.page = page
  BY DEF Navigation
<1>3. page \in loaded
  BY DEF Located
<1> HIDE DEF navigation
<1>4. Located' /\ address' = entry
  BY <1>1, <1>2, <1>3, NavigateStep
<1>5. \A name \in DOMAIN parameters : Merged(parameters, address.parameters)[name] = parameters[name]
  BY DEF Merged
<1> QED
  BY <1>4, <1>5

(* Arriving somewhere, with filters that the page just wrote or that it    *)
(* had before: what is not read back yet is scheduled.                     *)
LEMMA ArrivalIsReadBack ==
  ASSUME ReadBack, Arrive, componentId' = componentId,
         ~changed /\ page' = page /\ address'.parameters = address.parameters =>
           FiltersAreAddressed'
  PROVE  ReadBack'
<1>1. due' = TRUE /\ changed' \in BOOLEAN
  BY DEF Arrive, NoteChange, ReadBack
<1>2. ~changed' => ~changed /\ page' = page /\ address'.parameters = address.parameters
  BY DEF Arrive, NoteChange, ReadBack
<1>3. ~changed' => TypesAreAddressed'
  BY <1>2 DEF ReadBack, TypesAreAddressed
<1> QED
  BY <1>1, <1>2, <1>3 DEF ReadBack

(* A page that is replaced gets new filters, one that stays keeps its own. *)
LEMMA NewPageIsReadBack ==
  ASSUME ReadBack, ArriveOnNewPage, componentId' = componentId
  PROVE  ReadBack'
<1>1. Arrive
  BY DEF ArriveOnNewPage
<1>2. ASSUME ~changed, page' = page, address'.parameters = address.parameters
      PROVE  FiltersAreAddressed'
  BY <1>2 DEF ArriveOnNewPage, ReadBack, FiltersAreAddressed
<1> QED
  BY <1>1, <1>2, ArrivalIsReadBack

LEMMA FilterStep ==
  ASSUME AddressInv, Filter
  PROVE  AddressInv'
<1> USE DEF FiltersAreAddressed, OrElse, Trimmed, Blank, EVERY_ROLE, EVERY_SEVERITY
<1>1. Arrive /\ componentId' = componentId /\ page # NoPage /\ PreferenceInv'
  BY DEF Filter, IsOpen, storeVars, startupVars, AddressInv, PreferenceInv, PreferenceIsKept
<1> DEFINE Kept == ~changed /\ page' = page /\ address'.parameters = address.parameters
<1>2. ~changed => FiltersAreAddressed
  BY DEF AddressInv, ReadBack
<1>3. ASSUME NEW value, setQuery(value), page = "components"
      PROVE  Located' /\ (Kept => FiltersAreAddressed')
  <2> DEFINE written == [q |-> IF value \in Blank THEN "" ELSE value]
  <2>1. Located' /\ address'.parameters.q = written.q
    BY <1>1, <1>3, WrittenParameters DEF setQuery, AddressInv
  <2> QED
    BY <1>2, <1>3, <2>1 DEF setQuery
<1>4. ASSUME NEW value, setRole(value), page = "components"
      PROVE  Located' /\ (Kept => FiltersAreAddressed')
  <2> DEFINE next == OrElse(value, EVERY_ROLE)
             written == [role |-> IF next = EVERY_ROLE THEN "" ELSE next]
  <2>1. Located' /\ address'.parameters.role = written.role
    BY <1>1, <1>4, WrittenParameters DEF setRole, AddressInv
  <2>2. selectedRole' = OrElse(written.role, EVERY_ROLE) /\ query' = query
    BY <1>4 DEF setRole
  <2> QED
    BY <1>2, <1>4, <2>1, <2>2
<1>5. ASSUME clearFilters, page = "components"
      PROVE  Located' /\ (Kept => FiltersAreAddressed')
  <2> DEFINE written == [q |-> "", role |-> ""]
  <2>1. Located' /\ \A name \in DOMAIN written : address'.parameters[name] = written[name]
    BY <1>1, <1>5, WrittenParameters DEF clearFilters, AddressInv
  <2>2. address'.parameters.q = "" /\ address'.parameters.role = ""
    BY <2>1
  <2>3. query' = "" /\ selectedRole' = EVERY_ROLE
    BY <1>5 DEF clearFilters
  <2> QED
    BY <1>5, <2>1, <2>2, <2>3
<1>6. ASSUME NEW value, setSeverity(value), page = "findings"
      PROVE  Located' /\ (Kept => FiltersAreAddressed')
  <2> DEFINE next == OrElse(value, EVERY_SEVERITY)
             written == [severity |-> IF next = EVERY_SEVERITY THEN "" ELSE next]
  <2>1. Located' /\ address'.parameters.severity = written.severity
    BY <1>1, <1>6, WrittenParameters DEF setSeverity, AddressInv
  <2> QED
    BY <1>2, <1>6, <2>1 DEF setSeverity
<1>7. Located' /\ (Kept => FiltersAreAddressed')
  BY <1>3, <1>4, <1>5, <1>6 DEF Filter
<1>8. ReadBack'
  BY <1>1, <1>7, ArrivalIsReadBack DEF AddressInv
<1> QED
  BY <1>1, <1>7, <1>8 DEF AddressInv

(* The links of the sidebar, back and forward, and pages whose code comes. *)
LEMMA PageStep ==
  ASSUME AddressInv, ArriveOnNewPage, UNCHANGED <<startupVars, storeVars>>,
         \/ \E path \in ROUTE_PATH : FollowLink(path)
         \/ \E to \in DOMAIN history : Traverse(to)
         \/ \E navigation \in pending : CodeArrives(navigation)
  PROVE  AddressInv'
<1>1. ReadBack'
  BY NewPageIsReadBack DEF AddressInv, storeVars
<1>2. PreferenceInv'
  BY DEF AddressInv, PreferenceInv, PreferenceIsKept, startupVars
<1>3. ASSUME NEW path, FollowLink(path) PROVE Located'
  BY <1>3, NavigateStep DEF FollowLink, AddressInv
<1>4. ASSUME NEW to \in DOMAIN history, Traverse(to) PROVE Located'
  BY <1>4 DEF Traverse, AddressInv, Located
<1>5. ASSUME NEW navigation, CodeArrives(navigation) PROVE Located'
  <2>1. Commit(navigation) /\ page' \in loaded'
    BY <1>5 DEF CodeArrives, Commit
  <2>2. CASE navigation.replaceUrl
    BY <2>1, <2>2, ReplacedEntry DEF Commit, AddressInv, Located
  <2>3. CASE ~navigation.replaceUrl
    BY <2>1, <2>3, PushedEntry DEF Commit, AddressInv, Located
  <2> QED
    BY <2>2, <2>3
<1> QED
  BY <1>1, <1>2, <1>3, <1>4, <1>5 DEF AddressInv

LEMMA ComponentStep ==
  ASSUME AddressInv, NEW path, SetComponent(path)
  PROVE  AddressInv'
<1>1. Arrive /\ UNCHANGED <<query, selectedRole, selectedSeverity, startupVars, storeVars>>
  BY DEF SetComponent
<1>2. Located'
  BY NavigateStep DEF SetComponent, WriteParameters, AddressInv
<1>3. PreferenceInv'
  BY <1>1 DEF AddressInv, PreferenceInv, PreferenceIsKept, startupVars
<1>4. ASSUME ~changed, page' = page, address'.parameters = address.parameters
      PROVE  FiltersAreAddressed'
  BY <1>1, <1>4 DEF AddressInv, ReadBack, FiltersAreAddressed
<1>5. ReadBack'
  BY <1>1, <1>4, ArrivalIsReadBack DEF AddressInv, storeVars
<1> QED
  BY <1>2, <1>3, <1>5 DEF AddressInv

(* What neither navigates nor loads leaves everything read back.           *)
LEMMA StillStep ==
  ASSUME AddressInv, UNCHANGED <<addressVars, filterVars, componentId>>, due' = TRUE \/ due' = due,
         UNCHANGED startupVars \/ toggleDensity \/ \E document \in Documents : Bootstrap(document)
  PROVE  AddressInv'
<1>1. Located'
  BY DEF AddressInv, Located, IsSeq, addressVars
<1>2. ReadBack'
  BY DEF AddressInv, ReadBack, FiltersAreAddressed, TypesAreAddressed, address, addressVars, filterVars
<1>3. PreferenceInv'
  BY DEF AddressInv, PreferenceInv, PreferenceIsKept, startupVars, toggleDensity, Bootstrap
<1> QED
  BY <1>1, <1>2, <1>3 DEF AddressInv

(* A rendering reads back what changed.                                    *)
LEMMA TickReadsBack ==
  ASSUME AddressInv, Tick
  PROVE  AddressInv'
<1>1. UNCHANGED <<history, position, page, loaded, address>>
  BY DEF Tick, addressVars, address
<1>2. Located'
  BY <1>1 DEF AddressInv, Located, IsSeq
<1>3. PreferenceInv'
  BY DEF Tick, AddressInv, PreferenceInv, PreferenceIsKept, startupVars
<1>4. FiltersAreAddressed'
  BY <1>1 DEF Tick, AdoptParameters, AddressInv, ReadBack, FiltersAreAddressed
<1>5. TypesAreAddressed'
  <2>1. CASE page = "types" /\ changed
    BY <1>1, <2>1 DEF Tick, load, IsNoLoad, storeVars, TypesAreAddressed
  <2>2. CASE ~(page = "types" /\ changed)
    BY <1>1, <2>2 DEF Tick, storeVars, AddressInv, ReadBack, TypesAreAddressed
  <2> QED
    BY <2>1, <2>2
<1>6. changed' = FALSE
  BY DEF Tick
<1> QED
  BY <1>2, <1>3, <1>4, <1>5, <1>6 DEF AddressInv, ReadBack

LEMMA AddressBegins == Init => AddressInv
<1> SUFFICES ASSUME Init PROVE AddressInv
  OBVIOUS
<1>1. Located
  <2> DEFINE first == Entry(tour.path, tour.parameters)
  <2>1. history = <<first>> /\ position = 1 /\ page = NoPage
    BY DEF Init
  <2> HIDE DEF first
  <2>2. IsSeq(<<first>>) /\ 1 \in DOMAIN <<first>>
    BY DEF IsSeq
  <2> QED
    BY <2>1, <2>2 DEF Located
<1>2. ReadBack
  BY DEF Init, ReadBack, FiltersAreAddressed, TypesAreAddressed, NoPage
<1>3. PreferenceInv
  BY DEF Init, StartupInit, PreferenceInv, PreferenceIsKept
<1> QED
  BY <1>1, <1>2, <1>3 DEF AddressInv

LEMMA AddressStep == AddressInv /\ [Next]_vars => AddressInv'
<1> SUFFICES ASSUME AddressInv, [Next]_vars PROVE AddressInv'
  OBVIOUS
<1>1. ASSUME NEW path \in ROUTE_PATH, Sidebar(path) PROVE AddressInv'
  BY <1>1, PageStep DEF Sidebar
<1>2. ASSUME NEW to \in DOMAIN history, BackOrForward(to) PROVE AddressInv'
  BY <1>2, PageStep DEF BackOrForward
<1>3. CASE Reload
  <2>1. Located'
    BY <1>3 DEF Reload, Start, AddressInv, Located, IsSeq
  <2>2. ReadBack'
    BY <1>3 DEF Reload, Start, ReadBack, FiltersAreAddressed, TypesAreAddressed, NoPage
  <2>3. PreferenceInv'
    BY <1>3 DEF Reload, Restart, PreferenceInv, PreferenceIsKept
  <2> QED
    BY <2>1, <2>2, <2>3 DEF AddressInv
<1>4. CASE Filter
  BY <1>4, FilterStep
<1>5. CASE InPlace /\ componentId' = componentId
  BY <1>5, StillStep DEF InPlace
<1>6. CASE PickComponent
  BY <1>6, ComponentStep DEF PickComponent
<1>7. CASE ClickDiagram
  <2>1. PICK cell \in draw(Diagram, selectedId).cells, onToggle \in BOOLEAN :
          \/ InPlace /\ componentId' = componentId
          \/ SetComponent(Clicked(cell, onToggle).of)
    BY <1>7 DEF ClickDiagram, toggleCollapsed, selectType
  <2> QED
    BY <1>5, <2>1, ComponentStep
<1>8. CASE FollowReference
  <2>1. PICK reference \in Listed :
          (InPlace /\ componentId' = componentId) \/ SetComponent(reference.component)
    BY <1>8 DEF FollowReference, selectType
  <2> QED
    BY <1>5, <2>1, ComponentStep
<1>9. CASE CollapseDetail \/ CloseDetail
  BY <1>5, <1>9 DEF CollapseDetail, toggleCollapsed, CloseDetail, closeDetail, selectType
<1>10. CASE ToggleDensity
  BY <1>10, StillStep DEF ToggleDensity, storeVars
<1>11. ASSUME NEW document \in Documents, MainStarts(document) PROVE AddressInv'
  BY <1>11, StillStep DEF MainStarts, storeVars
<1>12. ASSUME NEW navigation \in pending, PageArrives(navigation) PROVE AddressInv'
  BY <1>12, PageStep DEF PageArrives
<1>13. ASSUME NEW navigation \in pending, PageFails(navigation) PROVE AddressInv'
  <2>1. UNCHANGED <<history, position, page, loaded, filterVars, startupVars, storeVars, due>>
    BY <1>13 DEF PageFails, CodeFails
  <2>2. Located'
    BY <2>1 DEF AddressInv, Located, IsSeq
  <2>3. ReadBack'
    BY <2>1 DEF AddressInv, ReadBack, FiltersAreAddressed, TypesAreAddressed, address, filterVars,
                storeVars
  <2>4. PreferenceInv'
    BY <2>1 DEF AddressInv, PreferenceInv, PreferenceIsKept, startupVars
  <2> QED
    BY <2>2, <2>3, <2>4 DEF AddressInv
<1>14. ASSUME NEW call \in calls, TypesArrive(call) PROVE AddressInv'
  BY <1>14, StillStep DEF TypesArrive, LoadAnswered, LoadFails
<1>15. ASSUME NEW e \in engines, EngineArrives(e) PROVE AddressInv'
  BY <1>15, StillStep DEF EngineArrives, storeVars
<1>16. CASE GraphChanges
  BY <1>16, StillStep DEF GraphChanges, storeVars
<1>17. CASE Tick
  BY <1>17, TickReadsBack
<1>18. CASE UNCHANGED vars
  BY <1>18, StillStep DEF vars, storeVars
<1> QED
  BY <1>1, <1>2, <1>3, <1>4, <1>6, <1>7, <1>8, <1>9, <1>10, <1>11, <1>12, <1>13, <1>14, <1>15,
     <1>16, <1>17, <1>18 DEF Next, Reader, Network

(* Whatever the reader did, and however it overlapped with navigations and *)
(* effects: at rest the filters, the component and the density are those   *)
(* that the address and the storage would bring back.                      *)
THEOREM ReloadsShowTheSame == Spec => []ReloadShowsTheSame
<1>1. AddressInv => ReloadShowsTheSame
  BY DEF AddressInv, ReadBack, PreferenceInv, TypesAreAddressed, ReloadShowsTheSame, AtRest, IsOpen
<1> QED
  BY <1>1, AddressBegins, AddressStep, PTL DEF Spec

-----------------------------------------------------------------------------
(* The console drives the types store: what its addresses, its store and its *)
(* canvas have to say to each other.                                       *)

(* An address that the server can be asked about. *)
Aims(entry) ==
  "component" \in DOMAIN entry.parameters /\ entry.parameters.component \in TypePaths \cup {NoPath}

AddressesAim ==
  /\ \A i \in DOMAIN history : Aims(history[i])
  /\ \A navigation \in pending : Aims(navigation.entry)

(* The store has what it was asked for. *)
Declares(path) ==
  /\ path \in TypePaths
  /\ typesState = TypesOf(path)
  /\ incomingState = IncomingOf(path)

LEMMA SettledStore ==
  ASSUME StoreInv, ~loading, typesState # {}
  PROVE  Declares(componentId)
BY DEF StoreInv, CallsInv, NothingYet, TypesOfTheComponent, HoldsTypesOf, Declares

(* What the server says of one component, as far as its diagram and its    *)
(* details need it.                                                        *)
LEMMA Inventory ==
  ASSUME NEW path \in TypePaths
  PROVE  /\ IsFiniteSet(TypesOf(path)) /\ IsFiniteSet(IncomingOf(path))
         /\ IncomingOf(path) \subseteq Messages!IncomingTypeRelation
         /\ \A r \in IncomingOf(path) : r.sourceComponent # path
         /\ \A d \in TypesOf(path) :
              /\ IsFiniteSet(RelatedTo(d)) /\ RelatedTo(d) \subseteq Messages!TypeReference
              /\ d.id \in Messages!TypeIds /\ d.id # NoType
              /\ d.kind \in Messages!TypeKinds
              /\ d.fields \in Seq(Messages!TypeField) /\ d.methods \in Seq(Messages!TypeMethod)
<1> DEFINE response == [types |-> TypesOf(path), incoming |-> IncomingOf(path)]
<1>1. /\ Messages!IsGetComponentTypesResponse(response)
      /\ IsFiniteSet(TypesOf(path)) /\ \A d \in TypesOf(path) : IsFiniteSet(RelatedTo(d))
      /\ IsFiniteSet(IncomingOf(path)) /\ \A r \in IncomingOf(path) : r.sourceComponent # path
  BY InventoryAssumption
<1>2. response.types = TypesOf(path) /\ response.incoming = IncomingOf(path)
  OBVIOUS
<1>3. /\ \A d \in TypesOf(path) : Messages!IsTypeDeclaration(d)
      /\ IncomingOf(path) \subseteq Messages!IncomingTypeRelation
  BY <1>1, <1>2 DEF Messages!IsGetComponentTypesResponse
<1>4. ASSUME NEW d \in TypesOf(path)
      PROVE  /\ RelatedTo(d) \subseteq Messages!TypeReference
             /\ d.id \in Messages!TypeIds
             /\ d.kind \in Messages!TypeKinds
             /\ d.fields \in Seq(Messages!TypeField) /\ d.methods \in Seq(Messages!TypeMethod)
  BY <1>3 DEF Messages!IsTypeDeclaration, RelatedTo
<1>5. ASSUME NEW d \in TypesOf(path) PROVE d.id # NoType
  BY IdentifierAssumption
<1> QED
  BY <1>1, <1>3, <1>4, <1>5

LEMMA StrictlyById ==
  ASSUME NEW S, \A x \in S : x.id \in Messages!TypeIds, \A x, y \in S : x.id = y.id => x = y
  PROVE  IsStrictOrder(S, ById(S))
<1> DEFINE Ids == Messages!TypeIds
           order == {p \in Ids \X Ids : IdPrecedes(p[1], p[2])}
<1>1. IsStrictOrder(Ids, order)
  BY IdOrderAssumption
<1>2. \A a, b \in Ids : <<a, b>> \in order <=> IdPrecedes(a, b)
  OBVIOUS
<1>3. \A x, y \in S : <<x, y>> \in ById(S) <=> IdPrecedes(x.id, y.id)
  BY DEF ById
<1> HIDE DEF Ids, order
<1>4. \A x, y \in S : <<x, y>> \in ById(S) <=> <<x.id, y.id>> \in order
  BY <1>2, <1>3 DEF Ids
<1>5. \A x \in S : x.id \in Ids
  BY DEF Ids
<1>6. ASSUME NEW a \in S, NEW b \in S, a # b
      PROVE  <<a, b>> \in ById(S) <=> <<b, a>> \notin ById(S)
  BY <1>1, <1>4, <1>5, <1>6 DEF IsStrictOrder
<1>7. ASSUME NEW a \in S, NEW b \in S, NEW c \in S, <<a, b>> \in ById(S), <<b, c>> \in ById(S)
      PROVE  <<a, c>> \in ById(S)
  BY <1>1, <1>4, <1>5, <1>7 DEF IsStrictOrder
<1>8. ASSUME NEW a \in S
      PROVE  <<a, a>> \notin ById(S)
  BY <1>1, <1>4, <1>5, <1>8 DEF IsStrictOrder
<1> QED
  BY <1>6, <1>7, <1>8 DEF IsStrictOrder

-----------------------------------------------------------------------------
(* The layout of a diagram, from its columns to its nodes.                 *)

(* References to other components are stacked in the order of their ids. *)
LEMMA StackedNodes ==
  ASSUME NEW S, IsFiniteSet(S), \A r \in S : r.id \in Messages!TypeIds,
         \A r, q \in S : r.id = q.id => r = q, NEW x \in Int
  PROVE  /\ IsFiniteSet(Stacked(S, x))
         /\ \A n \in Stacked(S, x) :
              /\ n.x = x /\ n.width = EXTERNAL_NODE_WIDTH /\ n.height = EXTERNAL_NODE_HEIGHT
              /\ n.y \in Nat /\ n.y >= CANVAS_MARGIN
              /\ \E r \in S : n.id = r.id /\ n.componentId = r.component
         /\ \A r \in S : \E n \in Stacked(S, x) : n.id = r.id
         /\ \A m, n \in Stacked(S, x) :
              m # n => /\ m.id # n.id
                       /\ m.y + EXTERNAL_NODE_HEIGHT <= n.y \/ n.y + EXTERNAL_NODE_HEIGHT <= m.y
<1> DEFINE s == Sorted(S, ById(S))
           size == Cardinality(S)
           node(i) == [id |-> s[i].id, componentId |-> s[i].component, x |-> x,
                       y |-> CANVAS_MARGIN + (i - 1) * (EXTERNAL_NODE_HEIGHT + NODE_GAP \div 2),
                       width |-> EXTERNAL_NODE_WIDTH, height |-> EXTERNAL_NODE_HEIGHT]
           nodes == [i \in 1 .. size |-> node(i)]
<1>1. /\ size \in Nat /\ s \in [1 .. size -> S]
      /\ \A i, j \in 1 .. size : s[i] = s[j] => i = j
      /\ \A r \in S : \E i \in 1 .. size : s[i] = r
  <2>1. IsStrictOrder(S, ById(S))
    BY StrictlyById
  <2> QED
    BY <2>1, SortedIsTotal
<1>2. DOMAIN s = 1 .. size
  BY <1>1
<1>3. Stacked(S, x) = {nodes[i] : i \in 1 .. size}
  BY <1>2 DEF Stacked
<1> HIDE DEF s
<1>4. ASSUME NEW i \in 1 .. size
      PROVE  /\ nodes[i].x = x /\ nodes[i].width = EXTERNAL_NODE_WIDTH
             /\ nodes[i].height = EXTERNAL_NODE_HEIGHT
             /\ nodes[i].y = 24 + (i - 1) * 72
             /\ nodes[i].id = s[i].id /\ nodes[i].componentId = s[i].component
  <2>1. EXTERNAL_NODE_HEIGHT + NODE_GAP \div 2 = 72 /\ CANVAS_MARGIN = 24
    BY DEF EXTERNAL_NODE_HEIGHT, NODE_GAP, CANVAS_MARGIN
  <2> QED
    BY <2>1
<1>5. DOMAIN nodes = 1 .. size
  OBVIOUS
<1> HIDE DEF nodes, size
<1>6. IsFiniteSet({nodes[i] : i \in 1 .. size})
  BY <1>1, <1>5, IntervalIsFinite, ImageIsFinite
<1>7. ASSUME NEW i \in 1 .. size
      PROVE  /\ nodes[i].y \in Nat /\ nodes[i].y >= CANVAS_MARGIN
             /\ \E r \in S : nodes[i].id = r.id /\ nodes[i].componentId = r.component
  <2>1. i \in Nat /\ i >= 1 /\ s[i] \in S
    BY <1>1
  <2> QED
    BY <1>4, <2>1 DEF CANVAS_MARGIN
<1>8. ASSUME NEW i \in 1 .. size, NEW j \in 1 .. size, nodes[i] # nodes[j]
      PROVE  /\ nodes[i].id # nodes[j].id
             /\ \/ nodes[i].y + EXTERNAL_NODE_HEIGHT <= nodes[j].y
                \/ nodes[j].y + EXTERNAL_NODE_HEIGHT <= nodes[i].y
  <2>1. i \in Nat /\ j \in Nat /\ i # j /\ s[i] \in S /\ s[j] \in S
    BY <1>1, <1>8
  <2>2. s[i].id # s[j].id
    BY <1>1, <2>1
  <2>3. nodes[i].y = 24 + (i - 1) * 72 /\ nodes[j].y = 24 + (j - 1) * 72
    BY <1>4
  <2>4. i + 1 <= j \/ j + 1 <= i
    BY <2>1
  <2>5. nodes[i].id # nodes[j].id
    BY <1>4, <2>2
  <2> HIDE DEF nodes
  <2> QED
    BY <2>1, <2>3, <2>4, <2>5 DEF EXTERNAL_NODE_HEIGHT
<1>9. ASSUME NEW r \in S PROVE \E n \in Stacked(S, x) : n.id = r.id
  <2>1. PICK i \in 1 .. size : s[i] = r
    BY <1>1
  <2> QED
    BY <1>3, <1>4, <2>1
<1> QED
  BY <1>3, <1>4, <1>6, <1>7, <1>8, <1>9

LEMMA ColumnsAreThere ==
  ASSUME NEW count \in Nat
  PROVE  ColumnCount(count) \in 1 .. 4
<1> DEFINE wide == {4} \cup {k \in 1 .. 4 : k * k >= count}
<1>1. wide \subseteq 1 .. 4 /\ wide # {}
  OBVIOUS
<1>2. wide \in SUBSET Nat
  BY <1>1
<1>3. ColumnCount(count) = CHOOSE x \in wide : \A y \in wide : x <= y
  BY DEF ColumnCount, Sets!Min
<1> HIDE DEF wide
<1>4. \E x \in wide : \A y \in wide : x <= y
  BY <1>1, <1>2, LeastNumber
<1> QED
  BY <1>1, <1>3, <1>4

LEMMA SomeColumnIsLeast ==
  ASSUME NEW k \in 1 .. 4, NEW heights \in [1 .. k -> Nat]
  PROVE  LeastFilled(heights) \in 1 .. k
<1> DEFINE values == {heights[c] : c \in 1 .. k}
<1>1. PICK low \in values : \A v \in values : low <= v
  <2>1. heights[1] \in values
    OBVIOUS
  <2>2. values \in SUBSET Nat
    OBVIOUS
  <2> HIDE DEF values
  <2> QED
    BY <2>1, <2>2, LeastNumber
<1> DEFINE lowest == {c \in 1 .. k : heights[c] = low}
<1>2. PICK column \in lowest : \A c \in lowest : column <= c
  <2>1. lowest # {} /\ lowest \in SUBSET Nat
    BY <1>1
  <2> HIDE DEF lowest
  <2> QED
    BY <2>1, LeastNumber
<1>3. column \in 1 .. k /\ heights[column] = low
  BY <1>2
<1>4. ASSUME NEW other \in 1 .. k
      PROVE  \/ heights[column] < heights[other]
             \/ heights[column] = heights[other] /\ column <= other
  <2>1. low <= heights[other] /\ heights[other] \in Nat /\ low \in Nat
    BY <1>1, <1>3
  <2>2. CASE heights[other] = low
    BY <1>2, <1>3, <2>2
  <2>3. CASE heights[other] # low
    BY <1>3, <2>1, <2>3
  <2> QED
    BY <2>2, <2>3
<1>5. DOMAIN heights = 1 .. k
  OBVIOUS
<1> QED
  BY <1>3, <1>4, <1>5 DEF LeastFilled

(* A node is placed in the least filled column. *)
Filled(heights, height) == [heights EXCEPT ![LeastFilled(heights)] = @ + height + NODE_GAP]

(* How far the columns are filled: nothing but what the next node adds. *)
LEMMA ColumnsAreFilled ==
  ASSUME NEW s, Len(s) \in Nat, NEW collapsedIds,
         \A n \in 1 .. Len(s) : HeightOf(s[n], collapsedIds) \in Nat
  PROVE  LET k == ColumnCount(Len(s))
             heights == ColumnHeights(s, collapsedIds) IN
           /\ heights \in [0 .. Len(s) -> [1 .. k -> {y \in Nat : y >= CANVAS_MARGIN}]]
           /\ \A n \in 1 .. Len(s) :
                heights[n] = Filled(heights[n - 1], HeightOf(s[n], collapsedIds))
<1> DEFINE k == ColumnCount(Len(s))
           V == [1 .. k -> {y \in Nat : y >= CANVAS_MARGIN}]
           start == [column \in 1 .. k |-> CANVAS_MARGIN]
           next(before, n) == Filled(before, HeightOf(s[n], collapsedIds))
           step == [n \in 1 .. Len(s) |-> [before \in V |-> next(before, n)]]
           Defined(f) ==
             f = [n \in 0 .. Len(s) |-> IF n = 0 THEN start ELSE next(f[n - 1], n)]
<1>1. k \in 1 .. 4
  BY ColumnsAreThere
<1>2. start \in V
  BY DEF CANVAS_MARGIN
<1>3. ASSUME NEW before \in V, NEW n \in 1 .. Len(s)
      PROVE  next(before, n) \in V
  <2>1. before \in [1 .. k -> Nat]
    OBVIOUS
  <2>2. LeastFilled(before) \in 1 .. k
    BY <1>1, <2>1, SomeColumnIsLeast
  <2>3. before[LeastFilled(before)] + HeightOf(s[n], collapsedIds) + NODE_GAP
          \in {y \in Nat : y >= CANVAS_MARGIN}
    BY <2>2 DEF NODE_GAP, CANVAS_MARGIN
  <2> QED
    BY <2>2, <2>3 DEF Filled
<1> HIDE DEF V, next, start, k
<1>4. step \in [1 .. Len(s) -> [V -> V]]
  BY <1>3
<1>5. PICK f \in [0 .. Len(s) -> V] :
        f[0] = start /\ \A n \in 1 .. Len(s) : f[n] = step[n][f[n - 1]]
  <2> DEFINE N == Len(s)
  <2>1. N \in Nat /\ step \in [1 .. N -> [V -> V]]
    BY <1>4
  <2> HIDE DEF step, N
  <2>2. \E f : IsStepwise(f, N, V, start, step)
    BY <1>2, <2>1, RecursionIsDefined
  <2> QED
    BY <2>2 DEF N, IsStepwise
<1>6. ASSUME NEW n \in 1 .. Len(s)
      PROVE  f[n] = next(f[n - 1], n)
  <2>1. n - 1 \in 0 .. Len(s)
    OBVIOUS
  <2>2. f[n - 1] \in V
    BY <2>1
  <2> QED
    BY <1>5, <2>2
<1>7. ASSUME NEW n \in 0 .. Len(s)
      PROVE  f[n] = IF n = 0 THEN start ELSE next(f[n - 1], n)
  <2>1. n # 0 => n \in 1 .. Len(s)
    OBVIOUS
  <2> QED
    BY <1>5, <1>6, <2>1
<1>8. Defined(f)
  BY <1>5, <1>7
<1> DEFINE heights == ColumnHeights(s, collapsedIds)
<1>9. heights = CHOOSE g : Defined(g)
  BY DEF ColumnHeights, start, next, k, Filled
<1>10. Defined(heights)
  <2> HIDE DEF Defined, heights
  <2> QED
    BY <1>8, <1>9
<1> HIDE DEF heights
<1>11. DOMAIN heights = 0 .. Len(s) /\ heights[0] = start
  BY <1>10
<1>12. ASSUME NEW n \in 1 .. Len(s)
       PROVE  heights[n] = next(heights[n - 1], n)
  <2>1. n \in 0 .. Len(s) /\ n # 0
    OBVIOUS
  <2> QED
    BY <1>10, <2>1
<1>13. \A n \in 0 .. Len(s) : heights[n] \in V
  <2> DEFINE wrong == {n \in 0 .. Len(s) : heights[n] \notin V}
  <2> SUFFICES ASSUME wrong # {} PROVE FALSE
    OBVIOUS
  <2>1. PICK n \in wrong : \A m \in wrong : n <= m
    <3>1. wrong \in SUBSET Nat
      OBVIOUS
    <3> HIDE DEF wrong
    <3> QED
      BY <3>1, LeastNumber
  <2>2. n # 0
    BY <1>2, <1>11, <2>1
  <2>3. n \in 1 .. Len(s) /\ n - 1 \in 0 .. Len(s) /\ ~(n <= n - 1)
    BY <2>1, <2>2
  <2>4. heights[n - 1] \in V
    BY <2>1, <2>3
  <2>5. heights[n] \in V
    BY <1>3, <1>12, <2>3, <2>4
  <2> QED
    BY <2>1, <2>5
<1>14. heights \in [0 .. Len(s) -> V]
  <2>1. heights = [n \in 0 .. Len(s) |-> heights[n]]
    BY <1>10
  <2> QED
    BY <1>13, <2>1
<1> QED
  BY <1>12, <1>14 DEF heights, V, k, next

(* Two sequences, one after the other. *)
IsJoined(c, a, b, S) ==
  /\ c \in Seq(S) /\ Len(c) = Len(a) + Len(b)
  /\ \A i \in 1 .. Len(a) : c[i] = a[i]
  /\ \A i \in 1 .. Len(b) : c[Len(a) + i] = b[i]

LEMMA Joined ==
  ASSUME NEW S, NEW a \in Seq(S), NEW b \in Seq(S)
  PROVE  IsJoined(a \o b, a, b, S)
BY DEF IsJoined

LEMMA RowsOfNode ==
  ASSUME NEW d, d.fields \in Seq(Messages!TypeField), d.methods \in Seq(Messages!TypeMethod),
         NEW collapsedIds
  PROVE  /\ nodeRows(d) \in Seq({<<"field", name>> : name \in Members}
                                  \cup {<<"method", name>> : name \in Members})
         /\ Len(nodeRows(d)) = Len(d.fields) + Len(d.methods)
         /\ \A i \in 1 .. Len(d.fields) : nodeRows(d)[i] = <<"field", d.fields[i].name>>
         /\ \A i \in 1 .. Len(d.methods) :
              nodeRows(d)[Len(d.fields) + i] = <<"method", d.methods[i].name>>
         /\ HeightOf(d, collapsedIds) \in Nat /\ HeightOf(d, collapsedIds) >= TYPE_HEADER_HEIGHT
<1> DEFINE Rows == {<<"field", name>> : name \in Members} \cup {<<"method", name>> : name \in Members}
           fields == [i \in DOMAIN d.fields |-> <<"field", d.fields[i].name>>]
           methods == [i \in DOMAIN d.methods |-> <<"method", d.methods[i].name>>]
<1>1. nodeRows(d) = fields \o methods
  BY DEF nodeRows
<1>2. /\ Len(d.fields) \in Nat /\ DOMAIN d.fields = 1 .. Len(d.fields)
      /\ Len(d.methods) \in Nat /\ DOMAIN d.methods = 1 .. Len(d.methods)
  OBVIOUS
<1>3. /\ \A i \in 1 .. Len(d.fields) : d.fields[i].name \in Members
      /\ \A i \in 1 .. Len(d.methods) : d.methods[i].name \in Members
  <2>1. \A i \in 1 .. Len(d.fields) : d.fields[i] \in Messages!TypeField
    BY <1>2
  <2>2. \A i \in 1 .. Len(d.methods) : d.methods[i] \in Messages!TypeMethod
    BY <1>2
  <2>3. \A field \in Messages!TypeField : field.name \in Members
    BY DEF Messages!TypeField
  <2>4. \A method \in Messages!TypeMethod : method.name \in Members
    BY DEF Messages!TypeMethod
  <2> QED
    BY <2>1, <2>2, <2>3, <2>4
<1>4. fields \in Seq(Rows) /\ Len(fields) = Len(d.fields)
  <2>1. \A i \in 1 .. Len(d.fields) : fields[i] \in Rows
    BY <1>2, <1>3
  <2>2. fields \in [1 .. Len(d.fields) -> Rows]
    BY <1>2, <2>1
  <2> HIDE DEF Rows, fields
  <2> QED
    BY <1>2, <2>2
<1>5. methods \in Seq(Rows) /\ Len(methods) = Len(d.methods)
  <2>1. \A i \in 1 .. Len(d.methods) : methods[i] \in Rows
    BY <1>2, <1>3
  <2>2. methods \in [1 .. Len(d.methods) -> Rows]
    BY <1>2, <2>1
  <2> HIDE DEF Rows, methods
  <2> QED
    BY <1>2, <2>2
<1>6. /\ \A i \in 1 .. Len(d.fields) : fields[i] = <<"field", d.fields[i].name>>
      /\ \A i \in 1 .. Len(d.methods) : methods[i] = <<"method", d.methods[i].name>>
  BY <1>2
<1> HIDE DEF fields, methods, Rows
<1>7. /\ nodeRows(d) \in Seq(Rows)
      /\ Len(nodeRows(d)) = Len(d.fields) + Len(d.methods)
      /\ \A i \in 1 .. Len(d.fields) : nodeRows(d)[i] = fields[i]
      /\ \A i \in 1 .. Len(d.methods) : nodeRows(d)[Len(d.fields) + i] = methods[i]
  <2>1. IsJoined(fields \o methods, fields, methods, Rows)
    BY <1>4, <1>5, Joined
  <2> QED
    BY <1>1, <1>4, <1>5, <2>1 DEF IsJoined
<1>8. /\ HeightOf(d, collapsedIds) \in Nat
      /\ HeightOf(d, collapsedIds) >= TYPE_HEADER_HEIGHT
  <2>1. Len(nodeRows(d)) \in Nat
    <3>1. \A rows \in Seq(Rows) : Len(rows) \in Nat
      OBVIOUS
    <3> QED
      BY <1>7, <3>1
  <2> QED
    BY <2>1 DEF HeightOf, nodeHeight, TYPE_HEADER_HEIGHT, TYPE_ROW_HEIGHT, NODE_BOTTOM_PADDING
<1> QED
  BY <1>6, <1>7, <1>8 DEF Rows

LEMMA ColumnIsFilled ==
  ASSUME NEW k \in 1 .. 4, NEW heights \in [1 .. k -> Nat], NEW height \in Nat
  PROVE  /\ LeastFilled(heights) \in 1 .. k
         /\ Filled(heights, height)[LeastFilled(heights)]
              = heights[LeastFilled(heights)] + height + NODE_GAP
         /\ \A c \in 1 .. k : heights[c] <= Filled(heights, height)[c]
<1>1. LeastFilled(heights) \in 1 .. k
  BY SomeColumnIsLeast
<1> QED
  BY <1>1 DEF Filled, NODE_GAP

(* A column that is filled stays filled. *)
LEMMA ColumnsOnlyGrow ==
  ASSUME NEW s, Len(s) \in Nat, NEW collapsedIds,
         \A n \in 1 .. Len(s) : HeightOf(s[n], collapsedIds) \in Nat,
         NEW column \in 1 .. ColumnCount(Len(s)),
         NEW i \in 0 .. Len(s), NEW j \in 0 .. Len(s), i <= j
  PROVE  LET heights == ColumnHeights(s, collapsedIds) IN heights[i][column] <= heights[j][column]
<1> DEFINE heights == ColumnHeights(s, collapsedIds)
           k == ColumnCount(Len(s))
           wrong == {n \in i .. Len(s) : ~(heights[i][column] <= heights[n][column])}
<1>1. /\ heights \in [0 .. Len(s) -> [1 .. k -> {y \in Nat : y >= CANVAS_MARGIN}]]
      /\ \A n \in 1 .. Len(s) :
           heights[n] = Filled(heights[n - 1], HeightOf(s[n], collapsedIds))
  BY ColumnsAreFilled
<1> HIDE DEF heights, k
<1>2. column \in 1 .. k
  BY DEF k
<1>3. ASSUME NEW n \in 0 .. Len(s)
      PROVE  heights[n] \in [1 .. k -> Nat] /\ heights[n][column] \in Nat
  <2>1. heights[n] \in [1 .. k -> {y \in Nat : y >= CANVAS_MARGIN}]
    BY <1>1
  <2> QED
    BY <1>2, <2>1
<1>4. wrong = {}
  <2> SUFFICES ASSUME wrong # {} PROVE FALSE
    OBVIOUS
  <2>1. PICK n \in wrong : \A m \in wrong : n <= m
    <3>1. wrong \in SUBSET Nat
      OBVIOUS
    <3> HIDE DEF wrong
    <3> QED
      BY <3>1, LeastNumber
  <2>2. n # i
    BY <1>3, <2>1
  <2>3. n \in 1 .. Len(s) /\ n - 1 \in i .. Len(s) /\ n - 1 \in 0 .. Len(s) /\ ~(n <= n - 1)
    BY <2>1, <2>2
  <2>4. heights[i][column] <= heights[n - 1][column]
    BY <2>1, <2>3
  <2>5. heights[n - 1][column] <= heights[n][column]
    <3>1. heights[n - 1] \in [1 .. k -> Nat]
      BY <1>3, <2>3
    <3>2. HeightOf(s[n], collapsedIds) \in Nat
      BY <2>3
    <3>3. k \in 1 .. 4
      BY ColumnsAreThere DEF k
    <3> QED
      BY <1>1, <1>2, <2>3, <3>1, <3>2, <3>3, ColumnIsFilled
  <2>6. heights[i][column] \in Nat /\ heights[n - 1][column] \in Nat /\ heights[n][column] \in Nat
    BY <1>3, <2>3
  <2> QED
    BY <2>1, <2>4, <2>5, <2>6
<1> QED
  BY <1>4 DEF heights

(* What the diagram needs to know of the declarations that it draws. *)
AreDeclared(S) ==
  /\ IsFiniteSet(S)
  /\ \A d \in S : /\ d.id \in Messages!TypeIds
                  /\ d.kind \in Messages!TypeKinds
                  /\ d.fields \in Seq(Messages!TypeField)
                  /\ d.methods \in Seq(Messages!TypeMethod)
  /\ \A c, d \in S : c.id = d.id => c = d

(* The node of a declaration. *)
IsNodeOf(n, d, collapsedIds, offset) ==
  /\ n.id = d.id /\ n.kind = d.kind /\ n.incomingCount \in Nat
  /\ n.collapsed = (d.id \in collapsedIds)
  /\ n.rows = IF n.collapsed THEN <<>> ELSE nodeRows(d)
  /\ n.width = TYPE_NODE_WIDTH
  /\ n.height \in Nat /\ n.height >= TYPE_HEADER_HEIGHT
  /\ n.x \in Nat /\ n.x >= CANVAS_MARGIN + offset
  /\ n.y \in Nat /\ n.y >= CANVAS_MARGIN

Apart(m, n) ==
  /\ m.id # n.id
  /\ \/ m.x + m.width <= n.x
     \/ n.x + n.width <= m.x
     \/ m.y + m.height <= n.y
     \/ n.y + n.height <= m.y

LEMMA PlacedNodes ==
  ASSUME NEW S, AreDeclared(S), NEW collapsedIds, NEW offset \in Nat, NEW incoming,
         IsFiniteSet(incoming)
  PROVE  LET nodes == layoutNodes(Sorted(S, ById(S)), collapsedIds, offset, incoming) IN
           /\ IsFiniteSet(nodes)
           /\ \A n \in nodes : \E d \in S : IsNodeOf(n, d, collapsedIds, offset)
           /\ \A d \in S : \E n \in nodes : IsNodeOf(n, d, collapsedIds, offset)
           /\ \A m, n \in nodes : m # n => Apart(m, n)
<1> DEFINE s == Sorted(S, ById(S))
           size == Cardinality(S)
           k == ColumnCount(size)
           heights == ColumnHeights(s, collapsedIds)
           node == [i \in 1 .. size |->
                      Placed(s[i], collapsedIds, offset, incoming, heights[i - 1])]
           column(i) == LeastFilled(heights[i - 1])
           height(i) == HeightOf(s[i], collapsedIds)
<1>1. /\ size \in Nat /\ s \in [1 .. size -> S] /\ Len(s) = size
      /\ \A i, j \in 1 .. size : s[i] = s[j] => i = j
      /\ \A d \in S : \E i \in 1 .. size : s[i] = d
  <2>1. IsStrictOrder(S, ById(S))
    BY StrictlyById DEF AreDeclared
  <2> QED
    BY <2>1, SortedIsTotal DEF AreDeclared
<1>2. layoutNodes(s, collapsedIds, offset, incoming) = {node[i] : i \in 1 .. size}
  <2>1. DOMAIN s = 1 .. size
    BY <1>1
  <2> QED
    BY <2>1 DEF layoutNodes
<1> HIDE DEF s
<1>3. ASSUME NEW i \in 1 .. size
      PROVE  s[i] \in S /\ height(i) \in Nat /\ height(i) >= TYPE_HEADER_HEIGHT
  <2>1. s[i] \in S
    BY <1>1
  <2>2. s[i].fields \in Seq(Messages!TypeField) /\ s[i].methods \in Seq(Messages!TypeMethod)
    BY <2>1 DEF AreDeclared
  <2> QED
    BY <2>1, <2>2, RowsOfNode
<1>4. k \in 1 .. 4
  BY <1>1, ColumnsAreThere
<1>5. /\ heights \in [0 .. size -> [1 .. k -> {y \in Nat : y >= CANVAS_MARGIN}]]
      /\ \A i \in 1 .. size : heights[i] = Filled(heights[i - 1], height(i))
  <2> DEFINE N == Len(s)
  <2>1. N \in Nat /\ \A n \in 1 .. N : HeightOf(s[n], collapsedIds) \in Nat
    BY <1>1, <1>3
  <2>2. /\ heights \in [0 .. N -> [1 .. ColumnCount(N) -> {y \in Nat : y >= CANVAS_MARGIN}]]
        /\ \A i \in 1 .. N : heights[i] = Filled(heights[i - 1], height(i))
    BY <2>1, ColumnsAreFilled
  <2>3. N = size
    BY <1>1
  <2> HIDE DEF N, size, heights
  <2> QED
    BY <2>2, <2>3
<1>6. ASSUME NEW i \in 0 .. size, NEW j \in 0 .. size, i <= j, NEW c \in 1 .. k
      PROVE  heights[i][c] <= heights[j][c]
  BY <1>1, <1>3, <1>6, ColumnsOnlyGrow
<1>7. DOMAIN node = 1 .. size
  OBVIOUS
<1>8. ASSUME NEW i \in 1 .. size
      PROVE  /\ node[i].id = s[i].id /\ node[i].kind = s[i].kind
             /\ node[i].incomingCount = Cardinality({r \in incoming : r.targetId = s[i].id})
             /\ node[i].collapsed = (s[i].id \in collapsedIds)
             /\ node[i].rows = IF s[i].id \in collapsedIds THEN <<>> ELSE nodeRows(s[i])
             /\ node[i].x = CANVAS_MARGIN + offset + (column(i) - 1) * (TYPE_NODE_WIDTH + COLUMN_GAP)
             /\ node[i].y = heights[i - 1][column(i)]
             /\ node[i].width = TYPE_NODE_WIDTH
             /\ node[i].height = height(i)
  <2>1. node[i] = Placed(s[i], collapsedIds, offset, incoming, heights[i - 1])
    OBVIOUS
  <2> HIDE DEF node, heights
  <2> QED
    BY <2>1 DEF Placed
<1> HIDE DEF node, heights, size, k
<1>9. ASSUME NEW i \in 0 .. size
      PROVE  /\ heights[i] \in [1 .. k -> Nat]
             /\ \A c \in 1 .. k : heights[i][c] \in Nat /\ heights[i][c] >= CANVAS_MARGIN
  <2>1. heights[i] \in [1 .. k -> {y \in Nat : y >= CANVAS_MARGIN}]
    BY <1>5
  <2> QED
    BY <2>1
<1>10. ASSUME NEW i \in 1 .. size
       PROVE  /\ column(i) \in 1 .. k /\ column(i) \in Nat
              /\ heights[i][column(i)] = heights[i - 1][column(i)] + height(i) + NODE_GAP
  <2>1. i - 1 \in 0 .. size
    BY <1>1
  <2>2. heights[i - 1] \in [1 .. k -> Nat]
    BY <1>9, <2>1
  <2>3. height(i) \in Nat
    BY <1>3
  <2> HIDE DEF height
  <2>4. /\ LeastFilled(heights[i - 1]) \in 1 .. k
        /\ Filled(heights[i - 1], height(i))[LeastFilled(heights[i - 1])]
             = heights[i - 1][LeastFilled(heights[i - 1])] + height(i) + NODE_GAP
    BY <1>4, <2>2, <2>3, ColumnIsFilled
  <2>5. heights[i] = Filled(heights[i - 1], height(i))
    BY <1>5
  <2>6. LeastFilled(heights[i - 1]) \in Nat
    BY <1>4, <2>4
  <2> QED
    BY <2>4, <2>5, <2>6
<1>11. ASSUME NEW i \in 1 .. size
       PROVE  /\ node[i].x \in Nat /\ node[i].x = 24 + offset + (column(i) - 1) * 360
              /\ node[i].x >= CANVAS_MARGIN + offset
              /\ node[i].y \in Nat /\ node[i].y >= CANVAS_MARGIN
  <2>1. i - 1 \in 0 .. size
    BY <1>1
  <2>2. node[i].y \in Nat /\ node[i].y >= CANVAS_MARGIN
    BY <1>8, <1>9, <1>10, <2>1
  <2>3. node[i].x = 24 + offset + (column(i) - 1) * 360
    <3>1. CANVAS_MARGIN = 24 /\ TYPE_NODE_WIDTH + COLUMN_GAP = 360
      BY DEF CANVAS_MARGIN, TYPE_NODE_WIDTH, COLUMN_GAP
    <3>2. node[i].x = CANVAS_MARGIN + offset + (column(i) - 1) * (TYPE_NODE_WIDTH + COLUMN_GAP)
      BY <1>8
    <3> HIDE DEF node, column
    <3> QED
      BY <3>1, <3>2
  <2>4. column(i) \in Nat /\ column(i) >= 1
    BY <1>4, <1>10
  <2> HIDE DEF column
  <2> QED
    BY <2>2, <2>3, <2>4 DEF CANVAS_MARGIN
<1>12. ASSUME NEW i \in 1 .. size
       PROVE  IsNodeOf(node[i], s[i], collapsedIds, offset)
  <2>1. node[i].incomingCount \in Nat
    <3> DEFINE of == {r \in incoming : r.targetId = s[i].id}
    <3>1. IsFiniteSet(of)
      BY FS_Subset
    <3>2. Cardinality(of) \in Nat
      BY <3>1, FS_CardinalityType
    <3> QED
      BY <1>8, <3>2
  <2>2. height(i) \in Nat /\ height(i) >= TYPE_HEADER_HEIGHT
    BY <1>3
  <2>3. /\ node[i].id = s[i].id /\ node[i].kind = s[i].kind
        /\ node[i].collapsed = (s[i].id \in collapsedIds)
        /\ node[i].rows = IF s[i].id \in collapsedIds THEN <<>> ELSE nodeRows(s[i])
        /\ node[i].width = TYPE_NODE_WIDTH
        /\ node[i].height = height(i)
    BY <1>8
  <2>4. /\ node[i].x \in Nat /\ node[i].x >= CANVAS_MARGIN + offset
        /\ node[i].y \in Nat /\ node[i].y >= CANVAS_MARGIN
    BY <1>11
  <2> HIDE DEF height, column
  <2>5. node[i].height \in Nat /\ node[i].height >= TYPE_HEADER_HEIGHT
    BY <2>2, <2>3
  <2> QED
    BY <2>1, <2>3, <2>4, <2>5 DEF IsNodeOf
(* A later node of the same column is further down. *)
<1>13. ASSUME NEW i \in 1 .. size, NEW j \in 1 .. size, i < j
       PROVE  Apart(node[i], node[j])
  <2>1. node[i].id # node[j].id
    <3>1. s[i] \in S /\ s[j] \in S /\ s[i] # s[j]
      BY <1>1, <1>3, <1>13
    <3>2. s[i].id # s[j].id
      BY <3>1 DEF AreDeclared
    <3> QED
      BY <1>8, <3>2
  <2>2. CASE column(i) = column(j)
    <3>1. i \in 0 .. size /\ j - 1 \in 0 .. size /\ i - 1 \in 0 .. size /\ i <= j - 1
      BY <1>1, <1>13
    <3>2. heights[i][column(i)] <= heights[j - 1][column(i)]
      BY <1>6, <1>10, <3>1
    <3>3. /\ heights[i][column(i)] = node[i].y + node[i].height + NODE_GAP
          /\ heights[j - 1][column(i)] = node[j].y
      BY <1>8, <1>10, <2>2
    <3>4. node[i].y \in Nat /\ node[j].y \in Nat /\ node[i].height \in Nat
      BY <1>3, <1>8, <1>11
    <3>5. node[i].y + node[i].height <= node[j].y
      BY <3>2, <3>3, <3>4 DEF NODE_GAP
    <3> QED
      BY <2>1, <3>5 DEF Apart
  <2>3. CASE column(i) # column(j)
    <3>1. /\ node[i].x = 24 + offset + (column(i) - 1) * 360
          /\ node[j].x = 24 + offset + (column(j) - 1) * 360
      BY <1>11
    <3>2. node[i].width = TYPE_NODE_WIDTH /\ node[j].width = TYPE_NODE_WIDTH
      BY <1>8
    <3>3. column(i) \in Nat /\ column(j) \in Nat
      BY <1>10
    <3> HIDE DEF column, height
    <3>4. node[i].width = 264 /\ node[j].width = 264
      BY <3>2 DEF TYPE_NODE_WIDTH
    <3>5. node[i].x + node[i].width <= node[j].x \/ node[j].x + node[j].width <= node[i].x
      BY <2>3, <3>1, <3>3, <3>4
    <3> QED
      BY <2>1, <3>5 DEF Apart
  <2> QED
    BY <2>2, <2>3
<1>14. ASSUME NEW i \in 1 .. size, NEW j \in 1 .. size, node[i] # node[j]
       PROVE  Apart(node[i], node[j])
  <2>1. i < j \/ j < i
    BY <1>1, <1>14
  <2>2. Apart(node[j], node[i]) => Apart(node[i], node[j])
    BY DEF Apart
  <2> QED
    BY <1>13, <2>1, <2>2
<1>15. IsFiniteSet({node[i] : i \in 1 .. size})
  BY <1>1, <1>7, IntervalIsFinite, ImageIsFinite
<1>16. ASSUME NEW d \in S
       PROVE  \E i \in 1 .. size : IsNodeOf(node[i], d, collapsedIds, offset)
  BY <1>1, <1>12
<1> QED
  BY <1>2, <1>3, <1>12, <1>14, <1>15, <1>16 DEF s

-----------------------------------------------------------------------------
(* What a component declares, and the diagram of it.                       *)

LEMMA Greatest ==
  ASSUME NEW S, IsFiniteSet(S), NEW of \in [S -> Nat], NEW least \in Nat
  PROVE  LET max == Sets!Max({least} \cup {of[n] : n \in S}) IN
           /\ max \in Nat /\ least <= max
           /\ \A n \in S : of[n] <= max
<1> DEFINE image == {of[n] : n \in S}
           all == {least} \cup image
           max == Sets!Max(all)
<1>1. all \in SUBSET Int /\ all \in SUBSET Nat /\ all # {}
  OBVIOUS
<1>2. DOMAIN of = S
  OBVIOUS
<1>3. IsFiniteSet(image)
  BY <1>2, ImageIsFinite
<1>4. IsFiniteSet(all)
  <2> HIDE DEF image
  <2>1. IsFiniteSet(image \cup {least})
    BY <1>3, FS_AddElement
  <2>2. image \cup {least} = all
    OBVIOUS
  <2> QED
    BY <2>1, <2>2
<1>5. \E n \in all : \A m \in all : m <= n
  <2> HIDE DEF all
  <2> QED
    BY <1>1, <1>4, GreatestNumber
<1>6. \A n \in S : of[n] \in all
  OBVIOUS
<1>7. least \in all
  OBVIOUS
<1>8. max = CHOOSE n \in all : \A m \in all : n >= m
  BY DEF Sets!Max
<1> HIDE DEF all
<1>9. \A n, m \in all : m <= n <=> n >= m
  BY <1>1
<1>10. max \in all /\ \A m \in all : m <= max
  BY <1>5, <1>8, <1>9
<1> HIDE DEF max
<1>11. max \in Nat
  BY <1>1, <1>10
<1> QED
  BY <1>6, <1>7, <1>10, <1>11 DEF max, all

(* The types that a component names, and those that name its own. *)
Named(path) ==
  (UNION {RelatedTo(d) : d \in TypesOf(path)}) \cup {Source(r) : r \in IncomingOf(path)}

LEMMA NamedTypes ==
  ASSUME NEW path \in TypePaths
  PROVE  /\ IsFiniteSet(Named(path))
         /\ \A r \in Named(path) : r.id \in Messages!TypeIds /\ r.component \in TypePaths
         /\ \A r, q \in Named(path) : r.id = q.id => r = q
         /\ \A r \in Named(path) : r.component = path => \E d \in TypesOf(path) : d.id = r.id
<1> DEFINE types == TypesOf(path)
           incoming == IncomingOf(path)
           related == [d \in types |-> RelatedTo(d)]
           sources == [r \in incoming |-> Source(r)]
<1>1. IsFiniteSet(UNION {RelatedTo(d) : d \in types})
  <2> DEFINE family == {related[d] : d \in types}
  <2>1. IsFiniteSet(types) /\ DOMAIN related = types
    BY Inventory
  <2>2. \A T \in family : IsFiniteSet(T)
    BY Inventory
  <2>3. family = {RelatedTo(d) : d \in types}
    OBVIOUS
  <2>4. IsFiniteSet(family)
    <3> HIDE DEF related, types
    <3> QED
      BY <2>1, ImageIsFinite
  <2> HIDE DEF family
  <2>5. IsFiniteSet(UNION family)
    BY <2>2, <2>4, FS_UNION
  <2> QED
    BY <2>3, <2>5
<1>2. IsFiniteSet({Source(r) : r \in incoming})
  <2>1. IsFiniteSet(incoming) /\ DOMAIN sources = incoming
    BY Inventory
  <2>2. {sources[r] : r \in incoming} = {Source(r) : r \in incoming}
    OBVIOUS
  <2>3. IsFiniteSet({sources[r] : r \in incoming})
    <3> HIDE DEF sources, incoming
    <3> QED
      BY <2>1, ImageIsFinite
  <2> QED
    BY <2>2, <2>3
<1>3. IsFiniteSet(Named(path))
  BY <1>1, <1>2, FS_Union DEF Named
<1>4. ASSUME NEW r \in Named(path) PROVE r.id \in Messages!TypeIds /\ r.component \in TypePaths
  <2>1. CASE \E d \in types : r \in RelatedTo(d)
    <3>1. r \in Messages!TypeReference
      BY <2>1, Inventory
    <3> QED
      BY <3>1 DEF Messages!TypeReference
  <2>2. CASE \E q \in incoming : r = Source(q)
    <3>1. PICK q \in incoming : r = Source(q)
      BY <2>2
    <3>2. q \in Messages!IncomingTypeRelation
      BY Inventory
    <3>3. q.sourceId \in Messages!TypeIds /\ q.sourceComponent \in TypePaths
      BY <3>2 DEF Messages!IncomingTypeRelation
    <3> QED
      BY <3>1, <3>3 DEF Source
  <2> QED
    BY <2>1, <2>2 DEF Named
<1>5. /\ \A r, q \in Named(path) : r.id = q.id => r = q
      /\ \A r \in Named(path) : r.component = path => \E d \in types : d.id = r.id
  BY IdentifierAssumption DEF Named
<1> QED
  BY <1>3, <1>4, <1>5

LEMMA DeclaredTypes ==
  ASSUME NEW path \in TypePaths
  PROVE  AreDeclared(TypesOf(path))
<1>1. \A c, d \in TypesOf(path) : c.id = d.id => c = d
  BY IdentifierAssumption
<1> QED
  BY <1>1, Inventory DEF AreDeclared

Placeable(n) == n.x \in Nat /\ n.y \in Nat /\ n.width \in Nat /\ n.height \in Nat

IsExternal(n) ==
  /\ n.componentId \in TypePaths
  /\ n.width = EXTERNAL_NODE_WIDTH /\ n.height = EXTERNAL_NODE_HEIGHT
  /\ n.x \in Nat /\ n.x >= CANVAS_MARGIN
  /\ n.y \in Nat /\ n.y >= CANVAS_MARGIN

(* Types of other components that are referred to are right of all nodes,  *)
(* below each other.                                                       *)
LEMMA OutgoingNodes ==
  ASSUME NEW path \in TypePaths, NEW nodes, IsFiniteSet(nodes), \A n \in nodes : Placeable(n),
         NEW targets, targets \subseteq Named(path)
  PROVE  LET outgoing == layoutExternals(targets, nodes) IN
           /\ IsFiniteSet(outgoing)
           /\ \A n \in outgoing : /\ IsExternal(n) /\ \E r \in targets : r.id = n.id
                                  /\ \A m \in nodes : m.x + m.width + COLUMN_GAP <= n.x
           /\ \A r \in targets : \E n \in outgoing : n.id = r.id
           /\ \A m, n \in outgoing : m # n => Apart(m, n)
<1> DEFINE right == [n \in nodes |-> n.x + n.width]
           rightmost == Sets!Max({CANVAS_MARGIN} \cup {right[n] : n \in nodes})
           x == rightmost + COLUMN_GAP
           outgoing == layoutExternals(targets, nodes)
<1>1. right \in [nodes -> Nat] /\ CANVAS_MARGIN \in Nat
  BY DEF Placeable, CANVAS_MARGIN
<1>2. rightmost \in Nat /\ CANVAS_MARGIN <= rightmost /\ \A n \in nodes : right[n] <= rightmost
  <2> HIDE DEF right
  <2> QED
    BY <1>1, Greatest
<1>3. outgoing = Stacked(targets, x)
  <2>1. {right[n] : n \in nodes} = {n.x + n.width : n \in nodes}
    OBVIOUS
  <2> QED
    BY <2>1 DEF layoutExternals
<1> HIDE DEF rightmost, outgoing
<1>4. x \in Nat /\ x >= CANVAS_MARGIN /\ x \in Int
  BY <1>2 DEF COLUMN_GAP, CANVAS_MARGIN
<1>5. /\ IsFiniteSet(targets) /\ \A r \in targets : r.id \in Messages!TypeIds
      /\ \A r, q \in targets : r.id = q.id => r = q
      /\ \A r \in targets : r.component \in TypePaths
  BY NamedTypes, FS_Subset
<1>6. ASSUME NEW m \in nodes PROVE m.x + m.width + COLUMN_GAP <= x
  BY <1>1, <1>2 DEF COLUMN_GAP, Placeable
<1> HIDE DEF x, right
<1>7. /\ IsFiniteSet(outgoing)
      /\ \A n \in outgoing :
              /\ n.x = x /\ n.width = EXTERNAL_NODE_WIDTH /\ n.height = EXTERNAL_NODE_HEIGHT
              /\ n.y \in Nat /\ n.y >= CANVAS_MARGIN
              /\ \E r \in targets : n.id = r.id /\ n.componentId = r.component
      /\ \A r \in targets : \E n \in outgoing : n.id = r.id
      /\ \A m, n \in outgoing :
              m # n => /\ m.id # n.id
                       /\ m.y + EXTERNAL_NODE_HEIGHT <= n.y \/ n.y + EXTERNAL_NODE_HEIGHT <= m.y
  BY <1>3, <1>4, <1>5, StackedNodes
<1>8. ASSUME NEW n \in outgoing
      PROVE  /\ IsExternal(n) /\ \E r \in targets : r.id = n.id
             /\ \A m \in nodes : m.x + m.width + COLUMN_GAP <= n.x
  BY <1>4, <1>5, <1>6, <1>7 DEF IsExternal
<1>9. ASSUME NEW m \in outgoing, NEW n \in outgoing, m # n
      PROVE  Apart(m, n)
  BY <1>7, <1>9 DEF Apart
<1> QED
  BY <1>7, <1>8, <1>9 DEF outgoing

(* Types of other components that refer to the selected one are left of    *)
(* the canvas, below each other.                                           *)
LEMMA IncomingNodes ==
  ASSUME NEW path \in TypePaths, NEW relations, relations \subseteq IncomingOf(path),
         NEW outgoing
  PROVE  LET sources == layoutIncomingSources(relations, outgoing) IN
           /\ IsFiniteSet(sources)
           /\ \A n \in sources : /\ IsExternal(n) /\ n.x = CANVAS_MARGIN
                                 /\ \E r \in relations : r.sourceId = n.id
                                 /\ \A m \in outgoing : m.id # n.id
           /\ \A r \in relations : \E n \in sources \cup outgoing : n.id = r.sourceId
           /\ \A m, n \in sources : m # n => Apart(m, n)
<1> DEFINE unplaced == {r \in relations : Unplaced(r, outgoing)}
           named == {Source(r) : r \in unplaced}
           sources == layoutIncomingSources(relations, outgoing)
<1>1. named \subseteq Named(path)
  BY DEF Named
<1>2. \A r \in named : \E q \in relations : r.id = q.sourceId /\ \A m \in outgoing : m.id # q.sourceId
  BY DEF Unplaced, Source
<1>3. ASSUME NEW q \in relations, \A m \in outgoing : m.id # q.sourceId
      PROVE  \E r \in named : r.id = q.sourceId
  <2>1. Source(q) \in named
    BY <1>3 DEF Unplaced
  <2>2. Source(q).id = q.sourceId
    BY DEF Source
  <2> QED
    BY <2>1, <2>2
<1>4. sources = Stacked(named, CANVAS_MARGIN)
  BY DEF layoutIncomingSources
<1> HIDE DEF named, sources
<1>5. /\ IsFiniteSet(named) /\ \A r \in named : r.id \in Messages!TypeIds
      /\ \A r, q \in named : r.id = q.id => r = q
      /\ \A r \in named : r.component \in TypePaths
  BY <1>1, NamedTypes, FS_Subset
<1>6. CANVAS_MARGIN \in Int /\ CANVAS_MARGIN \in Nat /\ CANVAS_MARGIN >= CANVAS_MARGIN
  BY DEF CANVAS_MARGIN
<1>7. /\ IsFiniteSet(sources)
      /\ \A n \in sources :
              /\ n.x = CANVAS_MARGIN /\ n.width = EXTERNAL_NODE_WIDTH
              /\ n.height = EXTERNAL_NODE_HEIGHT
              /\ n.y \in Nat /\ n.y >= CANVAS_MARGIN
              /\ \E r \in named : n.id = r.id /\ n.componentId = r.component
      /\ \A r \in named : \E n \in sources : n.id = r.id
      /\ \A m, n \in sources :
              m # n => /\ m.id # n.id
                       /\ m.y + EXTERNAL_NODE_HEIGHT <= n.y \/ n.y + EXTERNAL_NODE_HEIGHT <= m.y
  BY <1>4, <1>5, <1>6, StackedNodes
<1>8. ASSUME NEW n \in sources
      PROVE  /\ IsExternal(n) /\ n.x = CANVAS_MARGIN
             /\ \E r \in relations : r.sourceId = n.id
             /\ \A m \in outgoing : m.id # n.id
  <2>1. PICK r \in named : n.id = r.id /\ n.componentId = r.component
    BY <1>7
  <2>2. IsExternal(n)
    BY <1>5, <1>6, <1>7, <2>1 DEF IsExternal
  <2> QED
    BY <1>2, <1>7, <2>1, <2>2
<1>9. ASSUME NEW m \in sources, NEW n \in sources, m # n
      PROVE  Apart(m, n)
  BY <1>7, <1>9 DEF Apart
<1>10. ASSUME NEW r \in relations PROVE \E n \in sources \cup outgoing : n.id = r.sourceId
  BY <1>3, <1>7
<1> QED
  BY <1>7, <1>8, <1>9, <1>10 DEF sources

(* The diagram of one component, whatever is collapsed and selected in it: *)
(* every type has its node, every type that they name or that names the    *)
(* selected one has a node of its own, and no two touch.                   *)
IsDiagramOf(model, path, collapsedIds, selectedTypeId) ==
  LET types == TypesOf(path)
      placed == model.nodes \cup model.externals IN
    /\ IsFiniteSet(placed)
    /\ \A n \in model.nodes : \E d \in types : IsNodeOf(n, d, collapsedIds, 0)
    /\ \A d \in types : \E n \in model.nodes : IsNodeOf(n, d, collapsedIds, 0)
    /\ \A n \in model.externals : IsExternal(n) /\ \A d \in types : d.id # n.id
    /\ \A m, n \in placed : m # n => Apart(m, n)
    /\ \A n \in placed : n.x + n.width <= model.width /\ n.y + n.height <= model.height
    /\ \A d \in types : \A r \in RelatedTo(d) : \E n \in placed : n.id = r.id
    /\ \A e \in model.edges :
         \/ \E d \in types : e \in EdgesOf(d, collapsedIds)
         \/ \E r \in IncomingOf(path) :
              /\ e = edge(r.kind, r.sourceId, NoPort, r.targetId)
              /\ \E n \in placed : n.id = r.sourceId
              /\ \E d \in types : d.id = r.targetId

LEMMA DiagramOfTypes ==
  ASSUME NEW path \in TypePaths, NEW collapsedIds, NEW selectedTypeId
  PROVE  IsDiagramOf(
           buildTypeDiagramModel(TypesOf(path), IncomingOf(path), collapsedIds, selectedTypeId),
           path, collapsedIds, selectedTypeId)
<1> DEFINE types == TypesOf(path)
           incoming == IncomingOf(path)
           internalIds == {d.id : d \in types}
           relevant ==
             {r \in incoming : r.targetId \in internalIds /\ r.sourceId \notin internalIds}
           selected == {r \in relevant : r.targetId = selectedTypeId}
           offset == IF selected = {} THEN 0 ELSE EXTERNAL_NODE_WIDTH + COLUMN_GAP
           nodes == layoutNodes(Sorted(types, ById(types)), collapsedIds, offset, relevant)
           targets == collectExternalTargets(types, internalIds)
           outgoing == layoutExternals(targets, nodes)
           sources == layoutIncomingSources(selected, outgoing)
           externals == sources \cup outgoing
           placed == nodes \cup externals
           edges == buildIncomingEdges(selected) \cup buildEdges(types, collapsedIds)
           width == Sets!Max({0} \cup {n.x + n.width : n \in placed}) + CANVAS_MARGIN
           height == Sets!Max({0} \cup {n.y + n.height : n \in placed}) + CANVAS_MARGIN
           model == buildTypeDiagramModel(types, incoming, collapsedIds, selectedTypeId)
<1>1. /\ model.nodes = nodes /\ model.externals = externals /\ model.edges = edges
      /\ model.width = width /\ model.height = height
  <2>1. model = [nodes |-> nodes, externals |-> externals, edges |-> edges,
                 width |-> width, height |-> height]
    BY DEF buildTypeDiagramModel
  <2> HIDE DEF model, nodes, externals, edges, width, height
  <2> QED
    BY <2>1
<1> HIDE DEF model
<1>2. AreDeclared(types) /\ IsFiniteSet(relevant) /\ relevant \subseteq incoming
  BY DeclaredTypes, Inventory, FS_Subset
<1>3. offset \in Nat /\ (selected # {} => offset = 320)
  BY DEF EXTERNAL_NODE_WIDTH, COLUMN_GAP
<1>4. /\ selected \subseteq incoming
      /\ \A r \in selected :
           (\E d \in types : d.id = r.targetId) /\ \A d \in types : d.id # r.sourceId
  OBVIOUS
<1>5. /\ targets \subseteq Named(path)
      /\ \A r \in targets : \A d \in types : d.id # r.id
      /\ \A d \in types : \A r \in RelatedTo(d) : r \in targets \/ \E c \in types : c.id = r.id
  BY DEF collectExternalTargets, Named
<1>6. /\ edges = buildIncomingEdges(selected) \cup buildEdges(types, collapsedIds)
      /\ width = Sets!Max({0} \cup {n.x + n.width : n \in placed}) + CANVAS_MARGIN
      /\ height = Sets!Max({0} \cup {n.y + n.height : n \in placed}) + CANVAS_MARGIN
  OBVIOUS
<1> HIDE DEF relevant, selected, offset, targets, edges, width, height
<1>7. /\ IsFiniteSet(nodes)
      /\ \A n \in nodes : \E d \in types : IsNodeOf(n, d, collapsedIds, offset)
      /\ \A d \in types : \E n \in nodes : IsNodeOf(n, d, collapsedIds, offset)
      /\ \A m, n \in nodes : m # n => Apart(m, n)
  BY <1>2, <1>3, PlacedNodes
<1> HIDE DEF nodes
<1>8. ASSUME NEW n, NEW d, IsNodeOf(n, d, collapsedIds, offset)
      PROVE  Placeable(n) /\ n.x >= CANVAS_MARGIN + offset /\ IsNodeOf(n, d, collapsedIds, 0)
             /\ n.width = 264
  BY <1>3, <1>8 DEF IsNodeOf, Placeable, CANVAS_MARGIN, TYPE_NODE_WIDTH
<1>9. \A n \in nodes : /\ Placeable(n) /\ n.x >= CANVAS_MARGIN + offset /\ n.width = 264
                       /\ \E d \in types : n.id = d.id
  BY <1>7, <1>8 DEF IsNodeOf
<1>10. /\ IsFiniteSet(outgoing)
       /\ \A n \in outgoing : /\ IsExternal(n) /\ \E r \in targets : r.id = n.id
                              /\ \A m \in nodes : m.x + m.width + COLUMN_GAP <= n.x
       /\ \A r \in targets : \E n \in outgoing : n.id = r.id
       /\ \A m, n \in outgoing : m # n => Apart(m, n)
  BY <1>5, <1>7, <1>9, OutgoingNodes
<1> HIDE DEF outgoing
<1>11. /\ IsFiniteSet(sources)
       /\ \A n \in sources : /\ IsExternal(n) /\ n.x = CANVAS_MARGIN
                             /\ \E r \in selected : r.sourceId = n.id
                             /\ \A m \in outgoing : m.id # n.id
       /\ \A r \in selected : \E n \in sources \cup outgoing : n.id = r.sourceId
       /\ \A m, n \in sources : m # n => Apart(m, n)
  BY <1>4, IncomingNodes
<1> HIDE DEF sources
<1>12. ASSUME NEW m \in nodes, NEW n \in outgoing
       PROVE  Apart(m, n) /\ Apart(n, m)
  <2>1. m.id # n.id
    BY <1>5, <1>9, <1>10
  <2>2. m.x \in Nat /\ m.width \in Nat /\ n.x \in Nat /\ m.x + m.width + COLUMN_GAP <= n.x
    BY <1>9, <1>10 DEF Placeable, IsExternal
  <2>3. m.x + m.width <= n.x
    BY <2>2 DEF COLUMN_GAP
  <2> QED
    BY <2>1, <2>3 DEF Apart
<1>13. ASSUME NEW m \in sources
       PROVE  selected # {} /\ m.x = 24 /\ m.width = 224
  BY <1>11 DEF CANVAS_MARGIN, IsExternal, EXTERNAL_NODE_WIDTH
<1>14. ASSUME NEW m \in sources, NEW n \in nodes
       PROVE  Apart(m, n) /\ Apart(n, m)
  <2>1. m.id # n.id
    BY <1>4, <1>9, <1>11
  <2>2. n.x \in Nat /\ n.x >= 24 + 320
    BY <1>3, <1>9, <1>13 DEF Placeable, CANVAS_MARGIN
  <2>3. m.x + m.width <= n.x
    BY <1>13, <2>2
  <2> QED
    BY <2>1, <2>3 DEF Apart
<1>15. ASSUME NEW m \in sources, NEW n \in outgoing
       PROVE  Apart(m, n) /\ Apart(n, m)
  <2>1. m.id # n.id
    BY <1>11
  <2>2. PICK d \in types : TRUE
    BY <1>4, <1>13
  <2>3. PICK node \in nodes : TRUE
    BY <1>7, <2>2
  <2>4. node.x \in Nat /\ node.x >= 24 + 320 /\ node.width = 264
    BY <1>3, <1>9, <1>13 DEF Placeable, CANVAS_MARGIN
  <2>5. n.x \in Nat /\ node.x + node.width + 96 <= n.x
    BY <1>10 DEF IsExternal, COLUMN_GAP
  <2>6. m.x + m.width <= n.x
    BY <1>13, <2>4, <2>5
  <2> QED
    BY <2>1, <2>6 DEF Apart
<1>16. ASSUME NEW m \in placed, NEW n \in placed, m # n
       PROVE  Apart(m, n)
  BY <1>7, <1>10, <1>11, <1>12, <1>14, <1>15, <1>16
<1>17. IsFiniteSet(placed)
  BY <1>7, <1>10, <1>11, FS_Union
<1>18. \A n \in externals : IsExternal(n) /\ \A d \in types : d.id # n.id
  BY <1>4, <1>5, <1>10, <1>11
<1>19. ASSUME NEW n \in placed PROVE Placeable(n)
  <2>1. CASE n \in nodes
    BY <1>9, <2>1
  <2>2. CASE n \in externals
    BY <1>18, <2>2 DEF Placeable, IsExternal, EXTERNAL_NODE_WIDTH, EXTERNAL_NODE_HEIGHT
  <2> QED
    BY <2>1, <2>2
<1>20. \A d \in types : \A r \in RelatedTo(d) : \E n \in placed : n.id = r.id
  BY <1>5, <1>7, <1>10 DEF IsNodeOf
<1>21. \A r \in selected : \E n \in placed : n.id = r.sourceId
  BY <1>11
<1> HIDE DEF placed
<1>22. ASSUME NEW n \in placed
       PROVE  n.x + n.width <= width /\ n.y + n.height <= height
  <2> DEFINE right == [p \in placed |-> p.x + p.width]
             bottom == [p \in placed |-> p.y + p.height]
             mostRight == Sets!Max({0} \cup {right[p] : p \in placed})
             lowest == Sets!Max({0} \cup {bottom[p] : p \in placed})
  <2>1. right \in [placed -> Nat] /\ bottom \in [placed -> Nat]
    BY <1>19 DEF Placeable
  <2>2. width = mostRight + CANVAS_MARGIN /\ height = lowest + CANVAS_MARGIN
    <3>1. /\ {right[p] : p \in placed} = {p.x + p.width : p \in placed}
          /\ {bottom[p] : p \in placed} = {p.y + p.height : p \in placed}
      OBVIOUS
    <3> QED
      BY <1>6, <3>1
  <2>3. right[n] = n.x + n.width /\ bottom[n] = n.y + n.height
    OBVIOUS
  <2> HIDE DEF right, bottom
  <2>4. /\ mostRight \in Nat /\ right[n] <= mostRight /\ right[n] \in Nat
        /\ lowest \in Nat /\ bottom[n] <= lowest /\ bottom[n] \in Nat
    BY <1>17, <2>1, Greatest
  <2> HIDE DEF mostRight, lowest
  <2>5. n.x + n.width \in Nat /\ n.y + n.height \in Nat
    BY <2>3, <2>4
  <2> QED
    BY <2>2, <2>3, <2>4, <2>5 DEF CANVAS_MARGIN
<1>23. ASSUME NEW e \in edges
       PROVE  \/ \E d \in types : e \in EdgesOf(d, collapsedIds)
              \/ \E r \in incoming :
                   /\ e = edge(r.kind, r.sourceId, NoPort, r.targetId)
                   /\ \E n \in placed : n.id = r.sourceId
                   /\ \E d \in types : d.id = r.targetId
  <2>1. CASE e \in buildEdges(types, collapsedIds)
    BY <2>1 DEF buildEdges
  <2>2. CASE \E r \in selected : e = edge(r.kind, r.sourceId, NoPort, r.targetId)
    BY <1>4, <1>21, <2>2
  <2> QED
    BY <1>6, <2>1, <2>2 DEF buildIncomingEdges
<1>24. /\ \A n \in nodes : \E d \in types : IsNodeOf(n, d, collapsedIds, 0)
       /\ \A d \in types : \E n \in nodes : IsNodeOf(n, d, collapsedIds, 0)
  BY <1>7, <1>8
<1>25. placed = nodes \cup externals
  BY DEF placed
<1> HIDE DEF types, incoming, externals
<1>26. IsDiagramOf(model, path, collapsedIds, selectedTypeId)
  BY <1>1, <1>16, <1>17, <1>18, <1>20, <1>22, <1>23, <1>24, <1>25
  DEF IsDiagramOf, types, incoming
<1> QED
  BY <1>26 DEF model, types, incoming

-----------------------------------------------------------------------------
(* A diagram of declared types is closed.                                  *)

(* A row is a field or a method of the type, and only fields without a     *)
(* name are shown under one port.                                          *)
LEMMA RowsAreMembers ==
  ASSUME NEW path \in TypePaths, NEW d \in TypesOf(path)
  PROVE  /\ \A i \in DOMAIN nodeRows(d) : IsTypeNodeRow(nodeRows(d)[i])
         /\ \A i, j \in DOMAIN nodeRows(d) :
              i # j /\ nodeRows(d)[i] = nodeRows(d)[j] => nodeRows(d)[i] = <<"field", "_">>
<1> DEFINE rows == nodeRows(d)
           fields == Len(d.fields)
           methods == Len(d.methods)
           Rows == {<<"field", name>> : name \in Members} \cup {<<"method", name>> : name \in Members}
<1>1. d.fields \in Seq(Messages!TypeField) /\ d.methods \in Seq(Messages!TypeMethod)
  BY Inventory
<1>2. /\ rows \in Seq(Rows) /\ Len(rows) = fields + methods
      /\ \A i \in 1 .. fields : rows[i] = <<"field", d.fields[i].name>>
      /\ \A i \in 1 .. methods : rows[fields + i] = <<"method", d.methods[i].name>>
  BY <1>1, RowsOfNode
<1>3. /\ fields \in Nat /\ DOMAIN d.fields = 1 .. fields
      /\ methods \in Nat /\ DOMAIN d.methods = 1 .. methods
  BY <1>1
<1>4. DOMAIN rows = 1 .. fields + methods
  BY <1>2
<1> HIDE DEF rows, fields, methods, Rows
<1> DEFINE IsField(i) == /\ i \in 1 .. fields /\ rows[i] = <<"field", d.fields[i].name>>
                         /\ rows[i][1] = "field" /\ rows[i][2] = d.fields[i].name
           IsMethod(i) == /\ i - fields \in 1 .. methods
                          /\ rows[i] = <<"method", d.methods[i - fields].name>>
                          /\ rows[i][1] = "method" /\ rows[i][2] = d.methods[i - fields].name
<1>5. ASSUME NEW i \in DOMAIN rows
      PROVE  IsField(i) \/ IsMethod(i)
  <2>1. i \in 1 .. fields \/ i - fields \in 1 .. methods
    BY <1>3, <1>4
  <2>2. i = fields + (i - fields)
    BY <1>3, <1>4
  <2>3. ASSUME i \in 1 .. fields PROVE IsField(i)
    <3>1. rows[i] = <<"field", d.fields[i].name>>
      BY <1>2, <2>3
    <3> QED
      BY <2>3, <3>1
  <2>4. ASSUME i - fields \in 1 .. methods PROVE IsMethod(i)
    <3>1. rows[fields + (i - fields)] = <<"method", d.methods[i - fields].name>>
      BY <1>2, <2>4
    <3>2. rows[i] = <<"method", d.methods[i - fields].name>>
      BY <2>2, <3>1
    <3> QED
      BY <2>4, <3>2
  <2> QED
    BY <2>1, <2>3, <2>4
<1>6. ASSUME NEW i \in DOMAIN rows PROVE IsTypeNodeRow(rows[i])
  BY <1>5 DEF IsTypeNodeRow
<1>7. ASSUME NEW i \in DOMAIN rows, NEW j \in DOMAIN rows, i # j, rows[i] = rows[j]
      PROVE  rows[i] = <<"field", "_">>
  <2>1. CASE IsField(i)
    <3>1. IsField(j)
      BY <1>5, <1>7, <2>1
    <3>2. d.fields[i].name = "_"
      BY <1>3, <1>7, <2>1, <3>1, MemberAssumption
    <3> QED
      BY <2>1, <3>2
  <2>2. CASE IsMethod(i)
    <3>1. IsMethod(j)
      BY <1>5, <1>7, <2>2
    <3>2. i - fields # j - fields
      BY <1>3, <1>4, <1>7
    <3> QED
      BY <1>3, <1>7, <2>2, <3>1, <3>2, MemberAssumption
  <2> QED
    BY <1>5, <1>7, <2>1, <2>2
<1> QED
  BY <1>6, <1>7 DEF rows

(* The port of a link is that of a row of the type that it starts at. *)
LEMMA PortsAreRows ==
  ASSUME NEW path \in TypePaths, NEW d \in TypesOf(path), NEW reference, NEW embedded,
         memberPort(d, reference, embedded) # NoPort
  PROVE  \E i \in DOMAIN nodeRows(d) : nodeRows(d)[i] = memberPort(d, reference, embedded)
<1> DEFINE matching == {i \in DOMAIN d.fields :
                          d.fields[i].embedded = embedded
                          /\ typeShortName(reference.id) \in d.fields[i].type}
           first == Sets!Min(matching)
<1>1. d.fields \in Seq(Messages!TypeField) /\ d.methods \in Seq(Messages!TypeMethod)
  BY Inventory
<1>2. matching # {} /\ memberPort(d, reference, embedded) = <<"field", d.fields[first].name>>
  BY DEF memberPort
<1>3. matching \in SUBSET Nat /\ matching \subseteq 1 .. Len(d.fields)
  BY <1>1
<1> HIDE DEF matching
<1>4. first \in matching
  <2>1. \E n \in matching : \A m \in matching : n <= m
    BY <1>2, <1>3, LeastNumber
  <2> QED
    BY <2>1 DEF Sets!Min
<1>5. first \in 1 .. Len(d.fields)
  BY <1>3, <1>4
<1>6. nodeRows(d)[first] = <<"field", d.fields[first].name>>
  BY <1>1, <1>5, RowsOfNode
<1>7. first \in DOMAIN nodeRows(d)
  <2> DEFINE Rows == {<<"field", name>> : name \in Members} \cup {<<"method", name>> : name \in Members}
  <2>1. nodeRows(d) \in Seq(Rows) /\ Len(nodeRows(d)) = Len(d.fields) + Len(d.methods)
    BY <1>1, RowsOfNode
  <2>2. Len(d.fields) \in Nat /\ Len(d.methods) \in Nat
    BY <1>1
  <2> HIDE DEF Rows, first
  <2>3. DOMAIN nodeRows(d) = 1 .. Len(d.fields) + Len(d.methods)
    BY <2>1
  <2>4. \A a, b \in Nat : 1 .. a \subseteq 1 .. a + b
    OBVIOUS
  <2> QED
    BY <1>5, <2>2, <2>3, <2>4
<1> QED
  BY <1>2, <1>6, <1>7

(* A link of the diagram joins two nodes, at a row that the first one      *)
(* shows.                                                                  *)
LEMMA EdgesJoinNodes ==
  ASSUME NEW path \in TypePaths, NEW collapsedIds, NEW selectedTypeId, NEW model,
         IsDiagramOf(model, path, collapsedIds, selectedTypeId), NEW e \in model.edges
  PROVE  /\ IsTypeDiagramEdge(e, model.nodes)
         /\ \E n \in model.nodes \cup model.externals : n.id = e.sourceId
         /\ \E n \in model.nodes \cup model.externals : n.id = e.targetId
<1> DEFINE placed == model.nodes \cup model.externals
<1>1. ASSUME NEW r \in IncomingOf(path), e = edge(r.kind, r.sourceId, NoPort, r.targetId),
             \E n \in placed : n.id = r.sourceId, \E d \in TypesOf(path) : d.id = r.targetId
      PROVE  /\ IsTypeDiagramEdge(e, model.nodes)
             /\ \E n \in placed : n.id = e.sourceId
             /\ \E n \in placed : n.id = e.targetId
  <2>1. r \in Messages!IncomingTypeRelation
    BY Inventory
  <2>2. r.kind \in TypeRelationKind
    BY <2>1 DEF Messages!IncomingTypeRelation, Messages!RelationKinds, TypeRelationKind
  <2>3. e.kind = r.kind /\ e.sourceId = r.sourceId /\ e.sourcePort = NoPort /\ e.targetId = r.targetId
    BY <1>1 DEF edge
  <2>4. \E n \in placed : n.id = r.targetId
    BY <1>1 DEF IsDiagramOf, IsNodeOf
  <2> QED
    BY <1>1, <2>2, <2>3, <2>4 DEF IsTypeDiagramEdge
<1>2. ASSUME NEW d \in TypesOf(path), e \in EdgesOf(d, collapsedIds)
      PROVE  /\ IsTypeDiagramEdge(e, model.nodes)
             /\ \E n \in placed : n.id = e.sourceId
             /\ \E n \in placed : n.id = e.targetId
  <2>1. PICK node \in model.nodes : IsNodeOf(node, d, collapsedIds, 0)
    BY DEF IsDiagramOf
  <2> DEFINE ports(r) == {NoPort, Anchor(d, r, TRUE, collapsedIds), Anchor(d, r, FALSE, collapsedIds)}
  <2>2. \E r \in RelatedTo(d), kind \in TypeRelationKind :
          \E port \in ports(r) : e = edge(kind, d.id, port, r.id)
    BY <1>2 DEF EdgesOf, RelatedTo, TypeRelationKind
  <2>3. PICK r \in RelatedTo(d), kind \in TypeRelationKind :
          \E port \in ports(r) : e = edge(kind, d.id, port, r.id)
    BY <2>2
  <2>4. PICK port \in ports(r) : e = edge(kind, d.id, port, r.id)
    BY <2>3
  <2>5. e.kind = kind /\ e.sourceId = d.id /\ e.sourcePort = port /\ e.targetId = r.id
    BY <2>4 DEF edge
  <2>6. \E n \in placed : n.id = r.id
    BY DEF IsDiagramOf
  <2>7. node.id = d.id
    BY <2>1 DEF IsNodeOf
  <2>8. ASSUME port # NoPort
        PROVE  ~node.collapsed /\ \E i \in DOMAIN node.rows : node.rows[i] = port
    <3>1. d.id \notin collapsedIds
      BY <2>4, <2>8 DEF Anchor
    <3>2. PICK embedded \in BOOLEAN : port = memberPort(d, r, embedded)
      BY <2>4, <2>8, <3>1 DEF Anchor
    <3>3. \E i \in DOMAIN nodeRows(d) : nodeRows(d)[i] = port
      BY <2>8, <3>2, PortsAreRows
    <3>4. ~node.collapsed /\ node.rows = nodeRows(d)
      BY <2>1, <3>1 DEF IsNodeOf
    <3> QED
      BY <3>3, <3>4
  <2> QED
    BY <2>4, <2>5, <2>6, <2>7, <2>8 DEF IsTypeDiagramEdge
<1> QED
  BY <1>1, <1>2 DEF IsDiagramOf

(* Every node is drawn as a cell of its own.                               *)
LEMMA CellsOfNodes ==
  ASSUME NEW path \in TypePaths, NEW collapsedIds, NEW selectedTypeId, NEW model,
         IsDiagramOf(model, path, collapsedIds, selectedTypeId)
  PROVE  /\ Cardinality(draw(model, selectedTypeId).cells)
              = Cardinality(model.nodes \cup model.externals)
         /\ \A cell \in draw(model, selectedTypeId).cells :
              \/ /\ cell.externalComponentId = <<>>
                 /\ \E d \in TypesOf(path) : cell.typeId = d.id
              \/ ~cell.hasToggle /\ cell.externalComponentId \in TypePaths
<1> DEFINE placed == model.nodes \cup model.externals
           cells == {buildTypeNode(n, selectedTypeId) : n \in model.nodes}
                      \cup {buildExternalNode(n) : n \in model.externals}
           cell == [n \in placed |->
                      IF n \in model.nodes THEN buildTypeNode(n, selectedTypeId)
                      ELSE buildExternalNode(n)]
<1>1. draw(model, selectedTypeId).cells = cells
  BY DEF draw
<1>2. \A n \in model.externals : n \notin model.nodes
  BY DEF IsDiagramOf, IsNodeOf
<1>3. ASSUME NEW n \in model.nodes
      PROVE  /\ buildTypeNode(n, selectedTypeId).typeId = n.id
             /\ buildTypeNode(n, selectedTypeId).externalComponentId = <<>>
  BY DEF buildTypeNode
<1>4. ASSUME NEW n \in model.externals
      PROVE  /\ buildExternalNode(n).typeId = n.id
             /\ buildExternalNode(n).externalComponentId = n.componentId
             /\ buildExternalNode(n).hasToggle = FALSE
  BY DEF buildExternalNode
<1>5. ASSUME NEW n \in placed PROVE cell[n] \in cells /\ cell[n].typeId = n.id
  BY <1>3, <1>4
<1>6. ASSUME NEW m \in placed, NEW n \in placed, cell[m] = cell[n] PROVE m = n
  <2>1. m.id = n.id
    BY <1>5, <1>6
  <2> QED
    BY <2>1 DEF IsDiagramOf, Apart
<1>7. ASSUME NEW c \in cells PROVE \E n \in placed : cell[n] = c
  <2>1. CASE \E n \in model.nodes : c = buildTypeNode(n, selectedTypeId)
    BY <2>1
  <2>2. CASE \E n \in model.externals : c = buildExternalNode(n)
    BY <1>2, <2>2
  <2> QED
    BY <2>1, <2>2
<1>8. cell \in [placed -> cells]
  BY <1>5
<1>9. IsFiniteSet(placed)
  BY DEF IsDiagramOf
<1>10. Cardinality(cells) = Cardinality(placed)
  <2> HIDE DEF cell, cells, placed
  <2> QED
    BY <1>6, <1>7, <1>8, <1>9, SameSize
<1>11. ASSUME NEW c \in cells
       PROVE  \/ c.externalComponentId = <<>> /\ \E d \in TypesOf(path) : c.typeId = d.id
              \/ ~c.hasToggle /\ c.externalComponentId \in TypePaths
  <2>1. CASE \E n \in model.nodes : c = buildTypeNode(n, selectedTypeId)
    BY <1>3, <2>1 DEF IsDiagramOf, IsNodeOf
  <2>2. CASE \E n \in model.externals : c = buildExternalNode(n)
    BY <1>4, <2>2 DEF IsDiagramOf, IsExternal
  <2> QED
    BY <2>1, <2>2
<1> QED
  BY <1>1, <1>10, <1>11

LEMMA NodesDoNotOverlap ==
  ASSUME NEW m, NEW n, Placeable(m), Placeable(n), Apart(m, n)
  PROVE  m.id # n.id /\ ~Overlap(m, n)
BY DEF Placeable, Apart, Overlap

LEMMA NodesAreWellFormed ==
  ASSUME NEW path \in TypePaths, NEW collapsedIds, NEW selectedTypeId, NEW model,
         IsDiagramOf(model, path, collapsedIds, selectedTypeId)
  PROVE  /\ \A n \in model.nodes :
              /\ Placeable(n) /\ IsTypeDiagramNode(n) /\ IsInside(n, model)
              /\ \A i, j \in DOMAIN n.rows :
                   i # j /\ n.rows[i] = n.rows[j] => n.rows[i] = <<"field", "_">>
         /\ \A n \in model.externals :
              Placeable(n) /\ IsExternalTypeNode(n) /\ IsInside(n, model)
<1>1. ASSUME NEW n \in model.nodes
      PROVE  /\ Placeable(n) /\ IsTypeDiagramNode(n) /\ IsInside(n, model)
             /\ \A i, j \in DOMAIN n.rows :
                  i # j /\ n.rows[i] = n.rows[j] => n.rows[i] = <<"field", "_">>
  <2>1. PICK d \in TypesOf(path) : IsNodeOf(n, d, collapsedIds, 0)
    BY DEF IsDiagramOf
  <2>2. Placeable(n)
    BY <2>1 DEF IsNodeOf, Placeable, TYPE_NODE_WIDTH
  <2>3. IsInside(n, model)
    BY <2>1 DEF IsNodeOf, IsDiagramOf, IsInside, CANVAS_MARGIN
  <2>4. n.rows = <<>> \/ n.rows = nodeRows(d)
    BY <2>1 DEF IsNodeOf
  <2>5. /\ \A i \in DOMAIN n.rows : IsTypeNodeRow(n.rows[i])
        /\ \A i, j \in DOMAIN n.rows :
             i # j /\ n.rows[i] = n.rows[j] => n.rows[i] = <<"field", "_">>
    <3>1. CASE n.rows = <<>>
      BY <3>1
    <3>2. CASE n.rows = nodeRows(d)
      BY <3>2, RowsAreMembers
    <3> QED
      BY <2>4, <3>1, <3>2
  <2>6. n.kind \in {"struct", "interface", "alias", "basic"}
    BY <2>1, Inventory DEF IsNodeOf, Messages!TypeKinds
  <2>7. n.collapsed => n.rows = <<>>
    BY <2>1 DEF IsNodeOf
  <2>8. IsTypeDiagramNode(n)
    BY <2>1, <2>5, <2>6, <2>7 DEF IsNodeOf, IsTypeDiagramNode
  <2> QED
    BY <2>2, <2>3, <2>5, <2>8
<1>2. ASSUME NEW n \in model.externals
      PROVE  Placeable(n) /\ IsExternalTypeNode(n) /\ IsInside(n, model)
  <2>1. IsExternal(n) /\ n.x + n.width <= model.width /\ n.y + n.height <= model.height
    BY DEF IsDiagramOf
  <2>2. Placeable(n)
    BY <2>1 DEF IsExternal, Placeable, EXTERNAL_NODE_WIDTH, EXTERNAL_NODE_HEIGHT
  <2> QED
    BY <2>1, <2>2 DEF IsExternal, IsExternalTypeNode, IsInside
<1> QED
  BY <1>1, <1>2

(* What DiagramIsClosed says, of a diagram whose types are known.          *)
LEMMA DiagramsOfTypesAreClosed ==
  ASSUME NEW path, Declares(path)
  PROVE  /\ DiagramIsClosed
         /\ \A cell \in draw(Diagram, selectedId).cells :
              \/ /\ cell.externalComponentId = <<>>
                 /\ \E d \in typesState : cell.typeId = d.id
              \/ ~cell.hasToggle /\ cell.externalComponentId \in TypePaths
<1> DEFINE model == Diagram
           placed == model.nodes \cup model.externals
<1>1. path \in TypePaths /\ IsDiagramOf(model, path, collapsedState, selectedId)
  BY DiagramOfTypes DEF Declares, Diagram
<1> HIDE DEF model
<1>2. /\ Cardinality(draw(model, selectedId).cells) = Cardinality(placed)
      /\ \A cell \in draw(model, selectedId).cells :
           \/ /\ cell.externalComponentId = <<>>
              /\ \E d \in TypesOf(path) : cell.typeId = d.id
           \/ ~cell.hasToggle /\ cell.externalComponentId \in TypePaths
  BY <1>1, CellsOfNodes
<1>3. /\ \A n \in model.nodes :
           /\ Placeable(n) /\ IsTypeDiagramNode(n) /\ IsInside(n, model)
           /\ \A i, j \in DOMAIN n.rows :
                i # j /\ n.rows[i] = n.rows[j] => n.rows[i] = <<"field", "_">>
      /\ \A n \in model.externals :
           Placeable(n) /\ IsExternalTypeNode(n) /\ IsInside(n, model)
  BY <1>1, NodesAreWellFormed
<1>4. \A m, n \in placed : m # n => m.id # n.id /\ ~Overlap(m, n)
  BY <1>1, <1>3, NodesDoNotOverlap DEF IsDiagramOf
<1>5. ASSUME NEW e \in model.edges
      PROVE  /\ IsTypeDiagramEdge(e, model.nodes)
             /\ {e.sourceId, e.targetId} \subseteq {n.id : n \in placed}
  <2>1. /\ IsTypeDiagramEdge(e, model.nodes)
        /\ \E n \in placed : n.id = e.sourceId
        /\ \E n \in placed : n.id = e.targetId
    BY <1>1, EdgesJoinNodes
  <2> QED
    BY <2>1
<1>6. IsTypeDiagramModel(model)
  BY <1>3, <1>5 DEF IsTypeDiagramModel
<1>7. DiagramIsClosed
  BY <1>2, <1>3, <1>4, <1>5, <1>6 DEF DiagramIsClosed, model
<1> QED
  BY <1>2, <1>7 DEF model, Declares

-----------------------------------------------------------------------------
(* Every step of the console is one of the store.                          *)

(* What a navigation leaves in the history was there, or is where it leads.*)
LEMMA CommitAims ==
  ASSUME Located, AddressesAim, NEW navigation, Aims(navigation.entry), Commit(navigation)
  PROVE  AddressesAim'
<1> DEFINE entry == navigation.entry
           S == {history[i] : i \in DOMAIN history}
           pushed == Append(SubSeq(history, 1, position), entry)
<1>1. pending' = {}
  BY DEF Commit
<1>2. history \in Seq(S) /\ position \in 1 .. Len(history)
  BY DEF Located, IsSeq
<1>3. CASE navigation.replaceUrl
  <2>1. history' = [history EXCEPT ![position] = entry]
    BY <1>3 DEF Commit
  <2>2. \A i \in DOMAIN history' : i \in DOMAIN history /\ history'[i] \in {history[i], entry}
    BY <2>1
  <2> QED
    BY <1>1, <2>2 DEF AddressesAim
<1>4. CASE ~navigation.replaceUrl
  <2> HIDE DEF S
  <2>1. SubSeq(history, 1, position) \in Seq(S) /\ Len(SubSeq(history, 1, position)) = position
    BY <1>2
  <2>2. \A i \in 1 .. position : SubSeq(history, 1, position)[i] = history[i] /\ i \in DOMAIN history
    BY <1>2
  <2>3. \A i \in DOMAIN pushed : i \in 1 .. position \/ pushed[i] = entry
    BY <2>1
  <2>4. \A i \in 1 .. position : pushed[i] = SubSeq(history, 1, position)[i]
    BY <2>1
  <2>5. \A i \in DOMAIN pushed : Aims(pushed[i])
    BY <2>2, <2>3, <2>4 DEF AddressesAim
  <2>6. history' = pushed
    BY <1>4 DEF Commit
  <2> QED
    BY <1>1, <2>5, <2>6 DEF AddressesAim
<1> QED
  BY <1>3, <1>4

LEMMA NavigateAims ==
  ASSUME Located, AddressesAim, NEW navigation, Aims(navigation.entry), Navigate(navigation)
  PROVE  AddressesAim'
<1>1. CASE Commit(navigation)
  BY <1>1, CommitAims
<1>2. CASE UNCHANGED history /\ pending' \subseteq {navigation}
  BY <1>2 DEF AddressesAim
<1> QED
  BY <1>1, <1>2 DEF Navigate

LEMMA AddressAims == Located /\ AddressesAim => Aims(address)
BY DEF Located, AddressesAim, address

LEMMA WritingAims ==
  ASSUME Located, AddressesAim, NEW parameters, NEW replaceUrl,
         WriteParameters(parameters, replaceUrl),
         "component" \in DOMAIN parameters => parameters.component \in TypePaths \cup {NoPath}
  PROVE  AddressesAim'
<1> DEFINE entry == [page |-> page, parameters |-> Merged(parameters, address.parameters)]
           navigation == Navigation(entry, replaceUrl)
<1>1. navigation.entry = entry /\ entry.parameters = Merged(parameters, address.parameters)
  BY DEF Navigation
<1>2. "component" \in DOMAIN address.parameters
      /\ address.parameters.component \in TypePaths \cup {NoPath}
  BY AddressAims DEF Aims
<1>3. Aims(entry)
  BY <1>1, <1>2 DEF Aims, Merged
<1>4. Navigate(navigation)
  BY DEF WriteParameters
<1> HIDE DEF entry, navigation
<1> QED
  BY <1>1, <1>3, <1>4, NavigateAims

LEMMA LinkAims ==
  ASSUME Located, AddressesAim, NEW path, FollowLink(path)
  PROVE  AddressesAim'
<1> DEFINE navigation == Navigation(Entry(path, NoParameters), FALSE)
<1>1. navigation.entry = Entry(path, NoParameters)
  BY DEF Navigation
<1>2. Aims(navigation.entry)
  <2>1. navigation.entry.parameters = NoParameters
    <3>1. Entry(path, NoParameters).parameters = NoParameters
      BY DEF Entry
    <3> HIDE DEF navigation
    <3> QED
      BY <1>1, <3>1
  <2>2. "component" \in DOMAIN NoParameters /\ NoParameters.component = NoPath
    BY ParameterAssumption
  <2> HIDE DEF navigation
  <2> QED
    BY <2>1, <2>2 DEF Aims
<1>3. Navigate(navigation)
  BY DEF FollowLink
<1> HIDE DEF navigation
<1> QED
  BY <1>2, <1>3, NavigateAims

LEMMA ComponentAims ==
  ASSUME Located, AddressesAim, NEW path \in TypePaths, SetComponent(path)
  PROVE  AddressesAim'
<1> DEFINE written == [component |-> path]
<1>1. WriteParameters(written, FALSE) /\ written.component \in TypePaths \cup {NoPath}
  BY DEF SetComponent
<1> HIDE DEF written
<1> QED
  BY <1>1, WritingAims

LEMMA FilterAims ==
  ASSUME Located, AddressesAim, Filter
  PROVE  AddressesAim'
<1>1. ASSUME NEW written, WriteParameters(written, TRUE), "component" \notin DOMAIN written
      PROVE  AddressesAim'
  BY <1>1, WritingAims
<1>2. ASSUME NEW value, setQuery(value) PROVE AddressesAim'
  <2> DEFINE written == [q |-> IF value \in Blank THEN "" ELSE value]
  <2>1. WriteParameters(written, TRUE) /\ "component" \notin DOMAIN written
    BY <1>2 DEF setQuery
  <2> HIDE DEF written
  <2> QED
    BY <1>1, <2>1
<1>3. ASSUME NEW value, setRole(value) PROVE AddressesAim'
  <2> DEFINE next == OrElse(value, EVERY_ROLE)
             written == [role |-> IF next = EVERY_ROLE THEN "" ELSE next]
  <2>1. WriteParameters(written, TRUE) /\ "component" \notin DOMAIN written
    BY <1>3 DEF setRole
  <2> HIDE DEF written
  <2> QED
    BY <1>1, <2>1
<1>4. CASE clearFilters
  <2> DEFINE written == [q |-> "", role |-> ""]
  <2>1. WriteParameters(written, TRUE) /\ "component" \notin DOMAIN written
    BY <1>4 DEF clearFilters
  <2> HIDE DEF written
  <2> QED
    BY <1>1, <2>1
<1>5. ASSUME NEW value, setSeverity(value) PROVE AddressesAim'
  <2> DEFINE next == OrElse(value, EVERY_SEVERITY)
             written == [severity |-> IF next = EVERY_SEVERITY THEN "" ELSE next]
  <2>1. WriteParameters(written, TRUE) /\ "component" \notin DOMAIN written
    BY <1>5 DEF setSeverity
  <2> HIDE DEF written
  <2> QED
    BY <1>1, <2>1
<1> QED
  BY <1>2, <1>3, <1>4, <1>5 DEF Filter

(* The canvas is on screen only while the types of the component are there.*)
CanvasIsFilled == "typeDiagram" \in surfaces => ~loading /\ ~failed /\ typesState # {}

(* Nothing is selected as long as no type is. *)
TypesAreNamed == \A d \in typesState : d.id # NoType

TypesInv == StoreInv /\ TypesAreNamed /\ AddressesAim /\ CanvasIsFilled

LEMMA NamedStep == StoreInv /\ TypesAreNamed /\ [StoreNext]_storeVars => TypesAreNamed'
<1> SUFFICES ASSUME StoreInv, TypesAreNamed, [StoreNext]_storeVars PROVE TypesAreNamed'
  OBVIOUS
<1> USE DEF TypesAreNamed
<1>1. ASSUME NEW call \in calls, LoadAnswered(call) PROVE TypesAreNamed'
  <2>1. call.componentId \in TypePaths
    BY DEF StoreInv, CallsInv, Call
  <2>2. typesState' = typesState \/ typesState' = TypesOf(call.componentId)
    BY <1>1 DEF LoadAnswered
  <2> QED
    BY <2>1, <2>2, Inventory
<1>2. ASSUME NEW call \in calls, LoadFails(call) PROVE TypesAreNamed'
  BY <1>2 DEF LoadFails
<1>3. CASE StoreRestarts
  BY <1>3 DEF StoreRestarts
<1>4. CASE typesState' = typesState
  BY <1>4
<1>5. ASSUME NEW path, load(path) PROVE typesState' = typesState
  BY <1>5 DEF load, storeVars
<1>6. Select \/ Toggle \/ closeDetail \/ UNCHANGED storeVars => typesState' = typesState
  BY DEF Select, Toggle, closeDetail, selectType, toggleCollapsed, storeVars
<1> QED
  BY <1>1, <1>2, <1>3, <1>4, <1>5, <1>6 DEF StoreNext

(* What moves the reader leaves the store alone, and the canvas either     *)
(* stays or goes with its page.                                            *)
LEMMA ArrivalFills ==
  ASSUME CanvasIsFilled, Arrive \/ ArriveOnNewPage, UNCHANGED storeVars
  PROVE  CanvasIsFilled'
<1>1. Leave \/ UNCHANGED engineVars
  BY ArrivalsLeave
<1> QED
  BY <1>1 DEF CanvasIsFilled, storeVars, engineVars, Leave

LEMMA InPlaceFills ==
  ASSUME CanvasIsFilled, UNCHANGED <<typesState, loading, failed>>, UNCHANGED surfaces
  PROVE  CanvasIsFilled'
BY DEF CanvasIsFilled

LEMMA AnswerFills ==
  ASSUME StoreInv, CanvasIsFilled, NEW call \in calls, LoadAnswered(call) \/ LoadFails(call),
         UNCHANGED surfaces
  PROVE  CanvasIsFilled'
<1>1. "typeDiagram" \in surfaces => IsSuperseded(call)
  BY DEF CanvasIsFilled, StoreInv, CallsInv, IsSuperseded
<1> QED
  BY <1>1 DEF CanvasIsFilled, LoadAnswered, LoadFails

(* What the reader does with the diagram and with the details are steps of *)
(* the store: what is clicked is one of the types that it holds.           *)
LEMMA ClickIsOfStore ==
  ASSUME TypesInv, Located, ClickDiagram
  PROVE  [StoreNext]_storeVars /\ AddressesAim' /\ CanvasIsFilled'
<1>1. "typeDiagram" \in surfaces
  BY DEF ClickDiagram
<1>2. ~loading /\ typesState # {} /\ Declares(componentId)
  BY <1>1, SettledStore DEF TypesInv, CanvasIsFilled
<1>3. PICK cell \in draw(Diagram, selectedId).cells, onToggle \in BOOLEAN :
        LET click == Clicked(cell, onToggle) IN
          \/ click.asks = "toggle" /\ toggleCollapsed(click.of) /\ InPlace
          \/ click.asks = "select" /\ selectType(click.of) /\ InPlace
          \/ click.asks = "navigate" /\ SetComponent(click.of)
  BY DEF ClickDiagram
<1>4. \/ cell.externalComponentId = <<>> /\ \E d \in typesState : cell.typeId = d.id
      \/ ~cell.hasToggle /\ cell.externalComponentId \in TypePaths
  BY <1>2, DiagramsOfTypesAreClosed
<1>5. <<>> \notin TypePaths
  BY TypePathAssumption, ParameterAssumption
<1> DEFINE click == Clicked(cell, onToggle)
<1>6. \/ click.asks \in {"toggle", "select"} /\ \E d \in typesState : click.of = d.id
      \/ click.asks = "navigate" /\ click.of \in TypePaths
  BY <1>4, <1>5 DEF Clicked
<1> HIDE DEF click
<1>7. \/ InPlace /\ \E d \in typesState : toggleCollapsed(d.id) \/ selectType(d.id)
      \/ \E path \in TypePaths : SetComponent(path)
  BY <1>3, <1>6 DEF click
<1>8. CASE InPlace /\ \E d \in typesState : toggleCollapsed(d.id) \/ selectType(d.id)
  <2>1. StoreNext
    BY <1>2, <1>8 DEF StoreNext, Select, Toggle
  <2>2. AddressesAim'
    BY <1>8 DEF InPlace, addressVars, TypesInv, AddressesAim
  <2>3. CanvasIsFilled'
    BY <1>8, InPlaceFills DEF InPlace, engineVars, toggleCollapsed, selectType, TypesInv
  <2> QED
    BY <2>1, <2>2, <2>3
<1>9. CASE \E path \in TypePaths : SetComponent(path)
  BY <1>9, ArrivalFills, ComponentAims DEF SetComponent, TypesInv
<1> QED
  BY <1>7, <1>8, <1>9

LEMMA FollowIsOfStore ==
  ASSUME TypesInv, Located, FollowReference
  PROVE  [StoreNext]_storeVars /\ AddressesAim' /\ CanvasIsFilled'
<1>1. PICK d \in typesState : d.id = selectedId
  BY DEF FollowReference, selectedType
<1>2. ~loading /\ Declares(componentId)
  <2>1. loading \in BOOLEAN /\ (loading => selectedId = NoType)
    BY DEF TypesInv, StoreInv, CallsInv, TypesOfTheComponent
  <2>2. d.id # NoType
    BY DEF TypesInv, TypesAreNamed
  <2> QED
    BY <1>1, <2>1, <2>2, SettledStore DEF TypesInv
<1>3. PICK reference \in Listed :
        IF reference.component = componentId
          THEN selectType(reference.id) /\ InPlace
          ELSE SetComponent(reference.component)
  BY DEF FollowReference
<1>4. reference \in Named(componentId)
  BY <1>2 DEF Listed, selectedType, selectedIncoming, Declares, Named
<1>5. /\ reference.component \in TypePaths
      /\ reference.component = componentId => \E c \in typesState : c.id = reference.id
  BY <1>2, <1>4, NamedTypes DEF Declares
<1>6. CASE reference.component = componentId
  <2>1. StoreNext
    BY <1>2, <1>3, <1>5, <1>6 DEF StoreNext, Select
  <2>2. AddressesAim'
    BY <1>3, <1>6 DEF InPlace, addressVars, TypesInv, AddressesAim
  <2>3. CanvasIsFilled'
    BY <1>3, <1>6, InPlaceFills DEF InPlace, engineVars, selectType, TypesInv
  <2> QED
    BY <2>1, <2>2, <2>3
<1>7. CASE reference.component # componentId
  BY <1>3, <1>5, <1>7, ArrivalFills, ComponentAims DEF SetComponent, TypesInv
<1> QED
  BY <1>6, <1>7

LEMMA CollapseIsOfStore ==
  ASSUME TypesInv, CollapseDetail
  PROVE  [StoreNext]_storeVars /\ AddressesAim' /\ CanvasIsFilled'
<1>1. PICK d \in typesState : d.id = selectedId /\ toggleCollapsed(d.id)
  BY DEF CollapseDetail, selectedType
<1>2. ~loading
  BY <1>1 DEF TypesInv, StoreInv, CallsInv, TypesOfTheComponent, TypesAreNamed
<1>3. StoreNext
  BY <1>1, <1>2 DEF StoreNext, Toggle
<1>4. AddressesAim'
  BY DEF CollapseDetail, InPlace, addressVars, TypesInv, AddressesAim
<1>5. CanvasIsFilled'
  BY <1>1, InPlaceFills DEF CollapseDetail, toggleCollapsed, InPlace, engineVars, TypesInv
<1> QED
  BY <1>3, <1>4, <1>5

(* A rendering shows the diagram of what the load that it starts, if any,  *)
(* leaves on display.                                                      *)
LEMMA TickIsOfStore ==
  ASSUME TypesInv, Located, Tick
  PROVE  [StoreNext]_storeVars /\ AddressesAim' /\ CanvasIsFilled'
<1>1. address.parameters.component \in TypePaths \cup {NoPath}
  BY AddressAims DEF TypesInv, Aims
<1>2. [StoreNext]_storeVars
  BY <1>1 DEF Tick, StoreNext
<1>3. AddressesAim'
  BY DEF Tick, addressVars, TypesInv, AddressesAim
<1>4. surfaces' = Surfaces'
  BY DEF Tick, Render
<1>5. CanvasIsFilled'
  BY <1>4 DEF Surfaces, IsCanvasShown, CanvasIsFilled
<1> QED
  BY <1>2, <1>3, <1>5

LEMMA ReaderIsOfStore ==
  ASSUME TypesInv, Located, Reader
  PROVE  [StoreNext]_storeVars /\ AddressesAim' /\ CanvasIsFilled'
<1> DEFINE Goal == [StoreNext]_storeVars /\ AddressesAim' /\ CanvasIsFilled'
<1>1. ASSUME NEW path \in ROUTE_PATH, Sidebar(path) PROVE Goal
  BY <1>1, LinkAims, ArrivalFills DEF Sidebar, TypesInv
<1>2. ASSUME NEW to \in DOMAIN history, BackOrForward(to) PROVE Goal
  <2>1. AddressesAim'
    BY <1>2 DEF BackOrForward, Traverse, TypesInv, AddressesAim
  <2> QED
    BY <1>2, <2>1, ArrivalFills DEF BackOrForward, TypesInv
<1>3. ASSUME Reload PROVE Goal
  <2>1. StoreNext
    BY <1>3 DEF Reload, StoreNext
  <2>2. position \in DOMAIN history /\ Aims(history[position])
    BY DEF Located, TypesInv, AddressesAim
  <2>3. AddressesAim'
    <3>1. history' = history /\ pending' = {Navigation(history[position], TRUE)}
      BY <1>3 DEF Reload, Start
    <3>2. Navigation(history[position], TRUE).entry = history[position]
      BY DEF Navigation
    <3> QED
      BY <2>2, <3>1, <3>2 DEF AddressesAim, TypesInv
  <2>4. CanvasIsFilled'
    BY <1>3 DEF Reload, EnginesRestart, CanvasIsFilled
  <2> QED
    BY <2>1, <2>3, <2>4
<1>4. ASSUME Filter PROVE Goal
  <2>1. Arrive /\ UNCHANGED storeVars
    BY <1>4 DEF Filter
  <2> QED
    BY <1>4, <2>1, FilterAims, ArrivalFills DEF TypesInv
<1>5. ASSUME PickComponent PROVE Goal
  BY <1>5, ComponentAims, ArrivalFills DEF PickComponent, SetComponent, TypesInv
<1>6. ASSUME ClickDiagram PROVE Goal
  BY <1>6, ClickIsOfStore
<1>7. ASSUME FollowReference PROVE Goal
  BY <1>7, FollowIsOfStore
<1>8. ASSUME CloseDetail PROVE Goal
  <2>1. StoreNext
    BY <1>8 DEF CloseDetail, StoreNext
  <2>2. AddressesAim'
    BY <1>8 DEF CloseDetail, InPlace, addressVars, TypesInv, AddressesAim
  <2>3. CanvasIsFilled'
    BY <1>8, InPlaceFills DEF CloseDetail, closeDetail, InPlace, engineVars, selectType, TypesInv
  <2> QED
    BY <2>1, <2>2, <2>3
<1>9. ASSUME ToggleDensity PROVE Goal
  <2>1. AddressesAim'
    BY <1>9 DEF ToggleDensity, addressVars, TypesInv, AddressesAim
  <2> QED
    BY <1>9, <2>1, InPlaceFills DEF ToggleDensity, engineVars, storeVars, TypesInv
<1>13. ASSUME CollapseDetail PROVE Goal
  BY <1>13, CollapseIsOfStore
<1> HIDE DEF Goal
<1>10. ASSUME \E path \in ROUTE_PATH : Sidebar(path) PROVE Goal
  BY <1>1, <1>10
<1>11. ASSUME \E to \in DOMAIN history : BackOrForward(to) PROVE Goal
  BY <1>2, <1>11
<1>12. Goal
  BY <1>3, <1>4, <1>5, <1>6, <1>7, <1>8, <1>9, <1>10, <1>11, <1>13 DEF Reader
<1> QED
  BY <1>12 DEF Goal

LEMMA NetworkIsOfStore ==
  ASSUME TypesInv, Located, Network
  PROVE  [StoreNext]_storeVars /\ AddressesAim' /\ CanvasIsFilled'
<1> DEFINE Goal == [StoreNext]_storeVars /\ AddressesAim' /\ CanvasIsFilled'
<1>1. ASSUME NEW document \in Documents, MainStarts(document) PROVE Goal
  <2>1. AddressesAim'
    BY <1>1 DEF MainStarts, addressVars, TypesInv, AddressesAim
  <2> QED
    BY <1>1, <2>1, InPlaceFills DEF MainStarts, engineVars, storeVars, TypesInv
<1>2. ASSUME NEW navigation \in pending, PageArrives(navigation) PROVE Goal
  <2>1. AddressesAim'
    <3>1. Aims(navigation.entry)
      BY DEF TypesInv, AddressesAim
    <3>2. Commit(navigation)
      BY <1>2 DEF PageArrives, CodeArrives
    <3> QED
      BY <3>1, <3>2, CommitAims DEF TypesInv
  <2> QED
    BY <1>2, <2>1, ArrivalFills DEF PageArrives, TypesInv
<1>3. ASSUME NEW navigation \in pending, PageFails(navigation) PROVE Goal
  <2>1. AddressesAim'
    BY <1>3 DEF PageFails, CodeFails, TypesInv, AddressesAim
  <2> QED
    BY <1>3, <2>1, InPlaceFills DEF PageFails, engineVars, storeVars, TypesInv
<1>4. ASSUME NEW call \in calls, TypesArrive(call) PROVE Goal
  <2>1. StoreNext
    BY <1>4 DEF TypesArrive, StoreNext
  <2>2. AddressesAim'
    BY <1>4 DEF TypesArrive, addressVars, TypesInv, AddressesAim
  <2>3. CanvasIsFilled'
    BY <1>4, AnswerFills DEF TypesArrive, engineVars, TypesInv
  <2> QED
    BY <2>1, <2>2, <2>3
<1>5. ASSUME NEW e \in engines, EngineArrives(e) PROVE Goal
  <2>1. AddressesAim'
    BY <1>5 DEF EngineArrives, addressVars, TypesInv, AddressesAim
  <2>2. UNCHANGED surfaces /\ UNCHANGED storeVars
    BY <1>5 DEF EngineArrives, CreationEnds, CreationFails
  <2> QED
    BY <2>1, <2>2, InPlaceFills DEF storeVars, TypesInv
<1> HIDE DEF Goal
<1>6. Goal
  BY <1>1, <1>2, <1>3, <1>4, <1>5 DEF Network
<1> QED
  BY <1>6 DEF Goal

LEMMA PagesAreOfStore ==
  EnginesInv /\ Located /\ TypesInv /\ [Next]_vars => TypesInv' /\ [StoreNext]_storeVars
<1> SUFFICES ASSUME EnginesInv, Located, TypesInv, [Next]_vars
             PROVE  TypesInv' /\ [StoreNext]_storeVars
  OBVIOUS
<1>1. CASE GraphChanges \/ UNCHANGED vars
  <2>1. UNCHANGED <<history, pending, surfaces>> /\ UNCHANGED storeVars
    BY <1>1 DEF GraphChanges, vars, addressVars, engineVars
  <2>2. AddressesAim'
    BY <2>1 DEF TypesInv, AddressesAim
  <2>3. CanvasIsFilled'
    BY <2>1, InPlaceFills DEF TypesInv, storeVars
  <2> QED
    BY <2>1, <2>2, <2>3, StoreStep, NamedStep DEF TypesInv
<1>2. CASE Reader \/ Network \/ Tick
  <2>1. [StoreNext]_storeVars /\ AddressesAim' /\ CanvasIsFilled'
    BY <1>2, ReaderIsOfStore, NetworkIsOfStore, TickIsOfStore
  <2> QED
    BY <2>1, StoreStep, NamedStep DEF TypesInv
<1> QED
  BY <1>1, <1>2 DEF Next

LEMMA TypesBegin == Init => TypesInv
<1> SUFFICES ASSUME Init PROVE TypesInv
  OBVIOUS
<1>1. StoreInv
  BY InitStore DEF Init
<1>2. TypesAreNamed /\ CanvasIsFilled
  BY DEF Init, StoreInit, EnginesInit, TypesAreNamed, CanvasIsFilled
<1>3. AddressesAim
  <2> DEFINE first == Entry(tour.path, tour.parameters)
  <2>1. history = <<first>> /\ pending = {Navigation(history[1], TRUE)}
    BY DEF Init, address
  <2>2. Aims(first)
    <3>1. first.parameters = tour.parameters
      BY DEF Entry
    <3> HIDE DEF first
    <3> QED
      BY <3>1, TourAssumption DEF Aims, Init
  <2> HIDE DEF first
  <2>3. Navigation(first, TRUE).entry = first
    BY DEF Navigation
  <2>4. DOMAIN history = {1} /\ history[1] = first
    BY <2>1
  <2>5. \A i \in DOMAIN history : Aims(history[i])
    BY <2>2, <2>4
  <2>6. \A navigation \in pending : Aims(navigation.entry)
    BY <2>1, <2>2, <2>3, <2>4
  <2> QED
    BY <2>5, <2>6 DEF AddressesAim
<1> QED
  BY <1>1, <1>2, <1>3 DEF TypesInv

(* Wherever the reader clicks: every step of the console is one that the   *)
(* types store allows.  What is selected or collapsed is a type that the   *)
(* store holds, because the canvas goes with the types on it, and because a*)
(* reference into the component leads to a type that is declared there.    *)
THEOREM PagesDriveTheStore == Spec => StoreSpec /\ []TypesInv
<1>1. Init => StoreInit
  BY DEF Init
<1>2. AddressInv => Located
  BY DEF AddressInv
<1> QED
  BY <1>1, <1>2, PagesOwnEngines, EnginesBegin, EnginesStep, AddressBegins, AddressStep,
     TypesBegin, PagesAreOfStore, PTL DEF Spec, EnginesSpec, StoreSpec

(* So the types on display are those of the component, in the console too. *)
THEOREM PagesShowTheTypes == Spec => []TypesOfTheComponent
BY PagesDriveTheStore, TypesAreOfTheComponent, PTL

(* Whatever types a component declares and however they refer to others,   *)
(* whatever is selected and collapsed: the diagram places each type once,  *)
(* on the canvas and apart from the others, and each relation joins two    *)
(* placed types at a row that is shown.                                    *)
THEOREM DiagramsAreClosed == Spec => []DiagramIsClosed
<1>1. TypesInv => DiagramIsClosed
  <2> SUFFICES ASSUME TypesInv, IsCanvasShown PROVE DiagramIsClosed
    BY DEF DiagramIsClosed
  <2>1. Declares(componentId)
    BY SettledStore DEF IsCanvasShown, TypesInv
  <2> QED
    BY <2>1, DiagramsOfTypesAreClosed
<1> QED
  BY <1>1, PagesDriveTheStore, PTL

=============================================================================
