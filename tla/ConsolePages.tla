------------------------------ MODULE ConsolePages ------------------------------
(***************************************************************************)
(* A reader moves through the pages of the console: the address and the    *)
(* filters of its pages, the types of the component that it names and      *)
(* their diagram, the engines that draw, and what a reload brings back.    *)
(*                                                                         *)
(* Reader, server and network act in any order.  The console answers to    *)
(* each event in one step; what the event made stale is brought up to date *)
(* by a later step, Tick: effects first, then templates, then what runs    *)
(* after rendering.  The graph that LiveConsole holds is one of a few      *)
(* readings here: not there yet, without components, with balanced ones    *)
(* only, or with some for the ranking.                                     *)
(***************************************************************************)
EXTENDS PageFilters, Startup, TypesStore, Engines, TypeDiagram

CONSTANTS
  Packages,   \* of the repository,
  TypeNames,  \* the names of the types in them,
  Members,    \* and of the fields and methods of those
  Tours       \* bound: where readers start, what they then do, and how many events
              \* they and the graph cause

Messages == INSTANCE TypeMessages WITH Paths <- TypePaths

ASSUME ParameterAssumption ==
  /\ NoPath = <<>>
  /\ NoParameters = [q |-> "", role |-> "", severity |-> "", component |-> NoPath]

(* An address may name any component that the server can be asked for.     *)
ASSUME TourAssumption ==
  \A t \in Tours :
    "component" \in DOMAIN t.parameters /\ t.parameters.component \in TypePaths \cup {NoPath}

ASSUME IdOrderAssumption ==
  IsStrictOrder(Messages!TypeIds,
                {p \in Messages!TypeIds \X Messages!TypeIds : IdPrecedes(p[1], p[2])})

ASSUME InventoryAssumption ==
  \A path \in TypePaths :
    /\ Messages!IsGetComponentTypesResponse(
         [types |-> TypesOf(path), incoming |-> IncomingOf(path)])
    /\ IsFiniteSet(TypesOf(path)) /\ \A d \in TypesOf(path) : IsFiniteSet(RelatedTo(d))
    /\ IsFiniteSet(IncomingOf(path)) /\ \A r \in IncomingOf(path) : r.sourceComponent # path

(* An identifier stands for one type, and the types of a component that    *)
(* others name are declared there: analyses are of whole components.       *)
ASSUME IdentifierAssumption ==
  \A path \in TypePaths :
    LET types == TypesOf(path)
        named == (UNION {RelatedTo(d) : d \in types}) \cup {Source(r) : r \in IncomingOf(path)} IN
      /\ \A c, d \in types : c.id # NoType /\ (c.id = d.id => c = d)
      /\ \A r, s \in named : r.id = s.id => r = s
      /\ \A r \in named : r.component = path => \E d \in types : d.id = r.id

(* Go refuses two fields or methods of one name, but for fields named _.   *)
ASSUME MemberAssumption ==
  \A path \in TypePaths :
    \A d \in TypesOf(path) :
      /\ \A i, j \in DOMAIN d.fields :
           i # j /\ d.fields[i].name = d.fields[j].name => d.fields[i].name = "_"
      /\ \A i, j \in DOMAIN d.methods : i # j => d.methods[i].name # d.methods[j].name

Readings == {"waiting", "empty", "balanced", "unbalanced"}

VARIABLES
  tour,
  steps,      \* how many of them happened
  reading,
  due         \* whether a rendering is scheduled

vars ==
  <<addressVars, filterVars, startupVars, storeVars, engineVars, tour, steps, reading, due>>

-----------------------------------------------------------------------------
(* What is on screen *)

HasContent == reading # "waiting"

IsCanvasShown ==
  /\ HasContent
  /\ address.parameters.component # NoPath
  /\ ~loading
  /\ ~failed
  /\ typesState # {}

(* The surfaces in the template of the page. *)
Surfaces ==
  {kind \in Kinds :
     \/ /\ page = "overview"
        /\ kind = "dependencyMap"
        /\ reading \in {"balanced", "unbalanced"}
     \/ /\ page = "strategy"
        /\ kind \in {"strategyMap", "matrix"}
        /\ reading \in {"balanced", "unbalanced"}
     \/ /\ page = "balance"
        /\ \/ kind = "distribution" /\ reading \in {"balanced", "unbalanced"}
           \/ kind = "ranking" /\ reading = "unbalanced"
     \/ page = "types" /\ kind = "typeDiagram" /\ IsCanvasShown}

Diagram == buildTypeDiagramModel(typesState, incomingState, collapsedState, selectedId)

-----------------------------------------------------------------------------
(* Navigations *)

(* A page that is replaced is destroyed; the filters of the next are new.  *)
(* Until its effects have run, nothing that navigates was selected.        *)
Arrive ==
  /\ NoteChange
  /\ due' = TRUE
  /\ IF page' = page THEN UNCHANGED engineVars ELSE Leave

ArriveOnNewPage ==
  /\ Arrive
  /\ IF page' = page THEN UNCHANGED <<query, selectedRole, selectedSeverity>> ELSE FreshFilters

IsOpen == app = "console" /\ page # NoPage

Step == steps < tour.steps /\ steps' = steps + 1

Elsewhere == UNCHANGED <<tour, reading>>

Sidebar(path) ==
  /\ IsOpen
  /\ Step
  /\ path \in tour.links
  /\ FollowLink(path)
  /\ ArriveOnNewPage
  /\ UNCHANGED <<startupVars, storeVars>>
  /\ Elsewhere

BackOrForward(to) ==
  /\ IsOpen
  /\ Step
  /\ Traverse(to)
  /\ ArriveOnNewPage
  /\ UNCHANGED <<startupVars, storeVars>>
  /\ Elsewhere

PageArrives(navigation) ==
  /\ app = "console"
  /\ CodeArrives(navigation)
  /\ ArriveOnNewPage
  /\ UNCHANGED <<startupVars, storeVars, steps>>
  /\ Elsewhere

PageFails(navigation) ==
  /\ app = "console"
  /\ CodeFails(navigation)
  /\ UNCHANGED <<filterVars, startupVars, storeVars, engineVars, steps, due>>
  /\ Elsewhere

Reload ==
  /\ app # "starting"
  /\ Step
  /\ tour.reloads
  /\ Start(history, position)
  /\ Restart
  /\ FreshFilters
  /\ changed' = FALSE
  /\ StoreRestarts
  /\ EnginesRestart
  /\ due' = FALSE
  /\ reading' = "waiting"
  /\ UNCHANGED tour

-----------------------------------------------------------------------------
(* The controls of the pages *)

Filter ==
  /\ IsOpen
  /\ Step
  /\ HasContent
  /\ \/ page = "components" /\ \E value \in tour.queries : setQuery(value)
     \/ page = "components" /\ \E value \in tour.roles : setRole(value)
     \/ page = "components" /\ clearFilters
     \/ page = "findings" /\ \E value \in tour.severities : setSeverity(value)
  /\ Arrive
  /\ UNCHANGED <<startupVars, storeVars>>
  /\ Elsewhere

(* TypesPage.setComponent, from the tree, the diagram or the detail panel. *)
SetComponent(path) ==
  /\ WriteParameters([component |-> path], FALSE)
  /\ Arrive
  /\ UNCHANGED <<query, selectedRole, selectedSeverity, startupVars, storeVars>>

OnTypes == IsOpen /\ Step /\ page = "types" /\ Elsewhere

PickComponent ==
  /\ OnTypes
  /\ HasContent
  /\ \E path \in TypePaths : SetComponent(path)

InPlace == UNCHANGED <<addressVars, filterVars, startupVars, engineVars>> /\ due' = TRUE

(* A click on a cell of the diagram, or on the button of the hidden list   *)
(* that does the same, which is there also if no engine has drawn.         *)
ClickDiagram ==
  /\ OnTypes
  /\ "typeDiagram" \in surfaces
  /\ \E cell \in draw(Diagram, selectedId).cells, onToggle \in BOOLEAN :
       LET click == Clicked(cell, onToggle) IN
         \/ click.asks = "toggle" /\ toggleCollapsed(click.of) /\ InPlace
         \/ click.asks = "select" /\ selectType(click.of) /\ InPlace
         \/ click.asks = "navigate" /\ SetComponent(click.of)

(* The references and the incoming relations that the detail panel lists. *)
Listed ==
  (UNION {RelatedTo(d) : d \in selectedType}) \cup {Source(r) : r \in selectedIncoming}

FollowReference ==
  /\ OnTypes
  /\ selectedType # {}
  /\ \E reference \in Listed :
       IF reference.component = componentId
         THEN selectType(reference.id) /\ InPlace
         ELSE SetComponent(reference.component)

(* The button of the detail panel. *)
CollapseDetail ==
  /\ OnTypes
  /\ \E d \in selectedType : toggleCollapsed(d.id)
  /\ InPlace

CloseDetail ==
  /\ OnTypes
  /\ selectedId # NoType
  /\ closeDetail
  /\ InPlace

ToggleDensity ==
  /\ IsOpen
  /\ Step
  /\ tour.reloads
  /\ toggleDensity
  /\ due' = TRUE
  /\ UNCHANGED <<addressVars, filterVars, storeVars, engineVars>>
  /\ Elsewhere

-----------------------------------------------------------------------------
(* Everyone else *)

MainStarts(document) ==
  /\ Bootstrap(document)
  /\ UNCHANGED <<addressVars, filterVars, storeVars, engineVars, steps, due>>
  /\ Elsewhere

(* The graph arrives or changes; once there, it stays. *)
GraphChanges ==
  /\ app = "console"
  /\ Step
  /\ reading' \in tour.readings \ {reading}
  /\ due' = TRUE
  /\ UNCHANGED <<addressVars, filterVars, startupVars, storeVars, engineVars, tour>>

TypesArrive(call) ==
  /\ LoadAnswered(call) \/ LoadFails(call)
  /\ due' = TRUE
  /\ UNCHANGED <<addressVars, filterVars, startupVars, engineVars, steps>>
  /\ Elsewhere

EngineArrives(e) ==
  /\ CreationEnds(e) \/ CreationFails(e)
  /\ due' = TRUE
  /\ UNCHANGED <<addressVars, filterVars, startupVars, storeVars, steps>>
  /\ Elsewhere

(* A rendering.  The effect of the types page loads what the address names.*)
Tick ==
  /\ due
  /\ due' = FALSE
  /\ changed' = FALSE
  /\ AdoptParameters
  /\ IF page = "types" /\ changed THEN load(address.parameters.component)
     ELSE UNCHANGED storeVars
  /\ UNCHANGED <<addressVars, startupVars, steps>>
  /\ Elsewhere
  /\ Render(Surfaces')

-----------------------------------------------------------------------------
Init ==
  /\ tour \in Tours
  /\ history = <<Entry(tour.path, tour.parameters)>>
  /\ position = 1
  /\ page = NoPage
  /\ loaded = {}
  /\ pending = {Navigation(address, TRUE)}
  /\ query = "" /\ selectedRole = EVERY_ROLE /\ selectedSeverity = EVERY_SEVERITY
  /\ changed = FALSE
  /\ StartupInit
  /\ stored \in tour.stored
  /\ StoreInit
  /\ EnginesInit
  /\ steps = 0
  /\ reading = "waiting"
  /\ due = FALSE

Reader ==
  \/ \E path \in ROUTE_PATH : Sidebar(path)
  \/ \E to \in DOMAIN history : BackOrForward(to)
  \/ Reload
  \/ Filter
  \/ PickComponent
  \/ ClickDiagram
  \/ CollapseDetail
  \/ FollowReference
  \/ CloseDetail
  \/ ToggleDensity

Network ==
  \/ \E document \in Documents : MainStarts(document)
  \/ \E navigation \in pending : PageArrives(navigation) \/ PageFails(navigation)
  \/ \E call \in calls : TypesArrive(call)
  \/ \E e \in engines : EngineArrives(e)

Next == Reader \/ Network \/ GraphChanges \/ Tick

(* Requests are answered or fail, imports end, and a scheduled rendering   *)
(* happens; nobody needs to act.                                           *)
Spec == Init /\ [][Next]_vars /\ WF_vars(Network) /\ WF_vars(Tick)

-----------------------------------------------------------------------------
(* Nothing is pending: what the console shows is what it will show. *)
AtRest ==
  \/ app = "configuration-error"
  \/ /\ app = "console"
     /\ ~due
     /\ pending = {}
     /\ calls = {}
     /\ \A e \in engines : e.state # "importing"

(* Whatever the reader did, and however it overlapped with navigations and *)
(* effects: at rest the filters, the component and the density are those   *)
(* that the address and the storage would bring back in a reloaded tab.    *)
ReloadShowsTheSame ==
  AtRest /\ IsOpen =>
    /\ FiltersAreAddressed
    /\ PreferenceIsKept
    /\ page = "types" /\ address.parameters.component # NoPath =>
         componentId = address.parameters.component

Overlap(a, b) ==
  /\ a.x < b.x + b.width /\ b.x < a.x + a.width
  /\ a.y < b.y + b.height /\ b.y < a.y + a.height

(* Whatever is selected and collapsed, the diagram places each type once   *)
(* on the canvas, apart from the others, and each relation joins two placed*)
(* types, at a row that its node shows.  Only fields without a name share a*)
(* port.                                                                   *)
DiagramIsClosed ==
  "typeDiagram" \in surfaces /\ IsCanvasShown =>
    LET model == Diagram
        placed == model.nodes \cup model.externals IN
      /\ \A m, n \in placed : m # n => m.id # n.id /\ ~Overlap(m, n)
      /\ Cardinality(draw(model, selectedId).cells) = Cardinality(placed)
      /\ IsTypeDiagramModel(model)
      /\ \A e \in model.edges : {e.sourceId, e.targetId} \subseteq {n.id : n \in placed}
      /\ \A n \in model.nodes : \A i, j \in DOMAIN n.rows :
           i # j /\ n.rows[i] = n.rows[j] => n.rows[i] = <<"field", "_">>

(* At rest every surface is drawn on, whenever its engine came, unless the *)
(* import failed, or the page still holds the engine of an earlier surface *)
(* that has been replaced since: that is when a chart stays blank.         *)
DrawnUnlessReplaced ==
  AtRest =>
    \A kind \in surfaces :
      \E e \in engines :
        /\ e.kind = kind
        /\ \/ IsHeld(e) /\ e.onScreen
           \/ e.state = "failed"
           \/ kind \in PageKinds /\ IsHeld(e)

(* Whatever was going on, the console comes to rest: no page, load or      *)
(* engine keeps the reader waiting forever.                                *)
SettlesDown == []<>AtRest

=============================================================================
