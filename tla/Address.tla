-------------------------------- MODULE Address --------------------------------
(***************************************************************************)
(* Where the reader of the console is: the entries of the browser's        *)
(* history, and the navigations of the Angular router between the pages    *)
(* (app.routing.ts, architecture.routes.ts).  The code of a page is loaded *)
(* when it is first navigated to.  Until then the navigation is pending,   *)
(* and a newer one replaces it; a navigation to a loaded page takes one    *)
(* step, because the router runs it in microtasks.                         *)
(*                                                                         *)
(* An entry is a page and its query parameters; an absent parameter is     *)
(* empty.                                                                  *)
(***************************************************************************)
EXTENDS Naturals, Sequences

CONSTANTS
  NoParameters,  \* the query parameters of an address that has none
  MaxHistory     \* bound: entries of the history

ROUTE_PATH == {"overview", "strategy", "components", "balance", "findings", "types"}

NoPage == "none"

(* The routes: the empty path is redirected, the wildcard takes the rest.  *)
appRoutes(path) ==
  CASE path = "" -> "overview"
    [] path \in ROUTE_PATH -> path
    [] OTHER -> "error-404"

Entry(path, parameters) == [page |-> appRoutes(path), parameters |-> parameters]

VARIABLES
  history,   \* of the browser tab
  position,  \* of the entry that the address bar shows
  page,      \* the page on screen, NoPage before the first one
  loaded,    \* the pages whose code is loaded
  pending    \* the navigations that wait for the code of their page, at most one

addressVars == <<history, position, page, loaded, pending>>

address == history[position]

Navigation(entry, replaceUrl) == [entry |-> entry, replaceUrl |-> replaceUrl]

(* The tab starts, anew or reloaded, at an entry whose code is not loaded. *)
Start(entries, at) ==
  /\ history' = entries
  /\ position' = at
  /\ page' = NoPage
  /\ loaded' = {}
  /\ pending' = {Navigation(entries[at], TRUE)}

Commit(navigation) ==
  /\ history' =
       IF navigation.replaceUrl
         THEN [history EXCEPT ![position] = navigation.entry]
         ELSE Append(SubSeq(history, 1, position), navigation.entry)
  /\ position' = IF navigation.replaceUrl THEN position ELSE position + 1
  /\ page' = navigation.entry.page
  /\ pending' = {}

(* Router.navigate: one to where the reader already is changes nothing, but*)
(* it still replaces a pending one.                                        *)
Navigate(navigation) ==
  /\ navigation.replaceUrl \/ position < MaxHistory
  /\ IF navigation.entry = address
       THEN pending' = {} /\ UNCHANGED <<history, position, page>>
       ELSE IF navigation.entry.page \in loaded THEN Commit(navigation)
       ELSE pending' = {navigation} /\ UNCHANGED <<history, position, page>>
  /\ UNCHANGED loaded

(* What is written replaces what is there, name by name. *)
Merged(written, there) ==
  [name \in DOMAIN written \cup DOMAIN there |->
     IF name \in DOMAIN written THEN written[name] ELSE there[name]]

(* Query parameters are merged into those of the address. *)
WriteParameters(parameters, replaceUrl) ==
  Navigate(Navigation([page |-> page, parameters |-> Merged(parameters, address.parameters)],
                      replaceUrl))

(* The links of the sidebar carry no query parameters. *)
FollowLink(path) == Navigate(Navigation(Entry(path, NoParameters), FALSE))

CodeArrives(navigation) ==
  /\ navigation \in pending
  /\ loaded' = loaded \cup {navigation.entry.page}
  /\ Commit(navigation)

CodeFails(navigation) ==
  /\ navigation \in pending
  /\ pending' = {}
  /\ UNCHANGED <<history, position, page, loaded>>

(* Back and forward, to a page whose code is loaded. *)
Traverse(to) ==
  /\ to \in DOMAIN history \ {position}
  /\ history[to].page \in loaded
  /\ position' = to
  /\ page' = history[to].page
  /\ pending' = {}
  /\ UNCHANGED <<history, loaded>>

=============================================================================
