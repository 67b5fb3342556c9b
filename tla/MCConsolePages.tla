----------------------------- MODULE MCConsolePages -----------------------------
(***************************************************************************)
(* The instance of ConsolePages for TLC: one reader per tour, who keeps to *)
(* a few pages.  Two components declare types: sales, whose types embed,   *)
(* implement and reference each other and types of stock, and stock.       *)
(***************************************************************************)
EXTENDS ConsolePages

MCOwnKinds == {"dependencyMap", "strategyMap", "typeDiagram"}
MCPageKinds == {"ranking", "distribution", "matrix"}

Sales == <<"sales">>
Stock == <<"stock">>
MCTypePaths == {Sales, Stock}
MCNoPath == <<>>
MCNoParameters == [q |-> "", role |-> "", severity |-> "", component |-> MCNoPath]
MCNoType == <<"", "">>

Order == <<"sales", "Order">>
Lines == <<"sales", "Lines">>
Repository == <<"sales", "Repository">>
Store == <<"stock", "Repository">>
Item == <<"stock", "Item">>

MCPackages == {"sales", "stock"}
MCTypeNames == {"Order", "Lines", "Repository", "Item"}
MCMembers == {"_", "Lines", "repository", "items", "Close"}

InOrder == <<"sales", "stock", "Item", "Lines", "Order", "Repository">>
Place(word) == CHOOSE i \in DOMAIN InOrder : InOrder[i] = word
MCIdPrecedes(a, b) ==
  Place(a[1]) < Place(b[1]) \/ (a[1] = b[1] /\ Place(a[2]) < Place(b[2]))

To(id) == [id |-> id, component |-> IF id \in {Store, Item} THEN Stock ELSE Sales]

Field(name, type, embedded) ==
  [name |-> name, type |-> type, embedded |-> embedded, exported |-> TRUE]

Declared(id, kind, fields, methods, embeds, implements, references) ==
  [id |-> id, component |-> To(id).component, kind |-> kind, exported |-> TRUE,
   fields |-> fields, methods |-> [i \in DOMAIN methods |-> [name |-> methods[i], exported |-> TRUE]],
   embeds |-> embeds, implements |-> implements, references |-> references]

MCTypesOf(path) ==
  IF path = Sales
    THEN {Declared(Order, "struct",
                   <<Field("_", {}, FALSE), Field("Lines", {"Lines"}, TRUE),
                     Field("_", {}, FALSE), Field("repository", {"Repository"}, FALSE)>>,
                   <<"Close">>, {To(Lines)}, {}, {To(Repository), To(Store)}),
          Declared(Lines, "basic", <<>>, <<>>, {}, {}, {To(Item)}),
          Declared(Repository, "interface", <<>>, <<"Close">>, {}, {}, {To(Order)})}
    ELSE {Declared(Store, "struct", <<Field("items", {"Item"}, FALSE)>>, <<"Close">>,
                   {}, {To(Repository)}, {To(Item)}),
          Declared(Item, "struct", <<>>, <<>>, {}, {}, {})}

Relation(kind, source, target) ==
  [kind |-> kind, sourceId |-> source, sourceComponent |-> To(source).component,
   targetId |-> target]

MCIncomingOf(path) ==
  IF path = Sales
    THEN {Relation("implements", Store, Repository)}
    ELSE {Relation("references", Order, Store), Relation("references", Lines, Item)}

Document(answered, ok, parses, isObject, apiBaseUrl) ==
  [inline |-> FALSE, answered |-> answered, ok |-> ok, parses |-> parses,
   isObject |-> isObject, apiBaseUrl |-> apiBaseUrl]

MCDocuments ==
  {Document(FALSE, FALSE, FALSE, FALSE, ""), Document(TRUE, FALSE, FALSE, FALSE, ""),
   Document(TRUE, TRUE, FALSE, FALSE, ""), Document(TRUE, TRUE, TRUE, FALSE, ""),
   Document(TRUE, TRUE, TRUE, TRUE, " "), Document(TRUE, TRUE, TRUE, TRUE, "/")}

Tour(path, parameters, links, readings, events) ==
  [path |-> path, parameters |-> parameters, links |-> links, readings |-> readings,
   steps |-> events, queries |-> {}, roles |-> {}, severities |-> {}, reloads |-> FALSE,
   stored |-> {"absent"}]

MCTours ==
  {[Tour("components", [NoParameters EXCEPT !.q = "sal", !.role = "all"],
         {"components"}, {"balanced"}, 6)
      EXCEPT !.queries = {" ", "sal", "sales"}, !.roles = {"", "library"}],
   [Tour("findings", NoParameters, {"components"}, {"balanced"}, 5)
      EXCEPT !.queries = {"sales"}, !.severities = {"", "error"}, !.reloads = TRUE,
             !.stored = {"absent", "unreadable", "dense", "wide"}],
   Tour("types", [NoParameters EXCEPT !.component = Sales], {"types"}, {"balanced"}, 5),
   Tour("balance", NoParameters, {"strategy"}, {"empty", "balanced", "unbalanced"}, 4),
   Tour("", NoParameters, {"strategy"}, {"empty", "balanced"}, 4),
   Tour("gone", NoParameters, {"types"}, {"balanced"}, 4)}

=============================================================================
