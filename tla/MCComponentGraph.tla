--------------------------- MODULE MCComponentGraph ---------------------------
(***************************************************************************)
(* The instance of ConsoleReports for TLC, in four families:              *)
(*  - every production graph over three components, with at most one test  *)
(*    file and every classification of a list.  The third component may    *)
(*    have no production file, so that it is known by an import or by its  *)
(*    tests alone;                                                         *)
(*  - four components in three or four groups, with any imports of three of*)
(*    them;                                                                *)
(*  - one component with up to four importers and dependencies and up to   *)
(*    five types, so that every zone and every bucket occurs;              *)
(*  - three components of which the files, imports and tests describe one  *)
(*    differently, with the test first or last.                            *)
(***************************************************************************)
EXTENDS ConsoleReports, TLC

MCNoComponent == <<>>

MCNoApplication == ""

shop == <<"cmd", "shop">>
desk == <<"cmd", "desk">>
order == <<"internal", "module", "order">>
stock == <<"internal", "module", "stock">>
library == <<"internal", "library">>
text == <<"internal", "library", "text">>
tools == <<"tools">>

MCComponents == {desk, shop, library, text, order, stock, tools}

MCNames == {"", "main", "shop", "desk", "library", "tools"}

(* The components, the groups that are none, and names and roles as paths *)
(* of one segment. *)
InOrder ==
  <<<<"">>, <<"application">>, <<"application-module">>, desk, shop, <<"desk">>,
    <<"development">>, <<"infrastructure">>, library, text, <<"internal", "module">>, order,
    stock, <<"library">>, <<"main">>, <<"shared-module">>, <<"shop">>, tools>>

Place(p) == CHOOSE i \in DOMAIN InOrder : InOrder[i] = p

MCPrecedes(p, q) == Place(p) < Place(q)

(* Where |A + I - 1| is a multiple of a tenth but its double is not the one*)
(* closest to it: abstractness, instability and units in the last place.   *)
MisroundedTenths ==
  {<<0, 8, -2>>, <<10, 2, -2>>, <<5, 2, 1>>, <<5, 8, 1>>, <<2, 5, 1>>, <<2, 10, -2>>,
   <<4, 2, -2>>, <<4, 5, -2>>, <<4, 8, 6>>, <<4, 10, -2>>, <<6, 2, -2>>, <<6, 5, 6>>,
   <<6, 8, -2>>, <<6, 10, 1>>, <<8, 0, -2>>, <<8, 5, 1>>, <<8, 8, 1>>}

MCMisrounded ==
  {[abstractness |-> <<m[1], 10>>, instability |-> <<m[2], 10>>, ulps |-> m[3]] :
     m \in MisroundedTenths}

-----------------------------------------------------------------------------
File(c, test, imports, describe, abstract, concrete) ==
  [component |-> c, test |-> test, imports |-> imports, describe |-> describe,
   abstract |-> abstract, concrete |-> concrete]

Described(role, application, name) == [role |-> role, application |-> application, name |-> name]

MCDescriptors == [role : Roles, application : MCNames, name : MCNames]

(* The other components are not read, or are libraries. *)
Describe(described) ==
  [c \in MCComponents |->
     IF c \in DOMAIN described THEN described[c]
     ELSE Described("library", "", IF c = tools THEN "tools" ELSE "library")]

Naming(a, b, c, first, second, third) ==
  [paths |-> <<a, b, c>>, describe |-> Describe((a :> first) @@ (b :> second) @@ (c :> third))]

Namings ==
  {Naming(order, stock, text,
          Described("application-module", "shop", "main"),
          Described("application-module", "desk", "main"), Described("library", "", "library")),
   Naming(shop, library, order,
          Described("application", "shop", "shop"), Described("shared-module", "", "library"),
          Described("application-module", "desk", "main")),
   Naming(library, tools, desk,
          Described("infrastructure", "", "library"), Described("development", "", "tools"),
          Described("application", "desk", "desk")),
   Naming(library, text, tools,
          Described("library", "", "library"), Described("development", "", "library"),
          Described("shared-module", "shop", "tools"))}

Some(paths, numbers) == {paths[n] : n \in numbers}

(* The second component declares an interface and four structs. *)
ProductionFile(naming, n, imports) ==
  File(naming.paths[n], FALSE, Some(naming.paths, imports), naming.describe,
       IF n = 2 THEN 1 ELSE 0, 4)

TestFiles(naming) ==
  {<<>>} \cup
  {<<File(naming.paths[n], TRUE, Some(naming.paths, imports), naming.describe, 1, 1)>> :
     n \in 1 .. 3, imports \in SUBSET (1 .. 3)}

LastFiles(naming) ==
  {<<>>} \cup {<<ProductionFile(naming, 3, imports)>> : imports \in SUBSET {1, 2}}

ThreeComponents ==
  UNION
    {{[files |-> <<ProductionFile(naming, 1, i), ProductionFile(naming, 2, j)>> \o test \o last] :
        i \in SUBSET {2, 3}, j \in SUBSET {1, 3},
        test \in TestFiles(naming), last \in LastFiles(naming)} : naming \in Namings}

Grouped == {<<shop, library, order, tools>>, <<order, text, stock, desk>>}

FourComponents ==
  {[files |-> [n \in 1 .. 4 |->
                 File(paths[n], FALSE,
                      Some(paths, CASE n = 1 -> i [] n = 2 -> j [] n = 3 -> k [] OTHER -> {}),
                      Describe(<<>>), 0, 0)]] :
      paths \in Grouped, i \in SUBSET {2, 3, 4}, j \in SUBSET {1, 3, 4}, k \in SUBSET {1, 2, 4}}

Others == <<shop, desk, order, stock, tools, text>>

(* The component under test is library: its importers come first in Others,*)
(* its dependencies after them.                                            *)
Weighing(importing, imported, abstract, concrete) ==
  [files |->
     <<File(library, FALSE, Some(Others, importing + 1 .. importing + imported),
            Describe(<<>>), abstract, concrete)>>
       \o [n \in 1 .. importing |-> File(Others[n], FALSE, {library}, Describe(<<>>), 0, 0)]]

Couplings == {<<0, 0>>, <<0, 2>>, <<1, 0>>, <<1, 1>>, <<2, 1>>, <<1, 2>>, <<4, 1>>, <<1, 4>>}

TypeCounts ==
  {<<0, 0>>, <<0, 5>>, <<1, 4>>, <<2, 3>>, <<3, 2>>, <<4, 1>>, <<5, 0>>, <<1, 1>>}

OneWeighed ==
  {Weighing(coupling[1], coupling[2], types[1], types[2]) :
     coupling \in Couplings, types \in TypeCounts}

(* The files in the directory of library and those below it are classified *)
(* by different rules, and so are imports; order is in an application.     *)
LibraryAs(role) ==
  Describe((library :> Described(role, "", "library"))
           @@ (order :> Described("application-module", "shop", "main"))
           @@ (tools :> Described("development", "", "tools")))

DescribedTwice ==
  {<<File(library, FALSE, i, LibraryAs(roles[1]), 0, 1),
     File(order, FALSE, j, LibraryAs(roles[2]), 0, 1)>> :
     i \in SUBSET {order, tools}, j \in SUBSET {library, tools},
     roles \in {<<"library", "shared-module">>, <<"development", "library">>}}

DescribingTests ==
  {File(c, TRUE, imports, LibraryAs(role), 0, 0) :
     c \in {library, tools}, imports \in SUBSET {library, order},
     role \in {"library", "infrastructure"}}

RedescribedComponents ==
  UNION {{[files |-> <<test>> \o files], [files |-> files \o <<test>>]} :
           files \in DescribedTwice, test \in DescribingTests}

MCRepositories == ThreeComponents \cup FourComponents \cup OneWeighed \cup RedescribedComponents

-----------------------------------------------------------------------------
Rule(from, to, sameApplication) == [from |-> from, to |-> to, sameApplication |-> sameApplication]

Policy(production, test, allow, deny) ==
  [productionDefault |-> production, testDefault |-> test, allow |-> allow, deny |-> deny]

Modules == {order, stock, shop}
Shared == {library, text, tools}

MCPolicies ==
  {Policy("allow", "allow", {}, {}),
   Policy("allow", "deny", {}, {Rule(MCComponents, MCComponents, TRUE)}),
   Policy("deny", "allow", {Rule(Modules, Shared, FALSE)}, {Rule(Shared, Shared, FALSE)}),
   Policy("deny", "deny",
          {Rule(Shared, MCComponents, FALSE), Rule(MCComponents, MCComponents, TRUE)}, {}),
   Policy("allow", "allow", {}, {Rule({<<"gone">>}, MCComponents, FALSE)})}

=============================================================================
