SPECIFICATION Spec
CONSTANTS
  NoPath <- MCNoPath
  NoParameters <- MCNoParameters
  NoType <- MCNoType
  TypePaths <- MCTypePaths
  TypesOf <- MCTypesOf
  IncomingOf <- MCIncomingOf
  IdPrecedes <- MCIdPrecedes
  Packages <- MCPackages
  TypeNames <- MCTypeNames
  Members <- MCMembers
  OwnKinds <- MCOwnKinds
  PageKinds <- MCPageKinds
  Documents <- MCDocuments
  Tours <- MCTours
  MaxHistory = 4
INVARIANTS
  ReloadShowsTheSame
  TypesOfTheComponent
  DiagramIsClosed
  NoEngineLeaks
  DrawnUnlessReplaced
PROPERTIES
  SettlesDown
CHECK_DEADLOCK FALSE
