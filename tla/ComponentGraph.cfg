SPECIFICATION Spec
CONSTANTS
  Components <- MCComponents
  NoComponent <- MCNoComponent
  NoApplication <- MCNoApplication
  Descriptors <- MCDescriptors
  Repositories <- MCRepositories
  Policies <- MCPolicies
  Names <- MCNames
  Precedes <- MCPrecedes
  Misrounded <- MCMisrounded
INVARIANTS
  ReceivedOK
  TestsChangeNothing
  FindingsAreAnnotated
  PainIsFound
  BucketedOnce
  OrdersAreTotal
  LayersAreSound
  CellsAreExplained
  MapIsClosed
  TreeReveals
  PagesAgree
CHECK_DEADLOCK FALSE
