SPECIFICATION Spec
CONSTANT Identifiers = {1, 2, 3, 4}
INVARIANTS
  CyclesAreExact
  ReachableIsExact
CHECK_DEADLOCK FALSE
