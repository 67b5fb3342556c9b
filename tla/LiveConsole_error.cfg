CONSTANTS
  Watchers = {console}
  Console = console
  Revisions = {a, b, c}
  NoRevision = NoRevision
  MaxPublications = 2
  MaxRefreshes = 1
  MaxFailures = 1
  StreamCapacity = 1
  StreamMayEnd = FALSE
SPECIFICATION Spec
INVARIANTS ErrorIsOfLastLoad
CHECK_DEADLOCK FALSE
