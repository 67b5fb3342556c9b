CONSTANTS
  Watchers = {console}
  Console = console
  Revisions = {a, b, c}
  NoRevision = NoRevision
  MaxPublications = 2
  MaxRefreshes = 0
  MaxFailures = 0
  StreamCapacity = 1
  StreamMayEnd = FALSE
SPECIFICATION Spec
PROPERTIES KeepsCurrent
CHECK_DEADLOCK FALSE
