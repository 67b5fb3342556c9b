CONSTANTS
  Watchers = {console}
  Console = console
  Revisions = {a, b, c}
  NoRevision = NoRevision
  MaxPublications = 2
  MaxRefreshes = 2
  MaxFailures = 1
  StreamCapacity = 1
  StreamMayEnd = TRUE
SPECIFICATION Spec
INVARIANTS NothingUnannounced
PROPERTIES NeverGoesBack CurrentUnlessDiscarded LoadingEnds
CHECK_DEADLOCK FALSE
