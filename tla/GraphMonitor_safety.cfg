CONSTANTS
  Watchers = {w1, w2}
  Revisions <- MCRevisions
  NoRevision = NoRevision
  Files <- MCFiles
  Tracked <- MCFiles
  Reads <- MCReads
  FileOf <- MCFileOf
  MaxVersion = 2
  LastVersion <- MCLastVersion
  StatOf <- MCStatOf
  Requests = {r1}
  Ticker = ticker
  RevisionOf <- MCRevisionOf
  MaxFailures = 1
SYMMETRY MCSymmetry
CONSTRAINT MCWatchedEdits
SPECIFICATION Spec
INVARIANTS OneRefresh UnchangedMeansCurrent RefreshIsFresh NoLostWakeup
PROPERTIES PublishedMovesForward ImplementsFreshGraph
