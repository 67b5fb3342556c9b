CONSTANTS
  Watchers = {}
  Revisions <- MCRevisions
  NoRevision = NoRevision
  Files <- MCFiles
  Tracked <- MCFiles
  Reads <- MCReads
  FileOf <- MCFileOf
  MaxVersion = 2
  LastVersion <- MCStoreEdits
  StatOf <- MCStatOf
  Requests = {r1}
  Ticker = ticker
  RevisionOf <- MCRevisionOf
  MaxFailures = 1
SPECIFICATION Spec
PROPERTIES EventuallyCurrent CallsReturn TickerStops
