CONSTANTS
  Runs = {r1}
  Files <- MCFiles
  NoFile = NoFile
  Sites <- MCSites
  FileOf <- MCFileOf
  Detectable <- MCDetectable
  Uncovered <- MCUncovered
  FilesUnder <- MCFilesUnder
  ConfiguredPaths = {""}
  Registered = {"mutation", "loc"}
  ConfiguredPlugins = {"mutation"}
  MaximumUncovered = 1
  MaximumSurvivors = 0
  Requests <- MCRequests
  FilesMayFail = TRUE
  MayTimeOut = TRUE
  CommandsMayFail = TRUE
  MayExit = TRUE
SPECIFICATION Spec
INVARIANTS SourceRestored VerdictsAreTrue ReportIsComplete
PROPERTIES RunsEnd
CHECK_DEADLOCK FALSE
