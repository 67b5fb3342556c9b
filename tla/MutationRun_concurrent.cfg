CONSTANTS
  Runs = {r1, r2}
  Files <- MCFiles
  NoFile = NoFile
  Sites <- MCSites
  FileOf <- MCFileOf
  Detectable <- MCDetectable
  Uncovered <- MCUncovered
  FilesUnder <- MCFilesUnder
  ConfiguredPaths = {""}
  Registered = {"mutation", "loc"}
  ConfiguredPlugins = {"mutation"}
  MaximumUncovered = 1
  MaximumSurvivors = 0
  Requests <- MCWholeRepository
  FilesMayFail = FALSE
  MayTimeOut = FALSE
  CommandsMayFail = FALSE
  MayExit = FALSE
SPECIFICATION Spec
INVARIANTS SourceRestored
CHECK_DEADLOCK FALSE
