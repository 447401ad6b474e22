CONSTANTS
  Directories <- MCDirectories
  Contents <- MCContents
  SolNames <- MCSolNames
  Arguments <- MCArguments
  Drafts <- MCDrafts
  MaxMishaps = 2
SPECIFICATION MigrateSpec
INVARIANTS ImportsKept RunMovesEach
PROPERTIES RunEnds RunComesNearer
