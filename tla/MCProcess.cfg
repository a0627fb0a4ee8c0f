SPECIFICATION Spec
CONSTANTS
  PAGE = 4096
  U32 = 65536
  U64 = 268435456
  MEMORY = 8
  QUEUE = 1
  Files <- MCFiles
  Paths <- MCPaths
  StaticNames <- MCNames
INVARIANTS TypeOK EntryIsFetched ReleasedAtExit TerminatedByNames GoodFileRuns FailureReported
PROPERTY EndsOrRuns
