SPECIFICATION Spec
CONSTANTS
  PAGE = 4096
  U32 = 65536
  U64 = 268435456
  MEMORY = 8
  QUEUE = 1
  Files <- OneFile
  Paths <- OnePath
  StaticNames <- MCNames
INVARIANT BaseIsAligned
