SPECIFICATION Spec
CONSTANTS
  DEPTH = 6
  Inputs <- BaseOpOnly
  Instructions <- MCInstructions
INVARIANT RunsItsOwn
