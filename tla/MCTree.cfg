SPECIFICATION Spec
CONSTANTS
  DEPTH = 6
  Inputs <- MCInputs
  Instructions <- MCInstructions
INVARIANTS TypeOK MatchedIsHandled FailsIffUnsplittable FailureKeepsFile BaseOpIsGenerated HandlerTable
PROPERTY SplittableIsWritten
