CONSTANTS
  NULL = NULL
  Value <- MCValue
  Node <- MCNode
  FunctionSet <- SwapFunctions
SPECIFICATION Spec
INVARIANTS
  LiveCovered
