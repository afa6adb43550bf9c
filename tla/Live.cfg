CONSTANTS
  NULL = NULL
  Value <- MCValue
  Node <- MCNode
  FunctionSet <- LiveFunctions
SPECIFICATION Spec
INVARIANTS
  TypeOK
  LiveIfPhisApart
  NothingDead
PROPERTIES
  SolvesWithoutPhis
  RoundsEnd
