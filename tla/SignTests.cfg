\* A program ends, or stops at an overflow or at MaxDepth frames.
CONSTANTS
  NULL = NULL
  Undef = Undef
  Name <- MCName
  Method <- MCMethod
  Node <- MCNode
  Modules <- TestModules
  Representable <- MCRepresentable
  MaxDepth = 5
SPECIFICATION ExecutionSpec
INVARIANTS
  ResultIsSolution
  ExitCoversTails
  ExecutionCovered
CHECK_DEADLOCK FALSE
