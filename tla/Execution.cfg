\* A program ends, or stops at an overflow or at MaxDepth frames.
CONSTANTS
  NULL = NULL
  Undef = Undef
  Name <- MCName
  Method <- MCMethod
  Node <- MCNode
  Modules <- AllModules
  Representable <- MCRepresentable
  MaxDepth = 3
SPECIFICATION ExecutionSpec
INVARIANTS
  ExecutionTypeOK
  ExecutionCovered
  OperandsSigned
  CallsAnalysed
CHECK_DEADLOCK FALSE
