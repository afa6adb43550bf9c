\* The block ends, or is left at an operand without a sign or at an overflow.
CONSTANTS
  Undef = Undef
  Name <- MCName
  Method <- MCMethod
  Node = {}
  Blocks <- MCBlocks
  Representable <- MCRepresentable
SPECIFICATION Spec
INVARIANTS TypeOK Sound
CHECK_DEADLOCK FALSE
