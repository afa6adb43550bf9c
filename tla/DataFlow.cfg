CONSTANTS
  Bit <- MCBit
  Node <- MCNode
  Code <- MCCode
  Transfer <- MCTransfer
  Problems <- MCProblems
SPECIFICATION Spec
INVARIANTS
  TypeOK
  BestSolution
PROPERTIES
  Solves
  Converges
