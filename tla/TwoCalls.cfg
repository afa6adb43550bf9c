CONSTANTS
  NULL = NULL
  Name <- MCName
  Method <- MCMethod
  Node <- MCFourNode
  Modules <- TwoCallModules
SPECIFICATION Spec
INVARIANTS
  ResultIsSolution
