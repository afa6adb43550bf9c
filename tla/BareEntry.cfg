CONSTANTS
  NULL = NULL
  Name <- MCName
  Method <- MCMethod
  Node <- MCNode
  Modules <- BareEntryModules
SPECIFICATION Spec
INVARIANTS
  ResultIsSolution
