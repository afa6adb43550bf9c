CONSTANTS
  NULL = NULL
  Name <- MCName
  Method <- MCMethod
  Node <- MCNode
  Modules <- SharedSiteModules
SPECIFICATION Spec
INVARIANTS
  ResultIsSolution
