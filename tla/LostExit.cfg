CONSTANTS
  NULL = NULL
  Name <- MCName
  Method <- MCMethod
  Node <- MCFourNode
  Modules <- LostExitModules
SPECIFICATION Spec
INVARIANTS
  ExitCoversTails
