CONSTANTS
  NULL = NULL
  Name <- MCName
  Method <- MCMethod
  Node <- MCNode
  Modules <- AllModules
SPECIFICATION Spec
INVARIANTS
  TypeOK
  ExitMarkerAlone
  UniqueValueContexts
  PendingIsScheduled
  CallersInverse
  CallersCall
  EdgesRespected
  SolutionIfCallsApart
  ExitCoversIfBranchesReturn
  AbortsOnlyIfUndefined
PROPERTIES
  KeepsPromise
  ValuesDescend
  Termination
