CONSTANTS
  Half = 8
  MaxDepth = 17
  None = None
SPECIFICATION Spec
INVARIANTS
  TypeOK
  Correct
  DepthBounded
PROPERTIES
  Returns
