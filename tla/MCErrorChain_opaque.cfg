\* OpaqueExposesAll: the documentation and the code disagree
CONSTANTS
  Shape <- MCShape
  MaxDepth = 2
SPECIFICATION Spec
INVARIANTS OpaqueExposesAll
CHECK_DEADLOCK FALSE
