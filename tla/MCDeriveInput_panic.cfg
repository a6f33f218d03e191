CONSTANTS
  Items <- MCPositions
  MaxParts = 3
SPECIFICATION Spec
INVARIANT ValidFormatsAccepted
