\* Every stack of three layers of the four kinds
CONSTANTS
  Depth = 3
SPECIFICATION FairSpec
INVARIANTS ErrorsAreWhole ExpectHolds SpentInwards
PROPERTIES TakenForAnError PromiseKept WakeUpArrives
