CONSTANTS
  Items <- MCItems
  MaxParts = 3
SPECIFICATION Spec
INVARIANTS RejectedForCause EveryPartHeard NamesAsDocumented ReachesAsWritten ArgumentsMatch
