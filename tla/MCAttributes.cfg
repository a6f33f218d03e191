\* Up to three attributes in every place, up to five that exclude one another
CONSTANTS
  Items <- MCItems
  MaxAttributes = 5
SPECIFICATION Spec
INVARIANTS
  RejectedForCause EveryCulpritNamed NothingVanishes SelectorAsWritten
  MessagesHold
CHECK_DEADLOCK FALSE
