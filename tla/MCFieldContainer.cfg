\* Up to three fields of the kinds that interact, every single field, every selector
CONSTANTS
  Declarations <- MCDeclarations
  MaxFields = 3
SPECIFICATION Spec
INVARIANTS LiteralsAreWhole EveryFieldMatched NeverPanics
INVARIANTS RejectedForCause EveryCulpritNamed ClaimsHonoured OptOutsMatter
CHECK_DEADLOCK FALSE
