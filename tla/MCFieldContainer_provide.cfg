\* ProvidedAsDeclared: the documentation and the code disagree
CONSTANTS
  Declarations <- MCSingle
  MaxFields = 1
SPECIFICATION Spec
INVARIANTS ProvidedAsDeclared
CHECK_DEADLOCK FALSE
