\* ImplicitCanBeDisabled: the documentation and the code disagree
CONSTANTS
  Declarations <- MCSingle
  MaxFields = 1
SPECIFICATION Spec
INVARIANTS ImplicitCanBeDisabled
CHECK_DEADLOCK FALSE
