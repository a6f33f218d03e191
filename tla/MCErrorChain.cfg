\* Chains of up to four errors, with and without providers, cleaning, backtraces
CONSTANTS
  Shape <- MCShape
  MaxDepth = 4
SPECIFICATION Spec
INVARIANTS NothingLost NoteHolds CausesListed NoRedundantCapture FromWhereItArose DeepestThatCanBeAsked
CHECK_DEADLOCK FALSE
