\* Three layers of every kind, three times something given
CONSTANTS
  Depth = 3
  MaxItems = 3
SPECIFICATION FairSpec
INVARIANTS ErrorsAreWhole OneCallPerError
PROPERTIES PromiseKept EverythingFetched
