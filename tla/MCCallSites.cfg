CONSTANTS
  Programs <- MCPrograms
  MaxStatements = 3
SPECIFICATION Spec
INVARIANTS OwnPlace DataSeesTheSource
PROPERTIES PromiseKept
