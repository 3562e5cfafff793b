CONSTANTS
  Inputs <- MCInputs
  Letters <- MCLetters
  Digits <- MCDigits
SPECIFICATION Spec
INVARIANTS TypeOK TokensTile StatementsSeparated
PROPERTY ImplementsReader
CHECK_DEADLOCK FALSE
