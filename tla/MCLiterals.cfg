CONSTANTS
  Names <- MCNames
  Texts <- Literals
SPECIFICATION Spec
INVARIANT OverflowDiagnosed
CHECK_DEADLOCK FALSE
