CONSTANTS
  Names <- MCNames
  Texts <- MCTexts
SPECIFICATION Spec
INVARIANTS IInv AcceptsParsed NodesOwned EofConsumedOnce DiagnosticsTrue
PROPERTY ImplementsGrammar
CHECK_DEADLOCK FALSE
