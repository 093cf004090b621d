SPECIFICATION Spec
CONSTANTS
  Names <- AllTexts
  Part <- MCPart
  Kind <- MCKind
INVARIANT NeverPanics
CHECK_DEADLOCK FALSE
