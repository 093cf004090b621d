SPECIFICATION FairSpec
CONSTANTS
  Names <- ScannedTexts
  Part <- MCPart
  Kind <- MCKind
INVARIANTS TypeOK SlicesInText LeftToRight NoAddressMissed PanicsOnFirstLabel ScanReadsParts
PROPERTIES EveryRoundShrinks Terminates ScansAddresses
CHECK_DEADLOCK FALSE
