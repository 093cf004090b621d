SPECIFICATION Spec
CONSTANTS
  x = x
  y = y
  z = z
  RRType <- MCRRType
  Label <- MCLabel
  OptionCode <- MCOptionCode
  OptionLeast <- MCOptionLeast
  PackLayout <- MCPackLayout
  LenLayout <- MCLenLayout
  Layout <- MCLayout
  Messages <- MCMessages
  MaxOffset = 50
  MaxRdlength = 110
  MaxText = 5
  Buffers <- MCBuffers
  Sizes = {5, 12, 13, 17, 28}
  Count = {0, 3}
  Rdlength = {0, 1, 4, 7, 60}
  MaxString = 3
  MaxLabel = 2
  MaxName = 9
  MaxPointers = 2
INVARIANTS TypeOK InBounds WorkBounded PackFits ReadsWhatWasWritten AcceptsPrefixes
PROPERTIES Progresses
CHECK_DEADLOCK FALSE
