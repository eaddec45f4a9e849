SPECIFICATION HmacSpec
CONSTANTS
  LaneSz = 2
  Stacks <- MCStacks
  Keys <- MCKeys
  TextChunks <- MCChunks
  MaxText = 4
  NONE = NONE
INVARIANTS HmacTypeOK MacIsFormula
