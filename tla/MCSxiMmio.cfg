CONSTANTS
  Word <- MCWord
  Zero = 0
  Size = 4
  id = 1315
  BAD2 = 47826
  IrqWord = 4105
  DEAD = 57005
  NWords = 6
  MaxBeats = 3
  MinGap = 1
SPECIFICATION MmioSpec
INVARIANTS InOrder NothingLost NoReadOfEmpty PulseMeansHalfFull
PROPERTIES FullForEver ReadUnlessFull
