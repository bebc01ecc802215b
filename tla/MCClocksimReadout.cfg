CONSTANTS
  NDown = 3
  NRow = 2
  NPixel = 4
SPECIFICATION Spec
PROPERTY EveryReadoutHasRows
