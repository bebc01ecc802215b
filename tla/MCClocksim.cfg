CONSTANTS
  NDown = 3
  NRow = 2
  NPixel = 4
SPECIFICATION HSpec
INVARIANTS CallChain CountersBelongToCalls
PROPERTIES PhaseCountsDown PlaysWaveform KeepsScanning
