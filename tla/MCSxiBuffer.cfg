CONSTANTS
  Readers = {"r1"}
  CB_SIZE = 4
  MaxCount = 3
  NWords = 2
  NWritten = 4
SPECIFICATION Spec
INVARIANTS CopyInsideBuffer NoneLostUncounted WriterNeverOverflows
           WriterYieldsToAwake SleeperHasWaker
PROPERTIES ImplementsQueue ReaderReturns
