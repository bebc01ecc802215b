CONSTANTS
  Readers = {"r1", "r2"}
  CB_SIZE = 4
  MaxCount = 4
  NWords = 4
  NWritten = 0
SPECIFICATION Spec
INVARIANT EachWordOnce
