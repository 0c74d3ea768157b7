CONSTANTS
  BUFLENRCV = 6
  Lengths <- LongLengths
  Terminators <- LFOrCRLF
  MaxLines = 3
SPECIFICATION Spec
INVARIANTS BufferOK
PROPERTIES WholeLines
\* A crashed process does nothing more.
CHECK_DEADLOCK FALSE
