CONSTANTS
  BUFLENRCV = 6
  Lengths <- ShortLengths
  Terminators <- OnlyLF
  MaxLines = 4
SPECIFICATION Spec
INVARIANTS
  TypeOK
  LineWithinBuffer
PROPERTIES
  ImplementsLines
