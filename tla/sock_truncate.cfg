CONSTANTS
  BUFLENRCV = 6
  Lengths <- LongLengths
  Terminators <- OnlyLF
  MaxLines = 3
SPECIFICATION Spec
INVARIANTS TruncatingIsSurvived
