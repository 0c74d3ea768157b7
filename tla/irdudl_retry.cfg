CONSTANTS
  Value <- MCValue
  Words <- MCWords
  LongWords <- MCLongWords
  Tracks <- MCTracks
  Current <- MCCurrent
  TagId <- MCTagId
  FilterId <- MCFilterId
  Programs <- MCIr
  Lines <- MCUserLines
  Sentences <- MCSentences
  Config <- MCConfig
  MaxKeys = 2
  EIO = 5
SPECIFICATION IrSpec
PROPERTIES RetriedOnce
