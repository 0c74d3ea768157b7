CONSTANTS
  Value <- MCValue
  Words <- MCWords
  LongWords <- MCLongWords
  Tracks <- MCTracks
  Current <- MCCurrent
  TagId <- MCTagId
  FilterId <- MCFilterId
  Programs <- MCPrograms
  Lines <- MCLines
  Sentences <- MCSentences
  Config <- MCConfig
  MaxKeys = 2
  EIO = 5
SPECIFICATION FairIrSpec
INVARIANTS
  ListsUnderstood
  QuietMeansDone
  CutEndsCommand
  FailuresAreTold
  FreedWhenAccepted
  HupHonoured
  OneKeyLate
PROPERTIES
  KeysAreRead
  LircRecovers
