CONSTANTS
  Numerals <- MCNumerals
  Replies <- MCReplies
  Broadcasts <- MCBroadcasts
SPECIFICATION Spec
INVARIANTS
  ReadBack
  CompleteOrLost
  NothingLeaks
  ReplyRead
  AlbumQueued
  EventTruth
