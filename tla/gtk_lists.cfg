CONSTANTS
  Tracks <- TwoTracks
  Entries <- TwoEntries
  MaxQueue = 2
  MaxEvents = 2
  MaxConns = 2
  MaxDepth = 7
  Room = 2
SPECIFICATION Spec
INVARIANTS ListsUpToDate
