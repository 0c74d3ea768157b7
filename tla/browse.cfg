CONSTANTS
  Artists <- MCArtists
  AlbumArtist <- MCAlbumArtist
  TrackAlbum <- MCTrackAlbum
  TrackArtist <- MCTrackArtist
  EntryTrack <- MCEntryTrack
  MaxLists = 2
SPECIFICATION Spec
INVARIANTS
  BrowseFollows
  SelectionHandled
