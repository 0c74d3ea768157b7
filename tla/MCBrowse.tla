------------------------------ MODULE MCBrowse ------------------------------
(* Instances of Browse: two artists, the second of whom plays on the first's *)
(* album, too.                                                               *)
EXTENDS Browse

MCArtists == {1, 2}
MCAlbumArtist == <<1, 1, 2>>
MCTrackAlbum == <<1, 1, 3>>
MCTrackArtist == <<1, 2, 2>>
MCEntryTrack == <<2, 3>>
=============================================================================
