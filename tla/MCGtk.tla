------------------------------- MODULE MCGtk -------------------------------
(* Instances of Gtk. *)
EXTENDS Gtk

TwoTracks == {1, 2}
TwoEntries == {1, 2}
=============================================================================
