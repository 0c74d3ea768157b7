------------------------------- MODULE Browse -------------------------------
(***************************************************************************)
(* gtkdudlc's lists (src/gtk): the browse window, whose album list follows *)
(* the selected artist and whose track list follows the selected album;    *)
(* the search window; the queue and the tracks and albums of what is       *)
(* played; and the commands on what is selected in them.                   *)
(*                                                                         *)
(* GTK is external.  It keeps each view's selection, which a new model     *)
(* empties, and emits "changed"; a foreach over a selection ends when rows *)
(* of the model come or go under it.  Every request may dispatch           *)
(* broadcasts (module Gtk says how) before it returns.  A list may be      *)
(* whole, a prefix when the connection was lost under it, or missing,      *)
(* which a view shows as empty (module Lists says when).                   *)
(***************************************************************************)
EXTENDS Integers, FiniteSets, SequencesExt

CONSTANTS
  Artists,      \* ids of the artists
  AlbumArtist,  \* the artist of each album
  TrackAlbum,   \* the album of each track, and
  TrackArtist,  \* its artist, which need not be the album's
  EntryTrack,   \* the track of what may be in the queue
  MaxLists      \* bound: lists filled at a time, the browse window aside

ASSUME BrowseAssumption ==
  /\ \A S \in {Artists, DOMAIN AlbumArtist, DOMAIN TrackAlbum, DOMAIN EntryTrack} :
       IsFiniteSet(S) /\ S \subseteq Nat
  /\ DOMAIN TrackArtist = DOMAIN TrackAlbum /\ MaxLists \in Nat

VARIABLES
  open,    \* there is a browse window (bound: one)
  view,    \* of each list: [rows, sel, one, any], the last two its actions' sensitivity
  pc,      \* "main", "select", "call", "done", "dead"
  want,    \* what browse_window has still to select: [list, id]
  from,    \* the list whose selection a command is about
  wanted,  \* the requests for what was selected in it, in the view's order
  asked,   \* those made
  touched  \* rows of that list came or went under the command

command == <<from, wanted, asked, touched>>
vars == <<open, view, pc, want, command>>

\* The lists of the browse window, those of what is played, and all but the
\* browse window's.
Browsing == {"artists", "albums", "tracks"}
Current == {"curtracks", "curalbums"}
Others == Current \cup {"search", "queue"}

Blank == [rows |-> <<>>, sel |-> {}, one |-> FALSE, any |-> FALSE]

Idle == from = "" /\ wanted = <<>> /\ asked = <<>> /\ touched = FALSE

Lists == Browsing \cup Others

Init ==
  /\ open = FALSE /\ view = [v \in Lists |-> Blank]
  /\ pc = "main" /\ want = <<>> /\ Idle

(***************************************************************************)
(* Lists the server sends, and what becomes of them.                       *)
(***************************************************************************)
InOrder(S) == SetToSortSeq(S, <)
Fetched(S) == {<<>>} \cup {SubSeq(InOrder(S), 1, n) : n \in 1 .. Cardinality(S)}

albumsartist(artists) == {a \in DOMAIN AlbumArtist : AlbumArtist[a] \in artists}
tracksalbum(albums) == {t \in DOMAIN TrackAlbum : TrackAlbum[t] \in albums}

\* The handlers of "changed", as far as they set the actions' sensitivity.
selection_on_change(rows, sel) ==
  [rows |-> rows, sel |-> sel, one |-> Cardinality(sel) = 1, any |-> sel # {}]

populated(rows) == selection_on_change(rows, {})
removed(w, n) == selection_on_change(RemoveAt(w.rows, n), w.sel \ {w.rows[n]})
added(w, id) == [w EXCEPT !.rows = Append(@, id)]
cleared == populated(<<>>)

\* Two do more: the list below is replaced, by an empty one when nothing is
\* selected or the request failed.  An album list that is replaced has nothing
\* selected, so its handler runs inside.  They enable the actions by id >= 0, in
\* these lists of at most one selected row the same as exactly one.
browse_artist_select_on_change(vw) ==
  {[vw EXCEPT !["albums"] = populated(list), !["tracks"] = cleared] :
     list \in Fetched(albumsartist(vw["artists"].sel))}
browse_album_select_on_change(vw) ==
  {[vw EXCEPT !["tracks"] = populated(list)] :
     list \in Fetched(tracksalbum(vw["albums"].sel))}

KeptOnFailure(vw, v) ==
  IF v = "artists" THEN {vw} \cup browse_artist_select_on_change(vw)
  ELSE IF v = "albums" THEN {vw} \cup browse_album_select_on_change(vw) ELSE {vw}
Followed(vw, v) ==
  IF v = "artists" THEN browse_artist_select_on_change(vw)
  ELSE IF v = "albums" THEN browse_album_select_on_change(vw) ELSE {vw}

Selected(v, S) ==
  view' \in Followed([view EXCEPT ![v] = selection_on_change(@.rows, S)], v)

(***************************************************************************)
(* Broadcasts, in the main loop or under a request.                        *)
(***************************************************************************)
Dispatching == pc \in {"main", "call"}

\* The queue's ids are collected before the first is asked for; every other
\* command is called for a row by the foreach itself.
Never(list) == FALSE
Collected(list) == list = "queue"

\* vw replaces the views; rows of the lists in which came or went.
Replace(which, vw) ==
  /\ view' = vw
  /\ touched' = (touched \/ (pc = "call" /\ from \in which /\ ~Collected(from)))
  /\ UNCHANGED <<open, pc, want, from, wanted, asked>>

Filled(lists) == {v \in lists : view[v].rows # <<>>}
Clear(lists) ==
  Replace(Filled(lists), [v \in Lists |-> IF v \in lists THEN cleared ELSE view[v]])

ev_stopped == Dispatching /\ Clear(Current)
ev_queueclear == Dispatching /\ Clear({"queue"})
ev_disc == Dispatching /\ Clear(Current \cup {"queue"})

Room(lists) == Cardinality(Filled(Others \ lists)) + Cardinality(lists) <= MaxLists

ev_queueadd ==
  /\ Dispatching /\ Room({"queue"})
  /\ \E e \in DOMAIN EntryTrack \ ToSet(view["queue"].rows) :
       Replace({"queue"}, [view EXCEPT !["queue"] = added(@, e)])

\* ev_queuefetch, and ev_queuedel; one row has the id.
ev_queuedel ==
  /\ Dispatching
  /\ \E n \in 1 .. Len(view["queue"].rows) :
       Replace({"queue"}, [view EXCEPT !["queue"] = removed(@, n)])

ev_conn ==
  /\ Dispatching /\ Room({"queue"})
  /\ \E S \in SUBSET DOMAIN EntryTrack : \E list \in Fetched(S) :
       Replace({"queue"}, [view EXCEPT !["queue"] = populated(list)])

\* A list that could not be read leaves the view as it was.
refreshed(tracks, albums, failed) ==
  [v \in Lists |-> IF v \notin Current \ failed THEN view[v]
                   ELSE populated(IF v = "curtracks" THEN tracks ELSE albums)]

detail_update_idle ==
  /\ pc = "main" /\ Room(Current)
  /\ \E t \in DOMAIN TrackAlbum, failed \in SUBSET Current :
     \E tracks \in Fetched(tracksalbum({TrackAlbum[t]})),
        albums \in Fetched(albumsartist({TrackArtist[t]})) :
       Replace({}, refreshed(tracks, albums, failed))

(***************************************************************************)
(* The user selects, searches, and opens and closes browse windows.        *)
(***************************************************************************)
Select ==
  /\ pc = "main"
  /\ \E v \in Lists : \E S \in SUBSET ToSet(view[v].rows) :
       /\ S # view[v].sel
       /\ v \in {"artists", "albums"} => Cardinality(S) <= 1
       /\ Selected(v, S)
  /\ UNCHANGED <<open, pc, want, command>>

search_button_on_click ==
  /\ pc = "main" /\ Room({"search"})
  /\ \E S \in SUBSET DOMAIN TrackAlbum : \E list \in Fetched(S) :
       view' = [view EXCEPT !["search"] = populated(list)]
  /\ UNCHANGED <<open, pc, want, command>>

\* browse_window, up to where it selects what it was given.
browse_window(artist, below) ==
  /\ ~open /\ open' = TRUE
  /\ \E list \in Fetched(Artists) : view' = [view EXCEPT !["artists"] = populated(list)]
  /\ want' = <<[list |-> "artists", id |-> artist]>> \o below /\ pc' = "select"
  /\ UNCHANGED command

BrowseTrack(artist, track) ==
  browse_window(artist, <<[list |-> "albums", id |-> TrackAlbum[track]],
                          [list |-> "tracks", id |-> track]>>)

\* path is not initialised: when a list that is not empty lacks the row, it is
\* whatever the stack held.
tree_view_select ==
  /\ pc = "select"
  /\ LET v == Head(want).list
         row == Head(want).id
         rest == IF Len(want) = 1 THEN "main" ELSE "select"
     IN \/ /\ row \in ToSet(view[v].rows) /\ Selected(v, {row}) /\ pc' = rest
        \/ /\ row \notin ToSet(view[v].rows) /\ pc' = rest /\ UNCHANGED view
        \/ /\ row \notin ToSet(view[v].rows) /\ view[v].rows # <<>>
           /\ pc' = "dead" /\ UNCHANGED view
  /\ want' = Tail(want) /\ UNCHANGED <<open, command>>

\* Without a current track there is nothing to dereference.
open_browse ==
  /\ pc = "main"
  /\ \/ \E t \in DOMAIN TrackAlbum : BrowseTrack(AlbumArtist[TrackAlbum[t]], t)
     \/ pc' = "dead" /\ UNCHANGED <<open, view, want, command>>

\* The queue's, the search window's and the current tracks' act_browse go by
\* the artist of the track, that of the current albums by the album's.
act_browse ==
  /\ pc = "main"
  /\ \E v \in Others : view[v].one /\ \E id \in view[v].sel :
       CASE v = "queue" -> BrowseTrack(TrackArtist[EntryTrack[id]], EntryTrack[id])
         [] v = "curalbums" -> browse_window(AlbumArtist[id], <<[list |-> "albums", id |-> id]>>)
         [] OTHER -> BrowseTrack(TrackArtist[id], id)

act_close ==
  /\ pc = "main" /\ open /\ open' = FALSE
  /\ view' = [v \in Lists |-> IF v \in Browsing THEN Blank ELSE view[v]]
  /\ UNCHANGED <<pc, want, command>>

Restart ==
  /\ pc = "dead" /\ pc' = "main" /\ open' = FALSE /\ want' = <<>>
  /\ view' = [v \in Lists |-> Blank] /\ UNCHANGED command

(***************************************************************************)
(* Commands on a selection: a request for each row, whatever becomes of    *)
(* the one before.                                                         *)
(***************************************************************************)
\* The id a row stands for: queueing the album of a track asks for its album.
Target(v, cmd, row) ==
  IF cmd = "queuealbum" /\ v \in {"curtracks", "search"} THEN TrackAlbum[row] ELSE row

Begin(v, cmd) ==
  LET rows == SelectSeq(view[v].rows, LAMBDA row : row \in view[v].sel) IN
  /\ pc = "main" /\ rows # <<>> /\ pc' = "call"
  /\ from' = v /\ touched' = FALSE
  /\ wanted' = [n \in DOMAIN rows |-> <<cmd, Target(v, cmd, rows[n])>>]
  /\ asked' = SubSeq(wanted', 1, 1)
  /\ UNCHANGED <<open, view, want>>

act_queuetrack ==
  \E v \in {"tracks", "curtracks", "search"} : view[v].any /\ Begin(v, "queueadd")
act_queuealbum ==
  \E v \in {"albums", "curalbums", "curtracks", "search"} :
    view[v].one /\ Begin(v, "queuealbum")
\* Also on the Delete key, for which nobody asks the sensitivity.
queue_list_select_deltrack == Begin("queue", "queuedel")

Each ==
  /\ pc = "call"
  /\ \/ /\ ~touched /\ asked # wanted
        /\ asked' = SubSeq(wanted, 1, Len(asked) + 1) /\ UNCHANGED pc
     \/ /\ touched \/ asked = wanted
        /\ pc' = "done" /\ UNCHANGED asked
  /\ UNCHANGED <<open, view, want, from, wanted, touched>>

EachDone ==
  /\ pc = "done" /\ pc' = "main"
  /\ from' = "" /\ wanted' = <<>> /\ asked' = <<>> /\ touched' = FALSE
  /\ UNCHANGED <<open, view, want>>

Broadcast ==
  ev_stopped \/ ev_disc \/ ev_queueclear \/ ev_queueadd \/ ev_queuedel \/ ev_conn
User ==
  \/ Select \/ search_button_on_click \/ open_browse \/ act_browse \/ act_close \/ Restart
  \/ act_queuetrack \/ act_queuealbum \/ queue_list_select_deltrack

Next == Broadcast \/ User \/ detail_update_idle \/ tree_view_select \/ Each \/ EachDone
Spec == Init /\ [][Next]_vars

(***************************************************************************)
(* Properties.                                                             *)
(***************************************************************************)
\* Whatever was selected, listed in part or lost before, the albums shown in
\* the browse window are the selected artist's and the tracks those of the
\* selected album; below nothing selected there is nothing.
BrowseFollows ==
  /\ view["albums"].rows \in Fetched(albumsartist(view["artists"].sel))
  /\ view["tracks"].rows \in Fetched(tracksalbum(view["albums"].sel))

\* "unqueue selected tracks" (queuewin.c:103) asks for each of them, although
\* the broadcasts about the first ones take rows out of the list; so do the
\* other commands, unless a broadcast cleared the list in their middle, which
\* only happens to the current tracks and albums.
SelectionHandled ==
  pc = "done" => IF touched THEN from \in Current ELSE asked = wanted
=============================================================================
