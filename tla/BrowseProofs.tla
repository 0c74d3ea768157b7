---------------------------- MODULE BrowseProofs ----------------------------
(* What TLAPS proves of gtkdudlc's lists, for every archive and queue.       *)
EXTENDS Browse, FiniteSetTheorems, SequenceTheorems, TLAPS

(***************************************************************************)
(* A command on a selection.                                               *)
(***************************************************************************)
\* Only the current tracks and albums change under their own command, and no
\* other command ends early.
Handling ==
  /\ touched \in BOOLEAN
  /\ pc \in {"call", "done"} /\ touched => from \in Current
  /\ pc = "done" => touched \/ asked = wanted

\* Broadcasts replace rows of these lists only.
LEMMA Replacing ==
  ASSUME NEW lists \in SUBSET (Current \cup {"queue"}), NEW vw, Dispatching, Handling,
         Replace(lists, vw)
  PROVE  Handling'
BY DEF Replace, Handling, Dispatching, Collected, Current

LEMMA Clearing ==
  ASSUME NEW lists \in SUBSET (Current \cup {"queue"}), Dispatching, Handling, Clear(lists)
  PROVE  Handling'
<1> DEFINE vw == [v \in Lists |-> IF v \in lists THEN cleared ELSE view[v]]
<1>1. Filled(lists) \in SUBSET (Current \cup {"queue"})
  BY DEF Filled
<1>2. Replace(Filled(lists), vw)
  BY DEF Clear
<1> HIDE DEF vw
<1> QED BY <1>1, <1>2, Replacing

LEMMA BroadcastHandled == Handling /\ Broadcast => Handling'
<1> SUFFICES ASSUME Handling, Broadcast PROVE Handling'
  OBVIOUS
<1>1. CASE ev_stopped BY <1>1, Clearing DEF ev_stopped
<1>2. CASE ev_disc BY <1>2, Clearing DEF ev_disc
<1>3. CASE ev_queueclear BY <1>3, Clearing DEF ev_queueclear
<1>4. CASE ev_queueadd
  <2> PICK e : Replace({"queue"}, [view EXCEPT !["queue"] = added(@, e)])
    BY <1>4 DEF ev_queueadd
  <2> QED BY <1>4, Replacing DEF ev_queueadd
<1>5. CASE ev_queuedel
  <2> PICK n : Replace({"queue"}, [view EXCEPT !["queue"] = removed(@, n)])
    BY <1>5 DEF ev_queuedel
  <2> QED BY <1>5, Replacing DEF ev_queuedel
<1>6. CASE ev_conn
  <2> PICK list : Replace({"queue"}, [view EXCEPT !["queue"] = populated(list)])
    BY <1>6 DEF ev_conn
  <2> QED BY <1>6, Replacing DEF ev_conn
<1> QED BY <1>1, <1>2, <1>3, <1>4, <1>5, <1>6 DEF Broadcast

LEMMA UserHandled == Handling /\ User => Handling'
<1> SUFFICES ASSUME Handling, User PROVE Handling'
  OBVIOUS
<1> USE DEF Handling, command
<1>1. CASE Select BY <1>1 DEF Select
<1>2. CASE search_button_on_click BY <1>2 DEF search_button_on_click
<1>3. CASE open_browse BY <1>3 DEF open_browse, BrowseTrack, browse_window
<1>4. CASE act_browse BY <1>4 DEF act_browse, BrowseTrack, browse_window
<1>5. CASE act_close BY <1>5 DEF act_close
<1>6. CASE Restart BY <1>6 DEF Restart
<1>7. CASE act_queuetrack BY <1>7 DEF act_queuetrack, Begin
<1>8. CASE act_queuealbum BY <1>8 DEF act_queuealbum, Begin
<1>9. CASE queue_list_select_deltrack BY <1>9 DEF queue_list_select_deltrack, Begin
<1> QED BY <1>1, <1>2, <1>3, <1>4, <1>5, <1>6, <1>7, <1>8, <1>9 DEF User

(***************************************************************************)
(* A command on a selection reaches every row of it, unless a broadcast    *)
(* cleared its list, and then it was one about what is played              *)
(* (gtk/queue.c:38, gtk/track.c:55, gtk/album.c:41).                       *)
(***************************************************************************)
THEOREM AllHandled == Spec => []SelectionHandled
<1>1. Init => Handling
  BY DEF Init, Idle, Handling
<1>2. Handling /\ [Next]_vars => Handling'
  <2> SUFFICES ASSUME Handling, [Next]_vars PROVE Handling'
    OBVIOUS
  <2>1. CASE Broadcast BY <2>1, BroadcastHandled
  <2>2. CASE User BY <2>2, UserHandled
  <2>3. CASE detail_update_idle BY <2>3 DEF detail_update_idle, Replace, Handling
  <2>4. CASE tree_view_select BY <2>4 DEF tree_view_select, Handling, command
  <2>5. CASE Each BY <2>5 DEF Each, Handling
  <2>6. CASE EachDone BY <2>6 DEF EachDone, Handling
  <2>7. CASE UNCHANGED vars BY <2>7 DEF vars, command, Handling
  <2> QED BY <2>1, <2>2, <2>3, <2>4, <2>5, <2>6, <2>7 DEF Next
<1>3. Handling => SelectionHandled
  BY DEF Handling, SelectionHandled
<1> QED BY <1>1, <1>2, <1>3, PTL DEF Spec

(***************************************************************************)
(* What the browse window shows.                                           *)
(***************************************************************************)
\* Without a window its lists are empty, and so nothing in them is selected.
Shape ==
  /\ view = [v \in Lists |-> view[v]]
  /\ pc = "select" => open
  /\ ~open => \A v \in Browsing : view[v] = Blank

LEMMA Names == Browsing \subseteq Lists /\ Others \subseteq Lists /\ Browsing \cap Others = {}
BY DEF Browsing, Others, Current, Lists

LEMMA NoneFetched == \A S : <<>> \in Fetched(S)
BY DEF Fetched

\* Lists other than the browse window's may become anything.
LEMMA Elsewhere ==
  ASSUME Shape, BrowseFollows,
         view' = [v \in Lists |-> view'[v]], \A v \in Browsing : view'[v] = view[v],
         open' = open, pc' = "select" => pc = "select"
  PROVE  Shape' /\ BrowseFollows'
BY Names DEF Shape, BrowseFollows, Browsing

\* After a selection, what is below is replaced.
LEMMA Selecting ==
  ASSUME Shape, BrowseFollows, NEW v, NEW S, Selected(v, S),
         open' = open, pc' = "select" => pc = "select",
         ~open => v \notin Browsing
  PROVE  Shape' /\ BrowseFollows'
<1> DEFINE x == selection_on_change(view[v].rows, S)
           vw == [view EXCEPT ![v] = x]
<1>1. x.rows = view[v].rows /\ x.sel = S
  BY DEF selection_on_change
<1>2. view' \in Followed(vw, v)
  BY DEF Selected
<1> HIDE DEF x
<1>3. /\ v \in Lists => vw[v] = x
      /\ vw = [k \in Lists |-> vw[k]] /\ \A l \in Lists \ {v} : vw[l] = view[l]
  BY DEF Shape
<1> HIDE DEF vw
<1> USE Names DEF Browsing
<1>4. CASE v = "artists"
  <2>1. PICK list \in Fetched(albumsartist(vw["artists"].sel)) :
          view' = [vw EXCEPT !["albums"] = populated(list), !["tracks"] = cleared]
    BY <1>2, <1>4 DEF Followed, browse_artist_select_on_change
  <2>2. /\ view' = [k \in Lists |-> view'[k]]
        /\ view'["albums"] = populated(list) /\ view'["tracks"] = cleared
        /\ view'["artists"] = vw["artists"]
    BY <2>1, <1>3
  <2>3. /\ populated(list).rows = list /\ populated(list).sel = {} /\ cleared.rows = <<>>
    BY DEF populated, cleared, selection_on_change
  <2> QED BY <1>4, <2>2, <2>3, NoneFetched DEF Shape, BrowseFollows
<1>5. CASE v = "albums"
  <2>1. PICK list \in Fetched(tracksalbum(vw["albums"].sel)) :
          view' = [vw EXCEPT !["tracks"] = populated(list)]
    BY <1>2, <1>5 DEF Followed, browse_album_select_on_change
  <2>2. /\ view' = [k \in Lists |-> view'[k]]
        /\ view'["tracks"] = populated(list)
        /\ view'["albums"] = x /\ view'["artists"] = view["artists"]
    BY <2>1, <1>3, <1>5
  <2>3. populated(list).rows = list
    BY DEF populated, selection_on_change
  <2> QED BY <1>1, <1>3, <1>5, <2>2, <2>3 DEF Shape, BrowseFollows
<1>6. CASE v \notin {"artists", "albums"}
  <2>1. view' = vw
    BY <1>2, <1>6 DEF Followed
  <2>2. /\ view'["artists"] = view["artists"] /\ view'["albums"] = view["albums"]
        /\ view'["tracks"].rows = view["tracks"].rows
        /\ v \notin Browsing => view'["tracks"] = view["tracks"]
    BY <2>1, <1>1, <1>3, <1>6
  <2> QED BY <2>1, <2>2, <1>3 DEF Shape, BrowseFollows
<1> QED BY <1>4, <1>5, <1>6

LEMMA ReplacingElsewhere ==
  ASSUME Shape, BrowseFollows, NEW which, NEW vw, Replace(which, vw),
         vw = [v \in Lists |-> vw[v]], \A v \in Browsing : vw[v] = view[v]
  PROVE  Shape' /\ BrowseFollows'
BY Elsewhere DEF Replace

\* One list of the others is replaced.
LEMMA ReplacingOne ==
  ASSUME Shape, BrowseFollows, NEW v \in Others, NEW w, NEW which,
         Replace(which, [view EXCEPT ![v] = w])
  PROVE  Shape' /\ BrowseFollows'
<1> DEFINE vw == [view EXCEPT ![v] = w]
<1>1. vw = [k \in Lists |-> vw[k]] /\ \A k \in Browsing : vw[k] = view[k]
  BY Names DEF Shape
<1> HIDE DEF vw
<1> QED BY <1>1, ReplacingElsewhere DEF vw

LEMMA ClearingOthers ==
  ASSUME Shape, BrowseFollows, NEW lists \in SUBSET Others, Clear(lists)
  PROVE  Shape' /\ BrowseFollows'
<1> DEFINE vw == [v \in Lists |-> IF v \in lists THEN cleared ELSE view[v]]
<1>1. vw = [k \in Lists |-> vw[k]] /\ \A k \in Browsing : vw[k] = view[k]
  BY Names
<1>2. Replace(Filled(lists), vw)
  BY DEF Clear
<1> HIDE DEF vw
<1> QED BY <1>1, <1>2, ReplacingElsewhere

LEMMA BroadcastFollows == Shape /\ BrowseFollows /\ Broadcast => Shape' /\ BrowseFollows'
<1> SUFFICES ASSUME Shape, BrowseFollows, Broadcast PROVE Shape' /\ BrowseFollows'
  OBVIOUS
<1>0. Current \subseteq Others /\ "queue" \in Others
  BY DEF Others
<1>1. CASE ev_stopped BY <1>0, <1>1, ClearingOthers DEF ev_stopped
<1>2. CASE ev_disc BY <1>0, <1>2, ClearingOthers DEF ev_disc
<1>3. CASE ev_queueclear BY <1>0, <1>3, ClearingOthers DEF ev_queueclear
<1>4. CASE ev_queueadd
  <2> PICK e : Replace({"queue"}, [view EXCEPT !["queue"] = added(view["queue"], e)])
    BY <1>4 DEF ev_queueadd
  <2> QED BY <1>0, ReplacingOne
<1>5. CASE ev_queuedel
  <2> PICK n : Replace({"queue"}, [view EXCEPT !["queue"] = removed(view["queue"], n)])
    BY <1>5 DEF ev_queuedel
  <2> QED BY <1>0, ReplacingOne
<1>6. CASE ev_conn
  <2> PICK list : Replace({"queue"}, [view EXCEPT !["queue"] = populated(list)])
    BY <1>6 DEF ev_conn
  <2> QED BY <1>0, ReplacingOne
<1> QED BY <1>1, <1>2, <1>3, <1>4, <1>5, <1>6 DEF Broadcast

LEMMA IdleFollows == Shape /\ BrowseFollows /\ detail_update_idle => Shape' /\ BrowseFollows'
<1> SUFFICES ASSUME Shape, BrowseFollows, detail_update_idle PROVE Shape' /\ BrowseFollows'
  OBVIOUS
<1>1. \E tracks, albums, failed : Replace({}, refreshed(tracks, albums, failed))
  BY DEF detail_update_idle
<1>2. PICK tracks, albums, failed : Replace({}, refreshed(tracks, albums, failed))
  BY <1>1
<1> DEFINE vw == refreshed(tracks, albums, failed)
<1>3. vw = [k \in Lists |-> vw[k]] /\ \A k \in Browsing : vw[k] = view[k]
  BY Names DEF Others, refreshed
<1> HIDE DEF vw
<1> QED BY <1>2, <1>3, ReplacingElsewhere DEF vw

\* A new window: its artists are listed, nothing is selected.
LEMMA Opening ==
  ASSUME Shape, BrowseFollows, NEW artist, NEW below, browse_window(artist, below)
  PROVE  Shape' /\ BrowseFollows'
<1>1. PICK list : view' = [view EXCEPT !["artists"] = populated(list)]
  BY DEF browse_window
<1>2. ~open /\ open'
  BY DEF browse_window
<1>3. /\ view' = [k \in Lists |-> view'[k]] /\ view'["artists"] = populated(list)
      /\ view'["albums"] = Blank /\ view'["tracks"] = Blank
  BY <1>1, <1>2, Names DEF Shape, Browsing
<1> QED BY <1>2, <1>3, NoneFetched DEF Shape, BrowseFollows, Blank, populated, selection_on_change

LEMMA UserFollows == Shape /\ BrowseFollows /\ User => Shape' /\ BrowseFollows'
<1> SUFFICES ASSUME Shape, BrowseFollows, User PROVE Shape' /\ BrowseFollows'
  OBVIOUS
<1>1. CASE Select
  <2>0. PICK v \in Lists : \E S \in SUBSET ToSet(view[v].rows) :
          S # view[v].sel /\ Selected(v, S)
    BY <1>1 DEF Select
  <2>1. PICK S \in SUBSET ToSet(view[v].rows) : S # view[v].sel /\ Selected(v, S)
    BY <2>0
  <2>2. ~open => v \notin Browsing
    <3> SUFFICES ASSUME ~open, v \in Browsing PROVE FALSE
      OBVIOUS
    <3>1. view[v].rows = <<>> /\ view[v].sel = {}
      BY DEF Shape, Blank
    <3>2. ToSet(view[v].rows) = {}
      BY <3>1 DEF ToSet
    <3> QED BY <2>1, <3>1, <3>2
  <2> QED BY <1>1, <2>1, <2>2, Selecting DEF Select
<1>2. CASE search_button_on_click
  <2>1. PICK list : view' = [view EXCEPT !["search"] = populated(list)]
    BY <1>2 DEF search_button_on_click
  <2>2. view' = [k \in Lists |-> view'[k]] /\ \A k \in Browsing : view'[k] = view[k]
    BY <2>1, Names DEF Shape, Others
  <2> QED BY <1>2, <2>2, Elsewhere DEF search_button_on_click
<1>3. CASE open_browse BY <1>3, Opening, Elsewhere DEF open_browse, BrowseTrack, Shape
<1>4. CASE act_browse
  <2>1. \E artist, below : browse_window(artist, below)
    BY <1>4 DEF act_browse, BrowseTrack
  <2> QED BY <2>1, Opening
<1>5. CASE act_close
  <2>1. /\ view' = [k \in Lists |-> view'[k]] /\ \A k \in Browsing : view'[k] = Blank
        /\ ~open' /\ pc' # "select"
    BY <1>5, Names DEF act_close
  <2> QED BY <2>1, NoneFetched DEF Shape, BrowseFollows, Browsing, Blank
<1>6. CASE Restart
  <2>1. /\ view' = [k \in Lists |-> view'[k]] /\ \A k \in Browsing : view'[k] = Blank
        /\ ~open' /\ pc' # "select"
    BY <1>6, Names DEF Restart
  <2> QED BY <2>1, NoneFetched DEF Shape, BrowseFollows, Browsing, Blank
<1>7. CASE act_queuetrack BY <1>7, Elsewhere DEF act_queuetrack, Begin, Shape
<1>8. CASE act_queuealbum BY <1>8, Elsewhere DEF act_queuealbum, Begin, Shape
<1>9. CASE queue_list_select_deltrack
  BY <1>9, Elsewhere DEF queue_list_select_deltrack, Begin, Shape
<1> QED BY <1>1, <1>2, <1>3, <1>4, <1>5, <1>6, <1>7, <1>8, <1>9 DEF User

LEMMA SelectFollows == Shape /\ BrowseFollows /\ tree_view_select => Shape' /\ BrowseFollows'
<1> SUFFICES ASSUME Shape, BrowseFollows, tree_view_select PROVE Shape' /\ BrowseFollows'
  OBVIOUS
<1>1. open /\ open' = open /\ pc = "select"
  BY DEF tree_view_select, Shape
<1>2. CASE UNCHANGED view BY <1>1, <1>2, Elsewhere DEF Shape
<1>3. CASE Selected(Head(want).list, {Head(want).id})
  BY <1>1, <1>3, Selecting
<1> QED BY <1>2, <1>3 DEF tree_view_select

(***************************************************************************)
(* The browse window never shows albums or tracks of anything but the      *)
(* selection above them (gtk/browse.c:32, 54), even when a list was cut    *)
(* short or could not be had.                                              *)
(***************************************************************************)
THEOREM WindowFollows == Spec => []BrowseFollows
<1>1. Init => Shape /\ BrowseFollows
  BY Names, NoneFetched DEF Init, Blank, Shape, BrowseFollows, Browsing
<1>2. Shape /\ BrowseFollows /\ [Next]_vars => Shape' /\ BrowseFollows'
  <2> SUFFICES ASSUME Shape, BrowseFollows, [Next]_vars PROVE Shape' /\ BrowseFollows'
    OBVIOUS
  <2>1. CASE Broadcast BY <2>1, BroadcastFollows
  <2>2. CASE User BY <2>2, UserFollows
  <2>3. CASE detail_update_idle BY <2>3, IdleFollows
  <2>4. CASE tree_view_select BY <2>4, SelectFollows
  <2>5. CASE Each BY <2>5, Elsewhere DEF Each, Shape
  <2>6. CASE EachDone BY <2>6, Elsewhere DEF EachDone, Shape
  <2>7. CASE UNCHANGED vars BY <2>7, Elsewhere DEF vars, Shape
  <2> QED BY <2>1, <2>2, <2>3, <2>4, <2>5, <2>6, <2>7 DEF Next
<1> QED BY <1>1, <1>2, PTL DEF Spec
=============================================================================
