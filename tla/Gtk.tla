-------------------------------- MODULE Gtk --------------------------------
(***************************************************************************)
(* gtkdudlc (src/gtk): what its windows show of the player and the queue.  *)
(*                                                                         *)
(* Handlers run wherever the library dispatches a broadcast or notices     *)
(* that the connection opened or closed: in the GLib watch, but also while *)
(* another handler waits for a reply.  As in module Session the C stack is *)
(* a variable; the session below a request is cut down to what the windows *)
(* can tell apart: refused while a reply is read, opened on demand, lost.  *)
(*                                                                         *)
(* The server is not part of the repository: it answers in order, and      *)
(* tells every client what changes, between the lines of a list too.       *)
(***************************************************************************)
EXTENDS Integers, Sequences, SequencesExt

CONSTANTS
  Tracks,      \* what the player may play, and
  Entries,     \* what the queue may hold; positive numbers
  MaxQueue,    \* bound: entries in the queue
  MaxEvents,   \* bound: changes at the server
  MaxConns,    \* bound: connections made
  MaxDepth,    \* bound: calls on the stack when a request opens a connection
  Room         \* bound: lines in flight

ASSUME GtkAssumption ==
  /\ Tracks \subseteq Nat \ {0} /\ Entries \subseteq Nat \ {0}
  /\ {MaxQueue, MaxEvents, MaxConns, MaxDepth, Room} \subseteq Nat

VARIABLES
  \* dudld
  queue,     \* the queue
  track,     \* the track played, 0 when stopped
  status,    \* "stop", "play", "pause"
  events,    \* changes so far
  \* the session
  link,      \* "down", "live", "gone": the server has hung up
  conns,     \* connections so far
  owed,      \* the request the server has to answer, or "none"
  answer,    \* the lines of its answer that are not sent
  net,       \* lines on their way
  inreply,   \* a reply is being read
  got,       \* the lines of it read so far
  \* gtkdudlc
  watches,   \* GLib watches on the descriptor
  view,      \* what the windows show, below
  lapses,    \* what became of the queue window's last list, below
  cur,       \* the track detail_update_idle has asked for
  pc, req,   \* place in the running function, and the request it waits for
  ret,       \* what the request that just returned gave
  stk        \* where the callers resume: [at, req, ret]

server == <<queue, track, status, events>>
session == <<link, conns, owed, answer, net, inreply, got>>
windows == <<watches, view, lapses, cur>>
ctl == <<pc, req, ret, stk>>
vars == <<server, session, windows, ctl>>

\* needupdate counts, but is only compared with 0; idles are the idle calls
\* asked for.  curtracks and curalbums are known by the track they belong to.
Blank == [buttons |-> "offline", title |-> 0, slider |-> 0, win |-> <<>>,
          needupdate |-> FALSE, idles |-> 0, curtracks |-> 0, curalbums |-> 0]

Up == link # "down"
Failed == <<>>
Cut == -1   \* marks a list that the loss of its connection cut short

Init ==
  /\ queue \in {<<>>} \cup {<<e>> : e \in Entries} /\ events = 0
  /\ \/ track = 0 /\ status = "stop"
     \/ track \in Tracks /\ status \in {"play", "pause"}
  /\ link = "down" /\ conns = 0 /\ owed = "none" /\ answer = <<>> /\ net = <<>>
  /\ inreply = FALSE /\ got = <<>>
  /\ watches = 0 /\ view = Blank /\ lapses = {} /\ cur = 0
  /\ pc = "main" /\ req = "none" /\ ret = Failed /\ stk = <<>>

(***************************************************************************)
(* The server.                                                             *)
(***************************************************************************)
Tell(name, val) ==
  /\ events < MaxEvents /\ events' = events + 1
  /\ net' = IF link = "live" THEN Append(net, [kind |-> name, val |-> val]) ELSE net
  /\ link = "live" => Len(net) < Room

ServerChanges ==
  /\ \/ /\ \E t \in Tracks \ {track} :
             track' = t /\ status' = "play" /\ Tell("nexttrack", t)
        /\ UNCHANGED queue
     \/ /\ track # 0 /\ track' = 0 /\ status' = "stop" /\ Tell("stopped", 0)
        /\ UNCHANGED queue
     \/ /\ status = "play" /\ status' = "pause" /\ Tell("paused", 0)
        /\ UNCHANGED <<queue, track>>
     \/ /\ status = "pause" /\ status' = "play" /\ Tell("resumed", 0)
        /\ UNCHANGED <<queue, track>>
     \/ /\ track # 0 /\ link = "live" /\ Tell("elapsed", 1)
        /\ UNCHANGED <<queue, track, status>>
     \/ /\ Len(queue) < MaxQueue
        /\ \E e \in Entries \ ToSet(queue) :
             queue' = Append(queue, e) /\ Tell("queueadd", e)
        /\ UNCHANGED <<track, status>>
     \/ /\ \E i \in 1 .. Len(queue) : \E name \in {"queuefetch", "queuedel"} :
             /\ name = "queuefetch" => i = 1
             /\ queue' = RemoveAt(queue, i) /\ Tell(name, queue[i])
        /\ UNCHANGED <<track, status>>
     \/ /\ queue # <<>> /\ queue' = <<>> /\ Tell("queueclear", 0)
        /\ UNCHANGED <<track, status>>
  /\ UNCHANGED <<link, conns, owed, answer, inreply, got, windows, ctl>>

\* The lines of an answer: a list has one for each entry, or an empty one.
Lines(r) ==
  CASE r = "status" -> <<status>>
    [] r = "curtrack" -> <<track>>
    [] r = "queuelist" -> IF queue = <<>> THEN <<0>> ELSE queue
    [] OTHER -> <<"ok">>

\* The answer is what holds when the server begins it.
ServerAnswers ==
  /\ link = "live" /\ (owed # "none" \/ answer # <<>>) /\ Len(net) < Room
  /\ LET lines == IF owed # "none" THEN Lines(owed) ELSE answer IN
       /\ net' = Append(net, [kind |-> IF Len(lines) = 1 THEN "last" ELSE "line",
                              val |-> Head(lines)])
       /\ answer' = Tail(lines)
  /\ owed' = "none"
  /\ UNCHANGED <<server, link, conns, inreply, got, windows, ctl>>

ServerHangsUp ==
  /\ link = "live" /\ link' = "gone" /\ owed' = "none" /\ answer' = <<>>
  /\ \E n \in 0 .. Len(net) : net' = SubSeq(net, 1, n)
  /\ UNCHANGED <<server, conns, inreply, got, windows, ctl>>

(***************************************************************************)
(* The windows.                                                            *)
(***************************************************************************)
\* A new adjustment puts the slider back to 0 without a signal.
playbox_detail_update(v, t) == [v EXCEPT !.title = t, !.slider = 0]
detail_update(v, t) ==
  [playbox_detail_update(v, t) EXCEPT !.needupdate = TRUE, !.idles = @ + 1]

\* The slider is put back with one, when it has to move: Jumps.
playbox_detail_clear(v) == [v EXCEPT !.title = 0, !.slider = 0]
Jumps(v) == v.slider # 0
curlists_clear(v) == [v EXCEPT !.curtracks = 0, !.curalbums = 0]

\* On status -1 the buttons stay as they are.
no_offline(v, s) == IF s = "offline" THEN v ELSE [v EXCEPT !.buttons = s]
playbox_buttons_enable(v, s) == [v EXCEPT !.buttons = s]

queue_list_store_add(list, e) == Append(list, e)
queue_list_store_del(list, e) == RemoveFirst(list, e)

\* The slider's signal is no jump here.
playbox_progress_update(v, r) == [v EXCEPT !.slider = r]

\* What a broadcast changes before anything else runs.
Shown(v, b) ==
  CASE b.kind = "nexttrack" -> detail_update(playbox_buttons_enable(v, "play"), b.val)
    [] b.kind = "stopped" -> playbox_detail_clear(playbox_buttons_enable(v, "stop"))
    [] b.kind = "paused" -> playbox_buttons_enable(v, "pause")
    [] b.kind = "resumed" -> playbox_buttons_enable(v, "play")
    [] b.kind = "elapsed" -> playbox_progress_update(v, b.val)
    [] b.kind = "queueadd" -> [v EXCEPT !.win = queue_list_store_add(@, b.val)]
    [] b.kind \in {"queuefetch", "queuedel"} ->
         [v EXCEPT !.win = queue_list_store_del(@, b.val)]
    [] b.kind = "queueclear" -> [v EXCEPT !.win = <<>>]

\* The same while a reply is read: the jump of detail_clear is refused at once.
Ignored(v, b) == v
ShownInReply(v, b) ==
  IF b.kind = "stopped" THEN curlists_clear(Shown(v, b)) ELSE Shown(v, b)

(***************************************************************************)
(* Calls.                                                                  *)
(***************************************************************************)
Call(r, k) ==
  /\ stk' = Append(stk, [at |-> k, req |-> req, ret |-> ret])
  /\ pc' = "ask" /\ req' = r /\ ret' = Failed

\* Back to the caller, with r.  What became of a command nobody asks; ev_disc
\* goes on with what the function that lost the connection is to return.
Return(r) ==
  LET caller == Last(stk) IN
  /\ pc' = caller.at /\ req' = caller.req /\ stk' = Front(stk)
  /\ ret' = IF caller.at \in {"main", "poll.stopped", "disc"} THEN caller.ret ELSE r

Goto(p) == pc' = p /\ UNCHANGED <<req, ret, stk>>

(***************************************************************************)
(* duc_close and ev_disc: the windows are cleared, on the way the slider   *)
(* jumps, which opens a new connection, and the rest is cleared after that.*)
(***************************************************************************)
ReplyLeft == UNCHANGED <<inreply, got>>
ReplyOver == inreply' = FALSE /\ got' = <<>>

WatchesKept == UNCHANGED watches
WatchesRemoved == watches' = 0

\* r is what the function that lost the connection returns.
Close(r) ==
  /\ link' = "down" /\ owed' = "none" /\ answer' = <<>> /\ net' = <<>>
  /\ ReplyOver /\ WatchesRemoved
  /\ LET v == playbox_detail_clear(playbox_buttons_enable(view, "offline")) IN
       IF Jumps(view)
       THEN /\ view' = v
            /\ stk' = Append(stk, [at |-> "disc", req |-> req, ret |-> r])
            /\ pc' = "ask" /\ req' = "do" /\ ret' = Failed
       ELSE /\ view' = [curlists_clear(v) EXCEPT !.win = <<>>]
            /\ Return(r)
  /\ UNCHANGED <<server, conns, lapses, cur>>

\* The rest of ev_disc.
Disconnected ==
  /\ pc = "disc"
  /\ view' = [curlists_clear(view) EXCEPT !.win = <<>>]
  /\ lapses' = IF Up THEN lapses \cup {"wiped"} ELSE lapses
  /\ Return(ret)
  /\ UNCHANGED <<server, session, watches, cur>>

(***************************************************************************)
(* A request: duc_open, _duc_vsend and the reading of the reply.           *)
(***************************************************************************)
\* The server cannot be reached, or duc_open gives up without an event.
Unreachable ==
  /\ pc = "ask" /\ ~Up /\ Return(Failed)
  /\ UNCHANGED <<server, session, windows>>

\* The connection is lost before the login is complete: the disconnect event
\* comes without the connect event.
LostEarly ==
  /\ pc = "ask" /\ ~Up /\ Close(Failed)

\* ev_conn: a watch, then the status; the request goes on when it is done.

Connected ==
  /\ pc = "ask" /\ ~Up
  /\ conns < MaxConns /\ Len(stk) < MaxDepth
  /\ link' = "live" /\ conns' = conns + 1 /\ watches' = watches + 1
  /\ stk' = stk \o <<[at |-> "send", req |-> req, ret |-> Failed],
                     [at |-> "conn.status", req |-> "none", ret |-> Failed]>>
  /\ pc' = "ask" /\ req' = "status" /\ ret' = Failed
  /\ UNCHANGED <<server, owed, answer, net, inreply, got, view, lapses, cur>>

ConnStatus ==
  /\ pc = "conn.status"
  /\ view' = IF ret = Failed THEN view ELSE playbox_buttons_enable(view, ret[1])
  /\ Call("curtrack", "conn.track")
  /\ UNCHANGED <<server, session, watches, lapses, cur>>

ConnTrack ==
  /\ pc = "conn.track"
  /\ view' = IF ret \in {Failed, <<0>>} THEN view ELSE detail_update(view, ret[1])
  /\ Call("queuelist", "conn.queue")
  /\ UNCHANGED <<server, session, watches, lapses, cur>>

\* The window takes a list that was cut short for the queue.
Listed(list) ==
  IF list = <<0>> THEN <<>> ELSE IF Cut \in ToSet(list) THEN Front(list) ELSE list
queue_list_extend(old, list) == old \o Listed(list)
queue_list_populate(old, list) == Listed(list)

ConnQueue ==
  /\ pc = "conn.queue"
  /\ view' = IF ret = Failed THEN view
             ELSE [view EXCEPT !.win = queue_list_populate(@, ret)]
  /\ lapses' = IF Cut \in ToSet(ret) THEN {"cut"} ELSE lapses
  /\ Return(Failed)
  /\ UNCHANGED <<server, session, watches, cur>>

\* duc_open called by main has nothing to send.
Send ==
  /\ pc = "send" \/ (pc = "ask" /\ Up)
  /\ \/ /\ req = "none" /\ Return(Failed) /\ UNCHANGED <<owed, inreply, got>>
     \/ /\ Up /\ req # "none" /\ Goto("read")
        /\ owed' = IF link = "live" THEN req ELSE "none"
        /\ inreply' = TRUE /\ got' = <<>>
  /\ lapses' = IF req = "queuelist" THEN {} ELSE lapses
  /\ UNCHANGED <<server, link, conns, answer, net, watches, view, cur>>

\* The server is gone, or ev_conn has lost it again.
SendFails ==
  /\ pc = "send" \/ (pc = "ask" /\ Up)
  /\ link # "live" /\ req # "none" /\ Close(Failed)

\* A broadcast between the lines of the queue's list is applied to the window
\* that the list is about to replace.
Reading == pc = "read" /\ net # <<>>
IsLine(m) == m.kind \in {"line", "last"}
QueueEvents == {"queueadd", "queuedel", "queuefetch", "queueclear"}

ReadBroadcast ==
  /\ Reading /\ ~IsLine(net[1])
  /\ net' = Tail(net) /\ view' = ShownInReply(view, net[1])
  /\ lapses' = IF req = "queuelist" /\ got # <<>> /\ net[1].kind \in QueueEvents
               THEN lapses \cup {"torn"} ELSE lapses
  /\ UNCHANGED <<server, link, conns, owed, answer, inreply, got, watches, cur, ctl>>

ReadLine ==
  /\ Reading /\ IsLine(net[1])
  /\ net' = Tail(net)
  /\ IF net[1].kind = "line"
     THEN got' = Append(got, net[1].val) /\ UNCHANGED <<inreply, ctl>>
     ELSE got' = <<>> /\ inreply' = FALSE /\ Return(Append(got, net[1].val))
  /\ UNCHANGED <<server, link, conns, owed, answer, windows>>

ReadLost ==
  /\ pc = "read" /\ net = <<>> /\ link = "gone"
  /\ Close(IF got = <<>> THEN Failed ELSE Append(got, Cut))

(***************************************************************************)
(* The main loop: duc_open at the start, duc_poll for every watch on a     *)
(* readable descriptor, the idle calls, and the user.                      *)
(***************************************************************************)
Start ==
  /\ pc = "main" /\ ~Up /\ conns = 0 /\ Call("none", "main")
  /\ UNCHANGED <<server, session, windows>>

iowatch_dudl ==
  /\ pc = "main" /\ watches > 0 /\ (net # <<>> \/ link = "gone")
  /\ stk' = <<[at |-> "main", req |-> "none", ret |-> Failed]>>
  /\ pc' = "poll" /\ UNCHANGED <<req, ret, server, session, windows>>

\* No reply is read now: detail_clear's jump is sent.
PollBroadcast ==
  /\ pc = "poll" /\ net # <<>> /\ net' = Tail(net)
  /\ IF net[1].kind = "stopped" /\ Jumps(view)
     THEN view' = Shown(view, net[1]) /\ Call("do", "poll.stopped")
     ELSE view' = ShownInReply(view, net[1]) /\ UNCHANGED ctl
  /\ UNCHANGED <<server, link, conns, owed, answer, inreply, got, watches, lapses, cur>>

PollStopped ==
  /\ pc = "poll.stopped" /\ Goto("poll") /\ view' = curlists_clear(view)
  /\ UNCHANGED <<server, session, watches, lapses, cur>>

PollLost ==
  /\ pc = "poll" /\ net = <<>> /\ link = "gone" /\ Close(Failed)

\* What arrives later has to wait for the next watch.
PollEnds ==
  /\ pc = "poll" /\ Return(Failed) /\ UNCHANGED <<server, session, windows>>

\* detail_update_idle.
Idle ==
  /\ pc = "main" /\ view.idles > 0
  /\ view' = [view EXCEPT !.idles = @ - 1]
  /\ IF view.needupdate THEN Call("curtrack", "idle.track") ELSE UNCHANGED ctl
  /\ UNCHANGED <<server, session, watches, lapses, cur>>

IdleTrack ==
  /\ pc = "idle.track"
  /\ IF ret \in {Failed, <<0>>} THEN pc' = "main" /\ ret' = Failed /\ UNCHANGED <<req, stk, cur>>
     ELSE cur' = ret[1] /\ Call("tracksalbum", "idle.tracks")
  /\ UNCHANGED <<server, session, watches, view, lapses>>

IdleTracks ==
  /\ pc = "idle.tracks"
  /\ view' = IF ret = Failed THEN view ELSE [view EXCEPT !.curtracks = cur]
  /\ Call("albumsartist", "idle.albums")
  /\ UNCHANGED <<server, session, watches, lapses, cur>>

IdleAlbums ==
  /\ pc = "idle.albums"
  /\ view' = [view EXCEPT !.needupdate = FALSE,
                          !.curalbums = IF ret = Failed THEN @ ELSE cur]
  /\ pc' = "main" /\ ret' = Failed /\ cur' = 0 /\ UNCHANGED <<req, stk>>
  /\ UNCHANGED <<server, session, watches, lapses>>

\* A button, or an entry of a menu; what the server does for it is among the
\* changes it may make at any time.
Click ==
  /\ pc = "main" /\ Call("do", "main") /\ UNCHANGED <<server, session, windows>>

ctl_prog__changed ==
  /\ pc = "main" /\ view.buttons \in {"play", "pause"}
  /\ view' = [view EXCEPT !.slider = 1 - @]
  /\ Call("do", "main") /\ UNCHANGED <<server, session, watches, lapses, cur>>

Server == ServerChanges \/ ServerAnswers \/ ServerHangsUp

Request ==
  \/ Unreachable \/ LostEarly \/ Connected \/ ConnStatus \/ ConnTrack \/ ConnQueue
  \/ Send \/ SendFails \/ ReadBroadcast \/ ReadLine \/ ReadLost \/ Disconnected

MainLoop ==
  \/ Start \/ iowatch_dudl \/ PollBroadcast \/ PollStopped \/ PollLost \/ PollEnds
  \/ Idle \/ IdleTrack \/ IdleTracks \/ IdleAlbums \/ Click \/ ctl_prog__changed

Next == Server \/ Request \/ MainLoop

Spec == Init /\ [][Next]_vars

(***************************************************************************)
(* Properties.                                                             *)
(***************************************************************************)
Places == {"main", "ask", "send", "read", "disc", "conn.status", "conn.track", "conn.queue",
           "poll", "poll.stopped", "idle.track", "idle.tracks", "idle.albums"}
Bottom == {"main", "idle.track", "idle.tracks", "idle.albums"}
Requests == {"none", "do", "status", "curtrack", "queuelist", "tracksalbum", "albumsartist"}

TypeOK ==
  /\ link \in {"down", "live", "gone"} /\ inreply \in BOOLEAN
  /\ pc \in Places /\ req \in Requests /\ (stk = <<>> <=> pc \in Bottom)
  /\ owed \in Requests /\ (pc = "read" <=> inreply)
  /\ Len(net) <= Room /\ lapses \subseteq {"torn", "wiped", "cut"}
  /\ view.buttons \in {"offline", "stop", "play", "pause"}
  /\ view.title \in Tracks \cup {0} /\ view.slider \in {0, 1}

\* Back in the main loop, there is one watch on an open connection and none
\* on a closed one, however handlers were nested.
WatchedOnce == pc = "main" => watches = (IF Up THEN 1 ELSE 0)

\* Once all broadcasts are read the buttons and the title are those of the
\* player: handlers nested in one another leave nothing older behind.
Quiet == pc = "main" /\ link = "live" /\ net = <<>>

PlayerShown == Quiet => view.buttons = status /\ view.title = track

\* And the queue window shows the queue, unless a broadcast came between the
\* lines of the list it was filled from, or ev_disc went on clearing windows
\* that the connection its jump had opened had filled.
QueueShown == Quiet /\ lapses = {} => view.win = queue

\* Without a connection the windows show nothing.
OfflineShown ==
  pc = "main" /\ ~Up =>
    /\ view.buttons = "offline" /\ view.title = 0 /\ view.slider = 0
    /\ view.win = <<>> \/ "cut" \in lapses

\* "gtk: keep track + album lists up to date" (debian/changelog:32): with no
\* update left to do, the lists belong to the track that is shown.
ListsUpToDate ==
  Quiet /\ view.idles = 0 /\ view.title # 0 =>
    view.curtracks = view.title /\ view.curalbums = view.title
=============================================================================
