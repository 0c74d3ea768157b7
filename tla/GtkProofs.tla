------------------------------ MODULE GtkProofs ------------------------------
(* What TLAPS proves of gtkdudlc, for every queue, any number of             *)
(* connections and handlers nested to any depth.                             *)
EXTENDS Gtk, Recursion

\* Connecting adds the watch of the connection, losing it removes it.
OneWatch == watches = (IF Up THEN 1 ELSE 0)

LEMMA Closing == ASSUME NEW r, Close(r) PROVE OneWatch'
BY DEF Close, WatchesRemoved, OneWatch, Up

\* Nothing else touches the watches, or tells an open connection from a closed.
Kept == watches' = watches /\ Up' = Up

LEMMA ServerKeeps == Server => Kept
BY DEF Server, ServerChanges, ServerAnswers, ServerHangsUp, windows, Kept, Up

LEMMA RequestKeeps ==
  ASSUME OneWatch, Request
  PROVE  OneWatch'
<1> USE DEF Kept, Up, OneWatch
<1>1. CASE Unreachable BY <1>1 DEF Unreachable, session, windows
<1>2. CASE LostEarly BY <1>2, Closing DEF LostEarly
<1>3. CASE Connected BY <1>3 DEF Connected
<1>4. CASE ConnStatus BY <1>4 DEF ConnStatus, session
<1>5. CASE ConnTrack BY <1>5 DEF ConnTrack, session
<1>6. CASE ConnQueue BY <1>6 DEF ConnQueue, session
<1>7. CASE Send BY <1>7 DEF Send
<1>8. CASE SendFails BY <1>8, Closing DEF SendFails
<1>9. CASE ReadBroadcast BY <1>9 DEF ReadBroadcast
<1>10. CASE ReadLine BY <1>10 DEF ReadLine, windows
<1>11. CASE ReadLost BY <1>11, Closing DEF ReadLost
<1>12. CASE Disconnected BY <1>12 DEF Disconnected, session
<1> QED BY <1>1, <1>2, <1>3, <1>4, <1>5, <1>6, <1>7, <1>8, <1>9, <1>10, <1>11, <1>12
        DEF Request

LEMMA MainLoopKeeps ==
  ASSUME OneWatch, MainLoop
  PROVE  OneWatch'
<1> USE DEF Kept, Up, OneWatch
<1>1. CASE Start BY <1>1 DEF Start, session, windows
<1>2. CASE iowatch_dudl BY <1>2 DEF iowatch_dudl, session, windows
<1>3. CASE PollBroadcast BY <1>3 DEF PollBroadcast
<1>4. CASE PollStopped BY <1>4 DEF PollStopped, session
<1>5. CASE PollLost BY <1>5, Closing DEF PollLost
<1>6. CASE PollEnds BY <1>6 DEF PollEnds, session, windows
<1>7. CASE Idle BY <1>7 DEF Idle, session
<1>8. CASE IdleTrack BY <1>8 DEF IdleTrack, session
<1>9. CASE IdleTracks BY <1>9 DEF IdleTracks, session
<1>10. CASE IdleAlbums BY <1>10 DEF IdleAlbums, session
<1>11. CASE Click BY <1>11 DEF Click, session, windows
<1>12. CASE ctl_prog__changed BY <1>12 DEF ctl_prog__changed, session
<1> QED BY <1>1, <1>2, <1>3, <1>4, <1>5, <1>6, <1>7, <1>8, <1>9, <1>10, <1>11, <1>12
        DEF MainLoop

(***************************************************************************)
(* GLib never holds a watch on a closed descriptor, nor two on an open one *)
(* (gtk/main.c:77, 89): not even while handlers are nested.                *)
(***************************************************************************)
THEOREM WatchesMatch == Spec => []WatchedOnce
<1>1. Init => OneWatch
  BY DEF Init, OneWatch, Up
<1>2. OneWatch /\ [Next]_vars => OneWatch'
  <2> SUFFICES ASSUME OneWatch, [Next]_vars PROVE OneWatch'
    OBVIOUS
  <2>1. CASE Server BY <2>1, ServerKeeps DEF Kept, OneWatch
  <2>2. CASE Request BY <2>2, RequestKeeps
  <2>3. CASE MainLoop BY <2>3, MainLoopKeeps
  <2>4. CASE UNCHANGED vars BY <2>4 DEF vars, windows, session, OneWatch, Up
  <2> QED BY <2>1, <2>2, <2>3, <2>4 DEF Next
<1>3. OneWatch => WatchedOnce
  BY DEF OneWatch, WatchedOnce
<1> QED BY <1>1, <1>2, <1>3, PTL DEF Spec

(***************************************************************************)
(* The C stack.  A request is made by a function that knows what to do     *)
(* with its answer; a handler runs on behalf of the request, or of the     *)
(* watch, that dispatched it.                                              *)
(***************************************************************************)
Resume == {"main", "send", "disc", "conn.status", "conn.track", "conn.queue", "poll.stopped",
           "idle.track", "idle.tracks", "idle.albums"}
Callers ==
  {<<"none", "main">>, <<"do", "main">>, <<"do", "poll.stopped">>, <<"do", "disc">>,
   <<"status", "conn.status">>, <<"curtrack", "conn.track">>, <<"curtrack", "idle.track">>,
   <<"queuelist", "conn.queue">>, <<"tracksalbum", "idle.tracks">>,
   <<"albumsartist", "idle.albums">>}

\* Only ev_conn, which runs on a new connection, asks for the status.
OnTop(at, r, below) ==
  /\ at \notin Bottom
  /\ at \in {"ask", "send", "read"} => <<r, below>> \in Callers
  /\ at = "send" => r # "status"
  /\ at \in {"conn.status", "conn.track", "conn.queue"} => below = "send"
  /\ at = "disc" => <<r, below>> \in Callers \/ below = "main"
  /\ at \in {"poll", "poll.stopped"} => below = "main"

Statuses == {"stop", "play", "pause"}
Answers == Seq(Statuses \cup {"ok"} \cup Nat \cup {Cut})

Frames ==
  /\ stk \in Seq([at : Resume, req : Requests, ret : Answers])
  /\ \A i \in DOMAIN stk :
       IF i = 1 THEN stk[i].at \in Bottom ELSE OnTop(stk[i].at, stk[i].req, stk[i - 1].at)
  /\ stk = <<>> <=> pc \in Bottom
  /\ stk # <<>> => OnTop(pc, req, stk[Len(stk)].at)
  /\ pc \in Places /\ req \in Requests
  /\ pc = "ask" /\ req = "status" => Up

(***************************************************************************)
(* What is on its way: broadcasts, and the lines of the one answer that is *)
(* read.                                                                   *)
(***************************************************************************)
Kinds == {"nexttrack", "elapsed", "stopped", "paused", "resumed",
          "queueclear", "queueadd", "queuefetch", "queuedel", "line", "last"}
Message(m) ==
  \/ m.kind = "nexttrack" /\ m.val \in Tracks
  \/ m.kind = "elapsed" /\ m.val = 1
  \/ m.kind \in {"stopped", "paused", "resumed", "queueclear"} /\ m.val = 0
  \/ m.kind \in {"queueadd", "queuefetch", "queuedel"} /\ m.val \in Entries
  \/ m.kind = "line" /\ pc = "read" /\ req = "queuelist" /\ m.val \in Nat
  \/ /\ m.kind = "last" /\ pc = "read"
     /\ req = "status" => m.val \in Statuses
     /\ req = "curtrack" => m.val \in Tracks \cup {0}
     /\ req = "queuelist" => m.val \in Nat
     /\ req \notin {"status", "curtrack", "queuelist"} => m.val = "ok"

Traffic ==
  /\ net \in Seq([kind : Kinds, val : Statuses \cup {"ok"} \cup Nat])
  /\ Len(net) <= Room
  /\ \A k \in DOMAIN net : Message(net[k])
  /\ \A k, j \in DOMAIN net : net[k].kind = "last" /\ k < j => ~IsLine(net[j])
  /\ ~Up => net = <<>>

Reply ==
  /\ link \in {"down", "live", "gone"} /\ inreply \in BOOLEAN /\ (pc = "read" <=> inreply)
  /\ owed \in Requests /\ answer \in Seq(Nat) /\ got \in Seq(Nat)
  /\ pc = "read" => Up
  /\ owed # "none" => pc = "read" /\ owed = req /\ answer = <<>> /\ got = <<>>
                      /\ \A k \in DOMAIN net : ~IsLine(net[k])
  /\ answer # <<>> => req = "queuelist" /\ pc = "read" /\ link = "live"
                      /\ \A k \in DOMAIN net : net[k].kind # "last"
  /\ got # <<>> => req = "queuelist" /\ pc = "read"
  /\ link # "live" => owed = "none"

\* What a function that lost the connection returns.
Lapsed(r, list) == list = Failed \/ (r = "queuelist" /\ Cut \in ToSet(list) /\ list \in Seq(Nat \cup {Cut}))

Returned ==
  /\ pc = "conn.status" => ret = Failed \/ \E s \in Statuses : ret = <<s>>
  /\ pc \in {"conn.track", "idle.track"} => ret = Failed \/ \E t \in Tracks \cup {0} : ret = <<t>>
  /\ pc = "conn.queue" => ret \in Seq(Nat \cup {Cut})
  /\ pc \in {"conn.status", "conn.track"} /\ ~Up => ret = Failed
  /\ pc = "conn.queue" /\ ~Up => Lapsed("queuelist", ret)
  /\ pc = "disc" => Lapsed(req, ret)
  /\ \A i \in DOMAIN stk : stk[i].at = "disc" => Lapsed(stk[i].req, stk[i].ret)
  /\ ret \in Answers

View(v) ==
  v \in [buttons : {"offline"} \cup Statuses, title : Tracks \cup {0}, slider : {0, 1},
         win : {v.win}, needupdate : {v.needupdate}, idles : {v.idles},
         curtracks : {v.curtracks}, curalbums : {v.curalbums}]
Windows ==
  /\ View(view)
  /\ lapses \subseteq {"torn", "wiped", "cut"}
  /\ queue \in Seq(Entries)
  /\ status \in Statuses /\ track \in Tracks \cup {0}
  /\ status = "stop" <=> track = 0

\* A closed connection has cleared the windows, but for the one that its
\* handler has still to come to, or that took a list cut short for the queue.
Clearing == pc = "disc" \/ \E i \in DOMAIN stk : stk[i].at = "disc"
Cleared ==
  ~Up => /\ view.buttons = "offline" /\ view.title = 0 /\ view.slider = 0
         /\ view.win = <<>> \/ "cut" \in lapses \/ Clearing

(***************************************************************************)
(* What the broadcasts under way say about the player: reading s from i on *)
(* makes v of what a window shows as b.                                    *)
(***************************************************************************)
About(x) ==
  IF x = "buttons" THEN {"nexttrack", "stopped", "paused", "resumed"} ELSE {"nexttrack", "stopped"}
Says(x, m) ==
  IF x = "buttons" THEN IF m.kind = "stopped" THEN "stop" ELSE IF m.kind = "paused" THEN "pause" ELSE "play"
  ELSE IF m.kind = "stopped" THEN 0 ELSE m.val
Silent(x, s, i) == \A k \in i .. Len(s) : s[k].kind \notin About(x)
Leads(x, s, i, b, v) ==
  \/ Silent(x, s, i) /\ b = v
  \/ \E k \in i .. Len(s) : s[k].kind \in About(x) /\ Silent(x, s, k + 1) /\ Says(x, s[k]) = v

\* The buttons are behind the player by what is under way, except while
\* ev_conn asks for the status of a new connection.
AsksStatus == pc \in {"ask", "read"} /\ req = "status"
Buttons ==
  link = "live" =>
    /\ ~AsksStatus /\ ~(pc = "conn.status" /\ ret # Failed) =>
         Leads("buttons", net, 1, view.buttons, status)
    /\ AsksStatus /\ pc = "read" /\ owed = "none" =>
         \E k \in DOMAIN net :
           net[k].kind = "last" /\ Leads("buttons", net, k + 1, net[k].val, status)
    /\ pc = "conn.status" /\ ret # Failed => Leads("buttons", net, 1, ret[1], status)

\* So is the title, except until ev_conn has asked for the track: until then
\* it may be empty.
AsksTrack == pc \in {"ask", "read"} /\ req = "curtrack" /\ stk[Len(stk)].at = "conn.track"
TitleTold(s, i, v) ==
  IF v = 0 THEN Leads("title", s, 1, view.title, track) ELSE Leads("title", s, i, v, track)
Title ==
  link = "live" =>
    /\ \/ Leads("title", net, 1, view.title, track)
       \/ /\ AsksStatus \/ AsksTrack \/ pc = "conn.status" \/ (pc = "conn.track" /\ ret # Failed)
          /\ Leads("title", net, 1, view.title, 0)
    /\ AsksTrack /\ pc = "read" /\ owed = "none" =>
         \E k \in DOMAIN net : net[k].kind = "last" /\ TitleTold(net, k + 1, net[k].val)
    /\ pc = "conn.track" /\ ret # Failed => TitleTold(net, 1, ret[1])

GtkInv == Frames /\ Traffic /\ Reply /\ Returned /\ Windows /\ Cleared
PlayerInv == Buttons /\ Title

(***************************************************************************)
(* Sequences.                                                              *)
(***************************************************************************)
LEMMA Popped ==
  ASSUME NEW S, NEW s \in Seq(S), s # <<>>
  PROVE  /\ Len(s) \in Nat \ {0} /\ s[Len(s)] \in S /\ Last(s) = s[Len(s)]
         /\ Front(s) \in Seq(S) /\ Len(Front(s)) = Len(s) - 1
         /\ \A i \in 1 .. Len(s) - 1 : Front(s)[i] = s[i]
         /\ Front(s) = <<>> <=> Len(s) = 1
<1>1. Len(s) \in Nat \ {0} /\ s[Len(s)] \in S
  BY EmptySeq, ElementOfSeq
<1>2. \A i \in 1 .. Len(s) - 1 : s[i] \in S
  BY <1>1, ElementOfSeq
<1> DEFINE f == SubSeq(s, 1, Len(s) - 1)
<1>3. /\ f \in Seq(S)
      /\ Len(f) = IF 1 <= Len(s) - 1 THEN (Len(s) - 1) - 1 + 1 ELSE 0
      /\ \A i \in 1 .. (Len(s) - 1) - 1 + 1 : f[i] = s[1 + i - 1]
  BY <1>1, <1>2, SubSeqProperties
<1> HIDE DEF f
<1>4. Len(f) = Len(s) - 1
  <2>1. \A n \in Nat \ {0} : (IF 1 <= n - 1 THEN (n - 1) - 1 + 1 ELSE 0) = n - 1
    OBVIOUS
  <2> QED BY <1>1, <1>3, <2>1
<1>5. f = <<>> <=> Len(s) = 1
  <2>1. f = <<>> => Len(f) = 0
    BY EmptySeq
  <2>2. f # <<>> => Len(f) # 0
    BY <1>3, EmptySeq
  <2> QED BY <1>1, <1>4, <2>1, <2>2
<1>6. \A i \in 1 .. Len(s) - 1 : f[i] = s[i]
  <2> SUFFICES ASSUME NEW i \in 1 .. Len(s) - 1 PROVE f[i] = s[i]
    OBVIOUS
  <2>1. i \in 1 .. (Len(s) - 1) - 1 + 1 /\ 1 + i - 1 = i
    BY <1>1
  <2> QED BY <1>3, <2>1
<1> QED BY <1>1, <1>3, <1>4, <1>5, <1>6 DEF Front, Last, f

LEMMA Pushed ==
  ASSUME NEW S, NEW s \in Seq(S), NEW e \in S
  PROVE  /\ Append(s, e) \in Seq(S) /\ Append(s, e) # <<>>
         /\ Len(s) \in Nat /\ Len(Append(s, e)) = Len(s) + 1
         /\ DOMAIN s = 1 .. Len(s) /\ DOMAIN Append(s, e) = 1 .. Len(s) + 1
         /\ \A i \in 1 .. Len(s) : Append(s, e)[i] = s[i]
         /\ Append(s, e)[Len(s) + 1] = e
<1>1. Append(s, e) \in Seq(S)
  BY AppendProperties
<1> QED BY <1>1, AppendProperties, LenProperties

LEMMA Shifted ==
  ASSUME NEW S, NEW s \in Seq(S), s # <<>>
  PROVE  /\ Tail(s) \in Seq(S) /\ Len(s) \in Nat \ {0} /\ Len(Tail(s)) = Len(s) - 1
         /\ DOMAIN s = 1 .. Len(s) /\ DOMAIN Tail(s) = 1 .. Len(s) - 1
         /\ \A i \in 1 .. Len(s) - 1 : Tail(s)[i] = s[i + 1]
         /\ s[1] \in S
<1>1. Tail(s) \in Seq(S) /\ Len(Tail(s)) = Len(s) - 1
  BY HeadTailProperties
<1>2. Len(s) \in Nat \ {0} /\ DOMAIN s = 1 .. Len(s)
  BY EmptySeq, LenProperties
<1>3. DOMAIN Tail(s) = 1 .. Len(s) - 1
  BY <1>1, LenProperties
<1> QED BY <1>1, <1>2, <1>3, HeadTailProperties, ElementOfSeq

(***************************************************************************)
(* What is under way, when something is added at its end, and when its     *)
(* beginning is read.                                                      *)
(***************************************************************************)
LEMMA LeadsAdded ==
  ASSUME NEW S, NEW s \in Seq(S), NEW m \in S, NEW x, NEW i \in 1 .. Len(s) + 1,
         NEW b, NEW v
  PROVE  /\ m.kind \in About(x) => Leads(x, Append(s, m), i, b, Says(x, m))
         /\ m.kind \notin About(x) /\ Leads(x, s, i, b, v) => Leads(x, Append(s, m), i, b, v)
<1> DEFINE t == Append(s, m)
<1>1. /\ Len(s) \in Nat /\ Len(t) = Len(s) + 1
      /\ \A k \in 1 .. Len(s) : t[k] = s[k]
      /\ t[Len(s) + 1] = m
  BY Pushed
<1> HIDE DEF t
<1>2. Silent(x, t, Len(t) + 1)
  BY <1>1 DEF Silent
<1>3. ASSUME m.kind \in About(x) PROVE Leads(x, t, i, b, Says(x, m))
  BY <1>1, <1>2, <1>3 DEF Leads
<1>4. ASSUME m.kind \notin About(x), NEW k \in 1 .. Len(s) + 1, Silent(x, s, k)
      PROVE  Silent(x, t, k)
  BY <1>1, <1>4 DEF Silent
<1>5. ASSUME m.kind \notin About(x), Leads(x, s, i, b, v) PROVE Leads(x, t, i, b, v)
  <2>1. CASE Silent(x, s, i) /\ b = v
    BY <1>4, <1>5, <2>1 DEF Leads
  <2>2. CASE \E k \in i .. Len(s) :
               s[k].kind \in About(x) /\ Silent(x, s, k + 1) /\ Says(x, s[k]) = v
    <3>1. PICK k \in i .. Len(s) :
            s[k].kind \in About(x) /\ Silent(x, s, k + 1) /\ Says(x, s[k]) = v
      BY <2>2
    <3>2. k \in i .. Len(t) /\ t[k] = s[k] /\ Silent(x, t, k + 1)
      BY <1>1, <1>4, <1>5, <3>1
    <3> QED BY <3>1, <3>2 DEF Leads
  <2> QED BY <1>5, <2>1, <2>2 DEF Leads
<1> QED BY <1>3, <1>5 DEF t

LEMMA LeadsShifted ==
  ASSUME NEW S, NEW s \in Seq(S), s # <<>>, NEW x, NEW i \in 2 .. Len(s) + 1, NEW b, NEW v
  PROVE  Leads(x, s, i, b, v) <=> Leads(x, Tail(s), i - 1, b, v)
<1> DEFINE t == Tail(s)
<1>1. /\ Len(s) \in Nat \ {0} /\ Len(t) = Len(s) - 1
      /\ \A k \in 1 .. Len(s) - 1 : t[k] = s[k + 1]
  BY Shifted
<1> HIDE DEF t
<1>2. \A k \in 2 .. Len(s) + 1 : Silent(x, s, k) <=> Silent(x, t, k - 1)
  <2> SUFFICES ASSUME NEW k \in 2 .. Len(s) + 1 PROVE Silent(x, s, k) <=> Silent(x, t, k - 1)
    OBVIOUS
  <2>1. ASSUME Silent(x, s, k) PROVE Silent(x, t, k - 1)
    BY <1>1, <2>1 DEF Silent
  <2>2. ASSUME Silent(x, t, k - 1), NEW j \in k .. Len(s) PROVE s[j].kind \notin About(x)
    <3>1. j - 1 \in k - 1 .. Len(t) /\ j - 1 \in 1 .. Len(s) - 1 /\ (j - 1) + 1 = j
      BY <1>1
    <3> QED BY <1>1, <2>2, <3>1 DEF Silent
  <2> QED BY <2>1, <2>2 DEF Silent
<1>3. ASSUME NEW k \in i .. Len(s)
      PROVE  k - 1 \in i - 1 .. Len(t) /\ t[k - 1] = s[k] /\ (Silent(x, s, k + 1) <=> Silent(x, t, (k - 1) + 1))
  <2>1. k - 1 \in 1 .. Len(s) - 1 /\ (k - 1) + 1 = k /\ k + 1 \in 2 .. Len(s) + 1 /\ (k + 1) - 1 = k
    BY <1>1
  <2>2. Silent(x, s, k + 1) <=> Silent(x, t, k)
    BY <1>2, <2>1
  <2>3. t[k - 1] = s[k]
    BY <1>1, <2>1
  <2> QED BY <1>1, <2>1, <2>2, <2>3
<1>4. ASSUME NEW k \in i - 1 .. Len(t)
      PROVE  k + 1 \in i .. Len(s) /\ t[k] = s[k + 1] /\ (Silent(x, s, (k + 1) + 1) <=> Silent(x, t, k + 1))
  <2>1. k \in 1 .. Len(s) - 1 /\ (k + 1) + 1 \in 2 .. Len(s) + 1 /\ ((k + 1) + 1) - 1 = k + 1
    BY <1>1
  <2>2. Silent(x, s, (k + 1) + 1) <=> Silent(x, t, k + 1)
    BY <1>2, <2>1
  <2> QED BY <1>1, <2>1, <2>2
<1>5. Silent(x, s, i) <=> Silent(x, t, i - 1)
  BY <1>2
<1>6. ASSUME Leads(x, s, i, b, v) PROVE Leads(x, t, i - 1, b, v)
  BY <1>3, <1>5, <1>6 DEF Leads
<1>7. ASSUME Leads(x, t, i - 1, b, v) PROVE Leads(x, s, i, b, v)
  BY <1>4, <1>5, <1>7 DEF Leads
<1> QED BY <1>6, <1>7 DEF t

\* Reading the first message.
LEMMA LeadsRead ==
  ASSUME NEW S, NEW s \in Seq(S), s # <<>>, NEW x, NEW b, NEW v, Leads(x, s, 1, b, v)
  PROVE  Leads(x, Tail(s), 1, IF s[1].kind \in About(x) THEN Says(x, s[1]) ELSE b, v)
<1> DEFINE c == IF s[1].kind \in About(x) THEN Says(x, s[1]) ELSE b
<1>1. Len(s) \in Nat \ {0} /\ 2 \in 2 .. Len(s) + 1 /\ 1 \in 1 .. Len(s)
  BY Shifted
<1>2. Leads(x, s, 2, c, v)
  <2>1. CASE Silent(x, s, 1) /\ b = v
    BY <1>1, <2>1 DEF Silent, Leads
  <2>2. CASE \E k \in 1 .. Len(s) :
               s[k].kind \in About(x) /\ Silent(x, s, k + 1) /\ Says(x, s[k]) = v
    <3>1. PICK k \in 1 .. Len(s) :
            s[k].kind \in About(x) /\ Silent(x, s, k + 1) /\ Says(x, s[k]) = v
      BY <2>2
    <3>2. CASE k = 1 BY <3>1, <3>2 DEF Leads
    <3>3. CASE k # 1
      <4>1. k \in 2 .. Len(s)
        BY <1>1, <3>3
      <4> QED BY <3>1, <4>1 DEF Leads
    <3> QED BY <3>2, <3>3
  <2> QED BY <2>1, <2>2 DEF Leads
<1> HIDE DEF c
<1>3. Leads(x, s, 2, c, v) <=> Leads(x, Tail(s), 2 - 1, c, v)
  BY <1>1, LeadsShifted
<1> QED BY <1>2, <1>3 DEF c

(***************************************************************************)
(* Calls and returns.                                                      *)
(***************************************************************************)
Frame == [at : Resume, req : Requests, ret : Answers]

\* Two calls at most are pushed at a time; the frames below stay.
LEMMA Calling ==
  ASSUME Frames, NEW r, NEW k, NEW v \in Answers,
         stk' = Append(stk, [at |-> k, req |-> req, ret |-> v]), pc' = "ask", req' = r,
         <<r, k>> \in Callers, r # "status", k \in Bottom <=> stk = <<>>,
         stk # <<>> => OnTop(k, req, stk[Len(stk)].at)
  PROVE  /\ Frames' /\ Len(stk) \in Nat /\ Len(stk') = Len(stk) + 1 /\ stk' # <<>>
         /\ DOMAIN stk = 1 .. Len(stk) /\ DOMAIN stk' = 1 .. Len(stk) + 1
         /\ \A i \in 1 .. Len(stk) : stk'[i] = stk[i]
         /\ stk'[Len(stk')] = [at |-> k, req |-> req, ret |-> v]
<1> DEFINE f == [at |-> k, req |-> req, ret |-> v]
<1>1. k \in Resume /\ r \in Requests
  BY DEF Callers, Resume, Requests
<1>2. f \in Frame /\ stk \in Seq(Frame)
  BY <1>1 DEF Frames, Frame
<1> HIDE DEF f
<1>3. /\ stk' \in Seq(Frame) /\ stk' # <<>> /\ Len(stk) \in Nat /\ Len(stk') = Len(stk) + 1
      /\ DOMAIN stk = 1 .. Len(stk) /\ DOMAIN stk' = 1 .. Len(stk) + 1
      /\ \A i \in 1 .. Len(stk) : stk'[i] = stk[i]
      /\ stk'[Len(stk) + 1] = f
  <2>1. stk' = Append(stk, f)
    BY DEF f
  <2> QED BY <1>2, <2>1, Pushed
<1>4. f.at = k /\ f.req = req
  BY DEF f
<1>5. ASSUME NEW i \in DOMAIN stk'
      PROVE  IF i = 1 THEN stk'[i].at \in Bottom ELSE OnTop(stk'[i].at, stk'[i].req, stk'[i - 1].at)
  <2>1. CASE i \in 1 .. Len(stk)
    <3>1. i # 1 => i - 1 \in 1 .. Len(stk)
      BY <1>3, <2>1
    <3> QED BY <1>3, <2>1, <3>1 DEF Frames
  <2>2. CASE i = Len(stk) + 1 /\ i = 1
    <3>1. stk = <<>>
      BY <1>2, <1>3, <2>2, EmptySeq
    <3> QED BY <1>3, <1>4, <2>2, <3>1
  <2>3. CASE i = Len(stk) + 1 /\ i # 1
    <3>1. stk # <<>> /\ i - 1 = Len(stk) /\ Len(stk) \in 1 .. Len(stk)
      BY <1>3, <2>3, EmptySeq
    <3> QED BY <1>3, <1>4, <2>3, <3>1
  <2> QED BY <1>3, <2>1, <2>2, <2>3
<1>6. OnTop("ask", r, k)
  BY DEF OnTop, Bottom
<1>7. Frames'
  BY <1>1, <1>3, <1>4, <1>5, <1>6 DEF Frames, Frame, Places, Bottom
<1> QED BY <1>3, <1>7 DEF f

LEMMA Returning ==
  ASSUME Frames, stk # <<>>, NEW r, Return(r)
  PROVE  /\ Frames' /\ Len(stk) \in Nat \ {0} /\ Len(stk') = Len(stk) - 1
         /\ DOMAIN stk = 1 .. Len(stk) /\ DOMAIN stk' = 1 .. Len(stk) - 1
         /\ \A i \in 1 .. Len(stk) - 1 : stk'[i] = stk[i]
         /\ pc' \in Resume /\ pc' = stk[Len(stk)].at /\ req' = stk[Len(stk)].req
         /\ ret' = IF pc' \in {"main", "poll.stopped", "disc"} THEN stk[Len(stk)].ret ELSE r
         /\ OnTop(pc, req, pc') /\ stk[Len(stk)] \in Frame
<1>1. stk \in Seq(Frame)
  BY DEF Frames, Frame
<1>2. /\ Len(stk) \in Nat \ {0} /\ stk[Len(stk)] \in Frame /\ Last(stk) = stk[Len(stk)]
      /\ stk' \in Seq(Frame) /\ Len(stk') = Len(stk) - 1
      /\ \A i \in 1 .. Len(stk) - 1 : stk'[i] = stk[i]
      /\ stk' = <<>> <=> Len(stk) = 1
  <2>1. stk' = Front(stk)
    BY DEF Return
  <2> QED BY <1>1, <2>1, Popped
<1>3. DOMAIN stk = 1 .. Len(stk) /\ DOMAIN stk' = 1 .. Len(stk) - 1
  BY <1>1, <1>2, LenProperties
<1>4. /\ pc' = stk[Len(stk)].at /\ req' = stk[Len(stk)].req
      /\ ret' = IF pc' \in {"main", "poll.stopped", "disc"} THEN stk[Len(stk)].ret ELSE r
  BY <1>2 DEF Return
<1>5. pc' \in Resume /\ req' \in Requests
  BY <1>2, <1>4 DEF Frame
<1>6. ASSUME NEW i \in DOMAIN stk'
      PROVE  IF i = 1 THEN stk'[i].at \in Bottom ELSE OnTop(stk'[i].at, stk'[i].req, stk'[i - 1].at)
  <2>1. i \in 1 .. Len(stk) - 1 /\ i \in 1 .. Len(stk) /\ (i # 1 => i - 1 \in 1 .. Len(stk) - 1)
    BY <1>2, <1>3
  <2> QED BY <1>2, <1>3, <2>1 DEF Frames
<1>7. stk' = <<>> <=> pc' \in Bottom
  <2>1. CASE Len(stk) = 1
    BY <1>2, <1>3, <1>4, <2>1 DEF Frames
  <2>2. CASE Len(stk) # 1
    <3>1. Len(stk) \in DOMAIN stk
      BY <1>2, <1>3
    <3>2. OnTop(stk[Len(stk)].at, stk[Len(stk)].req, stk[Len(stk) - 1].at)
      BY <3>1, <2>2 DEF Frames
    <3> QED BY <1>2, <1>4, <2>2, <3>2 DEF OnTop
  <2> QED BY <2>1, <2>2
<1>8. stk' # <<>> => OnTop(pc', req', stk'[Len(stk')].at)
  <2> SUFFICES ASSUME stk' # <<>> PROVE OnTop(pc', req', stk'[Len(stk')].at)
    OBVIOUS
  <2>1. Len(stk) # 1 /\ Len(stk) \in DOMAIN stk /\ Len(stk') = Len(stk) - 1
        /\ Len(stk) - 1 \in 1 .. Len(stk) - 1
    BY <1>2, <1>3
  <2> QED BY <1>2, <1>4, <2>1 DEF Frames
<1>9. Frames'
  BY <1>2, <1>5, <1>6, <1>7, <1>8 DEF Frames, Frame, Resume, Places
<1>10. OnTop(pc, req, pc')
  BY <1>4 DEF Frames
<1> QED BY <1>2, <1>3, <1>4, <1>5, <1>9, <1>10

\* What a request gives is what its caller takes.
Gives(q, r) ==
  /\ q = "status" => r = Failed \/ \E s \in Statuses : r = <<s>>
  /\ q = "curtrack" => r = Failed \/ \E t \in Tracks \cup {0} : r = <<t>>
  /\ q = "queuelist" => r \in Seq(Nat \cup {Cut})

LEMMA Nothing ==
  /\ Failed \in Answers /\ \A q : Gives(q, Failed) /\ Lapsed(q, Failed)
<1>1. Failed \in Answers /\ Failed \in Seq(Nat \cup {Cut})
  BY EmptySeq DEF Failed, Answers
<1> QED BY <1>1 DEF Gives, Lapsed

LEMMA GivenBack ==
  ASSUME Frames, Returned, stk # <<>>, NEW r \in Answers, Return(r),
         pc \in {"ask", "send", "read", "disc"} => Gives(req, r) /\ (~Up' => Lapsed(req, r)),
         pc \in Places \ {"conn.status", "conn.track"}
  PROVE  Returned'
<1>1. /\ Frames' /\ Len(stk) \in Nat \ {0}
      /\ DOMAIN stk = 1 .. Len(stk) /\ DOMAIN stk' = 1 .. Len(stk) - 1
      /\ \A i \in 1 .. Len(stk) - 1 : stk'[i] = stk[i]
      /\ pc' \in Resume /\ pc' = stk[Len(stk)].at /\ req' = stk[Len(stk)].req
      /\ ret' = IF pc' \in {"main", "poll.stopped", "disc"} THEN stk[Len(stk)].ret ELSE r
      /\ OnTop(pc, req, pc') /\ stk[Len(stk)] \in Frame
  BY Returning
<1>2. ret' \in Answers
  BY <1>1 DEF Frame
<1>3. \A i \in DOMAIN stk' : stk'[i].at = "disc" => Lapsed(stk'[i].req, stk'[i].ret)
  <2> SUFFICES ASSUME NEW i \in DOMAIN stk', stk'[i].at = "disc"
               PROVE  Lapsed(stk'[i].req, stk'[i].ret)
    OBVIOUS
  <2>1. i \in DOMAIN stk /\ i \in 1 .. Len(stk) - 1
    BY <1>1
  <2>2. stk'[i] = stk[i]
    BY <1>1, <2>1
  <2> QED BY <2>1, <2>2 DEF Returned
<1>4. pc' = "disc" => Lapsed(req', ret')
  <2>1. Len(stk) \in DOMAIN stk
    BY <1>1
  <2> QED BY <1>1, <2>1 DEF Returned
<1>5. ASSUME pc' \in {"conn.status", "conn.track", "idle.track", "conn.queue"}
      PROVE  /\ <<req, pc'>> \in Callers /\ ret' = r
             /\ pc \in {"ask", "send", "read", "disc"}
  BY <1>1, <1>5 DEF OnTop, Places, Bottom
<1>6. /\ pc' = "conn.status" => req = "status"
      /\ pc' \in {"conn.track", "idle.track"} => req = "curtrack"
      /\ pc' = "conn.queue" => req = "queuelist"
  BY <1>5 DEF Callers
<1> QED
  BY <1>2, <1>3, <1>4, <1>5, <1>6 DEF Returned, Gives, Lapsed

\* A handler of the disconnection that is due stays due, until it runs.
LEMMA ClearingStays ==
  ASSUME Frames, stk # <<>>, NEW r, Return(r), pc # "disc", Clearing
  PROVE  Clearing'
<1>1. /\ Len(stk) \in Nat \ {0}
      /\ DOMAIN stk = 1 .. Len(stk) /\ DOMAIN stk' = 1 .. Len(stk) - 1
      /\ \A i \in 1 .. Len(stk) - 1 : stk'[i] = stk[i]
      /\ pc' = stk[Len(stk)].at
  BY Returning
<1>2. PICK i \in DOMAIN stk : stk[i].at = "disc"
  BY DEF Clearing
<1>3. CASE i = Len(stk) BY <1>1, <1>2, <1>3 DEF Clearing
<1>4. CASE i # Len(stk)
  <2>1. i \in 1 .. Len(stk) - 1
    BY <1>1, <1>2, <1>4
  <2> QED BY <1>1, <1>2, <2>1 DEF Clearing
<1> QED BY <1>3, <1>4

(***************************************************************************)
(* What is on its way, while nothing is read.                              *)
(***************************************************************************)
LEMMA NoLines ==
  ASSUME Traffic, pc # "read"
  PROVE  \A k \in DOMAIN net : ~IsLine(net[k])
BY DEF Traffic, Message, IsLine

LEMMA Silence ==
  ASSUME Traffic, Reply, pc # "read"
  PROVE  owed = "none" /\ answer = <<>> /\ got = <<>> /\ inreply = FALSE
BY DEF Reply

LEMMA MessageAnywhere ==
  ASSUME NEW m, Message(m), ~IsLine(m)
  PROVE  Message(m)'
BY DEF Message, IsLine

LEMMA SessionKept ==
  ASSUME Traffic, Reply, pc # "read", pc' # "read", UNCHANGED <<owed, answer, net, inreply, got>>,
         Up => Up', link' \in {"down", "live", "gone"}
  PROVE  Traffic' /\ Reply'
<1>1. owed = "none" /\ answer = <<>> /\ got = <<>> /\ inreply = FALSE
  BY Silence
<1>2. \A k \in DOMAIN net : ~IsLine(net[k])
  BY NoLines
<1>3. \A k \in DOMAIN net : Message(net[k])'
  BY <1>2, MessageAnywhere DEF Traffic
<1>4. Traffic'
  BY <1>2, <1>3 DEF Traffic, IsLine
<1>5. Reply'
  BY <1>1, <1>2 DEF Reply
<1> QED BY <1>4, <1>5

\* The first message is read: what is left stays a message.
LEMMA FirstRead ==
  ASSUME Traffic, net # <<>>, net' = Tail(net), UNCHANGED link,
         UNCHANGED <<pc, req>> \/ \A k \in DOMAIN net : k # 1 => ~IsLine(net[k])
  PROVE  /\ Traffic' /\ Up /\ 1 \in DOMAIN net /\ Message(net[1])
         /\ \A k \in DOMAIN net' : k + 1 \in DOMAIN net /\ k + 1 # 1 /\ net'[k] = net[k + 1]
<1>1. /\ net' \in Seq([kind : Kinds, val : Statuses \cup {"ok"} \cup Nat])
      /\ Len(net) \in Nat \ {0} /\ Len(net') = Len(net) - 1
      /\ DOMAIN net = 1 .. Len(net) /\ DOMAIN net' = 1 .. Len(net) - 1
      /\ \A i \in 1 .. Len(net) - 1 : net'[i] = net[i + 1]
  BY Shifted DEF Traffic
<1>2. \A i \in DOMAIN net' : i + 1 \in DOMAIN net /\ i + 1 # 1 /\ net'[i] = net[i + 1]
  BY <1>1
<1>3. \A m : Message(m) => Message(m)' \/ IsLine(m)
  BY MessageAnywhere
<1>4. \A m : pc' = pc /\ req' = req /\ Message(m) => Message(m)'
  BY DEF Message
<1>5. ASSUME NEW k \in DOMAIN net', NEW m, m = net'[k] PROVE Message(m)'
  <2>1. k + 1 \in DOMAIN net /\ k + 1 # 1 /\ net'[k] = net[k + 1] /\ Message(net[k + 1])
    BY <1>2 DEF Traffic
  <2> QED BY <1>3, <1>4, <1>5, <2>1
<1>6. \A k, j \in DOMAIN net' : net'[k].kind = "last" /\ k < j => ~IsLine(net'[j])
  <2> SUFFICES ASSUME NEW k \in DOMAIN net', NEW j \in DOMAIN net', net'[k].kind = "last", k < j
               PROVE  ~IsLine(net'[j])
    OBVIOUS
  <2>1. k + 1 < j + 1
    BY <1>1
  <2> QED BY <1>2, <2>1 DEF Traffic
<1>7. Len(net') <= Room
  <2>1. Len(net) <= Room /\ Room \in Nat
    BY GtkAssumption DEF Traffic
  <2> QED BY <1>1, <2>1
<1>8. Up /\ Up'
  BY DEF Traffic, Up
<1>9. \A k \in DOMAIN net' : (Message(net[k]))'
  BY <1>5 DEF Message
<1>10. Traffic'
  BY <1>1, <1>6, <1>7, <1>8, <1>9 DEF Traffic
<1>11. 1 \in DOMAIN net
  BY <1>1
<1> QED BY <1>2, <1>8, <1>10, <1>11 DEF Traffic

\* A broadcast is read.
LEMMA BroadcastRead ==
  ASSUME Traffic, Reply, net # <<>>, net' = Tail(net),
         UNCHANGED <<pc, req, link, owed, answer, inreply, got>>
         \/ (pc # "read" /\ pc' # "read" /\ UNCHANGED <<link, owed, answer, inreply, got>>)
  PROVE  Traffic' /\ Reply'
<1>1. pc # "read" => \A k \in DOMAIN net : ~IsLine(net[k])
  BY NoLines
<1>2. /\ Traffic' /\ Up
      /\ \A k \in DOMAIN net' : k + 1 \in DOMAIN net /\ net'[k] = net[k + 1]
  BY <1>1, FirstRead
<1>3. /\ pc' = "read" <=> pc = "read"
      /\ pc = "read" => req' = req
      /\ UNCHANGED <<link, owed, answer, inreply, got>>
  OBVIOUS
<1>4. owed # "none" => \A k \in DOMAIN net' : ~IsLine(net'[k])
  BY <1>2 DEF Reply
<1>5. answer # <<>> => \A k \in DOMAIN net' : net'[k].kind # "last"
  BY <1>2 DEF Reply
<1>6. Up'
  BY <1>2, <1>3 DEF Up
<1>7. Reply'
  BY <1>3, <1>4, <1>5, <1>6 DEF Reply
<1> QED BY <1>2, <1>7

\* Something is added: a broadcast, or a line of the answer.
LEMMA Added ==
  ASSUME Traffic, NEW m, net' = Append(net, m), Message(m), Len(net) < Room, link = "live",
         m \in [kind : Kinds, val : Statuses \cup {"ok"} \cup Nat],
         IsLine(m) => \A k \in DOMAIN net : net[k].kind # "last",
         UNCHANGED <<pc, req, link>>
  PROVE  /\ Traffic' /\ Len(net) \in Nat /\ DOMAIN net = 1 .. Len(net)
         /\ DOMAIN net' = 1 .. Len(net) + 1 /\ Len(net') = Len(net) + 1
         /\ net'[Len(net) + 1] = m /\ \A i \in 1 .. Len(net) : net'[i] = net[i]
<1>1. /\ net' \in Seq([kind : Kinds, val : Statuses \cup {"ok"} \cup Nat])
      /\ Len(net) \in Nat /\ Len(net') = Len(net) + 1
      /\ DOMAIN net = 1 .. Len(net) /\ DOMAIN net' = 1 .. Len(net) + 1
      /\ \A i \in 1 .. Len(net) : net'[i] = net[i]
      /\ net'[Len(net) + 1] = m
  BY Pushed DEF Traffic
<1>2. \A n : Message(n) => Message(n)'
  BY DEF Message
<1>3. ASSUME NEW k \in DOMAIN net'
      PROVE  (k \in DOMAIN net /\ net'[k] = net[k]) \/ (k = Len(net) + 1 /\ net'[k] = m)
  <2>1. k \in 1 .. Len(net) \/ k = Len(net) + 1
    BY <1>1
  <2> QED BY <1>1, <2>1
<1>4. ASSUME NEW k \in DOMAIN net', NEW n, n = net'[k] PROVE Message(n)'
  <2>1. Message(n)
    BY <1>3, <1>4 DEF Traffic
  <2> QED BY <1>2, <2>1
<1>5. \A k, j \in DOMAIN net' : net'[k].kind = "last" /\ k < j => ~IsLine(net'[j])
  <2> SUFFICES ASSUME NEW k \in DOMAIN net', NEW j \in DOMAIN net', net'[k].kind = "last", k < j
               PROVE  ~IsLine(net'[j])
    OBVIOUS
  <2>1. k \in DOMAIN net /\ net'[k] = net[k]
    BY <1>1, <1>3
  <2> QED BY <1>3, <2>1 DEF Traffic
<1>6. Len(net') <= Room /\ Up'
  <2>1. Room \in Nat
    BY GtkAssumption
  <2> QED BY <1>1, <2>1 DEF Up
<1>7. \A k \in DOMAIN net' : (Message(net[k]))'
  BY <1>4 DEF Message
<1> QED BY <1>1, <1>5, <1>6, <1>7 DEF Traffic

(***************************************************************************)
(* The windows.                                                            *)
(***************************************************************************)
LEMMA Emptied ==
  ASSUME NEW v, View(v),
         NEW w, w = playbox_detail_clear(playbox_buttons_enable(v, "offline")),
         NEW u, u = [curlists_clear(w) EXCEPT !.win = <<>>]
  PROVE  /\ View(w) /\ w.buttons = "offline" /\ w.title = 0 /\ w.slider = 0
         /\ View(u) /\ u.buttons = "offline" /\ u.title = 0 /\ u.slider = 0 /\ u.win = <<>>
BY DEF View, playbox_detail_clear, playbox_buttons_enable, curlists_clear

\* What a broadcast shows, wherever it is read.
LEMMA Showing ==
  ASSUME NEW v, View(v), NEW m, Message(m), ~IsLine(m),
         NEW w, w = Shown(v, m) \/ w = ShownInReply(v, m)
  PROVE  /\ View(w)
         /\ w.buttons = IF m.kind \in About("buttons") THEN Says("buttons", m) ELSE v.buttons
         /\ w.title = IF m.kind \in About("title") THEN Says("title", m) ELSE v.title
<1> USE DEF Message, IsLine, Shown, ShownInReply, About, Says, View, Statuses
<1>1. CASE m.kind = "nexttrack"
  BY <1>1 DEF detail_update, playbox_detail_update, playbox_buttons_enable
<1>2. CASE m.kind = "stopped"
  BY <1>2 DEF playbox_detail_clear, playbox_buttons_enable, curlists_clear
<1>3. CASE m.kind \in {"paused", "resumed"}
  BY <1>3 DEF playbox_buttons_enable
<1>4. CASE m.kind = "elapsed"
  BY <1>4 DEF playbox_progress_update
<1>5. CASE m.kind \in {"queueadd", "queuefetch", "queuedel", "queueclear"}
  BY <1>5
<1> QED BY <1>1, <1>2, <1>3, <1>4, <1>5

(***************************************************************************)
(* The loss of the connection.                                             *)
(***************************************************************************)
LEMMA LapsedGives ==
  ASSUME NEW q, NEW r, Lapsed(q, r)
  PROVE  Gives(q, r)
<1>1. Failed \in Seq(Nat \cup {Cut})
  BY EmptySeq DEF Failed
<1> QED BY <1>1 DEF Lapsed, Gives

LEMMA Closing2 ==
  ASSUME GtkInv, pc \in {"ask", "send", "read", "poll"}, NEW r \in Answers, Close(r),
         Lapsed(req, r)
  PROVE  GtkInv'
<1> USE DEF GtkInv
<1>1. stk # <<>> /\ ~Up' /\ OnTop(pc, req, stk[Len(stk)].at)
  BY DEF Frames, Bottom, Close, Up
<1>2. /\ link' = "down" /\ owed' = "none" /\ answer' = <<>> /\ net' = <<>>
      /\ inreply' = FALSE /\ got' = <<>> /\ UNCHANGED <<queue, track, status, lapses>>
  BY DEF Close, ReplyOver, server
<1> DEFINE v == playbox_detail_clear(playbox_buttons_enable(view, "offline"))
           u == [curlists_clear(v) EXCEPT !.win = <<>>]
<1>3. /\ View(v) /\ v.buttons = "offline" /\ v.title = 0 /\ v.slider = 0
      /\ View(u) /\ u.buttons = "offline" /\ u.title = 0 /\ u.slider = 0 /\ u.win = <<>>
  BY Emptied DEF Windows
<1>4. ASSUME pc' # "read" PROVE Traffic' /\ Reply'
  <2>1. <<>> \in Seq([kind : Kinds, val : Statuses \cup {"ok"} \cup Nat]) /\ <<>> \in Seq(Nat)
        /\ Len(<<>>) = 0 /\ DOMAIN <<>> = {} /\ Room \in Nat
    BY EmptySeq, GtkAssumption
  <2>2. Traffic'
    BY <1>1, <1>2, <2>1 DEF Traffic
  <2>3. Reply'
    BY <1>2, <1>4, <2>1 DEF Reply, Requests
  <2> QED BY <2>2, <2>3
<1>5. CASE Jumps(view)
  <2>1. /\ view' = v
        /\ stk' = Append(stk, [at |-> "disc", req |-> req, ret |-> r])
        /\ pc' = "ask" /\ req' = "do" /\ ret' = Failed
    BY <1>5 DEF Close
  <2>2. OnTop("disc", req, stk[Len(stk)].at)
    BY <1>1 DEF OnTop, Bottom
  <2>3. <<"do", "disc">> \in Callers /\ "disc" \notin Bottom
    BY DEF Callers, Bottom
  <2>4. /\ Frames' /\ Len(stk) \in Nat /\ Len(stk') = Len(stk) + 1
        /\ DOMAIN stk = 1 .. Len(stk) /\ DOMAIN stk' = 1 .. Len(stk) + 1
        /\ \A i \in 1 .. Len(stk) : stk'[i] = stk[i]
        /\ stk'[Len(stk')] = [at |-> "disc", req |-> req, ret |-> r]
    BY <1>1, <2>1, <2>2, <2>3, Calling
  <2>5. Clearing'
    BY <2>4 DEF Clearing
  <2>6. \A i \in DOMAIN stk' : stk'[i].at = "disc" => Lapsed(stk'[i].req, stk'[i].ret)
    <3> SUFFICES ASSUME NEW i \in DOMAIN stk', stk'[i].at = "disc"
                 PROVE  Lapsed(stk'[i].req, stk'[i].ret)
      OBVIOUS
    <3>1. CASE i = Len(stk')
      BY <2>4, <3>1
    <3>2. CASE i # Len(stk')
      <4>1. i \in DOMAIN stk /\ stk'[i] = stk[i]
        BY <2>4, <3>2
      <4> QED BY <4>1 DEF Returned
    <3> QED BY <3>1, <3>2
  <2>7. Returned'
    BY <2>1, <2>6, Nothing DEF Returned
  <2>8. Windows' /\ Cleared'
    BY <1>2, <1>3, <2>1, <2>5 DEF Windows, Cleared
  <2> QED BY <1>4, <2>1, <2>4, <2>7, <2>8
<1>6. CASE ~Jumps(view)
  <2>1. view' = u /\ Return(r)
    BY <1>6 DEF Close
  <2>2. Frames' /\ pc' \in Resume
    BY <1>1, <2>1, Returning
  <2>3. Returned'
    BY <1>1, <2>1, GivenBack, LapsedGives DEF Places
  <2>4. Windows' /\ Cleared'
    BY <1>2, <1>3, <2>1 DEF Windows, Cleared
  <2>5. pc' # "read"
    BY <2>2 DEF Resume
  <2> QED BY <1>4, <2>2, <2>3, <2>4, <2>5
<1> QED BY <1>5, <1>6

(***************************************************************************)
(* The steps of the server.                                                *)
(***************************************************************************)
\* The windows and the stack are as they were.
LEMMA Undisturbed ==
  ASSUME GtkInv, UNCHANGED <<windows, ctl, Up>>
  PROVE  /\ Frames' /\ Returned' /\ Cleared' /\ View(view)'
         /\ (Clearing <=> Clearing')
<1>1. Frames'
  BY DEF ctl, GtkInv, Frames
<1>2. Clearing <=> Clearing'
  BY DEF ctl, Clearing
<1>3. Returned'
  BY DEF ctl, GtkInv, Returned
<1>4. Cleared' /\ View(view)'
  BY <1>2 DEF windows, GtkInv, Cleared, Windows, View
<1> QED BY <1>1, <1>2, <1>3, <1>4

LEMMA Taken ==
  ASSUME queue \in Seq(Entries), NEW i \in 1 .. Len(queue)
  PROVE  RemoveAt(queue, i) \in Seq(Entries) /\ queue[i] \in Entries
<1>1. Len(queue) \in Nat /\ \A j \in 1 .. Len(queue) : queue[j] \in Entries
  BY ElementOfSeq
<1>2. SubSeq(queue, 1, i - 1) \in Seq(Entries)
  BY <1>1, SubSeqProperties
<1>3. SubSeq(queue, i + 1, Len(queue)) \in Seq(Entries)
  BY <1>1, SubSeqProperties
<1>4. SubSeq(queue, 1, i - 1) \o SubSeq(queue, i + 1, Len(queue)) \in Seq(Entries)
  BY <1>2, <1>3, ConcatProperties
<1> QED BY <1>1, <1>4 DEF RemoveAt

\* A change is told to whoever is connected.
LEMMA Told ==
  ASSUME Traffic, Reply, NEW name \in Kinds, NEW val \in Nat, Tell(name, val),
         Message([kind |-> name, val |-> val]), ~IsLine([kind |-> name, val |-> val]),
         UNCHANGED <<pc, req, link, owed, answer, inreply, got>>
  PROVE  Traffic' /\ Reply'
<1> DEFINE m == [kind |-> name, val |-> val]
<1>1. m \in [kind : Kinds, val : Statuses \cup {"ok"} \cup Nat] /\ m.kind = name
  OBVIOUS
<1>2. Message(m) /\ ~IsLine(m)
  OBVIOUS
<1>3. IF link = "live" THEN net' = Append(net, m) /\ Len(net) < Room ELSE net' = net
  BY DEF Tell
<1> HIDE DEF m
<1>4. CASE link = "live"
  <2>1. /\ Traffic' /\ Len(net) \in Nat /\ DOMAIN net = 1 .. Len(net)
        /\ DOMAIN net' = 1 .. Len(net) + 1
        /\ net'[Len(net) + 1] = m /\ \A i \in 1 .. Len(net) : net'[i] = net[i]
    BY <1>1, <1>2, <1>3, <1>4, Added
  <2>2. \A k \in DOMAIN net' : (k \in DOMAIN net /\ net'[k] = net[k]) \/ net'[k] = m
    <3>1. \A k \in DOMAIN net' : k \in 1 .. Len(net) \/ k = Len(net) + 1
      BY <2>1
    <3> QED BY <2>1, <3>1
  <2>3. m.kind # "last"
    BY <1>2 DEF IsLine
  <2>4. owed # "none" => \A k \in DOMAIN net' : ~IsLine(net'[k])
    BY <1>2, <2>2 DEF Reply
  <2>5. answer # <<>> => \A k \in DOMAIN net' : net'[k].kind # "last"
    BY <2>2, <2>3 DEF Reply
  <2> QED BY <2>1, <2>4, <2>5 DEF Reply, Up
<1>5. CASE link # "live"
  <2>1. net' = net
    BY <1>3, <1>5
  <2>2. \A n : Message(n) => Message(n)'
    BY DEF Message
  <2>3. \A k \in DOMAIN net' : (Message(net[k]))'
    <3>1. ASSUME NEW k \in DOMAIN net', NEW n, n = net'[k] PROVE Message(n)'
      BY <2>1, <2>2, <3>1 DEF Traffic
    <3> QED BY <3>1 DEF Message
  <2> QED BY <2>1, <2>3 DEF Traffic, Reply, Up
<1> QED BY <1>4, <1>5

LEMMA ChangesGtk ==
  ASSUME GtkInv, ServerChanges
  PROVE  GtkInv'
<1> USE DEF GtkInv
<1>1. /\ UNCHANGED <<link, conns, owed, answer, inreply, got, windows, ctl>>
      /\ UNCHANGED <<pc, req>>
  BY DEF ServerChanges, ctl
<1>2. Frames' /\ Returned' /\ Cleared' /\ View(view)'
  BY <1>1, Undisturbed DEF Up
<1>3. lapses' = lapses
  BY <1>1 DEF windows
<1>4. ASSUME NEW name, NEW val, Tell(name, val),
             \/ name = "nexttrack" /\ val \in Tracks
             \/ name = "elapsed" /\ val = 1
             \/ name \in {"stopped", "paused", "resumed", "queueclear"} /\ val = 0
             \/ name \in {"queueadd", "queuefetch", "queuedel"} /\ val \in Entries
      PROVE  Traffic' /\ Reply'
  <2>1. Tracks \subseteq Nat /\ Entries \subseteq Nat /\ 0 \in Nat /\ 1 \in Nat
    BY GtkAssumption
  <2>2. val \in Tracks \cup {0, 1} \cup Entries
    BY <1>4
  <2>3. val \in Nat
    BY <2>1, <2>2
  <2>4. Message([kind |-> name, val |-> val]) /\ ~IsLine([kind |-> name, val |-> val])
    BY <1>4 DEF Message, IsLine
  <2>5. name \in Kinds
    BY <1>4 DEF Kinds
  <2> QED BY <1>1, <1>4, <2>3, <2>4, <2>5, Told
<1> DEFINE Fine == /\ Traffic' /\ Reply'
                   /\ queue' \in Seq(Entries) /\ status' \in Statuses /\ track' \in Tracks \cup {0}
                   /\ status' = "stop" <=> track' = 0
<1>5. ASSUME NEW t \in Tracks, track' = t, status' = "play", Tell("nexttrack", t), UNCHANGED queue
      PROVE  Fine
  <2>1. t # 0
    BY GtkAssumption
  <2> QED BY <1>4, <1>5, <2>1 DEF Windows, Statuses
<1>6. ASSUME track' = 0, status' = "stop", Tell("stopped", 0), UNCHANGED queue
      PROVE  Fine
  BY <1>4, <1>6 DEF Windows, Statuses
<1>7. ASSUME status = "play", status' = "pause", Tell("paused", 0), UNCHANGED <<queue, track>>
      PROVE  Fine
  BY <1>4, <1>7 DEF Windows, Statuses
<1>8. ASSUME status = "pause", status' = "play", Tell("resumed", 0), UNCHANGED <<queue, track>>
      PROVE  Fine
  BY <1>4, <1>8 DEF Windows, Statuses
<1>9. ASSUME Tell("elapsed", 1), UNCHANGED <<queue, track, status>>
      PROVE  Fine
  BY <1>4, <1>9 DEF Windows
<1>10. ASSUME NEW e \in Entries, queue' = Append(queue, e), Tell("queueadd", e),
              UNCHANGED <<track, status>>
       PROVE  Fine
  <2>1. queue' \in Seq(Entries)
    BY <1>10, AppendProperties DEF Windows
  <2> QED BY <1>4, <1>10, <2>1 DEF Windows
<1>11. ASSUME NEW i \in 1 .. Len(queue), NEW name \in {"queuefetch", "queuedel"},
              queue' = RemoveAt(queue, i), Tell(name, queue[i]), UNCHANGED <<track, status>>
       PROVE  Fine
  <2>1. queue' \in Seq(Entries) /\ queue[i] \in Entries
    BY <1>11, Taken DEF Windows
  <2> QED BY <1>4, <1>11, <2>1 DEF Windows
<1>12. ASSUME queue' = <<>>, Tell("queueclear", 0), UNCHANGED <<track, status>>
       PROVE  Fine
  <2>1. <<>> \in Seq(Entries)
    BY EmptySeq
  <2> QED BY <1>4, <1>12, <2>1 DEF Windows
<1>13. Fine
  <2> HIDE DEF GtkInv, Fine
  <2> QED BY <1>5, <1>6, <1>7, <1>8, <1>9, <1>10, <1>11, <1>12 DEF ServerChanges
<1> QED BY <1>2, <1>3, <1>13 DEF Windows

\* The next line of the answer that is read.
LEMMA Answering ==
  ASSUME GtkInv, link = "live", owed # "none" \/ answer # <<>>,
         NEW lines, lines = IF owed # "none" THEN Lines(owed) ELSE answer,
         NEW m, m = [kind |-> IF Len(lines) = 1 THEN "last" ELSE "line", val |-> Head(lines)]
  PROVE  /\ pc = "read" /\ Message(m) /\ IsLine(m)
         /\ m \in [kind : Kinds, val : Statuses \cup {"ok"} \cup Nat]
         /\ \A k \in DOMAIN net : net[k].kind # "last"
         /\ Tail(lines) \in Seq(Nat)
         /\ Tail(lines) # <<>> => req = "queuelist" /\ m.kind = "line"
         /\ req = "status" => m.kind = "last" /\ m.val = status
         /\ req = "curtrack" => m.kind = "last" /\ m.val = track
<1> USE DEF GtkInv
<1>1. pc = "read" /\ \A k \in DOMAIN net : net[k].kind # "last"
  BY DEF Reply, IsLine
<1>2. ASSUME lines \in Seq(Nat), lines # <<>>
      PROVE  /\ Head(lines) \in Nat /\ Len(lines) \in Nat \ {0} /\ Tail(lines) \in Seq(Nat)
             /\ Tail(lines) # <<>> => Len(lines) # 1
  <2>1. Head(lines) \in Nat /\ Tail(lines) \in Seq(Nat) /\ Len(Tail(lines)) = Len(lines) - 1
    BY <1>2, HeadTailProperties
  <2>2. Len(lines) \in Nat \ {0} /\ (Tail(lines) # <<>> => Len(Tail(lines)) # 0)
    BY <1>2, <2>1, EmptySeq
  <2> QED BY <2>1, <2>2
<1>3. ASSUME NEW x, lines = <<x>>
      PROVE  /\ Head(lines) = x /\ Len(lines) = 1 /\ Tail(lines) = <<>> /\ Tail(lines) \in Seq(Nat)
             /\ m.kind = "last" /\ m.val = x
  <2>1. <<x>> \in Seq({x})
    OBVIOUS
  <2>2. Len(<<x>>) = 1 /\ Head(<<x>>) = x
    OBVIOUS
  <2>3. <<x>> # <<>>
    BY <2>1, <2>2, EmptySeq
  <2>4. Tail(<<x>>) \in Seq({x}) /\ Len(Tail(<<x>>)) = 0
    BY <2>1, <2>2, <2>3, HeadTailProperties
  <2>5. Tail(<<x>>) = <<>>
    BY <2>4, EmptySeq
  <2> QED BY <1>3, <2>2, <2>5, EmptySeq
<1>4. m.kind = (IF Len(lines) = 1 THEN "last" ELSE "line") /\ m.val = Head(lines)
  OBVIOUS
<1>5. IsLine(m) /\ m.kind \in Kinds
  BY <1>4 DEF IsLine, Kinds
<1>6. ASSUME m.val \in Statuses \cup {"ok"} \cup Nat
      PROVE  m \in [kind : Kinds, val : Statuses \cup {"ok"} \cup Nat]
  BY <1>4, <1>5, <1>6
<1>7. CASE owed = "none"
  <2>1. lines = answer /\ lines \in Seq(Nat) /\ lines # <<>> /\ req = "queuelist"
    BY <1>7 DEF Reply
  <2> QED BY <1>1, <1>2, <1>4, <1>5, <1>6, <2>1 DEF Message
<1>8. CASE owed # "none"
  <2>1. lines = Lines(req)
    BY <1>8 DEF Reply
  <2>2. CASE req = "status"
    <3>1. lines = <<status>> /\ status \in Statuses
      BY <2>1, <2>2 DEF Lines, Windows
    <3>2. m.kind = "last" /\ m.val = status /\ Tail(lines) = <<>> /\ Tail(lines) \in Seq(Nat)
      BY <1>3, <3>1
    <3> QED BY <1>1, <1>5, <1>6, <2>2, <3>1, <3>2 DEF Message
  <2>3. CASE req = "curtrack"
    <3>1. lines = <<track>> /\ track \in Tracks \cup {0} /\ track \in Nat
      BY <2>1, <2>3, GtkAssumption DEF Lines, Windows
    <3>2. m.kind = "last" /\ m.val = track /\ Tail(lines) = <<>> /\ Tail(lines) \in Seq(Nat)
      BY <1>3, <3>1
    <3> QED BY <1>1, <1>5, <1>6, <2>3, <3>1, <3>2 DEF Message
  <2>4. CASE req = "queuelist"
    <3>1. lines = IF queue = <<>> THEN <<0>> ELSE queue
      BY <2>1, <2>4 DEF Lines
    <3>2. CASE queue = <<>>
      <4>1. lines = <<0>>
        BY <3>1, <3>2
      <4>2. m.kind = "last" /\ m.val = 0 /\ Tail(lines) = <<>> /\ Tail(lines) \in Seq(Nat)
        BY <1>3, <4>1
      <4> QED BY <1>1, <1>5, <1>6, <2>4, <4>2 DEF Message
    <3>3. CASE queue # <<>>
      <4>1. Entries \subseteq Nat
        BY GtkAssumption
      <4>2. queue \in Seq(Nat)
        BY <4>1, SeqMonotonic DEF Windows
      <4> QED BY <1>1, <1>2, <1>4, <1>5, <1>6, <2>4, <3>1, <3>3, <4>2 DEF Message
    <3> QED BY <3>2, <3>3
  <2>5. CASE req \notin {"status", "curtrack", "queuelist"}
    <3>1. lines = <<"ok">>
      BY <2>1, <2>5 DEF Lines
    <3> QED BY <1>1, <1>3, <1>4, <1>5, <1>6, <2>5, <3>1 DEF Message
  <2> QED BY <2>2, <2>3, <2>4, <2>5
<1> QED BY <1>7, <1>8

LEMMA AnswersGtk ==
  ASSUME GtkInv, ServerAnswers
  PROVE  GtkInv'
<1> USE DEF GtkInv
<1> DEFINE lines == IF owed # "none" THEN Lines(owed) ELSE answer
           m == [kind |-> IF Len(lines) = 1 THEN "last" ELSE "line", val |-> Head(lines)]
<1>1. /\ link = "live" /\ (owed # "none" \/ answer # <<>>) /\ Len(net) < Room
      /\ net' = Append(net, m) /\ answer' = Tail(lines) /\ owed' = "none"
      /\ UNCHANGED <<server, link, conns, inreply, got, windows, ctl>>
      /\ UNCHANGED <<pc, req>>
  BY DEF ServerAnswers, ctl
<1>2. /\ pc = "read" /\ Message(m) /\ IsLine(m)
      /\ m \in [kind : Kinds, val : Statuses \cup {"ok"} \cup Nat]
      /\ \A k \in DOMAIN net : net[k].kind # "last"
      /\ Tail(lines) \in Seq(Nat)
      /\ Tail(lines) # <<>> => req = "queuelist" /\ m.kind = "line"
  <2> HIDE DEF m, lines
  <2>1. lines = IF owed # "none" THEN Lines(owed) ELSE answer
    BY DEF lines
  <2>2. m = [kind |-> IF Len(lines) = 1 THEN "last" ELSE "line", val |-> Head(lines)]
    BY DEF m
  <2> QED BY <1>1, <2>1, <2>2, Answering
<1> HIDE DEF m, lines
<1>3. /\ Traffic' /\ Len(net) \in Nat /\ DOMAIN net = 1 .. Len(net)
      /\ DOMAIN net' = 1 .. Len(net) + 1
      /\ net'[Len(net) + 1] = m /\ \A i \in 1 .. Len(net) : net'[i] = net[i]
  BY <1>1, <1>2, Added
<1>4. \A k \in DOMAIN net' : (k \in DOMAIN net /\ net'[k] = net[k]) \/ net'[k] = m
  <2>1. \A k \in DOMAIN net' : k \in 1 .. Len(net) \/ k = Len(net) + 1
    BY <1>3
  <2> QED BY <1>3, <2>1
<1>5. Reply'
  <2>1. answer' # <<>> => \A k \in DOMAIN net' : net'[k].kind # "last"
    BY <1>1, <1>2, <1>4
  <2>2. "none" \in Requests
    BY DEF Requests
  <2> QED BY <1>1, <1>2, <2>1, <2>2 DEF Reply, Up
<1>6. Frames' /\ Returned' /\ Cleared' /\ View(view)'
  <2>1. UNCHANGED <<windows, ctl, Up>>
    BY <1>1 DEF Up
  <2> QED BY <2>1, Undisturbed
<1>7. Windows'
  BY <1>1, <1>6 DEF Windows, server, windows
<1> QED BY <1>3, <1>5, <1>6, <1>7

LEMMA HangsUpGtk ==
  ASSUME GtkInv, ServerHangsUp
  PROVE  GtkInv'
<1> USE DEF GtkInv
<1>1. /\ link = "live" /\ link' = "gone" /\ owed' = "none" /\ answer' = <<>>
      /\ UNCHANGED <<server, conns, inreply, got, windows, ctl>> /\ UNCHANGED <<pc, req, Up>>
  BY DEF ServerHangsUp, ctl, Up
<1>2. PICK n \in 0 .. Len(net) : net' = SubSeq(net, 1, n)
  BY DEF ServerHangsUp
<1>3. /\ Len(net) \in Nat /\ DOMAIN net = 1 .. Len(net)
      /\ net' \in Seq([kind : Kinds, val : Statuses \cup {"ok"} \cup Nat]) /\ Len(net') <= Len(net)
      /\ \A k \in DOMAIN net' : k \in DOMAIN net /\ net'[k] = net[k]
  <2>1. Len(net) \in Nat /\ \A i \in 1 .. Len(net) : net[i] \in [kind : Kinds, val : Statuses \cup {"ok"} \cup Nat]
    BY ElementOfSeq, LenProperties DEF Traffic
  <2>2. /\ net' \in Seq([kind : Kinds, val : Statuses \cup {"ok"} \cup Nat])
        /\ Len(net') = IF 1 <= n THEN n - 1 + 1 ELSE 0
        /\ \A i \in 1 .. n - 1 + 1 : net'[i] = net[1 + i - 1]
    BY <1>2, <2>1, SubSeqProperties
  <2>3. Len(net') = n
    BY <2>1, <2>2
  <2>4. DOMAIN net' = 1 .. n /\ DOMAIN net = 1 .. Len(net)
    BY <2>2, <2>3, LenProperties DEF Traffic
  <2>5. \A k \in 1 .. n : k \in 1 .. n - 1 + 1 /\ 1 + k - 1 = k /\ k \in 1 .. Len(net)
    BY <2>1
  <2> QED BY <2>1, <2>2, <2>3, <2>4, <2>5
<1>4. ASSUME NEW k \in DOMAIN net', NEW q, q = net'[k] PROVE Message(q)'
  <2>1. Message(q)
    BY <1>3, <1>4 DEF Traffic
  <2> QED BY <1>1, <2>1 DEF Message
<1>5. \A k \in DOMAIN net' : (Message(net[k]))'
  BY <1>4 DEF Message
<1>6. Len(net') <= Room
  <2>1. Len(net) <= Room /\ Room \in Nat
    BY GtkAssumption DEF Traffic
  <2>2. Len(net') \in Nat
    BY <1>3, LenProperties
  <2> QED BY <1>3, <2>1, <2>2
<1>7. Traffic'
  BY <1>1, <1>3, <1>5, <1>6 DEF Traffic, Up
<1>8. Reply'
  <2>1. <<>> \in Seq(Nat) /\ "none" \in Requests
    BY EmptySeq DEF Requests
  <2> QED BY <1>1, <2>1 DEF Reply, Up
<1>9. Frames' /\ Returned' /\ Cleared' /\ View(view)'
  BY <1>1, Undisturbed
<1>10. Windows'
  BY <1>1, <1>9 DEF Windows, server, windows
<1> QED BY <1>7, <1>8, <1>9, <1>10

(***************************************************************************)
(* The steps of a request.                                                 *)
(***************************************************************************)
LEMMA CallStep ==
  ASSUME GtkInv, NEW r, NEW k, Call(r, k), <<r, k>> \in Callers, r # "status", k # "disc",
         k \in Bottom <=> stk = <<>>, stk # <<>> => OnTop(k, req, stk[Len(stk)].at), pc # "disc"
  PROVE  Frames' /\ Returned' /\ pc' = "ask" /\ req' = r /\ (Clearing => Clearing')
         /\ stk'[Len(stk')].at = k
<1> USE DEF GtkInv
<1>1. /\ stk' = Append(stk, [at |-> k, req |-> req, ret |-> ret])
      /\ pc' = "ask" /\ req' = r /\ ret' = Failed /\ ret \in Answers
  BY DEF Call, Returned
<1>2. /\ Frames' /\ Len(stk) \in Nat /\ Len(stk') = Len(stk) + 1
      /\ DOMAIN stk = 1 .. Len(stk) /\ DOMAIN stk' = 1 .. Len(stk) + 1
      /\ \A i \in 1 .. Len(stk) : stk'[i] = stk[i]
      /\ stk'[Len(stk')] = [at |-> k, req |-> req, ret |-> ret]
  BY <1>1, Calling
<1>3. ASSUME NEW i \in DOMAIN stk', stk'[i].at = "disc"
      PROVE  i \in DOMAIN stk /\ stk'[i] = stk[i]
  <2>1. i # Len(stk')
    BY <1>2, <1>3
  <2> QED BY <1>2, <2>1
<1>4. Returned'
  BY <1>1, <1>3, Nothing DEF Returned
<1>5. Clearing => Clearing'
  BY <1>2 DEF Clearing
<1> QED BY <1>1, <1>2, <1>4, <1>5

LEMMA ReturnStep ==
  ASSUME GtkInv, stk # <<>>, NEW r \in Answers, Return(r),
         pc \in {"ask", "send", "read", "disc"} => Gives(req, r) /\ (~Up' => Lapsed(req, r)),
         pc \in Places \ {"conn.status", "conn.track"}
  PROVE  /\ Frames' /\ Returned' /\ pc' \in Resume /\ pc' # "read" /\ pc' # "ask"
         /\ pc # "disc" /\ Clearing => Clearing'
<1>1. Frames' /\ pc' \in Resume
  BY Returning DEF GtkInv
<1>2. Returned'
  BY GivenBack DEF GtkInv
<1>3. pc # "disc" /\ Clearing => Clearing'
  BY ClearingStays DEF GtkInv
<1> QED BY <1>1, <1>2, <1>3 DEF Resume

LEMMA SettingView ==
  ASSUME NEW v, View(v)
  PROVE  /\ \A s \in Statuses : View(playbox_buttons_enable(v, s))
         /\ \A t \in Tracks \cup {0} : View(detail_update(v, t))
         /\ \A x : View([v EXCEPT !.win = x])
BY DEF View, playbox_buttons_enable, detail_update, playbox_detail_update

LEMMA UnreachableGtk ==
  ASSUME GtkInv, Unreachable
  PROVE  GtkInv'
<1> USE DEF GtkInv
<1>1. /\ pc = "ask" /\ ~Up /\ ~Up' /\ Return(Failed)
      /\ UNCHANGED <<link, owed, answer, net, inreply, got>> /\ UNCHANGED <<queue, track, status, view, lapses>>
  BY DEF Unreachable, session, server, windows, Up
<1>2. stk # <<>> /\ pc \in Places \ {"conn.status", "conn.track"}
  BY <1>1 DEF Frames, Bottom, Places
<1>3. Frames' /\ Returned' /\ pc' # "read" /\ (Clearing => Clearing')
  BY <1>1, <1>2, Nothing, ReturnStep
<1>4. Traffic' /\ Reply'
  BY <1>1, <1>3, SessionKept DEF Reply
<1>5. Windows' /\ Cleared'
  BY <1>1, <1>3 DEF Windows, Cleared, View
<1> QED BY <1>3, <1>4, <1>5

LEMMA ConnectedGtk ==
  ASSUME GtkInv, Connected
  PROVE  GtkInv'
<1> USE DEF GtkInv
<1> DEFINE f == [at |-> "send", req |-> req, ret |-> Failed]
           g == [at |-> "conn.status", req |-> "none", ret |-> Failed]
<1>1. /\ pc = "ask" /\ ~Up /\ link' = "live"
      /\ stk' = stk \o <<f, g>>
      /\ pc' = "ask" /\ req' = "status" /\ ret' = Failed
      /\ UNCHANGED <<owed, answer, net, inreply, got>> /\ UNCHANGED <<queue, track, status, view, lapses>>
  BY DEF Connected, server
<1>2. f \in Frame /\ g \in Frame /\ stk \in Seq(Frame)
  BY Nothing DEF Frames, Frame, Requests, Resume
<1>3. f.at = "send" /\ f.req = req /\ g.at = "conn.status" /\ g.req = "none"
  OBVIOUS
<1> HIDE DEF f, g
<1>4. /\ stk' \in Seq(Frame) /\ Len(stk) \in Nat /\ Len(stk') = Len(stk) + 2
      /\ DOMAIN stk = 1 .. Len(stk) /\ DOMAIN stk' = 1 .. Len(stk) + 2
      /\ \A i \in 1 .. Len(stk) : stk'[i] = stk[i]
      /\ stk'[Len(stk) + 1] = f /\ stk'[Len(stk) + 2] = g
  <2>1. <<f, g>> \in Seq(Frame) /\ Len(<<f, g>>) = 2 /\ <<f, g>>[1] = f /\ <<f, g>>[2] = g
    BY <1>2
  <2>2. /\ stk' \in Seq(Frame) /\ Len(stk') = Len(stk) + 2
        /\ \A i \in 1 .. Len(stk) + 2 : stk'[i] = IF i <= Len(stk) THEN stk[i] ELSE <<f, g>>[i - Len(stk)]
    BY <1>1, <1>2, <2>1, ConcatProperties
  <2>3. Len(stk) \in Nat /\ DOMAIN stk = 1 .. Len(stk) /\ DOMAIN stk' = 1 .. Len(stk) + 2
    BY <1>2, <2>2, LenProperties
  <2>4. stk'[Len(stk) + 1] = f /\ stk'[Len(stk) + 2] = g
    <3>1. (Len(stk) + 1) - Len(stk) = 1 /\ (Len(stk) + 2) - Len(stk) = 2
          /\ Len(stk) + 1 \in 1 .. Len(stk) + 2 /\ Len(stk) + 2 \in 1 .. Len(stk) + 2
          /\ ~(Len(stk) + 1 <= Len(stk)) /\ ~(Len(stk) + 2 <= Len(stk))
      BY <2>3
    <3> QED BY <2>1, <2>2, <3>1
  <2>5. \A i \in 1 .. Len(stk) : stk'[i] = stk[i]
    BY <2>2, <2>3
  <2> QED BY <2>2, <2>3, <2>4, <2>5
<1>5. stk # <<>> /\ Len(stk) # 0
  <2>1. stk # <<>>
    BY <1>1 DEF Frames, Bottom
  <2> QED BY <1>2, <2>1, EmptySeq
<1>6. OnTop("send", req, stk[Len(stk)].at) /\ OnTop("conn.status", "none", "send")
      /\ OnTop("ask", "status", "conn.status")
  <2>1. OnTop("ask", req, stk[Len(stk)].at) /\ req # "status"
    BY <1>1, <1>5 DEF Frames
  <2> QED BY <2>1 DEF OnTop, Bottom, Callers
<1>7. ASSUME NEW i \in DOMAIN stk'
      PROVE  IF i = 1 THEN stk'[i].at \in Bottom ELSE OnTop(stk'[i].at, stk'[i].req, stk'[i - 1].at)
  <2>1. CASE i \in 1 .. Len(stk)
    <3>1. i # 1 => i - 1 \in 1 .. Len(stk)
      BY <1>4, <2>1
    <3> QED BY <1>4, <2>1, <3>1 DEF Frames
  <2>2. CASE i = Len(stk) + 1
    <3>1. i # 1 /\ i - 1 = Len(stk) /\ Len(stk) \in 1 .. Len(stk)
      BY <1>4, <1>5, <2>2
    <3> QED BY <1>3, <1>4, <1>6, <2>2, <3>1
  <2>3. CASE i = Len(stk) + 2
    <3>1. i # 1 /\ i - 1 = Len(stk) + 1
      BY <1>4, <1>5, <2>3
    <3> QED BY <1>3, <1>4, <1>6, <2>3, <3>1
  <2> QED BY <1>4, <2>1, <2>2, <2>3
<1>8. Frames'
  <2>1. stk' # <<>>
    BY <1>4, <1>5, EmptySeq
  <2> QED BY <1>1, <1>3, <1>4, <1>6, <1>7, <2>1 DEF Frames, Frame, Places, Bottom, Requests, Up
<1>9. ASSUME NEW i \in DOMAIN stk', stk'[i].at = "disc"
      PROVE  i \in DOMAIN stk /\ stk'[i] = stk[i]
  <2>1. i # Len(stk) + 1 /\ i # Len(stk) + 2
    BY <1>3, <1>4, <1>9
  <2> QED BY <1>4, <2>1
<1>10. Returned'
  BY <1>1, <1>9, Nothing DEF Returned
<1>11. Up' /\ pc' # "read" /\ pc # "read"
  BY <1>1 DEF Up
<1>12. Traffic' /\ Reply'
  BY <1>1, <1>11, SessionKept
<1>13. Windows' /\ Cleared'
  BY <1>1, <1>11 DEF Windows, Cleared, View
<1> QED BY <1>8, <1>10, <1>12, <1>13

LEMMA ConnStatusGtk ==
  ASSUME GtkInv, ConnStatus
  PROVE  GtkInv'
<1> USE DEF GtkInv
<1>1. /\ pc = "conn.status" /\ Call("curtrack", "conn.track")
      /\ view' = IF ret = Failed THEN view ELSE playbox_buttons_enable(view, ret[1])
      /\ UNCHANGED <<link, owed, answer, net, inreply, got>> /\ UNCHANGED <<queue, track, status, lapses>>
  BY DEF ConnStatus, session, server
<1>2. stk # <<>> /\ OnTop("conn.track", req, stk[Len(stk)].at)
  BY <1>1 DEF Frames, OnTop, Bottom
<1>3. Frames' /\ Returned' /\ pc' = "ask" /\ (Clearing => Clearing')
  <2>1. <<"curtrack", "conn.track">> \in Callers /\ "conn.track" \notin Bottom
    BY DEF Callers, Bottom
  <2> QED BY <1>1, <1>2, <2>1, CallStep
<1>4. Traffic' /\ Reply'
  BY <1>1, <1>3, SessionKept DEF Reply, Up
<1>5. View(view')
  <2>1. ret = Failed \/ ret[1] \in Statuses
    BY <1>1 DEF Returned
  <2> QED BY <1>1, <2>1, SettingView DEF Windows
<1>6. Windows'
  BY <1>1, <1>5 DEF Windows, View
<1>7. Cleared'
  <2>1. ~Up' => ~Up /\ view' = view
    BY <1>1 DEF Up, Returned
  <2> QED BY <1>1, <1>3, <2>1 DEF Cleared
<1> QED BY <1>3, <1>4, <1>6, <1>7

LEMMA ConnTrackGtk ==
  ASSUME GtkInv, ConnTrack
  PROVE  GtkInv'
<1> USE DEF GtkInv
<1>1. /\ pc = "conn.track" /\ Call("queuelist", "conn.queue")
      /\ view' = IF ret \in {Failed, <<0>>} THEN view ELSE detail_update(view, ret[1])
      /\ UNCHANGED <<link, owed, answer, net, inreply, got>> /\ UNCHANGED <<queue, track, status, lapses>>
  BY DEF ConnTrack, session, server
<1>2. stk # <<>> /\ OnTop("conn.queue", req, stk[Len(stk)].at)
  BY <1>1 DEF Frames, OnTop, Bottom
<1>3. Frames' /\ Returned' /\ pc' = "ask" /\ (Clearing => Clearing')
  <2>1. <<"queuelist", "conn.queue">> \in Callers /\ "conn.queue" \notin Bottom
    BY DEF Callers, Bottom
  <2> QED BY <1>1, <1>2, <2>1, CallStep
<1>4. Traffic' /\ Reply'
  BY <1>1, <1>3, SessionKept DEF Reply, Up
<1>5. View(view')
  <2>1. ret = Failed \/ ret[1] \in Tracks \cup {0}
    BY <1>1 DEF Returned
  <2> QED BY <1>1, <2>1, SettingView DEF Windows
<1>6. Windows'
  BY <1>1, <1>5 DEF Windows, View
<1>7. Cleared'
  <2>1. ~Up' => ~Up /\ view' = view
    BY <1>1 DEF Up, Returned
  <2> QED BY <1>1, <1>3, <2>1 DEF Cleared
<1> QED BY <1>3, <1>4, <1>6, <1>7

LEMMA ConnQueueGtk ==
  ASSUME GtkInv, ConnQueue
  PROVE  GtkInv'
<1> USE DEF GtkInv
<1>1. /\ pc = "conn.queue" /\ Return(Failed)
      /\ view' = IF ret = Failed THEN view ELSE [view EXCEPT !.win = queue_list_populate(@, ret)]
      /\ lapses' = IF Cut \in ToSet(ret) THEN {"cut"} ELSE lapses
      /\ UNCHANGED <<link, owed, answer, net, inreply, got>> /\ UNCHANGED <<queue, track, status>>
  BY DEF ConnQueue, session, server
<1>2. stk # <<>> /\ pc \in Places \ {"conn.status", "conn.track"}
  BY <1>1 DEF Frames, Bottom, Places
<1>3. Frames' /\ Returned' /\ pc' # "read" /\ (Clearing => Clearing')
  BY <1>1, <1>2, Nothing, ReturnStep
<1>4. Traffic' /\ Reply'
  BY <1>1, <1>3, SessionKept DEF Reply, Up
<1>5. View(view')
  BY <1>1, SettingView DEF Windows
<1>6. Windows'
  BY <1>1, <1>5 DEF Windows, View
<1>7. Cleared'
  <2> SUFFICES ASSUME ~Up' PROVE Cleared'
    BY DEF Cleared
  <2>1. ~Up /\ Lapsed("queuelist", ret)
    BY <1>1 DEF Up, Returned
  <2>2. /\ view.buttons = "offline" /\ view.title = 0 /\ view.slider = 0
        /\ view.win = <<>> \/ "cut" \in lapses \/ Clearing
    BY <2>1 DEF Cleared
  <2>3. view'.buttons = view.buttons /\ view'.title = view.title /\ view'.slider = view.slider
    BY <1>1 DEF Windows, View
  <2>4. CASE Cut \in ToSet(ret)
    BY <1>1, <2>2, <2>3, <2>4 DEF Cleared
  <2>5. CASE Cut \notin ToSet(ret)
    <3>1. ret = Failed
      BY <2>1, <2>5 DEF Lapsed
    <3> QED BY <1>1, <1>3, <2>2, <2>5, <3>1 DEF Cleared
  <2> QED BY <2>4, <2>5
<1> QED BY <1>3, <1>4, <1>6, <1>7

LEMMA SendGtk ==
  ASSUME GtkInv, Send
  PROVE  GtkInv'
<1> USE DEF GtkInv
<1>1. /\ pc = "send" \/ (pc = "ask" /\ Up)
      /\ lapses' = IF req = "queuelist" THEN {} ELSE lapses
      /\ UNCHANGED <<link, answer, net>> /\ UNCHANGED <<queue, track, status, view>>
  BY DEF Send, server
<1>2. stk # <<>> /\ pc \in Places \ {"conn.status", "conn.track"} /\ OnTop(pc, req, stk[Len(stk)].at)
  BY <1>1 DEF Frames, Bottom, Places
<1>3. Up' <=> Up
  BY <1>1 DEF Up
<1>4. Windows'
  BY <1>1 DEF Windows, View
<1>5. CASE req = "none" /\ Return(Failed) /\ UNCHANGED <<owed, inreply, got>>
  <2>1. Frames' /\ Returned' /\ pc' # "read" /\ (Clearing => Clearing')
    BY <1>1, <1>2, <1>5, Nothing, ReturnStep
  <2>2. Traffic' /\ Reply'
    BY <1>1, <1>3, <1>5, <2>1, SessionKept DEF Reply
  <2>3. Cleared'
    BY <1>1, <1>3, <1>5, <2>1 DEF Cleared
  <2> QED BY <1>4, <2>1, <2>2, <2>3
<1>6. CASE /\ Up /\ req # "none" /\ Goto("read")
           /\ owed' = IF link = "live" THEN req ELSE "none"
           /\ inreply' = TRUE /\ got' = <<>>
  <2>1. pc' = "read" /\ UNCHANGED <<req, ret, stk>> /\ pc # "read"
    BY <1>1, <1>6 DEF Goto
  <2>2. OnTop("read", req, stk[Len(stk)].at)
    BY <1>1, <1>2 DEF OnTop, Bottom
  <2>3. Frames'
    BY <1>2, <2>1, <2>2 DEF Frames, Places, Bottom
  <2>4. \A k \in DOMAIN net : ~IsLine(net[k])
    BY <2>1, NoLines
  <2>5. Traffic'
    <3>1. \A k \in DOMAIN net : Message(net[k])'
      BY <1>1, <2>4, MessageAnywhere DEF Traffic
    <3> QED BY <1>1, <1>3, <3>1 DEF Traffic
  <2>6. Reply'
    <3>1. answer = <<>> /\ <<>> \in Seq(Nat) /\ "none" \in Requests /\ req \in Requests
      BY <2>1, Silence, EmptySeq DEF Requests, Frames
    <3> QED BY <1>1, <1>3, <1>6, <2>1, <2>4, <3>1 DEF Reply
  <2>7. Returned'
    BY <2>1 DEF Returned
  <2>8. Cleared'
    BY <1>3, <1>6 DEF Cleared
  <2> QED BY <1>4, <2>3, <2>5, <2>6, <2>7, <2>8
<1> QED BY <1>5, <1>6 DEF Send

LEMMA ReadBroadcastGtk ==
  ASSUME GtkInv, ReadBroadcast
  PROVE  GtkInv'
<1> USE DEF GtkInv
<1>1. /\ pc = "read" /\ net # <<>> /\ ~IsLine(net[1])
      /\ net' = Tail(net) /\ view' = ShownInReply(view, net[1])
      /\ lapses' \subseteq lapses \cup {"torn"}
      /\ UNCHANGED <<queue, track, status>> /\ UNCHANGED <<link, owed, answer, inreply, got, Up>>
      /\ UNCHANGED ctl
  BY DEF ReadBroadcast, Reading, server, Up
<1>2. Traffic' /\ Reply'
  BY <1>1, BroadcastRead DEF ctl
<1>3. Frames' /\ Returned'
  BY <1>1 DEF Frames, Returned, ctl
<1>4. Up /\ Message(net[1])
  <2>1. UNCHANGED <<pc, req>>
    BY <1>1 DEF ctl
  <2> QED BY <1>1, <2>1, FirstRead
<1>5. View(view')
  BY <1>1, <1>4, Showing DEF Windows
<1>6. Windows'
  BY <1>1, <1>5 DEF Windows, View
<1>7. Cleared'
  BY <1>1, <1>4 DEF Cleared
<1> QED BY <1>2, <1>3, <1>6, <1>7

LEMMA ReadLineGtk ==
  ASSUME GtkInv, ReadLine
  PROVE  GtkInv'
<1> USE DEF GtkInv
<1>1. /\ pc = "read" /\ net # <<>> /\ IsLine(net[1]) /\ net' = Tail(net)
      /\ UNCHANGED <<queue, track, status, view, lapses>> /\ UNCHANGED <<link, owed, answer, Up>>
  BY DEF ReadLine, Reading, server, windows, Up
<1>2. 1 \in DOMAIN net /\ Up /\ Message(net[1])
  <2>1. /\ Len(net) \in Nat \ {0} /\ DOMAIN net = 1 .. Len(net)
    BY <1>1, Shifted DEF Traffic
  <2>2. 1 \in DOMAIN net
    BY <2>1
  <2> QED BY <1>1, <2>2 DEF Traffic, Up
<1>3. owed = "none"
  BY <1>1, <1>2 DEF Reply
<1>4. Windows' /\ Cleared'
  BY <1>1, <1>2 DEF Windows, View, Cleared
<1>5. CASE net[1].kind = "line"
  <2>1. /\ got' = Append(got, net[1].val) /\ UNCHANGED inreply /\ UNCHANGED ctl
        /\ req = "queuelist" /\ net[1].val \in Nat
    BY <1>2, <1>5 DEF ReadLine, Message
  <2>2. UNCHANGED <<pc, req>>
    BY <2>1 DEF ctl
  <2>3. Traffic' /\ \A k \in DOMAIN net' : k + 1 \in DOMAIN net /\ net'[k] = net[k + 1]
    BY <1>1, <2>2, FirstRead
  <2>4. got' \in Seq(Nat)
    BY <2>1, AppendProperties DEF Reply
  <2>5. Reply'
    BY <1>1, <1>3, <2>1, <2>2, <2>3, <2>4 DEF Reply
  <2>6. Frames' /\ Returned'
    BY <1>1, <2>1 DEF Frames, Returned, ctl
  <2> QED BY <1>4, <2>3, <2>5, <2>6
<1>6. CASE net[1].kind # "line"
  <2>1. /\ net[1].kind = "last" /\ got' = <<>> /\ inreply' = FALSE
        /\ Return(Append(got, net[1].val))
    BY <1>1, <1>6 DEF ReadLine, IsLine
  <2>2. \A k \in DOMAIN net : k # 1 => ~IsLine(net[k])
    <3>1. \A k \in DOMAIN net : k # 1 => 1 < k
      BY LenProperties DEF Traffic
    <3> QED BY <1>2, <2>1, <3>1 DEF Traffic
  <2>3. Traffic' /\ \A k \in DOMAIN net' : k + 1 \in DOMAIN net /\ k + 1 # 1 /\ net'[k] = net[k + 1]
    BY <1>1, <2>2, FirstRead
  <2>4. answer = <<>>
    BY <1>2, <2>1 DEF Reply
  <2> DEFINE r == Append(got, net[1].val)
  <2>5. /\ got \in Seq(Nat) /\ net[1].val \in Statuses \cup {"ok"} \cup Nat
        /\ req # "queuelist" => got = <<>>
    <3>1. net[1] \in [kind : Kinds, val : Statuses \cup {"ok"} \cup Nat]
      BY <1>1, Shifted DEF Traffic
    <3> QED BY <3>1 DEF Reply
  <2>6. r \in Answers
    <3>1. got \in Answers
      <4>1. Nat \subseteq Statuses \cup {"ok"} \cup Nat \cup {Cut}
        OBVIOUS
      <4> QED BY <2>5, <4>1, SeqMonotonic DEF Answers
    <3>2. net[1].val \in Statuses \cup {"ok"} \cup Nat \cup {Cut}
      BY <2>5
    <3> QED BY <3>1, <3>2, AppendProperties DEF Answers
  <2>7. Gives(req, r)
    <3>1. /\ req = "status" => net[1].val \in Statuses
          /\ req = "curtrack" => net[1].val \in Tracks \cup {0}
          /\ req = "queuelist" => net[1].val \in Nat
      BY <1>2, <2>1 DEF Message
    <3>2. got = <<>> => r = <<net[1].val>>
      OBVIOUS
    <3>3. req = "queuelist" => r \in Seq(Nat \cup {Cut})
      <4>1. got \in Seq(Nat \cup {Cut})
        BY <2>5, SeqMonotonic
      <4> QED BY <3>1, <4>1, AppendProperties
    <3> HIDE DEF r
    <3> QED BY <2>5, <3>1, <3>2, <3>3 DEF Gives
  <2>8. stk # <<>> /\ pc \in Places \ {"conn.status", "conn.track"}
    BY <1>1 DEF Frames, Bottom, Places
  <2>9. Frames' /\ Returned' /\ pc' # "read"
    <3>1. Return(r) /\ Up'
      BY <1>1, <1>2, <2>1
    <3> HIDE DEF r
    <3> QED BY <2>6, <2>7, <2>8, <3>1, ReturnStep
  <2>10. Reply'
    BY <1>1, <1>3, <2>1, <2>4, <2>9, EmptySeq DEF Reply
  <2> QED BY <1>4, <2>3, <2>9, <2>10
<1> QED BY <1>5, <1>6

LEMMA ReadLostGtk ==
  ASSUME GtkInv, ReadLost
  PROVE  GtkInv'
<1> DEFINE r == IF got = <<>> THEN Failed ELSE Append(got, Cut)
<1>1. pc = "read" /\ Close(r)
  BY DEF ReadLost
<1>2. r \in Answers /\ Lapsed(req, r)
  <2>1. CASE got = <<>>
    BY <2>1, Nothing
  <2>2. CASE got # <<>>
    <3>1. req = "queuelist" /\ got \in Seq(Nat \cup {Cut})
      BY <2>2, SeqMonotonic DEF GtkInv, Reply
    <3>2. r \in Seq(Nat \cup {Cut}) /\ Cut \in ToSet(r)
      <4>1. /\ Append(got, Cut) \in Seq(Nat \cup {Cut})
            /\ Len(got) \in Nat /\ DOMAIN Append(got, Cut) = 1 .. Len(got) + 1
            /\ Append(got, Cut)[Len(got) + 1] = Cut
        BY <3>1, Pushed
      <4> QED BY <2>2, <4>1 DEF ToSet
    <3>3. r \in Answers
      BY <3>2, SeqMonotonic DEF Answers
    <3> HIDE DEF r
    <3> QED BY <3>1, <3>2, <3>3 DEF Lapsed
  <2> QED BY <2>1, <2>2
<1> HIDE DEF r
<1> QED BY <1>1, <1>2, Closing2

LEMMA DisconnectedGtk ==
  ASSUME GtkInv, Disconnected
  PROVE  GtkInv'
<1> USE DEF GtkInv
<1>1. /\ pc = "disc" /\ Return(ret) /\ view' = [curlists_clear(view) EXCEPT !.win = <<>>]
      /\ lapses' = IF Up THEN lapses \cup {"wiped"} ELSE lapses
      /\ UNCHANGED <<link, owed, answer, net, inreply, got>> /\ UNCHANGED <<queue, track, status, Up>>
  BY DEF Disconnected, session, server, Up
<1>2. stk # <<>> /\ pc \in Places \ {"conn.status", "conn.track"}
  BY <1>1 DEF Frames, Bottom, Places
<1>3. Frames' /\ Returned' /\ pc' # "read"
  <2>1. ret \in Answers /\ Lapsed(req, ret)
    BY <1>1 DEF Returned
  <2> QED BY <1>1, <1>2, <2>1, LapsedGives, ReturnStep
<1>4. Traffic' /\ Reply'
  BY <1>1, <1>3, SessionKept DEF Reply
<1>5. View(view') /\ view'.win = <<>> /\ view'.buttons = view.buttons /\ view'.title = view.title
      /\ view'.slider = view.slider
  BY <1>1 DEF Windows, View, curlists_clear
<1>6. Windows'
  BY <1>1, <1>5 DEF Windows, View
<1>7. Cleared'
  BY <1>1, <1>5 DEF Cleared
<1> QED BY <1>3, <1>4, <1>6, <1>7

LEMMA RequestGtk ==
  ASSUME GtkInv, Request
  PROVE  GtkInv'
<1>1. CASE Unreachable BY <1>1, UnreachableGtk
<1>2. CASE LostEarly BY <1>2, Nothing, Closing2 DEF LostEarly
<1>3. CASE Connected BY <1>3, ConnectedGtk
<1>4. CASE ConnStatus BY <1>4, ConnStatusGtk
<1>5. CASE ConnTrack BY <1>5, ConnTrackGtk
<1>6. CASE ConnQueue BY <1>6, ConnQueueGtk
<1>7. CASE Send BY <1>7, SendGtk
<1>8. CASE SendFails BY <1>8, Nothing, Closing2 DEF SendFails
<1>9. CASE ReadBroadcast BY <1>9, ReadBroadcastGtk
<1>10. CASE ReadLine BY <1>10, ReadLineGtk
<1>11. CASE ReadLost BY <1>11, ReadLostGtk
<1>12. CASE Disconnected BY <1>12, DisconnectedGtk
<1> QED BY <1>1, <1>2, <1>3, <1>4, <1>5, <1>6, <1>7, <1>8, <1>9, <1>10, <1>11, <1>12
        DEF Request

(***************************************************************************)
(* The steps of the main loop.                                             *)
(***************************************************************************)
\* Nothing changes that the windows show of the player and the queue.
Unseen ==
  /\ view'.buttons = view.buttons /\ view'.title = view.title
  /\ view'.slider = view.slider /\ view'.win = view.win

\* A call made with nothing on the stack, or from duc_poll.
LEMMA FreshCall ==
  ASSUME GtkInv, NEW r, NEW k, Call(r, k), <<r, k>> \in Callers, r # "status",
         (k \in Bottom /\ pc \in Bottom) \/ (k = "poll.stopped" /\ pc = "poll"),
         UNCHANGED session, UNCHANGED <<queue, track, status, lapses>>,
         View(view'), ~Up => Unseen
  PROVE  GtkInv'
<1> USE DEF GtkInv
<1>1. k # "disc" /\ (k \in Bottom <=> stk = <<>>) /\ pc # "disc" /\ pc # "read"
      /\ (stk # <<>> => OnTop(k, req, stk[Len(stk)].at))
  BY DEF Frames, Bottom, OnTop
<1>2. Frames' /\ Returned' /\ pc' = "ask" /\ (Clearing => Clearing')
  BY <1>1, CallStep
<1>3. Traffic' /\ Reply'
  BY <1>1, <1>2, SessionKept DEF Reply, Up, session
<1>4. Windows'
  BY DEF Windows, View
<1>5. Cleared'
  BY <1>2 DEF Cleared, Unseen, Up, session
<1> QED BY <1>2, <1>3, <1>4, <1>5

\* Back in the main loop, or on with duc_poll.
LEMMA StaysThere ==
  ASSUME GtkInv, UNCHANGED <<req, stk>>,
         (pc \in Bottom /\ pc' = "main") \/ (pc = "poll.stopped" /\ pc' = "poll"),
         ret' \in {ret, Failed}, UNCHANGED session, UNCHANGED <<queue, track, status, lapses>>,
         View(view'), Unseen
  PROVE  GtkInv'
<1> USE DEF GtkInv
<1>1. Frames'
  BY DEF Frames, Bottom, Places, OnTop
<1>2. Returned'
  BY Nothing DEF Returned
<1>3. pc # "read" /\ pc' # "read" /\ pc # "disc"
  BY DEF Bottom
<1>4. Traffic' /\ Reply'
  BY <1>3, SessionKept DEF Reply, Up, session
<1>5. Windows'
  BY DEF Windows, View
<1>6. Clearing => Clearing'
  BY <1>3 DEF Clearing
<1>7. Cleared'
  BY <1>6 DEF Cleared, Unseen, Up, session
<1> QED BY <1>1, <1>2, <1>4, <1>5, <1>7

LEMMA WatchGtk ==
  ASSUME GtkInv, iowatch_dudl
  PROVE  GtkInv'
<1> USE DEF GtkInv
<1> DEFINE f == [at |-> "main", req |-> "none", ret |-> Failed]
<1>1. /\ pc = "main" /\ stk' = <<f>> /\ pc' = "poll" /\ UNCHANGED <<req, ret>>
      /\ UNCHANGED session /\ UNCHANGED <<queue, track, status, view, lapses>>
  BY DEF iowatch_dudl, server, windows
<1>2. stk = <<>>
  BY <1>1 DEF Frames, Bottom
<1>3. f \in Frame /\ f.at = "main"
  BY Nothing DEF Frame, Resume, Requests
<1> HIDE DEF f
<1>4. stk' \in Seq(Frame) /\ Len(stk') = 1 /\ stk'[1] = f /\ DOMAIN stk' = {1} /\ stk' # <<>>
  <2>1. stk' \in Seq(Frame) /\ Len(stk') = 1 /\ stk'[1] = f
    BY <1>1, <1>3
  <2>2. DOMAIN stk' = 1 .. 1
    BY <2>1, LenProperties
  <2>3. stk' # <<>>
    <3>1. Len(<<>>) = 0
      BY EmptySeq
    <3> QED BY <2>1, <3>1
  <2>4. 1 .. 1 = {1}
    OBVIOUS
  <2> QED BY <2>1, <2>2, <2>3, <2>4
<1>5. OnTop("poll", req, "main") /\ "main" \in Bottom
  BY DEF OnTop, Bottom
<1>6. Frames'
  BY <1>1, <1>3, <1>4, <1>5 DEF Frames, Frame, Bottom, Places
<1>7. Returned'
  BY <1>1, <1>3, <1>4 DEF Returned
<1>8. Traffic' /\ Reply'
  BY <1>1, SessionKept DEF Reply, Up, session
<1>9. Windows'
  BY <1>1 DEF Windows, View
<1>10. ~Clearing
  BY <1>1, <1>2 DEF Clearing
<1>11. Cleared'
  BY <1>1, <1>10 DEF Cleared, Up, session
<1> QED BY <1>6, <1>7, <1>8, <1>9, <1>11

LEMMA PollBroadcastGtk ==
  ASSUME GtkInv, PollBroadcast
  PROVE  GtkInv'
<1> USE DEF GtkInv
<1>1. /\ pc = "poll" /\ net # <<>> /\ net' = Tail(net)
      /\ UNCHANGED <<queue, track, status, lapses>> /\ UNCHANGED <<link, owed, answer, inreply, got, Up>>
  BY DEF PollBroadcast, server, Up
<1>2. 1 \in DOMAIN net /\ Up /\ Message(net[1]) /\ ~IsLine(net[1])
  <2>1. \A k \in DOMAIN net : ~IsLine(net[k])
    BY <1>1, NoLines
  <2> QED BY <1>1, <2>1, FirstRead
<1>3. ASSUME view' = Shown(view, net[1]) \/ view' = ShownInReply(view, net[1])
      PROVE  Windows' /\ Cleared'
  <2>1. View(view')
    BY <1>2, <1>3, Showing DEF Windows
  <2> QED BY <1>1, <1>2, <2>1 DEF Windows, View, Cleared
<1>4. CASE net[1].kind = "stopped" /\ Jumps(view)
  <2>1. view' = Shown(view, net[1]) /\ Call("do", "poll.stopped")
    BY <1>4 DEF PollBroadcast
  <2>2. /\ <<"do", "poll.stopped">> \in Callers /\ "poll.stopped" \notin Bottom /\ stk # <<>>
        /\ OnTop("poll.stopped", req, stk[Len(stk)].at)
    BY <1>1 DEF Callers, Bottom, Frames, OnTop
  <2>3. Frames' /\ Returned' /\ pc' = "ask"
    BY <1>1, <2>1, <2>2, CallStep
  <2>4. Traffic' /\ Reply'
    BY <1>1, <2>3, BroadcastRead
  <2> QED BY <1>3, <2>1, <2>3, <2>4
<1>5. CASE ~(net[1].kind = "stopped" /\ Jumps(view))
  <2>1. view' = ShownInReply(view, net[1]) /\ UNCHANGED ctl
    BY <1>5 DEF PollBroadcast
  <2>2. Frames' /\ Returned'
    BY <1>1, <2>1 DEF Frames, Returned, ctl
  <2>3. Traffic' /\ Reply'
    BY <1>1, <2>1, BroadcastRead DEF ctl
  <2> QED BY <1>3, <2>1, <2>2, <2>3
<1> QED BY <1>4, <1>5

LEMMA PollEndsGtk ==
  ASSUME GtkInv, PollEnds
  PROVE  GtkInv'
<1> USE DEF GtkInv
<1>1. /\ pc = "poll" /\ Return(Failed) /\ UNCHANGED session
      /\ UNCHANGED <<queue, track, status, view, lapses>>
  BY DEF PollEnds, server, windows
<1>2. stk # <<>> /\ pc \in Places \ {"conn.status", "conn.track"}
  BY <1>1 DEF Frames, Bottom, Places
<1>3. Frames' /\ Returned' /\ pc' # "read" /\ (Clearing => Clearing')
  BY <1>1, <1>2, Nothing, ReturnStep
<1>4. Traffic' /\ Reply'
  BY <1>1, <1>3, SessionKept DEF Reply, Up, session
<1>5. Windows' /\ Cleared'
  BY <1>1, <1>3 DEF Windows, View, Cleared, Up, session
<1> QED BY <1>3, <1>4, <1>5

LEMMA IdlesGtk ==
  ASSUME GtkInv, Idle \/ IdleTrack \/ IdleTracks \/ IdleAlbums
  PROVE  GtkInv'
<1>1. /\ pc \in Bottom /\ UNCHANGED session /\ UNCHANGED <<queue, track, status, lapses>>
  BY DEF Idle, IdleTrack, IdleTracks, IdleAlbums, Bottom, server
<1>2. View(view)
  BY DEF GtkInv, Windows
<1>3. /\ <<"curtrack", "idle.track">> \in Callers /\ <<"tracksalbum", "idle.tracks">> \in Callers
      /\ <<"albumsartist", "idle.albums">> \in Callers
      /\ {"main", "idle.track", "idle.tracks", "idle.albums"} = Bottom
  BY DEF Callers, Bottom
<1>4. CASE Idle
  <2>1. View(view') /\ Unseen
    BY <1>2, <1>4 DEF Idle, View, Unseen
  <2>2. CASE Call("curtrack", "idle.track")
    BY <1>1, <1>3, <2>1, <2>2, FreshCall
  <2>3. CASE UNCHANGED ctl
    <3>1. pc' = "main" /\ UNCHANGED <<req, stk>> /\ ret' = ret
      BY <1>4, <2>3 DEF Idle, ctl
    <3> QED BY <1>1, <2>1, <3>1, StaysThere
  <2> QED BY <1>4, <2>2, <2>3 DEF Idle
<1>5. CASE IdleTrack
  <2>1. View(view') /\ Unseen
    BY <1>2, <1>5 DEF IdleTrack, Unseen, View
  <2>2. CASE Call("tracksalbum", "idle.tracks")
    BY <1>1, <1>3, <2>1, <2>2, FreshCall
  <2>3. CASE pc' = "main" /\ ret' = Failed /\ UNCHANGED <<req, stk>>
    BY <1>1, <2>1, <2>3, StaysThere
  <2> QED BY <1>5, <2>2, <2>3 DEF IdleTrack
<1>6. CASE IdleTracks
  <2>1. View(view') /\ Unseen
    BY <1>2, <1>6 DEF IdleTracks, View, Unseen
  <2>2. Call("albumsartist", "idle.albums")
    BY <1>6 DEF IdleTracks
  <2> QED BY <1>1, <1>3, <2>1, <2>2, FreshCall
<1>7. CASE IdleAlbums
  <2>1. View(view') /\ Unseen
    BY <1>2, <1>7 DEF IdleAlbums, View, Unseen
  <2>2. pc' = "main" /\ ret' = Failed /\ UNCHANGED <<req, stk>>
    BY <1>7 DEF IdleAlbums
  <2> QED BY <1>1, <2>1, <2>2, StaysThere
<1> QED BY <1>4, <1>5, <1>6, <1>7

LEMMA UserGtk ==
  ASSUME GtkInv, Start \/ Click \/ ctl_prog__changed
  PROVE  GtkInv'
<1>1. /\ pc = "main" /\ pc \in Bottom /\ UNCHANGED session
      /\ UNCHANGED <<queue, track, status, lapses>>
      /\ Call("none", "main") \/ Call("do", "main")
  BY DEF Start, Click, ctl_prog__changed, Bottom, server, windows
<1>2. <<"none", "main">> \in Callers /\ <<"do", "main">> \in Callers /\ "main" \in Bottom
  BY DEF Callers, Bottom
<1>3. View(view) /\ (~Up => view.buttons = "offline")
  BY DEF GtkInv, Windows, Cleared
<1>4. View(view') /\ (~Up => Unseen)
  <2>1. CASE ctl_prog__changed
    BY <1>3, <2>1 DEF ctl_prog__changed, View
  <2>2. CASE Start \/ Click
    <3>1. view' = view
      BY <2>2 DEF Start, Click, windows
    <3> QED BY <1>3, <3>1 DEF Unseen, View
  <2> QED BY <2>1, <2>2
<1> QED BY <1>1, <1>2, <1>4, FreshCall

LEMMA PollStoppedGtk ==
  ASSUME GtkInv, PollStopped
  PROVE  GtkInv'
<1>1. /\ pc = "poll.stopped" /\ pc' = "poll" /\ UNCHANGED <<req, ret, stk>> /\ UNCHANGED session
      /\ UNCHANGED <<queue, track, status, lapses>> /\ view' = curlists_clear(view)
  BY DEF PollStopped, Goto, server
<1>2. View(view') /\ Unseen
  BY <1>1 DEF GtkInv, Windows, View, curlists_clear, Unseen
<1> QED BY <1>1, <1>2, StaysThere

LEMMA MainLoopGtk ==
  ASSUME GtkInv, MainLoop
  PROVE  GtkInv'
<1>1. CASE Start \/ Click \/ ctl_prog__changed BY <1>1, UserGtk
<1>2. CASE iowatch_dudl BY <1>2, WatchGtk
<1>3. CASE PollBroadcast BY <1>3, PollBroadcastGtk
<1>4. CASE PollStopped BY <1>4, PollStoppedGtk
<1>5. CASE PollLost BY <1>5, Nothing, Closing2 DEF PollLost
<1>6. CASE PollEnds BY <1>6, PollEndsGtk
<1>7. CASE Idle \/ IdleTrack \/ IdleTracks \/ IdleAlbums BY <1>7, IdlesGtk
<1> QED BY <1>1, <1>2, <1>3, <1>4, <1>5, <1>6, <1>7 DEF MainLoop

LEMMA InitGtk == Init => GtkInv
<1> SUFFICES ASSUME Init PROVE GtkInv
  OBVIOUS
<1> USE DEF Init
<1>1. /\ \A S : <<>> \in Seq(S) /\ DOMAIN <<>> = {} /\ Len(<<>>) = 0
      /\ Room \in Nat /\ Failed \in Answers
  BY EmptySeq, GtkAssumption, Nothing
<1>2. Frames
  BY <1>1 DEF Frames, Bottom, Places, Requests
<1>3. Traffic
  BY <1>1 DEF Traffic
<1>4. Reply
  BY <1>1 DEF Reply, Requests, Up
<1>5. Returned
  BY <1>1 DEF Returned
<1>6. Windows
  <2>1. queue \in Seq(Entries)
    <3>1. CASE queue = <<>> BY <1>1, <3>1
    <3>2. CASE \E e \in Entries : queue = <<e>> BY <3>2
    <3> QED BY <3>1, <3>2
  <2>2. \A t \in Tracks : t # 0
    BY GtkAssumption
  <2>3. View(view)
    BY DEF Blank, View
  <2> QED BY <2>1, <2>2, <2>3 DEF Windows, Statuses
<1>7. Cleared
  BY DEF Cleared, Blank
<1> QED BY <1>2, <1>3, <1>4, <1>5, <1>6, <1>7 DEF GtkInv

LEMMA NextGtk == GtkInv /\ [Next]_vars => GtkInv'
<1> SUFFICES ASSUME GtkInv, [Next]_vars PROVE GtkInv'
  OBVIOUS
<1>1. CASE Server BY <1>1, ChangesGtk, AnswersGtk, HangsUpGtk DEF Server
<1>2. CASE Request BY <1>2, RequestGtk
<1>3. CASE MainLoop BY <1>3, MainLoopGtk
<1>4. CASE UNCHANGED vars
  <2>1. UNCHANGED <<windows, ctl, Up>> /\ UNCHANGED session /\ UNCHANGED server
        /\ UNCHANGED <<pc, req, stk, ret>>
    BY <1>4 DEF vars, ctl, Up, session
  <2>2. Frames' /\ Returned' /\ Cleared' /\ View(view)'
    BY <2>1, Undisturbed
  <2>3. Traffic'
    BY <2>1 DEF GtkInv, Traffic, Message, Up, session
  <2>4. Reply'
    BY <2>1 DEF GtkInv, Reply, Up, session
  <2>5. Windows'
    BY <2>1, <2>2 DEF GtkInv, Windows, server, windows
  <2> QED BY <2>2, <2>3, <2>4, <2>5 DEF GtkInv
<1> QED BY <1>1, <1>2, <1>3, <1>4 DEF Next

LEMMA GtkInvariant == Spec => []GtkInv
BY InitGtk, NextGtk, PTL DEF Spec

(***************************************************************************)
(* However deep handlers are nested, a reply is read where one was asked   *)
(* for, and what is shown is something the player can be.                  *)
(***************************************************************************)
THEOREM GtkTypeCorrect == Spec => []TypeOK
<1>1. GtkInv => TypeOK
  BY DEF GtkInv, Frames, Traffic, Reply, Windows, View, TypeOK, Statuses
<1> QED BY <1>1, GtkInvariant, PTL

(***************************************************************************)
(* Back in the main loop without a connection nothing is shown: ev_disc    *)
(* clears what its own jump let a new connection fill (gtk/playbox.c:107). *)
(***************************************************************************)
THEOREM OfflineIsBlank == Spec => []OfflineShown
<1>1. GtkInv => OfflineShown
  <2> SUFFICES ASSUME GtkInv, pc = "main", ~Up
               PROVE  /\ view.buttons = "offline" /\ view.title = 0 /\ view.slider = 0
                      /\ view.win = <<>> \/ "cut" \in lapses
    BY DEF OfflineShown
  <2>1. stk = <<>>
    BY DEF GtkInv, Frames, Bottom
  <2>2. ~Clearing
    BY <2>1 DEF Clearing
  <2> QED BY <2>2 DEF GtkInv, Cleared
<1> QED BY <1>1, GtkInvariant, PTL

(***************************************************************************)
(* The buttons and the title follow the player.                            *)
(***************************************************************************)
Current ==
  /\ Leads("buttons", net, 1, view.buttons, status)
  /\ Leads("title", net, 1, view.title, track)

\* Outside the questions of ev_conn nothing but what is under way is missing.
LEMMA Settled ==
  ASSUME PlayerInv, link = "live", ~AsksStatus, ~AsksTrack,
         pc \in {"conn.status", "conn.track"} => ret = Failed
  PROVE  Leads("buttons", net, 1, view.buttons, status)
         /\ (pc # "conn.status" => Current)
BY DEF PlayerInv, Buttons, Title, Current

LEMMA Settles ==
  ASSUME (link = "live" => Current)', ~AsksStatus',
         (AsksTrack /\ pc = "read" => owed # "none")',
         (pc \in {"conn.status", "conn.track"} => ret = Failed)'
  PROVE  PlayerInv'
BY DEF PlayerInv, Buttons, Title, Current

\* A line is no news.
LEMMA LineIsNoNews ==
  ASSUME NEW m, IsLine(m)
  PROVE  \A x : m.kind \notin About(x)
BY DEF IsLine, About

LEMMA ReadOn ==
  ASSUME Traffic, net # <<>>, net' = Tail(net), NEW x, NEW b, NEW c, NEW v,
         c = IF net[1].kind \in About(x) THEN Says(x, net[1]) ELSE b
  PROVE  /\ Leads(x, net, 1, b, v) => Leads(x, net', 1, c, v)
         /\ \A k \in DOMAIN net : \A w : Leads(x, net, k + 1, w, v) => Leads(x, net', k, w, v)
<1>1. Leads(x, net, 1, b, v) => Leads(x, net', 1, c, v)
  BY LeadsRead DEF Traffic
<1>2. ASSUME NEW k \in DOMAIN net, NEW w, Leads(x, net, k + 1, w, v) PROVE Leads(x, net', k, w, v)
  <2>1. Len(net) \in Nat /\ DOMAIN net = 1 .. Len(net)
    BY LenProperties DEF Traffic
  <2>2. k + 1 \in 2 .. Len(net) + 1 /\ (k + 1) - 1 = k
    BY <2>1
  <2>3. Leads(x, Tail(net), (k + 1) - 1, w, v)
    BY <1>2, <2>2, LeadsShifted DEF Traffic
  <2> QED BY <2>2, <2>3
<1> QED BY <1>1, <1>2

\* The server's news are what the player is now.
LEMMA NewsIsTrue ==
  ASSUME GtkInv, ServerChanges, link = "live"
  PROVE  \E m : /\ net' = Append(net, m)
                /\ m \in [kind : Kinds, val : Statuses \cup {"ok"} \cup Nat]
                /\ IF m.kind \in About("buttons") THEN Says("buttons", m) = status'
                   ELSE status' = status
                /\ IF m.kind \in About("title") THEN Says("title", m) = track'
                   ELSE track' = track
<1> DEFINE News(m) == /\ net' = Append(net, m)
                      /\ m \in [kind : Kinds, val : Statuses \cup {"ok"} \cup Nat]
                      /\ IF m.kind \in About("buttons") THEN Says("buttons", m) = status'
                         ELSE status' = status
                      /\ IF m.kind \in About("title") THEN Says("title", m) = track'
                         ELSE track' = track
<1> USE DEF About, Says
<1>1. ASSUME NEW name \in Kinds, NEW val \in Nat, Tell(name, val),
             IF name \in About("buttons") THEN Says("buttons", [kind |-> name, val |-> val]) = status'
             ELSE status' = status,
             IF name \in About("title") THEN Says("title", [kind |-> name, val |-> val]) = track'
             ELSE track' = track
      PROVE  \E m : News(m)
  <2> DEFINE n == [kind |-> name, val |-> val]
  <2>1. n.kind = name /\ n \in [kind : Kinds, val : Statuses \cup {"ok"} \cup Nat]
    OBVIOUS
  <2>2. net' = Append(net, n)
    BY <1>1 DEF Tell
  <2> HIDE DEF n
  <2>3. IF n.kind \in About("buttons") THEN Says("buttons", n) = status' ELSE status' = status
    BY <1>1, <2>1 DEF n
  <2>4. IF n.kind \in About("title") THEN Says("title", n) = track' ELSE track' = track
    BY <1>1, <2>1 DEF n
  <2> QED BY <2>1, <2>2, <2>3, <2>4
<1> HIDE DEF News
<1>2. Tracks \subseteq Nat /\ Entries \subseteq Nat
  BY GtkAssumption
<1>3. ASSUME NEW t \in Tracks, track' = t, status' = "play", Tell("nexttrack", t)
      PROVE  \E m : News(m)
  BY <1>1, <1>2, <1>3 DEF Kinds
<1>4. ASSUME track' = 0, status' = "stop", Tell("stopped", 0)
      PROVE  \E m : News(m)
  BY <1>1, <1>4 DEF Kinds
<1>5. ASSUME status' = "pause", Tell("paused", 0), UNCHANGED track
      PROVE  \E m : News(m)
  BY <1>1, <1>5 DEF Kinds
<1>6. ASSUME status' = "play", Tell("resumed", 0), UNCHANGED track
      PROVE  \E m : News(m)
  BY <1>1, <1>6 DEF Kinds
<1>7. ASSUME NEW name \in {"elapsed", "queueadd", "queuefetch", "queuedel", "queueclear"},
             NEW val \in Nat, Tell(name, val), UNCHANGED <<track, status>>
      PROVE  \E m : News(m)
  BY <1>1, <1>7 DEF Kinds
<1>8. \A i \in 1 .. Len(queue) : queue[i] \in Nat
  BY <1>2, Taken DEF GtkInv, Windows
<1>9. \E m : News(m)
  <2> HIDE DEF About, Says
  <2> QED BY <1>2, <1>3, <1>4, <1>5, <1>6, <1>7, <1>8 DEF ServerChanges
<1> QED BY <1>9 DEF News

LEMMA ChangesPlayer ==
  ASSUME GtkInv, PlayerInv, ServerChanges
  PROVE  PlayerInv'
<1> SUFFICES ASSUME link = "live" PROVE PlayerInv'
  BY DEF PlayerInv, Buttons, Title, ServerChanges
<1>1. UNCHANGED <<link, owed, view, pc, req, ret, stk>>
  BY DEF ServerChanges, windows, ctl
<1>2. PICK m : /\ net' = Append(net, m)
               /\ m \in [kind : Kinds, val : Statuses \cup {"ok"} \cup Nat]
               /\ IF m.kind \in About("buttons") THEN Says("buttons", m) = status'
                  ELSE status' = status
               /\ IF m.kind \in About("title") THEN Says("title", m) = track'
                  ELSE track' = track
  BY NewsIsTrue
<1>3. /\ Len(net) \in Nat /\ DOMAIN net = 1 .. Len(net) /\ DOMAIN net' = 1 .. Len(net) + 1
      /\ \A i \in 1 .. Len(net) : net'[i] = net[i]
  BY <1>2, Pushed DEF GtkInv, Traffic
<1>4. \A i \in DOMAIN net : i \in DOMAIN net' /\ net'[i] = net[i] /\ i + 1 \in 1 .. Len(net) + 1
  BY <1>3
<1>5. 1 \in 1 .. Len(net) + 1
  BY <1>3
<1>6. \A i \in 1 .. Len(net) + 1 : \A b :
        /\ Leads("buttons", net, i, b, status) => Leads("buttons", net', i, b, status')
        /\ Leads("title", net, i, b, track) => Leads("title", net', i, b, track')
        /\ Leads("title", net, i, b, 0) =>
             Leads("title", net', i, b, track') \/ Leads("title", net', i, b, 0)
  <2> SUFFICES ASSUME NEW i \in 1 .. Len(net) + 1, NEW b
               PROVE  /\ Leads("buttons", net, i, b, status) => Leads("buttons", net', i, b, status')
                      /\ Leads("title", net, i, b, track) => Leads("title", net', i, b, track')
                      /\ Leads("title", net, i, b, 0) =>
                           Leads("title", net', i, b, track') \/ Leads("title", net', i, b, 0)
    OBVIOUS
  <2>1. \A x, v : /\ m.kind \in About(x) => Leads(x, net', i, b, Says(x, m))
                  /\ m.kind \notin About(x) /\ Leads(x, net, i, b, v) => Leads(x, net', i, b, v)
    BY <1>2, LeadsAdded DEF GtkInv, Traffic
  <2> QED BY <1>2, <2>1
<1>7. Buttons'
  BY <1>1, <1>4, <1>5, <1>6 DEF PlayerInv, Buttons, AsksStatus
<1>8. Title'
  <2>1. \A i \in 1 .. Len(net) + 1 : \A v : TitleTold(net, i, v) =>
          IF v = 0 THEN Leads("title", net', 1, view'.title, track') ELSE Leads("title", net', i, v, track')
    BY <1>1, <1>5, <1>6 DEF TitleTold
  <2>2. (AsksStatus' <=> AsksStatus) /\ (AsksTrack' <=> AsksTrack)
    BY <1>1 DEF AsksStatus, AsksTrack
  <2> QED BY <1>1, <1>4, <1>5, <1>6, <2>1, <2>2 DEF PlayerInv, Title, TitleTold
<1> QED BY <1>7, <1>8 DEF PlayerInv

LEMMA AnswersPlayer ==
  ASSUME GtkInv, PlayerInv, ServerAnswers
  PROVE  PlayerInv'
<1> DEFINE lines == IF owed # "none" THEN Lines(owed) ELSE answer
           m == [kind |-> IF Len(lines) = 1 THEN "last" ELSE "line", val |-> Head(lines)]
<1>1. /\ link = "live" /\ (owed # "none" \/ answer # <<>>)
      /\ net' = Append(net, m) /\ owed' = "none"
      /\ UNCHANGED <<link, view, pc, req, ret, stk>> /\ UNCHANGED <<status, track>>
  BY DEF ServerAnswers, windows, ctl, server
<1>2. /\ pc = "read" /\ IsLine(m)
      /\ m \in [kind : Kinds, val : Statuses \cup {"ok"} \cup Nat]
      /\ req = "status" => m.kind = "last" /\ m.val = status
      /\ req = "curtrack" => m.kind = "last" /\ m.val = track
  <2> HIDE DEF m, lines
  <2>1. lines = IF owed # "none" THEN Lines(owed) ELSE answer
    BY DEF lines
  <2>2. m = [kind |-> IF Len(lines) = 1 THEN "last" ELSE "line", val |-> Head(lines)]
    BY DEF m
  <2> QED BY <1>1, <2>1, <2>2, Answering
<1> HIDE DEF m, lines
<1>3. /\ Len(net) \in Nat /\ Len(net') = Len(net) + 1 /\ DOMAIN net' = 1 .. Len(net) + 1
      /\ net'[Len(net) + 1] = m
  BY <1>1, <1>2, Pushed DEF GtkInv, Traffic
<1>4. Len(net) + 1 \in DOMAIN net' /\ 1 \in 1 .. Len(net) + 1
  BY <1>3
<1>5. \A x, b, v : Leads(x, net, 1, b, v) => Leads(x, net', 1, b, v)
  BY <1>1, <1>2, <1>4, LeadsAdded, LineIsNoNews DEF GtkInv, Traffic
<1>6. \A x, v : Leads(x, net', (Len(net) + 1) + 1, v, v)
  BY <1>3 DEF Leads, Silent
<1>7. Buttons'
  BY <1>1, <1>2, <1>3, <1>4, <1>5, <1>6 DEF PlayerInv, Buttons, AsksStatus
<1>8. Title'
  <2>1. (AsksStatus' <=> AsksStatus) /\ (AsksTrack' <=> AsksTrack)
    BY <1>1 DEF AsksStatus, AsksTrack
  <2>2. \/ Leads("title", net, 1, view.title, track)
        \/ (AsksStatus \/ AsksTrack) /\ Leads("title", net, 1, view.title, 0)
    BY <1>1, <1>2 DEF PlayerInv, Title
  <2>3. AsksTrack => net'[Len(net) + 1].kind = "last" /\ net'[Len(net) + 1].val = track
    BY <1>2, <1>3 DEF AsksTrack
  <2>4. track = 0 => Leads("title", net', 1, view.title, track)
    BY <1>5, <2>2
  <2>5. /\ Leads("title", net, 1, view.title, track) => Leads("title", net', 1, view'.title, track')
        /\ Leads("title", net, 1, view.title, 0) => Leads("title", net', 1, view'.title, 0)
    BY <1>1, <1>5
  <2>6. Leads("title", net', (Len(net) + 1) + 1, track, track')
    BY <1>1, <1>6
  <2>7. pc' = "read"
    BY <1>1, <1>2
  <2> QED BY <1>1, <1>4, <2>1, <2>2, <2>3, <2>4, <2>5, <2>6, <2>7 DEF Title, TitleTold
<1> QED BY <1>7, <1>8 DEF PlayerInv

\* A function that is not ev_conn's goes on, calls or returns.
LEMMA StaysCurrent ==
  ASSUME PlayerInv, ~AsksStatus, ~AsksTrack, pc \notin {"conn.status", "conn.track"},
         UNCHANGED <<link, net, status, track>>,
         view'.buttons = view.buttons, view'.title = view.title,
         ~AsksStatus', (AsksTrack /\ pc = "read" /\ link = "live" => owed # "none")',
         (pc \in {"conn.status", "conn.track"} /\ link = "live" => ret = Failed)'
  PROVE  PlayerInv'
<1>1. (link = "live" => Current)'
  BY Settled DEF Current
<1> QED BY <1>1 DEF Current, PlayerInv, Buttons, Title

\* Where a request returns to, its question is over.
LEMMA BackFromRequest ==
  ASSUME GtkInv, stk # <<>>, NEW r, Return(r), pc \in {"ask", "send", "read", "disc"}
  PROVE  /\ pc' \notin {"ask", "read"} /\ ~AsksStatus' /\ ~AsksTrack'
         /\ pc' = "conn.status" => req = "status" /\ ret' = r
         /\ pc' = "conn.track" => req = "curtrack" /\ ret' = r /\ stk[Len(stk)].at = "conn.track"
         /\ req = "status" /\ pc # "disc" => pc' = "conn.status"
<1>1. /\ OnTop(pc, req, pc') /\ pc' \in Resume /\ pc' = stk[Len(stk)].at
      /\ ret' = IF pc' \in {"main", "poll.stopped", "disc"} THEN stk[Len(stk)].ret ELSE r
  BY Returning DEF GtkInv
<1>2. ~AsksStatus' /\ ~AsksTrack' /\ pc' \notin {"ask", "read"}
  BY <1>1 DEF AsksStatus, AsksTrack, Resume
<1>3. <<req, pc'>> \in Callers \/ pc' = "main" \/ pc = "send"
  BY <1>1 DEF OnTop
<1>4. <<req, pc'>> \in Callers \/ pc' = "main"
  BY <1>1, <1>3 DEF OnTop
<1>5. req = "status" /\ pc # "disc" => <<req, pc'>> \in Callers
  BY <1>1 DEF OnTop
<1> QED BY <1>1, <1>2, <1>4, <1>5 DEF Callers

LEMMA ConnectedPlayer ==
  ASSUME GtkInv, Connected
  PROVE  PlayerInv'
<1>1. /\ ~Up /\ pc' = "ask" /\ req' = "status" /\ UNCHANGED <<net, view>>
  BY DEF Connected
<1>2. net = <<>> /\ view.title = 0
  BY <1>1 DEF GtkInv, Traffic, Cleared
<1>3. \A k \in 1 .. Len(net) : FALSE
  BY <1>2
<1>4. Leads("title", net', 1, view'.title, 0)
  BY <1>1, <1>2, <1>3 DEF Leads, Silent
<1>5. AsksStatus' /\ ~AsksTrack' /\ pc' # "read"
  BY <1>1 DEF AsksStatus, AsksTrack
<1> QED BY <1>1, <1>4, <1>5 DEF PlayerInv, Buttons, Title

LEMMA ConnStatusPlayer ==
  ASSUME GtkInv, PlayerInv, ConnStatus
  PROVE  PlayerInv'
<1>1. /\ pc = "conn.status" /\ Call("curtrack", "conn.track")
      /\ view' = IF ret = Failed THEN view ELSE playbox_buttons_enable(view, ret[1])
      /\ UNCHANGED <<link, net, status, track>>
  BY DEF ConnStatus, session, server
<1>2. stk # <<>> /\ OnTop("conn.track", req, stk[Len(stk)].at)
  BY <1>1 DEF GtkInv, Frames, OnTop, Bottom
<1>3. pc' = "ask" /\ req' = "curtrack" /\ stk'[Len(stk')].at = "conn.track"
  <2>1. <<"curtrack", "conn.track">> \in Callers /\ "conn.track" \notin Bottom
    BY DEF Callers, Bottom
  <2> QED BY <1>1, <1>2, <2>1, CallStep
<1>4. ~AsksStatus' /\ AsksTrack' /\ ~AsksStatus
  BY <1>1, <1>3 DEF AsksStatus, AsksTrack
<1>5. /\ view'.buttons = IF ret = Failed THEN view.buttons ELSE ret[1]
      /\ view'.title = view.title
  BY <1>1 DEF GtkInv, Windows, View, playbox_buttons_enable
<1>6. Buttons'
  BY <1>1, <1>3, <1>4, <1>5 DEF PlayerInv, Buttons
<1>7. Title'
  BY <1>1, <1>3, <1>4, <1>5 DEF PlayerInv, Title
<1> QED BY <1>6, <1>7 DEF PlayerInv

LEMMA ConnTrackPlayer ==
  ASSUME GtkInv, PlayerInv, ConnTrack
  PROVE  PlayerInv'
<1>1. /\ pc = "conn.track" /\ Call("queuelist", "conn.queue")
      /\ view' = IF ret \in {Failed, <<0>>} THEN view ELSE detail_update(view, ret[1])
      /\ UNCHANGED <<link, net, status, track>>
  BY DEF ConnTrack, session, server
<1>2. pc' = "ask" /\ req' = "queuelist"
  BY <1>1 DEF Call
<1>3. ~AsksStatus' /\ ~AsksTrack' /\ ~AsksStatus /\ ~AsksTrack
  BY <1>1, <1>2 DEF AsksStatus, AsksTrack
<1>4. PICK t \in Tracks \cup {0} : ret = Failed \/ ret = <<t>>
  BY <1>1 DEF GtkInv, Returned
<1>5. <<t>> # Failed /\ <<t>>[1] = t /\ (<<t>> = <<0>> => t = 0)
  <2>1. Len(<<t>>) = 1 /\ Len(<<>>) = 0 /\ <<0>>[1] = 0 /\ <<t>>[1] = t
    BY EmptySeq
  <2> QED BY <2>1 DEF Failed
<1>6. /\ view'.buttons = view.buttons
      /\ view'.title = IF ret = Failed \/ t = 0 THEN view.title ELSE t
  BY <1>1, <1>4, <1>5 DEF GtkInv, Windows, View, detail_update, playbox_detail_update
<1>7. ASSUME link = "live" PROVE Current'
  <2>1. Leads("buttons", net, 1, view.buttons, status)
    BY <1>1, <1>3, <1>7 DEF PlayerInv, Buttons
  <2>2. CASE ret = Failed
    <3>1. Leads("title", net, 1, view.title, track)
      BY <1>1, <1>3, <1>7, <2>2 DEF PlayerInv, Title
    <3> QED BY <1>1, <1>6, <2>1, <2>2, <3>1 DEF Current
  <2>3. CASE ret # Failed
    <3>1. TitleTold(net, 1, ret[1]) /\ ret[1] = t
      BY <1>1, <1>4, <1>5, <1>7, <2>3 DEF PlayerInv, Title
    <3> QED BY <1>1, <1>6, <2>1, <2>3, <3>1 DEF TitleTold, Current
  <2> QED BY <2>2, <2>3
<1>8. (link = "live" => Current)'
  BY <1>1, <1>7
<1>9. (pc \in {"conn.status", "conn.track"} => ret = Failed)' /\ (AsksTrack /\ pc = "read" => owed # "none")'
  BY <1>2, <1>3
<1> QED BY <1>3, <1>8, <1>9, Settles

LEMMA SendPlayer ==
  ASSUME GtkInv, PlayerInv, Send
  PROVE  PlayerInv'
<1>1. /\ pc = "send" \/ (pc = "ask" /\ Up)
      /\ UNCHANGED <<link, net, status, track, view>>
  BY DEF Send, server
<1>2. stk # <<>> /\ (pc = "send" => req # "status")
  BY <1>1 DEF GtkInv, Frames, Bottom, OnTop
<1>3. CASE req = "none" /\ Return(Failed)
  <2>1. ~AsksStatus /\ ~AsksTrack
    BY <1>3 DEF AsksStatus, AsksTrack
  <2>2. ~AsksStatus' /\ ~AsksTrack' /\ (pc' \in {"conn.status", "conn.track"} => ret' = Failed)
    BY <1>1, <1>2, <1>3, BackFromRequest
  <2> QED BY <1>1, <2>1, <2>2, StaysCurrent
<1>4. CASE Goto("read") /\ req # "none" /\ owed' = IF link = "live" THEN req ELSE "none"
  <2>1. pc' = "read" /\ UNCHANGED <<req, ret, stk>>
    BY <1>4 DEF Goto
  <2>2. link = "live" => owed' # "none"
    BY <1>4
  <2>3. AsksStatus' <=> AsksStatus
    BY <1>1, <1>2, <2>1 DEF AsksStatus
  <2>4. AsksTrack => AsksTrack'
    BY <2>1 DEF AsksTrack
  <2>5. pc' \notin {"conn.status", "conn.track"} /\ pc \notin {"conn.status", "conn.track"}
    BY <1>1, <2>1
  <2>6. Buttons'
    BY <1>1, <2>2, <2>3, <2>5 DEF PlayerInv, Buttons
  <2>7. Title'
    BY <1>1, <2>2, <2>3, <2>4, <2>5 DEF PlayerInv, Title
  <2> QED BY <2>6, <2>7 DEF PlayerInv
<1> QED BY <1>3, <1>4 DEF Send

LEMMA ReadBroadcastPlayer ==
  ASSUME GtkInv, PlayerInv, ReadBroadcast
  PROVE  PlayerInv'
<1>1. /\ pc = "read" /\ net # <<>> /\ ~IsLine(net[1])
      /\ net' = Tail(net) /\ view' = ShownInReply(view, net[1])
      /\ UNCHANGED <<link, owed, status, track>> /\ UNCHANGED <<pc, req, ret, stk>>
  BY DEF ReadBroadcast, Reading, server, ctl
<1>2. /\ Message(net[1])
      /\ \A k \in DOMAIN net' : k + 1 \in DOMAIN net /\ net'[k] = net[k + 1]
  BY <1>1, FirstRead DEF GtkInv
<1>3. /\ view'.buttons = IF net[1].kind \in About("buttons") THEN Says("buttons", net[1]) ELSE view.buttons
      /\ view'.title = IF net[1].kind \in About("title") THEN Says("title", net[1]) ELSE view.title
  BY <1>1, <1>2, Showing DEF GtkInv, Windows
<1>4. /\ \A v : Leads("buttons", net, 1, view.buttons, v) => Leads("buttons", net', 1, view'.buttons, v)
      /\ \A v : Leads("title", net, 1, view.title, v) => Leads("title", net', 1, view'.title, v)
      /\ \A k \in DOMAIN net : \A x, w, v : Leads(x, net, k + 1, w, v) => Leads(x, net', k, w, v)
  BY <1>1, <1>3, ReadOn DEF GtkInv
<1>5. ASSUME NEW k \in DOMAIN net, net[k].kind = "last"
      PROVE  k - 1 \in DOMAIN net' /\ net'[k - 1] = net[k] /\ (k - 1) + 1 = k
  <2>1. /\ Len(net) \in Nat \ {0} /\ DOMAIN net = 1 .. Len(net) /\ DOMAIN net' = 1 .. Len(net) - 1
        /\ \A i \in 1 .. Len(net) - 1 : net'[i] = net[i + 1]
    BY <1>1, Shifted DEF GtkInv, Traffic
  <2>2. k # 1
    BY <1>1, <1>5 DEF IsLine
  <2>3. k - 1 \in 1 .. Len(net) - 1 /\ (k - 1) + 1 = k
    BY <2>1, <2>2
  <2> QED BY <2>1, <2>3
<1>6. (AsksStatus' <=> AsksStatus) /\ (AsksTrack' <=> AsksTrack)
  BY <1>1 DEF AsksStatus, AsksTrack
<1>7. Buttons'
  <2>1. ASSUME link = "live", AsksStatus, owed = "none"
        PROVE  \E k \in DOMAIN net' :
                 net'[k].kind = "last" /\ Leads("buttons", net', k + 1, net'[k].val, status)
    <3>1. PICK k \in DOMAIN net :
            net[k].kind = "last" /\ Leads("buttons", net, k + 1, net[k].val, status)
      BY <1>1, <2>1 DEF PlayerInv, Buttons
    <3>2. Leads("buttons", net', k, net[k].val, status)
      BY <1>4, <3>1
    <3> QED BY <1>5, <3>1, <3>2
  <2> QED BY <1>1, <1>4, <1>6, <2>1 DEF PlayerInv, Buttons
<1>8. Title'
  <2>1. ASSUME link = "live", AsksTrack, owed = "none"
        PROVE  \E k \in DOMAIN net' : net'[k].kind = "last" /\ (TitleTold(net, k + 1, net[k].val))'
    <3>1. PICK k \in DOMAIN net : net[k].kind = "last" /\ TitleTold(net, k + 1, net[k].val)
      BY <1>1, <2>1 DEF PlayerInv, Title
    <3>2. IF net[k].val = 0 THEN Leads("title", net', 1, view'.title, track)
          ELSE Leads("title", net', k, net[k].val, track)
      BY <1>4, <3>1 DEF TitleTold
    <3>3. (TitleTold(net, (k - 1) + 1, net[k - 1].val))'
      BY <1>1, <1>5, <3>1, <3>2 DEF TitleTold
    <3> QED BY <1>5, <3>1, <3>3
  <2> QED BY <1>1, <1>4, <1>6, <2>1 DEF PlayerInv, Title
<1> QED BY <1>7, <1>8 DEF PlayerInv

LEMMA ReadLinePlayer ==
  ASSUME GtkInv, PlayerInv, ReadLine
  PROVE  PlayerInv'
<1> SUFFICES ASSUME link = "live" PROVE PlayerInv'
  BY DEF ReadLine, PlayerInv, Buttons, Title
<1>1. /\ pc = "read" /\ net # <<>> /\ IsLine(net[1]) /\ net' = Tail(net)
      /\ UNCHANGED <<link, view, owed, status, track>>
  BY DEF ReadLine, Reading, server, windows
<1>2. 1 \in DOMAIN net /\ Message(net[1]) /\ \A k \in DOMAIN net : k # 1 => 1 < k
  <2>1. /\ Len(net) \in Nat \ {0} /\ DOMAIN net = 1 .. Len(net)
    BY <1>1, Shifted DEF GtkInv, Traffic
  <2>2. 1 \in DOMAIN net
    BY <2>1
  <2> QED BY <2>1, <2>2 DEF GtkInv, Traffic
<1>3. owed = "none"
  BY <1>1, <1>2 DEF GtkInv, Reply
<1>4. \A x, b, v : Leads(x, net, 1, b, v) => Leads(x, net', 1, b, v)
  BY <1>1, ReadOn, LineIsNoNews DEF GtkInv
<1>5. \A x, w, v : Leads(x, net, 1 + 1, w, v) => Leads(x, net', 1, w, v)
  BY <1>1, <1>2, ReadOn DEF GtkInv
<1>6. Current => Current'
  BY <1>1, <1>4 DEF Current
<1>7. CASE net[1].kind = "line"
  <2>1. req = "queuelist" /\ UNCHANGED <<pc, req, ret, stk>>
    BY <1>2, <1>7 DEF ReadLine, Message, ctl
  <2>2. ~AsksStatus /\ ~AsksTrack /\ ~AsksStatus' /\ ~AsksTrack'
    BY <2>1 DEF AsksStatus, AsksTrack
  <2>3. Current
    BY <1>1, <2>2, Settled
  <2> QED BY <1>1, <1>6, <2>1, <2>2, <2>3, Settles
<1>8. CASE net[1].kind # "line"
  <2>1. net[1].kind = "last" /\ Return(Append(got, net[1].val)) /\ stk # <<>>
    BY <1>1, <1>8 DEF ReadLine, IsLine, GtkInv, Frames, Bottom
  <2>2. \A k \in DOMAIN net : net[k].kind = "last" => k = 1
    BY <1>2, <2>1 DEF GtkInv, Traffic, IsLine
  <2>3. /\ ~AsksStatus' /\ ~AsksTrack'
        /\ pc' = "conn.status" => req = "status" /\ ret' = Append(got, net[1].val)
        /\ pc' = "conn.track" => req = "curtrack" /\ ret' = Append(got, net[1].val)
                                 /\ stk[Len(stk)].at = "conn.track"
        /\ req = "status" => pc' = "conn.status"
        /\ pc' = stk[Len(stk)].at
    <3>1. pc' = stk[Len(stk)].at
      BY <2>1, Returning DEF GtkInv
    <3> QED BY <1>1, <2>1, <3>1, BackFromRequest
  <2>4. req # "queuelist" => Append(got, net[1].val) = <<net[1].val>>
    <3>1. req # "queuelist" => got = <<>>
      BY DEF GtkInv, Reply
    <3>2. \A x : Append(<<>>, x) = <<x>>
      OBVIOUS
    <3> QED BY <3>1, <3>2
  <2>5. \A x : <<x>> # Failed /\ <<x>>[1] = x
    <3>1. \A x : Len(<<x>>) = 1 /\ Len(<<>>) = 0
      OBVIOUS
    <3> QED BY <3>1 DEF Failed
  <2>6. CASE AsksStatus
    <3>1. req = "status" /\ pc' = "conn.status" /\ ret' = <<net[1].val>>
      BY <2>3, <2>4, <2>6 DEF AsksStatus
    <3>2. Leads("buttons", net, 1 + 1, net[1].val, status)
      BY <1>1, <1>3, <2>2, <2>6 DEF PlayerInv, Buttons
    <3>3. Leads("buttons", net', 1, ret'[1], status')
      BY <1>1, <1>5, <2>5, <3>1, <3>2
    <3>4. Buttons'
      BY <2>3, <2>5, <3>1, <3>3 DEF Buttons
    <3>5. Leads("title", net', 1, view'.title, track') \/ Leads("title", net', 1, view'.title, 0)
      BY <1>1, <1>4 DEF PlayerInv, Title
    <3>6. Title'
      BY <2>3, <3>1, <3>5 DEF Title
    <3> QED BY <3>4, <3>6 DEF PlayerInv
  <2>7. CASE AsksTrack
    <3>1. req = "curtrack" /\ pc' = "conn.track" /\ ret' = <<net[1].val>>
      BY <2>3, <2>4, <2>7 DEF AsksTrack
    <3>2. TitleTold(net, 1 + 1, net[1].val)
      BY <1>1, <1>3, <2>2, <2>7 DEF PlayerInv, Title
    <3>3. (TitleTold(net, 1, ret[1]))'
      BY <1>1, <1>4, <1>5, <2>5, <3>1, <3>2 DEF TitleTold
    <3>4. Leads("title", net', 1, view'.title, track') \/ Leads("title", net', 1, view'.title, 0)
      BY <1>1, <1>4 DEF PlayerInv, Title
    <3>5. Title'
      BY <2>3, <2>5, <3>1, <3>3, <3>4 DEF Title
    <3>6. Leads("buttons", net, 1, view.buttons, status)
      BY <1>1, <3>1 DEF PlayerInv, Buttons, AsksStatus
    <3>7. Buttons'
      BY <1>1, <1>4, <2>3, <3>1, <3>6 DEF Buttons
    <3> QED BY <3>5, <3>7 DEF PlayerInv
  <2>8. CASE ~AsksStatus /\ ~AsksTrack
    <3>1. Current
      BY <1>1, <2>8, Settled
    <3>2. pc' \notin {"conn.status", "conn.track"}
      BY <1>1, <2>3, <2>8 DEF AsksStatus, AsksTrack
    <3> QED BY <1>1, <1>6, <2>3, <3>1, <3>2, Settles
  <2> QED BY <2>6, <2>7, <2>8
<1> QED BY <1>7, <1>8

LEMMA ConnQueuePlayer ==
  ASSUME GtkInv, PlayerInv, ConnQueue
  PROVE  PlayerInv'
<1>1. /\ pc = "conn.queue" /\ Return(Failed) /\ UNCHANGED <<link, net, status, track>>
      /\ view' = IF ret = Failed THEN view ELSE [view EXCEPT !.win = queue_list_populate(@, ret)]
  BY DEF ConnQueue, session, server
<1>2. stk # <<>>
  BY <1>1 DEF GtkInv, Frames, Bottom
<1>3. pc' \in Resume /\ OnTop(pc, req, pc')
  BY <1>1, <1>2, Returning DEF GtkInv
<1>4. pc' = "send"
  BY <1>1, <1>3 DEF OnTop
<1>5. ~AsksStatus /\ ~AsksTrack /\ ~AsksStatus' /\ ~AsksTrack'
  BY <1>1, <1>4 DEF AsksStatus, AsksTrack
<1>6. view'.buttons = view.buttons /\ view'.title = view.title
  BY <1>1 DEF GtkInv, Windows, View
<1> QED BY <1>1, <1>4, <1>5, <1>6, StaysCurrent

LEMMA DisconnectedPlayer ==
  ASSUME GtkInv, PlayerInv, Disconnected
  PROVE  PlayerInv'
<1>1. /\ pc = "disc" /\ Return(ret) /\ UNCHANGED <<link, net, status, track>>
      /\ view' = [curlists_clear(view) EXCEPT !.win = <<>>]
  BY DEF Disconnected, session, server
<1>2. stk # <<>> /\ Lapsed(req, ret)
  BY <1>1 DEF GtkInv, Frames, Bottom, Returned
<1>3. /\ ~AsksStatus' /\ ~AsksTrack'
      /\ pc' = "conn.status" => req = "status" /\ ret' = ret
      /\ pc' = "conn.track" => req = "curtrack" /\ ret' = ret
  BY <1>1, <1>2, BackFromRequest
<1>4. pc' \in {"conn.status", "conn.track"} => ret' = Failed
  BY <1>2, <1>3 DEF Lapsed
<1>5. ~AsksStatus /\ ~AsksTrack
  BY <1>1 DEF AsksStatus, AsksTrack
<1>6. view'.buttons = view.buttons /\ view'.title = view.title
  BY <1>1 DEF GtkInv, Windows, View, curlists_clear
<1> QED BY <1>1, <1>3, <1>4, <1>5, <1>6, StaysCurrent

\* While the connection is down there is nothing to show.
LEMMA DownPlayer ==
  ASSUME link' # "live"
  PROVE  PlayerInv'
BY DEF PlayerInv, Buttons, Title

LEMMA RequestPlayer ==
  ASSUME GtkInv, PlayerInv, Request
  PROVE  PlayerInv'
<1>1. CASE Unreachable BY <1>1, DownPlayer DEF Unreachable, session, Up
<1>2. CASE LostEarly BY <1>2, DownPlayer DEF LostEarly, Close
<1>3. CASE Connected BY <1>3, ConnectedPlayer
<1>4. CASE ConnStatus BY <1>4, ConnStatusPlayer
<1>5. CASE ConnTrack BY <1>5, ConnTrackPlayer
<1>6. CASE ConnQueue BY <1>6, ConnQueuePlayer
<1>7. CASE Send BY <1>7, SendPlayer
<1>8. CASE SendFails BY <1>8, DownPlayer DEF SendFails, Close
<1>9. CASE ReadBroadcast BY <1>9, ReadBroadcastPlayer
<1>10. CASE ReadLine BY <1>10, ReadLinePlayer
<1>11. CASE ReadLost BY <1>11, DownPlayer DEF ReadLost, Close
<1>12. CASE Disconnected BY <1>12, DisconnectedPlayer
<1> QED BY <1>1, <1>2, <1>3, <1>4, <1>5, <1>6, <1>7, <1>8, <1>9, <1>10, <1>11, <1>12
        DEF Request

LEMMA PollBroadcastPlayer ==
  ASSUME GtkInv, PlayerInv, PollBroadcast
  PROVE  PlayerInv'
<1>1. /\ pc = "poll" /\ net # <<>> /\ net' = Tail(net)
      /\ UNCHANGED <<link, status, track>>
      /\ view' = Shown(view, net[1]) \/ view' = ShownInReply(view, net[1])
      /\ Call("do", "poll.stopped") \/ UNCHANGED ctl
  BY DEF PollBroadcast, server
<1>2. Message(net[1]) /\ ~IsLine(net[1])
  <2>1. \A k \in DOMAIN net : ~IsLine(net[k])
    BY <1>1, NoLines DEF GtkInv
  <2> QED BY <1>1, <2>1, FirstRead DEF GtkInv
<1>3. /\ view'.buttons = IF net[1].kind \in About("buttons") THEN Says("buttons", net[1]) ELSE view.buttons
      /\ view'.title = IF net[1].kind \in About("title") THEN Says("title", net[1]) ELSE view.title
  BY <1>1, <1>2, Showing DEF GtkInv, Windows
<1>4. Current => Current'
  BY <1>1, <1>3, ReadOn DEF GtkInv, Current
<1>5. ~AsksStatus /\ ~AsksTrack
  BY <1>1 DEF AsksStatus, AsksTrack
<1>6. (link = "live" => Current)'
  BY <1>1, <1>4, <1>5, Settled
<1>7. (pc' = "ask" /\ req' = "do") \/ pc' = "poll"
  BY <1>1 DEF Call, ctl
<1>8. ~AsksStatus' /\ ~AsksTrack' /\ pc' \notin {"conn.status", "conn.track"}
  BY <1>7 DEF AsksStatus, AsksTrack
<1> QED BY <1>6, <1>8, Settles

\* A call of the main loop is none of ev_conn's.
LEMMA CallFromLoop ==
  ASSUME GtkInv, PlayerInv, NEW r, NEW k, Call(r, k), <<r, k>> \in Callers, r # "status",
         k \in Bottom, pc \in Bottom, UNCHANGED <<link, net, status, track>>,
         view'.buttons = view.buttons, view'.title = view.title
  PROVE  PlayerInv'
<1>1. stk = <<>> /\ k # "disc" /\ pc # "disc" /\ k # "conn.track"
  BY DEF GtkInv, Frames, Bottom
<1>2. pc' = "ask" /\ req' = r /\ stk'[Len(stk')].at = k
  BY <1>1, CallStep
<1>3. ~AsksStatus /\ ~AsksTrack /\ ~AsksStatus' /\ ~AsksTrack'
  BY <1>1, <1>2 DEF AsksStatus, AsksTrack, Bottom
<1>4. pc \notin {"conn.status", "conn.track"}
  BY DEF Bottom
<1> QED BY <1>2, <1>3, <1>4, StaysCurrent

LEMMA MainLoopPlayer ==
  ASSUME GtkInv, PlayerInv, MainLoop
  PROVE  PlayerInv'
<1>1. CASE PollBroadcast BY <1>1, PollBroadcastPlayer
<1>2. CASE PollLost BY <1>2, DownPlayer DEF PollLost, Close
<1>3. CASE PollEnds
  <2>1. /\ pc = "poll" /\ Return(Failed) /\ UNCHANGED <<link, net, status, track, view>>
    BY <1>3 DEF PollEnds, session, server, windows
  <2>2. stk # <<>>
    BY <2>1 DEF GtkInv, Frames, Bottom
  <2>3. pc' \in Resume /\ OnTop(pc, req, pc')
    BY <2>1, <2>2, Returning DEF GtkInv
  <2>4. pc' = "main"
    BY <2>1, <2>3 DEF OnTop
  <2>5. ~AsksStatus /\ ~AsksTrack /\ ~AsksStatus' /\ ~AsksTrack'
    BY <2>1, <2>4 DEF AsksStatus, AsksTrack
  <2> QED BY <2>1, <2>4, <2>5, StaysCurrent
<1>4. CASE \/ Start \/ iowatch_dudl \/ PollStopped \/ Idle \/ IdleTrack \/ IdleTracks \/ IdleAlbums
           \/ Click \/ ctl_prog__changed
  <2>1. pc \in Bottom \cup {"poll.stopped"} /\ UNCHANGED <<link, net, status, track>>
    BY <1>4 DEF Start, iowatch_dudl, PollStopped, Idle, IdleTrack, IdleTracks, IdleAlbums, Click,
                ctl_prog__changed, session, server, Bottom
  <2>2. view'.buttons = view.buttons /\ view'.title = view.title
    BY <1>4 DEF Start, iowatch_dudl, PollStopped, Idle, IdleTrack, IdleTracks, IdleAlbums, Click,
                ctl_prog__changed, windows, curlists_clear, GtkInv, Windows, View
  <2>3. \A r, k : <<r, k>> \in Callers /\ k \in Bottom /\ pc \in Bottom /\ r # "status" /\ Call(r, k) =>
                    PlayerInv'
    BY <2>1, <2>2, CallFromLoop
  <2>4. /\ <<"none", "main">> \in Callers /\ <<"do", "main">> \in Callers
        /\ <<"curtrack", "idle.track">> \in Callers /\ <<"tracksalbum", "idle.tracks">> \in Callers
        /\ <<"albumsartist", "idle.albums">> \in Callers
        /\ Bottom = {"main", "idle.track", "idle.tracks", "idle.albums"}
    BY DEF Callers, Bottom
  <2>5. PlayerInv' \/ pc' \in {"main", "poll"}
    BY <1>4, <2>3, <2>4 DEF Start, iowatch_dudl, PollStopped, Idle, IdleTrack, IdleTracks, IdleAlbums,
                            Click, ctl_prog__changed, ctl, Goto
  <2>6. ASSUME pc' \in {"main", "poll"} PROVE PlayerInv'
    <3>1. ~AsksStatus /\ ~AsksTrack /\ ~AsksStatus' /\ ~AsksTrack'
      BY <2>1, <2>4, <2>6 DEF AsksStatus, AsksTrack
    <3>2. pc \notin {"conn.status", "conn.track"} /\ pc' \notin {"conn.status", "conn.track"}
      BY <2>1, <2>4, <2>6
    <3> QED BY <2>1, <2>2, <3>1, <3>2, StaysCurrent
  <2> QED BY <2>5, <2>6
<1> QED BY <1>1, <1>2, <1>3, <1>4 DEF MainLoop

(***************************************************************************)
(* With every broadcast read, the buttons and the title are the player's:  *)
(* no handler that ran inside another, or inside the questions of ev_conn  *)
(* (gtk/main.c, gtk/playbox.c), leaves anything older behind.              *)
(***************************************************************************)
THEOREM PlayerIsShown == Spec => []PlayerShown
<1>1. Init => PlayerInv
  BY DEF Init, PlayerInv, Buttons, Title
<1>2. GtkInv /\ PlayerInv /\ [Next]_vars => PlayerInv'
  <2> SUFFICES ASSUME GtkInv, PlayerInv, [Next]_vars PROVE PlayerInv'
    OBVIOUS
  <2>1. CASE ServerChanges BY <2>1, ChangesPlayer
  <2>2. CASE ServerAnswers BY <2>2, AnswersPlayer
  <2>3. CASE ServerHangsUp BY <2>3, DownPlayer DEF ServerHangsUp
  <2>4. CASE Request BY <2>4, RequestPlayer
  <2>5. CASE MainLoop BY <2>5, MainLoopPlayer
  <2>6. CASE UNCHANGED vars
    BY <2>6 DEF vars, server, session, windows, ctl, PlayerInv, Buttons, Title, AsksStatus, AsksTrack,
                TitleTold
  <2> QED BY <2>1, <2>2, <2>3, <2>4, <2>5, <2>6 DEF Next, Server
<1>3. PlayerInv => PlayerShown
  <2> SUFFICES ASSUME PlayerInv, Quiet PROVE view.buttons = status /\ view.title = track
    BY DEF PlayerShown
  <2>1. Current
    BY Settled DEF Quiet, AsksStatus, AsksTrack
  <2>2. net = <<>>
    BY DEF Quiet
  <2>3. \A k \in 1 .. Len(net) : FALSE
    BY <2>2
  <2> QED BY <2>1, <2>3 DEF Current, Leads
<1> QED BY <1>1, <1>2, <1>3, GtkInvariant, PTL DEF Spec

(***************************************************************************)
(* The queue window.  While its list is read the window is of no account;  *)
(* when the list is complete it is the window, and what is under way makes *)
(* the queue of it, unless a broadcast tore the list.  Hears is what the   *)
(* messages under way will do, one after the other.                        *)
(***************************************************************************)
Applied(win, m) ==
  IF m.kind = "queueadd" THEN Append(win, m.val)
  ELSE IF m.kind \in {"queuefetch", "queuedel"} THEN RemoveFirst(win, m.val)
  ELSE IF m.kind = "queueclear" THEN <<>> ELSE win

Hears(c, m) ==
  IF IsLine(m)
  THEN IF c.at # "reading" THEN c
       ELSE IF m.kind = "line"
       THEN [at |-> "reading", win |-> c.win, list |-> Append(c.list, m.val)]
       ELSE [at |-> "done", win |-> Listed(Append(c.list, m.val)), list |-> <<>>]
  ELSE IF c.at = "reading" /\ c.list # <<>> /\ m.kind \in QueueEvents
  THEN [at |-> "torn", win |-> c.win, list |-> c.list]
  ELSE [at |-> c.at, win |-> Applied(c.win, m), list |-> c.list]

\* Having heard s, c has become d.
Hearing(c, s, d) ==
  \E h : /\ h[1] = c /\ h[Len(s) + 1] = d
         /\ \A k \in 1 .. Len(s) : h[k + 1] = Hears(h[k], s[k])

ReadsQueue == pc = "read" /\ req = "queuelist"
AsksQueue ==
  \/ AsksStatus \/ AsksTrack \/ pc \in {"conn.status", "conn.track"}
  \/ pc = "ask" /\ req = "queuelist"

Now ==
  [at |-> IF ReadsQueue THEN "reading" ELSE "done",
   win |-> IF pc = "conn.queue" THEN Listed(ret) ELSE view.win,
   list |-> IF ReadsQueue THEN got ELSE <<>>]
Agrees(d) ==
  \/ d.at = "torn"
  \/ d.at = "done" /\ d.win = queue
  \/ /\ d.at = "reading" /\ ReadsQueue
     /\ IF owed # "none" THEN d.list = <<>>
        ELSE /\ answer # <<>> /\ d.list \in Seq(Nat) /\ d.list # <<>>
             /\ Listed(d.list \o answer) = queue

Distinct(q) == \A i, j \in 1 .. Len(q) : q[i] = q[j] => i = j
Whole(list) == list \in Seq(Nat) /\ list # <<>>
QueueInv ==
  /\ Distinct(queue)
  /\ link = "live" /\ lapses = {} =>
       /\ ~AsksQueue => \E d : Hearing(Now, net, d) /\ Agrees(d)
       /\ pc = "conn.queue" => Whole(ret)

(***************************************************************************)
(* Hearing.                                                                *)
(***************************************************************************)
LEMMA HearMore ==
  ASSUME NEW S, NEW s \in Seq(S), NEW m \in S, NEW c, NEW d, Hearing(c, s, d)
  PROVE  Hearing(c, Append(s, m), Hears(d, m))
<1> DEFINE t == Append(s, m)
<1>1. /\ Len(s) \in Nat /\ Len(t) = Len(s) + 1
      /\ \A k \in 1 .. Len(s) : t[k] = s[k]
      /\ t[Len(s) + 1] = m
  BY Pushed
<1> HIDE DEF t
<1>2. PICK h : /\ h[1] = c /\ h[Len(s) + 1] = d
               /\ \A k \in 1 .. Len(s) : h[k + 1] = Hears(h[k], s[k])
  BY DEF Hearing
<1> DEFINE g == [k \in 1 .. Len(s) + 2 |-> IF k = Len(s) + 2 THEN Hears(d, m) ELSE h[k]]
<1>3. /\ \A k \in 1 .. Len(s) + 1 : g[k] = h[k]
      /\ g[Len(s) + 2] = Hears(d, m)
  BY <1>1
<1> HIDE DEF g
<1>4. g[1] = c /\ g[Len(t) + 1] = Hears(d, m)
  <2>1. 1 \in 1 .. Len(s) + 1 /\ Len(t) + 1 = Len(s) + 2
    BY <1>1
  <2> QED BY <1>2, <1>3, <2>1
<1>5. ASSUME NEW k \in 1 .. Len(t) PROVE g[k + 1] = Hears(g[k], t[k])
  <2>1. CASE k = Len(s) + 1
    <3>1. k + 1 = Len(s) + 2 /\ k \in 1 .. Len(s) + 1
      BY <1>1, <2>1
    <3> QED BY <1>1, <1>2, <1>3, <2>1, <3>1
  <2>2. CASE k # Len(s) + 1
    <3>1. k \in 1 .. Len(s) /\ k \in 1 .. Len(s) + 1 /\ k + 1 \in 1 .. Len(s) + 1
      BY <1>1, <2>2
    <3> QED BY <1>1, <1>2, <1>3, <3>1
  <2> QED BY <2>1, <2>2
<1>6. Hearing(c, t, Hears(d, m))
  BY <1>4, <1>5 DEF Hearing
<1> QED BY <1>6 DEF t

LEMMA HearFirst ==
  ASSUME NEW S, NEW s \in Seq(S), s # <<>>, NEW c, NEW d, Hearing(c, s, d)
  PROVE  Hearing(Hears(c, s[1]), Tail(s), d)
<1> DEFINE t == Tail(s)
<1>1. /\ Len(s) \in Nat \ {0} /\ Len(t) = Len(s) - 1
      /\ \A k \in 1 .. Len(s) - 1 : t[k] = s[k + 1]
  BY Shifted
<1> HIDE DEF t
<1>2. PICK h : /\ h[1] = c /\ h[Len(s) + 1] = d
               /\ \A k \in 1 .. Len(s) : h[k + 1] = Hears(h[k], s[k])
  BY DEF Hearing
<1> DEFINE g == [k \in 1 .. Len(s) |-> h[k + 1]]
<1>3. \A k \in 1 .. Len(s) : g[k] = h[k + 1]
  OBVIOUS
<1> HIDE DEF g
<1>4. g[1] = Hears(c, s[1]) /\ g[Len(t) + 1] = d
  <2>1. 1 \in 1 .. Len(s) /\ Len(t) + 1 = Len(s) /\ Len(s) \in 1 .. Len(s)
    BY <1>1
  <2>2. h[1 + 1] = Hears(h[1], s[1])
    BY <1>2, <2>1
  <2>3. g[1] = h[1 + 1] /\ g[Len(s)] = h[Len(s) + 1]
    BY <1>3, <2>1
  <2> QED BY <1>2, <2>1, <2>2, <2>3
<1>5. ASSUME NEW k \in 1 .. Len(t) PROVE g[k + 1] = Hears(g[k], t[k])
  <2>1. k \in 1 .. Len(s) - 1 /\ k \in 1 .. Len(s) /\ k + 1 \in 1 .. Len(s)
    BY <1>1
  <2>2. h[(k + 1) + 1] = Hears(h[k + 1], s[k + 1])
    BY <1>2, <2>1
  <2>3. g[k + 1] = h[(k + 1) + 1] /\ g[k] = h[k + 1] /\ t[k] = s[k + 1]
    BY <1>1, <1>3, <2>1
  <2> QED BY <2>2, <2>3
<1>6. Hearing(Hears(c, s[1]), t, d)
  BY <1>4, <1>5 DEF Hearing
<1> QED BY <1>6 DEF t

LEMMA HearNothing ==
  ASSUME NEW c, NEW d
  PROVE  Hearing(c, <<>>, d) <=> d = c
<1>1. Len(<<>>) + 1 = 1 /\ 1 .. Len(<<>>) = {}
  OBVIOUS
<1>2. ASSUME d = c PROVE Hearing(c, <<>>, d)
  <2> DEFINE h == [k \in {1} |-> c]
  <2>1. h[1] = c
    OBVIOUS
  <2> HIDE DEF h
  <2> QED BY <1>1, <1>2, <2>1 DEF Hearing
<1>3. ASSUME Hearing(c, <<>>, d) PROVE d = c
  BY <1>1, <1>3 DEF Hearing
<1> QED BY <1>2, <1>3

\* Broadcasts are heard to the end, and leave the list alone that is not begun.
LEMMA HearBroadcasts ==
  ASSUME NEW S, NEW c, c.list = <<>>
  PROVE  \A s \in Seq(S) : (\A k \in 1 .. Len(s) : ~IsLine(s[k])) =>
           \E d : Hearing(c, s, d) /\ d.list = <<>> /\ d.at = c.at
<1> DEFINE Heard(s) == (\A k \in 1 .. Len(s) : ~IsLine(s[k])) =>
                        \E d : Hearing(c, s, d) /\ d.list = <<>> /\ d.at = c.at
           Bad == {n \in Nat : \E s \in Seq(S) : Len(s) = n /\ ~Heard(s)}
<1>1. ASSUME NEW s \in Seq(S), s = <<>> PROVE Heard(s)
  BY <1>1, HearNothing
<1>2. ASSUME NEW s \in Seq(S), s # <<>>, Heard(Front(s)) PROVE Heard(s)
  <2>1. /\ Len(s) \in Nat \ {0} /\ s[Len(s)] \in S /\ Last(s) = s[Len(s)]
        /\ Front(s) \in Seq(S) /\ Len(Front(s)) = Len(s) - 1
        /\ \A i \in 1 .. Len(s) - 1 : Front(s)[i] = s[i]
    BY <1>2, Popped
  <2> SUFFICES ASSUME \A k \in 1 .. Len(s) : ~IsLine(s[k])
               PROVE  \E d : Hearing(c, s, d) /\ d.list = <<>> /\ d.at = c.at
    OBVIOUS
  <2>2. \A k \in 1 .. Len(Front(s)) : ~IsLine(Front(s)[k])
    <3>1. \A k \in 1 .. Len(s) - 1 : k \in 1 .. Len(s)
      BY <2>1
    <3> QED BY <2>1, <3>1
  <2>3. PICK d : Hearing(c, Front(s), d) /\ d.list = <<>> /\ d.at = c.at
    BY <1>2, <2>2
  <2>4. s = Append(Front(s), s[Len(s)])
    <3> DEFINE f == Front(s)
               t == Append(f, s[Len(s)])
    <3>1. f \in Seq(S) /\ Len(f) = Len(s) - 1 /\ \A i \in 1 .. Len(s) - 1 : f[i] = s[i]
      BY <2>1
    <3> HIDE DEF f
    <3>2. /\ t \in Seq(S) /\ Len(t) = Len(f) + 1
          /\ \A k \in 1 .. Len(f) : t[k] = f[k]
          /\ t[Len(f) + 1] = s[Len(s)]
      BY <2>1, <3>1, Pushed
    <3> HIDE DEF t
    <3>3. Len(t) = Len(s) /\ \A k \in 1 .. Len(s) : t[k] = s[k]
      BY <2>1, <3>1, <3>2
    <3>4. t = s
      BY <3>2, <3>3, SeqEqual
    <3> QED BY <3>4 DEF t, f
  <2>5. Hearing(c, s, Hears(d, s[Len(s)]))
    BY <2>1, <2>3, <2>4, HearMore
  <2>6. ~IsLine(s[Len(s)])
    <3>1. Len(s) \in 1 .. Len(s)
      BY <2>1
    <3> QED BY <3>1
  <2>7. Hears(d, s[Len(s)]).list = <<>> /\ Hears(d, s[Len(s)]).at = c.at
    BY <2>3, <2>6 DEF Hears
  <2> QED BY <2>5, <2>7
<1> HIDE DEF Heard
<1>3. ASSUME NEW s \in Seq(S), ~Heard(s) PROVE FALSE
  <2>1. Len(s) \in Nat /\ Len(s) \in Bad
    BY <1>3, LenProperties
  <2>2. PICK n \in Bad : \A m \in Bad : n <= m
    <3>1. Bad \subseteq Nat /\ Bad # {}
      BY <2>1
    <3> HIDE DEF Bad
    <3> QED BY <3>1, LeastNat
  <2>3. PICK t \in Seq(S) : Len(t) = n /\ ~Heard(t)
    BY <2>2
  <2>4. t # <<>> /\ ~Heard(Front(t))
    BY <1>1, <1>2, <2>3
  <2>5. Front(t) \in Seq(S) /\ Len(Front(t)) = n - 1 /\ n \in Nat \ {0}
    BY <2>3, <2>4, Popped
  <2>6. n - 1 \in Nat /\ ~(n <= n - 1)
    BY <2>5
  <2>7. n - 1 \in Bad
    BY <2>4, <2>5, <2>6
  <2> QED BY <2>2, <2>6, <2>7
<1> QED BY <1>3 DEF Heard

(***************************************************************************)
(* The server's changes are what the window makes of them.                 *)
(***************************************************************************)
LEMMA FoundFirst ==
  ASSUME NEW S, NEW q \in Seq(S), Distinct(q), NEW i \in 1 .. Len(q)
  PROVE  RemoveFirst(q, q[i]) = RemoveAt(q, i)
<1>1. {j \in 1 .. Len(q) : q[j] = q[i]} = {i}
  BY DEF Distinct
<1>2. Len(q) \in Nat
  BY LenProperties
<1>3. Min({i}) = i
  <2>1. i \in Int /\ i <= i
    BY <1>2
  <2> QED BY <2>1 DEF Min
<1>4. SelectInSeq(q, LAMBDA v : v = q[i]) = i
  BY <1>1, <1>3 DEF SelectInSeq
<1> QED BY <1>4 DEF RemoveFirst

LEMMA RemovedDistinct ==
  ASSUME queue \in Seq(Entries), Distinct(queue), NEW i \in 1 .. Len(queue)
  PROVE  Distinct(RemoveAt(queue, i))
<1> DEFINE n == Len(queue)
           head == SubSeq(queue, 1, i - 1)
           tail == SubSeq(queue, i + 1, n)
           rest == head \o tail
<1>1. n \in Nat /\ \A j \in 1 .. n : queue[j] \in Entries
  BY LenProperties, ElementOfSeq
<1>2. /\ head \in Seq(Entries) /\ Len(head) = i - 1
      /\ \A j \in 1 .. i - 1 : head[j] = queue[j]
  <2>1. 1 \in Int /\ i - 1 \in Int /\ \A j \in 1 .. i - 1 : queue[j] \in Entries
    BY <1>1
  <2>2. /\ head \in Seq(Entries)
        /\ Len(head) = IF 1 <= i - 1 THEN (i - 1) - 1 + 1 ELSE 0
        /\ \A j \in 1 .. (i - 1) - 1 + 1 : head[j] = queue[1 + j - 1]
    BY <2>1, SubSeqProperties
  <2> HIDE DEF head
  <2>3. Len(head) = i - 1
    BY <1>1, <2>2
  <2>4. ASSUME NEW j \in 1 .. i - 1 PROVE head[j] = queue[j]
    <3>1. j \in 1 .. (i - 1) - 1 + 1 /\ 1 + j - 1 = j
      BY <1>1
    <3> QED BY <2>2, <3>1
  <2> QED BY <2>2, <2>3, <2>4
<1>3. /\ tail \in Seq(Entries) /\ Len(tail) = n - i
      /\ \A j \in 1 .. n - i : tail[j] = queue[i + j]
  <2>1. i + 1 \in Int /\ n \in Int /\ \A j \in i + 1 .. n : queue[j] \in Entries
    BY <1>1
  <2>2. /\ tail \in Seq(Entries)
        /\ Len(tail) = IF i + 1 <= n THEN n - (i + 1) + 1 ELSE 0
        /\ \A j \in 1 .. n - (i + 1) + 1 : tail[j] = queue[(i + 1) + j - 1]
    BY <2>1, SubSeqProperties
  <2> HIDE DEF tail, n
  <2>3. Len(tail) = n - i
    BY <1>1, <2>2 DEF n
  <2>4. ASSUME NEW j \in 1 .. n - i PROVE tail[j] = queue[i + j]
    <3>1. j \in 1 .. n - (i + 1) + 1 /\ (i + 1) + j - 1 = i + j
      BY <1>1 DEF n
    <3> QED BY <2>2, <3>1
  <2> QED BY <2>2, <2>3, <2>4
<1> HIDE DEF head, tail
<1>4. /\ Len(rest) = Len(head) + Len(tail)
      /\ \A j \in 1 .. Len(rest) : rest[j] = IF j <= Len(head) THEN head[j] ELSE tail[j - Len(head)]
  <2>1. head \in Seq(Entries) /\ tail \in Seq(Entries)
    BY <1>2, <1>3
  <2> HIDE DEF rest
  <2>2. rest = head \o tail
    BY DEF rest
  <2> QED BY <2>1, <2>2, ConcatProperties
<1> HIDE DEF rest
<1> DEFINE from(j) == IF j <= i - 1 THEN j ELSE j + 1
<1>5. ASSUME NEW j \in 1 .. Len(rest)
      PROVE  rest[j] = queue[from(j)] /\ from(j) \in 1 .. n
  <2>1. Len(rest) = n - 1
    BY <1>1, <1>2, <1>3, <1>4
  <2>2. CASE j <= i - 1
    <3>1. j \in 1 .. i - 1 /\ j \in 1 .. n
      BY <1>1, <2>1, <2>2
    <3> QED BY <1>2, <1>4, <2>2, <3>1
  <2>3. CASE ~(j <= i - 1)
    <3>1. j - (i - 1) \in 1 .. n - i /\ i + (j - (i - 1)) = j + 1 /\ j + 1 \in 1 .. n
      BY <1>1, <2>1, <2>3
    <3>2. rest[j] = tail[j - (i - 1)]
      BY <1>2, <1>4, <2>3
    <3>3. tail[j - (i - 1)] = queue[i + (j - (i - 1))]
      BY <1>3, <3>1
    <3> QED BY <2>3, <3>1, <3>2, <3>3
  <2> QED BY <2>2, <2>3
<1>6. \A j, k \in 1 .. Len(rest) : from(j) = from(k) => j = k
  <2>1. Len(rest) \in Int
    BY <1>1, <1>2, <1>3, <1>4
  <2> QED BY <1>1, <2>1
<1> HIDE DEF from
<1>7. Distinct(rest)
  BY <1>5, <1>6 DEF Distinct, n
<1> QED BY <1>7 DEF rest, head, tail, n, RemoveAt

LEMMA ListedQueue ==
  ASSUME queue \in Seq(Entries)
  PROVE  Listed(IF queue = <<>> THEN <<0>> ELSE queue) = queue
<1>1. CASE queue = <<>>
  BY <1>1 DEF Listed
<1>2. CASE queue # <<>>
  <2>1. /\ Len(queue) \in Nat \ {0} /\ DOMAIN queue = 1 .. Len(queue)
        /\ \A i \in 1 .. Len(queue) : queue[i] \in Nat \ {0}
    BY <1>2, EmptySeq, LenProperties, ElementOfSeq, GtkAssumption
  <2>2. queue # <<0>>
    <3>1. 1 \in 1 .. Len(queue) /\ <<0>>[1] = 0
      BY <2>1
    <3> QED BY <2>1, <3>1
  <2>3. Cut \notin ToSet(queue)
    BY <2>1 DEF Cut, ToSet
  <2> QED BY <1>2, <2>2, <2>3 DEF Listed
<1> QED BY <1>1, <1>2

LEMMA HeadMoved ==
  ASSUME NEW S, NEW l \in Seq(S), NEW a \in Seq(S), a # <<>>
  PROVE  /\ Head(a) \in S /\ Append(l, Head(a)) \in Seq(S) /\ Append(l, Head(a)) # <<>>
         /\ Append(l, Head(a)) \o Tail(a) = l \o a
         /\ Len(a) = 1 => Append(l, Head(a)) = l \o a
<1> DEFINE h == Head(a)
           t == Tail(a)
           p == Append(l, h)
           u == p \o t
           w == l \o a
<1>1. /\ t \in Seq(S) /\ Len(a) \in Nat \ {0} /\ Len(t) = Len(a) - 1
      /\ \A i \in 1 .. Len(a) - 1 : t[i] = a[i + 1]
      /\ h \in S /\ h = a[1]
  BY Shifted, HeadTailProperties
<1> HIDE DEF h, t
<1>2. /\ p \in Seq(S) /\ p # <<>> /\ Len(l) \in Nat /\ Len(p) = Len(l) + 1
      /\ \A i \in 1 .. Len(l) : p[i] = l[i]
      /\ p[Len(l) + 1] = h
  BY <1>1, Pushed
<1> HIDE DEF p
<1>3. /\ u \in Seq(S) /\ Len(u) = Len(p) + Len(t)
      /\ \A i \in 1 .. Len(p) + Len(t) : u[i] = IF i <= Len(p) THEN p[i] ELSE t[i - Len(p)]
  BY <1>1, <1>2, ConcatProperties
<1>4. /\ w \in Seq(S) /\ Len(w) = Len(l) + Len(a)
      /\ \A i \in 1 .. Len(l) + Len(a) : w[i] = IF i <= Len(l) THEN l[i] ELSE a[i - Len(l)]
  BY ConcatProperties
<1> HIDE DEF u, w
<1>5. Len(u) = Len(w) /\ Len(w) = Len(l) + Len(a) /\ Len(p) + Len(t) = Len(l) + Len(a)
  BY <1>1, <1>2, <1>3, <1>4
<1>6. ASSUME NEW i \in 1 .. Len(u) PROVE u[i] = w[i]
  <2>1. CASE i <= Len(l)
    <3>1. i \in 1 .. Len(l) /\ i <= Len(p) /\ i \in 1 .. Len(l) + Len(a)
      BY <1>1, <1>2, <1>5, <2>1
    <3> QED BY <1>2, <1>3, <1>4, <1>5, <2>1, <3>1
  <2>2. CASE i = Len(l) + 1
    <3>1. i <= Len(p) /\ ~(i <= Len(l)) /\ i - Len(l) = 1 /\ i \in 1 .. Len(l) + Len(a)
      BY <1>1, <1>2, <1>5, <2>2
    <3> QED BY <1>1, <1>2, <1>3, <1>4, <1>5, <2>2, <3>1
  <2>3. CASE i > Len(l) + 1
    <3>1. /\ ~(i <= Len(p)) /\ ~(i <= Len(l)) /\ i \in 1 .. Len(l) + Len(a)
          /\ i - Len(p) \in 1 .. Len(a) - 1 /\ (i - Len(p)) + 1 = i - Len(l)
      BY <1>1, <1>2, <1>5, <2>3
    <3> QED BY <1>1, <1>3, <1>4, <1>5, <3>1
  <2> QED BY <1>2, <1>5, <2>1, <2>2, <2>3
<1>7. u = w
  BY <1>3, <1>4, <1>5, <1>6, SeqEqual
<1>8. ASSUME Len(a) = 1 PROVE p = u
  <2>1. t = <<>>
    BY <1>1, <1>8, EmptySeq
  <2> QED BY <1>2, <2>1, ConcatEmptySeq DEF u
<1> QED BY <1>1, <1>2, <1>7, <1>8 DEF u, w, p, h, t

LEMMA Nothing2 == ASSUME NEW S, NEW a \in Seq(S) PROVE <<>> \o a = a
BY ConcatEmptySeq

LEMMA WinShown ==
  ASSUME NEW v, View(v), NEW m, Message(m), ~IsLine(m),
         NEW w, w = Shown(v, m) \/ w = ShownInReply(v, m)
  PROVE  w.win = Applied(v.win, m)
<1>1. m.kind \in Kinds \ {"line", "last"}
  BY DEF Message, IsLine, Kinds
<1>2. \A b, t, s : /\ playbox_buttons_enable(v, b).win = v.win
                   /\ detail_update(playbox_buttons_enable(v, b), t).win = v.win
                   /\ playbox_detail_clear(playbox_buttons_enable(v, b)).win = v.win
                   /\ playbox_progress_update(v, s).win = v.win
                   /\ curlists_clear(playbox_detail_clear(playbox_buttons_enable(v, b))).win = v.win
  BY DEF View, playbox_buttons_enable, detail_update, playbox_detail_update, playbox_detail_clear,
         playbox_progress_update, curlists_clear
<1>3. \A x : [v EXCEPT !.win = x].win = x
  BY DEF View
<1>4. m.kind # "stopped" => w = Shown(v, m)
  BY DEF ShownInReply
<1>5. CASE m.kind \in {"nexttrack", "paused", "resumed", "elapsed"}
  BY <1>2, <1>4, <1>5 DEF Shown, Applied
<1>6. CASE m.kind = "stopped"
  BY <1>2, <1>6 DEF Shown, ShownInReply, Applied
<1>7. CASE m.kind \in QueueEvents
  BY <1>3, <1>4, <1>7 DEF Shown, Applied, QueueEvents, queue_list_store_add, queue_list_store_del
<1> QED BY <1>1, <1>5, <1>6, <1>7 DEF Kinds, QueueEvents

LEMMA AddedDistinct ==
  ASSUME queue \in Seq(Entries), Distinct(queue), NEW e \in Entries \ ToSet(queue)
  PROVE  Distinct(Append(queue, e))
<1> DEFINE q == Append(queue, e)
<1>1. /\ Len(queue) \in Nat /\ Len(q) = Len(queue) + 1 /\ DOMAIN queue = 1 .. Len(queue)
      /\ \A i \in 1 .. Len(queue) : q[i] = queue[i]
      /\ q[Len(queue) + 1] = e
  BY Pushed
<1> HIDE DEF q
<1>2. \A i \in 1 .. Len(queue) : q[i] # e
  BY <1>1 DEF ToSet
<1>3. \A i \in 1 .. Len(q) : i \in 1 .. Len(queue) \/ i = Len(queue) + 1
  BY <1>1
<1>4. ASSUME NEW i \in 1 .. Len(q), NEW j \in 1 .. Len(q), q[i] = q[j] PROVE i = j
  BY <1>1, <1>2, <1>3, <1>4 DEF Distinct
<1>5. Distinct(q)
  BY <1>4 DEF Distinct
<1> QED BY <1>5 DEF q

LEMMA QueueNews ==
  ASSUME GtkInv, Distinct(queue), ServerChanges
  PROVE  /\ Distinct(queue')
         /\ link = "live" =>
              \E m : /\ net' = Append(net, m) /\ ~IsLine(m)
                     /\ m \in [kind : Kinds, val : Statuses \cup {"ok"} \cup Nat]
                     /\ Applied(queue, m) = queue'
<1> DEFINE Made == /\ Distinct(queue')
                   /\ link = "live" =>
                        \E m : /\ net' = Append(net, m) /\ ~IsLine(m)
                               /\ m \in [kind : Kinds, val : Statuses \cup {"ok"} \cup Nat]
                               /\ Applied(queue, m) = queue'
<1>1. ASSUME NEW name \in Kinds, NEW val \in Nat, Tell(name, val), name \notin {"line", "last"},
             Applied(queue, [kind |-> name, val |-> val]) = queue', Distinct(queue')
      PROVE  Made
  <2> DEFINE n == [kind |-> name, val |-> val]
  <2>1. /\ n.kind = name /\ n \in [kind : Kinds, val : Statuses \cup {"ok"} \cup Nat]
        /\ Applied(queue, n) = queue'
        /\ link = "live" => net' = Append(net, n)
    BY <1>1 DEF Tell
  <2> HIDE DEF n
  <2>2. ~IsLine(n)
    BY <1>1, <2>1 DEF IsLine
  <2> QED BY <1>1, <2>1, <2>2
<1> HIDE DEF Made
<1>2. Tracks \subseteq Nat /\ Entries \subseteq Nat /\ queue \in Seq(Entries)
  BY GtkAssumption DEF GtkInv, Windows
<1>3. \A name, val : /\ [kind |-> name, val |-> val].kind = name
                     /\ [kind |-> name, val |-> val].val = val
  OBVIOUS
<1>4. ASSUME NEW name \in {"nexttrack", "stopped", "paused", "resumed", "elapsed"}, NEW val \in Nat,
             Tell(name, val), UNCHANGED queue
      PROVE  Made
  <2>1. Applied(queue, [kind |-> name, val |-> val]) = queue'
    BY <1>3, <1>4 DEF Applied
  <2>2. name \in Kinds /\ name \notin {"line", "last"} /\ Distinct(queue')
    BY <1>4 DEF Kinds
  <2> QED BY <1>1, <1>4, <2>1, <2>2
<1>5. ASSUME NEW e \in Entries \ ToSet(queue), queue' = Append(queue, e), Tell("queueadd", e)
      PROVE  Made
  <2>1. Applied(queue, [kind |-> "queueadd", val |-> e]) = queue'
    BY <1>3, <1>5 DEF Applied
  <2>2. "queueadd" \in Kinds /\ Distinct(queue') /\ e \in Nat
    BY <1>2, <1>5, AddedDistinct DEF Kinds
  <2> QED BY <1>1, <1>5, <2>1, <2>2
<1>6. ASSUME NEW i \in 1 .. Len(queue), NEW name \in {"queuefetch", "queuedel"},
             queue' = RemoveAt(queue, i), Tell(name, queue[i])
      PROVE  Made
  <2>1. Applied(queue, [kind |-> name, val |-> queue[i]]) = RemoveFirst(queue, queue[i])
    BY <1>3, <1>6 DEF Applied
  <2>2. RemoveFirst(queue, queue[i]) = queue' /\ Distinct(queue') /\ queue[i] \in Nat
    BY <1>2, <1>6, FoundFirst, RemovedDistinct, Taken
  <2>3. name \in Kinds /\ name \notin {"line", "last"}
    BY DEF Kinds
  <2> QED BY <1>1, <1>6, <2>1, <2>2, <2>3
<1>7. ASSUME queue' = <<>>, Tell("queueclear", 0)
      PROVE  Made
  <2>1. Applied(queue, [kind |-> "queueclear", val |-> 0]) = queue'
    BY <1>3, <1>7 DEF Applied
  <2>2. "queueclear" \in Kinds /\ Distinct(queue')
    BY <1>7, EmptySeq DEF Kinds, Distinct
  <2> QED BY <1>1, <1>7, <2>1, <2>2
<1>8. Made
  BY <1>2, <1>4, <1>5, <1>6, <1>7 DEF ServerChanges
<1> QED BY <1>8 DEF Made

LEMMA ChangesQueue ==
  ASSUME GtkInv, QueueInv, ServerChanges
  PROVE  QueueInv'
<1>1. /\ Distinct(queue')
      /\ UNCHANGED <<link, owed, answer, got, view, lapses, pc, req, ret, stk>>
  BY QueueNews DEF QueueInv, ServerChanges, windows, ctl
<1> SUFFICES ASSUME link = "live", lapses = {}
             PROVE  /\ ~AsksQueue => \E d : Hearing(Now', net', d) /\ Agrees(d)'
                    /\ pc = "conn.queue" => Whole(ret)
  BY <1>1 DEF QueueInv, AsksQueue, AsksStatus, AsksTrack
<1>2. Now' = Now
  BY <1>1 DEF Now, ReadsQueue
<1>3. PICK m : /\ net' = Append(net, m) /\ ~IsLine(m)
               /\ m \in [kind : Kinds, val : Statuses \cup {"ok"} \cup Nat]
               /\ Applied(queue, m) = queue'
  BY QueueNews DEF QueueInv
<1>4. ASSUME NEW d, Hearing(Now, net, d), Agrees(d)
      PROVE  Hearing(Now, net', Hears(d, m)) /\ Agrees(Hears(d, m))'
  <2>1. Hearing(Now, net', Hears(d, m))
    BY <1>3, <1>4, HearMore DEF GtkInv, Traffic
  <2>2. m.kind \notin QueueEvents => queue' = queue
    BY <1>3 DEF Applied, QueueEvents
  <2>3. CASE d.at = "reading" /\ d.list # <<>> /\ m.kind \in QueueEvents
    BY <1>3, <2>1, <2>3 DEF Hears, Agrees
  <2>4. CASE ~(d.at = "reading" /\ d.list # <<>> /\ m.kind \in QueueEvents)
    <3>1. /\ Hears(d, m).at = d.at /\ Hears(d, m).win = Applied(d.win, m)
          /\ Hears(d, m).list = d.list
      BY <1>3, <2>4 DEF Hears
    <3>2. CASE d.at = "reading"
      <4>1. ReadsQueue' = ReadsQueue
        BY <1>1 DEF ReadsQueue
      <4>2. d.list = <<>> \/ queue' = queue
        BY <2>2, <2>4, <3>2
      <4> QED BY <1>1, <1>4, <2>1, <3>1, <3>2, <4>1, <4>2 DEF Agrees
    <3> QED BY <1>3, <1>4, <2>1, <3>1, <3>2 DEF Agrees
  <2> QED BY <2>3, <2>4
<1> QED BY <1>2, <1>4 DEF QueueInv

LEMMA AnswersQueue ==
  ASSUME GtkInv, QueueInv, ServerAnswers
  PROVE  QueueInv'
<1>1. PICK lines, m :
        /\ lines = IF owed # "none" THEN Lines(owed) ELSE answer
        /\ m = [kind |-> IF Len(lines) = 1 THEN "last" ELSE "line", val |-> Head(lines)]
        /\ link = "live" /\ (owed # "none" \/ answer # <<>>)
        /\ net' = Append(net, m) /\ owed' = "none" /\ answer' = Tail(lines)
        /\ UNCHANGED <<queue, link, got, view, lapses, pc, req, ret, stk>>
  BY DEF ServerAnswers, windows, ctl, server
<1>2. /\ pc = "read" /\ IsLine(m)
      /\ m \in [kind : Kinds, val : Statuses \cup {"ok"} \cup Nat]
      /\ m.kind = (IF Len(lines) = 1 THEN "last" ELSE "line") /\ m.val = Head(lines)
      /\ Tail(lines) \in Seq(Nat)
  BY <1>1, Answering
<1> SUFFICES ASSUME lapses = {}
             PROVE  ~AsksQueue => \E d : Hearing(Now', net', d) /\ Agrees(d)'
  BY <1>1, <1>2 DEF QueueInv, AsksQueue, AsksStatus, AsksTrack
<1>4. Now' = Now /\ ReadsQueue' = ReadsQueue
  BY <1>1 DEF Now, ReadsQueue
<1>5. ASSUME NEW d, Hearing(Now, net, d), Agrees(d)
      PROVE  Hearing(Now, net', Hears(d, m)) /\ Agrees(Hears(d, m))'
  <2>1. Hearing(Now, net', Hears(d, m))
    BY <1>1, <1>2, <1>5, HearMore DEF GtkInv, Traffic
  <2>2. CASE d.at # "reading"
    <3>1. Hears(d, m) = d
      BY <1>2, <2>2 DEF Hears
    <3> QED BY <1>1, <1>5, <2>1, <2>2, <3>1 DEF Agrees
  <2>3. CASE d.at = "reading"
    <3>1. /\ lines \in Seq(Nat) /\ lines # <<>>
          /\ d.list \in Seq(Nat) /\ Listed(d.list \o lines) = queue
      <4>1. CASE owed # "none"
        <5>1. d.list = <<>> /\ owed = "queuelist"
          BY <1>5, <2>3, <4>1 DEF Agrees, ReadsQueue, GtkInv, Reply
        <5>2. lines = IF queue = <<>> THEN <<0>> ELSE queue
          BY <1>1, <4>1, <5>1 DEF Lines
        <5>3. queue \in Seq(Entries) /\ Entries \subseteq Nat
          BY GtkAssumption DEF GtkInv, Windows
        <5>4. lines \in Seq(Nat) /\ lines # <<>>
          <6>1. CASE queue = <<>>
            BY <5>2, <6>1
          <6>2. CASE queue # <<>>
            <7>1. queue \in Seq(Nat)
              BY <5>3, SeqMonotonic
            <7> QED BY <5>2, <6>2, <7>1
          <6> QED BY <6>1, <6>2
        <5>5. d.list \o lines = lines /\ d.list \in Seq(Nat)
          BY <5>1, <5>4, Nothing2
        <5> QED BY <5>2, <5>3, <5>4, <5>5, ListedQueue
      <4>2. CASE owed = "none"
        BY <1>1, <1>5, <2>3, <4>2 DEF Agrees, GtkInv, Reply
      <4> QED BY <4>1, <4>2
    <3>2. /\ Append(d.list, m.val) \in Seq(Nat) /\ Append(d.list, m.val) # <<>>
          /\ Append(d.list, m.val) \o Tail(lines) = d.list \o lines
          /\ Len(lines) = 1 => Append(d.list, m.val) = d.list \o lines
      <4> DEFINE l == d.list
      <4>1. l \in Seq(Nat)
        BY <3>1
      <4> HIDE DEF l
      <4>2. /\ Append(l, Head(lines)) \in Seq(Nat) /\ Append(l, Head(lines)) # <<>>
            /\ Append(l, Head(lines)) \o Tail(lines) = l \o lines
            /\ Len(lines) = 1 => Append(l, Head(lines)) = l \o lines
        BY <3>1, <4>1, HeadMoved
      <4> QED BY <1>2, <4>2 DEF l
    <3>3. CASE Len(lines) = 1
      <4>1. Hears(d, m) = [at |-> "done", win |-> Listed(Append(d.list, m.val)), list |-> <<>>]
        BY <1>2, <2>3, <3>3 DEF Hears
      <4>2. Hears(d, m).at = "done" /\ Hears(d, m).win = queue
        <5>1. Listed(Append(d.list, m.val)) = queue
          BY <3>1, <3>2, <3>3, Zenon
        <5> QED BY <4>1, <5>1
      <4> QED BY <1>1, <2>1, <4>2 DEF Agrees
    <3>4. CASE Len(lines) # 1
      <4>1. Hears(d, m) = [at |-> "reading", win |-> d.win, list |-> Append(d.list, m.val)]
        BY <1>2, <2>3, <3>4 DEF Hears
      <4>2. Hears(d, m).at = "reading" /\ Hears(d, m).list = Append(d.list, m.val)
        BY <4>1
      <4>3. Tail(lines) # <<>>
        <5>1. Len(lines) \in Nat \ {0} /\ Len(Tail(lines)) = Len(lines) - 1
          BY <3>1, Shifted
        <5> QED BY <3>4, <5>1, EmptySeq
      <4>4. ReadsQueue'
        BY <1>4, <1>5, <2>3 DEF Agrees
      <4> QED BY <1>1, <2>1, <3>1, <3>2, <4>2, <4>3, <4>4 DEF Agrees
    <3> QED BY <3>3, <3>4
  <2> QED BY <2>2, <2>3
<1>6. CASE ~AsksQueue
  <2>1. PICK d : Hearing(Now, net, d) /\ Agrees(d)
    BY <1>1, <1>6 DEF QueueInv
  <2> QED BY <1>4, <1>5, <2>1
<1> QED BY <1>6

\* A broadcast is read: the window is as it was heard.
LEMMA HeardOne ==
  ASSUME GtkInv, net # <<>>, net' = Tail(net), NEW d, Hearing(Now, net, d), Now' = Hears(Now, net[1])
  PROVE  Hearing(Now', net', d)
BY HearFirst DEF GtkInv, Traffic

LEMMA ReadBroadcastQueue ==
  ASSUME GtkInv, QueueInv, ReadBroadcast
  PROVE  QueueInv'
<1>1. /\ pc = "read" /\ net # <<>> /\ ~IsLine(net[1]) /\ net' = Tail(net)
      /\ view' = ShownInReply(view, net[1])
      /\ lapses' = IF req = "queuelist" /\ got # <<>> /\ net[1].kind \in QueueEvents
                   THEN lapses \cup {"torn"} ELSE lapses
      /\ UNCHANGED <<queue, link, owed, answer, got, pc, req, ret, stk>>
  BY DEF ReadBroadcast, Reading, server, ctl
<1> SUFFICES ASSUME link = "live", lapses' = {}, ~AsksQueue
             PROVE  \E d : Hearing(Now', net', d) /\ Agrees(d)'
  BY <1>1 DEF QueueInv, AsksQueue, AsksStatus, AsksTrack
<1>2. lapses = {} /\ ~(ReadsQueue /\ got # <<>> /\ net[1].kind \in QueueEvents)
  BY <1>1 DEF ReadsQueue
<1>3. Message(net[1])
  BY <1>1, FirstRead DEF GtkInv
<1>4. view'.win = Applied(view.win, net[1])
  BY <1>1, <1>3, WinShown DEF GtkInv, Windows
<1>5. Now' = Hears(Now, net[1])
  <2>1. Now = [at |-> IF ReadsQueue THEN "reading" ELSE "done", win |-> view.win,
               list |-> IF ReadsQueue THEN got ELSE <<>>]
    BY <1>1 DEF Now
  <2>2. Now' = [at |-> IF ReadsQueue THEN "reading" ELSE "done", win |-> view'.win,
                list |-> IF ReadsQueue THEN got ELSE <<>>]
    BY <1>1 DEF Now, ReadsQueue
  <2> QED BY <1>1, <1>2, <1>4, <2>1, <2>2 DEF Hears
<1>6. PICK d : Hearing(Now, net, d) /\ Agrees(d)
  BY <1>2 DEF QueueInv
<1>7. Agrees(d)'
  BY <1>1, <1>6 DEF Agrees, ReadsQueue
<1> QED BY <1>1, <1>5, <1>6, <1>7, HeardOne

LEMMA PollBroadcastQueue ==
  ASSUME GtkInv, QueueInv, PollBroadcast
  PROVE  QueueInv'
<1>1. /\ pc = "poll" /\ net # <<>> /\ net' = Tail(net)
      /\ view' = Shown(view, net[1]) \/ view' = ShownInReply(view, net[1])
      /\ (pc' = "ask" /\ req' = "do") \/ pc' = "poll"
      /\ UNCHANGED <<queue, link, owed, answer, got, lapses>>
  BY DEF PollBroadcast, server, ctl, Call
<1> SUFFICES ASSUME link = "live", lapses = {}
             PROVE  \E d : Hearing(Now', net', d) /\ Agrees(d)'
  BY <1>1 DEF QueueInv
<1>2. Message(net[1]) /\ ~IsLine(net[1])
  <2>1. \A k \in DOMAIN net : ~IsLine(net[k])
    BY <1>1, NoLines DEF GtkInv
  <2> QED BY <1>1, <2>1, FirstRead DEF GtkInv
<1>4. view'.win = Applied(view.win, net[1])
  BY <1>1, <1>2, WinShown DEF GtkInv, Windows
<1>5. Now' = Hears(Now, net[1])
  <2>1. Now = [at |-> "done", win |-> view.win, list |-> <<>>]
    BY <1>1 DEF Now, ReadsQueue
  <2>2. Now' = [at |-> "done", win |-> view'.win, list |-> <<>>]
    BY <1>1 DEF Now, ReadsQueue
  <2> QED BY <1>2, <1>4, <2>1, <2>2 DEF Hears
<1>6. PICK d : Hearing(Now, net, d) /\ Agrees(d)
  BY <1>1 DEF QueueInv, AsksQueue, AsksStatus, AsksTrack
<1>7. Agrees(d)'
  BY <1>1, <1>6 DEF Agrees, ReadsQueue
<1> QED BY <1>1, <1>5, <1>6, <1>7, HeardOne

LEMMA ReadLineQueue ==
  ASSUME GtkInv, QueueInv, ReadLine
  PROVE  QueueInv'
<1>1. /\ pc = "read" /\ net # <<>> /\ IsLine(net[1]) /\ net' = Tail(net)
      /\ UNCHANGED <<queue, link, owed, answer, view, lapses>>
  BY DEF ReadLine, Reading, server, windows
<1>2. 1 \in DOMAIN net /\ Message(net[1])
  BY <1>1, Shifted, FirstRead DEF GtkInv, Traffic
<1>3. owed = "none"
  BY <1>1, <1>2 DEF GtkInv, Reply
<1>4. ASSUME link = "live", lapses = {}, ~AsksQueue, Now' = Hears(Now, net[1]),
             ReadsQueue' \/ answer = <<>>
      PROVE  \E d : Hearing(Now', net', d) /\ Agrees(d)'
  <2>1. PICK d : Hearing(Now, net, d) /\ Agrees(d)
    BY <1>4 DEF QueueInv
  <2>2. Agrees(d)'
    BY <1>1, <1>3, <1>4, <2>1 DEF Agrees
  <2> QED BY <1>1, <1>4, <2>1, <2>2, HeardOne
<1>5. CASE net[1].kind = "line"
  <2>1. /\ req = "queuelist" /\ got' = Append(got, net[1].val)
        /\ UNCHANGED <<pc, req, ret, stk>>
    BY <1>1, <1>2, <1>5 DEF ReadLine, Message, ctl
  <2>2. ~AsksQueue /\ ReadsQueue /\ ReadsQueue'
    BY <1>1, <2>1 DEF AsksQueue, AsksStatus, AsksTrack, ReadsQueue
  <2>3. Now' = Hears(Now, net[1])
    BY <1>1, <1>5, <2>1, <2>2 DEF Now, Hears
  <2> QED BY <1>1, <1>4, <2>1, <2>2, <2>3 DEF QueueInv
<1>6. CASE net[1].kind # "line"
  <2>1. /\ net[1].kind = "last" /\ Return(Append(got, net[1].val)) /\ stk # <<>>
        /\ got' = <<>>
    BY <1>1, <1>6 DEF ReadLine, IsLine, GtkInv, Frames, Bottom
  <2>2. answer = <<>>
    BY <1>2, <2>1 DEF GtkInv, Reply
  <2>3. /\ pc' = stk[Len(stk)].at /\ <<req, pc'>> \in Callers
        /\ pc' \notin {"main", "poll.stopped", "disc"} => ret' = Append(got, net[1].val)
    BY <1>1, <2>1, Returning DEF GtkInv, OnTop
  <2>4. /\ pc' # "read"
        /\ pc' = "conn.queue" <=> req = "queuelist"
        /\ AsksQueue => pc' \in {"conn.status", "conn.track"}
    BY <1>1, <2>3 DEF Callers, AsksQueue, AsksStatus, AsksTrack
  <2>5. ASSUME req = "queuelist" PROVE Now' = Hears(Now, net[1]) /\ Whole(ret')
    <3>1. pc' = "conn.queue" /\ ret' = Append(got, net[1].val)
      BY <2>3, <2>4, <2>5
    <3>2. /\ Now = [at |-> "reading", win |-> view.win, list |-> got]
          /\ Now' = [at |-> "done", win |-> Listed(ret'), list |-> <<>>]
      BY <1>1, <2>5, <3>1 DEF Now, ReadsQueue
    <3>3. Now' = Hears(Now, net[1])
      BY <1>1, <2>1, <3>1, <3>2 DEF Hears
    <3>4. got \in Seq(Nat) /\ net[1].val \in Nat
      BY <1>1, <1>2, <2>1, <2>5 DEF GtkInv, Reply, Message
    <3> QED BY <3>1, <3>3, <3>4, Pushed DEF Whole
  <2>6. ASSUME req # "queuelist" PROVE Now' = Hears(Now, net[1]) /\ pc' # "conn.queue"
    <3>1. pc' # "conn.queue" /\ pc' # "read" /\ pc # "conn.queue"
      BY <1>1, <2>4, <2>6
    <3>2. /\ Now = [at |-> "done", win |-> view.win, list |-> <<>>]
          /\ Now' = [at |-> "done", win |-> view.win, list |-> <<>>]
      BY <1>1, <2>6, <3>1 DEF Now, ReadsQueue
    <3> QED BY <1>1, <3>1, <3>2 DEF Hears
  <2>7. AsksQueue => AsksQueue'
    BY <2>4 DEF AsksQueue
  <2> QED BY <1>1, <1>4, <2>2, <2>5, <2>6, <2>7 DEF QueueInv
<1> QED BY <1>5, <1>6

\* Steps that read nothing and show nothing of the queue.
LEMMA QueueKept ==
  ASSUME QueueInv, UNCHANGED <<queue, link, net>>, lapses' = {} => lapses = {},
         ~AsksQueue, Now' = Now, Now.at = "done", pc' # "conn.queue"
  PROVE  QueueInv'
<1> SUFFICES ASSUME link = "live", lapses' = {}
             PROVE  \E d : Hearing(Now', net', d) /\ Agrees(d)'
  BY DEF QueueInv
<1>1. PICK d : Hearing(Now, net, d) /\ Agrees(d)
  BY DEF QueueInv
<1>2. ~ReadsQueue
  BY DEF Now
<1>3. Agrees(d)'
  BY <1>1, <1>2 DEF Agrees
<1>4. Hearing(Now', net', d)
  BY <1>1
<1> QED BY <1>3, <1>4

\* Without a connection, or while ev_conn asks, nothing is claimed.
LEMMA NothingClaimed ==
  ASSUME QueueInv, UNCHANGED queue, link' # "live" \/ lapses' # {} \/ AsksQueue',
         pc' # "conn.queue" \/ link' # "live"
  PROVE  QueueInv'
BY DEF QueueInv

LEMMA SendQueue ==
  ASSUME GtkInv, QueueInv, Send
  PROVE  QueueInv'
<1>1. /\ pc = "send" \/ (pc = "ask" /\ Up)
      /\ lapses' = IF req = "queuelist" THEN {} ELSE lapses
      /\ UNCHANGED <<queue, link, answer, net, view>>
  BY DEF Send, server
<1>2. CASE req = "none" /\ Return(Failed)
  <2>1. stk # <<>>
    BY <1>1 DEF GtkInv, Frames, Bottom
  <2>2. pc' = stk[Len(stk)].at /\ <<req, pc'>> \in Callers
    BY <1>1, <1>2, <2>1, Returning DEF GtkInv, OnTop
  <2>3. pc' = "main"
    BY <1>2, <2>2 DEF Callers
  <2>4. ~AsksQueue
    BY <1>1, <1>2 DEF AsksQueue, AsksStatus, AsksTrack
  <2>5. Now' = Now /\ Now.at = "done"
    BY <1>1, <2>3 DEF Now, ReadsQueue
  <2> QED BY <1>1, <1>2, <2>3, <2>4, <2>5, QueueKept
<1>3. CASE Goto("read") /\ req # "none" /\ owed' = (IF link = "live" THEN req ELSE "none") /\ got' = <<>>
  <2>1. pc' = "read" /\ UNCHANGED <<req, ret, stk>>
    BY <1>3 DEF Goto
  <2>2. CASE link # "live" \/ AsksQueue'
    BY <1>1, <2>1, <2>2, NothingClaimed
  <2>3. CASE link = "live" /\ req = "queuelist"
    <3>1. ReadsQueue' /\ owed' # "none"
      BY <1>3, <2>1, <2>3 DEF ReadsQueue
    <3>2. Now' = [at |-> "reading", win |-> view.win, list |-> <<>>]
      BY <1>1, <1>3, <2>1, <3>1 DEF Now
    <3>3. \A k \in 1 .. Len(net) : ~IsLine(net[k])
      <4>1. pc # "read" /\ DOMAIN net = 1 .. Len(net)
        BY <1>1, LenProperties DEF GtkInv, Traffic
      <4> QED BY <4>1, NoLines DEF GtkInv
    <3>4. Now'.list = <<>> /\ Now'.at = "reading"
      BY <3>2
    <3> DEFINE c == Now'
    <3> HIDE DEF c
    <3>5. \E d : Hearing(c, net, d) /\ d.list = <<>> /\ d.at = c.at
      <4>1. c.list = <<>>
        BY <3>4 DEF c
      <4> QED BY <3>3, <4>1, HearBroadcasts DEF GtkInv, Traffic
    <3>6. PICK d : Hearing(Now', net', d) /\ d.list = <<>> /\ d.at = "reading"
      BY <1>1, <3>4, <3>5 DEF c
    <3>7. Agrees(d)'
      BY <3>1, <3>6 DEF Agrees
    <3> QED BY <1>1, <2>1, <3>6, <3>7 DEF QueueInv
  <2>4. CASE link = "live" /\ req # "queuelist" /\ ~AsksQueue'
    <3>1. ~AsksQueue
      BY <1>1, <2>1, <2>4 DEF AsksQueue, AsksStatus, AsksTrack
    <3>2. Now' = Now /\ Now.at = "done"
      BY <1>1, <2>1, <2>4 DEF Now, ReadsQueue
    <3> QED BY <1>1, <2>1, <2>4, <3>1, <3>2, QueueKept
  <2> QED BY <2>2, <2>3, <2>4
<1> QED BY <1>2, <1>3 DEF Send

LEMMA ConnQueueQueue ==
  ASSUME GtkInv, QueueInv, ConnQueue
  PROVE  QueueInv'
<1>1. /\ pc = "conn.queue" /\ Return(Failed) /\ UNCHANGED <<queue, link, net>>
      /\ view' = IF ret = Failed THEN view ELSE [view EXCEPT !.win = queue_list_populate(@, ret)]
      /\ lapses' = IF Cut \in ToSet(ret) THEN {"cut"} ELSE lapses
  BY DEF ConnQueue, session, server
<1>2. stk # <<>>
  BY <1>1 DEF GtkInv, Frames, Bottom
<1>3. pc' = "send"
  BY <1>1, <1>2, Returning DEF GtkInv, OnTop
<1>4. CASE link # "live" \/ lapses' # {}
  BY <1>1, <1>3, <1>4, NothingClaimed
<1>5. CASE link = "live" /\ lapses' = {}
  <2>1. lapses = {} /\ Whole(ret)
    BY <1>1, <1>5 DEF QueueInv
  <2>2. view'.win = Listed(ret)
    BY <1>1, <2>1 DEF Whole, Failed, queue_list_populate, GtkInv, Windows, View
  <2>3. Now' = Now /\ Now.at = "done"
    BY <1>1, <1>3, <2>2 DEF Now, ReadsQueue
  <2>4. ~AsksQueue
    BY <1>1 DEF AsksQueue, AsksStatus, AsksTrack
  <2> QED BY <1>1, <1>3, <2>1, <2>3, <2>4, QueueKept
<1> QED BY <1>4, <1>5

LEMMA RequestQueue ==
  ASSUME GtkInv, QueueInv, Request
  PROVE  QueueInv'
<1>1. CASE Unreachable BY <1>1, NothingClaimed DEF Unreachable, server, session, Up
<1>2. CASE LostEarly \/ SendFails \/ ReadLost
  BY <1>2, NothingClaimed DEF LostEarly, SendFails, ReadLost, Close, server
<1>3. CASE Connected
  BY <1>3, NothingClaimed DEF Connected, server, AsksQueue, AsksStatus
<1>4. CASE ConnStatus
  <2>1. pc = "conn.status" /\ Call("curtrack", "conn.track") /\ UNCHANGED queue
    BY <1>4 DEF ConnStatus, server
  <2>2. stk # <<>> /\ OnTop("conn.track", req, stk[Len(stk)].at)
    BY <2>1 DEF GtkInv, Frames, OnTop, Bottom
  <2>3. pc' = "ask" /\ req' = "curtrack" /\ stk'[Len(stk')].at = "conn.track"
    <3>1. <<"curtrack", "conn.track">> \in Callers /\ "conn.track" \notin Bottom
      BY DEF Callers, Bottom
    <3> QED BY <2>1, <2>2, <3>1, CallStep
  <2> QED BY <2>1, <2>3, NothingClaimed DEF AsksQueue, AsksTrack
<1>5. CASE ConnTrack
  BY <1>5, NothingClaimed DEF ConnTrack, server, Call, AsksQueue
<1>6. CASE ConnQueue BY <1>6, ConnQueueQueue
<1>7. CASE Send BY <1>7, SendQueue
<1>8. CASE ReadBroadcast BY <1>8, ReadBroadcastQueue
<1>9. CASE ReadLine BY <1>9, ReadLineQueue
<1>10. CASE Disconnected
  <2>1. /\ pc = "disc" /\ Return(ret) /\ UNCHANGED <<queue, link>>
        /\ Up => lapses' # {}
    BY <1>10 DEF Disconnected, session, server
  <2>2. link' # "live" \/ lapses' # {}
    BY <2>1 DEF Up
  <2>3. CASE pc' # "conn.queue" \/ link' # "live"
    BY <2>1, <2>2, <2>3, NothingClaimed
  <2>4. CASE link' = "live"
    BY <2>1, <2>2, <2>4 DEF QueueInv
  <2> QED BY <2>3, <2>4
<1> QED BY <1>1, <1>2, <1>3, <1>4, <1>5, <1>6, <1>7, <1>8, <1>9, <1>10 DEF Request

LEMMA MainLoopQueue ==
  ASSUME GtkInv, QueueInv, MainLoop
  PROVE  QueueInv'
<1>1. CASE PollBroadcast BY <1>1, PollBroadcastQueue
<1>2. CASE PollLost BY <1>2, NothingClaimed DEF PollLost, Close, server
<1>3. CASE PollEnds
  <2>1. /\ pc = "poll" /\ Return(Failed) /\ UNCHANGED <<queue, link, net, lapses, view, got>>
    BY <1>3 DEF PollEnds, session, server, windows
  <2>2. stk # <<>>
    BY <2>1 DEF GtkInv, Frames, Bottom
  <2>3. pc' = "main"
    BY <2>1, <2>2, Returning DEF GtkInv, OnTop
  <2>4. ~AsksQueue /\ Now' = Now /\ Now.at = "done"
    BY <2>1, <2>3 DEF AsksQueue, AsksStatus, AsksTrack, Now, ReadsQueue
  <2> QED BY <2>1, <2>3, <2>4, QueueKept
<1>4. CASE \/ Start \/ iowatch_dudl \/ PollStopped \/ Idle \/ IdleTrack \/ IdleTracks \/ IdleAlbums
           \/ Click \/ ctl_prog__changed
  <2>1. pc \in Bottom \cup {"poll.stopped"} /\ UNCHANGED <<queue, link, net, lapses, got>>
    BY <1>4 DEF Start, iowatch_dudl, PollStopped, Idle, IdleTrack, IdleTracks, IdleAlbums, Click,
                ctl_prog__changed, session, server, windows, Bottom
  <2>2. view'.win = view.win
    BY <1>4 DEF Start, iowatch_dudl, PollStopped, Idle, IdleTrack, IdleTracks, IdleAlbums, Click,
                ctl_prog__changed, windows, curlists_clear, GtkInv, Windows, View
  <2>3. pc' \in {"ask", "main", "poll"}
    BY <1>4 DEF Start, iowatch_dudl, PollStopped, Idle, IdleTrack, IdleTracks, IdleAlbums, Click,
                ctl_prog__changed, Call, Goto, ctl
  <2>4. ~AsksQueue /\ Now' = Now /\ Now.at = "done"
    BY <2>1, <2>2, <2>3 DEF AsksQueue, AsksStatus, AsksTrack, Now, ReadsQueue, Bottom
  <2> QED BY <2>1, <2>3, <2>4, QueueKept
<1> QED BY <1>1, <1>2, <1>3, <1>4 DEF MainLoop

(***************************************************************************)
(* With every broadcast read, the queue window is the server's queue: what *)
(* comes before, between and after the lines of the list is applied once,  *)
(* unless it tore the list, or the list was cut short, or ev_disc wiped    *)
(* what a new connection had shown (gtk/queue.c:276, 293).                 *)
(***************************************************************************)
THEOREM QueueIsShown == Spec => []QueueShown
<1>1. Init => QueueInv
  <2> SUFFICES ASSUME Init PROVE Distinct(queue)
    BY DEF Init, QueueInv
  <2>1. CASE queue = <<>>
    BY <2>1, EmptySeq DEF Distinct
  <2>2. CASE \E e \in Entries : queue = <<e>>
    <3>1. Len(queue) = 1
      BY <2>2
    <3> QED BY <3>1 DEF Distinct
  <2> QED BY <2>1, <2>2 DEF Init
<1>2. GtkInv /\ QueueInv /\ [Next]_vars => QueueInv'
  <2> SUFFICES ASSUME GtkInv, QueueInv, [Next]_vars PROVE QueueInv'
    OBVIOUS
  <2>1. CASE ServerChanges BY <2>1, ChangesQueue
  <2>2. CASE ServerAnswers BY <2>2, AnswersQueue
  <2>3. CASE ServerHangsUp BY <2>3, NothingClaimed DEF ServerHangsUp, server
  <2>4. CASE Request BY <2>4, RequestQueue
  <2>5. CASE MainLoop BY <2>5, MainLoopQueue
  <2>6. CASE UNCHANGED vars
    <3>1. UNCHANGED <<queue, link, owed, answer, net, got, view, lapses, pc, req, ret, stk>>
      BY <2>6 DEF vars, server, session, windows, ctl
    <3> QED BY <3>1 DEF QueueInv, AsksQueue, AsksStatus, AsksTrack, Now, ReadsQueue, Agrees
  <2> QED BY <2>1, <2>2, <2>3, <2>4, <2>5, <2>6 DEF Next, Server
<1>3. QueueInv => QueueShown
  <2> SUFFICES ASSUME QueueInv, Quiet, lapses = {} PROVE view.win = queue
    BY DEF QueueShown
  <2>1. ~AsksQueue /\ pc = "main" /\ net = <<>> /\ link = "live"
    BY DEF Quiet, AsksQueue, AsksStatus, AsksTrack
  <2>2. PICK d : Hearing(Now, <<>>, d) /\ Agrees(d)
    BY <2>1 DEF QueueInv
  <2>3. d = Now
    BY <2>2, HearNothing
  <2>4. Now.at = "done" /\ Now.win = view.win
    BY <2>1 DEF Now, ReadsQueue
  <2> QED BY <2>2, <2>3, <2>4 DEF Agrees
<1> QED BY <1>1, <1>2, <1>3, GtkInvariant, PTL DEF Spec
=============================================================================
