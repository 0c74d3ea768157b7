------------------------------ MODULE Session ------------------------------
(***************************************************************************)
(* The client session of libdudlc: opening a connection to dudld and       *)
(* logging in (src/lib/session.c), sending a command and reading its reply *)
(* while broadcasts arrive (src/lib/proto.c), collecting a reply of many   *)
(* lines in a list (src/lib/iterate.c), and the handlers that the three    *)
(* programs install for the events raised on the way.                      *)
(*                                                                         *)
(* The library is sequential but reenters itself: a lost connection is     *)
(* noticed deep in a call, raises the disconnect event there, and the      *)
(* handler may call duc_open or a command again.  The C stack is therefore *)
(* a variable.  pc names the place the running function has reached, stk   *)
(* holds the places where its callers resume, res is what the last call    *)
(* returned.  Between two places nothing else of the process runs; the     *)
(* server and the network may act at any time.                             *)
(***************************************************************************)
EXTENDS Integers, Sequences

CONSTANTS
  Codes2, Codes3, Codes5,  \* reply codes by first digit: success, go on, error
  WithUser,                \* duc_setauth has been called
  Programs,                \* whose handlers may be installed (below)
  GuestHears,              \* the server broadcasts to those not logged in, too
  Rogue,                   \* the server may send lines that are no replies
  Window,                  \* bound: lines in flight and in the buffer
  MaxDepth                 \* bound: calls on the stack when a server accepts (MayNest)

Codes == Codes2 \cup Codes3 \cup Codes5

(***************************************************************************)
(* "ir":  irdudl and "dudlc -c" install no handler at all.                 *)
(* "cli": dudlc reopens the session inside its disconnect handler.         *)
(* "gtk": gtkdudlc queries the server inside its connect handler, and      *)
(*        moves its progress slider back to 0 when the player stops or the *)
(*        connection is gone; moving it sends a "jump" command.            *)
(***************************************************************************)
Clients == {"ir", "cli", "gtk"}

ASSUME CodesAssumption ==
  /\ "none" \notin Codes
  /\ Codes2 \cap Codes3 = {} /\ Codes2 \cap Codes5 = {} /\ Codes3 \cap Codes5 = {}
ASSUME ConfigAssumption ==
  /\ WithUser \in BOOLEAN /\ GuestHears \in BOOLEAN /\ Rogue \in BOOLEAN
  /\ Programs \subseteq Clients
  /\ Window \in Nat /\ MaxDepth \in Nat

Commands == {"user", "pass", "cmd", "list"}
\* What a line is: the greeting, a greeting that is not "dudld 1.x", (part
\* of) the reply to a command, a line that answers nothing, a broadcast (6xx),
\* a line of under 4 characters.
Replies == {"hello", "alien", "stray"} \cup Commands
LineKinds == Replies \cup {"bcast", "short"}
Lines == [to : LineKinds, code : Codes \cup {"none"}, last : BOOLEAN]

VARIABLES
  \* the server and the connection
  link,     \* "down": our fd is -1; "live"; "gone": the server has hung up
  owed,     \* commands the server has read and not finished answering
  rcode,    \* code of the reply it is in the middle of, or "none"
  net,      \* lines on their way to us
  guest,    \* the server still waits for our login
  cause,    \* there is a reason for us to hang up on this connection
  \* struct dudlc and its socket buffer
  rx,       \* complete lines in con->buf
  inreply,  \* a reply is still to be read
  code,     \* code of the reply being read, "none" for the empty string
  line,     \* the line p->line points into, "none" for NULL
  \* the program
  client,   \* which one it is
  status,   \* the connection status its events reported last
  slider,   \* gtk: the progress slider is away from 0
  pc, arg,  \* place in the running function, and its command argument
  stk,      \* where the callers resume
  res       \* what the call that just returned gave, or "none"

wire == <<link, owed, rcode, net, guest, cause>>
sess == <<rx, inreply, code, line>>
prog == <<client, status, slider>>
ctl == <<pc, arg, stk, res>>
vars == <<wire, sess, prog, ctl>>

(***************************************************************************)
(* Places.  "rlast", "it.first" and "it.next" are the three loops that     *)
(* call _duc_rnext: _duc_rlast and the two calls in _duc_it_newv.          *)
(***************************************************************************)
Readers == {"rlast", "it.first", "it.next"}
Handshake == {"open.hello", "open.user", "open.pass", "open.event", "open.clean1"}
Places == {"idle"} \cup Readers \cup Handshake \cup
          {"open", "close", "fail",
           "conn.track", "conn.list", "conn.done",
           "send", "send.opened", "cmd", "cmd.sent", "cmd.code",
           "it", "it.sent", "it.list", "poll", "poll.opened", "poll.drain"}
\* Where the running function has a command for its argument.
CommandPlaces == {"send", "send.opened", "cmd", "cmd.sent", "cmd.code",
                  "it", "it.sent", "it.first", "it.next"}
Args == Commands \cup {"none"}
Frames == [at : Places, cmd : Args]
Results == {"none", "ok", "fail", "partial"}

Goto(p) == pc' = p /\ res' = "none" /\ UNCHANGED <<arg, stk>>

\* Call f with command argument c; the caller goes on at k.
Call(f, c, k) ==
  /\ stk' = Append(stk, [at |-> k, cmd |-> arg])
  /\ pc' = f /\ arg' = c /\ res' = "none"

Return(r) ==
  LET caller == stk[Len(stk)] IN
  /\ pc' = caller.at /\ arg' = caller.cmd /\ res' = r
  /\ stk' = SubSeq(stk, 1, Len(stk) - 1)

Up == link # "down"

Init ==
  /\ link = "down" /\ owed = <<>> /\ rcode = "none" /\ net = <<>>
  /\ guest = FALSE /\ cause = FALSE
  /\ rx = <<>> /\ inreply = FALSE /\ code = "none" /\ line = "none"
  /\ client \in Programs /\ status = "offline" /\ slider = FALSE
  /\ pc = "idle" /\ arg = "none" /\ stk = <<>> /\ res = "none"

(***************************************************************************)
(* The server and the network (dudld is not part of the repository).  It   *)
(* greets, answers every command with one or more lines of one code, the   *)
(* last of them marked, and sends broadcasts at any moment after its       *)
(* greeting, between two lines of a reply too.                             *)
(***************************************************************************)
Room == Len(rx) + Len(net) < Window

Refusal(to, c) ==
  \/ to = "alien"
  \/ to = "hello" /\ c \notin Codes2
  \/ to \in {"user", "pass"} /\ c \in Codes5

ServerAnswers(last) ==
  /\ link = "live" /\ owed # <<>> /\ Room
  /\ \E c \in Codes :
       \E to \in {Head(owed)} \cup (IF Head(owed) = "hello" THEN {"alien"} ELSE {}) :
         /\ rcode \in {"none", c}
         /\ net' = Append(net, [to |-> to, code |-> c, last |-> last])
         /\ cause' = (cause \/ Refusal(to, c))
         /\ guest' = (guest /\ ~(last /\ to = "pass" /\ c \notin Codes5))
         /\ rcode' = IF last THEN "none" ELSE c
         /\ owed' = IF last THEN Tail(owed) ELSE owed
  /\ UNCHANGED <<link, sess, prog, ctl>>

ServerBroadcasts ==
  /\ link = "live" /\ Room
  /\ owed # <<"hello">> /\ (GuestHears \/ ~guest)
  /\ net' = Append(net, [to |-> "bcast", code |-> "none", last |-> TRUE])
  /\ UNCHANGED <<link, owed, rcode, guest, cause, sess, prog, ctl>>

\* A line too short to carry a code, a line nobody asked for, or a reply that
\* changes its code midway.
ServerGarbles ==
  /\ Rogue /\ link = "live" /\ Room
  /\ \/ net' = Append(net, [to |-> "short", code |-> "none", last |-> TRUE])
     \/ \E c \in Codes :
          /\ owed = <<>>
          /\ net' = Append(net, [to |-> "stray", code |-> c, last |-> TRUE])
     \/ /\ owed # <<>> /\ rcode # "none"
        /\ \E c \in Codes \ {rcode} :
             net' = Append(net, [to |-> Head(owed), code |-> c, last |-> FALSE])
  /\ cause' = TRUE
  /\ UNCHANGED <<link, owed, rcode, guest, sess, prog, ctl>>

\* The server hangs up or its host dies: some of the lines may be lost.
ServerHangsUp ==
  /\ link = "live"
  /\ link' = "gone" /\ owed' = <<>> /\ rcode' = "none" /\ cause' = TRUE
  /\ \E n \in 0 .. Len(net) : net' = SubSeq(net, 1, n)
  /\ UNCHANGED <<guest, sess, prog, ctl>>

(***************************************************************************)
(* src/lib/sock.c, line by line instead of byte by byte.                   *)
(***************************************************************************)
RecvOverwrites ==
  /\ net # <<>>
  /\ \E n \in 1 .. Len(net) :
       rx' = SubSeq(net, 1, n) /\ net' = SubSeq(net, n + 1, Len(net))

\* duc_sock_recv blocks until there is something, takes what there is
\* (at least one line), and fails when the server has hung up.
RecvReads ==
  /\ net # <<>>
  /\ \E n \in 1 .. Len(net) :
       /\ rx' = rx \o SubSeq(net, 1, n)
       /\ net' = SubSeq(net, n + 1, Len(net))

NeverFails == FALSE
RecvFails == net = <<>> /\ link = "gone"

\* duc_sock_disconnect: what is still in the buffer or on its way is dropped.
Disconnect ==
  /\ link' = "down" /\ owed' = <<>> /\ rcode' = "none" /\ net' = <<>>
  /\ guest' = FALSE /\ cause' = FALSE
  /\ rx' = <<>>

\* Lines of under four characters, and those whose code begins with 6.
NoBroadcast(l) == FALSE
IsShort(l) == l.to = "short"
IsBroadcast(l) == l.to = "bcast"
IsOther(l) == ~IsShort(l) /\ ~IsBroadcast(l)

\* duc_sock_connect succeeds: an empty buffer, and a server about to greet.
Connect ==
  /\ link' = "live" /\ owed' = <<"hello">> /\ rcode' = "none" /\ net' = <<>>
  /\ guest' = WithUser /\ cause' = FALSE
  /\ UNCHANGED rx

(***************************************************************************)
(* The handlers.                                                           *)
(***************************************************************************)
\* gtkdudlc: the slider leaves its place, and its signal sends "jump".
Jump(k) == slider /\ slider' = FALSE /\ Call("cmd", "cmd", k)

\* dudlc reopens at once.
CbDisc == client = "cli" /\ Call("open", "none", "fail") /\ UNCHANGED slider

\* gtkdudlc clears its windows, the slider among them.
EvDisc ==
  /\ client = "gtk"
  /\ \/ Jump("fail")
     \/ ~slider /\ UNCHANGED slider /\ Return("fail")

NoHandler == client = "ir" /\ UNCHANGED slider /\ Return("fail")

\* gtkdudlc asks for the status, then (below) for the track and the queue.
EvConn == client = "gtk" /\ Call("cmd", "cmd", "conn.track")

\* gtkdudlc, on a broadcast: the slider follows the time elapsed, a new track
\* resets it unnoticed, a stopped player moves it back.
EvPlayer ==
  /\ client = "gtk"
  /\ \/ slider' \in BOOLEAN /\ UNCHANGED ctl
     \/ Jump(pc)

(***************************************************************************)
(* duc_open.                                                               *)
(***************************************************************************)
NeverAlreadyOpen == FALSE
AlreadyOpen == Up

OpenAlready ==
  /\ pc = "open" /\ AlreadyOpen
  /\ Return("ok")
  /\ UNCHANGED <<wire, sess, prog>>

OpenUnreachable ==
  /\ pc = "open" /\ ~AlreadyOpen
  /\ Return("fail")
  /\ UNCHANGED <<wire, sess, prog>>

\* A bound on the servers, not on the code: dudlc's handler calls duc_open from
\* within duc_close, and so calls nest for as long as servers accept and hang up.
MayNest == Len(stk) < MaxDepth

\* code and line keep what an earlier attempt left in them.
OpenConnects ==
  /\ pc = "open" /\ ~AlreadyOpen /\ MayNest
  /\ Connect
  /\ inreply' = TRUE
  /\ Call("rlast", arg, "open.hello")
  /\ UNCHANGED <<code, line, prog>>

\* The greeting is a success and says dudld 1.x.
Greeted == res = "ok" /\ code \in Codes2 /\ line = "hello"

OpenGreeted ==
  /\ pc = "open.hello"
  /\ IF ~Greeted THEN Goto("open.clean1")
     ELSE IF WithUser THEN Call("cmd", "user", "open.user")
     ELSE Goto("open.event")
  /\ UNCHANGED <<wire, sess, prog>>

\* duc_cmd_auth: "pass" only after "user" succeeded.
OpenUser ==
  /\ pc = "open.user"
  /\ IF res = "ok" THEN Call("cmd", "pass", "open.pass") ELSE Goto("open.clean1")
  /\ UNCHANGED <<wire, sess, prog>>

LoggedInAnyway == TRUE
LoggedIn == res = "ok"

OpenPass ==
  /\ pc = "open.pass"
  /\ Goto(IF LoggedIn THEN "open.event" ELSE "open.clean1")
  /\ UNCHANGED <<wire, sess, prog>>

\* The connect event.
OpenEvent ==
  /\ pc = "open.event"
  /\ status' = "online"
  /\ \/ EvConn
     \/ client # "gtk" /\ Return("ok")
  /\ UNCHANGED <<wire, sess, client, slider>>

\* ev_conn goes on whatever became of its query; a track, when there is one,
\* resets the slider.
ConnTrack ==
  /\ pc = "conn.track"
  /\ Call("cmd", "cmd", "conn.list")
  /\ UNCHANGED <<wire, sess, prog>>

ConnList ==
  /\ pc = "conn.list"
  /\ slider' \in {slider, slider /\ res # "ok"}
  /\ Call("it", "list", "conn.done")
  /\ UNCHANGED <<wire, sess, client, status>>

ConnDone ==
  /\ pc = "conn.done"
  /\ Return("ok")
  /\ UNCHANGED <<wire, sess, prog>>

\* The failing end of duc_open: the socket is closed, and nothing else.
OpenClean ==
  /\ pc = "open.clean1"
  /\ Disconnect
  /\ Return("fail")
  /\ UNCHANGED <<inreply, code, line, prog>>

(***************************************************************************)
(* duc_close.                                                              *)
(***************************************************************************)
ForgetAllButCode == line' = "none" /\ inreply' = FALSE /\ UNCHANGED code
ForgetAllButInreply == line' = "none" /\ code' = "none" /\ UNCHANGED inreply
ForgetReply == line' = "none" /\ inreply' = FALSE /\ code' = "none"

SilentDisconnect == UNCHANGED status
DisconnectEvent == status' = "offline"

\* Every caller takes duc_close for a failure, hence the result of its place.
Close ==
  /\ pc = "close"
  /\ Disconnect /\ ForgetReply
  /\ DisconnectEvent
  /\ CbDisc \/ EvDisc \/ NoHandler
  /\ UNCHANGED client

ReturnFail ==
  /\ pc = "fail"
  /\ Return("fail")
  /\ UNCHANGED <<wire, sess, prog>>

(***************************************************************************)
(* _duc_vsend.                                                             *)
(***************************************************************************)
NeverRefused == FALSE
SendRefused == inreply

Send ==
  /\ pc = "send"
  /\ IF SendRefused THEN Return("fail") ELSE Call("open", arg, "send.opened")
  /\ UNCHANGED <<wire, sess, prog>>

\* duc_open failed, or the line is longer than BUFLENLINE (not for a login).
SendGivesUp ==
  /\ pc = "send.opened"
  /\ res = "fail" \/ arg \in {"cmd", "list"}
  /\ Return("fail")
  /\ UNCHANGED <<wire, sess, prog>>

ReplyNotAwaited == UNCHANGED inreply
AwaitReply == inreply' = TRUE

SendWrites ==
  /\ pc = "send.opened" /\ res = "ok" /\ Up
  /\ owed' = IF link = "live" THEN Append(owed, arg) ELSE owed
  /\ code' = "none" /\ line' = "none" /\ AwaitReply
  /\ Return("ok")
  /\ UNCHANGED <<link, rcode, net, guest, cause, rx, prog>>

\* send() fails: the server is gone, or the socket is closed although
\* duc_open returned 0.
SendFails ==
  /\ pc = "send.opened" /\ res = "ok" /\ link # "live"
  /\ code' = "none" /\ line' = "none"
  /\ Goto("close")
  /\ UNCHANGED <<wire, rx, inreply, prog>>

(***************************************************************************)
(* _duc_cmd_succ and its siblings: send, _duc_rlast, look at the code.     *)
(***************************************************************************)
Cmd ==
  /\ pc = "cmd"
  /\ Call("send", arg, "cmd.sent")
  /\ UNCHANGED <<wire, sess, prog>>

CmdSent ==
  /\ pc = "cmd.sent"
  /\ IF res = "ok" THEN Call("rlast", arg, "cmd.code") ELSE Return("fail")
  /\ UNCHANGED <<wire, sess, prog>>

CmdCode ==
  /\ pc = "cmd.code"
  /\ Return(IF res = "ok" /\ code \in Codes2 \cup Codes3 THEN "ok" ELSE "fail")
  /\ UNCHANGED <<wire, sess, prog>>

(***************************************************************************)
(* _duc_it_newv: every line of the reply becomes an item of a list.        *)
(***************************************************************************)
It ==
  /\ pc = "it"
  /\ Call("send", arg, "it.sent")
  /\ UNCHANGED <<wire, sess, prog>>

ItSent ==
  /\ pc = "it.sent"
  /\ IF res = "ok" THEN Goto("it.first") ELSE Return("fail")
  /\ UNCHANGED <<wire, sess, prog>>

\* The list ended because _duc_rnext lost the connection: the code returns
\* it like a complete one.  "partial" tells the two apart.
ItList ==
  /\ pc = "it.list"
  /\ Return("partial")
  /\ UNCHANGED <<wire, sess, prog>>

(***************************************************************************)
(* _duc_rnext, in the loops that call it.                                  *)
(***************************************************************************)
\* duc_close and -1: for the second loop of _duc_it_newv the list is done.
RNextCloses ==
  IF pc = "it.next" THEN Call("close", "none", "it.list") ELSE Goto("close")

\* -2, there is nothing to read: _duc_rlast and the list are done.
RNextDone ==
  /\ pc \in Readers /\ ~inreply
  /\ Return(IF pc = "it.first" THEN "fail" ELSE "ok")
  /\ UNCHANGED <<wire, sess, prog>>

RNextRecv ==
  /\ pc \in Readers /\ inreply /\ rx = <<>>
  /\ RecvReads
  /\ UNCHANGED <<link, owed, rcode, guest, cause, inreply, code, line, prog, ctl>>

RNextLost ==
  /\ pc \in Readers /\ inreply /\ rx = <<>>
  /\ RecvFails
  /\ RNextCloses
  /\ UNCHANGED <<wire, sess, prog>>

RNextShort ==
  /\ pc \in Readers /\ inreply /\ rx # <<>> /\ IsShort(Head(rx))
  /\ rx' = Tail(rx)
  /\ RNextCloses
  /\ UNCHANGED <<wire, inreply, code, line, prog>>

\* _duc_bcast: the line is parsed and handed to the program's handler.
Dispatch ==
  /\ rx' = Tail(rx)
  /\ EvPlayer \/ UNCHANGED <<slider, ctl>>
  /\ UNCHANGED <<wire, inreply, code, line, client, status>>

RNextBroadcast ==
  /\ pc \in Readers /\ inreply /\ rx # <<>> /\ IsBroadcast(Head(rx))
  /\ Dispatch

CodeFits(l) == code = "none" \/ code = l.code

\* After an error or a line its converter rejects, _duc_it_newv reads the
\* rest of the reply and returns NULL.
AbandonUnread == Return("fail")
Abandon == Call("rlast", arg, "fail")

RNextReply ==
  /\ pc \in Readers /\ inreply /\ rx # <<>> /\ IsOther(Head(rx))
  /\ LET l == Head(rx) IN
       /\ rx' = Tail(rx) /\ line' = l.to
       /\ IF CodeFits(l)
            THEN /\ code' = l.code /\ inreply' = ~l.last
                 /\ \/ pc = "rlast" /\ UNCHANGED ctl
                    \/ pc # "rlast" /\ l.code \notin Codes5 /\ Goto("it.next")
                    \/ pc # "rlast" /\ Abandon
            ELSE UNCHANGED <<code, inreply>> /\ RNextCloses
  /\ UNCHANGED <<wire, prog>>

(***************************************************************************)
(* duc_poll.                                                               *)
(***************************************************************************)
\* Its duc_open finds the session open: only a readable descriptor is polled.
Poll ==
  /\ pc = "poll"
  /\ Call("open", "none", "poll.opened")
  /\ UNCHANGED <<wire, sess, prog>>

PollRecv ==
  /\ pc = "poll.opened" /\ res = "ok"
  /\ RecvReads
  /\ Goto("poll.drain")
  /\ UNCHANGED <<link, owed, rcode, guest, cause, inreply, code, line, prog>>

\* No return after this duc_close: the lines of whatever connection its
\* handler has opened are looked at next.
PollLost ==
  /\ pc = "poll.opened" /\ res = "ok"
  /\ RecvFails
  /\ Call("close", "none", "poll.drain")
  /\ UNCHANGED <<wire, sess, prog>>

PollDone ==
  /\ pc = "poll.drain" /\ rx = <<>>
  /\ Return("ok")
  /\ UNCHANGED <<wire, sess, prog>>

PollShort ==
  /\ pc = "poll.drain" /\ rx # <<>> /\ IsShort(Head(rx))
  /\ rx' = Tail(rx)
  /\ Goto("close")
  /\ UNCHANGED <<wire, inreply, code, line, prog>>

\* "found unprocessed input": the line is dropped.
PollUnprocessed ==
  /\ pc = "poll.drain" /\ rx # <<>> /\ IsOther(Head(rx))
  /\ rx' = Tail(rx)
  /\ UNCHANGED <<wire, inreply, code, line, prog, ctl>>

PollBroadcast ==
  /\ pc = "poll.drain" /\ rx # <<>> /\ IsBroadcast(Head(rx))
  /\ Dispatch

(***************************************************************************)
(* The main loops: nothing runs, and the program may call duc_open (every  *)
(* turn of irdudl's loop, once at the start of the others), run a command  *)
(* of either kind, call duc_poll when select or the GLib watch finds the   *)
(* descriptor readable, or (dudlc's "user") close to log in anew.          *)
(***************************************************************************)
UserOpens == pc = "idle" /\ Call("open", "none", "idle") /\ UNCHANGED <<wire, sess, prog>>

UserCommands ==
  /\ pc = "idle"
  /\ Call("cmd", "cmd", "idle") \/ Call("it", "list", "idle")
  /\ UNCHANGED <<wire, sess, prog>>

Readable == net # <<>> \/ link = "gone"

UserPolls ==
  /\ pc = "idle" /\ Readable
  /\ Call("poll", "none", "idle")
  /\ UNCHANGED <<wire, sess, prog>>

UserCloses ==
  /\ pc = "idle" /\ client = "cli" /\ WithUser
  /\ Call("close", "none", "idle")
  /\ cause' = Up
  /\ UNCHANGED <<link, owed, rcode, net, guest, sess, prog>>

Server ==
  \/ \E last \in BOOLEAN : ServerAnswers(last)
  \/ ServerBroadcasts \/ ServerGarbles \/ ServerHangsUp

User == UserOpens \/ UserCommands \/ UserPolls \/ UserCloses

Library ==
  \/ OpenAlready \/ OpenUnreachable \/ OpenConnects
  \/ OpenGreeted \/ OpenUser \/ OpenPass \/ OpenEvent \/ OpenClean
  \/ ConnTrack \/ ConnList \/ ConnDone
  \/ Close \/ ReturnFail
  \/ Send \/ SendGivesUp \/ SendWrites \/ SendFails
  \/ Cmd \/ CmdSent \/ CmdCode \/ It \/ ItSent \/ ItList
  \/ RNextDone \/ RNextRecv \/ RNextLost \/ RNextShort
  \/ RNextBroadcast \/ RNextReply
  \/ Poll \/ PollRecv \/ PollLost
  \/ PollDone \/ PollShort \/ PollUnprocessed \/ PollBroadcast

Next == Server \/ User \/ Library

Spec == Init /\ [][Next]_vars

(***************************************************************************)
(* Fairness.  The process runs when it can, and its loop polls a readable  *)
(* descriptor; a live server finishes the reply it owes.                   *)
(***************************************************************************)
FairSpec ==
  /\ Spec
  /\ WF_vars(Library) /\ SF_vars(UserPolls)
  /\ SF_vars(ServerAnswers(TRUE))

\* irdudl calls duc_open in every turn of its loop, and select times out
\* after 60 s while it is not connected.
IrSpec == FairSpec /\ WF_vars(client = "ir" /\ UserOpens)

-----------------------------------------------------------------------------
(* Types, and the discipline of the stack: the main loop is at its bottom. *)
WireOK ==
  /\ link \in {"down", "live", "gone"}
  /\ owed \in Seq({"hello"} \cup Commands)
  /\ rcode \in Codes \cup {"none"}
  /\ net \in Seq(Lines)
  /\ guest \in BOOLEAN /\ cause \in BOOLEAN

SessOK ==
  /\ rx \in Seq(Lines)
  /\ inreply \in BOOLEAN
  /\ code \in Codes \cup {"none"}
  /\ line \in Replies \cup {"none"}

ProgOK ==
  client \in Programs /\ status \in {"offline", "online"} /\ slider \in BOOLEAN

CtlOK ==
  /\ pc \in Places /\ arg \in Args /\ res \in Results
  /\ stk \in Seq(Frames)
  /\ (pc = "idle") <=> (stk = <<>>)
  /\ \A i \in 1 .. Len(stk) : (stk[i].at = "idle") <=> (i = 1)
  /\ pc \in CommandPlaces => arg \in Commands
  /\ \A i \in 1 .. Len(stk) : stk[i].at \in CommandPlaces => stk[i].cmd \in Commands

TypeOK == WireOK /\ SessOK /\ ProgOK /\ CtlOK

(***************************************************************************)
(* inreply tells the truth, in every place and under every nesting of      *)
(* handlers: when it is not set, the server owes nothing and no line of a  *)
(* reply is left unread, so the next command cannot take an older reply    *)
(* for its own and duc_poll meets broadcasts only; when it is set on a     *)
(* live connection there is one reply to wait for, so _duc_rnext does not  *)
(* block forever.                                                          *)
(***************************************************************************)
Coming == rx \o net
IsReply(i) == Coming[i].to \in Replies
IsFinal(i) == IsReply(i) /\ Coming[i].last

NothingDue == owed = <<>> /\ \A i \in 1 .. Len(Coming) : ~IsReply(i)

\* Still at the server, or its last line is on the way with nothing behind it.
OneDue ==
  \/ Len(owed) = 1 /\ \A i \in 1 .. Len(Coming) : ~IsFinal(i)
  \/ /\ owed = <<>>
     /\ \E i \in 1 .. Len(Coming) :
          IsFinal(i) /\ \A j \in 1 .. Len(Coming) : IsReply(j) => j <= i
     /\ \A i, j \in 1 .. Len(Coming) : IsFinal(i) /\ IsFinal(j) => i = j

InReplyTruth ==
  /\ ~inreply => NothingDue
  /\ inreply /\ link = "live" /\ pc # "close" => OneDue

(***************************************************************************)
(* inreply is set only while some _duc_rnext loop is at work on an open    *)
(* connection.  Were it left set on a closed one, _duc_vsend would refuse  *)
(* every later command before it reconnects, for good.                     *)
(***************************************************************************)
Reading == \E i \in 1 .. Len(stk) + 1 :
             (IF i <= Len(stk) THEN stk[i].at ELSE pc) \in
               Readers \cup {"cmd.sent", "it.sent", "close"}

NotWedged == inreply => Up /\ Reading

(***************************************************************************)
(* The session asks the socket for nothing but what LineSocket promises,   *)
(* and loses no line that it received except with its connection.          *)
(***************************************************************************)
Socket == INSTANCE LineSocket WITH Line <- Lines
OnLineSocket == Socket!Spec

(***************************************************************************)
(* The line by which a command is judged answers this very command, also   *)
(* when the command that is waiting had to reconnect, log in and serve     *)
(* handlers before it was sent.                                            *)
(***************************************************************************)
ReplyIsOurs ==
  /\ pc = "cmd.code" /\ res = "ok" => line = arg
  /\ pc = "it.next" => line = arg /\ code \notin Codes5
  /\ pc = "open.hello" /\ res = "ok" => line \in {"hello", "alien"}

(***************************************************************************)
(* Where the code of a reply is looked at there is one: _duc_rcode does    *)
(* not return the NULL its callers would follow.                           *)
(***************************************************************************)
CodeIsThere ==
  (pc = "cmd.code" /\ res = "ok") \/ pc = "it.next" => code # "none"

(***************************************************************************)
(* No command of the program reaches the server ahead of the login.        *)
(***************************************************************************)
LoginComesFirst ==
  guest => \A i \in 1 .. Len(owed) : owed[i] \in {"hello", "user", "pass"}

(***************************************************************************)
(* No handshake runs inside another one.                                   *)
(***************************************************************************)
Handshakes ==
  { i \in 1 .. Len(stk) + 1 :
      (IF i <= Len(stk) THEN stk[i].at ELSE pc) \in Handshake }

OneHandshake ==
  client # "cli" => \A i, j \in Handshakes : i = j

(***************************************************************************)
(* When irdudl or gtkdudlc is back in its main loop, the last connect or   *)
(* disconnect event it was given describes the connection it has.          *)
(***************************************************************************)
StatusTruth == client # "cli" /\ pc = "idle" => (status = "online" <=> Up)

(***************************************************************************)
(* In irdudl and gtkdudlc a healthy connection is given up without a       *)
(* reason only because of the reply code an earlier attempt left behind,   *)
(* and that code goes with it: the next attempt starts clean.              *)
(***************************************************************************)
HangsUp == Up /\ ~Up'
CauselessHangupClears ==
  [][client # "cli" /\ HangsUp /\ ~cause => code' = "none"]_vars

(***************************************************************************)
(* Every call of irdudl and of "dudlc -c" comes back to the main loop,     *)
(* however often connections are lost on the way.  At dudlc's prompt it    *)
(* does unless servers that accept and hang up again make it reopen within *)
(* itself until MaxDepth calls are nested: there the code would nest on,   *)
(* without a bound, and nothing is claimed.                                *)
(***************************************************************************)
TooDeep == client # "ir" /\ pc = "open" /\ ~AlreadyOpen /\ ~MayNest
CallsReturn == (pc # "idle") ~> (pc = "idle" \/ TooDeep)

(***************************************************************************)
(* Once the server accepts, greets, logs in and stays, irdudl gets a       *)
(* connection and keeps it, whatever earlier attempts left behind.         *)
(***************************************************************************)
Trouble == OpenUnreachable \/ (cause' /\ ~cause)
Reconnects == client = "ir" /\ <>[][~Trouble]_vars => <>[]Up
=============================================================================
