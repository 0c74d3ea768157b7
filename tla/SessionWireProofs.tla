------------------------- MODULE SessionWireProofs -------------------------
(* What TLAPS proves of Session for servers that keep to the protocol.      *)
EXTENDS SessionProofs

(***************************************************************************)
(* The places of all functions that are running, from the main loop up.    *)
(***************************************************************************)
Top == Len(stk) + 1
At(j) == IF j <= Len(stk) THEN stk[j].at ELSE pc
ArgAt(j) == IF j <= Len(stk) THEN stk[j].cmd ELSE arg

(***************************************************************************)
(* The call graph: the places of each function, and which functions may    *)
(* run above a caller that resumes at k.                                   *)
(***************************************************************************)
InOpen == Handshake \cup {"open", "conn.track", "conn.list", "conn.done"}
InClose == {"close", "fail"}
InSend == {"send", "send.opened"} \cup InClose
InCmd == {"cmd", "cmd.sent", "cmd.code"}
InIt == {"it", "it.sent", "it.first", "it.next", "it.list"} \cup InClose
InLast == {"rlast"} \cup InClose
InPoll == {"poll", "poll.opened", "poll.drain"} \cup InClose

Callees(k) ==
  CASE k = "idle" -> InOpen \cup InCmd \cup InIt \cup InPoll
    [] k \in {"open.hello", "cmd.code"} -> InLast
    [] k \in {"open.user", "open.pass", "conn.track", "conn.list"} \cup Readers -> InCmd
    [] k = "conn.done" -> InIt
    [] k \in Sent -> InSend
    [] k \in {"send.opened", "poll.opened"} -> InOpen
    [] k = "it.list" -> InClose
    [] k = "poll.drain" -> InCmd \cup InClose
    [] k = "fail" -> InOpen \cup InCmd \cup InLast
    [] OTHER -> {}

CallGraph == \A j \in 1 .. Len(stk) : At(j + 1) \in Callees(At(j))

\* The command is handed up unchanged from where it is waited for; the login
\* sends "user" and "pass".
Passes(k, a, f, c) ==
  /\ k \in Sent /\ f \in {"send", "send.opened"} => c = a
  /\ k = "cmd.code" /\ f = "rlast" => c = a
  /\ k = "send.opened" /\ f = "open" => c = a
  /\ k = "open.user" => c = "user"
  /\ k = "open.pass" => c = "pass"
ArgUp == \A j \in 1 .. Len(stk) : Passes(At(j), ArgAt(j), At(j + 1), ArgAt(j + 1))

(***************************************************************************)
(* What the three ways to go on do to the places.                          *)
(***************************************************************************)
LEMMA TopNat == CtlOK => Top \in Nat /\ Top >= 1 /\ At(Top) = pc /\ ArgAt(Top) = arg
BY DEF CtlOK, Top, At, ArgAt

LEMMA FrameTypes ==
  ASSUME TypeOK, NEW j \in 1 .. Top
  PROVE  At(j) \in Places /\ ArgAt(j) \in Args
<1>1. stk \in Seq(Frames) /\ pc \in Places /\ arg \in Args
  BY DEF TypeOK, CtlOK
<1>2. j <= Len(stk) => stk[j] \in Frames
  BY <1>1 DEF Top
<1> QED BY <1>1, <1>2 DEF Frames, At, ArgAt

LEMMA StayAt ==
  ASSUME UNCHANGED ctl
  PROVE  /\ Top' = Top /\ pc' = pc /\ arg' = arg /\ res' = res
         /\ \A j : At(j)' = At(j) /\ ArgAt(j)' = ArgAt(j)
BY DEF ctl, Top, At, ArgAt

LEMMA GotoAt ==
  ASSUME CtlOK, NEW p, Goto(p)
  PROVE  /\ Top' = Top /\ pc' = p /\ arg' = arg /\ res' = "none"
         /\ \A j \in 1 .. Top - 1 : At(j)' = At(j)
         /\ \A j \in 1 .. Top : ArgAt(j)' = ArgAt(j)
         /\ \A j : j = Top => At(j)' = p
<1>1. Len(stk) \in Nat BY DEF CtlOK
<1> QED BY <1>1 DEF Goto, Top, At, ArgAt

LEMMA CallAt ==
  ASSUME CtlOK, NEW f, NEW c, NEW k \in Places, Call(f, c, k)
  PROVE  /\ Top' = Top + 1 /\ pc' = f /\ arg' = c /\ res' = "none"
         /\ \A j \in 1 .. Top - 1 : At(j)' = At(j)
         /\ \A j \in 1 .. Top : ArgAt(j)' = ArgAt(j)
         /\ \A j : j = Top => At(j)' = k
         /\ \A j : j = Top + 1 => At(j)' = f /\ ArgAt(j)' = c
<1> DEFINE frame == [at |-> k, cmd |-> arg]
<1>1. stk \in Seq(Frames) /\ Len(stk) \in Nat BY DEF CtlOK
<1>2. stk' = Append(stk, frame) /\ pc' = f /\ arg' = c /\ res' = "none"
  BY DEF Call
<1>3. frame.at = k /\ frame.cmd = arg OBVIOUS
<1> HIDE DEF frame
<1>4. /\ Len(stk') = Len(stk) + 1 /\ stk'[Len(stk) + 1] = frame
      /\ \A i \in 1 .. Len(stk) : stk'[i] = stk[i]
  BY <1>1, <1>2
<1> QED BY <1>1, <1>2, <1>3, <1>4 DEF Top, At, ArgAt

LEMMA ReturnAt ==
  ASSUME CtlOK, pc # "idle", NEW r, Return(r)
  PROVE  /\ Top >= 2 /\ Top' = Top - 1 /\ res' = r
         /\ pc' = At(Top - 1) /\ arg' = ArgAt(Top - 1)
         /\ \A j \in 1 .. Top - 1 : At(j)' = At(j) /\ ArgAt(j)' = ArgAt(j)
<1>1. /\ Len(stk) \in Nat /\ Len(stk) >= 1 /\ Len(stk') = Len(stk) - 1
      /\ \A i \in 1 .. Len(stk) - 1 : stk'[i] = stk[i]
      /\ pc' = stk[Len(stk)].at /\ res' = r
  BY ReturnFrames
<1>2. arg' = stk[Len(stk)].cmd
  BY DEF Return
<1> QED BY <1>1, <1>2 DEF Top, At, ArgAt

(***************************************************************************)
(* All jumps and calls of the program.                                     *)
(***************************************************************************)
Jumps(p) ==
  \/ pc = "open.hello" /\ p = "open.event" /\ Greeted /\ ~WithUser
  \/ pc = "open.hello" /\ p = "open.clean1" /\ ~Greeted
  \/ pc = "open.user" /\ p = "open.clean1" /\ res # "ok"
  \/ pc = "open.pass" /\ p = "open.event" /\ res = "ok"
  \/ pc = "open.pass" /\ p = "open.clean1" /\ res # "ok"
  \/ pc = "send.opened" /\ p = "close"
  \/ pc = "it.sent" /\ p = "it.first" /\ res = "ok"
  \/ pc \in {"rlast", "it.first"} /\ p = "close" /\ inreply
  \/ pc \in {"it.first", "it.next"} /\ p = "it.next" /\ RNextReply
  \/ pc = "poll.opened" /\ p = "poll.drain"
  \/ pc = "poll.drain" /\ p = "close"

Calls(f, c, k) ==
  \/ pc = "idle" /\ k = "idle" /\ f \in {"open", "cmd", "it", "poll"}
  \/ pc = "idle" /\ k = "idle" /\ f = "close" /\ client = "cli"
  \/ pc = "open" /\ f = "rlast" /\ k = "open.hello" /\ OpenConnects
  \/ pc = "open.hello" /\ f = "cmd" /\ k = "open.user" /\ c = "user" /\ Greeted /\ WithUser
  \/ pc = "open.user" /\ f = "cmd" /\ k = "open.pass" /\ c = "pass" /\ res = "ok"
  \/ pc = "open.event" /\ f = "cmd" /\ k = "conn.track" /\ OpenEvent
  \/ pc = "conn.track" /\ f = "cmd" /\ k = "conn.list"
  \/ pc = "conn.list" /\ f = "it" /\ k = "conn.done"
  \/ pc = "close" /\ f = "open" /\ k = "fail" /\ client = "cli" /\ Close
  \/ pc = "close" /\ f = "cmd" /\ k = "fail" /\ slider /\ Close
  \/ pc = "send" /\ f = "open" /\ k = "send.opened" /\ c = arg /\ ~inreply
  \/ pc = "cmd" /\ f = "send" /\ k = "cmd.sent" /\ c = arg
  \/ pc = "cmd.sent" /\ f = "rlast" /\ k = "cmd.code" /\ c = arg /\ res = "ok"
  \/ pc = "it" /\ f = "send" /\ k = "it.sent" /\ c = arg
  \/ pc \in {"it.first", "it.next"} /\ f = "rlast" /\ k = "fail" /\ c = arg /\ RNextReply
  \/ pc = "it.next" /\ f = "close" /\ k = "it.list" /\ inreply
  \/ pc = "poll" /\ f = "open" /\ k = "poll.opened"
  \/ pc = "poll.opened" /\ f = "close" /\ k = "poll.drain"
  \/ pc \in Readers /\ f = "cmd" /\ k = pc /\ slider /\ inreply
  \/ pc = "poll.drain" /\ f = "cmd" /\ k = pc /\ slider

Returns(r) ==
  \/ pc = "open" /\ r = IF Up THEN "ok" ELSE "fail"
  \/ pc = "open.event" /\ r = "ok" /\ OpenEvent
  \/ pc \in {"conn.done", "poll.drain"} /\ r = "ok"
  \/ pc = "open.clean1" /\ r = "fail" /\ OpenClean
  \/ pc = "close" /\ r = "fail" /\ Close
  \/ pc = "fail" /\ r = "fail"
  \/ pc = "send" /\ r = "fail" /\ inreply
  \/ pc = "send.opened" /\ r = "fail" /\ (res = "fail" \/ arg \in {"cmd", "list"})
  \/ pc = "send.opened" /\ r = "ok" /\ SendWrites
  \/ pc \in Sent /\ r = "fail" /\ res # "ok"
  \/ pc = "cmd.code" /\ r = "ok" /\ res = "ok" /\ code \in Codes2 \cup Codes3
  \/ pc = "cmd.code" /\ r = "fail" /\ ~(res = "ok" /\ code \in Codes2 \cup Codes3)
  \/ pc = "it.list" /\ r = "partial"
  \/ pc \in Readers /\ ~inreply /\ r = IF pc = "it.first" THEN "fail" ELSE "ok"

ControlMoves ==
  \/ UNCHANGED ctl
  \/ \E p : Jumps(p) /\ Goto(p)
  \/ \E f, c : \E k \in Places : Calls(f, c, k) /\ Call(f, c, k)
  \/ \E r : Returns(r) /\ Return(r)

LEMMA ReadersMove ==
  /\ RNextCloses /\ pc \in Readers /\ inreply => ControlMoves
  /\ Dispatch /\ ((pc \in Readers /\ inreply) \/ pc = "poll.drain") => ControlMoves
<1>1. ASSUME RNextCloses, pc \in Readers, inreply PROVE ControlMoves
  <2>1. CASE pc = "it.next"
    BY <1>1, <2>1, PlaceNames DEF RNextCloses, ControlMoves, Calls
  <2>2. CASE pc # "it.next"
    <3>1. Jumps("close") /\ Goto("close")
      BY <1>1, <2>2 DEF RNextCloses, Jumps, Readers
    <3> QED BY <3>1 DEF ControlMoves
  <2> QED BY <2>1, <2>2
<1>2. ASSUME Dispatch, (pc \in Readers /\ inreply) \/ pc = "poll.drain" PROVE ControlMoves
  <2>1. pc \in Places /\ (slider => Calls("cmd", "cmd", pc))
    BY <1>2, PlaceNames DEF Calls
  <2>2. UNCHANGED ctl \/ (slider /\ Call("cmd", "cmd", pc))
    BY <1>2 DEF Dispatch, EvPlayer, Jump
  <2> QED BY <2>1, <2>2 DEF ControlMoves
<1> QED BY <1>1, <1>2

LEMMA NextMoves == [Next]_vars => ControlMoves
<1> SUFFICES ASSUME [Next]_vars PROVE ControlMoves
  OBVIOUS
<1>1. ASSUME UNCHANGED ctl PROVE ControlMoves
  BY <1>1 DEF ControlMoves
<1>2. ASSUME NEW p, Jumps(p), Goto(p) PROVE ControlMoves
  BY <1>2 DEF ControlMoves
<1>3. ASSUME NEW f, NEW c, NEW k \in Places, Calls(f, c, k), Call(f, c, k) PROVE ControlMoves
  BY <1>3 DEF ControlMoves
<1>4. ASSUME NEW r, Returns(r), Return(r) PROVE ControlMoves
  BY <1>4 DEF ControlMoves
<1>5. CASE Server \/ UNCHANGED vars
  BY <1>1, <1>5 DEF vars, Server, ServerAnswers, ServerBroadcasts, ServerGarbles, ServerHangsUp
<1>6. CASE User
  BY <1>3, <1>6, PlaceNames
     DEF User, UserOpens, UserCommands, UserPolls, UserCloses, Calls
<1>7. CASE OpenAlready \/ OpenUnreachable \/ OpenClean \/ ConnDone \/ ReturnFail
           \/ SendGivesUp \/ SendWrites \/ CmdCode \/ ItList \/ PollDone \/ RNextDone
  BY <1>4, <1>7 DEF OpenAlready, OpenUnreachable, OpenClean, ConnDone, ReturnFail,
     SendGivesUp, SendWrites, CmdCode, ItList, PollDone, RNextDone, Returns, AlreadyOpen
<1>8. CASE OpenGreeted \/ OpenUser \/ OpenPass \/ SendFails \/ PollRecv \/ PollShort
           \/ PollUnprocessed \/ RNextRecv
  BY <1>1, <1>2, <1>3, <1>8, PlaceNames DEF OpenGreeted, OpenUser, OpenPass, SendFails, PollRecv,
     PollShort, PollUnprocessed, RNextRecv, Jumps, Calls, Handshake, LoggedIn
<1>9. CASE OpenConnects \/ ConnTrack \/ ConnList \/ Cmd \/ It \/ Poll \/ PollLost
  BY <1>3, <1>9, PlaceNames DEF OpenConnects, ConnTrack, ConnList, Cmd, It, Poll, PollLost,
     Calls, Handshake, AlreadyOpen
<1>10. CASE OpenEvent \/ Close \/ Send \/ CmdSent \/ ItSent
  BY <1>2, <1>3, <1>4, <1>10, PlaceNames DEF OpenEvent, EvConn, Close, CbDisc, EvDisc,
     NoHandler, Jump, Send, SendRefused, CmdSent, ItSent, Jumps, Calls, Returns, Sent
<1>11. CASE RNextLost \/ RNextShort \/ RNextBroadcast \/ PollBroadcast
  BY <1>11, ReadersMove DEF RNextLost, RNextShort, RNextBroadcast, PollBroadcast
<1>12. CASE RNextReply
  BY <1>1, <1>2, <1>3, <1>12, ReadersMove, PlaceNames
     DEF RNextReply, Abandon, Jumps, Calls, Readers
<1> QED BY <1>5, <1>6, <1>7, <1>8, <1>9, <1>10, <1>11, <1>12 DEF Next, Library

(***************************************************************************)
(* The call graph and the arguments.                                       *)
(***************************************************************************)
CtlInv == CallGraph /\ ArgUp

LEMMA SameFunction ==
  ASSUME NEW p, Jumps(p), NEW k
  PROVE  /\ pc \in Callees(k) => p \in Callees(k)
         /\ \A a, c : Passes(k, a, pc, c) => Passes(k, a, p, c)
BY DEF Passes, Jumps, Callees, InOpen, InClose, InSend, InCmd, InIt, InLast, InPoll, Handshake, Readers, Sent

LEMMA RightCallee ==
  ASSUME NEW f, NEW c, NEW k, Calls(f, c, k)
  PROVE  /\ f \in Callees(k)
         /\ \A q : pc \in Callees(q) => k \in Callees(q)
         /\ Passes(k, arg, f, c)
         /\ \A q, a, b : Passes(q, a, pc, b) => Passes(q, a, k, b)
BY DEF Passes, Calls, Callees, InOpen, InClose, InSend, InCmd, InIt, InLast, InPoll, Handshake, Readers, Sent
LEMMA NotIdle == ASSUME NEW r, Returns(r) PROVE pc # "idle"
BY DEF Returns, Sent, Readers

LEMMA CtlStep == TypeOK /\ CtlInv /\ [Next]_vars => CtlInv'
<1> SUFFICES ASSUME TypeOK, CtlInv, [Next]_vars PROVE CtlInv'
  OBVIOUS
<1> DEFINE Good(j) == /\ At(j + 1) \in Callees(At(j))
                      /\ Passes(At(j), ArgAt(j), At(j + 1), ArgAt(j + 1))
<1>1. CtlOK /\ Top \in Nat /\ Top >= 1 /\ At(Top) = pc /\ ArgAt(Top) = arg
  BY TopNat DEF TypeOK
<1>2. \A j \in 1 .. Top - 1 : Good(j)
  BY DEF CtlInv, CallGraph, ArgUp, Top
<1>3. SUFFICES ASSUME NEW j \in 1 .. Top' - 1 PROVE Good(j)'
  BY <1>1 DEF CtlInv, CallGraph, ArgUp, Top
<1>4. ASSUME UNCHANGED ctl PROVE Good(j)'
  BY <1>2, <1>4, StayAt
<1>5. ASSUME NEW p, Jumps(p), Goto(p) PROVE Good(j)'
  <2>1. CASE j < Top - 1
    BY <1>1, <1>2, <1>5, <2>1, GotoAt
  <2>2. CASE j = Top - 1
    BY <1>1, <1>2, <1>5, <2>2, GotoAt, SameFunction
  <2> QED BY <1>1, <1>5, <2>1, <2>2, GotoAt
<1>6. ASSUME NEW f, NEW c, NEW k \in Places, Calls(f, c, k), Call(f, c, k) PROVE Good(j)'
  <2>1. CASE j < Top - 1
    BY <1>1, <1>2, <1>6, <2>1, CallAt
  <2>2. CASE j = Top - 1
    BY <1>1, <1>2, <1>6, <2>2, CallAt, RightCallee
  <2>3. CASE j = Top
    <3>1. At(j)' = k /\ At(j + 1)' = f /\ ArgAt(j)' = arg /\ ArgAt(j + 1)' = c
      BY <1>1, <1>6, <2>3, CallAt
    <3> QED BY <1>6, <3>1, RightCallee
  <2> QED BY <1>1, <1>6, <2>1, <2>2, <2>3, CallAt
<1>7. ASSUME NEW r, Returns(r), Return(r) PROVE Good(j)'
  BY <1>1, <1>2, <1>7, ReturnAt, NotIdle
<1> QED BY <1>4, <1>5, <1>6, <1>7, NextMoves DEF ControlMoves

LEMMA CtlInit == Init => CtlInv
<1> SUFFICES ASSUME Init PROVE CtlInv
  OBVIOUS
<1>1. \A j \in 1 .. Len(stk) : FALSE
  BY EmptySeq DEF Init
<1> QED BY <1>1 DEF CtlInv, CallGraph, ArgUp
(***************************************************************************)
(* What becomes of the lines on their way.                                 *)
(***************************************************************************)
LEMMA ComingLines ==
  TypeOK => Coming \in Seq(Lines) /\ Len(Coming) \in Nat
            /\ \A i \in 1 .. Len(Coming) : Coming[i] \in Lines
BY DEF TypeOK, SessOK, WireOK, Coming

LEMMA ComingRecv ==
  ASSUME TypeOK, RecvReads
  PROVE  Coming' = Coming
<1>1. rx \in Seq(Lines) /\ net \in Seq(Lines)
  BY DEF TypeOK, SessOK, WireOK
<1>2. PICK n \in 1 .. Len(net) : /\ rx' = rx \o SubSeq(net, 1, n)
                                /\ net' = SubSeq(net, n + 1, Len(net))
  BY DEF RecvReads
<1>3. /\ SubSeq(net, 1, n) \in Seq(Lines) /\ Len(SubSeq(net, 1, n)) = n
      /\ \A i \in 1 .. n : SubSeq(net, 1, n)[i] = net[i]
  BY <1>1
<1>4. /\ SubSeq(net, n + 1, Len(net)) \in Seq(Lines)
      /\ Len(SubSeq(net, n + 1, Len(net))) = Len(net) - n
      /\ \A i \in 1 .. Len(net) - n : SubSeq(net, n + 1, Len(net))[i] = net[n + i]
  BY <1>1
<1>5. /\ rx' \in Seq(Lines) /\ Len(rx') = Len(rx) + n
      /\ \A i \in 1 .. Len(rx) : rx'[i] = rx[i]
      /\ \A i \in 1 .. n : rx'[Len(rx) + i] = net[i]
  BY <1>1, <1>2, <1>3
<1>6. /\ net' \in Seq(Lines) /\ Len(net') = Len(net) - n
      /\ \A i \in 1 .. Len(net) - n : net'[i] = net[n + i]
  BY <1>2, <1>4
<1>7. ASSUME NEW u \in Seq(Lines), NEW v \in Seq(Lines),
             Len(u) = Len(rx) + n, \A i \in 1 .. Len(rx) : u[i] = rx[i],
             \A i \in 1 .. n : u[Len(rx) + i] = net[i],
             Len(v) = Len(net) - n, \A i \in 1 .. Len(net) - n : v[i] = net[n + i]
      PROVE  u \o v = rx \o net
  <2>1. /\ Len(rx) \in Nat /\ Len(net) \in Nat /\ n \in Nat /\ n <= Len(net)
        /\ Len(u) + Len(v) = Len(rx) + Len(net)
    BY <1>1, <1>7
  <2>2. /\ u \o v \in Seq(Lines) /\ Len(u \o v) = Len(rx) + Len(net)
        /\ \A i \in 1 .. Len(rx) + Len(net) :
             (u \o v)[i] = IF i <= Len(rx) + n THEN u[i] ELSE v[i - (Len(rx) + n)]
    <3>1. /\ u \o v \in Seq(Lines) /\ Len(u \o v) = Len(u) + Len(v)
          /\ \A i \in 1 .. Len(u) + Len(v) :
               (u \o v)[i] = IF i <= Len(u) THEN u[i] ELSE v[i - Len(u)]
      BY <1>1, <1>7, ConcatProperties
    <3> QED BY <1>7, <2>1, <3>1
  <2>3. /\ rx \o net \in Seq(Lines) /\ Len(rx \o net) = Len(rx) + Len(net)
        /\ \A i \in 1 .. Len(rx) + Len(net) :
             (rx \o net)[i] = IF i <= Len(rx) THEN rx[i] ELSE net[i - Len(rx)]
    BY <1>1, <2>1, ConcatProperties
  <2>4. \A i \in 1 .. Len(rx) + Len(net) : (u \o v)[i] = (rx \o net)[i]
    <3> SUFFICES ASSUME NEW i \in 1 .. Len(rx) + Len(net) PROVE (u \o v)[i] = (rx \o net)[i]
      OBVIOUS
    <3>1. CASE i <= Len(rx)
      BY <1>7, <2>1, <2>2, <2>3, <3>1
    <3>2. CASE i > Len(rx) /\ i <= Len(rx) + n
      <4>1. i - Len(rx) \in 1 .. n /\ u[Len(rx) + (i - Len(rx))] = net[i - Len(rx)]
        BY <1>7, <2>1, <3>2
      <4>2. Len(rx) + (i - Len(rx)) = i
        BY <2>1
      <4> QED BY <1>7, <2>1, <2>2, <2>3, <3>2, <4>1, <4>2
    <3>3. CASE i > Len(rx) + n
      <4>1. i - (Len(rx) + n) \in 1 .. Len(net) - n
        BY <2>1, <3>3
      <4>3. v[i - (Len(rx) + n)] = net[n + (i - (Len(rx) + n))]
        BY <1>7, <4>1
      <4>2. n + (i - (Len(rx) + n)) = i - Len(rx)
        BY <2>1
      <4> QED BY <1>7, <2>1, <2>2, <2>3, <3>3, <4>1, <4>2, <4>3
    <3>4. i \in Int
      BY <2>1
    <3>5. i <= Len(rx) \/ (i > Len(rx) /\ i <= Len(rx) + n) \/ i > Len(rx) + n
      BY <2>1, <3>4
    <3> QED BY <3>1, <3>2, <3>3, <3>5, Zenon
  <2> QED BY <1>1, <1>7, <2>1, <2>2, <2>3, <2>4, SeqEqual
<1>8. rx' \o net' = rx \o net
  BY <1>5, <1>6, <1>7
<1> QED BY <1>8 DEF Coming

LEMMA ComingDrop ==
  ASSUME TypeOK, rx # <<>>, rx' = Tail(rx), net' = net
  PROVE  /\ Len(Coming) >= 1 /\ Coming[1] = Head(rx) /\ Len(Coming') = Len(Coming) - 1
         /\ \A i \in 1 .. Len(Coming) - 1 : Coming'[i] = Coming[i + 1]
<1>1. rx \in Seq(Lines) /\ net \in Seq(Lines) /\ Len(rx) \in Nat /\ Len(rx) >= 1
  BY EmptySeq DEF TypeOK, SessOK, WireOK
<1>2. /\ Tail(rx) \in Seq(Lines) /\ Len(Tail(rx)) = Len(rx) - 1
      /\ \A i \in 1 .. Len(rx) - 1 : Tail(rx)[i] = rx[i + 1]
      /\ Head(rx) = rx[1]
  BY <1>1, HeadTailProperties
<1> QED BY <1>1, <1>2 DEF Coming

LEMMA ComingAdd ==
  ASSUME TypeOK, NEW l \in Lines, rx' = rx, net' = Append(net, l)
  PROVE  /\ Len(Coming') = Len(Coming) + 1 /\ Coming'[Len(Coming) + 1] = l
         /\ \A i \in 1 .. Len(Coming) : Coming'[i] = Coming[i]
<1>1. rx \in Seq(Lines) /\ net \in Seq(Lines)
  BY DEF TypeOK, SessOK, WireOK
<1> QED BY <1>1 DEF Coming

LEMMA ComingCut ==
  ASSUME TypeOK, rx' = rx, NEW n \in 0 .. Len(net), net' = SubSeq(net, 1, n)
  PROVE  /\ Len(Coming') \in Nat /\ Len(Coming') <= Len(Coming)
         /\ \A i \in 1 .. Len(Coming') : Coming'[i] = Coming[i]
<1>1. rx \in Seq(Lines) /\ net \in Seq(Lines)
  BY DEF TypeOK, SessOK, WireOK
<1>2. /\ SubSeq(net, 1, n) \in Seq(Lines) /\ Len(SubSeq(net, 1, n)) = n
      /\ \A i \in 1 .. n : SubSeq(net, 1, n)[i] = net[i]
  BY <1>1
<1> QED BY <1>1, <1>2 DEF Coming

LEMMA ComingHead ==
  ASSUME TypeOK, rx # <<>>
  PROVE  Len(Coming) \in Nat /\ Len(Coming) >= 1 /\ Coming[1] = Head(rx)
<1>1. rx \in Seq(Lines) /\ net \in Seq(Lines) /\ Len(rx) \in Nat /\ Len(rx) >= 1
  BY EmptySeq DEF TypeOK, SessOK, WireOK
<1>2. Head(rx) = rx[1]
  BY <1>1, HeadTailProperties
<1> QED BY <1>1, <1>2 DEF Coming

LEMMA ComingNone == rx = <<>> /\ net = <<>> => Len(Coming) = 0
BY EmptySeq DEF Coming

(***************************************************************************)
(* The server, when it keeps to the protocol.                              *)
(***************************************************************************)
Answers(l) ==
  /\ link = "live" /\ owed # <<>>
  /\ l.to = Head(owed) \/ (Head(owed) = "hello" /\ l.to = "alien")
  /\ l.code \in Codes
  /\ net' = Append(net, l)
  /\ owed' = IF l.last THEN Tail(owed) ELSE owed
  /\ guest' = (guest /\ ~(l.last /\ l.to = "pass" /\ l.code \notin Codes5))
  /\ cause' = (cause \/ Refusal(l.to, l.code))
  /\ UNCHANGED <<link, sess, prog, ctl>>

LEMMA ServerPlays ==
  TypeOK /\ ~Rogue /\ Server =>
    (\E l \in Lines : Answers(l)) \/ ServerBroadcasts \/ ServerHangsUp
<1> SUFFICES ASSUME TypeOK, ~Rogue, NEW last \in BOOLEAN, ServerAnswers(last)
             PROVE  \E l \in Lines : Answers(l)
  BY DEF Server, ServerGarbles
<1>1. owed # <<>> /\ Head(owed) \in {"hello"} \cup Commands
  BY HeadTailProperties DEF TypeOK, WireOK, ServerAnswers
<1>2. PICK c \in Codes :
         \E to \in {Head(owed)} \cup (IF Head(owed) = "hello" THEN {"alien"} ELSE {}) :
           /\ net' = Append(net, [to |-> to, code |-> c, last |-> last])
           /\ cause' = (cause \/ Refusal(to, c))
           /\ guest' = (guest /\ ~(last /\ to = "pass" /\ c \notin Codes5))
           /\ owed' = IF last THEN Tail(owed) ELSE owed
  BY DEF ServerAnswers
<1>3. PICK to \in {Head(owed)} \cup (IF Head(owed) = "hello" THEN {"alien"} ELSE {}) :
           /\ net' = Append(net, [to |-> to, code |-> c, last |-> last])
           /\ cause' = (cause \/ Refusal(to, c))
           /\ guest' = (guest /\ ~(last /\ to = "pass" /\ c \notin Codes5))
           /\ owed' = IF last THEN Tail(owed) ELSE owed
  BY <1>2
<1>4. [to |-> to, code |-> c, last |-> last] \in Lines
  BY <1>1, <1>3 DEF Lines, LineKinds, Replies, Commands
<1>5. Answers([to |-> to, code |-> c, last |-> last])
  BY <1>3 DEF Answers, ServerAnswers
<1> QED BY <1>4, <1>5
(***************************************************************************)
(* What is due.  At most one command is, its reply is the last that comes, *)
(* and nothing is due without inreply.                                     *)
(***************************************************************************)
DueInv ==
  /\ ~inreply => NothingDue
  /\ inreply =>
       /\ owed = <<>> \/ (Len(owed) = 1 /\ \A i \in 1 .. Len(Coming) : ~IsFinal(i))
       /\ \A i, j \in 1 .. Len(Coming) : IsFinal(i) /\ IsReply(j) => j <= i
  /\ inreply /\ link = "live" /\ pc # "close" =>
       owed # <<>> \/ \E i \in 1 .. Len(Coming) : IsFinal(i)

\* What a step of the program does with the lines and with inreply.
DropsOther ==
  /\ pc # "close"
  /\ rx # <<>> /\ rx' = Tail(rx) /\ UNCHANGED <<link, owed, net, guest, cause, inreply>>
  /\ ~inreply \/ Head(rx).to \notin Replies

LEMMA ReplyUse ==
  ASSUME TypeOK, ReplyInv, User \/ Library
  PROVE  \/ pc # "close" /\ UNCHANGED <<link, owed, net, guest, rx, inreply>>
         \/ OpenConnects
         \/ pc # "close" /\ RecvReads /\ UNCHANGED <<link, owed, guest, cause, inreply>>
         \/ Close \/ (OpenClean /\ ~inreply)
         \/ SendWrites /\ ~inreply
         \/ DropsOther
         \/ RNextReply
<1>1. CASE User
  BY <1>1 DEF User, UserOpens, UserCommands, UserPolls, UserCloses, wire, sess
<1>2. CASE OpenConnects \/ Close \/ OpenClean \/ SendWrites \/ RNextReply
  <2>1. OpenClean \/ SendWrites => Calm
    BY DEF Calm, OpenClean, SendWrites, Readers, Sent
  <2> QED BY <1>2, <2>1, CalmMeans
<1>3. CASE OpenAlready \/ OpenUnreachable \/ OpenGreeted \/ OpenUser \/ OpenPass \/ OpenEvent
           \/ ConnTrack \/ ConnList \/ ConnDone \/ ReturnFail \/ Send \/ SendGivesUp \/ SendFails
           \/ Cmd \/ CmdSent \/ CmdCode \/ It \/ ItSent \/ ItList \/ RNextDone \/ RNextRecv
           \/ RNextLost \/ Poll \/ PollRecv \/ PollLost \/ PollDone
  BY <1>3 DEF OpenAlready, OpenUnreachable, OpenGreeted,
    OpenUser, OpenPass, OpenEvent, ConnTrack, ConnList, ConnDone,
    ReturnFail, Send, SendGivesUp, SendFails, Cmd, CmdSent,
    CmdCode, It, ItSent, ItList, RNextDone, RNextRecv, RNextLost,
    Poll, PollRecv, PollLost, PollDone, Readers, wire, sess
<1>4. CASE RNextShort \/ PollShort \/ RNextBroadcast \/ PollBroadcast
  BY <1>4 DEF RNextShort, PollShort, RNextBroadcast, PollBroadcast, Dispatch, DropsOther,
     IsShort, IsBroadcast, Replies, Commands, Readers, wire
<1>5. CASE PollUnprocessed
  <2>1. Calm BY <1>5 DEF Calm, PollUnprocessed, Readers, Sent
  <2> QED BY <1>5, <2>1, CalmMeans DEF PollUnprocessed, DropsOther, wire
<1> QED BY <1>1, <1>2, <1>3, <1>4, <1>5 DEF Library

LEMMA DueServer ==
  ASSUME TypeOK, ReplyInv, DueInv, ~Rogue, Server
  PROVE  DueInv'
<1>1. /\ Len(Coming) \in Nat /\ owed \in Seq({"hello"} \cup Commands)
      /\ \A i \in 1 .. Len(Coming) : Coming[i] \in Lines
  BY ComingLines DEF TypeOK, WireOK
<1>2. ASSUME NEW l \in Lines, Answers(l) PROVE DueInv'
  <2>1. rx' = rx /\ net' = Append(net, l) /\ UNCHANGED <<link, pc, inreply>> /\ link = "live"
    BY <1>2 DEF Answers, sess, ctl
  <2>2. /\ Len(Coming') = Len(Coming) + 1 /\ Coming'[Len(Coming) + 1] = l
        /\ \A i \in 1 .. Len(Coming) : Coming'[i] = Coming[i]
    BY <2>1, ComingAdd
  <2>3. inreply /\ Len(owed) = 1 /\ \A i \in 1 .. Len(Coming) : ~IsFinal(i)
    BY <1>2 DEF Answers, DueInv, NothingDue
  <2>4. owed' = IF l.last THEN <<>> ELSE owed
    <3>1. Tail(owed) \in Seq({"hello"} \cup Commands) /\ Len(Tail(owed)) = 0
      BY <1>1, <1>2, <2>3, HeadTailProperties DEF Answers
    <3>2. Tail(owed) = <<>>
      BY <3>1, EmptySeq
    <3> QED BY <1>2, <3>2 DEF Answers
  <2>5. l.to \in Replies
    BY <1>1, <1>2, HeadTailProperties DEF Answers, Replies, Commands
  <2>6. \A i \in 1 .. Len(Coming') : IsFinal(i)' => i = Len(Coming) + 1 /\ l.last
    BY <1>1, <2>2, <2>3 DEF IsFinal, IsReply
  <2>7. l.last => \E i \in 1 .. Len(Coming') : IsFinal(i)'
    <3>1. l.last => \A i : i = Len(Coming) + 1 => IsFinal(i)'
      BY <1>1, <2>2, <2>5 DEF IsFinal, IsReply
    <3> QED BY <1>1, <2>2, <3>1
  <2>8. \A i \in 1 .. Len(Coming') : IsReply(i)' => i <= Len(Coming) + 1
    BY <2>2
  <2> QED BY <1>1, <2>1, <2>2, <2>3, <2>4, <2>6, <2>7, <2>8 DEF DueInv
<1>3. ASSUME ServerBroadcasts PROVE DueInv'
  <2> DEFINE l == [to |-> "bcast", code |-> "none", last |-> TRUE]
  <2>1. rx' = rx /\ net' = Append(net, l) /\ UNCHANGED <<link, owed, pc, inreply>>
    BY <1>3 DEF ServerBroadcasts, sess, ctl
  <2>2. l \in Lines /\ l.to \notin Replies
    BY DEF Lines, LineKinds, Replies, Commands
  <2> HIDE DEF l
  <2>3. /\ Len(Coming') = Len(Coming) + 1 /\ Coming'[Len(Coming) + 1] = l
        /\ \A i \in 1 .. Len(Coming) : Coming'[i] = Coming[i]
    BY <2>1, <2>2, ComingAdd
  <2>4. \A i \in 1 .. Len(Coming') :
          /\ IsReply(i)' <=> i <= Len(Coming) /\ IsReply(i)
          /\ IsFinal(i)' <=> i <= Len(Coming) /\ IsFinal(i)
    BY <1>1, <2>2, <2>3 DEF IsReply, IsFinal
  <2> QED BY <1>1, <2>1, <2>3, <2>4 DEF DueInv, NothingDue
<1>4. ASSUME ServerHangsUp PROVE DueInv'
  <2>1. PICK n \in 0 .. Len(net) : net' = SubSeq(net, 1, n)
    BY <1>4 DEF ServerHangsUp
  <2>2. rx' = rx /\ UNCHANGED <<pc, inreply>> /\ link' = "gone" /\ owed' = <<>>
    BY <1>4 DEF ServerHangsUp, sess, ctl
  <2>3. /\ Len(Coming') \in Nat /\ Len(Coming') <= Len(Coming)
        /\ \A i \in 1 .. Len(Coming') : Coming'[i] = Coming[i]
    BY <2>1, <2>2, ComingCut
  <2>4. \A i \in 1 .. Len(Coming') :
          i \in 1 .. Len(Coming) /\ (IsReply(i)' <=> IsReply(i)) /\ (IsFinal(i)' <=> IsFinal(i))
    BY <1>1, <2>3 DEF IsReply, IsFinal
  <2> QED BY <2>2, <2>4 DEF DueInv, NothingDue
<1> QED BY <1>2, <1>3, <1>4, ServerPlays

\* The first line is taken: the others move up.
LEMMA MovedUp ==
  ASSUME TypeOK, rx # <<>>, rx' = Tail(rx), net' = net
  PROVE  /\ Len(Coming) \in Nat /\ Len(Coming) >= 1 /\ Len(Coming') = Len(Coming) - 1
         /\ Coming[1] = Head(rx)
         /\ \A i \in 1 .. Len(Coming') :
              /\ i + 1 \in 1 .. Len(Coming) /\ Coming'[i] = Coming[i + 1]
              /\ (IsReply(i)' <=> IsReply(i + 1)) /\ (IsFinal(i)' <=> IsFinal(i + 1))
         /\ \A i \in 1 .. Len(Coming) : i # 1 => i - 1 \in 1 .. Len(Coming') /\ (i - 1) + 1 = i
<1>1. Len(Coming) \in Nat BY ComingLines
<1>2. /\ Len(Coming) >= 1 /\ Coming[1] = Head(rx) /\ Len(Coming') = Len(Coming) - 1
      /\ \A i \in 1 .. Len(Coming) - 1 : Coming'[i] = Coming[i + 1]
  BY ComingDrop
<1> QED BY <1>1, <1>2 DEF IsReply, IsFinal

LEMMA DueTakes == TypeOK /\ ReplyInv /\ DueInv /\ RNextReply => DueInv'
<1> SUFFICES ASSUME TypeOK, ReplyInv, DueInv, RNextReply PROVE DueInv'
  OBVIOUS
<1>1. /\ rx # <<>> /\ rx' = Tail(rx) /\ UNCHANGED <<link, owed, net>> /\ inreply
      /\ \/ inreply' = ~Head(rx).last
         \/ UNCHANGED inreply /\ pc' = "close"
  <2>1. RNextCloses => pc' = "close"
    BY DEF RNextCloses, Goto, Call
  <2> QED BY <2>1 DEF RNextReply, wire
<1>2. Head(rx).to \in Replies /\ Head(rx).last \in BOOLEAN /\ Head(rx) \in Lines
  BY <1>1, HeadOfRx DEF RNextReply, TypeOK, Lines
<1>3. /\ Len(Coming) \in Nat /\ Len(Coming) >= 1 /\ Len(Coming') = Len(Coming) - 1
      /\ \A i \in 1 .. Len(Coming') :
           /\ i + 1 \in 1 .. Len(Coming)
           /\ (IsReply(i)' <=> IsReply(i + 1)) /\ (IsFinal(i)' <=> IsFinal(i + 1))
      /\ \A i \in 1 .. Len(Coming) : i # 1 => i - 1 \in 1 .. Len(Coming') /\ (i - 1) + 1 = i
  BY <1>1, MovedUp
<1>4. 1 \in 1 .. Len(Coming) /\ IsReply(1) /\ (IsFinal(1) <=> Head(rx).last)
  BY <1>1, <1>2, <1>3, MovedUp DEF IsReply, IsFinal
<1>5. \A i, j \in 1 .. Len(Coming') : IsFinal(i)' /\ IsReply(j)' => j <= i
  BY <1>1, <1>3 DEF DueInv
<1>6. owed' = <<>> \/ (Len(owed') = 1 /\ \A i \in 1 .. Len(Coming') : ~IsFinal(i)')
  BY <1>1, <1>3 DEF DueInv
<1>7. CASE Head(rx).last
  <2>1. owed' = <<>>
    BY <1>1, <1>4, <1>7 DEF DueInv
  <2>2. \A i \in 1 .. Len(Coming') : ~IsReply(i)'
    BY <1>1, <1>3, <1>4, <1>7 DEF DueInv
  <2> QED BY <1>1, <1>5, <1>6, <1>7, <2>1, <2>2 DEF DueInv, NothingDue
<1>8. CASE ~Head(rx).last
  <2>1. \A i \in 1 .. Len(Coming) : IsFinal(i) => i # 1
    BY <1>4, <1>8
  <2>2. link' = "live" /\ pc' # "close" =>
          owed' # <<>> \/ \E i \in 1 .. Len(Coming') : IsFinal(i)'
    <3>1. pc # "close"
      BY DEF RNextReply, Readers
    <3>2. (\E i \in 1 .. Len(Coming) : IsFinal(i)) => \E i \in 1 .. Len(Coming') : IsFinal(i)'
      <4> SUFFICES ASSUME NEW i \in 1 .. Len(Coming), IsFinal(i)
                   PROVE  \E h \in 1 .. Len(Coming') : IsFinal(h)'
        OBVIOUS
      <4>1. i - 1 \in 1 .. Len(Coming') /\ (i - 1) + 1 = i
        BY <1>3, <2>1
      <4>2. IsFinal((i - 1) + 1)
        BY <4>1
      <4>3. IsFinal(i - 1)'
        BY <1>3, <4>1, <4>2
      <4> QED BY <4>1, <4>3
    <3> QED BY <1>1, <3>1, <3>2 DEF DueInv
  <2> QED BY <1>1, <1>5, <1>6, <1>8, <2>2 DEF DueInv
<1> QED BY <1>2, <1>7, <1>8
LEMMA DueStep ==
  TypeOK /\ ReplyInv /\ DownEmpty /\ DueInv /\ ~Rogue /\ [Next]_vars => DueInv'
<1> SUFFICES ASSUME TypeOK, ReplyInv, DownEmpty, DueInv, ~Rogue, [Next]_vars PROVE DueInv'
  OBVIOUS
<1>1. Len(Coming) \in Nat
  BY ComingLines
<1>2. ASSUME UNCHANGED <<owed, inreply, link>>, Coming' = Coming,
             pc = "close" => pc' = "close"
      PROVE  DueInv'
  BY <1>2 DEF DueInv, NothingDue, IsReply, IsFinal
<1>3. CASE Server
  BY <1>3, DueServer
<1>4. CASE UNCHANGED vars
  BY <1>2, <1>4 DEF vars, wire, sess, ctl, Coming
<1>5. CASE User \/ Library
  <2>1. CASE pc # "close" /\ UNCHANGED <<link, owed, net, rx, inreply>>
    BY <1>2, <2>1 DEF Coming
  <2>2. CASE OpenConnects
    <3>1. /\ owed' = <<"hello">> /\ inreply' /\ rx' = <<>> /\ net' = <<>>
      BY <2>2 DEF OpenConnects, Connect, AlreadyOpen, DownEmpty
    <3>2. Len(Coming') = 0 /\ Len(owed') = 1
      BY <3>1, EmptySeq DEF Coming
    <3> QED BY <3>1, <3>2 DEF DueInv
  <2>3. CASE pc # "close" /\ RecvReads /\ UNCHANGED <<link, owed, inreply>>
    <3>1. Coming' = Coming
      BY <2>3, ComingRecv
    <3> QED BY <1>2, <2>3, <3>1
  <2>4. CASE Close \/ (OpenClean /\ ~inreply)
    <3>1. rx' = <<>> /\ net' = <<>> /\ ~inreply' /\ owed' = <<>>
      BY <2>4 DEF Close, OpenClean, Disconnect, ForgetReply
    <3>2. Len(Coming') = 0
      BY <3>1, EmptySeq DEF Coming
    <3> QED BY <3>1, <3>2 DEF DueInv, NothingDue
  <2>5. CASE SendWrites /\ ~inreply
    <3>1. /\ Coming' = Coming /\ inreply' /\ link' = link
          /\ owed' = IF link = "live" THEN Append(owed, arg) ELSE owed
      BY <2>5 DEF SendWrites, AwaitReply, Coming
    <3>2. owed = <<>> /\ \A i \in 1 .. Len(Coming) : ~IsReply(i)
      BY <2>5 DEF DueInv, NothingDue
    <3>3. Append(owed, arg) = <<arg>> /\ Len(<<arg>>) = 1
      BY <3>2
    <3>4. \A i \in 1 .. Len(Coming') : ~IsReply(i)' /\ ~IsFinal(i)'
      BY <3>1, <3>2 DEF IsReply, IsFinal
    <3> QED BY <3>1, <3>2, <3>3, <3>4 DEF DueInv
  <2>6. CASE DropsOther
    <3>1. /\ rx # <<>> /\ rx' = Tail(rx) /\ UNCHANGED <<link, owed, net, inreply>>
          /\ pc # "close" /\ (~inreply \/ Head(rx).to \notin Replies)
      BY <2>6 DEF DropsOther
    <3>3. /\ Len(Coming) >= 1 /\ Coming[1] = Head(rx)
          /\ \A i \in 1 .. Len(Coming') :
               /\ i + 1 \in 1 .. Len(Coming)
               /\ (IsReply(i)' <=> IsReply(i + 1)) /\ (IsFinal(i)' <=> IsFinal(i + 1))
          /\ \A i \in 1 .. Len(Coming) : i # 1 => i - 1 \in 1 .. Len(Coming') /\ (i - 1) + 1 = i
      BY <3>1, MovedUp
    <3>4. ~IsReply(1) /\ ~IsFinal(1)
      BY <1>1, <3>1, <3>3 DEF DueInv, NothingDue, IsReply, IsFinal
    <3>5. (\E i \in 1 .. Len(Coming) : IsFinal(i)) => \E i \in 1 .. Len(Coming') : IsFinal(i)'
      <4> SUFFICES ASSUME NEW i \in 1 .. Len(Coming), IsFinal(i)
                   PROVE  \E h \in 1 .. Len(Coming') : IsFinal(h)'
        OBVIOUS
      <4>1. i - 1 \in 1 .. Len(Coming') /\ (i - 1) + 1 = i
        BY <3>3, <3>4
      <4>2. IsFinal((i - 1) + 1)
        BY <4>1
      <4> QED BY <3>3, <4>1, <4>2
    <3>6. inreply => \A i, j \in 1 .. Len(Coming') : IsFinal(i)' /\ IsReply(j)' => j <= i
      BY <3>3 DEF DueInv
    <3>7. ~inreply' => NothingDue'
      BY <3>1, <3>3 DEF DueInv, NothingDue
    <3> QED BY <3>1, <3>3, <3>5, <3>6, <3>7 DEF DueInv
  <2>7. CASE RNextReply
    BY <2>7, DueTakes
  <2> QED BY <1>5, <2>1, <2>2, <2>3, <2>4, <2>5, <2>6, <2>7, ReplyUse
<1> QED BY <1>3, <1>4, <1>5 DEF Next

WireInv == TypeOK /\ ReplyInv /\ CodeInv /\ DownEmpty /\ CtlInv /\ DueInv

LEMMA WireInit == Init => WireInv
<1> SUFFICES ASSUME Init PROVE WireInv
  OBVIOUS
<1>1. rx = <<>> /\ net = <<>> /\ owed = <<>> /\ ~inreply
  BY DEF Init
<1>2. DueInv
  BY <1>1, ComingNone DEF DueInv, NothingDue
<1> QED BY <1>1, <1>2, TypeInit, ReplyInit, CodeInit, CtlInit DEF WireInv, DownEmpty

LEMMA WireStep == WireInv /\ ~Rogue /\ [Next]_vars => WireInv'
BY TypeStep, ReplyStep, CodeStep, DownEmptyStep, CtlStep, DueStep DEF WireInv

LEMMA DueMeans == TypeOK /\ DueInv => InReplyTruth
<1> SUFFICES ASSUME TypeOK, DueInv, inreply, link = "live", pc # "close" PROVE OneDue
  BY DEF InReplyTruth, DueInv
<1>1. Len(Coming) \in Nat
  BY ComingLines
<1>2. \A i \in 1 .. Len(Coming) : IsFinal(i) => IsReply(i)
  BY DEF IsFinal
<1>3. \A i, j \in 1 .. Len(Coming) : IsFinal(i) /\ IsReply(j) => j <= i
  BY DEF DueInv
<1>4. \A i, j \in 1 .. Len(Coming) : IsFinal(i) /\ IsFinal(j) => i = j
  BY <1>1, <1>2, <1>3
<1> QED BY <1>3, <1>4 DEF DueInv, OneDue

(***************************************************************************)
(* InReplyTruth: with a server that answers what it was asked, one reply   *)
(* to one command, inreply is set exactly while one is to be read: no      *)
(* command takes an older reply for its own, and _duc_rnext never waits on *)
(* a live connection for a reply that does not come.                       *)
(***************************************************************************)
THEOREM InReplyIsTrue ==
  ASSUME ~Rogue
  PROVE  Spec => []InReplyTruth
<1>1. Init => WireInv
  BY WireInit
<1>2. WireInv /\ [Next]_vars => WireInv'
  BY WireStep
<1>3. WireInv => InReplyTruth
  BY DueMeans DEF WireInv
<1> QED BY <1>1, <1>2, <1>3, PTL DEF Spec
(***************************************************************************)
(* For whom the reply is that is due, and the line that was read last.     *)
(***************************************************************************)
Expected(j) ==
  IF At(j) = "rlast" /\ j > 1 /\ At(j - 1) = "open.hello"
  THEN {"hello", "alien"} ELSE {ArgAt(j)}
Waiting(j) == At(j) \in Readers \/ (j = Top /\ pc \in Sent /\ res = "ok")

OursInv ==
  inreply => \A j \in 1 .. Top : Waiting(j) =>
    /\ \A i \in 1 .. Len(owed) : owed[i] \in Expected(j)
    /\ \A i \in 1 .. Len(Coming) : IsReply(i) => Coming[i].to \in Expected(j)

\* Whoever waits after a step waited for the same before it.
LEMMA WaitKept ==
  ASSUME TypeOK, ReplyInv, [Next]_vars, inreply, pc # "close",
         NEW j \in 1 .. Top', Waiting(j)'
  PROVE  \E i \in 1 .. Top : Waiting(i) /\ Expected(j)' = Expected(i)
<1>1. CtlOK /\ Top \in Nat /\ Top >= 1 /\ At(Top) = pc /\ ArgAt(Top) = arg
  BY TopNat DEF TypeOK
<1>2. pc \in Readers \cup Sent \cup {"cmd", "send"}
  BY CalmMeans DEF Calm
<1>3. CASE UNCHANGED ctl
  BY <1>1, <1>3, StayAt DEF Waiting, Expected
<1>4. ASSUME j \in 1 .. Top - 1, At(j)' \in Readers,
             \A i \in 1 .. Top - 1 : At(i)' = At(i) /\ ArgAt(i)' = ArgAt(i)
      PROVE  \E i \in 1 .. Top : Waiting(i) /\ Expected(j)' = Expected(i)
  <2>1. j - 1 # 0 => j - 1 \in 1 .. Top - 1
    BY <1>1, <1>4
  <2>2. Waiting(j) /\ Expected(j)' = Expected(j)
    BY <1>1, <1>4, <2>1 DEF Waiting, Expected
  <2> QED BY <1>1, <1>4, <2>2
<1>5. ASSUME NEW p, Jumps(p), Goto(p)
      PROVE  \E i \in 1 .. Top : Waiting(i) /\ Expected(j)' = Expected(i)
  <2>1. Top' = Top /\ pc' = p /\ At(Top)' = p /\ ArgAt(Top)' = arg
    BY <1>1, <1>5, GotoAt
  <2>2. CASE j = Top
    <3>1. p = "it.next" \/ p = "it.first"
      BY <1>2, <1>5, <2>1, <2>2 DEF Waiting, Jumps, Readers, Sent
    <3>2. Waiting(Top) /\ Expected(Top) = {arg}
      BY <1>1, <1>2, <1>5, <3>1 DEF Waiting, Expected, Jumps, Readers, Sent
    <3>3. Expected(j)' = {arg}
      BY <2>1, <2>2, <3>1 DEF Expected
    <3> QED BY <1>1, <3>2, <3>3
  <2>3. CASE j # Top
    BY <1>1, <1>4, <1>5, <2>1, <2>3, GotoAt DEF Waiting
  <2> QED BY <2>2, <2>3
<1>6. ASSUME NEW f, NEW c, NEW k \in Places, Calls(f, c, k), Call(f, c, k)
      PROVE  \E i \in 1 .. Top : Waiting(i) /\ Expected(j)' = Expected(i)
  <2>1. /\ Top' = Top + 1 /\ pc' = f
        /\ \A i \in 1 .. Top - 1 : At(i)' = At(i) /\ ArgAt(i)' = ArgAt(i)
        /\ \A i : i = Top => At(i)' = k /\ ArgAt(i)' = arg
        /\ \A i : i = Top + 1 => At(i)' = f /\ ArgAt(i)' = c
    BY <1>1, <1>6, CallAt
  <2>2. CASE j < Top
    BY <1>1, <1>4, <2>1, <2>2 DEF Waiting
  <2>3. CASE j = Top
    <3>1. k = pc /\ pc \in Readers
      BY <1>1, <1>2, <1>6, <2>1, <2>3 DEF Waiting, Calls, Readers, Sent
    <3>2. j > 1 => At(j - 1)' = At(j - 1)
      BY <1>1, <2>1, <2>3
    <3> QED BY <1>1, <2>1, <2>3, <3>1, <3>2 DEF Waiting, Expected
  <2>4. CASE j = Top + 1
    <3>1. f = "rlast" /\ c = arg /\ k # "open.hello" /\ pc # "rlast" /\ Waiting(Top)
      BY <1>1, <1>2, <1>6, <2>1, <2>4 DEF Waiting, Calls, Readers, Sent
    <3>2. At(j - 1)' = k
      BY <1>1, <2>1, <2>4
    <3>3. Expected(j)' = {arg} /\ Expected(Top) = {arg}
      BY <1>1, <2>1, <2>4, <3>1, <3>2 DEF Expected
    <3> QED BY <1>1, <3>1, <3>3
  <2> QED BY <1>1, <2>1, <2>2, <2>3, <2>4
<1>7. ASSUME NEW r, Returns(r), Return(r)
      PROVE  \E i \in 1 .. Top : Waiting(i) /\ Expected(j)' = Expected(i)
  <2>1. /\ Top' = Top - 1 /\ res' = r
        /\ \A i \in 1 .. Top - 1 : At(i)' = At(i) /\ ArgAt(i)' = ArgAt(i)
    BY <1>1, <1>7, NotIdle, ReturnAt
  <2>2. r = "fail"
    BY <1>2, <1>7 DEF Returns, Readers, Sent
  <2> QED BY <1>1, <1>4, <2>1, <2>2 DEF Waiting
<1> QED BY <1>3, <1>5, <1>6, <1>7, NextMoves DEF ControlMoves

\* Before the program closes, and where nothing is due, none waits.
LEMMA OursKept ==
  ASSUME TypeOK, ReplyInv, OursInv, [Next]_vars, inreply' => inreply,
         pc = "close" => UNCHANGED ctl,
         \A i \in 1 .. Len(owed') : i \in 1 .. Len(owed) /\ owed'[i] = owed[i],
         \A i \in 1 .. Len(Coming') : IsReply(i)' =>
           \E h \in 1 .. Len(Coming) : IsReply(h) /\ Coming'[i] = Coming[h]
  PROVE  OursInv'
<1> SUFFICES ASSUME inreply', NEW j \in 1 .. Top', Waiting(j)'
             PROVE  /\ \A i \in 1 .. Len(owed') : owed'[i] \in Expected(j)'
                    /\ \A i \in 1 .. Len(Coming') : IsReply(i)' => Coming'[i].to \in Expected(j)'
  BY DEF OursInv
<1>1. \E i \in 1 .. Top : Waiting(i) /\ Expected(j)' = Expected(i)
  <2>1. CASE pc # "close"
    BY <2>1, WaitKept
  <2>2. CASE pc = "close"
    BY <2>2, StayAt DEF Waiting, Expected
  <2> QED BY <2>1, <2>2
<1> QED BY <1>1 DEF OursInv
LEMMA PlainReaders ==
  ASSUME Plain, NEW j \in 1 .. Top - 1
  PROVE  At(j) \notin Readers
BY DEF Plain, At, Top

LEMMA OursConnects ==
  TypeOK /\ ReplyInv /\ DownEmpty /\ OpenConnects => OursInv'
<1> SUFFICES ASSUME TypeOK, ReplyInv, DownEmpty, OpenConnects, NEW j \in 1 .. Top', Waiting(j)'
             PROVE  /\ \A i \in 1 .. Len(owed') : owed'[i] \in Expected(j)'
                    /\ \A i \in 1 .. Len(Coming') : IsReply(i)' => Coming'[i].to \in Expected(j)'
  BY DEF OursInv
<1>1. CtlOK /\ Top \in Nat /\ Top >= 1
  BY TopNat DEF TypeOK
<1>2. /\ pc = "open" /\ Call("rlast", arg, "open.hello") /\ owed' = <<"hello">>
      /\ rx' = <<>> /\ net' = <<>>
  BY DEF OpenConnects, Connect, AlreadyOpen, DownEmpty
<1>3. /\ Top' = Top + 1 /\ pc' = "rlast" /\ res' = "none"
      /\ \A i \in 1 .. Top - 1 : At(i)' = At(i)
      /\ \A i : i = Top => At(i)' = "open.hello"
      /\ \A i : i = Top + 1 => At(i)' = "rlast"
  BY <1>1, <1>2, PlaceNames, CallAt DEF Handshake
<1>4. \A i \in 1 .. Top - 1 : At(i) \notin Readers
  BY <1>2, PlainThere, PlainReaders
<1>5. j = Top + 1
  BY <1>1, <1>3, <1>4 DEF Waiting, Readers
<1>6. At(j)' = "rlast" /\ At(j - 1)' = "open.hello" /\ j > 1
  BY <1>1, <1>3, <1>5
<1>7. Expected(j)' = {"hello", "alien"}
  BY <1>6 DEF Expected
<1>8. Len(Coming') = 0
  BY <1>2, EmptySeq DEF Coming
<1> QED BY <1>2, <1>7, <1>8

\* A command is sent for a caller that waits for it.
LEMMA Sender ==
  ASSUME TypeOK, ReplyInv, pc = "send.opened"
  PROVE  At(Top - 1) \in Sent
<1>1. Len(stk) \in Nat /\ stk[Len(stk)].at \in Sent
  BY DEF TypeOK, CtlOK, ReplyInv, SendShape
<1> QED BY <1>1 DEF At, Top

LEMMA OursWrites ==
  TypeOK /\ ReplyInv /\ CtlInv /\ DueInv /\ SendWrites /\ ~inreply => OursInv'
<1> SUFFICES ASSUME TypeOK, ReplyInv, CtlInv, DueInv, SendWrites, ~inreply,
                    NEW j \in 1 .. Top', Waiting(j)'
             PROVE  /\ \A i \in 1 .. Len(owed') : owed'[i] \in Expected(j)'
                    /\ \A i \in 1 .. Len(Coming') : IsReply(i)' => Coming'[i].to \in Expected(j)'
  BY DEF OursInv
<1>1. CtlOK /\ Top \in Nat /\ Top >= 1 /\ At(Top) = pc /\ ArgAt(Top) = arg
  BY TopNat DEF TypeOK
<1>2. /\ pc = "send.opened" /\ Return("ok") /\ Coming' = Coming
      /\ owed' = IF link = "live" THEN Append(owed, arg) ELSE owed
  BY DEF SendWrites, Coming
<1>3. /\ Top >= 2 /\ Top' = Top - 1 /\ res' = "ok" /\ pc' = At(Top - 1) /\ arg' = ArgAt(Top - 1)
      /\ \A i \in 1 .. Top - 1 : At(i)' = At(i) /\ ArgAt(i)' = ArgAt(i)
  BY <1>1, <1>2, ReturnAt
<1>4. \A i \in 1 .. Top - 1 : At(i) \notin Readers
  BY <1>2, PlainThere, PlainReaders
<1>5. j = Top - 1 /\ At(Top - 1) \in Sent
  BY <1>1, <1>3, <1>4 DEF Waiting
<1>6. Passes(At(Top - 1), ArgAt(Top - 1), pc, arg)
  <2>1. Top - 1 \in 1 .. Len(stk) /\ (Top - 1) + 1 = Top
    BY <1>1, <1>3 DEF Top
  <2> QED BY <1>1, <2>1 DEF CtlInv, ArgUp
<1>7. ArgAt(j)' = arg /\ At(j)' # "rlast"
  BY <1>2, <1>3, <1>5, <1>6 DEF Passes, Sent
<1>8. Expected(j)' = {arg}
  BY <1>7 DEF Expected
<1>9. owed = <<>> /\ \A i \in 1 .. Len(Coming) : ~IsReply(i)
  BY DEF DueInv, NothingDue
<1>10. \A i \in 1 .. Len(Coming') : ~IsReply(i)'
  BY <1>2, <1>9 DEF IsReply
<1>11. \A i \in 1 .. Len(owed') : owed'[i] = arg
  BY <1>2, <1>9
<1> QED BY <1>8, <1>10, <1>11

LEMMA OursServer ==
  ASSUME TypeOK, ReplyInv, DueInv, OursInv, ~Rogue, Server, [Next]_vars
  PROVE  OursInv'
<1>1. Len(Coming) \in Nat /\ owed \in Seq({"hello"} \cup Commands)
  BY ComingLines DEF TypeOK, WireOK
<1>2. ASSUME NEW l \in Lines, Answers(l) PROVE OursInv'
  <2>1. UNCHANGED ctl /\ inreply' = inreply /\ rx' = rx /\ net' = Append(net, l)
    BY <1>2 DEF Answers, sess
  <2>2. /\ Len(Coming') = Len(Coming) + 1 /\ Coming'[Len(Coming) + 1] = l
        /\ \A i \in 1 .. Len(Coming) : Coming'[i] = Coming[i]
    BY <2>1, ComingAdd
  <2>3. Len(owed) = 1 /\ Head(owed) = owed[1]
    BY <1>1, <1>2, HeadTailProperties DEF Answers, DueInv, NothingDue
  <2>4. SUFFICES ASSUME inreply, NEW j \in 1 .. Top, Waiting(j)
                 PROVE  /\ \A i \in 1 .. Len(owed') : owed'[i] \in Expected(j)
                        /\ \A i \in 1 .. Len(Coming') : IsReply(i)' => Coming'[i].to \in Expected(j)
    BY <2>1, StayAt DEF OursInv, Waiting, Expected
  <2>5. ArgAt(j) \in Args
    BY FrameTypes
  <2>6. owed[1] \in Expected(j)
    BY <2>3, <2>4 DEF OursInv
  <2>7. l.to \in Expected(j)
    BY <1>2, <2>3, <2>5, <2>6 DEF Answers, Expected, Args, Commands
  <2>8. \A i \in 1 .. Len(owed') : owed'[i] \in Expected(j)
    <3>1. CASE l.last
      <4>1. Len(owed') = 0
        BY <1>1, <1>2, <2>3, <3>1, HeadTailProperties DEF Answers
      <4> QED BY <4>1
    <3>2. CASE ~l.last
      BY <1>2, <2>4, <3>2 DEF Answers, OursInv
    <3> QED BY <3>1, <3>2
  <2>9. \A i \in 1 .. Len(Coming') : IsReply(i)' => Coming'[i].to \in Expected(j)
    BY <1>1, <2>2, <2>4, <2>7 DEF OursInv, IsReply
  <2> QED BY <2>8, <2>9
<1>3. ASSUME ServerBroadcasts PROVE OursInv'
  <2> DEFINE l == [to |-> "bcast", code |-> "none", last |-> TRUE]
  <2>1. rx' = rx /\ net' = Append(net, l) /\ UNCHANGED <<owed, inreply, ctl>>
    BY <1>3 DEF ServerBroadcasts, sess
  <2>2. l \in Lines /\ l.to \notin Replies
    BY DEF Lines, LineKinds, Replies, Commands
  <2> HIDE DEF l
  <2>3. /\ Len(Coming') = Len(Coming) + 1 /\ Coming'[Len(Coming) + 1] = l
        /\ \A i \in 1 .. Len(Coming) : Coming'[i] = Coming[i]
    BY <2>1, <2>2, ComingAdd
  <2>4. \A i \in 1 .. Len(Coming') : IsReply(i)' =>
          i \in 1 .. Len(Coming) /\ IsReply(i) /\ Coming'[i] = Coming[i]
    BY <1>1, <2>2, <2>3 DEF IsReply
  <2> QED BY <2>1, <2>4, OursKept
<1>4. ASSUME ServerHangsUp PROVE OursInv'
  <2>1. PICK n \in 0 .. Len(net) : net' = SubSeq(net, 1, n)
    BY <1>4 DEF ServerHangsUp
  <2>2. rx' = rx /\ UNCHANGED <<inreply, ctl>> /\ owed' = <<>>
    BY <1>4 DEF ServerHangsUp, sess
  <2>3. /\ Len(Coming') \in Nat /\ Len(Coming') <= Len(Coming)
        /\ \A i \in 1 .. Len(Coming') : Coming'[i] = Coming[i]
    BY <2>1, <2>2, ComingCut
  <2>4. \A i \in 1 .. Len(Coming') : IsReply(i)' =>
          i \in 1 .. Len(Coming) /\ IsReply(i) /\ Coming'[i] = Coming[i]
    BY <1>1, <2>3 DEF IsReply
  <2> QED BY <2>2, <2>4, OursKept
<1> QED BY <1>2, <1>3, <1>4, ServerPlays

LEMMA OursStep ==
  TypeOK /\ ReplyInv /\ DownEmpty /\ CtlInv /\ DueInv /\ OursInv /\ ~Rogue /\ [Next]_vars => OursInv'
<1> SUFFICES ASSUME TypeOK, ReplyInv, DownEmpty, CtlInv, DueInv, OursInv, ~Rogue, [Next]_vars
             PROVE  OursInv'
  OBVIOUS
<1>1. CASE Server
  BY <1>1, OursServer
<1>2. CASE UNCHANGED vars
  <2>1. UNCHANGED <<inreply, owed, ctl>> /\ Coming' = Coming
    BY <1>2 DEF vars, wire, sess, Coming
  <2> QED BY <2>1, OursKept DEF IsReply
<1>3. CASE User \/ Library
  <2>1. CASE pc # "close" /\ UNCHANGED <<link, owed, net, rx, inreply>>
    <3>1. Coming' = Coming BY <2>1 DEF Coming
    <3> QED BY <2>1, <3>1, OursKept DEF IsReply
  <2>2. CASE OpenConnects
    BY <2>2, OursConnects
  <2>3. CASE pc # "close" /\ RecvReads /\ UNCHANGED <<link, owed, inreply>>
    <3>1. Coming' = Coming BY <2>3, ComingRecv
    <3> QED BY <2>3, <3>1, OursKept DEF IsReply
  <2>4. CASE Close \/ (OpenClean /\ ~inreply)
    BY <2>4 DEF Close, OpenClean, ForgetReply, OursInv
  <2>5. CASE SendWrites /\ ~inreply
    BY <2>5, OursWrites
  <2>6. CASE DropsOther \/ RNextReply
    <3>1. /\ rx # <<>> /\ rx' = Tail(rx) /\ UNCHANGED <<owed, net>> /\ (inreply' => inreply)
          /\ pc # "close"
      BY <2>6 DEF DropsOther, RNextReply, wire, Readers
    <3>2. \A i \in 1 .. Len(Coming') :
            i + 1 \in 1 .. Len(Coming) /\ Coming'[i] = Coming[i + 1] /\ (IsReply(i)' <=> IsReply(i + 1))
      BY <3>1, MovedUp
    <3> QED BY <3>1, <3>2, OursKept
  <2> QED BY <1>3, <2>1, <2>2, <2>3, <2>4, <2>5, <2>6, ReplyUse
<1> QED BY <1>1, <1>2, <1>3 DEF Next
(***************************************************************************)
(* The line that was read last.                                            *)
(***************************************************************************)
LineInv ==
  /\ pc = "rlast" /\ ~inreply => line \in Expected(Top)
  /\ \A j \in 1 .. Top : At(j) = "it.next" => line = ArgAt(j) /\ code \notin Codes5
  /\ pc = "cmd.code" /\ res = "ok" => line = arg
  /\ pc = "open.hello" /\ res = "ok" => line \in {"hello", "alien"}

\* A step that leaves the session alone and goes on at no other place that matters.
LEMMA LineReturns ==
  ASSUME TypeOK, ReplyInv, CtlInv, LineInv, UNCHANGED <<line, code, inreply>>,
         NEW r, Returns(r), Return(r)
  PROVE  LineInv'
<1>1. CtlOK /\ Top \in Nat /\ Top >= 1 /\ At(Top) = pc /\ ArgAt(Top) = arg
  BY TopNat DEF TypeOK
<1>2. /\ Top >= 2 /\ Top' = Top - 1 /\ res' = r /\ pc' = At(Top - 1) /\ arg' = ArgAt(Top - 1)
      /\ \A i \in 1 .. Top - 1 : At(i)' = At(i) /\ ArgAt(i)' = ArgAt(i)
  BY <1>1, ReturnAt, NotIdle
<1>3. \A j \in 1 .. Top' : At(j)' = "it.next" => line' = ArgAt(j)' /\ code' \notin Codes5
  BY <1>1, <1>2 DEF LineInv
<1>4. /\ pc \in Callees(At(Top - 1)) /\ Passes(At(Top - 1), ArgAt(Top - 1), pc, arg)
  <2>1. Top - 1 \in 1 .. Len(stk) /\ (Top - 1) + 1 = Top
    BY <1>1, <1>2 DEF Top
  <2> QED BY <1>1, <2>1 DEF CtlInv, ArgUp, CallGraph
<1>5. pc' # "rlast" \/ inreply'
  <2>1. Plain => At(Top - 1) \notin Readers
    BY <1>1, <1>2, PlainReaders
  <2> QED BY <1>2, <2>1 DEF ReplyInv, Handling, Refusing, Readers
<1>6. pc' \in {"cmd.code", "open.hello"} /\ r = "ok" => pc = "rlast" /\ ~inreply
  BY <1>2, <1>4 DEF Returns, Callees, InLast, InClose, Readers, Sent
<1>7. pc' = "cmd.code" /\ r = "ok" => line' = arg'
  BY <1>1, <1>2, <1>4, <1>6 DEF LineInv, Expected, Passes
<1>8. pc' = "open.hello" /\ r = "ok" => line' \in {"hello", "alien"}
  <2>1. pc = "rlast" /\ At(Top - 1) = "open.hello" => Expected(Top) = {"hello", "alien"}
    BY <1>1, <1>2 DEF Expected
  <2> QED BY <1>2, <1>6, <2>1 DEF LineInv
<1> QED BY <1>2, <1>3, <1>5, <1>7, <1>8 DEF LineInv

LEMMA LineGoes ==
  ASSUME TypeOK, LineInv, UNCHANGED <<line, code>>,
         NEW p, p \notin {"rlast", "it.next", "cmd.code", "open.hello"}, Goto(p)
  PROVE  LineInv'
<1>1. CtlOK /\ Top \in Nat /\ Top >= 1
  BY TopNat DEF TypeOK
<1>2. /\ Top' = Top /\ pc' = p /\ \A i \in 1 .. Top : ArgAt(i)' = ArgAt(i)
      /\ \A i \in 1 .. Top - 1 : At(i)' = At(i)
      /\ \A i : i = Top => At(i)' = p
  BY <1>1, GotoAt
<1> QED BY <1>1, <1>2 DEF LineInv

LEMMA LineCalls ==
  ASSUME TypeOK, LineInv, UNCHANGED <<line, code>>,
         NEW f, NEW c, NEW k \in Places, Call(f, c, k), f = "rlast" => inreply',
         f \notin {"it.next", "cmd.code", "open.hello"}, k = "it.next" => pc = "it.next"
  PROVE  LineInv'
<1>1. CtlOK /\ Top \in Nat /\ Top >= 1 /\ At(Top) = pc /\ ArgAt(Top) = arg
  BY TopNat DEF TypeOK
<1>2. /\ Top' = Top + 1 /\ pc' = f /\ res' = "none"
      /\ \A i \in 1 .. Top : ArgAt(i)' = ArgAt(i)
      /\ \A i \in 1 .. Top - 1 : At(i)' = At(i)
      /\ \A i : i = Top => At(i)' = k
      /\ \A i : i = Top + 1 => At(i)' = f
  BY <1>1, CallAt
<1> QED BY <1>1, <1>2 DEF LineInv
LineSteps == RNextReply \/ SendWrites \/ SendFails \/ Close

LEMMA LineUse ==
  ASSUME [Next]_vars, ~LineSteps
  PROVE  OpenConnects \/ UNCHANGED <<line, code, inreply>>
<1>1. CASE Server \/ User \/ UNCHANGED vars
  BY <1>1 DEF Server, ServerAnswers, ServerBroadcasts, ServerGarbles, ServerHangsUp,
     User, UserOpens, UserCommands, UserPolls, UserCloses, vars, sess
<1>2. CASE Library
  BY <1>2 DEF Library, LineSteps, OpenAlready, OpenUnreachable, OpenGreeted,
    OpenUser, OpenPass, OpenEvent, OpenClean, ConnTrack, ConnList, ConnDone,
    ReturnFail, Send, SendGivesUp, Cmd, CmdSent, CmdCode, It, ItSent, ItList,
    RNextDone, RNextRecv, RNextLost, RNextShort, RNextBroadcast, Poll, PollRecv,
    PollLost, PollDone, PollShort, PollUnprocessed, PollBroadcast, Dispatch, sess
<1> QED BY <1>1, <1>2 DEF Next

LEMMA LineQuiet ==
  ASSUME TypeOK, ReplyInv, CodeInv, CtlInv, LineInv, [Next]_vars, ~LineSteps
  PROVE  LineInv'
<1>1. UNCHANGED <<line, code>> /\ (inreply => inreply')
  <2>1. OpenConnects => UNCHANGED <<line, code>> /\ inreply'
    BY DEF OpenConnects
  <2> QED BY <2>1, LineUse
<1>2. CASE OpenConnects
  BY <1>1, <1>2, PlaceNames, LineCalls DEF OpenConnects, Handshake
<1>3. CASE UNCHANGED <<line, code, inreply>>
  <2>1. CASE UNCHANGED ctl
    BY <1>3, <2>1, StayAt DEF LineInv, Expected
  <2>2. ASSUME NEW p, Jumps(p), Goto(p) PROVE LineInv'
    BY <1>3, <2>2, LineGoes DEF Jumps, LineSteps
  <2>3. ASSUME NEW f, NEW c, NEW k \in Places, Calls(f, c, k), Call(f, c, k) PROVE LineInv'
    <3>1. f = "rlast" => pc = "open" \/ inreply
      BY <2>3 DEF Calls, LineSteps, CodeInv, CodeCtl, CodeKnown, Sent
    <3>2. pc = "open" /\ f = "rlast" => inreply'
      BY <2>3 DEF Calls, OpenConnects, Readers
    <3> QED BY <1>1, <2>3, <3>1, <3>2, LineCalls DEF Calls, LineSteps, Readers
  <2>4. ASSUME NEW r, Returns(r), Return(r) PROVE LineInv'
    BY <1>3, <2>4, LineReturns
  <2> QED BY <2>1, <2>2, <2>3, <2>4, NextMoves DEF ControlMoves
<1> QED BY <1>2, <1>3, LineUse

\* Where no loop reads, the line may become anything.
LEMMA LineFree ==
  ASSUME TypeOK, Plain, pc \notin Readers,
         \/ Goto("close")
         \/ \E c : \E f \in {"open", "cmd"} : Call(f, c, "fail")
         \/ (pc # "idle" /\ Return("fail"))
         \/ (pc # "idle" /\ Return("ok") /\ At(Top - 1) \in Sent)
  PROVE  LineInv'
<1>1. CtlOK /\ Top \in Nat /\ Top >= 1 /\ At(Top) = pc
  BY TopNat DEF TypeOK
<1>2. \A i \in 1 .. Top : At(i) \notin Readers
  BY <1>1, PlainReaders
<1>3. CASE Goto("close")
  <2>1. Top' = Top /\ pc' = "close" /\ \A i \in 1 .. Top : At(i)' = At(i) \/ At(i)' = "close"
    BY <1>1, <1>3, GotoAt
  <2> QED BY <1>2, <2>1 DEF LineInv, Readers
<1>4. ASSUME NEW f \in {"open", "cmd"}, NEW c, Call(f, c, "fail") PROVE LineInv'
  <2>1. Top' = Top + 1 /\ pc' = f /\ \A i \in 1 .. Top + 1 : (i < Top /\ At(i)' = At(i)) \/ At(i)' \in {"fail", f}
    BY <1>1, <1>4, CallAt, PlaceNames
  <2> QED BY <1>1, <1>2, <2>1 DEF LineInv, Readers
<1>5. ASSUME NEW r, pc # "idle", Return(r), r = "ok" => At(Top - 1) \in Sent PROVE LineInv'
  <2>1. /\ Top >= 2 /\ Top' = Top - 1 /\ res' = r /\ pc' = At(Top - 1)
        /\ \A i \in 1 .. Top - 1 : At(i)' = At(i)
    BY <1>1, <1>5, ReturnAt
  <2> QED BY <1>1, <1>2, <1>5, <2>1 DEF LineInv, Readers, Sent
<1> QED BY <1>3, <1>4, <1>5
LEMMA LineTakes ==
  TypeOK /\ ReplyInv /\ OursInv /\ LineInv /\ RNextReply => LineInv'
<1> SUFFICES ASSUME TypeOK, ReplyInv, OursInv, LineInv, RNextReply PROVE LineInv'
  OBVIOUS
<1>1. CtlOK /\ Top \in Nat /\ Top >= 1 /\ At(Top) = pc /\ ArgAt(Top) = arg
  BY TopNat DEF TypeOK
<1>2. /\ pc \in Readers /\ inreply /\ rx # <<>> /\ line' = Head(rx).to /\ Plain
      /\ Head(rx).to \in Replies
  BY PlainThere, HeadOfRx DEF RNextReply, TypeOK, Readers
<1>3. \A i \in 1 .. Top - 1 : At(i) \notin Readers
  BY <1>2, PlainReaders
<1>4. line' \in Expected(Top)
  <2>1. Len(Coming) >= 1 /\ Len(Coming) \in Nat /\ Coming[1] = Head(rx)
    BY <1>2, ComingHead
  <2>2. Waiting(Top) /\ IsReply(1)
    BY <1>1, <1>2, <2>1 DEF Waiting, IsReply
  <2> QED BY <1>1, <1>2, <2>1, <2>2 DEF OursInv
<1>5. pc # "rlast" => line' = arg
  BY <1>1, <1>4 DEF Expected
<1>6. CASE pc = "rlast" /\ UNCHANGED ctl
  <2>1. /\ Top' = Top /\ pc' = "rlast"
        /\ \A i : At(i)' = At(i) /\ ArgAt(i)' = ArgAt(i)
    BY <1>6, StayAt
  <2>2. \A i : Expected(i)' = Expected(i)
    BY <2>1 DEF Expected
  <2>3. line' \in Expected(Top)'
    BY <1>4, <2>1, <2>2
  <2> QED BY <1>1, <1>3, <1>6, <2>1, <2>3 DEF LineInv, Readers
<1>7. CASE pc # "rlast" /\ code' = Head(rx).code /\ Head(rx).code \notin Codes5 /\ Goto("it.next")
  <2>1. /\ Top' = Top /\ pc' = "it.next" /\ \A i \in 1 .. Top : ArgAt(i)' = ArgAt(i)
        /\ \A i \in 1 .. Top - 1 : At(i)' = At(i)
    BY <1>1, <1>7, GotoAt
  <2> QED BY <1>1, <1>3, <1>5, <1>7, <2>1 DEF LineInv, Readers
<1>8. CASE pc # "rlast" /\ Call("rlast", arg, "fail")
  <2>1. /\ Top' = Top + 1 /\ pc' = "rlast"
        /\ \A i \in 1 .. Top - 1 : At(i)' = At(i)
        /\ \A i : i = Top => At(i)' = "fail"
        /\ \A i : i = Top + 1 => At(i)' = "rlast" /\ ArgAt(i)' = arg
    BY <1>1, <1>8, CallAt, PlaceNames
  <2>2. \A i : i = Top + 1 => Expected(i)' = {arg}
    <3> SUFFICES ASSUME NEW i, i = Top + 1 PROVE Expected(i)' = {arg}
      OBVIOUS
    <3>1. At(i - 1)' = "fail" /\ ArgAt(i)' = arg
      BY <1>1, <2>1
    <3> QED BY <3>1 DEF Expected
  <2>3. line' \in Expected(Top)'
    BY <1>5, <1>8, <2>1, <2>2
  <2> QED BY <1>1, <1>3, <2>1, <2>3 DEF LineInv, Readers
<1>9. CASE RNextCloses
  <2>1. CASE pc = "it.next"
    <3>1. Call("close", "none", "it.list")
      BY <1>9, <2>1 DEF RNextCloses
    <3>2. /\ Top' = Top + 1 /\ pc' = "close"
          /\ \A i \in 1 .. Top - 1 : At(i)' = At(i)
          /\ \A i : i = Top => At(i)' = "it.list"
          /\ \A i : i = Top + 1 => At(i)' = "close"
      BY <1>1, <3>1, CallAt, PlaceNames
    <3> QED BY <1>1, <1>3, <3>2 DEF LineInv, Readers
  <2>2. CASE pc # "it.next"
    <3>1. Goto("close")
      BY <1>9, <2>2 DEF RNextCloses
    <3>2. /\ Top' = Top /\ pc' = "close"
          /\ \A i \in 1 .. Top - 1 : At(i)' = At(i)
          /\ \A i : i = Top => At(i)' = "close"
      BY <1>1, <3>1, GotoAt
    <3> QED BY <1>1, <1>3, <3>2 DEF LineInv, Readers
  <2> QED BY <2>1, <2>2
<1> QED BY <1>6, <1>7, <1>8, <1>9 DEF RNextReply, Abandon

LEMMA LineStep ==
  TypeOK /\ ReplyInv /\ CodeInv /\ CtlInv /\ OursInv /\ LineInv /\ [Next]_vars => LineInv'
<1> SUFFICES ASSUME TypeOK, ReplyInv, CodeInv, CtlInv, OursInv, LineInv, [Next]_vars PROVE LineInv'
  OBVIOUS
<1>1. CASE ~LineSteps
  BY <1>1, LineQuiet
<1>2. CASE RNextReply
  BY <1>2, LineTakes
<1>3. CASE SendWrites
  <2>1. pc = "send.opened" /\ Return("ok") /\ Plain /\ At(Top - 1) \in Sent
    BY <1>3, PlainThere, Sender DEF SendWrites
  <2> QED BY <2>1, LineFree DEF Readers
<1>4. CASE SendFails
  BY <1>4, PlainThere, LineFree DEF SendFails, Readers
<1>5. CASE Close
  BY <1>5, PlainThere, LineFree DEF Close, CbDisc, EvDisc, NoHandler, Jump, Readers
<1> QED BY <1>1, <1>2, <1>3, <1>4, <1>5 DEF LineSteps

LEMMA OursMeans == TypeOK /\ LineInv => ReplyIsOurs
<1> SUFFICES ASSUME TypeOK, LineInv PROVE ReplyIsOurs
  OBVIOUS
<1>1. Top \in 1 .. Top /\ At(Top) = pc /\ ArgAt(Top) = arg
  BY TopNat DEF TypeOK
<1> QED BY <1>1 DEF LineInv, ReplyIsOurs

AnswerInv == OursInv /\ LineInv

LEMMA AnswerInit == Init => AnswerInv
<1> SUFFICES ASSUME Init PROVE AnswerInv
  OBVIOUS
<1>1. Top = 1 /\ pc = "idle" /\ ~inreply
  BY EmptySeq DEF Init, Top
<1>2. \A j \in 1 .. Top : At(j) = "idle"
  BY <1>1 DEF At, Top
<1> QED BY <1>1, <1>2 DEF AnswerInv, OursInv, LineInv

LEMMA AnswerStep == WireInv /\ AnswerInv /\ ~Rogue /\ [Next]_vars => AnswerInv'
BY OursStep, LineStep DEF WireInv, AnswerInv

(***************************************************************************)
(* ReplyIsOurs: with a server that answers what it was asked, the line a   *)
(* command is judged by is part of the answer to that very command, and    *)
(* the greeting is judged by a greeting, although a command that has to    *)
(* reconnect first sends others and reads their replies on its way, and    *)
(* handlers send more while it waits.                                      *)
(***************************************************************************)
THEOREM RepliesAreOurs ==
  ASSUME ~Rogue
  PROVE  Spec => []ReplyIsOurs
<1>1. Init => WireInv /\ AnswerInv
  BY WireInit, AnswerInit
<1>2. WireInv /\ AnswerInv /\ [Next]_vars => (WireInv /\ AnswerInv)'
  BY WireStep, AnswerStep
<1>3. WireInv /\ AnswerInv => ReplyIsOurs
  BY OursMeans DEF WireInv, AnswerInv
<1> QED BY <1>1, <1>2, <1>3, PTL DEF Spec
(***************************************************************************)
(* The login.  While the server waits for it a handshake is running, and   *)
(* all that runs above it logs in, or is a handler whose command will be   *)
(* refused because a reply of the login is being read.                     *)
(***************************************************************************)
Login == {"user", "pass"}
LogsIn(h, j) ==
  \/ \E i \in h + 1 .. j - 1 : At(i) \in Readers
  \/ At(j) \in {"rlast", "close"}
  \/ At(j) \in InCmd \cup {"send", "send.opened", "open"} /\ ArgAt(j) \in Login
Shakes == {"open.hello", "open.user", "open.pass", "open.clean1"}
GuestAt(h) == At(h) \in Shakes /\ \A j \in h + 1 .. Top : LogsIn(h, j)

GuestInv ==
  guest =>
    /\ WithUser /\ Up
    /\ \E h \in 1 .. Top : GuestAt(h)
    /\ \A i \in 1 .. Len(owed) : owed[i] \in {"hello", "user", "pass"}

\* Where line and code are those of the reply that was read last.
Judged ==
  \/ pc = "rlast" /\ ~inreply
  \/ pc \in {"cmd.code", "open.hello"} /\ res = "ok"

\* While the server waits for a login, no "pass" was answered but by an error.
PassInv ==
  guest =>
    /\ \A i \in 1 .. Len(Coming) :
         IsFinal(i) /\ Coming[i].to = "pass" => Coming[i].code \in Codes5
    /\ Judged /\ line = "pass" => code \in Codes5
    /\ pc = "open.pass" => res # "ok"

LEMMA ReaderBelow ==
  ASSUME TypeOK, ReplyInv, NEW i \in 1 .. Top - 1, At(i) \in Readers
  PROVE  pc \in {"cmd", "cmd.sent", "send"} /\ inreply
BY PlainReaders DEF ReplyInv, Handling, Refusing

\* The handshake goes on until the server lets us in or the connection ends.
LEMMA GuestStays ==
  ASSUME TypeOK, ReplyInv, guest, guest', PassInv, WithUser, Up, [Next]_vars,
         NEW h \in 1 .. Top, GuestAt(h)
  PROVE  h \in 1 .. Top' /\ GuestAt(h)'
<1>1. CtlOK /\ Top \in Nat /\ Top >= 1 /\ At(Top) = pc /\ ArgAt(Top) = arg
  BY TopNat DEF TypeOK
<1>2. pc # "open.clean1" \/ ~OpenClean
  BY DEF OpenClean, Disconnect
<1>3. ~OpenConnects /\ ~Close /\ ~OpenClean
  BY DEF OpenConnects, AlreadyOpen, Close, OpenClean, Disconnect
<1>4. CASE UNCHANGED ctl
  BY <1>1, <1>4, StayAt DEF GuestAt, LogsIn
<1>5. ASSUME \A i \in 1 .. Top - 1 : At(i)' = At(i), \A i \in 1 .. Top - 1 : ArgAt(i)' = ArgAt(i),
             NEW j \in h + 1 .. Top - 1
      PROVE  LogsIn(h, j)'
  <2>1. LogsIn(h, j) /\ \A i \in h + 1 .. j : i \in 1 .. Top - 1
    BY <1>1 DEF GuestAt
  <2>2. At(j)' = At(j) /\ ArgAt(j)' = ArgAt(j) /\ \A i \in h + 1 .. j - 1 : At(i)' = At(i)
    BY <1>1, <1>5, <2>1
  <2> QED BY <2>1, <2>2 DEF LogsIn
<1>6. (\E i \in h + 1 .. Top - 1 : At(i) \in Readers) => pc \in {"cmd", "cmd.sent", "send"}
  BY <1>1, ReaderBelow
<1>7. h < Top => LogsIn(h, Top)
  BY <1>1 DEF GuestAt
<1>8. ASSUME NEW p, Jumps(p), Goto(p) PROVE h \in 1 .. Top' /\ GuestAt(h)'
  <2>1. /\ Top' = Top /\ pc' = p
        /\ \A i \in 1 .. Top - 1 : At(i)' = At(i)
        /\ \A i \in 1 .. Top : ArgAt(i)' = ArgAt(i)
        /\ \A i : i = Top => At(i)' = p
    BY <1>1, <1>8, GotoAt
  <2>2. CASE h = Top
    <3>1. p = "open.clean1"
      BY <1>1, <1>8, <2>2 DEF GuestAt, Shakes, Jumps, PassInv, Readers, Sent
    <3> QED BY <1>1, <2>1, <2>2, <3>1 DEF GuestAt, Shakes
  <2>3. CASE h < Top
    <3>1. p = "close"
      BY <1>1, <1>6, <1>7, <1>8, <2>3 DEF LogsIn, InCmd, Jumps
    <3>2. \A j \in h + 1 .. Top : LogsIn(h, j)'
      <4> SUFFICES ASSUME NEW j \in h + 1 .. Top PROVE LogsIn(h, j)'
        OBVIOUS
      <4>1. CASE j = Top
        BY <2>1, <3>1, <4>1 DEF LogsIn
      <4>2. CASE j # Top
        BY <1>1, <1>5, <2>1, <4>2
      <4> QED BY <4>1, <4>2
    <3> QED BY <1>1, <2>1, <2>3, <3>2 DEF GuestAt
  <2> QED BY <1>1, <2>2, <2>3
<1>9. ASSUME NEW f, NEW c, NEW k \in Places, Calls(f, c, k), Call(f, c, k)
      PROVE  h \in 1 .. Top' /\ GuestAt(h)'
  <2>1. /\ Top' = Top + 1 /\ pc' = f
        /\ \A i \in 1 .. Top - 1 : At(i)' = At(i)
        /\ \A i \in 1 .. Top : ArgAt(i)' = ArgAt(i)
        /\ \A i : i = Top => At(i)' = k
        /\ \A i : i = Top + 1 => At(i)' = f /\ ArgAt(i)' = c
    BY <1>1, <1>9, CallAt
  <2>2. CASE h = Top
    <3>1. k \in Shakes /\ f \in InCmd /\ c \in Login
      BY <1>1, <1>9, <2>2 DEF GuestAt, Shakes, Calls, Readers, Sent, InCmd, Login
    <3>2. \A j \in h + 1 .. Top + 1 : LogsIn(h, j)'
      BY <1>1, <2>1, <2>2, <3>1 DEF LogsIn
    <3> QED BY <1>1, <2>1, <2>2, <3>1, <3>2 DEF GuestAt
  <2>3. CASE h < Top
    <3>1. \/ pc = "rlast" /\ k = "rlast"
          \/ \E i \in h + 1 .. Top - 1 : At(i) \in Readers
          \/ /\ k \in InCmd \cup {"send", "send.opened", "open"} /\ arg \in Login
             /\ f = "rlast" \/ (f \in InCmd \cup {"send", "send.opened", "open"} /\ c = arg)
      BY <1>1, <1>3, <1>6, <1>7, <1>9, <2>3 DEF LogsIn, InCmd, Calls, Readers, Sent
    <3>2. \A j \in {Top, Top + 1} : LogsIn(h, j)'
      <4> SUFFICES ASSUME NEW j \in {Top, Top + 1} PROVE LogsIn(h, j)'
        OBVIOUS
      <4>1. CASE pc = "rlast" /\ k = "rlast"
        <5>1. At(Top) = "rlast" /\ \A i : i = Top => At(i)' = "rlast"
          BY <1>1, <2>1, <4>1
        <5>2. CASE j = Top
          BY <5>1, <5>2 DEF LogsIn
        <5>3. CASE j = Top + 1
          <6>1. Top \in h + 1 .. j - 1 /\ \A i : i = Top => At(i)' \in Readers
            BY <1>1, <2>3, <5>1, <5>3 DEF Readers
          <6> QED BY <6>1 DEF LogsIn
        <5> QED BY <5>2, <5>3
      <4>2. ASSUME NEW i \in h + 1 .. Top - 1, At(i) \in Readers PROVE LogsIn(h, j)'
        <5>1. i \in h + 1 .. j - 1 /\ At(i)' \in Readers
          BY <1>1, <2>1, <4>2
        <5> QED BY <5>1 DEF LogsIn
      <4>3. CASE /\ k \in InCmd \cup {"send", "send.opened", "open"} /\ arg \in Login
                 /\ f = "rlast" \/ (f \in InCmd \cup {"send", "send.opened", "open"} /\ c = arg)
        <5>1. CASE j = Top
          BY <1>1, <2>1, <4>3, <5>1 DEF LogsIn
        <5>2. CASE j = Top + 1
          BY <2>1, <4>3, <5>2 DEF LogsIn
        <5> QED BY <5>1, <5>2
      <4> QED BY <3>1, <4>1, <4>2, <4>3
    <3>3. \A j \in h + 1 .. Top + 1 : LogsIn(h, j)'
      <4> SUFFICES ASSUME NEW j \in h + 1 .. Top + 1 PROVE LogsIn(h, j)'
        OBVIOUS
      <4>1. j \in {Top, Top + 1} \/ j \in h + 1 .. Top - 1
        BY <1>1
      <4>2. CASE j \in h + 1 .. Top - 1
        BY <1>1, <1>5, <2>1, <4>2
      <4> QED BY <3>2, <4>1, <4>2
    <3>4. At(h)' \in Shakes
      BY <1>1, <2>1, <2>3 DEF GuestAt
    <3> QED BY <1>1, <2>1, <2>3, <3>3, <3>4 DEF GuestAt
  <2> QED BY <1>1, <2>2, <2>3
<1>10. ASSUME NEW r, Returns(r), Return(r) PROVE h \in 1 .. Top' /\ GuestAt(h)'
  <2>1. /\ Top >= 2 /\ Top' = Top - 1
        /\ \A i \in 1 .. Top - 1 : At(i)' = At(i) /\ ArgAt(i)' = ArgAt(i)
    BY <1>1, <1>10, NotIdle, ReturnAt
  <2>2. h # Top
    BY <1>1, <1>3, <1>10 DEF GuestAt, Shakes, Returns, Readers, Sent
  <2> QED BY <1>1, <1>5, <2>1, <2>2 DEF GuestAt
<1> QED BY <1>4, <1>8, <1>9, <1>10, NextMoves DEF ControlMoves
\* Only a new connection makes us a guest, and only its end forgets it.
LEMMA GuestUse ==
  ASSUME TypeOK, ReplyInv, [Next]_vars, guest', ~OpenConnects
  PROVE  guest /\ (Up => Up')
<1>1. CASE Server
  BY <1>1 DEF Server, ServerAnswers, ServerBroadcasts, ServerGarbles, ServerHangsUp, Up
<1>2. CASE UNCHANGED vars
  BY <1>2 DEF vars, wire, Up
<1>3. CASE User \/ Library
  BY <1>3, ReplyUse DEF Close, OpenClean, Disconnect, SendWrites, DropsOther, RNextReply, Up, wire
<1> QED BY <1>1, <1>2, <1>3 DEF Next

LEMMA OwedUse ==
  ASSUME TypeOK, ReplyInv, ~Rogue, [Next]_vars, ~OpenConnects
  PROVE  \/ owed' = owed \/ owed' = <<>>
         \/ SendWrites /\ ~inreply
         \/ \E l \in Lines : Answers(l)
<1>1. CASE Server
  BY <1>1, ServerPlays DEF ServerBroadcasts, ServerHangsUp
<1>2. CASE UNCHANGED vars
  BY <1>2 DEF vars, wire
<1>3. CASE User \/ Library
  BY <1>3, ReplyUse DEF Close, OpenClean, Disconnect, DropsOther, RNextReply, wire
<1> QED BY <1>1, <1>2, <1>3 DEF Next

LEMMA GuestStep ==
  TypeOK /\ ReplyInv /\ CtlInv /\ DueInv /\ GuestInv /\ PassInv /\ ~Rogue /\ [Next]_vars => GuestInv'
<1> SUFFICES ASSUME TypeOK, ReplyInv, CtlInv, DueInv, GuestInv, PassInv, ~Rogue, [Next]_vars, guest'
             PROVE  GuestInv'
  BY DEF GuestInv
<1> DEFINE Allowed == {"hello", "user", "pass"}
<1>1. CtlOK /\ Top \in Nat /\ Top >= 1 /\ At(Top) = pc /\ ArgAt(Top) = arg
  BY TopNat DEF TypeOK
<1>2. CASE OpenConnects
  <2>1. Call("rlast", arg, "open.hello") /\ owed' = <<"hello">> /\ WithUser /\ Up'
    BY <1>2 DEF OpenConnects, Connect, Up
  <2>2. /\ Top' = Top + 1
        /\ \A i : i = Top => At(i)' = "open.hello"
        /\ \A i : i = Top + 1 => At(i)' = "rlast"
    BY <1>1, <2>1, CallAt, PlaceNames DEF Handshake
  <2>3. \A j \in Top + 1 .. Top' : LogsIn(Top, j)'
    BY <1>1, <2>2 DEF LogsIn
  <2>4. \A h : h = Top => h \in 1 .. Top' /\ GuestAt(h)'
    BY <1>1, <2>2 DEF GuestAt, Shakes, LogsIn
  <2>5. \A i \in 1 .. Len(owed') : owed'[i] \in Allowed
    BY <2>1
  <2> QED BY <2>1, <2>4, <2>5 DEF GuestInv
<1>3. CASE ~OpenConnects
  <2>1. guest /\ (Up => Up')
    BY <1>3, GuestUse
  <2>2. PICK h \in 1 .. Top : GuestAt(h)
    BY <2>1 DEF GuestInv
  <2>3. h \in 1 .. Top' /\ GuestAt(h)'
    BY <2>1, <2>2, GuestStays DEF GuestInv
  <2>4. \A i \in 1 .. Len(owed') : owed'[i] \in Allowed
    <3>1. CASE owed' = owed \/ owed' = <<>>
      BY <2>1, <3>1, EmptySeq DEF GuestInv
    <3>2. CASE SendWrites /\ ~inreply
      <4>1. h # Top /\ LogsIn(h, Top)
        BY <1>1, <2>2, <3>2 DEF SendWrites, GuestAt, Shakes
      <4>2. \A i \in h + 1 .. Top - 1 : At(i) \notin Readers
        BY <1>1, <3>2, ReaderBelow DEF SendWrites
      <4>3. arg \in Login
        BY <1>1, <3>2, <4>1, <4>2 DEF LogsIn, SendWrites
      <4>4. owed = <<>> /\ owed' = IF link = "live" THEN Append(owed, arg) ELSE owed
        BY <3>2 DEF DueInv, NothingDue, SendWrites
      <4> QED BY <4>3, <4>4 DEF Login
    <3>3. ASSUME NEW l \in Lines, Answers(l) PROVE \A i \in 1 .. Len(owed') : owed'[i] \in Allowed
      <4>1. owed \in Seq({"hello"} \cup Commands) /\ owed # <<>>
        BY <3>3 DEF TypeOK, WireOK, Answers
      <4>2. owed' = owed \/ owed' = Tail(owed)
        BY <3>3 DEF Answers
      <4>3. \A i \in 1 .. Len(Tail(owed)) : Tail(owed)[i] = owed[i + 1] /\ i + 1 \in 1 .. Len(owed)
        BY <4>1, HeadTailProperties
      <4> QED BY <2>1, <4>2, <4>3 DEF GuestInv
    <3> QED BY <1>3, <3>1, <3>2, <3>3, OwedUse
  <2> QED BY <2>1, <2>3, <2>4 DEF GuestInv
<1> QED BY <1>2, <1>3
(***************************************************************************)
(* Where the lines come from.                                              *)
(***************************************************************************)
LEMMA ComingUse ==
  ASSUME TypeOK, ReplyInv, DownEmpty, ~Rogue, [Next]_vars, NEW i \in 1 .. Len(Coming')
  PROVE  \/ \E h \in 1 .. Len(Coming) : Coming'[i] = Coming[h]
         \/ \E l \in Lines : Answers(l) /\ Coming'[i] = l
         \/ ServerBroadcasts /\ Coming'[i].to = "bcast" /\ i = Len(Coming) + 1
<1>1. Len(Coming) \in Nat
  BY ComingLines
<1>2. Coming' = Coming \/ Len(Coming') = 0 => \E h \in 1 .. Len(Coming) : Coming'[i] = Coming[h]
  <2>1. i \in 1 .. 0 => FALSE
    OBVIOUS
  <2> QED BY <2>1
<1>3. CASE Server
  <2>1. ASSUME NEW l \in Lines, rx' = rx, net' = Append(net, l)
        PROVE  (\E h \in 1 .. Len(Coming) : Coming'[i] = Coming[h]) \/ (Coming'[i] = l /\ i = Len(Coming) + 1)
    <3>1. /\ Len(Coming') = Len(Coming) + 1 /\ Coming'[Len(Coming) + 1] = l
          /\ \A h \in 1 .. Len(Coming) : Coming'[h] = Coming[h]
      BY <2>1, ComingAdd
    <3> QED BY <1>1, <3>1
  <2>2. ASSUME NEW l \in Lines, Answers(l)
        PROVE  (\E h \in 1 .. Len(Coming) : Coming'[i] = Coming[h]) \/ Coming'[i] = l
    BY <2>1, <2>2 DEF Answers, sess
  <2>3. ASSUME ServerBroadcasts
        PROVE  (\E h \in 1 .. Len(Coming) : Coming'[i] = Coming[h]) \/ (Coming'[i].to = "bcast" /\ i = Len(Coming) + 1)
    <3> DEFINE l == [to |-> "bcast", code |-> "none", last |-> TRUE]
    <3>1. l \in Lines /\ l.to = "bcast" /\ rx' = rx /\ net' = Append(net, l)
      BY <2>3 DEF Lines, LineKinds, ServerBroadcasts, sess
    <3> HIDE DEF l
    <3> QED BY <2>1, <3>1
  <2>4. ASSUME ServerHangsUp PROVE \E h \in 1 .. Len(Coming) : Coming'[i] = Coming[h]
    <3>1. PICK n \in 0 .. Len(net) : net' = SubSeq(net, 1, n)
      BY <2>4 DEF ServerHangsUp
    <3>2. rx' = rx
      BY <2>4 DEF ServerHangsUp, sess
    <3>3. /\ Len(Coming') \in Nat /\ Len(Coming') <= Len(Coming)
          /\ \A h \in 1 .. Len(Coming') : Coming'[h] = Coming[h]
      BY <3>1, <3>2, ComingCut
    <3> QED BY <1>1, <3>3
  <2> QED BY <1>3, <2>2, <2>3, <2>4, ServerPlays
<1>4. CASE UNCHANGED vars
  BY <1>2, <1>4 DEF vars, wire, sess, Coming
<1>5. CASE User \/ Library
  <2>1. CASE UNCHANGED <<net, rx>>
    BY <1>2, <2>1 DEF Coming
  <2>2. CASE rx' = <<>> /\ net' = <<>>
    BY <1>2, <2>2, EmptySeq DEF Coming
  <2>3. CASE RecvReads
    BY <1>2, <2>3, ComingRecv
  <2>4. CASE rx # <<>> /\ rx' = Tail(rx) /\ net' = net
    BY <2>4, MovedUp
  <2>5. OpenConnects => rx' = <<>> /\ net' = <<>>
    BY DEF OpenConnects, Connect, AlreadyOpen, DownEmpty
  <2> QED BY <1>5, <2>1, <2>2, <2>3, <2>4, <2>5, ReplyUse
          DEF Close, OpenClean, Disconnect, SendWrites, DropsOther, RNextReply, wire
<1> QED BY <1>3, <1>4, <1>5 DEF Next

\* Where the line and the code come from.
LEMMA JudgedUse ==
  ASSUME TypeOK, ReplyInv, CodeInv, CtlInv, [Next]_vars, Judged'
  PROVE  \/ Judged /\ UNCHANGED <<line, code>>
         \/ /\ RNextReply /\ line' = Head(rx).to /\ code' = Head(rx).code /\ Head(rx).last
<1>1. CtlOK /\ Top \in Nat /\ Top >= 1 /\ At(Top) = pc /\ ArgAt(Top) = arg
  BY TopNat DEF TypeOK
<1>2. CASE RNextReply
  <2>1. /\ line' = Head(rx).to /\ rx # <<>> /\ IsOther(Head(rx))
        /\ pc' \in {"rlast", "it.next"} => code' = Head(rx).code /\ inreply' = ~Head(rx).last
        /\ pc' \in {"rlast", "it.next", "close"}
    BY <1>2 DEF RNextReply, RNextCloses, Abandon, Call, Goto, ctl
  <2>2. Head(rx).last \in BOOLEAN
    BY <2>1, HeadOfRx DEF TypeOK, Lines
  <2> QED BY <1>2, <2>1, <2>2 DEF Judged
<1>3. CASE SendWrites
  <2>1. pc' \in Sent
    BY <1>1, <1>3, ReturnAt, Sender DEF SendWrites
  <2> QED BY <2>1 DEF Judged, Sent
<1>4. CASE SendFails \/ Close
  <2>1. (Plain /\ pc # "idle" /\ pc = "send.opened") \/ (pc = "close" /\ Plain)
    BY <1>4, PlainThere DEF SendFails, Close
  <2>2. ASSUME Return("fail") PROVE ~Judged'
    <3>1. Top >= 2 /\ pc' = At(Top - 1) /\ res' = "fail"
      BY <1>1, <2>1, <2>2, ReturnAt
    <3>2. pc' \notin Readers
      BY <1>1, <2>1, <3>1, PlainReaders
    <3> QED BY <3>1, <3>2 DEF Judged, Readers
  <2> QED BY <1>4, <2>2 DEF Judged, SendFails, Close, CbDisc, EvDisc, NoHandler, Jump, Goto, Call
<1>5. CASE OpenConnects
  BY <1>5 DEF OpenConnects, Call, Judged
<1>6. CASE ~LineSteps /\ ~OpenConnects
  <2>1. UNCHANGED <<line, code, inreply>>
    BY <1>6, LineUse
  <2>2. CASE UNCHANGED ctl
    BY <2>1, <2>2 DEF ctl, Judged
  <2>3. ASSUME NEW p, Jumps(p), Goto(p) PROVE FALSE
    BY <1>6, <2>3 DEF Jumps, Goto, Judged, LineSteps
  <2>4. ASSUME NEW f, NEW c, NEW k \in Places, Calls(f, c, k), Call(f, c, k) PROVE FALSE
    BY <1>6, <2>1, <2>4 DEF Calls, Call, Judged, LineSteps, CodeInv, CodeCtl, CodeKnown, Sent
  <2>5. ASSUME NEW r, Returns(r), Return(r) PROVE Judged
    <3>1. Top >= 2 /\ pc' = At(Top - 1) /\ res' = r
      BY <1>1, <2>5, NotIdle, ReturnAt
    <3>2. pc' = "rlast" => inreply
      BY <1>1, <3>1, ReaderBelow DEF Readers
    <3>3. pc \in Callees(At(Top - 1))
      <4>1. Top - 1 \in 1 .. Len(stk) /\ (Top - 1) + 1 = Top
        BY <1>1, <3>1 DEF Top
      <4> QED BY <1>1, <4>1 DEF CtlInv, CallGraph
    <3>4. pc' \in {"cmd.code", "open.hello"} /\ r = "ok"
      BY <2>1, <3>1, <3>2 DEF Judged
    <3> QED BY <2>5, <3>1, <3>3, <3>4 DEF Returns, Callees, InLast, InClose, Readers, Sent, Judged
  <2> QED BY <2>1, <2>2, <2>3, <2>4, <2>5, NextMoves DEF ControlMoves
<1> QED BY <1>2, <1>3, <1>4, <1>5, <1>6 DEF LineSteps
\* How a login command succeeds.
LEMMA LoginReturns ==
  ASSUME TypeOK, ReplyInv, CtlInv, LineInv, [Next]_vars, NEW k \in {"open.user", "open.pass"},
         pc' = k, res' = "ok", ~(pc = k /\ res = "ok")
  PROVE  /\ Judged /\ code \in Codes2 \cup Codes3
         /\ line = (IF k = "open.user" THEN "user" ELSE "pass")
         /\ pc = "cmd.code" /\ Top >= 2 /\ At(Top - 1) = k
<1>1. CtlOK /\ Top \in Nat /\ Top >= 1 /\ At(Top) = pc /\ ArgAt(Top) = arg
  BY TopNat DEF TypeOK
<1>2. PICK r : Returns(r) /\ Return(r)
  BY NextMoves DEF ControlMoves, Goto, Call, ctl
<1>3. Top >= 2 /\ pc' = At(Top - 1) /\ res' = r
  BY <1>1, <1>2, NotIdle, ReturnAt
<1>4. pc \in Callees(k) /\ Passes(k, ArgAt(Top - 1), pc, arg)
  <2>1. Top - 1 \in 1 .. Len(stk) /\ (Top - 1) + 1 = Top
    BY <1>1, <1>3 DEF Top
  <2> QED BY <1>1, <1>3, <2>1 DEF CtlInv, CallGraph, ArgUp
<1>5. pc = "cmd.code" /\ res = "ok" /\ code \in Codes2 \cup Codes3
  BY <1>2, <1>3, <1>4 DEF Returns, Callees, InCmd, Sent, Readers
<1> QED BY <1>3, <1>4, <1>5 DEF LineInv, Judged, Passes

LEMMA PassStep ==
  TypeOK /\ ReplyInv /\ DownEmpty /\ CodeInv /\ CtlInv /\ LineInv /\ PassInv /\ ~Rogue /\ [Next]_vars
  => PassInv'
<1> SUFFICES ASSUME TypeOK, ReplyInv, DownEmpty, CodeInv, CtlInv, LineInv, PassInv, ~Rogue,
                    [Next]_vars, guest'
             PROVE  PassInv'
  BY DEF PassInv
<1>1. CASE OpenConnects
  <2>1. rx' = <<>> /\ net' = <<>> /\ inreply' /\ pc' = "rlast"
    BY <1>1 DEF OpenConnects, Connect, AlreadyOpen, DownEmpty, Call
  <2>2. Len(Coming') = 0
    BY <2>1, EmptySeq DEF Coming
  <2> QED BY <2>1, <2>2 DEF PassInv, Judged
<1>2. CASE ~OpenConnects
  <2>1. guest
    BY <1>2, GuestUse
  <2>2. ASSUME NEW i \in 1 .. Len(Coming'), IsFinal(i)', Coming'[i].to = "pass"
        PROVE  Coming'[i].code \in Codes5
    <3>1. Coming'[i].last
      BY <2>2 DEF IsFinal
    <3>2. ASSUME NEW h \in 1 .. Len(Coming), Coming'[i] = Coming[h] PROVE Coming'[i].code \in Codes5
      <4>1. IsFinal(h)
        BY <2>2, <3>1, <3>2 DEF IsFinal, IsReply, Replies, Commands
      <4> QED BY <2>1, <2>2, <3>2, <4>1 DEF PassInv
    <3>3. ASSUME NEW l \in Lines, Answers(l), Coming'[i] = l PROVE Coming'[i].code \in Codes5
      BY <2>2, <3>1, <3>3 DEF Answers
    <3> QED BY <2>2, <3>2, <3>3, ComingUse
  <2>3. ASSUME Judged', line' = "pass" PROVE code' \in Codes5
    <3>1. CASE Judged /\ UNCHANGED <<line, code>>
      BY <2>1, <2>3, <3>1 DEF PassInv
    <3>2. CASE RNextReply /\ line' = Head(rx).to /\ code' = Head(rx).code /\ Head(rx).last
      <4>1. 1 \in 1 .. Len(Coming) /\ Coming[1] = Head(rx)
        BY <3>2, ComingHead DEF RNextReply
      <4>2. IsFinal(1)
        BY <2>3, <3>2, <4>1 DEF IsFinal, IsReply, Replies, Commands
      <4> QED BY <2>1, <2>3, <3>2, <4>1, <4>2 DEF PassInv
    <3> QED BY <2>3, <3>1, <3>2, JudgedUse
  <2>4. ASSUME pc' = "open.pass", res' = "ok" PROVE FALSE
    <3>1. pc # "open.pass" \/ res # "ok"
      BY <2>1 DEF PassInv
    <3>2. Judged /\ code \in Codes2 \cup Codes3 /\ line = "pass"
      BY <2>4, <3>1, LoginReturns
    <3> QED BY <2>1, <3>2, CodesAssumption DEF PassInv
  <2> QED BY <2>2, <2>3, <2>4 DEF PassInv
<1> QED BY <1>1, <1>2

LoginInv == GuestInv /\ PassInv

(***************************************************************************)
(* LoginComesFirst: as long as the server waits for the login, no command  *)
(* of the program is sent, and none of the handlers' either: what the      *)
(* server has been sent is the login.                                      *)
(***************************************************************************)
THEOREM LoginIsFirst ==
  ASSUME ~Rogue
  PROVE  Spec => []LoginComesFirst
<1>1. Init => WireInv /\ AnswerInv /\ LoginInv
  BY WireInit, AnswerInit DEF Init, LoginInv, GuestInv, PassInv
<1>2. WireInv /\ AnswerInv /\ LoginInv /\ [Next]_vars => (WireInv /\ AnswerInv /\ LoginInv)'
  BY WireStep, AnswerStep, GuestStep, PassStep DEF WireInv, AnswerInv, LoginInv
<1>3. LoginInv => LoginComesFirst
  BY DEF LoginInv, GuestInv, LoginComesFirst
<1> QED BY <1>1, <1>2, <1>3, PTL DEF Spec

(***************************************************************************)
(* One handshake.  Above it there is its own login and nothing else: the   *)
(* handlers of a broadcast do not run there, and a lost connection unwinds *)
(* it before anybody reconnects.                                           *)
(***************************************************************************)
Asks == InCmd \cup {"send", "send.opened", "open"}
InShake(j) ==
  \/ At(j) \in {"rlast", "close"} /\ j = Top
  \/ At(j) \in Asks /\ ArgAt(j) \in Login
OneShake ==
  \A h \in 1 .. Top : At(h) \in Handshake => \A j \in h + 1 .. Top : InShake(j)

Shaking == \E h \in 1 .. Top : At(h) \in Handshake
Unwinds ==
  \/ pc = "open.clean1"
  \/ res = "fail" /\ pc \in {"cmd.sent", "cmd.code", "open.hello", "open.user", "open.pass"}

\* What the program was told, while it shakes hands and after.
ToldInv ==
  /\ Shaking \/ ~Up => status = "offline" /\ ~slider
  /\ client = "ir" => ~slider
  /\ Up /\ status = "offline" => Shaking
ShakeInv == client # "cli" => OneShake /\ (Shaking /\ ~Up => Unwinds) /\ ToldInv

(***************************************************************************)
(* No broadcast comes before the reply the handshake waits for, as long as *)
(* the server broadcasts to nobody who has not logged in.                  *)
(***************************************************************************)
IsBcast(i) == Coming[i].to = "bcast"
BcastInv ==
  /\ guest \/ owed = <<"hello">> => \A i \in 1 .. Len(Coming) : ~IsBcast(i)
  /\ client # "cli" /\ Shaking /\ inreply /\ pc # "close" =>
       \A i \in 1 .. Len(Coming) : IsBcast(i) => \E j \in 1 .. i - 1 : IsFinal(j)
StillGuest ==
  client # "cli" /\ Up /\ pc # "close" => \A h \in 1 .. Top :
    /\ At(h) = "open.hello" /\ WithUser => guest
    /\ At(h) = "open.user" => guest
    /\ /\ At(h) = "open.pass"
       /\ owed # <<>> \/ (~inreply /\ pc \notin {"rlast", "cmd.code", "open.pass"})
       => guest

(***************************************************************************)
(* A refusal is a cause to hang up, and a handshake on an open connection  *)
(* fails for nothing else.                                                 *)
(***************************************************************************)
RefusalInv ==
  /\ \A i \in 1 .. Len(Coming) : Refusal(Coming[i].to, Coming[i].code) => cause
  /\ Judged /\ Refusal(line, code) => cause
FailInv ==
  client # "cli" /\ Shaking /\ Up =>
    /\ pc \in {"cmd.sent", "cmd.code", "open.hello", "send.opened"} => res = "ok"
    /\ pc \in {"open.user", "open.pass"} => res = "ok" \/ cause
    /\ pc = "open.clean1" => cause

\* What a step tells the program, and where the slider can move.
ProgKept ==
  /\ status' = status \/ (OpenEvent /\ status' = "online")
  /\ Up' = Up /\ (cause => cause' \/ UserCloses)
  /\ slider' => slider \/ (client = "gtk" /\ (RNextBroadcast \/ PollBroadcast))

LEMMA ProgUse ==
  ASSUME TypeOK, [Next]_vars
  PROVE  client' = client /\ (OpenConnects \/ Close \/ OpenClean \/ ProgKept)
<1>1. cause \in BOOLEAN /\ slider \in BOOLEAN
  BY DEF TypeOK, WireOK, ProgOK
<1>2. CASE Server \/ UNCHANGED vars
  <2>1. UNCHANGED prog /\ Up' = Up
    BY <1>2 DEF Server, ServerAnswers, ServerBroadcasts, ServerGarbles, ServerHangsUp, Up, vars, wire
  <2>2. cause => cause'
    BY <1>1, <1>2, Zenon
       DEF Server, ServerAnswers, ServerBroadcasts, ServerGarbles, ServerHangsUp, vars, wire
  <2> QED BY <2>1, <2>2 DEF ProgKept, prog
<1>3. CASE User
  BY <1>3 DEF User, UserOpens, UserCommands, UserPolls, UserCloses, ProgKept, Up, wire, prog
<1>4. CASE OpenConnects \/ Close \/ OpenClean \/ OpenEvent
  BY <1>4 DEF OpenConnects, Close, OpenClean, OpenEvent, ProgKept, Up, prog, wire
<1>5. CASE OpenAlready \/ OpenUnreachable \/ OpenGreeted \/ OpenUser \/ OpenPass
           \/ ConnTrack \/ ConnDone \/ ReturnFail \/ Send \/ SendGivesUp \/ SendWrites \/ SendFails
           \/ Cmd \/ CmdSent \/ CmdCode \/ It \/ ItSent \/ ItList \/ RNextDone \/ RNextRecv
  BY <1>5 DEF OpenAlready, OpenUnreachable, OpenGreeted, OpenUser, OpenPass, ConnTrack, ConnDone,
     ReturnFail, Send, SendGivesUp, SendWrites, SendFails, Cmd, CmdSent, CmdCode, It, ItSent,
     ItList, RNextDone, RNextRecv, ProgKept, Up, prog, wire
<1>6. CASE RNextLost \/ RNextShort \/ RNextReply \/ Poll \/ PollRecv \/ PollLost \/ PollDone
           \/ PollShort \/ PollUnprocessed
  BY <1>6 DEF RNextLost, RNextShort, RNextReply, Poll, PollRecv, PollLost, PollDone, PollShort,
     PollUnprocessed, ProgKept, Up, prog, wire
<1>7. CASE ConnList
  BY <1>1, <1>7 DEF ConnList, ProgKept, Up, wire
<1>8. CASE RNextBroadcast \/ PollBroadcast
  BY <1>8 DEF RNextBroadcast, PollBroadcast, Dispatch, EvPlayer, Jump, ProgKept, Up, wire
<1> QED BY <1>2, <1>3, <1>4, <1>5, <1>6, <1>7, <1>8 DEF Next, Library

\* A handshake begins with a connection.
LEMMA ShakeFrom ==
  ASSUME TypeOK, [Next]_vars, ~OpenConnects, NEW h \in 1 .. Top', At(h)' \in Handshake
  PROVE  h \in 1 .. Top /\ At(h) \in Handshake
<1>1. CtlOK /\ Top \in Nat /\ Top >= 1 /\ At(Top) = pc /\ ArgAt(Top) = arg
  BY TopNat DEF TypeOK
<1>2. ASSUME UNCHANGED ctl PROVE h \in 1 .. Top /\ At(h) \in Handshake
  BY <1>2, StayAt
<1>3. ASSUME NEW p, Jumps(p), Goto(p) PROVE h \in 1 .. Top /\ At(h) \in Handshake
  <2>1. Top' = Top /\ (\A i \in 1 .. Top - 1 : At(i)' = At(i)) /\ \A i : i = Top => At(i)' = p
    BY <1>1, <1>3, GotoAt
  <2>2. p \in Handshake => pc \in Handshake
    BY <1>3 DEF Jumps, Handshake
  <2> QED BY <1>1, <2>1, <2>2
<1>4. ASSUME NEW f, NEW c, NEW k \in Places, Calls(f, c, k), Call(f, c, k)
      PROVE  h \in 1 .. Top /\ At(h) \in Handshake
  <2>1. /\ Top' = Top + 1 /\ \A i \in 1 .. Top - 1 : At(i)' = At(i)
        /\ \A i : i = Top => At(i)' = k
        /\ \A i : i = Top + 1 => At(i)' = f
    BY <1>1, <1>4, CallAt
  <2>2. f \notin Handshake /\ (k \in Handshake => pc \in Handshake)
    BY <1>4 DEF Calls, Handshake, Readers
  <2> QED BY <1>1, <2>1, <2>2
<1>5. ASSUME NEW r, Returns(r), Return(r) PROVE h \in 1 .. Top /\ At(h) \in Handshake
  BY <1>1, <1>5, NotIdle, ReturnAt
<1> QED BY <1>2, <1>3, <1>4, <1>5, NextMoves DEF ControlMoves

\* The places that a handshake does not have above it.
LEMMA ShakesHere ==
  ASSUME TypeOK, OneShake, Shaking
  PROVE  pc \in Handshake \cup Asks \cup {"rlast", "close"}
<1>1. Top \in Nat /\ Top >= 1 /\ At(Top) = pc
  BY TopNat DEF TypeOK
<1>2. PICK h \in 1 .. Top : At(h) \in Handshake
  BY DEF Shaking
<1>3. h = Top \/ InShake(Top)
  BY <1>1, <1>2 DEF OneShake
<1> QED BY <1>1, <1>2, <1>3 DEF InShake

LEMMA OneShakeStep ==
  ASSUME TypeOK, client # "cli", OneShake, Shaking => ~slider, Shaking /\ ~Up => Unwinds, [Next]_vars
  PROVE  OneShake'
<1>1. CtlOK /\ Top \in Nat /\ Top >= 1 /\ At(Top) = pc /\ ArgAt(Top) = arg
  BY TopNat DEF TypeOK
<1> SUFFICES ASSUME NEW h \in 1 .. Top', At(h)' \in Handshake, NEW j \in h + 1 .. Top'
             PROVE  InShake(j)'
  BY DEF OneShake
<1>2. CASE OpenConnects
  <2>1. pc = "open" /\ ~Up /\ Call("rlast", arg, "open.hello")
    BY <1>2 DEF OpenConnects, AlreadyOpen
  <2>2. ~Shaking
    BY <2>1 DEF Unwinds
  <2>3. /\ Top' = Top + 1 /\ \A i \in 1 .. Top - 1 : At(i)' = At(i)
        /\ \A i : i = Top + 1 => At(i)' = "rlast"
    BY <1>1, <2>1, CallAt, PlaceNames DEF Handshake
  <2>4. h = Top
    BY <1>1, <2>2, <2>3 DEF Shaking, Handshake
  <2> QED BY <1>1, <2>3, <2>4 DEF InShake
<1>3. CASE ~OpenConnects
  <2>1. h \in 1 .. Top /\ At(h) \in Handshake /\ Shaking /\ ~slider
    BY <1>3, ShakeFrom DEF Shaking
  <2>2. \A i \in h + 1 .. Top : InShake(i)
    BY <2>1 DEF OneShake
  <2>3. \A i \in h + 1 .. Top - 1 : At(i) \in Asks /\ ArgAt(i) \in Login
    BY <1>1, <2>2 DEF InShake
  <2>4. ASSUME UNCHANGED ctl PROVE InShake(j)'
    BY <2>2, <2>4, StayAt DEF InShake
  <2>5. ASSUME NEW p, Jumps(p), Goto(p) PROVE InShake(j)'
    <3>1. /\ Top' = Top /\ (\A i \in 1 .. Top - 1 : At(i)' = At(i))
          /\ \A i \in 1 .. Top : ArgAt(i)' = ArgAt(i)
          /\ \A i : i = Top => At(i)' = p
      BY <1>1, <2>5, GotoAt
    <3>2. CASE j < Top
      BY <1>1, <2>1, <2>3, <3>1, <3>2 DEF InShake
    <3>3. CASE j = Top
      <4>1. InShake(Top)
        BY <2>2, <3>3
      <4>2. p = "close"
        BY <1>1, <2>5, <4>1 DEF InShake, Asks, InCmd, Jumps
      <4> QED BY <3>1, <3>3, <4>2 DEF InShake
    <3> QED BY <1>1, <3>1, <3>2, <3>3
  <2>6. ASSUME NEW f, NEW c, NEW k \in Places, Calls(f, c, k), Call(f, c, k) PROVE InShake(j)'
    <3>1. /\ Top' = Top + 1 /\ (\A i \in 1 .. Top - 1 : At(i)' = At(i))
          /\ \A i \in 1 .. Top : ArgAt(i)' = ArgAt(i)
          /\ \A i : i = Top => At(i)' = k
          /\ \A i : i = Top + 1 => At(i)' = f /\ ArgAt(i)' = c
      BY <1>1, <2>6, CallAt
    <3>2. CASE j < Top
      BY <1>1, <2>1, <2>3, <3>1, <3>2 DEF InShake
    <3>3. CASE j = Top
      <4>1. InShake(Top)
        BY <2>2, <3>3
      <4>2. k \in Asks /\ arg \in Login
        BY <1>1, <1>3, <2>1, <2>6, <4>1 DEF InShake, Asks, InCmd, Calls, Readers
      <4> QED BY <1>1, <3>1, <3>3, <4>2 DEF InShake
    <3>4. CASE j = Top + 1
      <4>1. h < Top => InShake(Top)
        BY <1>1, <2>1, <2>2
      <4>2. h < Top => f = "rlast" \/ (f \in Asks /\ c \in Login)
        BY <1>1, <1>3, <2>1, <2>6, <4>1 DEF InShake, Asks, InCmd, Calls, Readers
      <4>3. h = Top => f = "rlast" \/ (f \in Asks /\ c \in Login)
        <5>1. h = Top => k \in Handshake /\ pc \in Handshake
          BY <1>1, <2>1, <3>1
        <5>2. k \in Handshake /\ pc \in Handshake => f = "rlast" \/ (f \in Asks /\ c \in Login)
          BY <2>6 DEF Handshake, Asks, InCmd, Calls, Login, Readers
        <5> QED BY <5>1, <5>2
      <4> QED BY <1>1, <2>1, <3>1, <3>4, <4>2, <4>3 DEF InShake
    <3> QED BY <1>1, <3>1, <3>2, <3>3, <3>4
  <2>7. ASSUME NEW r, Returns(r), Return(r) PROVE InShake(j)'
    BY <1>1, <2>1, <2>3, <2>7, NotIdle, ReturnAt DEF InShake
  <2> QED BY <2>4, <2>5, <2>6, <2>7, NextMoves DEF ControlMoves
<1> QED BY <1>2, <1>3

\* Who called the functions that run above a handshake.
LEMMA ShakeFrame ==
  ASSUME TypeOK, CtlInv, OneShake, NEW h \in 1 .. Top, At(h) \in Handshake, NEW j \in h .. Top - 1
  PROVE  /\ At(j) \in {"open.hello", "open.user", "open.pass", "cmd.sent", "cmd.code", "send.opened"}
         /\ At(j + 1) \in Callees(At(j)) /\ Passes(At(j), ArgAt(j), At(j + 1), ArgAt(j + 1))
         /\ At(j) \in Handshake => h = j
         /\ InShake(j + 1)
<1>1. CtlOK /\ Top \in Nat /\ Top >= 1
  BY TopNat DEF TypeOK
<1>2. At(j + 1) \in Callees(At(j)) /\ Passes(At(j), ArgAt(j), At(j + 1), ArgAt(j + 1))
  BY <1>1 DEF Top, CtlInv, CallGraph, ArgUp
<1>3. InShake(j + 1) /\ (h = j \/ At(j) \in Asks)
  <2>1. InShake(j + 1) /\ (h # j => InShake(j))
    BY <1>1 DEF OneShake
  <2> QED BY <1>1, <2>1 DEF InShake
<1>4. At(j) \in Handshake \cup Asks
  BY <1>3
<1>5. At(j) \in {"open.hello", "open.user", "open.pass", "cmd.sent", "cmd.code", "send.opened"}
  BY <1>2, <1>4 DEF Handshake, Asks, InCmd, Callees, Sent, Readers
<1>6. At(j) \in Asks => At(j) \notin Handshake
  BY DEF Asks, InCmd, Handshake
<1> QED BY <1>2, <1>3, <1>5, <1>6

LEMMA ShakeCaller ==
  ASSUME TypeOK, CtlInv, OneShake, NEW h \in 1 .. Top - 1, At(h) \in Handshake
  PROVE  /\ At(Top - 1) \in {"open.hello", "open.user", "open.pass", "cmd.sent", "cmd.code", "send.opened"}
         /\ pc \in Callees(At(Top - 1)) /\ Passes(At(Top - 1), ArgAt(Top - 1), pc, arg)
         /\ At(Top - 1) \in Handshake => h = Top - 1
         /\ InShake(Top)
<1>1. CtlOK /\ Top \in Nat /\ Top >= 1 /\ At(Top) = pc /\ ArgAt(Top) = arg
  BY TopNat DEF TypeOK
<1>2. h \in 1 .. Top /\ Top - 1 \in h .. Top - 1 /\ (Top - 1) + 1 = Top
  BY <1>1
<1> QED BY <1>1, <1>2, ShakeFrame

\* A handshake that loses its connection fails all the way down.
LEMMA LostStep ==
  ASSUME TypeOK, ReplyInv, CtlInv, client # "cli", OneShake, Shaking => ~slider,
         Shaking /\ ~Up => Unwinds, [Next]_vars, Shaking', ~Up'
  PROVE  Unwinds'
<1>1. CtlOK /\ Top \in Nat /\ Top >= 1 /\ At(Top) = pc /\ ArgAt(Top) = arg
  BY TopNat DEF TypeOK
<1>2. ~OpenConnects
  BY DEF OpenConnects, Connect, Up
<1>3. PICK h \in 1 .. Top' : At(h)' \in Handshake
  BY DEF Shaking
<1>4. h \in 1 .. Top /\ At(h) \in Handshake /\ Shaking /\ ~slider
  BY <1>2, <1>3, ShakeFrom DEF Shaking
<1>5. ASSUME NEW r, pc # "idle", Return(r)
      PROVE  /\ pc' = At(Top - 1) /\ res' = r /\ h \in 1 .. Top - 1 /\ InShake(Top)
             /\ pc' \in {"open.hello", "open.user", "open.pass", "cmd.sent", "cmd.code", "send.opened"}
             /\ pc \in Callees(pc')
  <2>1. Top >= 2 /\ Top' = Top - 1 /\ res' = r /\ pc' = At(Top - 1)
    BY <1>1, <1>5, ReturnAt
  <2> QED BY <1>1, <1>3, <1>4, <2>1, ShakeCaller
<1>6. ~OpenClean
  <2>1. ASSUME OpenClean PROVE FALSE
    <3>1. pc = "open.clean1" /\ Return("fail")
      BY <2>1 DEF OpenClean
    <3>2. InShake(Top)
      BY <1>5, <3>1
    <3> QED BY <1>1, <3>1, <3>2 DEF InShake, Asks, InCmd
  <2> QED BY <2>1
<1>7. CASE Up
  <2>1. Close
    BY <1>2, <1>6, <1>7, ProgUse DEF ProgKept
  <2>2. pc = "close" /\ Return("fail")
    BY <1>4, <2>1 DEF Close, CbDisc, EvDisc, NoHandler, Jump
  <2>3. pc' \in {"open.hello", "cmd.sent", "cmd.code"}
    BY <1>5, <2>2 DEF Callees, InOpen, InCmd, Handshake, Sent, Readers
  <2> QED BY <1>5, <2>2, <2>3 DEF Unwinds
<1>8. CASE ~Up
  <2>1. Unwinds /\ pc # "idle"
    BY <1>4, <1>8 DEF Unwinds
  <2>2. ASSUME UNCHANGED ctl PROVE Unwinds'
    BY <2>1, <2>2 DEF ctl, Unwinds
  <2>3. ASSUME NEW p, Jumps(p), Goto(p) PROVE Unwinds'
    <3>1. p = "open.clean1"
      BY <2>1, <2>3 DEF Unwinds, Jumps, Greeted
    <3> QED BY <2>3, <3>1 DEF Goto, Unwinds
  <2>4. ASSUME NEW f, NEW c, NEW k \in Places, Calls(f, c, k), Call(f, c, k) PROVE Unwinds'
    BY <2>1, <2>4 DEF Unwinds, Calls, Greeted, Readers
  <2>5. ASSUME NEW r, Returns(r), Return(r) PROVE Unwinds'
    <3>1. pc \in {"cmd.sent", "cmd.code"} /\ r = "fail"
      BY <1>6, <2>1, <2>5 DEF Unwinds, Returns, Readers, Sent
    <3>2. pc' \in {"open.user", "open.pass"}
      BY <1>5, <2>1, <2>5, <3>1 DEF Callees, InOpen, InClose, InSend, InLast, Handshake, Sent, Readers
    <3> QED BY <1>5, <2>1, <2>5, <3>1, <3>2 DEF Unwinds
  <2> QED BY <2>2, <2>3, <2>4, <2>5, NextMoves DEF ControlMoves
<1> QED BY <1>7, <1>8

\* No broadcast is at hand while shaking hands.
LEMMA NoneHeard ==
  ASSUME TypeOK, ReplyInv, DownEmpty, BcastInv, OneShake, client # "cli",
         Shaking \/ ~Up, RNextBroadcast \/ PollBroadcast
  PROVE  FALSE
<1>1. rx # <<>> /\ Head(rx).to = "bcast" /\ Up
  BY DEF RNextBroadcast, PollBroadcast, IsBroadcast, DownEmpty
<1>2. pc \in Readers /\ inreply
  BY <1>1, ShakesHere DEF RNextBroadcast, PollBroadcast, Handshake, Asks, InCmd
<1>3. 1 \in 1 .. Len(Coming) /\ Coming[1] = Head(rx)
  BY <1>1, ComingHead
<1>4. \E j \in 1 .. 1 - 1 : IsFinal(j)
  BY <1>1, <1>2, <1>3 DEF BcastInv, IsBcast, Readers
<1> QED BY <1>4

LEMMA ToldStep ==
  ASSUME TypeOK, ReplyInv, DownEmpty, CtlInv, BcastInv, client # "cli", OneShake,
         Shaking /\ ~Up => Unwinds, ToldInv, [Next]_vars
  PROVE  ToldInv'
<1>1. CtlOK /\ Top \in Nat /\ Top >= 1 /\ At(Top) = pc /\ client \in Clients /\ client' = client
      /\ status \in {"offline", "online"}
  BY TopNat, ProgUse, ConfigAssumption DEF TypeOK, ProgOK
<1>2. CASE OpenConnects
  <2>1. ~Up /\ Up' /\ UNCHANGED prog /\ pc = "open" /\ Call("rlast", arg, "open.hello")
    BY <1>2 DEF OpenConnects, AlreadyOpen, Connect, Up
  <2>2. \A i : i = Top => i \in 1 .. Top' /\ At(i)' = "open.hello"
    BY <1>1, <2>1, CallAt, PlaceNames DEF Handshake
  <2>3. Shaking'
    BY <1>1, <2>2 DEF Shaking, Handshake
  <2> QED BY <2>1, <2>3 DEF ToldInv, prog
<1>3. CASE Close
  <2>1. status' = "offline" /\ ~Up' /\ (client = "gtk" => ~slider') /\ (client = "ir" => slider' = slider)
    BY <1>1, <1>3 DEF Close, DisconnectEvent, Disconnect, CbDisc, EvDisc, NoHandler, Jump, Up
  <2> QED BY <1>1, <2>1 DEF ToldInv, Clients
<1>4. CASE OpenClean
  <2>1. Shaking /\ ~Up' /\ UNCHANGED prog
    BY <1>1, <1>4 DEF OpenClean, Disconnect, Up, Shaking, Handshake
  <2> QED BY <2>1 DEF ToldInv, prog
<1>5. CASE ProgKept /\ ~OpenConnects
  <2>1. Shaking' => Shaking
    BY <1>5, ShakeFrom DEF Shaking
  <2>2. Shaking \/ ~Up => ~slider'
    BY <1>5, NoneHeard DEF ProgKept, ToldInv
  <2>3. client = "ir" => ~slider'
    BY <1>5 DEF ProgKept, ToldInv
  <2>4. CASE status' = status
    <3>1. Up /\ status = "offline" => Shaking'
      <4> SUFFICES ASSUME Up, status = "offline" PROVE Shaking'
        OBVIOUS
      <4>1. PICK h \in 1 .. Top : At(h) \in Handshake
        BY DEF ToldInv, Shaking
      <4>2. ASSUME UNCHANGED ctl PROVE Shaking'
        BY <4>1, <4>2, StayAt DEF Shaking
      <4>3. ASSUME NEW p, Jumps(p), Goto(p) PROVE Shaking'
        <5>1. /\ Top' = Top /\ (\A i \in 1 .. Top - 1 : At(i)' = At(i))
              /\ \A i : i = Top => At(i)' = p
          BY <1>1, <4>3, GotoAt
        <5>2. pc \in Handshake => p \in Handshake
          BY <4>3 DEF Jumps, Handshake, Readers
        <5> QED BY <1>1, <4>1, <5>1, <5>2 DEF Shaking
      <4>4. ASSUME NEW f, NEW c, NEW k \in Places, Calls(f, c, k), Call(f, c, k) PROVE Shaking'
        <5>1. /\ Top' = Top + 1 /\ (\A i \in 1 .. Top - 1 : At(i)' = At(i))
              /\ \A i : i = Top => At(i)' = k
          BY <1>1, <4>4, CallAt
        <5>2. ~OpenEvent
          BY <2>4 DEF OpenEvent
        <5>3. pc \in Handshake => k \in Handshake
          BY <4>4, <5>2 DEF Calls, Handshake, Readers
        <5> QED BY <1>1, <4>1, <5>1, <5>3 DEF Shaking
      <4>5. ASSUME NEW r, Returns(r), Return(r) PROVE Shaking'
        <5>1. Top >= 2 /\ Top' = Top - 1 /\ \A i \in 1 .. Top - 1 : At(i)' = At(i)
          BY <1>1, <4>5, NotIdle, ReturnAt
        <5>2. ~OpenEvent /\ ~OpenClean
          BY <1>5, <2>4 DEF ProgKept, OpenEvent, OpenClean, Disconnect, Up
        <5>3. pc \notin Handshake
          BY <4>5, <5>2 DEF Returns, Handshake, Readers, Sent
        <5> QED BY <1>1, <4>1, <5>1, <5>3 DEF Shaking
      <4> QED BY <4>2, <4>3, <4>4, <4>5, NextMoves DEF ControlMoves
    <3> QED BY <1>1, <1>5, <2>1, <2>2, <2>3, <2>4, <3>1 DEF ToldInv, ProgKept
  <2>5. CASE OpenEvent /\ status' = "online"
    <3>1. pc = "open.event" /\ Shaking
      BY <1>1, <2>5 DEF OpenEvent, Shaking, Handshake
    <3>2. Up
      BY <3>1 DEF Unwinds
    <3>3. ~Shaking'
      <4> SUFFICES ASSUME NEW h \in 1 .. Top', At(h)' \in Handshake PROVE FALSE
        BY DEF Shaking
      <4>1. h \in 1 .. Top /\ At(h) \in Handshake
        BY <1>5, ShakeFrom
      <4>2. h = Top
        BY <1>1, <3>1, <4>1 DEF OneShake, InShake, Asks, InCmd
      <4>3. ASSUME Return("ok") PROVE FALSE
        BY <1>1, <3>1, <4>2, <4>3, ReturnAt
      <4>4. ASSUME Call("cmd", "cmd", "conn.track") PROVE FALSE
        BY <1>1, <4>2, <4>4, CallAt, PlaceNames DEF Handshake
      <4> QED BY <2>5, <4>3, <4>4 DEF OpenEvent, EvConn
    <3> QED BY <1>1, <1>5, <2>2, <2>3, <2>5, <3>1, <3>2, <3>3 DEF ToldInv, ProgKept
  <2> QED BY <1>5, <2>4, <2>5 DEF ProgKept
<1> QED BY <1>2, <1>3, <1>4, <1>5, ProgUse

LEMMA ShakeStep ==
  TypeOK /\ ReplyInv /\ DownEmpty /\ CtlInv /\ BcastInv /\ ShakeInv /\ [Next]_vars => ShakeInv'
<1> SUFFICES ASSUME TypeOK, ReplyInv, DownEmpty, CtlInv, BcastInv, ShakeInv, [Next]_vars, client' # "cli"
             PROVE  (OneShake /\ (Shaking /\ ~Up => Unwinds) /\ ToldInv)'
  BY DEF ShakeInv
<1>1. client # "cli" /\ OneShake /\ (Shaking /\ ~Up => Unwinds) /\ ToldInv /\ (Shaking => ~slider)
  BY ProgUse DEF ShakeInv, ToldInv
<1> QED BY <1>1, OneShakeStep, LostStep, ToldStep

(***************************************************************************)
(* What a handshake waits for.                                             *)
(***************************************************************************)
Awaited(p) ==
  CASE p = "open.hello" -> {"hello", "alien"}
    [] p = "open.user" -> {"user"}
    [] p = "open.pass" -> {"pass"}
    [] OTHER -> {}

\* Two calls above a command of the login.
LEMMA ShakeLogin ==
  ASSUME TypeOK, CtlInv, OneShake, NEW h \in 1 .. Top - 1, At(h) \in Handshake,
         At(Top - 1) \in {"cmd.sent", "cmd.code"}
  PROVE  /\ h = Top - 2 /\ At(h) \in {"open.user", "open.pass"}
         /\ ArgAt(Top - 1) \in Awaited(At(h))
<1>1. CtlOK /\ Top \in Nat /\ Top >= 1
  BY TopNat DEF TypeOK
<1>2. h # Top - 1
  BY DEF Handshake
<1>3. h \in 1 .. Top /\ Top - 2 \in h .. Top - 1 /\ (Top - 2) + 1 = Top - 1
  BY <1>1, <1>2
<1>4. /\ At(Top - 2) \in {"open.hello", "open.user", "open.pass", "cmd.sent", "cmd.code", "send.opened"}
      /\ At(Top - 1) \in Callees(At(Top - 2))
      /\ Passes(At(Top - 2), ArgAt(Top - 2), At(Top - 1), ArgAt(Top - 1))
      /\ At(Top - 2) \in Handshake => h = Top - 2
  BY <1>3, ShakeFrame
<1>5. At(Top - 2) \in {"open.user", "open.pass"}
  BY <1>4 DEF Callees, InOpen, InLast, InSend, InClose, Handshake, Sent, Readers
<1> QED BY <1>4, <1>5 DEF Handshake, Passes, Awaited

LEMMA ShakeReads ==
  ASSUME TypeOK, ReplyInv, CtlInv, OneShake, inreply, pc # "close",
         NEW h \in 1 .. Top, At(h) \in Handshake
  PROVE  h \in 1 .. Top - 1 /\ (pc = "rlast" \/ (pc = "cmd.sent" /\ res = "ok"))
<1>1. CtlOK /\ Top \in Nat /\ Top >= 1 /\ At(Top) = pc /\ ArgAt(Top) = arg
  BY TopNat DEF TypeOK
<1>2. pc \in Readers \cup Sent \cup {"cmd", "send"}
  BY CalmMeans DEF Calm
<1>3. h \in 1 .. Top - 1
  BY <1>1, <1>2 DEF Handshake, Readers, Sent
<1>4. /\ At(Top - 1) \in {"open.hello", "open.user", "open.pass", "cmd.sent", "cmd.code", "send.opened"}
      /\ pc \in Callees(At(Top - 1)) /\ Passes(At(Top - 1), ArgAt(Top - 1), pc, arg)
      /\ At(Top - 1) \in Handshake => h = Top - 1
      /\ InShake(Top)
  BY <1>3, ShakeCaller
<1>5. \A i \in 1 .. Top - 1 : At(i) \notin Readers
  <2> SUFFICES ASSUME \E i \in 1 .. Top - 1 : At(i) \in Readers, pc = "send",
                      At(Top - 1) = "cmd.sent", At(Top - 2) \in Readers
               PROVE  FALSE
    <3>1. Top - 1 = Len(stk)
      BY <1>1 DEF Top
    <3>2. Plain \/ At(Top - 1) \in Readers
          \/ (pc = "send" /\ At(Top - 1) = "cmd.sent" /\ At(Top - 2) \in Readers)
      BY <1>1, <3>1 DEF ReplyInv, Handling, Refusing, At
    <3> QED BY <1>4, <3>2, PlainReaders DEF Readers
  <2>1. h = Top - 2 /\ At(h) \in {"open.user", "open.pass"}
    BY <1>3, ShakeLogin
  <2> QED BY <2>1 DEF Readers
<1>6. Plain
  <2>1. Top - 1 = Len(stk)
    BY <1>1 DEF Top
  <2>2. ~Handling
    BY <1>1, <1>4, <2>1 DEF Handling, At, Readers
  <2>3. ~Refusing
    BY <1>1, <1>5, <2>1 DEF Refusing, At
  <2> QED BY <2>2, <2>3 DEF ReplyInv
<1>7. pc = "rlast" \/ (pc = "cmd.sent" /\ res = "ok")
  BY <1>1, <1>4, <1>6 DEF Plain, Expecting, InShake, Asks, InCmd, Readers, Sent
<1> QED BY <1>3, <1>7

LEMMA ShakeAwaits ==
  ASSUME TypeOK, ReplyInv, CtlInv, OursInv, OneShake, inreply, pc # "close",
         NEW h \in 1 .. Top, At(h) \in Handshake
  PROVE  /\ At(h) \in {"open.hello", "open.user", "open.pass"}
         /\ \A i \in 1 .. Len(owed) : owed[i] \in Awaited(At(h))
<1>1. CtlOK /\ Top \in Nat /\ Top >= 1 /\ At(Top) = pc /\ ArgAt(Top) = arg
  BY TopNat DEF TypeOK
<1>2. h \in 1 .. Top - 1 /\ (pc = "rlast" \/ (pc = "cmd.sent" /\ res = "ok"))
  BY ShakeReads
<1>3. /\ At(Top - 1) \in {"open.hello", "open.user", "open.pass", "cmd.sent", "cmd.code", "send.opened"}
      /\ pc \in Callees(At(Top - 1)) /\ Passes(At(Top - 1), ArgAt(Top - 1), pc, arg)
      /\ At(Top - 1) \in Handshake => h = Top - 1
  BY <1>2, ShakeCaller
<1>4. \A i \in 1 .. Len(owed) : owed[i] \in Expected(Top)
  <2>1. Waiting(Top)
    BY <1>1, <1>2 DEF Waiting, Readers, Sent
  <2> QED BY <1>1, <2>1 DEF OursInv
<1>5. CASE pc = "cmd.sent"
  <2>1. At(Top - 1) \in {"open.user", "open.pass"} /\ h = Top - 1
    BY <1>3, <1>5 DEF Callees, InOpen, InLast, InSend, InClose, Handshake, Sent, Readers
  <2>2. Expected(Top) = {arg}
    BY <1>1, <1>5 DEF Expected
  <2> QED BY <1>3, <1>4, <2>1, <2>2 DEF Passes, Awaited
<1>6. CASE pc = "rlast" /\ At(Top - 1) = "open.hello"
  <2>1. h = Top - 1 /\ Expected(Top) = {"hello", "alien"}
    BY <1>1, <1>2, <1>3, <1>6 DEF Expected, Handshake
  <2> QED BY <1>4, <1>6, <2>1 DEF Awaited
<1>7. CASE pc = "rlast" /\ At(Top - 1) # "open.hello"
  <2>1. At(Top - 1) = "cmd.code"
    BY <1>3, <1>7 DEF Callees, InOpen, InCmd, InSend, InClose, Handshake, Sent, Readers
  <2>2. Expected(Top) = {ArgAt(Top - 1)}
    BY <1>1, <1>3, <1>7, <2>1 DEF Expected, Passes
  <2>3. At(h) \in {"open.user", "open.pass"} /\ ArgAt(Top - 1) \in Awaited(At(h))
    BY <1>2, <2>1, ShakeLogin
  <2> QED BY <1>4, <2>2, <2>3
<1> QED BY <1>2, <1>5, <1>6, <1>7

\* What is sent during a handshake is sent for its login.
LEMMA ShakeSends ==
  ASSUME TypeOK, ReplyInv, CtlInv, OneShake, pc = "send.opened", NEW h \in 1 .. Top, At(h) \in Handshake
  PROVE  At(h) \in {"open.user", "open.pass"} /\ ~inreply
<1>1. CtlOK /\ Top \in Nat /\ Top >= 1 /\ At(Top) = pc
  BY TopNat DEF TypeOK
<1>2. h \in 1 .. Top - 1
  BY <1>1 DEF Handshake
<1>3. At(Top - 1) \in Sent
  BY Sender
<1>4. At(Top - 1) = "cmd.sent"
  BY <1>2, <1>3, ShakeCaller DEF Sent
<1> QED BY <1>2, <1>4, ShakeLogin, CalmMeans DEF Calm, Readers, Sent

\* A broadcast needs a guest no more, and none is asked for before the greeting.
LEMMA BcastFirst ==
  ASSUME TypeOK, ReplyInv, DownEmpty, DueInv, BcastInv, ~Rogue, ~GuestHears, [Next]_vars,
         guest' \/ owed' = <<"hello">>, NEW i \in 1 .. Len(Coming')
  PROVE  ~IsBcast(i)'
<1>1. CASE OpenConnects
  <2>1. rx' = <<>> /\ net' = <<>>
    BY <1>1 DEF OpenConnects, Connect, AlreadyOpen, DownEmpty
  <2>2. Len(Coming') = 0
    BY <2>1, EmptySeq DEF Coming
  <2> QED BY <2>2
<1>2. CASE ~OpenConnects
  <2>1. owed \in Seq({"hello"} \cup Commands) /\ arg \in Args
    BY DEF TypeOK, WireOK, CtlOK
  <2>2. guest \/ owed = <<"hello">>
    <3>1. guest' => guest
      BY <1>2, GuestUse
    <3>2. owed' = <<"hello">> => owed = <<"hello">>
      <4>1. CASE SendWrites /\ ~inreply
        <5>1. pc \in CommandPlaces /\ owed = <<>>
          BY <4>1 DEF SendWrites, CommandPlaces, DueInv, NothingDue
        <5>2. arg # "hello"
          BY <5>1 DEF TypeOK, CtlOK, Commands
        <5>3. owed' = <<>> \/ owed' = Append(owed, arg)
          BY <4>1, <5>1 DEF SendWrites
        <5> QED BY <5>1, <5>2, <5>3
      <4>2. ASSUME NEW l \in Lines, Answers(l) PROVE owed' = owed \/ owed' = <<>>
        <5>1. Len(owed) = 1
          BY <4>2 DEF Answers, DueInv, NothingDue
        <5>2. Tail(owed) \in Seq({"hello"} \cup Commands) /\ Len(Tail(owed)) = 0
          BY <2>1, <4>2, <5>1, HeadTailProperties DEF Answers
        <5> QED BY <4>2, <5>2, EmptySeq DEF Answers
      <4> QED BY <1>2, <4>1, <4>2, OwedUse
    <3> QED BY <3>1, <3>2
  <2>3. \A h \in 1 .. Len(Coming) : ~IsBcast(h)
    BY <2>2 DEF BcastInv
  <2>4. ASSUME NEW l \in Lines, Answers(l) PROVE l.to # "bcast"
    <3>1. Head(owed) \in {"hello"} \cup Commands
      BY <2>1, <2>4, HeadTailProperties DEF Answers
    <3> QED BY <2>4, <3>1 DEF Answers, Commands
  <2>5. ~ServerBroadcasts
    BY <2>2 DEF ServerBroadcasts
  <2> QED BY <2>3, <2>4, <2>5, ComingUse DEF IsBcast
<1> QED BY <1>1, <1>2

\* Ahead(i): the last line of a reply comes before line i.
Ahead(i) == \E j \in 1 .. i - 1 : IsFinal(j)

LEMMA BcastServer ==
  ASSUME TypeOK, ReplyInv, CtlInv, DueInv, OursInv, OneShake, BcastInv, StillGuest,
         ~Rogue, ~GuestHears, Server, client # "cli", Shaking, inreply, pc # "close",
         NEW i \in 1 .. Len(Coming'), IsBcast(i)'
  PROVE  Ahead(i)'
<1>1. Len(Coming) \in Nat /\ owed \in Seq({"hello"} \cup Commands)
  BY ComingLines DEF TypeOK, WireOK
<1>2. \A h \in 1 .. Len(Coming) : IsBcast(h) => Ahead(h)
  BY DEF BcastInv, Ahead
<1>3. ASSUME i <= Len(Coming), \A h \in 1 .. i : Coming'[h] = Coming[h]
      PROVE  Ahead(i)'
  <2>1. i \in 1 .. Len(Coming) /\ IsBcast(i)
    BY <1>1, <1>3 DEF IsBcast
  <2>2. PICK j \in 1 .. i - 1 : IsFinal(j)
    BY <1>2, <2>1 DEF Ahead
  <2>3. IsFinal(j)'
    BY <1>1, <1>3, <2>2 DEF IsFinal, IsReply
  <2> QED BY <2>3 DEF Ahead
<1>4. ASSUME NEW l \in Lines, Answers(l) PROVE Ahead(i)'
  <2>1. /\ Len(Coming') = Len(Coming) + 1 /\ Coming'[Len(Coming) + 1] = l
        /\ \A h \in 1 .. Len(Coming) : Coming'[h] = Coming[h]
    BY <1>4, ComingAdd DEF Answers, sess
  <2>2. l.to # "bcast"
    <3>1. Head(owed) \in {"hello"} \cup Commands
      BY <1>1, <1>4, HeadTailProperties DEF Answers
    <3> QED BY <1>4, <3>1 DEF Answers, Commands
  <2> QED BY <1>1, <1>3, <2>1, <2>2 DEF IsBcast
<1>5. ASSUME ServerBroadcasts PROVE Ahead(i)'
  <2> DEFINE l == [to |-> "bcast", code |-> "none", last |-> TRUE]
  <2>1. l \in Lines /\ rx' = rx /\ net' = Append(net, l)
    BY <1>5 DEF Lines, LineKinds, ServerBroadcasts, sess
  <2> HIDE DEF l
  <2>2. /\ Len(Coming') = Len(Coming) + 1
        /\ \A h \in 1 .. Len(Coming) : Coming'[h] = Coming[h]
    BY <2>1, ComingAdd
  <2>3. CASE i <= Len(Coming)
    BY <1>1, <1>3, <2>2, <2>3
  <2>4. CASE i = Len(Coming) + 1
    <3>1. owed = <<>>
      <4>1. PICK h \in 1 .. Top : At(h) \in Handshake
        BY DEF Shaking
      <4>2. /\ At(h) \in {"open.hello", "open.user", "open.pass"}
            /\ \A j \in 1 .. Len(owed) : owed[j] \in Awaited(At(h))
        BY <4>1, ShakeAwaits
      <4>3. link = "live" /\ owed # <<"hello">> /\ ~guest /\ Up
        BY <1>5 DEF ServerBroadcasts, Up
      <4>4. At(h) = "open.hello" \/ owed = <<>>
        BY <4>2, <4>3 DEF StillGuest
      <4>5. CASE At(h) = "open.hello" /\ Len(owed) = 1
        <5>1. owed[1] = "hello"
          <6>1. 1 \in 1 .. Len(owed) /\ owed[1] \in {"hello"} \cup Commands
            BY <1>1, <4>5
          <6>2. owed[1] \in {"hello", "alien"}
            BY <4>2, <4>5, <6>1 DEF Awaited
          <6> QED BY <6>1, <6>2 DEF Commands
        <5>2. owed = <<"hello">>
          BY <1>1, <4>5, <5>1, SeqEqual
        <5> QED BY <4>3, <5>2
      <4> QED BY <4>4, <4>5 DEF DueInv
    <3>2. PICK j \in 1 .. Len(Coming) : IsFinal(j)
      BY <1>5, <3>1 DEF DueInv, ServerBroadcasts
    <3>3. IsFinal(j)' /\ j \in 1 .. i - 1
      BY <1>1, <2>2, <2>4, <3>2 DEF IsFinal, IsReply
    <3> QED BY <3>3 DEF Ahead
  <2> QED BY <1>1, <2>2, <2>3, <2>4
<1>6. ASSUME ServerHangsUp PROVE Ahead(i)'
  <2>1. PICK n \in 0 .. Len(net) : net' = SubSeq(net, 1, n)
    BY <1>6 DEF ServerHangsUp
  <2>2. rx' = rx
    BY <1>6 DEF ServerHangsUp, sess
  <2>3. /\ Len(Coming') \in Nat /\ Len(Coming') <= Len(Coming)
        /\ \A h \in 1 .. Len(Coming') : Coming'[h] = Coming[h]
    BY <2>1, <2>2, ComingCut
  <2> QED BY <1>1, <1>3, <2>3
<1> QED BY <1>4, <1>5, <1>6, ServerPlays

LEMMA BcastAhead ==
  ASSUME TypeOK, ReplyInv, CtlInv, DueInv, OursInv, OneShake, BcastInv, StillGuest,
         ~Rogue, ~GuestHears, [Next]_vars, ~OpenConnects,
         client # "cli", Shaking, inreply', pc' # "close",
         NEW i \in 1 .. Len(Coming'), IsBcast(i)'
  PROVE  Ahead(i)'
<1>1. Len(Coming) \in Nat
  BY ComingLines
<1>2. inreply /\ pc # "close" => \A h \in 1 .. Len(Coming) : IsBcast(h) => Ahead(h)
  BY DEF BcastInv, Ahead
<1>3. ASSUME Coming' = Coming, inreply, pc # "close" PROVE Ahead(i)'
  BY <1>2, <1>3 DEF Ahead, IsBcast, IsFinal, IsReply
<1>4. CASE Server
  BY <1>4, BcastServer DEF Server, ServerAnswers, ServerBroadcasts, ServerGarbles, ServerHangsUp, sess, ctl
<1>5. CASE UNCHANGED vars
  BY <1>3, <1>5 DEF vars, wire, sess, ctl, Coming
<1>6. CASE User \/ Library
  <2>1. CASE pc # "close" /\ UNCHANGED <<link, owed, net, rx, inreply>>
    BY <1>3, <2>1 DEF Coming
  <2>2. CASE pc # "close" /\ RecvReads /\ UNCHANGED <<link, owed, inreply>>
    BY <1>3, <2>2, ComingRecv
  <2>3. CASE Close \/ (OpenClean /\ ~inreply)
    BY <2>3 DEF Close, OpenClean, ForgetReply
  <2>4. CASE SendWrites /\ ~inreply
    <3>1. PICK h \in 1 .. Top : At(h) \in Handshake
      BY DEF Shaking
    <3>2. pc = "send.opened" /\ Up /\ Coming' = Coming
      BY <2>4 DEF SendWrites, Coming
    <3>3. At(h) \in {"open.user", "open.pass"}
      BY <3>1, <3>2, ShakeSends
    <3>4. guest
      BY <2>4, <3>2, <3>3 DEF StillGuest
    <3> QED BY <3>2, <3>4 DEF BcastInv, IsBcast
  <2>5. CASE DropsOther \/ RNextReply
    <3>1. /\ rx # <<>> /\ rx' = Tail(rx) /\ net' = net /\ inreply /\ pc # "close"
          /\ Head(rx).to \notin Replies \/ ~Head(rx).last
      <4>1. ASSUME DropsOther PROVE inreply /\ Head(rx).to \notin Replies
        BY <4>1 DEF DropsOther
      <4>2. ASSUME RNextReply PROVE ~Head(rx).last
        <5>1. ~RNextCloses
          BY DEF RNextCloses, Goto, Call
        <5> QED BY <4>2, <5>1 DEF RNextReply
      <4> QED BY <2>5, <4>1, <4>2 DEF DropsOther, RNextReply, wire, Readers
    <3>2. /\ Coming[1] = Head(rx) /\ Len(Coming') = Len(Coming) - 1
          /\ \A h \in 1 .. Len(Coming') :
               /\ h + 1 \in 1 .. Len(Coming) /\ Coming'[h] = Coming[h + 1]
               /\ (IsFinal(h)' <=> IsFinal(h + 1))
      BY <3>1, MovedUp
    <3>3. ~IsFinal(1)
      BY <3>1, <3>2 DEF IsFinal, IsReply
    <3>4. i + 1 \in 1 .. Len(Coming) /\ IsBcast(i + 1)
      BY <3>2 DEF IsBcast
    <3>5. PICK j \in 1 .. (i + 1) - 1 : IsFinal(j)
      BY <1>2, <3>1, <3>4 DEF Ahead
    <3>6. j # 1 /\ j - 1 \in 1 .. i - 1 /\ (j - 1) + 1 = j /\ j - 1 \in 1 .. Len(Coming')
      BY <1>1, <3>2, <3>3, <3>5
    <3>7. IsFinal((j - 1) + 1)
      BY <3>5, <3>6
    <3>8. IsFinal(j - 1)'
      BY <3>2, <3>6, <3>7
    <3> QED BY <3>6, <3>8 DEF Ahead
  <2> QED BY <1>6, <2>1, <2>2, <2>3, <2>4, <2>5, ReplyUse
<1> QED BY <1>4, <1>5, <1>6 DEF Next

LEMMA BcastStep ==
  TypeOK /\ ReplyInv /\ DownEmpty /\ CtlInv /\ DueInv /\ OursInv /\ ShakeInv /\ BcastInv /\ StillGuest
  /\ ~Rogue /\ ~GuestHears /\ [Next]_vars => BcastInv'
<1> SUFFICES ASSUME TypeOK, ReplyInv, DownEmpty, CtlInv, DueInv, OursInv, ShakeInv, BcastInv, StillGuest,
                    ~Rogue, ~GuestHears, [Next]_vars
             PROVE  BcastInv'
  OBVIOUS
<1>1. (guest \/ owed = <<"hello">>)' => \A i \in 1 .. Len(Coming') : ~IsBcast(i)'
  BY BcastFirst
<1>2. ASSUME client' # "cli", Shaking', inreply', pc' # "close", NEW i \in 1 .. Len(Coming'), IsBcast(i)'
      PROVE  \E j \in 1 .. i - 1 : IsFinal(j)'
  <2>1. CASE OpenConnects
    <3>1. rx' = <<>> /\ net' = <<>>
      BY <2>1 DEF OpenConnects, Connect, AlreadyOpen, DownEmpty
    <3>2. Len(Coming') = 0
      BY <3>1, EmptySeq DEF Coming
    <3> QED BY <1>2, <3>2
  <2>2. CASE ~OpenConnects
    <3>1. client # "cli" /\ Shaking /\ OneShake
      BY <1>2, <2>2, ProgUse, ShakeFrom DEF Shaking, ShakeInv
    <3> QED BY <1>2, <2>2, <3>1, BcastAhead DEF Ahead
  <2> QED BY <2>1, <2>2
<1> QED BY <1>1, <1>2 DEF BcastInv

\* How a handshake goes on.
LEMMA ShakeGoes ==
  ASSUME TypeOK, [Next]_vars, ~OpenConnects, NEW h \in 1 .. Top', At(h)' \in Handshake
  PROVE  \/ At(h)' = At(h)
         \/ h = Top /\ pc = "open.hello" /\ At(h)' = "open.user" /\ WithUser /\ ~Server
         \/ h = Top /\ pc = "open.user" /\ At(h)' = "open.pass" /\ ~Server
         \/ At(h)' \in {"open.event", "open.clean1"}
<1>1. CtlOK /\ Top \in Nat /\ Top >= 1 /\ At(Top) = pc
  BY TopNat DEF TypeOK
<1>2. CASE UNCHANGED ctl
  BY <1>2, StayAt
<1>3. ASSUME NEW p, Jumps(p), Goto(p) PROVE At(h)' = At(h) \/ At(h)' \in {"open.event", "open.clean1"}
  <2>1. Top' = Top /\ (\A i \in 1 .. Top - 1 : At(i)' = At(i)) /\ \A i : i = Top => At(i)' = p
    BY <1>1, <1>3, GotoAt
  <2>2. p \in Handshake => p \in {"open.event", "open.clean1"}
    BY <1>3 DEF Jumps, Handshake
  <2> QED BY <1>1, <2>1, <2>2
<1>4. ASSUME NEW f, NEW c, NEW k \in Places, Calls(f, c, k), Call(f, c, k)
      PROVE  \/ At(h)' = At(h)
             \/ h = Top /\ pc = "open.hello" /\ At(h)' = "open.user" /\ WithUser
             \/ h = Top /\ pc = "open.user" /\ At(h)' = "open.pass"
  <2>1. /\ Top' = Top + 1 /\ \A i \in 1 .. Top - 1 : At(i)' = At(i)
        /\ \A i : i = Top => At(i)' = k
        /\ \A i : i = Top + 1 => At(i)' = f
    BY <1>1, <1>4, CallAt
  <2>2. f \notin Handshake /\ (k \in Handshake => \/ pc = "open.hello" /\ k = "open.user" /\ WithUser
                                                  \/ pc = "open.user" /\ k = "open.pass")
    BY <1>4 DEF Calls, Handshake, Readers
  <2> QED BY <1>1, <2>1, <2>2
<1>5. ASSUME NEW r, Returns(r), Return(r) PROVE At(h)' = At(h)
  BY <1>1, <1>5, NotIdle, ReturnAt
<1>6. Server => UNCHANGED ctl
  BY DEF Server, ServerAnswers, ServerBroadcasts, ServerGarbles, ServerHangsUp
<1> QED BY <1>2, <1>3, <1>4, <1>5, <1>6, NextMoves DEF ControlMoves

\* The server forgets that we have not logged in when it has let us in.
LEMMA GuestKept ==
  ASSUME TypeOK, ReplyInv, ~Rogue, [Next]_vars, Up, Up', guest
  PROVE  guest' \/ \E l \in Lines : Answers(l) /\ l.to = "pass" /\ l.last
<1>1. ~OpenConnects /\ ~Close /\ ~OpenClean
  BY DEF OpenConnects, AlreadyOpen, Close, OpenClean, Disconnect, Up
<1>2. CASE Server
  <2>1. ASSUME NEW l \in Lines, Answers(l) PROVE guest' \/ (l.to = "pass" /\ l.last)
    BY <2>1 DEF Answers
  <2> QED BY <1>2, <2>1, ServerPlays DEF ServerBroadcasts, ServerHangsUp
<1>3. CASE UNCHANGED vars
  BY <1>3 DEF vars, wire
<1>4. CASE User \/ Library
  BY <1>1, <1>4, ReplyUse DEF SendWrites, DropsOther, RNextReply, wire
<1> QED BY <1>2, <1>3, <1>4 DEF Next

\* While "pass" is sent and its reply awaited.
Passing == owed # <<>> \/ (~inreply /\ pc \notin {"rlast", "cmd.code", "open.pass"})

LEMMA PassingFrom ==
  ASSUME TypeOK, ReplyInv, CtlInv, DueInv, OneShake, ~Rogue, [Next]_vars, ~OpenConnects, Up', pc # "close",
         NEW h \in 1 .. Top, h \in 1 .. Top', At(h) = "open.pass", At(h)' = "open.pass", Passing'
  PROVE  Passing
<1>1. CtlOK /\ Top \in Nat /\ Top >= 1 /\ At(Top) = pc
  BY TopNat DEF TypeOK
<1>2. At(h) \in Handshake /\ Shaking
  BY DEF Handshake, Shaking
<1>3. CASE owed' # <<>>
  <2>1. SendWrites /\ ~inreply => Passing
    BY DEF SendWrites, Passing
  <2>2. (\E l \in Lines : Answers(l)) => Passing
    BY DEF Answers, Passing
  <2> QED BY <1>3, <2>1, <2>2, OwedUse DEF Passing
<1>4. CASE ~inreply' /\ pc' \notin {"rlast", "cmd.code", "open.pass"}
  <2>1. ~Close /\ ~OpenClean
    BY DEF Close, OpenClean, Disconnect, Up
  <2>2. ~inreply
    <3>1. CASE Server \/ UNCHANGED vars
      BY <1>4, <3>1 DEF Server, ServerAnswers, ServerBroadcasts, ServerGarbles, ServerHangsUp,
         vars, sess
    <3>2. RNextReply => inreply' \/ pc' = "rlast"
      <4>1. pc \in {"rlast"} \/ pc \notin Readers
        BY <1>2, ShakesHere DEF Handshake, Asks, InCmd, Readers
      <4> QED BY <4>1 DEF RNextReply, RNextCloses, ctl
    <3>3. CASE User \/ Library
      BY <1>4, <2>1, <3>2, <3>3, ReplyUse DEF DropsOther
    <3> QED BY <3>1, <3>3 DEF Next
  <2>3. ASSUME pc \in {"rlast", "cmd.code", "open.pass"} PROVE FALSE
    <3>1. ~UNCHANGED ctl
      BY <1>4, <2>3 DEF ctl
    <3>2. ASSUME NEW p, Jumps(p), Goto(p) PROVE FALSE
      <4>1. pc = "open.pass" /\ p # "open.pass" /\ p # "rlast"
        BY <2>2, <2>3, <3>2 DEF Jumps
      <4>2. h = Top
        BY <1>1, <1>2, <4>1 DEF OneShake, InShake, Asks, InCmd
      <4>3. \A i : i = Top => At(i)' = p
        BY <1>1, <3>2, GotoAt
      <4> QED BY <4>1, <4>2, <4>3
    <3>3. ASSUME NEW f, NEW c, NEW k \in Places, Calls(f, c, k) PROVE FALSE
      BY <2>2, <2>3, <3>3 DEF Calls, Readers
    <3>4. ASSUME NEW r, Returns(r), Return(r) PROVE FALSE
      <4>1. pc \in {"rlast", "cmd.code"}
        BY <2>3, <3>4 DEF Returns, Readers, Sent
      <4>2. Top' = Top - 1 /\ pc' = At(Top - 1) /\ h \in 1 .. Top - 1
        BY <1>1, <3>4, NotIdle, ReturnAt
      <4>3. /\ At(Top - 1) \in {"open.hello", "open.user", "open.pass", "cmd.sent", "cmd.code", "send.opened"}
            /\ pc \in Callees(At(Top - 1)) /\ (At(Top - 1) \in Handshake => h = Top - 1)
        BY <1>2, <4>2, ShakeCaller
      <4>4. At(Top - 1) \in {"open.hello", "open.user"}
        BY <1>4, <4>1, <4>2, <4>3
           DEF Callees, InOpen, InLast, InSend, InClose, Handshake, Sent, Readers
      <4> QED BY <4>3, <4>4 DEF Handshake
    <3> QED BY <3>1, <3>2, <3>3, <3>4, NextMoves DEF ControlMoves
  <2> QED BY <2>2, <2>3 DEF Passing
<1> QED BY <1>3, <1>4 DEF Passing

LEMMA StillGuestStep ==
  TypeOK /\ ReplyInv /\ CtlInv /\ DueInv /\ OursInv /\ ShakeInv /\ StillGuest /\ ~Rogue /\ [Next]_vars
  => StillGuest'
<1> SUFFICES ASSUME TypeOK, ReplyInv, CtlInv, DueInv, OursInv, ShakeInv, StillGuest, ~Rogue, [Next]_vars,
                    client' # "cli", Up', pc' # "close", NEW h \in 1 .. Top'
             PROVE  /\ At(h)' = "open.hello" /\ WithUser => guest'
                    /\ At(h)' = "open.user" => guest'
                    /\ At(h)' = "open.pass" /\ Passing' => guest'
  BY DEF StillGuest, Passing
<1>1. CtlOK /\ Top \in Nat /\ Top >= 1 /\ At(Top) = pc
  BY TopNat DEF TypeOK
<1>2. client # "cli" /\ OneShake /\ (Shaking /\ ~Up => Unwinds)
  BY ProgUse DEF ShakeInv
<1>3. CASE OpenConnects
  <2>1. pc = "open" /\ ~Up /\ Call("rlast", arg, "open.hello") /\ guest' = WithUser
    BY <1>3 DEF OpenConnects, AlreadyOpen, Connect
  <2>2. ~Shaking
    BY <1>2, <2>1 DEF Unwinds
  <2>3. /\ Top' = Top + 1 /\ \A i \in 1 .. Top - 1 : At(i)' = At(i)
        /\ \A i : i = Top => At(i)' = "open.hello"
        /\ \A i : i = Top + 1 => At(i)' = "rlast"
    BY <1>1, <2>1, CallAt, PlaceNames DEF Handshake
  <2>4. \A i \in 1 .. Top - 1 : At(i) \notin Handshake
    BY <1>1, <2>2 DEF Shaking
  <2> QED BY <1>1, <2>1, <2>3, <2>4 DEF Handshake
<1>4. CASE ~OpenConnects /\ At(h)' \in {"open.hello", "open.user", "open.pass"}
  <2>1. h \in 1 .. Top /\ At(h) \in Handshake
    BY <1>4, ShakeFrom DEF Handshake
  <2>2. Up
    BY <1>4, ProgUse DEF ProgKept, Close, OpenClean, Disconnect, Up
  <2>3. pc # "close"
    <3>1. ~Close
      BY DEF Close, Disconnect, Up
    <3> QED BY <3>1, NextMoves DEF ControlMoves, Jumps, Calls, Returns, Readers, Sent, ctl
  <2>4. /\ At(h) = "open.hello" /\ WithUser => guest
        /\ At(h) = "open.user" => guest
        /\ At(h) = "open.pass" /\ Passing => guest
    BY <1>2, <2>1, <2>2, <2>3 DEF StillGuest, Passing
  <2>5. ASSUME guest, NEW l \in Lines, Answers(l), l.to = "pass", l.last
        PROVE  At(h)' = "open.pass" /\ ~Passing'
    <3>1. /\ UNCHANGED <<ctl, inreply>> /\ owed # <<>> /\ Head(owed) = "pass"
          /\ owed' = Tail(owed)
      BY <2>5 DEF Answers, sess
    <3>2. owed \in Seq({"hello"} \cup Commands) /\ Len(owed) = 1 /\ inreply
      BY <3>1 DEF TypeOK, WireOK, DueInv, NothingDue
    <3>3. owed[1] = "pass" /\ 1 \in 1 .. Len(owed)
      BY <3>1, <3>2, HeadTailProperties
    <3>4. owed' = <<>>
      <4>1. Tail(owed) \in Seq({"hello"} \cup Commands) /\ Len(Tail(owed)) = 0
        BY <3>1, <3>2, HeadTailProperties
      <4> QED BY <3>1, <4>1, EmptySeq
    <3>5. At(h) = "open.pass"
      <4>1. owed[1] \in Awaited(At(h))
        BY <1>2, <2>1, <2>3, <3>2, <3>3, ShakeAwaits
      <4> QED BY <3>3, <4>1 DEF Awaited
    <3>6. At(h)' = At(h)
      BY <3>1, StayAt
    <3> QED BY <3>1, <3>2, <3>4, <3>5, <3>6 DEF Passing
  <2>6. guest => guest' \/ (At(h)' = "open.pass" /\ ~Passing')
    BY <2>2, <2>5, GuestKept
  <2>7. CASE At(h)' = At(h)
    <3>1. At(h) = "open.pass" /\ Passing' => Passing
      BY <1>2, <1>4, <2>1, <2>3, <2>7, PassingFrom
    <3> QED BY <2>4, <2>6, <2>7, <3>1
  <2>8. CASE h = Top /\ pc = "open.hello" /\ At(h)' = "open.user" /\ WithUser
    BY <1>1, <2>4, <2>6, <2>8
  <2>9. CASE h = Top /\ pc = "open.user" /\ At(h)' = "open.pass"
    BY <1>1, <2>4, <2>6, <2>9
  <2> QED BY <1>4, <2>7, <2>8, <2>9, ShakeGoes DEF Handshake
<1> QED BY <1>3, <1>4

LEMMA RefusalStep ==
  TypeOK /\ ReplyInv /\ DownEmpty /\ CodeInv /\ CtlInv /\ RefusalInv /\ ~Rogue /\ [Next]_vars => RefusalInv'
<1> SUFFICES ASSUME TypeOK, ReplyInv, DownEmpty, CodeInv, CtlInv, RefusalInv, ~Rogue, [Next]_vars
             PROVE  RefusalInv'
  OBVIOUS
<1>1. OpenConnects \/ Close \/ OpenClean \/ ProgKept
  BY ProgUse
<1>2. ASSUME NEW i \in 1 .. Len(Coming'), Refusal(Coming'[i].to, Coming'[i].code) PROVE cause'
  <2>1. ~OpenConnects /\ ~Close /\ ~OpenClean
    <3>1. rx' = <<>> /\ net' = <<>> => FALSE
      <4>1. rx' = <<>> /\ net' = <<>> => Len(Coming') = 0
        BY EmptySeq DEF Coming
      <4> QED BY <1>2, <4>1
    <3> QED BY <3>1 DEF OpenConnects, Connect, AlreadyOpen, Close, OpenClean, Disconnect, DownEmpty
  <2>2. ASSUME NEW h \in 1 .. Len(Coming), Coming'[i] = Coming[h] PROVE cause'
    <3>1. cause
      BY <1>2, <2>2 DEF RefusalInv
    <3>2. Up
      <4>1. ~Up => Len(Coming) = 0
        BY ComingNone DEF DownEmpty
      <4> QED BY <2>2, <4>1
    <3> QED BY <1>1, <2>1, <3>1, <3>2 DEF ProgKept, UserCloses
  <2>3. ASSUME NEW l \in Lines, Answers(l), Coming'[i] = l PROVE cause'
    BY <1>2, <2>3 DEF Answers
  <2>4. Coming'[i].to # "bcast"
    BY <1>2 DEF Refusal
  <2> QED BY <1>2, <2>2, <2>3, <2>4, ComingUse
<1>3. ASSUME Judged', Refusal(line', code') PROVE cause'
  <2>1. CASE Judged /\ UNCHANGED <<line, code>>
    <3>1. cause
      BY <1>3, <2>1 DEF RefusalInv
    <3>2. ~OpenConnects /\ ~Close /\ ~OpenClean /\ ~UserCloses
      BY <2>1 DEF OpenConnects, Close, OpenClean, UserCloses, Judged
    <3> QED BY <1>1, <3>1, <3>2 DEF ProgKept
  <2>2. CASE RNextReply /\ line' = Head(rx).to /\ code' = Head(rx).code
    <3>1. 1 \in 1 .. Len(Coming) /\ Coming[1] = Head(rx)
      BY <2>2, ComingHead DEF RNextReply
    <3> QED BY <1>3, <2>2, <3>1 DEF RefusalInv, RNextReply, wire
  <2> QED BY <1>3, <2>1, <2>2, JudgedUse
<1> QED BY <1>2, <1>3 DEF RefusalInv

LEMMA FailReturns ==
  ASSUME TypeOK, ReplyInv, CodeInv, CtlInv, LineInv, OneShake, RefusalInv, FailInv, client # "cli",
         NEW h \in 1 .. Top - 1, At(h) \in Handshake, Up, ~Close,
         NEW r, Returns(r), Return(r)
  PROVE  r = "ok" \/ (pc' \in {"open.user", "open.pass"} /\ cause)
<1>1. CtlOK /\ Top \in Nat /\ Top >= 1 /\ At(Top) = pc /\ ArgAt(Top) = arg
  BY TopNat DEF TypeOK
<1>2. pc' = At(Top - 1)
  BY <1>1, NotIdle, ReturnAt
<1>3. /\ At(Top - 1) \in {"open.hello", "open.user", "open.pass", "cmd.sent", "cmd.code", "send.opened"}
      /\ pc \in Callees(At(Top - 1)) /\ InShake(Top)
  BY ShakeCaller
<1>4. pc \in Asks \cup {"rlast", "close"} /\ (pc \in Asks => arg \in Login)
  BY <1>1, <1>3 DEF InShake, Asks, InCmd
<1>5. Shaking
  BY <1>1 DEF Shaking
<1>6. pc # "send" \/ ~inreply
  BY <1>1, ShakeReads
<1>7. pc \in {"cmd.sent", "cmd.code", "send.opened"} => res = "ok"
  BY <1>5 DEF FailInv
<1>8. CASE pc = "cmd.code" /\ code \notin Codes2 \cup Codes3
  <2>1. pc' \in {"open.user", "open.pass"}
    BY <1>2, <1>3, <1>8 DEF Callees, InOpen, InLast, InSend, InClose, Handshake, Sent, Readers
  <2>2. line = arg /\ arg \in Login /\ code \in Codes5 /\ Judged
    BY <1>4, <1>7, <1>8 DEF LineInv, CodeInv, CodeCtl, CodeKnown, TypeOK, SessOK, Codes, Judged, Asks, InCmd
  <2>3. Refusal(line, code)
    BY <2>2 DEF Refusal, Login
  <2> QED BY <2>1, <2>2, <2>3 DEF RefusalInv
<1>9. CASE pc # "cmd.code" \/ code \in Codes2 \cup Codes3
  BY <1>4, <1>6, <1>7, <1>9 DEF Returns, Asks, InCmd, Login, Sent, Readers
<1> QED BY <1>8, <1>9

LEMMA FailStep ==
  TypeOK /\ ReplyInv /\ CodeInv /\ CtlInv /\ LineInv /\ ShakeInv /\ RefusalInv /\ FailInv /\ [Next]_vars
  => FailInv'
<1> SUFFICES ASSUME TypeOK, ReplyInv, CodeInv, CtlInv, LineInv, ShakeInv, RefusalInv, FailInv, [Next]_vars,
                    client' # "cli", Shaking', Up'
             PROVE  /\ pc' \in {"cmd.sent", "cmd.code", "open.hello", "send.opened"} => res' = "ok"
                    /\ pc' \in {"open.user", "open.pass"} => res' = "ok" \/ cause'
                    /\ pc' = "open.clean1" => cause'
  BY DEF FailInv
<1>1. CtlOK /\ Top \in Nat /\ Top >= 1 /\ At(Top) = pc /\ client # "cli" /\ OneShake
  BY TopNat, ProgUse DEF TypeOK, ShakeInv
<1>2. CASE OpenConnects
  BY <1>2 DEF OpenConnects, Call
<1>3. CASE ~OpenConnects
  <2>1. PICK h \in 1 .. Top' : At(h)' \in Handshake
    BY DEF Shaking
  <2>2. h \in 1 .. Top /\ At(h) \in Handshake /\ Shaking
    BY <1>3, <2>1, ShakeFrom DEF Shaking
  <2>3. Up /\ ~Close /\ (cause => cause')
    BY <1>1, <1>3, ProgUse DEF ProgKept, Close, OpenClean, Disconnect, UserCloses, Up
  <2>4. CASE UNCHANGED ctl
    BY <1>1, <2>2, <2>3, <2>4 DEF FailInv, ctl
  <2>5. ASSUME NEW p, Jumps(p), Goto(p) PROVE pc' = p /\ (p = "open.clean1" => cause')
                                             /\ p \notin {"cmd.sent", "cmd.code", "open.hello", "send.opened"}
                                             /\ p \notin {"open.user", "open.pass"}
    <3>1. pc' = p BY <2>5 DEF Goto
    <3>2. p = "open.clean1" => cause
      <4>1. CASE pc = "open.hello" /\ ~Greeted
        <5>1. res = "ok" /\ Judged /\ line \in {"hello", "alien"}
          BY <1>1, <2>2, <2>3, <4>1 DEF FailInv, LineInv, Judged
        <5>2. Refusal(line, code)
          BY <4>1, <5>1 DEF Greeted, Refusal
        <5> QED BY <5>1, <5>2 DEF RefusalInv
      <4>2. CASE pc \in {"open.user", "open.pass"} /\ res # "ok"
        BY <1>1, <2>2, <2>3, <4>2 DEF FailInv
      <4> QED BY <2>5, <4>1, <4>2 DEF Jumps
    <3> QED BY <2>3, <2>5, <3>1, <3>2 DEF Jumps
  <2>6. ASSUME NEW f, NEW c, NEW k \in Places, Calls(f, c, k), Call(f, c, k)
        PROVE  pc' \notin {"cmd.sent", "cmd.code", "open.hello", "send.opened", "open.user", "open.pass", "open.clean1"}
    BY <2>6 DEF Calls, Call
  <2>7. ASSUME NEW r, Returns(r), Return(r)
        PROVE  (res' = "ok" \/ (pc' \in {"open.user", "open.pass"} /\ cause)) /\ pc' # "open.clean1"
    <3>1. Top' = Top - 1 /\ res' = r /\ pc' = At(Top - 1) /\ h \in 1 .. Top - 1
      BY <1>1, <2>1, <2>2, <2>7, NotIdle, ReturnAt
    <3>2. At(Top - 1) # "open.clean1"
      BY <2>2, <3>1, ShakeCaller, <1>1
    <3> QED BY <1>1, <2>2, <2>3, <2>7, <3>1, <3>2, FailReturns
  <2> QED BY <2>3, <2>4, <2>5, <2>6, <2>7, NextMoves DEF ControlMoves
<1> QED BY <1>2, <1>3

QuietInv == ShakeInv /\ BcastInv /\ StillGuest
HangInv == RefusalInv /\ FailInv

LEMMA QuietInit == Init => QuietInv /\ HangInv
<1> SUFFICES ASSUME Init PROVE QuietInv /\ HangInv
  OBVIOUS
<1>1. Top = 1 /\ pc = "idle" /\ ~Up /\ ~guest /\ status = "offline" /\ ~slider /\ owed = <<>>
      /\ rx = <<>> /\ net = <<>> /\ stk = <<>>
  BY EmptySeq DEF Init, Top, Up
<1>2. \A j \in 1 .. Top : At(j) = "idle"
  BY <1>1, EmptySeq DEF At
<1>3. ~Shaking
  BY <1>2 DEF Shaking, Handshake
<1>4. OneShake
  BY <1>2 DEF OneShake, Handshake
<1>5. \A i \in 1 .. Len(Coming) : FALSE
  BY <1>1, ComingNone
<1>6. ToldInv
  BY <1>1, <1>3 DEF ToldInv
<1>7. BcastInv /\ StillGuest
  BY <1>1, <1>3, <1>5 DEF BcastInv, StillGuest
<1>8. RefusalInv /\ FailInv
  BY <1>1, <1>3, <1>5 DEF RefusalInv, FailInv, Judged
<1> QED BY <1>3, <1>4, <1>6, <1>7, <1>8 DEF QuietInv, HangInv, ShakeInv

LEMMA QuietKept ==
  WireInv /\ AnswerInv /\ QuietInv /\ ~Rogue /\ ~GuestHears /\ [Next]_vars => QuietInv'
BY ShakeStep, BcastStep, StillGuestStep DEF WireInv, AnswerInv, QuietInv

LEMMA HangStep ==
  WireInv /\ AnswerInv /\ QuietInv /\ HangInv /\ ~Rogue /\ [Next]_vars => HangInv'
BY RefusalStep, FailStep DEF WireInv, AnswerInv, QuietInv, HangInv

(***************************************************************************)
(* OneHandshake: irdudl and gtkdudlc never open a session from inside      *)
(* duc_open.  A connection lost in the handshake fails all the way down    *)
(* before anything reconnects, and no broadcast that could set the slider  *)
(* off is read there, because the server sends none to a guest.            *)
(***************************************************************************)
THEOREM HandshakesAlone ==
  ASSUME ~Rogue, ~GuestHears
  PROVE  Spec => []OneHandshake
<1>1. Init => WireInv /\ AnswerInv /\ QuietInv
  BY WireInit, AnswerInit, QuietInit
<1>2. WireInv /\ AnswerInv /\ QuietInv /\ [Next]_vars => (WireInv /\ AnswerInv /\ QuietInv)'
  BY WireStep, AnswerStep, QuietKept
<1>3. WireInv /\ QuietInv => OneHandshake
  <2> SUFFICES ASSUME WireInv, QuietInv, client # "cli", NEW i \in Handshakes, NEW j \in Handshakes
               PROVE  i = j
    BY DEF OneHandshake
  <2>1. Top \in Nat /\ OneShake
    BY TopNat DEF WireInv, TypeOK, QuietInv, ShakeInv
  <2>2. i \in 1 .. Top /\ j \in 1 .. Top /\ At(i) \in Handshake /\ At(j) \in Handshake
    BY DEF Handshakes, Top, At
  <2>3. \A k \in 1 .. Top : InShake(k) => At(k) \notin Handshake
    BY DEF InShake, Asks, InCmd, Handshake
  <2> QED BY <2>1, <2>2, <2>3 DEF OneShake
<1> QED BY <1>1, <1>2, <1>3, PTL DEF Spec

(***************************************************************************)
(* StatusTruth: back in the main loop of irdudl or gtkdudlc, the connect   *)
(* or disconnect event that was raised last describes the connection.      *)
(***************************************************************************)
THEOREM StatusIsTrue ==
  ASSUME ~Rogue, ~GuestHears
  PROVE  Spec => []StatusTruth
<1>1. Init => WireInv /\ AnswerInv /\ QuietInv
  BY WireInit, AnswerInit, QuietInit
<1>2. WireInv /\ AnswerInv /\ QuietInv /\ [Next]_vars => (WireInv /\ AnswerInv /\ QuietInv)'
  BY WireStep, AnswerStep, QuietKept
<1>3. WireInv /\ QuietInv => StatusTruth
  <2> SUFFICES ASSUME WireInv, QuietInv, client # "cli", pc = "idle" PROVE status = "online" <=> Up
    BY DEF StatusTruth
  <2>1. OneShake /\ ToldInv /\ TypeOK /\ status \in {"offline", "online"}
    BY DEF WireInv, TypeOK, ProgOK, QuietInv, ShakeInv
  <2>2. ~Shaking
    BY <2>1, ShakesHere DEF Handshake, Asks, InCmd
  <2> QED BY <2>1, <2>2 DEF ToldInv
<1> QED BY <1>1, <1>2, <1>3, PTL DEF Spec

(***************************************************************************)
(* CauselessHangupClears: irdudl and gtkdudlc give a connection up for a   *)
(* refusal or its end; without such a cause only in duc_close, which also  *)
(* clears the reply code that was left over, so that the next attempt is   *)
(* not given up for it again.                                              *)
(***************************************************************************)
THEOREM HangupClears ==
  ASSUME ~Rogue, ~GuestHears
  PROVE  Spec => CauselessHangupClears
<1> DEFINE Inv == WireInv /\ AnswerInv /\ QuietInv /\ HangInv
           Clears == client # "cli" /\ HangsUp /\ ~cause => code' = "none"
<1>1. Init => Inv
  BY WireInit, AnswerInit, QuietInit
<1>2. Inv /\ [Next]_vars => Inv'
  BY WireStep, AnswerStep, QuietKept, HangStep
<1>3. Inv /\ [Next]_vars => [Clears]_vars
  <2> SUFFICES ASSUME Inv, [Next]_vars, client # "cli", Up, ~Up', ~cause PROVE code' = "none"
    BY DEF HangsUp
  <2>1. Close \/ OpenClean
    BY ProgUse DEF ProgKept, OpenConnects, AlreadyOpen, WireInv
  <2>2. ~OpenClean
    <3>1. pc = "open.clean1" => Shaking
      BY TopNat DEF Shaking, Handshake, WireInv, TypeOK
    <3> QED BY <3>1 DEF OpenClean, HangInv, FailInv
  <2> QED BY <2>1, <2>2 DEF Close, ForgetReply
<1> QED BY <1>1, <1>2, <1>3, PTL DEF Spec, CauselessHangupClears
=============================================================================
