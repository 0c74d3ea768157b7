--------------------------- MODULE SessionProofs ---------------------------
(* What TLAPS proves of Session, for all reply codes, programs and bounds. *)
EXTENDS Session, SequenceTheorems, TLAPS

(***************************************************************************)
(* The three ways to go on keep the stack well formed.                     *)
(***************************************************************************)
LEMMA GotoOK ==
  ASSUME CtlOK, pc # "idle", NEW p \in Places \ {"idle"},
         p \in CommandPlaces => arg \in Commands, Goto(p)
  PROVE  CtlOK'
BY DEF CtlOK, Goto, Results

LEMMA CallOK ==
  ASSUME CtlOK, NEW f \in Places \ {"idle"}, NEW c \in Args, NEW k \in Places,
         (k = "idle") <=> (pc = "idle"),
         f \in CommandPlaces => c \in Commands,
         k \in CommandPlaces => arg \in Commands,
         Call(f, c, k)
  PROVE  CtlOK'
<1> DEFINE top == [at |-> k, cmd |-> arg]
<1>1. top \in Frames
  BY DEF CtlOK, Frames
<1>2. stk \in Seq(Frames) /\ stk' = Append(stk, top)
  BY DEF CtlOK, Call
<1>3. stk' \in Seq(Frames) /\ Len(stk') = Len(stk) + 1 /\ stk' # <<>>
  BY <1>1, <1>2
<1>4. \A i \in 1 .. Len(stk') :
        /\ (stk'[i].at = "idle") <=> (i = 1)
        /\ stk'[i].at \in CommandPlaces => stk'[i].cmd \in Commands
  <2> SUFFICES ASSUME NEW i \in 1 .. Len(stk')
               PROVE  /\ (stk'[i].at = "idle") <=> (i = 1)
                      /\ stk'[i].at \in CommandPlaces => stk'[i].cmd \in Commands
    OBVIOUS
  <2>1. CASE i = Len(stk) + 1
    BY <1>2, <2>1 DEF CtlOK
  <2>2. CASE i \in 1 .. Len(stk)
    BY <1>2, <2>2 DEF CtlOK
  <2> QED BY <1>2, <1>3, <2>1, <2>2
<1> QED BY <1>3, <1>4 DEF CtlOK, Call, Results

LEMMA ReturnOK ==
  ASSUME CtlOK, pc # "idle", NEW r \in Results, Return(r)
  PROVE  CtlOK'
<1> DEFINE n == Len(stk)
<1>1. stk \in Seq(Frames) /\ n \in Nat /\ n # 0
  BY DEF CtlOK
<1>2. n \in 1 .. Len(stk) /\ stk[n] \in Frames
  BY <1>1
<1>3. stk' = SubSeq(stk, 1, n - 1) /\ pc' = stk[n].at /\ arg' = stk[n].cmd /\ res' = r
  BY DEF Return
<1> HIDE DEF n
<1>4. /\ SubSeq(stk, 1, n - 1) \in Seq(Frames)
      /\ Len(SubSeq(stk, 1, n - 1)) = n - 1
      /\ \A i \in 1 .. n - 1 : SubSeq(stk, 1, n - 1)[i] = stk[i]
  <2>1. \A i \in 1 .. n - 1 : stk[i] \in Frames
    BY <1>1, <1>2
  <2>2. 1 \in Int /\ n - 1 \in Int
    BY <1>1
  <2> QED BY <1>1, <2>1, <2>2, SubSeqProperties
<1>5. (stk[n].at = "idle") <=> (n = 1)
  BY <1>2 DEF CtlOK
<1>6. /\ \A i \in 1 .. n - 1 :
           /\ (stk[i].at = "idle") <=> (i = 1)
           /\ stk[i].at \in CommandPlaces => stk[i].cmd \in Commands
      /\ stk[n].at \in CommandPlaces => stk[n].cmd \in Commands
  BY <1>1, <1>2 DEF CtlOK
<1>7. (stk' = <<>>) <=> (n = 1)
  <2>1. ASSUME n = 1 PROVE stk' = <<>>
    <3>1. n - 1 \in Int /\ 1 \in Int /\ n - 1 < 1
      BY <2>1
    <3> QED BY <1>3, <3>1, SubSeqEmpty
  <2>2. ASSUME stk' = <<>> PROVE n = 1
    <3>1. Len(stk') = 0
      BY <2>2, EmptySeq
    <3> QED BY <1>1, <1>3, <1>4, <3>1
  <2> QED BY <2>1, <2>2
<1> QED BY <1>1, <1>2, <1>3, <1>4, <1>5, <1>6, <1>7 DEF CtlOK, Frames

(***************************************************************************)
(* Parts of the state that a step leaves alone keep their types.           *)
(***************************************************************************)
LEMMA WireSame == WireOK /\ UNCHANGED wire => WireOK'
BY DEF WireOK, wire

LEMMA SessSame == SessOK /\ UNCHANGED sess => SessOK'
BY DEF SessOK, sess

LEMMA ProgSame == ProgOK /\ UNCHANGED prog => ProgOK'
BY DEF ProgOK, prog

LEMMA CtlSame == CtlOK /\ UNCHANGED ctl => CtlOK'
BY DEF CtlOK, ctl

\* The places the code calls and jumps to.
LEMMA PlaceNames ==
  /\ {"open", "close", "fail", "conn.track", "conn.list", "conn.done", "send",
      "send.opened", "cmd", "cmd.sent", "cmd.code", "it", "it.sent", "it.list",
      "poll", "poll.opened", "poll.drain"} \subseteq Places \ {"idle"}
  /\ Readers \subseteq Places \ {"idle"} /\ Handshake \subseteq Places \ {"idle"}
  /\ "idle" \in Places
  /\ Args = {"user", "pass", "cmd", "list", "none"}
  /\ Commands = {"user", "pass", "cmd", "list"}
  /\ CommandPlaces = {"send", "send.opened", "cmd", "cmd.sent", "cmd.code",
                      "it", "it.sent", "it.first", "it.next"}
  /\ Results = {"none", "ok", "fail", "partial"}
BY DEF Places, Readers, Handshake, Args, Commands, Results, CommandPlaces

(***************************************************************************)
(* The actions that only move control.                                     *)
(***************************************************************************)
QuietStep ==
  \/ OpenAlready \/ OpenUnreachable \/ OpenGreeted \/ OpenUser
  \/ OpenPass \/ ConnTrack \/ ConnDone \/ ReturnFail
  \/ Send \/ SendGivesUp \/ Cmd \/ CmdSent
  \/ CmdCode \/ It \/ ItSent \/ ItList
  \/ RNextDone \/ Poll \/ PollLost
  \/ PollDone \/ UserOpens \/ UserCommands \/ UserPolls

LEMMA QuietStepOK == TypeOK /\ QuietStep => TypeOK'
<1> SUFFICES ASSUME TypeOK, QuietStep PROVE TypeOK'
  OBVIOUS
<1>1. WireOK /\ SessOK /\ ProgOK /\ CtlOK
  BY DEF TypeOK
<1>2. UNCHANGED <<wire, sess, prog>>
  BY DEF QuietStep, OpenAlready, OpenUnreachable, OpenGreeted, OpenUser, OpenPass, ConnTrack, ConnDone, ReturnFail, Send, SendGivesUp, Cmd, CmdSent, CmdCode, It, ItSent, ItList, RNextDone, Poll, PollLost, PollDone, UserOpens, UserCommands, UserPolls
<1>3. WireOK' /\ SessOK' /\ ProgOK'
  BY <1>1, <1>2, WireSame, SessSame, ProgSame
<1>4. arg \in Args /\ (pc \in CommandPlaces => arg \in Commands)
  BY <1>1 DEF CtlOK
<1>5. ASSUME OpenAlready PROVE CtlOK'
  BY <1>1, <1>4, <1>5, PlaceNames, ReturnOK DEF OpenAlready, Handshake, Readers
<1>6. ASSUME OpenUnreachable PROVE CtlOK'
  BY <1>1, <1>4, <1>6, PlaceNames, ReturnOK DEF OpenUnreachable, Handshake, Readers
<1>7. ASSUME OpenGreeted PROVE CtlOK'
  BY <1>1, <1>4, <1>7, PlaceNames, GotoOK, CallOK DEF OpenGreeted, Handshake, Readers
<1>8. ASSUME OpenUser PROVE CtlOK'
  BY <1>1, <1>4, <1>8, PlaceNames, GotoOK, CallOK DEF OpenUser, Handshake, Readers
<1>9. ASSUME OpenPass PROVE CtlOK'
  BY <1>1, <1>4, <1>9, PlaceNames, GotoOK DEF OpenPass, Handshake, Readers
<1>10. ASSUME ConnTrack PROVE CtlOK'
  BY <1>1, <1>4, <1>10, PlaceNames, CallOK DEF ConnTrack, Handshake, Readers
<1>11. ASSUME ConnDone PROVE CtlOK'
  BY <1>1, <1>4, <1>11, PlaceNames, ReturnOK DEF ConnDone, Handshake, Readers
<1>12. ASSUME ReturnFail PROVE CtlOK'
  BY <1>1, <1>4, <1>12, PlaceNames, ReturnOK DEF ReturnFail, Handshake, Readers
<1>13. ASSUME Send PROVE CtlOK'
  BY <1>1, <1>4, <1>13, PlaceNames, ReturnOK, CallOK DEF Send, Handshake, Readers
<1>14. ASSUME SendGivesUp PROVE CtlOK'
  BY <1>1, <1>4, <1>14, PlaceNames, ReturnOK DEF SendGivesUp, Handshake, Readers
<1>15. ASSUME Cmd PROVE CtlOK'
  BY <1>1, <1>4, <1>15, PlaceNames, CallOK DEF Cmd, Handshake, Readers
<1>16. ASSUME CmdSent PROVE CtlOK'
  BY <1>1, <1>4, <1>16, PlaceNames, CallOK, ReturnOK DEF CmdSent, Handshake, Readers
<1>17. ASSUME CmdCode PROVE CtlOK'
  BY <1>1, <1>4, <1>17, PlaceNames, ReturnOK DEF CmdCode, Handshake, Readers
<1>18. ASSUME It PROVE CtlOK'
  BY <1>1, <1>4, <1>18, PlaceNames, CallOK DEF It, Handshake, Readers
<1>19. ASSUME ItSent PROVE CtlOK'
  BY <1>1, <1>4, <1>19, PlaceNames, GotoOK, ReturnOK DEF ItSent, Handshake, Readers
<1>20. ASSUME ItList PROVE CtlOK'
  BY <1>1, <1>4, <1>20, PlaceNames, ReturnOK DEF ItList, Handshake, Readers
<1>21. ASSUME RNextDone PROVE CtlOK'
  BY <1>1, <1>4, <1>21, PlaceNames, ReturnOK DEF RNextDone, Handshake, Readers
<1>22. ASSUME Poll PROVE CtlOK'
  BY <1>1, <1>4, <1>22, PlaceNames, CallOK DEF Poll, Handshake, Readers
<1>24. ASSUME PollLost PROVE CtlOK'
  BY <1>1, <1>4, <1>24, PlaceNames, CallOK DEF PollLost, Handshake, Readers
<1>25. ASSUME PollDone PROVE CtlOK'
  BY <1>1, <1>4, <1>25, PlaceNames, ReturnOK DEF PollDone, Handshake, Readers
<1>26. ASSUME UserOpens PROVE CtlOK'
  BY <1>1, <1>4, <1>26, PlaceNames, CallOK DEF UserOpens, Handshake, Readers
<1>27. ASSUME UserCommands PROVE CtlOK'
  BY <1>1, <1>4, <1>27, PlaceNames, CallOK DEF UserCommands, Handshake, Readers
<1>28. ASSUME UserPolls PROVE CtlOK'
  BY <1>1, <1>4, <1>28, PlaceNames, CallOK DEF UserPolls, Handshake, Readers
<1>29. CtlOK'
  BY <1>5, <1>6, <1>7, <1>8, <1>9, <1>10, <1>11, <1>12, <1>13, <1>14, <1>15, <1>16, <1>17, <1>18, <1>19, <1>20, <1>21, <1>22, <1>24, <1>25, <1>26, <1>27, <1>28 DEF QuietStep
<1> QED BY <1>3, <1>29 DEF TypeOK

(***************************************************************************)
(* The socket, and the server's side.                                      *)
(***************************************************************************)
LEMMA PartOfSeq ==
  ASSUME NEW S, NEW s \in Seq(S), NEW m \in 1 .. Len(s) + 1, NEW n \in 0 .. Len(s)
  PROVE  SubSeq(s, m, n) \in Seq(S)
<1>1. m \in Int /\ n \in Int /\ \A i \in m .. n : s[i] \in S
  OBVIOUS
<1> QED BY <1>1, SubSeqProperties

LEMMA DisconnectOK ==
  ASSUME Disconnect
  PROVE  WireOK' /\ rx' \in Seq(Lines)
<1>1. <<>> \in Seq({"hello"} \cup Commands) /\ <<>> \in Seq(Lines)
  BY EmptySeq
<1> QED BY <1>1 DEF Disconnect, WireOK

LEMMA RecvReadsOK ==
  ASSUME net \in Seq(Lines), rx \in Seq(Lines), RecvReads
  PROVE  net' \in Seq(Lines) /\ rx' \in Seq(Lines)
<1>1. PICK n \in 1 .. Len(net) : /\ rx' = rx \o SubSeq(net, 1, n)
                                /\ net' = SubSeq(net, n + 1, Len(net))
  BY DEF RecvReads
<1>2. SubSeq(net, 1, n) \in Seq(Lines)
  BY PartOfSeq
<1>3. SubSeq(net, n + 1, Len(net)) \in Seq(Lines)
  BY PartOfSeq
<1> QED BY <1>1, <1>2, <1>3

LEMMA HeadOfRx ==
  ASSUME SessOK, rx # <<>>
  PROVE  /\ Head(rx) \in Lines /\ Tail(rx) \in Seq(Lines)
         /\ IsOther(Head(rx)) => Head(rx).to \in Replies
<1>1. Head(rx) \in Lines /\ Tail(rx) \in Seq(Lines)
  BY HeadTailProperties DEF SessOK
<1>2. Head(rx).to \in LineKinds
  BY <1>1 DEF Lines
<1> QED BY <1>1, <1>2 DEF LineKinds, IsOther, IsShort, IsBroadcast

LEMMA ServerOK == TypeOK /\ Server => TypeOK'
<1> SUFFICES ASSUME TypeOK, Server PROVE TypeOK'
  OBVIOUS
<1>1. WireOK /\ SessOK /\ ProgOK /\ CtlOK
  BY DEF TypeOK
<1>2. UNCHANGED <<sess, prog, ctl>>
  BY DEF Server, ServerAnswers, ServerBroadcasts, ServerGarbles, ServerHangsUp
<1>3. SessOK' /\ ProgOK' /\ CtlOK'
  BY <1>1, <1>2, SessSame, ProgSame, CtlSame
<1>4. ASSUME NEW last \in BOOLEAN, ServerAnswers(last) PROVE WireOK'
  <2>1. PICK c \in Codes :
          \E to \in {Head(owed)} \cup (IF Head(owed) = "hello" THEN {"alien"} ELSE {}) :
             /\ net' = Append(net, [to |-> to, code |-> c, last |-> last])
             /\ cause' = (cause \/ Refusal(to, c))
             /\ guest' = (guest /\ ~(last /\ to = "pass" /\ c \notin Codes5))
             /\ rcode' = IF last THEN "none" ELSE c
             /\ owed' = IF last THEN Tail(owed) ELSE owed
    BY <1>4 DEF ServerAnswers
  <2>2. owed # <<>> /\ link' = link
    BY <1>4 DEF ServerAnswers
  <2>3. Head(owed) \in {"hello"} \cup Commands /\ Tail(owed) \in Seq({"hello"} \cup Commands)
    BY <1>1, <2>2, HeadTailProperties DEF WireOK
  <2>4. PICK to \in {Head(owed), "alien"} :
             /\ net' = Append(net, [to |-> to, code |-> c, last |-> last])
             /\ cause' = (cause \/ Refusal(to, c))
             /\ guest' = (guest /\ ~(last /\ to = "pass" /\ c \notin Codes5))
    BY <2>1
  <2>5. [to |-> to, code |-> c, last |-> last] \in Lines
    BY <2>3 DEF Lines, LineKinds, Replies, Commands
  <2>6. net' \in Seq(Lines)
    BY <1>1, <2>4, <2>5 DEF WireOK
  <2>7. cause' \in BOOLEAN /\ guest' \in BOOLEAN
    BY <2>4
  <2> QED BY <1>1, <2>1, <2>2, <2>3, <2>6, <2>7 DEF WireOK
<1>5. ASSUME ServerBroadcasts PROVE WireOK'
  BY <1>1, <1>5 DEF ServerBroadcasts, WireOK, Lines, LineKinds
<1>6. ASSUME ServerGarbles PROVE WireOK'
  <2>1. \E l \in Lines : net' = Append(net, l)
    <3>1. CASE net' = Append(net, [to |-> "short", code |-> "none", last |-> TRUE])
      BY <3>1 DEF Lines, LineKinds
    <3>2. ASSUME NEW c \in Codes,
                 net' = Append(net, [to |-> "stray", code |-> c, last |-> TRUE])
          PROVE  \E l \in Lines : net' = Append(net, l)
      BY <3>2 DEF Lines, LineKinds, Replies
    <3>3. ASSUME NEW c \in Codes, owed # <<>>,
                 net' = Append(net, [to |-> Head(owed), code |-> c, last |-> FALSE])
          PROVE  \E l \in Lines : net' = Append(net, l)
      <4>1. Head(owed) \in {"hello"} \cup Commands
        BY <1>1, <3>3, HeadTailProperties DEF WireOK
      <4> QED BY <3>3, <4>1 DEF Lines, LineKinds, Replies
    <3> QED BY <1>6, <3>1, <3>2, <3>3 DEF ServerGarbles
  <2> QED BY <1>1, <1>6, <2>1 DEF ServerGarbles, WireOK
<1>7. ASSUME ServerHangsUp PROVE WireOK'
  <2>1. PICK n \in 0 .. Len(net) : net' = SubSeq(net, 1, n)
    BY <1>7 DEF ServerHangsUp
  <2>2. net' \in Seq(Lines)
    BY <1>1, <2>1, PartOfSeq DEF WireOK
  <2> QED BY <1>1, <1>7, <2>2 DEF ServerHangsUp, WireOK
<1>8. WireOK'
  BY <1>4, <1>5, <1>6, <1>7 DEF Server
<1> QED BY <1>3, <1>8 DEF TypeOK

(***************************************************************************)
(* The actions that change the session or the connection.                  *)
(***************************************************************************)
LEMMA RNextClosesOK ==
  ASSUME CtlOK, pc \in Readers, RNextCloses
  PROVE  CtlOK'
BY PlaceNames, CallOK, GotoOK DEF RNextCloses, Readers, CtlOK

LEMMA DispatchOK ==
  ASSUME TypeOK, pc \in Readers \cup {"poll.drain"}, rx # <<>>, Dispatch
  PROVE  TypeOK'
<1>1. WireOK /\ SessOK /\ ProgOK /\ CtlOK
  BY DEF TypeOK
<1>2. WireOK'
  BY <1>1, WireSame DEF Dispatch
<1>3. SessOK'
  BY <1>1, HeadOfRx DEF Dispatch, SessOK
<1>4. ProgOK'
  BY <1>1 DEF Dispatch, EvPlayer, Jump, ProgOK
<1>5. pc \in Places \ {"idle"}
  BY PlaceNames
<1>6. CtlOK'
  BY <1>1, <1>5, CtlSame, CallOK, PlaceNames DEF Dispatch, EvPlayer, Jump, CtlOK
<1> QED BY <1>2, <1>3, <1>4, <1>6 DEF TypeOK

LEMMA ReplyOK == TypeOK /\ RNextReply => TypeOK'
<1> SUFFICES ASSUME TypeOK, RNextReply PROVE TypeOK'
  OBVIOUS
<1>1. WireOK /\ SessOK /\ ProgOK /\ CtlOK
  BY DEF TypeOK
<1>2. WireOK' /\ ProgOK'
  BY <1>1, WireSame, ProgSame DEF RNextReply
<1>3. /\ pc \in Readers /\ pc # "idle" /\ arg \in Args
      /\ pc # "rlast" => arg \in Commands
  BY <1>1, PlaceNames DEF RNextReply, Readers, CtlOK
<1>4. /\ rx # <<>> /\ IsOther(Head(rx))
      /\ rx' = Tail(rx) /\ line' = Head(rx).to
      /\ \/ code' = Head(rx).code /\ inreply' = ~Head(rx).last
         \/ UNCHANGED <<code, inreply>>
  BY DEF RNextReply
<1>5. SessOK'
  BY <1>1, <1>4, HeadOfRx DEF SessOK, Lines
<1>6. \/ UNCHANGED ctl
      \/ pc # "rlast" /\ Goto("it.next")
      \/ Call("rlast", arg, "fail")
      \/ RNextCloses
  BY DEF RNextReply, Abandon
<1>7. CtlOK'
  BY <1>1, <1>3, <1>6, CtlSame, GotoOK, CallOK, RNextClosesOK, PlaceNames DEF Readers
<1> QED BY <1>2, <1>5, <1>7 DEF TypeOK

BusyStep ==
  \/ OpenConnects \/ OpenEvent \/ ConnList \/ OpenClean \/ Close
  \/ SendWrites \/ SendFails \/ RNextRecv \/ RNextLost \/ RNextShort
  \/ PollRecv \/ PollShort \/ PollUnprocessed \/ UserCloses

LEMMA BusyStepOK == TypeOK /\ BusyStep => TypeOK'
<1> SUFFICES ASSUME TypeOK, BusyStep PROVE TypeOK'
  OBVIOUS
<1>1. WireOK /\ SessOK /\ ProgOK /\ CtlOK
  BY DEF TypeOK
<1>2. arg \in Args /\ (pc \in CommandPlaces => arg \in Commands)
  BY <1>1 DEF CtlOK
<1>3. ASSUME OpenConnects PROVE TypeOK'
  <2>1. WireOK'
    <3>1. <<"hello">> \in Seq({"hello"} \cup Commands) /\ <<>> \in Seq(Lines)
      BY EmptySeq
    <3> QED BY <1>3, <3>1, ConfigAssumption DEF OpenConnects, Connect, WireOK
  <2>2. SessOK' /\ ProgOK'
    BY <1>1, <1>3, ProgSame DEF OpenConnects, Connect, SessOK
  <2>3. CtlOK'
    BY <1>1, <1>2, <1>3, CallOK, PlaceNames DEF OpenConnects, Handshake, Readers
  <2> QED BY <2>1, <2>2, <2>3 DEF TypeOK
<1>4. ASSUME OpenEvent PROVE TypeOK'
  <2>1. WireOK' /\ SessOK' /\ ProgOK'
    BY <1>1, <1>4, WireSame, SessSame DEF OpenEvent, ProgOK
  <2>2. CtlOK'
    BY <1>1, <1>4, CallOK, ReturnOK, PlaceNames DEF OpenEvent, EvConn
  <2> QED BY <2>1, <2>2 DEF TypeOK
<1>5. ASSUME ConnList PROVE TypeOK'
  <2>1. WireOK' /\ SessOK' /\ ProgOK'
    BY <1>1, <1>5, WireSame, SessSame DEF ConnList, ProgOK
  <2>2. CtlOK'
    BY <1>1, <1>5, CallOK, PlaceNames DEF ConnList
  <2> QED BY <2>1, <2>2 DEF TypeOK
<1>6. ASSUME OpenClean PROVE TypeOK'
  <2>1. WireOK' /\ SessOK' /\ ProgOK'
    BY <1>1, <1>6, DisconnectOK, ProgSame DEF OpenClean, SessOK
  <2>2. CtlOK'
    BY <1>1, <1>6, ReturnOK, PlaceNames DEF OpenClean
  <2> QED BY <2>1, <2>2 DEF TypeOK
<1>7. ASSUME Close PROVE TypeOK'
  <2>1. WireOK' /\ SessOK' /\ ProgOK'
    BY <1>1, <1>7, DisconnectOK DEF Close, ForgetReply, DisconnectEvent, CbDisc, EvDisc, NoHandler,
      Jump, SessOK, ProgOK
  <2>2. CtlOK'
    BY <1>1, <1>7, CallOK, ReturnOK, PlaceNames DEF Close, CbDisc, EvDisc, NoHandler, Jump
  <2> QED BY <2>1, <2>2 DEF TypeOK
<1>8. ASSUME SendWrites PROVE TypeOK'
  <2>1. arg \in Commands
    BY <1>2, <1>8, PlaceNames DEF SendWrites
  <2>2. WireOK' /\ SessOK' /\ ProgOK'
    BY <1>1, <1>8, <2>1, ProgSame DEF SendWrites, AwaitReply, WireOK, SessOK
  <2>3. CtlOK'
    BY <1>1, <1>8, ReturnOK, PlaceNames DEF SendWrites
  <2> QED BY <2>2, <2>3 DEF TypeOK
<1>9. ASSUME SendFails PROVE TypeOK'
  <2>1. WireOK' /\ SessOK' /\ ProgOK'
    BY <1>1, <1>9, WireSame, ProgSame DEF SendFails, SessOK
  <2>2. CtlOK'
    BY <1>1, <1>9, GotoOK, PlaceNames DEF SendFails
  <2> QED BY <2>1, <2>2 DEF TypeOK
<1>10. ASSUME RNextRecv PROVE TypeOK'
  <2>1. net' \in Seq(Lines) /\ rx' \in Seq(Lines)
    BY <1>1, <1>10, RecvReadsOK DEF RNextRecv, WireOK, SessOK
  <2> QED BY <1>1, <1>10, <2>1, ProgSame, CtlSame DEF RNextRecv, WireOK, SessOK, TypeOK
<1>11. ASSUME RNextLost PROVE TypeOK'
  BY <1>1, <1>11, WireSame, SessSame, ProgSame, RNextClosesOK DEF RNextLost, TypeOK
<1>12. ASSUME RNextShort PROVE TypeOK'
  <2>1. SessOK'
    BY <1>1, <1>12, HeadOfRx DEF RNextShort, SessOK
  <2> QED BY <1>1, <1>12, <2>1, WireSame, ProgSame, RNextClosesOK DEF RNextShort, TypeOK
<1>13. ASSUME PollRecv PROVE TypeOK'
  <2>1. net' \in Seq(Lines) /\ rx' \in Seq(Lines)
    BY <1>1, <1>13, RecvReadsOK DEF PollRecv, WireOK, SessOK
  <2>2. CtlOK'
    BY <1>1, <1>13, GotoOK, PlaceNames DEF PollRecv
  <2> QED BY <1>1, <1>13, <2>1, <2>2, ProgSame DEF PollRecv, WireOK, SessOK, TypeOK
<1>14. ASSUME PollShort PROVE TypeOK'
  <2>1. SessOK'
    BY <1>1, <1>14, HeadOfRx DEF PollShort, SessOK
  <2>2. CtlOK'
    BY <1>1, <1>14, GotoOK, PlaceNames DEF PollShort
  <2> QED BY <1>1, <1>14, <2>1, <2>2, WireSame, ProgSame DEF PollShort, TypeOK
<1>15. ASSUME PollUnprocessed PROVE TypeOK'
  <2>1. SessOK'
    BY <1>1, <1>15, HeadOfRx DEF PollUnprocessed, SessOK
  <2> QED BY <1>1, <1>15, <2>1, WireSame, ProgSame, CtlSame DEF PollUnprocessed, TypeOK
<1>16. ASSUME UserCloses PROVE TypeOK'
  <2>1. WireOK' /\ SessOK' /\ ProgOK'
    BY <1>1, <1>16, SessSame, ProgSame DEF UserCloses, WireOK, Up
  <2>2. CtlOK'
    BY <1>1, <1>16, CallOK, PlaceNames DEF UserCloses
  <2> QED BY <2>1, <2>2 DEF TypeOK
<1> QED BY <1>3, <1>4, <1>5, <1>6, <1>7, <1>8, <1>9, <1>10, <1>11, <1>12, <1>13,
           <1>14, <1>15, <1>16 DEF BusyStep

LEMMA TypeStep == TypeOK /\ [Next]_vars => TypeOK'
<1> SUFFICES ASSUME TypeOK, [Next]_vars PROVE TypeOK'
  OBVIOUS
<1>1. CASE UNCHANGED vars
  BY <1>1, WireSame, SessSame, ProgSame, CtlSame DEF TypeOK, vars
<1>2. CASE Server
  BY <1>2, ServerOK
<1>3. CASE QuietStep
  BY <1>3, QuietStepOK
<1>4. CASE BusyStep
  BY <1>4, BusyStepOK
<1>5. CASE RNextBroadcast \/ PollBroadcast
  BY <1>5, DispatchOK DEF RNextBroadcast, PollBroadcast
<1>6. CASE RNextReply
  BY <1>6, ReplyOK
<1> QED BY <1>1, <1>2, <1>3, <1>4, <1>5, <1>6 DEF Next, User, Library, QuietStep, BusyStep

LEMMA TypeInit == Init => TypeOK
<1> SUFFICES ASSUME Init PROVE TypeOK
  OBVIOUS
<1>1. /\ <<>> \in Seq({"hello"} \cup Commands) /\ <<>> \in Seq(Lines)
      /\ <<>> \in Seq(Frames) /\ Len(<<>>) = 0
  BY EmptySeq
<1>2. WireOK
  BY <1>1 DEF Init, WireOK
<1>3. SessOK /\ ProgOK
  BY <1>1 DEF Init, SessOK, ProgOK
<1>4. CtlOK
  BY <1>1, PlaceNames DEF Init, CtlOK
<1> QED BY <1>2, <1>3, <1>4 DEF TypeOK

(***************************************************************************)
(* TypeOK holds for every program, every set of reply codes and every      *)
(* bound: p->line never points at a broadcast, and every call returns to   *)
(* the place that made it, with the main loop at the bottom of the stack.  *)
(***************************************************************************)
THEOREM TypeCorrect == Spec => []TypeOK
<1>1. Init => TypeOK
  BY TypeInit
<1>2. TypeOK /\ [Next]_vars => TypeOK'
  BY TypeStep
<1> QED BY <1>1, <1>2, PTL DEF Spec

(***************************************************************************)
(* The session over LineSocket.  Without a connection nothing is in the    *)
(* buffer and nothing on its way.                                          *)
(***************************************************************************)
DownEmpty == ~Up => rx = <<>> /\ net = <<>>

\* What a step of the program does with the connection and its lines.
LEMMA SocketUse ==
  ASSUME User \/ Library
  PROVE  \/ UNCHANGED <<link, net, rx>>
         \/ ~Up /\ Connect
         \/ RecvReads /\ UNCHANGED link
         \/ rx # <<>> /\ rx' = Tail(rx) /\ UNCHANGED <<link, net>>
         \/ Disconnect
<1>1. CASE User
  BY <1>1 DEF User, UserOpens, UserCommands, UserPolls, UserCloses, wire, sess
<1>2. CASE Library
  BY <1>2 DEF Library, OpenAlready, OpenUnreachable, OpenConnects, OpenGreeted,
    OpenUser, OpenPass, OpenEvent, OpenClean, ConnTrack, ConnList, ConnDone,
    Close, ReturnFail, Send, SendGivesUp, SendWrites, SendFails, Cmd, CmdSent,
    CmdCode, It, ItSent, ItList, RNextDone, RNextRecv, RNextLost, RNextShort,
    RNextBroadcast, RNextReply, Poll, PollRecv, PollLost, PollDone, PollShort,
    PollUnprocessed, PollBroadcast, Dispatch, AlreadyOpen, wire, sess
<1> QED BY <1>1, <1>2

\* What a step of the server does with them.
LEMMA ServerUse ==
  ASSUME TypeOK, Server
  PROVE  /\ link = "live" /\ rx' = rx
         /\ \/ link' = link /\ \E l \in Lines : net' = Append(net, l)
            \/ link' = "gone" /\ \E n \in 0 .. Len(net) : net' = SubSeq(net, 1, n)
<1> USE DEF sess
<1>1. /\ owed # <<>> => Head(owed) \in LineKinds
      /\ {"alien", "stray", "bcast", "short"} \subseteq LineKinds
  BY HeadTailProperties DEF TypeOK, WireOK, LineKinds, Replies, Commands
<1>2. \A k \in LineKinds, c \in Codes \cup {"none"}, b \in BOOLEAN :
        [to |-> k, code |-> c, last |-> b] \in Lines
  BY DEF Lines
<1>3. ASSUME NEW last \in BOOLEAN, ServerAnswers(last)
      PROVE  link = "live" /\ rx' = rx /\ link' = link /\ \E l \in Lines : net' = Append(net, l)
  <2>1. PICK c \in Codes, to \in {Head(owed), "alien"} :
          net' = Append(net, [to |-> to, code |-> c, last |-> last])
    BY <1>3 DEF ServerAnswers
  <2>2. [to |-> to, code |-> c, last |-> last] \in Lines
    BY <1>1, <1>2, <1>3, <2>1 DEF ServerAnswers
  <2> QED BY <1>3, <2>1, <2>2 DEF ServerAnswers
<1>4. ASSUME ServerBroadcasts
      PROVE  link = "live" /\ rx' = rx /\ link' = link /\ \E l \in Lines : net' = Append(net, l)
  BY <1>1, <1>2, <1>4 DEF ServerBroadcasts
<1>5. ASSUME ServerGarbles
      PROVE  link = "live" /\ rx' = rx /\ link' = link /\ \E l \in Lines : net' = Append(net, l)
  <2>1. \E k \in LineKinds, c \in Codes \cup {"none"}, b \in BOOLEAN :
          net' = Append(net, [to |-> k, code |-> c, last |-> b])
    BY <1>1, <1>5 DEF ServerGarbles
  <2> QED BY <1>2, <1>5, <2>1 DEF ServerGarbles
<1> QED BY <1>3, <1>4, <1>5 DEF Server, ServerHangsUp

LEMMA DownEmptyStep == TypeOK /\ DownEmpty /\ [Next]_vars => DownEmpty'
<1> SUFFICES ASSUME TypeOK, DownEmpty, [Next]_vars PROVE DownEmpty'
  OBVIOUS
<1> USE DEF DownEmpty, Up
<1>1. CASE Server BY <1>1, ServerUse
<1>2. CASE User \/ Library
  <2>1. CASE RecvReads /\ UNCHANGED link
    BY <2>1 DEF RecvReads
  <2> QED BY <1>2, <2>1, SocketUse DEF Connect, Disconnect
<1>3. CASE UNCHANGED vars BY <1>3 DEF vars, wire, sess
<1> QED BY <1>1, <1>2, <1>3 DEF Next

\* Every step is one of LineSocket, or leaves its variables alone.
LEMMA SocketStep ==
  TypeOK /\ DownEmpty /\ [Next]_vars => [Socket!Next]_(Socket!vars)
<1> SUFFICES ASSUME TypeOK, DownEmpty, [Next]_vars PROVE [Socket!Next]_(Socket!vars)
  OBVIOUS
<1> USE DEF Socket!Next, Socket!vars
<1>1. CASE Server
  <2>1. CASE link' = link /\ \E l \in Lines : net' = Append(net, l)
    BY <1>1, <2>1, ServerUse DEF Socket!Send
  <2>2. CASE link' = "gone" /\ \E n \in 0 .. Len(net) : net' = SubSeq(net, 1, n)
    BY <1>1, <2>2, ServerUse DEF Socket!HangUp
  <2> QED BY <1>1, <2>1, <2>2, ServerUse
<1>2. CASE User \/ Library
  <2>1. CASE UNCHANGED <<link, net, rx>>
    BY <2>1
  <2>2. CASE ~Up /\ Connect
    BY <2>2 DEF Connect, DownEmpty, Up, Socket!Connect
  <2>3. CASE RecvReads /\ UNCHANGED link
    BY <2>3 DEF RecvReads, Socket!Recv
  <2>4. CASE rx # <<>> /\ rx' = Tail(rx) /\ UNCHANGED <<link, net>>
    BY <2>4 DEF Socket!Getline
  <2>5. CASE Disconnect
    BY <2>5 DEF Disconnect, Socket!Disconnect
  <2> QED BY <1>2, <2>1, <2>2, <2>3, <2>4, <2>5, SocketUse
<1>3. CASE UNCHANGED vars BY <1>3 DEF vars, wire, sess
<1> QED BY <1>1, <1>2, <1>3 DEF Next

(***************************************************************************)
(* The session implements LineSocket (OnLineSocket): for every program,    *)
(* bound and server it does with the connection only what sock.c promises, *)
(* takes lines in their order, each once, and drops them only with the     *)
(* connection.                                                             *)
(***************************************************************************)
THEOREM UsesLineSocket == Spec => OnLineSocket
<1>1. Init => TypeOK /\ DownEmpty /\ Socket!Init
  BY TypeInit DEF Init, DownEmpty, Socket!Init
<1>2. TypeOK /\ DownEmpty /\ [Next]_vars => (TypeOK /\ DownEmpty)'
  BY TypeStep, DownEmptyStep
<1>3. TypeOK /\ DownEmpty /\ [Next]_vars => [Socket!Next]_(Socket!vars)
  BY SocketStep
<1> QED BY <1>1, <1>2, <1>3, PTL DEF Spec, OnLineSocket, Socket!Spec

(***************************************************************************)
(* NotWedged and CodeIsThere, for every server, rogue or not.              *)
(***************************************************************************)

(***************************************************************************)
(* A command is sent only by a function that reads its reply next.         *)
(***************************************************************************)
Sent == {"cmd.sent", "it.sent"}
SendShape ==
  /\ pc \in {"send", "send.opened"} => stk # <<>> /\ stk[Len(stk)].at \in Sent
  /\ \A i \in 1 .. Len(stk) :
       /\ stk[i].at # "send"
       /\ stk[i].at = "send.opened" => i > 1 /\ stk[i - 1].at \in Sent

(***************************************************************************)
(* Where inreply may be set.  Plain: no _duc_rnext loop waits below, and   *)
(* inreply is set only while the running function reads, closes, or has    *)
(* just sent.  Handling and Refusing: a broadcast's handler runs inside    *)
(* such a loop, and its command is on its way to being refused.            *)
(***************************************************************************)
Expecting == pc \in Readers \cup {"close"} \/ (pc \in Sent /\ res = "ok")

Plain ==
  /\ \A i \in 1 .. Len(stk) : stk[i].at \notin Readers
  /\ inreply => Expecting

Handling ==
  /\ inreply /\ Len(stk) >= 1 /\ stk[Len(stk)].at \in Readers
  /\ \A i \in 1 .. Len(stk) - 1 : stk[i].at \notin Readers
  /\ pc = "cmd" \/ (pc = "cmd.sent" /\ res = "fail")

Refusing ==
  /\ inreply /\ Len(stk) >= 2 /\ stk[Len(stk)].at = "cmd.sent"
  /\ stk[Len(stk) - 1].at \in Readers
  /\ \A i \in 1 .. Len(stk) - 2 : stk[i].at \notin Readers
  /\ pc = "send"

ReplyInv == SendShape /\ (inreply => Up) /\ (Plain \/ Handling \/ Refusing)

(***************************************************************************)
(* What a call and a return do to the stack, frame by frame.               *)
(***************************************************************************)
LEMMA CallFrames ==
  ASSUME CtlOK, NEW f, NEW c, NEW k \in Places, Call(f, c, k)
  PROVE  /\ Len(stk) \in Nat /\ Len(stk') = Len(stk) + 1
         /\ \A i \in 1 .. Len(stk) : stk'[i] = stk[i]
         /\ stk'[Len(stk) + 1].at = k
         /\ pc' = f /\ res' = "none"
<1> DEFINE top == [at |-> k, cmd |-> arg]
<1>1. top \in Frames /\ stk \in Seq(Frames)
  BY DEF CtlOK, Frames
<1>2. stk' = Append(stk, top) /\ pc' = f /\ res' = "none" /\ top.at = k
  BY DEF Call
<1> HIDE DEF top
<1>3. Len(stk) \in Nat /\ Len(stk') = Len(stk) + 1 /\ stk'[Len(stk) + 1] = top
  BY <1>1, <1>2
<1>4. \A i \in 1 .. Len(stk) : stk'[i] = stk[i]
  BY <1>1, <1>2
<1> QED BY <1>2, <1>3, <1>4

LEMMA ReturnFrames ==
  ASSUME CtlOK, pc # "idle", NEW r, Return(r)
  PROVE  /\ Len(stk) \in Nat /\ Len(stk) >= 1 /\ Len(stk') = Len(stk) - 1
         /\ \A i \in 1 .. Len(stk) - 1 : stk'[i] = stk[i]
         /\ pc' = stk[Len(stk)].at /\ res' = r
<1> DEFINE n == Len(stk)
<1>1. stk \in Seq(Frames) /\ n \in Nat /\ n # 0
  BY DEF CtlOK
<1>2. stk' = SubSeq(stk, 1, n - 1) /\ pc' = stk[n].at /\ res' = r
  BY DEF Return
<1> HIDE DEF n
<1>3. /\ Len(SubSeq(stk, 1, n - 1)) = n - 1
      /\ \A i \in 1 .. n - 1 : SubSeq(stk, 1, n - 1)[i] = stk[i]
  <2>1. \A i \in 1 .. n - 1 : stk[i] \in Frames
    BY <1>1 DEF n
  <2>2. 1 \in Int /\ n - 1 \in Int
    BY <1>1
  <2> QED BY <1>1, <2>1, <2>2, SubSeqProperties
<1> QED BY <1>1, <1>2, <1>3 DEF n

(***************************************************************************)
(* SendShape, for each way to go on.                                       *)
(***************************************************************************)
LEMMA GotoShape ==
  ASSUME SendShape, NEW p, p \notin {"send", "send.opened"}, Goto(p)
  PROVE  SendShape'
BY DEF SendShape, Goto

LEMMA CallShape ==
  ASSUME CtlOK, SendShape, NEW f, NEW c, NEW k \in Places, Call(f, c, k),
         k # "send", k = "send.opened" => pc = "send",
         f # "send.opened", f = "send" => k \in Sent
  PROVE  SendShape'
<1>1. /\ Len(stk) \in Nat /\ Len(stk') = Len(stk) + 1
      /\ \A i \in 1 .. Len(stk) : stk'[i] = stk[i]
      /\ stk'[Len(stk) + 1].at = k /\ pc' = f
  BY CallFrames
<1>2. stk' # <<>>
  BY <1>1, EmptySeq
<1>3. \A i \in 1 .. Len(stk') :
        /\ stk'[i].at # "send"
        /\ stk'[i].at = "send.opened" => i > 1 /\ stk'[i - 1].at \in Sent
  <2> SUFFICES ASSUME NEW i \in 1 .. Len(stk')
               PROVE  /\ stk'[i].at # "send"
                      /\ stk'[i].at = "send.opened" => i > 1 /\ stk'[i - 1].at \in Sent
    OBVIOUS
  <2>1. CASE i \in 1 .. Len(stk)
    BY <1>1, <2>1 DEF SendShape
  <2>2. CASE i = Len(stk) + 1
    <3>1. ASSUME k = "send.opened" PROVE Len(stk) >= 1 /\ stk[Len(stk)].at \in Sent
      BY <1>1, <3>1, EmptySeq DEF SendShape, CtlOK
    <3> QED BY <1>1, <2>2, <3>1
  <2> QED BY <1>1, <2>1, <2>2
<1> QED BY <1>1, <1>2, <1>3 DEF SendShape

LEMMA ReturnShape ==
  ASSUME CtlOK, SendShape, pc # "idle", NEW r, Return(r)
  PROVE  SendShape'
<1>1. /\ Len(stk) \in Nat /\ Len(stk) >= 1 /\ Len(stk') = Len(stk) - 1
      /\ \A i \in 1 .. Len(stk) - 1 : stk'[i] = stk[i]
      /\ pc' = stk[Len(stk)].at
  BY ReturnFrames
<1>2. /\ pc' # "send"
      /\ pc' = "send.opened" => Len(stk) > 1 /\ stk[Len(stk) - 1].at \in Sent
  BY <1>1 DEF SendShape
<1>3. pc' = "send.opened" => stk' # <<>> /\ stk'[Len(stk')].at \in Sent
  BY <1>1, <1>2, EmptySeq
<1>4. \A i \in 1 .. Len(stk') :
        /\ stk'[i].at # "send"
        /\ stk'[i].at = "send.opened" => i > 1 /\ stk'[i - 1].at \in Sent
  BY <1>1 DEF SendShape
<1> QED BY <1>2, <1>3, <1>4 DEF SendShape

(***************************************************************************)
(* Plain, for each way to go on.                                           *)
(***************************************************************************)
LEMMA GotoPlain ==
  ASSUME Plain, NEW p, Goto(p), inreply' => p \in Readers \cup {"close"}
  PROVE  Plain'
BY DEF Plain, Expecting, Goto

LEMMA CallPlain ==
  ASSUME CtlOK, Plain, NEW f, NEW c, NEW k \in Places \ Readers, Call(f, c, k),
         inreply' => f \in Readers \cup {"close"}
  PROVE  Plain'
<1>1. /\ Len(stk) \in Nat /\ Len(stk') = Len(stk) + 1
      /\ \A i \in 1 .. Len(stk) : stk'[i] = stk[i]
      /\ stk'[Len(stk) + 1].at = k /\ pc' = f
  BY CallFrames
<1>2. \A i \in 1 .. Len(stk') : stk'[i].at \notin Readers
  BY <1>1 DEF Plain
<1> QED BY <1>1, <1>2 DEF Plain, Expecting

LEMMA ReturnPlain ==
  ASSUME CtlOK, Plain, pc # "idle", NEW r, Return(r),
         inreply' => r = "ok" /\ stk[Len(stk)].at \in Sent
  PROVE  Plain'
<1>1. /\ Len(stk) \in Nat /\ Len(stk) >= 1 /\ Len(stk') = Len(stk) - 1
      /\ \A i \in 1 .. Len(stk) - 1 : stk'[i] = stk[i]
      /\ pc' = stk[Len(stk)].at /\ res' = r
  BY ReturnFrames
<1>2. \A i \in 1 .. Len(stk') : stk'[i].at \notin Readers
  BY <1>1 DEF Plain
<1> QED BY <1>1, <1>2 DEF Plain, Expecting

(***************************************************************************)
(* The places where no reply is expected and no handler can be.            *)
(***************************************************************************)
Calm == pc \notin Readers \cup Sent \cup {"close", "cmd", "send"}

LEMMA CalmMeans == ReplyInv /\ Calm => Plain /\ ~inreply
BY DEF ReplyInv, Calm, Plain, Handling, Refusing, Expecting, Sent

LEMMA SameControl ==
  ASSUME ReplyInv, UNCHANGED <<inreply, ctl>>, Up => Up'
  PROVE  ReplyInv'
<1>1. UNCHANGED <<inreply, pc, arg, stk, res>>
  BY DEF ctl
<1>2. SendShape'
  BY <1>1 DEF ReplyInv, SendShape
<1>3. Plain => Plain'
  BY <1>1 DEF Plain, Expecting
<1>4. (Handling => Handling') /\ (Refusing => Refusing')
  BY <1>1 DEF Handling, Refusing
<1> QED BY <1>1, <1>2, <1>3, <1>4 DEF ReplyInv

LEMMA CalmGoto ==
  ASSUME ReplyInv, Calm, inreply' = inreply,
         NEW p, p \notin {"send", "send.opened"}, Goto(p)
  PROVE  ReplyInv'
BY CalmMeans, GotoShape, GotoPlain DEF ReplyInv

LEMMA CalmCall ==
  ASSUME TypeOK, ReplyInv, Calm, inreply' = inreply,
         NEW f, NEW c, NEW k \in Places \ Readers, Call(f, c, k),
         k \notin {"send", "send.opened"}, f # "send.opened", f = "send" => k \in Sent
  PROVE  ReplyInv'
BY CalmMeans, CallShape, CallPlain DEF ReplyInv, TypeOK

LEMMA CalmReturn ==
  ASSUME TypeOK, ReplyInv, Calm, inreply' = inreply, pc # "idle", NEW r, Return(r)
  PROVE  ReplyInv'
BY CalmMeans, ReturnShape, ReturnPlain DEF ReplyInv, TypeOK

CalmStep ==
  \/ OpenAlready \/ OpenUnreachable \/ OpenGreeted \/ OpenUser \/ OpenPass
  \/ OpenEvent \/ ConnTrack \/ ConnList \/ ConnDone \/ OpenClean
  \/ ReturnFail \/ SendGivesUp \/ SendFails \/ CmdCode \/ It \/ ItList
  \/ Poll \/ PollRecv \/ PollLost \/ PollDone \/ PollShort
  \/ PollUnprocessed \/ PollBroadcast \/ UserOpens \/ UserCommands
  \/ UserPolls \/ UserCloses

LEMMA CalmStepOK == TypeOK /\ ReplyInv /\ CalmStep => ReplyInv'
<1> SUFFICES ASSUME TypeOK, ReplyInv, CalmStep PROVE ReplyInv'
  OBVIOUS
<1>1. TypeOK /\ ReplyInv
  OBVIOUS
<1>2. ASSUME OpenAlready PROVE ReplyInv'
  BY <1>1, <1>2, PlaceNames, CalmReturn
     DEF OpenAlready, Calm, Sent, Readers, Handshake, sess, wire, ctl
<1>3. ASSUME OpenUnreachable PROVE ReplyInv'
  BY <1>1, <1>3, PlaceNames, CalmReturn
     DEF OpenUnreachable, Calm, Sent, Readers, Handshake, sess, wire, ctl
<1>4. ASSUME OpenGreeted PROVE ReplyInv'
  BY <1>1, <1>4, PlaceNames, CalmGoto, CalmCall
     DEF OpenGreeted, Calm, Sent, Readers, Handshake, sess, wire, ctl
<1>5. ASSUME OpenUser PROVE ReplyInv'
  BY <1>1, <1>5, PlaceNames, CalmGoto, CalmCall
     DEF OpenUser, Calm, Sent, Readers, Handshake, sess, wire, ctl
<1>6. ASSUME OpenPass PROVE ReplyInv'
  BY <1>1, <1>6, PlaceNames, CalmGoto
     DEF OpenPass, Calm, Sent, Readers, Handshake, sess, wire, ctl
<1>7. ASSUME OpenEvent PROVE ReplyInv'
  BY <1>1, <1>7, PlaceNames, CalmCall, CalmReturn
     DEF OpenEvent, EvConn, Calm, Sent, Readers, Handshake, sess, wire, ctl
<1>8. ASSUME ConnTrack PROVE ReplyInv'
  BY <1>1, <1>8, PlaceNames, CalmCall
     DEF ConnTrack, Calm, Sent, Readers, Handshake, sess, wire, ctl
<1>9. ASSUME ConnList PROVE ReplyInv'
  BY <1>1, <1>9, PlaceNames, CalmCall
     DEF ConnList, Calm, Sent, Readers, Handshake, sess, wire, ctl
<1>10. ASSUME ConnDone PROVE ReplyInv'
  BY <1>1, <1>10, PlaceNames, CalmReturn
     DEF ConnDone, Calm, Sent, Readers, Handshake, sess, wire, ctl
<1>11. ASSUME OpenClean PROVE ReplyInv'
  BY <1>1, <1>11, PlaceNames, CalmReturn
     DEF OpenClean, Disconnect, Up, Calm, Sent, Readers, Handshake, sess, wire, ctl
<1>12. ASSUME ReturnFail PROVE ReplyInv'
  BY <1>1, <1>12, PlaceNames, CalmReturn
     DEF ReturnFail, Calm, Sent, Readers, Handshake, sess, wire, ctl
<1>13. ASSUME SendGivesUp PROVE ReplyInv'
  BY <1>1, <1>13, PlaceNames, CalmReturn
     DEF SendGivesUp, Calm, Sent, Readers, Handshake, sess, wire, ctl
<1>14. ASSUME SendFails PROVE ReplyInv'
  BY <1>1, <1>14, PlaceNames, CalmGoto
     DEF SendFails, Calm, Sent, Readers, Handshake, sess, wire, ctl
<1>15. ASSUME CmdCode PROVE ReplyInv'
  BY <1>1, <1>15, PlaceNames, CalmReturn
     DEF CmdCode, Calm, Sent, Readers, Handshake, sess, wire, ctl
<1>16. ASSUME It PROVE ReplyInv'
  BY <1>1, <1>16, PlaceNames, CalmCall
     DEF It, Calm, Sent, Readers, Handshake, sess, wire, ctl
<1>17. ASSUME ItList PROVE ReplyInv'
  BY <1>1, <1>17, PlaceNames, CalmReturn
     DEF ItList, Calm, Sent, Readers, Handshake, sess, wire, ctl
<1>18. ASSUME Poll PROVE ReplyInv'
  BY <1>1, <1>18, PlaceNames, CalmCall
     DEF Poll, Calm, Sent, Readers, Handshake, sess, wire, ctl
<1>19. ASSUME PollRecv PROVE ReplyInv'
  BY <1>1, <1>19, PlaceNames, CalmGoto
     DEF PollRecv, Calm, Sent, Readers, Handshake, sess, wire, ctl
<1>20. ASSUME PollLost PROVE ReplyInv'
  BY <1>1, <1>20, PlaceNames, CalmCall
     DEF PollLost, Calm, Sent, Readers, Handshake, sess, wire, ctl
<1>21. ASSUME PollDone PROVE ReplyInv'
  BY <1>1, <1>21, PlaceNames, CalmReturn
     DEF PollDone, Calm, Sent, Readers, Handshake, sess, wire, ctl
<1>22. ASSUME PollShort PROVE ReplyInv'
  BY <1>1, <1>22, PlaceNames, CalmGoto
     DEF PollShort, Calm, Sent, Readers, Handshake, sess, wire, ctl
<1>23. ASSUME PollUnprocessed PROVE ReplyInv'
  <2>1. UNCHANGED <<inreply, ctl>> /\ (Up => Up')
    BY <1>23 DEF PollUnprocessed, wire, Up
  <2> QED BY <1>1, <2>1, SameControl
<1>24. ASSUME PollBroadcast PROVE ReplyInv'
  <2>1. /\ pc = "poll.drain" /\ inreply' = inreply /\ (Up => Up')
        /\ UNCHANGED ctl \/ Call("cmd", "cmd", pc)
    BY <1>24 DEF PollBroadcast, Dispatch, EvPlayer, Jump, wire, Up
  <2>2. CASE UNCHANGED ctl
    BY <1>1, <2>1, <2>2, SameControl
  <2>3. CASE Call("cmd", "cmd", pc)
    BY <1>1, <2>1, <2>3, PlaceNames, CalmCall DEF Calm, Sent, Readers
  <2> QED BY <2>1, <2>2, <2>3
<1>25. ASSUME UserOpens PROVE ReplyInv'
  BY <1>1, <1>25, PlaceNames, CalmCall
     DEF UserOpens, Calm, Sent, Readers, Handshake, sess, wire, ctl
<1>26. ASSUME UserCommands PROVE ReplyInv'
  BY <1>1, <1>26, PlaceNames, CalmCall
     DEF UserCommands, Calm, Sent, Readers, Handshake, sess, wire, ctl
<1>27. ASSUME UserPolls PROVE ReplyInv'
  BY <1>1, <1>27, PlaceNames, CalmCall
     DEF UserPolls, Calm, Sent, Readers, Handshake, sess, wire, ctl
<1>28. ASSUME UserCloses PROVE ReplyInv'
  BY <1>1, <1>28, PlaceNames, CalmCall
     DEF UserCloses, Calm, Sent, Readers, Handshake, sess, wire, ctl
<1> QED BY <1>2, <1>3, <1>4, <1>5, <1>6, <1>7, <1>8, <1>9, <1>10, <1>11, <1>12,
           <1>13, <1>14, <1>15, <1>16, <1>17, <1>18, <1>19, <1>20, <1>21, <1>22,
           <1>23, <1>24, <1>25, <1>26, <1>27, <1>28 DEF CalmStep

(***************************************************************************)
(* The actions at the other places.                                        *)
(***************************************************************************)
LEMMA PlainThere ==
  ReplyInv /\ pc \notin {"cmd", "cmd.sent", "send"} => Plain
BY DEF ReplyInv, Handling, Refusing

LEMMA ConnectsOK == TypeOK /\ ReplyInv /\ OpenConnects => ReplyInv'
<1> SUFFICES ASSUME TypeOK, ReplyInv, OpenConnects PROVE ReplyInv'
  OBVIOUS
<1>1. pc = "open" /\ Call("rlast", arg, "open.hello") /\ link' = "live"
  BY DEF OpenConnects, Connect
<1>2. SendShape'
  BY <1>1, PlaceNames, CallShape DEF ReplyInv, TypeOK, Handshake
<1>3. Plain'
  BY <1>1, PlaceNames, PlainThere, CallPlain DEF ReplyInv, TypeOK, Handshake, Readers
<1> QED BY <1>1, <1>2, <1>3 DEF ReplyInv, Up

LEMMA CloseOK == TypeOK /\ ReplyInv /\ Close => ReplyInv'
<1> SUFFICES ASSUME TypeOK, ReplyInv, Close PROVE ReplyInv'
  OBVIOUS
<1>1. /\ pc = "close" /\ ~inreply'
      /\ \/ Call("open", "none", "fail") \/ Call("cmd", "cmd", "fail")
         \/ Return("fail")
  BY DEF Close, ForgetReply, CbDisc, EvDisc, NoHandler, Jump
<1>2. CtlOK /\ SendShape /\ Plain
  BY <1>1, PlainThere DEF ReplyInv, TypeOK
<1>3. SendShape'
  BY <1>1, <1>2, PlaceNames, CallShape, ReturnShape
<1>4. Plain'
  BY <1>1, <1>2, PlaceNames, CallPlain, ReturnPlain DEF Readers
<1> QED BY <1>1, <1>3, <1>4 DEF ReplyInv

LEMMA WritesOK == TypeOK /\ ReplyInv /\ SendWrites => ReplyInv'
<1> SUFFICES ASSUME TypeOK, ReplyInv, SendWrites PROVE ReplyInv'
  OBVIOUS
<1>1. pc = "send.opened" /\ Return("ok") /\ Up /\ UNCHANGED link
  BY DEF SendWrites
<1>2. stk[Len(stk)].at \in Sent /\ SendShape /\ CtlOK /\ Plain
  BY <1>1, PlainThere DEF ReplyInv, SendShape, TypeOK
<1>3. SendShape' /\ Plain'
  BY <1>1, <1>2, ReturnShape, ReturnPlain
<1> QED BY <1>1, <1>3 DEF ReplyInv, Up

LEMMA SendOK == TypeOK /\ ReplyInv /\ Send => ReplyInv'
<1> SUFFICES ASSUME TypeOK, ReplyInv, Send PROVE ReplyInv'
  OBVIOUS
<1>1. /\ pc = "send" /\ inreply' = inreply /\ link' = link
      /\ IF inreply THEN Return("fail") ELSE Call("open", arg, "send.opened")
  BY DEF Send, SendRefused, sess, wire
<1>2. CtlOK /\ SendShape
  BY DEF ReplyInv, TypeOK
<1>3. SendShape'
  BY <1>1, <1>2, PlaceNames, CallShape, ReturnShape
<1>4. CASE Plain
  <2>1. ~inreply
    BY <1>1, <1>4 DEF Plain, Expecting, Readers, Sent
  <2>2. Plain'
    BY <1>1, <1>2, <1>4, <2>1, PlaceNames, CallPlain DEF Readers
  <2> QED BY <1>1, <1>3, <2>1, <2>2 DEF ReplyInv
<1>5. CASE Refusing
  <2>1. /\ Len(stk) \in Nat /\ Len(stk') = Len(stk) - 1
        /\ \A i \in 1 .. Len(stk) - 1 : stk'[i] = stk[i]
        /\ pc' = stk[Len(stk)].at /\ res' = "fail"
    BY <1>1, <1>2, <1>5, ReturnFrames DEF Refusing
  <2>2. Handling'
    BY <1>1, <1>5, <2>1 DEF Refusing, Handling
  <2> QED BY <1>1, <1>3, <1>5, <2>2 DEF ReplyInv, Refusing, Up
<1> QED BY <1>1, <1>4, <1>5 DEF ReplyInv, Handling

LEMMA CmdOK == TypeOK /\ ReplyInv /\ Cmd => ReplyInv'
<1> SUFFICES ASSUME TypeOK, ReplyInv, Cmd PROVE ReplyInv'
  OBVIOUS
<1>1. /\ pc = "cmd" /\ inreply' = inreply /\ link' = link
      /\ Call("send", arg, "cmd.sent")
  BY DEF Cmd, sess, wire
<1>2. CtlOK /\ SendShape
  BY DEF ReplyInv, TypeOK
<1>3. SendShape'
  BY <1>1, <1>2, PlaceNames, CallShape DEF Sent
<1>4. CASE Plain
  <2>1. ~inreply
    BY <1>1, <1>4 DEF Plain, Expecting, Readers, Sent
  <2>2. Plain'
    BY <1>1, <1>2, <1>4, <2>1, PlaceNames, CallPlain DEF Readers
  <2> QED BY <1>1, <1>3, <2>1, <2>2 DEF ReplyInv
<1>5. CASE Handling
  <2>1. /\ Len(stk) \in Nat /\ Len(stk') = Len(stk) + 1
        /\ \A i \in 1 .. Len(stk) : stk'[i] = stk[i]
        /\ stk'[Len(stk) + 1].at = "cmd.sent" /\ pc' = "send"
    BY <1>1, <1>2, PlaceNames, CallFrames
  <2>2. Refusing'
    BY <1>1, <1>5, <2>1 DEF Refusing, Handling
  <2> QED BY <1>1, <1>3, <1>5, <2>2 DEF ReplyInv, Handling, Up
<1> QED BY <1>1, <1>4, <1>5 DEF ReplyInv, Refusing

LEMMA CmdSentOK == TypeOK /\ ReplyInv /\ CmdSent => ReplyInv'
<1> SUFFICES ASSUME TypeOK, ReplyInv, CmdSent PROVE ReplyInv'
  OBVIOUS
<1>1. /\ pc = "cmd.sent" /\ inreply' = inreply /\ link' = link
      /\ IF res = "ok" THEN Call("rlast", arg, "cmd.code") ELSE Return("fail")
  BY DEF CmdSent, sess, wire
<1>2. CtlOK /\ SendShape
  BY DEF ReplyInv, TypeOK
<1>3. SendShape'
  BY <1>1, <1>2, PlaceNames, CallShape, ReturnShape
<1>4. CASE Plain
  <2>1. res = "ok" \/ ~inreply
    BY <1>1, <1>4 DEF Plain, Expecting, Readers, Sent
  <2>2. Plain'
    BY <1>1, <1>2, <1>4, <2>1, PlaceNames, CallPlain, ReturnPlain DEF Readers
  <2> QED BY <1>1, <1>3, <2>2 DEF ReplyInv, Up
<1>5. CASE Handling
  <2>1. /\ Len(stk) \in Nat /\ Len(stk') = Len(stk) - 1
        /\ \A i \in 1 .. Len(stk) - 1 : stk'[i] = stk[i]
        /\ pc' = stk[Len(stk)].at
    BY <1>1, <1>2, <1>5, ReturnFrames DEF Handling
  <2>2. Plain'
    BY <1>1, <1>5, <2>1 DEF Plain, Handling, Expecting
  <2> QED BY <1>1, <1>3, <1>5, <2>2 DEF ReplyInv, Handling, Up
<1> QED BY <1>1, <1>4, <1>5 DEF ReplyInv, Refusing

LEMMA ItSentOK == TypeOK /\ ReplyInv /\ ItSent => ReplyInv'
<1> SUFFICES ASSUME TypeOK, ReplyInv, ItSent PROVE ReplyInv'
  OBVIOUS
<1>1. /\ pc = "it.sent" /\ inreply' = inreply /\ link' = link
      /\ IF res = "ok" THEN Goto("it.first") ELSE Return("fail")
  BY DEF ItSent, sess, wire
<1>2. CtlOK /\ SendShape /\ Plain
  BY <1>1, PlainThere DEF ReplyInv, TypeOK
<1>3. SendShape'
  BY <1>1, <1>2, GotoShape, ReturnShape
<1>4. res = "ok" \/ ~inreply
  BY <1>1, <1>2 DEF Plain, Expecting, Readers, Sent
<1>5. Plain'
  BY <1>1, <1>2, <1>4, GotoPlain, ReturnPlain DEF Readers
<1> QED BY <1>1, <1>3, <1>5 DEF ReplyInv, Up

(***************************************************************************)
(* A _duc_rnext loop that goes to close, runs a handler, or takes a line   *)
(* of the reply.                                                           *)
(***************************************************************************)
LEMMA ClosesOK ==
  ASSUME TypeOK, ReplyInv, pc \in Readers, RNextCloses,
         UNCHANGED <<inreply, link>>
  PROVE  ReplyInv'
<1>1. CtlOK /\ SendShape /\ Plain
  BY PlainThere DEF ReplyInv, TypeOK, Readers
<1>2. Goto("close") \/ Call("close", "none", "it.list")
  BY DEF RNextCloses
<1>3. SendShape' /\ Plain'
  BY <1>1, <1>2, PlaceNames, GotoShape, GotoPlain, CallShape, CallPlain DEF Readers
<1> QED BY <1>3 DEF ReplyInv, Up

LEMMA HandlerOK == TypeOK /\ ReplyInv /\ RNextBroadcast => ReplyInv'
<1> SUFFICES ASSUME TypeOK, ReplyInv, RNextBroadcast PROVE ReplyInv'
  OBVIOUS
<1>1. /\ pc \in Readers /\ inreply /\ inreply' /\ link' = link
      /\ UNCHANGED ctl \/ Call("cmd", "cmd", pc)
  BY DEF RNextBroadcast, Dispatch, EvPlayer, Jump, wire
<1>2. CtlOK /\ SendShape /\ Plain
  BY <1>1, PlainThere DEF ReplyInv, TypeOK, Readers
<1>3. CASE UNCHANGED ctl
  BY <1>1, <1>3, SameControl DEF Up
<1>4. CASE Call("cmd", "cmd", pc)
  <2>1. pc \in Places /\ pc \notin {"send", "send.opened"}
    BY <1>1, <1>2 DEF CtlOK, Readers
  <2>2. SendShape'
    BY <1>2, <1>4, <2>1, CallShape
  <2>3. /\ Len(stk) \in Nat /\ Len(stk') = Len(stk) + 1
        /\ \A i \in 1 .. Len(stk) : stk'[i] = stk[i]
        /\ stk'[Len(stk) + 1].at = pc /\ pc' = "cmd"
    BY <1>2, <1>4, <2>1, CallFrames
  <2>4. Handling'
    BY <1>1, <1>2, <2>3 DEF Plain, Handling
  <2> QED BY <1>1, <2>2, <2>4 DEF ReplyInv, Up
<1> QED BY <1>1, <1>3, <1>4

LEMMA NextReplyOK == TypeOK /\ ReplyInv /\ RNextReply => ReplyInv'
<1> SUFFICES ASSUME TypeOK, ReplyInv, RNextReply PROVE ReplyInv'
  OBVIOUS
<1>1. /\ pc \in Readers /\ inreply /\ link' = link
      /\ \/ UNCHANGED ctl /\ pc = "rlast"
         \/ Goto("it.next")
         \/ Call("rlast", arg, "fail")
         \/ UNCHANGED inreply /\ RNextCloses
  BY DEF RNextReply, Abandon, wire
<1>2. CtlOK /\ SendShape /\ Plain /\ Up'
  BY <1>1, PlainThere DEF ReplyInv, TypeOK, Readers, Up
<1>3. CASE UNCHANGED ctl /\ pc = "rlast"
  <2>1. UNCHANGED <<pc, arg, stk, res>>
    BY <1>3 DEF ctl
  <2>2. SendShape'
    BY <1>2, <2>1 DEF SendShape
  <2>3. Plain'
    BY <1>1, <1>2, <2>1 DEF Plain, Expecting
  <2> QED BY <1>2, <2>2, <2>3 DEF ReplyInv
<1>4. CASE Goto("it.next")
  BY <1>2, <1>4, GotoShape, GotoPlain DEF ReplyInv, Readers
<1>5. CASE Call("rlast", arg, "fail")
  BY <1>2, <1>5, PlaceNames, CallShape, CallPlain DEF ReplyInv, Readers
<1>6. CASE UNCHANGED inreply /\ RNextCloses
  BY <1>1, <1>6, ClosesOK
<1> QED BY <1>1, <1>3, <1>4, <1>5, <1>6

ReadStep ==
  RNextDone \/ RNextRecv \/ RNextLost \/ RNextShort \/ RNextBroadcast \/ RNextReply

LEMMA ReadStepOK == TypeOK /\ ReplyInv /\ ReadStep => ReplyInv'
<1> SUFFICES ASSUME TypeOK, ReplyInv, ReadStep PROVE ReplyInv'
  OBVIOUS
<1>1. CASE RNextDone
  <2>1. /\ pc \in Readers /\ ~inreply /\ ~inreply'
        /\ \E r \in {"ok", "fail"} : Return(r)
    BY <1>1 DEF RNextDone, sess
  <2>2. CtlOK /\ SendShape /\ Plain /\ pc # "idle"
    BY <2>1, PlainThere DEF ReplyInv, TypeOK, Readers
  <2> QED BY <2>1, <2>2, ReturnShape, ReturnPlain DEF ReplyInv
<1>2. CASE RNextRecv
  BY <1>2, SameControl DEF RNextRecv, Up
<1>3. CASE RNextLost
  BY <1>3, ClosesOK DEF RNextLost, wire, sess
<1>4. CASE RNextShort
  BY <1>4, ClosesOK DEF RNextShort, wire
<1>5. CASE RNextBroadcast
  BY <1>5, HandlerOK
<1>6. CASE RNextReply
  BY <1>6, NextReplyOK
<1> QED BY <1>1, <1>2, <1>3, <1>4, <1>5, <1>6 DEF ReadStep

(***************************************************************************)
(* All steps together, the initial state, and what the invariant gives.    *)
(***************************************************************************)
LEMMA ServerQuiet == Server => UNCHANGED <<inreply, ctl>> /\ (Up => Up')
BY DEF Server, ServerAnswers, ServerBroadcasts, ServerGarbles, ServerHangsUp,
       sess, Up

LEMMA ReplyStep == TypeOK /\ ReplyInv /\ [Next]_vars => ReplyInv'
<1> SUFFICES ASSUME TypeOK, ReplyInv, [Next]_vars PROVE ReplyInv'
  OBVIOUS
<1>1. CASE CalmStep
  BY <1>1, CalmStepOK
<1>2. CASE OpenConnects \/ Close \/ SendWrites \/ Send
  BY <1>2, ConnectsOK, CloseOK, WritesOK, SendOK
<1>3. CASE Cmd \/ CmdSent \/ ItSent
  BY <1>3, CmdOK, CmdSentOK, ItSentOK
<1>4. CASE ReadStep
  BY <1>4, ReadStepOK
<1>5. CASE Server
  BY <1>5, ServerQuiet, SameControl
<1>6. CASE UNCHANGED vars
  BY <1>6, SameControl DEF vars, wire, sess, Up
<1> QED BY <1>1, <1>2, <1>3, <1>4, <1>5, <1>6
           DEF Next, User, Library, CalmStep, ReadStep

LEMMA ReplyInit == Init => ReplyInv
<1> SUFFICES ASSUME Init PROVE ReplyInv
  OBVIOUS
<1>1. pc = "idle" /\ stk = <<>> /\ Len(stk) = 0 /\ ~inreply
  BY EmptySeq DEF Init
<1>2. \A i \in 1 .. Len(stk) : FALSE
  BY <1>1
<1> QED BY <1>1, <1>2 DEF ReplyInv, SendShape, Plain

LEMMA ReplyMeans == TypeOK /\ ReplyInv => NotWedged
<1> SUFFICES ASSUME TypeOK, ReplyInv, inreply PROVE Reading
  BY DEF ReplyInv, NotWedged
<1> DEFINE at(i) == IF i <= Len(stk) THEN stk[i].at ELSE pc
           Waits == Readers \cup {"cmd.sent", "it.sent", "close"}
<1>1. Len(stk) \in Nat
  BY DEF TypeOK, CtlOK
<1>2. CASE Plain
  <2>1. at(Len(stk) + 1) \in Waits
    BY <1>1, <1>2 DEF Plain, Expecting, Sent
  <2> QED BY <1>1, <2>1 DEF Reading
<1>3. CASE Handling
  <2>1. Len(stk) \in 1 .. Len(stk) + 1 /\ at(Len(stk)) \in Waits
    BY <1>1, <1>3 DEF Handling
  <2> QED BY <2>1 DEF Reading
<1>4. CASE Refusing
  <2>1. Len(stk) \in 1 .. Len(stk) + 1 /\ at(Len(stk)) \in Waits
    BY <1>1, <1>4 DEF Refusing
  <2> QED BY <2>1 DEF Reading
<1> QED BY <1>2, <1>3, <1>4 DEF ReplyInv

(***************************************************************************)
(* NotWedged holds for every program, every set of reply codes, every      *)
(* bound and every server, a rogue one too: however connections are lost   *)
(* and handlers nest, inreply is never left set with no one reading, so    *)
(* _duc_vsend never refuses commands for good.                             *)
(***************************************************************************)
THEOREM NeverWedged == Spec => []NotWedged
<1>1. Init => TypeOK /\ ReplyInv
  BY TypeInit, ReplyInit
<1>2. TypeOK /\ ReplyInv /\ [Next]_vars => (TypeOK /\ ReplyInv)'
  BY TypeStep, ReplyStep
<1>3. TypeOK /\ ReplyInv => NotWedged
  BY ReplyMeans
<1> QED BY <1>1, <1>2, <1>3, PTL DEF Spec

(***************************************************************************)
(* Every line that is neither short nor a broadcast carries a code.        *)
(***************************************************************************)
CodedLines == {l \in Lines : IsOther(l) => l.code # "none"}
LinesCoded == rx \in Seq(CodedLines) /\ net \in Seq(CodedLines)

(***************************************************************************)
(* What runs above a caller that looks at a code or has sent a command:    *)
(* only functions that return "ok" when a reply was read, or was asked for.*)
(***************************************************************************)
Above(i) == IF i = Len(stk) THEN pc ELSE stk[i + 1].at
ReadsReply == {"rlast", "close", "fail"}
SendsCommand == {"send", "send.opened", "close", "fail"}
Low == ReadsReply \cup SendsCommand

CallShapes ==
  \A i \in 1 .. Len(stk) :
    /\ stk[i].at = "cmd.code" => Above(i) \in ReadsReply
    /\ stk[i].at \in Sent => Above(i) \in SendsCommand

(***************************************************************************)
(* Where a code is known, or still to come with the reply.                 *)
(***************************************************************************)
CodeKnown ==
  /\ pc \in Sent /\ res = "ok" => inreply
  /\ pc = "rlast" => inreply \/ code # "none"
  /\ pc = "cmd.code" /\ res = "ok" => code # "none"
  /\ pc = "it.next" => code # "none"
  /\ \A i \in 1 .. Len(stk) : stk[i].at = "it.next" => code # "none"

CodeCtl == CallShapes /\ CodeKnown
CodeInv == LinesCoded /\ CodeCtl

(***************************************************************************)
(* CodeCtl, for each way to go on.                                         *)
(***************************************************************************)
LEMMA GotoCode ==
  ASSUME CtlOK, CodeCtl, NEW p, Goto(p),
         p \notin Sent \cup {"rlast", "cmd.code"}, pc \in Low => p = "close",
         p = "it.next" => code' # "none",
         code' = code \/ code' # "none" \/ Plain
  PROVE  CodeCtl'
<1>1. pc' = p /\ stk' = stk /\ Len(stk) \in Nat
  BY DEF Goto, CtlOK
<1>2. CallShapes'
  <2> SUFFICES ASSUME NEW i \in 1 .. Len(stk)
               PROVE  /\ stk[i].at = "cmd.code" => Above(i)' \in ReadsReply
                      /\ stk[i].at \in Sent => Above(i)' \in SendsCommand
    BY <1>1 DEF CallShapes
  <2>1. i # Len(stk) => Above(i)' = Above(i)
    BY <1>1 DEF Above
  <2>2. i = Len(stk) => Above(i) = pc /\ Above(i)' = p
    BY <1>1 DEF Above
  <2> QED BY <2>1, <2>2 DEF CodeCtl, CallShapes, Low, ReadsReply, SendsCommand
<1>3. \A i \in 1 .. Len(stk) : stk[i].at = "it.next" => code' # "none"
  BY DEF CodeCtl, CodeKnown, Plain, Readers
<1> QED BY <1>1, <1>2, <1>3 DEF CodeCtl, CodeKnown

LEMMA CallCode ==
  ASSUME CtlOK, CodeCtl, NEW f, NEW c, NEW k \in Places, Call(f, c, k),
         pc \in Low => k \in {pc, "fail"} \/ (pc = "send" /\ k = "send.opened"),
         f \notin Sent \cup {"cmd.code", "it.next"},
         f = "rlast" => inreply' \/ code' # "none",
         k = "cmd.code" => f \in ReadsReply,
         k \in Sent => f \in SendsCommand,
         k = "it.next" => code' # "none",
         code' = code \/ code' # "none" \/ Plain
  PROVE  CodeCtl'
<1>1. /\ Len(stk) \in Nat /\ Len(stk') = Len(stk) + 1
      /\ \A i \in 1 .. Len(stk) : stk'[i] = stk[i]
      /\ stk'[Len(stk) + 1].at = k /\ pc' = f /\ res' = "none"
  BY CallFrames
<1>2. CallShapes'
  <2> SUFFICES ASSUME NEW i \in 1 .. Len(stk')
               PROVE  /\ stk'[i].at = "cmd.code" => Above(i)' \in ReadsReply
                      /\ stk'[i].at \in Sent => Above(i)' \in SendsCommand
    BY DEF CallShapes
  <2>1. CASE i = Len(stk) + 1
    BY <1>1, <2>1 DEF Above
  <2>2. CASE i = Len(stk)
    <3>1. stk'[i] = stk[i] /\ Above(i) = pc /\ Above(i)' = k
      BY <1>1, <2>2 DEF Above
    <3> QED BY <1>1, <2>2, <3>1 DEF CodeCtl, CallShapes, Low, ReadsReply, SendsCommand
  <2>3. CASE i \in 1 .. Len(stk) - 1
    <3>1. stk'[i] = stk[i] /\ Above(i)' = Above(i) /\ i \in 1 .. Len(stk)
      BY <1>1, <2>3 DEF Above
    <3> QED BY <3>1 DEF CodeCtl, CallShapes
  <2> QED BY <1>1, <2>1, <2>2, <2>3
<1>3. \A i \in 1 .. Len(stk') : stk'[i].at = "it.next" => code' # "none"
  BY <1>1 DEF CodeCtl, CodeKnown, Plain, Readers
<1> QED BY <1>1, <1>2, <1>3 DEF CodeCtl, CodeKnown

LEMMA ReturnShapes ==
  ASSUME CtlOK, CallShapes, pc # "idle", NEW r, Return(r)
  PROVE  CallShapes'
<1>1. /\ Len(stk) \in Nat /\ Len(stk) >= 1 /\ Len(stk') = Len(stk) - 1
      /\ \A i \in 1 .. Len(stk) - 1 : stk'[i] = stk[i]
      /\ pc' = stk[Len(stk)].at
  BY ReturnFrames
<1>2. \A i \in 1 .. Len(stk') : stk'[i] = stk[i] /\ Above(i)' = Above(i)
  BY <1>1 DEF Above
<1> QED BY <1>1, <1>2 DEF CallShapes

LEMMA ReturnCode ==
  ASSUME CtlOK, CodeCtl, pc # "idle", NEW r, Return(r),
         r = "fail" \/ pc \notin Low,
         Plain \/ (code' = code /\ inreply')
  PROVE  CodeCtl'
<1>1. /\ Len(stk) \in Nat /\ Len(stk) >= 1 /\ Len(stk') = Len(stk) - 1
      /\ \A i \in 1 .. Len(stk) - 1 : stk'[i] = stk[i]
      /\ pc' = stk[Len(stk)].at /\ res' = r
  BY ReturnFrames
<1>2. Len(stk) \in 1 .. Len(stk) /\ Above(Len(stk)) = pc
  BY <1>1 DEF Above
<1>3. pc' \in Sent \cup {"cmd.code"} => r = "fail"
  BY <1>1, <1>2 DEF CodeCtl, CallShapes, Low
<1>4. pc' = "it.next" => code' # "none"
  BY <1>1, <1>2 DEF CodeCtl, CodeKnown, Plain, Readers
<1>5. pc' = "rlast" => inreply'
  BY <1>1, <1>2 DEF Plain, Readers
<1>6. \A i \in 1 .. Len(stk') : stk'[i].at = "it.next" => code' # "none"
  BY <1>1 DEF CodeCtl, CodeKnown, Plain, Readers
<1> QED BY <1>1, <1>3, <1>4, <1>5, <1>6, ReturnShapes DEF CodeCtl, CodeKnown

LEMMA SameCode ==
  ASSUME CodeCtl, UNCHANGED <<inreply, code, ctl>>
  PROVE  CodeCtl'
<1>1. UNCHANGED <<inreply, code, pc, arg, stk, res>>
  BY DEF ctl
<1> QED BY <1>1 DEF CodeCtl, CallShapes, CodeKnown, Above

(***************************************************************************)
(* The lines stay coded.                                                   *)
(***************************************************************************)
LEMMA RecvCoded ==
  ASSUME LinesCoded, RecvReads
  PROVE  LinesCoded'
<1>1. PICK n \in 1 .. Len(net) : /\ rx' = rx \o SubSeq(net, 1, n)
                                /\ net' = SubSeq(net, n + 1, Len(net))
  BY DEF RecvReads
<1>2. rx \in Seq(CodedLines) /\ net \in Seq(CodedLines)
  BY DEF LinesCoded
<1>3. SubSeq(net, 1, n) \in Seq(CodedLines)
  BY <1>2, PartOfSeq
<1>4. SubSeq(net, n + 1, Len(net)) \in Seq(CodedLines)
  BY <1>2, PartOfSeq
<1>5. rx' \in Seq(CodedLines) /\ net' \in Seq(CodedLines)
  BY <1>1, <1>2, <1>3, <1>4
<1> QED BY <1>5 DEF LinesCoded

LEMMA HeadCoded ==
  ASSUME LinesCoded, rx # <<>>
  PROVE  /\ IsOther(Head(rx)) => Head(rx).code # "none"
         /\ Tail(rx) \in Seq(CodedLines)
<1>1. Head(rx) \in CodedLines /\ Tail(rx) \in Seq(CodedLines)
  BY HeadTailProperties DEF LinesCoded
<1> QED BY <1>1 DEF CodedLines

LEMMA ServerCodes == TypeOK /\ LinesCoded /\ Server => LinesCoded'
<1> SUFFICES ASSUME TypeOK, LinesCoded, Server PROVE LinesCoded'
  OBVIOUS
<1>1. rx \in Seq(CodedLines) /\ net \in Seq(CodedLines) /\ rx' = rx
  BY DEF LinesCoded, Server, ServerAnswers, ServerBroadcasts, ServerGarbles,
         ServerHangsUp, sess
<1>2. owed # <<>> => Head(owed) \in {"hello"} \cup Commands
  BY HeadTailProperties DEF TypeOK, WireOK
<1>3. \A to \in LineKinds, c \in Codes, last \in BOOLEAN :
        [to |-> to, code |-> c, last |-> last] \in CodedLines
  BY CodesAssumption DEF CodedLines, Lines
<1>4. /\ [to |-> "bcast", code |-> "none", last |-> TRUE] \in CodedLines
      /\ [to |-> "short", code |-> "none", last |-> TRUE] \in CodedLines
  BY DEF CodedLines, Lines, LineKinds, IsOther, IsShort, IsBroadcast
<1>5. {"hello", "alien", "stray"} \cup Commands \subseteq LineKinds
  BY DEF LineKinds, Replies
<1>6. (\E l \in CodedLines : net' = Append(net, l)) => net' \in Seq(CodedLines)
  BY <1>1
<1>7. ASSUME NEW last \in BOOLEAN, ServerAnswers(last) PROVE net' \in Seq(CodedLines)
  <2>1. PICK c \in Codes, to \in {Head(owed), "alien"} :
          net' = Append(net, [to |-> to, code |-> c, last |-> last])
    BY <1>7 DEF ServerAnswers
  <2>2. to \in LineKinds
    BY <1>2, <1>5, <1>7, <2>1 DEF ServerAnswers
  <2> QED BY <1>3, <1>6, <2>1, <2>2
<1>8. ASSUME ServerBroadcasts PROVE net' \in Seq(CodedLines)
  BY <1>4, <1>6, <1>8 DEF ServerBroadcasts
<1>9. ASSUME ServerGarbles PROVE net' \in Seq(CodedLines)
  <2>1. CASE net' = Append(net, [to |-> "short", code |-> "none", last |-> TRUE])
    BY <1>4, <1>6, <2>1
  <2>2. ASSUME NEW c \in Codes, NEW to \in LineKinds, NEW last \in BOOLEAN,
               net' = Append(net, [to |-> to, code |-> c, last |-> last])
        PROVE  net' \in Seq(CodedLines)
    BY <1>3, <1>6, <2>2
  <2> QED BY <1>2, <1>5, <1>9, <2>1, <2>2 DEF ServerGarbles
<1>10. ASSUME ServerHangsUp PROVE net' \in Seq(CodedLines)
  <2>1. PICK n \in 0 .. Len(net) : net' = SubSeq(net, 1, n)
    BY <1>10 DEF ServerHangsUp
  <2> QED BY <1>1, <2>1, PartOfSeq
<1>11. net' \in Seq(CodedLines)
  BY <1>7, <1>8, <1>9, <1>10 DEF Server
<1> QED BY <1>1, <1>11 DEF LinesCoded

LEMMA SocketCodes ==
  LinesCoded /\ (User \/ Library \/ UNCHANGED vars) => LinesCoded'
<1> SUFFICES ASSUME LinesCoded, User \/ Library \/ UNCHANGED vars PROVE LinesCoded'
  OBVIOUS
<1>1. \/ UNCHANGED <<rx, net>>
      \/ RecvReads
      \/ rx # <<>> /\ rx' = Tail(rx) /\ UNCHANGED net
      \/ Connect
      \/ Disconnect
  <2>1. CASE User \/ UNCHANGED vars
    BY <2>1 DEF User, UserOpens, UserCommands, UserPolls, UserCloses, vars, wire, sess
  <2>2. CASE Library
    BY <2>2 DEF Library, OpenAlready, OpenUnreachable, OpenConnects, OpenGreeted,
      OpenUser, OpenPass, OpenEvent, OpenClean, ConnTrack, ConnList, ConnDone,
      Close, ReturnFail, Send, SendGivesUp, SendWrites, SendFails, Cmd, CmdSent,
      CmdCode, It, ItSent, ItList, RNextDone, RNextRecv, RNextLost, RNextShort,
      RNextBroadcast, RNextReply, Poll, PollRecv, PollLost, PollDone, PollShort,
      PollUnprocessed, PollBroadcast, Dispatch, wire, sess
  <2> QED BY <2>1, <2>2
<1>2. rx \in Seq(CodedLines) /\ net \in Seq(CodedLines) /\ <<>> \in Seq(CodedLines)
  BY EmptySeq DEF LinesCoded
<1>3. RecvReads => LinesCoded'
  BY RecvCoded
<1>4. rx # <<>> => Tail(rx) \in Seq(CodedLines)
  BY HeadCoded
<1> QED BY <1>1, <1>2, <1>3, <1>4 DEF LinesCoded, Connect, Disconnect

(***************************************************************************)
(* CodeCtl where no reply is expected and no handler can be.               *)
(***************************************************************************)
LEMMA CalmCodeGoto ==
  ASSUME TypeOK, ReplyInv, CodeCtl, Calm, NEW p, Goto(p),
         p \notin Readers \cup Sent \cup {"cmd.code"}, pc \in Low => p = "close"
  PROVE  CodeCtl'
BY CalmMeans, GotoCode DEF TypeOK, Readers

LEMMA CalmCodeCall ==
  ASSUME TypeOK, ReplyInv, CodeCtl, Calm, pc \notin Low,
         NEW f, NEW c, NEW k \in Places \ (Readers \cup {"cmd.code"}), Call(f, c, k),
         f \notin Sent \cup Readers \cup {"cmd.code"}, k \in Sent => f = "send"
  PROVE  CodeCtl'
BY CalmMeans, CallCode DEF TypeOK, Readers, SendsCommand

LEMMA CalmCodeReturn ==
  ASSUME TypeOK, ReplyInv, CodeCtl, Calm, pc # "idle", NEW r, Return(r),
         r = "fail" \/ pc \notin Low
  PROVE  CodeCtl'
BY CalmMeans, ReturnCode DEF TypeOK

LEMMA CalmCodeOK == TypeOK /\ ReplyInv /\ CodeCtl /\ CalmStep => CodeCtl'
<1> SUFFICES ASSUME TypeOK, ReplyInv, CodeCtl, CalmStep PROVE CodeCtl'
  OBVIOUS
<1>1. TypeOK /\ ReplyInv /\ CodeCtl
  OBVIOUS
<1>2. ASSUME OpenAlready PROVE CodeCtl'
  BY <1>1, <1>2, PlaceNames, CalmCodeReturn
     DEF OpenAlready, Calm, Low, ReadsReply, SendsCommand, Sent, Readers, Handshake
<1>3. ASSUME OpenUnreachable PROVE CodeCtl'
  BY <1>1, <1>3, PlaceNames, CalmCodeReturn
     DEF OpenUnreachable, Calm, Low, ReadsReply, SendsCommand, Sent, Readers, Handshake
<1>4. ASSUME OpenGreeted PROVE CodeCtl'
  BY <1>1, <1>4, PlaceNames, CalmCodeGoto, CalmCodeCall
     DEF OpenGreeted, Calm, Low, ReadsReply, SendsCommand, Sent, Readers, Handshake
<1>5. ASSUME OpenUser PROVE CodeCtl'
  BY <1>1, <1>5, PlaceNames, CalmCodeGoto, CalmCodeCall
     DEF OpenUser, Calm, Low, ReadsReply, SendsCommand, Sent, Readers, Handshake
<1>6. ASSUME OpenPass PROVE CodeCtl'
  BY <1>1, <1>6, PlaceNames, CalmCodeGoto
     DEF OpenPass, Calm, Low, ReadsReply, SendsCommand, Sent, Readers, Handshake
<1>7. ASSUME OpenEvent PROVE CodeCtl'
  BY <1>1, <1>7, PlaceNames, CalmCodeCall, CalmCodeReturn
     DEF OpenEvent, EvConn, Calm, Low, ReadsReply, SendsCommand, Sent, Readers, Handshake
<1>8. ASSUME ConnTrack PROVE CodeCtl'
  BY <1>1, <1>8, PlaceNames, CalmCodeCall
     DEF ConnTrack, Calm, Low, ReadsReply, SendsCommand, Sent, Readers, Handshake
<1>9. ASSUME ConnList PROVE CodeCtl'
  BY <1>1, <1>9, PlaceNames, CalmCodeCall
     DEF ConnList, Calm, Low, ReadsReply, SendsCommand, Sent, Readers, Handshake
<1>10. ASSUME ConnDone PROVE CodeCtl'
  BY <1>1, <1>10, PlaceNames, CalmCodeReturn
     DEF ConnDone, Calm, Low, ReadsReply, SendsCommand, Sent, Readers, Handshake
<1>11. ASSUME OpenClean PROVE CodeCtl'
  BY <1>1, <1>11, PlaceNames, CalmCodeReturn
     DEF OpenClean, Calm, Low, ReadsReply, SendsCommand, Sent, Readers, Handshake
<1>12. ASSUME ReturnFail PROVE CodeCtl'
  BY <1>1, <1>12, PlaceNames, CalmCodeReturn
     DEF ReturnFail, Calm, Low, ReadsReply, SendsCommand, Sent, Readers, Handshake
<1>13. ASSUME SendGivesUp PROVE CodeCtl'
  BY <1>1, <1>13, PlaceNames, CalmCodeReturn
     DEF SendGivesUp, Calm, Low, ReadsReply, SendsCommand, Sent, Readers, Handshake
<1>14. ASSUME SendFails PROVE CodeCtl'
  BY <1>1, <1>14, PlaceNames, CalmCodeGoto
     DEF SendFails, Calm, Low, ReadsReply, SendsCommand, Sent, Readers, Handshake
<1>15. ASSUME CmdCode PROVE CodeCtl'
  BY <1>1, <1>15, PlaceNames, CalmCodeReturn
     DEF CmdCode, Calm, Low, ReadsReply, SendsCommand, Sent, Readers, Handshake
<1>16. ASSUME It PROVE CodeCtl'
  BY <1>1, <1>16, PlaceNames, CalmCodeCall
     DEF It, Calm, Low, ReadsReply, SendsCommand, Sent, Readers, Handshake
<1>17. ASSUME ItList PROVE CodeCtl'
  BY <1>1, <1>17, PlaceNames, CalmCodeReturn
     DEF ItList, Calm, Low, ReadsReply, SendsCommand, Sent, Readers, Handshake
<1>18. ASSUME Poll PROVE CodeCtl'
  BY <1>1, <1>18, PlaceNames, CalmCodeCall
     DEF Poll, Calm, Low, ReadsReply, SendsCommand, Sent, Readers, Handshake
<1>19. ASSUME PollRecv PROVE CodeCtl'
  BY <1>1, <1>19, PlaceNames, CalmCodeGoto
     DEF PollRecv, Calm, Low, ReadsReply, SendsCommand, Sent, Readers, Handshake
<1>20. ASSUME PollLost PROVE CodeCtl'
  BY <1>1, <1>20, PlaceNames, CalmCodeCall
     DEF PollLost, Calm, Low, ReadsReply, SendsCommand, Sent, Readers, Handshake
<1>21. ASSUME PollDone PROVE CodeCtl'
  BY <1>1, <1>21, PlaceNames, CalmCodeReturn
     DEF PollDone, Calm, Low, ReadsReply, SendsCommand, Sent, Readers, Handshake
<1>22. ASSUME PollShort PROVE CodeCtl'
  BY <1>1, <1>22, PlaceNames, CalmCodeGoto
     DEF PollShort, Calm, Low, ReadsReply, SendsCommand, Sent, Readers, Handshake
<1>23. ASSUME PollUnprocessed PROVE CodeCtl'
  BY <1>1, <1>23, SameCode DEF PollUnprocessed
<1>24. ASSUME PollBroadcast PROVE CodeCtl'
  <2>1. /\ pc = "poll.drain" /\ UNCHANGED <<inreply, code>>
        /\ UNCHANGED ctl \/ Call("cmd", "cmd", pc)
    BY <1>24 DEF PollBroadcast, Dispatch, EvPlayer, Jump
  <2> QED BY <1>1, <2>1, PlaceNames, SameCode, CalmCodeCall
             DEF Calm, Low, ReadsReply, SendsCommand, Sent, Readers
<1>25. ASSUME UserOpens PROVE CodeCtl'
  BY <1>1, <1>25, PlaceNames, CalmCodeCall
     DEF UserOpens, Calm, Low, ReadsReply, SendsCommand, Sent, Readers, Handshake
<1>26. ASSUME UserCommands PROVE CodeCtl'
  BY <1>1, <1>26, PlaceNames, CalmCodeCall
     DEF UserCommands, Calm, Low, ReadsReply, SendsCommand, Sent, Readers, Handshake
<1>27. ASSUME UserPolls PROVE CodeCtl'
  BY <1>1, <1>27, PlaceNames, CalmCodeCall
     DEF UserPolls, Calm, Low, ReadsReply, SendsCommand, Sent, Readers, Handshake
<1>28. ASSUME UserCloses PROVE CodeCtl'
  BY <1>1, <1>28, PlaceNames, CalmCodeCall
     DEF UserCloses, Calm, Low, ReadsReply, SendsCommand, Sent, Readers, Handshake
<1> QED BY <1>2, <1>3, <1>4, <1>5, <1>6, <1>7, <1>8, <1>9, <1>10, <1>11,
           <1>12, <1>13, <1>14, <1>15, <1>16, <1>17, <1>18, <1>19, <1>20, <1>21, <1>22,
           <1>23, <1>24, <1>25, <1>26, <1>27, <1>28 DEF CalmStep

(***************************************************************************)
(* The actions at the other places.                                        *)
(***************************************************************************)
LEMMA ConnectsCode == TypeOK /\ ReplyInv /\ CodeCtl /\ OpenConnects => CodeCtl'
<1> SUFFICES ASSUME TypeOK, ReplyInv, CodeCtl, OpenConnects PROVE CodeCtl'
  OBVIOUS
<1>1. pc = "open" /\ Call("rlast", arg, "open.hello") /\ inreply' /\ code' = code
  BY DEF OpenConnects
<1> QED BY <1>1, PlaceNames, CallCode
           DEF TypeOK, Low, ReadsReply, SendsCommand, Sent, Handshake

LEMMA CloseCode == TypeOK /\ ReplyInv /\ CodeCtl /\ Close => CodeCtl'
<1> SUFFICES ASSUME TypeOK, ReplyInv, CodeCtl, Close PROVE CodeCtl'
  OBVIOUS
<1>1. /\ pc = "close"
      /\ \/ Call("open", "none", "fail") \/ Call("cmd", "cmd", "fail")
         \/ Return("fail")
  BY DEF Close, CbDisc, EvDisc, NoHandler, Jump
<1>2. CtlOK /\ Plain
  BY <1>1, PlainThere DEF TypeOK
<1> QED BY <1>1, <1>2, PlaceNames, CallCode, ReturnCode DEF Sent

LEMMA WritesCode == TypeOK /\ ReplyInv /\ CodeCtl /\ SendWrites => CodeCtl'
<1> SUFFICES ASSUME TypeOK, ReplyInv, CodeCtl, SendWrites PROVE CodeCtl'
  OBVIOUS
<1>1. pc = "send.opened" /\ Return("ok") /\ inreply'
  BY DEF SendWrites, AwaitReply
<1>2. CtlOK /\ Plain /\ stk[Len(stk)].at \in Sent
  BY <1>1, PlainThere DEF TypeOK, ReplyInv, SendShape
<1>3. /\ Len(stk) \in Nat /\ Len(stk) >= 1 /\ Len(stk') = Len(stk) - 1
      /\ \A i \in 1 .. Len(stk) - 1 : stk'[i] = stk[i]
      /\ pc' = stk[Len(stk)].at
  BY <1>1, <1>2, ReturnFrames
<1>4. \A i \in 1 .. Len(stk') : stk'[i].at \notin Readers
  BY <1>2, <1>3 DEF Plain
<1>5. CodeKnown'
  BY <1>1, <1>2, <1>3, <1>4 DEF CodeKnown, Sent, Readers
<1> QED BY <1>1, <1>2, <1>5, ReturnShapes DEF CodeCtl

LEMMA SendCode == TypeOK /\ ReplyInv /\ CodeCtl /\ Send => CodeCtl'
<1> SUFFICES ASSUME TypeOK, ReplyInv, CodeCtl, Send PROVE CodeCtl'
  OBVIOUS
<1>1. /\ pc = "send" /\ UNCHANGED <<inreply, code>>
      /\ IF inreply THEN Return("fail") ELSE Call("open", arg, "send.opened")
  BY DEF Send, SendRefused, sess
<1> QED BY <1>1, PlaceNames, CallCode, ReturnCode DEF TypeOK, Sent

LEMMA CmdCodes == TypeOK /\ ReplyInv /\ CodeCtl /\ Cmd => CodeCtl'
<1> SUFFICES ASSUME TypeOK, ReplyInv, CodeCtl, Cmd PROVE CodeCtl'
  OBVIOUS
<1>1. pc = "cmd" /\ UNCHANGED <<inreply, code>> /\ Call("send", arg, "cmd.sent")
  BY DEF Cmd, sess
<1> QED BY <1>1, PlaceNames, CallCode DEF TypeOK, Low, ReadsReply, SendsCommand, Sent

LEMMA CmdSentCode == TypeOK /\ ReplyInv /\ CodeCtl /\ CmdSent => CodeCtl'
<1> SUFFICES ASSUME TypeOK, ReplyInv, CodeCtl, CmdSent PROVE CodeCtl'
  OBVIOUS
<1>1. /\ pc = "cmd.sent" /\ UNCHANGED <<inreply, code>>
      /\ IF res = "ok" THEN Call("rlast", arg, "cmd.code") ELSE Return("fail")
  BY DEF CmdSent, sess
<1>2. res = "ok" => inreply'
  BY <1>1 DEF CodeCtl, CodeKnown, Sent
<1>3. Plain \/ inreply'
  BY <1>1 DEF ReplyInv, Handling, Refusing
<1> QED BY <1>1, <1>2, <1>3, PlaceNames, CallCode, ReturnCode
           DEF TypeOK, Low, ReadsReply, SendsCommand, Sent

LEMMA ItSentCode == TypeOK /\ ReplyInv /\ CodeCtl /\ ItSent => CodeCtl'
<1> SUFFICES ASSUME TypeOK, ReplyInv, CodeCtl, ItSent PROVE CodeCtl'
  OBVIOUS
<1>1. /\ pc = "it.sent" /\ UNCHANGED <<inreply, code>>
      /\ IF res = "ok" THEN Goto("it.first") ELSE Return("fail")
  BY DEF ItSent, sess
<1>2. CtlOK /\ Plain
  BY <1>1, PlainThere DEF TypeOK
<1> QED BY <1>1, <1>2, GotoCode, ReturnCode DEF Low, ReadsReply, SendsCommand, Sent

(***************************************************************************)
(* The loops around _duc_rnext.                                            *)
(***************************************************************************)
LEMMA ClosesCode ==
  ASSUME TypeOK, ReplyInv, CodeCtl, pc \in Readers, RNextCloses,
         UNCHANGED <<inreply, code>>
  PROVE  CodeCtl'
BY PlaceNames, CallCode, GotoCode
   DEF RNextCloses, TypeOK, Low, ReadsReply, SendsCommand, Sent, Readers

LEMMA DoneCode == TypeOK /\ ReplyInv /\ CodeCtl /\ RNextDone => CodeCtl'
<1> SUFFICES ASSUME TypeOK, ReplyInv, CodeCtl, RNextDone PROVE CodeCtl'
  OBVIOUS
<1>1. /\ pc \in Readers /\ ~inreply /\ UNCHANGED <<inreply, code>>
      /\ Return(IF pc = "it.first" THEN "fail" ELSE "ok")
  BY DEF RNextDone, sess
<1>2. CtlOK /\ Plain /\ pc # "idle"
  BY <1>1, PlainThere DEF TypeOK, Readers
<1>3. CASE pc # "rlast"
  BY <1>1, <1>2, <1>3, ReturnCode DEF Low, ReadsReply, SendsCommand, Readers
<1>4. CASE pc = "rlast"
  <2>1. code' # "none" /\ Return("ok")
    BY <1>1, <1>4 DEF CodeCtl, CodeKnown
  <2>2. Len(stk) \in Nat /\ Len(stk) >= 1 /\ pc' = stk[Len(stk)].at
    BY <1>2, <2>1, ReturnFrames
  <2>3. Len(stk) \in 1 .. Len(stk) /\ Above(Len(stk)) = "rlast"
    BY <1>4, <2>2 DEF Above
  <2>4. pc' \notin Sent
    BY <2>2, <2>3 DEF CodeCtl, CallShapes, SendsCommand
  <2>5. CodeKnown'
    BY <2>1, <2>4 DEF CodeKnown
  <2> QED BY <1>2, <2>1, <2>5, ReturnShapes DEF CodeCtl
<1> QED BY <1>3, <1>4

LEMMA NextReplyCode ==
  TypeOK /\ ReplyInv /\ CodeInv /\ RNextReply => CodeCtl'
<1> SUFFICES ASSUME TypeOK, ReplyInv, CodeInv, RNextReply PROVE CodeCtl'
  OBVIOUS
<1>1. /\ pc \in Readers
      /\ \/ /\ code' = Head(rx).code
            /\ \/ pc = "rlast" /\ UNCHANGED ctl
               \/ pc # "rlast" /\ Goto("it.next")
               \/ pc # "rlast" /\ Call("rlast", arg, "fail")
         \/ UNCHANGED <<code, inreply>> /\ RNextCloses
  BY DEF RNextReply, Abandon
<1>2. Head(rx).code # "none"
  BY HeadCoded DEF CodeInv, RNextReply
<1>3. CtlOK /\ CodeCtl
  BY DEF TypeOK, CodeInv
<1>4. CASE code' = Head(rx).code /\ pc = "rlast" /\ UNCHANGED ctl
  <2>1. UNCHANGED <<pc, arg, stk, res>> /\ code' # "none"
    BY <1>2, <1>4 DEF ctl
  <2>2. CallShapes'
    BY <1>3, <2>1 DEF CodeCtl, CallShapes, Above
  <2>3. CodeKnown'
    BY <1>4, <2>1 DEF CodeKnown, Sent
  <2> QED BY <2>2, <2>3 DEF CodeCtl
<1>5. CASE code' = Head(rx).code /\ pc # "rlast" /\ Goto("it.next")
  BY <1>1, <1>2, <1>3, <1>5, GotoCode
     DEF Low, ReadsReply, SendsCommand, Sent, Readers
<1>6. CASE code' = Head(rx).code /\ pc # "rlast" /\ Call("rlast", arg, "fail")
  BY <1>1, <1>2, <1>3, <1>6, PlaceNames, CallCode DEF Sent
<1>7. CASE UNCHANGED <<code, inreply>> /\ RNextCloses
  BY <1>1, <1>3, <1>7, ClosesCode
<1> QED BY <1>1, <1>4, <1>5, <1>6, <1>7

LEMMA ReadCode == TypeOK /\ ReplyInv /\ CodeInv /\ ReadStep => CodeCtl'
<1> SUFFICES ASSUME TypeOK, ReplyInv, CodeInv, ReadStep PROVE CodeCtl'
  OBVIOUS
<1>1. CtlOK /\ CodeCtl
  BY DEF TypeOK, CodeInv
<1>2. CASE RNextDone
  BY <1>1, <1>2, DoneCode
<1>3. CASE RNextRecv
  BY <1>1, <1>3, SameCode DEF RNextRecv
<1>4. CASE RNextLost
  BY <1>1, <1>4, ClosesCode DEF RNextLost, sess
<1>5. CASE RNextShort
  BY <1>1, <1>5, ClosesCode DEF RNextShort
<1>6. CASE RNextBroadcast
  <2>1. /\ pc \in Readers /\ UNCHANGED <<inreply, code>>
        /\ UNCHANGED ctl \/ Call("cmd", "cmd", pc)
    BY <1>6 DEF RNextBroadcast, Dispatch, EvPlayer, Jump
  <2>2. pc \in Places /\ (pc = "it.next" => code # "none")
    BY <1>1, <2>1 DEF CtlOK, CodeCtl, CodeKnown
  <2> QED BY <1>1, <2>1, <2>2, SameCode, CallCode DEF Sent, Readers
<1>7. CASE RNextReply
  BY <1>7, NextReplyCode
<1> QED BY <1>2, <1>3, <1>4, <1>5, <1>6, <1>7 DEF ReadStep

(***************************************************************************)
(* All steps together, the initial state, and what the invariant gives.    *)
(***************************************************************************)
LEMMA CodeStep == TypeOK /\ ReplyInv /\ CodeInv /\ [Next]_vars => CodeInv'
<1> SUFFICES ASSUME TypeOK, ReplyInv, CodeInv, [Next]_vars PROVE CodeInv'
  OBVIOUS
<1>1. LinesCoded'
  BY ServerCodes, SocketCodes DEF CodeInv, Next
<1>2. CodeCtl
  BY DEF CodeInv
<1>3. ASSUME CalmStep PROVE CodeCtl'
  BY <1>2, <1>3, CalmCodeOK
<1>4. ASSUME OpenConnects \/ Close \/ SendWrites \/ Send PROVE CodeCtl'
  BY <1>2, <1>4, ConnectsCode, CloseCode, WritesCode, SendCode
<1>5. ASSUME Cmd \/ CmdSent \/ ItSent PROVE CodeCtl'
  BY <1>2, <1>5, CmdCodes, CmdSentCode, ItSentCode
<1>6. ASSUME ReadStep PROVE CodeCtl'
  BY <1>6, ReadCode
<1>7. ASSUME Server PROVE CodeCtl'
  <2>1. UNCHANGED <<inreply, code, ctl>>
    BY <1>7 DEF Server, ServerAnswers, ServerBroadcasts, ServerGarbles,
                ServerHangsUp, sess
  <2> QED BY <1>2, <2>1, SameCode
<1>8. ASSUME UNCHANGED vars PROVE CodeCtl'
  BY <1>2, <1>8, SameCode DEF vars, sess
<1>9. CodeCtl'
  BY <1>3, <1>4, <1>5, <1>6, <1>7, <1>8 DEF Next, User, Library, CalmStep, ReadStep
<1> QED BY <1>1, <1>9 DEF CodeInv

LEMMA CodeInit == Init => CodeInv
<1> SUFFICES ASSUME Init PROVE CodeInv
  OBVIOUS
<1>1. pc = "idle" /\ Len(stk) = 0 /\ rx = <<>> /\ net = <<>>
  BY EmptySeq DEF Init
<1>2. \A i \in 1 .. Len(stk) : FALSE
  BY <1>1
<1>3. LinesCoded
  BY <1>1, EmptySeq DEF LinesCoded
<1> QED BY <1>1, <1>2, <1>3 DEF CodeInv, CodeCtl, CallShapes, CodeKnown, Sent

(***************************************************************************)
(* CodeIsThere holds for every program, every set of reply codes, every    *)
(* bound and every server, a rogue one too: where _duc_cmd_succ and its    *)
(* siblings or _duc_it_newv look at the code of a reply, one has been read *)
(* since the command was sent, so _duc_rcode does not return NULL there.   *)
(***************************************************************************)
THEOREM CodeAlwaysThere == Spec => []CodeIsThere
<1>1. Init => TypeOK /\ ReplyInv /\ CodeInv
  BY TypeInit, ReplyInit, CodeInit
<1>2. TypeOK /\ ReplyInv /\ CodeInv /\ [Next]_vars => (TypeOK /\ ReplyInv /\ CodeInv)'
  BY TypeStep, ReplyStep, CodeStep
<1>3. CodeInv => CodeIsThere
  BY DEF CodeInv, CodeCtl, CodeKnown, CodeIsThere
<1> QED BY <1>1, <1>2, <1>3, PTL DEF Spec
=============================================================================
