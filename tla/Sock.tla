-------------------------------- MODULE Sock --------------------------------
(***************************************************************************)
(* The client's end of the connection byte by byte (src/lib/sock.c): a     *)
(* receive buffer of BUFLENRCV bytes, filled by recv and cut into lines in *)
(* place, and the two ways the protocol layer uses it: _duc_rnext takes    *)
(* lines and receives when there is none, duc_poll receives first and      *)
(* takes lines then.                                                       *)
(*                                                                         *)
(* A byte of text is the number of the line it belongs to, counted from    *)
(* the connect; the two bytes that end lines are LF and CR.                *)
(***************************************************************************)
EXTENDS Integers, Sequences, FiniteSets

CONSTANTS
  BUFLENRCV,
  Lengths,      \* how many bytes of text the server's lines may have
  Terminators,  \* how it ends them: <<LF>>, <<CR, LF>>
  MaxLines      \* bound: lines it sends on a connection

LF == 0
CR == -1

ASSUME SockAssumption ==
  /\ BUFLENRCV \in Nat /\ BUFLENRCV > 2
  /\ Lengths \subseteq Nat \ {0}
  /\ Terminators \subseteq {<<LF>>, <<CR, LF>>}
  /\ MaxLines \in Nat

VARIABLES
  fd,    \* the descriptor is open (it is -1 otherwise)
  gone,  \* the server has hung up
  sent,  \* lengths of the lines it has sent
  net,   \* bytes on the way
  buf,   \* the bytes in the buffer; ilen is their number
  llen,  \* how many of them the line handed out last takes
  got,   \* the text of that line
  seen,  \* lines with any text handed out on this connection
  pc     \* "idle", "reading" or "fetching" in _duc_rnext, "receiving" or
         \* "polling" in duc_poll, "crashed"

server == <<gone, sent, net>>
vars == <<fd, server, buf, llen, got, seen, pc>>

ilen == Len(buf)
Byte == Nat \cup {LF, CR}
IsEnd(c) == c \in {LF, CR}

Init ==
  /\ fd = FALSE /\ gone = FALSE /\ sent = <<>> /\ net = <<>>
  /\ buf = <<>> /\ llen = 0 /\ got = <<>> /\ seen = 0
  /\ pc = "idle"

(***************************************************************************)
(* The server: lines, and at some time the end of them.                    *)
(***************************************************************************)
ServerSends ==
  /\ fd /\ ~gone /\ Len(sent) < MaxLines
  /\ \E n \in Lengths, end \in Terminators :
       /\ sent' = Append(sent, n)
       /\ net' = net \o [i \in 1 .. n |-> Len(sent) + 1] \o end
  /\ UNCHANGED <<fd, gone, buf, llen, got, seen, pc>>

ServerHangsUp ==
  /\ fd /\ ~gone
  /\ gone' = TRUE
  /\ \E n \in 0 .. Len(net) : net' = SubSeq(net, 1, n)
  /\ UNCHANGED <<fd, sent, buf, llen, got, seen, pc>>

(***************************************************************************)
(* duc_sock_connect and duc_sock_disconnect.                               *)
(***************************************************************************)
Connect ==
  /\ pc = "idle" /\ ~fd
  /\ fd' = TRUE /\ gone' = FALSE /\ sent' = <<>> /\ net' = <<>> /\ seen' = 0
  /\ UNCHANGED <<buf, llen, got, pc>>

BufferKept == UNCHANGED <<buf, llen>>
OnlyEmptied == buf' = <<>> /\ UNCHANGED llen
ClearBuffer == buf' = <<>> /\ llen' = 0

Disconnect ==
  /\ fd' = FALSE /\ net' = <<>>
  /\ ClearBuffer
  /\ UNCHANGED <<gone, sent, got, seen>>

Close ==
  /\ pc = "idle" /\ fd
  /\ Disconnect
  /\ UNCHANGED pc

(***************************************************************************)
(* duc_sock_recv, from the loop of _duc_rnext and at the start of duc_poll.*)
(* A recv into no room returns 0 like one at the end of the connection.    *)
(***************************************************************************)
Read == pc = "idle" /\ fd /\ pc' = "reading" /\ UNCHANGED <<fd, server, buf, llen, got, seen>>

Poll ==
  /\ pc = "idle" /\ fd /\ (net # <<>> \/ gone)
  /\ pc' = "receiving"
  /\ UNCHANGED <<fd, server, buf, llen, got, seen>>

RoomToEnd == BUFLENRCV - ilen
Room == BUFLENRCV - ilen - 1

RecvReads ==
  /\ pc \in {"fetching", "receiving"} /\ net # <<>>
  /\ \E n \in 1 .. Len(net) :
       /\ n <= Room
       /\ buf' = buf \o SubSeq(net, 1, n)
       /\ net' = SubSeq(net, n + 1, Len(net))
  /\ pc' = IF pc = "fetching" THEN "reading" ELSE "polling"
  /\ UNCHANGED <<fd, gone, sent, llen, got, seen>>

RecvFails ==
  /\ pc \in {"fetching", "receiving"}
  /\ Room = 0 \/ (net = <<>> /\ gone)
  /\ Disconnect
  /\ pc' = "idle"

(***************************************************************************)
(* duc_sock_getline: freeline drops the line handed out last, strcspn      *)
(* looks for the end of the next one, strspn passes over all the line ends *)
(* that follow it.                                                         *)
(***************************************************************************)
freeline == SubSeq(buf, llen + 1, ilen)

\* The first n bytes of b are not line ends, and no more than those.
StrcspnWithEnd(b, n) ==
  /\ n \in 1 .. Len(b)
  /\ \A i \in 1 .. n - 1 : ~IsEnd(b[i])
  /\ IsEnd(b[n])
strcspn(b, n) ==
  /\ n \in 0 .. Len(b)
  /\ \A i \in 1 .. n : ~IsEnd(b[i])
  /\ n < Len(b) => IsEnd(b[n + 1])

\* From byte m + 1 to byte n of b there are line ends, and no more than those.
strspn(b, m, n) ==
  /\ n \in m .. Len(b)
  /\ \A i \in m + 1 .. n : IsEnd(b[i])
  /\ n < Len(b) => ~IsEnd(b[n + 1])

\* No end in sight, and more may come.
FullTooSoon(b, n) == n = Len(b) /\ n < BUFLENRCV - 2
Incomplete(b, n) == n = Len(b) /\ n < BUFLENRCV - 1

Getting == pc \in {"reading", "polling"} /\ llen <= ilen

GetlineNone ==
  /\ Getting
  /\ \E n \in 0 .. ilen : strcspn(freeline, n) /\ Incomplete(freeline, n)
  /\ buf' = freeline /\ llen' = 0
  /\ pc' = IF pc = "reading" THEN "fetching" ELSE "idle"
  /\ UNCHANGED <<fd, server, got, seen>>

\* A line: the byte after its text is overwritten with 0, whatever it is.  The
\* line's reader goes on after a broadcast (duc_poll always) or returns.
GetlineText ==
  /\ Getting
  /\ \E n \in 1 .. ilen :
       /\ strcspn(freeline, n) /\ ~Incomplete(freeline, n)
       /\ got' = SubSeq(freeline, 1, n)
       /\ IF n = Len(freeline) THEN llen' = n + 1
          ELSE \E m \in n + 1 .. Len(freeline) :
                 strspn(freeline, n + 1, m) /\ llen' = m
  /\ buf' = freeline /\ seen' = seen + 1
  /\ pc' \in {pc} \cup (IF pc = "reading" THEN {"idle"} ELSE {})
  /\ UNCHANGED <<fd, server>>

\* An empty line is shorter than four characters: the session is closed.
GetlineEmpty ==
  /\ Getting /\ freeline # <<>> /\ IsEnd(freeline[1])
  /\ Disconnect
  /\ pc' = "idle"

\* freeline is to move a negative number of bytes.
GetlineCrashes ==
  /\ pc \in {"reading", "polling"} /\ llen > ilen
  /\ pc' = "crashed"
  /\ UNCHANGED <<fd, server, buf, llen, got, seen>>

Next ==
  \/ ServerSends \/ ServerHangsUp
  \/ Connect \/ Close \/ Read \/ Poll \/ RecvReads \/ RecvFails
  \/ GetlineNone \/ GetlineText \/ GetlineEmpty \/ GetlineCrashes

Spec == Init /\ [][Next]_vars

-----------------------------------------------------------------------------
TypeOK ==
  /\ fd \in BOOLEAN /\ gone \in BOOLEAN
  /\ sent \in Seq(Lengths)
  /\ net \in Seq(Byte) /\ buf \in Seq(Byte) /\ got \in Seq(Nat \ {0})
  /\ llen \in Nat /\ seen \in Nat
  /\ pc \in {"idle", "reading", "fetching", "receiving", "polling", "crashed"}

(***************************************************************************)
(* recv never writes behind the buffer, whose last byte is kept for the 0, *)
(* and _duc_rnext, which takes lines first, always leaves it room: only    *)
(* duc_poll can ask for 0 bytes and take the answer for the end.           *)
(***************************************************************************)
BufferOK ==
  /\ ilen <= BUFLENRCV - 1
  /\ pc = "fetching" => Room > 0

(***************************************************************************)
(* When no line is longer than the buffer, the line handed out lies within *)
(* what was received, so freeline moves what is left and nothing else.     *)
(***************************************************************************)
ShortLines == \A n \in Lengths : n < BUFLENRCV - 1
LineWithinBuffer == ShortLines => llen <= ilen

(***************************************************************************)
(* However recv cuts the stream and however the server ends its lines, the *)
(* texts handed out are those it sent, in order, none skipped or repeated, *)
(* none cut short but one that fills the buffer, and no half line when the *)
(* connection breaks.                                                      *)
(***************************************************************************)
IsLine(text, i) ==
  /\ Len(text) = sent[i] \/ (Len(text) = BUFLENRCV - 1 /\ sent[i] >= BUFLENRCV - 1)
  /\ \A j \in 1 .. Len(text) : text[j] = i

WholeLines ==
  [][seen' = seen + 1 => seen' <= Len(sent) /\ IsLine(got', seen')]_vars

(***************************************************************************)
(* sock.c:193, "line too long for BUFLENRCV, truncating": the program goes *)
(* on after such a line.                                                   *)
(***************************************************************************)
TruncatingIsSurvived == pc # "crashed"

(***************************************************************************)
(* The promise of LineSocket, for lines that fit.  A line is on its way    *)
(* until its end is in the buffer.                                         *)
(***************************************************************************)
Complete(b) ==
  Cardinality({ i \in 1 .. Len(b) - 1 : ~IsEnd(b[i]) /\ IsEnd(b[i + 1]) })
InBuffer == Complete(freeline)
OnTheWay == Complete(freeline \o net) - InBuffer

Lines == INSTANCE LineSocket WITH
  Line <- 1 .. MaxLines,
  link <- IF ~fd THEN "down" ELSE IF gone THEN "gone" ELSE "live",
  net  <- [i \in 1 .. OnTheWay |-> seen + InBuffer + i],
  rx   <- [i \in 1 .. InBuffer |-> seen + i]

ImplementsLines == Lines!Spec
=============================================================================
