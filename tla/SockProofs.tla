----------------------------- MODULE SockProofs -----------------------------
(* What TLAPS proves of Sock, for every size of the buffer, all lengths of  *)
(* lines and both line ends.                                                *)
EXTENDS Sock, SequenceTheorems, FunctionTheorems, FiniteSetTheorems, TLAPS

\* A part of a sequence, element by element.
LEMMA PartOfSeq ==
  ASSUME NEW S, NEW s \in Seq(S), NEW m \in 1 .. Len(s) + 1, NEW n \in 0 .. Len(s),
         m <= n + 1
  PROVE  /\ SubSeq(s, m, n) \in Seq(S)
         /\ Len(SubSeq(s, m, n)) = n - m + 1
         /\ \A i \in 1 .. n - m + 1 : SubSeq(s, m, n)[i] = s[m + i - 1]
<1>1. m \in Int /\ n \in Int /\ \A i \in m .. n : s[i] \in S
  OBVIOUS
<1> QED BY <1>1, SubSeqProperties

\* What freeline leaves is the end of the buffer.
LEMMA FreelineIsTail ==
  ASSUME TypeOK, llen <= ilen
  PROVE  /\ freeline \in Seq(Byte)
         /\ Len(freeline) = ilen - llen
         /\ \A i \in 1 .. ilen - llen : freeline[i] = buf[llen + i]
<1>1. /\ buf \in Seq(Byte) /\ llen + 1 \in 1 .. Len(buf) + 1
      /\ Len(buf) \in 0 .. Len(buf) /\ llen + 1 <= Len(buf) + 1
  BY DEF TypeOK, ilen
<1>2. /\ SubSeq(buf, llen + 1, Len(buf)) \in Seq(Byte)
      /\ Len(SubSeq(buf, llen + 1, Len(buf))) = Len(buf) - (llen + 1) + 1
      /\ \A i \in 1 .. Len(buf) - (llen + 1) + 1 :
           SubSeq(buf, llen + 1, Len(buf))[i] = buf[llen + 1 + i - 1]
  BY <1>1, PartOfSeq
<1> QED BY <1>1, <1>2 DEF freeline, ilen, TypeOK

\* What recv takes from the network goes to the end of the buffer.
LEMMA RecvMoves ==
  ASSUME TypeOK, NEW n \in 1 .. Len(net),
         buf' = buf \o SubSeq(net, 1, n), net' = SubSeq(net, n + 1, Len(net))
  PROVE  /\ buf' \in Seq(Byte) /\ net' \in Seq(Byte)
         /\ Len(buf') = Len(buf) + n /\ Len(net') = Len(net) - n
         /\ \A i \in 1 .. Len(buf) : buf'[i] = buf[i]
         /\ \A i \in 1 .. n : buf'[Len(buf) + i] = net[i]
         /\ \A i \in 1 .. Len(net) - n : net'[i] = net[n + i]
<1> DEFINE part == SubSeq(net, 1, n)
<1>1. net \in Seq(Byte) /\ buf \in Seq(Byte) /\ Len(net) \in Nat
  BY DEF TypeOK
<1>2. part \in Seq(Byte) /\ Len(part) = n /\ \A i \in 1 .. n : part[i] = net[i]
  BY <1>1, PartOfSeq
<1>3. /\ net' \in Seq(Byte) /\ Len(net') = Len(net) - n
      /\ \A i \in 1 .. Len(net) - n : net'[i] = net[n + i]
  BY <1>1, PartOfSeq
<1> HIDE DEF part
<1>4. buf' = buf \o part
  BY DEF part
<1>5. buf' \in Seq(Byte) /\ Len(buf') = Len(buf) + n
  BY <1>1, <1>2, <1>4
<1>6. \A i \in 1 .. Len(buf) : buf'[i] = buf[i]
  BY <1>1, <1>2, <1>4
<1>7. \A i \in 1 .. n : buf'[Len(buf) + i] = net[i]
  <2> SUFFICES ASSUME NEW i \in 1 .. n PROVE buf'[Len(buf) + i] = net[i]
    OBVIOUS
  <2>1. Len(buf) + i \in 1 .. Len(buf) + Len(part) /\ ~(Len(buf) + i <= Len(buf))
    BY <1>1, <1>2
  <2>2. buf'[Len(buf) + i] = part[Len(buf) + i - Len(buf)]
    BY <1>1, <1>2, <1>4, <2>1, ConcatProperties
  <2> QED BY <1>1, <1>2, <2>2
<1> QED BY <1>3, <1>5, <1>6, <1>7

(***************************************************************************)
(* Every action keeps the types.                                           *)
(***************************************************************************)
LEMMA SockTypeStep == TypeOK /\ [Next]_vars => TypeOK'
<1> SUFFICES ASSUME TypeOK, [Next]_vars PROVE TypeOK'
  OBVIOUS
<1>0. <<>> \in Seq(Byte) /\ <<>> \in Seq(Lengths)
  BY EmptySeq
<1>1. ASSUME ServerSends PROVE TypeOK'
  <2>1. PICK n \in Lengths, end \in Terminators :
          /\ sent' = Append(sent, n)
          /\ net' = net \o [i \in 1 .. n |-> Len(sent) + 1] \o end
    BY <1>1 DEF ServerSends
  <2>2. sent \in Seq(Lengths) /\ net \in Seq(Byte) /\ n \in Nat /\ Len(sent) + 1 \in Nat
    BY SockAssumption DEF TypeOK
  <2>3. [i \in 1 .. n |-> Len(sent) + 1] \in Seq(Byte)
    <3>1. \A i \in 1 .. n : Len(sent) + 1 \in Byte
      BY <2>2 DEF Byte
    <3> QED BY <2>2, <3>1
  <2>4. end \in Seq(Byte)
    <3>1. <<LF>> \in Seq(Byte) /\ <<CR, LF>> \in Seq(Byte)
      BY DEF Byte
    <3> QED BY <3>1, SockAssumption
  <2>5. net' \in Seq(Byte) /\ sent' \in Seq(Lengths)
    BY <2>1, <2>2, <2>3, <2>4
  <2> QED BY <1>1, <2>5 DEF ServerSends, TypeOK
<1>2. ASSUME ServerHangsUp PROVE TypeOK'
  <2>1. PICK n \in 0 .. Len(net) : net' = SubSeq(net, 1, n)
    BY <1>2 DEF ServerHangsUp
  <2>2. net' \in Seq(Byte)
    BY <2>1, PartOfSeq DEF TypeOK
  <2> QED BY <1>2, <2>2 DEF ServerHangsUp, TypeOK
<1>3. ASSUME Connect PROVE TypeOK'
  BY <1>0, <1>3 DEF Connect, TypeOK
<1>4. ASSUME Close PROVE TypeOK'
  BY <1>0, <1>4 DEF Close, Disconnect, ClearBuffer, TypeOK
<1>5. ASSUME Read \/ Poll PROVE TypeOK'
  BY <1>5 DEF Read, Poll, server, TypeOK
<1>6. ASSUME RecvReads PROVE TypeOK'
  <2>1. PICK n \in 1 .. Len(net) :
          buf' = buf \o SubSeq(net, 1, n) /\ net' = SubSeq(net, n + 1, Len(net))
    BY <1>6 DEF RecvReads
  <2>2. buf' \in Seq(Byte) /\ net' \in Seq(Byte)
    BY <2>1, RecvMoves
  <2> QED BY <1>6, <2>2 DEF RecvReads, TypeOK
<1>7. ASSUME RecvFails \/ GetlineEmpty PROVE TypeOK'
  <2>1. Disconnect /\ pc' = "idle"
    BY <1>7 DEF RecvFails, GetlineEmpty
  <2> QED BY <1>0, <2>1 DEF Disconnect, ClearBuffer, TypeOK
<1>8. ASSUME GetlineNone PROVE TypeOK'
  <2>1. freeline \in Seq(Byte)
    BY <1>8, FreelineIsTail DEF GetlineNone, Getting
  <2> QED BY <1>8, <2>1 DEF GetlineNone, Getting, server, TypeOK
<1>9. ASSUME GetlineText PROVE TypeOK'
  <2>1. freeline \in Seq(Byte) /\ Len(freeline) \in Nat
    BY <1>9, FreelineIsTail DEF GetlineText, Getting
  <2>2. PICK n \in 1 .. ilen :
          /\ strcspn(freeline, n)
          /\ got' = SubSeq(freeline, 1, n)
          /\ IF n = Len(freeline) THEN llen' = n + 1
             ELSE \E m \in n + 1 .. Len(freeline) : llen' = m
    BY <1>9 DEF GetlineText
  <2>3. n \in 1 .. Len(freeline) /\ \A i \in 1 .. n : ~IsEnd(freeline[i])
    BY <2>1, <2>2 DEF strcspn, TypeOK, ilen
  <2>4. \A i \in 1 .. n : freeline[i] \in Nat \ {0}
    BY <2>1, <2>3 DEF Byte, IsEnd, LF, CR
  <2>5. got' \in Seq(Nat \ {0})
    <3>1. 1 \in Int /\ n \in Int
      BY <2>3
    <3> QED BY <2>2, <2>4, <3>1, SubSeqProperties
  <2>6. llen' \in Nat
    BY <2>1, <2>2, <2>3
  <2> QED BY <1>9, <2>1, <2>5, <2>6 DEF GetlineText, Getting, server, TypeOK
<1>10. ASSUME GetlineCrashes PROVE TypeOK'
  BY <1>10 DEF GetlineCrashes, server, TypeOK
<1>11. CASE UNCHANGED vars
  BY <1>11 DEF vars, server, TypeOK
<1> QED BY <1>1, <1>2, <1>3, <1>4, <1>5, <1>6, <1>7, <1>8, <1>9, <1>10, <1>11 DEF Next

LEMMA SockTypeInit == Init => TypeOK
<1>1. <<>> \in Seq(Byte) /\ <<>> \in Seq(Lengths) /\ <<>> \in Seq(Nat \ {0})
  BY EmptySeq
<1>2. ASSUME Init PROVE fd \in BOOLEAN /\ gone \in BOOLEAN
  BY <1>2 DEF Init
<1>3. ASSUME Init PROVE llen \in Nat /\ seen \in Nat
  BY <1>3 DEF Init
<1> QED BY <1>1, <1>2, <1>3 DEF Init, TypeOK

(***************************************************************************)
(* The bytes in sight, in the buffer and on the way: an end of line is     *)
(* never BUFLENRCV - 1 bytes away when all lines are short, and the last   *)
(* byte is one while the server is there.                                  *)
(***************************************************************************)
InSight == ilen + Len(net)
At(i) == IF i <= ilen THEN buf[i] ELSE net[i - ilen]

EndsAreNear ==
  \A i \in 0 .. InSight - (BUFLENRCV - 1) :
    \E j \in i + 1 .. i + BUFLENRCV - 1 : IsEnd(At(j))
EndsWithEnd == ~gone /\ InSight > 0 => IsEnd(At(InSight))

StreamInv == ShortLines => llen <= ilen /\ EndsAreNear /\ EndsWithEnd

\* Nothing is left of a connection that is closed.
ClosedInv == ~fd => pc = "idle" /\ ilen = 0 /\ Len(net) = 0 /\ llen = 0

LEMMA InSightNat == TypeOK => ilen \in Nat /\ Len(net) \in Nat /\ InSight \in Nat
BY DEF TypeOK, InSight, ilen

(***************************************************************************)
(* What the ends of lines do when the stream stays, loses its beginning or *)
(* its end, or grows by a line.                                            *)
(***************************************************************************)
LEMMA StreamStays ==
  ASSUME TypeOK, EndsAreNear, EndsWithEnd, UNCHANGED gone,
         InSight' = InSight, \A i \in 1 .. InSight : At(i)' = At(i)
  PROVE  EndsAreNear' /\ EndsWithEnd'
<1>1. InSight \in Nat /\ BUFLENRCV - 1 \in Nat
  BY InSightNat, SockAssumption
<1>2. EndsAreNear'
  <2> SUFFICES ASSUME NEW i \in 0 .. InSight - (BUFLENRCV - 1)
               PROVE  \E j \in i + 1 .. i + BUFLENRCV - 1 : IsEnd(At(j)')
    BY SockAssumption DEF EndsAreNear, IsEnd
  <2>1. PICK j \in i + 1 .. i + BUFLENRCV - 1 : IsEnd(At(j))
    BY DEF EndsAreNear
  <2>2. j \in 1 .. InSight
    BY <1>1, SockAssumption
  <2> QED BY <2>1, <2>2
<1>3. EndsWithEnd'
  BY <1>1 DEF EndsWithEnd, IsEnd
<1> QED BY <1>2, <1>3

LEMMA StreamLosesBeginning ==
  ASSUME TypeOK, llen <= ilen, EndsAreNear, EndsWithEnd,
         buf' = freeline, UNCHANGED <<net, gone>>
  PROVE  EndsAreNear' /\ EndsWithEnd'
<1>1. InSight \in Nat /\ ilen \in Nat /\ llen \in Nat /\ Len(net) \in Nat
  BY InSightNat DEF TypeOK
<1>2. /\ ilen' = ilen - llen
      /\ \A i \in 1 .. ilen - llen : buf'[i] = buf[llen + i]
  BY FreelineIsTail DEF ilen
<1>3. InSight' = InSight - llen
  BY <1>1, <1>2 DEF InSight
<1>4. ASSUME NEW i \in 1 .. InSight - llen PROVE At(i)' = At(llen + i)
  BY <1>1, <1>2 DEF At, InSight
<1>5. EndsAreNear'
  <2> SUFFICES ASSUME NEW i \in 0 .. (InSight - llen) - (BUFLENRCV - 1)
               PROVE  \E j \in i + 1 .. i + BUFLENRCV - 1 : IsEnd(At(j)')
    BY <1>3 DEF EndsAreNear, IsEnd
  <2>1. llen + i \in 0 .. InSight - (BUFLENRCV - 1)
    BY <1>1, SockAssumption
  <2>2. PICK j \in llen + i + 1 .. llen + i + BUFLENRCV - 1 : IsEnd(At(j))
    BY <2>1 DEF EndsAreNear
  <2>3. /\ j - llen \in i + 1 .. i + BUFLENRCV - 1
        /\ j - llen \in 1 .. InSight - llen /\ llen + (j - llen) = j
    BY <1>1, <2>2, SockAssumption
  <2>4. PICK k \in 1 .. InSight - llen : k = j - llen
    BY <2>3
  <2>5. At(k)' = At(j)
    BY <1>4, <2>3, <2>4
  <2> QED BY <2>2, <2>3, <2>4, <2>5
<1>6. EndsWithEnd'
  <2> SUFFICES ASSUME ~gone, NEW k \in Nat, k = InSight', k > 0
               PROVE  IsEnd(At(k)')
    BY <1>1, <1>2, <1>3 DEF EndsWithEnd, IsEnd
  <2>1. /\ InSight > 0 /\ k \in 1 .. InSight - llen
        /\ llen + k = InSight
    BY <1>1, <1>3
  <2>2. At(k)' = At(InSight)
    BY <1>4, <2>1
  <2> QED BY <2>1, <2>2 DEF EndsWithEnd
<1> QED BY <1>5, <1>6

LEMMA StreamLosesEnd ==
  ASSUME TypeOK, EndsAreNear, ServerHangsUp
  PROVE  EndsAreNear' /\ EndsWithEnd'
<1>1. PICK n \in 0 .. Len(net) : net' = SubSeq(net, 1, n)
  BY DEF ServerHangsUp
<1>2. net \in Seq(Byte) /\ Len(net) \in Nat
  BY DEF TypeOK
<1>3. Len(net') = n /\ \A i \in 1 .. n : net'[i] = net[i]
  BY <1>1, <1>2, PartOfSeq
<1>4. ilen \in Nat /\ InSight \in Nat /\ ilen' = ilen /\ buf' = buf /\ gone'
  BY InSightNat DEF ServerHangsUp, ilen
<1>5. InSight' = ilen + n /\ InSight' <= InSight
  BY <1>1, <1>2, <1>3, <1>4 DEF InSight
<1>6. ASSUME NEW i \in 1 .. ilen + n PROVE At(i)' = At(i)
  BY <1>2, <1>3, <1>4 DEF At
<1>7. EndsAreNear'
  <2> SUFFICES ASSUME NEW i \in 0 .. (ilen + n) - (BUFLENRCV - 1)
               PROVE  \E j \in i + 1 .. i + BUFLENRCV - 1 : IsEnd(At(j)')
    BY <1>5 DEF EndsAreNear, IsEnd
  <2>1. i \in 0 .. InSight - (BUFLENRCV - 1)
    BY <1>4, <1>5, SockAssumption
  <2>2. PICK j \in i + 1 .. i + BUFLENRCV - 1 : IsEnd(At(j))
    BY <2>1 DEF EndsAreNear
  <2>3. j \in 1 .. ilen + n
    BY <1>2, <1>4, <2>2, SockAssumption
  <2> QED BY <1>6, <2>2, <2>3
<1> QED BY <1>4, <1>7 DEF EndsWithEnd

LEMMA StreamGrows ==
  ASSUME TypeOK, ShortLines, EndsAreNear, EndsWithEnd, ServerSends
  PROVE  EndsAreNear' /\ EndsWithEnd'
<1>1. PICK n \in Lengths, end \in Terminators :
        net' = net \o [i \in 1 .. n |-> Len(sent) + 1] \o end
  BY DEF ServerSends
<1> DEFINE body == [i \in 1 .. n |-> Len(sent) + 1]
<1>2. n \in Nat \ {0} /\ n < BUFLENRCV - 1 /\ BUFLENRCV \in Nat
  BY SockAssumption DEF ShortLines
<1>3. /\ end \in Seq(Byte) /\ (Len(end) = 1 \/ Len(end) = 2)
      /\ \A i \in 1 .. Len(end) : IsEnd(end[i])
  <2>1. CASE end = <<LF>>
    BY <2>1 DEF Byte, IsEnd
  <2>2. CASE end = <<CR, LF>>
    BY <2>2 DEF Byte, IsEnd
  <2> QED BY <2>1, <2>2, SockAssumption
<1>4. net \in Seq(Byte) /\ Len(sent) + 1 \in Byte /\ Len(net) \in Nat
  BY DEF TypeOK, Byte
<1>5. body \in Seq(Byte) /\ Len(body) = n
  BY <1>2, <1>4
<1> HIDE DEF body
<1> DEFINE t == net \o body
<1>6. /\ t \in Seq(Byte) /\ Len(t) = Len(net) + n
      /\ \A i \in 1 .. Len(net) : t[i] = net[i]
  BY <1>2, <1>4, <1>5
<1> HIDE DEF t
<1>7. net' = t \o end
  BY <1>1 DEF t, body
<1>8. /\ Len(net') = Len(net) + n + Len(end)
      /\ \A i \in 1 .. Len(net) : net'[i] = net[i]
      /\ \A i \in Len(net) + n + 1 .. Len(net) + n + Len(end) : IsEnd(net'[i])
  <2>1. Len(net') = Len(t) + Len(end)
    BY <1>3, <1>6, <1>7, ConcatProperties
  <2>2. \A i \in 1 .. Len(net) : net'[i] = net[i]
    BY <1>2, <1>3, <1>4, <1>6, <1>7
  <2>3. ASSUME NEW i \in Len(net) + n + 1 .. Len(net) + n + Len(end)
        PROVE  IsEnd(net'[i])
    <3>1. /\ i \in 1 .. Len(t) + Len(end) /\ ~(i <= Len(t))
          /\ i - Len(t) \in 1 .. Len(end)
      BY <1>2, <1>3, <1>4, <1>6
    <3>2. net'[i] = end[i - Len(t)]
      BY <1>3, <1>6, <1>7, <3>1, ConcatProperties
    <3> QED BY <1>3, <3>1, <3>2
  <2> QED BY <1>6, <2>1, <2>2, <2>3
<1>9. ilen \in Nat /\ InSight \in Nat /\ ilen' = ilen /\ buf' = buf /\ ~gone
  BY InSightNat DEF ServerSends, ilen
<1>10. InSight' = InSight + n + Len(end)
  BY <1>2, <1>3, <1>4, <1>8, <1>9 DEF InSight
<1>11. ASSUME NEW i \in 1 .. InSight PROVE At(i)' = At(i)
  <2>1. CASE i <= ilen
    BY <1>9, <2>1 DEF At
  <2>2. CASE ~(i <= ilen)
    <3>1. i - ilen \in 1 .. Len(net)
      BY <1>4, <1>9, <2>2 DEF InSight
    <3> QED BY <1>8, <1>9, <2>2, <3>1 DEF At
  <2> QED BY <2>1, <2>2
<1>12. \A i \in InSight + n + 1 .. InSight + n + Len(end) : IsEnd(At(i)')
  <2> SUFFICES ASSUME NEW i \in InSight + n + 1 .. InSight + n + Len(end)
               PROVE  IsEnd(At(i)')
    OBVIOUS
  <2>1. /\ ~(i <= ilen)
        /\ i - ilen \in Len(net) + n + 1 .. Len(net) + n + Len(end)
    BY <1>2, <1>3, <1>4, <1>9 DEF InSight
  <2>2. At(i)' = net'[i - ilen]
    BY <1>9, <2>1 DEF At
  <2> QED BY <1>8, <2>1, <2>2
<1>13. EndsAreNear'
  <2> SUFFICES ASSUME NEW i \in 0 .. (InSight + n + Len(end)) - (BUFLENRCV - 1)
               PROVE  \E j \in i + 1 .. i + BUFLENRCV - 1 : IsEnd(At(j)')
    BY <1>10 DEF EndsAreNear, IsEnd
  <2>1. CASE i <= InSight - (BUFLENRCV - 1)
    <3>1. i \in 0 .. InSight - (BUFLENRCV - 1)
      BY <1>2, <1>9, <2>1
    <3>2. PICK j \in i + 1 .. i + BUFLENRCV - 1 : IsEnd(At(j))
      BY <3>1 DEF EndsAreNear
    <3>3. j \in 1 .. InSight
      BY <1>2, <1>9, <3>1, <3>2
    <3> QED BY <1>11, <3>2, <3>3
  <2>2. CASE i > InSight - (BUFLENRCV - 1) /\ i < InSight
    <3>1. IsEnd(At(InSight)) /\ InSight \in 1 .. InSight
      BY <1>9, <2>2 DEF EndsWithEnd
    <3>2. InSight \in i + 1 .. i + BUFLENRCV - 1
      BY <1>2, <1>9, <2>2
    <3> QED BY <1>11, <3>1, <3>2
  <2>3. CASE i >= InSight /\ i <= InSight + n
    <3>1. PICK k \in InSight + n + 1 .. InSight + n + Len(end) :
            k = InSight + n + 1
      <4>2. \A x, y, z \in Nat : z >= 1 => x + y + 1 \in x + y + 1 .. x + y + z
        OBVIOUS
      <4>3. InSight \in Nat /\ n \in Nat
        BY <1>2, <1>9
      <4>5. \A z : z = 1 \/ z = 2 => z \in Nat /\ z >= 1
        OBVIOUS
      <4>4. Len(end) \in Nat /\ Len(end) >= 1
        BY <1>3, <4>5, Zenon
      <4>1. InSight + n + 1 \in InSight + n + 1 .. InSight + n + Len(end)
        BY <4>2, <4>3, <4>4
      <4> QED BY <4>1
    <3>2. k \in i + 1 .. i + BUFLENRCV - 1
      BY <1>2, <1>9, <2>3, <3>1
    <3> QED BY <1>12, <3>1, <3>2
  <2>4. CASE i > InSight + n
    <3>1. i + 1 \in i + 1 .. i + BUFLENRCV - 1
      BY <1>2, <1>9
    <3>2. i + 1 \in InSight + n + 1 .. InSight + n + Len(end)
      BY <1>2, <1>3, <1>9, <2>4
    <3> QED BY <1>12, <3>1, <3>2
  <2> QED BY <1>2, <1>9, <2>1, <2>2, <2>3, <2>4
<1>14. EndsWithEnd'
  <2>1. PICK k \in InSight + n + 1 .. InSight + n + Len(end) : k = InSight'
    BY <1>2, <1>3, <1>9, <1>10
  <2>2. IsEnd(At(k)')
    BY <1>12
  <2> QED BY <2>1, <2>2 DEF EndsWithEnd, IsEnd
<1> QED BY <1>13, <1>14

(***************************************************************************)
(* Taking a line, or finding none.                                         *)
(***************************************************************************)
\* With short lines there is an end in a buffer that is full of text.
LEMMA FullBufferHasEnd ==
  ASSUME TypeOK, BufferOK, EndsAreNear, llen <= ilen,
         NEW n \in Nat, strcspn(freeline, n), n = Len(freeline)
  PROVE  n < BUFLENRCV - 1
<1> SUFFICES ASSUME n >= BUFLENRCV - 1 PROVE FALSE
  BY SockAssumption
<1>1. ilen \in Nat /\ llen \in Nat /\ Len(net) \in Nat /\ InSight \in Nat
  BY InSightNat DEF TypeOK
<1>2. n = ilen - llen /\ \A i \in 1 .. n : freeline[i] = buf[llen + i]
  BY FreelineIsTail
<1>3. llen = 0 /\ n = ilen /\ ilen = BUFLENRCV - 1
  BY <1>1, <1>2, SockAssumption DEF BufferOK
<1>4. 0 \in 0 .. InSight - (BUFLENRCV - 1)
  BY <1>1, <1>3, SockAssumption DEF InSight
<1>5. PICK j \in 0 + 1 .. 0 + BUFLENRCV - 1 : IsEnd(At(j))
  BY <1>4 DEF EndsAreNear
<1>6. j \in 1 .. n /\ At(j) = buf[j] /\ freeline[j] = buf[j]
  BY <1>1, <1>2, <1>3, <1>5, SockAssumption DEF At
<1>7. ~IsEnd(freeline[j])
  BY <1>6 DEF strcspn
<1> QED BY <1>5, <1>6, <1>7

LEMMA TextOK ==
  ASSUME TypeOK, BufferOK, StreamInv, GetlineText
  PROVE  BufferOK' /\ StreamInv'
<1>1. /\ llen <= ilen /\ buf' = freeline /\ UNCHANGED <<net, gone>>
      /\ pc' \in {"reading", "polling", "idle"}
  BY DEF GetlineText, Getting, server
<1>2. ilen' = ilen - llen /\ ilen \in Nat /\ llen \in Nat
  BY <1>1, FreelineIsTail, InSightNat DEF ilen, TypeOK
<1>3. BufferOK'
  BY <1>1, <1>2, SockAssumption DEF BufferOK
<1>4. ASSUME ShortLines PROVE llen' <= ilen'
  <2>1. EndsAreNear
    BY <1>4 DEF StreamInv
  <2>2. PICK n \in 1 .. ilen :
          /\ strcspn(freeline, n) /\ ~Incomplete(freeline, n)
          /\ IF n = Len(freeline) THEN llen' = n + 1
             ELSE \E m \in n + 1 .. Len(freeline) : llen' = m
    BY DEF GetlineText
  <2>3. n # Len(freeline)
    BY <1>1, <2>1, <2>2, FullBufferHasEnd DEF Incomplete
  <2>4. \E m \in n + 1 .. Len(freeline) : llen' = m
    BY <2>2, <2>3
  <2>5. Len(freeline) = ilen'
    BY <1>1 DEF ilen
  <2> QED BY <1>2, <2>4, <2>5
<1>5. ASSUME ShortLines PROVE EndsAreNear' /\ EndsWithEnd'
  BY <1>1, <1>5, StreamLosesBeginning DEF StreamInv
<1>6. ShortLines' = ShortLines
  BY DEF ShortLines
<1> QED BY <1>3, <1>4, <1>5, <1>6 DEF StreamInv

LEMMA NoneOK ==
  ASSUME TypeOK, BufferOK, StreamInv, GetlineNone
  PROVE  BufferOK' /\ StreamInv'
<1>1. /\ llen <= ilen /\ buf' = freeline /\ llen' = 0 /\ UNCHANGED <<net, gone>>
  BY DEF GetlineNone, Getting, server
<1>2. /\ ilen' = ilen - llen /\ ilen \in Nat /\ llen \in Nat
      /\ Len(freeline) = ilen'
  BY <1>1, FreelineIsTail, InSightNat DEF ilen, TypeOK
<1>3. ilen' < BUFLENRCV - 1
  <2>1. PICK n \in 0 .. ilen : Incomplete(freeline, n)
    BY DEF GetlineNone
  <2> QED BY <1>2, <2>1 DEF Incomplete
<1>4. BufferOK'
  BY <1>2, <1>3, SockAssumption DEF BufferOK, Room
<1>5. ASSUME ShortLines PROVE EndsAreNear' /\ EndsWithEnd'
  BY <1>1, <1>5, StreamLosesBeginning DEF StreamInv
<1>6. ShortLines' = ShortLines
  BY DEF ShortLines
<1> QED BY <1>1, <1>2, <1>4, <1>5, <1>6 DEF StreamInv

LEMMA ReadsOK ==
  ASSUME TypeOK, BufferOK, StreamInv, RecvReads
  PROVE  BufferOK' /\ StreamInv'
<1>1. PICK n \in 1 .. Len(net) :
        /\ n <= Room
        /\ buf' = buf \o SubSeq(net, 1, n) /\ net' = SubSeq(net, n + 1, Len(net))
  BY DEF RecvReads
<1>2. /\ Len(buf') = Len(buf) + n /\ Len(net') = Len(net) - n
      /\ \A i \in 1 .. Len(buf) : buf'[i] = buf[i]
      /\ \A i \in 1 .. n : buf'[Len(buf) + i] = net[i]
      /\ \A i \in 1 .. Len(net) - n : net'[i] = net[n + i]
  BY <1>1, RecvMoves
<1>3. ilen \in Nat /\ Len(net) \in Nat /\ ilen' = ilen + n /\ llen' = llen /\ llen \in Nat
  BY <1>2, InSightNat DEF ilen, RecvReads, TypeOK
<1>4. BufferOK'
  BY <1>1, <1>3, SockAssumption DEF BufferOK, Room, RecvReads
<1>5. InSight' = InSight
  BY <1>2, <1>3 DEF InSight
<1>6. ASSUME NEW i \in 1 .. InSight PROVE At(i)' = At(i)
  <2>1. CASE i <= ilen
    BY <1>2, <1>3, <2>1 DEF At, ilen
  <2>2. CASE i > ilen /\ i <= ilen + n
    <3>1. i - ilen \in 1 .. n /\ Len(buf) + (i - ilen) = i
      BY <1>3, <2>2 DEF ilen
    <3>2. At(i)' = buf'[i]
      BY <1>3, <2>2 DEF At
    <3>3. buf'[i] = net[i - ilen]
      BY <1>2, <3>1
    <3> QED BY <1>3, <2>2, <3>2, <3>3 DEF At
  <2>3. CASE i > ilen + n
    <3>1. i - (ilen + n) \in 1 .. Len(net) - n /\ n + (i - (ilen + n)) = i - ilen
      BY <1>3, <2>3 DEF InSight
    <3>2. At(i)' = net'[i - (ilen + n)]
      BY <1>3, <2>3 DEF At
    <3>3. net'[i - (ilen + n)] = net[i - ilen]
      BY <1>2, <3>1
    <3> QED BY <1>3, <2>3, <3>2, <3>3 DEF At
  <2> QED BY <1>3, <2>1, <2>2, <2>3
<1>7. ASSUME ShortLines PROVE llen' <= ilen' /\ EndsAreNear' /\ EndsWithEnd'
  <2>1. llen <= ilen /\ EndsAreNear /\ EndsWithEnd /\ UNCHANGED gone
    BY <1>7 DEF StreamInv, RecvReads
  <2> QED BY <1>3, <1>5, <1>6, <2>1, StreamStays
<1>8. ShortLines' = ShortLines
  BY DEF ShortLines
<1> QED BY <1>4, <1>7, <1>8 DEF StreamInv

(***************************************************************************)
(* The invariant of the buffer: what a step may disturb is named per       *)
(* action, and the end of a connection leaves nothing to disturb.          *)
(***************************************************************************)
SockInv == BufferOK /\ StreamInv /\ ClosedInv

LEMMA EmptyOK ==
  ASSUME TypeOK, Len(buf') = 0, Len(net') = 0, llen' = 0, pc' = "idle"
  PROVE  SockInv'
<1>1. ilen' = 0 /\ InSight' = 0
  BY DEF ilen, InSight
<1>2. EndsAreNear' /\ EndsWithEnd'
  BY <1>1, SockAssumption DEF EndsAreNear, EndsWithEnd
<1> QED BY <1>1, <1>2, SockAssumption DEF SockInv, BufferOK, StreamInv, ClosedInv

LEMMA SockInvStep == TypeOK /\ SockInv /\ [Next]_vars => SockInv'
<1> SUFFICES ASSUME TypeOK, SockInv, [Next]_vars PROVE SockInv'
  OBVIOUS
<1>0. BufferOK /\ StreamInv /\ ClosedInv /\ ShortLines' = ShortLines
  BY DEF SockInv, ShortLines
<1>1. ASSUME ServerSends PROVE SockInv'
  <2>1. BufferOK' /\ ClosedInv'
    BY <1>0, <1>1 DEF ServerSends, BufferOK, ClosedInv, Room, ilen
  <2>2. StreamInv'
    BY <1>0, <1>1, StreamGrows DEF StreamInv, ServerSends, ilen
  <2> QED BY <2>1, <2>2 DEF SockInv
<1>2. ASSUME ServerHangsUp PROVE SockInv'
  <2>1. BufferOK' /\ ClosedInv'
    BY <1>0, <1>2 DEF ServerHangsUp, BufferOK, ClosedInv, Room, ilen
  <2>2. StreamInv'
    BY <1>0, <1>2, StreamLosesEnd DEF StreamInv, ServerHangsUp, ilen
  <2> QED BY <2>1, <2>2 DEF SockInv
<1>3. ASSUME Connect PROVE SockInv'
  <2>1. /\ Len(buf') = 0 /\ llen' = 0 /\ pc' = "idle"
        /\ net' = <<>>
    BY <1>0, <1>3 DEF Connect, ClosedInv, ilen
  <2> QED BY <2>1, EmptyOK
<1>4. ASSUME Close \/ RecvFails \/ GetlineEmpty PROVE SockInv'
  <2>1. buf' = <<>> /\ net' = <<>> /\ llen' = 0 /\ pc' = "idle"
    BY <1>4 DEF Close, RecvFails, GetlineEmpty, Disconnect, ClearBuffer
  <2> QED BY <2>1, EmptyOK
<1>5. ASSUME Read \/ Poll \/ GetlineCrashes \/ UNCHANGED vars PROVE SockInv'
  <2>1. /\ UNCHANGED <<fd, gone, net, buf, llen>>
        /\ pc' = pc \/ pc' \in {"reading", "receiving", "crashed"}
    BY <1>5 DEF Read, Poll, GetlineCrashes, vars, server
  <2>2. ilen' = ilen /\ InSight' = InSight /\ \A i \in 1 .. InSight : At(i)' = At(i)
    BY <2>1 DEF ilen, InSight, At
  <2>3. BufferOK'
    BY <1>0, <2>1, <2>2 DEF BufferOK, Room
  <2>4. StreamInv'
    BY <1>0, <2>1, <2>2, StreamStays DEF StreamInv
  <2>5. ClosedInv'
    <3>1. ASSUME ~fd PROVE UNCHANGED pc
      BY <1>0, <1>5, <3>1 DEF ClosedInv, Read, Poll, GetlineCrashes, vars
    <3> QED BY <1>0, <2>1, <2>2, <3>1 DEF ClosedInv
  <2> QED BY <2>3, <2>4, <2>5 DEF SockInv
<1>6. ASSUME RecvReads \/ GetlineNone \/ GetlineText PROVE SockInv'
  <2>1. fd' = fd /\ pc # "idle"
    BY <1>6 DEF RecvReads, GetlineNone, GetlineText, Getting
  <2>2. ClosedInv'
    BY <1>0, <2>1 DEF ClosedInv
  <2> QED BY <1>0, <1>6, <2>2, ReadsOK, NoneOK, TextOK DEF SockInv
<1> QED BY <1>1, <1>2, <1>3, <1>4, <1>5, <1>6 DEF Next

LEMMA SockInvInit == Init => TypeOK /\ SockInv
<1> SUFFICES ASSUME Init PROVE TypeOK /\ SockInv
  OBVIOUS
<1>1. TypeOK
  BY SockTypeInit
<1>2. ilen = 0 /\ InSight = 0 /\ llen = 0 /\ pc = "idle" /\ Len(net) = 0
  BY DEF Init, ilen, InSight
<1>3. EndsAreNear /\ EndsWithEnd
  BY <1>2, SockAssumption DEF EndsAreNear, EndsWithEnd
<1> QED BY <1>1, <1>2, <1>3, SockAssumption DEF SockInv, BufferOK, StreamInv, ClosedInv

LEMMA SockInvariant == Spec => [](TypeOK /\ SockInv)
<1>1. TypeOK /\ SockInv /\ [Next]_vars => (TypeOK /\ SockInv)'
  BY SockTypeStep, SockInvStep
<1> QED BY <1>1, SockInvInit, PTL DEF Spec

(***************************************************************************)
(* Every variable of the socket keeps its type; the text handed out holds  *)
(* no byte that ends a line.                                               *)
(***************************************************************************)
THEOREM SockTypeCorrect == Spec => []TypeOK
<1>1. TypeOK /\ SockInv => TypeOK
  OBVIOUS
<1> QED BY <1>1, SockInvariant, PTL

(***************************************************************************)
(* recv never fills the buffer's last byte, and the loop of _duc_rnext     *)
(* never asks it for 0 bytes, whatever the server sends.                   *)
(***************************************************************************)
THEOREM BufferCorrect == Spec => []BufferOK
<1>1. TypeOK /\ SockInv => BufferOK
  BY DEF SockInv
<1> QED BY <1>1, SockInvariant, PTL

(***************************************************************************)
(* When every line is shorter than BUFLENRCV - 1, the line handed out lies *)
(* within the bytes received, however recv cuts the stream.                *)
(***************************************************************************)
THEOREM LinesWithinBuffer == Spec => []LineWithinBuffer
<1>1. TypeOK /\ SockInv => LineWithinBuffer
  BY DEF SockInv, StreamInv, LineWithinBuffer
<1> QED BY <1>1, SockInvariant, PTL

(***************************************************************************)
(* The stream: what is left of the buffer behind the line handed out, and  *)
(* what is on the way.  lens are the lines sent, k how many of them were   *)
(* handed out; open when the server has not hung up.                       *)
(***************************************************************************)
Stream == freeline \o net

Text(s, i) == ~IsEnd(s[i])

\* Every byte of text belongs to a line sent, a line follows the one before,
\* each is as long as it was sent unless the stream ends first.
Labelled(s, lens) == \A i \in 1 .. Len(s) : Text(s, i) => s[i] \in 1 .. Len(lens)
Chained(s) ==
  \A i, j \in 1 .. Len(s) :
    /\ i + 1 < j /\ Text(s, i) /\ Text(s, j) /\ \A x \in i + 1 .. j - 1 : ~Text(s, x)
    => s[j] = s[i] + 1
Starts(s, i) == Text(s, i) /\ (i = 1 \/ ~Text(s, i - 1))
Whole(s, lens) ==
  \A i \in 1 .. Len(s) : Starts(s, i) =>
    \A x \in 0 .. lens[s[i]] : i + x <= Len(s) =>
      IF x < lens[s[i]] THEN s[i + x] = s[i] ELSE ~Text(s, i + x)

\* It goes on where the line handed out ended, and ends with the last line.
FirstIsNext(s, k) == Len(s) > 0 /\ Text(s, 1) => s[1] = k + 1
LastIsSent(s, lens, k) ==
  /\ Len(s) > 0 => ~Text(s, Len(s))
  /\ \A i \in 1 .. Len(s) :
       Text(s, i) /\ (\A x \in i + 1 .. Len(s) : ~Text(s, x)) => s[i] = Len(lens)
  /\ (\A i \in 1 .. Len(s) : ~Text(s, i)) => k = Len(lens)

Told(s, lens, k, open) ==
  /\ Labelled(s, lens) /\ Chained(s) /\ Whole(s, lens) /\ FirstIsNext(s, k)
  /\ open => LastIsSent(s, lens, k)

\* The server hangs up.
LEMMA ToldCut ==
  ASSUME NEW s \in Seq(Byte), NEW lens \in Seq(Lengths), NEW k \in Nat, NEW open,
         Told(s, lens, k, open), NEW t \in Seq(Byte), Len(t) <= Len(s),
         \A i \in 1 .. Len(t) : t[i] = s[i]
  PROVE  Told(t, lens, k, FALSE)
<1>0. Len(s) \in Nat /\ Len(t) \in Nat /\ \A i \in 1 .. Len(t) : Text(t, i) = Text(s, i)
  BY DEF Text
<1>1. Labelled(t, lens)
  BY <1>0 DEF Told, Labelled
<1>2. Chained(t)
  <2> SUFFICES ASSUME NEW i \in 1 .. Len(t), NEW j \in 1 .. Len(t),
                      i + 1 < j, Text(t, i), Text(t, j),
                      \A x \in i + 1 .. j - 1 : ~Text(t, x)
               PROVE  t[j] = t[i] + 1
    BY DEF Chained
  <2>1. \A x \in i + 1 .. j - 1 : x \in 1 .. Len(t)
    BY <1>0
  <2>2. i \in 1 .. Len(s) /\ j \in 1 .. Len(s) /\ Text(s, i) /\ Text(s, j)
        /\ \A x \in i + 1 .. j - 1 : ~Text(s, x)
    BY <1>0, <2>1
  <2> QED BY <2>2 DEF Told, Chained
<1>3. Whole(t, lens)
  <2> SUFFICES ASSUME NEW i \in 1 .. Len(t), Starts(t, i), NEW x \in 0 .. lens[t[i]],
                      i + x <= Len(t)
               PROVE  IF x < lens[t[i]] THEN t[i + x] = t[i] ELSE ~Text(t, i + x)
    BY DEF Whole
  <2>1. i \in 1 .. Len(s) /\ (i # 1 => i - 1 \in 1 .. Len(t)) /\ t[i] = s[i]
    BY <1>0
  <2>2. Starts(s, i)
    BY <1>0, <2>1 DEF Starts
  <2>3. i + x \in 1 .. Len(t) /\ i + x <= Len(s)
    <3>1. x \in Int /\ 0 <= x
      OBVIOUS
    <3> QED BY <1>0, <3>1
  <2>4. IF x < lens[s[i]] THEN s[i + x] = s[i] ELSE ~Text(s, i + x)
    BY <2>1, <2>2, <2>3 DEF Told, Whole
  <2> QED BY <1>0, <2>1, <2>3, <2>4
<1>4. FirstIsNext(t, k)
  BY <1>0 DEF Told, FirstIsNext
<1> QED BY <1>1, <1>2, <1>3, <1>4 DEF Told

\* The server sends a line of n bytes of text.
LEMMA ToldMore ==
  ASSUME NEW s \in Seq(Byte), NEW lens \in Seq(Lengths), NEW k \in Nat,
         Told(s, lens, k, TRUE), NEW n \in Lengths, NEW t \in Seq(Byte),
         Len(t) > Len(s) + n,
         \A i \in 1 .. Len(s) : t[i] = s[i],
         \A i \in Len(s) + 1 .. Len(s) + n : t[i] = Len(lens) + 1,
         \A i \in Len(s) + n + 1 .. Len(t) : IsEnd(t[i])
  PROVE  Told(t, Append(lens, n), k, TRUE)
<1> DEFINE N == Len(s)
           L == Len(lens)
           more == Append(lens, n)
<1>0. N \in Nat /\ Len(t) \in Nat /\ L \in Nat /\ n \in Nat \ {0}
  BY SockAssumption
<1>1. Len(more) = L + 1 /\ more[L + 1] = n /\ \A i \in 1 .. L : more[i] = lens[i] /\ lens[i] \in Nat
  <2>1. \A i \in 1 .. L : lens[i] \in Nat
    BY <1>0, ElementOfSeq, SockAssumption
  <2>2. /\ Len(more) = L + 1 /\ more[L + 1] = n /\ \A i \in 1 .. L : more[i] = lens[i]
    BY AppendProperties
  <2> QED BY <2>1, <2>2
<1>2. /\ \A i \in 1 .. N : t[i] = s[i] /\ Text(t, i) = Text(s, i)
      /\ \A i \in N + 1 .. N + n : t[i] = L + 1 /\ Text(t, i)
      /\ \A i \in N + n + 1 .. Len(t) : ~Text(t, i)
  BY <1>0 DEF Text, IsEnd, LF, CR
<1>3. /\ Labelled(s, lens) /\ Chained(s) /\ Whole(s, lens) /\ FirstIsNext(s, k)
      /\ LastIsSent(s, lens, k) /\ Len(t) > N + n
  BY DEF Told
<1> HIDE DEF N, L, more
<1>4. Labelled(t, more)
  <2> SUFFICES ASSUME NEW i \in 1 .. Len(t), Text(t, i) PROVE t[i] \in 1 .. L + 1
    BY <1>1 DEF Labelled
  <2>1. CASE i <= N
    <3>1. i \in 1 .. N /\ s[i] \in 1 .. L
      BY <2>1, <1>0, <1>2, <1>3 DEF Labelled, N, L
    <3> QED BY <3>1, <1>0, <1>2
  <2>2. CASE i > N
    BY <2>2, <1>0, <1>2
  <2> QED BY <2>1, <2>2, <1>0
<1>5. Chained(t)
  <2> SUFFICES ASSUME NEW i \in 1 .. Len(t), NEW j \in 1 .. Len(t),
                      i + 1 < j, Text(t, i), Text(t, j),
                      \A x \in i + 1 .. j - 1 : ~Text(t, x)
               PROVE  t[j] = t[i] + 1
    BY DEF Chained
  <2>1. j <= N + n
    BY <1>0, <1>2
  <2>2. CASE j <= N
    <3>1. i \in 1 .. N /\ j \in 1 .. N /\ \A x \in i + 1 .. j - 1 : x \in 1 .. N
      BY <2>2, <1>0
    <3>2. /\ Text(s, i) /\ Text(s, j) /\ \A x \in i + 1 .. j - 1 : ~Text(s, x)
      BY <3>1, <1>2
    <3>3. s[j] = s[i] + 1
      BY <3>1, <3>2, <1>3 DEF Chained, N
    <3> QED BY <3>1, <3>3, <1>2
  <2>3. CASE j > N
    <3>1. i <= N
      <4> SUFFICES ASSUME i > N PROVE FALSE
        BY <1>0
      <4>1. i + 1 \in N + 1 .. N + n /\ i + 1 \in i + 1 .. j - 1
        BY <2>1, <1>0
      <4> QED BY <4>1, <1>2
    <3>2. j = N + 1
      <4> SUFFICES ASSUME j # N + 1 PROVE FALSE
        OBVIOUS
      <4>1. N + 1 \in N + 1 .. N + n /\ N + 1 \in i + 1 .. j - 1
        BY <2>3, <3>1, <1>0
      <4> QED BY <4>1, <1>2
    <3>3. i \in 1 .. N /\ Text(s, i) /\ \A x \in i + 1 .. N : ~Text(s, x)
      <4>1. i \in 1 .. N /\ \A x \in i + 1 .. N : x \in 1 .. N /\ x \in i + 1 .. j - 1
        BY <3>1, <3>2, <1>0
      <4> QED BY <4>1, <1>2
    <3>4. s[i] = L
      BY <3>3, <1>3 DEF LastIsSent, N, L
    <3>5. t[i] = L /\ t[j] = L + 1
      BY <3>2, <3>3, <3>4, <1>0, <1>2
    <3> QED BY <3>5
  <2> QED BY <2>2, <2>3, <1>0
<1>6. Whole(t, more)
  <2> SUFFICES ASSUME NEW i \in 1 .. Len(t), Starts(t, i), NEW x \in 0 .. more[t[i]],
                      i + x <= Len(t)
               PROVE  IF x < more[t[i]] THEN t[i + x] = t[i] ELSE ~Text(t, i + x)
    BY DEF Whole
  <2>1. CASE i <= N
    <3> DEFINE b == s[i]
               l == lens[b]
    <3>1. i \in 1 .. N /\ t[i] = b /\ Text(s, i) /\ (i # 1 => i - 1 \in 1 .. N)
      BY <2>1, <1>0, <1>2 DEF Starts
    <3>2. Starts(s, i)
      BY <3>1, <1>2 DEF Starts
    <3>3. b \in 1 .. L
      BY <3>1, <1>3 DEF Labelled, N, L
    <3>4. more[b] = l /\ l \in Nat
      BY <3>3, <1>1
    <3>5. \A y \in 0 .. l : i + y <= N =>
            IF y < l THEN s[i + y] = b ELSE ~Text(s, i + y)
      BY <3>1, <3>2, <1>3 DEF Whole, N
    <3> HIDE DEF b, l
    <3>6. i + x <= N
      <4> SUFFICES ASSUME i + x > N PROVE FALSE
        BY <1>0, <3>1, <3>4
      <4> DEFINE y == N - i
      <4>1. y \in 0 .. l /\ y < l /\ i + y = N
        BY <3>1, <3>4, <1>0
      <4> HIDE DEF y
      <4>2. s[N] = b
        BY <4>1, <3>5, <1>0
      <4>3. ~Text(s, N)
        BY <3>1, <1>0, <1>3 DEF LastIsSent, N
      <4>4. Text(s, N)
        BY <4>2, <3>1 DEF Text, b
      <4> QED BY <4>3, <4>4
    <3>7. x \in 0 .. l /\ i + x \in 1 .. N
      BY <3>1, <3>4, <3>6, <1>0
    <3>8. IF x < l THEN s[i + x] = b ELSE ~Text(s, i + x)
      BY <3>5, <3>6, <3>7
    <3> QED BY <3>1, <3>4, <3>7, <3>8, <1>2
  <2>2. CASE i > N
    <3>1. i <= N + n
      BY <2>2, <1>0, <1>2 DEF Starts
    <3>2. i = N + 1
      <4> SUFFICES ASSUME i # N + 1 PROVE FALSE
        OBVIOUS
      <4>1. i - 1 \in N + 1 .. N + n /\ i # 1
        BY <2>2, <3>1, <1>0
      <4> QED BY <4>1, <1>2 DEF Starts
    <3>3. t[i] = L + 1 /\ more[t[i]] = n
      BY <3>1, <3>2, <1>0, <1>1, <1>2
    <3>4. CASE x < n
      <4>1. i + x \in N + 1 .. N + n
        BY <3>2, <3>3, <3>4, <1>0
      <4> QED BY <4>1, <3>3, <3>4, <1>2
    <3>5. CASE x = n
      <4>1. i + x \in N + n + 1 .. Len(t)
        BY <3>2, <3>5, <1>0
      <4> QED BY <4>1, <3>3, <3>5, <1>0, <1>2
    <3> QED BY <3>3, <3>4, <3>5, <1>0
  <2> QED BY <2>1, <2>2, <1>0
<1>7. FirstIsNext(t, k)
  <2>1. CASE N = 0
    <3>1. k = L
      BY <2>1, <1>3 DEF LastIsSent, N, L
    <3>2. t[1] = L + 1
      BY <2>1, <1>0, <1>2
    <3> QED BY <3>1, <3>2 DEF FirstIsNext
  <2>2. CASE N > 0
    <3>1. t[1] = s[1] /\ Text(t, 1) = Text(s, 1)
      BY <2>2, <1>0, <1>2
    <3> QED BY <2>2, <3>1, <1>3 DEF FirstIsNext, N
  <2> QED BY <2>1, <2>2, <1>0
<1>8. LastIsSent(t, more, k)
  <2>0. N + n \in 1 .. Len(t) /\ Text(t, N + n) /\ t[N + n] = L + 1
        /\ Len(t) \in N + n + 1 .. Len(t)
    BY <1>0, <1>2, <1>3
  <2>1. ~Text(t, Len(t))
    BY <2>0, <1>2
  <2>2. ASSUME NEW i \in 1 .. Len(t), Text(t, i), \A x \in i + 1 .. Len(t) : ~Text(t, x)
        PROVE  t[i] = L + 1
    <3>1. i <= N + n
      BY <2>2, <1>0, <1>2
    <3>2. i = N + n
      <4> SUFFICES ASSUME i # N + n PROVE FALSE
        OBVIOUS
      <4>1. N + n \in i + 1 .. Len(t)
        BY <2>0, <3>1, <1>0
      <4> QED BY <4>1, <2>0, <2>2
    <3> QED BY <2>0, <3>2
  <2> QED BY <2>0, <2>1, <2>2, <1>1 DEF LastIsSent
<1> QED BY <1>4, <1>5, <1>6, <1>7, <1>8 DEF Told, more

\* The first line is handed out: its n bytes of text are those of line k + 1,
\* all of them if an end follows; m bytes go, the last of them an end.
LEMMA ToldText ==
  ASSUME NEW s \in Seq(Byte), NEW lens \in Seq(Lengths), NEW k \in Nat, NEW open,
         Told(s, lens, k, open), NEW n \in 1 .. Len(s), \A i \in 1 .. n : Text(s, i)
  PROVE  /\ k + 1 \in 1 .. Len(lens) /\ n <= lens[k + 1]
         /\ \A i \in 1 .. n : s[i] = k + 1
         /\ n < Len(s) /\ ~Text(s, n + 1) => n = lens[k + 1]
<1>0. Len(s) \in Nat /\ n \in Nat /\ 1 <= n /\ 1 \in 1 .. Len(s) /\ 1 \in 1 .. n
  OBVIOUS
<1>1. s[1] = k + 1 /\ k + 1 \in 1 .. Len(lens)
  BY <1>0 DEF Told, FirstIsNext, Labelled
<1> DEFINE l == lens[k + 1]
<1>2. l \in Nat
  BY <1>1, ElementOfSeq, SockAssumption
<1>3. \A x \in 0 .. l : 1 + x <= Len(s) => IF x < l THEN s[1 + x] = k + 1 ELSE ~Text(s, 1 + x)
  BY <1>0, <1>1 DEF Told, Whole, Starts
<1> HIDE DEF l
<1>4. n <= l
  <2> SUFFICES ASSUME n > l PROVE FALSE
    BY <1>0, <1>2
  <2>1. l \in 0 .. l /\ 1 + l \in 1 .. n /\ 1 + l <= Len(s)
    BY <1>0, <1>2
  <2> QED BY <2>1, <1>2, <1>3
<1>5. ASSUME NEW i \in 1 .. n PROVE s[i] = k + 1
  <2>1. i - 1 \in 0 .. l /\ i - 1 < l /\ 1 + (i - 1) = i /\ i <= Len(s)
    BY <1>0, <1>2, <1>4
  <2> QED BY <2>1, <1>3
<1>6. ASSUME n < Len(s), ~Text(s, n + 1) PROVE n = l
  <2> SUFFICES ASSUME n < l PROVE FALSE
    BY <1>0, <1>2, <1>4
  <2>1. n \in 0 .. l /\ 1 + n <= Len(s) /\ 1 + n = n + 1
    BY <1>0, <1>2, <1>6
  <2>2. s[n + 1] = k + 1 /\ s[n] = k + 1
    BY <2>1, <1>0, <1>3, <1>5
  <2> QED BY <2>2, <1>0, <1>6 DEF Text
<1> QED BY <1>1, <1>4, <1>5, <1>6 DEF l

LEMMA ToldRest ==
  ASSUME NEW s \in Seq(Byte), NEW lens \in Seq(Lengths), NEW k \in Nat, NEW open,
         Told(s, lens, k, open), NEW n \in 1 .. Len(s), \A i \in 1 .. n : Text(s, i),
         NEW m \in n + 1 .. Len(s), \A i \in n + 1 .. m : ~Text(s, i),
         NEW t \in Seq(Byte), Len(t) = Len(s) - m,
         \A i \in 1 .. Len(t) : t[i] = s[m + i]
  PROVE  Told(t, lens, k + 1, open)
<1>0. /\ Len(s) \in Nat /\ Len(t) \in Nat /\ n \in Nat \ {0} /\ m \in Nat /\ n < m /\ m <= Len(s)
      /\ s[n] = k + 1 /\ Text(s, n) /\ ~Text(s, m)
  BY ToldText
<1>1. \A i \in 1 .. Len(t) : m + i \in 1 .. Len(s) /\ Text(t, i) = Text(s, m + i)
  BY <1>0 DEF Text
<1>2. /\ Labelled(s, lens) /\ Chained(s) /\ Whole(s, lens)
      /\ open => LastIsSent(s, lens, k)
  BY DEF Told
<1>3. Labelled(t, lens)
  BY <1>1, <1>2 DEF Labelled
<1>4. Chained(t)
  <2> SUFFICES ASSUME NEW i \in 1 .. Len(t), NEW j \in 1 .. Len(t),
                      i + 1 < j, Text(t, i), Text(t, j),
                      \A x \in i + 1 .. j - 1 : ~Text(t, x)
               PROVE  t[j] = t[i] + 1
    BY DEF Chained
  <2>1. ASSUME NEW x \in (m + i) + 1 .. (m + j) - 1 PROVE ~Text(s, x)
    <3>1. x - m \in i + 1 .. j - 1 /\ x - m \in 1 .. Len(t) /\ m + (x - m) = x
      BY <1>0
    <3> QED BY <3>1, <1>1
  <2>2. m + i \in 1 .. Len(s) /\ m + j \in 1 .. Len(s) /\ (m + i) + 1 < m + j
        /\ Text(s, m + i) /\ Text(s, m + j)
    BY <1>0, <1>1
  <2>3. s[m + j] = s[m + i] + 1
    BY <2>1, <2>2, <1>2 DEF Chained
  <2> QED BY <2>3
<1>5. Whole(t, lens)
  <2> SUFFICES ASSUME NEW i \in 1 .. Len(t), Starts(t, i), NEW x \in 0 .. lens[t[i]],
                      i + x <= Len(t)
               PROVE  IF x < lens[t[i]] THEN t[i + x] = t[i] ELSE ~Text(t, i + x)
    BY DEF Whole
  <2>1. Text(s, m + i) /\ m + i \in 1 .. Len(s) /\ m + i # 1
    BY <1>0, <1>1 DEF Starts
  <2>2. ~Text(s, m + i - 1)
    <3>1. CASE i = 1
      BY <3>1, <1>0
    <3>2. CASE i # 1
      <4>1. i - 1 \in 1 .. Len(t) /\ m + (i - 1) = m + i - 1
        BY <3>2, <1>0
      <4> QED BY <3>2, <4>1, <1>1 DEF Starts
    <3> QED BY <3>1, <3>2
  <2>3. x \in Nat /\ i + x \in 1 .. Len(t) /\ (m + i) + x = m + (i + x) /\ (m + i) + x <= Len(s)
    <3>1. x \in Int /\ 0 <= x
      OBVIOUS
    <3> QED BY <3>1, <1>0
  <2>4. t[i] = s[m + i] /\ t[i + x] = s[m + (i + x)]
    BY <2>3
  <2>5. IF x < lens[s[m + i]] THEN s[(m + i) + x] = s[m + i] ELSE ~Text(s, (m + i) + x)
    <3>1. Starts(s, m + i)
      BY <2>1, <2>2 DEF Starts
    <3>2. x \in 0 .. lens[s[m + i]]
      BY <2>4
    <3> QED BY <3>1, <3>2, <2>1, <2>3, <1>2 DEF Whole
  <2> QED BY <2>3, <2>4, <2>5, <1>1
<1>6. FirstIsNext(t, k + 1)
  <2> SUFFICES ASSUME Len(t) > 0, Text(t, 1) PROVE t[1] = k + 1 + 1
    BY DEF FirstIsNext
  <2>1. m + 1 \in 1 .. Len(s) /\ Text(s, m + 1) /\ n \in 1 .. Len(s) /\ n + 1 < m + 1
        /\ t[1] = s[m + 1]
    BY <1>0, <1>1
  <2>2. \A x \in n + 1 .. (m + 1) - 1 : ~Text(s, x)
    BY <1>0
  <2>3. s[m + 1] = s[n] + 1
    BY <2>1, <2>2, <1>0, <1>2 DEF Chained
  <2> QED BY <2>1, <2>3, <1>0
<1>7. ASSUME open PROVE LastIsSent(t, lens, k + 1)
  <2>0. LastIsSent(s, lens, k)
    BY <1>2, <1>7
  <2>1. Len(t) > 0 => ~Text(t, Len(t))
    <3> SUFFICES ASSUME Len(t) > 0 PROVE ~Text(t, Len(t))
      OBVIOUS
    <3>1. Len(t) \in 1 .. Len(t) /\ m + Len(t) = Len(s) /\ Len(s) > 0
      BY <1>0
    <3>2. Text(t, Len(t)) = Text(s, m + Len(t))
      BY <3>1, <1>1
    <3> QED BY <2>0, <3>1, <3>2 DEF LastIsSent
  <2>2. ASSUME NEW i \in 1 .. Len(t), Text(t, i), \A x \in i + 1 .. Len(t) : ~Text(t, x)
        PROVE  t[i] = Len(lens)
    <3>1. ASSUME NEW x \in (m + i) + 1 .. Len(s) PROVE ~Text(s, x)
      <4>1. x - m \in i + 1 .. Len(t) /\ x - m \in 1 .. Len(t) /\ m + (x - m) = x
        BY <1>0
      <4> QED BY <4>1, <2>2, <1>1
    <3>2. m + i \in 1 .. Len(s) /\ Text(s, m + i)
      BY <2>2, <1>1
    <3>3. s[m + i] = Len(lens)
      BY <2>0, <3>1, <3>2 DEF LastIsSent
    <3> QED BY <3>3
  <2>3. ASSUME \A i \in 1 .. Len(t) : ~Text(t, i) PROVE k + 1 = Len(lens)
    <3>1. ASSUME NEW x \in n + 1 .. Len(s) PROVE ~Text(s, x)
      <4>1. CASE x <= m
        BY <4>1, <1>0
      <4>2. CASE x > m
        <5>1. x - m \in 1 .. Len(t) /\ m + (x - m) = x
          BY <4>2, <1>0
        <5> QED BY <5>1, <2>3, <1>1
      <4> QED BY <4>1, <4>2, <1>0
    <3>2. n \in 1 .. Len(s)
      BY <1>0
    <3>3. s[n] = Len(lens)
      BY <2>0, <3>1, <3>2, <1>0 DEF LastIsSent
    <3> QED BY <3>3, <1>0
  <2> QED BY <2>1, <2>2, <2>3 DEF LastIsSent
<1> QED BY <1>3, <1>4, <1>5, <1>6, <1>7 DEF Told

\* Nothing was sent, nothing was handed out.
LEMMA ToldNothing == Told(<<>>, <<>>, 0, TRUE)
<1>1. Len(<<>>) = 0 /\ 1 .. 0 = {}
  BY EmptySeq
<1> QED BY <1>1 DEF Told, Labelled, Chained, Whole, FirstIsNext, LastIsSent

\* What follows the first l bytes of b, and x behind it.
LEMMA StreamParts ==
  ASSUME NEW b \in Seq(Byte), NEW l \in 0 .. Len(b), NEW x \in Seq(Byte)
  PROVE  LET f == SubSeq(b, l + 1, Len(b))
             s == f \o x
         IN /\ f \in Seq(Byte) /\ Len(f) = Len(b) - l
            /\ \A i \in 1 .. Len(b) - l : f[i] = b[l + i] /\ s[i] = b[l + i]
            /\ s \in Seq(Byte) /\ Len(s) = Len(b) - l + Len(x)
            /\ \A i \in 1 .. Len(x) : s[Len(b) - l + i] = x[i]
<1> DEFINE f == SubSeq(b, l + 1, Len(b))
           s == f \o x
<1>0. Len(b) \in Nat /\ Len(x) \in Nat /\ l \in Nat /\ l <= Len(b)
  OBVIOUS
<1>1. /\ l + 1 \in 1 .. Len(b) + 1 /\ Len(b) \in 0 .. Len(b) /\ l + 1 <= Len(b) + 1
  BY <1>0
<1>2. /\ f \in Seq(Byte) /\ Len(f) = Len(b) - (l + 1) + 1
      /\ \A i \in 1 .. Len(b) - (l + 1) + 1 : f[i] = b[l + 1 + i - 1]
  BY <1>1, PartOfSeq
<1> HIDE DEF f
<1>3. Len(f) = Len(b) - l
  BY <1>0, <1>2
<1>4. \A i \in 1 .. Len(b) - l : f[i] = b[l + i]
  BY <1>0, <1>2
<1>5. /\ s \in Seq(Byte) /\ Len(s) = Len(f) + Len(x)
      /\ \A i \in 1 .. Len(f) + Len(x) :
           s[i] = IF i <= Len(f) THEN f[i] ELSE x[i - Len(f)]
  BY <1>2, ConcatProperties
<1> HIDE DEF s
<1>6. \A i \in 1 .. Len(b) - l : s[i] = f[i]
  BY <1>0, <1>3, <1>5
<1>7. ASSUME NEW i \in 1 .. Len(x) PROVE s[Len(b) - l + i] = x[i]
  <2>1. /\ Len(f) + i \in 1 .. Len(f) + Len(x) /\ ~(Len(f) + i <= Len(f))
        /\ Len(f) + i - Len(f) = i
    BY <1>0, <1>3
  <2>2. s[Len(f) + i] = x[i]
    BY <2>1, <1>5
  <2>3. Len(b) - l + i = Len(f) + i
    BY <1>0, <1>3
  <2> QED BY <2>2, <2>3
<1>8. Len(s) = Len(b) - l + Len(x)
  BY <1>3, <1>5
<1> QED BY <1>2, <1>3, <1>4, <1>5, <1>6, <1>7, <1>8 DEF f, s

\* The stream, byte by byte.
LEMMA StreamBytes ==
  ASSUME TypeOK, llen <= ilen
  PROVE  /\ Stream \in Seq(Byte) /\ Len(Stream) = ilen - llen + Len(net)
         /\ \A i \in 1 .. ilen - llen : Stream[i] = buf[llen + i] /\ Stream[i] = freeline[i]
         /\ \A i \in 1 .. Len(net) : Stream[ilen - llen + i] = net[i]
         /\ ilen \in Nat /\ llen \in Nat /\ Len(net) \in Nat
         /\ freeline \in Seq(Byte) /\ Len(freeline) = ilen - llen
<1>1. buf \in Seq(Byte) /\ llen \in 0 .. Len(buf) /\ net \in Seq(Byte)
  BY DEF TypeOK, ilen
<1> DEFINE f == SubSeq(buf, llen + 1, Len(buf))
           s == f \o net
<1>2. /\ f \in Seq(Byte) /\ Len(f) = Len(buf) - llen
      /\ \A i \in 1 .. Len(buf) - llen : f[i] = buf[llen + i] /\ s[i] = buf[llen + i]
      /\ s \in Seq(Byte) /\ Len(s) = Len(buf) - llen + Len(net)
      /\ \A i \in 1 .. Len(net) : s[Len(buf) - llen + i] = net[i]
  BY <1>1, StreamParts
<1>3. f = freeline /\ s = Stream /\ ilen = Len(buf) /\ ilen \in Nat /\ Len(net) \in Nat
      /\ llen \in Nat
  BY <1>1 DEF Stream, freeline, ilen
<1> HIDE DEF f, s
<1> QED BY <1>2, <1>3

\* The same of the next state.
LEMMA StreamBytesNext ==
  ASSUME TypeOK', llen' <= ilen'
  PROVE  /\ Stream' \in Seq(Byte) /\ Len(Stream') = ilen' - llen' + Len(net')
         /\ \A i \in 1 .. ilen' - llen' : Stream'[i] = buf'[llen' + i]
         /\ \A i \in 1 .. Len(net') : Stream'[ilen' - llen' + i] = net'[i]
         /\ ilen' \in Nat /\ llen' \in Nat /\ Len(net') \in Nat
         /\ freeline' \in Seq(Byte) /\ Len(freeline') = ilen' - llen'
         /\ \A i \in 1 .. ilen' - llen' : freeline'[i] = buf'[llen' + i]
<1>1. buf' \in Seq(Byte) /\ llen' \in 0 .. Len(buf') /\ net' \in Seq(Byte)
  BY DEF TypeOK, ilen
<1> DEFINE f == SubSeq(buf', llen' + 1, Len(buf'))
           s == f \o net'
<1>2. /\ f \in Seq(Byte) /\ Len(f) = Len(buf') - llen'
      /\ \A i \in 1 .. Len(buf') - llen' : f[i] = buf'[llen' + i] /\ s[i] = buf'[llen' + i]
      /\ s \in Seq(Byte) /\ Len(s) = Len(buf') - llen' + Len(net')
      /\ \A i \in 1 .. Len(net') : s[Len(buf') - llen' + i] = net'[i]
  BY <1>1, StreamParts
<1>3. f = freeline' /\ s = Stream' /\ ilen' = Len(buf') /\ ilen' \in Nat /\ Len(net') \in Nat
      /\ llen' \in Nat
  BY <1>1 DEF Stream, freeline, ilen
<1> HIDE DEF f, s
<1> QED BY <1>2, <1>3

\* Receiving moves bytes within the stream.
LEMMA StreamReceived ==
  ASSUME TypeOK, TypeOK', llen <= ilen, RecvReads
  PROVE  Stream' = Stream /\ llen' <= ilen'
<1>1. PICK n \in 1 .. Len(net) :
        buf' = buf \o SubSeq(net, 1, n) /\ net' = SubSeq(net, n + 1, Len(net))
  BY DEF RecvReads
<1>2. /\ Len(buf') = Len(buf) + n /\ Len(net') = Len(net) - n
      /\ \A i \in 1 .. Len(buf) : buf'[i] = buf[i]
      /\ \A i \in 1 .. n : buf'[Len(buf) + i] = net[i]
      /\ \A i \in 1 .. Len(net) - n : net'[i] = net[n + i]
  BY <1>1, RecvMoves
<1>3. /\ llen' = llen /\ ilen = Len(buf) /\ ilen' = ilen + n /\ n \in Nat
  BY <1>2 DEF RecvReads, ilen
<1>4. llen' <= ilen'
  BY <1>3, StreamBytes
<1> DEFINE a == ilen - llen
<1>5. /\ Stream \in Seq(Byte) /\ Len(Stream) = a + Len(net) /\ a \in Nat /\ Len(net) \in Nat
      /\ \A i \in 1 .. a : Stream[i] = buf[llen + i]
      /\ \A i \in 1 .. Len(net) : Stream[a + i] = net[i]
      /\ llen \in Nat
  BY StreamBytes
<1>6. ilen' - llen' = a + n
  BY <1>3, <1>5, StreamBytes
<1>7. /\ Stream' \in Seq(Byte) /\ Len(Stream') = a + n + Len(net')
      /\ \A i \in 1 .. a + n : Stream'[i] = buf'[llen + i]
      /\ \A i \in 1 .. Len(net') : Stream'[a + n + i] = net'[i]
  BY <1>3, <1>4, <1>6, StreamBytesNext
<1>8. llen + a = Len(buf)
  BY <1>3, StreamBytes
<1> HIDE DEF a
<1>9. Len(Stream') = Len(Stream)
  BY <1>2, <1>3, <1>5, <1>7
<1>10. ASSUME NEW i \in 1 .. Len(Stream') PROVE Stream'[i] = Stream[i]
  <2>1. CASE i <= a
    <3>1. i \in 1 .. a /\ i \in 1 .. a + n /\ llen + i \in 1 .. Len(buf)
      BY <2>1, <1>3, <1>5, <1>8
    <3> QED BY <3>1, <1>2, <1>5, <1>7
  <2>2. CASE i > a /\ i <= a + n
    <3> DEFINE j == i - a
    <3>0. Len(buf) \in Nat /\ n <= Len(net) /\ n \in Nat /\ i \in Nat
      BY <1>3, <1>5, <1>8
    <3>1. j \in 1 .. n /\ j \in 1 .. Len(net) /\ i \in 1 .. a + n
          /\ llen + i = Len(buf) + j /\ a + j = i
      <4>1. j \in 1 .. n
        BY <3>0, <2>2, <1>5
      <4>2. i \in 1 .. a + n
        BY <3>0, <2>2, <1>5
      <4>3. llen + i = Len(buf) + j /\ a + j = i
        <5>1. a \in Nat /\ llen \in Nat /\ a + j = i /\ j \in Nat
          BY <4>1, <3>0, <1>5
        <5>2. llen + (a + j) = (llen + a) + j
          BY <5>1
        <5> QED BY <5>1, <5>2, <1>8
      <4> QED BY <4>1, <4>2, <4>3, <3>0, <1>5
    <3> HIDE DEF j
    <3>2. Stream'[i] = buf'[Len(buf) + j] /\ Stream[i] = net[j]
      BY <3>1, <1>5, <1>7
    <3> QED BY <3>1, <3>2, <1>2
  <2>3. CASE i > a + n
    <3> DEFINE j == i - (a + n)
    <3>1. j \in 1 .. Len(net) - n /\ j \in 1 .. Len(net') /\ n + j \in 1 .. Len(net)
          /\ a + n + j = i /\ a + (n + j) = i
      BY <2>3, <1>2, <1>3, <1>5, <1>7
    <3> HIDE DEF j
    <3>2. Stream'[i] = net'[j] /\ Stream[i] = net[n + j]
      BY <3>1, <1>5, <1>7
    <3> QED BY <3>1, <3>2, <1>2
  <2> QED BY <2>1, <2>2, <2>3, <1>3, <1>5, <1>7
<1> QED BY <1>4, <1>5, <1>7, <1>9, <1>10, SeqEqual

\* What getline passes over is the beginning of the stream.
LEMMA StreamPassed ==
  ASSUME TypeOK, TypeOK', llen <= ilen, buf' = freeline, UNCHANGED net, llen' <= ilen'
  PROVE  /\ Stream' \in Seq(Byte) /\ Len(Stream') = Len(Stream) - llen'
         /\ \A i \in 1 .. Len(Stream') : Stream'[i] = Stream[llen' + i]
<1> DEFINE m == llen'
           a == ilen - llen
<1>1. /\ Stream \in Seq(Byte) /\ Len(Stream) = a + Len(net) /\ a \in Nat /\ Len(net) \in Nat
      /\ \A i \in 1 .. a : Stream[i] = freeline[i]
      /\ \A i \in 1 .. Len(net) : Stream[a + i] = net[i]
      /\ Len(freeline) = a
  BY StreamBytes
<1>2. ilen' = a
  BY <1>1 DEF ilen
<1>3. /\ Stream' \in Seq(Byte) /\ Len(Stream') = a - m + Len(net) /\ m \in Nat /\ m <= a
      /\ \A i \in 1 .. a - m : Stream'[i] = freeline[m + i]
      /\ \A i \in 1 .. Len(net) : Stream'[a - m + i] = net[i]
  BY <1>2, StreamBytesNext
<1> HIDE DEF m, a
<1>4. Len(Stream') = Len(Stream) - m
  BY <1>1, <1>3
<1>5. ASSUME NEW i \in 1 .. Len(Stream') PROVE Stream'[i] = Stream[m + i]
  <2>1. CASE i <= a - m
    <3>1. i \in 1 .. a - m /\ m + i \in 1 .. a
      BY <2>1, <1>1, <1>3
    <3> QED BY <3>1, <1>1, <1>3
  <2>2. CASE i > a - m
    <3> DEFINE j == i - (a - m)
    <3>1. j \in 1 .. Len(net) /\ a - m + j = i /\ a + j = m + i
      BY <2>2, <1>1, <1>3
    <3> HIDE DEF j
    <3> QED BY <3>1, <1>1, <1>3
  <2> QED BY <2>1, <2>2, <1>1, <1>3
<1> QED BY <1>3, <1>4, <1>5 DEF m

\* getline finds no line: the stream stays.
LEMMA StreamLooked ==
  ASSUME TypeOK, TypeOK', GetlineNone
  PROVE  Stream' = Stream /\ llen' <= ilen' /\ llen <= ilen
<1>1. buf' = freeline /\ llen' = 0 /\ UNCHANGED net /\ llen <= ilen
  BY DEF GetlineNone, Getting, server
<1>2. llen' <= ilen'
  BY <1>1, StreamBytes DEF ilen
<1>3. /\ Stream' \in Seq(Byte) /\ Len(Stream') = Len(Stream) - 0
      /\ \A i \in 1 .. Len(Stream') : Stream'[i] = Stream[0 + i]
  BY <1>1, <1>2, StreamPassed
<1>4. Stream \in Seq(Byte)
  BY <1>1, StreamBytes
<1>5. Len(Stream) \in Nat /\ Len(Stream') = Len(Stream)
  BY <1>3, <1>4
<1>6. \A i \in 1 .. Len(Stream') : Stream'[i] = Stream[i]
  BY <1>3, <1>5
<1>7. Stream' = Stream
  BY <1>3, <1>4, <1>5, <1>6, SeqEqual
<1> QED BY <1>1, <1>2, <1>7

\* The bytes of a line the server sends: its text and an end.
LEMMA LineSent ==
  ASSUME TypeOK, ServerSends
  PROVE  \E n \in Lengths :
           /\ sent' = Append(sent, n) /\ Len(net') \in Nat /\ Len(net') > Len(net) + n
           /\ \A i \in 1 .. Len(net) : net'[i] = net[i]
           /\ \A i \in Len(net) + 1 .. Len(net) + n : net'[i] = Len(sent) + 1
           /\ \A i \in Len(net) + n + 1 .. Len(net') : IsEnd(net'[i])
<1>1. PICK n \in Lengths, end \in Terminators :
        sent' = Append(sent, n) /\ net' = net \o [i \in 1 .. n |-> Len(sent) + 1] \o end
  BY DEF ServerSends
<1> DEFINE body == [i \in 1 .. n |-> Len(sent) + 1]
<1>2. n \in Nat \ {0}
  BY SockAssumption
<1>3. /\ end \in Seq(Byte) /\ (Len(end) = 1 \/ Len(end) = 2)
      /\ \A i \in 1 .. Len(end) : IsEnd(end[i])
  <2>1. CASE end = <<LF>>
    BY <2>1 DEF Byte, IsEnd
  <2>2. CASE end = <<CR, LF>>
    BY <2>2 DEF Byte, IsEnd
  <2> QED BY <2>1, <2>2, SockAssumption
<1>4. net \in Seq(Byte) /\ Len(sent) + 1 \in Byte /\ Len(net) \in Nat
  BY DEF TypeOK, Byte
<1>5. body \in Seq(Byte) /\ Len(body) = n /\ \A i \in 1 .. n : body[i] = Len(sent) + 1
  BY <1>2, <1>4
<1> HIDE DEF body
<1> DEFINE t == net \o body
<1>6. /\ t \in Seq(Byte) /\ Len(t) = Len(net) + n
      /\ \A i \in 1 .. Len(net) + n :
           t[i] = IF i <= Len(net) THEN net[i] ELSE body[i - Len(net)]
  BY <1>4, <1>5, ConcatProperties
<1> HIDE DEF t
<1>7. net' = t \o end
  BY <1>1 DEF t, body
<1>8. /\ Len(net') = Len(net) + n + Len(end)
      /\ \A i \in 1 .. Len(net) + n + Len(end) :
           net'[i] = IF i <= Len(net) + n THEN t[i] ELSE end[i - (Len(net) + n)]
  BY <1>3, <1>6, <1>7, ConcatProperties
<1>9. ASSUME NEW i \in 1 .. Len(net) PROVE net'[i] = net[i]
  BY <1>2, <1>3, <1>4, <1>6, <1>8
<1>10. ASSUME NEW i \in Len(net) + 1 .. Len(net) + n PROVE net'[i] = Len(sent) + 1
  <2>1. /\ i \in 1 .. Len(net) + n /\ i \in 1 .. Len(net) + n + Len(end) /\ ~(i <= Len(net))
        /\ i <= Len(net) + n /\ i - Len(net) \in 1 .. n
    BY <1>2, <1>3, <1>4
  <2> QED BY <2>1, <1>5, <1>6, <1>8
<1>11. ASSUME NEW i \in Len(net) + n + 1 .. Len(net') PROVE IsEnd(net'[i])
  <2>1. /\ i \in 1 .. Len(net) + n + Len(end) /\ ~(i <= Len(net) + n)
        /\ i - (Len(net) + n) \in 1 .. Len(end)
    BY <1>2, <1>3, <1>4, <1>8
  <2> QED BY <2>1, <1>3, <1>8
<1>12. Len(net') \in Nat /\ Len(net') > Len(net) + n
  <2>1. Len(net') = Len(net) + n + Len(end)
    BY <1>8
  <2>2. Len(end) = 1 \/ Len(end) = 2
    BY <1>3
  <2>3. Len(net) \in Nat
    BY <1>4
  <2> QED BY <2>1, <2>2, <2>3, <1>2
<1> QED BY <1>1, <1>9, <1>10, <1>11, <1>12

\* A line the server sends is the new end of the stream.
LEMMA StreamMore ==
  ASSUME TypeOK, TypeOK', llen <= ilen, ServerSends
  PROVE  \E n \in Lengths :
           /\ sent' = Append(sent, n) /\ Stream' \in Seq(Byte) /\ Len(Stream') > Len(Stream) + n
           /\ \A i \in 1 .. Len(Stream) : Stream'[i] = Stream[i]
           /\ \A i \in Len(Stream) + 1 .. Len(Stream) + n : Stream'[i] = Len(sent) + 1
           /\ \A i \in Len(Stream) + n + 1 .. Len(Stream') : IsEnd(Stream'[i])
<1>1. PICK n \in Lengths :
        /\ sent' = Append(sent, n) /\ Len(net') \in Nat /\ Len(net') > Len(net) + n
        /\ \A i \in 1 .. Len(net) : net'[i] = net[i]
        /\ \A i \in Len(net) + 1 .. Len(net) + n : net'[i] = Len(sent) + 1
        /\ \A i \in Len(net) + n + 1 .. Len(net') : IsEnd(net'[i])
  BY LineSent
<1>2. ilen' = ilen /\ llen' = llen /\ buf' = buf
  BY DEF ServerSends, ilen
<1> DEFINE a == ilen - llen
<1>0. a \in Nat
  BY StreamBytes
<1>3. /\ Stream \in Seq(Byte) /\ Len(Stream) = a + Len(net) /\ a \in Nat /\ Len(net) \in Nat
      /\ \A i \in 1 .. a : Stream[i] = buf[llen + i]
      /\ \A i \in 1 .. Len(net) : Stream[a + i] = net[i]
  BY <1>0, StreamBytes
<1>4. /\ Stream' \in Seq(Byte) /\ Len(Stream') = a + Len(net')
      /\ \A i \in 1 .. a : Stream'[i] = buf[llen + i]
      /\ \A i \in 1 .. Len(net') : Stream'[a + i] = net'[i]
  BY <1>2, StreamBytesNext
<1> HIDE DEF a
<1>5. n \in Nat \ {0}
  BY SockAssumption
<1>6. Len(Stream') > Len(Stream) + n
  BY <1>1, <1>3, <1>4, <1>5
<1>7. ASSUME NEW i \in 1 .. Len(Stream) PROVE Stream'[i] = Stream[i]
  <2>1. CASE i <= a
    <3>1. i \in 1 .. a
      BY <2>1, <1>3
    <3> QED BY <3>1, <1>3, <1>4
  <2>2. CASE i > a
    <3>1. i - a \in 1 .. Len(net) /\ i - a \in 1 .. Len(net') /\ a + (i - a) = i
      BY <2>2, <1>1, <1>3, <1>5
    <3>2. Stream'[i] = net'[i - a] /\ Stream[i] = net[i - a]
      BY <3>1, <1>3, <1>4
    <3> QED BY <3>1, <3>2, <1>1
  <2> QED BY <2>1, <2>2, <1>3
<1>8. ASSUME NEW i \in Len(Stream) + 1 .. Len(Stream') PROVE Stream'[i] = net'[i - a]
  <2>1. i - a \in 1 .. Len(net') /\ a + (i - a) = i
    BY <1>3, <1>4
  <2> QED BY <2>1, <1>4
<1>9. ASSUME NEW i \in Len(Stream) + 1 .. Len(Stream) + n PROVE Stream'[i] = Len(sent) + 1
  <2>1. i \in Len(Stream) + 1 .. Len(Stream') /\ i - a \in Len(net) + 1 .. Len(net) + n
    <3>1. /\ Len(Stream) = a + Len(net) /\ Len(Stream') > Len(Stream) + n
          /\ Len(Stream') = a + Len(net') /\ Len(net') \in Nat
          /\ a \in Nat /\ Len(net) \in Nat /\ n \in Nat
      BY <1>1, <1>3, <1>4, <1>5, <1>6
    <3> QED BY <3>1
  <2> QED BY <2>1, <1>1, <1>8
<1>10. ASSUME NEW i \in Len(Stream) + n + 1 .. Len(Stream') PROVE IsEnd(Stream'[i])
  <2>1. i \in Len(Stream) + 1 .. Len(Stream') /\ i - a \in Len(net) + n + 1 .. Len(net')
    <3>1. /\ Len(Stream) = a + Len(net) /\ Len(Stream') = a + Len(net')
          /\ a \in Nat /\ Len(net) \in Nat /\ Len(net') \in Nat /\ n \in Nat
      BY <1>1, <1>3, <1>4, <1>5
    <3> QED BY <3>1
  <2> QED BY <2>1, <1>1, <1>8
<1> QED BY <1>1, <1>4, <1>6, <1>7, <1>9, <1>10

LEMMA StreamSent ==
  ASSUME TypeOK, TypeOK', llen <= ilen, ServerSends, Told(Stream, sent, seen, TRUE)
  PROVE  Told(Stream', sent', seen, TRUE)
<1>1. PICK n \in Lengths :
        /\ sent' = Append(sent, n) /\ Stream' \in Seq(Byte) /\ Len(Stream') > Len(Stream) + n
        /\ \A i \in 1 .. Len(Stream) : Stream'[i] = Stream[i]
        /\ \A i \in Len(Stream) + 1 .. Len(Stream) + n : Stream'[i] = Len(sent) + 1
        /\ \A i \in Len(Stream) + n + 1 .. Len(Stream') : IsEnd(Stream'[i])
  BY StreamMore
<1>2. sent \in Seq(Lengths) /\ seen \in Nat /\ Stream \in Seq(Byte)
  BY StreamBytes DEF TypeOK
<1> QED BY <1>1, <1>2, ToldMore

\* When the server hangs up, the stream loses its end.
LEMMA StreamLess ==
  ASSUME TypeOK, TypeOK', llen <= ilen, ServerHangsUp
  PROVE  /\ Stream' \in Seq(Byte) /\ Len(Stream') <= Len(Stream)
         /\ \A i \in 1 .. Len(Stream') : Stream'[i] = Stream[i]
<1>1. PICK n \in 0 .. Len(net) : net' = SubSeq(net, 1, n)
  BY DEF ServerHangsUp
<1>2. net \in Seq(Byte) /\ Len(net) \in Nat
  BY DEF TypeOK
<1>3. Len(net') = n /\ \A i \in 1 .. n : net'[i] = net[i]
  BY <1>1, <1>2, PartOfSeq
<1>4. ilen' = ilen /\ llen' = llen /\ buf' = buf
  BY DEF ServerHangsUp, ilen
<1> DEFINE a == ilen - llen
<1>0. a \in Nat
  BY StreamBytes
<1>5. /\ Stream \in Seq(Byte) /\ Len(Stream) = a + Len(net) /\ a \in Nat
      /\ \A i \in 1 .. a : Stream[i] = buf[llen + i]
      /\ \A i \in 1 .. Len(net) : Stream[a + i] = net[i]
  BY <1>0, StreamBytes
<1>6. /\ Stream' \in Seq(Byte) /\ Len(Stream') = a + n
      /\ \A i \in 1 .. a : Stream'[i] = buf[llen + i]
      /\ \A i \in 1 .. n : Stream'[a + i] = net'[i]
  BY <1>3, <1>4, StreamBytesNext
<1> HIDE DEF a
<1>7. Len(Stream') <= Len(Stream) /\ n \in Nat
  BY <1>2, <1>5, <1>6
<1>8. ASSUME NEW i \in 1 .. Len(Stream') PROVE Stream'[i] = Stream[i]
  <2>1. CASE i <= a
    <3>1. i \in 1 .. a
      BY <2>1, <1>5
    <3> QED BY <3>1, <1>5, <1>6
  <2>2. CASE i > a
    <3>1. i - a \in 1 .. n /\ i - a \in 1 .. Len(net) /\ a + (i - a) = i
      BY <2>2, <1>2, <1>5, <1>6, <1>7
    <3>2. Stream'[i] = net'[i - a] /\ Stream[i] = net[i - a]
      BY <3>1, <1>5, <1>6
    <3> QED BY <3>1, <3>2, <1>3
  <2> QED BY <2>1, <2>2, <1>5
<1> QED BY <1>6, <1>7, <1>8

LEMMA StreamCut ==
  ASSUME TypeOK, TypeOK', llen <= ilen, ServerHangsUp, NEW open, Told(Stream, sent, seen, open)
  PROVE  Told(Stream', sent, seen, FALSE)
<1>1. sent \in Seq(Lengths) /\ seen \in Nat /\ Stream \in Seq(Byte)
  BY StreamBytes DEF TypeOK
<1> QED BY <1>1, StreamLess, ToldCut

\* A line is handed out: its bytes are those of line seen + 1, as many as were
\* sent or as the buffer holds, and the stream goes on behind it.
LEMMA StreamTaken ==
  ASSUME TypeOK, TypeOK', BufferOK, GetlineText, NEW open, Told(Stream, sent, seen, open)
  PROVE  /\ seen + 1 <= Len(sent) /\ IsLine(got', seen + 1)
         /\ llen' > ilen' => ilen' >= BUFLENRCV - 1
         /\ llen' <= ilen' => Told(Stream', sent, seen + 1, open)
<1>1. /\ llen <= ilen /\ buf' = freeline /\ UNCHANGED <<net, sent>>
  BY DEF GetlineText, Getting, server
<1>2. PICK n \in 1 .. ilen :
        /\ strcspn(freeline, n) /\ ~Incomplete(freeline, n)
        /\ got' = SubSeq(freeline, 1, n)
        /\ IF n = Len(freeline) THEN llen' = n + 1
           ELSE \E m \in n + 1 .. Len(freeline) :
                  strspn(freeline, n + 1, m) /\ llen' = m
  BY DEF GetlineText
<1> DEFINE a == Len(freeline)
<1>3. /\ Stream \in Seq(Byte) /\ Len(Stream) = a + Len(net) /\ a \in Nat /\ Len(net) \in Nat
      /\ \A i \in 1 .. a : Stream[i] = freeline[i]
      /\ freeline \in Seq(Byte) /\ a <= ilen /\ ilen \in Nat
  BY <1>1, StreamBytes
<1>4. ilen' = a
  BY <1>1 DEF ilen
<1>5. /\ n \in 1 .. a /\ \A i \in 1 .. n : ~IsEnd(freeline[i])
      /\ n < a => IsEnd(freeline[n + 1])
      /\ n = a => n >= BUFLENRCV - 1
  BY <1>2, <1>3, SockAssumption DEF strcspn, Incomplete
<1>6. sent \in Seq(Lengths) /\ seen \in Nat /\ \A i \in 1 .. Len(sent) : sent[i] \in Nat
  BY ElementOfSeq, SockAssumption DEF TypeOK
<1>7. got' \in Seq(Byte) /\ Len(got') = n /\ \A i \in 1 .. n : got'[i] = freeline[i]
  BY <1>2, <1>3, <1>5, PartOfSeq
<1>8. a <= BUFLENRCV - 1
  BY <1>3, SockAssumption DEF BufferOK
<1> HIDE DEF a
<1>9. n \in 1 .. Len(Stream) /\ \A i \in 1 .. n : Text(Stream, i) /\ Stream[i] = freeline[i]
  BY <1>3, <1>5 DEF Text
<1>10. /\ seen + 1 \in 1 .. Len(sent) /\ n <= sent[seen + 1]
       /\ \A i \in 1 .. n : Stream[i] = seen + 1
       /\ n < Len(Stream) /\ ~Text(Stream, n + 1) => n = sent[seen + 1]
  BY <1>3, <1>6, <1>9, ToldText
<1>11. n < a => n < Len(Stream) /\ ~Text(Stream, n + 1)
  <2> SUFFICES ASSUME n < a PROVE n < Len(Stream) /\ ~Text(Stream, n + 1)
    OBVIOUS
  <2>1. n + 1 \in 1 .. a /\ n < Len(Stream)
    BY <1>3, <1>5
  <2> QED BY <2>1, <1>3, <1>5 DEF Text
<1>12. IsLine(got', seen + 1)
  <2>1. \A j \in 1 .. Len(got') : got'[j] = seen + 1
    BY <1>7, <1>9, <1>10
  <2>2. CASE n < a
    BY <2>1, <2>2, <1>7, <1>10, <1>11 DEF IsLine
  <2>3. CASE n = a
    <3>1. n = BUFLENRCV - 1 /\ sent[seen + 1] >= BUFLENRCV - 1
      BY <2>3, <1>3, <1>5, <1>6, <1>8, <1>10, SockAssumption
    <3> QED BY <3>1, <2>1, <1>7 DEF IsLine
  <2> QED BY <2>2, <2>3, <1>3, <1>5
<1>13. CASE n = a
  <2>1. llen' = a + 1 /\ a >= BUFLENRCV - 1
    BY <1>13, <1>2, <1>5 DEF a
  <2> QED BY <2>1, <1>3, <1>4, <1>6, <1>10, <1>12
<1>14. CASE n < a
  <2>1. PICK m \in n + 1 .. a : strspn(freeline, n + 1, m) /\ llen' = m
    BY <1>14, <1>2, <1>3, <1>5 DEF a
  <2>2. m \in n + 1 .. Len(Stream) /\ m <= a
    BY <2>1, <1>3, <1>5
  <2>3. ASSUME NEW i \in n + 1 .. m PROVE ~Text(Stream, i)
    <3>1. i \in 1 .. a
      BY <2>1, <1>3, <1>5
    <3>2. IsEnd(freeline[i])
      <4>1. CASE i = n + 1
        BY <4>1, <1>5, <1>14
      <4>2. CASE i # n + 1
        <5>1. i \in n + 1 + 1 .. m
          BY <4>2, <1>5
        <5> QED BY <5>1, <2>1 DEF strspn
      <4> QED BY <4>1, <4>2
    <3> QED BY <3>1, <3>2, <1>3 DEF Text
  <2>4. llen' <= ilen'
    BY <2>1, <2>2, <1>4
  <2>5. /\ Stream' \in Seq(Byte) /\ Len(Stream') = Len(Stream) - m
        /\ \A i \in 1 .. Len(Stream') : Stream'[i] = Stream[m + i]
    BY <2>1, <2>4, <1>1, StreamPassed
  <2>6. Told(Stream', sent, seen + 1, open)
    BY <2>2, <2>3, <2>5, <1>3, <1>6, <1>9, ToldRest
  <2> QED BY <2>4, <2>6, <1>6, <1>10, <1>12, <1>4, <1>3, <2>1, <2>2
<1> QED BY <1>13, <1>14, <1>3, <1>5

(***************************************************************************)
(* The invariant of the stream: while the connection lasts, what is left   *)
(* of it is what the server sent and no line handed out.  A line that      *)
(* fills the buffer, which the next freeline does not survive, leaves no   *)
(* room for more.                                                          *)
(***************************************************************************)
ToldInv ==
  /\ llen > ilen => ilen >= BUFLENRCV - 1
  /\ fd /\ llen <= ilen => Told(Stream, sent, seen, ~gone)

LEMMA StreamToldInit == Init => ToldInv
<1> SUFFICES ASSUME Init PROVE ToldInv
  OBVIOUS
<1>1. ~fd /\ llen = 0 /\ ilen = 0
  BY EmptySeq DEF Init, ilen
<1> QED BY <1>1 DEF ToldInv

LEMMA StreamToldStep == TypeOK /\ SockInv /\ ToldInv /\ [Next]_vars => ToldInv'
<1> SUFFICES ASSUME TypeOK, SockInv, ToldInv, [Next]_vars PROVE ToldInv'
  OBVIOUS
<1>0. /\ TypeOK' /\ BufferOK /\ ClosedInv /\ llen \in Nat /\ ilen \in Nat
  BY SockTypeStep, InSightNat DEF SockInv, TypeOK
<1>1. ASSUME ServerSends PROVE ToldInv'
  <2>1. /\ fd /\ ~gone /\ ilen' = ilen
        /\ UNCHANGED <<fd, gone, buf, llen, seen>>
    BY <1>1 DEF ServerSends, ilen
  <2>2. ASSUME llen <= ilen PROVE Told(Stream', sent', seen, TRUE)
    BY <2>1, <2>2, <1>0, <1>1, StreamSent DEF ToldInv
  <2> QED BY <2>1, <2>2 DEF ToldInv
<1>2. ASSUME ServerHangsUp PROVE ToldInv'
  <2>1. fd /\ gone' /\ ilen' = ilen /\ UNCHANGED <<fd, sent, buf, llen, seen>>
    BY <1>2 DEF ServerHangsUp, ilen
  <2>2. ASSUME llen <= ilen PROVE Told(Stream', sent, seen, FALSE)
    <3>1. Told(Stream, sent, seen, ~gone)
      BY <2>1, <2>2 DEF ToldInv
    <3> QED BY <3>1, <2>2, <1>0, <1>2, StreamCut
  <2> QED BY <2>1, <2>2 DEF ToldInv
<1>3. ASSUME Connect PROVE ToldInv'
  <2>1. /\ ilen' = 0 /\ llen' = 0 /\ net' = <<>> /\ sent' = <<>> /\ seen' = 0 /\ ~gone'
        /\ buf' = buf
    BY <1>0, <1>3 DEF Connect, ClosedInv, ilen
  <2>2. Stream' \in Seq(Byte) /\ Len(Stream') = 0
    BY <2>1, <1>0, EmptySeq, StreamBytesNext
  <2>3. Stream' = <<>>
    BY <2>2, EmptySeq
  <2>4. Told(Stream', sent', seen', ~gone')
    <3>1. (~gone') = TRUE
      BY <2>1
    <3>2. Told(Stream', sent', seen', TRUE)
      BY <2>1, <2>3, ToldNothing
    <3> QED BY <3>1, <3>2
  <2>5. ~(llen' > ilen')
    BY <2>1
  <2> QED BY <2>4, <2>5 DEF ToldInv
<1>4. ASSUME Close \/ RecvFails \/ GetlineEmpty PROVE ToldInv'
  <2>1. ~fd' /\ buf' = <<>> /\ llen' = 0
    BY <1>4 DEF Close, RecvFails, GetlineEmpty, Disconnect, ClearBuffer
  <2>2. ilen' = 0
    BY <2>1 DEF ilen
  <2> QED BY <2>1, <2>2 DEF ToldInv
<1>5. ASSUME Read \/ Poll \/ GetlineCrashes \/ UNCHANGED vars PROVE ToldInv'
  <2>1. UNCHANGED <<fd, gone, sent, net, buf, llen, seen>>
    BY <1>5 DEF Read, Poll, GetlineCrashes, vars, server
  <2>2. ilen' = ilen /\ Stream' = Stream
    BY <2>1 DEF ilen, Stream, freeline
  <2> QED BY <2>1, <2>2 DEF ToldInv
<1>6. ASSUME RecvReads PROVE ToldInv'
  <2>1. UNCHANGED <<fd, gone, sent, llen, seen>> /\ \E n \in 1 .. Len(net) : n <= Room
    BY <1>6 DEF RecvReads
  <2>2. Room > 0
    BY <2>1, <1>0, SockAssumption DEF Room
  <2>3. llen <= ilen
    BY <2>2, <1>0, SockAssumption DEF ToldInv, Room
  <2>4. Stream' = Stream /\ llen' <= ilen' /\ ilen' \in Nat /\ llen' \in Nat
    BY <2>3, <1>0, <1>6, StreamReceived, StreamBytesNext
  <2> QED BY <2>1, <2>3, <2>4 DEF ToldInv
<1>7. ASSUME GetlineNone PROVE ToldInv'
  <2>1. UNCHANGED <<fd, gone, sent, seen>>
    BY <1>7 DEF GetlineNone, server
  <2>2. Stream' = Stream /\ llen' <= ilen' /\ llen <= ilen
    BY <1>0, <1>7, StreamLooked
  <2>3. ilen' \in Nat /\ llen' \in Nat
    BY <2>2, <1>0, StreamBytesNext
  <2> QED BY <2>1, <2>2, <2>3 DEF ToldInv
<1>8. ASSUME GetlineText PROVE ToldInv'
  <2>1. UNCHANGED <<fd, gone, sent>> /\ seen' = seen + 1 /\ llen <= ilen /\ pc # "idle"
    BY <1>8 DEF GetlineText, Getting, server
  <2>2. Told(Stream, sent, seen, ~gone)
    BY <2>1, <1>0 DEF ToldInv, ClosedInv
  <2>3. /\ llen' > ilen' => ilen' >= BUFLENRCV - 1
        /\ llen' <= ilen' => Told(Stream', sent, seen + 1, ~gone)
    BY <2>2, <1>0, <1>8, StreamTaken
  <2> QED BY <2>1, <2>3 DEF ToldInv
<1> QED BY <1>1, <1>2, <1>3, <1>4, <1>5, <1>6, <1>7, <1>8 DEF Next

LEMMA StreamInvariant == Spec => [](TypeOK /\ SockInv /\ ToldInv)
<1>1. TypeOK /\ SockInv /\ ToldInv /\ [Next]_vars => (TypeOK /\ SockInv /\ ToldInv)'
  BY SockTypeStep, SockInvStep, StreamToldStep
<1>2. Init => TypeOK /\ SockInv /\ ToldInv
  BY SockInvInit, StreamToldInit
<1> QED BY <1>1, <1>2, PTL DEF Spec

(***************************************************************************)
(* The lines duc_sock_getline hands out are the server's, in their order,  *)
(* none skipped or repeated, none cut short but one that fills the buffer, *)
(* however recv cuts the stream, for every size of the buffer, all lengths *)
(* of lines and both line ends.                                            *)
(***************************************************************************)
THEOREM LinesAreWhole == Spec => WholeLines
<1> DEFINE Step == seen' = seen + 1 => seen' <= Len(sent) /\ IsLine(got', seen')
<1>1. TypeOK /\ SockInv /\ ToldInv /\ [Next]_vars => [Step]_vars
  <2> SUFFICES ASSUME TypeOK, SockInv, ToldInv, Next, seen' = seen + 1
               PROVE  seen' <= Len(sent) /\ IsLine(got', seen')
    OBVIOUS
  <2>1. seen \in Nat /\ seen # seen + 1 /\ seen + 1 # 0
    BY DEF TypeOK
  <2>2. GetlineText
    BY <2>1 DEF Next, ServerSends, ServerHangsUp, Connect, Close, Read, Poll, RecvReads,
         RecvFails, GetlineNone, GetlineEmpty, GetlineCrashes, Disconnect, server
  <2>3. TypeOK' /\ BufferOK /\ fd /\ llen <= ilen
    BY <2>2, SockTypeStep DEF SockInv, ClosedInv, GetlineText, Getting
  <2>4. Told(Stream, sent, seen, ~gone)
    BY <2>3 DEF ToldInv
  <2>5. seen + 1 <= Len(sent) /\ IsLine(got', seen + 1)
    BY <2>2, <2>3, <2>4, StreamTaken
  <2> QED BY <2>5
<1> QED BY <1>1, StreamInvariant, PTL DEF Spec, WholeLines

(***************************************************************************)
(* The lines in a stretch of bytes are counted by their last bytes: what   *)
(* Complete counts when a stretch loses its end, grows by a line or loses  *)
(* its first line.                                                         *)
(***************************************************************************)
LineEnds(b) == { i \in 1 .. Len(b) - 1 : ~IsEnd(b[i]) /\ IsEnd(b[i + 1]) }

LEMMA CompleteIsNat ==
  ASSUME NEW b \in Seq(Byte)
  PROVE  IsFiniteSet(LineEnds(b)) /\ Complete(b) \in Nat /\ Complete(b) = Cardinality(LineEnds(b))
<1>1. Len(b) - 1 \in Int /\ 1 \in Int
  OBVIOUS
<1>2. IsFiniteSet(1 .. Len(b) - 1)
  BY <1>1, FS_Interval
<1>3. LineEnds(b) \in SUBSET (1 .. Len(b) - 1)
  BY DEF LineEnds
<1>4. IsFiniteSet(LineEnds(b))
  BY <1>2, <1>3, FS_Subset
<1>5. Complete(b) = Cardinality(LineEnds(b))
  BY DEF Complete, LineEnds
<1> QED BY <1>4, <1>5, FS_CardinalityType

LEMMA CompleteOfNone == Complete(<<>>) = 0
<1>1. LineEnds(<<>>) = {}
  <2>1. Len(<<>>) - 1 < 1
    BY EmptySeq
  <2> QED BY <2>1 DEF LineEnds
<1>2. <<>> \in Seq(Byte)
  BY EmptySeq
<1> QED BY <1>1, <1>2, CompleteIsNat, FS_EmptySet

LEMMA CompleteOfPart ==
  ASSUME NEW s \in Seq(Byte), NEW t \in Seq(Byte), Len(t) <= Len(s),
         \A i \in 1 .. Len(t) : t[i] = s[i]
  PROVE  Complete(t) <= Complete(s)
<1>1. ASSUME NEW i \in LineEnds(t) PROVE i \in LineEnds(s)
  <2>1. i \in 1 .. Len(t) - 1 /\ ~IsEnd(t[i]) /\ IsEnd(t[i + 1])
    BY DEF LineEnds
  <2>2. i \in 1 .. Len(t) /\ i + 1 \in 1 .. Len(t) /\ i \in 1 .. Len(s) - 1
    BY <2>1
  <2> QED BY <2>1, <2>2 DEF LineEnds
<1>2. LineEnds(t) \in SUBSET LineEnds(s)
  BY <1>1
<1>3. Cardinality(LineEnds(t)) <= Cardinality(LineEnds(s))
  BY <1>2, CompleteIsNat, FS_Subset
<1> QED BY <1>3, CompleteIsNat

LEMMA CompleteOfMore ==
  ASSUME NEW s \in Seq(Byte), NEW t \in Seq(Byte), NEW n \in Nat \ {0}, Len(t) > Len(s) + n,
         \A i \in 1 .. Len(s) : t[i] = s[i],
         \A i \in Len(s) + 1 .. Len(s) + n : ~IsEnd(t[i]),
         \A i \in Len(s) + n + 1 .. Len(t) : IsEnd(t[i])
  PROVE  Complete(t) = Complete(s) + 1
<1> DEFINE N == Len(s)
<1>0. N \in Nat /\ Len(t) \in Nat
  OBVIOUS
<1>1. ASSUME NEW i \in LineEnds(s) PROVE i \in LineEnds(t)
  <2>1. i \in 1 .. N - 1 /\ ~IsEnd(s[i]) /\ IsEnd(s[i + 1])
    BY DEF LineEnds
  <2>2. i \in 1 .. N /\ i + 1 \in 1 .. N /\ i \in 1 .. Len(t) - 1
    BY <2>1, <1>0
  <2> QED BY <2>1, <2>2 DEF LineEnds
<1>2. N + n \in LineEnds(t)
  <2>1. /\ N + n \in N + 1 .. N + n /\ N + n + 1 \in N + n + 1 .. Len(t)
        /\ N + n \in 1 .. Len(t) - 1
    BY <1>0
  <2> QED BY <2>1 DEF LineEnds
<1>3. ASSUME NEW i \in LineEnds(t), i # N + n PROVE i \in LineEnds(s)
  <2>1. i \in 1 .. Len(t) - 1 /\ ~IsEnd(t[i]) /\ IsEnd(t[i + 1])
    BY DEF LineEnds
  <2>2. i <= N + n
    <3> SUFFICES ASSUME i > N + n PROVE FALSE
      BY <2>1, <1>0
    <3>1. i \in N + n + 1 .. Len(t)
      BY <2>1, <1>0
    <3> QED BY <3>1, <2>1
  <2>3. i + 1 <= N
    <3> SUFFICES ASSUME i + 1 > N PROVE FALSE
      BY <2>1, <1>0
    <3>1. i + 1 \in N + 1 .. N + n
      BY <2>1, <2>2, <1>0, <1>3
    <3> QED BY <3>1, <2>1
  <2>4. i \in 1 .. N /\ i + 1 \in 1 .. N /\ i \in 1 .. N - 1
    BY <2>1, <2>3, <1>0
  <2> QED BY <2>1, <2>4 DEF LineEnds
<1>4. N + n \notin LineEnds(s)
  BY <1>0 DEF LineEnds
<1>5. LineEnds(t) = LineEnds(s) \cup {N + n}
  BY <1>1, <1>2, <1>3
<1>6. Cardinality(LineEnds(t)) = Cardinality(LineEnds(s)) + 1
  BY <1>4, <1>5, CompleteIsNat, FS_AddElement
<1> QED BY <1>6, CompleteIsNat

LEMMA CompleteOfRest ==
  ASSUME NEW s \in Seq(Byte), NEW n \in 1 .. Len(s), \A i \in 1 .. n : ~IsEnd(s[i]),
         NEW m \in n + 1 .. Len(s), \A i \in n + 1 .. m : IsEnd(s[i]),
         NEW t \in Seq(Byte), Len(t) = Len(s) - m, \A i \in 1 .. Len(t) : t[i] = s[m + i]
  PROVE  Complete(t) = Complete(s) - 1
<1>0. Len(s) \in Nat /\ Len(t) \in Nat /\ n \in Nat \ {0} /\ m \in Nat /\ n < m /\ m <= Len(s)
  OBVIOUS
<1> DEFINE f == [i \in LineEnds(t) |-> m + i]
           rest == LineEnds(s) \ {n}
<1>1. ASSUME NEW i \in LineEnds(t) PROVE m + i \in rest
  <2>1. i \in 1 .. Len(t) - 1 /\ ~IsEnd(t[i]) /\ IsEnd(t[i + 1])
    BY DEF LineEnds
  <2>2. /\ i \in 1 .. Len(t) /\ i + 1 \in 1 .. Len(t) /\ m + (i + 1) = m + i + 1
        /\ m + i \in 1 .. Len(s) - 1 /\ m + i # n
    BY <2>1, <1>0
  <2>3. t[i] = s[m + i] /\ t[i + 1] = s[m + i + 1]
    BY <2>2
  <2> QED BY <2>1, <2>2, <2>3 DEF LineEnds
<1>2. ASSUME NEW j \in rest PROVE j - m \in LineEnds(t) /\ m + (j - m) = j
  <2>1. j \in 1 .. Len(s) - 1 /\ ~IsEnd(s[j]) /\ IsEnd(s[j + 1]) /\ j # n
    BY DEF LineEnds
  <2>2. j > n
    <3> SUFFICES ASSUME j < n PROVE FALSE
      BY <2>1, <1>0
    <3>1. j + 1 \in 1 .. n
      BY <2>1, <1>0
    <3> QED BY <3>1, <2>1
  <2>3. j > m
    <3> SUFFICES ASSUME j <= m PROVE FALSE
      BY <2>1, <1>0
    <3>1. j \in n + 1 .. m
      BY <2>1, <2>2, <1>0
    <3> QED BY <3>1, <2>1
  <2>4. /\ j - m \in 1 .. Len(t) /\ j - m + 1 \in 1 .. Len(t) /\ j - m \in 1 .. Len(t) - 1
        /\ m + (j - m) = j /\ m + (j - m + 1) = j + 1
    BY <2>1, <2>3, <1>0
  <2>5. t[j - m] = s[j] /\ t[j - m + 1] = s[j + 1]
    BY <2>4
  <2> QED BY <2>1, <2>4, <2>5 DEF LineEnds
<1> HIDE DEF rest
<1>3. f \in [LineEnds(t) -> rest]
  BY <1>1
<1>4. ASSUME NEW a \in LineEnds(t), NEW b \in LineEnds(t), f[a] = f[b] PROVE a = b
  <2>1. a \in Int /\ b \in Int
    BY DEF LineEnds
  <2> QED BY <2>1, <1>0, <1>4
<1>5. ASSUME NEW j \in rest PROVE \E i \in LineEnds(t) : f[i] = j
  <2>1. f[j - m] = j
    BY <1>2
  <2> QED BY <1>2, <2>1
<1> HIDE DEF f
<1>6. f \in Bijection(LineEnds(t), rest)
  BY <1>3, <1>4, <1>5, Fun_IsBij
<1>7. ExistsBijection(LineEnds(t), rest)
  BY <1>6 DEF ExistsBijection
<1>8. Cardinality(rest) = Cardinality(LineEnds(t))
  BY <1>7, CompleteIsNat, FS_Bijection
<1>9. n \in LineEnds(s)
  <2>1. n \in 1 .. n /\ n + 1 \in n + 1 .. m /\ n \in 1 .. Len(s) - 1
    BY <1>0
  <2> QED BY <2>1 DEF LineEnds
<1>10. Cardinality(rest) = Cardinality(LineEnds(s)) - 1
  BY <1>9, CompleteIsNat, FS_RemoveElement DEF rest
<1>11. /\ Complete(s) = Cardinality(LineEnds(s)) /\ Complete(s) \in Nat
       /\ Complete(t) = Cardinality(LineEnds(t)) /\ Complete(t) \in Nat
  BY CompleteIsNat
<1> QED BY <1>8, <1>10, <1>11

(***************************************************************************)
(* The lines of LineSocket as ImplementsLines names them: k numbers that   *)
(* follow a.                                                               *)
(***************************************************************************)
Numbers(a, k) == [i \in 1 .. k |-> a + i]

LEMMA NumbersAre ==
  ASSUME NEW a \in Nat, NEW k \in Nat
  PROVE  /\ Numbers(a, k) \in Seq(Nat) /\ Len(Numbers(a, k)) = k
         /\ \A i \in 1 .. k : Numbers(a, k)[i] = a + i
<1>1. \A i \in 1 .. k : a + i \in Nat
  OBVIOUS
<1> QED BY <1>1 DEF Numbers

LEMMA NoNumbers == \A a : Numbers(a, 0) = <<>>
<1> SUFFICES ASSUME NEW a PROVE Numbers(a, 0) = <<>>
  OBVIOUS
<1>1. 1 .. 0 = {}
  OBVIOUS
<1> QED BY <1>1 DEF Numbers

LEMMA NumbersAppend ==
  ASSUME NEW a \in Nat, NEW k \in Nat
  PROVE  Append(Numbers(a, k), a + k + 1) = Numbers(a, k + 1)
<1> DEFINE s == Numbers(a, k)
           t == Append(s, a + k + 1)
           u == Numbers(a, k + 1)
<1>0. k + 1 \in Nat /\ a + k + 1 \in Nat
  OBVIOUS
<1>1. s \in Seq(Nat) /\ Len(s) = k /\ \A i \in 1 .. k : s[i] = a + i
  BY NumbersAre
<1>2. u \in Seq(Nat) /\ Len(u) = k + 1 /\ \A i \in 1 .. k + 1 : u[i] = a + i
  BY <1>0, NumbersAre
<1> HIDE DEF s, u
<1>3. t \in Seq(Nat) /\ Len(t) = k + 1 /\ t[k + 1] = a + k + 1 /\ \A i \in 1 .. k : t[i] = s[i]
  BY <1>0, <1>1, AppendProperties
<1> HIDE DEF t
<1>4. ASSUME NEW i \in 1 .. Len(t) PROVE t[i] = u[i]
  <2>1. CASE i = k + 1
    BY <2>1, <1>2, <1>3
  <2>2. CASE i # k + 1
    <3>1. i \in 1 .. k
      BY <2>2, <1>3
    <3> QED BY <3>1, <1>1, <1>2, <1>3
  <2> QED BY <2>1, <2>2
<1>5. t = u
  BY <1>2, <1>3, <1>4, SeqEqual
<1> QED BY <1>5 DEF s, t, u

LEMMA NumbersCut ==
  ASSUME NEW a \in Nat, NEW k \in Nat, NEW j \in 0 .. k
  PROVE  SubSeq(Numbers(a, k), 1, j) = Numbers(a, j)
<1> DEFINE s == Numbers(a, k)
           t == SubSeq(s, 1, j)
           u == Numbers(a, j)
<1>1. s \in Seq(Nat) /\ Len(s) = k /\ \A i \in 1 .. k : s[i] = a + i
  BY NumbersAre
<1>2. u \in Seq(Nat) /\ Len(u) = j /\ \A i \in 1 .. j : u[i] = a + i
  BY NumbersAre
<1> HIDE DEF s, u
<1>3. t \in Seq(Nat) /\ Len(t) = j /\ \A i \in 1 .. j : t[i] = s[i]
  <2>1. 1 \in 1 .. Len(s) + 1 /\ j \in 0 .. Len(s) /\ 1 <= j + 1
    BY <1>1
  <2>2. t \in Seq(Nat) /\ Len(t) = j - 1 + 1 /\ \A i \in 1 .. j - 1 + 1 : t[i] = s[1 + i - 1]
    BY <1>1, <2>1, PartOfSeq
  <2>3. ASSUME NEW i \in 1 .. j PROVE t[i] = s[i]
    <3>1. i \in 1 .. j - 1 + 1 /\ 1 + i - 1 = i
      OBVIOUS
    <3> QED BY <2>2, <3>1
  <2> QED BY <2>2, <2>3
<1> HIDE DEF t
<1>4. \A i \in 1 .. Len(t) : t[i] = u[i]
  BY <1>1, <1>2, <1>3
<1>5. t = u
  BY <1>2, <1>3, <1>4, SeqEqual
<1> QED BY <1>5 DEF s, t, u

LEMMA NumbersDrop ==
  ASSUME NEW a \in Nat, NEW k \in Nat, NEW j \in 0 .. k
  PROVE  SubSeq(Numbers(a, k), j + 1, k) = Numbers(a + j, k - j)
<1> DEFINE s == Numbers(a, k)
           t == SubSeq(s, j + 1, k)
           u == Numbers(a + j, k - j)
<1>1. s \in Seq(Nat) /\ Len(s) = k /\ \A i \in 1 .. k : s[i] = a + i
  BY NumbersAre
<1>0. a + j \in Nat /\ k - j \in Nat
  OBVIOUS
<1>2. u \in Seq(Nat) /\ Len(u) = k - j /\ \A i \in 1 .. k - j : u[i] = a + j + i
  BY <1>0, NumbersAre
<1> HIDE DEF s, u
<1>3. t \in Seq(Nat) /\ Len(t) = k - j /\ \A i \in 1 .. k - j : t[i] = s[j + i]
  <2>1. j + 1 \in 1 .. Len(s) + 1 /\ k \in 0 .. Len(s) /\ j + 1 <= k + 1
    BY <1>1
  <2>2. /\ t \in Seq(Nat) /\ Len(t) = k - (j + 1) + 1
        /\ \A i \in 1 .. k - (j + 1) + 1 : t[i] = s[j + 1 + i - 1]
    BY <1>1, <2>1, PartOfSeq
  <2>3. ASSUME NEW i \in 1 .. k - j PROVE t[i] = s[j + i]
    <3>1. i \in 1 .. k - (j + 1) + 1 /\ j + 1 + i - 1 = j + i
      OBVIOUS
    <3> QED BY <2>2, <3>1
  <2> QED BY <2>2, <2>3
<1> HIDE DEF t
<1>4. ASSUME NEW i \in 1 .. Len(t) PROVE t[i] = u[i]
  <2>1. i \in 1 .. k - j /\ j + i \in 1 .. k /\ a + (j + i) = a + j + i
    BY <1>3
  <2> QED BY <2>1, <1>1, <1>2, <1>3
<1>5. t = u
  BY <1>2, <1>3, <1>4, SeqEqual
<1> QED BY <1>5 DEF s, t, u

LEMMA NumbersJoin ==
  ASSUME NEW a \in Nat, NEW k \in Nat, NEW j \in Nat
  PROVE  Numbers(a, k) \o Numbers(a + k, j) = Numbers(a, k + j)
<1> DEFINE s == Numbers(a, k)
           r == Numbers(a + k, j)
           t == s \o r
           u == Numbers(a, k + j)
<1>0. a + k \in Nat /\ k + j \in Nat
  OBVIOUS
<1>1. s \in Seq(Nat) /\ Len(s) = k /\ \A i \in 1 .. k : s[i] = a + i
  BY NumbersAre
<1>2. u \in Seq(Nat) /\ Len(u) = k + j /\ \A i \in 1 .. k + j : u[i] = a + i
  BY <1>0, NumbersAre
<1>3. r \in Seq(Nat) /\ Len(r) = j /\ \A i \in 1 .. j : r[i] = a + k + i
  BY <1>0, NumbersAre
<1> HIDE DEF s, u, r
<1>4. /\ t \in Seq(Nat) /\ Len(t) = k + j
      /\ \A i \in 1 .. k + j : t[i] = IF i <= k THEN s[i] ELSE r[i - k]
  BY <1>1, <1>3, ConcatProperties
<1> HIDE DEF t
<1>5. ASSUME NEW i \in 1 .. Len(t) PROVE t[i] = u[i]
  <2>1. CASE i <= k
    <3>1. i \in 1 .. k /\ i \in 1 .. k + j
      BY <2>1, <1>4
    <3> QED BY <2>1, <3>1, <1>1, <1>2, <1>4
  <2>2. CASE i > k
    <3>1. i - k \in 1 .. j /\ i \in 1 .. k + j /\ ~(i <= k) /\ a + k + (i - k) = a + i
      BY <2>2, <1>4
    <3> QED BY <3>1, <1>2, <1>3, <1>4
  <2> QED BY <2>1, <2>2, <1>4
<1>6. t = u
  BY <1>2, <1>4, <1>5, SeqEqual
<1> QED BY <1>6 DEF s, t, u, r

LEMMA NumbersTail ==
  ASSUME NEW a \in Nat, NEW k \in Nat \ {0}
  PROVE  Numbers(a, k) # <<>> /\ Tail(Numbers(a, k)) = Numbers(a + 1, k - 1)
<1> DEFINE s == Numbers(a, k)
<1>1. s \in Seq(Nat) /\ Len(s) = k
  BY NumbersAre
<1>2. s # <<>>
  <2>1. Len(<<>>) = 0
    BY EmptySeq
  <2> QED BY <1>1, <2>1
<1>3. Tail(s) = SubSeq(s, 1 + 1, k)
  BY <1>1, <1>2, TailIsSubSeq
<1>4. 1 \in 0 .. k
  OBVIOUS
<1>5. SubSeq(s, 1 + 1, k) = Numbers(a + 1, k - 1)
  BY <1>4, NumbersDrop
<1> QED BY <1>2, <1>3, <1>5

(***************************************************************************)
(* A line is in the buffer, on its way or handed out.                      *)
(***************************************************************************)
LEMMA Counted ==
  ASSUME TypeOK, llen <= ilen
  PROVE  /\ InBuffer \in Nat /\ OnTheWay \in Nat
         /\ Complete(Stream) = InBuffer + OnTheWay
<1>1. /\ Stream \in Seq(Byte) /\ freeline \in Seq(Byte) /\ Len(freeline) = ilen - llen
      /\ Len(Stream) = ilen - llen + Len(net) /\ Len(net) \in Nat /\ ilen \in Nat /\ llen \in Nat
      /\ \A i \in 1 .. ilen - llen : Stream[i] = freeline[i]
  BY StreamBytes
<1>2. Len(freeline) <= Len(Stream) /\ \A i \in 1 .. Len(freeline) : freeline[i] = Stream[i]
  BY <1>1
<1>3. Complete(freeline) <= Complete(Stream)
  BY <1>1, <1>2, CompleteOfPart
<1>4. Complete(freeline) \in Nat /\ Complete(Stream) \in Nat
  BY <1>1, CompleteIsNat
<1> QED BY <1>3, <1>4 DEF InBuffer, OnTheWay, Stream

\* The same of the next state.
LEMMA CountedNext ==
  ASSUME TypeOK', llen' <= ilen'
  PROVE  /\ InBuffer' \in Nat /\ OnTheWay' \in Nat
         /\ Complete(Stream') = InBuffer' + OnTheWay'
         /\ InBuffer' = Complete(freeline')
<1>1. /\ Stream' \in Seq(Byte) /\ freeline' \in Seq(Byte) /\ Len(freeline') = ilen' - llen'
      /\ Len(Stream') = ilen' - llen' + Len(net')
      /\ Len(net') \in Nat /\ ilen' \in Nat /\ llen' \in Nat
      /\ \A i \in 1 .. ilen' - llen' : Stream'[i] = buf'[llen' + i] /\ freeline'[i] = buf'[llen' + i]
  BY StreamBytesNext
<1>2. Len(freeline') <= Len(Stream') /\ \A i \in 1 .. Len(freeline') : freeline'[i] = Stream'[i]
  <2>1. Len(freeline') <= Len(Stream')
    BY <1>1
  <2>2. \A i \in 1 .. Len(freeline') : freeline'[i] = Stream'[i]
    BY <1>1
  <2> QED BY <2>1, <2>2
<1>3. Complete(freeline') <= Complete(Stream')
  BY <1>1, <1>2, CompleteOfPart
<1>4. Complete(freeline') \in Nat /\ Complete(Stream') \in Nat
  BY <1>1, CompleteIsNat
<1> QED BY <1>3, <1>4 DEF InBuffer, OnTheWay, Stream

\* No more lines are counted than were sent.
CountInv == fd => seen + Complete(Stream) <= Len(sent)

LEMMA CountSends ==
  ASSUME TypeOK, TypeOK', llen <= ilen, ServerSends
  PROVE  /\ Len(sent') = Len(sent) + 1 /\ Complete(Stream') = Complete(Stream) + 1
         /\ InBuffer' = InBuffer /\ OnTheWay' = OnTheWay + 1
<1>1. PICK n \in Lengths :
        /\ sent' = Append(sent, n) /\ Stream' \in Seq(Byte) /\ Len(Stream') > Len(Stream) + n
        /\ \A i \in 1 .. Len(Stream) : Stream'[i] = Stream[i]
        /\ \A i \in Len(Stream) + 1 .. Len(Stream) + n : Stream'[i] = Len(sent) + 1
        /\ \A i \in Len(Stream) + n + 1 .. Len(Stream') : IsEnd(Stream'[i])
  BY StreamMore
<1>2. n \in Nat \ {0} /\ sent \in Seq(Lengths) /\ Stream \in Seq(Byte) /\ Len(sent) \in Nat
  BY StreamBytes, SockAssumption DEF TypeOK
<1>3. \A i \in Len(Stream) + 1 .. Len(Stream) + n : ~IsEnd(Stream'[i])
  BY <1>1, <1>2 DEF IsEnd, LF, CR
<1>4. Complete(Stream') = Complete(Stream) + 1
  BY <1>1, <1>2, <1>3, CompleteOfMore
<1>5. Len(sent') = Len(sent) + 1
  BY <1>1, <1>2, AppendProperties
<1>6. freeline' = freeline /\ llen' <= ilen'
  BY DEF ServerSends, freeline, ilen
<1>7. InBuffer' = InBuffer
  BY <1>6 DEF InBuffer
<1> QED BY <1>4, <1>5, <1>6, <1>7, Counted, CountedNext

LEMMA CountHangsUp ==
  ASSUME TypeOK, TypeOK', llen <= ilen, ServerHangsUp
  PROVE  /\ Complete(Stream') <= Complete(Stream)
         /\ InBuffer' = InBuffer /\ OnTheWay' \in 0 .. OnTheWay
<1>1. /\ Stream' \in Seq(Byte) /\ Len(Stream') <= Len(Stream)
      /\ \A i \in 1 .. Len(Stream') : Stream'[i] = Stream[i]
  BY StreamLess
<1>2. Stream \in Seq(Byte)
  BY StreamBytes
<1>3. Complete(Stream') <= Complete(Stream)
  BY <1>1, <1>2, CompleteOfPart
<1>4. freeline' = freeline /\ llen' <= ilen'
  BY DEF ServerHangsUp, freeline, ilen
<1>5. InBuffer' = InBuffer
  BY <1>4 DEF InBuffer
<1> QED BY <1>3, <1>4, <1>5, Counted, CountedNext

LEMMA CountReceived ==
  ASSUME TypeOK, TypeOK', llen <= ilen, RecvReads
  PROVE  /\ Complete(Stream') = Complete(Stream) /\ InBuffer <= InBuffer'
         /\ InBuffer + OnTheWay = InBuffer' + OnTheWay'
<1>1. Stream' = Stream /\ llen' <= ilen'
  BY StreamReceived
<1>2. PICK n \in 1 .. Len(net) :
        buf' = buf \o SubSeq(net, 1, n) /\ net' = SubSeq(net, n + 1, Len(net))
  BY DEF RecvReads
<1>3. Len(buf') = Len(buf) + n /\ \A i \in 1 .. Len(buf) : buf'[i] = buf[i]
  BY <1>2, RecvMoves
<1>4. /\ freeline \in Seq(Byte) /\ Len(freeline) = ilen - llen
      /\ \A i \in 1 .. ilen - llen : freeline[i] = buf[llen + i]
      /\ ilen \in Nat /\ llen \in Nat /\ ilen = Len(buf) /\ ilen' = Len(buf')
  BY FreelineIsTail DEF ilen, TypeOK
<1>5. /\ freeline' \in Seq(Byte) /\ Len(freeline') = ilen' - llen' /\ llen' = llen
      /\ \A i \in 1 .. ilen' - llen' : freeline'[i] = buf'[llen' + i]
  BY <1>1, StreamBytesNext DEF RecvReads
<1>6. n \in Nat /\ ilen' = ilen + n
  BY <1>3, <1>4
<1>7. Len(freeline) <= Len(freeline')
  BY <1>4, <1>5, <1>6
<1>8. ASSUME NEW i \in 1 .. Len(freeline) PROVE freeline[i] = freeline'[i]
  <2>1. i \in 1 .. ilen - llen /\ i \in 1 .. ilen' - llen' /\ llen + i \in 1 .. Len(buf)
    BY <1>4, <1>5, <1>6
  <2> QED BY <2>1, <1>3, <1>4, <1>5
<1>9. Complete(freeline) <= Complete(freeline')
  BY <1>4, <1>5, <1>7, <1>8, CompleteOfPart
<1> QED BY <1>1, <1>9, Counted, CountedNext DEF InBuffer

\* A line is handed out: n bytes of text and the ends behind it.
LEMMA LineTaken ==
  ASSUME TypeOK, TypeOK', GetlineText, llen' <= ilen'
  PROVE  /\ buf' = freeline /\ llen <= ilen /\ UNCHANGED net
         /\ \E n \in 1 .. Len(freeline) :
              /\ \A i \in 1 .. n : ~IsEnd(freeline[i])
              /\ llen' \in n + 1 .. Len(freeline)
              /\ \A i \in n + 1 .. llen' : IsEnd(freeline[i])
<1>1. /\ llen <= ilen /\ buf' = freeline /\ UNCHANGED net
  BY DEF GetlineText, Getting, server
<1>2. PICK n \in 1 .. ilen :
        /\ strcspn(freeline, n)
        /\ IF n = Len(freeline) THEN llen' = n + 1
           ELSE \E m \in n + 1 .. Len(freeline) :
                  strspn(freeline, n + 1, m) /\ llen' = m
  BY DEF GetlineText
<1>3. ilen' = Len(freeline) /\ Len(freeline) \in Nat
  BY <1>1, FreelineIsTail DEF ilen
<1>4. /\ n \in 1 .. Len(freeline) /\ \A i \in 1 .. n : ~IsEnd(freeline[i])
      /\ n < Len(freeline) => IsEnd(freeline[n + 1])
  BY <1>2, <1>3 DEF strcspn
<1>5. n < Len(freeline)
  <2> SUFFICES ASSUME n = Len(freeline) PROVE FALSE
    BY <1>3, <1>4
  <2>1. llen' = n + 1
    BY <1>2
  <2> QED BY <2>1, <1>3
<1>6. strspn(freeline, n + 1, llen') /\ llen' \in n + 1 .. Len(freeline)
  BY <1>2, <1>5
<1>7. ASSUME NEW i \in n + 1 .. llen' PROVE IsEnd(freeline[i])
  <2>1. CASE i = n + 1
    BY <2>1, <1>4, <1>5
  <2>2. CASE i # n + 1
    <3>1. i \in n + 1 + 1 .. llen'
      BY <2>2, <1>4
    <3> QED BY <3>1, <1>6 DEF strspn
  <2> QED BY <2>1, <2>2
<1> QED BY <1>1, <1>4, <1>6, <1>7

LEMMA CountTaken ==
  ASSUME TypeOK, TypeOK', GetlineText, llen' <= ilen'
  PROVE  /\ Complete(Stream') = Complete(Stream) - 1 /\ llen <= ilen
         /\ InBuffer' = InBuffer - 1 /\ OnTheWay' = OnTheWay /\ InBuffer > 0
<1>1. /\ buf' = freeline /\ llen <= ilen /\ UNCHANGED net
      /\ \E n \in 1 .. Len(freeline) :
           /\ \A i \in 1 .. n : ~IsEnd(freeline[i])
           /\ llen' \in n + 1 .. Len(freeline)
           /\ \A i \in n + 1 .. llen' : IsEnd(freeline[i])
  BY LineTaken
<1>2. PICK n \in 1 .. Len(freeline) :
        /\ \A i \in 1 .. n : ~IsEnd(freeline[i])
        /\ llen' \in n + 1 .. Len(freeline)
        /\ \A i \in n + 1 .. llen' : IsEnd(freeline[i])
  BY <1>1
<1>3. /\ Stream \in Seq(Byte) /\ freeline \in Seq(Byte) /\ Len(freeline) <= Len(Stream)
      /\ \A i \in 1 .. Len(freeline) : Stream[i] = freeline[i]
      /\ Len(freeline) \in Nat /\ Len(Stream) \in Nat
  <2>1. /\ Stream \in Seq(Byte) /\ freeline \in Seq(Byte) /\ Len(freeline) = ilen - llen
        /\ Len(Stream) = ilen - llen + Len(net) /\ Len(net) \in Nat
        /\ \A i \in 1 .. ilen - llen : Stream[i] = freeline[i]
        /\ ilen \in Nat /\ llen \in Nat
    BY <1>1, StreamBytes
  <2>2. Len(freeline) <= Len(Stream)
    BY <2>1
  <2> QED BY <2>1, <2>2
<1>4. /\ Stream' \in Seq(Byte) /\ Len(Stream') = Len(Stream) - llen'
      /\ \A i \in 1 .. Len(Stream') : Stream'[i] = Stream[llen' + i]
  BY <1>1, StreamPassed
<1>5. /\ n \in 1 .. Len(Stream) /\ \A i \in 1 .. n : ~IsEnd(Stream[i])
      /\ llen' \in n + 1 .. Len(Stream) /\ \A i \in n + 1 .. llen' : IsEnd(Stream[i])
  <2>1. n \in Nat \ {0} /\ n <= Len(freeline) /\ llen' \in n + 1 .. Len(freeline)
    BY <1>2, <1>3
  <2>2. n \in 1 .. Len(Stream) /\ llen' \in n + 1 .. Len(Stream)
    BY <2>1, <1>3
  <2>3. ASSUME NEW i \in 1 .. n PROVE ~IsEnd(Stream[i])
    <3>1. i \in 1 .. Len(freeline)
      BY <2>1, <1>3
    <3> QED BY <3>1, <1>2, <1>3
  <2>4. ASSUME NEW i \in n + 1 .. llen' PROVE IsEnd(Stream[i])
    <3>1. i \in 1 .. Len(freeline)
      BY <2>1, <1>3
    <3> QED BY <3>1, <1>2, <1>3
  <2> QED BY <2>2, <2>3, <2>4
<1>6. Complete(Stream') = Complete(Stream) - 1
  BY <1>3, <1>4, <1>5, CompleteOfRest
<1>7. /\ freeline' \in Seq(Byte) /\ Len(freeline') = Len(freeline) - llen'
      /\ \A i \in 1 .. Len(freeline') : freeline'[i] = freeline[llen' + i]
  <2>1. ilen' = Len(freeline)
    BY <1>1 DEF ilen
  <2> QED BY <2>1, <1>1, StreamBytesNext
<1>8. Complete(freeline') = Complete(freeline) - 1
  BY <1>2, <1>3, <1>7, CompleteOfRest
<1>9. InBuffer = Complete(freeline) /\ InBuffer' = Complete(freeline')
  BY DEF InBuffer
<1>10. InBuffer \in Nat /\ OnTheWay \in Nat /\ Complete(Stream) = InBuffer + OnTheWay
  BY <1>1, Counted
<1>11. InBuffer' \in Nat /\ OnTheWay' \in Nat /\ Complete(Stream') = InBuffer' + OnTheWay'
  BY CountedNext
<1>12. InBuffer' = InBuffer - 1
  BY <1>8, <1>9
<1>13. InBuffer > 0
  BY <1>10, <1>11, <1>12
<1>14. OnTheWay' = OnTheWay
  <2> DEFINE a == InBuffer
             b == OnTheWay
             c == InBuffer'
             d == OnTheWay'
  <2>1. a \in Nat /\ b \in Nat /\ c \in Nat /\ d \in Nat /\ c = a - 1
    BY <1>10, <1>11, <1>12
  <2>2. c + d = a + b - 1
    <3>1. Complete(Stream) - 1 = a + b - 1
      BY <1>10
    <3>2. Complete(Stream') = c + d
      BY <1>11
    <3> QED BY <3>1, <3>2, <1>6
  <2> HIDE DEF a, b, c, d
  <2>3. d = b
    BY <2>1, <2>2
  <2> QED BY <2>3 DEF b, d
<1> QED BY <1>1, <1>6, <1>12, <1>13, <1>14

LEMMA CountInit == Init => CountInv
BY DEF Init, CountInv

LEMMA CountStep ==
  ASSUME ShortLines, TypeOK, TypeOK', SockInv, SockInv', CountInv, [Next]_vars
  PROVE  CountInv'
<1>0. /\ llen <= ilen /\ llen' <= ilen' /\ seen \in Nat /\ Len(sent) \in Nat /\ ClosedInv
      /\ Stream \in Seq(Byte) /\ Complete(Stream) \in Nat
  <2>1. ShortLines' = ShortLines
    BY DEF ShortLines
  <2>2. llen <= ilen /\ llen' <= ilen' /\ ClosedInv
    BY <2>1 DEF SockInv, StreamInv
  <2> QED BY <2>2, StreamBytes, CompleteIsNat DEF TypeOK
<1>1. ASSUME ServerSends PROVE CountInv'
  <2>1. Len(sent') = Len(sent) + 1 /\ Complete(Stream') = Complete(Stream) + 1
    BY <1>0, <1>1, CountSends
  <2> QED BY <2>1, <1>0, <1>1 DEF ServerSends, CountInv
<1>2. ASSUME ServerHangsUp PROVE CountInv'
  <2>1. Complete(Stream') <= Complete(Stream)
    BY <1>0, <1>2, CountHangsUp
  <2>2. Complete(Stream') \in Nat
    BY <1>0, StreamBytesNext, CompleteIsNat
  <2> QED BY <2>1, <2>2, <1>0, <1>2 DEF ServerHangsUp, CountInv
<1>3. ASSUME Connect PROVE CountInv'
  <2>1. /\ ilen' = 0 /\ llen' = 0 /\ net' = <<>> /\ sent' = <<>> /\ seen' = 0
    BY <1>0, <1>3 DEF Connect, ClosedInv, ilen
  <2>2. Stream' \in Seq(Byte) /\ Len(Stream') = 0
    BY <2>1, <1>0, EmptySeq, StreamBytesNext
  <2>3. Stream' = <<>>
    BY <2>2, EmptySeq
  <2>4. Complete(Stream') = 0 /\ Len(sent') = 0
    BY <2>1, <2>3, CompleteOfNone, EmptySeq
  <2> QED BY <2>1, <2>4 DEF CountInv
<1>4. ASSUME Close \/ RecvFails \/ GetlineEmpty PROVE CountInv'
  BY <1>4 DEF Close, RecvFails, GetlineEmpty, Disconnect, CountInv
<1>5. ASSUME Read \/ Poll \/ GetlineCrashes \/ UNCHANGED vars PROVE CountInv'
  <2>1. UNCHANGED <<fd, sent, net, buf, llen, seen>>
    BY <1>5 DEF Read, Poll, GetlineCrashes, vars, server
  <2>2. Stream' = Stream
    BY <2>1 DEF ilen, Stream, freeline
  <2> QED BY <2>1, <2>2 DEF CountInv
<1>6. ASSUME RecvReads PROVE CountInv'
  <2>1. UNCHANGED <<fd, sent, seen>> /\ Complete(Stream') = Complete(Stream)
    BY <1>0, <1>6, CountReceived DEF RecvReads
  <2> QED BY <2>1 DEF CountInv
<1>7. ASSUME GetlineNone PROVE CountInv'
  <2>1. UNCHANGED <<fd, sent, seen>> /\ Stream' = Stream
    BY <1>7, StreamLooked DEF GetlineNone, server
  <2> QED BY <2>1 DEF CountInv
<1>8. ASSUME GetlineText PROVE CountInv'
  <2>1. UNCHANGED <<fd, sent>> /\ seen' = seen + 1
    BY <1>8 DEF GetlineText, server
  <2>2. Complete(Stream') = Complete(Stream) - 1
    BY <1>0, <1>8, CountTaken
  <2>3. Complete(Stream') \in Nat
    BY <1>0, StreamBytesNext, CompleteIsNat
  <2>4. seen' + Complete(Stream') = seen + Complete(Stream)
    BY <2>1, <2>2, <2>3, <1>0
  <2> QED BY <2>1, <2>4 DEF CountInv
<1> QED BY <1>1, <1>2, <1>3, <1>4, <1>5, <1>6, <1>7, <1>8 DEF Next

(***************************************************************************)
(* What each step does to the lines of LineSocket.                         *)
(***************************************************************************)
Link == IF ~fd THEN "down" ELSE IF gone THEN "gone" ELSE "live"
OnNet == Numbers(seen + InBuffer, OnTheWay)
InRx == Numbers(seen, InBuffer)

\* The step of LineSocket, its variables replaced by these three.
LinesStep ==
  \/ Link = "down" /\ Link' = "live" /\ OnNet' = OnNet /\ InRx' = InRx
  \/ /\ Link = "live" /\ Link' = Link /\ InRx' = InRx
     /\ \E l \in 1 .. MaxLines : OnNet' = Append(OnNet, l)
  \/ /\ Link = "live" /\ Link' = "gone" /\ InRx' = InRx
     /\ \E n \in 0 .. Len(OnNet) : OnNet' = SubSeq(OnNet, 1, n)
  \/ /\ Link' = Link
     /\ \E n \in 1 .. Len(OnNet) :
          /\ InRx' = InRx \o SubSeq(OnNet, 1, n)
          /\ OnNet' = SubSeq(OnNet, n + 1, Len(OnNet))
  \/ InRx # <<>> /\ InRx' = Tail(InRx) /\ Link' = Link /\ OnNet' = OnNet
  \/ Link' = "down" /\ OnNet' = <<>> /\ InRx' = <<>>
  \/ Link' = Link /\ OnNet' = OnNet /\ InRx' = InRx

LEMMA LinesStepIsStep == LinesStep => [Lines!Next]_(Lines!vars)
<1>1. /\ OnNet = [i \in 1 .. OnTheWay |-> seen + InBuffer + i]
      /\ InRx = [i \in 1 .. InBuffer |-> seen + i]
      /\ OnNet' = [i \in 1 .. OnTheWay |-> seen + InBuffer + i]'
      /\ InRx' = [i \in 1 .. InBuffer |-> seen + i]'
  BY DEF OnNet, InRx, Numbers
<1> QED BY <1>1 DEF LinesStep, Link, Lines!Next, Lines!vars, Lines!Connect, Lines!Send,
           Lines!HangUp, Lines!Recv, Lines!Getline, Lines!Disconnect

LEMMA NextIsLinesStep ==
  ASSUME ShortLines, TypeOK, TypeOK', SockInv, SockInv', CountInv, [Next]_vars
  PROVE  LinesStep
<1>0. /\ llen <= ilen /\ llen' <= ilen' /\ ClosedInv
      /\ seen \in Nat /\ Len(sent) \in Nat /\ MaxLines \in Nat
  <2>1. ShortLines' = ShortLines
    BY DEF ShortLines
  <2> QED BY <2>1, SockAssumption DEF SockInv, StreamInv, TypeOK
<1> DEFINE B == InBuffer
           W == OnTheWay
           b == InBuffer'
           w == OnTheWay'
<1>1. B \in Nat /\ W \in Nat /\ Complete(Stream) = B + W
  BY <1>0, Counted
<1>2. b \in Nat /\ w \in Nat
  BY <1>0, CountedNext
<1>3. OnNet = Numbers(seen + B, W) /\ InRx = Numbers(seen, B)
      /\ OnNet' = Numbers(seen' + b, w) /\ InRx' = Numbers(seen', b)
  BY DEF OnNet, InRx
<1> HIDE DEF B, W, b, w
<1>4. seen + B \in Nat /\ Len(OnNet) = W /\ Len(InRx) = B
  <2>1. seen + B \in Nat
    BY <1>0, <1>1
  <2> QED BY <2>1, <1>0, <1>1, <1>3, NumbersAre
<1>5. ASSUME ServerSends PROVE LinesStep
  <2>1. /\ Link = "live" /\ Link' = Link /\ seen' = seen /\ fd /\ Len(sent) < MaxLines
    BY <1>5 DEF ServerSends, Link
  <2>2. b = B /\ w = W + 1
    BY <1>0, <1>5, CountSends DEF B, W, b, w
  <2>3. InRx' = InRx /\ OnNet' = Numbers(seen + B, W + 1)
    BY <2>1, <2>2, <1>3
  <2> DEFINE l == seen + B + W + 1
  <2>4. OnNet' = Append(OnNet, l)
    BY <2>3, <1>1, <1>3, <1>4, NumbersAppend
  <2>5. l \in 1 .. MaxLines
    <3>1. seen + (B + W) <= Len(sent)
      BY <2>1, <1>1 DEF CountInv
    <3> QED BY <3>1, <2>1, <1>0, <1>1
  <2> QED BY <2>1, <2>3, <2>4, <2>5 DEF LinesStep
<1>6. ASSUME ServerHangsUp PROVE LinesStep
  <2>1. Link = "live" /\ Link' = "gone" /\ seen' = seen
    BY <1>6 DEF ServerHangsUp, Link
  <2>2. b = B /\ w \in 0 .. W
    BY <1>0, <1>6, CountHangsUp DEF B, W, b, w
  <2>3. InRx' = InRx /\ OnNet' = Numbers(seen + B, w)
    BY <2>1, <2>2, <1>3
  <2>4. OnNet' = SubSeq(OnNet, 1, w)
    BY <2>2, <2>3, <1>1, <1>3, <1>4, NumbersCut
  <2> QED BY <2>1, <2>2, <2>3, <2>4, <1>4 DEF LinesStep
<1>7. ASSUME Connect PROVE LinesStep
  <2>1. /\ Link = "down" /\ Link' = "live" /\ freeline' = freeline /\ net' = <<>>
        /\ ilen = 0 /\ ilen' = 0 /\ llen = 0 /\ llen' = 0 /\ Len(net) = 0
    BY <1>0, <1>7 DEF Connect, Link, ClosedInv, ilen, freeline
  <2>2. /\ Stream \in Seq(Byte) /\ Len(Stream) = 0
        /\ Stream' \in Seq(Byte) /\ Len(Stream') = 0
    BY <2>1, <1>0, EmptySeq, StreamBytes, StreamBytesNext
  <2>3. Stream = <<>> /\ Stream' = <<>>
    BY <2>2, EmptySeq
  <2>4. B + W = 0 /\ Complete(Stream') = 0
    BY <2>3, <1>1, CompleteOfNone
  <2>5. B = 0 /\ W = 0
    BY <2>4, <1>1
  <2>6. b + w = 0
    BY <2>4, <1>0, CountedNext DEF B, W, b, w
  <2>7. b = 0 /\ w = 0
    BY <2>6, <1>2
  <2>8. OnNet = <<>> /\ InRx = <<>> /\ OnNet' = <<>> /\ InRx' = <<>>
    BY <2>5, <2>7, <1>3, NoNumbers
  <2> QED BY <2>1, <2>8 DEF LinesStep
<1>8. ASSUME Close \/ RecvFails \/ GetlineEmpty PROVE LinesStep
  <2>1. ~fd' /\ buf' = <<>> /\ llen' = 0 /\ net' = <<>>
    BY <1>8 DEF Close, RecvFails, GetlineEmpty, Disconnect, ClearBuffer
  <2>2. Link' = "down" /\ ilen' = 0
    BY <2>1 DEF Link, ilen
  <2>3. Stream' \in Seq(Byte) /\ Len(Stream') = 0
    BY <2>1, <2>2, <1>0, EmptySeq, StreamBytesNext
  <2>4. Stream' = <<>>
    BY <2>3, EmptySeq
  <2>5. b + w = 0
    BY <2>4, <1>0, CountedNext, CompleteOfNone DEF B, W, b, w
  <2>6. b = 0 /\ w = 0
    BY <2>5, <1>2
  <2>7. OnNet' = <<>> /\ InRx' = <<>>
    BY <2>6, <1>3, NoNumbers
  <2> QED BY <2>2, <2>7 DEF LinesStep
<1>9. ASSUME Read \/ Poll \/ GetlineNone \/ UNCHANGED vars PROVE LinesStep
  <2>1. UNCHANGED <<fd, gone, net, seen>>
    BY <1>9 DEF Read, Poll, GetlineNone, vars, server
  <2>2. freeline' = freeline
    <3>1. CASE Read \/ Poll \/ UNCHANGED vars
      BY <3>1 DEF Read, Poll, vars, freeline, ilen
    <3>2. CASE GetlineNone
      <4>1. buf' = freeline /\ llen' = 0
        BY <3>2 DEF GetlineNone
      <4>2. /\ freeline \in Seq(Byte) /\ Len(freeline) = ilen' /\ Len(freeline) \in Nat
        BY <4>1, <1>0, FreelineIsTail DEF ilen
      <4>3. /\ freeline' \in Seq(Byte) /\ Len(freeline') = ilen' - 0
            /\ \A i \in 1 .. ilen' - 0 : freeline'[i] = freeline[0 + i]
        BY <4>1, <1>0, StreamBytesNext
      <4>4. Len(freeline') = Len(freeline) /\ \A i \in 1 .. Len(freeline') : freeline'[i] = freeline[i]
        BY <4>2, <4>3
      <4> QED BY <4>2, <4>3, <4>4, SeqEqual
    <3> QED BY <1>9, <3>1, <3>2
  <2>3. b = B /\ w = W
    BY <2>1, <2>2 DEF B, W, b, w, InBuffer, OnTheWay
  <2>4. Link' = Link /\ OnNet' = OnNet /\ InRx' = InRx
    BY <2>1, <2>3, <1>3 DEF Link
  <2> QED BY <2>4 DEF LinesStep
<1>10. ASSUME RecvReads PROVE LinesStep
  <2>1. Link' = Link /\ seen' = seen
    BY <1>10 DEF RecvReads, Link
  <2>2. B <= b /\ B + W = b + w
    BY <1>0, <1>10, CountReceived DEF B, W, b, w
  <2>3. CASE b = B
    <3>1. w = W
      BY <2>2, <2>3, <1>1, <1>2
    <3> QED BY <3>1, <2>1, <2>3, <1>3 DEF LinesStep
  <2>4. CASE b # B
    <3> DEFINE n == b - B
    <3>1. n \in 1 .. W /\ n \in 0 .. W /\ n \in Nat /\ b = B + n
      BY <2>2, <2>4, <1>1, <1>2
    <3>2. w = W - n
      BY <2>2, <3>1, <1>1, <1>2
    <3> HIDE DEF n
    <3>3. SubSeq(OnNet, 1, n) = Numbers(seen + B, n)
      BY <3>1, <1>1, <1>3, <1>4, NumbersCut
    <3>4. InRx \o Numbers(seen + B, n) = Numbers(seen, B + n)
      BY <3>1, <1>0, <1>1, <1>3, NumbersJoin
    <3>5. InRx' = InRx \o SubSeq(OnNet, 1, n)
      BY <3>1, <3>3, <3>4, <2>1, <1>3
    <3>6. SubSeq(OnNet, n + 1, W) = Numbers(seen + B + n, W - n)
      BY <3>1, <1>1, <1>3, <1>4, NumbersDrop
    <3>7. seen + B + n = seen' + b
      BY <3>1, <2>1, <1>0, <1>1
    <3>8. OnNet' = SubSeq(OnNet, n + 1, Len(OnNet))
      BY <3>2, <3>6, <3>7, <1>3, <1>4
    <3> QED BY <3>1, <3>5, <3>8, <2>1, <1>4 DEF LinesStep
  <2> QED BY <2>3, <2>4
<1>11. ASSUME GetlineText PROVE LinesStep
  <2>1. Link' = Link /\ seen' = seen + 1
    BY <1>11 DEF GetlineText, server, Link
  <2>2. b = B - 1 /\ w = W /\ B > 0
    BY <1>0, <1>11, CountTaken DEF B, W, b, w
  <2>3. B \in Nat \ {0}
    BY <2>2, <1>1
  <2>4. InRx # <<>> /\ Tail(InRx) = Numbers(seen + 1, B - 1)
    BY <2>3, <1>0, <1>3, NumbersTail
  <2>5. InRx' = Tail(InRx)
    BY <2>1, <2>2, <2>4, <1>3
  <2>6. seen' + b = seen + B
    BY <2>1, <2>2, <1>0, <1>1
  <2>7. OnNet' = OnNet
    BY <2>2, <2>6, <1>3
  <2> QED BY <2>1, <2>4, <2>5, <2>7 DEF LinesStep
<1>12. ~GetlineCrashes
  <2>1. ilen \in Nat /\ llen \in Nat
    BY InSightNat DEF TypeOK
  <2> QED BY <2>1, <1>0 DEF GetlineCrashes
<1> QED BY <1>5, <1>6, <1>7, <1>8, <1>9, <1>10, <1>11, <1>12 DEF Next

(***************************************************************************)
(* sock.c keeps the promise of LineSocket when every line is shorter than  *)
(* BUFLENRCV - 1, whichever of the two ends the server puts to its lines:  *)
(* each of its steps sends, receives or hands out whole lines, or does     *)
(* nothing to them.                                                        *)
(***************************************************************************)
THEOREM SockImplementsLines ==
  ASSUME ShortLines
  PROVE  Spec => ImplementsLines
<1>1. Init => TypeOK /\ SockInv /\ CountInv /\ Lines!Init
  <2> SUFFICES ASSUME Init PROVE Lines!Init
    BY SockInvInit, CountInit
  <2>1. /\ TypeOK /\ ~fd /\ llen = 0 /\ seen = 0 /\ net = <<>> /\ ilen = 0
    BY SockInvInit, EmptySeq DEF Init, ilen
  <2>2. Stream \in Seq(Byte) /\ Len(Stream) = 0
    BY <2>1, EmptySeq, StreamBytes
  <2>3. Stream = <<>>
    BY <2>2, EmptySeq
  <2>4. InBuffer \in Nat /\ OnTheWay \in Nat /\ InBuffer + OnTheWay = 0
    BY <2>1, <2>3, Counted, CompleteOfNone
  <2>5. InBuffer = 0 /\ OnTheWay = 0
    BY <2>4
  <2>6. OnNet = <<>> /\ InRx = <<>>
    BY <2>5, NoNumbers DEF OnNet, InRx
  <2>7. /\ [i \in 1 .. OnTheWay |-> seen + InBuffer + i] = <<>>
        /\ [i \in 1 .. InBuffer |-> seen + i] = <<>>
    BY <2>6 DEF OnNet, InRx, Numbers
  <2> QED BY <2>1, <2>7 DEF Lines!Init
<1>2. TypeOK /\ SockInv /\ CountInv /\ [Next]_vars => (TypeOK /\ SockInv /\ CountInv)'
  BY SockTypeStep, SockInvStep, CountStep
<1>3. TypeOK /\ SockInv /\ CountInv /\ [Next]_vars => [Lines!Next]_(Lines!vars)
  BY SockTypeStep, SockInvStep, NextIsLinesStep, LinesStepIsStep
<1> QED BY <1>1, <1>2, <1>3, PTL DEF Spec, ImplementsLines, Lines!Spec
=============================================================================
