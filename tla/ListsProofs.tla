----------------------------- MODULE ListsProofs -----------------------------
(* What TLAPS proves of lists, for every reply and every list of broadcasts. *)
EXTENDS Lists, Recursion

\* While a line is converted, the flag says whether it is the last.
ReplyInv ==
  /\ inreply => pc \in {"first", "line", "clean"}
  /\ pc = "line" => inreply = (Len(reply) > 1)

LEMMA ReplyStep == ReplyInv /\ [Next]_vars => ReplyInv'
<1> SUFFICES ASSUME ReplyInv, [Next]_vars PROVE ReplyInv'
  OBVIOUS
<1> USE DEF ReplyInv
<1>1. CASE Finished BY <1>1 DEF Finished
<1>2. CASE Ask BY <1>2 DEF Ask, Return
<1>3. CASE First BY <1>3 DEF First, Received, Return, Lost
<1>4. CASE Convert
  <2>1. CASE pc' = "line" /\ Received(Tail(reply))
    BY <2>1 DEF Received
  <2>2. CASE pc' = "clean"
    BY <2>2
  <2>3. CASE pc' = "walk" /\ Lost
    BY <2>3 DEF Lost
  <2>4. CASE pc' = "walk" /\ pc = "line" /\ Len(reply) = 1 /\ inreply' = inreply
    <3>1. ~(Len(reply) > 1)
      BY <2>4, SMT
    <3>2. ~inreply
      BY <2>4, <3>1, Zenon
    <3>3. ~inreply'
      BY <2>4, <3>2, Zenon
    <3> QED BY <2>4, <3>3
  <2> QED BY <1>4, <2>1, <2>2, <2>3, <2>4 DEF Convert
<1>5. CASE Clean BY <1>5 DEF Clean, Return, Lost
<1>6. CASE TakeItem BY <1>6 DEF TakeItem
<1>7. CASE EndOfList BY <1>7 DEF EndOfList, Return
<1>8. CASE QueueAdd BY <1>8 DEF QueueAdd, GoOn, GiveUp, Return
<1>9. CASE QueueEnd BY <1>9 DEF QueueEnd, Return
<1>10. CASE Bcast BY <1>10 DEF Bcast
<1>11. CASE UNCHANGED vars BY <1>11 DEF vars
<1> QED BY <1>1, <1>2, <1>3, <1>4, <1>5, <1>6, <1>7, <1>8, <1>9, <1>10, <1>11 DEF Next

(***************************************************************************)
(* However the reading of a list ends (iterate.c:61-92), the reply has     *)
(* been read to its end before another request is sent.                    *)
(***************************************************************************)
THEOREM ReplyIsRead == Spec => []ReplyRead
<1>1. Init => ReplyInv
  BY DEF Init, ReplyInv
<1>2. ReplyInv => ReplyRead
  BY DEF ReplyInv, ReplyRead
<1> QED BY <1>1, <1>2, ReplyStep, PTL DEF Spec

(***************************************************************************)
(* What becomes of the lines of a reply.                                   *)
(***************************************************************************)
Lines == UNION {UNION {ToSet(r) : r \in Replies[t]} : t \in DOMAIN Replies}
Types == DOMAIN Replies \cup {"user"}
Vals == {Parse(t, l.line).val : t \in Types, l \in Lines}
Items == [n : Nat, val : Vals]
Ids == {v[<<"id">>] : v \in Vals}

Typed ==
  /\ type \in Types /\ sent \in Seq(Lines) /\ reply \in Seq(Lines)
  /\ list \in Seq(Items) /\ got \in Seq(Vals) /\ ids \in Seq(Ids) /\ queued \in Seq(Ids)

\* What the parser makes of a line, and whether it reads all of it.
Val(k) == Parse(type, sent[k].line).val
Whole(k) == ~Rest(sent[k].line, Parse(type, sent[k].line).end)

\* The items, those the caller took and those in the list, are the lines.
Ordered ==
  /\ Len(got) + Len(list) <= Len(sent)
  /\ \A k \in 1 .. Len(got) : got[k] = Val(k) /\ Val(k) # NULL /\ Whole(k)
  /\ \A k \in 1 .. Len(list) :
       LET at == Len(got) + k
       IN list[k].n = at /\ list[k].val = Val(at) /\ Whole(at)

\* All lines were taken, or all before one that gives no item.
AllTaken ==
  \/ lost \/ Len(got) = Len(sent)
  \/ Len(got) + 1 <= Len(sent) /\ Val(Len(got) + 1) = NULL /\ Whole(Len(got) + 1)

\* How far the reply has been read, and what the operation has come to.
Stage ==
  /\ pc \in {"idle", "first", "line", "clean", "walk", "add", "done"}
  /\ op \in {"dump", "queuealbum"}
  /\ pc \in {"idle", "first", "line", "clean"} =>
       got = <<>> /\ ids = <<>> /\ queued = <<>> /\ lost = FALSE
  /\ pc \in {"idle", "first", "clean"} => list = <<>>
  /\ pc = "idle" => sent = <<>> /\ heap = {}
  /\ pc \in {"first", "line"} => sent # <<>>
  /\ pc = "first" => reply = sent
  /\ pc = "line" =>
       /\ 1 <= Len(reply) /\ Len(list) + Len(reply) = Len(sent)
       /\ \A k \in 1 .. Len(reply) : reply[k] = sent[Len(list) + k]
  /\ pc = "walk" => lost \/ Len(got) + Len(list) = Len(sent)
  /\ pc = "add" \/ (pc = "done" /\ result = "ok") => AllTaken

\* The tracks to queue and those queued are those taken.
Queued ==
  /\ op = "queuealbum" /\ pc \in {"walk", "add"} =>
       /\ Len(queued) + Len(ids) = Len(got)
       /\ \A k \in 1 .. Len(ids) : ids[k] = got[Len(queued) + k][<<"id">>]
  /\ pc = "walk" => queued = <<>>
  /\ pc = "add" => op = "queuealbum"
  /\ Len(queued) <= Len(got)
  /\ \A k \in 1 .. Len(queued) : queued[k] = got[k][<<"id">>]
  /\ pc = "done" /\ op = "queuealbum" /\ result = "ok" => Len(queued) = Len(got)

\* On the heap there is the list while there is one, and what queuealbum left.
Left(o) == op = "queuealbum" /\ o[1] \in DOMAIN got /\ o[2] # <<>>
Held(o) == o = <<0, <<>>>> \/ \E k \in 1 .. Len(list) : o \in Freed(list[k])
Heap == \A o \in heap : Left(o) \/ (pc \in {"line", "walk"} /\ Held(o))

ListInv == Typed /\ Ordered /\ Stage /\ Queued /\ Heap

LEMMA SentTyped == \A t \in DOMAIN Replies : \A r \in Replies[t] : r \in Seq(Lines) /\ Len(r) \in Nat \ {0}
<1> SUFFICES ASSUME NEW t \in DOMAIN Replies, NEW r \in Replies[t]
             PROVE  r \in Seq(Lines) /\ Len(r) \in Nat \ {0}
  OBVIOUS
<1>1. r # <<>> /\ r \in Seq(ToSet(r)) /\ ToSet(r) \subseteq Lines
  BY ListsAssumption DEF Lines
<1>2. r \in Seq(Lines)
  BY <1>1, SeqMonotonic
<1> QED BY <1>1, <1>2, EmptySeq

LEMMA Empties == Len(<<>>) = 0 /\ (\A T : <<>> \in Seq(T)) /\ 1 .. 0 = {} /\ DOMAIN <<>> = {}
<1>1. Len(<<>>) = 0 /\ \A T : <<>> \in Seq(T)
  BY EmptySeq
<1>2. DOMAIN <<>> = 1 .. Len(<<>>)
  BY <1>1, LenProperties
<1> QED BY <1>1, <1>2

LEMMA Lengths ==
  ASSUME Typed
  PROVE  /\ Len(sent) \in Nat /\ Len(reply) \in Nat /\ Len(list) \in Nat
         /\ Len(got) \in Nat /\ Len(ids) \in Nat /\ Len(queued) \in Nat
         /\ DOMAIN got = 1 .. Len(got) /\ DOMAIN list = 1 .. Len(list)
BY LenProperties DEF Typed

LEMMA ListInit == Init => ListInv
<1> SUFFICES ASSUME Init PROVE ListInv
  OBVIOUS
<1> USE Empties DEF Init
<1>1. Typed BY DEF Typed, Types
<1>2. Ordered BY DEF Ordered
<1>3. Stage BY DEF Stage
<1>4. Queued BY DEF Queued
<1>5. Heap BY DEF Heap
<1> QED BY <1>1, <1>2, <1>3, <1>4, <1>5 DEF ListInv

LEMMA FinishedStep == ListInv /\ Finished => ListInv'
<1> SUFFICES ASSUME ListInv, Finished PROVE ListInv'
  OBVIOUS
<1> USE Empties DEF Finished
<1>1. Typed' BY DEF ListInv, Typed, Types
<1>2. Ordered' BY DEF Ordered
<1>3. Stage' BY DEF Stage
<1>4. Queued' BY DEF Queued
<1>5. Heap' BY DEF Heap
<1> QED BY <1>1, <1>2, <1>3, <1>4, <1>5 DEF ListInv

LEMMA AskStep == ListInv /\ Ask => ListInv'
<1> SUFFICES ASSUME ListInv, Ask PROVE ListInv'
  OBVIOUS
<1> USE Empties DEF Ask
<1>0. /\ pc = "idle" /\ got = <<>> /\ ids = <<>> /\ queued = <<>> /\ list = <<>>
      /\ heap = {} /\ sent = <<>> /\ lost = FALSE
  BY DEF ListInv, Stage
<1>1. /\ got' = <<>> /\ ids' = <<>> /\ queued' = <<>> /\ list' = <<>> /\ heap' = {}
      /\ lost' = FALSE
  BY <1>0 DEF queueing
<1>2. \/ /\ sent' \in Replies[type'] /\ reply' = sent' /\ pc' = "first"
      \/ /\ pc' = "done" /\ result' = "failed" /\ sent' = <<>> /\ reply' = reply
  BY <1>0 DEF Return
<1>3. sent' \in Seq(Lines) /\ reply' \in Seq(Lines) /\ type' \in Types
      /\ Len(sent') \in Nat /\ (pc' = "first" => sent' # <<>>)
  BY <1>2, SentTyped DEF ListInv, Typed, Types
<1>4. Typed' BY <1>1, <1>3 DEF Typed
<1>5. Ordered' BY <1>1, <1>3 DEF Ordered
<1>6. Stage' BY <1>1, <1>2, <1>3 DEF Stage
<1>7. Queued' BY <1>1, <1>2 DEF Queued
<1>8. Heap' BY <1>1 DEF Heap
<1> QED BY <1>4, <1>5, <1>6, <1>7, <1>8 DEF ListInv

LEMMA FirstStep == ListInv /\ First => ListInv'
<1> SUFFICES ASSUME ListInv, First PROVE ListInv'
  OBVIOUS
<1> USE Empties DEF First
<1>0. /\ got = <<>> /\ ids = <<>> /\ queued = <<>> /\ list = <<>> /\ lost = FALSE
      /\ sent # <<>> /\ reply = sent
  BY DEF ListInv, Stage
<1>1. /\ got' = <<>> /\ ids' = <<>> /\ queued' = <<>> /\ list' = <<>> /\ lost' = FALSE
      /\ sent' = sent /\ type' = type /\ op' = op
  BY <1>0 DEF queueing, reading
<1>2. Len(sent) \in Nat \ {0} /\ sent \in Seq(Lines)
  BY <1>0, EmptySeq DEF ListInv, Typed
<1>3. sent[1] \in Lines
  BY <1>2, ElementOfSeq
<1>4. \/ pc' = "line" /\ reply' = sent /\ heap' = heap \cup {<<0, <<>>>>}
      \/ pc' = "clean" /\ reply' \in {<<sent[1]>>, sent} /\ heap' = heap
      \/ pc' = "done" /\ result' = "failed" /\ reply' = <<>> /\ heap' = heap
  BY <1>0 DEF Received, Return, Lost
<1>5. <<sent[1]>> \in Seq(Lines)
  BY <1>3
<1>6. Typed' BY <1>1, <1>2, <1>4, <1>5 DEF ListInv, Typed
<1>7. Ordered' BY <1>1, <1>2 DEF Ordered
<1>8. Stage' BY <1>1, <1>2, <1>4, <1>0 DEF ListInv, Stage
<1>9. Queued' BY <1>1, <1>4 DEF Queued
<1>10. heap = {}
  <2> SUFFICES ASSUME NEW o \in heap PROVE FALSE
    OBVIOUS
  <2> QED BY <1>0 DEF ListInv, Heap, Left
<1>11. Heap' BY <1>4, <1>10 DEF Heap, Held
<1> QED BY <1>6, <1>7, <1>8, <1>9, <1>11 DEF ListInv

LEMMA CleanStep == ListInv /\ Clean => ListInv'
<1> SUFFICES ASSUME ListInv, Clean PROVE ListInv'
  OBVIOUS
<1> USE Empties DEF Clean
<1>1. /\ pc = "clean" /\ pc' = "done" /\ result' = "failed"
      /\ got = <<>> /\ ids = <<>> /\ queued = <<>> /\ list = <<>>
      /\ UNCHANGED <<op, type, sent, list, heap, got, ids, queued, lost>>
      /\ reply' = <<>>
  BY DEF ListInv, Stage, reading, queueing, Return, Lost
<1>2. Typed' BY <1>1 DEF ListInv, Typed
<1>3. Ordered' BY <1>1 DEF ListInv, Ordered, Val, Whole
<1>4. Stage' BY <1>1 DEF ListInv, Stage
<1>5. Queued' BY <1>1 DEF Queued
<1>6. Heap' BY <1>1 DEF ListInv, Heap, Left
<1> QED BY <1>2, <1>3, <1>4, <1>5, <1>6 DEF ListInv

LEMMA ConvertStep == ListInv /\ Convert => ListInv'
<1> SUFFICES ASSUME ListInv, Convert PROVE ListInv'
  OBVIOUS
<1> DEFINE line == Head(reply).line
           r == Parse(type, line)
           item == [n |-> Len(list) + 1, val |-> r.val]
           now == heap \cup (IF r.val = NULL THEN {} ELSE Freed(item))
           all == Append(list, item)
           m == Len(list) + 1
<1>0. /\ pc = "line" /\ got = <<>> /\ ids = <<>> /\ queued = <<>> /\ lost = FALSE
      /\ UNCHANGED <<op, type, sent, got, ids, queued>>
  BY DEF ListInv, Stage, Convert, reading, queueing
<1>1. \/ /\ pc' = "clean" /\ list' = <<>> /\ heap' = now \ Done(all)
         /\ reply' = reply /\ lost' = lost
      \/ /\ ~Rest(line, r.end) /\ list' = all /\ heap' = now
         /\ \/ Len(reply) > 1 /\ pc' = "line" /\ reply' = Tail(reply) /\ lost' = lost
            \/ Len(reply) > 1 /\ pc' = "walk" /\ reply' = <<>> /\ lost' = TRUE
            \/ Len(reply) = 1 /\ pc' = "walk" /\ reply' = reply /\ lost' = lost
  BY <1>0 DEF Convert, Received, Lost
<1>2. /\ Len(sent) \in Nat /\ Len(list) \in Nat /\ Len(reply) \in Nat /\ 1 <= Len(reply)
      /\ reply \in Seq(Lines) /\ list \in Seq(Items) /\ type \in Types
      /\ Len(list) + Len(reply) = Len(sent)
      /\ \A k \in 1 .. Len(reply) : reply[k] = sent[Len(list) + k]
      /\ DOMAIN list = 1 .. Len(list)
  BY <1>0, Lengths DEF ListInv, Stage, Typed
<1>3. Head(reply) = reply[1] /\ reply # <<>>
  BY <1>2, Empties
<1>4. line = sent[m].line /\ Head(reply) \in Lines
  BY <1>2, <1>3, ElementOfSeq
<1>5. r.val \in Vals
  BY <1>2, <1>4 DEF Vals
<1>6. item \in Items
  BY <1>2, <1>5 DEF Items
<1>7. r.val = Val(m) /\ (~Rest(line, r.end) <=> Whole(m))
  BY <1>4 DEF Val, Whole
<1>8. item.n = m /\ item.val = Val(m)
  BY <1>7
<1> HIDE DEF line, r, item
<1>9. /\ all \in Seq(Items) /\ Len(all) = m /\ all[m] = item
      /\ \A k \in 1 .. Len(list) : all[k] = list[k]
      /\ DOMAIN all = 1 .. m
  BY <1>2, <1>6, AppendProperties, LenProperties
<1> HIDE DEF all
<1>10. /\ Tail(reply) \in Seq(Lines) /\ Len(Tail(reply)) = Len(reply) - 1
       /\ \A k \in 1 .. Len(Tail(reply)) : Tail(reply)[k] = reply[k + 1]
  BY <1>2, <1>3, HeadTailProperties
<1>11. Len(got) = 0 /\ \A k : Val(k)' = Val(k) /\ Whole(k)' = Whole(k)
  <2>1. Len(got) = 0
    BY <1>0, Empties
  <2> QED BY <1>0, <2>1 DEF Val, Whole
<1>12. /\ \A k \in 1 .. Len(list) : list[k].n = k /\ list[k].val = Val(k) /\ Whole(k)
  <2> SUFFICES ASSUME NEW k \in 1 .. Len(list)
               PROVE  list[k].n = k /\ list[k].val = Val(k) /\ Whole(k)
    OBVIOUS
  <2>1. Len(got) + k = k
    BY <1>2, <1>11
  <2> QED BY <2>1 DEF ListInv, Ordered
<1>13. Typed'
  BY <1>0, <1>1, <1>9, <1>10, Empties DEF ListInv, Typed
<1>14. list' = <<>> \/ (list' = all /\ Whole(m))
  BY <1>1, <1>7
<1>15. Ordered'
  <2>1. Len(got') = 0 /\ 1 .. Len(got') = {} /\ got' = got /\ sent' = sent
    BY <1>0, <1>11
  <2>2. CASE list' = <<>>
    BY <2>1, <2>2, <1>2, Empties DEF Ordered
  <2>3. CASE list' = all /\ Whole(m)
    <3>1. Len(got') + Len(list') <= Len(sent')
      BY <2>1, <2>3, <1>2, <1>9
    <3>2. ASSUME NEW k \in 1 .. Len(list')
          PROVE  LET at == Len(got') + k
                 IN list'[k].n = at /\ list'[k].val = Val(at) /\ Whole(at)
      <4>1. k \in 1 .. m /\ Len(got') + k = k
        BY <2>1, <2>3, <1>9, <1>2
      <4>2. CASE k = m
        BY <4>1, <4>2, <2>3, <1>8, <1>9
      <4>3. CASE k # m
        <5>1. k \in 1 .. Len(list)
          BY <4>1, <4>3, <1>2
        <5> QED BY <4>1, <5>1, <2>3, <1>9, <1>12
      <4> QED BY <4>2, <4>3
    <3> QED BY <2>1, <3>1, <3>2, <1>11 DEF Ordered
  <2> QED BY <1>14, <2>2, <2>3
<1>16. Stage'
  <2>1. CASE pc' = "clean" /\ list' = <<>> /\ lost' = lost
    BY <1>0, <2>1 DEF ListInv, Stage
  <2>2. CASE list' = all /\ Len(reply) > 1 /\ pc' = "line" /\ reply' = Tail(reply) /\ lost' = lost
    <3>1. 1 <= Len(reply') /\ Len(list') + Len(reply') = Len(sent')
      BY <2>2, <1>0, <1>2, <1>9, <1>10
    <3>2. ASSUME NEW k \in 1 .. Len(reply') PROVE reply'[k] = sent'[Len(list') + k]
      <4>1. k + 1 \in 1 .. Len(reply) /\ Len(list') + k = Len(list) + (k + 1)
        BY <2>2, <1>2, <1>9, <1>10
      <4> QED BY <4>1, <2>2, <1>0, <1>2, <1>10
    <3>3. sent' # <<>>
      BY <1>0, <1>2, Empties
    <3> QED BY <2>2, <3>1, <3>2, <3>3, <1>0 DEF ListInv, Stage
  <2>3. CASE list' = all /\ pc' = "walk" /\ (lost' \/ Len(reply) = 1)
    <3>1. lost' \/ Len(got') + Len(list') = Len(sent')
      BY <2>3, <1>0, <1>2, <1>9, <1>11
    <3> QED BY <1>0, <2>3, <3>1 DEF ListInv, Stage
  <2> QED BY <1>1, <2>1, <2>2, <2>3
<1>17. Queued'
  <2>1. Len(ids') = 0 /\ Len(queued') = 0 /\ Len(got') = 0 /\ queued' = <<>>
        /\ 1 .. Len(ids') = {} /\ 1 .. Len(queued') = {}
    BY <1>0, Empties
  <2> QED BY <1>1, <2>1 DEF Queued
<1>18. \A o \in now : Held(o) \/ o \in Freed(item)
  <2> SUFFICES ASSUME NEW o \in heap PROVE Held(o)
    OBVIOUS
  <2>1. ~Left(o)
    BY <1>0, Empties DEF Left
  <2> QED BY <2>1 DEF ListInv, Heap
<1> HIDE DEF now
<1>19. \A o : Held(o) \/ o \in Freed(item) => o \in Done(all)
  <2> SUFFICES ASSUME NEW o, Held(o) \/ o \in Freed(item) PROVE o \in Done(all)
    OBVIOUS
  <2>1. CASE o = <<0, <<>>>> BY <2>1 DEF Done
  <2>2. CASE o \in Freed(item)
    <3>1. m \in DOMAIN all /\ all[m] = item
      BY <1>2, <1>9
    <3> QED BY <2>2, <3>1 DEF Done
  <2>3. CASE \E k \in 1 .. Len(list) : o \in Freed(list[k])
    <3>1. PICK k \in 1 .. Len(list) : o \in Freed(list[k])
      BY <2>3
    <3>2. k \in DOMAIN all /\ all[k] = list[k]
      BY <1>2, <1>9
    <3> QED BY <3>1, <3>2 DEF Done
  <2> QED BY <2>1, <2>2, <2>3 DEF Held
<1>20. Heap'
  <2>1. CASE pc' = "clean" /\ heap' = now \ Done(all)
    <3>1. heap' = {}
      BY <2>1, <1>18, <1>19
    <3> QED BY <3>1 DEF Heap
  <2>2. CASE pc' \in {"line", "walk"} /\ list' = all /\ heap' = now
    <3> SUFFICES ASSUME NEW o \in now PROVE Held(o)'
      BY <2>2 DEF Heap
    <3>1. o = <<0, <<>>>> \/ \E k \in 1 .. m : o \in Freed(all[k])
      <4>1. CASE o \in Freed(item)
        BY <4>1, <1>2, <1>9
      <4>2. CASE Held(o)
        <5>1. CASE o = <<0, <<>>>> BY <5>1
        <5>2. CASE \E k \in 1 .. Len(list) : o \in Freed(list[k])
          <6>1. PICK k \in 1 .. Len(list) : o \in Freed(list[k])
            BY <5>2
          <6>2. k \in 1 .. m /\ all[k] = list[k]
            BY <1>2, <1>9
          <6> QED BY <6>1, <6>2
        <5> QED BY <4>2, <5>1, <5>2 DEF Held
      <4> QED BY <1>18, <4>1, <4>2
    <3>2. type' = type /\ Len(list') = m
      BY <1>0, <2>2, <1>9
    <3> QED BY <3>1, <3>2, <2>2 DEF Held, Freed
  <2> QED BY <1>1, <2>1, <2>2
<1> QED BY <1>13, <1>15, <1>16, <1>17, <1>20 DEF ListInv

LEMMA TakeStep == ListInv /\ TakeItem => ListInv'
<1> SUFFICES ASSUME ListInv, TakeItem PROVE ListInv'
  OBVIOUS
<1> DEFINE v == Current
           g == Append(got, v)
           t == Tail(list)
           m == Len(got) + 1
<1>0. /\ pc = "walk" /\ v # NULL /\ got' = g /\ list' = t
      /\ UNCHANGED <<pc, op, type, sent, reply, lost, queued, result>>
      /\ op \in {"dump", "queuealbum"}
      /\ op = "dump" => heap' = heap \ Freed(list[1]) /\ ids' = ids
      /\ op = "queuealbum" => heap' = heap \ {<<list[1].n, <<>>>>} /\ ids' = Append(ids, v[<<"id">>])
  BY DEF TakeItem, reading
<1>1. list # <<>> /\ v = list[1].val
  BY <1>0 DEF Current
<1>2. /\ Len(sent) \in Nat /\ Len(list) \in Nat \ {0} /\ Len(got) \in Nat /\ Len(ids) \in Nat
      /\ Len(queued) \in Nat /\ DOMAIN got = 1 .. Len(got) /\ DOMAIN list = 1 .. Len(list)
      /\ list \in Seq(Items) /\ got \in Seq(Vals) /\ ids \in Seq(Ids)
  BY <1>1, Lengths, EmptySeq DEF ListInv, Typed
<1>3. list[1] \in Items
  BY <1>2, ElementOfSeq
<1>4. v \in Vals /\ v[<<"id">>] \in Ids
  BY <1>1, <1>3 DEF Items, Ids
<1>5. v = Val(m) /\ list[1].n = m /\ Whole(m) /\ m <= Len(sent)
  BY <1>1, <1>2 DEF ListInv, Ordered
<1> HIDE DEF v
<1>6. /\ g \in Seq(Vals) /\ Len(g) = m /\ g[m] = v /\ DOMAIN g = 1 .. m
      /\ \A k \in 1 .. Len(got) : g[k] = got[k]
  BY <1>2, <1>4, AppendProperties, LenProperties
<1>7. /\ t \in Seq(Items) /\ Len(t) = Len(list) - 1
      /\ \A k \in 1 .. Len(t) : t[k] = list[k + 1]
  BY <1>1, <1>2, HeadTailProperties
<1> HIDE DEF g, t
<1>8. \A k : Val(k)' = Val(k) /\ Whole(k)' = Whole(k)
  BY <1>0 DEF Val, Whole
<1>9. ids' \in Seq(Ids)
  <2>1. Append(ids, v[<<"id">>]) \in Seq(Ids)
    BY <1>2, <1>4, AppendProperties
  <2> QED BY <1>0, <1>2, <2>1
<1>10. Typed'
  BY <1>0, <1>6, <1>7, <1>9 DEF ListInv, Typed
<1>11. Ordered'
  <2>1. Len(got') + Len(list') <= Len(sent')
    BY <1>0, <1>2, <1>6, <1>7 DEF ListInv, Ordered
  <2>2. ASSUME NEW k \in 1 .. Len(got') PROVE got'[k] = Val(k) /\ Val(k) # NULL /\ Whole(k)
    <3>1. CASE k = m
      BY <3>1, <1>0, <1>5, <1>6
    <3>2. CASE k # m
      <4>1. k \in 1 .. Len(got)
        BY <2>2, <3>2, <1>0, <1>2, <1>6
      <4> QED BY <4>1, <1>0, <1>6 DEF ListInv, Ordered
    <3> QED BY <3>1, <3>2
  <2>3. ASSUME NEW k \in 1 .. Len(list')
        PROVE  LET at == Len(got') + k
               IN list'[k].n = at /\ list'[k].val = Val(at) /\ Whole(at)
    <3>1. k + 1 \in 1 .. Len(list) /\ Len(got') + k = Len(got) + (k + 1) /\ list'[k] = list[k + 1]
      BY <2>3, <1>0, <1>2, <1>6, <1>7
    <3> QED BY <3>1 DEF ListInv, Ordered
  <2> QED BY <2>1, <2>2, <2>3, <1>8 DEF Ordered
<1>12. Stage'
  <2>1. lost \/ Len(got) + Len(list) = Len(sent)
    BY <1>0 DEF ListInv, Stage
  <2>2. Len(got') + Len(list') = Len(got) + Len(list)
    BY <1>0, <1>2, <1>6, <1>7
  <2>3. lost' \/ Len(got') + Len(list') = Len(sent')
    BY <1>0, <2>1, <2>2, Zenon
  <2> QED BY <2>3, <1>0 DEF Stage
<1>13. Queued'
  <2>1. queued = <<>> /\ queued' = <<>> /\ Len(queued) = 0 /\ Len(queued') = 0
    BY <1>0, Empties DEF ListInv, Queued
  <2>2. ASSUME op = "queuealbum"
        PROVE  /\ Len(queued') + Len(ids') = Len(got')
               /\ \A k \in 1 .. Len(ids') : ids'[k] = got'[Len(queued') + k][<<"id">>]
    <3>1. Len(ids) = Len(got) /\ \A k \in 1 .. Len(ids) : ids[k] = got[Len(queued) + k][<<"id">>]
      BY <2>1, <2>2, <1>0, <1>2 DEF ListInv, Queued
    <3>2. /\ Len(ids') = Len(ids) + 1 /\ ids'[Len(ids) + 1] = v[<<"id">>]
          /\ \A k \in 1 .. Len(ids) : ids'[k] = ids[k]
      <4> DEFINE a == Append(ids, v[<<"id">>])
      <4>1. /\ Len(a) = Len(ids) + 1 /\ a[Len(ids) + 1] = v[<<"id">>]
            /\ \A k \in 1 .. Len(ids) : a[k] = ids[k]
        BY <1>2, <1>4, AppendProperties
      <4>2. ids' = a
        BY <2>2, <1>0
      <4> HIDE DEF a
      <4> QED BY <4>1, <4>2
    <3>3. ASSUME NEW k \in 1 .. Len(ids') PROVE ids'[k] = got'[Len(queued') + k][<<"id">>]
      <4>1. Len(queued') + k = k /\ Len(queued) + k = k
        BY <2>1, <3>2, <1>2
      <4>2. CASE k = m
        BY <4>1, <4>2, <3>1, <3>2, <1>0, <1>6
      <4>3. CASE k # m
        <5>1. k \in 1 .. Len(ids)
          BY <4>3, <3>1, <3>2, <1>2
        <5>2. ids'[k] = got[k][<<"id">>]
          BY <4>1, <5>1, <3>1, <3>2
        <5>3. got'[k] = got[k]
          BY <5>1, <3>1, <1>0, <1>6
        <5> QED BY <4>1, <5>2, <5>3
      <4> QED BY <4>2, <4>3
    <3>4. Len(queued') + Len(ids') = Len(got')
      BY <2>1, <3>1, <3>2, <1>0, <1>2, <1>6
    <3> QED BY <3>3, <3>4
  <2>3. Len(queued') <= Len(got') /\ 1 .. Len(queued') = {}
    BY <2>1, <1>0, <1>2, <1>6
  <2> QED BY <2>1, <2>2, <2>3, <1>0 DEF Queued
<1>14. Heap'
  <2> SUFFICES ASSUME NEW o \in heap' PROVE Left(o)' \/ (pc' = "walk" /\ Held(o)')
    BY DEF Heap
  <2>0. pc' = "walk" /\ o \in heap
    BY <1>0
  <2>1. CASE Left(o)
    BY <2>1, <1>0, <1>2, <1>6 DEF Left
  <2>2. CASE o = <<0, <<>>>>
    BY <2>0, <2>2 DEF Held
  <2>3. CASE \E k \in 1 .. Len(list) : o \in Freed(list[k])
    <3>1. PICK k \in 1 .. Len(list) : o \in Freed(list[k])
      BY <2>3
    <3>2. CASE k # 1
      <4>1. k - 1 \in 1 .. Len(t) /\ t[k - 1] = list[k]
        BY <3>2, <1>2, <1>7
      <4>2. k - 1 \in 1 .. Len(list') /\ list'[k - 1] = list[k]
        BY <4>1, <1>0
      <4>3. \E j \in 1 .. Len(list') : o \in Freed(list'[j])
        BY <3>1, <4>2
      <4> QED BY <2>0, <4>3, <1>0 DEF Held, Freed
    <3>3. CASE k = 1
      <4>1. o \in Freed(list[1])
        BY <3>1, <3>3
      <4>2. op = "queuealbum" /\ o # <<list[1].n, <<>>>>
        BY <4>1, <1>0
      <4>3. PICK x : o = <<list[1].n, x>>
        BY <4>1 DEF Freed
      <4>4. o[1] = m /\ o[2] # <<>>
        BY <4>2, <4>3, <1>5
      <4> QED BY <4>2, <4>4, <1>0, <1>2, <1>6 DEF Left
    <3> QED BY <3>2, <3>3
  <2> QED BY <2>0, <2>1, <2>2, <2>3 DEF ListInv, Heap, Held
<1> QED BY <1>10, <1>11, <1>12, <1>13, <1>14 DEF ListInv

LEMMA EndStep == ListInv /\ EndOfList => ListInv'
<1> SUFFICES ASSUME ListInv, EndOfList PROVE ListInv'
  OBVIOUS
<1>0. /\ pc = "walk" /\ Current = NULL /\ heap' = heap \ Done(list) /\ list' = <<>>
      /\ UNCHANGED <<op, type, sent, reply, lost, got, ids, queued>>
      /\ \/ op = "dump" /\ pc' = "done" /\ result' = "ok"
         \/ op # "dump" /\ pc' = "add" /\ result' = result
      /\ op \in {"dump", "queuealbum"}
  BY DEF EndOfList, Return, reading, queueing, ListInv, Stage
<1>1. /\ Len(sent) \in Nat /\ Len(list) \in Nat /\ Len(got) \in Nat /\ Len(queued) \in Nat
      /\ DOMAIN list = 1 .. Len(list) /\ list \in Seq(Items)
  BY Lengths DEF ListInv, Typed
<1>2. \A k : Val(k)' = Val(k) /\ Whole(k)' = Whole(k)
  BY <1>0 DEF Val, Whole
<1>3. AllTaken
  <2>1. CASE list = <<>>
    <3>1. Len(list) = 0
      BY <2>1, Empties
    <3> QED BY <3>1, <1>0, <1>1 DEF ListInv, Stage, AllTaken
  <2>2. CASE list # <<>>
    <3>1. Len(list) \in Nat \ {0} /\ list[1].val = NULL
      BY <2>2, <1>0, <1>1, EmptySeq DEF Current
    <3>2. 1 \in 1 .. Len(list)
      BY <3>1
    <3> DEFINE at == Len(got) + 1
    <3>3. list[1].val = Val(at) /\ Whole(at)
      BY <3>2 DEF ListInv, Ordered
    <3>4. at <= Len(sent)
      BY <3>1, <1>1 DEF ListInv, Ordered
    <3> QED BY <3>1, <3>3, <3>4 DEF AllTaken
  <2> QED BY <2>1, <2>2
<1>4. AllTaken'
  BY <1>0, <1>2, <1>3 DEF AllTaken
<1>5. Typed' BY <1>0, Empties DEF ListInv, Typed
<1>6. Ordered'
  <2>1. Len(got') + Len(list') <= Len(sent') /\ 1 .. Len(list') = {}
    BY <1>0, <1>1, Empties DEF ListInv, Ordered
  <2> QED BY <2>1, <1>0, <1>2 DEF ListInv, Ordered
<1>7. Stage' BY <1>0, <1>4 DEF Stage
<1>8. Queued' BY <1>0 DEF ListInv, Queued
<1>9. Heap'
  <2> SUFFICES ASSUME NEW o \in heap, o \notin Done(list) PROVE Left(o)
    BY <1>0 DEF Heap, Left
  <2>1. ~Held(o)
    BY <1>1 DEF Held, Done
  <2> QED BY <2>1 DEF ListInv, Heap
<1> QED BY <1>5, <1>6, <1>7, <1>8, <1>9 DEF ListInv

LEMMA QueueAddStep == ListInv /\ QueueAdd => ListInv'
<1> SUFFICES ASSUME ListInv, QueueAdd PROVE ListInv'
  OBVIOUS
<1> DEFINE q == Append(queued, Head(ids))
           m == Len(queued) + 1
<1>0. /\ pc = "add" /\ ids # <<>> /\ op = "queuealbum"
      /\ UNCHANGED <<op, type, sent, reply, list, got, lost, heap>>
      /\ \/ queued' = q /\ ids' = Tail(ids) /\ pc' = "add"
         \/ queued' \in {queued, q} /\ ids' = ids /\ pc' = "done" /\ result' = "failed"
  BY DEF QueueAdd, GoOn, GiveUp, Return, reading, ListInv, Queued
<1>1. /\ Len(queued) \in Nat /\ Len(ids) \in Nat \ {0} /\ Len(got) \in Nat
      /\ queued \in Seq(Ids) /\ ids \in Seq(Ids)
  BY <1>0, Lengths, EmptySeq DEF ListInv, Typed
<1>2. /\ Head(ids) \in Ids /\ Head(ids) = ids[1]
      /\ Tail(ids) \in Seq(Ids) /\ Len(Tail(ids)) = Len(ids) - 1
      /\ \A k \in 1 .. Len(Tail(ids)) : Tail(ids)[k] = ids[k + 1]
  BY <1>0, <1>1, HeadTailProperties
<1>3. /\ q \in Seq(Ids) /\ Len(q) = m /\ q[m] = ids[1]
      /\ \A k \in 1 .. Len(queued) : q[k] = queued[k]
  BY <1>1, <1>2, AppendProperties
<1> HIDE DEF q
<1>4. /\ Len(queued) + Len(ids) = Len(got)
      /\ \A k \in 1 .. Len(ids) : ids[k] = got[Len(queued) + k][<<"id">>]
  BY <1>0 DEF ListInv, Queued
<1>5. ids[1] = got[m][<<"id">>] /\ m <= Len(got)
  BY <1>1, <1>4
<1>6. \A k : Val(k)' = Val(k) /\ Whole(k)' = Whole(k)
  BY <1>0 DEF Val, Whole
<1>7. Typed'
  BY <1>0, <1>1, <1>2, <1>3 DEF ListInv, Typed
<1>8. Ordered'
  BY <1>0, <1>6 DEF ListInv, Ordered
<1>9. Stage'
  <2>1. AllTaken'
    BY <1>0, <1>6 DEF ListInv, Stage, AllTaken
  <2> QED BY <2>1, <1>0 DEF Stage
<1>10. queued' \in {queued, q} /\ Len(queued') <= Len(got') /\ got' = got
  BY <1>0, <1>1, <1>3, <1>5 DEF ListInv, Queued
<1>11. ASSUME NEW k \in 1 .. Len(queued') PROVE queued'[k] = got'[k][<<"id">>]
  <2>1. CASE k \in 1 .. Len(queued)
    <3>1. queued'[k] = queued[k]
      BY <2>1, <1>3, <1>10
    <3> QED BY <2>1, <3>1, <1>10 DEF ListInv, Queued
  <2>2. CASE k \notin 1 .. Len(queued)
    <3>1. queued' = q /\ k = m
      BY <1>11, <2>2, <1>1, <1>3, <1>10
    <3> QED BY <3>1, <1>3, <1>5, <1>10
  <2> QED BY <2>1, <2>2
<1>12. ASSUME pc' = "add"
       PROVE  /\ Len(queued') + Len(ids') = Len(got')
              /\ \A k \in 1 .. Len(ids') : ids'[k] = got'[Len(queued') + k][<<"id">>]
  <2>1. queued' = q /\ ids' = Tail(ids) /\ got' = got
    BY <1>0, <1>12
  <2>2. Len(queued') + Len(ids') = Len(got')
    BY <2>1, <1>1, <1>2, <1>3, <1>4
  <2>3. ASSUME NEW k \in 1 .. Len(ids') PROVE ids'[k] = got'[Len(queued') + k][<<"id">>]
    <3>1. /\ k + 1 \in 1 .. Len(ids) /\ ids'[k] = ids[k + 1]
          /\ Len(queued') + k = Len(queued) + (k + 1)
      BY <2>1, <2>3, <1>1, <1>2, <1>3
    <3> QED BY <2>1, <3>1, <1>4
  <2> QED BY <2>2, <2>3
<1>13. Queued'
  BY <1>0, <1>10, <1>11, <1>12 DEF Queued
<1>14. Heap'
  BY <1>0 DEF ListInv, Heap, Left
<1> QED BY <1>7, <1>8, <1>9, <1>13, <1>14 DEF ListInv

LEMMA QueueEndStep == ListInv /\ QueueEnd => ListInv'
<1> SUFFICES ASSUME ListInv, QueueEnd PROVE ListInv'
  OBVIOUS
<1>0. /\ pc = "add" /\ ids = <<>> /\ op = "queuealbum" /\ pc' = "done" /\ result' = "ok"
      /\ UNCHANGED <<op, type, sent, reply, list, got, ids, queued, lost, heap>>
  BY DEF QueueEnd, Return, reading, queueing, ListInv, Queued
<1>1. \A k : Val(k)' = Val(k) /\ Whole(k)' = Whole(k)
  BY <1>0 DEF Val, Whole
<1>2. Typed' BY <1>0 DEF ListInv, Typed
<1>3. Ordered' BY <1>0, <1>1 DEF ListInv, Ordered
<1>4. AllTaken' BY <1>0, <1>1 DEF ListInv, Stage, AllTaken
<1>5. Stage' BY <1>0, <1>4 DEF Stage
<1>6. Len(queued) = Len(got)
  <2>1. Len(ids) = 0 /\ Len(queued) \in Nat
    BY <1>0, Empties, Lengths DEF ListInv
  <2> QED BY <2>1, <1>0 DEF ListInv, Queued
<1>7. Queued' BY <1>0, <1>6 DEF ListInv, Queued
<1>8. Heap' BY <1>0 DEF ListInv, Heap, Left
<1> QED BY <1>2, <1>3, <1>5, <1>7, <1>8 DEF ListInv

\* A broadcast leaves the list that is being read alone.
LEMMA BcastStep == ListInv /\ (Bcast \/ UNCHANGED vars) => ListInv'
<1> SUFFICES ASSUME ListInv, Bcast \/ UNCHANGED vars PROVE ListInv'
  OBVIOUS
<1>0. UNCHANGED <<pc, op, type, sent, reply, list, got, ids, queued, lost, heap, result>>
  BY DEF Bcast, vars, reading, queueing
<1>1. \A k : Val(k)' = Val(k) /\ Whole(k)' = Whole(k)
  BY <1>0 DEF Val, Whole
<1>2. Typed' BY <1>0 DEF ListInv, Typed
<1>3. Ordered' BY <1>0, <1>1 DEF ListInv, Ordered
<1>4. AllTaken' <=> AllTaken BY <1>0, <1>1 DEF AllTaken
<1>5. Stage' BY <1>0, <1>4 DEF ListInv, Stage
<1>6. Queued' BY <1>0 DEF ListInv, Queued
<1>7. Heap' BY <1>0 DEF ListInv, Heap, Left, Held, Freed
<1> QED BY <1>2, <1>3, <1>5, <1>6, <1>7 DEF ListInv

LEMMA ListInvariant == Spec => []ListInv
<1>1. ListInv /\ [Next]_vars => ListInv'
  BY FinishedStep, AskStep, FirstStep, ConvertStep, CleanStep, TakeStep, EndStep,
     QueueAddStep, QueueEndStep, BcastStep DEF Next
<1> QED BY <1>1, ListInit, PTL DEF Spec

(***************************************************************************)
(* When an operation is over nothing of its list is on the heap (the       *)
(* iterator's done in iterate.c, the callers' frees in cmd/msg.c), however *)
(* it ended; but queuealbum leaves what its tracks refer to.               *)
(***************************************************************************)
THEOREM ListIsFreed == Spec => []NothingLeaks
<1>1. ListInv => NothingLeaks
  BY DEF ListInv, Heap, Left, NothingLeaks
<1> QED BY <1>1, ListInvariant, PTL

(***************************************************************************)
(* What the parsers make of a line.                                        *)
(***************************************************************************)

\* The text read so far, and whether a backslash is pending.
LEMMA TakeRuns ==
  ASSUME NEW C, TAB \in C, NEW text \in Seq(C)
  PROVE  \E c : /\ c[0] = [text |-> <<>>, escape |-> FALSE]
                /\ \A k \in 1 .. Len(text) : c[k] = Take(c[k - 1], text[k])
                /\ Unescaped(text) = c[Len(text)].text
<1> DEFINE n == Len(text)
           A == [text : Seq(C), escape : BOOLEAN]
           base == [text |-> <<>>, escape |-> FALSE]
           step == [k \in 1 .. n |-> [x \in A |-> Take(x, text[k])]]
           Eq(c) == c = [k \in 0 .. n |-> IF k = 0 THEN base ELSE Take(c[k - 1], text[k])]
           c0 == CHOOSE c : Eq(c)
<1>1. n \in Nat /\ base \in A /\ \A k \in 1 .. n : text[k] \in C
  BY LenProperties, ElementOfSeq, EmptySeq
<1>2. \A x \in A : \A ch \in C : Take(x, ch) \in A
  <2> SUFFICES ASSUME NEW x \in A, NEW ch \in C PROVE Take(x, ch) \in A
    OBVIOUS
  <2>1. x.text \in Seq(C) /\ x = [text |-> x.text, escape |-> x.escape]
    OBVIOUS
  <2>2. \A y \in C : Append(x.text, y) \in Seq(C)
    BY <2>1, AppendProperties
  <2> QED BY <2>1, <2>2 DEF Take
<1>3. Steps(n, A, step)
  BY <1>1, <1>2 DEF Steps
<1>4. Runs(n, A, base, step)
  <2> HIDE DEF n, A, base, step
  <2> QED BY <1>1, <1>3, Iterates
<1>5. PICK g \in [0 .. n -> A] : g[0] = base /\ \A k \in 1 .. n : g[k] = step[k][g[k - 1]]
  BY <1>4 DEF Runs
<1>6. Eq(g)
  <2>1. ASSUME NEW k \in 1 .. n PROVE g[k] = Take(g[k - 1], text[k])
    <3>1. k - 1 \in 0 .. n
      BY <1>1
    <3>2. g[k - 1] \in A
      BY <1>5, <3>1
    <3> QED BY <1>5, <3>2
  <2>2. \A k \in 0 .. n : g[k] = IF k = 0 THEN base ELSE Take(g[k - 1], text[k])
    BY <1>5, <2>1
  <2> HIDE DEF base, A, n
  <2> QED BY <1>5, <2>2
<1>7. Eq(c0)
  <2> HIDE DEF Eq
  <2> QED BY <1>6
<1>8. Unescaped(text) = c0[n].text
  BY DEF Unescaped
<1> HIDE DEF c0
<1>9. c0[0] = base /\ \A k \in 1 .. n : c0[k] = Take(c0[k - 1], text[k])
  <2>1. \A k \in 0 .. n : c0[k] = IF k = 0 THEN base ELSE Take(c0[k - 1], text[k])
    <3> HIDE DEF base, n
    <3> QED BY <1>7
  <2>2. 0 \in 0 .. n /\ \A k \in 1 .. n : k \in 0 .. n /\ k # 0
    BY <1>1
  <2> HIDE DEF base, n
  <2> QED BY <2>1, <2>2
<1> QED BY <1>8, <1>9

\* The characters that mean something are not each other.
LEMMA Chars == /\ TAB # BS /\ TAB # NUL /\ BS # NUL /\ "t" # TAB /\ "t" # BS /\ "t" # NUL
BY DEF TAB, BS, NUL

(***************************************************************************)
(* _duc_fielddup undoes the escaping (lib/proto.c:314-333), whatever the   *)
(* text; what is escaped holds no tab, so that a field ends where the tab  *)
(* behind it is.                                                           *)
(***************************************************************************)
THEOREM EscapedBack ==
  ASSUME NEW text, IsText(text)
  PROVE  /\ Escaped(text) \in Seq(ToSet(text) \cup {TAB, BS, "t"})
         /\ \A i \in 1 .. Len(Escaped(text)) : Escaped(text)[i] \notin {TAB, NUL}
         /\ Unescaped(Escaped(text)) = text
<1> DEFINE S == ToSet(text) \cup {TAB, BS, "t"}
           n == Len(text)
           seqs == [k \in DOMAIN text |-> EscapedChar(text[k])]
           e == FlattenSeq(seqs)
<1>1. /\ text \in Seq(S) /\ n \in Nat /\ DOMAIN text = 1 .. n
      /\ \A k \in 1 .. n : text[k] \in S /\ text[k] # NUL
  <2>1. text \in Seq(ToSet(text)) /\ NUL \notin ToSet(text)
    BY DEF IsText
  <2>2. text \in Seq(S) /\ n \in Nat /\ DOMAIN text = 1 .. n
    BY <2>1, SeqMonotonic, LenProperties
  <2>3. \A k \in 1 .. n : text[k] \in ToSet(text)
    BY <2>1, ElementOfSeq
  <2> QED BY <2>1, <2>2, <2>3
<1>2. \A ch \in S : /\ EscapedChar(ch) \in Seq(S)
                    /\ \/ ch = TAB /\ EscapedChar(ch) = <<BS, "t">>
                       \/ ch = BS /\ EscapedChar(ch) = <<BS, BS>>
                       \/ ch \notin {TAB, BS} /\ EscapedChar(ch) = <<ch>>
  <2> SUFFICES ASSUME NEW ch \in S
               PROVE  /\ EscapedChar(ch) \in Seq(S)
                      /\ \/ ch = TAB /\ EscapedChar(ch) = <<BS, "t">>
                         \/ ch = BS /\ EscapedChar(ch) = <<BS, BS>>
                         \/ ch \notin {TAB, BS} /\ EscapedChar(ch) = <<ch>>
    OBVIOUS
  <2>1. BS \in S /\ "t" \in S /\ TAB # BS
    BY Chars
  <2> HIDE DEF S
  <2> QED BY <2>1 DEF EscapedChar
<1>3. seqs \in Seq(Seq(S)) /\ Len(seqs) = n /\ \A k \in 1 .. n : seqs[k] = EscapedChar(text[k])
  <2> HIDE DEF S, n
  <2> QED BY <1>1, <1>2
<1> HIDE DEF seqs
<1>4. e \in Seq(S) /\ e = Escaped(text)
  <2> HIDE DEF S
  <2> QED BY <1>3, Flattened DEF Escaped, seqs
<1>5. PICK at \in [0 .. n -> Nat] :
        /\ at[0] = 0 /\ at[n] = Len(e)
        /\ \A k \in 1 .. n :
             /\ at[k] = at[k - 1] + Len(seqs[k])
             /\ at[k] <= at[n]
             /\ \A j \in 1 .. Len(seqs[k]) : e[at[k - 1] + j] = seqs[k][j]
  <2>1. Laid(seqs, e)
    <3> HIDE DEF S, n
    <3> QED BY <1>3, Flattened
  <2> HIDE DEF e
  <2> QED BY <1>3, <2>1 DEF Laid
<1> HIDE DEF e
<1>6. PICK c : /\ c[0] = [text |-> <<>>, escape |-> FALSE]
               /\ \A i \in 1 .. Len(e) : c[i] = Take(c[i - 1], e[i])
               /\ Unescaped(e) = c[Len(e)].text
  <2>1. TAB \in S
    OBVIOUS
  <2> HIDE DEF S
  <2> QED BY <1>4, <2>1, TakeRuns
<1> DEFINE T == {k \in 0 .. n : /\ c[at[k]] = [text |-> SubSeq(text, 1, k), escape |-> FALSE]
                                /\ \A i \in 1 .. at[k] : e[i] \notin {TAB, NUL}}
<1>7. 0 \in T
  <2>1. SubSeq(text, 1, 0) = <<>>
    BY SubSeqEmpty
  <2>2. 1 .. at[0] = {} /\ 0 \in 0 .. n
    BY <1>1, <1>5
  <2> QED BY <1>5, <1>6, <2>1, <2>2
<1>8. ASSUME NEW k \in 0 .. n - 1, k \in T PROVE k + 1 \in T
  <2> DEFINE m == k + 1
             ch == text[m]
  <2>1. m \in 1 .. n /\ m \in 0 .. n /\ m - 1 = k /\ k \in 0 .. n
    BY <1>1
  <2>2. /\ c[at[k]] = [text |-> SubSeq(text, 1, k), escape |-> FALSE]
        /\ \A i \in 1 .. at[k] : e[i] \notin {TAB, NUL}
    BY <1>8
  <2>3. PICK a, b, w : /\ a = at[k] /\ b = at[m] /\ w = seqs[m] /\ a \in Nat /\ b \in Nat
                       /\ b = a + Len(w) /\ b <= Len(e)
                       /\ \A j \in 1 .. Len(w) : e[a + j] = w[j]
    <3>1. at[k] \in Nat /\ at[m] \in Nat
      BY <1>5, <2>1
    <3> HIDE DEF e, n, m
    <3> QED BY <1>5, <2>1, <3>1
  <2>4. SubSeq(text, 1, m) = Append(SubSeq(text, 1, k), ch)
    <3>1. \A i \in 1 .. m : text[i] \in S
      BY <1>1, <2>1
    <3>2. 1 <= m /\ m \in Int /\ k \in Int
      BY <2>1
    <3> HIDE DEF S
    <3> QED BY <1>1, <2>1, <3>1, <3>2, SubSeqRecursiveSecond
  <2>5. ch \in S /\ ch # NUL
    BY <1>1, <2>1
  <2>6. w = EscapedChar(ch)
    BY <1>3, <2>1, <2>3
  <2> DEFINE old == SubSeq(text, 1, k)
  <2> HIDE DEF old, m, ch
  <2>7. CASE w = <<ch>> /\ ch \notin {TAB, BS}
    <3>1. Len(w) = 1 /\ w[1] = ch
      BY <2>7
    <3>2. b = a + 1 /\ e[a + 1] = ch /\ a + 1 \in 1 .. Len(e) /\ (a + 1) - 1 = a
      <4>1. Len(e) \in Nat
        <5> HIDE DEF S
        <5> QED BY <1>4, LenProperties
      <4>2. 1 \in 1 .. Len(w)
        BY <3>1
      <4> QED BY <2>3, <3>1, <4>1, <4>2
    <3>3. c[b] = Take(c[a], ch)
      BY <1>6, <3>2
    <3>4. Take(c[a], ch) = [text |-> Append(old, ch), escape |-> FALSE]
      <4>1. ASSUME NEW acc, acc = [text |-> old, escape |-> FALSE]
            PROVE  Take(acc, ch) = [text |-> Append(old, ch), escape |-> FALSE]
        BY <2>7, <4>1 DEF Take
      <4> QED BY <2>2, <2>3, <4>1 DEF old
    <3>5. \A i \in 1 .. b : e[i] \notin {TAB, NUL}
      BY <2>2, <2>3, <2>5, <2>7, <3>2
    <3> QED BY <2>1, <2>3, <2>4, <3>3, <3>4, <3>5 DEF old, m
  <2>8. CASE \E x : w = <<BS, x>> /\ x # TAB /\ x # NUL /\ ch = (IF x = "t" THEN TAB ELSE x)
    <3>0. PICK x : w = <<BS, x>> /\ x # TAB /\ x # NUL /\ ch = (IF x = "t" THEN TAB ELSE x)
      BY <2>8
    <3>1. Len(w) = 2 /\ w[1] = BS /\ w[2] = x
      BY <3>0
    <3>2. /\ b = a + 2 /\ e[a + 1] = BS /\ e[a + 2] = x
          /\ a + 1 \in 1 .. Len(e) /\ (a + 1) - 1 = a
          /\ a + 2 \in 1 .. Len(e) /\ (a + 2) - 1 = a + 1
      <4>1. Len(e) \in Nat
        <5> HIDE DEF S
        <5> QED BY <1>4, LenProperties
      <4>2. 1 \in 1 .. Len(w) /\ 2 \in 1 .. Len(w)
        BY <3>1
      <4> QED BY <2>3, <3>1, <4>1, <4>2
    <3>3. c[a + 1] = Take(c[a], BS) /\ c[b] = Take(c[a + 1], x)
      BY <1>6, <3>2
    <3>4. c[a + 1] = [text |-> old, escape |-> TRUE]
      <4>1. ASSUME NEW acc, acc = [text |-> old, escape |-> FALSE]
            PROVE  Take(acc, BS) = [text |-> old, escape |-> TRUE]
        BY <4>1 DEF Take
      <4> QED BY <2>2, <2>3, <3>3, <4>1 DEF old
    <3>5. c[b] = [text |-> Append(old, ch), escape |-> FALSE]
      <4>1. ASSUME NEW acc, acc = [text |-> old, escape |-> TRUE]
            PROVE  Take(acc, x) = [text |-> Append(old, ch), escape |-> FALSE]
        BY <3>0, <4>1 DEF Take
      <4> QED BY <3>3, <3>4, <4>1
    <3>6. \A i \in 1 .. b : e[i] \notin {TAB, NUL}
      <4>1. \A i \in 1 .. a : e[i] \notin {TAB, NUL}
        BY <2>2, <2>3
      <4>2. e[a + 1] \notin {TAB, NUL} /\ e[a + 2] \notin {TAB, NUL}
        BY <3>0, <3>2, Chars
      <4>3. \A i \in 1 .. b : i \in 1 .. a \/ i = a + 1 \/ i = a + 2
        <5>1. a \in Nat /\ b = a + 2
          BY <2>3, <3>2
        <5> QED BY ONLY <5>1
      <4> QED BY <4>1, <4>2, <4>3
    <3> QED BY <2>1, <2>3, <2>4, <3>5, <3>6 DEF old, m
  <2> QED
    <3>1. \/ ch = TAB /\ w = <<BS, "t">>
          \/ ch = BS /\ w = <<BS, BS>>
          \/ ch \notin {TAB, BS} /\ w = <<ch>>
      <4> HIDE DEF S
      <4> QED BY <1>2, <2>5, <2>6
    <3> QED BY <2>7, <2>8, <3>1, Chars
<1>9. n \in T
  <2>1. \A k \in 0 .. n - 1 : k \in T => k + 1 \in T
    BY <1>8
  <2>2. \A k \in 0 .. n : k \in T
    <3> HIDE DEF T, n
    <3> QED BY <1>1, <1>7, <2>1, UpTo
  <2> QED BY <1>1, <2>2
<1>10. SubSeq(text, 1, n) = text
  <2> HIDE DEF S
  <2> QED BY <1>1, SubSeqFull
<1>11. /\ \A i \in 1 .. Len(e) : e[i] \notin {TAB, NUL}
       /\ Unescaped(e) = text
  BY <1>5, <1>6, <1>9, <1>10
<1> QED BY <1>4, <1>11

\* A number that is there is read, and nothing else is taken for one.
LEMMA StrtolReads ==
  ASSUME NEW line, Len(line) \in Nat, NEW s \in 1 .. Len(line) + 1, At(line, s) # TAB
  PROVE  Strtol(line, s) = IF At(line, s) \in Numerals THEN [val |-> line[s], end |-> s + 1]
                           ELSE [val |-> NUL, end |-> s]
<1> DEFINE P(n) == At(line, n) # TAB /\ \A k \in s .. n - 1 : line[k] = TAB
           n == CHOOSE n \in s .. Len(line) + 1 : P(n)
<1>1. s \in s .. Len(line) + 1 /\ P(s)
  OBVIOUS
<1>2. n \in s .. Len(line) + 1 /\ P(n)
  <2> HIDE DEF P
  <2> QED BY <1>1
<1>3. n = s
  <2> SUFFICES ASSUME n # s PROVE FALSE
    OBVIOUS
  <2> HIDE DEF n
  <2>1. s \in s .. n - 1 /\ s <= Len(line)
    BY <1>2
  <2> QED BY <1>2, <2>1 DEF At
<1> QED BY <1>3 DEF Strtol

\* A text ends where the next tab or the end of the line is.
LEMMA FieldReads ==
  ASSUME NEW line, Len(line) \in Nat, \A k \in 1 .. Len(line) : line[k] # NUL,
         NEW s \in 1 .. Len(line) + 1, NEW e \in s .. Len(line) + 1,
         At(line, e) \in {TAB, NUL}, \A k \in s .. e - 1 : line[k] \notin {TAB, NUL}
  PROVE  fielddup(line, s) = [val |-> Unescaped(SubSeq(line, s, e - 1)), end |-> e]
<1> DEFINE P(x) == At(line, x) \in {TAB, NUL} /\ \A k \in s .. x - 1 : line[k] # TAB
           end == CHOOSE x \in s .. Len(line) + 1 : P(x)
<1>1. P(e)
  OBVIOUS
<1>2. end \in s .. Len(line) + 1 /\ P(end)
  <2> HIDE DEF P
  <2> QED BY <1>1
<1>3. fielddup(line, s) = [val |-> Unescaped(SubSeq(line, s, end - 1)), end |-> end]
  BY DEF fielddup
<1> HIDE DEF end
<1>4. end = e
  <2>1. ~(end < e)
    <3> SUFFICES ASSUME end < e PROVE FALSE
      OBVIOUS
    <3>1. end \in s .. e - 1 /\ end <= Len(line)
      BY <1>2
    <3> QED BY <1>2, <3>1 DEF At
  <2>2. ~(e < end)
    <3> SUFFICES ASSUME e < end PROVE FALSE
      OBVIOUS
    <3>1. e \in s .. end - 1 /\ e <= Len(line) /\ e \in 1 .. Len(line)
      BY <1>2
    <3> QED BY <1>2, <3>1 DEF At
  <2> QED BY <1>2, <2>1, <2>2
<1> QED BY <1>3, <1>4

Fresh == [failed |-> FALSE, val |-> NULL, end |-> 0]

\* Parsing reads one field after the other.
LEMMA ParseRuns ==
  ASSUME NEW t, t # "help", NEW line, Len(Fields[t]) \in Nat,
         NEW g, g[0] = Fresh,
         \A k \in 1 .. Len(Fields[t]) : g[k] = Read(line, g[k - 1], Fields[t][k])
  PROVE  Parse(t, line) = [val |-> g[Len(Fields[t])].val, end |-> g[Len(Fields[t])].end]
<1> DEFINE n == Len(Fields[t])
           Eq(c) == c = [k \in 0 .. n |-> IF k = 0 THEN Fresh
                                          ELSE Read(line, c[k - 1], Fields[t][k])]
           c0 == CHOOSE c : Eq(c)
           h == [k \in 0 .. n |-> g[k]]
<1>1. Eq(h)
  <2>1. ASSUME NEW k \in 0 .. n
        PROVE  h[k] = IF k = 0 THEN Fresh ELSE Read(line, h[k - 1], Fields[t][k])
    <3>1. CASE k = 0
      BY <3>1
    <3>2. CASE k # 0
      <4>1. k \in 1 .. n /\ k - 1 \in 0 .. n
        BY <3>2
      <4> HIDE DEF n
      <4> QED BY <3>2, <4>1 DEF n
    <3> QED BY <3>1, <3>2
  <2> HIDE DEF n
  <2> QED BY <2>1
<1>2. Eq(c0)
  <2> HIDE DEF Eq
  <2> QED BY <1>1
<1>3. Parse(t, line) = [val |-> c0[n].val, end |-> c0[n].end]
  BY DEF Parse, Fresh
<1> HIDE DEF c0
<1>4. \A k \in 0 .. n : c0[k] = IF k = 0 THEN Fresh ELSE Read(line, c0[k - 1], Fields[t][k])
  BY <1>2
<1>5. c0[0] = g[0]
  BY <1>4
<1>6. \A k \in 1 .. n : c0[k - 1] = g[k - 1] => c0[k] = g[k]
  <2> SUFFICES ASSUME NEW k \in 1 .. n, c0[k - 1] = g[k - 1] PROVE c0[k] = g[k]
    OBVIOUS
  <2>1. k \in 0 .. n /\ k # 0
    OBVIOUS
  <2>2. c0[k] = Read(line, c0[k - 1], Fields[t][k])
    BY <1>4, <2>1
  <2> QED BY <2>2
<1>7. \A k \in 0 .. n : c0[k] = g[k]
  <2>1. n \in Nat
    OBVIOUS
  <2> HIDE DEF n
  <2> QED BY <1>5, <1>6, <2>1, SameRun
<1>8. c0[n] = g[n]
  BY <1>7
<1> QED BY <1>3, <1>8

\* Every record begins with a number.
LEMMA TheFields ==
  ASSUME NEW t \in DOMAIN Fields
  PROVE  /\ t # "help" /\ Len(Fields[t]) \in Nat \ {0}
         /\ DOMAIN Fields[t] = 1 .. Len(Fields[t])
         /\ Fields[t][1].kind = "int"
         /\ \A k \in 1 .. Len(Fields[t]) : Fields[t][k].kind \in {"int", "text"}
<1>1. t # "help"
  BY DEF Fields
<1> DEFINE R == [path : Seq(STRING), kind : {"int", "text"}]
<1>2. Fields[t] \in Seq(R) /\ Fields[t] # <<>> /\ Fields[t][1].kind = "int"
  BY FieldsFit
<1>3. Len(Fields[t]) \in Nat /\ DOMAIN Fields[t] = 1 .. Len(Fields[t]) /\ Len(Fields[t]) # 0
  <2> HIDE DEF R
  <2> QED BY <1>2, LenProperties, EmptySeq
<1>4. \A k \in 1 .. Len(Fields[t]) : Fields[t][k] \in R
  <2> HIDE DEF R
  <2> QED BY <1>2, ElementOfSeq
<1> QED BY <1>1, <1>2, <1>3, <1>4

\* What is written for a field.
Writes(w, f, x) ==
  /\ Len(w) \in Nat \ {0} /\ w[1] = TAB
  /\ f.kind = "int" => x \in Numerals /\ Len(w) = 2 /\ w[2] = x
  /\ f.kind # "int" =>
       /\ IsText(x) /\ Len(w) = Len(Escaped(x)) + 1
       /\ \A j \in 1 .. Len(Escaped(x)) : w[j + 1] = Escaped(x)[j]

LEMMA TheWriting ==
  ASSUME NEW t \in DOMAIN Fields, NEW record, IsRecord(t, record),
         NEW k \in 1 .. Len(Fields[t]), NEW f, f = Fields[t][k],
         NEW x, x = record[f.path], NEW w, w = Written(record, f)
  PROVE  w \in Seq({TAB, BS, "t"} \cup Numerals \cup ToSet(x)) /\ Writes(w, f, x)
<1> DEFINE S == {TAB, BS, "t"} \cup Numerals \cup ToSet(x)
           tab == <<TAB>>
<1>1. IF f.kind = "int" THEN x \in Numerals ELSE IsText(x)
  BY TheFields DEF IsRecord
<1>2. tab \in Seq(S) /\ Len(tab) = 1 /\ tab[1] = TAB
  OBVIOUS
<1>3. CASE f.kind = "int"
  <2> DEFINE y == <<x>>
  <2>1. w = tab \o y
    BY <1>3 DEF Written
  <2>2. y \in Seq(S) /\ Len(y) = 1 /\ y[1] = x
    BY <1>1, <1>3
  <2> HIDE DEF y, tab, S
  <2>3. /\ tab \o y \in Seq(S) /\ Len(tab \o y) = Len(tab) + Len(y)
        /\ \A j \in 1 .. Len(tab) : (tab \o y)[j] = tab[j]
        /\ \A j \in 1 .. Len(y) : (tab \o y)[Len(tab) + j] = y[j]
    <3>1. tab \in Seq(S) /\ y \in Seq(S)
      BY <1>2, <2>2
    <3> QED BY <3>1, Joined
  <2>4. w \in Seq(S) /\ Len(w) = 2 /\ w[1] = TAB /\ w[2] = x
    <3>1. w[1] = TAB /\ w[1 + 1] = x
      BY <1>2, <2>1, <2>2, <2>3
    <3> QED BY <1>2, <2>1, <2>2, <2>3, <3>1
  <2> QED BY <1>1, <1>3, <2>4 DEF S, Writes
<1>4. CASE f.kind # "int"
  <2> DEFINE y == Escaped(x)
             C == ToSet(x) \cup {TAB, BS, "t"}
  <2>1. w = tab \o y
    BY <1>4 DEF Written
  <2>2. IsText(x)
    BY <1>1, <1>4
  <2>3. y \in Seq(S) /\ Len(y) \in Nat
    <3>1. y \in Seq(C)
      BY <2>2, EscapedBack
    <3>2. C \subseteq S
      OBVIOUS
    <3> HIDE DEF y, C, S
    <3>3. y \in Seq(S)
      BY <3>1, <3>2, SeqMonotonic
    <3> QED BY <3>3, LenProperties
  <2> HIDE DEF y, tab, S
  <2>4. /\ tab \o y \in Seq(S) /\ Len(tab \o y) = Len(tab) + Len(y)
        /\ \A j \in 1 .. Len(tab) : (tab \o y)[j] = tab[j]
        /\ \A j \in 1 .. Len(y) : (tab \o y)[Len(tab) + j] = y[j]
    <3>1. tab \in Seq(S) /\ y \in Seq(S)
      BY <1>2, <2>3
    <3> QED BY <3>1, Joined
  <2>5. w \in Seq(S) /\ Len(w) = Len(y) + 1 /\ w[1] = TAB /\ \A j \in 1 .. Len(y) : w[j + 1] = y[j]
    <3>1. \A j \in 1 .. Len(y) : w[1 + j] = y[j]
      BY <1>2, <2>1, <2>4
    <3>2. \A j \in 1 .. Len(y) : 1 + j = j + 1
      OBVIOUS
    <3> QED BY <1>2, <2>1, <2>3, <2>4, <3>1, <3>2
  <2> QED BY <1>4, <2>2, <2>3, <2>5 DEF S, y, Writes
<1> QED BY <1>3, <1>4 DEF Writes

\* Where the fields of a line lie: the kth behind at[k - 1], and a tab behind
\* each but the last.
Spelled(t, record, at) ==
  LET n == Len(Fields[t])
      line == Line(t, record)
  IN /\ at \in [0 .. n -> Nat] /\ at[0] = 0 /\ at[n] = Len(line) + 1 /\ Len(line) \in Nat
     /\ \A k \in 1 .. n :
          LET w == Written(record, Fields[t][k]) IN
          /\ at[k] = at[k - 1] + Len(w) /\ at[k] <= at[n]
          /\ \A j \in 1 .. Len(w) : at[k - 1] + j > 1 => line[at[k - 1] + j - 1] = w[j]

LEMMA LineSpelled ==
  ASSUME NEW t \in DOMAIN Fields, NEW record, IsRecord(t, record)
  PROVE  \E at : Spelled(t, record, at)
<1> DEFINE n == Len(Fields[t])
           W == [k \in DOMAIN Fields[t] |-> Written(record, Fields[t][k])]
           C(k) == {TAB, BS, "t"} \cup Numerals \cup ToSet(record[Fields[t][k].path])
           S == UNION {C(k) : k \in 1 .. n}
           flat == FlattenSeq(W)
           line == Line(t, record)
<1>1. t # "help" /\ n \in Nat \ {0} /\ DOMAIN Fields[t] = 1 .. n
  BY TheFields
<1>2. ASSUME NEW k \in 1 .. n
      PROVE  /\ W[k] = Written(record, Fields[t][k])
             /\ W[k] \in Seq(S) /\ Len(W[k]) \in Nat \ {0} /\ W[k][1] = TAB
  <2>1. PICK f, x, w, R : /\ f = Fields[t][k] /\ x = record[f.path] /\ w = Written(record, f)
                          /\ R = {TAB, BS, "t"} \cup Numerals \cup ToSet(x) /\ R = C(k)
    OBVIOUS
  <2>2. w \in Seq(R) /\ Len(w) \in Nat \ {0} /\ w[1] = TAB
    <3> HIDE DEF C
    <3> QED BY <2>1, TheWriting DEF Writes
  <2>3. R \subseteq S
    BY <2>1
  <2>4. w \in Seq(S)
    <3> HIDE DEF S
    <3> QED BY <2>2, <2>3, SeqMonotonic
  <2>5. W[k] = w
    BY <1>1, <2>1
  <2> QED BY <2>1, <2>2, <2>4, <2>5
<1>3. W \in Seq(Seq(S)) /\ Len(W) = n
  <2>1. W = [k \in 1 .. n |-> W[k]]
    BY <1>1
  <2>2. \A k \in 1 .. n : W[k] \in Seq(S)
    BY <1>2
  <2> HIDE DEF W, S, n
  <2> QED BY <1>1, <2>1, <2>2
<1> HIDE DEF W
<1>4. flat \in Seq(S) /\ Laid(W, flat)
  <2> HIDE DEF S, n
  <2> QED BY <1>3, Flattened
<1>5. line = Tail(flat)
  BY <1>1 DEF Line, W
<1> HIDE DEF flat, line
<1>6. PICK at \in [0 .. n -> Nat] :
        /\ at[0] = 0 /\ at[n] = Len(flat)
        /\ \A k \in 1 .. n :
             /\ at[k] = at[k - 1] + Len(W[k])
             /\ at[k] <= at[n]
             /\ \A j \in 1 .. Len(W[k]) : flat[at[k - 1] + j] = W[k][j]
  <2> HIDE DEF n
  <2>1. Laid(W, flat) /\ Len(W) = n
    BY <1>3, <1>4
  <2> QED BY ONLY <2>1 DEF Laid
<1>7. flat # <<>> /\ Len(flat) \in Nat \ {0}
  <2>1. 1 \in 1 .. n /\ 1 - 1 = 0 /\ 0 \in 0 .. n /\ 1 \in 0 .. n
    BY <1>1
  <2>2. at[1] = at[0] + Len(W[1]) /\ at[1] <= at[n] /\ Len(W[1]) \in Nat \ {0} /\ at[1] \in Nat
    BY <1>2, <1>6, <2>1
  <2>3. Len(flat) # 0 /\ Len(flat) \in Nat
    <3>1. Len(flat) \in Nat
      <4> HIDE DEF S
      <4> QED BY <1>4, LenProperties
    <3> QED BY <1>6, <2>2, <3>1
  <2> QED BY <2>3
<1>8. /\ Len(line) = Len(flat) - 1
      /\ \A i \in 1 .. Len(line) : line[i] = flat[i + 1]
  <2> HIDE DEF S
  <2> QED BY <1>4, <1>5, <1>7, HeadTailProperties
<1>9. ASSUME NEW k \in 1 .. n, NEW j \in 1 .. Len(W[k]), at[k - 1] + j > 1
      PROVE  line[at[k - 1] + j - 1] = W[k][j]
  <2>1. k - 1 \in 0 .. n /\ k \in 0 .. n /\ at[k - 1] \in Nat /\ Len(W[k]) \in Nat
    <3>1. k - 1 \in 0 .. n /\ k \in 0 .. n
      BY <1>1
    <3>2. Len(W[k]) \in Nat
      BY <1>2
    <3> HIDE DEF n
    <3> QED BY <1>6, <3>1, <3>2
  <2>2. PICK a, b : a = at[k - 1] /\ b = at[k] /\ a \in Nat /\ b = a + Len(W[k]) /\ b <= Len(flat)
                    /\ flat[a + j] = W[k][j]
    BY <1>6, <2>1
  <2>3. a + j - 1 \in 1 .. Len(line) /\ (a + j - 1) + 1 = a + j
    <3>1. a + j > 1 /\ j \in Nat /\ j <= Len(W[k])
      BY <1>9, <2>1, <2>2
    <3>2. Len(line) = Len(flat) - 1 /\ Len(flat) \in Nat
      BY <1>7, <1>8
    <3>3. a \in Nat /\ b = a + Len(W[k]) /\ b <= Len(flat) /\ Len(W[k]) \in Nat
      BY <2>1, <2>2
    <3> QED BY ONLY <3>1, <3>2, <3>3
  <2>4. line[a + j - 1] = flat[a + j]
    BY <1>8, <2>3
  <2> QED BY <2>2, <2>4
<1>10. Spelled(t, record, at)
  <2>1. Len(line) \in Nat /\ at[n] = Len(line) + 1
    BY <1>6, <1>7, <1>8
  <2>2. \A k \in 1 .. n : W[k] = Written(record, Fields[t][k])
    BY <1>2
  <2> QED BY <1>6, <1>9, <2>1, <2>2 DEF Spelled, line
<1> QED BY <1>10

(***************************************************************************)
(* The parsers of all types (lib/track.c:32-83 and its like) read a line   *)
(* the server wrote as the record it wrote, field by field, and stop where *)
(* the record ends; whatever the record, also when something follows it.   *)
(***************************************************************************)
THEOREM LineParsed ==
  ASSUME NEW t \in DOMAIN Fields, NEW record, IsRecord(t, record), NEW line, IsText(line),
         IsPrefix(Line(t, record), line), At(line, Len(Line(t, record)) + 1) \in {TAB, NUL}
  PROVE  Parse(t, line) = [val |-> record, end |-> Len(Line(t, record)) + 1]
<1> DEFINE F == Fields[t]
           n == Len(F)
           L == Len(Line(t, record))
           W(k) == Written(record, F[k])
           Paths(m) == {F[k].path : k \in 1 .. m}
<1>1. t # "help" /\ n \in Nat \ {0} /\ DOMAIN F = 1 .. n
  BY TheFields
<1>2. PICK at : Spelled(t, record, at)
  BY LineSpelled
<1>3. /\ at \in [0 .. n -> Nat] /\ at[0] = 0 /\ at[n] = L + 1 /\ L \in Nat
      /\ \A k \in 1 .. n :
           /\ at[k] = at[k - 1] + Len(W(k)) /\ at[k] <= at[n]
           /\ \A j \in 1 .. Len(W(k)) :
                at[k - 1] + j > 1 => Line(t, record)[at[k - 1] + j - 1] = W(k)[j]
  BY <1>2 DEF Spelled
<1>4. Len(line) \in Nat /\ \A i \in 1 .. Len(line) : line[i] \in ToSet(line) /\ line[i] # NUL
  <2>1. line \in Seq(ToSet(line)) /\ NUL \notin ToSet(line)
    BY DEF IsText
  <2> QED BY <2>1, LenProperties, ElementOfSeq
<1>5. L <= Len(line) /\ \A i \in 1 .. L : line[i] = Line(t, record)[i]
  BY <1>3 DEF IsPrefix
<1> DEFINE acc == [k \in 0 .. n |-> [failed |-> FALSE, end |-> at[k],
                                     val |-> [p \in Paths(k) |-> record[p]]]]
<1>6. acc[0] = Fresh
  <2>1. Paths(0) = {}
    OBVIOUS
  <2>2. [p \in Paths(0) |-> record[p]] = NULL
    BY <2>1 DEF NULL
  <2>3. 0 \in 0 .. n
    BY <1>1
  <2> HIDE DEF Paths, n
  <2> QED BY <1>3, <2>2, <2>3 DEF Fresh
<1>7. ASSUME NEW k \in 1 .. n
      PROVE  acc[k] = Read(line, acc[k - 1], F[k])
  <2>1. k \in 0 .. n /\ k - 1 \in 0 .. n
    BY <1>1
  <2>2. PICK f, w, a, b, x : /\ f = F[k] /\ w = W(k) /\ a = at[k - 1] /\ b = at[k]
                             /\ x = record[f.path]
    OBVIOUS
  <2>3. /\ a \in Nat /\ b \in Nat /\ b = a + Len(w) /\ b <= L + 1
        /\ \A j \in 1 .. Len(w) : a + j > 1 => Line(t, record)[a + j - 1] = w[j]
    BY <1>3, <2>1, <2>2
  <2>4. /\ Len(w) \in Nat \ {0}
        /\ f.kind = "int" => x \in Numerals /\ Len(w) = 2 /\ w[2] = x
        /\ f.kind # "int" =>
             /\ IsText(x) /\ Len(w) = Len(Escaped(x)) + 1
             /\ \A j \in 1 .. Len(Escaped(x)) : w[j + 1] = Escaped(x)[j]
    <3>1. w = Written(record, f) /\ x = record[f.path] /\ f = Fields[t][k]
      BY <2>2
    <3>2. k \in 1 .. Len(Fields[t])
      OBVIOUS
    <3>3. Writes(w, f, x)
      BY <3>1, <3>2, TheWriting
    <3> QED BY <3>3 DEF Writes
  <2>5. \A j \in 1 .. Len(w) : a + j > 1 => line[a + j - 1] = w[j]
    <3> SUFFICES ASSUME NEW j \in 1 .. Len(w), a + j > 1 PROVE line[a + j - 1] = w[j]
      OBVIOUS
    <3>1. a + j - 1 \in 1 .. L
      BY <1>3, <2>3, <2>4
    <3> QED BY <1>5, <2>3, <3>1
  <2>6. At(line, b) \in {TAB, NUL}
    <3>1. CASE k = n
      BY <1>3, <2>2, <3>1
    <3>2. CASE k # n
      <4>1. k + 1 \in 1 .. n /\ (k + 1) - 1 = k
        <5>1. n \in Nat /\ k \in 1 .. n /\ k # n
          BY <1>1, <3>2
        <5> HIDE DEF n
        <5> QED BY ONLY <5>1
      <4>2. PICK m, h, v : m = k + 1 /\ h = Fields[t][m] /\ v = Written(record, h)
        OBVIOUS
      <4>3. Len(v) \in Nat \ {0} /\ v[1] = TAB
        <5>1. m \in 1 .. Len(Fields[t])
          BY <4>1, <4>2
        <5>2. PICK z : z = record[h.path]
          OBVIOUS
        <5>3. Writes(v, h, z)
          BY <4>2, <5>1, <5>2, TheWriting
        <5> QED BY <5>3 DEF Writes
      <4>4. /\ at[k + 1] = b + Len(v) /\ at[k + 1] <= L + 1
            /\ b + 1 > 1 => Line(t, record)[b + 1 - 1] = v[1]
        <5>1. v = W(k + 1)
          BY <4>2
        <5>2. 1 \in 1 .. Len(v)
          BY <4>3
        <5>3. at[n] = L + 1
          BY <1>3
        <5> HIDE DEF W, n, L
        <5> QED BY <1>3, <2>2, <4>1, <5>1, <5>2, <5>3
      <4>5. b \in 1 .. L /\ b + 1 > 1 /\ b + 1 - 1 = b
        BY <1>3, <2>3, <2>4, <4>3, <4>4
      <4>6. line[b] = TAB
        BY <1>5, <4>3, <4>4, <4>5
      <4>7. b <= Len(line)
        BY <1>3, <1>4, <1>5, <4>5
      <4> QED BY <4>6, <4>7 DEF At
    <3> QED BY <3>1, <3>2
  <2> DEFINE s == a + 1
  <2>7. s \in 1 .. Len(line) + 1
    BY <1>3, <1>4, <1>5, <2>3, <2>4
  <2> DEFINE r == IF f.kind = "int" THEN Strtol(line, s) ELSE fielddup(line, s)
  <2>8. r = [val |-> x, end |-> b]
    <3>1. CASE f.kind = "int"
      <4>1. /\ 2 \in 1 .. Len(w) /\ a + 2 > 1 /\ a + 2 - 1 = s /\ b = s + 1 /\ s <= Len(line)
            /\ s \in 1 .. Len(line)
        <5>1. a \in Nat /\ b = a + Len(w) /\ b <= L + 1 /\ Len(w) = 2
          BY <2>3, <2>4, <3>1
        <5>2. L \in Nat /\ L <= Len(line) /\ Len(line) \in Nat
          BY <1>3, <1>4, <1>5
        <5> HIDE DEF L
        <5> QED BY ONLY <5>1, <5>2 DEF s
      <4>2. line[s] = x /\ x \in Numerals
        BY <2>4, <2>5, <3>1, <4>1
      <4>3. At(line, s) = x /\ x # TAB
        BY <4>1, <4>2, RecordsAssumption DEF At
      <4> HIDE DEF s
      <4>4. Strtol(line, s) = [val |-> x, end |-> s + 1]
        BY <1>4, <2>7, <4>2, <4>3, StrtolReads
      <4> QED BY <3>1, <4>1, <4>4
    <3>2. CASE f.kind # "int"
      <4> DEFINE e == Escaped(x)
      <4>1. /\ e \in Seq(ToSet(x) \cup {TAB, BS, "t"}) /\ Len(e) \in Nat
            /\ \A i \in 1 .. Len(e) : e[i] \notin {TAB, NUL}
            /\ Unescaped(e) = x
        <5>1. IsText(x)
          BY <2>4, <3>2
        <5> QED BY <5>1, EscapedBack, LenProperties
      <4>2. Len(w) = Len(e) + 1 /\ \A j \in 1 .. Len(e) : w[j + 1] = e[j]
        BY <2>4, <3>2
      <4> HIDE DEF e
      <4>3. b - 1 = a + Len(e) /\ b \in s .. Len(line) + 1 /\ b = s + Len(e)
        BY <1>3, <1>4, <1>5, <2>3, <4>1, <4>2
      <4>4. \A j \in 1 .. Len(e) : line[a + j] = e[j]
        <5> SUFFICES ASSUME NEW j \in 1 .. Len(e) PROVE line[a + j] = e[j]
          OBVIOUS
        <5>1. j + 1 \in 1 .. Len(w) /\ a + (j + 1) > 1 /\ a + (j + 1) - 1 = a + j
          BY <2>3, <4>1, <4>2
        <5> QED BY <2>5, <4>2, <5>1
      <4>5. \A i \in s .. b - 1 : i - a \in 1 .. Len(e) /\ a + (i - a) = i /\ i \in 1 .. Len(line)
        BY <1>4, <2>3, <4>1, <4>3
      <4>6. \A i \in s .. b - 1 : line[i] \notin {TAB, NUL} /\ line[i] \in ToSet(line)
        BY <1>4, <4>1, <4>4, <4>5
      <4>7. SubSeq(line, s, b - 1) = e
        <5>1. s \in Int /\ b - 1 \in Int /\ b - 1 - s + 1 = Len(e)
          <6>1. a \in Nat /\ b \in Nat /\ Len(e) \in Nat /\ b - 1 = a + Len(e)
            BY <2>3, <4>1, <4>3
          <6> QED BY ONLY <6>1 DEF s
        <5>2. PICK q : q = SubSeq(line, s, b - 1)
          OBVIOUS
        <5> HIDE DEF s
        <5>3. /\ q \in Seq(ToSet(line))
              /\ Len(q) = IF s <= b - 1 THEN b - 1 - s + 1 ELSE 0
              /\ \A i \in 1 .. b - 1 - s + 1 : q[i] = line[s + i - 1]
          BY <4>6, <5>1, <5>2, SubSeqProperties
        <5>4. Len(q) = Len(e) /\ \A i \in 1 .. Len(q) : q[i] = line[s + i - 1]
          BY <4>1, <5>1, <5>3
        <5>5. \A i \in 1 .. Len(q) : q[i] = e[i]
          <6>1. \A i \in 1 .. Len(e) : s + i - 1 = a + i
            BY <2>3, <4>1 DEF s
          <6> QED BY <4>4, <5>4, <6>1
        <5>6. q = e
          <6>1. PICK R : e \in Seq(R)
            BY <4>1
          <6> QED BY <5>3, <5>4, <5>5, <6>1, SameSeq
        <5> QED BY <5>2, <5>6
      <4>8. \A i \in 1 .. Len(line) : line[i] # NUL
        BY <1>4
      <4> HIDE DEF s
      <4>9. fielddup(line, s) = [val |-> Unescaped(SubSeq(line, s, b - 1)), end |-> b]
        BY <1>4, <2>6, <2>7, <4>3, <4>6, <4>8, FieldReads
      <4> QED BY <3>2, <4>1, <4>7, <4>9
    <3> QED BY <3>1, <3>2
  <2>9. f.kind = "int" => b # s
    <3> SUFFICES ASSUME f.kind = "int" PROVE b # s
      OBVIOUS
    <3>1. a \in Nat /\ b = a + 2
      BY <2>3, <2>4
    <3> QED BY ONLY <3>1 DEF s
  <2>10. Paths(k) = Paths(k - 1) \cup {f.path}
    <3>1. 1 .. k = (1 .. k - 1) \cup {k}
      BY <1>1
    <3> QED BY <2>2, <3>1
  <2>11. PICK y : y = acc[k - 1] /\ y = [failed |-> FALSE, end |-> a,
                                         val |-> [p \in Paths(k - 1) |-> record[p]]]
    BY <2>1, <2>2
  <2>12. acc[k] = [failed |-> FALSE, end |-> b, val |-> [p \in Paths(k) |-> record[p]]]
    BY <2>1, <2>2
  <2>13. [p \in DOMAIN y.val \cup {f.path} |-> IF p = f.path THEN r.val ELSE y.val[p]]
           = [p \in Paths(k) |-> record[p]]
    <3> HIDE DEF Paths, r
    <3>1. /\ y.val = [p \in Paths(k - 1) |-> record[p]] /\ DOMAIN y.val = Paths(k - 1)
          /\ r.val = record[f.path]
      BY <2>2, <2>8, <2>11
    <3> QED BY <2>10, <3>1
  <2>14. Read(line, y, f) = [failed |-> FALSE, end |-> b, val |-> [p \in Paths(k) |-> record[p]]]
    <3>1. y.end + 1 = s /\ y.failed = FALSE /\ ~(s > Len(line) + 1)
      BY <1>4, <2>7, <2>11
    <3>2. Read(line, y, f) =
            [failed |-> FALSE, end |-> r.end, val |->
              [p \in DOMAIN y.val \cup {f.path} |-> IF p = f.path THEN r.val ELSE y.val[p]]]
      <4>1. ~(y.failed \/ s > Len(line) + 1 \/ (f.kind = "int" /\ r.end = s))
        BY <2>8, <2>9, <3>1
      <4> HIDE DEF s, Paths
      <4> QED BY <3>1, <4>1 DEF Read
    <3> HIDE DEF r, Paths
    <3> QED BY <2>8, <2>13, <3>2
  <2> HIDE DEF acc
  <2> QED BY <2>2, <2>11, <2>12, <2>14
<1>8. Parse(t, line) = [val |-> acc[n].val, end |-> acc[n].end]
  <2> HIDE DEF acc
  <2> QED BY <1>1, <1>6, <1>7, ParseRuns
<1>9. acc[n].end = L + 1 /\ acc[n].val = [p \in Paths(n) |-> record[p]]
  <2>1. n \in 0 .. n
    BY <1>1
  <2> HIDE DEF Paths, n
  <2> QED BY <1>3, <2>1
<1>10. record = [p \in Paths(n) |-> record[p]]
  BY <1>1 DEF IsRecord
<1> HIDE DEF acc, Paths
<1> QED BY <1>8, <1>9, <1>10

\* A line that does not begin with a number is no record, and is left unread.
LEMMA LineRejected ==
  ASSUME NEW t \in DOMAIN Fields, NEW line, IsText(line),
         line = <<>> \/ line[1] \notin Numerals \cup {TAB}
  PROVE  Parse(t, line) = [val |-> NULL, end |-> 1]
<1> DEFINE F == Fields[t]
           n == Len(F)
           no == [failed |-> TRUE, val |-> NULL, end |-> 1]
           g == [k \in 0 .. n |-> IF k = 0 THEN Fresh ELSE no]
<1>1. t # "help" /\ n \in Nat \ {0} /\ F[1].kind = "int"
  BY TheFields
<1>2. Len(line) \in Nat /\ (line = <<>> => Len(line) = 0)
  BY LenProperties DEF IsText
<1>3. At(line, 1) \notin Numerals \cup {TAB} /\ 1 \in 1 .. Len(line) + 1
  BY <1>2, RecordsAssumption, Chars DEF At
<1>4. Strtol(line, 1) = [val |-> NUL, end |-> 1]
  BY <1>2, <1>3, StrtolReads
<1>5. ASSUME NEW f, f.kind = "int" PROVE Read(line, Fresh, f) = no
  <2>1. Fresh.end + 1 = 1
    BY DEF Fresh
  <2> QED BY <1>4, <1>5, <2>1 DEF Read
<1>6. \A f : Read(line, no, f) = no
  BY DEF Read
<1> HIDE DEF no
<1>7. ASSUME NEW k \in 1 .. n PROVE g[k] = Read(line, g[k - 1], F[k])
  <2>1. g[k] = no /\ g[k - 1] = IF k = 1 THEN Fresh ELSE no
    <3>1. k \in 0 .. n /\ k - 1 \in 0 .. n /\ k # 0 /\ (k - 1 = 0 <=> k = 1)
      BY <1>1
    <3> HIDE DEF n
    <3> QED BY <3>1
  <2> HIDE DEF g
  <2> QED BY <1>1, <1>5, <1>6, <2>1
<1>8. g[0] = Fresh /\ g[n] = no
  <2>1. 0 \in 0 .. n /\ n \in 0 .. n /\ n # 0
    BY <1>1
  <2> HIDE DEF n
  <2> QED BY <2>1
<1>9. Parse(t, line) = [val |-> g[n].val, end |-> g[n].end]
  <2> HIDE DEF g
  <2> QED BY <1>1, <1>7, <1>8, ParseRuns
<1> HIDE DEF g
<1> QED BY <1>8, <1>9 DEF no

\* A record has fields.
LEMMA NoNull == ASSUME NEW t \in DOMAIN Fields, NEW record, IsRecord(t, record) PROVE record # NULL
<1> DEFINE Paths == {Fields[t][k].path : k \in DOMAIN Fields[t]}
<1>1. 1 \in DOMAIN Fields[t]
  BY TheFields
<1>2. Fields[t][1].path \in Paths
  BY <1>1
<1>3. record = [p \in Paths |-> record[p]]
  BY DEF IsRecord
<1> HIDE DEF Paths
<1>4. DOMAIN record # {}
  BY <1>2, <1>3
<1> QED BY <1>4 DEF NULL

\* The parsers read what a line holds.
LEMMA HeldIsParsed ==
  ASSUME NEW t \in DOMAIN Fields, NEW line, IsText(line), NEW record, Holds(t, line, record)
  PROVE  Parse(t, line).val = record
<1>1. t # "help"
  BY TheFields
<1>2. CASE record = NULL
  BY <1>1, <1>2, LineRejected DEF Holds
<1>3. CASE record # NULL
  <2>1. /\ IsRecord(t, record) /\ IsPrefix(Line(t, record), line)
        /\ At(line, Len(Line(t, record)) + 1) \in {TAB, NUL}
    BY <1>1, <1>3 DEF Holds
  <2>2. Parse(t, line) = [val |-> record, end |-> Len(Line(t, record)) + 1]
    BY <2>1, LineParsed
  <2> QED BY <2>2
<1> QED BY <1>2, <1>3

\* Of the replies: what is read to its end is the record the line holds, and
\* only an empty line is no record.
LEMMA LinesRead ==
  ASSUME NEW t \in DOMAIN Replies, NEW r \in Replies[t], NEW k \in DOMAIN r,
         ~Rest(r[k].line, Parse(t, r[k].line).end)
  PROVE  IF Parse(t, r[k].line).val = NULL THEN t # "help" /\ r[k].line = <<>>
         ELSE Parse(t, r[k].line).val = r[k].record
<1>1. PICK line, record : line = r[k].line /\ record = r[k].record
  OBVIOUS
<1>2. IsText(line) /\ Holds(t, line, record)
  BY <1>1, ListsAssumption
<1>3. CASE t = "help"
  <2>1. record = [p \in {<<"line">>} |-> line] /\ Parse(t, line).val = record
    BY <1>2, <1>3 DEF Holds, Parse, help_parse
  <2>2. record # NULL
    <3>1. DOMAIN record # {}
      BY <2>1
    <3> QED BY <3>1 DEF NULL
  <2> QED BY <1>1, <2>1, <2>2
<1>4. CASE t # "help"
  <2>1. t \in DOMAIN Fields
    BY <1>4, ListsAssumption
  <2>2. Parse(t, line).val = record
    BY <1>2, <2>1, HeldIsParsed
  <2>3. ASSUME record = NULL PROVE line = <<>>
    <3>1. line = <<>> \/ line[1] \notin Numerals \cup {TAB}
      BY <1>2, <1>4, <2>3 DEF Holds
    <3>2. Parse(t, line) = [val |-> NULL, end |-> 1]
      BY <1>2, <2>1, <3>1, LineRejected
    <3>3. At(line, 1) = NUL
      BY <1>1, <3>2 DEF Rest
    <3>4. line \in Seq(ToSet(line)) /\ NUL \notin ToSet(line)
      BY <1>2 DEF IsText
    <3>5. CASE Len(line) = 0
      BY <3>4, <3>5, EmptySeq
    <3>6. CASE Len(line) # 0
      <4>1. 1 \in 1 .. Len(line)
        BY <3>4, <3>6, LenProperties
      <4>2. line[1] \in ToSet(line)
        BY <3>4, <4>1, ElementOfSeq
      <4> QED BY <3>3, <3>4, <4>1, <4>2 DEF At
    <3> QED BY <3>5, <3>6
  <2> QED BY <1>1, <1>4, <2>2, <2>3
<1> QED BY <1>3, <1>4


\* The lines of a reply are those of the replies tried.
SentInv ==
  /\ pc = "idle" => sent = <<>>
  /\ sent = <<>> \/ (type \in DOMAIN Replies /\ sent \in Replies[type])

LEMMA SentInvariant == Spec => []SentInv
<1>1. Init => SentInv
  BY DEF Init, SentInv
<1>2. SentInv /\ [Next]_vars => SentInv'
  <2> SUFFICES ASSUME SentInv, [Next]_vars PROVE SentInv'
    OBVIOUS
  <2>1. CASE Ask
    BY <2>1 DEF SentInv, Ask, Return
  <2>2. CASE Finished
    BY <2>2 DEF SentInv, Finished
  <2>3. CASE First \/ Convert \/ Clean \/ TakeItem \/ EndOfList \/ QueueAdd \/ QueueEnd
    <3>1. UNCHANGED <<type, sent>> /\ pc' # "idle"
      BY <2>3 DEF First, Convert, Clean, TakeItem, EndOfList, QueueAdd, QueueEnd,
                  Return, GoOn, GiveUp, reading
    <3> QED BY <3>1 DEF SentInv
  <2>4. CASE Bcast \/ UNCHANGED vars
    BY <2>4 DEF SentInv, Bcast, vars, reading
  <2> QED BY <2>1, <2>2, <2>3, <2>4 DEF Next
<1> QED BY <1>1, <1>2, PTL DEF Spec

LEMMA LineRead ==
  ASSUME SentInv, NEW k \in DOMAIN sent, Whole(k)
  PROVE  IF Val(k) = NULL THEN EndsList(k) ELSE Val(k) = sent[k].record
<1>1. type \in DOMAIN Replies /\ sent \in Replies[type]
  BY EmptySeq DEF SentInv
<1>2. /\ Val(k) = Parse(type, sent[k].line).val
      /\ ~Rest(sent[k].line, Parse(type, sent[k].line).end)
  BY DEF Val, Whole
<1> QED BY <1>1, <1>2, LinesRead DEF EndsList

(***************************************************************************)
(* The caller of an iterator gets the server's records, in its order.      *)
(***************************************************************************)
THEOREM RecordsAreTheServers == Spec => []ReadBack
<1>1. ListInv /\ SentInv => ReadBack
  <2> SUFFICES ASSUME ListInv, SentInv, NEW k \in DOMAIN got
               PROVE  got[k] = sent[k].record
    BY DEF ReadBack
  <2>1. /\ k \in 1 .. Len(got) /\ k \in 1 .. Len(sent) /\ DOMAIN sent = 1 .. Len(sent)
    BY Lengths, LenProperties DEF ListInv, Ordered, Typed
  <2>2. got[k] = Val(k) /\ Val(k) # NULL /\ Whole(k)
    BY <2>1 DEF ListInv, Ordered
  <2> QED BY <2>1, <2>2, LineRead
<1> QED BY <1>1, ListInvariant, SentInvariant, PTL

\* What is missing of a list starts with the line that ended it.
LEMMA Missing ==
  ASSUME ListInv, SentInv, AllTaken, ~lost, NEW k \in Len(got) + 1 .. Len(sent)
  PROVE  \E n \in 1 .. k : EndsList(n)
<1> DEFINE j == Len(got) + 1
<1>1. Len(got) \in Nat /\ Len(sent) \in Nat /\ DOMAIN sent = 1 .. Len(sent)
  BY Lengths, LenProperties DEF ListInv, Typed
<1>2. j \in 1 .. k /\ j \in DOMAIN sent /\ Len(got) # Len(sent)
  BY <1>1
<1>3. Val(j) = NULL /\ Whole(j)
  BY <1>2 DEF AllTaken
<1> HIDE DEF j
<1>4. EndsList(j)
  BY <1>2, <1>3, LineRead
<1> QED BY <1>2, <1>4

(***************************************************************************)
(* A list that is handed out and was not cut short by the loss of the      *)
(* connection is the server's whole list, up to an empty line that is no   *)
(* record (iterate.c:61-92: one line that cannot be read, and no list).    *)
(***************************************************************************)
THEOREM ListIsComplete == Spec => []CompleteOrLost
<1>1. ListInv /\ SentInv => CompleteOrLost
  BY Missing DEF ListInv, Stage, CompleteOrLost
<1> QED BY <1>1, ListInvariant, SentInvariant, PTL

(***************************************************************************)
(* duc_cmd_queuealbum (lib/queue.c) queues the album's tracks from the     *)
(* first on and none that is not the album's, and all of them when it      *)
(* reports success.                                                        *)
(***************************************************************************)
THEOREM AlbumIsQueued == Spec => []AlbumQueued
<1>1. ListInv /\ SentInv => AlbumQueued
  <2> SUFFICES ASSUME ListInv, SentInv PROVE AlbumQueued
    OBVIOUS
  <2>1. ASSUME NEW k \in DOMAIN queued PROVE queued[k] = sent[k].record[<<"id">>]
    <3>1. /\ k \in 1 .. Len(queued) /\ k \in 1 .. Len(got) /\ k \in DOMAIN sent
      <4>1. /\ DOMAIN queued = 1 .. Len(queued) /\ DOMAIN sent = 1 .. Len(sent)
            /\ Len(queued) \in Nat /\ Len(got) \in Nat /\ Len(list) \in Nat /\ Len(sent) \in Nat
        BY Lengths, LenProperties DEF ListInv, Typed
      <4>2. Len(queued) <= Len(got) /\ Len(got) + Len(list) <= Len(sent)
        BY DEF ListInv, Queued, Ordered
      <4> QED BY <4>1, <4>2
    <3>2. queued[k] = got[k][<<"id">>]
      BY <3>1 DEF ListInv, Queued
    <3>3. got[k] = Val(k) /\ Val(k) # NULL /\ Whole(k)
      BY <3>1 DEF ListInv, Ordered
    <3>4. got[k] = sent[k].record
      BY <3>1, <3>3, LineRead
    <3> QED BY <3>2, <3>4
  <2>2. ASSUME op = "queuealbum", pc = "done", result = "ok", ~lost
        PROVE  \A k \in Len(queued) + 1 .. Len(sent) : \E n \in 1 .. k : EndsList(n)
    <3>1. Len(queued) = Len(got) /\ AllTaken
      BY <2>2 DEF ListInv, Queued, Stage
    <3> QED BY <2>2, <3>1, Missing
  <2> QED BY <2>1, <2>2 DEF AlbumQueued
<1> QED BY <1>1, ListInvariant, SentInvariant, PTL

\* An event is what the last broadcast says, or none.
EventInv == event = Quiet \/ \E b \in Broadcasts : event = Emitted(b)

(***************************************************************************)
(* An event's handler gets the record the server sent with the broadcast,  *)
(* and an event that has a record is not emitted without (lib/event.c:     *)
(* the record is parsed before the handler is called).                     *)
(***************************************************************************)
THEOREM EventsAreTrue == Spec => []EventTruth
<1>1. Init => EventInv
  BY DEF Init, EventInv
<1>2. EventInv /\ [Next]_vars => EventInv'
  BY DEF EventInv, vars, Next, Finished, Ask, First, Convert, Clean, TakeItem, EndOfList,
         QueueAdd, QueueEnd, Bcast
<1>3. EventInv => EventTruth
  <2> SUFFICES ASSUME EventInv PROVE EventTruth
    OBVIOUS
  <2>1. CASE event = Quiet
    <3>1. "none" \notin WithRecord
      BY EventsFit DEF WithRecord
    <3> QED BY <2>1, <3>1 DEF Quiet, EventTruth
  <2>2. ASSUME NEW b \in Broadcasts, event = Emitted(b) PROVE EventTruth
    <3>1. CASE b.class \notin DOMAIN bcast \/ b.kind \notin DOMAIN bcast[b.class]
      <4>1. event = [name |-> "bcast", val |-> NULL, cause |-> b]
        BY <2>2, <3>1 DEF Emitted
      <4>2. b.record = NULL
        BY <3>1, BroadcastsAssumption
      <4>3. "bcast" \notin WithRecord
        BY EventsFit DEF WithRecord
      <4> QED BY <4>1, <4>2, <4>3 DEF EventTruth
    <3>2. CASE b.class \in DOMAIN bcast /\ b.kind \in DOMAIN bcast[b.class]
      <4>1. PICK e, what : e = bcast[b.class][b.kind] /\ what = e[2]
        OBVIOUS
      <4>2. e \in Events
        BY <3>2, <4>1 DEF Events, Range
      <4>3. what \in DOMAIN Fields \cup {"none", "rest", "int"}
        BY <4>1, <4>2, EventsFit
      <4>4. what \notin DOMAIN Fields => e[1] \notin WithRecord
        BY <4>1, <4>2, EventsFit DEF WithRecord
      <4>5. {"none", "rest", "int"} \cap DOMAIN Fields = {}
        BY DEF Fields
      <4> DEFINE val == CASE what = "none" -> NULL
                          [] what = "rest" -> [p \in {<<>>} |-> b.line]
                          [] what = "int" -> [p \in {<<>>} |-> Strtol(b.line, 1).val]
                          [] OTHER -> Parse(what, b.line).val
      <4>6. event = IF Unparsed(e, val) THEN Quiet
                    ELSE [name |-> e[1], val |-> val, cause |-> b]
        BY <2>2, <3>2, <4>1 DEF Emitted
      <4>7. IsText(b.line)
        BY BroadcastsAssumption
      <4>8. /\ what = "none" => b.record = NULL
            /\ what = "rest" => b.record = [p \in {<<>>} |-> b.line]
            /\ what = "int" => At(b.line, 1) \in Numerals
                               /\ b.record = [p \in {<<>>} |-> b.line[1]]
            /\ what \in DOMAIN Fields => Holds(what, b.line, b.record)
        BY <3>2, <4>1, <4>3, <4>5, BroadcastsAssumption
      <4>9. val = b.record
        <5>1. CASE what = "none"
          BY <4>8, <5>1
        <5>2. CASE what = "rest"
          BY <4>8, <5>2
        <5>3. CASE what = "int"
          <6>1. Len(b.line) \in Nat
            BY <4>7, LenProperties DEF IsText
          <6>2. 1 \in 1 .. Len(b.line) + 1 /\ At(b.line, 1) # TAB /\ At(b.line, 1) \in Numerals
            BY <4>8, <5>3, <6>1, RecordsAssumption
          <6>3. Strtol(b.line, 1) = [val |-> b.line[1], end |-> 1 + 1]
            BY <6>1, <6>2, StrtolReads
          <6> QED BY <4>8, <5>3, <6>3
        <5>4. CASE what \in DOMAIN Fields
          <6>1. Parse(what, b.line).val = b.record
            BY <4>7, <4>8, <5>4, HeldIsParsed
          <6> QED BY <4>5, <5>4, <6>1
        <5> QED BY <4>3, <5>1, <5>2, <5>3, <5>4
      <4> HIDE DEF val
      <4>10. CASE Unparsed(e, val)
        <5>1. event = Quiet
          BY <4>6, <4>10
        <5> QED BY <2>1, <5>1
      <4>11. CASE ~Unparsed(e, val)
        <5>1. event = [name |-> e[1], val |-> val, cause |-> b]
          BY <4>6, <4>11
        <5>2. what \in DOMAIN Fields => val # NULL
          BY <4>1, <4>11 DEF Unparsed
        <5> QED BY <4>4, <4>9, <5>1, <5>2 DEF EventTruth
      <4> QED BY <4>10, <4>11
    <3> QED BY <3>1, <3>2
  <2> QED BY <2>1, <2>2 DEF EventInv
<1> QED BY <1>1, <1>2, <1>3, PTL DEF Spec
=============================================================================
