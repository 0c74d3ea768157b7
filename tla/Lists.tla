------------------------------- MODULE Lists -------------------------------
(***************************************************************************)
(* Lists of records (src/lib/iterate.c): the whole reply is read and       *)
(* parsed before the caller sees an item, and the caller owns the items it *)
(* takes.  Callers are the dump functions of src/cmd/msg.c, and            *)
(* duc_cmd_queuealbum (src/lib/queue.c), which goes on to queue the tracks *)
(* of the list one by one.  Beside it, the broadcasts that come between    *)
(* the lines of a reply (src/lib/event.c).                                 *)
(*                                                                         *)
(* Any line may be the last before the connection is lost; the handler for *)
(* that may have reopened it when duc_close returns (module Session).      *)
(***************************************************************************)
EXTENDS Records

CONSTANTS
  Replies,    \* type -> the replies tried, each a sequence of lines [line, record]
  Broadcasts  \* the broadcasts tried: [class, kind, line, record]; record is what
              \* the server wrote into the line, NULL when the line holds none

ASSUME ListsAssumption ==
  /\ DOMAIN Replies \subseteq DOMAIN Fields \cup {"help"}
  /\ \A t \in DOMAIN Replies : \A r \in Replies[t] :
       /\ r # <<>> /\ r \in Seq(ToSet(r))
       /\ \A k \in DOMAIN r : IsText(r[k].line) /\ Holds(t, r[k].line, r[k].record)

VARIABLES
  pc,       \* "idle", "first", "line", "clean", "walk", "add", "done"
  op,       \* who asked: "dump" or "queuealbum"
  type,     \* the type of the list
  sent,     \* the reply
  reply,    \* what is left of it, with the line last read
  inreply,  \* there is more to read
  up,       \* the connection is open
  lost,     \* it was lost while the list was read
  list,     \* the iterator's items: [n, val], those not taken
  heap,     \* objects: <<item, object>>, the iterator has the number 0
  got,      \* what the caller took
  ids,      \* queuealbum: the tracks to queue
  queued,   \* what the server queued for it
  result,   \* of the last operation: "ok" or "failed"
  event     \* the event last emitted, and the broadcast that caused it

reading == <<op, type, sent>>
queueing == <<ids, queued>>
vars == <<pc, reading, reply, inreply, up, lost, list, heap, got, queueing, result, event>>

Quiet == [name |-> "none", val |-> NULL, cause |-> <<>>]

Init ==
  /\ pc = "idle" /\ op = "dump" /\ type = "user" /\ sent = <<>> /\ reply = <<>>
  /\ inreply = FALSE /\ up \in BOOLEAN /\ lost = FALSE
  /\ list = <<>> /\ heap = {} /\ got = <<>> /\ ids = <<>> /\ queued = <<>>
  /\ result = "ok" /\ event = Quiet

\* The caller goes on to something else; what leaked is not followed.
Finished ==
  /\ pc = "done" /\ pc' = "idle"
  /\ op' = "dump" /\ type' = "user" /\ sent' = <<>> /\ heap' = {} /\ list' = <<>>
  /\ got' = <<>> /\ ids' = <<>> /\ queued' = <<>> /\ lost' = FALSE
  /\ result' = "ok" /\ event' = Quiet /\ UNCHANGED <<reply, inreply, up>>

Return(r) == pc' = "done" /\ result' = r

\* The connection is lost: duc_close, after which it may be open again.
Lost == up' \in BOOLEAN /\ inreply' = FALSE /\ reply' = <<>>

\* The next line of the reply is read.
Received(rest) == reply' = rest /\ inreply' = (Len(rest) > 1) /\ UNCHANGED up

(***************************************************************************)
(* _duc_it_newv.                                                           *)
(***************************************************************************)
Ask ==
  /\ pc = "idle" /\ ~inreply
  /\ op' \in {"dump", "queuealbum"} /\ type' \in DOMAIN Replies
  /\ op' = "queuealbum" => type' = "track"
  /\ \/ /\ sent' \in Replies[type'] /\ reply' = sent'
        /\ pc' = "first" /\ up' = TRUE /\ inreply' = TRUE /\ UNCHANGED result
     \/ Return("failed") /\ up' \in BOOLEAN /\ UNCHANGED <<sent, reply, inreply>>
  /\ event' = Quiet /\ UNCHANGED <<list, got, queueing, lost, heap>>

\* Its first line: code 5 is a refusal, of one line or of more.
First ==
  /\ pc = "first"
  /\ \/ pc' = "line" /\ Received(reply) /\ heap' = heap \cup {<<0, <<>>>>} /\ UNCHANGED result
     \/ /\ pc' = "clean" /\ \E refusal \in {<<sent[1]>>, reply} : Received(refusal)
        /\ UNCHANGED <<heap, result>>
     \/ Return("failed") /\ Lost /\ UNCHANGED heap
  /\ event' = Quiet /\ UNCHANGED <<reading, lost, list, got, queueing>>

\* duc_*_free, and _duc_it_done.
Freed(item) == {<<item.n, o>> : o \in Objects(type)}
DoneIterator(items) == {<<0, <<>>>>}
Done(items) == {<<0, <<>>>>} \cup UNION {Freed(items[k]) : k \in DOMAIN items}

\* Something is left of the line.
Rest(line, end) == At(line, end) # NUL

\* A line is converted; when something is left of it the list is given up.
\* Otherwise the next one is read, and the end of the connection is taken for
\* the end of the list.
Convert ==
  /\ pc = "line"
  /\ LET line == Head(reply).line
         r == Parse(type, line)
         item == [n |-> Len(list) + 1, val |-> r.val]
         now == heap \cup (IF r.val = NULL THEN {} ELSE Freed(item))
         bad == Rest(line, r.end)
     IN \/ /\ bad /\ pc' = "clean" /\ list' = <<>> /\ heap' = now \ Done(Append(list, item))
           /\ UNCHANGED <<reply, inreply, up, lost>>
        \/ /\ ~bad /\ list' = Append(list, item) /\ heap' = now
           /\ \/ Len(reply) > 1 /\ pc' = "line" /\ Received(Tail(reply)) /\ UNCHANGED lost
              \/ Len(reply) > 1 /\ pc' = "walk" /\ Lost /\ lost' = TRUE
              \/ Len(reply) = 1 /\ pc' = "walk" /\ UNCHANGED <<reply, inreply, up, lost>>
  /\ event' = Quiet /\ UNCHANGED <<reading, got, queueing, result>>

\* What is left of the reply is read and thrown away.
Unread == pc = "clean" /\ Return("failed") /\ UNCHANGED <<reply, inreply, up>>
          /\ event' = Quiet /\ UNCHANGED <<reading, lost, list, heap, got, queueing>>
Clean ==
  /\ pc = "clean" /\ Return("failed")
  /\ \/ reply' = <<>> /\ inreply' = FALSE /\ UNCHANGED up
     \/ inreply /\ Lost
  /\ event' = Quiet /\ UNCHANGED <<reading, lost, list, heap, got, queueing>>

(***************************************************************************)
(* The caller's loop, until _duc_it_cur returns NULL: the end of the list, *)
(* or an item that is.  queuealbum frees no more than the track itself.    *)
(***************************************************************************)
FromTheEnd == IF list = <<>> THEN NULL ELSE list[Len(list)].val
ButTheLast == IF Len(list) < 2 THEN NULL ELSE list[1].val
Current == IF list = <<>> THEN NULL ELSE list[1].val

TakeItem ==
  /\ pc = "walk" /\ Current # NULL
  /\ got' = Append(got, Current) /\ list' = Tail(list)
  /\ \/ op = "dump" /\ heap' = heap \ Freed(list[1]) /\ UNCHANGED ids
     \/ /\ op = "queuealbum" /\ heap' = heap \ {<<list[1].n, <<>>>>}
        /\ ids' = Append(ids, Current[<<"id">>])
  /\ event' = Quiet
  /\ UNCHANGED <<pc, reading, reply, inreply, up, lost, queued, result>>

EndOfList ==
  /\ pc = "walk" /\ Current = NULL
  /\ heap' = heap \ Done(list) /\ list' = <<>>
  /\ IF op = "dump" THEN Return("ok") ELSE pc' = "add" /\ UNCHANGED result
  /\ event' = Quiet /\ UNCHANGED <<reading, reply, inreply, up, lost, got, queueing>>

GoOn == ids' = Tail(ids) /\ UNCHANGED <<pc, result>>
GiveUp == Return("failed") /\ UNCHANGED ids

\* queueadd: the answer, a refusal, or no answer; what goes unanswered may
\* have been done.  A closed connection is opened for it.
QueueAdd ==
  /\ pc = "add" /\ ids # <<>>
  /\ LET all == Append(queued, Head(ids)) IN
     \/ up' = TRUE /\ queued' = all /\ GoOn
     \/ up' \in BOOLEAN /\ queued' \in {queued, all} /\ GiveUp
  /\ event' = Quiet /\ UNCHANGED <<reading, reply, inreply, lost, list, heap, got>>

QueueEnd ==
  /\ pc = "add" /\ ids = <<>> /\ Return("ok")
  /\ event' = Quiet
  /\ UNCHANGED <<reading, reply, inreply, up, lost, list, heap, got, queueing>>

(***************************************************************************)
(* _duc_bcast: the record of a broadcast is parsed, handed to the event's  *)
(* handler and freed.  Without a record there is no event; a broadcast the *)
(* program does not know goes to the general handler.                      *)
(***************************************************************************)
bcast_client ==
  ("0" :> <<"login", "client">>) @@ ("1" :> <<"logout", "client">>) @@
  ("2" :> <<"kicked", "none">>)
bcast_player ==
  ("0" :> <<"nexttrack", "track">>) @@ ("1" :> <<"stopped", "none">>) @@
  ("2" :> <<"paused", "none">>) @@ ("3" :> <<"resumed", "none">>) @@
  ("6" :> <<"random", "int">>) @@ ("7" :> <<"elapsed", "int">>)
bcast_random == ("0" :> <<"filter", "rest">>) @@ ("1" :> <<"sleep", "int">>)
bcast_queue ==
  ("0" :> <<"queuefetch", "queue">>) @@ ("1" :> <<"queueadd", "queue">>) @@
  ("2" :> <<"queuedel", "queue">>) @@ ("3" :> <<"queueclear", "none">>)
bcast_tag == ("0" :> <<"tagchange", "tag">>) @@ ("1" :> <<"tagdel", "tag">>)

bcast ==
  ("3" :> bcast_client) @@ ("4" :> bcast_player) @@ ("5" :> bcast_random) @@
  ("6" :> bcast_queue) @@ ("7" :> bcast_tag)

\* Events that go by one name are of one kind, and "bcast" is none of them.
Events == UNION {Range(bcast[c]) : c \in DOMAIN bcast}
ASSUME EventsFit ==
  \A e, d \in Events :
    /\ e[1] \notin {"bcast", "none"} /\ e[2] \in DOMAIN Fields \cup {"none", "rest", "int"}
    /\ e[1] = d[1] => e[2] = d[2]

\* What the server writes into a broadcast.
ASSUME BroadcastsAssumption ==
  \A b \in Broadcasts :
    /\ b # <<>> /\ IsText(b.line)
    /\ IF b.class \notin DOMAIN bcast \/ b.kind \notin DOMAIN bcast[b.class]
       THEN b.record = NULL
       ELSE LET what == bcast[b.class][b.kind][2] IN
            CASE what = "none" -> b.record = NULL
              [] what = "rest" -> b.record = [p \in {<<>>} |-> b.line]
              [] what = "int" -> At(b.line, 1) \in Numerals
                                 /\ b.record = [p \in {<<>>} |-> b.line[1]]
              [] OTHER -> Holds(what, b.line, b.record)

Never(e, val) == FALSE
Unparsed(e, val) == e[2] \in DOMAIN Fields /\ val = NULL

Emitted(b) ==
  IF b.class \notin DOMAIN bcast \/ b.kind \notin DOMAIN bcast[b.class]
  THEN [name |-> "bcast", val |-> NULL, cause |-> b]
  ELSE LET e == bcast[b.class][b.kind]
           val == CASE e[2] = "none" -> NULL
                    [] e[2] = "rest" -> [p \in {<<>>} |-> b.line]
                    [] e[2] = "int" -> [p \in {<<>>} |-> Strtol(b.line, 1).val]
                    [] OTHER -> Parse(e[2], b.line).val
       IN IF Unparsed(e, val) THEN Quiet
          ELSE [name |-> e[1], val |-> val, cause |-> b]

Bcast ==
  /\ pc \in {"idle", "line"} /\ up
  /\ \E b \in Broadcasts : event' = Emitted(b)
  /\ UNCHANGED <<pc, reading, reply, inreply, up, lost, list, heap, got, queueing, result>>

Next ==
  \/ Finished \/ Ask \/ First \/ Convert \/ Clean
  \/ TakeItem \/ EndOfList \/ QueueAdd \/ QueueEnd
  \/ Bcast

Spec == Init /\ [][Next]_vars

(***************************************************************************)
(* Properties.                                                             *)
(***************************************************************************)
\* The caller gets the server's records, in the server's order and none left
\* out: what was escaped is as it was, fields and records are not mixed up.
ReadBack == \A k \in DOMAIN got : got[k] = sent[k].record

\* An empty line, where it is no record, ends the list for its reader.
EndsList(n) == type # "help" /\ sent[n].line = <<>>

\* A list that is returned and was not cut short by the loss of the connection
\* is the whole list, up to an empty line that is no record: one line that
\* cannot be read, and the caller gets none of it.
CompleteOrLost ==
  pc = "add" \/ (pc = "done" /\ op = "dump" /\ result = "ok") =>
    lost \/ \A k \in Len(got) + 1 .. Len(sent) : \E n \in 1 .. k : EndsList(n)

\* When the operation is over nothing of the list is left on the heap; but
\* queuealbum leaves what the tracks it took refer to.
NothingLeaks ==
  pc = "done" => \A o \in heap : op = "queuealbum" /\ o[1] \in DOMAIN got /\ o[2] # <<>>

\* However the reading ended, the reply has been read to its end, or the next
\* request could not be sent.
ReplyRead == pc \in {"idle", "walk", "add", "done"} => ~inreply

\* What the server queued is the beginning of the album, and it is all of it
\* when queuealbum reports success, unless the list of tracks was cut short.
AlbumQueued ==
  /\ \A k \in DOMAIN queued : queued[k] = sent[k].record[<<"id">>]
  /\ op = "queuealbum" /\ pc = "done" /\ result = "ok" /\ ~lost =>
       \A k \in Len(queued) + 1 .. Len(sent) : \E n \in 1 .. k : EndsList(n)

\* An event's handler is given the record the server sent; an event that has a
\* record is not emitted without.
WithRecord == {e[1] : e \in {d \in Events : d[2] \in DOMAIN Fields}}
EventTruth ==
  /\ event.cause # <<>> => event.val = event.cause.record
  /\ event.name \in WithRecord => event.val # NULL
=============================================================================
