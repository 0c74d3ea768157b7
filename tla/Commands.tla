------------------------------ MODULE Commands ------------------------------
(***************************************************************************)
(* How a line of text becomes requests to the server: duc_cmd of           *)
(* libdudlcmd, as dudlc's prompt ("cli") and dudlc -c ("once") call it;    *)
(* module Irdudl adds the third program that does ("ir").                  *)
(*                                                                         *)
(* A request is one library call; what its reply is worth is decided by    *)
(* the server, and the connection may be lost under it (module Session     *)
(* says how).  up is duc_fd(dudl) >= 0.                                    *)
(***************************************************************************)
EXTENDS Grammar, CommandTable, FiniteSets

CONSTANTS
  Programs,  \* subset of {"cli", "once", "ir"}
  Lines      \* the texts tried

ASSUME LinesAssumption == \A t \in Lines : IsText(t)

VARIABLES
  client,   \* the program
  up,       \* the session is open
  pc,       \* "idle", "find", "args", "run", "done"
  line,     \* the text being executed
  pos,      \* next: where in the text the parser is
  cmd,      \* the command found
  argv,     \* what the parsers returned: [val, text, known]
  missing,  \* arguments the line lacks
  refused,  \* the argument that was refused: [arg, text, known]
  plan,     \* the items left to do, each the parameters of its requests
  step,     \* the next of the handler's calls for the first of them
  tried,    \* the requests made for this line, with their success and up after
  said,     \* what the user was told
  live,     \* the heap objects this line allocated and did not free
  result    \* what duc_cmd returned for the last line

request == <<tried, plan, step>>
words == <<line, pos, cmd, argv, missing, refused>>
vars == <<client, up, pc, words, request, said, live, result>>

Nothing == [arg |-> "", text |-> <<>>, known |-> FALSE]
args == cmds_top[cmd]

Init ==
  /\ client \in Programs /\ up \in BOOLEAN /\ pc = "idle"
  /\ line = <<>> /\ pos = 1 /\ cmd = "" /\ argv = <<>> /\ missing = 0 /\ refused = Nothing
  /\ tried = <<>> /\ plan = <<>> /\ step = 1 /\ said = {} /\ live = {} /\ result = 0

(***************************************************************************)
(* The programs.                                                           *)
(***************************************************************************)
Fresh(t) ==
  /\ line' = t /\ pos' = 1 /\ cmd' = "" /\ argv' = <<>> /\ missing' = 0 /\ refused' = Nothing
  /\ tried' = <<>> /\ plan' = <<>> /\ step' = 1 /\ said' = {} /\ live' = {} /\ result' = 0

\* duc_cmd has returned to the prompt, or the process has ended.
Return ==
  /\ pc = "done" /\ client # "ir" /\ pc' = "idle" /\ Fresh(<<>>)
  /\ UNCHANGED <<client, up>>

\* While dudlc's prompt waits, the connection may be lost and reopened.
MainLoop ==
  /\ pc = "idle" /\ client = "cli"
  /\ up' \in BOOLEAN
  /\ UNCHANGED <<client, pc, words, request, said, live, result>>

\* dudlc -c: a new process, which only goes on when it is connected.
main ==
  /\ pc = "idle" /\ client = "once"
  /\ \/ up' = TRUE /\ pc' = "find" /\ \E t \in Lines : Fresh(t)
     \/ up' = FALSE /\ pc' = "done" /\ Fresh(<<>>)
  /\ UNCHANGED client

\* Trailing white space goes, but never the first character.
Stripped(t) == SubSeq(t, 1, CHOOSE n \in 1 .. Len(t) :
                 /\ n = 1 \/ t[n] # " "
                 /\ \A k \in n + 1 .. Len(t) : t[k] = " ")

IsUser(t) == t[1] = "user" /\ At(t, 2) \in {" ", NUL}

\* dudlc's prompt.  "user" asks for a password and closes the session, which
\* the disconnect handler tries to reopen; after "quit" the next line is that
\* of a new process.
tty_executor ==
  /\ pc = "idle" /\ client = "cli"
  /\ \E t \in Lines \ {<<>>} :
       LET input == Stripped(t) IN
       /\ Fresh(input)
       /\ \/ /\ input \notin {<<"quit">>, <<"exit">>} /\ ~IsUser(input)
             /\ pc' = "find" /\ UNCHANGED up
          \/ /\ input \in {<<"quit">>, <<"exit">>} \/ (IsUser(input) /\ Len(input) > 1)
             /\ up' \in BOOLEAN /\ pc' = "done"
          \/ /\ input = <<"user">>
             /\ pc' = "done" /\ UNCHANGED up
  /\ UNCHANGED client

(***************************************************************************)
(* duc_cmd: the command's name, its arguments.                             *)
(***************************************************************************)
cmd_find(name) ==
  IF Len(name) # 1 THEN ""
  ELSE IF name[1] \in DOMAIN cmds_top THEN name[1]
  ELSE IF name[1] \in DOMAIN aliases THEN aliases[name[1]] ELSE ""

\* The line is refused: duc_cmd returns -1.
Refuse(word, left) ==
  /\ said' = said \cup {word} /\ live' = left /\ result' = -1 /\ pc' = "done"

duc_cmd ==
  /\ pc = "find"
  /\ LET start == Span(line, 1, Blank)
         scmd == val_name(line, start)
         name == SubSeq(line, start, scmd.end - 1)
     IN \/ /\ scmd.end = start
           /\ Refuse("no such command", {}) /\ UNCHANGED <<pos, cmd>>
        \/ /\ scmd.end # start /\ cmd_find(name) = ""
           /\ Refuse("no such command", {0}) /\ UNCHANGED <<pos, cmd>>
        \/ /\ cmd_find(name) # ""
           /\ cmd' = cmd_find(name) /\ pos' = scmd.end /\ pc' = "args"
           /\ UNCHANGED <<said, live, result>>
  /\ UNCHANGED <<client, up, line, argv, missing, refused, request>>

Parse(arg, i, failed) ==
  CASE arg \in {"rcmd", "string"} -> val_string(line, i)
    [] arg \in {"name", "cmd"} -> val_name(line, i)
    [] arg = "idlist" -> val_idlist(line, i)
    [] arg = "userid" -> val_user(line, i)
    [] arg = "useridlist" -> val_userlist(line, i)
    [] arg = "right" -> val_enum(rights, line, i)
    [] arg = "seconds" -> val_time(line, i)
    [] arg = "bool" -> val_enum(bools, line, i)
    [] arg = "trackid" -> val_track(line, i, failed)
    [] arg = "trackidlist" -> val_tracklist(line, i, failed)
    [] arg = "tag" -> val_tag(line, i, failed)
    [] arg = "taglist" -> val_taglist(line, i, failed)
    [] arg = "sfilter" -> val_sfilter(line, i, failed)
    [] arg = "rgtype" -> val_enum(rgtypes, line, i)
    [] arg = "decibel" -> val_double(line, i)
    [] OTHER -> val_uint(line, i)

IsZero(k) == ArgKind[args[k]] = "int" /\ argv[k].val = 0

\* Objects are named by the argument they are the value of, 0 is the command's
\* name.  cmd_arg_free stops at the first argument that is 0, be it the end or
\* a number.
AllButLast(n) == {k \in 1 .. n - 1 : \A j \in 1 .. k : ~IsZero(j)}
Freed(n) == {k \in 1 .. n : \A j \in 1 .. k : ~IsZero(j)}

\* Some parsers allocate before they find the text at fault.
Kept(arg, i, r) ==
  ArgKind[arg] # "int" /\ (r.end # i \/ arg \notin {"trackidlist", "name", "cmd"})

ArgLeft == Len(argv) + missing < Len(args)

ArgMissing ==
  /\ pc = "args" /\ ArgLeft
  /\ At(line, Span(line, pos, Blank)) = NUL
  /\ pos' = Span(line, pos, Blank) /\ missing' = missing + 1
  /\ UNCHANGED <<client, up, pc, line, cmd, argv, refused, request, said, live, result>>

\* An argument is read.  The lookups it takes open the session if need be;
\* the ones that fail may have lost it.
ArgRead(arg, next, known, r) ==
  LET k == Len(argv) + 1
      live2 == IF Kept(arg, next, r) THEN live \cup {k} ELSE live
  IN /\ up' \in IF r.asked = {} THEN {up} ELSE IF known THEN {TRUE} ELSE BOOLEAN
     /\ \/ /\ r.end # next /\ At(line, r.end) \in {" ", NUL}
           /\ argv' = Append(argv, [val |-> r.val, known |-> known,
                                    text |-> SubSeq(line, next, r.end - 1)])
           /\ live' = live2 /\ pos' = r.end
           /\ UNCHANGED <<pc, refused, said, result>>
        \/ /\ r.end = next \/ At(line, r.end) \notin {" ", NUL}
           /\ Refuse("invalid data", live2 \ Freed(Len(argv)))
           /\ refused' = [arg |-> arg, known |-> known,
                           text |-> SubSeq(line, next, WordEnd(line, next) - 1)]
           /\ UNCHANGED <<argv, pos>>

ArgParsed ==
  /\ pc = "args" /\ ArgLeft
  /\ At(line, Span(line, pos, Blank)) # NUL
  /\ LET arg == args[Len(argv) + 1]
         next == Span(line, pos, Blank)
     IN \E failed \in SUBSET Parse(arg, next, {}).asked :
          ArgRead(arg, next, failed = {}, Parse(arg, next, failed))
  /\ UNCHANGED <<client, line, cmd, missing, request>>

(***************************************************************************)
(* The handler's requests.  idl_iterate stops at the first negative id.    *)
(***************************************************************************)
Positive(ids) ==
  LET stop == SelectInSeq(ids, LAMBDA id : id <= 0)
  IN IF stop = 0 THEN ids ELSE SubSeq(ids, 1, stop - 1)
Iterated(ids) ==
  LET stop == SelectInSeq(ids, LAMBDA id : id < 0)
  IN IF stop = 0 THEN ids ELSE SubSeq(ids, 1, stop - 1)

\* What a handler passes on of an argument: of a list, taken for a number,
\* the address.
Passed(k) == IF ArgKind[args[k]] = "list" THEN <<"address", k>> ELSE <<"value", argv[k].val>>

Plan ==
  LET first == Iterated(argv[1].val)
      rest == [k \in 1 .. Len(args) - 1 |-> Passed(k + 1)]
      second(id) == LET tags == Iterated(argv[2].val)
                    IN [n \in DOMAIN tags |->
                          <<<<"value", id>>, <<"value", tags[n]>>>>]
  IN IF cmd \in Special THEN <<>>
     ELSE CASE handlers[cmd].how = "one" -> <<[k \in DOMAIN args |-> Passed(k)]>>
            [] handlers[cmd].how = "each" ->
                 [n \in DOMAIN first |-> <<<<"value", first[n]>>>> \o rest]
            [] OTHER -> FlattenSeq([n \in DOMAIN first |-> second(first[n])])

\* All arguments are read: the line is refused, or the handler starts.
ArgsEnd ==
  /\ pc = "args" /\ Len(argv) + missing = Len(args)
  /\ \/ /\ At(line, pos) # NUL
        /\ Refuse("too many arguments", live \ Freed(Len(argv))) /\ UNCHANGED plan
     \/ /\ At(line, pos) = NUL /\ missing > 0
        /\ Refuse("usage", live \ Freed(Len(argv))) /\ UNCHANGED plan
     \/ /\ At(line, pos) = NUL /\ missing = 0
        /\ pc' = "run" /\ plan' = Plan /\ UNCHANGED <<said, live, result>>
  /\ UNCHANGED <<client, up, words, tried, step>>

\* The handler has returned; duc_cmd returns 0 whatever it did.
Finish(failing, words2, open) ==
  /\ said' = words2 \cup (IF ~failing THEN {} ELSE IF open THEN {"failed"}
                          ELSE {"failed: connection error"})
  /\ live' = live \ Freed(Len(argv)) /\ result' = 0 /\ pc' = "done" /\ plan' = <<>> /\ step' = 1

\* The values a call returns when the server accepts, and when it does not.
Values(kind) ==
  CASE kind = "succ" -> {0} [] kind = "int" -> {0, 1} [] kind = "double" -> {-2, 0, 1}
    [] kind = "object" -> {1}
Failure(kind) == IF kind = "object" THEN 0 ELSE -1

NotPositive(test, kind, r) == r <= 0
NotChecked(test, kind, r) == FALSE
IsFailure(test, kind, r) ==
  CASE test = "nonzero" -> r # 0 [] test = "negative" -> r < 0 [] test = "minus1" -> r = -1
    [] test = "null" -> r = 0 [] test = "failed" -> r = Failure(kind)

\* A failing request ends the command, unless it was for one item of many and
\* the session is open.
OnlySingle(failing, single, open) == failing /\ single
Stops(failing, single, open) == failing /\ (single \/ ~open)

\* open: whether the session is open after the request.  It is when the server
\* answered, and may be when the connection was lost and dudlc's handler
\* reopened it.  A request made while the session is closed opens it first.
Request ==
  /\ pc = "run" /\ plan # <<>> /\ (cmd = "status" => up)
  /\ LET seq == handlers[cmd].calls
         kind == calls[seq[step]]
         single == handlers[cmd].how = "one"
     IN \E good \in BOOLEAN, open \in BOOLEAN :
        \E r \in IF good THEN Values(kind) ELSE {Failure(kind)} :
          LET failing == IsFailure(handlers[cmd].test, kind, r)
              last == failing \/ step = Len(seq)
              left == IF last THEN Tail(plan) ELSE plan
              words2 == IF failing THEN said \cup {"item failed"} ELSE said
          IN /\ good => open
             /\ tried' = Append(tried, [call |-> seq[step], args |-> Head(plan),
                                        good |-> good, open |-> open])
             /\ up' = open
             /\ IF Stops(failing, single, open) THEN Finish(TRUE, said, open)
                ELSE IF left = <<>> THEN Finish(FALSE, words2, open)
                ELSE /\ plan' = left /\ step' = (IF last THEN 1 ELSE step + 1)
                     /\ said' = words2 /\ UNCHANGED <<pc, live, result>>
  /\ UNCHANGED <<client, words>>

\* Nothing to ask for: an empty list, the help texts, the status of a closed
\* session ("not connected").
NoRequest ==
  /\ pc = "run"
  /\ \/ plan = <<>> /\ cmd \notin {"open", "raw"}
     \/ cmd = "status" /\ ~up
  /\ Finish(FALSE, said, up)
  /\ UNCHANGED <<client, up, words, tried>>

\* duc_open disconnects on every way to its failure, whatever its handlers did.
c_open ==
  /\ pc = "run" /\ cmd = "open"
  /\ up' \in IF up THEN {TRUE} ELSE BOOLEAN
  /\ Finish(~up', said, up')
  /\ UNCHANGED <<client, words, tried>>

\* Whatever the server says is shown, a refusal like a success; only a
\* connection lost on the way to the reply is a failure.  A request that could
\* not even be sent is not.
c_raw ==
  /\ pc = "run" /\ cmd = "raw"
  /\ \E lost, open \in BOOLEAN :
       /\ tried' = Append(tried, [call |-> "raw", args |-> <<>>, good |-> open /\ ~lost,
                                  open |-> open])
       /\ up' = open
       /\ Finish(lost, said, open)
  /\ UNCHANGED <<client, words>>

CommandStep ==
  \/ duc_cmd \/ ArgMissing \/ ArgParsed \/ ArgsEnd
  \/ Request \/ NoRequest \/ c_open \/ c_raw

DudlcStep == Return \/ MainLoop \/ main \/ tty_executor

(***************************************************************************)
(* Properties.                                                             *)
(***************************************************************************)
Executed == pc = "done" /\ result = 0

\* Every list the documented grammars allow, and whose lookups the server
\* answers, is accepted and read as the ids it denotes.
ListsUnderstood ==
  (pc = "run" /\ tried = <<>>) \/ refused # Nothing => \A m \in Meaning :
    /\ \A k \in DOMAIN argv :
         args[k] = m.arg /\ argv[k].known /\ argv[k].text = m.text => argv[k].val = m.ids
    /\ refused.arg = m.arg /\ refused.known => refused.text # m.text

\* A command that told the user nothing has made all its requests, in order, and
\* the server accepted them: for each id of its list, or each pair of ids of its
\* two, up to the first negative one.  status is left out, as it asks nothing
\* of a closed session.
Reached(ids) == {n \in DOMAIN ids : \A m \in 1 .. n : ids[m] >= 0}

QuietMeansDone ==
  Executed /\ said = {} /\ cmd \in DOMAIN handlers \ {"status"} =>
    LET how == handlers[cmd].how
        seq == handlers[cmd].calls
        Made(k, j) == k \in DOMAIN tried /\ tried[k].call = seq[j] /\ tried[k].good
        Of(k, n) == <<"value", argv[k].val[n]>>
    IN \A j \in DOMAIN seq :
         /\ how = "one" => Made(j, j)
         /\ how = "each" => \A n \in Reached(argv[1].val) :
              LET k == (n - 1) * Len(seq) + j
              IN Made(k, j) /\ tried[k].args[1] = Of(1, n)
         /\ how = "pairs" => \A n \in Reached(argv[1].val), i \in Reached(argv[2].val) :
              \E k \in DOMAIN tried : Made(k, j) /\ tried[k].args = <<Of(1, n), Of(2, i)>>

\* When the connection is gone, no further request of the same line goes out:
\* the rest of a list is not applied to a session opened anew.
CutEndsCommand ==
  \A k \in DOMAIN tried : ~tried[k].open => k = Len(tried) /\ pc = "done"

\* A request that fails is told, but those of raw; and "failed" is only said of
\* a command the server refused or the connection lost, but for the two whose
\* handlers misread the answer.
FailuresAreTold ==
  Executed =>
    LET failing == \E k \in DOMAIN tried : ~tried[k].good IN
    /\ failing /\ cmd # "raw" => said # {}
    /\ said # {} /\ cmd \notin Misread \cup {"open"} => failing

\* A line that is executed leaves nothing behind on the heap, unless one of
\* its arguments is the number 0.
FreedWhenAccepted ==
  Executed /\ (\A k \in DOMAIN argv : ~IsZero(k)) => live = {}

\* "delete user", "show user details" (command.c:1373, 1358): the users these
\* commands are about are those the line names.
UsersAreNamed ==
  \A k \in DOMAIN tried :
    tried[k].call \in {"userget", "userdel"} => tried[k].args[1][1] = "value"
=============================================================================
