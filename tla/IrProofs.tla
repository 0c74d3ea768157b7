------------------------------ MODULE IrProofs ------------------------------
(***************************************************************************)
(* What TLAPS proves of irdudl's loop, of the commands the three programs  *)
(* execute, and of the parsers that read their arguments: for all          *)
(* configurations, any number of keys pressed, and all texts.              *)
(***************************************************************************)
EXTENDS Irdudl, Recursion

\* The part of IrTypeOK that the loop itself depends on, and why a code is
\* there when one is read.
Typed ==
  /\ at \in {"lircd", "config", "read", "open", "select", "code", "keys"}
  /\ l_fd \in {"none", "ok", "dead"} /\ reread_config \in BOOLEAN
  /\ keys \in 0 .. MaxKeys /\ file \in 1 .. Len(Config)
  /\ l_conf \in 0 .. file /\ wanted \in 1 .. file
  /\ missed \in BOOLEAN /\ stale \in 0 .. 2

CodeWaits ==
  /\ keys > 0 => l_fd = "ok"
  /\ at = "code" => l_fd = "dead" \/ keys > 0

\* Commands are executed from loop_lirccmd only.
InCommand == client = "ir" /\ pc # "idle" => at = "keys"

\* Behind the check of the flag, what a key met with an old configuration
\* after the last SIGHUP is not met again.
Settled ==
  stale = 1 /\ ~missed /\ at \in {"read", "open", "select", "code"} =>
    l_conf = 0 \/ l_conf >= wanted

IrInv == Typed /\ CodeWaits /\ InCommand /\ HupHonoured /\ OneKeyLate /\ Settled

LEMMA IrInitInv == IrInit => IrInv
<1> SUFFICES ASSUME IrInit PROVE IrInv
  OBVIOUS
<1>1. 1 \in 1 .. Len(Config) /\ 0 \in 0 .. MaxKeys
  BY IrAssumption
<1>2. /\ at = "lircd" /\ l_fd = "none" /\ l_conf = 0 /\ reread_config = FALSE
      /\ keys = 0 /\ file = 1 /\ wanted = 1 /\ missed = FALSE /\ stale = 0 /\ pc = "idle"
  BY DEF IrInit, Init
<1>3. 0 \in 0 .. 1 /\ 1 \in 1 .. 1 /\ 0 \in 0 .. 2
  OBVIOUS
<1>5. Typed
  BY <1>1, <1>2, <1>3 DEF Typed
<1>4. CodeWaits /\ InCommand /\ HupHonoured /\ OneKeyLate /\ Settled
  BY <1>2 DEF CodeWaits, InCommand, HupHonoured, OneKeyLate, Settled
<1> QED BY <1>4, <1>5 DEF IrInv

\* A command is being executed, and leaves the loop alone.
LEMMA CommandsKeep ==
  ASSUME CommandStep
  PROVE  pc # "idle" /\ client' = client
BY DEF CommandStep, duc_cmd, ArgMissing, ArgParsed, ArgRead, ArgsEnd, Request, NoRequest, c_open, c_raw

LEMMA DudlcKeeps ==
  ASSUME DudlcStep
  PROVE  client # "ir" /\ client' = client
BY DEF DudlcStep, Return, MainLoop, main, tty_executor

LEMMA IrStep == IrInv /\ [IrNext]_irvars => IrInv'
<1> SUFFICES ASSUME IrInv, [IrNext]_irvars PROVE IrInv'
  OBVIOUS
<1> USE DEF IrInv, Typed, CodeWaits, InCommand, HupHonoured, OneKeyLate, Settled
<1>0. /\ MaxKeys \in Nat \ {0} /\ DOMAIN Config = 1 .. Len(Config) /\ Len(Config) \in Nat
      /\ file \in Nat /\ l_conf \in Nat /\ wanted \in Nat
  <2>1. DOMAIN Config = 1 .. Len(Config)
    BY IrAssumption
  <2> QED BY <2>1, IrAssumption
<1>1. ASSUME Press PROVE IrInv'
  BY <1>0, <1>1 DEF Press, vars, loop
<1>2. ASSUME LircdDies PROVE IrInv'
  BY <1>0, <1>2 DEF LircdDies, vars
<1>3. ASSUME ServerActs PROVE IrInv'
  BY <1>0, <1>3 DEF ServerActs, vars, loop
<1>4. ASSUME sig_hup PROVE IrInv'
  <2>1. /\ file + 1 \in 1 .. Len(Config)
        /\ l_conf \in 0 .. (file + 1) /\ (file + 1) \in 1 .. (file + 1)
    BY <1>0, <1>4 DEF sig_hup
  <2>2. /\ file' = file + 1 /\ wanted' = file + 1 /\ reread_config' = TRUE
        /\ stale' = 0 /\ missed' = FALSE /\ client' = client /\ pc' = pc
        /\ l_fd' = l_fd /\ l_conf' = l_conf /\ keys' = keys
        /\ at' = IF at = "select" THEN "lircd" ELSE at
    BY <1>4 DEF sig_hup, AskReread, vars
  <2>3. at' \in {"lircd", "config", "read", "open", "select", "code", "keys"}
    BY <2>2
  <2>5. file' \in 1 .. Len(Config)' /\ l_conf' \in 0 .. file' /\ wanted' \in 1 .. file'
    <3>1. file' \in 1 .. Len(Config)
      BY <2>1, <2>2
    <3>2. l_conf' \in 0 .. file'
      BY <2>1, <2>2
    <3>3. wanted' \in 1 .. file'
      BY <2>1, <2>2
    <3> QED BY <3>1, <3>2, <3>3
  <2>6. l_fd' \in {"none", "ok", "dead"} /\ reread_config' \in BOOLEAN /\ missed' \in BOOLEAN
    BY <2>2
  <2>7. keys' \in 0 .. MaxKeys' /\ stale' \in 0 .. 2
    BY <1>0, <2>2
  <2>8. Typed'
    BY <2>3, <2>5, <2>6, <2>7
  <2>4. CodeWaits' /\ InCommand' /\ HupHonoured' /\ OneKeyLate' /\ Settled'
    BY <1>0, <2>2
  <2> QED BY <2>8, <2>4
<1>5. ASSUME ReopenLirc PROVE IrInv'
  BY <1>0, <1>5 DEF ReopenLirc, vars, world
<1>6. ASSUME ReadConfig PROVE IrInv'
  BY <1>0, <1>6 DEF ReadConfig, ConfigWanted, vars, world
<1>7. ASSUME ConfigDone PROVE IrInv'
  BY <1>0, <1>7 DEF ConfigDone, vars
<1>8. ASSUME Reconnect PROVE IrInv'
  BY <1>0, <1>8 DEF Reconnect, world
<1>9. ASSUME Select PROVE IrInv'
  BY <1>0, <1>9 DEF Select, Turn, LircReadable
<1>10. ASSUME NextCode PROVE IrInv'
  BY <1>0, <1>10 DEF NextCode, vars
<1>11. ASSUME NextString PROVE IrInv'
  BY <1>0, <1>11 DEF NextString, world
<1>12. ASSUME LastString PROVE IrInv'
  BY <1>0, <1>12 DEF LastString, vars, world
<1>13. ASSUME dudl_cmd PROVE IrInv'
  BY <1>0, <1>13 DEF dudl_cmd, world
<1>14. ASSUME CommandStep, UNCHANGED <<loop, keys, file, wanted, missed, stale>>
       PROVE IrInv'
  BY <1>0, <1>14, CommandsKeep DEF loop
<1>15. ASSUME DudlcStep, UNCHANGED <<loop, world>> PROVE IrInv'
  BY <1>0, <1>15, DudlcKeeps DEF loop, world
<1>16. ASSUME UNCHANGED irvars PROVE IrInv'
  BY <1>16 DEF irvars, vars, loop, world
<1> QED
  BY <1>1, <1>2, <1>3, <1>4, <1>5, <1>6, <1>7, <1>8, <1>9, <1>10, <1>11, <1>12, <1>13,
     <1>14, <1>15, <1>16 DEF IrNext, LoopStep

LEMMA IrInvariant == IrSpec => []IrInv
BY IrInitInv, IrStep, PTL DEF IrSpec

(***************************************************************************)
(* irdudl's loop (ir/main.c) keeps its types, and executes commands only   *)
(* while it handles a key.                                                 *)
(***************************************************************************)
THEOREM IrTypeCorrect == IrSpec => []IrTypeOK
<1>1. IrInv => IrTypeOK
  BY DEF IrInv, Typed, InCommand, IrTypeOK
<1> QED BY <1>1, IrInvariant, PTL

(***************************************************************************)
(* A SIGHUP that does not come while the configuration is read is not      *)
(* forgotten (ir/main.c:63, 155).                                          *)
(***************************************************************************)
THEOREM HupIsHonoured == IrSpec => []HupHonoured
<1>1. IrInv => HupHonoured
  BY DEF IrInv
<1> QED BY <1>1, IrInvariant, PTL

(***************************************************************************)
(* And at most one key is handled with the old configuration after it.     *)
(***************************************************************************)
THEOREM AtMostOneKeyLate == IrSpec => []OneKeyLate
<1>1. IrInv => OneKeyLate
  BY DEF IrInv
<1> QED BY <1>1, IrInvariant, PTL

(***************************************************************************)
(* Commands.  What is known of a line at each of its stages, and of the    *)
(* requests made for it.                                                   *)
(***************************************************************************)
Known == pc \in {"args", "run"} => cmd \in DOMAIN cmds_top

\* Nothing is asked before the arguments are read, nothing is told either.
NotYet == pc \notin {"run", "done"} => tried = <<>> /\ said = {}

\* A handler at its work is at one of its calls, was not cut, and has told of
\* what failed.
AtWork ==
  pc = "run" =>
    /\ cmd \in DOMAIN handlers => step \in DOMAIN handlers[cmd].calls
    /\ cmd \in Special => plan = <<>> /\ tried = <<>> /\ said = {}
    /\ \A k \in DOMAIN tried : tried[k].open
    /\ (\E k \in DOMAIN tried : ~tried[k].good) => said # {}
    /\ said # {} /\ cmd \notin Misread => \E k \in DOMAIN tried : ~tried[k].good

\* What is allocated belongs to the arguments read so far.
Owned ==
  /\ pc \in {"idle", "find"} => argv = <<>> /\ live = {}
  /\ pc \in {"args", "run"} => live \subseteq 1 .. Len(argv)

Shapes ==
  /\ tried \in Seq(Range(tried)) /\ argv \in Seq(Range(argv))
  /\ pc # "done" => result = 0
  /\ pc \in {"idle", "find", "args", "run", "done"}
  /\ pc # "run" => step = 1

CmdInv ==
  /\ Known /\ NotYet /\ AtWork /\ Owned /\ Shapes
  /\ CutEndsCommand /\ FailuresAreTold /\ FreedWhenAccepted

\* Appending to a sequence, whatever it holds.
LEMMA Appending ==
  ASSUME NEW s, s \in Seq(Range(s)), NEW e
  PROVE  /\ Append(s, e) \in Seq(Range(Append(s, e)))
         /\ Len(s) \in Nat /\ DOMAIN s = 1 .. Len(s)
         /\ Len(Append(s, e)) = Len(s) + 1
         /\ DOMAIN Append(s, e) = 1 .. Len(s) + 1
         /\ \A k \in 1 .. Len(s) : Append(s, e)[k] = s[k]
         /\ Append(s, e)[Len(s) + 1] = e
<1> DEFINE S == Range(s) \cup {e}
<1>1. s \in Seq(S)
  BY SeqMonotonic
<1>2. e \in S
  OBVIOUS
<1>3. Append(s, e) \in Seq(S)
  BY <1>1, <1>2, AppendProperties
<1>4. Append(s, e) \in Seq(Range(Append(s, e)))
  BY <1>3, SeqOfRange
<1>5. Len(s) \in Nat /\ DOMAIN s = 1 .. Len(s)
  BY LenProperties
<1>6. /\ Len(Append(s, e)) = Len(s) + 1
      /\ \A k \in 1 .. Len(s) : Append(s, e)[k] = s[k]
      /\ Append(s, e)[Len(s) + 1] = e
  BY <1>1, <1>2, AppendProperties
<1>7. DOMAIN Append(s, e) = 1 .. Len(Append(s, e))
  BY <1>3, LenProperties
<1> QED BY <1>4, <1>5, <1>6, <1>7

\* A handler takes a failure for one, and, but for two, nothing else.
LEMMA Told ==
  ASSUME NEW c \in DOMAIN handlers, NEW n \in DOMAIN handlers[c].calls,
         NEW kind, kind = calls[handlers[c].calls[n]]
  PROVE  /\ IsFailure(handlers[c].test, kind, Failure(kind))
         /\ c \notin Misread =>
              \A r \in Values(kind) : ~IsFailure(handlers[c].test, kind, r)
<1> DEFINE test == handlers[c].test
<1>1. <<test, kind>> \in Tests \cup {<<"nonzero", "int">>, <<"negative", "double">>}
  BY TestsFit
<1>2. c \notin Misread => <<test, kind>> \in Tests
  BY TestsFit
<1> HIDE DEF test
<1>5. ASSUME <<test, kind>> \in Tests
      PROVE  \/ test = "null" /\ kind = "object"
             \/ test = "negative" /\ kind = "int"
             \/ test \in {"nonzero", "minus1"} /\ kind = "succ"
             \/ test = "minus1" /\ kind = "int"
             \/ test = "failed" /\ kind \in {"object", "succ"}
  BY <1>5 DEF Tests
<1>6. \/ test = "null" /\ kind = "object"
      \/ test = "negative" /\ kind \in {"int", "double"}
      \/ test = "nonzero" /\ kind \in {"succ", "int"}
      \/ test = "minus1" /\ kind \in {"succ", "int"}
      \/ test = "failed" /\ kind \in {"object", "succ"}
  BY <1>1, <1>5
<1>7. Failure(kind) = IF test = "null" THEN 0 ELSE IF kind = "object" THEN 0 ELSE -1
  BY <1>6 DEF Failure
<1>3. IsFailure(test, kind, Failure(kind))
  <2>1. CASE test = "null" BY <2>1, <1>7 DEF IsFailure
  <2>2. CASE test = "negative" BY <2>2, <1>6, <1>7 DEF IsFailure
  <2>3. CASE test = "nonzero" BY <2>3, <1>6, <1>7 DEF IsFailure
  <2>4. CASE test = "minus1" BY <2>4, <1>6, <1>7 DEF IsFailure
  <2>5. CASE test = "failed" BY <2>5 DEF IsFailure
  <2> QED BY <1>6, <2>1, <2>2, <2>3, <2>4, <2>5
<1>4. ASSUME <<test, kind>> \in Tests, NEW r \in Values(kind)
      PROVE  ~IsFailure(test, kind, r)
  <2>1. CASE test = "null" /\ kind = "object"
    BY <1>4, <2>1 DEF IsFailure, Values
  <2>2. CASE test = "negative" /\ kind = "int"
    BY <1>4, <2>2 DEF IsFailure, Values
  <2>3. CASE test = "nonzero" /\ kind = "succ"
    BY <1>4, <2>3 DEF IsFailure, Values
  <2>4. CASE test = "minus1" /\ kind \in {"succ", "int"}
    BY <1>4, <2>4 DEF IsFailure, Values
  <2>5. CASE test = "failed" /\ kind = "object"
    BY <1>4, <2>5 DEF IsFailure, Values, Failure
  <2>6. CASE test = "failed" /\ kind = "succ"
    BY <1>4, <2>6 DEF IsFailure, Values, Failure
  <2> QED BY <1>4, <1>5, <2>1, <2>2, <2>3, <2>4, <2>5, <2>6
<1> QED BY <1>2, <1>3, <1>4 DEF test

\* A new line.
LEMMA Anew ==
  ASSUME NEW t, Fresh(t), pc' \in {"idle", "find", "done"}
  PROVE  CmdInv'
<1>1. /\ tried' = <<>> /\ argv' = <<>> /\ live' = {} /\ said' = {} /\ result' = 0 /\ step' = 1
      /\ plan' = <<>>
  BY DEF Fresh
<1>2. tried' \in Seq(Range(tried')) /\ argv' \in Seq(Range(argv'))
  BY <1>1, EmptySeq
<1>3. DOMAIN tried' = {}
  BY <1>1
<1> QED
  BY <1>1, <1>2, <1>3 DEF CmdInv, Known, NotYet, AtWork, Owned, Shapes, CutEndsCommand,
     FailuresAreTold, FreedWhenAccepted, Executed

\* The line as it is.
LEMMA SameLine ==
  ASSUME CmdInv, UNCHANGED <<pc, words, request, said, live, result>>
  PROVE  CmdInv'
BY DEF words, request, CmdInv, Known, NotYet, AtWork, Owned, Shapes, CutEndsCommand,
   FailuresAreTold, FreedWhenAccepted, Executed, IsZero, args

LEMMA Refusing ==
  ASSUME CmdInv, pc \in {"find", "args"}, NEW w, NEW left, Refuse(w, left),
         argv' \in Seq(Range(argv')), UNCHANGED request
  PROVE  CmdInv'
<1>1. tried' = <<>> /\ result' = -1 /\ pc' = "done" /\ step' = 1
  BY DEF CmdInv, NotYet, Shapes, Refuse, request
<1>2. tried' \in Seq(Range(tried')) /\ DOMAIN tried' = {}
  BY <1>1, EmptySeq
<1> QED
  BY <1>1, <1>2 DEF CmdInv, Known, NotYet, AtWork, Owned, Shapes, CutEndsCommand,
     FailuresAreTold, FreedWhenAccepted, Executed

LEMMA NameKeeps ==
  ASSUME CmdInv, duc_cmd
  PROVE  CmdInv'
<1> USE DEF CmdInv
<1>1. \A name : cmd_find(name) # "" => cmd_find(name) \in DOMAIN cmds_top
  BY TablesFit DEF cmd_find
<1>2. pc = "find" /\ argv' = argv /\ argv = <<>>
  BY DEF duc_cmd, Owned
<1>3. CASE UNCHANGED request /\ (\E left : Refuse("no such command", left))
  BY <1>2, <1>3, Refusing DEF Shapes
<1>4. CASE \E name : /\ cmd_find(name) # "" /\ cmd' = cmd_find(name) /\ pc' = "args"
                     /\ UNCHANGED <<said, live, result, argv, request>>
  BY <1>1, <1>2, <1>4
     DEF Known, NotYet, AtWork, Owned, Shapes, CutEndsCommand, FailuresAreTold,
         FreedWhenAccepted, Executed, request
<1> QED
  BY <1>3, <1>4 DEF duc_cmd

LEMMA ArgumentKeeps ==
  ASSUME CmdInv, ArgMissing \/ ArgParsed
  PROVE  CmdInv'
<1> USE DEF CmdInv
<1>1. CASE ArgMissing
  BY <1>1 DEF ArgMissing, request, Known, NotYet, AtWork, Owned, Shapes, CutEndsCommand,
     FailuresAreTold, FreedWhenAccepted, Executed, IsZero, args
<1>2. CASE ArgParsed
  <2>1. pc = "args" /\ UNCHANGED <<cmd, request>>
    BY <1>2 DEF ArgParsed
  <2>2. PICK arg, next, known, r : ArgRead(arg, next, known, r)
    BY <1>2 DEF ArgParsed
  <2>3. CASE /\ \E a : argv' = Append(argv, a)
             /\ live' \subseteq live \cup {Len(argv) + 1}
             /\ UNCHANGED <<pc, said, result>>
    <3>1. PICK a : argv' = Append(argv, a)
      BY <2>3
    <3>2. argv' \in Seq(Range(argv')) /\ Len(argv) \in Nat /\ Len(argv') = Len(argv) + 1
      BY <3>1, Appending DEF Shapes
    <3>3. live' \subseteq 1 .. Len(argv')
      BY <2>1, <2>3, <3>2 DEF Owned
    <3> QED
      BY <2>1, <2>3, <3>2, <3>3 DEF request, Known, NotYet, AtWork, Owned, Shapes,
         CutEndsCommand, FailuresAreTold, FreedWhenAccepted, Executed
  <2>4. CASE argv' = argv /\ \E left : Refuse("invalid data", left)
    BY <2>1, <2>4, Refusing DEF Shapes
  <2> QED BY <2>2, <2>3, <2>4 DEF ArgRead
<1> QED BY <1>1, <1>2

LEMMA ArgsEndKeeps ==
  ASSUME CmdInv, ArgsEnd
  PROVE  CmdInv'
<1> USE DEF CmdInv
<1>1. pc = "args" /\ UNCHANGED <<words, tried, step>>
  BY DEF ArgsEnd
<1>2. CASE plan' = plan /\ \E w, left : Refuse(w, left)
  <2>1. argv' \in Seq(Range(argv')) /\ UNCHANGED request
    BY <1>1, <1>2 DEF words, request, Shapes
  <2> QED BY <1>1, <1>2, <2>1, Refusing
<1>3. CASE pc' = "run" /\ plan' = Plan /\ UNCHANGED <<said, live, result>>
  <2>1. cmd \in DOMAIN handlers => step \in DOMAIN handlers[cmd].calls
    <3>1. cmd \in DOMAIN handlers => handlers[cmd].calls \in Seq(DOMAIN calls) \ {<<>>}
      BY TablesFit
    <3>2. cmd \in DOMAIN handlers => 1 \in DOMAIN handlers[cmd].calls
      BY <3>1, EmptySeq, LenProperties
    <3> QED BY <1>1, <3>2 DEF Shapes
  <2>2. cmd \in Special => plan' = <<>>
    BY <1>3 DEF Plan
  <2>3. tried = <<>> /\ said = {}
    BY <1>1 DEF NotYet
  <2> QED
    BY <1>1, <1>3, <2>1, <2>2, <2>3 DEF words, Known, NotYet, AtWork, Owned, Shapes,
       CutEndsCommand, FailuresAreTold, FreedWhenAccepted, Executed
<1> QED BY <1>2, <1>3 DEF ArgsEnd

\* The handler returns: what it asked for, failed at and told is in order.
LEMMA Finishing ==
  ASSUME CmdInv, pc = "run", UNCHANGED words,
         NEW failing, NEW told, NEW open, Finish(failing, told, open),
         tried' \in Seq(Range(tried')), CutEndsCommand', FailuresAreTold'
  PROVE  CmdInv'
<1> USE DEF CmdInv
<1>1. pc' = "done" /\ step' = 1 /\ result' = 0 /\ live' = live \ Freed(Len(argv))
  BY DEF Finish
<1>2. live \subseteq 1 .. Len(argv) /\ argv' = argv /\ cmd' = cmd
  BY DEF words, Owned
<1>3. DOMAIN argv = 1 .. Len(argv) /\ Len(argv) \in Nat
  BY LenProperties DEF Shapes
<1>4. FreedWhenAccepted'
  <2> SUFFICES ASSUME \A k \in DOMAIN argv' : ~IsZero(k)'
               PROVE  live' = {}
    BY DEF FreedWhenAccepted
  <2>1. \A k \in 1 .. Len(argv) : ~IsZero(k)
    BY <1>2, <1>3 DEF IsZero, args
  <2>2. Freed(Len(argv)) = 1 .. Len(argv)
    BY <2>1, <1>3 DEF Freed
  <2> QED BY <1>1, <1>2, <2>2
<1>5. argv' \in Seq(Range(argv'))
  BY <1>2 DEF Shapes
<1> QED BY <1>1, <1>4, <1>5 DEF Known, NotYet, AtWork, Owned, Shapes

LEMMA NoRequestKeeps ==
  ASSUME CmdInv, NoRequest \/ c_open \/ c_raw
  PROVE  CmdInv'
<1> USE DEF CmdInv
<1>1. pc = "run" /\ UNCHANGED words /\ pc' = "done" /\ result' = 0 /\ cmd' = cmd
  BY DEF NoRequest, c_open, c_raw, Finish, words
<1>2. CASE NoRequest
  <2>1. tried' = tried /\ said' = said /\ Finish(FALSE, said, up)
    BY <1>2 DEF NoRequest, Finish
  <2>2. tried' \in Seq(Range(tried')) /\ CutEndsCommand' /\ FailuresAreTold'
    BY <1>1, <2>1 DEF Shapes, AtWork, CutEndsCommand, FailuresAreTold, Executed
  <2> QED BY <1>1, <2>1, <2>2, Finishing
<1>3. CASE c_open
  <2>1. tried' = tried /\ cmd = "open" /\ Finish(~up', said, up')
    BY <1>3 DEF c_open
  <2>2. tried = <<>>
    BY <1>1, <2>1 DEF AtWork, Special
  <2>3. tried' \in Seq(Range(tried')) /\ CutEndsCommand' /\ FailuresAreTold'
    BY <1>1, <2>1, <2>2 DEF Shapes, CutEndsCommand, FailuresAreTold, Executed
  <2> QED BY <1>1, <2>1, <2>3, Finishing
<1>4. CASE c_raw
  <2>1. PICK lost \in BOOLEAN, open \in BOOLEAN :
          /\ tried' = Append(tried, [call |-> "raw", args |-> <<>>, good |-> open /\ ~lost,
                                     open |-> open])
          /\ Finish(lost, said, open)
    BY <1>4 DEF c_raw
  <2>2. tried = <<>> /\ said = {} /\ cmd = "raw"
    BY <1>1, <1>4 DEF c_raw, AtWork, Special
  <2>3. tried' = <<[call |-> "raw", args |-> <<>>, good |-> open /\ ~lost, open |-> open]>>
    BY <2>1, <2>2
  <2>4. DOMAIN tried' = {1} /\ Len(tried') = 1 /\ tried'[1].good = (open /\ ~lost)
    BY <2>3
  <2>5. tried' \in Seq(Range(tried'))
    BY <2>1, Appending DEF Shapes
  <2>6. said' # {} => lost
    BY <2>1, <2>2 DEF Finish
  <2>7. CutEndsCommand' /\ FailuresAreTold'
    BY <1>1, <2>2, <2>4, <2>6 DEF CutEndsCommand, FailuresAreTold, Executed
  <2> QED BY <1>1, <2>1, <2>5, <2>7, Finishing
<1> QED BY <1>2, <1>3, <1>4

LEMMA RequestKeeps ==
  ASSUME CmdInv, Request
  PROVE  CmdInv'
<1> USE DEF CmdInv
<1> DEFINE seq == handlers[cmd].calls
           kind == calls[seq[step]]
           single == handlers[cmd].how = "one"
           IsBad(r) == IsFailure(handlers[cmd].test, kind, r)
           IsLast(r) == IsBad(r) \/ step = Len(seq)
           Left(r) == IF IsLast(r) THEN Tail(plan) ELSE plan
           Words2(r) == IF IsBad(r) THEN said \cup {"item failed"} ELSE said
<1>1. pc = "run" /\ plan # <<>> /\ UNCHANGED words
  BY DEF Request
<1>2. PICK good, open, r :
        /\ good \in BOOLEAN /\ open \in BOOLEAN
        /\ r \in IF good THEN Values(kind) ELSE {Failure(kind)}
        /\ good => open
        /\ tried' = Append(tried, [call |-> seq[step], args |-> Head(plan),
                                   good |-> good, open |-> open])
        /\ IF Stops(IsBad(r), single, open) THEN Finish(TRUE, said, open)
           ELSE IF Left(r) = <<>> THEN Finish(FALSE, Words2(r), open)
           ELSE /\ plan' = Left(r) /\ step' = (IF IsLast(r) THEN 1 ELSE step + 1)
                /\ said' = Words2(r) /\ UNCHANGED <<pc, live, result>>
  <2> HIDE DEF kind, single
  <2> QED BY DEF Request, kind, single
<1>3. cmd \in DOMAIN handlers /\ cmd \notin Special
  BY <1>1, TablesFit DEF Known, AtWork
<1>4. step \in DOMAIN seq /\ seq \in Seq(DOMAIN calls) \ {<<>>}
  BY <1>1, <1>3, TablesFit DEF AtWork
<1>5. IsBad(Failure(kind)) /\ (cmd \notin Misread => \A v \in Values(kind) : ~IsBad(v))
  BY <1>3, <1>4, Told
<1>6. (~good => IsBad(r)) /\ (good /\ cmd \notin Misread => ~IsBad(r))
  BY <1>2, <1>5
<1> DEFINE q == [call |-> seq[step], args |-> Head(plan), good |-> good, open |-> open]
<1>7. /\ tried' \in Seq(Range(tried')) /\ Len(tried) \in Nat /\ DOMAIN tried = 1 .. Len(tried)
      /\ Len(tried') = Len(tried) + 1 /\ DOMAIN tried' = 1 .. Len(tried) + 1
      /\ \A k \in 1 .. Len(tried) : tried'[k] = tried[k]
      /\ tried'[Len(tried) + 1] = q
  <2>1. tried' = Append(tried, q)
    BY <1>2
  <2> HIDE DEF q
  <2> QED BY <2>1, Appending DEF Shapes
<1>8. \A k \in DOMAIN tried' : ~tried'[k].open => k = Len(tried') /\ ~open
  BY <1>1, <1>7 DEF AtWork
<1>9. (\E k \in DOMAIN tried' : ~tried'[k].good) <=> (~good \/ \E k \in DOMAIN tried : ~tried[k].good)
  <2>1. DOMAIN tried' = DOMAIN tried \cup {Len(tried) + 1}
    BY <1>7
  <2>2. tried'[Len(tried) + 1].good = good
    BY <1>7
  <2> QED BY <1>7, <2>1, <2>2
<1>10. cmd' = cmd /\ argv' = argv
  BY <1>1 DEF words
<1>11. CASE Stops(IsBad(r), single, open)
  <2>1. Finish(TRUE, said, open) /\ IsBad(r)
    BY <1>2, <1>11 DEF Stops
  <2>2. pc' = "done" /\ said' # {}
    BY <2>1 DEF Finish
  <2>3. cmd \notin Misread => ~good
    BY <1>6, <2>1
  <2>4. CutEndsCommand' /\ FailuresAreTold'
    BY <1>8, <1>9, <1>10, <2>2, <2>3 DEF CutEndsCommand, FailuresAreTold, Executed
  <2> QED BY <1>1, <1>7, <2>1, <2>4, Finishing
<1>12. CASE ~Stops(IsBad(r), single, open)
  <2>1. open
    BY <1>2, <1>6, <1>12 DEF Stops
  <2>2. \A k \in DOMAIN tried' : tried'[k].open
    BY <1>8, <2>1
  <2>3. /\ (\E k \in DOMAIN tried' : ~tried'[k].good) => Words2(r) # {}
        /\ Words2(r) # {} /\ cmd \notin Misread => \E k \in DOMAIN tried' : ~tried'[k].good
    BY <1>1, <1>6, <1>9 DEF AtWork
  <2>4. CASE Left(r) = <<>>
    <3>1. Finish(FALSE, Words2(r), open)
      BY <1>2, <1>12, <2>4
    <3>2. pc' = "done" /\ said' = Words2(r)
      BY <3>1 DEF Finish
    <3>3. CutEndsCommand' /\ FailuresAreTold'
      BY <1>10, <2>2, <2>3, <3>2 DEF CutEndsCommand, FailuresAreTold, Executed
    <3> QED BY <1>1, <1>7, <3>1, <3>3, Finishing
  <2>5. CASE Left(r) # <<>>
    <3>1. /\ step' = (IF IsLast(r) THEN 1 ELSE step + 1)
          /\ said' = Words2(r) /\ UNCHANGED <<pc, live, result>>
      BY <1>2, <1>12, <2>5
    <3>2. step' \in DOMAIN seq
      <4>1. Len(seq) \in Nat \ {0} /\ DOMAIN seq = 1 .. Len(seq)
        BY <1>4, EmptySeq, LenProperties
      <4>2. step \in 1 .. Len(seq) /\ (step # Len(seq) \/ step' = 1)
        BY <1>4, <3>1, <4>1
      <4>3. step' = 1 \/ step' = step + 1
        BY <3>1
      <4>4. \A n, i, j :
              n \in Nat \ {0} /\ i \in 1 .. n /\ (i # n \/ j = 1) /\ (j = 1 \/ j = i + 1) => j \in 1 .. n
        OBVIOUS
      <4>5. step' \in 1 .. Len(seq)
        BY <4>1, <4>2, <4>3, <4>4
      <4> QED BY <4>1, <4>5
    <3>3. AtWork'
      BY <1>3, <1>10, <2>2, <2>3, <3>1, <3>2 DEF AtWork
    <3> QED
      BY <1>1, <1>3, <1>7, <1>10, <2>2, <3>1, <3>3 DEF Known, NotYet, Owned, Shapes,
         CutEndsCommand, FailuresAreTold, FreedWhenAccepted, Executed
  <2> QED BY <2>4, <2>5
<1> QED BY <1>11, <1>12

LEMMA CommandInitInv == IrInit => CmdInv
<1> SUFFICES ASSUME IrInit PROVE CmdInv
  OBVIOUS
<1>1. /\ tried = <<>> /\ argv = <<>> /\ live = {} /\ said = {} /\ result = 0 /\ step = 1
      /\ plan = <<>> /\ pc = "idle"
  BY DEF IrInit, Init
<1>2. tried \in Seq(Range(tried)) /\ argv \in Seq(Range(argv)) /\ DOMAIN tried = {}
  BY <1>1, EmptySeq
<1> QED
  BY <1>1, <1>2 DEF CmdInv, Known, NotYet, AtWork, Owned, Shapes, CutEndsCommand,
     FailuresAreTold, FreedWhenAccepted, Executed

LEMMA CommandInvStep == CmdInv /\ [IrNext]_irvars => CmdInv'
<1> SUFFICES ASSUME CmdInv, [IrNext]_irvars PROVE CmdInv'
  OBVIOUS
<1>1. CASE CommandStep
  BY <1>1, NameKeeps, ArgumentKeeps, ArgsEndKeeps, RequestKeeps, NoRequestKeeps DEF CommandStep
<1>2. CASE Return \/ main \/ tty_executor
  BY <1>2, Anew DEF Return, main, tty_executor
<1>3. CASE NextString \/ dudl_cmd
  BY <1>3, Anew DEF NextString, dudl_cmd
<1>4. CASE UNCHANGED vars
  BY <1>4, SameLine DEF vars
<1>5. CASE MainLoop \/ Reconnect \/ Select
  BY <1>5, SameLine DEF MainLoop, Reconnect, Select
<1>6. Press \/ LircdDies \/ ServerActs \/ sig_hup \/ ReopenLirc \/ ReadConfig \/ ConfigDone
      \/ NextCode \/ LastString => UNCHANGED vars
  BY DEF Press, LircdDies, ServerActs, sig_hup, ReopenLirc, ReadConfig, ConfigDone, NextCode,
     LastString
<1>7. UNCHANGED irvars => UNCHANGED vars
  BY DEF irvars
<1> QED
  BY <1>1, <1>2, <1>3, <1>4, <1>5, <1>6, <1>7 DEF IrNext, LoopStep, DudlcStep

LEMMA CommandInvariant == IrSpec => []CmdInv
BY CommandInitInv, CommandInvStep, PTL DEF IrSpec

(***************************************************************************)
(* A request that finds the connection gone is the last of its line        *)
(* (command.c:33-38): what is left of a list of ids is not applied to a    *)
(* session opened anew, whatever the command and however long the list.    *)
(***************************************************************************)
THEOREM TheCutEndsIt == IrSpec => []CutEndsCommand
<1>1. CmdInv => CutEndsCommand
  BY DEF CmdInv
<1> QED BY <1>1, CommandInvariant, PTL

(***************************************************************************)
(* What fails is told, and only what fails, by every handler of            *)
(* command.c but the two that misread the server's answer.                 *)
(***************************************************************************)
THEOREM AllFailuresTold == IrSpec => []FailuresAreTold
<1>1. CmdInv => FailuresAreTold
  BY DEF CmdInv
<1> QED BY <1>1, CommandInvariant, PTL

(***************************************************************************)
(* cmd_arg_free (command.c:1735-1747) frees all that the arguments of an   *)
(* executed line hold, when none of them is the number 0.                  *)
(***************************************************************************)
THEOREM ArgumentsAreFreed == IrSpec => []FreedWhenAccepted
<1>1. CmdInv => FreedWhenAccepted
  BY DEF CmdInv
<1> QED BY <1>1, CommandInvariant, PTL

(***************************************************************************)
(* The parsers.  The lists they read, turn by turn, stay in the text, and  *)
(* those that the grammar allows are read for what they mean.              *)
(***************************************************************************)
\* Which lexemes are not which.
LEMMA Lexemes ==
  /\ \A x \in Alnum : x \notin {NUL, " ", ",", "-", "+", "/", "*", "."}
  /\ \A x \in Words : x \in Alnum /\ x \notin DOMAIN Value
  /\ \A x \in DOMAIN Value : x \in Alnum /\ x \notin Words /\ Value[x] \in Int
  /\ "c" \in Words /\ "c" \notin DOMAIN Value
  /\ NUL \notin {" ", ",", "-", "+", "/", "*", "."}
  /\ NUL \notin Blank /\ NUL \notin Words /\ NUL \notin DOMAIN Value
<1>1. \A x \in Alnum : x \notin {NUL, " ", ",", "-", "+", "/", "*", "."}
  BY LexemesAssumption DEF Punctuation
<1>2. /\ \A x \in Words : x \in Alnum /\ x \notin DOMAIN Value
      /\ \A x \in DOMAIN Value : x \in Alnum /\ x \notin Words /\ Value[x] \in Int
      /\ "c" \in Words
  BY LexemesAssumption DEF Alnum
<1>3. NUL \notin {" ", ",", "-", "+", "/", "*", "."} /\ NUL \notin Blank
  BY DEF NUL, Blank
<1> QED BY <1>1, <1>2, <1>3

\* The first place from i on that holds none of C.
LEMMA Spans ==
  ASSUME NEW t, Len(t) \in Nat, NEW i \in 1 .. Len(t) + 1, NEW C, NUL \notin C
  PROVE  /\ Span(t, i, C) \in i .. Len(t) + 1
         /\ \A k \in i .. Span(t, i, C) - 1 : t[k] \in C
         /\ At(t, Span(t, i, C)) \notin C
         /\ At(t, i) \notin C => Span(t, i, C) = i
<1> DEFINE T == {j \in i .. Len(t) + 1 : At(t, j) \notin C}
           P(j) == (\A k \in i .. j - 1 : t[k] \in C) /\ At(t, j) \notin C
           s == CHOOSE j \in i .. Len(t) + 1 : P(j)
<1>1. T \subseteq Nat /\ Len(t) + 1 \in T
  BY DEF At
<1>2. PICK j \in T : \A m \in T : j <= m
  <2> HIDE DEF T
  <2> QED BY <1>1, LeastNat
<1>3. j \in i .. Len(t) + 1 /\ P(j)
  <2>1. j \in i .. Len(t) + 1 /\ At(t, j) \notin C
    BY <1>2
  <2>2. ASSUME NEW k \in i .. j - 1 PROVE t[k] \in C
    <3>1. k \in i .. Len(t) + 1 /\ ~(j <= k) /\ k <= Len(t)
      BY <2>1
    <3>2. k \notin T
      <4> HIDE DEF T
      <4> QED BY <1>2, <3>1
    <3> QED BY <3>1, <3>2 DEF At
  <2> QED BY <2>1, <2>2
<1>4. s \in i .. Len(t) + 1 /\ P(s)
  <2> HIDE DEF P
  <2> QED BY <1>3
<1>5. s = Span(t, i, C)
  BY DEF Span
<1> HIDE DEF s
<1>6. At(t, i) \notin C => s = i
  <2> SUFFICES ASSUME At(t, i) \notin C, s # i PROVE FALSE
    OBVIOUS
  <2>1. i \in i .. s - 1 /\ i <= Len(t)
    BY <1>4
  <2> QED BY <1>4, <2>1 DEF At
<1> QED BY <1>4, <1>5, <1>6

(***************************************************************************)
(* Numbers.                                                                *)
(***************************************************************************)
LEMMA StrtoulStays ==
  ASSUME NEW t, Len(t) \in Nat, NEW i \in 1 .. Len(t) + 1
  PROVE  /\ Strtoul(t, i) = Parsed(Strtoul(t, i).val, Strtoul(t, i).end)
         /\ Strtoul(t, i).val \in Int /\ Strtoul(t, i).end \in i .. Len(t) + 1
<1> DEFINE s == Span(t, i, Blank)
           n == IF At(t, s) \in {"-", "+"} THEN s + 1 ELSE s
<1>1. s \in i .. Len(t) + 1
  BY Spans, Lexemes
<1>2. Strtoul(t, i) = IF At(t, n) \notin DOMAIN Value THEN Parsed(0, i)
                      ELSE Parsed(IF At(t, s) = "-" THEN -Value[t[n]] ELSE Value[t[n]], n + 1)
  BY DEF Strtoul
<1> HIDE DEF s
<1>3. n \in Nat /\ i <= n
  BY <1>1
<1> HIDE DEF n
<1>4. CASE At(t, n) \notin DOMAIN Value
  BY <1>2, <1>4 DEF Parsed
<1>5. CASE At(t, n) \in DOMAIN Value
  <2>1. n <= Len(t)
    BY <1>5, Lexemes DEF At
  <2>2. Value[t[n]] \in Int
    BY <1>5, <2>1, Lexemes DEF At
  <2>3. PICK v \in Int : Strtoul(t, i) = Parsed(v, n + 1)
    BY <1>2, <1>5, <2>2
  <2> QED BY <1>3, <2>1, <2>3 DEF Parsed
<1> QED BY <1>4, <1>5

LEMMA StrtoulReads ==
  ASSUME NEW t, Len(t) \in Nat, NEW i \in 1 .. Len(t) + 1
  PROVE  /\ At(t, i) \in DOMAIN Value => i <= Len(t) /\ Strtoul(t, i) = Parsed(Value[t[i]], i + 1)
         /\ At(t, i) \notin DOMAIN Value \cup {" ", "-", "+"} => Strtoul(t, i) = Parsed(0, i)
<1> DEFINE s == Span(t, i, Blank)
           n == IF At(t, s) \in {"-", "+"} THEN s + 1 ELSE s
<1>1. At(t, i) # " " => s = i
  BY Spans, Lexemes DEF Blank
<1>2. Strtoul(t, i) = IF At(t, n) \notin DOMAIN Value THEN Parsed(0, i)
                      ELSE Parsed(IF At(t, s) = "-" THEN -Value[t[n]] ELSE Value[t[n]], n + 1)
  BY DEF Strtoul
<1>3. CASE At(t, i) \in DOMAIN Value
  <2>1. At(t, i) \notin {" ", "-", "+"} /\ i <= Len(t)
    BY <1>3, Lexemes DEF At
  <2> HIDE DEF s
  <2>2. n = i /\ s = i
    BY <1>1, <2>1
  <2> HIDE DEF n
  <2> QED BY <1>2, <1>3, <2>1, <2>2
<1>4. CASE At(t, i) \notin DOMAIN Value \cup {" ", "-", "+"}
  <2> HIDE DEF s
  <2>2. n = i /\ s = i
    BY <1>1, <1>4
  <2> HIDE DEF n
  <2> QED BY <1>2, <1>4, <2>2
<1> QED BY <1>3, <1>4, Lexemes

(***************************************************************************)
(* Lists.                                                                  *)
(***************************************************************************)
ListsFrom(t, in) == [val : Seq(Int), end : in .. Len(t) + 1, asked : SUBSET (Int \X Int)]

LEMMA OneSeq ==
  ASSUME NEW S, NEW a \in S PROVE <<a>> \in Seq(S) /\ Len(<<a>>) = 1 /\ <<a>>[1] = a
OBVIOUS

LEMMA Single == ASSUME NEW x \in Int PROVE <<x>> \in Seq(Int)
OBVIOUS

\* Each turn reads ids, stays in the text, and goes on if it is not the last.
TurnFits(turn, t, in, i) ==
  turn.read \in ListsFrom(t, in) /\ (~turn.last => turn.read.end \in i + 1 .. Len(t) + 1)
TurnsFit(turn, t, in) == \A i \in in .. Len(t) + 1 : TurnFits(turn[i], t, in, i)

Longer(now, rest) == [rest EXCEPT !.val = now.val \o @, !.asked = now.asked \cup @]
ListRuns(turn, t, in, list) ==
  /\ Listed(turn, t, in) = list[in]
  /\ \A i \in in .. Len(t) + 1 :
       /\ list[i] \in ListsFrom(t, in)
       /\ list[i] = IF turn[i].last THEN turn[i].read
                    ELSE Longer(turn[i].read, list[turn[i].read.end])

Extends(list, now, rest) == list.val = now.val \o rest.val /\ list.end = rest.end

LEMMA LongerIs ==
  ASSUME NEW t, NEW in, NEW now \in ListsFrom(t, in), NEW rest \in ListsFrom(t, in)
  PROVE  /\ Longer(now, rest) \in ListsFrom(t, in)
         /\ Extends(Longer(now, rest), now, rest)
<1>1. /\ now.val \in Seq(Int) /\ now.asked \in SUBSET (Int \X Int) /\ rest.val \in Seq(Int)
      /\ rest.asked \in SUBSET (Int \X Int) /\ rest.end \in in .. Len(t) + 1
      /\ rest = [val |-> rest.val, end |-> rest.end, asked |-> rest.asked]
  BY DEF ListsFrom
<1>2. Longer(now, rest) =
        [val |-> now.val \o rest.val, end |-> rest.end, asked |-> now.asked \cup rest.asked]
  <2>1. PICK v, e, a : rest = [val |-> v, end |-> e, asked |-> a]
    BY <1>1
  <2>2. rest.val = v /\ rest.end = e /\ rest.asked = a
    BY <2>1
  <2>3. PICK w : w = now.val \o rest.val
    OBVIOUS
  <2>4. PICK r : r = [rest EXCEPT !.val = w]
    OBVIOUS
  <2>5. r = [val |-> w, end |-> e, asked |-> a]
    BY <2>1, <2>4
  <2>6. PICK b : b = now.asked \cup r.asked
    OBVIOUS
  <2>7. [r EXCEPT !.asked = b] = [val |-> w, end |-> e, asked |-> b] /\ b = now.asked \cup a
    BY <2>5, <2>6
  <2> QED BY <2>2, <2>3, <2>4, <2>6, <2>7 DEF Longer
<1>3. now.val \o rest.val \in Seq(Int)
  BY <1>1, ConcatProperties
<1> QED BY <1>1, <1>2, <1>3 DEF ListsFrom, Extends

LEMMA ListedIs ==
  ASSUME NEW t, Len(t) \in Nat, NEW in \in 1 .. Len(t) + 1, NEW turn, TurnsFit(turn, t, in)
  PROVE  \E list : ListRuns(turn, t, in, list)
<1> DEFINE hi == Len(t) + 1
           D == in .. hi
           W == ListsFrom(t, in)
           Body(l, i) == IF turn[i].last THEN turn[i].read
                         ELSE Longer(turn[i].read, l[turn[i].read.end])
           Eq(l) == l = [i \in D |-> Body(l, i)]
           c == CHOOSE l : Eq(l)
           stop == [i \in D |-> turn[i].last]
           base == [i \in D |-> turn[i].read]
           next == [i \in D |-> turn[i].read.end]
           comb == [i \in D |-> [x \in W |-> Longer(turn[i].read, x)]]
<1>1. hi \in Nat /\ in \in Nat /\ in <= hi /\ in \in D /\ \A i \in D : i \in Nat
  OBVIOUS
<1>2. \A i \in D : /\ turn[i].read \in W
                   /\ ~turn[i].last => turn[i].read.end \in i + 1 .. hi
  BY DEF TurnsFit, TurnFits
<1>3. \A i \in D : \A x \in W : Longer(turn[i].read, x) \in W
  BY <1>2, LongerIs
<1>4. \A i \in D : i + 1 .. hi \subseteq D
  BY <1>1
<1>5. /\ \A i \in D : stop[i] = turn[i].last /\ base[i] = turn[i].read
                      /\ next[i] = turn[i].read.end
      /\ \A i \in D : \A x \in W : comb[i][x] = Longer(turn[i].read, x)
  OBVIOUS
<1>7. Listed(turn, t, in) = c[in]
  BY DEF Listed, Longer
<1> HIDE DEF W, c, stop, base, next, comb
<1>8. StepsDown(in, hi, W, stop, base, comb, next)
  BY <1>2, <1>3, <1>5 DEF StepsDown
<1>9. PICK g \in [D -> W] : Down(in, hi, stop, base, comb, next, g)
  <2>1. RunsDown(in, hi, W, stop, base, comb, next)
    <3> HIDE DEF hi
    <3> QED BY <1>1, <1>8, IteratesDown
  <2> QED BY <2>1 DEF RunsDown
<1>10. ASSUME NEW i \in D PROVE g[i] = Body(g, i)
  <2>1. g[i] = IF stop[i] THEN base[i] ELSE comb[i][g[next[i]]]
    BY <1>9 DEF Down
  <2>2. ~turn[i].last => g[turn[i].read.end] \in W
    BY <1>2, <1>4
  <2> QED BY <1>5, <2>1, <2>2
<1>11. Eq(g)
  <2> HIDE DEF Body
  <2> QED BY <1>10
<1>12. Eq(c)
  <2> HIDE DEF Eq
  <2> QED BY <1>11 DEF c
<1>13. ASSUME NEW i \in D PROVE c[i] = Body(c, i)
  <2> HIDE DEF Body
  <2> QED BY <1>12
<1>14. \A i \in D : c[i] = g[i]
  <2>1. AlikeDown(in, hi, next, g, c)
    <3> SUFFICES ASSUME NEW i \in D
                 PROVE  \/ c[i] = g[i]
                        \/ next[i] \in i + 1 .. hi /\ (c[next[i]] = g[next[i]] => c[i] = g[i])
      BY DEF AlikeDown
    <3>1. c[i] = Body(c, i) /\ g[i] = Body(g, i)
      BY <1>10, <1>13
    <3> QED BY <1>2, <1>5, <3>1
  <2>2. in \in Nat /\ hi \in Nat
    BY <1>1
  <2> HIDE DEF hi
  <2>3. Alike(in, hi, g, c)
    BY <2>1, <2>2, SameDown
  <2> QED BY <2>3 DEF Alike
<1>15. \A i \in D : c[i] \in W
  BY <1>9, <1>14
<1>6. ListRuns(turn, t, in, c)
  BY <1>7, <1>13, <1>15 DEF ListRuns, W
<1> QED BY <1>6

LEMMA ListedStays ==
  ASSUME NEW t, Len(t) \in Nat, NEW in \in 1 .. Len(t) + 1, NEW turn, TurnsFit(turn, t, in)
  PROVE  Listed(turn, t, in) \in ListsFrom(t, in)
<1>1. PICK list : ListRuns(turn, t, in, list)
  BY ListedIs
<1>2. in \in in .. Len(t) + 1
  OBVIOUS
<1> QED BY <1>1, <1>2 DEF ListRuns

\* Turns at places that follow each other read these ids, the last ends at e;
\* it may have another follow it that reads nothing.
ReadsOn(turn, t, in, ids, places, e) ==
  /\ \A k \in 1 .. Len(ids) : places[k] \in in .. Len(t) + 1 /\ turn[places[k]].read.val = ids[k]
  /\ places[1] = in
  /\ \A k \in 1 .. Len(ids) - 1 :
       ~turn[places[k]].last /\ turn[places[k]].read.end = places[k + 1]
  /\ turn[places[Len(ids)]].read.end = e
  /\ ~turn[places[Len(ids)]].last => turn[e] = Ending(Parsed(<<>>, e))

LEMMA Associative == \A x, y, z \in Seq(Int) : (x \o y) \o z = x \o (y \o z)
<1> SUFFICES ASSUME NEW x \in Seq(Int), NEW y \in Seq(Int), NEW z \in Seq(Int)
             PROVE  (x \o y) \o z = x \o (y \o z)
  OBVIOUS
<1> QED BY ConcatAssociative

LEMMA ReadInTurns ==
  ASSUME NEW t, Len(t) \in Nat, NEW in \in 1 .. Len(t) + 1, NEW turn, TurnsFit(turn, t, in),
         NEW ids \in Seq(Seq(Int)), ids # <<>>, NEW places, NEW e \in in .. Len(t) + 1,
         ReadsOn(turn, t, in, ids, places, e)
  PROVE  Listed(turn, t, in).val = FlattenSeq(ids) /\ Listed(turn, t, in).end = e
<1> DEFINE n == Len(ids)
           D == in .. Len(t) + 1
<1>1. PICK list : ListRuns(turn, t, in, list)
  BY ListedIs
<1>2. n \in Nat \ {0} /\ \A k \in 1 .. n : ids[k] \in Seq(Int)
  BY LenProperties, ElementOfSeq, EmptySeq
<1>3. PICK f \in [0 .. n -> Seq(Int)] :
        f[0] = <<>> /\ f[n] = FlattenSeq(ids) /\ \A k \in 1 .. n : f[k] = f[k - 1] \o ids[k]
  <2>1. PrefixRuns(Int, ids, FlattenSeq(ids))
    BY FlattenRuns
  <2> QED BY <2>1 DEF PrefixRuns
<1>4. ASSUME NEW p \in D
      PROVE  /\ list[p].val \in Seq(Int)
             /\ turn[p].last => list[p] = turn[p].read
             /\ ~turn[p].last => /\ turn[p].read.end \in D
                                 /\ list[p].val = turn[p].read.val \o list[turn[p].read.end].val
                                 /\ list[p].end = list[turn[p].read.end].end
  <2>1. list[p] \in ListsFrom(t, in) /\ turn[p].read \in ListsFrom(t, in)
    BY <1>1 DEF ListRuns, TurnsFit, TurnFits
  <2>2. turn[p].last => list[p] = turn[p].read
    BY <1>1 DEF ListRuns
  <2>3. ASSUME ~turn[p].last
        PROVE  /\ turn[p].read.end \in D
               /\ list[p].val = turn[p].read.val \o list[turn[p].read.end].val
               /\ list[p].end = list[turn[p].read.end].end
    <3>1. turn[p].read.end \in p + 1 .. Len(t) + 1
      BY <2>3 DEF TurnsFit, TurnFits
    <3>2. turn[p].read.end \in D
      BY <3>1
    <3>3. list[turn[p].read.end] \in ListsFrom(t, in)
      BY <1>1, <3>2 DEF ListRuns
    <3>4. list[p] = Longer(turn[p].read, list[turn[p].read.end])
      BY <1>1, <2>3 DEF ListRuns
    <3>5. PICK now, rest : now = turn[p].read /\ rest = list[turn[p].read.end]
      OBVIOUS
    <3>6. now \in ListsFrom(t, in) /\ rest \in ListsFrom(t, in)
      BY <2>1, <3>3, <3>5
    <3>7. Extends(Longer(now, rest), now, rest)
      BY <3>6, LongerIs
    <3> QED BY <3>2, <3>4, <3>5, <3>7 DEF Extends
  <2>4. list[p].val \in Seq(Int)
    BY <2>1 DEF ListsFrom
  <2> QED BY <2>2, <2>3, <2>4
<1>5. Listed(turn, t, in) = list[in]
  BY <1>1 DEF ListRuns
<1>6. \A k \in 1 .. n : places[k] \in D /\ turn[places[k]].read.val = ids[k]
  BY DEF ReadsOn
<1> DEFINE T == {k \in 0 .. n - 1 : /\ list[in].val = f[k] \o list[places[k + 1]].val
                                     /\ list[in].end = list[places[k + 1]].end}
<1>7. 0 \in T
  <2>1. places[1] = in /\ 0 + 1 = 1 /\ 0 \in 0 .. n - 1 /\ in \in D
    BY <1>2 DEF ReadsOn
  <2>2. f[0] \o list[in].val = list[in].val
    BY <1>3, <1>4, <2>1, ConcatEmptySeq
  <2> QED BY <2>1, <2>2
<1>8. ASSUME NEW k \in 0 .. (n - 1) - 1, k \in T PROVE k + 1 \in T
  <2>1. /\ k + 1 \in 0 .. n - 1 /\ k + 1 \in 1 .. n - 1 /\ k + 1 \in 1 .. n /\ (k + 1) - 1 = k
        /\ k \in 0 .. n
    BY <1>2
  <2>2. PICK p, q : p = places[k + 1] /\ q = places[(k + 1) + 1]
    OBVIOUS
  <2>3. p \in D /\ ~turn[p].last /\ turn[p].read.end = q /\ turn[p].read.val = ids[k + 1]
    BY <1>6, <2>1, <2>2 DEF ReadsOn
  <2>4. q \in D /\ list[p].val = ids[k + 1] \o list[q].val /\ list[p].end = list[q].end
    BY <1>4, <2>3
  <2>5. PICK u, v, w : /\ u = f[k] /\ v = ids[k + 1] /\ w = list[q].val
                       /\ u \in Seq(Int) /\ v \in Seq(Int) /\ w \in Seq(Int)
    BY <1>2, <1>3, <1>4, <2>1, <2>4
  <2>6. u \o (v \o w) = (u \o v) \o w
    <3>1. u \in Seq(Int) /\ v \in Seq(Int) /\ w \in Seq(Int)
      BY <2>5
    <3> QED BY <3>1, Associative
  <2>7. f[k + 1] = u \o v
    BY <1>3, <2>1, <2>5
  <2>8. list[in].val = u \o list[p].val /\ list[in].end = list[p].end
    BY <1>8, <2>2, <2>5
  <2> QED BY <2>1, <2>2, <2>4, <2>5, <2>6, <2>7, <2>8
<1>9. list[in].val = f[n - 1] \o list[places[n]].val /\ list[in].end = list[places[n]].end
  <2>1. \A k \in 0 .. (n - 1) - 1 : k \in T => k + 1 \in T
    BY <1>8
  <2>2. n - 1 \in Nat /\ n - 1 \in 0 .. n - 1 /\ (n - 1) + 1 = n
    BY <1>2
  <2> HIDE DEF T
  <2>3. \A k \in 0 .. n - 1 : k \in T
    BY <1>7, <2>1, <2>2, UpTo
  <2>4. n - 1 \in T
    BY <2>2, <2>3
  <2> QED BY <2>2, <2>4 DEF T
<1>10. PICK p : p = places[n] /\ p \in D /\ turn[p].read.val = ids[n] /\ turn[p].read.end = e
  BY <1>2, <1>6 DEF ReadsOn
<1>11. f[n] = f[n - 1] \o ids[n]
  <2>1. n \in 1 .. n
    BY <1>2
  <2> QED BY <1>3, <2>1
<1>12. CASE turn[p].last
  <2>1. list[p].val = ids[n] /\ list[p].end = e
    BY <1>4, <1>10, <1>12
  <2> QED BY <1>3, <1>5, <1>9, <1>10, <1>11, <2>1
<1>13. CASE ~turn[p].last
  <2>1. turn[e] = Ending(Parsed(<<>>, e))
    BY <1>10, <1>13 DEF ReadsOn
  <2>2. turn[e].last /\ turn[e].read.val = <<>> /\ turn[e].read.end = e
    BY <2>1 DEF Ending, Parsed
  <2>3. list[e].val = <<>> /\ list[e].end = e
    BY <1>4, <2>2
  <2>4. list[p].val = ids[n] /\ list[p].end = e
    <3>1. list[p].val = ids[n] \o <<>> /\ list[p].end = e
      BY <1>4, <1>10, <1>13, <2>3
    <3>2. n \in 1 .. n
      BY <1>2
    <3>3. ids[n] \in Seq(Int)
      BY <1>2, <3>2
    <3> QED BY <3>1, <3>3, ConcatEmptySeq
  <2> QED BY <1>3, <1>5, <1>9, <1>10, <1>11, <2>4
<1> QED BY <1>12, <1>13

(***************************************************************************)
(* What the turns of each list are.                                        *)
(***************************************************************************)
LEMMA ReadNone ==
  ASSUME NEW t, Len(t) \in Nat, NEW in, NEW e \in in .. Len(t) + 1
  PROVE  /\ Parsed(<<>>, e) \in ListsFrom(t, in)
         /\ Ending(Parsed(<<>>, e)).read = Parsed(<<>>, e) /\ Ending(Parsed(<<>>, e)).last
BY EmptySeq DEF Parsed, ListsFrom, Ending

LEMMA GoingFits ==
  ASSUME NEW t, Len(t) \in Nat, NEW in \in 1 .. Len(t) + 1, NEW i \in in .. Len(t) + 1,
         NEW ids \in Seq(Int), NEW e \in i + 1 .. Len(t) + 1, NEW asked \in SUBSET (Int \X Int)
  PROVE  /\ TurnFits(Going(ids, e, asked), t, in, i)
         /\ Going(ids, e, asked).read.val = ids /\ Going(ids, e, asked).read.end = e
         /\ ~Going(ids, e, asked).last
<1>1. e \in in .. Len(t) + 1
  OBVIOUS
<1> QED BY <1>1 DEF TurnFits, Going, ListsFrom

LEMMA EndingFits ==
  ASSUME NEW t, NEW in, NEW i, NEW read \in ListsFrom(t, in)
  PROVE  TurnFits(Ending(read), t, in, i) /\ Ending(read).read = read /\ Ending(read).last
BY DEF TurnFits, Ending

LEMMA Intervals ==
  ASSUME NEW a \in Int, NEW b \in Int, a < b
  PROVE  /\ Interval(a, b) \in Seq(Int) /\ Interval(a, b) = Between(a, b)
<1>1. b - a + 1 \in Nat
  OBVIOUS
<1>2. \A k \in 1 .. b - a + 1 : a + k - 1 \in Int
  OBVIOUS
<1> DEFINE n == b - a + 1
           f == [k \in 1 .. n |-> a + k - 1]
<1>3. f \in [1 .. n -> Int]
  BY <1>2
<1>4. f \in Seq(Int)
  <2> HIDE DEF f, n
  <2>1. n \in Nat
    BY <1>1 DEF n
  <2> QED BY <1>3, <2>1, IsASeq
<1>5. Interval(a, b) = f /\ Between(a, b) = f
  BY DEF Interval, Between
<1> QED BY <1>4, <1>5

LEMMA ItemIs ==
  ASSUME NEW t, Len(t) \in Nat, NEW i \in 1 .. Len(t) + 1, At(t, i) \in DOMAIN Value
  PROVE  LET from == Value[t[i]]
             to == Strtoul(t, i + 2)
             next(e) == IF At(t, e) = "," THEN e + 1 ELSE e
         IN /\ i <= Len(t) /\ from \in Int
            /\ idl_item(t, i) =
                 IF At(t, i + 1) # "-" THEN [ids |-> <<from>>, end |-> next(i + 1)]
                 ELSE IF to.end = i + 2 \/ to.val <= from THEN [ids |-> <<>>, end |-> 0]
                 ELSE [ids |-> Interval(from, to.val), end |-> next(to.end)]
<1>1. i <= Len(t) /\ Strtoul(t, i) = Parsed(Value[t[i]], i + 1)
  BY StrtoulReads
<1>2. Value[t[i]] \in Int
  BY <1>1, Lexemes DEF At
<1>3. Strtoul(t, i).val = Value[t[i]] /\ Strtoul(t, i).end = i + 1 /\ (i + 1) + 1 = i + 2
  BY <1>1 DEF Parsed
<1> QED BY <1>1, <1>2, <1>3 DEF idl_item

\* At a lexeme the parsers look for, the text has not ended.
Marks == {" ", ",", "-", "/", "*", ".", "c"} \cup DOMAIN Value
LEMMA Inside ==
  ASSUME NEW t, Len(t) \in Nat, NEW e \in 1 .. Len(t) + 1, At(t, e) \in Marks
  PROVE  e <= Len(t) /\ e \in 1 .. Len(t) /\ At(t, e) = t[e] /\ e + 1 \in 1 .. Len(t) + 1
<1>1. NUL \notin Marks
  BY Lexemes DEF Marks
<1>2. e <= Len(t)
  BY <1>1 DEF At
<1> QED BY <1>2 DEF At

LEMMA ItemStays ==
  ASSUME NEW t, Len(t) \in Nat, NEW i \in 1 .. Len(t) + 1, At(t, i) \in DOMAIN Value
  PROVE  /\ idl_item(t, i).ids \in Seq(Int)
         /\ idl_item(t, i).end = 0 \/ idl_item(t, i).end \in i + 1 .. Len(t) + 1
<1> DEFINE v == Value[t[i]]
           to == Strtoul(t, i + 2)
           next(e) == IF At(t, e) = "," THEN e + 1 ELSE e
<1>1. /\ i <= Len(t) /\ v \in Int
      /\ idl_item(t, i) =
           IF At(t, i + 1) # "-" THEN [ids |-> <<v>>, end |-> next(i + 1)]
           ELSE IF to.end = i + 2 \/ to.val <= v THEN [ids |-> <<>>, end |-> 0]
           ELSE [ids |-> Interval(v, to.val), end |-> next(to.end)]
  BY ItemIs
<1>2. ASSUME NEW e \in i + 1 .. Len(t) + 1 PROVE next(e) \in i + 1 .. Len(t) + 1
  <2>1. CASE At(t, e) = ","
    <3>1. e \in 1 .. Len(t) + 1
      OBVIOUS
    <3>2. e <= Len(t)
      BY <2>1, <3>1, Inside DEF Marks
    <3>3. next(e) = e + 1
      BY <2>1
    <3> HIDE DEF next
    <3> QED BY <3>2, <3>3
  <2>2. CASE At(t, e) # ","
    BY <2>2
  <2> QED BY <2>1, <2>2
<1> HIDE DEF v, to, next
<1>6. CASE At(t, i + 1) # "-"
  <2>1. i + 1 \in i + 1 .. Len(t) + 1
    BY <1>1
  <2>2. next(i + 1) \in i + 1 .. Len(t) + 1
    BY <1>2, <2>1
  <2> QED BY <1>1, <1>6, <2>2, Single
<1>7. CASE At(t, i + 1) = "-"
  <2>1. i + 2 \in 1 .. Len(t) + 1
    <3>1. i + 1 \in 1 .. Len(t) + 1
      BY <1>1
    <3>2. (i + 1) + 1 \in 1 .. Len(t) + 1
      BY <1>7, <3>1, Inside DEF Marks
    <3> QED BY <3>2
  <2>2. to.val \in Int /\ to.end \in i + 2 .. Len(t) + 1
    BY <2>1, StrtoulStays DEF to
  <2>3. CASE to.end = i + 2 \/ to.val <= v
    BY <1>1, <1>7, <2>3, EmptySeq
  <2>4. CASE ~(to.end = i + 2 \/ to.val <= v)
    <3>1. next(to.end) \in i + 1 .. Len(t) + 1
      <4>1. to.end \in i + 1 .. Len(t) + 1
        BY <2>2
      <4> QED BY <1>2, <4>1
    <3>2. Interval(v, to.val) \in Seq(Int)
      <4>1. v < to.val
        BY <1>1, <2>2, <2>4
      <4> QED BY <1>1, <2>2, <4>1, Intervals
    <3> QED BY <1>1, <1>7, <2>4, <3>1, <3>2
  <2> QED BY <2>3, <2>4
<1> QED BY <1>6, <1>7

LEMMA ListTurnFits ==
  ASSUME NEW t, Len(t) \in Nat, NEW in \in 1 .. Len(t) + 1, NEW i \in in .. Len(t) + 1
  PROVE  TurnFits(list_turn(t, in, i), t, in, i)
<1>1. in \in in .. Len(t) + 1 /\ i \in 1 .. Len(t) + 1
  OBVIOUS
<1>2. CASE At(t, i) \notin DOMAIN Value
  BY <1>2, ReadNone, EndingFits DEF list_turn
<1>3. CASE At(t, i) \in DOMAIN Value /\ idl_item(t, i).end = 0
  <2>1. list_turn(t, in, i) = Ending(Parsed(<<>>, in))
    BY <1>3 DEF list_turn
  <2> QED BY <1>1, <2>1, ReadNone, EndingFits
<1>4. CASE At(t, i) \in DOMAIN Value /\ idl_item(t, i).end # 0
  <2>1. idl_item(t, i).ids \in Seq(Int) /\ idl_item(t, i).end \in i + 1 .. Len(t) + 1
    BY <1>1, <1>4, ItemStays
  <2>2. list_turn(t, in, i) = Going(idl_item(t, i).ids, idl_item(t, i).end, {})
    BY <1>4 DEF list_turn
  <2>3. {} \in SUBSET (Int \X Int)
    OBVIOUS
  <2> QED BY <2>1, <2>2, <2>3, GoingFits
<1> QED BY <1>2, <1>3, <1>4

OneFrom(t, i) == [val : Int, end : i .. Len(t) + 1, asked : SUBSET (Int \X Int)]

LEMMA ClistTurnFits ==
  ASSUME NEW t, Len(t) \in Nat, NEW in \in 1 .. Len(t) + 1, NEW i \in in .. Len(t) + 1,
         NEW conv, conv[i] \in OneFrom(t, i)
  PROVE  TurnFits(clist_turn(conv, t, in, i), t, in, i)
<1>1. in \in in .. Len(t) + 1 /\ i \in 1 .. Len(t) + 1 /\ in \in Nat
  OBVIOUS
<1>2. PICK item, v, e, a : /\ item = conv[i] /\ item = [val |-> v, end |-> e, asked |-> a]
                           /\ v \in Int /\ e \in i .. Len(t) + 1 /\ a \in SUBSET (Int \X Int)
  BY DEF OneFrom
<1>3. item.val = v /\ item.end = e /\ item.asked = a
  BY <1>2
<1>4. <<v>> \in Seq(Int) /\ <<>> \in Seq(Int)
  BY <1>2, Single, EmptySeq
<1>5. CASE e = i
  <2>1. PICK r : r = [item EXCEPT !.val = <<>>]
    OBVIOUS
  <2>2. r = [val |-> <<>>, end |-> e, asked |-> a]
    BY <1>2, <2>1
  <2>3. [r EXCEPT !.end = in] = [val |-> <<>>, end |-> in, asked |-> a]
    BY <2>2
  <2>4. clist_turn(conv, t, in, i) = Ending([r EXCEPT !.end = in])
    BY <1>2, <1>3, <1>5, <2>1 DEF clist_turn
  <2>5. [val |-> <<>>, end |-> in, asked |-> a] \in ListsFrom(t, in)
    BY <1>1, <1>2, <1>4 DEF ListsFrom
  <2> QED BY <2>3, <2>4, <2>5, EndingFits
<1>6. CASE e # i /\ At(t, e) # ","
  <2>1. PICK w : w = <<item.val>>
    OBVIOUS
  <2>2. [item EXCEPT !.val = w] = [val |-> w, end |-> e, asked |-> a]
    BY <1>2
  <2>3. clist_turn(conv, t, in, i) = Ending([item EXCEPT !.val = w])
    BY <1>2, <1>3, <1>6, <2>1 DEF clist_turn
  <2>4. e \in in .. Len(t) + 1
    BY <1>2
  <2>5. [val |-> w, end |-> e, asked |-> a] \in ListsFrom(t, in)
    BY <1>2, <1>3, <1>4, <2>1, <2>4 DEF ListsFrom
  <2> QED BY <2>2, <2>3, <2>5, EndingFits
<1>7. CASE e # i /\ At(t, e) = ","
  <2>1. e \in 1 .. Len(t) + 1
    BY <1>2
  <2>2. e <= Len(t)
    BY <1>7, <2>1, Inside DEF Marks
  <2>3. e + 1 \in i + 1 .. Len(t) + 1 /\ <<v>> \in Seq(Int)
    BY <1>2, <1>4, <2>2
  <2>4. clist_turn(conv, t, in, i) = Going(<<v>>, e + 1, a)
    BY <1>2, <1>3, <1>7 DEF clist_turn
  <2>5. TurnFits(Going(<<v>>, e + 1, a), t, in, i)
    BY <1>2, <2>3, GoingFits
  <2> QED BY <2>4, <2>5
<1> QED BY <1>5, <1>6, <1>7

LEMMA CatalogIs ==
  /\ \A k \in DOMAIN Tracks : Tracks[k].id \in Nat /\ Tracks[k].album \in Nat /\ Tracks[k].nr \in Nat
  /\ Current.id \in Nat /\ Current.album \in Nat
  /\ \A x \in DOMAIN TagId : TagId[x] \in Int
  /\ \A x \in DOMAIN FilterId : FilterId[x] \in Int
<1>1. \A k \in DOMAIN Tracks : Tracks[k] \in [id : Nat, album : Nat, nr : Nat]
  BY CatalogAssumption, ElementOfSeq, LenProperties
<1>2. Current \in [id : Nat, album : Nat, nr : Nat]
  BY <1>1, CatalogAssumption
<1> QED BY <1>1, <1>2, CatalogAssumption

LEMMA OrderedIds == ASSUME NEW S PROVE InOrder(S) \in Seq(Int)
<1> DEFINE seqs == [k \in DOMAIN Tracks |-> IF k \in S THEN <<Tracks[k].id>> ELSE <<>>]
<1>1. ASSUME NEW k \in DOMAIN Tracks PROVE seqs[k] \in Seq(Int)
  <2>1. Tracks[k].id \in Int
    BY CatalogIs
  <2> QED BY <2>1, EmptySeq, Single
<1>2. PICK n \in Nat : DOMAIN Tracks = 1 .. n
  BY CatalogAssumption, LenProperties
<1>3. seqs \in [1 .. n -> Seq(Int)]
  BY <1>1, <1>2
<1>4. InOrder(S) = FlattenSeq(seqs)
  BY DEF InOrder
<1> HIDE DEF seqs
<1>5. seqs \in Seq(Seq(Int))
  BY <1>2, <1>3, IsASeq
<1> QED BY <1>4, <1>5, Flattened

LEMMA AlbumIds ==
  ASSUME NEW album, NEW first, NEW last PROVE idl_addalbum(album, first, last) \in Seq(Int)
BY OrderedIds DEF idl_addalbum

LEMMA TrackIs == ASSUME NEW album, NEW nr PROVE track2id(album, nr) \in Int /\ track2id(album, nr) >= -1
<1> DEFINE found == {k \in DOMAIN Tracks : Tracks[k].album = album /\ Tracks[k].nr = nr}
<1>1. \A k \in found : Tracks[k].id \in Nat
  BY CatalogIs
<1>2. track2id(album, nr) = IF found = {} THEN -1 ELSE Tracks[CHOOSE k \in found : TRUE].id
  BY DEF track2id
<1> HIDE DEF found
<1>3. CASE found = {}
  BY <1>2, <1>3
<1>4. CASE found # {}
  <2>1. (CHOOSE k \in found : TRUE) \in found
    BY <1>4
  <2>2. PICK x \in Nat : track2id(album, nr) = x
    BY <1>1, <1>2, <1>4, <2>1
  <2> QED BY <2>2
<1> QED BY <1>3, <1>4

TrackItems(t, i) == [val : Seq(Int), end : {0} \cup (i .. Len(t) + 1), asked : SUBSET (Int \X Int)]
TrackItemFits(t, i, r) == r \in TrackItems(t, i) /\ (r.end = 0 => r.val = <<>>)

LEMMA LookedFits ==
  ASSUME NEW t, Len(t) \in Nat, NEW i \in 1 .. Len(t) + 1, NEW v \in Seq(Int),
         NEW e \in i .. Len(t) + 1
  PROVE  TrackItemFits(t, i, Looked(v, e, i)) /\ TrackItemFits(t, i, Parsed(v, e))
<1>1. e # 0 /\ {<<i, 0>>} \in SUBSET (Int \X Int) /\ {} \in SUBSET (Int \X Int)
  OBVIOUS
<1> QED BY <1>1 DEF Looked, Parsed, TrackItemFits, TrackItems

LEMMA ListLookedFits ==
  ASSUME NEW t, Len(t) \in Nat, NEW i \in 1 .. Len(t) + 1, NEW v \in Seq(Int),
         NEW e \in i .. Len(t) + 1, NEW failed
  PROVE  TrackItemFits(t, i, LookedList(v, e, i, failed))
<1> DEFINE cuts == {n \in 0 .. Len(v) : <<i, n>> \in failed}
           m == CHOOSE n \in cuts : TRUE
           w == IF cuts = {} THEN v ELSE SubSeq(v, 1, m)
           a == {i} \X (0 .. Len(v))
<1>1. LookedList(v, e, i, failed) = [val |-> w, end |-> e, asked |-> a]
  BY DEF LookedList
<1>2. Len(v) \in Nat /\ \A k \in 1 .. Len(v) : v[k] \in Int
  BY LenProperties, ElementOfSeq
<1>3. w \in Seq(Int)
  <2>1. CASE cuts = {} BY <2>1
  <2>2. CASE cuts # {}
    <3>1. m \in cuts
      BY <2>2
    <3>2. m \in 0 .. Len(v)
      BY <3>1
    <3> HIDE DEF m
    <3>3. 1 \in Int /\ m \in Int /\ \A k \in 1 .. m : v[k] \in Int
      BY <1>2, <3>2
    <3>4. SubSeq(v, 1, m) \in Seq(Int)
      BY <3>3, SubSeqProperties
    <3> QED BY <2>2, <3>4
  <2> QED BY <2>1, <2>2
<1>4. a \in SUBSET (Int \X Int) /\ e # 0
  BY <1>2
<1> HIDE DEF w, a
<1> QED BY <1>1, <1>3, <1>4 DEF TrackItemFits, TrackItems

LEMMA UnreadFits ==
  ASSUME NEW t, NEW i \in Nat
  PROVE  TrackItemFits(t, i, Unread) /\ TrackItemFits(t, i, [Unread EXCEPT !.asked = {<<i, 0>>}])
<1>1. PICK a : a = {<<i, 0>>}
  OBVIOUS
<1>2. [Unread EXCEPT !.asked = a] = [val |-> <<>>, end |-> 0, asked |-> a]
  BY DEF Unread
<1>3. <<>> \in Seq(Int) /\ a \in SUBSET (Int \X Int) /\ {} \in SUBSET (Int \X Int)
  BY <1>1, EmptySeq
<1> QED BY <1>1, <1>2, <1>3 DEF Unread, TrackItemFits, TrackItems

LEMMA TrackItemStays ==
  ASSUME NEW t, Len(t) \in Nat, NEW i \in 1 .. Len(t) + 1, NEW failed
  PROVE  TrackItemFits(t, i, tracklist_item(t, i, failed))
<1> DEFINE n == Strtoul(t, i)
           cur == n.end = i /\ At(t, i) = "c"
           id == IF cur THEN -1 ELSE n.val
           tok == IF cur THEN i + 1 ELSE n.end
           pos1 == Strtoul(t, tok + 1)
           pos2 == Strtoul(t, pos1.end + 1)
           ids(first, last) == idl_addalbum(id, first, last)
           track == IF <<i, 0>> \in failed THEN -1 ELSE track2id(id, pos1.val)
           r == tracklist_item(t, i, failed)
<1>1. n.val \in Int /\ n.end \in i .. Len(t) + 1
  BY StrtoulStays
<1>2. tok \in i .. Len(t) + 1 /\ id \in Int
  <2>1. At(t, i) = "c" => i <= Len(t)
    BY Inside DEF Marks
  <2> HIDE DEF n
  <2> QED BY <1>1, <2>1
<1>3. \A first, last : ids(first, last) \in Seq(Int)
  BY AlbumIds, EmptySeq
<1>4. r = IF n.end = i /\ ~cur THEN Unread
          ELSE IF At(t, tok) # "/" THEN
            IF id >= 0 THEN Parsed(<<id>>, tok)
            ELSE IF <<i, 0>> \in failed THEN [Unread EXCEPT !.asked = {<<i, 0>>}]
            ELSE Looked(<<Current.id>>, tok, i)
          ELSE IF pos1.end = tok + 1 THEN
            IF At(t, pos1.end) = "*" THEN LookedList(ids(-1, -1), pos1.end + 1, i, failed) ELSE Unread
          ELSE IF At(t, pos1.end) # "-" THEN
            Looked(IF track >= 0 THEN <<track>> ELSE <<>>, pos1.end, i)
          ELSE IF pos2.end # pos1.end + 1 THEN LookedList(ids(pos1.val, pos2.val), pos2.end, i, failed)
          ELSE IF At(t, pos2.end) = "*" THEN LookedList(ids(pos1.val, -1), pos2.end + 1, i, failed) ELSE Unread
  BY DEF tracklist_item
<1>5. track \in Int
  BY TrackIs
<1> SUFFICES TrackItemFits(t, i, r)
  OBVIOUS
<1> HIDE DEF cur, id, tok, ids, track, r
<1>6. i \in Nat /\ <<>> \in Seq(Int) /\ tok \in 1 .. Len(t) + 1
  BY <1>2, EmptySeq
<1>7. CASE n.end = i /\ ~cur
  BY <1>4, <1>6, <1>7, UnreadFits
<1>8. CASE ~(n.end = i /\ ~cur) /\ At(t, tok) # "/"
  <2>1. CASE id >= 0
    <3>1. <<id>> \in Seq(Int) /\ r = Parsed(<<id>>, tok)
      BY <1>2, <1>4, <1>8, <2>1, Single
    <3> QED BY <1>2, <3>1, LookedFits
  <2>2. CASE ~(id >= 0) /\ <<i, 0>> \in failed
    <3>1. r = [Unread EXCEPT !.asked = {<<i, 0>>}]
      BY <1>4, <1>8, <2>2
    <3> QED BY <1>6, <3>1, UnreadFits
  <2>3. CASE ~(id >= 0) /\ <<i, 0>> \notin failed
    <3>1. <<Current.id>> \in Seq(Int)
      <4>1. Current.id \in Int
        BY CatalogIs
      <4> QED BY <4>1, Single
    <3>2. r = Looked(<<Current.id>>, tok, i)
      BY <1>4, <1>8, <2>3
    <3> QED BY <1>2, <3>1, <3>2, LookedFits
  <2> QED BY <2>1, <2>2, <2>3
<1>9. CASE ~(n.end = i /\ ~cur) /\ At(t, tok) = "/"
  <2>1. tok + 1 \in 1 .. Len(t) + 1
    BY <1>6, <1>9, Inside DEF Marks
  <2>2. pos1.val \in Int /\ pos1.end \in tok + 1 .. Len(t) + 1
    BY <2>1, StrtoulStays
  <2> HIDE DEF pos1
  <2>3. pos1.end \in i .. Len(t) + 1 /\ pos1.end \in 1 .. Len(t) + 1
    BY <1>2, <1>6, <2>2
  <2>4. At(t, pos1.end) \in {"*", "-"} => pos1.end + 1 \in i .. Len(t) + 1 /\ pos1.end + 1 \in 1 .. Len(t) + 1
    <3>1. At(t, pos1.end) \in {"*", "-"} => pos1.end + 1 \in 1 .. Len(t) + 1
      BY <2>3, Inside DEF Marks
    <3> QED BY <2>3, <3>1
  <2>5. CASE pos1.end = tok + 1 /\ At(t, pos1.end) = "*"
    <3>1. r = LookedList(ids(-1, -1), pos1.end + 1, i, failed)
      BY <1>4, <1>9, <2>5
    <3>2. ids(-1, -1) \in Seq(Int) /\ pos1.end + 1 \in i .. Len(t) + 1
      BY <1>3, <2>4, <2>5
    <3> QED BY <3>1, <3>2, ListLookedFits
  <2>6. CASE pos1.end = tok + 1 /\ At(t, pos1.end) # "*"
    <3>1. r = Unread
      BY <1>4, <1>9, <2>6
    <3> QED BY <1>6, <3>1, UnreadFits
  <2>7. CASE pos1.end # tok + 1 /\ At(t, pos1.end) # "-"
    <3>1. PICK v : v = IF track >= 0 THEN <<track>> ELSE <<>>
      OBVIOUS
    <3>2. r = Looked(v, pos1.end, i)
      BY <1>4, <1>9, <2>7, <3>1
    <3>3. v \in Seq(Int)
      BY <1>5, <1>6, <3>1, Single
    <3> QED BY <2>3, <3>2, <3>3, LookedFits
  <2>8. CASE pos1.end # tok + 1 /\ At(t, pos1.end) = "-"
    <3>1. pos2.end \in pos1.end + 1 .. Len(t) + 1
      BY <2>4, <2>8, StrtoulStays
    <3> HIDE DEF pos2
    <3>2. pos2.end \in i .. Len(t) + 1 /\ pos2.end \in 1 .. Len(t) + 1
      BY <2>3, <3>1
    <3>3. CASE pos2.end # pos1.end + 1
      <4>1. r = LookedList(ids(pos1.val, pos2.val), pos2.end, i, failed)
        BY <1>4, <1>9, <2>8, <3>3
      <4>2. ids(pos1.val, pos2.val) \in Seq(Int)
        BY <1>3
      <4> QED BY <3>2, <4>1, <4>2, ListLookedFits
    <3>4. CASE pos2.end = pos1.end + 1 /\ At(t, pos2.end) = "*"
      <4>1. r = LookedList(ids(pos1.val, -1), pos2.end + 1, i, failed)
        BY <1>4, <1>9, <2>8, <3>4
      <4>2. ids(pos1.val, -1) \in Seq(Int)
        BY <1>3
      <4>3. pos2.end <= Len(t)
        BY <3>2, <3>4, Inside DEF Marks
      <4>4. pos2.end + 1 \in i .. Len(t) + 1
        BY <3>2, <4>3
      <4> QED BY <4>1, <4>2, <4>4, ListLookedFits
    <3>5. CASE pos2.end = pos1.end + 1 /\ At(t, pos2.end) # "*"
      <4>1. r = Unread
        BY <1>4, <1>9, <2>8, <3>5
      <4> QED BY <1>6, <4>1, UnreadFits
    <3> QED BY <3>3, <3>4, <3>5
  <2> QED BY <2>5, <2>6, <2>7, <2>8
<1> QED BY <1>7, <1>8, <1>9

LEMMA TracklistTurnFits ==
  ASSUME NEW t, Len(t) \in Nat, NEW in \in 1 .. Len(t) + 1, NEW i \in in .. Len(t) + 1, NEW failed
  PROVE  TurnFits(tracklist_turn(t, in, i, failed), t, in, i)
<1>1. in \in in .. Len(t) + 1 /\ i \in 1 .. Len(t) + 1 /\ in \in Nat
  OBVIOUS
<1>2. PICK item : item = tracklist_item(t, i, failed) /\ TrackItemFits(t, i, item)
  BY <1>1, TrackItemStays
<1>3. PICK v, e, a : /\ item = [val |-> v, end |-> e, asked |-> a]
                     /\ v \in Seq(Int) /\ e \in {0} \cup (i .. Len(t) + 1) /\ a \in SUBSET (Int \X Int)
  BY <1>2 DEF TrackItemFits, TrackItems
<1>4. item.val = v /\ item.end = e /\ item.asked = a
  BY <1>3
<1>5. CASE e = 0
  <2>1. [item EXCEPT !.end = in] = [val |-> v, end |-> in, asked |-> a]
    BY <1>3
  <2>2. tracklist_turn(t, in, i, failed) = Ending([item EXCEPT !.end = in])
    BY <1>2, <1>4, <1>5 DEF tracklist_turn
  <2>3. [val |-> v, end |-> in, asked |-> a] \in ListsFrom(t, in)
    BY <1>1, <1>3 DEF ListsFrom
  <2> QED BY <2>1, <2>2, <2>3, EndingFits
<1>6. CASE e # 0 /\ At(t, e) # ","
  <2>1. tracklist_turn(t, in, i, failed) = Ending(item)
    BY <1>2, <1>4, <1>6 DEF tracklist_turn
  <2>2. e \in in .. Len(t) + 1
    <3>1. e \in i .. Len(t) + 1
      BY ONLY <1>3, <1>6
    <3> QED BY <1>1, <3>1
  <2>3. item \in ListsFrom(t, in)
    BY <1>3, <2>2 DEF ListsFrom
  <2> QED BY <2>1, <2>3, EndingFits
<1>7. CASE e # 0 /\ At(t, e) = ","
  <2>1. e \in 1 .. Len(t) + 1 /\ e \in i .. Len(t) + 1
    <3>1. e \in i .. Len(t) + 1
      BY ONLY <1>3, <1>7
    <3> QED BY <1>1, <3>1
  <2>2. e <= Len(t)
    BY <1>7, <2>1, Inside DEF Marks
  <2>3. e + 1 \in i + 1 .. Len(t) + 1
    BY <2>1, <2>2
  <2>4. tracklist_turn(t, in, i, failed) = Going(v, e + 1, a)
    BY <1>2, <1>4, <1>7 DEF tracklist_turn
  <2>5. TurnFits(Going(v, e + 1, a), t, in, i)
    BY <1>3, <2>3, GoingFits
  <2> QED BY <2>4, <2>5
<1> QED BY <1>5, <1>6, <1>7

(***************************************************************************)
(* The parsers read some of the text from where they are, and no more.     *)
(***************************************************************************)
LEMMA WordEnds ==
  ASSUME NEW t, Len(t) \in Nat, NEW i \in 1 .. Len(t) + 1
  PROVE  /\ WordEnd(t, i) \in i .. Len(t) + 1
         /\ \A k \in i .. WordEnd(t, i) - 1 : t[k] # " "
         /\ At(t, WordEnd(t, i)) \in {" ", NUL}
<1> DEFINE C == {t[k] : k \in 1 .. Len(t)} \ {" ", NUL}
           s == Span(t, i, C)
           P(j) == (\A k \in i .. j - 1 : t[k] # " ") /\ At(t, j) \in {" ", NUL}
           e == CHOOSE j \in i .. Len(t) + 1 : P(j)
<1>1. NUL \notin C
  OBVIOUS
<1>2. s \in i .. Len(t) + 1 /\ (\A k \in i .. s - 1 : t[k] \in C) /\ At(t, s) \notin C
  <2> HIDE DEF C
  <2> QED BY <1>1, Spans
<1> HIDE DEF s
<1>3. At(t, s) \in {" ", NUL}
  <2>1. s \in 1 .. Len(t) => t[s] \in C \cup {" ", NUL}
    OBVIOUS
  <2>2. s \in 1 .. Len(t) \/ ~(s <= Len(t))
    <3>1. s \in i .. Len(t) + 1
      BY <1>2
    <3> HIDE DEF C
    <3> QED BY <3>1
  <2> HIDE DEF C
  <2> QED BY <1>2, <2>1, <2>2 DEF At
<1>4. P(s)
  BY <1>2, <1>3
<1>5. e \in i .. Len(t) + 1 /\ P(e)
  <2> HIDE DEF P
  <2> QED BY <1>2, <1>4
<1>6. e = WordEnd(t, i)
  BY DEF WordEnd
<1> HIDE DEF e
<1> QED BY <1>5, <1>6

LEMMA StrtoulOne ==
  ASSUME NEW t, Len(t) \in Nat, NEW i \in 1 .. Len(t) + 1
  PROVE  Strtoul(t, i) \in OneFrom(t, i)
<1>1. PICK v, e : Strtoul(t, i) = Parsed(v, e) /\ v \in Int /\ e \in i .. Len(t) + 1
  BY StrtoulStays
<1> QED BY <1>1 DEF Parsed, OneFrom

LEMMA DoubleOne ==
  ASSUME NEW t, Len(t) \in Nat, NEW i \in 1 .. Len(t) + 1
  PROVE  val_double(t, i) \in OneFrom(t, i)
<1> DEFINE n == Strtoul(t, i)
<1>1. n \in OneFrom(t, i) /\ n.val \in Int /\ n.end \in i .. Len(t) + 1
  BY StrtoulOne, StrtoulStays
<1>2. val_double(t, i) = IF n.end # i /\ At(t, n.end) = "." /\ At(t, n.end + 1) \in DOMAIN Value
                         THEN Parsed(n.val, n.end + 2) ELSE n
  BY DEF val_double
<1> HIDE DEF n
<1>3. CASE At(t, n.end) = "." /\ At(t, n.end + 1) \in DOMAIN Value
  <2>1. n.end \in 1 .. Len(t) + 1
    BY <1>1
  <2>2. n.end + 1 \in 1 .. Len(t) + 1
    BY <1>3, <2>1, Inside DEF Marks
  <2>3. (n.end + 1) + 1 \in 1 .. Len(t) + 1
    BY <1>3, <2>2, Inside DEF Marks
  <2>4. n.end + 2 \in i .. Len(t) + 1
    BY <1>1, <2>3
  <2>5. Parsed(n.val, n.end + 2) \in OneFrom(t, i)
    BY <1>1, <2>4 DEF Parsed, OneFrom
  <2> QED BY <1>1, <1>2, <2>5
<1> QED BY <1>1, <1>2, <1>3

LEMMA LookedOne ==
  ASSUME NEW t, Len(t) \in Nat, NEW i \in 1 .. Len(t) + 1, NEW v \in Int,
         NEW e \in i .. Len(t) + 1
  PROVE  Looked(v, e, i) \in OneFrom(t, i) /\ Parsed(v, e) \in OneFrom(t, i)
<1>1. {<<i, 0>>} \in SUBSET (Int \X Int) /\ {} \in SUBSET (Int \X Int)
  OBVIOUS
<1> QED BY <1>1 DEF Looked, Parsed, OneFrom

LEMMA TrackOne ==
  ASSUME NEW t, Len(t) \in Nat, NEW i \in 1 .. Len(t) + 1, NEW failed
  PROVE  val_track(t, i, failed) \in OneFrom(t, i)
<1> DEFINE a == Strtoul(t, i)
           b == Strtoul(t, a.end + 1)
           v == IF <<i, 0>> \in failed THEN -1 ELSE track2id(a.val, b.val)
           r == val_track(t, i, failed)
<1>1. a \in OneFrom(t, i) /\ a.end \in i .. Len(t) + 1
  BY StrtoulOne, StrtoulStays
<1>2. v \in Int /\ -1 \in Int /\ i \in i .. Len(t) + 1 /\ Current.id \in Int
  BY TrackIs, CatalogIs
<1>3. CASE At(t, i) = "c"
  <2>1. i + 1 \in i .. Len(t) + 1
    <3>1. i <= Len(t)
      BY <1>3, Inside DEF Marks
    <3> QED BY <3>1
  <2>2. r = IF <<i, 0>> \in failed THEN Looked(-1, i, i) ELSE Looked(Current.id, i + 1, i)
    BY <1>3 DEF val_track
  <2> HIDE DEF r
  <2>3. Looked(-1, i, i) \in OneFrom(t, i) /\ Looked(Current.id, i + 1, i) \in OneFrom(t, i)
    BY <1>2, <2>1, LookedOne
  <2>4. r \in OneFrom(t, i)
    BY <2>2, <2>3
  <2> QED BY <2>4 DEF r
<1>4. CASE At(t, i) # "c" /\ (a.end = i \/ At(t, a.end) # "/")
  <2>1. r = IF a.end = i THEN Parsed(-1, i) ELSE a
    BY <1>4 DEF val_track
  <2> HIDE DEF r, a
  <2>2. r \in OneFrom(t, i)
    BY <1>1, <1>2, <2>1, LookedOne
  <2> QED BY <2>2 DEF r
<1>5. CASE At(t, i) # "c" /\ ~(a.end = i \/ At(t, a.end) # "/")
  <2>1. r = IF b.end = a.end + 1 THEN Parsed(-1, i) ELSE Looked(v, b.end, i)
    BY <1>5 DEF val_track
  <2>2. a.end + 1 \in 1 .. Len(t) + 1
    <3>1. a.end \in 1 .. Len(t) + 1
      BY <1>1
    <3> HIDE DEF a
    <3> QED BY <1>5, <3>1, Inside DEF Marks
  <2>3. b.end \in a.end + 1 .. Len(t) + 1
    BY <2>2, StrtoulStays
  <2> HIDE DEF r, a, b, v
  <2>4. b.end \in i .. Len(t) + 1
    BY <1>1, <2>3
  <2>5. r \in OneFrom(t, i)
    BY <1>2, <2>1, <2>4, LookedOne
  <2> QED BY <2>5 DEF r
<1> QED BY <1>3, <1>4, <1>5

LEMMA NamedOne ==
  ASSUME NEW t, Len(t) \in Nat, NEW i \in 1 .. Len(t) + 1, NEW failed,
         NEW ids, \A x \in DOMAIN ids : ids[x] \in Int
  PROVE  Named(ids, t, i, failed) \in OneFrom(t, i)
<1> DEFINE n == Strtoul(t, i)
           e == WordEnd(t, i)
           name == SubSeq(t, i, e - 1)
           r == Named(ids, t, i, failed)
<1>1. n \in OneFrom(t, i) /\ e \in i .. Len(t) + 1 /\ i \in i .. Len(t) + 1 /\ -1 \in Int
  <2>1. n \in OneFrom(t, i)
    BY StrtoulOne
  <2>2. e \in i .. Len(t) + 1
    BY WordEnds
  <2> HIDE DEF n, e
  <2> QED BY <2>1, <2>2
<1>2. r = IF n.end # i THEN n
          ELSE IF \E k \in i .. e - 1 : t[k] \in LongWords THEN Parsed(-1, i)
          ELSE IF <<i, 0>> \in failed \/ name \notin DOMAIN ids THEN Looked(-1, i, i)
          ELSE Looked(ids[name], e, i)
  BY DEF Named
<1>3. name \in DOMAIN ids => ids[name] \in Int
  OBVIOUS
<1> HIDE DEF n, e, name, r
<1>4. Parsed(-1, i) \in OneFrom(t, i) /\ Looked(-1, i, i) \in OneFrom(t, i)
  BY <1>1, LookedOne
<1>5. name \in DOMAIN ids => Looked(ids[name], e, i) \in OneFrom(t, i)
  BY <1>1, <1>3, LookedOne
<1> QED BY <1>1, <1>2, <1>4, <1>5 DEF r

LEMMA EnumStays ==
  ASSUME NEW t, Len(t) \in Nat, NEW i \in 1 .. Len(t), NEW lst
  PROVE  val_enum(lst, t, i).end \in i .. Len(t) + 1
BY DEF val_enum, Parsed

LEMMA TextStays ==
  ASSUME NEW t, Len(t) \in Nat, NEW i \in 1 .. Len(t) + 1
  PROVE  val_string(t, i).end \in i .. Len(t) + 1 /\ val_name(t, i).end \in i .. Len(t) + 1
<1>1. Span(t, i, Words) \in i .. Len(t) + 1
  BY Lexemes, Spans
<1>2. Len(t) + 1 \in i .. Len(t) + 1
  OBVIOUS
<1> QED BY <1>1, <1>2 DEF val_string, val_name, Parsed

(***************************************************************************)
(* The items of a sentence are read for what they mean.                    *)
(***************************************************************************)
\* The text spells w from p on.
Spelled(t, p, w) == \A j \in 1 .. Len(w) : At(t, p + j - 1) = w[j]

ItemEnds == {",", " ", NUL}

\* The turn at p reads ids up to q, and another follows a comma.
Reads(turn, t, p, q, ids) ==
  /\ turn[p].read.val = ids
  /\ At(t, q) = "," => ~turn[p].last /\ turn[p].read.end = q + 1
  /\ At(t, q) # "," => /\ turn[p].read.end = q
                       /\ ~turn[p].last => turn[q] = Ending(Parsed(<<>>, q))

LEMMA EndsEnd ==
  /\ \A x \in ItemEnds : x \notin DOMAIN Value /\ x \notin {"-", "+", "/", "*", "."}
  /\ \A n \in Number : n \in DOMAIN Value /\ n \in Alnum /\ Value[n] \in Nat
  /\ "c" \notin Number /\ "*" \notin Number /\ NUL \notin Number
<1>1. \A x \in ItemEnds : x \notin DOMAIN Value
  BY Lexemes DEF ItemEnds
<1>2. \A x \in ItemEnds : x \notin {"-", "+", "/", "*", "."}
  BY Lexemes DEF ItemEnds
<1>3. ASSUME NEW n \in Number PROVE n \in DOMAIN Value /\ n \in Alnum /\ Value[n] \in Nat
  <2>1. n \in DOMAIN Value /\ Value[n] >= 0
    BY DEF Number
  <2>2. Value[n] \in Int /\ n \in Alnum
    BY <2>1, Lexemes
  <2> QED BY <2>1, <2>2
<1>4. "c" \notin Number /\ "*" \notin Number /\ NUL \notin Number
  BY Lexemes DEF Number
<1> QED BY <1>1, <1>2, <1>3, <1>4

LEMMA RangeRead ==
  ASSUME NEW t, Len(t) \in Nat, NEW in \in 1 .. Len(t) + 1, NEW p \in in .. Len(t) + 1,
         NEW x, IsRange(x), NEW w, w = ItemText("idlist", x), NEW q \in 1 .. Len(t) + 1,
         q = p + Len(w), Spelled(t, p, w), At(t, q) \in ItemEnds
  PROVE  Reads([i \in in .. Len(t) + 1 |-> list_turn(t, in, i)], t, p, q, ItemIds("idlist", x))
<1> DEFINE turn == [i \in in .. Len(t) + 1 |-> list_turn(t, in, i)]
           a == Value[x[1]]
           b == Value[x[Len(x)]]
           next == IF At(t, q) = "," THEN q + 1 ELSE q
           ids == Between(a, b)
<1>1. /\ x[1] \in Number /\ Len(x) \in {1, 2} /\ (Len(x) = 2 => x[2] \in Number /\ a < b)
      /\ x[1] \in DOMAIN Value /\ a \in Nat /\ b \in Nat
  <2>1. Len(x) \in {1, 2} /\ x \in Seq(Number) /\ (Len(x) = 2 => Value[x[1]] < Value[x[2]])
    BY DEF IsRange
  <2>2. x[1] \in Number /\ (Len(x) = 2 => x[2] \in Number) /\ x[Len(x)] \in Number
    BY <2>1, ElementOfSeq
  <2> QED BY <2>1, <2>2, EndsEnd
<1>2. w = IF Len(x) = 2 THEN <<x[1], "-", x[2]>> ELSE x
  BY DEF ItemText
<1>3. Len(w) = (IF Len(x) = 2 THEN 3 ELSE 1) /\ w[1] = x[1]
  BY <1>1, <1>2
<1>4. At(t, p) = x[1] /\ p \in 1 .. Len(t) + 1
  <2>1. At(t, p + 1 - 1) = w[1]
    <3>1. 1 \in 1 .. Len(w)
      BY <1>3
    <3> QED BY <3>1 DEF Spelled
  <2> QED BY <1>3, <2>1
<1>5. p <= Len(t) /\ t[p] = x[1]
  BY <1>1, <1>4, Inside DEF Marks
<1>6. ItemIds("idlist", x) = ids
  BY DEF ItemIds
<1>7. idl_item(t, p) = [ids |-> ids, end |-> next]
  <2> DEFINE to == Strtoul(t, p + 2)
             nx(e) == IF At(t, e) = "," THEN e + 1 ELSE e
  <2>1. idl_item(t, p) = IF At(t, p + 1) # "-" THEN [ids |-> <<a>>, end |-> nx(p + 1)]
                         ELSE IF to.end = p + 2 \/ to.val <= a THEN [ids |-> <<>>, end |-> 0]
                         ELSE [ids |-> Interval(a, to.val), end |-> nx(to.end)]
    BY <1>1, <1>4, <1>5, ItemIs
  <2>2. CASE Len(x) = 1
    <3>1. q = p + 1
      BY <1>3, <2>2
    <3>2. At(t, p + 1) # "-"
      BY <3>1, EndsEnd
    <3>3. ids = <<a>>
      <4>1. b = a
        BY <2>2
      <4>2. Between(a, a) = [n \in 1 .. 1 |-> a]
        <5>1. a - a + 1 = 1 /\ \A n \in 1 .. 1 : a + n - 1 = a
          BY <1>1
        <5> QED BY <5>1 DEF Between
      <4>3. <<a>> = [n \in 1 .. 1 |-> a]
        OBVIOUS
      <4> QED BY <4>1, <4>2, <4>3
    <3> HIDE DEF ids, to
    <3> QED BY <2>1, <3>1, <3>2, <3>3
  <2>3. CASE Len(x) = 2
    <3>1. q = p + 3 /\ w = <<x[1], "-", x[2]>>
      BY <1>2, <1>3, <2>3
    <3>2. At(t, p + 1) = "-" /\ At(t, p + 2) = x[2]
      <4>1. 2 \in 1 .. Len(w) /\ 3 \in 1 .. Len(w) /\ w[2] = "-" /\ w[3] = x[2]
            /\ p + 2 - 1 = p + 1 /\ p + 3 - 1 = p + 2
        BY <3>1
      <4> QED BY <4>1 DEF Spelled
    <3>3. p + 2 \in 1 .. Len(t) + 1
      BY <3>1
    <3>4. to = Parsed(b, p + 3)
      <4>1. At(t, p + 2) \in DOMAIN Value
        BY <1>1, <2>3, <3>2, EndsEnd
      <4>2. to = Parsed(Value[t[p + 2]], (p + 2) + 1)
        BY <3>3, <4>1, StrtoulReads
      <4>3. t[p + 2] = x[2]
        BY <3>2, <3>3, <4>1, Inside DEF Marks
      <4> QED BY <2>3, <4>2, <4>3
    <3>5. to.val = b /\ to.end = p + 3
      BY <3>4 DEF Parsed
    <3>6. ids = Interval(a, b)
      BY <1>1, <2>3, Intervals
    <3>7. ~(to.end = p + 2 \/ to.val <= a)
      <4>1. p + 3 # p + 2 /\ ~(b <= a)
        BY <1>1, <2>3
      <4> HIDE DEF to, a, b
      <4> QED BY <3>5, <4>1
    <3> HIDE DEF ids, to, a, b
    <3> QED BY <2>1, <3>1, <3>2, <3>5, <3>6, <3>7
  <2> QED BY <1>1, <2>2, <2>3
<1>8. list_turn(t, in, p) = Going(ids, next, {})
  <2>1. next # 0
    <3>1. q # 0 /\ q + 1 # 0
      OBVIOUS
    <3> QED BY <3>1
  <2>2. At(t, p) \in DOMAIN Value
    BY <1>1, <1>4
  <2> HIDE DEF ids, next
  <2> QED BY <1>7, <2>1, <2>2 DEF list_turn
<1>9. turn[p] = Going(ids, next, {})
  BY <1>8
<1>10. turn[p].read.val = ids /\ turn[p].read.end = next /\ ~turn[p].last
  <2> HIDE DEF turn, ids, next
  <2> QED BY <1>9 DEF Going
<1>11. turn[q] = Ending(Parsed(<<>>, q))
  <2>1. q \in in .. Len(t) + 1
    BY <1>3
  <2>2. list_turn(t, in, q) = Ending(Parsed(<<>>, q))
    BY EndsEnd DEF list_turn
  <2> QED BY <2>1, <2>2
<1>12. Reads(turn, t, p, q, ids)
  <2> HIDE DEF turn, ids
  <2> QED BY <1>10, <1>11 DEF Reads
<1> QED BY <1>6, <1>12

\* A parser's value that ends where the item does makes a turn that reads it.
LEMMA OneRead ==
  ASSUME NEW t, Len(t) \in Nat, NEW in \in 1 .. Len(t) + 1, NEW p \in in .. Len(t) + 1,
         NEW q \in 1 .. Len(t) + 1, p < q, NEW conv, NEW v \in Int, NEW a,
         conv[p] = [val |-> v, end |-> q, asked |-> a]
  PROVE  Reads([i \in in .. Len(t) + 1 |-> clist_turn(conv, t, in, i)], t, p, q, <<v>>)
<1> DEFINE turn == [i \in in .. Len(t) + 1 |-> clist_turn(conv, t, in, i)]
<1>1. PICK item : item = conv[p] /\ item = [val |-> v, end |-> q, asked |-> a]
  OBVIOUS
<1>2. item.val = v /\ item.end = q /\ item.asked = a /\ q # p
  BY <1>1
<1>3. turn[p] = clist_turn(conv, t, in, p)
  OBVIOUS
<1> HIDE DEF turn
<1>6. PICK ids : ids = <<v>>
  OBVIOUS
<1>4. CASE At(t, q) = ","
  <2>1. turn[p] = Going(ids, q + 1, a)
    BY <1>1, <1>2, <1>3, <1>4, <1>6 DEF clist_turn
  <2>2. turn[p].read.val = ids /\ turn[p].read.end = q + 1 /\ ~turn[p].last
    BY <2>1 DEF Going
  <2>3. Reads(turn, t, p, q, ids)
    BY ONLY <1>4, <2>2 DEF Reads
  <2> QED BY <1>6, <2>3 DEF turn
<1>5. CASE At(t, q) # ","
  <2>2. [item EXCEPT !.val = ids] = [val |-> ids, end |-> q, asked |-> a]
    BY <1>1
  <2>3. turn[p] = Ending([item EXCEPT !.val = ids])
    BY <1>1, <1>2, <1>3, <1>5, <1>6 DEF clist_turn
  <2>4. turn[p] = Ending([val |-> ids, end |-> q, asked |-> a])
    BY <2>2, <2>3
  <2>5. turn[p].last /\ turn[p].read = [val |-> ids, end |-> q, asked |-> a]
    BY <2>4 DEF Ending
  <2>6. turn[p].read.val = ids /\ turn[p].read.end = q
    BY <2>5
  <2>7. turn[p].last
    BY <2>5
  <2>8. Reads(turn, t, p, q, ids)
    BY ONLY <1>5, <2>6, <2>7 DEF Reads
  <2> QED BY <1>6, <2>8 DEF turn
<1> QED BY <1>4, <1>5 DEF turn

LEMMA NumberReads ==
  ASSUME NEW t, Len(t) \in Nat, NEW p \in 1 .. Len(t) + 1, At(t, p) \in Number
  PROVE  /\ p <= Len(t) /\ Strtoul(t, p) = Parsed(Value[At(t, p)], p + 1)
         /\ Value[At(t, p)] \in Nat
<1>1. At(t, p) \in DOMAIN Value /\ Value[At(t, p)] \in Nat
  BY EndsEnd
<1>2. At(t, p) = t[p]
  BY <1>1, Inside DEF Marks
<1> QED BY <1>1, <1>2, StrtoulReads

\* An id of a list of users or of tags.
LEMMA NumberRead ==
  ASSUME NEW t, Len(t) \in Nat, NEW in \in 1 .. Len(t) + 1, NEW p \in in .. Len(t) + 1,
         NEW x, IsNumber(x), NEW q \in 1 .. Len(t) + 1, q = p + Len(x), Spelled(t, p, x),
         NEW conv, conv[p] = val_user(t, p) \/ conv[p] = val_tag(t, p, {})
  PROVE  Reads([i \in in .. Len(t) + 1 |-> clist_turn(conv, t, in, i)], t, p, q, <<Value[x[1]]>>)
<1>0. x \in Seq(Number) /\ Len(x) = 1
  BY DEF IsNumber
<1>1. Len(x) = 1 /\ x[1] \in Number
  <2>1. \A i \in 1 .. Len(x) : x[i] \in Number
    BY <1>0, ElementOfSeq
  <2>2. 1 \in 1 .. 1
    OBVIOUS
  <2> QED BY <1>0, <2>1, <2>2
<1>2. At(t, p) = x[1] /\ p \in 1 .. Len(t) + 1
  <2>1. At(t, p + 1 - 1) = x[1]
    BY <1>1 DEF Spelled
  <2> QED BY <2>1
<1>3. Strtoul(t, p) = Parsed(Value[x[1]], p + 1) /\ Value[x[1]] \in Int
  BY <1>1, <1>2, NumberReads
<1>4. Strtoul(t, p) = [val |-> Value[x[1]], end |-> q, asked |-> {}] /\ p < q
  BY <1>1, <1>3 DEF Parsed
<1>5. Strtoul(t, p).end # p
  BY <1>4
<1>6. val_tag(t, p, {}) = Strtoul(t, p) /\ val_user(t, p) = Strtoul(t, p)
  BY <1>5 DEF val_tag, Named, val_user, val_uint
<1> QED BY <1>3, <1>4, <1>6, OneRead

\* Part of a text.
LEMMA PartIs ==
  ASSUME NEW t, IsText(t), NEW i \in 1 .. Len(t) + 1, NEW e \in i .. Len(t) + 1
  PROVE  /\ Len(t) \in Nat
         /\ SubSeq(t, i, e - 1) \in Seq(ToSet(t)) /\ Len(SubSeq(t, i, e - 1)) = e - i
         /\ \A j \in 1 .. e - i : SubSeq(t, i, e - 1)[j] = At(t, i + j - 1)
<1>1. t \in Seq(ToSet(t)) /\ Len(t) \in Nat
  BY LenProperties DEF IsText
<1>2. i \in 1 .. Len(t) + 1 /\ e - 1 \in i - 1 .. Len(t)
  BY <1>1
<1>3. /\ SubSeq(t, i, e - 1) \in Seq(ToSet(t))
      /\ Len(SubSeq(t, i, e - 1)) = IF i <= e - 1 THEN (e - 1) - i + 1 ELSE 0
      /\ \A j \in 1 .. (e - 1) - i + 1 : SubSeq(t, i, e - 1)[j] = t[i + j - 1]
  <2>1. i \in Int /\ e - 1 \in Int /\ \A k \in i .. e - 1 : k \in 1 .. Len(t)
    BY <1>1, <1>2
  <2>2. \A k \in i .. e - 1 : t[k] \in ToSet(t)
    BY <1>1, <2>1, ElementOfSeq
  <2> QED BY ONLY <2>1, <2>2, SubSeqProperties
<1>4. Len(SubSeq(t, i, e - 1)) = e - i
  BY <1>1, <1>3
<1>5. ASSUME NEW j \in 1 .. e - i PROVE SubSeq(t, i, e - 1)[j] = At(t, i + j - 1)
  <2>1. j \in 1 .. (e - 1) - i + 1 /\ i + j - 1 <= Len(t)
    BY <1>1
  <2> QED BY <1>3, <2>1 DEF At
<1> QED BY <1>1, <1>3, <1>4, <1>5

\* The word ends at the first blank.
NoBlank(t, i, q) == \A k \in i .. q - 1 : At(t, k) # " "
NoNul(t) == \A k \in 1 .. Len(t) : At(t, k) = t[k] /\ t[k] # NUL

LEMMA TextIs == ASSUME NEW t, IsText(t) PROVE Len(t) \in Nat /\ NoNul(t)
<1>1. t \in Seq(ToSet(t)) /\ NUL \notin ToSet(t)
  BY DEF IsText
<1>2. Len(t) \in Nat /\ \A k \in 1 .. Len(t) : t[k] \in ToSet(t)
  BY <1>1, ElementOfSeq, LenProperties
<1> QED BY <1>1, <1>2 DEF At, NoNul

LEMMA WordIs ==
  ASSUME NEW t, Len(t) \in Nat, NEW i \in 1 .. Len(t) + 1, NEW q \in i .. Len(t) + 1,
         At(t, q) \in {" ", NUL}, NoNul(t), NoBlank(t, i, q)
  PROVE  WordEnd(t, i) = q
<1>1. PICK e \in i .. Len(t) + 1 :
         /\ e = WordEnd(t, i)
         /\ (\A k \in i .. e - 1 : t[k] # " ") /\ At(t, e) \in {" ", NUL}
  BY WordEnds
<1>2. e = WordEnd(t, i) /\ At(t, e) \in {" ", NUL}
  BY <1>1
<1>P. PICK m \in Nat : m = Len(t)
  OBVIOUS
<1>R. i \in 1 .. m + 1 /\ q \in i .. m + 1 /\ e \in i .. m + 1
  BY <1>P
<1>3. \A k \in i .. e - 1 : t[k] # " "
  BY <1>1
<1>4. ~(e < q)
  <2> SUFFICES ASSUME e < q PROVE FALSE
    OBVIOUS
  <2>1. e \in i .. q - 1 /\ e \in 1 .. Len(t)
    <3>1. e \in i .. q - 1 /\ e \in 1 .. m
      BY ONLY <1>R, e < q, m \in Nat
    <3> QED BY <1>P, <3>1
  <2>2. At(t, e) # " "
    BY <2>1 DEF NoBlank
  <2>3. At(t, e) # NUL
    BY <2>1 DEF NoNul
  <2> QED BY <1>2, <2>2, <2>3
<1>5. ~(q < e)
  <2> SUFFICES ASSUME q < e PROVE FALSE
    OBVIOUS
  <2>1. q \in i .. e - 1 /\ q \in 1 .. Len(t)
    <3>1. q \in i .. e - 1 /\ q \in 1 .. m
      BY ONLY <1>R, q < e, m \in Nat
    <3> QED BY <1>P, <3>1
  <2>2. At(t, q) # " " /\ At(t, q) # NUL
    <3>1. At(t, q) = t[q] /\ t[q] # NUL
      BY <2>1 DEF NoNul
    <3> QED BY <1>3, <2>1, <3>1
  <2> QED BY <2>2
<1>6. e = q
  BY ONLY <1>4, <1>5, <1>R, m \in Nat
<1> QED BY <1>2, <1>6

\* The name of a tag, which must be the last item.
LEMMA NameRead ==
  ASSUME NEW t, IsText(t), NEW in \in 1 .. Len(t) + 1, NEW p \in in .. Len(t) + 1,
         NEW x, IsName(x), NEW q \in 1 .. Len(t) + 1, q = p + Len(x), Spelled(t, p, x),
         At(t, q) \in {" ", NUL}, NEW conv, conv[p] = val_tag(t, p, {})
  PROVE  Reads([i \in in .. Len(t) + 1 |-> clist_turn(conv, t, in, i)], t, p, q, <<TagId[x]>>)
<1>0. Len(t) \in Nat /\ NoNul(t)
  BY TextIs
<1>1. x \in DOMAIN TagId /\ x \in Seq(Alnum \ LongWords) /\ x[1] \in Words
  BY DEF IsName
<1>A. \A j \in 1 .. Len(x) : x[j] \in Alnum \ LongWords
  BY <1>1, ElementOfSeq
<1>B. PICK n \in Nat : n = Len(x) /\ n # 0
  BY LenProperties, EmptySeq DEF IsName
<1>C. PICK m \in Nat : m = Len(t)
  BY <1>0
<1>R. q = p + n /\ in \in 1 .. m + 1 /\ p \in in .. m + 1 /\ q \in 1 .. m + 1
  BY <1>B, <1>C
<1>2. p \in 1 .. Len(t) + 1 /\ p < q /\ q \in p .. Len(t) + 1
  <2>2. p \in 1 .. m + 1 /\ p < q /\ q \in p .. m + 1
    BY ONLY <1>B, <1>R, n \in Nat, m \in Nat
  <2> QED BY <1>C, <2>2
<1>3. ASSUME NEW k \in p .. q - 1 PROVE At(t, k) \in Alnum \ LongWords /\ t[k] = At(t, k)
  <2>1. k - p + 1 \in 1 .. Len(x) /\ p + (k - p + 1) - 1 = k /\ k \in 1 .. Len(t)
    <3>1. q = p + n /\ in \in 1 .. m + 1 /\ p \in in .. m + 1 /\ q \in 1 .. m + 1 /\ k \in p .. q - 1
      BY <1>B, <1>C
    <3>2. k - p + 1 \in 1 .. n /\ p + (k - p + 1) - 1 = k /\ k \in 1 .. m
      BY ONLY <1>B, <3>1, n \in Nat, m \in Nat
    <3> QED BY <1>B, <1>C, <3>2
  <2>2. At(t, k) = x[k - p + 1]
    BY <2>1 DEF Spelled
  <2>3. At(t, k) = t[k]
    BY <1>0, <2>1 DEF NoNul
  <2> QED BY <1>A, <2>1, <2>2, <2>3
<1>4. Strtoul(t, p) = Parsed(0, p)
  <2>1. 1 \in 1 .. Len(x) /\ p + 1 - 1 = p
    <3>1. 1 \in 1 .. n /\ p + 1 - 1 = p
      BY ONLY <1>B, <1>R, n \in Nat, m \in Nat
    <3> QED BY <1>B, <3>1
  <2>2. At(t, p) = x[1]
    BY <2>1 DEF Spelled
  <2>3. At(t, p) \notin DOMAIN Value \cup {" ", "-", "+"}
    BY <1>1, <2>2, Lexemes
  <2> QED BY <1>0, <1>2, <2>3, StrtoulReads
<1>5. WordEnd(t, p) = q
  <2>1. NoBlank(t, p, q)
    BY <1>3, Lexemes DEF NoBlank
  <2> QED BY <1>0, <1>2, <2>1, WordIs
<1>6. SubSeq(t, p, q - 1) = x
  <2>1. /\ SubSeq(t, p, q - 1) \in Seq(ToSet(t)) /\ Len(SubSeq(t, p, q - 1)) = q - p
        /\ \A j \in 1 .. q - p : SubSeq(t, p, q - 1)[j] = At(t, p + j - 1)
    BY <1>2, PartIs
  <2>2. q - p = Len(x)
    <3>1. q - p = n
      BY ONLY <1>B, <1>R, n \in Nat, m \in Nat
    <3> QED BY <1>B, <3>1
  <2> DEFINE y == SubSeq(t, p, q - 1)
  <2>3. \A j \in 1 .. Len(y) : y[j] = x[j]
    BY <2>1, <2>2 DEF Spelled
  <2>4. y \in Seq(ToSet(t)) /\ Len(y) = Len(x) /\ x \in Seq(Alnum \ LongWords)
    BY <1>1, <2>1, <2>2
  <2> HIDE DEF y
  <2>5. y = x
    BY ONLY <2>3, <2>4, SameSeq
  <2> QED BY <2>5 DEF y
<1>7. val_tag(t, p, {}) = Looked(TagId[x], q, p)
  <2>1. Strtoul(t, p).end = p
    <3>1. Strtoul(t, p) = [val |-> 0, end |-> p, asked |-> {}]
      BY <1>4 DEF Parsed
    <3> QED BY ONLY <3>1
  <2>2. ~\E k \in p .. q - 1 : t[k] \in LongWords
    BY <1>3
  <2> QED BY <1>1, <1>5, <1>6, <2>1, <2>2 DEF val_tag, Named
<1>8. TagId[x] \in Int
  BY <1>1, CatalogIs
<1>9. conv[p] = [val |-> TagId[x], end |-> q, asked |-> {<<p, 0>>}]
  BY <1>7 DEF Looked
<1> QED BY <1>0, <1>2, <1>8, <1>9, OneRead
(***************************************************************************)
(* The items of a list of tracks.                                          *)
(***************************************************************************)
LEMMA ReadsNoNumber ==
  ASSUME NEW t, Len(t) \in Nat, NEW p \in 1 .. Len(t) + 1, At(t, p) \in {"c", "*"}
  PROVE  p <= Len(t) /\ Strtoul(t, p) = Parsed(0, p)
<1>1. At(t, p) \notin DOMAIN Value \cup {" ", "-", "+"} /\ At(t, p) # NUL
  BY EndsEnd, Lexemes
<1>2. Strtoul(t, p) = Parsed(0, p)
  BY <1>1, StrtoulReads
<1>3. p <= Len(t)
  BY <1>1 DEF At
<1> QED BY <1>2, <1>3

\* What follows the '/' at p + 1, the album having been given as id.
Below(t, p, id) ==
  LET pos1 == Strtoul(t, p + 2)
      pos2 == Strtoul(t, pos1.end + 1)
      track == track2id(id, pos1.val)
  IN IF pos1.end = p + 2 THEN
       IF At(t, pos1.end) = "*" THEN LookedList(idl_addalbum(id, -1, -1), pos1.end + 1, p, {}) ELSE Unread
     ELSE IF At(t, pos1.end) # "-" THEN Looked(IF track >= 0 THEN <<track>> ELSE <<>>, pos1.end, p)
     ELSE IF pos2.end # pos1.end + 1 THEN LookedList(idl_addalbum(id, pos1.val, pos2.val), pos2.end, p, {})
     ELSE IF At(t, pos2.end) = "*" THEN LookedList(idl_addalbum(id, pos1.val, -1), pos2.end + 1, p, {})
     ELSE Unread

AlbumId(y) == IF y = "c" THEN -1 ELSE Value[y]

LEMMA TrackHead ==
  ASSUME NEW t, Len(t) \in Nat, NEW p \in 1 .. Len(t) + 1, NEW y, y = At(t, p),
         y \in Number \cup {"c"}
  PROVE  /\ p <= Len(t)
         /\ tracklist_item(t, p, {}) =
              IF At(t, p + 1) = "/" THEN Below(t, p, AlbumId(y))
              ELSE IF y = "c" THEN Looked(<<Current.id>>, p + 1, p)
              ELSE Parsed(<<Value[y]>>, p + 1)
<1> DEFINE n == Strtoul(t, p)
           cur == n.end = p /\ At(t, p) = "c"
           id == IF cur THEN -1 ELSE n.val
           tok == IF cur THEN p + 1 ELSE n.end
           pos1 == Strtoul(t, tok + 1)
           pos2 == Strtoul(t, pos1.end + 1)
           track == track2id(id, pos1.val)
           album(first, last, e) == LookedList(idl_addalbum(id, first, last), e, p, {})
           below ==
             IF pos1.end = tok + 1 THEN
               IF At(t, pos1.end) = "*" THEN album(-1, -1, pos1.end + 1) ELSE Unread
             ELSE IF At(t, pos1.end) # "-" THEN
               Looked(IF track >= 0 THEN <<track>> ELSE <<>>, pos1.end, p)
             ELSE IF pos2.end # pos1.end + 1 THEN album(pos1.val, pos2.val, pos2.end)
             ELSE IF At(t, pos2.end) = "*" THEN album(pos1.val, -1, pos2.end + 1) ELSE Unread
           r == tracklist_item(t, p, {})
<1>1. r = IF n.end = p /\ ~cur THEN Unread
          ELSE IF At(t, tok) # "/" THEN
            IF id >= 0 THEN Parsed(<<id>>, tok) ELSE Looked(<<Current.id>>, tok, p)
          ELSE below
  BY DEF tracklist_item
<1>2. /\ p <= Len(t) /\ ~(n.end = p /\ ~cur) /\ tok = p + 1 /\ id = AlbumId(y)
      /\ y = "c" => id = -1
      /\ y # "c" => id \in Nat /\ id = Value[y]
  <2>1. CASE y = "c"
    <3>1. p <= Len(t) /\ n = [val |-> 0, end |-> p, asked |-> {}]
      BY <2>1, ReadsNoNumber DEF Parsed
    <3>2. n.end = p
      BY ONLY <3>1
    <3> HIDE DEF n
    <3> QED BY <2>1, <3>1, <3>2 DEF AlbumId
  <2>2. CASE y # "c"
    <3>1. p <= Len(t) /\ n = [val |-> Value[y], end |-> p + 1, asked |-> {}] /\ Value[y] \in Nat
      BY <2>2, NumberReads DEF Parsed
    <3>2. n.end = p + 1 /\ n.val = Value[y]
      BY <3>1
    <3>3. p + 1 # p
      OBVIOUS
    <3> HIDE DEF n
    <3> QED BY <2>2, <3>1, <3>2, <3>3 DEF AlbumId
  <2> QED BY <2>1, <2>2
<1>3. tok + 1 = p + 2
  BY <1>2
<1>4. below = Below(t, p, AlbumId(y))
  BY <1>2, <1>3 DEF Below
<1> SUFFICES r = IF At(t, p + 1) = "/" THEN Below(t, p, AlbumId(y))
                 ELSE IF y = "c" THEN Looked(<<Current.id>>, p + 1, p)
                 ELSE Parsed(<<Value[y]>>, p + 1)
  BY <1>2
<1> HIDE DEF r, below, tok, id, cur, n
<1>5. CASE At(t, p + 1) = "/"
  BY <1>1, <1>2, <1>4, <1>5
<1>6. CASE At(t, p + 1) # "/" /\ y = "c"
  <2>1. ~(id >= 0)
    BY <1>2, <1>6
  <2> QED BY <1>1, <1>2, <1>6, <2>1
<1>7. CASE At(t, p + 1) # "/" /\ y # "c"
  <2>1. id >= 0 /\ id = Value[y]
    BY <1>2, <1>7
  <2> QED BY <1>1, <1>2, <1>7, <2>1
<1> QED BY <1>5, <1>6, <1>7

Limit(y) == IF y = "*" THEN -1 ELSE Value[y]

\* The tracks asked for are those that the server would list.
LEMMA AlbumRead ==
  ASSUME NEW x, x[1] \in Number \cup {"c"}, x[2] \in Number \cup {"*"},
         x[Len(x)] \in Number \cup {"*"}
  PROVE  idl_addalbum(AlbumId(x[1]), Limit(x[2]), Limit(x[Len(x)])) = InOrder(OnAlbum(x))
<1> DEFINE album == AlbumId(x[1])
           first == Limit(x[2])
           last == Limit(x[Len(x)])
           id == IF album < 0 THEN Current.album ELSE album
           fits(k) == /\ Tracks[k].album = id
                      /\ first < 0 \/ first <= Tracks[k].nr
                      /\ last < 0 \/ last >= Tracks[k].nr
           on(k) == /\ Tracks[k].album = IF x[1] = "c" THEN Current.album ELSE Value[x[1]]
                    /\ x[2] = "*" \/ Value[x[2]] <= Tracks[k].nr
                    /\ x[Len(x)] = "*" \/ Tracks[k].nr <= Value[x[Len(x)]]
<1>1. idl_addalbum(album, first, last) = InOrder({k \in DOMAIN Tracks : fits(k)})
  BY DEF idl_addalbum
<1>2. OnAlbum(x) = {k \in DOMAIN Tracks : on(k)}
  BY DEF OnAlbum
<1>3. id = IF x[1] = "c" THEN Current.album ELSE Value[x[1]]
  BY EndsEnd DEF AlbumId
<1>4. ASSUME NEW k \in DOMAIN Tracks PROVE fits(k) <=> on(k)
  <2>1. PICK nr \in Nat : nr = Tracks[k].nr
    BY CatalogIs
  <2>2. (first < 0 \/ first <= nr) <=> (x[2] = "*" \/ Value[x[2]] <= nr)
    BY EndsEnd DEF Limit
  <2>3. (last < 0 \/ last >= nr) <=> (x[Len(x)] = "*" \/ nr <= Value[x[Len(x)]])
    <3>1. PICK y : y = x[Len(x)]
      OBVIOUS
    <3>2. (Limit(y) < 0 \/ Limit(y) >= nr) <=> (y = "*" \/ nr <= Value[y])
      BY <3>1, EndsEnd DEF Limit
    <3> QED BY <3>1, <3>2
  <2> HIDE DEF id, first, last
  <2> QED BY <1>3, <2>1, <2>2, <2>3
<1>5. {k \in DOMAIN Tracks : fits(k)} = {k \in DOMAIN Tracks : on(k)}
  <2> HIDE DEF fits, on
  <2> QED BY <1>4
<1> HIDE DEF fits, on
<1> QED BY <1>1, <1>2, <1>5
\* What an item of a sentence reads, and where it ends.
ItemReads(r, ids, q) == r.val = ids /\ r.end = q

LEMMA LookedReads ==
  ASSUME NEW v, NEW e, NEW i
  PROVE  /\ ItemReads(Looked(v, e, i), v, e) /\ ItemReads(Parsed(v, e), v, e)
         /\ ItemReads(LookedList(v, e, i, {}), v, e)
<1>1. {n \in 0 .. Len(v) : <<i, n>> \in {}} = {}
  OBVIOUS
<1>2. LookedList(v, e, i, {}) = [val |-> v, end |-> e, asked |-> {i} \X (0 .. Len(v))]
  BY <1>1 DEF LookedList
<1>3. ItemReads(LookedList(v, e, i, {}), v, e)
  BY <1>2 DEF ItemReads
<1> QED BY <1>3 DEF Looked, Parsed, ItemReads

\* Where the server has no track, none is added.
LEMMA OneTrack ==
  ASSUME NEW album, NEW nr, NEW none, none = <<>>
  PROVE  (IF track2id(album, nr) >= 0 THEN <<track2id(album, nr)>> ELSE none)
           = IF track2id(album, nr) = -1 THEN none ELSE <<track2id(album, nr)>>
<1>1. PICK id \in Int : id = track2id(album, nr) /\ id >= -1
  BY TrackIs
<1>2. CASE id = -1
  BY <1>1, <1>2
<1>3. CASE id # -1
  BY <1>1, <1>3
<1> QED BY <1>2, <1>3

LEMMA TrackItemRead ==
  ASSUME NEW t, Len(t) \in Nat, NEW p \in 1 .. Len(t) + 1,
         NEW x, IsTrack(x), NEW w, w = ItemText("trackidlist", x), NEW q \in 1 .. Len(t) + 1,
         q = p + Len(w), Spelled(t, p, w), At(t, q) \in ItemEnds
  PROVE  ItemReads(tracklist_item(t, p, {}), TrackIds(x), q) /\ p < q
<1>1. /\ x \in Seq(Number \cup {"c", "*"}) /\ Len(x) \in {1, 2, 3}
      /\ x[1] \in Number \cup {"c"}
      /\ Len(x) = 2 => x[2] = "*" \/ (x[1] \in Number /\ x[2] \in Number)
      /\ Len(x) = 3 => x[2] \in Number /\ x[3] \in Number \cup {"*"}
  BY DEF IsTrack
<1>2. w = CASE Len(x) = 2 -> <<x[1], "/", x[2]>>
            [] Len(x) = 3 -> <<x[1], "/", x[2], "-", x[3]>>
            [] OTHER -> x
  BY DEF ItemText
<1> DEFINE r == tracklist_item(t, p, {})
           id == AlbumId(x[1])
           pos1 == Strtoul(t, p + 2)
           pos2 == Strtoul(t, pos1.end + 1)
           track == track2id(id, pos1.val)
<1>3. Len(w) >= 1 /\ Len(w) \in Nat /\ w[1] = x[1]
  <2>1. CASE Len(x) = 1
    BY <1>2, <2>1
  <2>2. CASE Len(x) = 2
    BY <1>2, <2>2
  <2>3. CASE Len(x) = 3
    BY <1>2, <2>3
  <2> QED BY <1>1, <2>1, <2>2, <2>3
<1>4. p < q
  BY <1>3
<1>5. At(t, p) = x[1]
  <2>1. 1 \in 1 .. Len(w) /\ p + 1 - 1 = p
    BY <1>3
  <2> QED BY <1>3, <2>1 DEF Spelled
<1>6. /\ p <= Len(t)
      /\ r = IF At(t, p + 1) = "/" THEN Below(t, p, id)
             ELSE IF x[1] = "c" THEN Looked(<<Current.id>>, p + 1, p)
             ELSE Parsed(<<Value[x[1]]>>, p + 1)
  <2>1. \A y : y = x[1] => /\ p <= Len(t)
          /\ r = IF At(t, p + 1) = "/" THEN Below(t, p, AlbumId(y))
                 ELSE IF y = "c" THEN Looked(<<Current.id>>, p + 1, p)
                 ELSE Parsed(<<Value[y]>>, p + 1)
    <3> SUFFICES ASSUME NEW y, y = x[1] PROVE
          /\ p <= Len(t)
          /\ r = IF At(t, p + 1) = "/" THEN Below(t, p, AlbumId(y))
                 ELSE IF y = "c" THEN Looked(<<Current.id>>, p + 1, p)
                 ELSE Parsed(<<Value[y]>>, p + 1)
      OBVIOUS
    <3>1. y = At(t, p) /\ y \in Number \cup {"c"}
      BY <1>1, <1>5
    <3> HIDE DEF r
    <3> QED BY <3>1, TrackHead DEF r
  <2> HIDE DEF r
  <2> QED BY <2>1
<1>7. Below(t, p, id) =
        IF pos1.end = p + 2 THEN
          IF At(t, pos1.end) = "*" THEN LookedList(idl_addalbum(id, -1, -1), pos1.end + 1, p, {}) ELSE Unread
        ELSE IF At(t, pos1.end) # "-" THEN Looked(IF track >= 0 THEN <<track>> ELSE <<>>, pos1.end, p)
        ELSE IF pos2.end # pos1.end + 1 THEN LookedList(idl_addalbum(id, pos1.val, pos2.val), pos2.end, p, {})
        ELSE IF At(t, pos2.end) = "*" THEN LookedList(idl_addalbum(id, pos1.val, -1), pos2.end + 1, p, {})
        ELSE Unread
  BY DEF Below
<1> HIDE DEF r, id
<1>8. CASE Len(x) = 1
  <2>1. Len(w) = 1 /\ q = p + 1
    BY <1>2, <1>8
  <2>2. At(t, p + 1) # "/"
    BY <2>1, EndsEnd
  <2>3. TrackIds(x) = <<IF x[1] = "c" THEN Current.id ELSE Value[x[1]]>>
    BY <1>8 DEF TrackIds
  <2>4. r = Looked(TrackIds(x), q, p) \/ r = Parsed(TrackIds(x), q)
    BY <1>6, <2>1, <2>2, <2>3
  <2> QED BY <1>4, <2>4, LookedReads DEF r
<1>9. CASE Len(x) = 2
  <2>1. w = <<x[1], "/", x[2]>>
    BY <1>2, <1>9
  <2>2. q = p + 3
    BY <2>1
  <2>3. At(t, p + 1) = "/" /\ At(t, p + 2) = x[2]
    <3>1. 2 \in 1 .. Len(w) /\ 3 \in 1 .. Len(w) /\ w[2] = "/" /\ w[3] = x[2]
          /\ p + 2 - 1 = p + 1 /\ p + 3 - 1 = p + 2
      BY <2>1
    <3> QED BY <3>1 DEF Spelled
  <2>4. p + 2 \in 1 .. Len(t) + 1
    BY <2>2
  <2>5. CASE x[2] = "*"
    <3>1. Strtoul(t, p + 2) = Parsed(0, p + 2)
      BY <2>3, <2>4, <2>5, ReadsNoNumber
    <3>2. pos1.end = p + 2
      BY <3>1 DEF Parsed
    <3>3. idl_addalbum(id, -1, -1) = InOrder(OnAlbum(x))
      <4>1. Limit(x[2]) = -1 /\ x[Len(x)] = x[2] /\ x[2] \in Number \cup {"*"}
        BY <1>9, <2>5 DEF Limit
      <4> QED BY <1>1, <4>1, AlbumRead DEF id
    <3>4. TrackIds(x) = InOrder(OnAlbum(x))
      BY <1>9, <2>5 DEF TrackIds
    <3> HIDE DEF pos1
    <3>5. r = LookedList(idl_addalbum(id, -1, -1), p + 2 + 1, p, {})
      BY <1>6, <1>7, <2>3, <2>5, <3>2
    <3>6. p + 2 + 1 = q
      BY <2>2
    <3> QED BY <1>4, <3>3, <3>4, <3>5, <3>6, LookedReads DEF r
  <2>6. CASE x[2] # "*"
    <3>1. x[1] \in Number /\ x[2] \in Number
      BY <1>1, <1>9, <2>6
    <3>2. Strtoul(t, p + 2) = Parsed(Value[x[2]], p + 3)
      <4>1. Strtoul(t, p + 2) = Parsed(Value[x[2]], p + 2 + 1)
        BY <2>3, <2>4, <3>1, NumberReads
      <4>2. p + 2 + 1 = p + 3
        OBVIOUS
      <4> QED BY <4>1, <4>2
    <3>3. pos1.end = p + 3 /\ pos1.val = Value[x[2]]
      BY <3>2 DEF Parsed
    <3>4. p + 3 # p + 2 /\ At(t, p + 3) # "-"
      BY <2>2, EndsEnd
    <3> HIDE DEF pos1
    <3>5. id = Value[x[1]]
      BY <3>1, EndsEnd DEF id, AlbumId
    <3>6. PICK none : none = <<>>
      OBVIOUS
    <3>7. TrackIds(x) = IF track2id(Value[x[1]], Value[x[2]]) = -1 THEN none
                        ELSE <<track2id(Value[x[1]], Value[x[2]])>>
      BY <1>9, <2>6, <3>6 DEF TrackIds
    <3>8. r = Looked(IF track >= 0 THEN <<track>> ELSE none, p + 3, p)
      <4> HIDE DEF track
      <4> QED BY <1>6, <1>7, <2>3, <3>3, <3>4, <3>6
    <3>9. (IF track >= 0 THEN <<track>> ELSE none) = TrackIds(x)
      BY <3>3, <3>5, <3>6, <3>7, OneTrack
    <3> HIDE DEF track
    <3>10. r = Looked(TrackIds(x), q, p)
      BY <2>2, <3>8, <3>9
    <3> QED BY <1>4, <3>10, LookedReads DEF r
  <2> QED BY <2>5, <2>6
<1>10. CASE Len(x) = 3
  <2>1. w = <<x[1], "/", x[2], "-", x[3]>> /\ x[2] \in Number /\ x[3] \in Number \cup {"*"}
    BY <1>1, <1>2, <1>10
  <2>2. q = p + 5
    BY <2>1
  <2>3. At(t, p + 1) = "/" /\ At(t, p + 2) = x[2] /\ At(t, p + 3) = "-" /\ At(t, p + 4) = x[3]
    <3>1. 2 \in 1 .. Len(w) /\ 3 \in 1 .. Len(w) /\ 4 \in 1 .. Len(w) /\ 5 \in 1 .. Len(w)
          /\ w[2] = "/" /\ w[3] = x[2] /\ w[4] = "-" /\ w[5] = x[3]
      BY <2>1
    <3>2. /\ p + 2 - 1 = p + 1 /\ p + 3 - 1 = p + 2 /\ p + 4 - 1 = p + 3 /\ p + 5 - 1 = p + 4
      OBVIOUS
    <3> QED BY <3>1, <3>2 DEF Spelled
  <2>4. p + 2 \in 1 .. Len(t) + 1 /\ p + 4 \in 1 .. Len(t) + 1
    BY <2>2
  <2>5. Strtoul(t, p + 2) = Parsed(Value[x[2]], p + 3)
    <3>1. Strtoul(t, p + 2) = Parsed(Value[x[2]], p + 2 + 1)
      BY <2>1, <2>3, <2>4, NumberReads
    <3>2. p + 2 + 1 = p + 3
      OBVIOUS
    <3> QED BY <3>1, <3>2
  <2>6. pos1.end = p + 3 /\ pos1.val = Value[x[2]] /\ p + 3 # p + 2 /\ p + 3 + 1 = p + 4
    BY <2>5 DEF Parsed
  <2> HIDE DEF pos1
  <2>7. pos2 = Strtoul(t, p + 4)
    BY <2>6
  <2>8. TrackIds(x) = InOrder(OnAlbum(x))
    BY <1>10 DEF TrackIds
  <2>9. Limit(x[2]) = Value[x[2]] /\ x[Len(x)] = x[3]
    BY <1>10, <2>1, EndsEnd DEF Limit
  <2>10. idl_addalbum(id, Value[x[2]], Limit(x[3])) = TrackIds(x)
    BY <1>1, <2>1, <2>8, <2>9, AlbumRead DEF id
  <2>11. CASE x[3] = "*"
    <3>1. Strtoul(t, p + 4) = Parsed(0, p + 4)
      BY <2>3, <2>4, <2>11, ReadsNoNumber
    <3>2. pos2.end = p + 4
      BY <2>7, <3>1 DEF Parsed
    <3>3. Limit(x[3]) = -1 /\ p + 4 + 1 = q
      BY <2>2, <2>11 DEF Limit
    <3> HIDE DEF pos2
    <3>4. r = LookedList(idl_addalbum(id, Value[x[2]], -1), p + 4 + 1, p, {})
      BY <1>6, <1>7, <2>3, <2>6, <2>11, <3>2
    <3>5. r = LookedList(TrackIds(x), q, p, {})
      BY <2>10, <3>3, <3>4
    <3> QED BY <1>4, <3>5, LookedReads DEF r
  <2>12. CASE x[3] # "*"
    <3>1. x[3] \in Number
      BY <2>1, <2>12
    <3>2. Strtoul(t, p + 4) = Parsed(Value[x[3]], p + 4 + 1)
      BY <2>3, <2>4, <3>1, NumberReads
    <3>3. pos2.end = p + 4 + 1 /\ pos2.val = Value[x[3]]
      BY <2>7, <3>2 DEF Parsed
    <3>4. Limit(x[3]) = Value[x[3]] /\ p + 4 + 1 = q /\ q # p + 4
      BY <2>2, <2>12 DEF Limit
    <3> HIDE DEF pos2
    <3>5. r = LookedList(idl_addalbum(id, Value[x[2]], Value[x[3]]), q, p, {})
      BY <1>6, <1>7, <2>3, <2>6, <3>3, <3>4
    <3>6. r = LookedList(TrackIds(x), q, p, {})
      BY <2>10, <3>4, <3>5
    <3> QED BY <1>4, <3>6, LookedReads DEF r
  <2> QED BY <2>11, <2>12
<1> QED BY <1>1, <1>8, <1>9, <1>10

LEMMA TrackRead ==
  ASSUME NEW t, Len(t) \in Nat, NEW in \in 1 .. Len(t) + 1, NEW p \in in .. Len(t) + 1,
         NEW x, IsTrack(x), NEW w, w = ItemText("trackidlist", x), NEW q \in 1 .. Len(t) + 1,
         q = p + Len(w), Spelled(t, p, w), At(t, q) \in ItemEnds
  PROVE  Reads([i \in in .. Len(t) + 1 |-> tracklist_turn(t, in, i, {})], t, p, q, TrackIds(x))
         /\ p < q
<1> DEFINE turn == [i \in in .. Len(t) + 1 |-> tracklist_turn(t, in, i, {})]
<1>1. p \in 1 .. Len(t) + 1
  OBVIOUS
<1>2. ItemReads(tracklist_item(t, p, {}), TrackIds(x), q) /\ p < q
  BY <1>1, TrackItemRead
<1>3. PICK item : item = tracklist_item(t, p, {})
  OBVIOUS
<1>4. PICK ids : ids = TrackIds(x)
  OBVIOUS
<1>5. item.val = ids /\ item.end = q /\ q # 0
  BY <1>2, <1>3, <1>4 DEF ItemReads
<1>6. PICK a : a = item.asked
  OBVIOUS
<1>7. turn[p] = IF At(t, q) # "," THEN Ending(item) ELSE Going(ids, q + 1, a)
  BY <1>3, <1>5, <1>6 DEF tracklist_turn
<1> HIDE DEF turn
<1>8. Reads(turn, t, p, q, ids)
  <2>1. CASE At(t, q) = ","
    <3>1. turn[p] = Going(ids, q + 1, a)
      BY <1>7, <2>1
    <3>2. turn[p].read.val = ids /\ turn[p].read.end = q + 1 /\ ~turn[p].last
      BY ONLY <3>1 DEF Going
    <3> QED BY ONLY <2>1, <3>2 DEF Reads
  <2>2. CASE At(t, q) # ","
    <3>1. turn[p] = Ending(item)
      BY <1>7, <2>2
    <3>2. turn[p].last /\ turn[p].read = item
      BY ONLY <3>1 DEF Ending
    <3>3. turn[p].read.val = ids /\ turn[p].read.end = q
      BY <1>5, <3>2
    <3> QED BY ONLY <2>2, <3>2, <3>3 DEF Reads
  <2> QED BY <2>1, <2>2
<1> QED BY <1>2, <1>4, <1>8 DEF turn
(***************************************************************************)
(* The sentences.                                                          *)
(***************************************************************************)
Users(t) == [i \in 1 .. Len(t) + 1 |-> val_user(t, i)]
Tags(t, failed) == [i \in 1 .. Len(t) + 1 |-> val_tag(t, i, failed)]

\* The turns of the list that the parser for arg reads.
TurnsOf(arg, t, in, failed) ==
  CASE arg = "idlist" -> [i \in in .. Len(t) + 1 |-> list_turn(t, in, i)]
    [] arg = "useridlist" -> [i \in in .. Len(t) + 1 |-> clist_turn(Users(t), t, in, i)]
    [] arg = "taglist" -> [i \in in .. Len(t) + 1 |-> clist_turn(Tags(t, failed), t, in, i)]
    [] arg = "trackidlist" -> [i \in in .. Len(t) + 1 |-> tracklist_turn(t, in, i, failed)]

ReadList(arg, t, in, failed) ==
  CASE arg = "idlist" -> val_idlist(t, in)
    [] arg = "useridlist" -> val_userlist(t, in)
    [] arg = "taglist" -> val_taglist(t, in, failed)
    [] arg = "trackidlist" -> val_tracklist(t, in, failed)

LEMMA TurnsOfFit ==
  ASSUME NEW arg \in ListArgs, NEW t, Len(t) \in Nat, NEW in \in 1 .. Len(t) + 1, NEW failed
  PROVE  /\ TurnsFit(TurnsOf(arg, t, in, failed), t, in)
         /\ ReadList(arg, t, in, failed) = Listed(TurnsOf(arg, t, in, failed), t, in)
<1> DEFINE D == in .. Len(t) + 1
           L == [i \in D |-> list_turn(t, in, i)]
           C(conv) == [i \in D |-> clist_turn(conv, t, in, i)]
           K == [i \in D |-> tracklist_turn(t, in, i, failed)]
<1>1. \A i \in D : i \in 1 .. Len(t) + 1
  OBVIOUS
<1>2. TurnsFit(L, t, in)
  BY ListTurnFits DEF TurnsFit
<1>3. TurnsFit(K, t, in)
  BY TracklistTurnFits DEF TurnsFit
<1>4. \A conv : (\A i \in D : conv[i] \in OneFrom(t, i)) => TurnsFit(C(conv), t, in)
  BY ClistTurnFits DEF TurnsFit
<1>5. TurnsFit(C(Users(t)), t, in)
  <2>1. \A i \in 1 .. Len(t) + 1 : val_user(t, i) \in OneFrom(t, i)
    BY StrtoulOne DEF val_user, val_uint
  <2>2. \A i \in D : Users(t)[i] \in OneFrom(t, i)
    BY <1>1, <2>1 DEF Users
  <2> HIDE DEF C
  <2> QED BY <1>4, <2>2
<1>6. TurnsFit(C(Tags(t, failed)), t, in)
  <2>1. \A i \in 1 .. Len(t) + 1 : val_tag(t, i, failed) \in OneFrom(t, i)
    <3>1. \A x \in DOMAIN TagId : TagId[x] \in Int
      BY CatalogIs
    <3> QED BY <3>1, NamedOne DEF val_tag
  <2>2. \A i \in D : Tags(t, failed)[i] \in OneFrom(t, i)
    BY <1>1, <2>1 DEF Tags
  <2> HIDE DEF C
  <2> QED BY <1>4, <2>2
<1>7. /\ val_idlist(t, in) = Listed(L, t, in)
      /\ val_userlist(t, in) = Listed(C(Users(t)), t, in)
      /\ val_taglist(t, in, failed) = Listed(C(Tags(t, failed)), t, in)
      /\ val_tracklist(t, in, failed) = Listed(K, t, in)
  BY DEF val_idlist, idl_addlist, val_userlist, val_taglist, idl_addclist, val_tracklist, Users, Tags
<1>8. /\ arg = "idlist" => TurnsOf(arg, t, in, failed) = L
      /\ arg = "useridlist" => TurnsOf(arg, t, in, failed) = C(Users(t))
      /\ arg = "taglist" => TurnsOf(arg, t, in, failed) = C(Tags(t, failed))
      /\ arg = "trackidlist" => TurnsOf(arg, t, in, failed) = K
  BY DEF TurnsOf
<1> HIDE DEF L, C, K
<1> QED BY <1>2, <1>3, <1>5, <1>6, <1>7, <1>8 DEF ReadList, ListArgs

\* The item of arg that is at p, up to q.
ItemAt(arg, x, last, t, in, p, q) ==
  /\ p \in in .. Len(t) + 1 /\ q \in 1 .. Len(t) + 1 /\ q = p + Len(ItemText(arg, x))
  /\ IsItem(arg, x, last) /\ Spelled(t, p, ItemText(arg, x))
  /\ At(t, q) \in ItemEnds /\ (last => At(t, q) \in {" ", NUL})

LEMMA ItemRead ==
  ASSUME NEW t, IsText(t), NEW in \in 1 .. Len(t) + 1, NEW p, NEW q,
         NEW arg \in ListArgs, NEW x, NEW last, ItemAt(arg, x, last, t, in, p, q)
  PROVE  Reads(TurnsOf(arg, t, in, {}), t, p, q, ItemIds(arg, x))
<1> PICK w : w = ItemText(arg, x)
  OBVIOUS
<1>A. /\ p \in in .. Len(t) + 1 /\ q \in 1 .. Len(t) + 1 /\ q = p + Len(w)
      /\ IsItem(arg, x, last) /\ Spelled(t, p, w)
      /\ At(t, q) \in ItemEnds /\ (last => At(t, q) \in {" ", NUL})
  BY DEF ItemAt
<1>0. Len(t) \in Nat
  BY TextIs
<1>1. Len(t) \in Nat /\ p \in 1 .. Len(t) + 1
  <2>1. PICK m \in Nat : m = Len(t)
    BY <1>0
  <2>2. in \in 1 .. m + 1 /\ p \in in .. m + 1
    BY <1>A, <2>1
  <2>3. p \in 1 .. m + 1
    BY ONLY <2>2, m \in Nat
  <2> QED BY <2>1, <2>3
<1>2. CASE arg = "idlist"
  <2>1. IsRange(x)
    BY <1>A, <1>2 DEF IsItem
  <2> QED BY <1>A, <1>1, <1>2, <2>1, RangeRead DEF TurnsOf
<1>3. CASE arg = "trackidlist"
  <2>1. IsTrack(x) /\ ItemIds(arg, x) = TrackIds(x)
    BY <1>A, <1>3 DEF IsItem, ItemIds
  <2> QED BY <1>A, <1>1, <1>3, <2>1, TrackRead DEF TurnsOf
<1>4. CASE arg \in {"useridlist", "taglist"}
  <2>1. w = x /\ (IsNumber(x) \/ (arg = "taglist" /\ last /\ IsName(x)))
    BY <1>A, <1>4 DEF IsItem, ItemText
  <2>2. CASE IsNumber(x)
    <3>1. x[1] \in Number
      <4>1. x \in Seq(Number) /\ Len(x) = 1
        BY <2>2 DEF IsNumber
      <4>2. \A i \in 1 .. Len(x) : x[i] \in Number
        BY <4>1, ElementOfSeq
      <4> QED BY ONLY <4>1, <4>2
    <3>2. ItemIds(arg, x) = <<Value[x[1]]>>
      BY <1>4, <3>1 DEF ItemIds
    <3>3. Users(t)[p] = val_user(t, p) /\ Tags(t, {})[p] = val_tag(t, p, {})
      BY <1>1 DEF Users, Tags
    <3> QED BY <1>A, <1>1, <1>4, <2>1, <2>2, <3>2, <3>3, NumberRead DEF TurnsOf
  <2>3. CASE arg = "taglist" /\ last /\ IsName(x)
    <3>1. x[1] \notin Number
      BY <2>3, Lexemes DEF IsName, Number
    <3>2. ItemIds(arg, x) = <<TagId[x]>>
      BY <2>3, <3>1 DEF ItemIds
    <3>3. Tags(t, {})[p] = val_tag(t, p, {})
      BY <1>1 DEF Tags
    <3> QED BY <1>A, <1>1, <2>1, <2>3, <3>2, <3>3, NameRead DEF TurnsOf
  <2> QED BY <2>1, <2>2, <2>3
<1> QED BY <1>2, <1>3, <1>4 DEF ListArgs

Lexeme == Alnum \cup Punctuation

LEMMA ItemTextIs ==
  ASSUME NEW arg \in ListArgs, NEW x, NEW last, IsItem(arg, x, last)
  PROVE  ItemText(arg, x) \in Seq(Lexeme) /\ x \in Seq(Lexeme)
<1>1. x \in Seq(Number) \/ x \in Seq(Alnum \ LongWords) \/ x \in Seq(Number \cup {"c", "*"})
  BY DEF IsItem, IsRange, IsNumber, IsName, IsTrack
<1>2. /\ Number \subseteq Lexeme /\ Alnum \ LongWords \subseteq Lexeme
      /\ Number \cup {"c", "*"} \subseteq Lexeme /\ "-" \in Lexeme /\ "/" \in Lexeme
  BY EndsEnd, Lexemes DEF Lexeme, Punctuation
<1>3. x \in Seq(Lexeme)
  <2>1. Len(x) \in Nat /\ x \in [1 .. Len(x) -> Lexeme]
    BY <1>1, <1>2, LenProperties
  <2> QED BY <2>1, IsASeq
<1>4. CASE arg = "idlist" /\ Len(x) = 2
  <2>1. x[1] \in Lexeme /\ x[2] \in Lexeme
    BY <1>3, <1>4, ElementOfSeq
  <2>2. ItemText(arg, x) = <<x[1], "-", x[2]>>
    BY <1>4 DEF ItemText
  <2> QED BY <1>2, <1>3, <2>1, <2>2
<1>5. CASE arg = "trackidlist" /\ Len(x) = 2
  <2>1. x[1] \in Lexeme /\ x[2] \in Lexeme
    BY <1>3, <1>5, ElementOfSeq
  <2>2. ItemText(arg, x) = <<x[1], "/", x[2]>>
    BY <1>5 DEF ItemText
  <2> QED BY <1>2, <1>3, <2>1, <2>2
<1>6. CASE arg = "trackidlist" /\ Len(x) = 3
  <2>1. x[1] \in Lexeme /\ x[2] \in Lexeme /\ x[3] \in Lexeme
    BY <1>3, <1>6, ElementOfSeq
  <2>2. ItemText(arg, x) = <<x[1], "/", x[2], "-", x[3]>>
    BY <1>6 DEF ItemText
  <2> QED BY <1>2, <1>3, <2>1, <2>2
<1>7. CASE ~(arg = "idlist" /\ Len(x) = 2) /\ ~(arg = "trackidlist" /\ Len(x) \in {2, 3})
  <2>1. ItemText(arg, x) = x
    BY <1>7 DEF ItemText
  <2> QED BY <1>3, <2>1
<1> QED BY <1>4, <1>5, <1>6, <1>7
\* An item's text, and the comma that follows it.
Piece(arg, items, k) ==
  ItemText(arg, items[k]) \o IF k = Len(items) THEN <<>> ELSE <<",">>

PieceFits(z, w, final) ==
  /\ z \in Seq(Lexeme) /\ Len(w) \in Nat
  /\ Len(z) = IF final THEN Len(w) ELSE Len(w) + 1
  /\ \A j \in 1 .. Len(w) : z[j] = w[j]
  /\ ~final => z[Len(w) + 1] = ","

LEMMA PieceIs ==
  ASSUME NEW arg \in ListArgs, NEW items, Len(items) \in Nat, NEW k \in 1 .. Len(items),
         IsItem(arg, items[k], k = Len(items)), NEW w, w = ItemText(arg, items[k]),
         NEW z, z = Piece(arg, items, k)
  PROVE  PieceFits(z, w, k = Len(items))
<1>1. w \in Seq(Lexeme)
  BY ItemTextIs
<1>2. CASE k = Len(items)
  <2>1. z = w
    BY <1>1, <1>2, ConcatEmptySeq DEF Piece
  <2> QED BY <1>1, <1>2, <2>1, LenProperties DEF PieceFits
<1>3. CASE k # Len(items)
  <2>1. PICK y : y = <<",">>
    OBVIOUS
  <2>2. y \in Seq(Lexeme) /\ Len(y) = 1 /\ y[1] = ","
    <3>1. "," \in Lexeme
      BY DEF Lexeme, Punctuation
    <3> QED BY <2>1, <3>1, OneSeq
  <2>3. z = w \o y
    BY <1>3, <2>1 DEF Piece
  <2>4. /\ w \o y \in Seq(Lexeme) /\ Len(w) \in Nat
        /\ Len(w \o y) = Len(w) + Len(y)
        /\ \A j \in 1 .. Len(w) : (w \o y)[j] = w[j]
        /\ \A j \in 1 .. Len(y) : (w \o y)[Len(w) + j] = y[j]
    <3>1. w \in Seq(Lexeme) /\ y \in Seq(Lexeme)
      BY <1>1, <2>2
    <3> QED BY ONLY <3>1, Joined
  <2>5. (w \o y)[Len(w) + 1] = y[1]
    <3>0. Len(y) = 1
      BY <2>2
    <3>1. 1 \in 1 .. Len(y)
      BY ONLY <3>0
    <3> QED BY ONLY <2>4, <3>1
  <2> QED BY <1>3, <2>2, <2>3, <2>4, <2>5 DEF PieceFits
<1> QED BY <1>2, <1>3

\* A sentence of the grammar at in, up to e.
Says(t, in, e, arg, items) ==
  /\ Len(items) \in Nat \ {0}
  /\ \A k \in 1 .. Len(items) : IsItem(arg, items[k], k = Len(items))
  /\ SubSeq(t, in, e - 1) = FlattenSeq([k \in 1 .. Len(items) |-> Piece(arg, items, k)])
  /\ At(t, e) \in {" ", NUL}

\* Where the items are.
Placed(t, in, e, arg, items, places) ==
  /\ places[1] = in /\ places[Len(items) + 1] = e
  /\ \A k \in 1 .. Len(items) :
       /\ places[k] \in in .. Len(t) + 1
       /\ Spelled(t, places[k], ItemText(arg, items[k]))
       /\ IF k = Len(items) THEN e = places[k] + Len(ItemText(arg, items[k]))
          ELSE /\ places[k + 1] = places[k] + Len(ItemText(arg, items[k])) + 1
               /\ At(t, places[k] + Len(ItemText(arg, items[k]))) = ","

LEMMA Places ==
  ASSUME NEW t, IsText(t), NEW in \in 1 .. Len(t) + 1, NEW e \in in .. Len(t) + 1,
         NEW arg \in ListArgs, NEW items, Says(t, in, e, arg, items)
  PROVE  \E places : Placed(t, in, e, arg, items, places)
<1>1. PICK m \in Nat : m = Len(t)
  BY TextIs
<1>2. PICK n \in Nat : n = Len(items) /\ n # 0
  BY DEF Says
<1>3. in \in 1 .. m + 1 /\ e \in in .. m + 1
  BY <1>1
<1> DEFINE W == [k \in 1 .. n |-> Piece(arg, items, k)]
           T(k) == ItemText(arg, items[k])
           flat == FlattenSeq(W)
<1>4. ASSUME NEW k \in 1 .. n
      PROVE  /\ W[k] \in Seq(Lexeme) /\ Len(T(k)) \in Nat
             /\ Len(W[k]) = IF k = n THEN Len(T(k)) ELSE Len(T(k)) + 1
             /\ \A j \in 1 .. Len(T(k)) : W[k][j] = T(k)[j]
             /\ k # n => W[k][Len(T(k)) + 1] = ","
  <2>1. IsItem(arg, items[k], k = Len(items)) /\ k \in 1 .. Len(items) /\ Len(items) \in Nat
    BY <1>2 DEF Says
  <2>2. W[k] = Piece(arg, items, k)
    OBVIOUS
  <2>3. PieceFits(W[k], T(k), k = Len(items))
    BY <2>1, <2>2, PieceIs
  <2> HIDE DEF W, T
  <2> QED BY <1>2, <2>3 DEF PieceFits
<1>5. Len(W) = n /\ W \in Seq(Seq(Lexeme))
  <2>1. W \in [1 .. n -> Seq(Lexeme)]
    BY <1>4
  <2> HIDE DEF W
  <2> QED BY <2>1, IsASeq, LenProperties
<1> HIDE DEF W, T
<1>6. Laid(W, flat)
  BY <1>5, Flattened
<1>7. flat = SubSeq(t, in, e - 1)
  BY <1>2 DEF Says, W
<1> HIDE DEF flat
<1>8. Len(flat) = e - in /\ \A j \in 1 .. e - in : flat[j] = At(t, in + j - 1)
  BY <1>7, PartIs
<1>9. PICK off \in [0 .. n -> Nat] :
        /\ off[0] = 0 /\ off[n] = e - in
        /\ \A k \in 1 .. n :
             /\ off[k] = off[k - 1] + Len(W[k])
             /\ off[k] <= e - in
             /\ \A j \in 1 .. Len(W[k]) : flat[off[k - 1] + j] = W[k][j]
  <2>1. PICK off \in [0 .. Len(W) -> Nat] :
          /\ off[0] = 0 /\ off[Len(W)] = Len(flat)
          /\ \A k \in 1 .. Len(W) :
               /\ off[k] = off[k - 1] + Len(W[k])
               /\ off[k] <= off[Len(W)]
               /\ \A j \in 1 .. Len(W[k]) : flat[off[k - 1] + j] = W[k][j]
    BY ONLY <1>6 DEF Laid
  <2>2. Len(W) = n /\ Len(flat) = e - in
    BY <1>5, <1>8
  <2>3. off[n] = e - in
    BY <2>1, <2>2
  <2> QED BY ONLY <2>1, <2>2, <2>3
<1> DEFINE places == [k \in 1 .. n + 1 |-> in + off[k - 1]]
<1>10. places[1] = in /\ places[n + 1] = e
  <2>1. /\ 1 \in 1 .. n + 1 /\ n + 1 \in 1 .. n + 1 /\ (n + 1) - 1 = n /\ 1 - 1 = 0
        /\ in + (e - in) = e /\ in + 0 = in
    BY ONLY <1>3, n \in Nat, m \in Nat
  <2> QED BY <1>9, <2>1
<1>11. ASSUME NEW k \in 1 .. n
       PROVE  /\ places[k] \in in .. m + 1
              /\ Spelled(t, places[k], T(k))
              /\ IF k = n THEN e = places[k] + Len(T(k))
                 ELSE /\ places[k + 1] = places[k] + Len(T(k)) + 1
                      /\ At(t, places[k] + Len(T(k))) = ","
  <2>1. PICK a \in Nat, b \in Nat, l \in Nat, c \in Nat :
          a = off[k - 1] /\ b = off[k] /\ l = Len(W[k]) /\ c = Len(T(k))
    <3>1. k - 1 \in 0 .. n /\ k \in 0 .. n
      OBVIOUS
    <3> QED BY <1>4, <1>9, <3>1, LenProperties
  <2>2. b = a + l /\ b <= e - in /\ \A j \in 1 .. l : flat[a + j] = W[k][j]
    BY <1>9, <2>1
  <2>3. l = (IF k = n THEN c ELSE c + 1) /\ (\A j \in 1 .. c : W[k][j] = T(k)[j])
        /\ (k # n => W[k][c + 1] = ",")
    BY <1>4, <2>1
  <2>4. k \in 1 .. n + 1 /\ k + 1 \in 1 .. n + 1 /\ (k + 1) - 1 = k
    OBVIOUS
  <2>5. places[k] = in + a /\ places[k + 1] = in + b
    BY <2>1, <2>4
  <2> HIDE DEF places
  <2>6. b = a + l /\ b <= e - in /\ l = (IF k = n THEN c ELSE c + 1)
    BY <2>2, <2>3
  <2>7. in + a \in in .. m + 1
    BY ONLY <1>3, <2>6, a \in Nat, b \in Nat, c \in Nat, l \in Nat, m \in Nat
  <2>8. ASSUME NEW j \in 1 .. l PROVE At(t, (in + a) + j - 1) = W[k][j]
    <3>1. a + j \in 1 .. e - in /\ in + (a + j) - 1 = (in + a) + j - 1
      BY ONLY <1>3, <2>6, a \in Nat, b \in Nat, c \in Nat, l \in Nat, m \in Nat, j \in 1 .. l
    <3>2. flat[a + j] = At(t, in + (a + j) - 1)
      BY <1>8, <3>1
    <3> QED BY <2>2, <3>1, <3>2
  <2>9. Spelled(t, in + a, T(k))
    <3>1. ASSUME NEW j \in 1 .. c PROVE At(t, (in + a) + j - 1) = T(k)[j]
      <4>1. j \in 1 .. l
        BY <2>6
      <4> QED BY <2>3, <2>8, <4>1
    <3> QED BY <2>1, <3>1 DEF Spelled
  <2>10. CASE k = n
    <3>1. off[n] = b
      BY <2>1, <2>10
    <3>2. b = e - in /\ l = c
      BY <1>9, <2>6, <2>10, <3>1
    <3>3. e = (in + a) + c
      BY ONLY <1>3, <2>6, <3>2, a \in Nat, b \in Nat, c \in Nat, l \in Nat, m \in Nat
    <3> QED BY <1>3, <2>1, <2>5, <2>7, <2>9, <2>10, <3>3
  <2>11. CASE k # n
    <3>1. l = c + 1
      BY <2>6, <2>11
    <3>2. in + b = (in + a) + c + 1 /\ c + 1 \in 1 .. l /\ (in + a) + (c + 1) - 1 = (in + a) + c
      BY ONLY <1>3, <2>6, <3>1, a \in Nat, b \in Nat, c \in Nat, l \in Nat, m \in Nat
    <3>3. At(t, (in + a) + (c + 1) - 1) = W[k][c + 1]
      BY <2>8, <3>2
    <3>4. At(t, (in + a) + c) = ","
      BY <2>3, <2>11, <3>2, <3>3
    <3> QED BY <2>1, <2>5, <2>7, <2>9, <2>11, <3>2, <3>4
  <2> QED BY <2>10, <2>11
<1> HIDE DEF places
<1>12. Placed(t, in, e, arg, items, places)
  BY <1>1, <1>2, <1>10, <1>11 DEF Placed, T
<1> QED BY <1>12

\* The parsers understand what the grammar says.
ReadAs(r, e, arg, items) ==
  r.end = e /\ r.val = FlattenSeq([k \in 1 .. Len(items) |-> ItemIds(arg, items[k])])

LEMMA Understood ==
  ASSUME NEW t, IsText(t), NEW in \in 1 .. Len(t) + 1, NEW e \in in .. Len(t) + 1,
         NEW arg \in ListArgs, NEW items, Says(t, in, e, arg, items)
  PROVE  ReadAs(ReadList(arg, t, in, {}), e, arg, items)
<1>1. PICK m \in Nat : m = Len(t)
  BY TextIs
<1>2. PICK n \in Nat : n = Len(items) /\ n # 0
  BY DEF Says
<1>3. in \in 1 .. m + 1 /\ e \in in .. m + 1
  BY <1>1
<1>4. PICK places : Placed(t, in, e, arg, items, places)
  BY Places
<1> DEFINE turn == TurnsOf(arg, t, in, {})
           ids == [k \in 1 .. n |-> ItemIds(arg, items[k])]
<1>5. TurnsFit(turn, t, in) /\ ReadList(arg, t, in, {}) = Listed(turn, t, in)
  <2>1. Len(t) \in Nat
    BY <1>1
  <2> QED BY <2>1, TurnsOfFit
<1> HIDE DEF turn
<1>6. ASSUME NEW k \in 1 .. n
      PROVE  /\ places[k] \in in .. m + 1 /\ turn[places[k]].read.val = ids[k]
             /\ k # n => ~turn[places[k]].last /\ turn[places[k]].read.end = places[k + 1]
             /\ k = n => /\ turn[places[k]].read.end = e
                         /\ ~turn[places[k]].last => turn[e] = Ending(Parsed(<<>>, e))
  <2>1. PICK x, w, p : x = items[k] /\ w = ItemText(arg, x) /\ p = places[k]
    OBVIOUS
  <2>2. /\ p \in in .. m + 1 /\ Spelled(t, p, w) /\ places[n + 1] = e
        /\ k = n => e = p + Len(w)
        /\ k # n => places[k + 1] = p + Len(w) + 1 /\ At(t, p + Len(w)) = ","
    BY <1>1, <1>2, <1>4, <2>1 DEF Placed
  <2>3. IsItem(arg, x, k = n) /\ At(t, e) \in {" ", NUL}
    BY <1>2, <2>1 DEF Says
  <2>4. PICK c \in Nat : c = Len(w)
    <3>1. ItemText(arg, x) \in Seq(Lexeme)
      BY <2>3, ItemTextIs
    <3> QED BY <2>1, <3>1, LenProperties
  <2>5. PICK q : q = p + c
    OBVIOUS
  <2>6. ids[k] = ItemIds(arg, x)
    BY <2>1
  <2> HIDE DEF ids
  <2>7. q \in 1 .. m + 1 /\ At(t, q) \in ItemEnds /\ (k = n => At(t, q) \in {" ", NUL})
        /\ (k = n => q = e) /\ (k # n => At(t, q) = "," /\ places[k + 1] = q + 1)
    <3>1. CASE k = n
      <4>1. q = e
        BY <2>2, <2>4, <2>5, <3>1
      <4>2. e \in 1 .. m + 1
        BY ONLY <1>3, m \in Nat
      <4> QED BY <2>3, <3>1, <4>1, <4>2 DEF ItemEnds
    <3>2. CASE k # n
      <4>1. At(t, q) = "," /\ places[k + 1] = q + 1
        BY <2>2, <2>4, <2>5, <3>2
      <4>2. q \in Nat /\ q >= 1
        <5>1. p \in in .. m + 1
          BY <2>2
        <5> QED BY ONLY <1>3, <2>5, <5>1, c \in Nat, m \in Nat
      <4>3. q <= Len(t)
        BY <4>1, Lexemes DEF At
      <4>4. q \in 1 .. m + 1
        BY <1>1, <4>2, <4>3
      <4> QED BY <3>2, <4>1, <4>4 DEF ItemEnds
    <3> QED BY <3>1, <3>2
  <2>8. Reads(turn, t, p, q, ItemIds(arg, x))
    <3>1. p \in in .. Len(t) + 1 /\ q \in 1 .. Len(t) + 1 /\ q = p + Len(w)
      BY <1>1, <2>2, <2>4, <2>5, <2>7
    <3>2. PICK last : last = (k = n)
      OBVIOUS
    <3>3. IsItem(arg, x, last) /\ (last => At(t, q) \in {" ", NUL})
      BY <2>3, <2>7, <3>2
    <3>4. ItemAt(arg, x, last, t, in, p, q)
      BY <2>1, <2>2, <2>7, <3>1, <3>3 DEF ItemAt
    <3> QED BY <3>4, ItemRead DEF turn
  <2>9. /\ turn[p].read.val = ids[k]
        /\ At(t, q) = "," => ~turn[p].last /\ turn[p].read.end = q + 1
        /\ At(t, q) # "," => /\ turn[p].read.end = q
                             /\ ~turn[p].last => turn[q] = Ending(Parsed(<<>>, q))
    BY <2>6, <2>8 DEF Reads
  <2>10. k = n => At(t, q) # ","
    BY <2>7, Lexemes
  <2> QED BY <2>1, <2>2, <2>7, <2>9, <2>10
<1>7. Len(ids) = n /\ ids \in Seq(Seq(Int)) /\ ids # <<>>
  <2>1. ASSUME NEW k \in 1 .. n PROVE ids[k] \in Seq(Int)
    <3>1. turn[places[k]].read \in ListsFrom(t, in)
      BY <1>1, <1>5, <1>6 DEF TurnsFit, TurnFits
    <3> QED BY <1>6, <3>1 DEF ListsFrom
  <2>2. ids \in [1 .. n -> Seq(Int)]
    BY <2>1
  <2> HIDE DEF ids
  <2>3. ids \in Seq(Seq(Int)) /\ Len(ids) = n
    BY <2>2, IsASeq, LenProperties
  <2> QED BY <1>2, <2>3, EmptySeq
<1> HIDE DEF ids
<1>8. ReadsOn(turn, t, in, ids, places, e)
  <2>1. \A k \in 1 .. Len(ids) : places[k] \in in .. Len(t) + 1 /\ turn[places[k]].read.val = ids[k]
    BY <1>1, <1>6, <1>7
  <2>2. places[1] = in
    BY <1>4 DEF Placed
  <2>3. ASSUME NEW k \in 1 .. n - 1
        PROVE ~turn[places[k]].last /\ turn[places[k]].read.end = places[k + 1]
    <3>1. k \in 1 .. n /\ k # n
      OBVIOUS
    <3> QED BY <1>6, <3>1
  <2>4. n \in 1 .. n
    BY <1>2
  <2>5. /\ turn[places[n]].read.end = e
        /\ ~turn[places[n]].last => turn[e] = Ending(Parsed(<<>>, e))
    BY <1>6, <2>4
  <2> QED BY <1>7, <2>1, <2>2, <2>3, <2>5 DEF ReadsOn
<1>9. Listed(turn, t, in).val = FlattenSeq(ids) /\ Listed(turn, t, in).end = e
  <2>1. Len(t) \in Nat
    BY <1>1
  <2> QED BY <1>5, <1>7, <1>8, <2>1, ReadInTurns
<1> QED BY <1>2, <1>5, <1>9 DEF ids, ReadAs

(***************************************************************************)
(* The line and its arguments.                                             *)
(***************************************************************************)
\* Only lists of texts are given, and the parsers stay in the one they read.
AllText(s) == s \in Seq(ToSet(s)) /\ \A k \in DOMAIN s : IsText(s[k])
InText == IsText(line) /\ pos \in 1 .. Len(line) + 1 /\ AllText(strings)

ArgumentsRead ==
  \A k \in DOMAIN argv :
    /\ args[k] \in ListArgs => argv[k].val \in Seq(Int)
    /\ \A m \in Meaning :
         args[k] = m.arg /\ argv[k].known /\ argv[k].text = m.text => argv[k].val = m.ids

RefusedRightly ==
  \A m \in Meaning : refused.arg = m.arg /\ refused.known => refused.text # m.text

LineInv == InText /\ ArgumentsRead /\ RefusedRightly

LEMMA TextOf == ASSUME NEW S, NUL \notin S, NEW s \in Seq(S) PROVE IsText(s)
<1>1. Len(s) \in Nat /\ s \in [1 .. Len(s) -> S] /\ \A i \in 1 .. Len(s) : s[i] \in S
  BY LenProperties, ElementOfSeq
<1>2. ToSet(s) = {s[i] : i \in 1 .. Len(s)}
  BY <1>1 DEF ToSet
<1>3. s \in [1 .. Len(s) -> ToSet(s)]
  BY <1>1, <1>2
<1>4. s \in Seq(ToSet(s))
  BY <1>1, <1>3, IsASeq
<1>5. NUL \notin ToSet(s)
  BY <1>1, <1>2
<1> QED BY <1>4, <1>5 DEF IsText

\* Blanks at the end may go.
LEMMA StrippedText == ASSUME NEW t, IsText(t), t # <<>> PROVE IsText(Stripped(t))
<1>1. t \in Seq(ToSet(t)) /\ NUL \notin ToSet(t)
  BY DEF IsText
<1>2. PICK m \in Nat : m = Len(t) /\ m # 0
  BY <1>1, LenProperties, EmptySeq
<1> DEFINE T == {n \in 1 .. m : \A k \in n + 1 .. m : t[k] = " "}
           P(n) == (n = 1 \/ t[n] # " ") /\ \A k \in n + 1 .. m : t[k] = " "
<1>3. T \subseteq Nat /\ m \in T
  <2>1. m \in 1 .. m
    BY <1>2
  <2>2. \A k : k \notin m + 1 .. m
    BY ONLY m \in Nat
  <2>3. \A k \in m + 1 .. m : t[k] = " "
    BY <2>2
  <2>4. m \in T
    BY <2>1, <2>3
  <2>6. \A j \in 1 .. m : j \in Nat
    BY ONLY m \in Nat
  <2>5. T \subseteq Nat
    BY ONLY <2>6
  <2> QED BY <2>4, <2>5
<1>4. PICK n \in 1 .. m : n \in T /\ \A j \in T : n <= j
  <2>1. \A j \in T : j \in 1 .. m
    OBVIOUS
  <2> HIDE DEF T
  <2> QED BY <1>3, <2>1, LeastNat
<1>5. P(n) /\ n \in 1 .. m
  <2> SUFFICES ASSUME n # 1, t[n] = " " PROVE FALSE
    BY <1>4
  <2>0. n \in 1 .. m
    BY <1>4
  <2>1. n - 1 \in 1 .. m /\ ~(n <= n - 1)
    BY ONLY <2>0, n # 1, m \in Nat
  <2>2. ASSUME NEW k \in (n - 1) + 1 .. m PROVE t[k] = " "
    <3>1. k = n \/ k \in n + 1 .. m
      BY ONLY <2>0, k \in (n - 1) + 1 .. m, m \in Nat
    <3> QED BY <1>4, <3>1
  <2>3. n - 1 \in T
    BY <2>1, <2>2
  <2> HIDE DEF T
  <2> QED BY <1>4, <2>1, <2>3
<1>6. PICK c \in 1 .. m : c = CHOOSE j \in 1 .. m : P(j)
  <2> HIDE DEF P
  <2> QED BY <1>5
<1>7. c \in 1 .. m
  OBVIOUS
<1>8. Stripped(t) = SubSeq(t, 1, c)
  BY <1>2, <1>6 DEF Stripped
<1>9. \A i \in 1 .. c : t[i] \in ToSet(t)
  <2>1. \A i \in 1 .. Len(t) : t[i] \in ToSet(t)
    BY <1>1, ElementOfSeq
  <2>2. \A i \in 1 .. c : i \in 1 .. m
    BY ONLY <1>7, m \in Nat
  <2> QED BY <1>2, <2>1, <2>2
<1>10. SubSeq(t, 1, c) \in Seq(ToSet(t))
  <2>1. 1 \in Int /\ c \in Int
    BY ONLY <1>7, m \in Nat
  <2> QED BY <1>9, <2>1, SubSeqProperties
<1> QED BY <1>1, <1>8, <1>10, TextOf

\* Every parser leaves *end between where it starts and the NUL.
LEMMA ParsersStay ==
  ASSUME Len(line) \in Nat, NEW i \in 1 .. Len(line), NEW arg, NEW failed
  PROVE  /\ Parse(arg, i, failed).end \in i .. Len(line) + 1
         /\ arg \in ListArgs => /\ Parse(arg, i, failed) = ReadList(arg, line, i, failed)
                                /\ Parse(arg, i, failed).val \in Seq(Int)
<1> DEFINE t == line
           D == i .. Len(t) + 1
<1>1. i \in 1 .. Len(t) + 1
  OBVIOUS
<1>2. \A r : r \in OneFrom(t, i) => r.end \in D
  BY DEF OneFrom
<1>3. \A lst : val_enum(lst, t, i).end \in D
  BY EnumStays
<1>4. /\ val_string(t, i).end \in D /\ val_name(t, i).end \in D /\ val_uint(t, i).end \in D
      /\ val_user(t, i).end \in D /\ val_time(t, i).end \in D /\ val_double(t, i).end \in D
      /\ val_track(t, i, failed).end \in D
  <2>1. /\ Strtoul(t, i) \in OneFrom(t, i) /\ val_double(t, i) \in OneFrom(t, i)
        /\ val_track(t, i, failed) \in OneFrom(t, i)
    BY <1>1, StrtoulOne, DoubleOne, TrackOne
  <2>2. val_string(t, i).end \in D /\ val_name(t, i).end \in D
    BY <1>1, TextStays
  <2> QED BY <1>2, <2>1, <2>2 DEF val_uint, val_user, val_time
<1>5. val_tag(t, i, failed).end \in D /\ val_sfilter(t, i, failed).end \in D
  <2>1. (\A x \in DOMAIN TagId : TagId[x] \in Int) /\ (\A x \in DOMAIN FilterId : FilterId[x] \in Int)
    BY CatalogIs
  <2>2. val_tag(t, i, failed) \in OneFrom(t, i) /\ val_sfilter(t, i, failed) \in OneFrom(t, i)
    BY <1>1, <2>1, NamedOne DEF val_tag, val_sfilter
  <2> QED BY <1>2, <2>2
<1>6. ASSUME arg \in ListArgs
      PROVE  Parse(arg, i, failed) = ReadList(arg, t, i, failed)
             /\ ReadList(arg, t, i, failed) \in ListsFrom(t, i)
  <2>1. Parse(arg, i, failed) = ReadList(arg, t, i, failed)
    BY <1>6 DEF ListArgs, Parse, ReadList
  <2>2. /\ TurnsFit(TurnsOf(arg, t, i, failed), t, i)
        /\ ReadList(arg, t, i, failed) = Listed(TurnsOf(arg, t, i, failed), t, i)
    BY <1>1, <1>6, TurnsOfFit
  <2>3. Listed(TurnsOf(arg, t, i, failed), t, i) \in ListsFrom(t, i)
    BY <1>1, <2>2, ListedStays
  <2> QED BY <2>1, <2>2, <2>3
<1>7. CASE arg \in ListArgs
  BY <1>6, <1>7 DEF ListsFrom
<1>8. CASE arg \notin ListArgs
  <2>1. PICK r : r = Parse(arg, i, failed)
    OBVIOUS
  <2>2. \/ r = val_string(t, i) \/ r = val_name(t, i) \/ r = val_uint(t, i) \/ r = val_user(t, i)
        \/ r = val_time(t, i) \/ r = val_double(t, i) \/ r = val_track(t, i, failed)
        \/ r = val_tag(t, i, failed) \/ r = val_sfilter(t, i, failed)
        \/ r = val_enum(rights, t, i) \/ r = val_enum(bools, t, i) \/ r = val_enum(rgtypes, t, i)
    BY <1>8, <2>1 DEF Parse, ListArgs
  <2> HIDE DEF D, t
  <2>3. r.end \in D
    BY <1>3, <1>4, <1>5, <2>2
  <2> QED BY <1>8, <2>1, <2>3 DEF D, t
<1> QED BY <1>7, <1>8

\* What the grammar says at the start of an argument is what the parser reads.
LEMMA MeaningRead ==
  ASSUME IsText(line), NEW i \in 1 .. Len(line), NEW e \in i .. Len(line) + 1,
         At(line, e) \in {" ", NUL}, NEW m \in Meaning, SubSeq(line, i, e - 1) = m.text
  PROVE  Parse(m.arg, i, {}).end = e /\ Parse(m.arg, i, {}).val = m.ids
<1>1. PICK s \in Sentences : m = [arg |-> s.arg, text |-> Text(s), ids |-> Ids(s)]
  BY DEF Meaning
<1>2. PICK arg, items : arg = s.arg /\ items = s.items
  OBVIOUS
<1>3. /\ arg \in ListArgs /\ items \in Seq(ToSet(items)) /\ items # <<>>
      /\ \A k \in DOMAIN items : IsItem(arg, items[k], k = Len(items))
  BY <1>2, SentencesAssumption DEF ListArgs
<1>4. Len(items) \in Nat \ {0} /\ DOMAIN items = 1 .. Len(items)
  BY <1>3, LenProperties, EmptySeq
<1>5. /\ m.arg = arg
      /\ m.text = FlattenSeq([k \in 1 .. Len(items) |-> Piece(arg, items, k)])
      /\ m.ids = FlattenSeq([k \in 1 .. Len(items) |-> ItemIds(arg, items[k])])
  <2>1. m.arg = s.arg /\ m.text = Text(s) /\ m.ids = Ids(s)
    BY <1>1
  <2>2. Text(s) = FlattenSeq([k \in 1 .. Len(items) |-> Piece(arg, items, k)])
    BY <1>2, <1>4 DEF Text, Piece
  <2>3. Ids(s) = FlattenSeq([k \in 1 .. Len(items) |-> ItemIds(arg, items[k])])
    BY <1>2, <1>4 DEF Ids
  <2> QED BY <1>2, <2>1, <2>2, <2>3
<1>A. arg \in ListArgs
  BY <1>3
<1>6. Says(line, i, e, arg, items)
  <2>1. SubSeq(line, i, e - 1) = FlattenSeq([k \in 1 .. Len(items) |-> Piece(arg, items, k)])
    BY <1>5
  <2> QED BY <1>3, <1>4, <2>1 DEF Says
<1>7. Len(line) \in Nat
  BY TextIs
<1>8. i \in 1 .. Len(line) + 1
  <2>1. PICK n \in Nat : n = Len(line)
    BY <1>7
  <2>2. i \in 1 .. n
    BY <2>1
  <2>3. i \in 1 .. n + 1
    BY ONLY <2>2, n \in Nat
  <2> QED BY <2>1, <2>3
<1>B. ReadAs(ReadList(arg, line, i, {}), e, arg, items)
  BY <1>A, <1>6, <1>8, Understood
<1>9. /\ ReadList(arg, line, i, {}).end = e
      /\ ReadList(arg, line, i, {}).val = FlattenSeq([k \in 1 .. Len(items) |-> ItemIds(arg, items[k])])
  BY <1>B DEF ReadAs
<1>10. Parse(arg, i, {}) = ReadList(arg, line, i, {})
  BY <1>A, <1>7, ParsersStay
<1> QED BY <1>5, <1>9, <1>10

LEMMA NoText == IsText(<<>>) /\ AllText(<<>>) /\ 1 \in 1 .. Len(<<>>) + 1
<1>1. <<>> \in Seq({}) /\ NUL \notin {} /\ Len(<<>>) = 0 /\ DOMAIN <<>> = {}
  BY EmptySeq
<1>2. IsText(<<>>)
  BY <1>1, TextOf
<1>3. <<>> \in Seq(ToSet(<<>>))
  BY EmptySeq
<1>4. AllText(<<>>)
  BY <1>1, <1>3 DEF AllText
<1>5. 1 \in 1 .. 0 + 1
  OBVIOUS
<1> QED BY <1>1, <1>2, <1>4, <1>5

LEMMA LineInitInv == IrInit => LineInv
<1> SUFFICES ASSUME IrInit PROVE LineInv
  OBVIOUS
<1>1. line = <<>> /\ pos = 1 /\ strings = <<>> /\ argv = <<>> /\ refused = Nothing
  BY DEF IrInit, Init
<1>2. InText
  BY <1>1, NoText DEF InText
<1>3. DOMAIN argv = {}
  BY <1>1
<1> QED BY <1>1, <1>2, <1>3 DEF LineInv, ArgumentsRead, RefusedRightly, Nothing

\* Another line.
LEMMA LineAnew ==
  ASSUME NEW t, IsText(t), Fresh(t), AllText(strings')
  PROVE  LineInv'
<1>1. line' = t /\ pos' = 1 /\ argv' = <<>> /\ refused' = Nothing
  BY DEF Fresh
<1>2. PICK m \in Nat : m = Len(t)
  BY TextIs
<1>3. 1 \in 1 .. m + 1
  OBVIOUS
<1>4. InText'
  BY <1>1, <1>2, <1>3 DEF InText
<1>5. DOMAIN argv' = {}
  BY <1>1
<1> QED BY <1>1, <1>4, <1>5 DEF LineInv, ArgumentsRead, RefusedRightly, Nothing

\* The line as it is, and other lines to come.
LEMMA LineSame ==
  ASSUME LineInv, UNCHANGED words, AllText(strings')
  PROVE  LineInv'
BY DEF words, LineInv, InText, ArgumentsRead, RefusedRightly, args

LEMMA LineNamed ==
  ASSUME LineInv, CmdInv, duc_cmd, strings' = strings
  PROVE  LineInv'
<1>1. Len(line) \in Nat /\ IsText(line) /\ AllText(strings) /\ RefusedRightly
  BY TextIs DEF LineInv, InText
<1>2. line' = line /\ argv' = argv /\ refused' = refused
  BY DEF duc_cmd
<1>3. argv = <<>>
  BY DEF duc_cmd, CmdInv, Owned
<1>4. pos' \in 1 .. Len(line) + 1
  <2>1. pos \in 1 .. Len(line) + 1
    BY DEF LineInv, InText
  <2>2. PICK n \in Nat : n = Len(line)
    BY <1>1
  <2>3. 1 \in 1 .. n + 1
    OBVIOUS
  <2>4. PICK start : start = Span(line, 1, Blank)
    OBVIOUS
  <2>5. start \in 1 .. Len(line) + 1
    <3>1. NUL \notin Blank
      BY DEF NUL, Blank
    <3> QED BY <1>1, <2>2, <2>3, <2>4, <3>1, Spans
  <2>6. val_name(line, start).end \in start .. Len(line) + 1
    BY <1>1, <2>5, TextStays
  <2>7. PICK e : e = val_name(line, start).end
    OBVIOUS
  <2>8. start \in 1 .. n + 1 /\ e \in start .. n + 1
    BY <2>2, <2>5, <2>6, <2>7
  <2>9. e \in 1 .. n + 1
    BY ONLY <2>8, n \in Nat
  <2>10. pos' = pos \/ pos' = e
    BY <2>4, <2>7 DEF duc_cmd
  <2> QED BY <2>1, <2>2, <2>9, <2>10
<1>5. InText'
  BY <1>1, <1>2, <1>4 DEF InText
<1>6. ArgumentsRead' /\ RefusedRightly'
  BY <1>1, <1>2, <1>3 DEF ArgumentsRead, RefusedRightly
<1> QED BY <1>5, <1>6 DEF LineInv

\* Where the next argument is looked for.
LEMMA NextIs ==
  ASSUME InText
  PROVE  /\ Span(line, pos, Blank) \in 1 .. Len(line) + 1
         /\ At(line, Span(line, pos, Blank)) # NUL =>
              /\ Span(line, pos, Blank) \in 1 .. Len(line)
              /\ At(line, Span(line, pos, Blank)) \notin {" ", NUL}
<1>1. PICK n \in Nat : n = Len(line)
  BY TextIs DEF InText
<1>2. PICK next : next = Span(line, pos, Blank)
  OBVIOUS
<1>3. pos \in 1 .. n + 1
  BY <1>1 DEF InText
<1>4. next \in pos .. n + 1 /\ At(line, next) # " "
  <2>1. NUL \notin Blank
    BY DEF NUL, Blank
  <2> QED BY <1>1, <1>2, <1>3, <2>1, Spans DEF Blank
<1>5. next \in 1 .. n + 1
  <2>1. next \in pos .. n + 1
    BY <1>4
  <2> QED BY ONLY <1>3, <2>1, n \in Nat
<1>6. ASSUME At(line, next) # NUL PROVE next \in 1 .. n
  <2>1. next <= n
    BY <1>1, <1>6 DEF At
  <2> QED BY ONLY <1>5, <2>1, n \in Nat
<1> QED BY <1>1, <1>2, <1>4, <1>5, <1>6

LEMMA LineArgMissing ==
  ASSUME LineInv, ArgMissing, strings' = strings
  PROVE  LineInv'
<1>1. UNCHANGED <<line, cmd, argv, refused>> /\ pos' = Span(line, pos, Blank)
  BY DEF ArgMissing
<1>2. pos' \in 1 .. Len(line) + 1
  BY <1>1, NextIs DEF LineInv
<1>3. InText'
  BY <1>1, <1>2 DEF LineInv, InText
<1> QED BY <1>1, <1>3 DEF LineInv, ArgumentsRead, RefusedRightly, args

LEMMA LineArgParsed ==
  ASSUME LineInv, CmdInv, ArgParsed, strings' = strings
  PROVE  LineInv'
<1>1. /\ IsText(line) /\ AllText(strings) /\ Len(line) \in Nat
      /\ line' = line /\ cmd' = cmd
  BY TextIs DEF LineInv, InText, ArgParsed
<1>2. PICK next : next = Span(line, pos, Blank)
  OBVIOUS
<1>3. next \in 1 .. Len(line) /\ At(line, next) \notin {" ", NUL}
  BY <1>2, NextIs DEF LineInv, ArgParsed
<1>4. PICK k : k = Len(argv) + 1
  OBVIOUS
<1>5. PICK arg, failed, r :
        arg = args[k] /\ r = Parse(arg, next, failed) /\ ArgRead(arg, next, failed = {}, r)
  BY <1>2, <1>4 DEF ArgParsed
<1>6. r.end \in next .. Len(line) + 1 /\ (arg \in ListArgs => r.val \in Seq(Int))
  BY <1>1, <1>3, <1>5, ParsersStay
<1>7. CASE /\ At(line, r.end) \in {" ", NUL} /\ pos' = r.end /\ refused' = refused
           /\ argv' = Append(argv, [val |-> r.val, known |-> (failed = {}),
                                    text |-> SubSeq(line, next, r.end - 1)])
  <2> DEFINE a == [val |-> r.val, known |-> (failed = {}), text |-> SubSeq(line, next, r.end - 1)]
  <2>1. /\ DOMAIN argv' = 1 .. Len(argv) + 1 /\ argv'[k] = a
        /\ DOMAIN argv = 1 .. Len(argv) /\ Len(argv) \in Nat
        /\ \A j \in 1 .. Len(argv) : argv'[j] = argv[j]
    <3>1. argv' = Append(argv, a)
      BY <1>7
    <3> HIDE DEF a
    <3> QED BY <1>4, <3>1, Appending DEF CmdInv, Shapes
  <2>2. \A j \in DOMAIN argv' : j \in DOMAIN argv \/ j = k
    <3>1. PICK c \in Nat : c = Len(argv)
      BY <2>1
    <3>2. \A j \in 1 .. c + 1 : j \in 1 .. c \/ j = c + 1
      BY ONLY c \in Nat
    <3> QED BY <1>4, <2>1, <3>1, <3>2
  <2>3. \A j \in DOMAIN argv : argv'[j] = argv[j]
    BY <2>1
  <2>4. args' = args
    BY <1>1 DEF args
  <2>5. ASSUME NEW m \in Meaning, arg = m.arg, failed = {}, a.text = m.text
        PROVE  r.val = m.ids
    <3>1. SubSeq(line, next, r.end - 1) = m.text /\ r = Parse(m.arg, next, {})
      BY <1>5, <2>5
    <3>2. At(line, r.end) \in {" ", NUL}
      BY <1>7
    <3> QED BY <1>1, <1>3, <1>6, <3>1, <3>2, MeaningRead
  <2>6. a.val = r.val /\ a.known = (failed = {})
    OBVIOUS
  <2> HIDE DEF a
  <2>7. ArgumentsRead'
    <3>1. ASSUME NEW j \in DOMAIN argv', args'[j] \in ListArgs PROVE argv'[j].val \in Seq(Int)
      BY <1>5, <1>6, <2>1, <2>2, <2>3, <2>4, <2>6, <3>1 DEF LineInv, ArgumentsRead
    <3>2. ASSUME NEW j \in DOMAIN argv', NEW m \in Meaning, args'[j] = m.arg, argv'[j].known,
                 argv'[j].text = m.text
          PROVE  argv'[j].val = m.ids
      <4>1. CASE j \in DOMAIN argv
        BY <2>3, <2>4, <3>2, <4>1 DEF LineInv, ArgumentsRead
      <4>2. CASE j = k
        BY <1>5, <2>1, <2>4, <2>5, <2>6, <3>2, <4>2
      <4> QED BY <2>2, <4>1, <4>2
    <3> QED BY <3>1, <3>2 DEF ArgumentsRead
  <2>8. pos' \in 1 .. Len(line) + 1
    <3>1. PICK n \in Nat : n = Len(line)
      BY <1>1
    <3>2. PICK e : e = r.end
      OBVIOUS
    <3>3. next \in 1 .. n /\ e \in next .. n + 1
      BY <1>3, <1>6, <3>1, <3>2
    <3>4. e \in 1 .. n + 1
      BY ONLY <3>3, n \in Nat
    <3> QED BY <1>7, <3>1, <3>2, <3>4
  <2>9. InText'
    BY <1>1, <2>8 DEF InText
  <2> QED BY <1>7, <2>7, <2>9 DEF LineInv, RefusedRightly
<1>8. CASE /\ r.end = next \/ At(line, r.end) \notin {" ", NUL}
           /\ refused' = [arg |-> arg, known |-> (failed = {}),
                           text |-> SubSeq(line, next, WordEnd(line, next) - 1)]
           /\ UNCHANGED <<argv, pos>>
  <2>1. PICK e : e = WordEnd(line, next)
    OBVIOUS
  <2>2. PICK n \in Nat : n = Len(line)
    BY <1>1
  <2>3. next \in 1 .. n + 1
    <3>1. next \in 1 .. n
      BY <1>3, <2>2
    <3> QED BY ONLY <3>1, n \in Nat
  <2>4. e \in next .. Len(line) + 1 /\ At(line, e) \in {" ", NUL}
    BY <1>1, <2>1, <2>2, <2>3, WordEnds
  <2>5. ASSUME NEW m \in Meaning, refused'.arg = m.arg, refused'.known PROVE refused'.text # m.text
    <3> SUFFICES ASSUME refused'.text = m.text PROVE FALSE
      OBVIOUS
    <3>1. SubSeq(line, next, e - 1) = m.text /\ arg = m.arg /\ failed = {}
      BY <1>8, <2>1, <2>5
    <3>2. Parse(m.arg, next, {}).end = e
      BY <1>1, <1>3, <2>4, <3>1, MeaningRead
    <3>3. r.end = e
      BY <1>5, <3>1, <3>2
    <3>4. e = next
      BY <1>8, <2>4, <3>3
    <3> QED BY <1>3, <2>4, <3>4
  <2>6. RefusedRightly'
    BY <2>5 DEF RefusedRightly
  <2>7. InText' /\ ArgumentsRead'
    BY <1>1, <1>8 DEF LineInv, InText, ArgumentsRead, args
  <2> QED BY <2>6, <2>7 DEF LineInv
<1> QED
  <2>1. ArgRead(arg, next, failed = {}, r)
    BY <1>5
  <2> QED BY <1>7, <1>8, <2>1 DEF ArgRead, Refuse

LEMMA LineStep == IrInv /\ CmdInv /\ LineInv /\ [IrNext]_irvars => LineInv'
<1> SUFFICES ASSUME IrInv, CmdInv, LineInv, [IrNext]_irvars PROVE LineInv'
  OBVIOUS
<1>1. AllText(strings) /\ IsText(line)
  BY DEF LineInv, InText
<1>2. strings' = strings => AllText(strings')
  BY <1>1
<1>3. ASSUME CommandStep, UNCHANGED loop PROVE LineInv'
  <2>1. strings' = strings
    BY <1>3 DEF loop
  <2>2. ArgsEnd \/ Request \/ NoRequest \/ c_open \/ c_raw => UNCHANGED words
    BY DEF ArgsEnd, Request, NoRequest, c_open, c_raw
  <2> QED
    BY <1>2, <1>3, <2>1, <2>2, LineSame, LineNamed, LineArgMissing, LineArgParsed DEF CommandStep
<1>4. ASSUME DudlcStep, UNCHANGED loop PROVE LineInv'
  <2>1. strings' = strings
    BY <1>4 DEF loop
  <2>2. CASE Return \/ main
    <3>1. \E t \in Lines \cup {<<>>} : Fresh(t)
      BY <2>2 DEF Return, main
    <3> QED BY <1>2, <2>1, <3>1, NoText, LinesAssumption, LineAnew
  <2>3. CASE tty_executor
    <3>1. PICK t \in Lines \ {<<>>} : Fresh(Stripped(t))
      BY <2>3 DEF tty_executor
    <3>2. IsText(Stripped(t))
      BY LinesAssumption, StrippedText
    <3> QED BY <1>2, <2>1, <3>1, <3>2, LineAnew
  <2>4. CASE MainLoop
    BY <1>2, <2>1, <2>4, LineSame DEF MainLoop
  <2> QED BY <1>4, <2>2, <2>3, <2>4 DEF DudlcStep
<1>5. CASE NextString
  <2>1. strings # <<>> /\ Fresh(Head(strings)) /\ strings' = Tail(strings)
    BY <1>5 DEF NextString
  <2>2. strings \in Seq(ToSet(strings)) /\ \A k \in DOMAIN strings : IsText(strings[k])
    BY <1>1 DEF AllText
  <2>3. /\ Head(strings) = strings[1] /\ 1 \in DOMAIN strings
        /\ Tail(strings) \in Seq(ToSet(strings)) /\ DOMAIN Tail(strings) = 1 .. Len(strings) - 1
        /\ \A j \in 1 .. Len(strings) - 1 : Tail(strings)[j] = strings[j + 1]
    <3>1. Len(Tail(strings)) = Len(strings) - 1 /\ Len(strings) \in Nat /\ Len(strings) # 0
      BY <2>1, <2>2, HeadTailProperties, LenProperties, EmptySeq
    <3>2. DOMAIN strings = 1 .. Len(strings)
      BY <2>2, LenProperties
    <3>3. Tail(strings) \in Seq(ToSet(strings))
      BY <2>1, <2>2, HeadTailProperties
    <3>4. DOMAIN Tail(strings) = 1 .. Len(Tail(strings))
      BY <3>3, LenProperties
    <3>5. 1 \in 1 .. Len(strings)
      BY <3>1
    <3>6. \A j \in 1 .. Len(strings) - 1 : Tail(strings)[j] = strings[j + 1]
      BY <2>1, <2>2, <3>1, HeadTailProperties
    <3>7. Head(strings) = strings[1]
      BY <2>1, <2>2, HeadTailProperties
    <3> QED BY <3>1, <3>2, <3>3, <3>4, <3>5, <3>6, <3>7
  <2>4. ASSUME NEW j \in DOMAIN Tail(strings) PROVE IsText(Tail(strings)[j])
    <3>1. PICK n \in Nat : n = Len(strings)
      BY <2>2, LenProperties
    <3>2. j \in 1 .. n - 1
      BY <2>3, <3>1
    <3>3. j + 1 \in 1 .. n
      BY ONLY <3>2, n \in Nat
    <3>4. j + 1 \in DOMAIN strings
      BY <2>2, <3>1, <3>3, LenProperties
    <3> QED BY <2>2, <2>3, <3>1, <3>2, <3>4
  <2>5. Tail(strings) \in Seq(ToSet(Tail(strings)))
    BY <2>3, SeqOfRange DEF Range, ToSet
  <2>6. AllText(strings')
    BY <2>1, <2>4, <2>5 DEF AllText
  <2> QED BY <2>1, <2>2, <2>3, <2>6, LineAnew
<1>6. CASE dudl_cmd
  <2>1. \E t \in {line, <<>>} : Fresh(t)
    BY <1>6 DEF dudl_cmd
  <2>2. strings' = strings
    BY <1>6 DEF dudl_cmd
  <2> QED BY <1>1, <1>2, <2>1, <2>2, NoText, LineAnew
<1>7. CASE NextCode
  <2>1. UNCHANGED words
    BY <1>7 DEF NextCode, vars
  <2>2. strings' = strings \/ (l_conf # 0 /\ strings' = Config[l_conf])
    BY <1>7 DEF NextCode
  <2>3. l_conf # 0 => l_conf \in DOMAIN Config
    <3>1. PICK n \in Nat : n = Len(Config) /\ DOMAIN Config = 1 .. n
      BY IrAssumption
    <3>2. file \in 1 .. n /\ l_conf \in 0 .. file
      BY <3>1 DEF IrInv, Typed
    <3>3. l_conf # 0 => l_conf \in 1 .. n
      BY ONLY <3>2, n \in Nat
    <3> QED BY <3>1, <3>3
  <2>4. \A v \in DOMAIN Config : AllText(Config[v])
    BY IrAssumption DEF AllText
  <2>5. AllText(strings')
    BY <1>2, <2>2, <2>3, <2>4
  <2> QED BY <2>1, <2>5, LineSame
<1>8. CASE UNCHANGED <<words, strings>>
  BY <1>2, <1>8, LineSame
<1>9. Press \/ LircdDies \/ ServerActs \/ sig_hup \/ ReopenLirc \/ ReadConfig \/ ConfigDone
      \/ LastString \/ Reconnect \/ Select \/ UNCHANGED irvars => UNCHANGED <<words, strings>>
  BY DEF Press, LircdDies, ServerActs, sig_hup, ReopenLirc, ReadConfig, ConfigDone, LastString,
     Reconnect, Select, vars, loop, irvars
<1> QED
  BY <1>3, <1>4, <1>5, <1>6, <1>7, <1>8, <1>9 DEF IrNext, LoopStep

LEMMA LineInvariant == IrSpec => []LineInv
BY LineInitInv, LineStep, IrInvariant, CommandInvariant, PTL DEF IrSpec

(***************************************************************************)
(* Whatever is read, the parsers of parseval.c and idlist.c stay inside    *)
(* the text they were given, its NUL included: from one argument to the    *)
(* next, for every line and every answer of the server.                    *)
(***************************************************************************)
THEOREM ParsersStayInside == IrSpec => []InText
<1>1. LineInv => InText
  BY DEF LineInv
<1> QED BY <1>1, LineInvariant, PTL

(***************************************************************************)
(* A list that the comments of parseval.c and idlist.c allow is read for   *)
(* what it means, and never refused, unless a lookup fails: whatever list, *)
(* whatever stands before and after it, however long it is.                *)
(***************************************************************************)
THEOREM ListsAreUnderstood == IrSpec => []ListsUnderstood
<1>1. LineInv => ListsUnderstood
  BY DEF LineInv, ArgumentsRead, RefusedRightly, ListsUnderstood
<1> QED BY <1>1, LineInvariant, PTL

(***************************************************************************)
(* Commands over a list.                                                   *)
(***************************************************************************)
\* idl_iterate stops at the first negative id, not before, and not after.
LEMMA IteratedIs ==
  ASSUME NEW ids \in Seq(Int)
  PROVE  /\ Iterated(ids) \in Seq(Int) /\ Len(Iterated(ids)) <= Len(ids)
         /\ \A n \in 1 .. Len(Iterated(ids)) : Iterated(ids)[n] = ids[n]
         /\ \A n \in 1 .. Len(ids) :
              (\A i \in 1 .. n : ids[i] >= 0) => n <= Len(Iterated(ids))
<1>1. PICK m \in Nat : m = Len(ids)
  BY LenProperties
<1>2. \A i \in 1 .. m : ids[i] \in Int
  BY <1>1, ElementOfSeq
<1> DEFINE I == {i \in 1 .. m : ids[i] < 0}
<1>3. PICK cut : cut = IF I # {} THEN Min(I) ELSE 0
  OBVIOUS
<1>4. Iterated(ids) = IF cut = 0 THEN ids ELSE SubSeq(ids, 1, cut - 1)
  BY <1>1, <1>3 DEF Iterated, SelectInSeq
<1>5. CASE I = {}
  <2>1. Iterated(ids) = ids
    BY <1>3, <1>4, <1>5
  <2> QED BY <1>1, <2>1
<1>6. CASE I # {}
  <2>1. \A i \in I : i \in Nat
    OBVIOUS
  <2>2. PICK c \in I : \A i \in I : c <= i
    <3> HIDE DEF I
    <3> QED BY <1>6, <2>1, LeastNat
  <2>3. cut \in I /\ \A i \in I : cut <= i
    <3> HIDE DEF I
    <3> QED BY <1>3, <1>6, <2>2 DEF Min
  <2>4. cut \in 1 .. m /\ ids[cut] < 0
    BY <2>3
  <2>5. Iterated(ids) = SubSeq(ids, 1, cut - 1)
    BY <1>4, <2>4
  <2>6. \A i \in 1 .. cut - 1 : i \in 1 .. m
    BY ONLY <2>4, m \in Nat
  <2>7. \A i \in 1 .. cut - 1 : ids[i] \in Int
    BY <1>2, <2>6
  <2>8. 1 \in Int /\ cut - 1 \in Int
    BY ONLY <2>4, m \in Nat
  <2>9. /\ Iterated(ids) \in Seq(Int)
        /\ Len(Iterated(ids)) = IF 1 <= cut - 1 THEN cut - 1 - 1 + 1 ELSE 0
        /\ \A i \in 1 .. cut - 1 - 1 + 1 : Iterated(ids)[i] = ids[1 + i - 1]
    BY <2>5, <2>7, <2>8, SubSeqProperties
  <2>10. Len(Iterated(ids)) = cut - 1 /\ cut - 1 <= m
    <3>1. PICK l : l = Len(Iterated(ids))
      OBVIOUS
    <3>2. l = IF 1 <= cut - 1 THEN cut - 1 - 1 + 1 ELSE 0
      BY <2>9, <3>1
    <3>3. cut \in 1 .. m
      BY <2>4
    <3>4. l = cut - 1 /\ cut - 1 <= m
      BY ONLY <3>2, <3>3, m \in Nat
    <3> QED BY <3>1, <3>4
  <2>11. \A i \in 1 .. cut - 1 : i \in 1 .. cut - 1 - 1 + 1 /\ 1 + i - 1 = i
    BY ONLY <2>8
  <2>12. \A i \in 1 .. cut - 1 : Iterated(ids)[i] = ids[i]
    BY <2>9, <2>11
  <2>13. ASSUME NEW n \in 1 .. m, \A i \in 1 .. n : ids[i] >= 0 PROVE n <= cut - 1
    <3>1. cut \notin 1 .. n
      BY <1>2, <2>4, <2>13
    <3>2. cut \in 1 .. m
      BY <2>4
    <3> QED BY ONLY <3>1, <3>2, n \in 1 .. m, m \in Nat
  <2> QED BY <1>1, <2>9, <2>10, <2>12, <2>13
<1> QED BY <1>5, <1>6

\* The j-th of a handler's calls was made for the n-th item wanted, and went well.
WasMade(q, want, seq, n, j) ==
  LET k == (n - 1) * Len(seq) + j
  IN /\ k \in DOMAIN q /\ q[k].call = seq[j] /\ q[k].good
     /\ q[k].args = want[n]

\* For m items all was done, for the one after them the calls before the s-th.
Behind(q, want, seq, m, s) ==
  /\ Len(q) = m * Len(seq) + s - 1
  /\ \A n \in 1 .. m : \A j \in 1 .. Len(seq) : WasMade(q, want, seq, n, j)
  /\ \A j \in 1 .. s - 1 : WasMade(q, want, seq, m + 1, j)

\* The others are still to be done.
Ahead(p, want, m) ==
  /\ p \in Seq(Range(p)) /\ Len(p) = Len(want) - m
  /\ \A i \in 1 .. Len(p) : p[i] = want[m + i]

IsMade(e, seq, s, item) == e.call = seq[s] /\ e.good /\ e.args = item

LEMMA StillMade ==
  ASSUME NEW q, q \in Seq(Range(q)), NEW e, NEW want, NEW seq, NEW n, NEW j, WasMade(q, want, seq, n, j)
  PROVE  WasMade(Append(q, e), want, seq, n, j)
<1>1. PICK k : k = (n - 1) * Len(seq) + j
  OBVIOUS
<1>2. PICK c \in Nat : c = Len(q)
  BY LenProperties
<1>3. k \in 1 .. c
  BY <1>1, <1>2, Appending DEF WasMade
<1>4. k \in 1 .. c + 1
  BY ONLY <1>3, c \in Nat
<1>5. k \in DOMAIN Append(q, e) /\ Append(q, e)[k] = q[k]
  BY <1>2, <1>3, <1>4, Appending
<1> QED BY <1>1, <1>5 DEF WasMade

LEMMA NowMade ==
  ASSUME NEW q, q \in Seq(Range(q)), NEW e, NEW want, NEW seq, NEW m \in Nat, NEW s \in 1 .. Len(seq),
         Len(seq) \in Nat, Behind(q, want, seq, m, s), IsMade(e, seq, s, want[m + 1])
  PROVE  /\ s # Len(seq) => Behind(Append(q, e), want, seq, m, s + 1)
         /\ s = Len(seq) => Behind(Append(q, e), want, seq, m + 1, 1)
<1>0. PICK c \in Nat, l \in Nat : c = Len(q) /\ l = Len(seq)
  BY LenProperties
<1>A. PICK ml : ml = m * l
  OBVIOUS
<1>1. c = Len(q) /\ l = Len(seq) /\ ml = m * l
  BY <1>0, <1>A
<1>2. c = ml + s - 1 /\ s \in 1 .. l
  BY <1>1 DEF Behind
<1>3. ml \in Nat
  <2>1. ml = m * l
    BY <1>1
  <2> QED BY ONLY <2>1, m \in Nat, l \in Nat
<1>4. PICK p : p = Append(q, e)
  OBVIOUS
<1>5. Len(p) = c + 1 /\ DOMAIN p = 1 .. c + 1 /\ p[c + 1] = e
  BY <1>1, <1>4, Appending
<1>6. (m + 1 - 1) * l + s = c + 1 /\ (m + 1) * l = ml + l /\ c + 1 \in 1 .. c + 1
  <2>1. ml = m * l
    BY <1>1
  <2>2. m + 1 - 1 = m
    BY ONLY m \in Nat
  <2>3. ml + s = c + 1
    BY ONLY <1>2, c \in Nat, l \in Nat, <1>3
  <2>4. (m + 1) * l = m * l + l
    BY ONLY m \in Nat, l \in Nat
  <2>5. c + 1 \in 1 .. c + 1
    BY ONLY c \in Nat
  <2> QED BY <2>1, <2>2, <2>3, <2>4, <2>5
<1>7. WasMade(p, want, seq, m + 1, s)
  BY <1>1, <1>5, <1>6 DEF WasMade, IsMade
<1>8. /\ \A n \in 1 .. m : \A j \in 1 .. l : WasMade(p, want, seq, n, j)
      /\ \A j \in 1 .. s - 1 : WasMade(p, want, seq, m + 1, j)
  BY <1>1, <1>4, StillMade DEF Behind
<1>9. \A j \in 1 .. s : WasMade(p, want, seq, m + 1, j)
  <2>1. \A j \in 1 .. s : j \in 1 .. s - 1 \/ j = s
    BY ONLY <1>2, l \in Nat
  <2> QED BY <1>7, <1>8, <2>1
<1>10. Len(p) = ml + (s + 1) - 1 /\ s + 1 - 1 = s
  <2>1. c + 1 = ml + (s + 1) - 1 /\ s + 1 - 1 = s
    BY ONLY <1>2, <1>3, l \in Nat, c \in Nat
  <2> QED BY <1>5, <2>1
<1>11. Behind(p, want, seq, m, s + 1)
  BY <1>1, <1>8, <1>9, <1>10 DEF Behind
<1>12. ASSUME s = l PROVE Behind(p, want, seq, m + 1, 1)
  <2>1. \A n \in 1 .. m + 1 : n \in 1 .. m \/ n = m + 1
    BY ONLY m \in Nat
  <2>2. \A n \in 1 .. m + 1 : \A j \in 1 .. l : WasMade(p, want, seq, n, j)
    BY <1>8, <1>9, <1>12, <2>1
  <2>3. \A j : j \notin 1 .. 1 - 1
    OBVIOUS
  <2>4. c + 1 = ml + l + 1 - 1
    BY ONLY <1>2, <1>3, <1>12, c \in Nat, l \in Nat
  <2>5. Len(p) = (m + 1) * l + 1 - 1
    BY <1>5, <1>6, <2>4
  <2> QED BY <1>1, <2>2, <2>3, <2>5 DEF Behind
<1> QED BY <1>1, <1>4, <1>11, <1>12

LEMMA NextAhead ==
  ASSUME NEW p, NEW want, NEW m \in Nat, Len(want) \in Nat, Ahead(p, want, m), p # <<>>
  PROVE  /\ m + 1 <= Len(want) /\ Head(p) = want[m + 1]
         /\ Ahead(Tail(p), want, m + 1)
<1>1. PICK c \in Nat, l \in Nat : c = Len(p) /\ l = Len(want)
  BY LenProperties DEF Ahead
<1>2. c # 0 /\ c = l - m
  BY <1>1, EmptySeq DEF Ahead
<1>3. 1 \in 1 .. c /\ m + 1 <= l /\ c - 1 = l - (m + 1)
  BY ONLY <1>2, c \in Nat, l \in Nat, m \in Nat
<1>4. Head(p) = want[m + 1]
  <2>1. Head(p) = p[1]
    OBVIOUS
  <2> QED BY <1>1, <1>3, <2>1 DEF Ahead
<1>5. /\ Tail(p) \in Seq(Range(p)) /\ Len(Tail(p)) = c - 1
      /\ \A i \in 1 .. Len(Tail(p)) : Tail(p)[i] = p[i + 1]
  BY <1>1, HeadTailProperties DEF Ahead
<1>6. Tail(p) \in Seq(Range(Tail(p)))
  BY <1>5, SeqOfRange
<1>7. ASSUME NEW i \in 1 .. c - 1 PROVE Tail(p)[i] = want[m + 1 + i]
  <2>1. i + 1 \in 1 .. c /\ m + (i + 1) = m + 1 + i
    BY ONLY i \in 1 .. c - 1, c \in Nat, m \in Nat
  <2>2. p[i + 1] = want[m + (i + 1)]
    BY <1>1, <2>1 DEF Ahead
  <2> QED BY <1>5, <2>1, <2>2
<1>8. Len(Tail(p)) = Len(want) - (m + 1)
  BY <1>1, <1>3, <1>5
<1>9. Ahead(Tail(p), want, m + 1)
  BY <1>5, <1>6, <1>7, <1>8 DEF Ahead
<1> QED BY <1>1, <1>3, <1>4, <1>9

LEMMA NothingAhead ==
  ASSUME NEW p, p = <<>>, NEW want, Len(want) \in Nat, NEW m \in Nat, Ahead(p, want, m)
  PROVE  m = Len(want)
<1>1. PICK l \in Nat : l = Len(want)
  OBVIOUS
<1>2. 0 = l - m
  BY <1>1, EmptySeq DEF Ahead
<1> QED BY <1>1, <1>2

\* The plan of a handler has an item for each id, or pair of ids, that is
\* reached: in the order of the list, if there is but one.
ValOf(v, k, n) == <<"value", v[k].val[n]>>

PlanFits(c, v, p) ==
  /\ p \in Seq(Range(p))
  /\ handlers[c].how = "one" => Len(p) = 1
  /\ handlers[c].how = "each" => \A n \in Reached(v[1].val) :
       n \in 1 .. Len(p) /\ p[n][1] = ValOf(v, 1, n)
  /\ handlers[c].how = "pairs" => \A n \in Reached(v[1].val), i \in Reached(v[2].val) :
       \E k \in 1 .. Len(p) : p[k] = <<ValOf(v, 1, n), ValOf(v, 2, i)>>

\* So far all has gone well: what was tried is the beginning of what was to be
\* done, and the plan is the rest of it.
InTurn ==
  pc = "run" /\ said = {} /\ cmd \in DOMAIN handlers =>
    /\ PlanFits(cmd, argv, Plan)
    /\ \E m \in 0 .. Len(Plan) : /\ Ahead(plan, Plan, m)
                                 /\ Behind(tried, Plan, handlers[cmd].calls, m, step)

DoneInv == InTurn /\ QuietMeansDone

\* What QuietMeansDone says of the requests.
Asked(q, seq, k, j) == k \in DOMAIN q /\ q[k].call = seq[j] /\ q[k].good
OneDone(q, seq) == \A j \in DOMAIN seq : Asked(q, seq, j, j)
EachDone(v, q, seq) ==
  \A j \in DOMAIN seq, n \in Reached(v[1].val) :
    LET k == (n - 1) * Len(seq) + j
    IN Asked(q, seq, k, j) /\ q[k].args[1] = ValOf(v, 1, n)
PairsDone(v, q, seq) ==
  \A j \in DOMAIN seq, n \in Reached(v[1].val), i \in Reached(v[2].val) :
    \E k \in DOMAIN q : Asked(q, seq, k, j) /\ q[k].args = <<ValOf(v, 1, n), ValOf(v, 2, i)>>

AllDone(c, v, q) ==
  /\ handlers[c].how = "one" => OneDone(q, handlers[c].calls)
  /\ handlers[c].how = "each" => EachDone(v, q, handlers[c].calls)
  /\ handlers[c].how = "pairs" => PairsDone(v, q, handlers[c].calls)

Quiet == Executed /\ said = {} /\ cmd \in DOMAIN handlers \ {"status"}

LEMMA QuietIs ==
  /\ QuietMeansDone <=> (Quiet => AllDone(cmd, argv, tried))
  /\ QuietMeansDone' <=> (Quiet' => AllDone(cmd, argv, tried)')
BY DEF QuietMeansDone, Quiet, AllDone, OneDone, EachDone, PairsDone, Asked, ValOf

LEMMA SameWords ==
  ASSUME UNCHANGED words
  PROVE  cmd' = cmd /\ argv' = argv /\ Plan' = Plan
<1>1. cmd' = cmd /\ argv' = argv
  BY DEF words
<1>2. Plan' = Plan
  BY <1>1 DEF Plan, Passed, args
<1> QED BY <1>1, <1>2

LEMMA ListKinds == \A x \in DOMAIN ArgKind : ArgKind[x] = "list" => x \in ListArgs
<1> SUFFICES ASSUME NEW x \in DOMAIN ArgKind, ArgKind[x] = "list" PROVE x \in ListArgs
  OBVIOUS
<1>1. x \in TextArgs \cup ListArgs \cup IntArgs
  BY DEF ArgKind
<1> QED BY <1>1 DEF ArgKind

LEMMA HandlerIs ==
  ASSUME NEW c \in DOMAIN handlers
  PROVE  /\ c \notin Special /\ c # "" /\ c \in DOMAIN cmds_top
         /\ Len(handlers[c].calls) \in Nat \ {0}
         /\ DOMAIN handlers[c].calls = 1 .. Len(handlers[c].calls)
         /\ cmds_top[c] \in Seq(DOMAIN ArgKind)
         /\ handlers[c].how \in {"each", "pairs"} =>
              1 \in 1 .. Len(cmds_top[c]) /\ cmds_top[c][1] \in ListArgs
         /\ handlers[c].how = "pairs" => 2 \in 1 .. Len(cmds_top[c]) /\ cmds_top[c][2] \in ListArgs
<1>1. c \notin Special /\ c # "" /\ c \in DOMAIN cmds_top
  BY TablesFit
<1>2. handlers[c].calls \in Seq(DOMAIN calls) \ {<<>>}
  BY TablesFit
<1>3. Len(handlers[c].calls) \in Nat \ {0} /\ DOMAIN handlers[c].calls = 1 .. Len(handlers[c].calls)
  BY <1>2, EmptySeq, LenProperties
<1>4. cmds_top[c] \in Seq(DOMAIN ArgKind)
  BY <1>1, TablesFit
<1>5. ASSUME handlers[c].how \in {"each", "pairs"}
      PROVE  1 \in 1 .. Len(cmds_top[c]) /\ cmds_top[c][1] \in ListArgs
  <2>1. cmds_top[c] # <<>> /\ ArgKind[cmds_top[c][1]] = "list"
    BY <1>5, TablesFit
  <2>2. Len(cmds_top[c]) \in Nat \ {0}
    BY <1>4, <2>1, EmptySeq, LenProperties
  <2>3. 1 \in 1 .. Len(cmds_top[c])
    BY <2>2
  <2>4. cmds_top[c][1] \in DOMAIN ArgKind
    BY <1>4, <2>3, ElementOfSeq
  <2> QED BY <2>1, <2>3, <2>4, ListKinds
<1>6. ASSUME handlers[c].how = "pairs"
      PROVE  2 \in 1 .. Len(cmds_top[c]) /\ cmds_top[c][2] \in ListArgs
  <2>1. Len(cmds_top[c]) = 2 /\ ArgKind[cmds_top[c][2]] = "list"
    BY <1>6, TablesFit
  <2>2. 2 \in 1 .. Len(cmds_top[c])
    BY <2>1
  <2>3. cmds_top[c][2] \in DOMAIN ArgKind
    BY <1>4, <2>2, ElementOfSeq
  <2> QED BY <2>1, <2>2, <2>3, ListKinds
<1> QED BY <1>1, <1>3, <1>4, <1>5, <1>6

\* When nothing is left to do, all was done.
LEMMA AllMade ==
  ASSUME cmd \in DOMAIN handlers, PlanFits(cmd, argv, Plan), NEW q, NEW s,
         Behind(q, Plan, handlers[cmd].calls, Len(Plan), s)
  PROVE  AllDone(cmd, argv, q)
<1>1. PICK seq : seq = handlers[cmd].calls
  OBVIOUS
<1>2. PICK want : want = Plan
  OBVIOUS
<1>3. Len(seq) \in Nat /\ DOMAIN seq = 1 .. Len(seq)
  BY <1>1, HandlerIs
<1>4. PICK l \in Nat : l = Len(want)
  BY <1>2, LenProperties DEF PlanFits
<1>5. PICK c \in Nat : c = Len(seq)
  BY <1>3
<1>6. \A n \in 1 .. l : \A j \in 1 .. c : WasMade(q, want, seq, n, j)
  BY <1>1, <1>2, <1>4, <1>5 DEF Behind
<1>7. ASSUME handlers[cmd].how = "one" PROVE OneDone(q, seq)
  <2> SUFFICES ASSUME NEW j \in DOMAIN seq PROVE Asked(q, seq, j, j)
    BY DEF OneDone
  <2>1. l = 1
    BY <1>2, <1>4, <1>7 DEF PlanFits
  <2>2. 1 \in 1 .. l
    BY ONLY <2>1
  <2>3. WasMade(q, want, seq, 1, j)
    BY <1>3, <1>5, <1>6, <2>2
  <2>4. j \in 1 .. c
    BY <1>3, <1>5
  <2>5. (1 - 1) * c + j = j
    BY ONLY <2>4, c \in Nat
  <2> QED BY <1>5, <2>3, <2>5 DEF WasMade, Asked
<1>8. ASSUME handlers[cmd].how = "each" PROVE EachDone(argv, q, seq)
  <2> SUFFICES ASSUME NEW j \in DOMAIN seq, NEW n \in Reached(argv[1].val)
               PROVE  LET k == (n - 1) * Len(seq) + j
                      IN Asked(q, seq, k, j) /\ q[k].args[1] = ValOf(argv, 1, n)
    BY DEF EachDone
  <2>1. n \in 1 .. l /\ want[n][1] = ValOf(argv, 1, n)
    BY <1>2, <1>4, <1>8 DEF PlanFits
  <2>2. WasMade(q, want, seq, n, j)
    BY <1>3, <1>5, <1>6, <2>1
  <2> QED BY <2>1, <2>2 DEF WasMade, Asked
<1>9. ASSUME handlers[cmd].how = "pairs" PROVE PairsDone(argv, q, seq)
  <2> SUFFICES ASSUME NEW j \in DOMAIN seq,
                      NEW n \in Reached(argv[1].val), NEW i \in Reached(argv[2].val)
               PROVE  \E k \in DOMAIN q : /\ Asked(q, seq, k, j)
                                          /\ q[k].args = <<ValOf(argv, 1, n), ValOf(argv, 2, i)>>
    BY DEF PairsDone
  <2>1. PICK k \in 1 .. l : want[k] = <<ValOf(argv, 1, n), ValOf(argv, 2, i)>>
    BY <1>2, <1>4, <1>9 DEF PlanFits
  <2>2. WasMade(q, want, seq, k, j)
    BY <1>3, <1>5, <1>6
  <2>3. PICK x : x = (k - 1) * Len(seq) + j
    OBVIOUS
  <2>4. Asked(q, seq, x, j) /\ x \in DOMAIN q /\ q[x].args = want[k]
    BY <2>2, <2>3 DEF WasMade, Asked
  <2> QED BY <2>1, <2>4
<1> QED BY <1>1, <1>7, <1>8, <1>9 DEF AllDone

\* One item for a command that is not about a list.
LEMMA PlanOfOne ==
  ASSUME cmd \in DOMAIN handlers, handlers[cmd].how = "one"
  PROVE  PlanFits(cmd, argv, Plan)
<1>1. cmd \notin Special
  BY HandlerIs
<1>2. PICK item : item = [k \in DOMAIN args |-> Passed(k)]
  OBVIOUS
<1>3. Plan = <<item>>
  BY <1>1, <1>2 DEF Plan
<1>4. <<item>> \in Seq({item}) /\ Len(<<item>>) = 1
  OBVIOUS
<1>5. <<item>> \in Seq(Range(<<item>>))
  BY <1>4, SeqOfRange
<1> QED BY <1>3, <1>4, <1>5 DEF PlanFits

LEMMA ReachedIs ==
  ASSUME NEW k, argv[k].val \in Seq(Int), NEW n \in Reached(argv[k].val)
  PROVE  /\ n \in 1 .. Len(Iterated(argv[k].val))
         /\ ValOf(argv, k, n) = <<"value", Iterated(argv[k].val)[n]>>
<1>1. PICK ids \in Seq(Int) : ids = argv[k].val
  OBVIOUS
<1>2. PICK it \in Seq(Int) : it = Iterated(ids)
  BY IteratedIs
<1>3. PICK l \in Nat, c \in Nat : l = Len(ids) /\ c = Len(it)
  BY LenProperties
<1>4. n \in 1 .. l /\ \A m \in 1 .. n : ids[m] >= 0
  BY <1>1, <1>3, LenProperties DEF Reached
<1>5. n <= c
  BY <1>2, <1>3, <1>4, IteratedIs
<1>6. n \in 1 .. c
  BY ONLY <1>4, <1>5, l \in Nat, c \in Nat
<1>7. it[n] = ids[n]
  BY <1>2, <1>3, <1>6, IteratedIs
<1> QED BY <1>1, <1>2, <1>3, <1>6, <1>7 DEF ValOf

\* A function of the numbers up to n is a sequence, whatever it holds.
LEMMA AsSeq ==
  ASSUME NEW n \in Nat, NEW S, NEW f \in [1 .. n -> S]
  PROVE  f \in Seq(S) /\ Len(f) = n
<1>1. f \in Seq(S)
  BY IsASeq
<1> QED BY <1>1, LenProperties

LEMMA AsNumbered ==
  ASSUME NEW n \in Nat, NEW S, NEW f, DOMAIN f = 1 .. n, f = [k \in 1 .. n |-> f[k]],
         \A k \in 1 .. n : f[k] \in S
  PROVE  f \in Seq(S) /\ Len(f) = n
<1>1. f \in [1 .. n -> S]
  OBVIOUS
<1> QED BY <1>1, AsSeq

LEMMA Numbered ==
  ASSUME NEW n \in Nat, NEW p, NEW f, p = [k \in 1 .. n |-> f[k]]
  PROVE  p \in Seq(Range(p)) /\ Len(p) = n
<1>1. DOMAIN p = 1 .. n /\ p \in [1 .. n -> Range(p)]
  BY DEF Range
<1>2. p \in Seq(Range(p))
  BY <1>1, IsASeq
<1> QED BY <1>1, <1>2, LenProperties

LEMMA PlanOfEach ==
  ASSUME cmd \in DOMAIN handlers, handlers[cmd].how = "each", argv[1].val \in Seq(Int)
  PROVE  PlanFits(cmd, argv, Plan)
<1>1. cmd \notin Special /\ args \in Seq(DOMAIN ArgKind) /\ 1 \in 1 .. Len(args)
  BY HandlerIs DEF args
<1>2. PICK ids \in Seq(Int) : ids = Iterated(argv[1].val)
  BY IteratedIs
<1>3. PICK a \in Nat : a = Len(args) - 1
  <2>1. PICK l \in Nat : l = Len(args)
    BY <1>1, LenProperties
  <2>2. 1 \in 1 .. l
    BY <1>1, <2>1
  <2>3. l - 1 \in Nat
    BY ONLY <2>2, l \in Nat
  <2> QED BY <2>1, <2>3
<1>4. PICK rest : rest = [k \in 1 .. a |-> Passed(k + 1)]
  OBVIOUS
<1>5. Plan = [n \in DOMAIN ids |-> <<<<"value", ids[n]>>>> \o rest]
  BY <1>1, <1>2, <1>3, <1>4 DEF Plan
<1>6. PICK l \in Nat : l = Len(ids) /\ DOMAIN ids = 1 .. l
  BY LenProperties
<1>7. PICK p : p = Plan
  OBVIOUS
<1>8. p \in Seq(Range(p)) /\ Len(p) = l
  <2>1. PICK f : f = [n \in 1 .. l |-> <<<<"value", ids[n]>>>> \o rest]
    OBVIOUS
  <2>2. p = [n \in 1 .. l |-> f[n]]
    BY <1>5, <1>6, <1>7, <2>1
  <2> QED BY <2>2, Numbered
<1>9. rest \in Seq(Range(rest)) /\ Len(rest) = a
  <2>1. rest = [k \in 1 .. a |-> rest[k]]
    BY <1>4
  <2> QED BY <2>1, Numbered
<1>10. ASSUME NEW n \in 1 .. l PROVE p[n][1] = <<"value", ids[n]>>
  <2> DEFINE v == <<"value", ids[n]>>
             S == Range(rest) \cup {v}
  <2>1. p[n] = <<v>> \o rest
    BY <1>5, <1>6, <1>7
  <2>2. PICK f : f = <<v>>
    OBVIOUS
  <2>3. f \in Seq(S) /\ Len(f) = 1 /\ f[1] = v
    BY <2>2
  <2>4. rest \in Seq(S)
    BY <1>9, SeqMonotonic
  <2> HIDE DEF S, v
  <2>5. 1 \in 1 .. Len(f) + Len(rest) /\ 1 <= Len(f)
    <3>1. 1 \in 1 .. 1 + a /\ 1 <= 1
      BY ONLY a \in Nat
    <3> QED BY <1>9, <2>3, <3>1
  <2>6. (f \o rest)[1] = f[1]
    BY <2>3, <2>4, <2>5, ConcatProperties
  <2> QED BY <2>1, <2>2, <2>3, <2>6 DEF v
<1>11. \A n \in Reached(argv[1].val) : n \in 1 .. l /\ ValOf(argv, 1, n) = <<"value", ids[n]>>
  BY <1>2, <1>6, ReachedIs
<1> QED BY <1>7, <1>8, <1>10, <1>11 DEF PlanFits

\* An item for each pair: those of the first id, then those of the next.
Pair(a, b) == <<<<"value", a>>, <<"value", b>>>>
IntPairs == {Pair(a, b) : a \in Int, b \in Int}

LEMMA RowIs ==
  ASSUME NEW a \in Int, NEW tags \in Seq(Int), NEW r, r = [i \in DOMAIN tags |-> Pair(a, tags[i])]
  PROVE  /\ r \in Seq(IntPairs) /\ Len(r) = Len(tags)
         /\ \A i \in 1 .. Len(tags) : r[i] = Pair(a, tags[i])
<1>1. PICK c \in Nat : c = Len(tags) /\ DOMAIN tags = 1 .. c
  BY LenProperties
<1>2. \A i \in 1 .. c : r[i] = Pair(a, tags[i])
  BY <1>1
<1>3. \A i \in 1 .. c : r[i] \in IntPairs
  <2>1. \A i \in 1 .. c : tags[i] \in Int
    BY <1>1, ElementOfSeq
  <2>2. \A b \in Int : Pair(a, b) \in IntPairs
    BY DEF IntPairs, Pair
  <2> QED BY <1>2, <2>1, <2>2
<1>4. DOMAIN r = 1 .. c /\ r = [i \in 1 .. c |-> r[i]]
  BY <1>1
<1>5. r \in Seq(IntPairs) /\ Len(r) = c
  BY <1>3, <1>4, AsNumbered
<1> QED BY <1>1, <1>2, <1>5

LEMMA PlanOfPairs ==
  ASSUME cmd \in DOMAIN handlers, handlers[cmd].how = "pairs",
         argv[1].val \in Seq(Int), argv[2].val \in Seq(Int)
  PROVE  PlanFits(cmd, argv, Plan)
<1>1. cmd \notin Special
  BY HandlerIs
<1>2. PICK ids \in Seq(Int), tags \in Seq(Int) : ids = Iterated(argv[1].val) /\ tags = Iterated(argv[2].val)
  BY IteratedIs
<1>3. PICK l \in Nat, c \in Nat : /\ l = Len(ids) /\ DOMAIN ids = 1 .. l
                                  /\ c = Len(tags) /\ DOMAIN tags = 1 .. c
  BY LenProperties
<1>4. PICK rows : rows = [n \in DOMAIN ids |-> [i \in DOMAIN tags |-> Pair(ids[n], tags[i])]]
  OBVIOUS
<1>5. Plan = FlattenSeq(rows)
  BY <1>1, <1>2, <1>4 DEF Plan, Pair
<1>6. \A n \in 1 .. l : /\ rows[n] \in Seq(IntPairs) /\ Len(rows[n]) = c
                        /\ \A i \in 1 .. c : rows[n][i] = Pair(ids[n], tags[i])
  <2> SUFFICES ASSUME NEW n \in 1 .. l
               PROVE  /\ rows[n] \in Seq(IntPairs) /\ Len(rows[n]) = c
                      /\ \A i \in 1 .. c : rows[n][i] = Pair(ids[n], tags[i])
    OBVIOUS
  <2>1. PICK a \in Int : a = ids[n]
    BY <1>3, ElementOfSeq
  <2>2. PICK r : r = rows[n]
    OBVIOUS
  <2>3. r = [i \in DOMAIN tags |-> Pair(a, tags[i])]
    BY <1>3, <1>4, <2>1, <2>2
  <2>4. /\ r \in Seq(IntPairs) /\ Len(r) = Len(tags)
        /\ \A i \in 1 .. Len(tags) : r[i] = Pair(a, tags[i])
    BY <2>3, RowIs
  <2> QED BY <1>3, <2>1, <2>2, <2>4
<1>7. rows \in Seq(Seq(IntPairs)) /\ Len(rows) = l
  <2>1. DOMAIN rows = 1 .. l /\ rows = [n \in 1 .. l |-> rows[n]]
    BY <1>3, <1>4
  <2>2. \A n \in 1 .. l : rows[n] \in Seq(IntPairs)
    BY <1>6
  <2>3. PICK T : T = Seq(IntPairs)
    OBVIOUS
  <2>4. rows \in Seq(T) /\ Len(rows) = l
    BY <2>1, <2>2, <2>3, AsNumbered
  <2> QED BY <2>3, <2>4
<1>8. PICK p : p = Plan
  OBVIOUS
<1>9. p \in Seq(IntPairs) /\ Laid(rows, p)
  BY <1>5, <1>7, <1>8, Flattened
<1>10. PICK off \in [0 .. l -> Nat] :
         /\ off[0] = 0 /\ off[l] = Len(p)
         /\ \A n \in 1 .. l : /\ off[n] = off[n - 1] + Len(rows[n]) /\ off[n] <= off[l]
                              /\ \A i \in 1 .. Len(rows[n]) : p[off[n - 1] + i] = rows[n][i]
  BY <1>7, <1>9 DEF Laid
<1>11. PICK len \in Nat : len = Len(p)
  BY <1>9, LenProperties
<1>12. ASSUME NEW n \in 1 .. l, NEW i \in 1 .. c
       PROVE  \E k \in 1 .. len : p[k] = Pair(ids[n], tags[i])
  <2>1. n - 1 \in 0 .. l /\ n \in 0 .. l
    BY ONLY n \in 1 .. l, l \in Nat
  <2>2. PICK o \in Nat, x \in Nat : o = off[n - 1] /\ x = off[n]
    BY <1>10, <2>1
  <2>3. x = o + c /\ x <= len
    BY <1>6, <1>10, <1>11, <2>2
  <2>4. o + i \in 1 .. len
    BY ONLY <2>3, o \in Nat, x \in Nat, c \in Nat, len \in Nat, i \in 1 .. c
  <2>5. p[o + i] = Pair(ids[n], tags[i])
    BY <1>6, <1>10, <2>2
  <2> QED BY <2>4, <2>5
<1>13. \A n \in Reached(argv[1].val) : n \in 1 .. l /\ ValOf(argv, 1, n) = <<"value", ids[n]>>
  BY <1>2, <1>3, ReachedIs
<1>14. \A i \in Reached(argv[2].val) : i \in 1 .. c /\ ValOf(argv, 2, i) = <<"value", tags[i]>>
  BY <1>2, <1>3, ReachedIs
<1>15. \A n \in Reached(argv[1].val), i \in Reached(argv[2].val) :
         \E k \in 1 .. Len(p) : p[k] = <<ValOf(argv, 1, n), ValOf(argv, 2, i)>>
  BY <1>11, <1>12, <1>13, <1>14 DEF Pair
<1>16. p \in Seq(Range(p))
  BY <1>9, SeqOfRange
<1> QED BY <1>8, <1>15, <1>16 DEF PlanFits

LEMMA DoneInitInv == IrInit => DoneInv
BY DEF IrInit, Init, DoneInv, InTurn, QuietMeansDone, Executed

LEMMA DoneAnew ==
  ASSUME NEW t, Fresh(t)
  PROVE  DoneInv'
<1>1. cmd' = ""
  BY DEF Fresh
<1>2. "" \notin DOMAIN handlers
  BY HandlerIs
<1> QED BY <1>1, <1>2 DEF DoneInv, InTurn, QuietMeansDone

LEMMA DoneSame ==
  ASSUME DoneInv, UNCHANGED <<pc, words, request, said, result>>
  PROVE  DoneInv'
<1>1. cmd' = cmd /\ argv' = argv /\ Plan' = Plan
  BY SameWords
<1>2. InTurn'
  BY <1>1 DEF DoneInv, InTurn, request
<1>3. AllDone(cmd, argv, tried)' = AllDone(cmd, argv, tried)
  BY <1>1 DEF request
<1>4. QuietMeansDone'
  BY <1>1, <1>3, QuietIs DEF DoneInv, Quiet, Executed
<1> QED BY <1>2, <1>4 DEF DoneInv

LEMMA DoneNotYet ==
  ASSUME pc' # "run", pc' = "done" => result' = -1
  PROVE  DoneInv'
BY DEF DoneInv, InTurn, QuietMeansDone, Executed

\* A handler starts: nothing is done, everything is ahead.
LEMMA DoneStarts ==
  ASSUME CmdInv, LineInv, ArgsEnd
  PROVE  DoneInv'
<1>1. CASE \E w, left : Refuse(w, left)
  BY <1>1, DoneNotYet DEF Refuse
<1>2. CASE missing = 0 /\ pc' = "run" /\ plan' = Plan
  <2> SUFFICES ASSUME cmd \in DOMAIN handlers PROVE InTurn'
    BY <1>2, SameWords DEF ArgsEnd, DoneInv, InTurn, QuietMeansDone, Executed
  <2>1. /\ pc = "args" /\ UNCHANGED <<words, tried, step>>
        /\ Len(argv) + missing = Len(args)
    BY DEF ArgsEnd
  <2>2. /\ cmd' = cmd /\ argv' = argv /\ Plan' = Plan
        /\ tried' = <<>> /\ step' = 1
    BY <2>1, SameWords DEF CmdInv, NotYet, Shapes
  <2>3. argv \in Seq(Range(argv)) /\ Len(argv) = Len(args)
    <3>1. PICK n \in Nat : n = Len(argv)
      BY LenProperties DEF CmdInv, Shapes
    <3> QED BY <1>2, <2>1, <3>1 DEF CmdInv, Shapes
  <2>4. ASSUME NEW k \in 1 .. Len(args), args[k] \in ListArgs PROVE argv[k].val \in Seq(Int)
    <3>1. k \in DOMAIN argv
      BY <2>3, LenProperties
    <3> QED BY <2>4, <3>1 DEF LineInv, ArgumentsRead
  <2>5. handlers[cmd].how \in {"each", "pairs"} => argv[1].val \in Seq(Int)
    <3>1. handlers[cmd].how \in {"each", "pairs"} => 1 \in 1 .. Len(args) /\ args[1] \in ListArgs
      <4>1. PICK a : a = args
        OBVIOUS
      <4>2. a = cmds_top[cmd]
        BY <4>1 DEF args
      <4> QED BY <4>1, <4>2, HandlerIs
    <3> QED BY <2>4, <3>1
  <2>6. handlers[cmd].how = "pairs" => argv[2].val \in Seq(Int)
    <3>1. handlers[cmd].how = "pairs" => 2 \in 1 .. Len(args) /\ args[2] \in ListArgs
      <4>1. PICK a : a = args
        OBVIOUS
      <4>2. a = cmds_top[cmd]
        BY <4>1 DEF args
      <4> QED BY <4>1, <4>2, HandlerIs
    <3> QED BY <2>4, <3>1
  <2>7. handlers[cmd].how \in {"one", "each", "pairs"}
    BY TablesFit
  <2>8. PlanFits(cmd, argv, Plan)
    BY <2>5, <2>6, <2>7, PlanOfOne, PlanOfEach, PlanOfPairs
  <2>9. PICK p : p = Plan
    OBVIOUS
  <2>10. p \in Seq(Range(p))
    BY <2>8, <2>9 DEF PlanFits
  <2>11. PICK l \in Nat : l = Len(p)
    BY <2>10, LenProperties
  <2>12. Ahead(p, p, 0)
    <3>1. l = l - 0 /\ \A i \in 1 .. l : 0 + i = i
      BY ONLY l \in Nat
    <3> QED BY <2>10, <2>11, <3>1 DEF Ahead
  <2>13. PICK seq : seq = handlers[cmd].calls
    OBVIOUS
  <2>14. Behind(tried', p, seq, 0, 1)
    <3>1. PICK c \in Nat : c = Len(seq)
      BY <2>13, HandlerIs
    <3>2. 0 = 0 * c + 1 - 1
      BY ONLY c \in Nat
    <3>3. Len(tried') = 0
      BY <2>2
    <3>4. \A j : j \notin 1 .. 1 - 1 /\ j \notin 1 .. 0
      OBVIOUS
    <3> QED BY <3>1, <3>2, <3>3, <3>4 DEF Behind
  <2>15. 0 \in 0 .. Len(p)
    BY <2>11
  <2> QED BY <1>2, <2>2, <2>8, <2>9, <2>12, <2>13, <2>14, <2>15 DEF InTurn
<1> QED BY <1>1, <1>2 DEF ArgsEnd

\* A handler that has had nothing to tell is at its next call.
LEMMA QuietRequest ==
  ASSUME CmdInv, Request, said' = {}
  PROVE  LET seq == handlers[cmd].calls
         IN /\ pc = "run" /\ plan # <<>> /\ said = {} /\ UNCHANGED words
            /\ \E e : /\ tried' = Append(tried, e) /\ e.call = seq[step] /\ e.args = Head(plan)
                      /\ e.good
            /\ \/ step = Len(seq) /\ Tail(plan) = <<>> /\ pc' = "done"
               \/ step = Len(seq) /\ plan' = Tail(plan) /\ step' = 1 /\ pc' = "run"
               \/ step # Len(seq) /\ plan' = plan /\ step' = step + 1 /\ pc' = "run"
<1> DEFINE seq == handlers[cmd].calls
           kind == calls[seq[step]]
           single == handlers[cmd].how = "one"
           IsBad(r) == IsFailure(handlers[cmd].test, kind, r)
           IsLast(r) == IsBad(r) \/ step = Len(seq)
           Left(r) == IF IsLast(r) THEN Tail(plan) ELSE plan
           Words2(r) == IF IsBad(r) THEN said \cup {"item failed"} ELSE said
<1>1. pc = "run" /\ plan # <<>> /\ UNCHANGED words
  BY DEF Request
<1>2. PICK good, open, r :
        /\ good \in BOOLEAN /\ open \in BOOLEAN
        /\ r \in IF good THEN Values(kind) ELSE {Failure(kind)}
        /\ tried' = Append(tried, [call |-> seq[step], args |-> Head(plan),
                                   good |-> good, open |-> open])
        /\ IF Stops(IsBad(r), single, open) THEN Finish(TRUE, said, open)
           ELSE IF Left(r) = <<>> THEN Finish(FALSE, Words2(r), open)
           ELSE /\ plan' = Left(r) /\ step' = (IF IsLast(r) THEN 1 ELSE step + 1)
                /\ said' = Words2(r) /\ UNCHANGED <<pc, live, result>>
  <2> HIDE DEF kind, single
  <2> QED BY DEF Request, kind, single
<1>3. cmd \in DOMAIN handlers /\ cmd \notin Special
  BY <1>1, TablesFit DEF CmdInv, Known, AtWork
<1>4. step \in DOMAIN seq
  BY <1>1, <1>3 DEF CmdInv, AtWork
<1>5. IsBad(Failure(kind))
  BY <1>3, <1>4, Told
<1>6. ~good => IsBad(r)
  BY <1>2, <1>5
<1>7. ~Stops(IsBad(r), single, open)
  BY <1>2 DEF Finish
<1>8. Words2(r) = {}
  <2>1. CASE Left(r) = <<>>
    <3>1. Finish(FALSE, Words2(r), open)
      BY <1>2, <1>7, <2>1
    <3> HIDE DEF Words2
    <3> QED BY <3>1 DEF Finish
  <2>2. CASE Left(r) # <<>>
    BY <1>2, <1>7, <2>2
  <2> QED BY <2>1, <2>2
<1>9. ~IsBad(r) /\ said = {}
  BY <1>8
<1>10. good
  BY <1>6, <1>9
<1>11. \E e : tried' = Append(tried, e) /\ e.call = seq[step] /\ e.args = Head(plan) /\ e.good
  <2> DEFINE q == [call |-> seq[step], args |-> Head(plan), good |-> good, open |-> open]
  <2>1. q.call = seq[step] /\ q.args = Head(plan) /\ q.good
    BY <1>10
  <2>2. tried' = Append(tried, q)
    BY <1>2
  <2> HIDE DEF q
  <2> QED BY <2>1, <2>2
<1>12. Left(r) = IF step = Len(seq) THEN Tail(plan) ELSE plan
  BY <1>9
<1>13. CASE Left(r) = <<>>
  <2>1. Finish(FALSE, Words2(r), open)
    BY <1>2, <1>7, <1>13
  <2>2. pc' = "done"
    BY <2>1 DEF Finish
  <2> QED BY <1>1, <1>9, <1>11, <1>12, <1>13, <2>2
<1>14. CASE Left(r) # <<>>
  <2>1. plan' = Left(r) /\ step' = (IF IsLast(r) THEN 1 ELSE step + 1) /\ pc' = pc
    BY <1>2, <1>7, <1>14
  <2>2. IsLast(r) <=> step = Len(seq)
    BY <1>9
  <2> HIDE DEF IsLast, Left
  <2> QED BY <1>1, <1>9, <1>11, <1>12, <2>1, <2>2
<1> QED BY <1>13, <1>14

LEMMA DoneRequest ==
  ASSUME CmdInv, DoneInv, Request
  PROVE  DoneInv'
<1> SUFFICES ASSUME said' = {}, cmd' \in DOMAIN handlers PROVE DoneInv'
  BY DEF DoneInv, InTurn, QuietMeansDone
<1>1. PICK seq : seq = handlers[cmd].calls
  OBVIOUS
<1>2. /\ pc = "run" /\ plan # <<>> /\ said = {} /\ UNCHANGED words
      /\ \/ step = Len(seq) /\ Tail(plan) = <<>> /\ pc' = "done"
         \/ step = Len(seq) /\ plan' = Tail(plan) /\ step' = 1 /\ pc' = "run"
         \/ step # Len(seq) /\ plan' = plan /\ step' = step + 1 /\ pc' = "run"
  BY <1>1, QuietRequest
<1>3. PICK e : tried' = Append(tried, e) /\ e.call = seq[step] /\ e.args = Head(plan) /\ e.good
  BY <1>1, QuietRequest
<1>4. cmd' = cmd /\ argv' = argv /\ Plan' = Plan
  BY <1>2, SameWords
<1>5. PICK want : want = Plan
  OBVIOUS
<1>6. PlanFits(cmd, argv, want) /\ Len(want) \in Nat
  BY <1>2, <1>4, <1>5, LenProperties DEF DoneInv, InTurn, PlanFits
<1>7. PICK m \in 0 .. Len(want) : Ahead(plan, want, m) /\ Behind(tried, want, seq, m, step)
  BY <1>1, <1>2, <1>4, <1>5 DEF DoneInv, InTurn
<1>8. /\ Len(seq) \in Nat /\ DOMAIN seq = 1 .. Len(seq) /\ step \in 1 .. Len(seq)
      /\ tried \in Seq(Range(tried))
  BY <1>1, <1>2, <1>4, HandlerIs DEF CmdInv, AtWork, Shapes
<1>9. m \in Nat
  BY <1>6
<1>10. m + 1 <= Len(want) /\ Head(plan) = want[m + 1] /\ Ahead(Tail(plan), want, m + 1)
  BY <1>2, <1>6, <1>7, <1>9, NextAhead
<1>11. m + 1 \in 0 .. Len(want) /\ m + 1 \in Nat
  BY <1>6, <1>9, <1>10
<1>12. IsMade(e, seq, step, want[m + 1])
  BY <1>3, <1>10 DEF IsMade
<1>13. /\ step # Len(seq) => Behind(tried', want, seq, m, step + 1)
       /\ step = Len(seq) => Behind(tried', want, seq, m + 1, 1)
  BY <1>3, <1>7, <1>8, <1>9, <1>12, NowMade
<1>14. CASE step = Len(seq) /\ Tail(plan) = <<>> /\ pc' = "done"
  <2>1. m + 1 = Len(want)
    BY <1>6, <1>10, <1>11, <1>14, NothingAhead
  <2>2. Behind(tried', want, seq, Len(want), 1)
    BY <1>13, <1>14, <2>1
  <2>3. PICK q : q = tried'
    OBVIOUS
  <2>4. AllDone(cmd, argv, q)
    BY <1>1, <1>4, <1>5, <1>6, <2>2, <2>3, AllMade
  <2>5. AllDone(cmd, argv, tried)'
    BY <1>4, <2>3, <2>4
  <2> QED BY <1>14, <2>5, QuietIs DEF DoneInv, InTurn
<1>15. CASE step = Len(seq) /\ plan' = Tail(plan) /\ step' = 1 /\ pc' = "run"
  <2>1. InTurn'
    BY <1>1, <1>4, <1>5, <1>6, <1>10, <1>11, <1>13, <1>15 DEF InTurn
  <2> QED BY <1>15, <2>1 DEF DoneInv, QuietMeansDone, Executed
<1>16. CASE step # Len(seq) /\ plan' = plan /\ step' = step + 1 /\ pc' = "run"
  <2>1. InTurn'
    BY <1>1, <1>4, <1>5, <1>6, <1>7, <1>13, <1>16 DEF InTurn
  <2> QED BY <1>16, <2>1 DEF DoneInv, QuietMeansDone, Executed
<1> QED BY <1>2, <1>14, <1>15, <1>16

LEMMA DoneNoRequest ==
  ASSUME CmdInv, DoneInv, NoRequest
  PROVE  DoneInv'
<1>1. pc = "run" /\ pc' = "done" /\ UNCHANGED words /\ tried' = tried /\ said' = said
  BY DEF NoRequest, Finish
<1>2. cmd' = cmd /\ argv' = argv
  BY <1>1, SameWords
<1>3. ASSUME said = {}, cmd \in DOMAIN handlers \ {"status"} PROVE AllDone(cmd, argv, tried)
  <2>1. plan = <<>>
    BY <1>3 DEF NoRequest
  <2>2. PICK want : want = Plan
    OBVIOUS
  <2>3. PlanFits(cmd, argv, want) /\ Len(want) \in Nat
    BY <1>1, <1>3, <2>2, LenProperties DEF DoneInv, InTurn, PlanFits
  <2>4. PICK m \in 0 .. Len(want) :
          Ahead(plan, want, m) /\ Behind(tried, want, handlers[cmd].calls, m, step)
    BY <1>1, <1>3, <2>2 DEF DoneInv, InTurn
  <2>5. m = Len(want)
    BY <2>1, <2>3, <2>4, NothingAhead
  <2> QED BY <1>3, <2>2, <2>3, <2>4, <2>5, AllMade
<1>4. AllDone(cmd, argv, tried)' <=> AllDone(cmd, argv, tried)
  BY <1>1, <1>2
<1>5. QuietMeansDone'
  BY <1>1, <1>2, <1>3, <1>4, QuietIs DEF Quiet
<1> QED BY <1>1, <1>5 DEF DoneInv, InTurn

LEMMA DoneStep == CmdInv /\ LineInv /\ DoneInv /\ [IrNext]_irvars => DoneInv'
<1> SUFFICES ASSUME CmdInv, LineInv, DoneInv, [IrNext]_irvars PROVE DoneInv'
  OBVIOUS
<1>1. CASE duc_cmd \/ ArgMissing \/ ArgParsed
  <2>1. pc' # "run" /\ (pc' = "done" => result' = -1)
    BY <1>1 DEF duc_cmd, ArgMissing, ArgParsed, ArgRead, Refuse
  <2> QED BY <2>1, DoneNotYet
<1>2. CASE c_open \/ c_raw
  <2>1. pc' = "done" /\ cmd' = cmd /\ cmd \in Special
    BY <1>2 DEF c_open, c_raw, Finish, words, Special
  <2>2. cmd' \notin DOMAIN handlers
    BY <2>1, HandlerIs
  <2> QED BY <2>2 DEF DoneInv, InTurn, QuietMeansDone
<1>3. CASE CommandStep
  BY <1>1, <1>2, <1>3, DoneStarts, DoneRequest, DoneNoRequest DEF CommandStep
<1>4. CASE Return \/ main \/ tty_executor \/ NextString \/ dudl_cmd
  BY <1>4, DoneAnew DEF Return, main, tty_executor, NextString, dudl_cmd
<1>5. CASE UNCHANGED <<pc, words, request, said, result>>
  BY <1>5, DoneSame
<1>6. MainLoop \/ Press \/ LircdDies \/ ServerActs \/ sig_hup \/ ReopenLirc \/ ReadConfig
      \/ ConfigDone \/ NextCode \/ LastString \/ Reconnect \/ Select \/ UNCHANGED irvars
        => UNCHANGED <<pc, words, request, said, result>>
  BY DEF MainLoop, Press, LircdDies, ServerActs, sig_hup, ReopenLirc, ReadConfig, ConfigDone,
     NextCode, LastString, Reconnect, Select, vars, irvars
<1> QED
  BY <1>3, <1>4, <1>5, <1>6 DEF IrNext, LoopStep, DudlcStep

LEMMA DoneInvariant == IrSpec => []DoneInv
BY DoneInitInv, DoneStep, CommandInvariant, LineInvariant, PTL DEF IrSpec

(***************************************************************************)
(* A command that has told the user nothing has made all its requests, and *)
(* the server accepted each of them: for each id of its list, in order, or *)
(* each pair of ids of its two lists, up to the first negative one         *)
(* (idl_iterate, idlist.c).                                                *)
(***************************************************************************)
THEOREM QuietIsDone == IrSpec => []QuietMeansDone
<1>1. DoneInv => QuietMeansDone
  BY DEF DoneInv
<1> QED BY <1>1, DoneInvariant, PTL
=============================================================================
