------------------------------- MODULE Irdudl -------------------------------
(***************************************************************************)
(* irdudl (src/ir/main.c): one loop that keeps a connection to lircd, a    *)
(* configuration that SIGHUP makes it read again, and the session with the *)
(* server, and executes the commands configured for the keys pressed.      *)
(* Commands are executed by module Commands; the two other programs that   *)
(* do so run beside it.                                                    *)
(***************************************************************************)
EXTENDS Commands

CONSTANTS
  Config,     \* version of the configuration -> a key's strings, in order
  MaxKeys,    \* bound: keys pressed at a time
  EIO

ASSUME IrAssumption ==
  /\ Len(Config) \in Nat \ {0} /\ DOMAIN Config = 1 .. Len(Config)
  /\ \A v \in DOMAIN Config : /\ Config[v] \in Seq(ToSet(Config[v]))
                             /\ \A k \in DOMAIN Config[v] : IsText(Config[v][k])
  /\ MaxKeys \in Nat \ {0} /\ EIO \in Nat \ {0}

VARIABLES
  at,        \* where loop_lirc is
  l_fd,      \* the connection to lircd: "none", "ok", or "dead": lircd is gone
  l_conf,    \* the version of the configuration in use, 0: none
  reread_config,
  strings,   \* the strings of the key left to execute
  again,     \* dudl_cmd is in its second try
  keys,      \* keys pressed and not read
  news,      \* the server sent something or hung up
  file,      \* the version on disk
  wanted,    \* the version on disk at the last SIGHUP
  missed,    \* that SIGHUP came while an older version was being read
  stale      \* keys handled with an older version since that SIGHUP, up to 2

loop == <<at, l_fd, l_conf, reread_config, strings, again>>
world == <<keys, news, file, wanted, missed, stale>>
irvars == <<vars, loop, world>>

IrInit ==
  /\ Init
  /\ client = "ir" => ~up
  /\ at = "lircd" /\ l_fd = "none" /\ l_conf = 0 /\ reread_config = FALSE
  /\ strings = <<>> /\ again = FALSE
  /\ keys = 0 /\ news = FALSE /\ file = 1 /\ wanted = 1 /\ missed = FALSE /\ stale = 0

(***************************************************************************)
(* What happens around the program.                                        *)
(***************************************************************************)
Press ==
  /\ l_fd = "ok" /\ keys < MaxKeys
  /\ keys' = keys + 1
  /\ UNCHANGED <<vars, loop, news, file, wanted, missed, stale>>

LircdDies ==
  /\ l_fd = "ok" /\ l_fd' = "dead" /\ keys' = 0
  /\ UNCHANGED <<vars, at, l_conf, reread_config, strings, again,
                 news, file, wanted, missed, stale>>

ServerActs ==
  /\ client = "ir" /\ up /\ news' = TRUE
  /\ UNCHANGED <<vars, loop, keys, file, wanted, missed, stale>>

RereadIgnored == UNCHANGED reread_config
AskReread == reread_config' = TRUE

\* The configuration is edited, and the program told so, at any moment: the
\* handler only sets the flag, and only a select under way is interrupted.
sig_hup ==
  /\ client = "ir" /\ file < Len(Config)
  /\ file' = file + 1 /\ wanted' = file + 1
  /\ AskReread /\ stale' = 0 /\ missed' = FALSE
  /\ at' = IF at = "select" THEN "lircd" ELSE at
  /\ UNCHANGED <<vars, l_fd, l_conf, strings, again, keys, news>>

(***************************************************************************)
(* loop_lirc.                                                              *)
(***************************************************************************)
ReopenLirc ==
  /\ client = "ir" /\ at = "lircd" /\ at' = "config"
  /\ l_fd' \in IF l_fd = "none" THEN {"none", "ok"} ELSE {l_fd}
  /\ UNCHANGED <<vars, l_conf, reread_config, strings, again, world>>

OnlyMissing == l_conf = 0
ConfigWanted == l_conf = 0 \/ reread_config

\* The old configuration is dropped before the new one is read, which may fail.
ReadConfig ==
  /\ at = "config"
  /\ \/ ~ConfigWanted /\ at' = "open" /\ UNCHANGED l_conf
     \/ /\ ConfigWanted
        /\ \/ l_conf' = file /\ at' = "read"
           \/ l_conf' = 0 /\ at' = "open"
  /\ UNCHANGED <<vars, l_fd, reread_config, strings, again, world>>

\* A SIGHUP since the file was read is forgotten here.
ConfigDone ==
  /\ at = "read" /\ at' = "open"
  /\ reread_config' = FALSE
  /\ missed' = (missed \/ l_conf < wanted)
  /\ UNCHANGED <<vars, l_fd, l_conf, strings, again, keys, news, file, wanted, stale>>

Reconnect ==
  /\ at = "open" /\ at' = "select"
  /\ up' \in IF up THEN {TRUE} ELSE BOOLEAN
  /\ UNCHANGED <<client, pc, words, request, said, live, result, l_fd, l_conf,
                 reread_config, strings, again, world>>

LircReadable == l_fd = "dead" \/ keys > 0
OnlyForLirc == l_fd = "none"
TimesOut == l_fd = "none" \/ ~up

ServerFirst == IF LircReadable /\ ~news THEN "code" ELSE "lircd"
Turn == IF LircReadable THEN "code" ELSE "lircd"

\* select returns, and what the server sent is read first.
Select ==
  /\ at = "select" /\ (news \/ LircReadable \/ TimesOut)
  /\ up' \in IF news THEN BOOLEAN ELSE {up}
  /\ news' = FALSE
  /\ at' = Turn
  /\ UNCHANGED <<client, pc, words, request, said, live, result, l_fd, l_conf,
                 reread_config, strings, again, keys, file, wanted, missed, stale>>

NextCode ==
  /\ at = "code"
  /\ \/ /\ l_fd = "dead" /\ l_fd' = "none" /\ at' = "lircd"
        /\ UNCHANGED <<keys, strings, stale>>
     \/ /\ l_fd = "ok" /\ keys' = keys - 1 /\ UNCHANGED l_fd
        /\ IF l_conf = 0 THEN at' = "lircd" /\ UNCHANGED <<strings, stale>>
           ELSE /\ at' = "keys" /\ strings' = Config[l_conf]
                /\ stale' = IF l_conf < wanted /\ stale < 2 THEN stale + 1 ELSE stale
  /\ UNCHANGED <<vars, l_conf, reread_config, again, news, file, wanted, missed>>

(***************************************************************************)
(* loop_lirccmd: the strings of a key, one after the other, whether they   *)
(* fail or not.                                                            *)
(***************************************************************************)
NextString ==
  /\ at = "keys" /\ pc = "idle" /\ strings # <<>>
  /\ Fresh(Head(strings)) /\ pc' = "find" /\ strings' = Tail(strings)
  /\ UNCHANGED <<client, up, at, l_fd, l_conf, reread_config, again, world>>

LastString ==
  /\ at = "keys" /\ pc = "idle" /\ strings = <<>> /\ at' = "lircd"
  /\ UNCHANGED <<vars, l_fd, l_conf, reread_config, strings, again, world>>

\* duc_cmd has returned.
dudl_cmd ==
  /\ client = "ir" /\ pc = "done"
  /\ LET retry == result = -EIO /\ ~again
     IN /\ Fresh(IF retry THEN line ELSE <<>>)
        /\ pc' = IF retry THEN "find" ELSE "idle"
        /\ again' = retry
  /\ UNCHANGED <<client, up, at, l_fd, l_conf, reread_config, strings, world>>

LoopStep ==
  \/ ReopenLirc \/ ReadConfig \/ ConfigDone \/ Reconnect \/ Select \/ NextCode
  \/ NextString \/ LastString \/ dudl_cmd
  \/ CommandStep /\ UNCHANGED <<loop, keys, file, wanted, missed, stale>>
                 /\ news' = (news /\ up')

IrNext ==
  \/ Press \/ LircdDies \/ ServerActs \/ sig_hup
  \/ LoopStep
  \/ DudlcStep /\ UNCHANGED <<loop, world>>

IrSpec == IrInit /\ [][IrNext]_irvars

\* Where the program may block in recv, for which it sets no timeout: it has
\* connected, or sent a command or a lookup, and reads the answer.
Opening == ~up /\ (at = "open" \/ (pc = "run" /\ cmd = "open"))
Requesting ==
  pc = "run" /\ (cmd = "raw" \/ (plan # <<>> /\ (cmd = "status" => up)))
LookingUp ==
  LET s == Span(line, pos, Blank)
  IN /\ pc = "args" /\ ArgLeft /\ At(line, s) # NUL
     /\ Parse(args[Len(argv) + 1], s, {}).asked # {}
Awaits == client = "ir" /\ (Opening \/ Requesting \/ LookingUp)

\* The program runs on while it does not wait for the server.  Lircd, the server
\* and the user may do nothing; lircd sends whole lines.
FairIrSpec == IrSpec /\ WF_irvars(client = "ir" /\ ~Awaits /\ LoopStep)

(***************************************************************************)
(* Properties.                                                             *)
(***************************************************************************)
IrTypeOK ==
  /\ at \in {"lircd", "config", "read", "open", "select", "code", "keys"}
  /\ l_fd \in {"none", "ok", "dead"} /\ l_conf \in 0 .. file /\ reread_config \in BOOLEAN
  /\ keys \in 0 .. MaxKeys /\ file \in DOMAIN Config /\ wanted \in 1 .. file
  /\ client = "ir" /\ pc # "idle" => at = "keys"

\* A SIGHUP is not forgotten: as long as the configuration is older than the
\* last SIGHUP the flag is set, or there is none and it is read again anyway.
\* Lost are those that come between the reading of the file and the reset.
HupHonoured ==
  l_conf < wanted /\ ~missed => reread_config \/ l_conf = 0

\* After a SIGHUP at most one key is handled with the old configuration: the
\* one that ends a select entered after the signal.
OneKeyLate == stale <= 1 \/ missed

\* What the library cannot do without: every wait for the server ends, with its
\* answer or the loss of the connection.
ServerAnswers == []<>~Awaits

\* While keys wait, they go on being read, whatever the server answers or sends
\* unasked, as long as it does not keep silent in the middle of a reply.
KeysAreRead ==
  ServerAnswers /\ <>[](keys > 0) => []<><<keys' < keys>>_irvars

\* Once lircd and the server stop failing, irdudl is connected to both.
Trouble ==
  \/ at = "open" /\ at' = "select" /\ ~up'
  \/ at = "lircd" /\ at' = "config" /\ l_fd' = "none"
  \/ l_fd = "ok" /\ l_fd' = "dead"
  \/ up /\ ~up'
LircRecovers ==
  client = "ir" /\ ServerAnswers /\ <>[][~Trouble]_irvars => <>[](up /\ l_fd = "ok")

\* "retry a command to allow reconnect" (ir/main.c:85): irdudl does not give a
\* command up for a connection error before it has tried it again.
RetriedOnce ==
  [][client = "ir" /\ pc = "done" /\ pc' = "idle"
       => "failed: connection error" \notin said \/ again]_irvars
=============================================================================
