# A TLA+ model of dudlc

dudlc is the client side of the dudl jukebox: a library, `libdudlc`, that
speaks the line protocol of the server `dudld`, and three programs on top of it:
`dudlc` (readline, in a terminal), `irdudl` (a daemon for infrared remotes) and
`gtkdudlc` (a window). The server is not part of this repository; it appears in
the models as the environment, and does what the library lets it do.

This directory holds the model, its TLC runs (`*.cfg`), the proofs and
`PROJECT.json`, which ties every definition to the lines it stands for.

## The system

| part | source | state | operations | what makes it correct |
|---|---|---|---|---|
| socket | `lib/sock.c` | descriptor, receive buffer `buf`/`ilen`/`llen` | connect, disconnect, send, recv, getline | lines come out whole, in order, once; the bookkeeping stays within the buffer |
| session | `lib/session.c` | `struct dudlc`: `inreply`, `code`, `line`, credentials | `duc_open` (greeting, login, connect event), `duc_close` | a closed session can be reopened; what is kept from an old connection does not spoil the next; events tell the truth |
| protocol | `lib/proto.c` | uses the session's | `_duc_vsend`, `_duc_rnext`, `_duc_rlast`, the `_duc_cmd_*`, `duc_poll` | a reply is matched with its command although broadcasts come between its lines |
| iterators | `lib/iterate.c` | a list being filled | `_duc_it_newv` | a list is one whole reply; giving up leaves nothing behind |
| events | `lib/event.c` | the program's table of handlers | `_duc_bcast`, connect and disconnect events | handlers may call the library again |
| entities | `lib/track.c` … `lib/sleep.c` | none | one command each, field parsers | |
| commands | `cmd/command.c`, `cmd/msg.c`, `cmd/formatter.c` | table of text commands | `duc_cmd`: find, parse the arguments, run, print | the status reported is that of the command |
| id lists | `cmd/idlist.c`, `cmd/parseval.c` | a list under construction | parsers of `1,3-5`, of `c`, `id`, `c/pos`, of filters | accepted language, end pointer, iteration |
| dudlc | `cli/main.c`, `cli/tty.c`, `cli/events.c` | – | select loop; the disconnect handler reopens; `user` logs in anew | returns to the prompt, reports the connection |
| irdudl | `ir/main.c` | LIRC descriptor, configuration, `reread_config` | loop: reopen LIRC, reread, `duc_open`, select, poll, keys | keeps reconnecting, honours SIGHUP, reads its keys |
| gtkdudlc | `gtk/main.c`, `gtk/playbox.c`, `gtk/queuewin.c`, `gtk/queue.c` | watch, idle update, the windows' contents | connect and disconnect handlers, handlers of broadcasts, widget signals | windows show what the server has |
| gtk browsing | `gtk/browse.c`, `gtk/tracksearch.c`, `gtk/cur*.c`, `gtk/track.c`, `gtk/album.c`, `gtk/artist.c` | lists, selections, sensitivity of actions | what follows a selection; commands on the selected rows | lists belong to the selection above them; every selected row is acted on |
| options, packaging | `cli/options.c`, `gtk/options.c`, `debian/` | – | – | not modelled |

How they interact. Everything is one thread. The programs' loops call into the
library when a user acts or when `select` (in GTK a watch) finds the descriptor
readable. The library blocks in `recv` until a reply is complete. It calls back:
broadcasts (lines whose code begins with 6) go to the program's handlers from
inside `_duc_rnext` and `duc_poll`, and connect and disconnect events are
raised inside `duc_open` and `duc_close`. Handlers call the library again:
dudlc's disconnect handler calls `duc_open`; gtkdudlc's connect handler sends
three commands; clearing gtkdudlc's windows moves its slider, whose signal
sends `jump`. Any of these may in turn find the connection lost. So the hard
part of this code is not parallelism but reentrance: a function that resumes
after a call finds the session closed, reopened, or in the hands of a caller
further down the stack. `PROJECT.json`, `hazards`, lists where this bites.

## Modules

| module | models | |
|---|---|---|
| `LineSocket` | the abstract socket: a queue of whole lines | what `Sock` provides and `Session` relies on |
| `Sock` | `lib/sock.c` on bytes, used as `_duc_rnext` and `duc_poll` use it | implements `LineSocket` |
| `Session` | `lib/session.c`, `lib/proto.c`, `lib/iterate.c`, the events, and what the three programs' handlers and loops do to the session | uses `LineSocket` |
| `ParseVal` | `cmd/parseval.c`, `cmd/idlist.c`: the parsers of arguments | operators on texts |
| `CommandTable` | the tables of `cmd/command.c` and what the calls of `lib/` return | data |
| `Grammar` | what the comments on the parsers say of lists: which are allowed, and what they mean | extends `ParseVal` |
| `Commands` | `duc_cmd`: from a text to requests and a report; dudlc's prompt and `dudlc -c` | extends `CommandTable`, `Grammar` |
| `Irdudl` | `ir/main.c` around it: LIRC, configuration, SIGHUP, keys | extends `Commands` |
| `Records` | the records of `lib/track.c` … `lib/sleep.c`: fields, escaping, heap objects | operators on lines |
| `Lists` | `lib/iterate.c`, `duc_cmd_queuealbum`, `_duc_bcast` | uses `Records` |
| `Gtk` | gtkdudlc's player and queue windows, its watch and its idle update | |
| `Browse` | gtkdudlc's browse and search windows, selections and the commands on them | |
| `MC…` | values of the constants for TLC | one per specification |
| `SockProofs`, `SessionProofs`, `SessionWireProofs`, `IrProofs`, `ListsProofs`, `GtkProofs`, `BrowseProofs` | theorems and their proofs | |
| `Recursion` | lemmas on recursive functions and on sequences put together | used by `IrProofs`, `ListsProofs`, `GtkProofs` |

### Session

The state has four parts. `wire` is the connection and the server's half of
it: `link` (our descriptor is -1, live, or live at our end only), the commands
the server still owes an answer (`owed`), the code of a reply it is in the
middle of, the lines on their way (`net`), whether it still waits for a login
(`guest`). `sess` is `struct dudlc` with its buffer: `rx`, `inreply`, `code`,
`line`. `prog` is the program: which one, the connection status its events
reported last, and gtkdudlc's slider. `ctl` is the C stack: `pc`, the place in
the running function, `arg`, its command, `stk`, where the callers resume, and
`res`, what the call that returned gave. A place is named after its function:
`open.hello` is the rest of `duc_open` after it read the greeting. Each action
is the code from one place to the next call, return or blocking `recv`; nothing
else of the process runs in between, the server and the network do.

A line is a record: what it answers, its code, whether it is the last of its
reply. Texts, numbers and parsing are left out, except that a greeting may name
another protocol (`alien`), and that a converter may reject a line. Codes are
given by their first digit, as the code looks at them, with several codes of one
digit where a difference matters. The server greets; answers each command by
one or more lines of one code; broadcasts; hangs up at any moment, losing any
suffix of what was on its way; may refuse connections. With `Rogue` it also
sends lines that are too short, unasked for, or that change the code within a
reply. `cause` records that one of these gave us a reason to hang up.

Three programs are one constant, `Programs`: `ir` (irdudl, and `dudlc -c`,
which install no handlers for these events), `cli` (dudlc) and `gtk`.

### Sock and LineSocket

`Sock` counts bytes: a text byte is the number of its line, so that a property
can tell a text that is whole from one that is joined, cut or repeated. It has
`freeline`, `strcspn` and `strspn` as in the code, including what becomes of
`llen` when a line fills the buffer. `strcspn` and `strspn` are relations (*n is
the length of the prefix*) and not recursive functions, so that proofs can use
them. `LineSocket` has whole lines only. `Sock!ImplementsLines` says that the
bytes behave like these lines, `Session!OnLineSocket` that the session moves
lines in no other way; so what is shown of `Session` rests on `Sock`, for
lines that fit. Both are theorems as well.

### ParseVal, Grammar, CommandTable, Commands

A text is a sequence of lexemes: numerals, words, blanks and the characters the
parsers look at. A parser is an operator with the C function's arguments that
returns its value and where it leaves `*end`; leaving it at the start means the
text is rejected. A loop over the items of a list is a recursive function of the number
of turns: `list_turn`, `clist_turn` and `tracklist_turn` are the loops' bodies, and `Listed`
is where a list stands after n of them. Lookups at the server (`c`, album/number, names of tags and filters)
take the set of those that fail, a list of an album's tracks after any number of them, when it is
taken for the whole. `LexemesAssumption` keeps the kinds of lexemes
apart, `CatalogAssumption` says what the server may answer.

`Grammar` has the same lists as sentences, sequences of items, and says how each item is spelled
and which ids it denotes, from the comments and without the parsers. Where the parsers do less than a comment says,
`Grammar` names it.

`CommandTable` states each command as data: its arguments, how its handler uses
the first of them (once, for each id, for each pair), the calls it makes, and
which of their values it takes for a failure. `ASSUME TablesFit` checks the
tables against each other, `ASSUME TestsFit` that each handler's test of a result
tells failures from successes, but for the commands named in `Misread`. `Commands`
interprets them: `duc_cmd` finds the
command, `ArgMissing`, `ArgParsed` and `ArgsEnd` are the turns of
`cmd_arg_parse`, `Request` is one library call with its outcome: accepted,
refused with the session open, or the connection lost (and, in dudlc, reopened by
the handler). `plan` is what the handler has still to ask for, `step` the call
it makes of the next item. `live` is the heap of the line, by argument.

### Irdudl

Irdudl's loop statement by statement (`at`): lircd, configuration, server,
select, key; the strings of a key are executed by `Commands`. `sig_hup` may come
between any two steps; it interrupts a select. `wanted` is the version of the
configuration the last SIGHUP announced, `stale` counts the keys handled with an
older one since, `missed` records a signal that came between
`lirc_readconfig` and `reread_config = 0`; these three are for the properties.

### Records and Lists

A record is a function from paths of field names to values, and `Fields` lists
the paths in the order of the parsers, so that one operator `Parse` stands for
all of `_duc_*_parse` and one operator `Objects` for what `duc_*_free` frees. A
line is a sequence of characters, a run of digits being one; texts hold tabs and
backslashes. What the server writes (`Escaped`, `Line`) is known from what the
parsers expect, as is all of the server here.

`Lists` reads a reply line by line (`Ask`, `First`, `Convert`, `Clean`), a refusal of one or more lines too, loses the
connection at any line, and hands the items to a caller: one that shows them, or
`duc_cmd_queuealbum`, which queues the tracks of the list one by one. `Bcast`
parses a broadcast and emits its event. The session below is three booleans here,
`inreply`, `up`, `lost`; `Session` has them in detail. `ListsAssumption` and
`BroadcastsAssumption` say what a line the server sends may hold (`Holds`): a record
as `Line` writes it, with any numerals and texts and possibly something behind it; or
none, when it is empty or begins with neither a number nor a tab. That the parsers understand such
lines is not assumed but proved.

### Gtk

As in `Session` the C stack is explicit (`pc`, `req`, `ret`, `stk`), and the
session is cut down to what the windows can tell apart: a request is refused
while a reply is read, opens the connection if need be, may lose it. A server
with a player and a queue answers in order and broadcasts its changes, between
the lines of a list as well. `Shown` says what each broadcast does to the
windows; `Close` is `duc_close` with `ev_disc`, up to the point where putting the
slider back sends a `jump`, `Disconnected` the rest of it; `Connected`,
`ConnStatus`, `ConnTrack`, `ConnQueue` are `ev_conn`; `Idle` and the three actions
after it are `detail_update_idle` and its requests; `iowatch_dudl` is the GLib watch. `lapses`
records what became of the list the queue window was last filled from: broadcasts
between its lines (*torn*), cleared by an outer `ev_disc` after it was filled
(*wiped*), cut short by a loss (*cut*). User commands other than the slider are a
request without effect on the windows (`Click`): what the server does for
them is among the changes it may make at any time.

### Browse

Each list of gtkdudlc is a record of its rows, what is selected, and whether the
actions that need one row or any row are offered. The album list follows the
selected artist, the track list the selected album (`Followed`); a list may come
whole, cut or not at all, independently of why (`Fetched`). A command on a
selection (`Begin`, `Each`) makes a request per row, and every request may
dispatch broadcasts that take rows out of the list it walks. GTK is external: a new model empties the
selection and emits "changed"; a foreach ends when its model changes.

## Runs

| run | question | states |
|---|---|---|
| `session` | all three programs, a server that keeps to the protocol and may fail at any time | 1.1 M |
| `session_live` | a server outside the protocol: never stuck, never follows a NULL code; irdudl's calls return, it reconnects for good | 0.4 M |
| `sock` | lines that fit: bookkeeping, and `Sock` implements `LineSocket` | 70 k |
| `sock_long` | lines of any length, LF or CR LF: no overrun, and every text is the next one sent | 0.3 M |
| `commands` | every command, good and bad arguments, failing requests; irdudl's loop around it | 50 k |
| `lists` | lists of every entity, cut or unreadable in each place; albums queued; broadcasts | 7 k |
| `gtk` | nested handlers: one watch, windows that show player and queue | 2.1 M |
| `browse` | lists that change under selections and commands | 0.7 M |
| `sock_truncate` | **violated**: the program survives a line it truncates | |
| `commands_users` | **violated**: commands about users name users | |
| `irdudl_retry` | **violated**: a command is retried after a lost connection | |
| `gtk_lists` | **violated**: the lists of track and album are up to date | |

`session`: `InReplyTruth` relates `inreply` to what is really
due: if it is not set nothing of a reply is on its way, so the next command
cannot take an older reply for its own; if it is set there is exactly one reply
to wait for, so `recv` does not block for nothing.
`ReplyIsOurs`: the line a command is judged by answers this command.
`LoginComesFirst`: no command overtakes the login, although every command opens
the session by itself. `OneHandshake` and `StatusTruth` hold for irdudl and
gtkdudlc and are restricted to them: for dudlc, whose disconnect handler
reopens within an unfinished handshake, they fail.
`CauselessHangupClears`: when a connection is given up for no other reason
than a code left by an earlier attempt, this code is gone
afterwards, so that one retry is enough; `session_live` checks the consequence.
`OnLineSocket`: lines move only as the socket moves them.

`session_live`: `NotWedged`: `inreply` is
set only while some reader works on an open connection; otherwise
`_duc_vsend` would refuse every command, and with it the reconnect.
`CodeIsThere`: whoever follows `_duc_rcode`'s pointer has a code. `CallsReturn`: the
calls of irdudl and of `dudlc -c` come back to the main loop, without exception (their stack never reaches
`MaxDepth`). Those made at dudlc's prompt come back unless servers that accept and hang up have it reopen
within itself until `MaxDepth` calls are nested: the code has no bound there, its stack grows with
the servers' patience, and what happens below the bound is not claimed. `Reconnects`: below.

`commands`: `ListsUnderstood` compares the parsers with the grammars of
the comments: every sentence of one or two items is accepted and read as the ids
`Grammar` says it denotes. `QuietMeansDone`: a command that
reported nothing has made all its requests, for every id of its list or every pair of two lists, and all were accepted. `CutEndsCommand`: once the
connection is lost no further request of the line goes out, which would open a
new session. `FailuresAreTold`: each handler has its own test of what a call
returned; a failure is reported and only a failure is, except for `raw`, `gapset`
and `rgpreamp`. `FreedWhenAccepted`: no leak, except after an argument that is the
number 0. `HupHonoured`, `OneKeyLate`: SIGHUP is not forgotten, and at most one key
is handled with the old configuration. `KeysAreRead`, `LircRecovers`: keys go on being read and lost connections
come back, as long as the server does not fall silent in the middle of a reply.

`lists`: `ReadBack`: records come back as the server had them, escapes
included. `CompleteOrLost`: a returned list is the whole one unless the connection was
lost under it; one unreadable line and the caller gets none of it.
`NothingLeaks`, `ReplyRead`: however reading ends, nothing is left on the
heap or in the reply. `AlbumQueued`: what is queued is a prefix of the album, all
of it on success. `EventTruth`: handlers get the record the server sent or are not called.

`gtk`: `WatchedOnce`: one watch on an open connection, none on a closed one.
`PlayerShown`, `QueueShown`, `OfflineShown`: with nothing on its way the
windows show the player, the queue, or nothing. `browse`: `BrowseFollows`,
`SelectionHandled`: see the comments there.

Bounds. `session`: `Window`: two lines in flight or in the buffer; the interesting cases
are a broadcast between two lines of a reply, a reply with a broadcast behind
it, and two broadcasts, all of which fit in two. `MaxDepth` bounds the stack at
which a server still accepts (8 frames: a command, its `duc_open`, the login
within, a close within that, the reconnect in its handler, and the handshake of
the second connection; 6 in `session_live`): it bounds the servers (`MayNest`), as the code would nest for as long as they accept and
hang up; the theorems hold for every `MaxDepth`. Codes: one success, one "go on" (two replies may differ without either being
an error), one error. `GuestHears = FALSE`: who has not logged in gets no
broadcasts (see Proofs). `session_live` leaves out gtkdudlc, the "go on" and the login: the
temporal properties need a graph TLC can search, and none of the three changes who waits for whom. `sock`: a buffer of 6 bytes, texts of 1 and 3 bytes,
4 lines per connection: several lines at once, a line in pieces, a full
buffer; `sock_long`: texts of 1, 5 and 7, shorter, as long as and longer than
the buffer. `commands`: each command with each kind of good and bad argument,
lists of up to two items of every form over a catalogue of three tracks on two albums, so
that a lookup finds one, several or nothing; two keys waiting, three versions of the
configuration, so that a SIGHUP can follow a SIGHUP. `lists`: replies of one to three lines with
an unreadable line in each place. `gtk`: two tracks, two entries, two
changes at the server, two connections, a stack of 7 calls: enough for `ev_disc` to reconnect under itself and fill windows it then
clears. `browse`: two artists and a track on another artist's album, one browse window, two other
lists filled at a time.

Fairness. The process runs when it can (weak fairness of `Library`), and its
loop polls a readable descriptor (strong fairness of `UserPolls`: commands may
run in between, but `select` returns with the descriptor each time). A live
server finishes the reply it owes (strong fairness of `ServerAnswers(TRUE)`,
strong because the window may be full of broadcasts); the server outside the
protocol, too, but it may send anything else before. `IrSpec` of `Session` adds irdudl's
`duc_open` in each turn of its loop. There is no client-side timeout: without
the assumption on the server the code blocks in `recv` for good. `FairIrSpec` of `Irdudl` assumes
that the process runs where it does not wait for the server (`Awaits`); lircd, the server and the user may stop, and
with the server silent in the middle of a reply irdudl does. So `KeysAreRead` and `LircRecovers` state what they need
of it, `ServerAnswers`: no wait lasts for ever, be it ended by an answer or by the loss of the connection. `KeysAreRead`
then holds because one turn of the loop serves both descriptors; `LircRecovers` because
select has a timeout whenever one of them is missing.

Deadlock checking is off in `sock_long` only, where the process may crash.

## Findings

Four runs end in a violation:

1. `sock_truncate`: a line of `BUFLENRCV - 1` bytes is truncated with
   `llen = ilen + 1`; the next `freeline` moves -1 bytes.
2. `commands_users`: `userget` and `userdel` take `args_userlist`, whose value is
   a list, and cast its address to the id.
3. `irdudl_retry`: the retry asks for `-EIO`, but `duc_cmd` returns 0 whatever
   became of a command (its log message "duc_cmd failed" never appears
   for one either). A key pressed while the connection breaks is lost.
4. `gtk_lists`: `detail_update_idle` resets `needupdate` after requests during
   which the next track may have set it.

Facts met while modelling, which no document of the repository contradicts. The
properties except them explicitly where they touch them.

- Session. `duc_open` that fails after the greeting leaves `code` set
  (`session.c:125`), and the next healthy connection is closed because its
  greeting has another code; the attempt after that succeeds. In dudlc, the event
  given last may be "connected" while the connection is closed: an outer
  `duc_open` disconnects, without an event, what an inner one had
  connected. Broadcasts that arrive with the last line of a reply wait in
  the buffer, unseen by `select`, until more arrives. `duc_poll` receives before it takes
  lines: with a full buffer it hangs up a live server.
- Lists. A list cut off by a lost connection is returned as complete, and
  `duc_cmd_queuealbum` goes on with it and may report success. An empty line ends
  a list for its reader, but for `help`'s. `duc_cmd_queuealbum` leaks the parts of the tracks. `strtol`
  skips tabs, so an empty number takes the next field's.
- Commands. A negative id ends the iteration silently. `cmd_arg_free` stops at an
  argument that is the number 0; refused lines leak the command's name or a list. A trailing
  blank is "too many arguments" for commands without arguments in irdudl and
  `dudlc -c`, which do not strip it. `gapset` takes a nonzero answer for
  a failure, `rgpreamp` a negative one; `raw` reports refusals as success. Failed lookups below a `/`
  are left out of a list of tracks, of an album cut off by a loss the rest is, and `c/<num>` looks the number up in album -1. The comment's
  `[<hours>:[<minutes>:]]<seconds>` (`parseval.c:485`) is read as one number; `3-3` is refused.
- irdudl. A SIGHUP between reading the configuration and resetting the flag is
  lost; one between the check of the flag and `select` waits for the next key.
- gtkdudlc. After a loss with the slider not at 0, `ev_disc` reconnects and sends
  `jump 0`, which restarts the track, and then clears the queue window just
  filled. A queue list cut by the loss is shown while offline. `open_browse`
  dereferences the current track, which may be NULL; `tree_view_select` uses an uninitialised path when a list
  lacks the row. `act_browse` goes by the track's artist and not the album's.

## Proofs

The theorems hold for every value of the constants, under the modules' `ASSUME`s and
where they say so a hypothesis:

- `~Rogue`: the server answers what it was asked, with lines of one code. Without it
  nothing can be said about whose reply a line is; what must hold all the same
  (`NotWedged`, `CodeIsThere`, `OnLineSocket`) is proved without it.
- `~GuestHears`: the server broadcasts to nobody who is still to log in.
  `session` is run with `GuestHears = FALSE`. With `TRUE`, a broadcast
  read during a handshake sets gtkdudlc's slider off, whose `jump` opens a second
  session inside the first: `OneHandshake` fails.
- `ShortLines`: all lines are shorter than `BUFLENRCV - 1`. `sock_truncate` shows what
  happens otherwise.

Each theorem rests on an inductive invariant, which TLC checked on the runs'
instances first.

`SessionProofs`: `TypeCorrect`, `Spec => []TypeOK`. `TypeOK` is inductive
because it includes the discipline of the stack: the main loop's frame is at the
bottom and nowhere else, and a place where a command is known has one. The
proof has a lemma for each of the three ways control moves (`GotoOK`, `CallOK`,
`ReturnOK`), one for the actions that only move control, one for the server,
and one for the rest. `UsesLineSocket` (`OnLineSocket`): each step of the session is a step
of `LineSocket` or moves no line; a closed connection holds none (`DownEmpty`).

`NeverWedged`, `Spec => []NotWedged`, also in `SessionProofs`. A handler may run
anywhere below a `_duc_rnext` loop, so where `inreply` may be set depends on the
frames of the stack. The invariant `ReplyInv` says: `inreply` implies an open
connection; whoever calls `_duc_vsend` reads the reply next (`SendShape`); and
control is in one of three shapes. `Plain`: no loop waits further down, and
`inreply` is set only where the running function reads, closes or has just
sent. `Handling`: a broadcast's handler runs on top of a loop. `Refusing`: its
command is in `_duc_vsend`, about to be refused. So a handler that sends a
command in the middle of a reply never gets further than that refusal, which is
why `inreply` outlives it. Lemmas for a call, a return and a jump preserve
`SendShape` and `Plain`; the actions at places where no reply is expected share
one lemma (`CalmStepOK`), the others have one each.

`CodeAlwaysThere`, `Spec => []CodeIsThere`, is proved there too, for rogue servers
as well. The code a caller looks at was set, or left empty, by functions that have
returned since. The invariant `CodeInv` has three parts. `LinesCoded`: a line that
is neither short nor a broadcast has a code. `CallShapes`: above a caller
waiting at `cmd.code` there is only `_duc_rlast`, or the way out through
`duc_close`; above one waiting for its command to be sent only `_duc_vsend`, or that
way out, which ends in failure. `CodeKnown`: a command that was sent has `inreply`
set; `_duc_rlast` runs with a reply to come or its code at hand; and so on up
to the places where the code is used. `_duc_rlast` may be interrupted by a
handler, but by `ReplyInv` the handler's command is refused and changes nothing.

`SessionWireProofs` follows a reply over the wire, with `~Rogue`. `CtlInv` is the call graph:
which functions may run above a caller, and that a command is handed up unchanged.
`DueInv`: of what the server owes and the lines in flight at most one reply is
due, it comes last, and nothing is due without `inreply`. With these (`WireInv`):

- `InReplyIsTrue` (`InReplyTruth`).
- `RepliesAreOurs` (`ReplyIsOurs`). `OursInv`: who waits for a reply waits for the one that is
  due; `LineInv`: the line a command will be judged by answers it, once read.
- `LoginIsFirst` (`LoginComesFirst`). `GuestInv`: while the server waits for a login, the stack is
  that of a handshake; `PassInv`: it goes on to wait only if the login was answered by an error.
- `HandshakesAlone` (`OneHandshake`) and `StatusIsTrue` (`StatusTruth`), with `~GuestHears` too. `ShakeInv`: above a
  handshake there is only its own login, and once its connection is lost only
  functions about to fail; `BcastInv`: no broadcast is at hand before the
  reply it waits for.
- `HangupClears` (`CauselessHangupClears`), under both hypotheses. `RefusalInv`: a refusal that is on
  its way, or read, is a cause; `FailInv`: nothing else makes a handshake fail while its
  connection is open.

`SockProofs`: `SockTypeCorrect`, `BufferCorrect` (`recv` never fills the last byte, and
`_duc_rnext` never receives into a full buffer, for any input) and
`LinesWithinBuffer` (`llen <= ilen` for `ShortLines`). The last one is not inductive: whether a full buffer holds an end of line depends
on what is still on its way. The invariant `SockInv` adds that in the stream of
bytes in sight, buffer and network together, every window of `BUFLENRCV - 1`
bytes has an end of line, that the stream ends with one while the server is
there, and that nothing is left of a closed connection. `recv` does not change
this stream, `freeline` takes from its beginning, a hang-up from its end, a line
sent extends it: four lemmas.

`LinesAreWhole` (`WholeLines`), for lines of any length and either line end: `ToldInv` says of the
stream behind the line handed out that its texts are lines sent, in order and
beginning with the next, each as long as it was sent unless the stream ends within it, and that they are all while
the server is there. `SockImplementsLines`, `Spec => ImplementsLines` for `ShortLines`:
every step of the bytes is a step of `LineSocket`, or changes none of its
lines. The refinement mapping counts complete lines; `CountInv` bounds their
number by what was sent, and the lemmas say what appending a line, cutting the
stream and taking its first line do to the count.

`IrProofs`: `IrTypeCorrect`, `HupIsHonoured` (`HupHonoured`) and
`AtMostOneKeyLate` (`OneKeyLate`), for every configuration, every set of lines and any number of
signals. The invariants go by the place in the loop: past the check of the flag one key may still be
late; before it, none is unless the flag is set. `TheCutEndsIt` (`CutEndsCommand`), `AllFailuresTold`
(`FailuresAreTold`) and `ArgumentsAreFreed` (`FreedWhenAccepted`) hold for all texts, whatever the parsers make of them.
Their invariant `CmdInv`: a handler at its work has told what
failed and was not cut off, and what is on the heap belongs to arguments read so far. Of
the table they use `TablesFit` and `TestsFit`, which TLC evaluates, and no entry.

The parsers are proved about there as well, for all texts. `ParsersStayInside`, `IrSpec => []InText`:
wherever the parsers take it, `duc_cmd` reads within its line or at the end of it; one lemma per
parser says where it leaves `*end`.
`ListsAreUnderstood` (`ListsUnderstood`), for all sentences of any length, and all catalogues: the
invariant `LineInv` says that a list that was read is a sequence of integers, those the sentence denotes if its
text is one (`ArgumentsRead`), and that no text that is one was refused (`RefusedRightly`); the rest is about operators. One turn of a
loop over the spelling of one item adds the ids of this item and stands at the next one, a lemma per kind
of item; the turns add up to the meaning of the sentence, by the lemmas of `Recursion`. The
hypotheses are the `ASSUME`s on lexemes, catalogue and sentences, and that lines and configurations
hold no NUL.
`QuietIsDone` (`QuietMeansDone`): `DoneInv` says that as long as nothing was told, the requests made (`tried`)
are the beginning of those to be made for `Plan`, in order, and `plan` with `step` is the rest (`InTurn`);
and `PlanFits` says what a plan has to hold, one item, one for each id reached, or one for
each pair, the latter where `Flattened` puts them. TLC checked both on the instance of `commands`.

`ListsProofs`: `ReplyIsRead` (`ReplyRead`), for all replies: `inreply` is set only in
the three places that read, and says there whether a line is left. `ListIsFreed` (`NothingLeaks`) from
`ListInv`: what was taken and what is in the iterator make up the beginning of the
reply (`Ordered`), where each stage has got to (`Stage`), what queuealbum has added
and has left to add (`Queued`), and whose each object on the heap is (`Heap`).
`RecordsAreTheServers` (`ReadBack`), `ListIsComplete` (`CompleteOrLost`) and `AlbumIsQueued` (`AlbumQueued`) use the lemma `LinesRead` besides: what a parser
reads of one line is the record written into it. This comes from two theorems on the operators of `Records`. `EscapedBack`:
`_duc_fielddup` gives back any text that was escaped. `LineParsed`: `Parse` reads what `Line` wrote, for every type and record.
`EventsAreTrue` (`EventTruth`) is `LineParsed` for broadcasts.

`Recursion` is how the recursive functions of these modules are followed without induction over data: a
run of steps exists up to every n, because the least n without one would have
one (`UpTo`, `Iterates`), and two runs that begin alike are alike (`SameRun`);
`Flattened` says where the pieces of a concatenation lie.

`GtkProofs`: `WatchesMatch` (`WatchedOnce`), for every depth of nesting. The
invariant drops the condition that control is in the main loop: the number of
watches follows the connection in every step. `GtkTypeCorrect` (`TypeOK`) and `OfflineIsBlank` (`OfflineShown`) from
`GtkInv`: who may wait below whom (`Frames`), what is on the wire (`Traffic`), that
a reply comes in one piece when one is awaited (`Reply`), what a call may return (`Returned`),
and that without a connection the windows are blank once `ev_disc` has been through (`Cleared`).
`PlayerIsShown` (`PlayerShown`): `PlayerInv` says for each place which of
three is newest: the widget, the answer on its way to it, or a broadcast that follows.
`QueueIsShown` (`QueueShown`): `QueueInv` says that the window, changed by each broadcast on its way and
replaced by the list on its way, is the queue (`Hearing`, `Agrees`). What a
sequence of messages does to a window is stated without recursion, as the
existence of the windows in between; that they exist is shown by the shortest
sequence for which they do not.

`BrowseProofs`: `AllHandled` (`SelectionHandled`) from the invariant that what
was asked is a prefix of what was wanted and only lists of what is played are touched;
`WindowFollows` (`BrowseFollows`) from the shape of the views: no action but those of the browse
window changes its lists, and a selection names rows of its list.

Model-checked only:

- Liveness, which this prover does not do: `CallsReturn`, `Reconnects`, `KeysAreRead`, `LircRecovers`.
- The four violations, which are counterexamples.

## Not modelled

Memory exhaustion (except the two failures `_duc_it_newv` shares with
a rejected line); host name lookup as distinct from a failing connect;
formatting and printing of what was read (`cmd/msg.c`, `cmd/formatter.c`), completion and readline;
partial writes of commands (at most 2 KB, never
blocking); SIGPIPE (ignored by irdudl and interactive dudlc) and SIGTERM; layout, columns, sorting and
menus of gtkdudlc, and which buttons of its player are sensitive; options files, daemon start
and packaging. Lines that lack their last fields make the parsers read past the line's NUL; such
lines are not among the inputs.

## Plan

Done: the modules, runs and theorems above; every safety property of a passing run
is a theorem. What would come next:

1. The grammars of arguments that are not lists: filters, `<album>/<pos>`, times.
2. `cmd/formatter.c`, whose widths and escapes nothing checks.
