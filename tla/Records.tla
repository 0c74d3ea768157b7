------------------------------ MODULE Records ------------------------------
(***************************************************************************)
(* The records the server sends (src/lib): a line holds the fields of a    *)
(* record, and those of the records it refers to, separated by tabs.       *)
(*                                                                         *)
(* A line is a sequence of characters; a run of digits counts as one.  A   *)
(* position is an index into it, Len(line) + 1 is the terminating NUL.     *)
(***************************************************************************)
EXTENDS Integers, Sequences, SequencesExt, Functions, FiniteSets

CONSTANT Numerals    \* the runs of digits

TAB == "\t"
BS == "\\"
NUL == ""

ASSUME RecordsAssumption == Numerals \cap {TAB, NUL} = {}

At(line, s) == IF s <= Len(line) THEN line[s] ELSE NUL

(***************************************************************************)
(* The fields, in the order in which they are parsed: each has the path of *)
(* names that leads to it, and is a number or a text.                      *)
(***************************************************************************)
Number(f) == << [path |-> <<f>>, kind |-> "int"] >>
Text(f) == << [path |-> <<f>>, kind |-> "text"] >>
Sub(f, fields) == [k \in DOMAIN fields |-> [fields[k] EXCEPT !.path = <<f>> \o @]]

user == Number("id") \o Text("name") \o Number("right")
client == Number("id") \o Text("addr") \o Sub("user", user)
tag == Number("id") \o Text("name") \o Text("desc")
sfilter == Number("id") \o Text("name") \o Text("filter")
artist == Number("id") \o Text("artist")
album == Number("id") \o Text("album") \o Number("year") \o Sub("artist", artist)
track == Number("id") \o Number("albumnr") \o Text("title") \o Number("duration")
         \o Sub("artist", artist) \o Sub("album", album)
queue == Number("id") \o Number("queued") \o Sub("user", user) \o Sub("track", track)
history == Number("played") \o Sub("user", user) \o Sub("track", track)

Fields ==
  [user |-> user, client |-> client, tag |-> tag, sfilter |-> sfilter, artist |-> artist,
   album |-> album, track |-> track, queue |-> queue, history |-> history]

\* Each begins with a number.
ASSUME FieldsFit ==
  \A t \in DOMAIN Fields :
    /\ Fields[t] \in Seq([path : Seq(STRING), kind : {"int", "text"}]) \ {<<>>}
    /\ Fields[t][1].kind = "int"

(***************************************************************************)
(* Reading a field: where it starts, what it is worth and where it ends.   *)
(***************************************************************************)
\* strtol passes white space, which a tab is.
Strtol(line, s) ==
  LET n == CHOOSE n \in s .. Len(line) + 1 :
             At(line, n) # TAB /\ \A k \in s .. n - 1 : line[k] = TAB
  IN IF At(line, n) \in Numerals THEN [val |-> line[n], end |-> n + 1]
     ELSE [val |-> NUL, end |-> s]

\* A backslash stands for the character after it, and with a t for a tab.
Take(acc, ch) ==
  CASE acc.escape -> [text |-> Append(acc.text, IF ch = "t" THEN TAB ELSE ch), escape |-> FALSE]
    [] ch = BS /\ ~acc.escape -> [acc EXCEPT !.escape = TRUE]
    [] OTHER -> [acc EXCEPT !.text = Append(@, ch)]

Unescaped(text) ==
  LET upto[k \in 0 .. Len(text)] ==
        IF k = 0 THEN [text |-> <<>>, escape |-> FALSE] ELSE Take(upto[k - 1], text[k])
  IN upto[Len(text)].text

\* Up to the next tab.
fielddup(line, s) ==
  LET end == CHOOSE e \in s .. Len(line) + 1 :
               At(line, e) \in {TAB, NUL} /\ \A k \in s .. e - 1 : line[k] # TAB
  IN [val |-> Unescaped(SubSeq(line, s, end - 1)), end |-> end]

(***************************************************************************)
(* Parsing a record.  The character after a field is passed, whatever it   *)
(* is.  Of a field that is no number the record is rejected, end is left   *)
(* at the start of the line, and what was allocated is freed.  A line that *)
(* lacks fields is read past its NUL; none is considered here but the      *)
(* empty one, which is rejected at once.                                   *)
(***************************************************************************)
NULL == [path \in {} |-> NUL]

help_parse(line) == [val |-> [p \in {<<"line">>} |-> line], end |-> Len(line) + 1]

Read(line, acc, f) ==
  LET s == acc.end + 1
      r == IF f.kind = "int" THEN Strtol(line, s) ELSE fielddup(line, s)
  IN IF acc.failed \/ s > Len(line) + 1 \/ (f.kind = "int" /\ r.end = s)
     THEN [failed |-> TRUE, val |-> NULL, end |-> 1]
     ELSE [failed |-> FALSE, end |-> r.end, val |->
            [p \in DOMAIN acc.val \cup {f.path} |-> IF p = f.path THEN r.val ELSE acc.val[p]]]

Parse(type, line) ==
  LET upto[k \in 0 .. Len(Fields[type])] ==
        IF k = 0 THEN [failed |-> FALSE, val |-> NULL, end |-> 0]
        ELSE Read(line, upto[k - 1], Fields[type][k])
      r == upto[Len(Fields[type])]
  IN IF type = "help" THEN help_parse(line) ELSE [val |-> r.val, end |-> r.end]

\* The heap objects of a record: a structure for it and for each record it
\* refers to, and the texts.
Struct(type) == {<<>>} \cup {Front(Fields[type][k].path) : k \in DOMAIN Fields[type]}
Texts(type) == {Fields[type][k].path : k \in {j \in DOMAIN Fields[type] :
                                                Fields[type][j].kind = "text"}}
Objects(type) == IF type = "help" THEN {<<>>} ELSE Struct(type) \cup Texts(type)

(***************************************************************************)
(* The server's side, known from what the parsers expect.                  *)
(***************************************************************************)
EscapedChar(ch) ==
  CASE ch = TAB -> <<BS, "t">> [] ch = BS -> <<BS, BS>> [] OTHER -> <<ch>>
Escaped(text) == FlattenSeq([k \in DOMAIN text |-> EscapedChar(text[k])])

\* A field, behind the tab that separates it from the one before.
Written(record, f) ==
  <<TAB>> \o IF f.kind = "int" THEN <<record[f.path]>> ELSE Escaped(record[f.path])

Line(type, record) ==
  IF type = "help" THEN record[<<"line">>]
  ELSE Tail(FlattenSeq([k \in DOMAIN Fields[type] |-> Written(record, Fields[type][k])]))

(***************************************************************************)
(* What a line may hold: a record, with or without something behind it; or *)
(* no record, when it does not begin with a number.                        *)
(***************************************************************************)
IsText(x) == x \in Seq(ToSet(x)) /\ NUL \notin ToSet(x)

IsRecord(type, record) ==
  /\ record = [p \in {Fields[type][k].path : k \in DOMAIN Fields[type]} |-> record[p]]
  /\ \A k \in DOMAIN Fields[type] :
       LET f == Fields[type][k] IN
       IF f.kind = "int" THEN record[f.path] \in Numerals ELSE IsText(record[f.path])

Holds(type, line, record) ==
  IF type = "help" THEN record = [p \in {<<"line">>} |-> line]
  ELSE IF record = NULL THEN line = <<>> \/ line[1] \notin Numerals \cup {TAB}
  ELSE /\ IsRecord(type, record) /\ IsPrefix(Line(type, record), line)
       /\ At(line, Len(Line(type, record)) + 1) \in {TAB, NUL}
=============================================================================
