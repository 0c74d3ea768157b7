------------------------------ MODULE ParseVal ------------------------------
(***************************************************************************)
(* The parsers that read the arguments of a text command                   *)
(* (src/cmd/parseval.c, src/cmd/idlist.c).                                 *)
(*                                                                         *)
(* A text is a sequence of lexemes: a numeral, a word (a run of letters;   *)
(* "c" is a word of its own wherever it comes first), a blank, or one of   *)
(* the characters , - + / * and the decimal point. A position is an index  *)
(* into the text, Len(t) + 1 is the terminating NUL.  A parser is given    *)
(* the text and a position, and returns the C function's value and where   *)
(* it leaves *end; it rejects the text by leaving *end where it started.   *)
(*                                                                         *)
(* Some parsers look things up at the server, and these lookups may fail,  *)
(* for whatever reason.  asked names the ways in which they may: <<i, n>>  *)
(* is the lookup of the item at i, with the first n of an album's tracks   *)
(* read before, 0 when a single thing is looked up.  failed holds those    *)
(* that come about.                                                        *)
(***************************************************************************)
EXTENDS Integers, Sequences, SequencesExt

CONSTANTS
  Value,      \* numeral -> the int that strtoul's result is stored in
  Words,      \* words: runs of letters
  LongWords,  \* those of 10 letters and more
  Tracks,     \* the server's tracks, a sequence of [id, album, nr]
  Current,    \* the one it plays
  TagId,      \* tag name, a sequence of lexemes -> id
  FilterId    \* the same for saved filters

NUL == ""
Blank == {" "}
Alnum == Words \cup DOMAIN Value
Punctuation == {" ", ",", "-", "+", "/", "*", "."}

\* A lexeme is one of these; there may be others, which no parser looks for.
ASSUME LexemesAssumption ==
  /\ LongWords \subseteq Words /\ "c" \in Words /\ Words \cap DOMAIN Value = {}
  /\ Alnum \cap (Punctuation \cup {NUL}) = {}
  /\ Value \in [DOMAIN Value -> Int]

ASSUME CatalogAssumption ==
  /\ Tracks \in Seq([id : Nat, album : Nat, nr : Nat])
  /\ \E k \in DOMAIN Tracks : Tracks[k] = Current
  /\ TagId \in [DOMAIN TagId -> Nat] /\ FilterId \in [DOMAIN FilterId -> Nat]

\* What a program may be given: anything without a NUL.
IsText(t) == t \in Seq(ToSet(t)) /\ NUL \notin ToSet(t)

At(t, i) == IF i <= Len(t) THEN t[i] ELSE NUL

\* The first position from i on that holds none of C.
Span(t, i, C) ==
  CHOOSE j \in i .. Len(t) + 1 : (\A k \in i .. j - 1 : t[k] \in C) /\ At(t, j) \notin C

\* The end of the word at i.
WordEnd(t, i) ==
  CHOOSE j \in i .. Len(t) + 1 : (\A k \in i .. j - 1 : t[k] # " ") /\ At(t, j) \in {" ", NUL}

Parsed(v, e) == [val |-> v, end |-> e, asked |-> {}]
Looked(v, e, i) == [val |-> v, end |-> e, asked |-> {<<i, 0>>}]

\* A list that is cut by the loss of the connection is taken for whole.
LookedList(list, e, i, failed) ==
  LET cuts == {n \in 0 .. Len(list) : <<i, n>> \in failed}
  IN [val |-> IF cuts = {} THEN list ELSE SubSeq(list, 1, CHOOSE n \in cuts : TRUE),
      end |-> e, asked |-> {i} \X (0 .. Len(list))]

(***************************************************************************)
(* Numbers and enumerations.  strtoul skips blanks and takes a sign.       *)
(***************************************************************************)
Strtoul(t, i) ==
  LET sign == Span(t, i, Blank)
      n == IF At(t, sign) \in {"-", "+"} THEN sign + 1 ELSE sign
  IN IF At(t, n) \notin DOMAIN Value THEN Parsed(0, i)
     ELSE Parsed(IF At(t, sign) = "-" THEN -Value[t[n]] ELSE Value[t[n]], n + 1)

val_uint(t, i) == Strtoul(t, i)

\* The number is returned as an int, without its fraction.
val_double(t, i) ==
  LET n == Strtoul(t, i) IN
  IF n.end # i /\ At(t, n.end) = "." /\ At(t, n.end + 1) \in DOMAIN Value
  THEN Parsed(n.val, n.end + 2) ELSE n

\* time := [<hours>:[<minutes>:]]<seconds> is what the comment says.
val_time(t, i) == Strtoul(t, i)

bools == ("on" :> 1) @@ ("off" :> 0) @@ ("true" :> 1) @@ ("false" :> 0) @@
         ("yes" :> 1) @@ ("no" :> 0) @@ ("1" :> 1) @@ ("0" :> 0)
rights == ("any" :> 0) @@ ("quest" :> 1) @@ ("user" :> 2) @@ ("admin" :> 3) @@
          ("master" :> 4)
rgtypes == ("none" :> 0) @@ ("track" :> 1) @@ ("trackpeak" :> 2) @@ ("album" :> 3) @@
           ("albumpeak" :> 4) @@ ("0" :> 0) @@ ("1" :> 1) @@ ("2" :> 2) @@ ("3" :> 3) @@
           ("4" :> 4)

val_enum(lst, t, i) ==
  IF At(t, i) \in DOMAIN lst /\ At(t, i + 1) \notin Alnum
  THEN Parsed(lst[t[i]], i + 1) ELSE Parsed(-1, i)

(***************************************************************************)
(* Text.                                                                   *)
(***************************************************************************)
val_string(t, i) == Parsed("text", Len(t) + 1)
val_name(t, i) == Parsed("text", Span(t, i, Words))

(***************************************************************************)
(* Lists are read in turns.  A turn reads some ids, and may be the last.   *)
(***************************************************************************)
Going(ids, e, asked) == [read |-> [val |-> ids, end |-> e, asked |-> asked], last |-> FALSE]
Ending(read) == [read |-> read, last |-> TRUE]

\* What is read from in on, given the turn at each position.
Listed(turn, t, in) ==
  LET list[i \in in .. Len(t) + 1] ==
        LET now == turn[i].read
        IN IF turn[i].last THEN now
           ELSE [list[now.end] EXCEPT !.val = now.val \o @, !.asked = now.asked \cup @]
  IN list[in]

(***************************************************************************)
(* Lists of numbers: list := <item>[','<...>], item := <from>['-'<to>].    *)
(***************************************************************************)
OpenInterval(a, b) == [k \in 1 .. b - a |-> a + k - 1]
Interval(a, b) == [k \in 1 .. b - a + 1 |-> a + k - 1]

\* What the item adds, and where it ends, 0 if in error.
idl_item(t, i) ==
  LET from == Strtoul(t, i)
      to == Strtoul(t, from.end + 1)
      next(e) == IF At(t, e) = "," THEN e + 1 ELSE e
  IN IF At(t, from.end) # "-" THEN [ids |-> <<from.val>>, end |-> next(from.end)]
     ELSE IF to.end = from.end + 1 \/ to.val <= from.val THEN [ids |-> <<>>, end |-> 0]
     ELSE [ids |-> Interval(from.val, to.val), end |-> next(to.end)]

\* An error leaves *end at the start, and in the list what came before it.
list_turn(t, in, i) ==
  LET item == idl_item(t, i)
  IN IF At(t, i) \notin DOMAIN Value THEN Ending(Parsed(<<>>, i))
     ELSE IF item.end = 0 THEN Ending(Parsed(<<>>, in))
     ELSE Going(item.ids, item.end, {})

idl_addlist(t, in) == Listed([i \in in .. Len(t) + 1 |-> list_turn(t, in, i)], t, in)

val_idlist(t, in) == idl_addlist(t, in)

(***************************************************************************)
(* Lists of anything a parser reads: list := <item>[,...].  An item that   *)
(* cannot be read leaves *end at the start of the whole list.              *)
(***************************************************************************)
clist_turn(conv, t, in, i) ==
  LET item == conv[i]
  IN IF item.end = i THEN Ending([item EXCEPT !.val = <<>>, !.end = in])
     ELSE IF At(t, item.end) # "," THEN Ending([item EXCEPT !.val = <<item.val>>])
     ELSE Going(<<item.val>>, item.end + 1, item.asked)

idl_addclist(conv, t, in) ==
  Listed([i \in in .. Len(t) + 1 |-> clist_turn(conv, t, in, i)], t, in)

val_user(t, i) == val_uint(t, i)
val_userlist(t, in) == idl_addclist([i \in 1 .. Len(t) + 1 |-> val_user(t, i)], t, in)

(***************************************************************************)
(* Tracks: track := 'c'|<id>|<aid>/<pos>.                                  *)
(***************************************************************************)
track2id(album, nr) ==
  LET found == {k \in DOMAIN Tracks : Tracks[k].album = album /\ Tracks[k].nr = nr}
  IN IF found = {} THEN -1 ELSE Tracks[CHOOSE k \in found : TRUE].id

val_track(t, i, failed) ==
  LET a == Strtoul(t, i)
      b == Strtoul(t, a.end + 1)
  IN CASE At(t, i) = "c" ->
            IF <<i, 0>> \in failed THEN Looked(-1, i, i) ELSE Looked(Current.id, i + 1, i)
       [] At(t, i) # "c" /\ (a.end = i \/ At(t, a.end) # "/") ->
            IF a.end = i THEN Parsed(-1, i) ELSE a
       [] OTHER ->
            IF b.end = a.end + 1 THEN Parsed(-1, i)
            ELSE Looked(IF <<i, 0>> \in failed THEN -1 ELSE track2id(a.val, b.val), b.end, i)

\* The ids of some of the server's tracks, in its order.
InOrder(S) == FlattenSeq([k \in DOMAIN Tracks |-> IF k \in S THEN <<Tracks[k].id>> ELSE <<>>])

\* The tracks of an album numbered first to last; a negative number is no limit.
idl_addalbum(album, first, last) ==
  LET id == IF album < 0 THEN Current.album ELSE album
      fits(x) == x.album = id /\ (first < 0 \/ first <= x.nr) /\ (last < 0 \/ last >= x.nr)
  IN InOrder({k \in DOMAIN Tracks : fits(Tracks[k])})

(***************************************************************************)
(* list := <item>[,...], item := c|<id>|c/<pos>, pos := *|<num>[-<num2>|*] *)
(* is what the comment says.  The album may also be given as a number.     *)
(***************************************************************************)
Unread == [val |-> <<>>, end |-> 0, asked |-> {}]

\* One turn of the loop.  A lookup below the '/' that fails is passed over.
tracklist_item(t, i, failed) ==
  LET n == Strtoul(t, i)
      cur == n.end = i /\ At(t, i) = "c"
      id == IF cur THEN -1 ELSE n.val
      tok == IF cur THEN i + 1 ELSE n.end
      pos1 == Strtoul(t, tok + 1)
      pos2 == Strtoul(t, pos1.end + 1)
      album(first, last, e) == LookedList(idl_addalbum(id, first, last), e, i, failed)
      track == IF <<i, 0>> \in failed THEN -1 ELSE track2id(id, pos1.val)
  IN IF n.end = i /\ ~cur THEN Unread
     ELSE IF At(t, tok) # "/" THEN
       IF id >= 0 THEN Parsed(<<id>>, tok)
       ELSE IF <<i, 0>> \in failed THEN [Unread EXCEPT !.asked = {<<i, 0>>}]
       ELSE Looked(<<Current.id>>, tok, i)
     ELSE IF pos1.end = tok + 1 THEN
       IF At(t, pos1.end) = "*" THEN album(-1, -1, pos1.end + 1) ELSE Unread
     ELSE IF At(t, pos1.end) # "-" THEN
       Looked(IF track >= 0 THEN <<track>> ELSE <<>>, pos1.end, i)
     ELSE IF pos2.end # pos1.end + 1 THEN album(pos1.val, pos2.val, pos2.end)
     ELSE IF At(t, pos2.end) = "*" THEN album(pos1.val, -1, pos2.end + 1) ELSE Unread

tracklist_turn(t, in, i, failed) ==
  LET item == tracklist_item(t, i, failed)
  IN IF item.end = 0 THEN Ending([item EXCEPT !.end = in])
     ELSE IF At(t, item.end) # "," THEN Ending(item)
     ELSE Going(item.val, item.end + 1, item.asked)

val_tracklist(t, in, failed) ==
  Listed([i \in in .. Len(t) + 1 |-> tracklist_turn(t, in, i, failed)], t, in)

(***************************************************************************)
(* Tags and saved filters: a number, or a name of less than 10 characters  *)
(* up to the next blank, which the server looks up.                        *)
(***************************************************************************)
Named(ids, t, i, failed) ==
  LET n == Strtoul(t, i)
      e == WordEnd(t, i)
      name == SubSeq(t, i, e - 1)
  IN IF n.end # i THEN n
     ELSE IF \E k \in i .. e - 1 : t[k] \in LongWords THEN Parsed(-1, i)
     ELSE IF <<i, 0>> \in failed \/ name \notin DOMAIN ids THEN Looked(-1, i, i)
     ELSE Looked(ids[name], e, i)

val_tag(t, i, failed) == Named(TagId, t, i, failed)
val_sfilter(t, i, failed) == Named(FilterId, t, i, failed)

val_taglist(t, in, failed) ==
  idl_addclist([i \in 1 .. Len(t) + 1 |-> val_tag(t, i, failed)], t, in)
=============================================================================
