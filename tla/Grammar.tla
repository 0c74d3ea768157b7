------------------------------- MODULE Grammar -------------------------------
(***************************************************************************)
(* The lists that the comments of src/cmd/parseval.c and src/cmd/idlist.c  *)
(* allow as arguments, and what they mean.  A sentence is a sequence of    *)
(* items, an item the lexemes that its parts consist of; how it is spelled *)
(* and which ids it denotes are stated here, whatever the parsers do.      *)
(*                                                                         *)
(* The grammars are taken at their word but for three things the parsers   *)
(* are known not to do: numbers fit an int, c/<num> is left out, and only  *)
(* the last tag of a list may be given by name.                            *)
(***************************************************************************)
EXTENDS ParseVal

CONSTANTS
  Sentences   \* the lists tried: [arg: the kind of argument, items]

Number == {n \in DOMAIN Value : Value[n] >= 0}

\* list := <item>[','<...>], item := <from>['-'<to>].
IsRange(x) ==
  /\ x \in Seq(Number) /\ Len(x) \in {1, 2}
  /\ Len(x) = 2 => Value[x[1]] < Value[x[2]]
Between(a, b) == [n \in 1 .. b - a + 1 |-> a + n - 1]

\* A user, or a tag: <id>.
IsNumber(x) == x \in Seq(Number) /\ Len(x) = 1

\* A tag: <tagname>, which must be short, and not look like an id.
IsName(x) ==
  /\ x \in DOMAIN TagId
  /\ x \in Seq(Alnum \ LongWords) /\ x # <<>> /\ x[1] \in Words

\* item := c|<id>|<album>/<pos>, pos := *|<num>[-<num2>|*].
IsTrack(x) ==
  /\ x \in Seq(Number \cup {"c", "*"}) /\ Len(x) \in {1, 2, 3}
  /\ x[1] \in Number \cup {"c"}
  /\ Len(x) = 2 => x[2] = "*" \/ (x[1] \in Number /\ x[2] \in Number)
  /\ Len(x) = 3 => x[2] \in Number /\ x[3] \in Number \cup {"*"}

\* The tracks of the current album or the one named, from the first to the
\* last position asked for; or the one track the server has at a position.
OnAlbum(x) ==
  {k \in DOMAIN Tracks :
     /\ Tracks[k].album = IF x[1] = "c" THEN Current.album ELSE Value[x[1]]
     /\ x[2] = "*" \/ Value[x[2]] <= Tracks[k].nr
     /\ x[Len(x)] = "*" \/ Tracks[k].nr <= Value[x[Len(x)]]}
TrackIds(x) ==
  LET track == track2id(Value[x[1]], Value[x[2]])
  IN CASE Len(x) = 1 -> <<IF x[1] = "c" THEN Current.id ELSE Value[x[1]]>>
       [] Len(x) = 2 /\ x[2] # "*" -> IF track = -1 THEN <<>> ELSE <<track>>
       [] OTHER -> InOrder(OnAlbum(x))

IsItem(arg, x, last) ==
  \/ arg = "idlist" /\ IsRange(x)
  \/ arg \in {"useridlist", "taglist"} /\ IsNumber(x)
  \/ arg = "taglist" /\ last /\ IsName(x)
  \/ arg = "trackidlist" /\ IsTrack(x)

ItemText(arg, x) ==
  CASE arg = "idlist" /\ Len(x) = 2 -> <<x[1], "-", x[2]>>
    [] arg = "trackidlist" /\ Len(x) = 2 -> <<x[1], "/", x[2]>>
    [] arg = "trackidlist" /\ Len(x) = 3 -> <<x[1], "/", x[2], "-", x[3]>>
    [] OTHER -> x

ItemIds(arg, x) ==
  CASE arg = "idlist" -> Between(Value[x[1]], Value[x[Len(x)]])
    [] arg = "trackidlist" -> TrackIds(x)
    [] OTHER -> IF x[1] \in Number THEN <<Value[x[1]]>> ELSE <<TagId[x]>>

ASSUME SentencesAssumption == \A s \in Sentences :
  /\ s.arg \in {"idlist", "useridlist", "taglist", "trackidlist"}
  /\ s.items \in Seq(ToSet(s.items)) /\ s.items # <<>>
  /\ \A k \in DOMAIN s.items : IsItem(s.arg, s.items[k], k = Len(s.items))

Text(s) ==
  FlattenSeq([k \in DOMAIN s.items |->
    ItemText(s.arg, s.items[k]) \o IF k = Len(s.items) THEN <<>> ELSE <<",">>])
Ids(s) == FlattenSeq([k \in DOMAIN s.items |-> ItemIds(s.arg, s.items[k])])

Meaning == {[arg |-> s.arg, text |-> Text(s), ids |-> Ids(s)] : s \in Sentences}
=============================================================================
