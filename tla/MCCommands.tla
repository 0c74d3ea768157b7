----------------------------- MODULE MCCommands -----------------------------
(***************************************************************************)
(* Instances of Irdudl: a small catalogue, the lines tried, and irdudl's   *)
(* configuration.  Among the lines are sentences of every form that module *)
(* Grammar allows.                                                         *)
(***************************************************************************)
EXTENDS Irdudl

MCPrograms == {"cli", "once", "ir"}
MCValue == ("0" :> 0) @@ ("1" :> 1) @@ ("2" :> 2) @@ ("3" :> 3) @@ ("99" :> 99)
MCLongWords == {"longlonglong"}
MCWords == DOMAIN cmds_top \cup DOMAIN aliases \cup MCLongWords
           \cup {"c", "on", "off", "rock", "any", "admin", "none", "album", "foo", "quit",
                "exit", "user"}
MCTracks == << [id |-> 1, album |-> 1, nr |-> 1], [id |-> 2, album |-> 1, nr |-> 2],
               [id |-> 3, album |-> 2, nr |-> 1] >>
MCCurrent == MCTracks[2]
MCTagId == (<<"rock">> :> 3)
MCFilterId == (<<"foo">> :> 2)

Digits == {"0", "1", "2", "3"}

\* Sentences of one or two items.
Of(arg, items, seconds) ==
  {[arg |-> arg, items |-> <<a>>] : a \in items} \cup
  {[arg |-> arg, items |-> <<a, b>>] : a \in items, b \in seconds}

IdItems == {<<a>> : a \in Digits} \cup
           {x \in Digits \X Digits : MCValue[x[1]] < MCValue[x[2]]}
Albums == {"c", "1", "2"}
TrackItems == {<<"c">>, <<"1">>, <<"3">>} \cup
              (Albums \X {"*"}) \cup ({"1", "2"} \X {"1", "2"}) \cup
              (Albums \X {"1", "2"} \X {"1", "2", "*"})

MCSentences ==
  Of("idlist", IdItems, {<<"0">>, <<"1", "3">>}) \cup
  Of("trackidlist", TrackItems, {<<"c">>, <<"3">>, <<"1", "2">>, <<"c", "1", "*">>}) \cup
  Of("useridlist", {<<"0">>, <<"1">>}, {<<"2">>}) \cup
  Of("taglist", {<<"0">>, <<"1">>}, {<<"2">>, <<"rock">>}) \cup
  Of("taglist", {<<"rock">>}, {})

\* One good text per kind of argument, and bad ones.
Texts(arg) ==
  CASE arg = "trackidlist" -> {<<"1", ",", "2">>, <<"c">>, <<"99", "/", "*">>, <<"1", "/">>}
    [] arg = "taglist" -> {<<"1", ",", "2">>, <<"rock">>, <<"-", "1", ",", "2">>, <<"foo">>}
    [] arg \in {"idlist", "useridlist"} -> {<<"1", ",", "2">>, <<"0">>, <<"2", "-", "1">>}
    [] arg = "trackid" -> {<<"c">>, <<"0">>, <<"1", "/", "2">>, <<"2", "/", "2">>, <<"/">>}
    [] arg = "tag" -> {<<"rock">>, <<"1">>, <<"foo">>, <<"longlonglong">>}
    [] arg = "sfilter" -> {<<"foo">>, <<"1">>, <<"rock">>}
    [] arg \in {"name", "cmd"} -> {<<"foo">>, <<"play">>, <<"1">>}
    [] arg \in {"string", "rcmd"} -> {<<"foo">>, <<"foo", " ", "1">>}
    [] arg = "bool" -> {<<"on">>, <<"0">>, <<"foo">>}
    [] arg = "right" -> {<<"admin">>, <<"any">>}
    [] arg = "rgtype" -> {<<"album">>, <<"none">>}
    [] arg = "decibel" -> {<<"-", "1", ".", "2">>, <<"foo">>}
    [] OTHER -> {<<"1">>, <<"0">>, <<"-", "2">>, <<"+", "2">>, <<"foo">>}

\* Every command, with each text of its first argument and one or two of the
\* second; too few arguments, too many.
Full(c) ==
  LET a == cmds_top[c] IN
  CASE Len(a) = 0 -> {<<c>>, <<c, " ">>, <<c, " ", "1">>}
    [] Len(a) = 1 -> {<<c, " ">> \o t : t \in Texts(a[1])} \cup {<<c>>}
    [] Len(a) = 2 -> {<<c, " ">> \o t \o <<" ">> \o u : t \in Texts(a[1]), u \in Texts(a[2])}
                     \cup {<<c, " ", "1">>, <<c, " ", "1", " ">>}

ListCommand ==
  ("idlist" :> "qd") @@ ("trackidlist" :> "tl") @@ ("useridlist" :> "clientcloseuser") @@
  ("taglist" :> "tagdel")

MCLines ==
  UNION {Full(c) : c \in DOMAIN cmds_top} \cup {<<a>> : a \in DOMAIN aliases} \cup
  {<<"foo">>, <<"1">>, <<>>, <<" ", "play">>, <<"r", "1">>, <<"quit">>, <<"exit">>, <<"user">>,
   <<"user", " ", "foo">>, <<"play", "foo">>}
  \cup {<<ListCommand[s.arg], " ">> \o Text(s) : s \in MCSentences}

MCConfig == << <<<<"play">>, <<"qa", " ", "1", ",", "c">>>>, <<<<"foo">>, <<"status">>>>,
               <<<<"info">>>> >>

MCUserLines == {<<c, " ", "1", ",", "2">> : c \in {"userget", "userdel", "clientcloseuser"}}
MCOnce == {"once"}
MCIr == {"ir"}
=============================================================================
