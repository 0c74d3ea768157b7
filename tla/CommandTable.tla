---------------------------- MODULE CommandTable ----------------------------
(***************************************************************************)
(* The text commands of libdudlcmd (src/cmd/command.c) as data: for each   *)
(* command its arguments, its alias and what its handler does, and for     *)
(* each library call a handler makes the kind of value the call returns    *)
(* (the duc_cmd_* functions of src/lib).                                   *)
(***************************************************************************)
EXTENDS Integers, Sequences, SequencesExt

Args(args, names) == [n \in names |-> args]

(***************************************************************************)
(* Arguments.  What a parser returned is kept as a void*: an int, or the   *)
(* address of a text or of a list, which the argument's free function      *)
(* takes.                                                                  *)
(***************************************************************************)
TextArgs == {"rcmd", "name", "cmd", "string"}
ListArgs == {"idlist", "useridlist", "trackidlist", "taglist"}
IntArgs == {"userid", "right", "seconds", "bool", "trackid", "tag", "num", "artistid", "albumid",
            "sfilter", "year", "rgtype", "decibel"}
ArgKind ==
  [x \in TextArgs \cup ListArgs \cup IntArgs |->
     IF x \in TextArgs THEN "text" ELSE IF x \in ListArgs THEN "list" ELSE "int"]

cmds_player ==
  Args(<<>>, {"open", "help", "clientlist", "userlist", "play", "stop", "next", "prev",
              "pause", "status", "info", "gap", "random", "elapsed", "cut", "replaygain",
              "rgpreamp"}) @@
  Args(<<"cmd">>, {"helpcmd"}) @@
  Args(<<"rcmd">>, {"raw"}) @@
  Args(<<"idlist">>, {"clientclose"}) @@
  Args(<<"useridlist">>, {"clientcloseuser", "userget", "userdel"}) @@
  Args(<<"userid", "string">>, {"usersetpass"}) @@
  Args(<<"userid", "right">>, {"usersetright"}) @@
  Args(<<"name">>, {"useradd"}) @@
  Args(<<"seconds">>, {"gapset", "jump"}) @@
  Args(<<"bool">>, {"randomset", "cutset"}) @@
  Args(<<"rgtype">>, {"replaygainset"}) @@
  Args(<<"decibel">>, {"rgpreampset"})

cmds_tracks ==
  Args(<<>>, {"trackcount", "filter", "filterstat", "queuelist", "queueclear", "queuesum",
              "sleep", "taglist"}) @@
  Args(<<"trackidlist">>, {"trackget", "queueadd", "tracktaglist"}) @@
  Args(<<"string">>, {"tracksearchf", "filterset"}) @@
  Args(<<"trackidlist", "artistid">>, {"tracksetartist"}) @@
  Args(<<"trackid", "string">>, {"tracksetname"}) @@
  Args(<<"num">>, {"filtertop", "history"}) @@
  Args(<<"idlist">>, {"queueget", "queuedel"}) @@
  Args(<<"seconds">>, {"sleepset"}) @@
  Args(<<"trackid", "num">>, {"historytrack"}) @@
  Args(<<"artistid">>, {"tagsartist"}) @@
  Args(<<"taglist">>, {"tagget", "tagdel"}) @@
  Args(<<"name">>, {"tagadd"}) @@
  Args(<<"tag", "name">>, {"tagsetname"}) @@
  Args(<<"tag", "string">>, {"tagsetdesc"}) @@
  Args(<<"trackidlist", "taglist">>, {"tracktagadd", "tracktagdel"})

cmds_catalog ==
  Args(<<>>, {"albumlist", "artistlist", "sfilterlist"}) @@
  Args(<<"idlist">>, {"albumget", "artistget", "sfilterget"}) @@
  Args(<<"string">>, {"albumsearch", "artistsearch", "artistadd"}) @@
  Args(<<"artistid">>, {"albumsartist", "artistdel"}) @@
  Args(<<"tag">>, {"albumstag", "artiststag"}) @@
  Args(<<"albumid", "artistid">>, {"albumsetartist"}) @@
  Args(<<"albumid", "string">>, {"albumsetname"}) @@
  Args(<<"albumid", "year">>, {"albumsetyear"}) @@
  Args(<<"artistid", "string">>, {"artistsetname"}) @@
  Args(<<"artistid", "artistid">>, {"artistmerge"}) @@
  Args(<<"name">>, {"sfilteradd"}) @@
  Args(<<"sfilter", "name">>, {"sfiltersetname"}) @@
  Args(<<"sfilter", "string">>, {"sfiltersetfilter"}) @@
  Args(<<"sfilter">>, {"sfilterdel", "sfilterload", "sfiltersave"})

cmds_top == cmds_player @@ cmds_tracks @@ cmds_catalog

aliases ==
  ("r" :> "play") @@ ("s" :> "stop") @@ ("n" :> "next") @@ ("p" :> "pause") @@
  ("j" :> "jump") @@ ("f" :> "tracksearchf") @@ ("ql" :> "queuelist") @@
  ("qa" :> "queueadd") @@ ("qd" :> "queuedel") @@ ("qc" :> "queueclear") @@
  ("tl" :> "tracktaglist") @@ ("ta" :> "tracktagadd") @@ ("td" :> "tracktagdel") @@
  ("load" :> "sfilterload") @@ ("save" :> "sfiltersave")

(***************************************************************************)
(* What the library calls return: 0 or -1 ("succ"), an int or a double     *)
(* read from the reply, or the address of what was read ("object").        *)
(***************************************************************************)
Kind(kind, names) == [n \in names |-> kind]

player_calls ==
  Kind("object", {"curtrack"}) @@
  Kind("int", {"status", "gap", "gapset", "random", "elapsed", "cut", "replaygain"}) @@
  Kind("double", {"rgpreamp"}) @@
  Kind("succ", {"play", "stop", "next", "prev", "pause", "randomset", "jump", "cutset",
                "replaygainset", "rgpreampset"})
queue_calls ==
  Kind("object", {"queuelist", "queueget"}) @@ Kind("int", {"queueadd", "queuesum"}) @@
  Kind("succ", {"queuedel", "queueclear"})
random_calls ==
  Kind("object", {"filter", "filtertop"}) @@ Kind("succ", {"filterset"}) @@
  Kind("int", {"filterstat"})
sleep_calls == Kind("int", {"sleep"}) @@ Kind("succ", {"sleepset"})
history_calls == Kind("object", {"history", "historytrack"})
client_calls ==
  Kind("object", {"clientlist"}) @@ Kind("succ", {"clientclose", "clientcloseuser"})
user_calls ==
  Kind("object", {"userlist", "userget"}) @@ Kind("int", {"useradd"}) @@
  Kind("succ", {"usersetpass", "usersetright", "userdel"})
track_calls ==
  Kind("int", {"trackcount", "track2id"}) @@
  Kind("object", {"trackget", "tracksearchf", "tracksalbum"}) @@
  Kind("succ", {"tracksetname", "tracksetartist"})
tag_calls ==
  Kind("object", {"tagget", "taglist", "tagsartist", "tracktaglist"}) @@
  Kind("int", {"tag2id", "tagadd"}) @@
  Kind("succ", {"tagsetname", "tagsetdesc", "tagdel", "tracktagadd", "tracktagdel"})
album_calls ==
  Kind("object", {"albumget", "albumlist", "albumsearch", "albumsartist", "albumstag"}) @@
  Kind("succ", {"albumsetname", "albumsetartist", "albumsetyear"})
artist_calls ==
  Kind("object", {"artistget", "artistlist", "artiststag", "artistsearch"}) @@
  Kind("int", {"artistadd"}) @@ Kind("succ", {"artistsetname", "artistmerge", "artistdel"})
sfilter_calls ==
  Kind("object", {"sfilterget", "sfilterlist"}) @@ Kind("int", {"sfilter2id", "sfilteradd"}) @@
  Kind("succ", {"sfiltersetname", "sfiltersetfilter", "sfilterdel"})

calls == player_calls @@ queue_calls @@ random_calls @@ sleep_calls @@ history_calls @@
         client_calls @@ user_calls @@ track_calls @@ tag_calls @@ album_calls @@
         artist_calls @@ sfilter_calls

(***************************************************************************)
(* Handlers: the calls made in order, each only when the one before it     *)
(* succeeded, once ("one"), for each id of the first argument ("each") or  *)
(* for each id of the first and each of the second ("pairs"); and which    *)
(* return values the handler takes for a failure.                          *)
(***************************************************************************)
Calls(how, seq, test) == [how |-> how, calls |-> seq, test |-> test]
One(test, names) == [n \in names |-> Calls("one", <<n>>, test)]
Each(test, names) == [n \in names |-> Calls("each", <<n>>, test)]
Pairs(names) == [n \in names |-> Calls("pairs", <<n>>, "minus1")]

do_clients == One("null", {"clientlist"}) @@ Each("minus1", {"clientclose", "clientcloseuser"})
do_users ==
  One("null", {"userget", "userlist"}) @@ One("negative", {"useradd"}) @@
  One("nonzero", {"usersetpass", "usersetright", "userdel"})
do_player ==
  One("nonzero", {"play", "stop", "next", "prev", "pause"}) @@ One("negative", {"status"}) @@
  ("info" :> Calls("one", <<"curtrack", "historytrack", "tracktaglist">>, "null"))
do_settings ==
  One("negative", {"gap", "random", "elapsed", "cut", "replaygain", "rgpreamp"}) @@
  One("nonzero", {"gapset", "randomset", "jump", "cutset", "replaygainset", "rgpreampset"})
do_tracks ==
  ("trackcount" :> Calls("one", <<"trackcount">>, "negative")) @@ Each("null", {"trackget"}) @@
  One("null", {"tracksearchf"}) @@ Each("minus1", {"tracksetartist"}) @@
  One("nonzero", {"tracksetname"})
do_filter ==
  One("null", {"filter", "filtertop"}) @@ One("nonzero", {"filterset"}) @@
  One("negative", {"filterstat"})
do_queue ==
  One("null", {"queuelist"}) @@ Each("null", {"queueget"}) @@
  Each("minus1", {"queueadd", "queuedel"}) @@ One("nonzero", {"queueclear"}) @@
  One("negative", {"queuesum"})
do_sleep_history ==
  One("negative", {"sleep"}) @@ One("nonzero", {"sleepset"}) @@
  One("null", {"history", "historytrack"})
do_tags ==
  One("null", {"taglist", "tagsartist"}) @@ Each("null", {"tagget"}) @@
  One("minus1", {"tagadd"}) @@ One("nonzero", {"tagsetname", "tagsetdesc"}) @@
  Each("minus1", {"tagdel"})
do_tracktags ==
  ("tracktaglist" :> Calls("each", <<"trackget", "tracktaglist">>, "null")) @@
  Pairs({"tracktagadd", "tracktagdel"})
do_albums ==
  One("null", {"albumlist", "albumstag", "albumsearch", "albumsartist"}) @@
  Each("null", {"albumget"}) @@
  One("nonzero", {"albumsetartist", "albumsetname", "albumsetyear"})
do_artists ==
  One("null", {"artistlist", "artiststag", "artistsearch"}) @@ Each("null", {"artistget"}) @@
  One("nonzero", {"artistsetname", "artistmerge", "artistdel"}) @@ One("minus1", {"artistadd"})
do_sfilters ==
  One("null", {"sfilterlist"}) @@ Each("null", {"sfilterget"}) @@
  One("minus1", {"sfilteradd"}) @@
  One("nonzero", {"sfiltersetname", "sfiltersetfilter", "sfilterdel"}) @@
  ("sfilterload" :> Calls("one", <<"sfilterget", "filterset">>, "failed")) @@
  ("sfiltersave" :> Calls("one", <<"filter", "sfiltersetfilter">>, "failed"))

handlers == do_clients @@ do_users @@ do_player @@ do_settings @@ do_tracks @@ do_filter @@
            do_queue @@ do_sleep_history @@ do_tags @@ do_tracktags @@ do_albums @@
            do_artists @@ do_sfilters

\* The commands whose handlers talk to nobody, or not through the calls above.
Special == {"open", "help", "helpcmd", "raw"}

ASSUME TablesFit ==
  /\ DOMAIN handlers \cup Special = DOMAIN cmds_top /\ "" \notin DOMAIN cmds_top
  /\ \A c \in DOMAIN handlers :
       c \notin Special /\ handlers[c].calls \in Seq(DOMAIN calls) \ {<<>>}
  /\ \A c \in DOMAIN cmds_top : cmds_top[c] \in Seq(DOMAIN ArgKind)
  /\ \A c \in DOMAIN handlers : handlers[c].how \in {"each", "pairs"} =>
       cmds_top[c] # <<>> /\ ArgKind[cmds_top[c][1]] = "list"
  /\ \A c \in DOMAIN handlers : handlers[c].how = "pairs" =>
       Len(cmds_top[c]) = 2 /\ ArgKind[cmds_top[c][2]] = "list"
  /\ \A c \in DOMAIN handlers : handlers[c].how \in {"one", "each", "pairs"}
  /\ \A a \in DOMAIN aliases : aliases[a] \in DOMAIN cmds_top /\ a \notin DOMAIN cmds_top

\* The handlers test a call's result by what that call returns.  Two do not:
\* gapset takes the gap the server answers for an error code, and rgpreamp a
\* negative amplification.
Misread == {"gapset", "rgpreamp"}
Tests ==
  {<<"null", "object">>, <<"negative", "int">>, <<"nonzero", "succ">>, <<"minus1", "succ">>,
   <<"minus1", "int">>, <<"failed", "object">>, <<"failed", "succ">>}
ASSUME TestsFit ==
  \A c \in DOMAIN handlers : \A n \in DOMAIN handlers[c].calls :
    <<handlers[c].test, calls[handlers[c].calls[n]]>> \in
      IF c \in Misread THEN {<<"nonzero", "int">>, <<"negative", "double">>} ELSE Tests
=============================================================================
