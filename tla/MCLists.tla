------------------------------ MODULE MCLists ------------------------------
(***************************************************************************)
(* Instances of Lists: replies of up to three lines of each type, with     *)
(* texts that hold tabs and backslashes or are empty, and lines that are   *)
(* empty, no record, or a record with something after it.                  *)
(***************************************************************************)
EXTENDS Lists

MCNumerals == {"1", "2", "3", "7"}
MCTypes == DOMAIN Fields \cup {"help"}

\* The nth record of a type, its texts taken in turn from those of interest.
SomeTexts == << <<"a", TAB, BS, "t">>, <<>>, <<BS>>, <<"t">> >>
Record(t, n) ==
  IF t = "help" THEN [p \in {<<"line">>} |-> IF n = 2 THEN <<>> ELSE <<"a", TAB>>]
  ELSE [p \in {Fields[t][k].path : k \in DOMAIN Fields[t]} |->
         LET k == CHOOSE j \in DOMAIN Fields[t] : Fields[t][j].path = p
         IN IF Fields[t][k].kind = "text" THEN SomeTexts[((k + n) % 4) + 1]
            ELSE IF p = <<"id">> THEN <<"1", "2", "3">>[n] ELSE "7"]

Good(t, n) == [line |-> Line(t, Record(t, n)), record |-> Record(t, n)]
Unreadable(t) ==
  IF t = "help" THEN {} ELSE
  {[line |-> <<"a">>, record |-> NULL],
   [line |-> Line(t, Record(t, 1)) \o <<TAB, "7">>, record |-> Record(t, 1)]}
EmptyLine(t) == IF t = "help" THEN {} ELSE {[line |-> <<>>, record |-> NULL]}

MCReplies ==
  [t \in MCTypes |->
    LET bad == Unreadable(t) \cup EmptyLine(t) IN
    {<<Good(t, 1)>>, <<Good(t, 1), Good(t, 2), Good(t, 3)>>}
    \cup {<<b>> : b \in bad} \cup {<<Good(t, 1), b, Good(t, 3)>> : b \in bad}
    \cup {<<Good(t, 1), Good(t, 2), b>> : b \in bad}]

Sent(c, k, t) == [class |-> c, kind |-> k] @@ Good(t, 1)
MCBroadcasts ==
  {Sent("3", k, "client") : k \in {"0", "1"}} \cup
  {Sent("4", "0", "track")} \cup {Sent("6", k, "queue") : k \in {"0", "1", "2"}} \cup
  {Sent("7", k, "tag") : k \in {"0", "1"}} \cup
  {[class |-> c, kind |-> k, line |-> <<"7">>, record |-> [p \in {<<>>} |-> "7"]] :
     <<c, k>> \in {<<"4", "6">>, <<"4", "7">>, <<"5", "1">>}} \cup
  {[class |-> "5", kind |-> "0", line |-> <<"a", TAB>>,
    record |-> [p \in {<<>>} |-> <<"a", TAB>>]]} \cup
  {[class |-> x[1], kind |-> x[2], line |-> <<"a">>, record |-> NULL] :
     x \in {<<"0", "0">>, <<"3", "1">>, <<"3", "2">>, <<"3", "9">>, <<"4", "0">>, <<"4", "1">>,
            <<"4", "2">>, <<"4", "3">>, <<"5", "9">>, <<"6", "1">>, <<"6", "3">>, <<"7", "1">>}}
=============================================================================
