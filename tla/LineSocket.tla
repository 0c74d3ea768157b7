----------------------------- MODULE LineSocket -----------------------------
(***************************************************************************)
(* What src/lib/sock.c promises the protocol layer above it: the lines the *)
(* server sent, whole, in their order, each once, for as long as the       *)
(* connection lasts.  Module Sock shows how bytes and a bounded buffer     *)
(* provide it, module Session that the session asks for nothing more.      *)
(***************************************************************************)
EXTENDS Naturals, Sequences

CONSTANT Line

VARIABLES
  link,  \* "down"; "live"; "gone": the server has hung up
  net,   \* lines on the way
  rx     \* lines received

vars == <<link, net, rx>>

Init == link = "down" /\ net = <<>> /\ rx = <<>>

Connect == link = "down" /\ link' = "live" /\ UNCHANGED <<net, rx>>

Send(l) == link = "live" /\ net' = Append(net, l) /\ UNCHANGED <<link, rx>>

\* The server hangs up: the end of what it sent may be lost.
HangUp ==
  /\ link = "live" /\ link' = "gone"
  /\ \E n \in 0 .. Len(net) : net' = SubSeq(net, 1, n)
  /\ UNCHANGED rx

Recv ==
  /\ \E n \in 1 .. Len(net) :
       /\ rx' = rx \o SubSeq(net, 1, n)
       /\ net' = SubSeq(net, n + 1, Len(net))
  /\ UNCHANGED link

Getline == rx # <<>> /\ rx' = Tail(rx) /\ UNCHANGED <<link, net>>

Disconnect == link' = "down" /\ net' = <<>> /\ rx' = <<>>

Next ==
  \/ Connect \/ (\E l \in Line : Send(l)) \/ HangUp
  \/ Recv \/ Getline \/ Disconnect

Spec == Init /\ [][Next]_vars
=============================================================================
