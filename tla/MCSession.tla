----------------------------- MODULE MCSession -----------------------------
(***************************************************************************)
(* Values of Session's constants for TLC.  A success and a "go on" are two *)
(* codes in which replies to a login may differ without either being an    *)
(* error.                                                                  *)
(***************************************************************************)
EXTENDS Session

AllPrograms == Clients
TwoPrograms == {"ir", "cli"}

OneSuccess == {"220"}
OneGoOn == {"331"}
NoGoOn == {}
OneError == {"501"}
=============================================================================
