------------------------------- MODULE MCSock -------------------------------
(* Values of Sock's constants for TLC: a buffer of a few bytes, and lines   *)
(* that do and do not fit into it.                                         *)
EXTENDS Sock

ShortLengths == {1, 3}
LongLengths == {1, 5, 7}
OnlyLF == {<<LF>>}
LFOrCRLF == {<<LF>>, <<CR, LF>>}
=============================================================================
