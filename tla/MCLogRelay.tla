----------------------------- MODULE MCLogRelay -----------------------------
(***************************************************************************)
(* A small LogRelay: a PC for each of two TVs over two descriptors, so     *)
(* that every number serves TVs and PCs in turn, and send buffers that     *)
(* hold less than a line.  The id of TV 5 has a zero byte.                 *)
(***************************************************************************)
EXTENDS LogRelay, TLC

SomeTVs  == {1, 2, 5}
SpeltTVs == {1, 2}
TwoPCs   == {3, 4}
EachAsks == [p \in TwoPCs |-> p - 2]
TwoFds   == 7 .. 8
=============================================================================
