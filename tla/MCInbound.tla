------------------------------ MODULE MCInbound ------------------------------
(***************************************************************************)
(* A small instance of Inbound: the buffer is scaled from 10240 bytes to   *)
(* 12, so that one read takes at most 11: a package and part of the next,  *)
(* or less than two.                                                       *)
(***************************************************************************)
EXTENDS Inbound, TLC

\* A header that announces nothing, the largest size that is skipped, the smallest that is not.
BoundarySizes == {0, 8, 9}
=============================================================================
