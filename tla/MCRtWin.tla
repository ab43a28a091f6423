------------------------------- MODULE MCRtWin -------------------------------
(* The instance of RtWin for TLC: three threads. *)
EXTENDS RtWin

CONSTANTS t1, t2, t3
=============================================================================
