------------------------------- MODULE MCRtMach -------------------------------
(* The instance of RtMach for TLC.  The time base is scaled down to 20 ticks a
   millisecond and u32 with it (to 2^32 / 1000000 * 20), so that TLC's integers
   hold the products; 40000 frames at 8000 Hz then exceed u32 as they do. *)
EXTENDS RtMach

CONSTANTS t1, t2

MCDefault ==
  [period |-> 0, computation |-> 200, constraint |-> 400, preemptible |-> TRUE]
MCCustom ==
  [period |-> 80, computation |-> 30, constraint |-> 60, preemptible |-> FALSE]
=============================================================================
