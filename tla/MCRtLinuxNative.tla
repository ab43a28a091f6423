--------------------------- MODULE MCRtLinuxNative ---------------------------
(* Instances of RtLinuxNative for TLC: a content process with two threads, one
   of them still to be created, and its parent process with one. *)
EXTENDS RtLinuxNative, TLC

CONSTANTS audio, worker, parent, content, broker, h1, h2

MCHome == [t \in Tids |-> IF t = parent THEN broker ELSE content]
MCHosts == [t \in Tids |-> {MCHome[t]}]
MCMovable == [MCHosts EXCEPT ![worker] = Procs]
MCBorn == {audio, parent}
MCRtprio == [p \in Procs |-> IF p = content THEN 20 ELSE 0]
MCRoot == {broker}
MCSymmetry == Permutations(HandleIds)
=============================================================================
