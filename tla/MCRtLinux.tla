------------------------------ MODULE MCRtLinux ------------------------------
(* Instances of RtLinux for TLC: the threads and processes of MCRtLinuxNative. *)
EXTENDS RtLinux, TLC

CONSTANTS audio, worker, parent, content, broker, h1, h2

MCHome == [t \in Tids |-> IF t = parent THEN broker ELSE content]
MCHosts == [t \in Tids |-> {MCHome[t]}]
MCNoRtprio == [p \in Procs |-> 0]
MCUnlimited == [p \in Procs |-> [cur |-> Infinity, max |-> Infinity]]
(* The limits a promotion with the default buffer leaves behind. *)
MCLowered == [p \in Procs |-> RequestedLimits(Budget(0, 8000))]
(* A limit the administrator set, above what the daemon allows; the broker, which
   has no real-time thread, has lowered its own before. *)
MCGenerous == [MCLowered EXCEPT ![content] = [cur |-> 300000, max |-> 300000]]
MCSymmetry == Permutations(HandleIds)
(* Two threads of one process that start alike. *)
MCThreadSymmetry == MCSymmetry \cup Permutations({audio, worker})
=============================================================================
