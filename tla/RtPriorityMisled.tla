--------------------------- MODULE RtPriorityMisled ---------------------------
(***************************************************************************)
(* The contract of a backend that can mislead its client, which            *)
(* src/src/rt_linux.rs is: it asks a daemon over D-Bus and gives up        *)
(* waiting for it, and it may report a demotion the kernel refused.        *)
(*                                                                         *)
(* Until a client has been misled about a thread, that thread keeps the    *)
(* contract of RtPriority.  Being misled takes the thread to a real-time   *)
(* level that no promise covers, and lasts as long as the thread.          *)
(***************************************************************************)
EXTENDS RtPriority

VARIABLE
  misled   (* threads whose client has been told something wrong.          *)

misledVars == << level, before, misled >>

MisledInit == Init /\ misled = {}

(* A promotion or a demotion that reports what it does. *)
Keep(t) ==
  /\ t \notin misled
  /\ Promote(t) \/ Demote(t)
  /\ UNCHANGED misled

(* t is real-time, and its client thinks that it is not. *)
MisleadAbout(t) ==
  /\ t \notin misled
  /\ \E l \in RealTimeLevels : level' = [level EXCEPT ![t] = l]
  /\ before' = [before EXCEPT ![t] = None]
  /\ misled' = misled \cup {t}

(* Nothing is promised of t any more; other threads are left alone. *)
Astray(t) ==
  /\ t \in misled
  /\ \E l \in Levels : level' = [level EXCEPT ![t] = l]
  /\ \E b \in Levels \cup {None} : before' = [before EXCEPT ![t] = b]
  /\ UNCHANGED misled

(* The thread exits, or a new one takes its place: its client starts anew. *)
StartAnew(t) == Restart(t) /\ misled' = misled \ {t}

MisledNext ==
  \E t \in Threads : Keep(t) \/ MisleadAbout(t) \/ Astray(t) \/ StartAnew(t)

MisledSpec == MisledInit /\ [][MisledNext]_misledVars
=============================================================================
