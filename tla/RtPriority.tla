------------------------------ MODULE RtPriority ------------------------------
(***************************************************************************)
(* What every backend of the crate promises to a client that promotes a    *)
(* thread, works, and demotes it again (src/src/lib.rs, the example of the *)
(* module documentation and the public promote and demote functions).      *)
(*                                                                         *)
(* A thread has a scheduling level.  A promotion that reports success      *)
(* moves it to a real-time level and remembers the level it came from; a   *)
(* promotion that reports an error changes nothing (a stuttering step).  A *)
(* demotion that reports success moves the thread back to exactly the      *)
(* level remembered.  No other step changes the level of a running thread. *)
(***************************************************************************)

CONSTANTS
  Threads,         (* threads of every process.                            *)
  Levels,          (* scheduling levels a thread can be in.                *)
  RealTimeLevels,  (* the ones that are real-time.                         *)
  None             (* no level is remembered.                              *)

ASSUME LevelsAssumption ==
  /\ RealTimeLevels \subseteq Levels
  /\ None \notin Levels

Ordinary == Levels \ RealTimeLevels

VARIABLES
  level,   (* the current level of each thread.                            *)
  before   (* the level to come back to, while a promotion is in effect.   *)

vars == << level, before >>

Init ==
  /\ level \in [Threads -> Ordinary]
  /\ before = [t \in Threads |-> None]

(* `promote_current_thread_to_real_time` or `promote_thread_to_real_time`
   takes effect on t and reports Ok. *)
Promote(t) ==
  /\ before[t] = None
  /\ \E l \in RealTimeLevels : level' = [level EXCEPT ![t] = l]
  /\ before' = [before EXCEPT ![t] = level[t]]

(* `demote_current_thread_from_real_time` or `demote_thread_from_real_time`
   takes effect on t and reports Ok. *)
Demote(t) ==
  /\ before[t] # None
  /\ level' = [level EXCEPT ![t] = before[t]]
  /\ before' = [before EXCEPT ![t] = None]

(* The thread exits, or a new thread takes its place: a promotion does not
   outlive its thread. *)
Restart(t) ==
  /\ \E l \in Ordinary : level' = [level EXCEPT ![t] = l]
  /\ before' = [before EXCEPT ![t] = None]

Next == \E t \in Threads : Promote(t) \/ Demote(t) \/ Restart(t)

Spec == Init /\ [][Next]_vars

-----------------------------------------------------------------------------

TypeOK ==
  /\ level \in [Threads -> Levels]
  /\ before \in [Threads -> Levels \cup {None}]

(* A thread is real-time exactly while a promotion that reported success has
   not been undone by a demotion that reported success. *)
RealTimeIffPromised ==
  \A t \in Threads : level[t] \in RealTimeLevels <=> before[t] # None

(* A promotion only ever remembers an ordinary level: demoting cannot leave
   the thread real-time. *)
RemembersOrdinary ==
  \A t \in Threads : before[t] # None => before[t] \in Ordinary
=============================================================================
