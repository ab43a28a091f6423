---------------------------- MODULE RtLinuxNative ----------------------------
(***************************************************************************)
(* src/src/rt_linux_native.rs: the Linux backend built without the `dbus`  *)
(* feature.  A thread is promoted by asking the kernel for SCHED_FIFO      *)
(* directly, either with pthread_setschedparam on the calling thread or    *)
(* with sched_setscheduler on a thread named by its tid, possibly of       *)
(* another process.                                                        *)
(*                                                                         *)
(* A promotion is three steps, between which any other thread may run: it  *)
(* captures the attributes in place (or receives a thread info captured    *)
(* before), loads RT_PRIORITY, and makes the system call.  The demotions   *)
(* and `set_rt_priority` are one system call or one atomic store each.     *)
(***************************************************************************)
EXTENDS LinuxThreads

CONSTANT
  Priorities   (* the values clients pass to `set_rt_priority`.            *)

ASSUME NativeAssumption ==
  /\ Priorities \subseteq 0..255
  /\ None \notin 0..255

VARIABLE
  RT_PRIORITY  (* the static of each process, 0 for the default.           *)

vars == << alive, proc, sched, privileged, rtprio, infos, handles, before,
           call, RT_PRIORITY >>

Init ==
  /\ LinuxInit
  /\ RT_PRIORITY = [p \in Procs |-> 0]

-----------------------------------------------------------------------------
(* `set_rt_priority`: None restores the default, a value outside 1..99 is
   ignored.  Stored(old, p) is the value of the static after the call.  Faulty
   variants: no range check; 100 passes it. *)

StoredUnchecked(old, p) == IF p = None THEN 0 ELSE p
StoredOffByOne(old, p)  == IF p = None THEN 0 ELSE IF p \in 1..100 THEN p ELSE old

Stored(old, p) ==
  IF p = None THEN 0
  ELSE IF p \in 1..99 THEN p
  ELSE old

set_rt_priority(t, p) ==
  /\ CanCall(t)
  /\ RT_PRIORITY' = [RT_PRIORITY EXCEPT ![proc[t]] = Stored(@, p)]
  /\ UNCHANGED << kernelVars, clientVars, call >>

RT_PRIO_DEFAULT == 10

RequestedPriority(v) == IF v = 0 THEN RT_PRIO_DEFAULT ELSE v

-----------------------------------------------------------------------------
(* Promotions.  Both ask for the same attributes; they differ in where the
   thread info comes from and in how the result code reads. *)

(* Faulty variant: the promotion forgets the flag. *)
PromotedBare(prio) == [policy |-> "FIFO", reset |-> FALSE, priority |-> prio]

PromotedAttr(prio) == [policy |-> "FIFO", reset |-> TRUE, priority |-> prio]

(* Faulty variant: a demotion asks for the bare saved attributes. *)
DemotedBare(saved) == saved

(* The attributes a demotion asks for.  SCHED_RESET_ON_FORK stays set. *)
DemotedAttr(saved) == [saved EXCEPT !.reset = TRUE]

(* Faulty variant: the error number is compared like the result of a bare
   system call. *)
PthreadNegative(rc) == rc < 0

(* What the code takes for a failure of each of the two calls. *)
PthreadFailed(rc) == rc # 0
SchedFailed(rc)   == rc < 0

Failed(api, errno) ==
  IF api = "current" THEN PthreadFailed(PthreadRc(errno))
                     ELSE SchedFailed(SchedRc(errno))

Begin(c, api, i) ==
  /\ SlotFree
  /\ call' = [call EXCEPT ![c] =
                [pc |-> "load", api |-> api, info |-> i, prio |-> 0]]
  /\ UNCHANGED << kernelVars, clientVars, RT_PRIORITY >>

(* promote_current_thread_to_real_time: captures the attributes of c. *)
PromoteCurrent(c) ==
  /\ CanCall(c)
  /\ Exclusive => Quiet(c)
  /\ Begin(c, "current", InfoOf(c))

(* promote_thread_to_real_time: the info was captured earlier, by the thread
   to promote, and has reached the process of c. *)
PromoteThread(c, i) ==
  /\ CanCall(c)
  /\ Exclusive => Quiet(i.tid)
  /\ Begin(c, "thread", i)

LoadPriority(c) ==
  /\ call[c].pc = "load"
  /\ LET prio == RequestedPriority(RT_PRIORITY[proc[c]])
     IN  call' = [call EXCEPT ![c] = [pc |-> "set", api |-> @.api,
                                      info |-> @.info, prio |-> prio]]
  /\ UNCHANGED << kernelVars, clientVars, RT_PRIORITY >>

(* The system call, and the return to the client. *)
PromoteSet(c) ==
  /\ call[c].pc = "set"
  /\ LET i     == call[c].info
         new   == PromotedAttr(call[c].prio)
         errno == Errno(c, i.tid, new)
     IN  /\ SetScheduler(i.tid, new, errno)
         /\ IF Failed(call[c].api, errno)
            THEN UNCHANGED << handles, before >>
            ELSE ReturnHandle(c, i) /\ Remember(i.tid, Level(sched[i.tid]))
  /\ call' = [call EXCEPT ![c] = Idle]
  /\ UNCHANGED << alive, proc, privileged, rtprio, infos, RT_PRIORITY >>

-----------------------------------------------------------------------------
(* Demotions. *)

(* The call asks the kernel for the saved attributes; only a success ends the
   promotion. *)
Restore(c, i, api) ==
  LET new   == DemotedAttr(i.saved)
      errno == Errno(c, i.tid, new)
  IN  /\ SetScheduler(i.tid, new, errno)
      /\ IF Failed(api, errno) THEN before' = before ELSE Remember(i.tid, None)

(* demote_current_thread_from_real_time consumes the handle whatever happens.
   `pthread_id` means something only inside the process that captured it, while
   that thread runs. *)
DemoteCurrent(c, k) ==
  /\ CanCall(c)
  /\ handles[k] # None
  /\ LET i == handles[k].info
     IN  /\ handles[k].holder = proc[c]
         /\ i.pid = proc[c]
         /\ i.tid \in alive /\ proc[i.tid] = i.pid
         /\ Exclusive => i.tid = c /\ before[c] # None /\ ~ Targeted(c)
         /\ Restore(c, i, "current")
  /\ handles' = [handles EXCEPT ![k] = None]
  /\ UNCHANGED << alive, proc, privileged, rtprio, infos, call, RT_PRIORITY >>

(* demote_thread_from_real_time names the thread by its tid. *)
DemoteThread(c, i) ==
  /\ CanCall(c)
  /\ Exclusive => before[i.tid] # None /\ ~ Targeted(i.tid)
  /\ Restore(c, i, "thread")
  /\ UNCHANGED << alive, proc, privileged, rtprio, infos, handles, call,
                  RT_PRIORITY >>

(* set_real_time_hard_limit does nothing in this backend. *)
set_real_time_hard_limit(c) ==
  /\ CanCall(c)
  /\ UNCHANGED vars

-----------------------------------------------------------------------------

Library(c) ==
  \/ get_current_thread_info(c) /\ UNCHANGED RT_PRIORITY
  \/ \E p \in Priorities \cup {None} : set_rt_priority(c, p)
  \/ PromoteCurrent(c)
  \/ \E i \in infos : PromoteThread(c, i)
  \/ LoadPriority(c)
  \/ PromoteSet(c)
  \/ \E k \in HandleIds : DemoteCurrent(c, k)
  \/ \E i \in infos : DemoteThread(c, i)
  \/ set_real_time_hard_limit(c)

Environment ==
  \/ LinuxEnvironment /\ UNCHANGED RT_PRIORITY
  \/ (\E k \in HandleIds : DropHandle(k)) /\ UNCHANGED RT_PRIORITY

Next == Environment \/ \E c \in Tids : Library(c)

Spec == Init /\ [][Next]_vars

-----------------------------------------------------------------------------

Calls == [pc : {"load", "set"}, api : {"current", "thread"}, info : Infos,
          prio : 0..255]

(* The type invariant: the static, a u8, only ever holds 0, for the default, or a
   priority of SCHED_FIFO (rt_linux_native.rs:33-43). *)
TypeOK ==
  /\ LinuxTypeOK
  /\ call \in [Tids -> Calls \cup {Idle}]
  /\ RT_PRIORITY \in [Procs -> 0..99]

(* Once a promotion reaches its system call, the priority it asks for is one
   SCHED_FIFO accepts, whatever `set_rt_priority` was given and whenever it ran:
   a promotion is never refused with EINVAL. *)
RequestAlwaysValid ==
  \A c \in Tids :
    call[c].pc = "set" => WellFormed(PromotedAttr(call[c].prio))

(* Every real-time thread carries SCHED_RESET_ON_FORK (the inductive part of
   the next property). *)
RealTimeResets ==
  \A t \in Tids : RealTime(sched[t]) => sched[t].reset

(* "Prevents threads/processes forked from a real-time thread from inheriting
   real-time scheduling" (rt_linux_native.rs:53): no thread is born real-time,
   however promotions, demotions and stale infos interleave before. *)
NoInheritedRealTime ==
  [][\A t \in Tids :
       t \notin alive /\ t \in alive' => ~ RealTime(sched'[t])]_vars

(* A demotion from the thread's own process to an ordinary level can never be
   refused, even without any privilege left and with no RLIMIT_RTPRIO: a thread
   the library promoted can always be brought back (rt_linux_native.rs:214-216,
   lib.rs:636-639). *)
Demotable(i) ==
  i.tid \in alive /\ proc[i.tid] = i.pid /\ ~ RealTime(i.saved) =>
    \A c \in alive :
      proc[c] = i.pid => Errno(c, i.tid, DemotedAttr(i.saved)) = 0

DemotionNeverDenied ==
  /\ \A i \in infos : Demotable(i)
  /\ \A k \in HandleIds : handles[k] # None => Demotable(handles[k].info)

Contract == INSTANCE RtPriority WITH
  Threads <- Tids,
  level   <- [t \in Tids |-> Level(sched[t])]

(* When each thread is used from one place at a time, the backend keeps the
   contract of RtPriority: Ok from a promotion means real-time, Ok from a
   demotion means back to exactly the level before it, Err means unchanged. *)
KeepsContract == Contract!Spec
=============================================================================
