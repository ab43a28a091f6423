----------------------------- MODULE LinuxThreads -----------------------------
(***************************************************************************)
(* What the two Linux backends (src/src/rt_linux.rs, the rtkit one, and    *)
(* src/src/rt_linux_native.rs, the direct one) have in common: the threads *)
(* and processes of the machine, the scheduling attributes the kernel      *)
(* keeps for each thread and its rule for changing them, and the values    *)
(* the client holds: thread infos (copied freely, also to other processes) *)
(* and handles (owned by one process, consumed by a demotion).             *)
(*                                                                         *)
(* The kernel is external: it is modelled from how the backends call it    *)
(* and from what their comments say of it.  A backend EXTENDS this module  *)
(* and adds the calls of the library, one record per calling thread.       *)
(***************************************************************************)
EXTENDS Integers, FiniteSets

CONSTANTS
  Tids,       (* system-wide thread ids; an id is reused after its exit.   *)
  Procs,      (* processes.                                                *)
  Born,       (* the threads that run initially.                           *)
  Home,       (* the process each of them runs in.                         *)
  Hosts,      (* bound: the processes an id may be reused in.              *)
  Batch,      (* the threads that start under SCHED_BATCH.                 *)
  Root,       (* processes that start with CAP_SYS_NICE.                   *)
  Droppers,   (* processes that may give that capability up.               *)
  RtprioInit, (* RLIMIT_RTPRIO of each process at the start.               *)
  RtprioSet,  (* soft limits an administrator may set later.               *)
  SameOwner,  (* do the processes run under the same user id?              *)
  HandleIds,  (* bound: handles that exist at a time.                      *)
  MaxInfos,   (* bound: thread infos in circulation.                       *)
  Exclusive,  (* do clients use each thread from one place at a time?      *)
  None

Policies == {"OTHER", "BATCH", "FIFO", "RR"}

(* What sched_setscheduler(2) sets: the policy, the SCHED_RESET_ON_FORK bit of
   the policy word, and sched_param.sched_priority. *)
Attrs == [policy : Policies, reset : BOOLEAN, priority : 0..99]

RealTime(a) == a.policy \in {"FIFO", "RR"}

(* The scheduling level a client thinks of: the policy of an ordinary thread,
   or real-time.  The flag is not part of it ("The flag is harmless on a
   non-real-time thread", rt_linux_native.rs:216), and the static priority of an
   ordinary thread is always 0. *)
Level(a) == IF RealTime(a) THEN "REALTIME" ELSE a.policy
Levels == {"OTHER", "BATCH", "REALTIME"}
RealTimeLevels == {"REALTIME"}

OrdinaryAttr == [policy |-> "OTHER", reset |-> FALSE, priority |-> 0]

(* A thread info: the thread it was gathered on, the process of that thread,
   and the attributes in place then.  `thread_id` and `pthread_id` name the
   same thread; the second means something only inside `pid`. *)
Infos == [tid : Tids, pid : Procs, saved : Attrs]
Handles == [holder : Procs, info : Infos]

ASSUME LinuxAssumption ==
  /\ Born \subseteq Tids
  /\ Home \in [Tids -> Procs]
  /\ Hosts \in [Tids -> SUBSET Procs]
  /\ Batch \subseteq Tids
  /\ Root \subseteq Procs
  /\ Droppers \subseteq Procs
  /\ RtprioInit \in [Procs -> 0..99]
  /\ RtprioSet \subseteq 0..99
  /\ SameOwner \in BOOLEAN
  /\ MaxInfos \in Nat
  /\ Exclusive \in BOOLEAN
  /\ None \notin Infos \cup Handles \cup Levels

VARIABLES
  alive,       (* ids of the running threads.                              *)
  proc,        (* process of each thread.                                  *)
  sched,       (* scheduling attributes of each thread.                    *)
  privileged,  (* processes that hold CAP_SYS_NICE.                        *)
  rtprio,      (* RLIMIT_RTPRIO, soft, of each process.                    *)
  infos,       (* thread infos gathered so far, in any process.            *)
  handles,     (* handles that exist, by slot.                             *)
  before,      (* history: level a promoted thread is to come back to      *)
               (* (kept for exclusive clients: races would blur it).       *)
  call         (* the library call each thread is in.                      *)

kernelVars == << alive, proc, sched, privileged, rtprio >>
clientVars == << infos, handles, before >>

Idle == [pc |-> "idle", info |-> None]

LinuxInit ==
  /\ alive = Born
  /\ proc = Home
  /\ sched = [t \in Tids |-> [OrdinaryAttr EXCEPT !.policy =
                               IF t \in Batch THEN "BATCH" ELSE "OTHER"]]
  /\ privileged = Root
  /\ rtprio = RtprioInit
  /\ infos = {}
  /\ handles = [k \in HandleIds |-> None]
  /\ before = [t \in Tids |-> None]
  /\ call = [t \in Tids |-> Idle]

-----------------------------------------------------------------------------
(* The kernel's rule for changing scheduling attributes. *)

ESRCH  == 3
EPERM  == 1
EINVAL == 22

WellFormed(a) == IF RealTime(a) THEN a.priority \in 1..99 ELSE a.priority = 0

(* What a thread without CAP_SYS_NICE may change: a real-time policy or a
   higher priority needs RLIMIT_RTPRIO (of the target's process), and
   SCHED_RESET_ON_FORK cannot be cleared once set. *)
Permitted(old, new, limit) ==
  /\ RealTime(new) =>
       /\ new.policy # old.policy => limit > 0
       /\ new.priority <= old.priority \/ new.priority <= limit
  /\ old.reset => new.reset

(* The error thread c gets when it asks for attributes `new` on thread t, 0
   when the kernel does it. *)
Errno(c, t, new) ==
  IF t \notin alive THEN ESRCH
  ELSE IF ~ WellFormed(new) THEN EINVAL
  ELSE IF \/ proc[c] \in privileged
          \/ /\ proc[c] = proc[t] \/ SameOwner
             /\ Permitted(sched[t], new, rtprio[proc[t]])
       THEN 0
  ELSE EPERM

(* pthread_setschedparam returns the error number; sched_setscheduler returns
   -1 (and sets errno). *)
PthreadRc(errno) == errno
SchedRc(errno)   == IF errno = 0 THEN 0 ELSE -1

(* Either call changes the thread exactly when there is no error. *)
SetScheduler(t, new, errno) ==
  sched' = IF errno = 0 THEN [sched EXCEPT ![t] = new] ELSE sched

(* What a new thread inherits from the thread that creates it. *)
Inherited(a) ==
  IF ~ a.reset THEN a
  ELSE IF RealTime(a) THEN OrdinaryAttr
  ELSE [a EXCEPT !.reset = FALSE]

-----------------------------------------------------------------------------
(* Values and steps of the client. *)

InFlight(c) == call[c].pc # "idle"
CanCall(c)  == c \in alive /\ ~ InFlight(c)
Targeted(t) == \E c \in Tids : call[c].info # None /\ call[c].info.tid = t

(* Nothing is being done to t and t is not promoted. *)
Quiet(t) == before[t] = None /\ ~ Targeted(t)

(* Bound: a promotion starts only when its handle will find a slot. *)
SlotFree ==
  Cardinality({k \in HandleIds : handles[k] = None})
    > Cardinality({c \in Tids : InFlight(c)})

(* `get_current_thread_info_internal`, called on t. *)
InfoOf(t) == [tid |-> t, pid |-> proc[t], saved |-> sched[t]]

get_current_thread_info(t) ==
  /\ CanCall(t)
  /\ Cardinality(infos) < MaxInfos
  /\ Exclusive => Quiet(t)
  /\ infos' = infos \cup {InfoOf(t)}
  /\ UNCHANGED << kernelVars, handles, before, call >>

(* From now on t is to come back to level l (None: it has come back). *)
Remember(t, l) ==
  before' = IF Exclusive THEN [before EXCEPT ![t] = l] ELSE before

(* A promotion of i.tid called by c reports Ok: the caller gets a handle. *)
ReturnHandle(c, i) ==
  \E k \in HandleIds :
    /\ handles[k] = None
    /\ handles' = [handles EXCEPT ![k] = [holder |-> proc[c], info |-> i]]

(* The client drops a handle, or calls `atp_free_handle`: nothing is demoted. *)
DropHandle(k) ==
  /\ handles[k] # None
  /\ handles' = [handles EXCEPT ![k] = None]
  /\ UNCHANGED << kernelVars, infos, before, call >>

-----------------------------------------------------------------------------
(* Steps of the environment. *)

Spawn(parent, child) ==
  /\ CanCall(parent)
  /\ child \notin alive
  /\ proc[parent] \in Hosts[child]
  /\ alive' = alive \cup {child}
  /\ proc' = [proc EXCEPT ![child] = proc[parent]]
  /\ sched' = [sched EXCEPT ![child] = Inherited(sched[parent])]
  /\ UNCHANGED << privileged, rtprio, clientVars, call >>

(* A thread exits.  Exclusive clients then throw away what they hold on it. *)
Exit(t) ==
  /\ CanCall(t)
  /\ Exclusive => ~ Targeted(t)
  /\ alive' = alive \ {t}
  /\ sched' = [sched EXCEPT ![t] = OrdinaryAttr]
  /\ Remember(t, None)
  /\ IF Exclusive
     THEN /\ infos' = {i \in infos : i.tid # t}
          /\ handles' = [k \in HandleIds |->
                           IF handles[k] # None /\ handles[k].info.tid = t
                           THEN None ELSE handles[k]]
     ELSE UNCHANGED << infos, handles >>
  /\ UNCHANGED << proc, privileged, rtprio, call >>

SetRtprio(p, n) ==
  /\ rtprio' = [rtprio EXCEPT ![p] = n]
  /\ UNCHANGED << alive, proc, sched, privileged, clientVars, call >>

DropPrivilege(p) ==
  /\ p \in privileged
  /\ privileged' = privileged \ {p}
  /\ UNCHANGED << alive, proc, sched, rtprio, clientVars, call >>

LinuxEnvironment ==
  \/ \E t, u \in Tids : Spawn(t, u)
  \/ \E t \in Tids : Exit(t)
  \/ \E p \in Procs, n \in RtprioSet : SetRtprio(p, n)
  \/ \E p \in Droppers : DropPrivilege(p)

-----------------------------------------------------------------------------

LinuxTypeOK ==
  /\ alive \subseteq Tids
  /\ proc \in [Tids -> Procs]
  /\ sched \in [Tids -> Attrs]
  /\ privileged \subseteq Procs
  /\ rtprio \in [Procs -> 0..99]
  /\ infos \subseteq Infos
  /\ handles \in [HandleIds -> Handles \cup {None}]
  /\ before \in [Tids -> Levels \cup {None}]
=============================================================================
