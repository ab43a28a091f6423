------------------------------- MODULE RtLinux -------------------------------
(***************************************************************************)
(* src/src/rt_linux.rs: the Linux backend built with the `dbus` feature    *)
(* (the default).  A thread is promoted by the rtkit daemon, asked over    *)
(* D-Bus, which refuses unless the process of the thread has bounded its   *)
(* real-time CPU time (RLIMIT_RTTIME).  So a promotion                     *)
(*   - reads the daemon's maximum (get_limits) and lowers the limits of    *)
(*     the calling process (set_limits),                                   *)
(*   - sends the request and blocks until the answer or the timeout,       *)
(*   - on an error reads the limits again, sets them again, and fails.     *)
(* Each of these is a step: the limits belong to the process, not to the   *)
(* thread, and the daemon acts on its own.  Demotions ask the kernel       *)
(* directly, from the process of the thread.                               *)
(***************************************************************************)
EXTENDS LinuxThreads

CONSTANTS
  MaxRtTime,   (* RTTimeUSecMax of the daemon, in microseconds.            *)
  Infinity,    (* RLIM_INFINITY.                                           *)
  RttimeInit,  (* RLIMIT_RTTIME, soft and hard, of each process.           *)
  Frames,      (* buffer sizes clients pass; 0 asks for the default.       *)
  Rates,       (* sample rates clients pass.                               *)
  Brokers,     (* processes that only promote threads of other processes,  *)
               (* and have none of their own promoted.                     *)
  Limiters,    (* processes that set their limits by a call of their own.  *)
  Sandboxed,   (* processes that may lose access to D-Bus.                 *)
  Punctual     (* does the daemon always answer in time?                   *)

Limits == [cur : Nat, max : Nat]

ASSUME RtkitAssumption ==
  /\ MaxRtTime \in Nat /\ Infinity \in Nat /\ MaxRtTime < Infinity
  /\ RttimeInit \in [Procs -> Limits]
  /\ \A p \in Procs : RttimeInit[p].cur <= RttimeInit[p].max
  /\ Frames \subseteq Nat
  /\ Rates \subseteq Nat
  /\ Brokers \subseteq Procs
  /\ Limiters \subseteq Procs
  /\ Sandboxed \subseteq Procs
  /\ Punctual \in BOOLEAN
  /\ None \notin Limits /\ None \notin {"granted", "refused"}

VARIABLES
  rttime,      (* RLIMIT_RTTIME of each process.                           *)
  offline,     (* processes that cannot reach D-Bus.                       *)
  late,        (* requests that timed out, which the daemon may still act  *)
               (* on: the thread and the process they name.                *)
  misled       (* history: threads whose client was told that a promotion  *)
               (* failed when the daemon makes it, or that a demotion was  *)
               (* done when the kernel refused it (kept like `before`).    *)

rtkitVars == << rttime, offline, late, misled >>
vars == << alive, proc, sched, privileged, rtprio, infos, handles, before,
           call, rttime, offline, late, misled >>

Init ==
  /\ LinuxInit
  /\ rttime = RttimeInit
  /\ offline = {}
  /\ late = {}
  /\ misled = {}

(* The clients of the threads S are told something wrong. *)
Mislead(S) == misled' = IF Exclusive THEN misled \cup S ELSE misled

-----------------------------------------------------------------------------
(* set_real_time_hard_limit_internal and set_limits. *)

USEC_PER_SEC == 1000000

BufferFrames(frames, rate) == IF frames > 0 THEN frames ELSE rate \div 20

Budget(frames, rate) == (BufferFrames(frames, rate) * USEC_PER_SEC) \div rate

(* What the limits of the process become, for a budget. *)
RequestedLimits(budget) ==
  [cur |-> IF budget < MaxRtTime THEN budget ELSE MaxRtTime, max |-> MaxRtTime]

(* setrlimit(2): only CAP_SYS_RESOURCE, which comes and goes with
   CAP_SYS_NICE here, raises the hard limit. *)
CanSetRlimit(p, l) ==
  l.cur <= l.max /\ (l.max <= rttime[p].max \/ p \in privileged)

Goto(c, pc) == call' = [call EXCEPT ![c].pc = pc]
Return(c)   == call' = [call EXCEPT ![c] = Idle]

(* A call starts with the budget, before anything can fail. *)
Begin(c, i, frames, rate) ==
  /\ call' = [call EXCEPT ![c] =
       [pc |-> "get", info |-> i, answer |-> None,
        limits |-> [cur |-> Budget(frames, rate), max |-> Infinity]]]
  /\ UNCHANGED << kernelVars, clientVars, rtkitVars >>

(* atp_set_real_time_limit.  It does not look at the sample rate, but with 0 the
   division panics and, in an extern "C" function, the process aborts: nothing
   is left to go on. *)
set_real_time_hard_limit(c, frames, rate) ==
  /\ CanCall(c)
  /\ proc[c] \in Limiters
  /\ rate # 0
  /\ Begin(c, None, frames, rate)

(* promote_current_thread_to_real_time; with a sample rate of 0 the public
   function returns Err at once. *)
PromoteCurrent(c, frames, rate) ==
  /\ CanCall(c)
  /\ proc[c] \notin Brokers
  /\ rate # 0
  /\ Exclusive => Quiet(c)
  /\ SlotFree
  /\ Begin(c, InfoOf(c), frames, rate)

(* promote_thread_to_real_time. *)
PromoteThread(c, i, frames, rate) ==
  /\ CanCall(c)
  /\ i.pid \notin Brokers
  /\ rate # 0
  /\ Exclusive => Quiet(i.tid)
  /\ SlotFree
  /\ Begin(c, i, frames, rate)

(* get_limits, then the request: fails when the bus or the daemon does not
   answer. *)
GetLimits(c) ==
  /\ call[c].pc = "get"
  /\ \/ Return(c)
     \/ /\ proc[c] \notin offline
        /\ call' = [call EXCEPT ![c].pc = "set",
                      ![c].limits = RequestedLimits(call[c].limits.cur)]
  /\ UNCHANGED << kernelVars, clientVars, rtkitVars >>

(* set_limits changes the process of the caller, whichever thread the
   promotion is for.  Then a limit call is done, a promotion goes on. *)
SetLimits(c) ==
  /\ call[c].pc = "set"
  /\ IF CanSetRlimit(proc[c], call[c].limits)
     THEN /\ rttime' = [rttime EXCEPT ![proc[c]] = call[c].limits]
          /\ IF call[c].info = None
             THEN Return(c)
             ELSE call' = [call EXCEPT ![c].pc = "request", ![c].limits = None]
     ELSE Return(c) /\ UNCHANGED rttime
  /\ UNCHANGED << kernelVars, clientVars, offline, late, misled >>

-----------------------------------------------------------------------------
(* rtkit_set_realtime: the request, the daemon, and the answer. *)

Request(c) ==
  /\ call[c].pc = "request"
  /\ \/ Goto(c, "rollback_get")
     \/ proc[c] \notin offline /\ Goto(c, "wait")
  /\ UNCHANGED << kernelVars, clientVars, rtkitVars >>

(* Faulty variant: one more than the highest real-time priority. *)
RT_PRIO_EXCESSIVE == 100

RT_PRIO_DEFAULT == 10

RtkitAttr == [policy |-> "RR", reset |-> TRUE, priority |-> RT_PRIO_DEFAULT]

(* The daemon checks that the thread is in the process named and that the
   real-time time of that process is bounded, by its own maximum at most
   (rt_linux.rs:174, 299-302). *)
RtkitAccepts(tid, pid) ==
  tid \in alive /\ proc[tid] = pid /\ rttime[pid].max <= MaxRtTime

(* The daemon handles the request c waits for; it may refuse any. *)
RtkitAnswer(c) ==
  /\ call[c].pc = "wait" /\ call[c].answer = None
  /\ LET i == call[c].info
     IN  \/ /\ RtkitAccepts(i.tid, i.pid)
            /\ sched' = [sched EXCEPT ![i.tid] = RtkitAttr]
            /\ call' = [call EXCEPT ![c].answer = "granted"]
         \/ /\ call' = [call EXCEPT ![c].answer = "refused"]
            /\ UNCHANGED sched
  /\ UNCHANGED << alive, proc, privileged, rtprio, clientVars, rtkitVars >>

(* Faulty variant: any reply counts as a success. *)
Replied(answer) == answer # None

Granted(answer) == answer = "granted"

(* The answer arrives. *)
Answered(c) ==
  /\ call[c].pc = "wait" /\ call[c].answer # None
  /\ LET i == call[c].info
     IN  IF Granted(call[c].answer)
         THEN ReturnHandle(c, i) /\ Remember(i.tid, Level(i.saved)) /\ Return(c)
         ELSE Goto(c, "rollback_get") /\ UNCHANGED << handles, before >>
  /\ UNCHANGED << kernelVars, infos, rtkitVars >>

(* Faulty variants: a request that gets no answer is sent again, or waited for
   forever. *)
TimeoutRetried(c) ==
  /\ call[c].pc = "wait"
  /\ ~ Punctual
  /\ call' = [call EXCEPT ![c].pc = "request", ![c].answer = None]
  /\ UNCHANGED << kernelVars, clientVars, rtkitVars >>

TimeoutOnAnswer(c) ==
  /\ call[c].pc = "wait" /\ call[c].answer # None
  /\ ~ Punctual
  /\ Goto(c, "rollback_get")
  /\ UNCHANGED << kernelVars, clientVars, rtkitVars >>

(* DBUS_SOCKET_TIMEOUT passes first.  The request, or the answer, is still on
   its way. *)
Timeout(c) ==
  /\ call[c].pc = "wait"
  /\ ~ Punctual
  /\ Goto(c, "rollback_get")
  /\ late' = IF call[c].answer = None THEN late \cup {<<call[c].info.tid, call[c].info.pid>>}
             ELSE late
  /\ Mislead(IF call[c].answer = "granted" THEN {call[c].info.tid} ELSE {})
  /\ UNCHANGED << kernelVars, clientVars, rttime, offline >>

(* The daemon gets to a request nobody waits for any more, or drops it. *)
RtkitLate(t, p) ==
  /\ <<t, p>> \in late
  /\ late' = late \ {<<t, p>>}
  /\ \/ /\ RtkitAccepts(t, p)
        /\ sched' = [sched EXCEPT ![t] = RtkitAttr]
        /\ Mislead(IF RealTime(sched[t]) THEN {} ELSE {t})
     \/ UNCHANGED << sched, misled >>
  /\ UNCHANGED << alive, proc, privileged, rtprio, clientVars, call, rttime,
                  offline >>

-----------------------------------------------------------------------------
(* The error path of promote_thread_to_real_time_internal. *)

(* Faulty variant: the limits of before the promotion are put back. *)
OriginalLimits(p) == RttimeInit[p]

(* The limits put back: those get_limits has just read. *)
RollbackLimits(p) == rttime[p]

RollbackGet(c) ==
  /\ call[c].pc = "rollback_get"
  /\ \/ Return(c)
     \/ /\ proc[c] \notin offline
        /\ call' = [call EXCEPT ![c].pc = "rollback_set",
                                ![c].limits = RollbackLimits(proc[c])]
  /\ UNCHANGED << kernelVars, clientVars, rtkitVars >>

RollbackSet(c) ==
  /\ call[c].pc = "rollback_set"
  /\ LET l == call[c].limits
     IN  rttime' = IF l.cur # Infinity /\ CanSetRlimit(proc[c], l)
                   THEN [rttime EXCEPT ![proc[c]] = l] ELSE rttime
  /\ Return(c)
  /\ UNCHANGED << kernelVars, clientVars, offline, late, misled >>

-----------------------------------------------------------------------------
(* Demotions.  Both compare the error number of pthread_setschedparam, which is
   never negative, with 0, and so always report Ok. *)

PthreadFailed(rc) == rc < 0

(* Faulty variants: the saved attributes without, or with a cleared, flag. *)
DemotedThreadBare(saved)    == saved
DemotedThreadCleared(saved) == [saved EXCEPT !.reset = FALSE]

(* demote_current_thread_from_real_time asks for the bare saved attributes,
   demote_thread_from_real_time keeps SCHED_RESET_ON_FORK. *)
DemotedCurrentAttr(saved) == saved
DemotedThreadAttr(saved)  == [saved EXCEPT !.reset = TRUE]

(* What the client is told of t. *)
Report(t, errno) ==
  IF PthreadFailed(PthreadRc(errno))
  THEN UNCHANGED << before, misled >>
  ELSE Remember(t, None) /\ Mislead(IF errno = 0 THEN {} ELSE {t})

(* Faulty variant: the calling thread is demoted, for the thread of the info. *)
RestoreCaller(c, t, new) ==
  LET errno == Errno(c, c, new)
  IN  SetScheduler(c, new, errno) /\ Report(t, errno)

Restore(c, t, new) ==
  LET errno == Errno(c, t, new)
  IN  SetScheduler(t, new, errno) /\ Report(t, errno)

(* The code asserts that the handle is one of the calling thread. *)
DemoteCurrent(c, k) ==
  /\ CanCall(c)
  /\ handles[k] # None
  /\ handles[k].holder = proc[c]
  /\ handles[k].info.tid = c /\ handles[k].info.pid = proc[c]
  /\ Exclusive => before[c] # None /\ ~ Targeted(c)
  /\ Restore(c, c, DemotedCurrentAttr(handles[k].info.saved))
  /\ handles' = [handles EXCEPT ![k] = None]
  /\ UNCHANGED << alive, proc, privileged, rtprio, infos, call, rttime, offline,
                  late >>

(* `pthread_id` means something only in the process of the thread, while the
   thread runs. *)
DemoteThread(c, i) ==
  /\ CanCall(c)
  /\ i.pid = proc[c] /\ i.tid \in alive /\ proc[i.tid] = i.pid
  /\ Exclusive => before[i.tid] # None /\ ~ Targeted(i.tid)
  /\ Restore(c, i.tid, DemotedThreadAttr(i.saved))
  /\ UNCHANGED << alive, proc, privileged, rtprio, infos, handles, call, rttime,
                  offline, late >>

(* A sandbox closes: the process can no longer reach D-Bus. *)
Lockdown(p) ==
  /\ p \notin offline
  /\ offline' = offline \cup {p}
  /\ UNCHANGED << kernelVars, clientVars, call, rttime, late, misled >>

-----------------------------------------------------------------------------

(* What a thread that has called the library does until the call returns. *)
Continue(c) ==
  \/ GetLimits(c) \/ SetLimits(c) \/ Request(c) \/ Answered(c) \/ Timeout(c)
  \/ RollbackGet(c) \/ RollbackSet(c)

Client(c) ==
  \/ proc[c] \notin Brokers /\ get_current_thread_info(c) /\ UNCHANGED rtkitVars
  \/ \E f \in Frames, r \in Rates : set_real_time_hard_limit(c, f, r)
  \/ \E f \in Frames, r \in Rates : PromoteCurrent(c, f, r)
  \/ \E i \in infos, f \in Frames, r \in Rates : PromoteThread(c, i, f, r)
  \/ \E k \in HandleIds : DemoteCurrent(c, k)
  \/ \E i \in infos : DemoteThread(c, i)

Environment ==
  \/ /\ LinuxEnvironment
     /\ misled' = misled \cap alive'
     /\ UNCHANGED << rttime, offline, late >>
  \/ (\E k \in HandleIds : DropHandle(k)) /\ UNCHANGED rtkitVars
  \/ \E c \in Tids : RtkitAnswer(c)
  \/ \E t \in Tids, p \in Procs : RtkitLate(t, p)
  \/ \E p \in Sandboxed : Lockdown(p)

Next == Environment \/ \E c \in Tids : Client(c) \/ Continue(c)

Spec == Init /\ [][Next]_vars

(* A running thread that is in a call goes on; nothing is assumed of the
   daemon. *)
Fairness == \A c \in Tids : WF_vars(Continue(c))

FairSpec == Spec /\ Fairness
-----------------------------------------------------------------------------

Calls ==
  [pc : {"get", "set", "request", "wait", "rollback_get", "rollback_set"},
   info : Infos \cup {None}, answer : {None, "granted", "refused"},
   limits : Limits \cup {None}]

(* The type invariant. *)
TypeOK ==
  /\ LinuxTypeOK
  /\ call \in [Tids -> Calls \cup {Idle}]
  /\ rttime \in [Procs -> Limits]
  /\ offline \subseteq Procs
  /\ late \subseteq Tids \X Procs
  /\ misled \subseteq Tids

(* A real-time thread never runs in a process that may use more real-time CPU
   time than the daemon allows, whichever promotions of other threads of that
   process succeed, fail, or put limits back meanwhile
   (rt_linux.rs:192-193, 299-300). *)
BoundedRealTime ==
  \A t \in alive :
    RealTime(sched[t]) => /\ rttime[proc[t]].cur <= MaxRtTime
                          /\ rttime[proc[t]].max <= MaxRtTime

(* No thread is born real-time: whatever demotions restore, a real-time thread
   keeps SCHED_RESET_ON_FORK. *)
NoInheritedRealTime ==
  [][\A t \in Tids :
       t \notin alive /\ t \in alive' => ~ RealTime(sched'[t])]_vars

(* "This can be called by sandboxed code, it only restores priority to what they
   were" (rt_linux.rs:245): within the process of the thread, without privilege
   and without D-Bus, the kernel never refuses demote_thread_from_real_time an
   ordinary level. *)
SandboxedCanDemote ==
  \A i \in infos :
    i.tid \in alive /\ proc[i.tid] = i.pid /\ ~ RealTime(i.saved) =>
      \A c \in alive :
        proc[c] = i.pid => Errno(c, i.tid, DemotedThreadAttr(i.saved)) = 0

(* How many steps a call of c may still need, at most. *)
StepsLeft(c) ==
  [get |-> 6, set |-> 5, request |-> 4, wait |-> 3, rollback_get |-> 2,
   rollback_set |-> 1, idle |-> 0][call[c].pc]

(* A call only gets nearer to its end: whatever other calls, the bus and the
   daemon do, it asks for the limits, for the promotion and for the limits once
   more at most, and the error path never takes it back. *)
NothingSetBack ==
  [][\A c \in Tids :
       InFlight(c) /\ call'[c].pc # call[c].pc =>
         StepsLeft(c)' < StepsLeft(c)]_vars

(* Whatever the bus and the daemon do, every call returns: no step of the
   library waits for longer than the D-Bus timeout. *)
CallsReturn == \A c \in Tids : InFlight(c) ~> ~ InFlight(c)

(* A grant is hidden until the promotion reports it: only then does it take
   effect for the client. *)
VisibleLevel(t) ==
  LET granted == {c \in Tids : /\ call[c].pc = "wait" /\ call[c].answer = "granted"
                               /\ call[c].info.tid = t}
  IN  IF granted = {} THEN Level(sched[t])
      ELSE Level(call[CHOOSE c \in granted : TRUE].info.saved)

Contract == INSTANCE RtPriorityMisled WITH
  Threads <- Tids,
  level   <- [t \in Tids |-> VisibleLevel(t)]

(* With clients that use a thread from one place at a time the backend keeps the
   contract of RtPriority for every thread of which the client has not been told
   something wrong, whatever processes lose their privilege and however late the
   daemon is. *)
KeepsContract == Contract!MisledSpec

(* A thread whose client has not been misled is real-time exactly while a
   promotion is in effect, or granted and about to be reported: nothing else the
   library, the daemon and its own error paths do leaves a thread real-time behind
   the back of its client (lib.rs:508, 549). *)
RealTimeIffPromised ==
  \A t \in Tids \ misled :
    RealTime(sched[t]) <=>
      \/ before[t] # None
      \/ \E c \in Tids : /\ call[c].pc = "wait" /\ call[c].answer = "granted"
                          /\ call[c].info.tid = t

(* Clients are misled in these ways only: by a timeout of a request that has been
   granted, by a request the daemon gets to after the timeout, and by
   demote_current_thread_from_real_time in a process without privilege.
   demote_thread_from_real_time, which "can be called by sandboxed code"
   (rt_linux.rs:245), never misleads, nor does a demotion by a privileged one. *)
MisledOnly ==
  [][\A t \in misled' \ misled :
       \/ \E c \in Tids :
            /\ call[c].pc = "wait" /\ call'[c].pc = "rollback_get"
            /\ call[c].answer = "granted" /\ call[c].info.tid = t
       \/ \E p \in Procs : <<t, p>> \in late \ late'
       \/ /\ proc[t] \notin privileged
          /\ \E k \in HandleIds : /\ handles[k] # None /\ handles'[k] = None
                                  /\ handles[k].info.tid = t]_vars

-----------------------------------------------------------------------------
(* Statements of the documentation that the code keeps only of threads whose
   client has not been misled. *)

(* "0 in case of success, non-zero in case of error" (lib.rs:578), and "revert
   to the previous thread priority" (lib.rs:508): after a demotion that reported
   success the thread is not real-time. *)
OkDemotionRestores ==
  \A t \in Tids : Quiet(t) => ~ RealTime(sched[t])

(* "This function returns `NULL` in case of error: if it couldn't bump the
   thread" (lib.rs:549): a promotion bound to fail has not promoted. *)
NullMeansNotPromoted ==
  \A c \in Tids :
    call[c].pc \in {"rollback_get", "rollback_set"} =>
      ~ RealTime(sched[call[c].info.tid])
=============================================================================
