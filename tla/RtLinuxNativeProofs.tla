------------------------- MODULE RtLinuxNativeProofs -------------------------
(***************************************************************************)
(* Theorems about RtLinuxNative, for any set of threads, processes and     *)
(* clients, exclusive or racing.                                           *)
(***************************************************************************)
EXTENDS RtLinuxNative, LinuxThreadsProofs

(* The inductive invariant.  Attributes are well formed wherever they are kept
   (in the kernel, in infos, in handles, in calls), so that a demotion never
   asks for something the kernel rejects; every real-time thread carries
   SCHED_RESET_ON_FORK; and RT_PRIORITY only ever holds 0 or a priority
   SCHED_FIFO accepts. *)
GoodInfo(i) == i \in Infos /\ WellFormed(i.saved)

SchedOK ==
  /\ sched \in [Tids -> Attrs]
  /\ RealTimeResets
  /\ \A t \in Tids : WellFormed(sched[t])

MachineOK ==
  /\ alive \subseteq Tids
  /\ proc \in [Tids -> Procs]
  /\ privileged \subseteq Procs
  /\ rtprio \in [Procs -> 0..99]

ClientOK ==
  /\ before \in [Tids -> Levels \cup {None}]
  /\ \A i \in infos : GoodInfo(i)
  /\ handles \in [HandleIds -> Handles \cup {None}]
  /\ \A k \in HandleIds : handles[k] # None => GoodInfo(handles[k].info)

CallsOK ==
  /\ call \in [Tids -> Calls \cup {Idle}]
  /\ \A c \in Tids : call[c].pc # "idle" => GoodInfo(call[c].info)
  /\ RequestAlwaysValid
  /\ RT_PRIORITY \in [Procs -> 0..99]

IInv == SchedOK /\ MachineOK /\ ClientOK /\ CallsOK

-----------------------------------------------------------------------------
(* Facts about the operators. *)

LEMMA DemotedFacts ==
  ASSUME NEW a \in Attrs
  PROVE  /\ DemotedAttr(a) \in Attrs
         /\ DemotedAttr(a).reset
         /\ WellFormed(DemotedAttr(a)) <=> WellFormed(a)
         /\ RealTime(DemotedAttr(a)) <=> RealTime(a)
<1>1. /\ DemotedAttr(a) \in Attrs
      /\ DemotedAttr(a).reset
      /\ DemotedAttr(a).policy = a.policy
      /\ DemotedAttr(a).priority = a.priority
  BY DEF DemotedAttr, Attrs
<1> QED
  BY <1>1 DEF WellFormed, RealTime

LEMMA PromotedFacts ==
  ASSUME NEW p \in 1..99
  PROVE  /\ PromotedAttr(p) \in Attrs
         /\ PromotedAttr(p).reset
         /\ WellFormed(PromotedAttr(p))
  BY DEF PromotedAttr, Attrs, Policies, WellFormed, RealTime

LEMMA PriorityFacts ==
  ASSUME NEW v \in 0..99
  PROVE  RequestedPriority(v) \in 1..99
  BY DEF RequestedPriority, RT_PRIO_DEFAULT

LEMMA InfoFacts ==
  ASSUME NEW i, GoodInfo(i)
  PROVE  i.tid \in Tids /\ i.pid \in Procs /\ i.saved \in Attrs
         /\ WellFormed(i.saved)
  BY DEF GoodInfo, Infos

LEMMA CallFacts ==
  ASSUME CallsOK, NEW c \in Tids, call[c].pc # "idle"
  PROVE  call[c] \in Calls /\ GoodInfo(call[c].info)
  BY DEF CallsOK, Idle

(* Asking the kernel for well-formed attributes that carry the flag keeps the
   scheduler's part of the invariant, whatever the answer. *)
LEMMA SetSchedulerFacts ==
  ASSUME SchedOK, NEW t \in Tids, NEW e, NEW new \in Attrs,
         new.reset, WellFormed(new), SetScheduler(t, new, e)
  PROVE  SchedOK'
  BY DEF SchedOK, RealTimeResets, SetScheduler

-----------------------------------------------------------------------------

LEMMA InitIInv == Init => IInv
<1> SUFFICES ASSUME Init PROVE IInv
  OBVIOUS
<1>1. /\ sched \in [Tids -> Attrs]
      /\ \A t \in Tids : ~ RealTime(sched[t]) /\ WellFormed(sched[t])
  BY StartFacts DEF Init
<1> USE LinuxAssumption DEF Init, LinuxInit
<1>2. SchedOK
  BY <1>1 DEF SchedOK, RealTimeResets
<1>3. MachineOK
  BY DEF MachineOK
<1>4. ClientOK
  BY DEF ClientOK
<1>5. CallsOK
  BY DEF CallsOK, RequestAlwaysValid, Idle
<1> QED
  BY <1>2, <1>3, <1>4, <1>5 DEF IInv

-----------------------------------------------------------------------------
(* Steps of a thread inside the library. *)

LEMMA LibraryStep ==
  ASSUME IInv, NEW c \in Tids, Library(c)
  PROVE  IInv'
<1> USE DEF IInv, kernelVars, clientVars
<1>1. CASE get_current_thread_info(c) /\ UNCHANGED RT_PRIORITY
  <2> USE <1>1 DEF get_current_thread_info
  <2>1. SchedOK' /\ MachineOK' /\ CallsOK'
    BY DEF SchedOK, RealTimeResets, MachineOK, CallsOK, RequestAlwaysValid
  <2>2. GoodInfo(InfoOf(c))
    BY DEF GoodInfo, InfoOf, Infos, SchedOK, MachineOK
  <2>3. ClientOK'
    BY <2>2 DEF ClientOK
  <2> QED
    BY <2>1, <2>3
<1>2. ASSUME NEW p \in Priorities \cup {None}, set_rt_priority(c, p)
      PROVE  IInv'
  <2> USE <1>2 DEF set_rt_priority
  <2>1. SchedOK' /\ MachineOK' /\ ClientOK'
    BY DEF SchedOK, RealTimeResets, MachineOK, ClientOK
  <2>2. \A old \in 0..99 : Stored(old, p) \in 0..99
    BY DEF Stored
  <2>3. RT_PRIORITY' \in [Procs -> 0..99]
    BY <2>2 DEF CallsOK
  <2>4. CallsOK'
    BY <2>3 DEF CallsOK, RequestAlwaysValid
  <2> QED
    BY <2>1, <2>4
<1>3. ASSUME NEW api \in {"current", "thread"}, NEW i, GoodInfo(i), Begin(c, api, i)
      PROVE  IInv'
  <2> USE <1>3 DEF Begin
  <2>1. SchedOK' /\ MachineOK' /\ ClientOK'
    BY DEF SchedOK, RealTimeResets, MachineOK, ClientOK
  <2>2. [pc |-> "load", api |-> api, info |-> i, prio |-> 0] \in Calls
    BY DEF Calls, GoodInfo
  <2>3. CallsOK'
    BY <2>2 DEF CallsOK, RequestAlwaysValid
  <2> QED
    BY <2>1, <2>3
<1>4. CASE PromoteCurrent(c)
  <2>1. GoodInfo(InfoOf(c))
    BY DEF GoodInfo, InfoOf, Infos, SchedOK, MachineOK
  <2> QED
    BY <1>3, <1>4, <2>1 DEF PromoteCurrent
<1>5. ASSUME NEW i \in infos, PromoteThread(c, i)
      PROVE  IInv'
  BY <1>3, <1>5 DEF PromoteThread, ClientOK
<1>6. CASE LoadPriority(c)
  <2> USE <1>6 DEF LoadPriority
  <2>1. SchedOK' /\ MachineOK' /\ ClientOK'
    BY DEF SchedOK, RealTimeResets, MachineOK, ClientOK
  <2> DEFINE p == RequestedPriority(RT_PRIORITY[proc[c]])
  <2>2. p \in 1..99
    BY PriorityFacts DEF CallsOK, MachineOK
  <2>3. WellFormed(PromotedAttr(p))
    BY <2>2, PromotedFacts
  <2>4. call[c] \in Calls /\ GoodInfo(call[c].info)
    BY CallFacts
  <2> HIDE DEF p
  <2> DEFINE r == [pc |-> "set", api |-> call[c].api,
                   info |-> call[c].info, prio |-> p]
  <2>5. r \in Calls
    BY <2>2, <2>4 DEF Calls
  <2>6. call' = [call EXCEPT ![c] = r]
    BY DEF CallsOK, p
  <2>7. CallsOK'
    BY <2>3, <2>4, <2>5, <2>6 DEF CallsOK, RequestAlwaysValid
  <2> QED
    BY <2>1, <2>7
<1>7. CASE PromoteSet(c)
  <2> DEFINE i == call[c].info
             new == PromotedAttr(call[c].prio)
             e == Errno(c, i.tid, new)
  <2>1. /\ call[c].pc = "set"
        /\ SetScheduler(i.tid, new, e)
        /\ \/ UNCHANGED << handles, before >>
           \/ ReturnHandle(c, i) /\ Remember(i.tid, Level(sched[i.tid]))
        /\ call' = [call EXCEPT ![c] = Idle]
        /\ UNCHANGED << alive, proc, privileged, rtprio, infos, RT_PRIORITY >>
    BY <1>7 DEF PromoteSet
  <2>2. call[c] \in Calls /\ GoodInfo(i)
    BY <2>1, CallFacts
  <2>3. new \in Attrs /\ new.reset /\ WellFormed(new)
    BY <2>1, <2>2 DEF CallsOK, RequestAlwaysValid, PromotedAttr, Attrs,
                      Policies, WellFormed, RealTime
  <2>4. SchedOK'
    <3> HIDE DEF e, new, i
    <3> QED
      BY <2>1, <2>2, <2>3, SetSchedulerFacts, InfoFacts
  <2>5. MachineOK'
    BY <2>1 DEF MachineOK
  <2>6. CallsOK'
    BY <2>1 DEF CallsOK, RequestAlwaysValid, Idle
  <2>7. ClientOK'
    <3> HIDE DEF e, new, i
    <3>1. CASE UNCHANGED << handles, before >>
      BY <2>1, <3>1 DEF ClientOK
    <3>2. CASE ReturnHandle(c, i) /\ Remember(i.tid, Level(sched[i.tid]))
      <4>1. Level(sched[i.tid]) \in Levels
        BY <2>2, InfoFacts, LevelFacts DEF SchedOK
      <4>2. before' \in [Tids -> Levels \cup {None}]
        BY <3>2, <4>1, <2>2, InfoFacts, RememberFacts DEF ClientOK
      <4> DEFINE h == [holder |-> proc[c], info |-> i]
      <4>3. h \in Handles /\ h.info = i
        BY <2>2 DEF Handles, GoodInfo, MachineOK
      <4>4. PICK k \in HandleIds : handles' = [handles EXCEPT ![k] = h]
        BY <3>2 DEF ReturnHandle
      <4> HIDE DEF h
      <4> QED
        BY <2>1, <2>2, <4>2, <4>3, <4>4 DEF ClientOK
    <3> QED
      BY <2>1, <3>1, <3>2
  <2> QED
    BY <2>4, <2>5, <2>6, <2>7
<1>8. ASSUME NEW i, GoodInfo(i), NEW api, Restore(c, i, api)
      PROVE  SchedOK' /\ before' \in [Tids -> Levels \cup {None}]
  <2> DEFINE new == DemotedAttr(i.saved)
             e == Errno(c, i.tid, new)
  <2>1. /\ SetScheduler(i.tid, new, e)
        /\ before' = before \/ Remember(i.tid, None)
    BY <1>8 DEF Restore
  <2>2. new \in Attrs /\ new.reset /\ WellFormed(new)
    BY <1>8, InfoFacts, DemotedFacts
  <2> HIDE DEF e, new
  <2>3. SchedOK'
    BY <1>8, <2>1, <2>2, InfoFacts, SetSchedulerFacts
  <2>4. before' \in [Tids -> Levels \cup {None}]
    BY <1>8, <2>1, InfoFacts, RememberFacts DEF ClientOK
  <2> QED
    BY <2>3, <2>4
<1>9. ASSUME NEW k \in HandleIds, DemoteCurrent(c, k)
      PROVE  IInv'
  <2> USE <1>9 DEF DemoteCurrent
  <2>1. GoodInfo(handles[k].info)
    BY DEF ClientOK
  <2>2. SchedOK' /\ before' \in [Tids -> Levels \cup {None}]
    BY <1>8, <2>1
  <2>3. MachineOK' /\ CallsOK'
    BY DEF MachineOK, CallsOK, RequestAlwaysValid
  <2>4. ClientOK'
    BY <2>2 DEF ClientOK
  <2> QED
    BY <2>2, <2>3, <2>4
<1>10. ASSUME NEW i \in infos, DemoteThread(c, i)
       PROVE  IInv'
  <2> USE <1>10 DEF DemoteThread
  <2>1. SchedOK' /\ before' \in [Tids -> Levels \cup {None}]
    BY <1>8 DEF ClientOK
  <2>2. MachineOK' /\ CallsOK'
    BY DEF MachineOK, CallsOK, RequestAlwaysValid
  <2>3. ClientOK'
    BY <2>1 DEF ClientOK
  <2> QED
    BY <2>1, <2>2, <2>3
<1>11. CASE set_real_time_hard_limit(c)
  BY <1>11 DEF set_real_time_hard_limit, vars, SchedOK, RealTimeResets,
               MachineOK, ClientOK, CallsOK, RequestAlwaysValid
<1> QED
  BY <1>1, <1>2, <1>4, <1>5, <1>6, <1>7, <1>9, <1>10, <1>11 DEF Library
-----------------------------------------------------------------------------
(* Steps of the environment, and stuttering. *)

LEMMA EnvironmentStep ==
  ASSUME IInv, Environment
  PROVE  IInv'
<1> USE DEF IInv, kernelVars, clientVars
<1>1. ASSUME NEW t \in Tids, NEW u \in Tids, Spawn(t, u), UNCHANGED RT_PRIORITY
      PROVE  IInv'
  <2> USE <1>1 DEF Spawn
  <2>1. SchedOK'
    BY InheritedFacts DEF SchedOK, RealTimeResets
  <2>2. MachineOK' /\ ClientOK' /\ CallsOK'
    BY DEF MachineOK, ClientOK, CallsOK, RequestAlwaysValid
  <2> QED
    BY <2>1, <2>2
<1>2. ASSUME NEW t \in Tids, Exit(t), UNCHANGED RT_PRIORITY
      PROVE  IInv'
  <2> USE <1>2 DEF Exit
  <2>1. SchedOK'
    BY OrdinaryFacts DEF SchedOK, RealTimeResets
  <2>2. MachineOK' /\ CallsOK'
    BY DEF MachineOK, CallsOK, RequestAlwaysValid
  <2>3. before' \in [Tids -> Levels \cup {None}]
    BY RememberFacts DEF ClientOK
  <2>4. ClientOK'
    BY <2>3 DEF ClientOK
  <2> QED
    BY <2>1, <2>2, <2>4
<1>3. ASSUME NEW p \in Procs, NEW n \in RtprioSet, SetRtprio(p, n),
             UNCHANGED RT_PRIORITY
      PROVE  IInv'
  BY <1>3, LinuxAssumption
     DEF SetRtprio, SchedOK, RealTimeResets, MachineOK, ClientOK, CallsOK,
         RequestAlwaysValid
<1>4. ASSUME NEW p \in Droppers, DropPrivilege(p), UNCHANGED RT_PRIORITY
      PROVE  IInv'
  BY <1>4 DEF DropPrivilege, SchedOK, RealTimeResets, MachineOK, ClientOK,
              CallsOK, RequestAlwaysValid
<1>5. ASSUME NEW k \in HandleIds, DropHandle(k), UNCHANGED RT_PRIORITY
      PROVE  IInv'
  BY <1>5 DEF DropHandle, SchedOK, RealTimeResets, MachineOK, ClientOK,
              CallsOK, RequestAlwaysValid
<1> QED
  BY <1>1, <1>2, <1>3, <1>4, <1>5 DEF Environment, LinuxEnvironment

LEMMA StutterStep ==
  ASSUME IInv, UNCHANGED vars
  PROVE  IInv'
  BY DEF vars, IInv, SchedOK, RealTimeResets, MachineOK, ClientOK, CallsOK,
         RequestAlwaysValid

(* The inductive invariant holds of the specification. *)
THEOREM Inductive == Spec => []IInv
<1>1. Init => IInv
  BY InitIInv
<1>2. IInv /\ [Next]_vars => IInv'
  BY LibraryStep, EnvironmentStep, StutterStep DEF Next
<1> QED
  BY <1>1, <1>2, PTL DEF Spec

-----------------------------------------------------------------------------
(* What follows from it. *)

(* Type correctness of every variable. *)
THEOREM TypeCorrect == Spec => []TypeOK
<1>1. IInv => TypeOK
  <2> SUFFICES ASSUME IInv PROVE TypeOK
    OBVIOUS
  <2>1. LinuxTypeOK
    BY DEF IInv, SchedOK, MachineOK, ClientOK, GoodInfo, LinuxTypeOK
  <2>2. RT_PRIORITY \in [Procs -> 0..99]
    BY DEF IInv, CallsOK
  <2> QED
    BY <2>1, <2>2 DEF IInv, CallsOK, TypeOK
<1> QED
  BY <1>1, Inductive, PTL

(* A promotion never asks SCHED_FIFO for a priority outside 1..99, whatever
   clients pass to `set_rt_priority` and whenever they do. *)
THEOREM PriorityValid == Spec => []RequestAlwaysValid
<1>1. IInv => RequestAlwaysValid
  BY DEF IInv, CallsOK
<1> QED
  BY <1>1, Inductive, PTL

(* No thread is ever born real-time. *)
THEOREM NothingInherited == Spec => NoInheritedRealTime
<1> DEFINE Fresh(t) == t \notin alive /\ t \in alive' => ~ RealTime(sched'[t])
<1>1. ASSUME IInv, [Next]_vars, NEW t \in Tids, t \notin alive, t \in alive'
      PROVE  ~ RealTime(sched'[t])
  <2>1. alive' # alive
    BY <1>1
  <2>2. ASSUME NEW c \in Tids, Library(c)
        PROVE  alive' = alive
    BY <2>2 DEF Library, get_current_thread_info, set_rt_priority,
       PromoteCurrent, PromoteThread, Begin, LoadPriority, PromoteSet,
       DemoteCurrent, DemoteThread, set_real_time_hard_limit, vars, kernelVars
  <2>3. PICK p \in Tids, u \in Tids : Spawn(p, u)
    BY <1>1, <2>1, <2>2 DEF Next, Environment, LinuxEnvironment, SetRtprio,
       DropPrivilege, DropHandle, Exit, kernelVars, vars
  <2>4. u = t /\ sched'[t] = Inherited(sched[p])
    BY <1>1, <2>3 DEF Spawn, IInv, SchedOK
  <2> QED
    BY <1>1, <2>4, InheritedFacts DEF IInv, SchedOK, RealTimeResets
<1>2. IInv /\ [Next]_vars => [\A t \in Tids : Fresh(t)]_vars
  BY <1>1
<1> QED
  BY <1>2, Inductive, PTL DEF Spec, NoInheritedRealTime

(* A promoted thread can always be brought back: from its own process, with no
   privilege and no RLIMIT_RTPRIO left, no demotion to an ordinary level is
   refused. *)
THEOREM AlwaysDemotable == Spec => []DemotionNeverDenied
<1>1. ASSUME IInv, NEW i, GoodInfo(i)
      PROVE  Demotable(i)
  <2> SUFFICES ASSUME i.tid \in alive, proc[i.tid] = i.pid, ~ RealTime(i.saved),
                      NEW c \in alive, proc[c] = i.pid
               PROVE  Errno(c, i.tid, DemotedAttr(i.saved)) = 0
    BY DEF Demotable
  <2> DEFINE new == DemotedAttr(i.saved)
  <2>1. WellFormed(new) /\ ~ RealTime(new) /\ new.reset
    BY <1>1, InfoFacts, DemotedFacts
  <2> HIDE DEF new
  <2>2. Permitted(sched[i.tid], new, rtprio[proc[i.tid]])
    BY <2>1 DEF Permitted
  <2>3. Errno(c, i.tid, new) = 0
    BY <2>1, <2>2 DEF Errno
  <2> QED
    BY <2>3 DEF new
<1>2. IInv => DemotionNeverDenied
  BY <1>1 DEF IInv, ClientOK, DemotionNeverDenied
<1> QED
  BY <1>2, Inductive, PTL
-----------------------------------------------------------------------------
(***************************************************************************)
(* The second part: RtLinuxNative implements RtPriority when its clients   *)
(* use each thread from one place at a time.                               *)
(***************************************************************************)


(* The level a thread comes from: what every thread info of it has saved. *)
Origin(t) == IF before[t] = None THEN Level(sched[t]) ELSE before[t]

Faithful(i) == i.tid \in alive /\ Level(i.saved) = Origin(i.tid)

(* The same, of an info as it is now, in the next state. *)
StaysFaithful(i) ==
  /\ i.tid \in alive'
  /\ Level(i.saved) =
       IF before'[i.tid] = None THEN Level(sched'[i.tid]) ELSE before'[i.tid]

(* The inductive invariant of exclusive clients.  An info never goes stale: as
   long as the client may use it, it saves the level its thread comes from. *)
FaithfulInfos ==
  /\ \A i \in infos : Faithful(i)
  /\ \A k \in HandleIds : handles[k] # None => Faithful(handles[k].info)

FaithfulCalls ==
  \A c \in Tids : call[c].pc # "idle" =>
    /\ Faithful(call[c].info)
    /\ before[call[c].info.tid] = None
    /\ \A d \in Tids : call[d].pc # "idle" /\ call[d].info.tid = call[c].info.tid
                         => d = c

Promised ==
  \A t \in Tids : /\ RealTime(sched[t]) <=> before[t] # None
                  /\ before[t] # None => t \in alive /\ before[t] # "REALTIME"

EInv == FaithfulInfos /\ FaithfulCalls /\ Promised

-----------------------------------------------------------------------------

LEMMA LevelIs ==
  ASSUME NEW a \in Attrs
  PROVE  /\ Level(a) = "REALTIME" <=> RealTime(a)
         /\ Level(a) \in Levels
         /\ Level(a) # None
         /\ Level(DemotedAttr(a)) = Level(a)
<1>1. DemotedAttr(a).policy = a.policy
  BY DEF DemotedAttr, Attrs
<1> QED
  BY <1>1, LevelFacts, LinuxAssumption DEF Level, RealTime, Attrs, Policies, Levels

LEMMA PromotedIs ==
  ASSUME NEW p
  PROVE  RealTime(PromotedAttr(p)) /\ Level(PromotedAttr(p)) = "REALTIME"
  BY DEF PromotedAttr, RealTime, Level

(* Each backend call tells success from failure by the right test. *)
LEMMA FailedIs ==
  ASSUME NEW api, NEW c, NEW t, NEW new
  PROVE  Failed(api, Errno(c, t, new)) <=> Errno(c, t, new) # 0
<1>1. Errno(c, t, new) \in {0, 1, 3, 22}
  BY DEF Errno, ESRCH, EPERM, EINVAL
<1> QED
  BY <1>1 DEF Failed, PthreadFailed, SchedFailed, PthreadRc, SchedRc

LEMMA ErrnoAlive ==
  ASSUME NEW c, NEW t, NEW new, Errno(c, t, new) = 0
  PROVE  t \in alive
  BY DEF Errno, ESRCH

(* In a call, the info is not None: `Targeted` sees every call. *)
LEMMA TargetedIs ==
  ASSUME IInv, NEW t
  PROVE  Targeted(t) <=>
           \E c \in Tids : call[c].pc # "idle" /\ call[c].info.tid = t
<1>1. \A c \in Tids : call[c].pc # "idle" => call[c].info # None
  BY CallFacts, LinuxAssumption DEF IInv, GoodInfo
<1>2. \A c \in Tids : call[c].pc = "idle" => call[c].info = None
  BY DEF IInv, CallsOK, Calls, Idle
<1> QED
  BY <1>1, <1>2 DEF Targeted

-----------------------------------------------------------------------------

LEMMA InitEInv == Init => EInv
<1> SUFFICES ASSUME Init PROVE EInv
  OBVIOUS
<1>1. \A t \in Tids : ~ RealTime(sched[t])
  <2> TAKE t \in Tids
  <2> DEFINE p == IF t \in Batch THEN "BATCH" ELSE "OTHER"
  <2>1. sched[t] = [OrdinaryAttr EXCEPT !.policy = p]
    BY DEF Init, LinuxInit
  <2>2. sched[t].policy = p
    BY <2>1 DEF OrdinaryAttr
  <2> QED
    BY <2>2 DEF RealTime
<1>2. Promised
  BY <1>1 DEF Init, LinuxInit, Promised
<1>3. FaithfulInfos
  BY DEF Init, LinuxInit, FaithfulInfos
<1>4. FaithfulCalls
  BY DEF Init, LinuxInit, FaithfulCalls, Idle
<1> QED
  BY <1>2, <1>3, <1>4 DEF EInv
-----------------------------------------------------------------------------
(* The three ways a step touches a thread: not at all, by moving it between a
   level and the promise to come back to it, or by replacing it. *)

visible == [t \in Tids |-> Level(sched[t])]

Refines == Contract!Next \/ (visible' = visible /\ before' = before)

LEMMA Unmoved ==
  ASSUME sched' = sched, before' = before
  PROVE  Refines
  BY DEF Refines, visible

LEMMA FaithfulNext ==
  /\ FaithfulInfos' <=>
       /\ \A i \in infos' : StaysFaithful(i)
       /\ \A k \in HandleIds : handles'[k] # None => StaysFaithful(handles'[k].info)
  /\ FaithfulCalls' <=>
       \A c \in Tids : call'[c].pc # "idle" =>
         /\ StaysFaithful(call'[c].info)
         /\ before'[call'[c].info.tid] = None
         /\ \A d \in Tids :
              call'[d].pc # "idle" /\ call'[d].info.tid = call'[c].info.tid => d = c
  BY DEF FaithfulInfos, FaithfulCalls, Faithful, StaysFaithful, Origin

LEMMA FaithfulUnmoved ==
  ASSUME UNCHANGED << sched, before, alive >>, NEW i, Faithful(i)
  PROVE  StaysFaithful(i)
  BY DEF Faithful, StaysFaithful, Origin

(* The thread t moves, and its origin stays. *)
LEMMA FaithfulMoved ==
  ASSUME IInv, NEW t \in Tids, NEW a, NEW b, alive' = alive,
         sched' = [sched EXCEPT ![t] = a], before' = [before EXCEPT ![t] = b],
         (IF b = None THEN Level(a) ELSE b) = Origin(t),
         NEW i, Faithful(i)
  PROVE  StaysFaithful(i)
<1>1. i.tid \in Tids
  BY DEF Faithful, IInv, MachineOK
<1>2. CASE i.tid = t
  <2>1. sched'[t] = a /\ before'[t] = b
    BY DEF IInv, SchedOK, ClientOK
  <2>2. (IF before'[t] = None THEN Level(sched'[t]) ELSE before'[t]) = Origin(t)
    BY <2>1
  <2> QED
    BY <1>2, <2>2 DEF Faithful, StaysFaithful, Origin
<1>3. CASE i.tid # t
  <2>1. sched'[i.tid] = sched[i.tid] /\ before'[i.tid] = before[i.tid]
    BY <1>1, <1>3 DEF IInv, SchedOK, ClientOK
  <2> QED
    BY <2>1 DEF Faithful, StaysFaithful, Origin
<1> QED
  BY <1>2, <1>3

(* The thread t is replaced: nothing that names it is in use. *)
LEMMA FaithfulElsewhere ==
  ASSUME IInv, NEW t \in Tids, NEW a, NEW i, Faithful(i), i.tid # t,
         sched' = [sched EXCEPT ![t] = a],
         before' = [before EXCEPT ![t] = None],
         i.tid \in alive'
  PROVE  StaysFaithful(i)
<1>1. i.tid \in Tids
  BY DEF Faithful, IInv, MachineOK
<1>2. sched'[i.tid] = sched[i.tid] /\ before'[i.tid] = before[i.tid]
  BY <1>1 DEF IInv, SchedOK, ClientOK
<1> QED
  BY <1>2 DEF Faithful, StaysFaithful, Origin

LEMMA RestartRefines ==
  ASSUME IInv, NEW t \in Tids, NEW a \in Attrs, ~ RealTime(a),
         sched' = [sched EXCEPT ![t] = a], before' = [before EXCEPT ![t] = None]
  PROVE  Refines
<1>1. Level(a) \in Levels \ RealTimeLevels
  BY LevelIs DEF RealTimeLevels
<1>2. visible' = [visible EXCEPT ![t] = Level(a)]
  BY DEF visible, IInv, SchedOK
<1>3. Contract!Restart(t)
  BY <1>1, <1>2 DEF Contract!Restart, Contract!Ordinary, visible
<1> QED
  BY <1>3 DEF Refines, Contract!Next

-----------------------------------------------------------------------------
(* Promotions. *)

LEMMA BeginStep ==
  ASSUME IInv, EInv, NEW c \in Tids, NEW api, NEW i, GoodInfo(i), Faithful(i),
         Quiet(i.tid), Begin(c, api, i)
  PROVE  EInv' /\ Refines
<1> USE DEF Begin, kernelVars, clientVars
<1>1. Refines
  BY Unmoved
<1>2. FaithfulInfos'
  BY FaithfulUnmoved, FaithfulNext DEF EInv, FaithfulInfos
<1>3. Promised'
  BY DEF EInv, Promised
<1>4. FaithfulCalls'
  <2>1. call'[c].info = i /\ \A d \in Tids \ {c} : call'[d] = call[d]
    BY DEF IInv, CallsOK
  <2>2. \A d \in Tids : call[d].pc # "idle" => call[d].info.tid # i.tid
    BY TargetedIs DEF Quiet
  <2>3. before[i.tid] = None
    BY DEF Quiet
  <2>4. StaysFaithful(i)
    BY FaithfulUnmoved
  <2> SUFFICES ASSUME NEW d \in Tids, call'[d].pc # "idle"
               PROVE  /\ StaysFaithful(call'[d].info)
                      /\ before'[call'[d].info.tid] = None
                      /\ \A f \in Tids :
                           call'[f].pc # "idle" /\ call'[f].info.tid = call'[d].info.tid
                             => f = d
    BY FaithfulNext
  <2>5. CASE d = c
    BY <2>1, <2>2, <2>3, <2>4, <2>5
  <2>6. CASE d # c
    <3>1. StaysFaithful(call[d].info)
      BY <2>1, <2>6, FaithfulUnmoved DEF EInv, FaithfulCalls
    <3> QED
      BY <2>1, <2>2, <2>6, <3>1 DEF EInv, FaithfulCalls
  <2> QED
    BY <2>5, <2>6
<1> QED
  BY <1>1, <1>2, <1>3, <1>4 DEF EInv

(* The calls that remain in flight when c returns. *)
LEMMA ReturnFaithful ==
  ASSUME IInv, EInv, NEW c \in Tids, call' = [call EXCEPT ![c] = Idle],
         \A d \in Tids \ {c} : call[d].pc # "idle" =>
           StaysFaithful(call[d].info) /\ before'[call[d].info.tid] = None
  PROVE  FaithfulCalls'
<1>1. call'[c].pc = "idle" /\ \A d \in Tids \ {c} : call'[d] = call[d]
  BY DEF IInv, CallsOK, Idle
<1> QED
  BY <1>1, FaithfulNext DEF EInv, FaithfulCalls

LEMMA PromoteSetStep ==
  ASSUME Exclusive, IInv, EInv, NEW c \in Tids, PromoteSet(c)
  PROVE  EInv' /\ Refines
<1> DEFINE i == call[c].info
           t == i.tid
           new == PromotedAttr(call[c].prio)
           e == Errno(c, t, new)
<1>1. /\ call[c].pc = "set"
      /\ SetScheduler(t, new, e)
      /\ IF Failed(call[c].api, e)
         THEN UNCHANGED << handles, before >>
         ELSE ReturnHandle(c, i) /\ Remember(t, Level(sched[t]))
      /\ call' = [call EXCEPT ![c] = Idle]
      /\ UNCHANGED << alive, proc, privileged, rtprio, infos, RT_PRIORITY >>
  BY DEF PromoteSet
<1>2. /\ GoodInfo(i) /\ Faithful(i) /\ before[t] = None
      /\ \A d \in Tids \ {c} : call[d].pc # "idle" => call[d].info.tid # t
  BY <1>1, CallFacts DEF EInv, FaithfulCalls, IInv
<1>3. t \in Tids
  BY <1>2, InfoFacts
<1>4. RealTime(new) /\ Level(new) = "REALTIME"
  BY PromotedIs
<1>5. Failed(call[c].api, e) <=> e # 0
  BY FailedIs
<1> HIDE DEF i, t, new, e
<1>6. CASE e # 0
  <2>1. sched' = sched /\ before' = before /\ handles' = handles
    BY <1>1, <1>5, <1>6 DEF SetScheduler
  <2>2. FaithfulInfos' /\ Promised'
    BY <1>1, <2>1, FaithfulUnmoved, FaithfulNext DEF EInv, FaithfulInfos, Promised
  <2>3. FaithfulCalls'
    BY <1>1, <2>1, FaithfulUnmoved, ReturnFaithful DEF EInv, FaithfulCalls
  <2> QED
    BY <2>1, <2>2, <2>3, Unmoved DEF EInv
<1>7. CASE e = 0
  <2> DEFINE b == Level(sched[t])
  <2>1. b # None /\ b \in Levels /\ b # "REALTIME"
    BY <1>2, <1>3, LevelIs DEF IInv, SchedOK, EInv, Promised
  <2>2. b = Origin(t)
    BY <1>2 DEF Origin
  <2>3. /\ sched' = [sched EXCEPT ![t] = new]
        /\ before' = [before EXCEPT ![t] = b]
        /\ ReturnHandle(c, i)
    BY <1>1, <1>5, <1>7 DEF SetScheduler, Remember
  <2>4. visible' = [visible EXCEPT ![t] = "REALTIME"] /\ visible[t] = b
    BY <1>3, <1>4, <2>3 DEF visible, IInv, SchedOK
  <2> HIDE DEF b
  <2>5. \A j : Faithful(j) => StaysFaithful(j)
    BY <1>1, <1>3, <2>1, <2>2, <2>3, FaithfulMoved
  <2>6. FaithfulInfos'
    <3>1. PICK k \in HandleIds :
            handles' = [handles EXCEPT ![k] = [holder |-> proc[c], info |-> i]]
      BY <2>3 DEF ReturnHandle
    <3> QED
      BY <1>1, <1>2, <2>5, <3>1, FaithfulNext DEF EInv, FaithfulInfos, IInv, ClientOK
  <2>7. Promised'
    <3>1. t \in alive
      BY <1>2 DEF Faithful, t
    <3> QED
      BY <1>1, <1>3, <1>4, <2>1, <2>3, <3>1
         DEF EInv, Promised, IInv, SchedOK, ClientOK
  <2>8. FaithfulCalls'
    <3>1. ASSUME NEW d \in Tids \ {c}, call[d].pc # "idle"
          PROVE  StaysFaithful(call[d].info) /\ before'[call[d].info.tid] = None
      <4>1. Faithful(call[d].info) /\ before[call[d].info.tid] = None
        BY <3>1 DEF EInv, FaithfulCalls
      <4>2. call[d].info.tid \in Tids /\ call[d].info.tid # t
        BY <1>2, <3>1, <4>1 DEF Faithful, IInv, MachineOK
      <4> QED
        BY <2>3, <2>5, <4>1, <4>2 DEF IInv, ClientOK
    <3> QED
      BY <1>1, <3>1, ReturnFaithful
  <2>9. Contract!Promote(t)
    BY <1>2, <2>3, <2>4 DEF Contract!Promote, RealTimeLevels, visible
  <2> QED
    BY <1>3, <2>6, <2>7, <2>8, <2>9 DEF EInv, Refines, Contract!Next
<1> QED
  BY <1>6, <1>7

-----------------------------------------------------------------------------
(* Demotions. *)

LEMMA DemoteStep ==
  ASSUME Exclusive, IInv, EInv, NEW c, NEW api, NEW i, GoodInfo(i), Faithful(i),
         before[i.tid] # None, ~ Targeted(i.tid), Restore(c, i, api),
         UNCHANGED << alive, infos, call >>,
         \A k \in HandleIds : handles'[k] # None => handles'[k] = handles[k]
  PROVE  EInv' /\ Refines
<1> DEFINE t == i.tid
           new == DemotedAttr(i.saved)
           e == Errno(c, t, new)
<1>1. /\ SetScheduler(t, new, e)
      /\ IF Failed(api, e) THEN before' = before ELSE Remember(t, None)
  BY DEF Restore
<1>2. t \in Tids /\ i.saved \in Attrs
  BY InfoFacts
<1>3. Failed(api, e) <=> e # 0
  BY FailedIs
<1>4. /\ Level(new) = before[t]
      /\ before[t] \in Levels /\ before[t] # "REALTIME"
      /\ new \in Attrs /\ ~ RealTime(new)
  BY <1>2, LevelIs, DemotedFacts
     DEF Faithful, Origin, EInv, Promised, IInv, ClientOK
<1>5. \A d \in Tids : call[d].pc # "idle" => call[d].info.tid # t
  BY TargetedIs
<1> HIDE DEF t, new, e
<1>6. CASE e # 0
  <2>1. sched' = sched /\ before' = before
    BY <1>1, <1>3, <1>6 DEF SetScheduler
  <2>2. FaithfulInfos' /\ FaithfulCalls' /\ Promised'
    BY <2>1, FaithfulUnmoved, FaithfulNext
       DEF EInv, FaithfulInfos, FaithfulCalls, Promised
  <2> QED
    BY <2>1, <2>2, Unmoved DEF EInv
<1>7. CASE e = 0
  <2>1. /\ sched' = [sched EXCEPT ![t] = new]
        /\ before' = [before EXCEPT ![t] = None]
    BY <1>1, <1>3, <1>7 DEF SetScheduler, Remember
  <2>2. before[t] = Origin(t)
    BY DEF Origin, t
  <2>3. \A j : Faithful(j) => StaysFaithful(j)
    BY <1>2, <1>4, <2>1, <2>2, FaithfulMoved
  <2>4. FaithfulInfos'
    BY <2>3, FaithfulNext DEF EInv, FaithfulInfos
  <2>5. Promised'
    BY <1>2, <1>4, <2>1 DEF EInv, Promised, IInv, SchedOK, ClientOK
  <2>6. FaithfulCalls'
    <3>1. ASSUME NEW d \in Tids, call[d].pc # "idle"
          PROVE  StaysFaithful(call[d].info) /\ before'[call[d].info.tid] = None
      <4>1. Faithful(call[d].info) /\ before[call[d].info.tid] = None
        BY <3>1 DEF EInv, FaithfulCalls
      <4>2. call[d].info.tid \in Tids /\ call[d].info.tid # t
        BY <1>5, <3>1, <4>1 DEF Faithful, IInv, MachineOK
      <4> QED
        BY <2>1, <2>3, <4>1, <4>2 DEF IInv, ClientOK
    <3> QED
      BY <3>1, FaithfulNext DEF EInv, FaithfulCalls
  <2>7. visible' = [visible EXCEPT ![t] = before[t]]
    BY <1>2, <1>4, <2>1 DEF visible, IInv, SchedOK
  <2>8. Contract!Demote(t)
    BY <2>1, <2>7 DEF Contract!Demote, visible, t
  <2> QED
    BY <1>2, <2>4, <2>5, <2>6, <2>8 DEF EInv, Refines, Contract!Next
<1> QED
  BY <1>6, <1>7

-----------------------------------------------------------------------------
(* All steps. *)

(* A step that touches neither the threads nor what is held on them. *)
LEMMA OtherStep ==
  ASSUME IInv, EInv, UNCHANGED << sched, before, alive, call >>,
         \A i \in infos' : i \in infos \/ Faithful(i),
         \A k \in HandleIds : handles'[k] # None => handles'[k] = handles[k]
  PROVE  EInv' /\ Refines
<1>1. FaithfulInfos' /\ FaithfulCalls' /\ Promised'
  BY FaithfulUnmoved, FaithfulNext
     DEF EInv, FaithfulInfos, FaithfulCalls, Promised
<1> QED
  BY <1>1, Unmoved DEF EInv

LEMMA ExclusiveLibrary ==
  ASSUME Exclusive, IInv, EInv, NEW c \in Tids, Library(c)
  PROVE  EInv' /\ Refines
<1> USE DEF kernelVars, clientVars
<1>1. ASSUME CanCall(c), Quiet(c)
      PROVE  GoodInfo(InfoOf(c)) /\ Faithful(InfoOf(c)) /\ InfoOf(c).tid = c
  BY <1>1 DEF CanCall, Quiet, InfoOf, GoodInfo, Infos, Faithful, Origin,
              IInv, SchedOK, MachineOK
<1>2. CASE get_current_thread_info(c) /\ UNCHANGED RT_PRIORITY
  BY <1>1, <1>2, OtherStep DEF get_current_thread_info
<1>3. ASSUME NEW p \in Priorities \cup {None}, set_rt_priority(c, p)
      PROVE  EInv' /\ Refines
  BY <1>3, OtherStep DEF set_rt_priority
<1>4. CASE PromoteCurrent(c)
  BY <1>1, <1>4, BeginStep DEF PromoteCurrent
<1>5. ASSUME NEW i \in infos, PromoteThread(c, i)
      PROVE  EInv' /\ Refines
  BY <1>5, BeginStep DEF PromoteThread, IInv, ClientOK, EInv, FaithfulInfos
<1>6. CASE LoadPriority(c)
  <2>1. /\ call[c].pc # "idle"
        /\ UNCHANGED << sched, before, alive, infos, handles >>
    BY <1>6 DEF LoadPriority
  <2>2. \A d \in Tids : /\ call'[d].info = call[d].info
                        /\ call'[d].pc # "idle" => call[d].pc # "idle"
    BY <1>6 DEF LoadPriority, IInv, CallsOK
  <2>3. FaithfulInfos' /\ Promised'
    BY <2>1, FaithfulUnmoved, FaithfulNext DEF EInv, FaithfulInfos, Promised
  <2>4. FaithfulCalls'
    BY <2>1, <2>2, FaithfulUnmoved, FaithfulNext DEF EInv, FaithfulCalls
  <2> QED
    BY <2>1, <2>3, <2>4, Unmoved DEF EInv
<1>7. CASE PromoteSet(c)
  BY <1>7, PromoteSetStep
<1>8. ASSUME NEW k \in HandleIds, DemoteCurrent(c, k)
      PROVE  EInv' /\ Refines
  <2>1. /\ GoodInfo(handles[k].info) /\ Faithful(handles[k].info)
        /\ before[handles[k].info.tid] # None /\ ~ Targeted(handles[k].info.tid)
        /\ Restore(c, handles[k].info, "current")
        /\ UNCHANGED << alive, infos, call >>
    BY <1>8 DEF DemoteCurrent, IInv, ClientOK, EInv, FaithfulInfos
  <2>2. \A h \in HandleIds : handles'[h] # None => handles'[h] = handles[h]
    BY <1>8 DEF DemoteCurrent, IInv, ClientOK
  <2> QED
    BY <2>1, <2>2, DemoteStep
<1>9. ASSUME NEW i \in infos, DemoteThread(c, i)
      PROVE  EInv' /\ Refines
  <2>1. /\ GoodInfo(i) /\ Faithful(i) /\ before[i.tid] # None /\ ~ Targeted(i.tid)
        /\ Restore(c, i, "thread")
        /\ UNCHANGED << alive, infos, call, handles >>
    BY <1>9 DEF DemoteThread, IInv, ClientOK, EInv, FaithfulInfos
  <2> QED
    BY <2>1, DemoteStep
<1>10. CASE set_real_time_hard_limit(c)
  BY <1>10, OtherStep DEF set_real_time_hard_limit, vars
<1> QED
  BY <1>2, <1>3, <1>4, <1>5, <1>6, <1>7, <1>8, <1>9, <1>10 DEF Library

LEMMA ExclusiveEnvironment ==
  ASSUME Exclusive, IInv, EInv, Environment
  PROVE  EInv' /\ Refines
<1> USE DEF kernelVars, clientVars
<1>1. ASSUME NEW p \in Tids, NEW u \in Tids, Spawn(p, u)
      PROVE  EInv' /\ Refines
  <2> DEFINE a == Inherited(sched[p])
  <2>1. a \in Attrs /\ ~ RealTime(a)
    BY InheritedFacts DEF IInv, SchedOK, RealTimeResets
  <2> HIDE DEF a
  <2>2. before[u] = None /\ u \notin alive
    BY <1>1 DEF Spawn, EInv, Promised
  <2>3. /\ sched' = [sched EXCEPT ![u] = a]
        /\ before' = [before EXCEPT ![u] = None]
        /\ alive' = alive \cup {u}
        /\ UNCHANGED << infos, handles, call >>
    BY <1>1, <2>2 DEF Spawn, IInv, ClientOK, a
  <2>4. \A i : Faithful(i) => StaysFaithful(i)
    <3> TAKE i
    <3>1. Faithful(i) => i.tid # u /\ i.tid \in alive'
      BY <2>2, <2>3 DEF Faithful
    <3> QED
      BY <2>3, <3>1, FaithfulElsewhere
  <2>5. FaithfulInfos'
    BY <2>3, <2>4, FaithfulNext DEF EInv, FaithfulInfos
  <2>6. FaithfulCalls'
    BY <1>1, <2>3, <2>4, FaithfulNext DEF EInv, FaithfulCalls, Spawn
  <2>7. Promised'
    BY <2>1, <2>3 DEF EInv, Promised, IInv, SchedOK, ClientOK
  <2> QED
    BY <2>1, <2>3, <2>5, <2>6, <2>7, RestartRefines DEF EInv
<1>2. ASSUME NEW t \in Tids, Exit(t)
      PROVE  EInv' /\ Refines
  <2>1. /\ sched' = [sched EXCEPT ![t] = OrdinaryAttr]
        /\ before' = [before EXCEPT ![t] = None]
        /\ alive' = alive \ {t}
        /\ infos' = {i \in infos : i.tid # t}
        /\ \A k \in HandleIds : handles'[k] # None =>
             handles'[k] = handles[k] /\ handles[k].info.tid # t
        /\ call' = call
    BY <1>2 DEF Exit, Remember
  <2>2. \A d \in Tids : call[d].pc # "idle" => call[d].info.tid # t
    BY <1>2, TargetedIs DEF Exit
  <2>3. ASSUME NEW i, Faithful(i), i.tid # t
        PROVE  StaysFaithful(i)
    <3>1. i.tid \in alive'
      BY <2>1, <2>3 DEF Faithful
    <3> QED
      BY <2>1, <2>3, <3>1, FaithfulElsewhere
  <2>4. FaithfulInfos'
    BY <2>1, <2>3, FaithfulNext DEF EInv, FaithfulInfos
  <2>5. FaithfulCalls'
    <3>1. \A d \in Tids : call[d].pc # "idle" =>
            before'[call[d].info.tid] = None
      BY <2>1, <2>2 DEF EInv, FaithfulCalls, Faithful, IInv, MachineOK, ClientOK
    <3> QED
      BY <2>1, <2>2, <2>3, <3>1, FaithfulNext DEF EInv, FaithfulCalls
  <2>6. Promised'
    BY <2>1, OrdinaryFacts DEF EInv, Promised, IInv, SchedOK, ClientOK
  <2> QED
    BY <2>1, <2>4, <2>5, <2>6, OrdinaryFacts, RestartRefines DEF EInv
<1>3. ASSUME NEW p \in Procs, NEW n \in RtprioSet, SetRtprio(p, n)
      PROVE  EInv' /\ Refines
  BY <1>3, OtherStep DEF SetRtprio
<1>4. ASSUME NEW p \in Droppers, DropPrivilege(p)
      PROVE  EInv' /\ Refines
  BY <1>4, OtherStep DEF DropPrivilege
<1>5. ASSUME NEW k \in HandleIds, DropHandle(k)
      PROVE  EInv' /\ Refines
  <2>1. \A h \in HandleIds : handles'[h] # None => handles'[h] = handles[h]
    BY <1>5 DEF DropHandle, IInv, ClientOK
  <2> QED
    BY <1>5, <2>1, OtherStep DEF DropHandle
<1> QED
  BY <1>1, <1>2, <1>3, <1>4, <1>5 DEF Environment, LinuxEnvironment

LEMMA ExclusiveStep ==
  ASSUME Exclusive, IInv, EInv, [Next]_vars
  PROVE  EInv' /\ Refines
<1>1. CASE UNCHANGED vars
  BY <1>1, OtherStep DEF vars
<1> QED
  BY <1>1, ExclusiveLibrary, ExclusiveEnvironment DEF Next

(* With clients that use each thread from one place at a time, the backend
   implements the contract: a promotion that reports Ok has moved the thread to
   a real-time level, a demotion that reports Ok has moved it back to the level
   before, whatever reports an error has changed nothing, and no other step of
   any thread or of the environment changes the level of a running thread. *)
THEOREM NativeKeepsContract ==
  ASSUME Exclusive
  PROVE  Spec => KeepsContract
<1>1. Init => Contract!Init
  <2> SUFFICES ASSUME Init PROVE Contract!Init
    OBVIOUS
  <2>1. \A t \in Tids : Level(sched[t]) \in Levels \ RealTimeLevels
    BY InitIInv, InitEInv, LevelIs
       DEF IInv, SchedOK, EInv, Promised, RealTimeLevels, Init, LinuxInit
  <2> QED
    BY <2>1 DEF Contract!Init, Contract!Ordinary, Init, LinuxInit
<1>2. IInv /\ EInv /\ [Next]_vars => EInv' /\ [Contract!Next]_(Contract!vars)
  BY ExclusiveStep DEF Refines, visible, Contract!vars
<1>3. Init => EInv
  BY InitEInv
<1> QED
  BY <1>1, <1>2, <1>3, Inductive, PTL DEF Spec, KeepsContract, Contract!Spec

(* In particular a thread is real-time exactly while a promotion is in effect:
   without the privilege to come back to its level, or to be promoted at all, the
   client is told. *)
THEOREM NativeRealTime ==
  ASSUME Exclusive
  PROVE  Spec => []Contract!RealTimeIffPromised
<1>1. IInv /\ EInv => Contract!RealTimeIffPromised
  BY LevelIs DEF IInv, SchedOK, EInv, Promised, Contract!RealTimeIffPromised, RealTimeLevels
<1>2. IInv /\ EInv /\ [Next]_vars => EInv'
  BY ExclusiveStep
<1>3. Init => EInv
  BY InitEInv
<1> QED
  BY <1>1, <1>2, <1>3, Inductive, PTL DEF Spec
=============================================================================
