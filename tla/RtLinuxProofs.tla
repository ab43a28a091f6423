---------------------------- MODULE RtLinuxProofs ----------------------------
(***************************************************************************)
(* Theorems about RtLinux, for any set of threads, processes and limits,   *)
(* clients exclusive or racing, a daemon that is slow, refuses or answers  *)
(* late, and processes that lose D-Bus or their privilege at any moment.   *)
(***************************************************************************)
EXTENDS RtLinux, LinuxThreadsProofs

(* The inductive invariant.  The heart of it: once a call is past set_limits
   the limits of its process are within the daemon's, and nothing the library
   does takes them out of it again, because the limits a call is about to put
   back (between rollback_get and rollback_set) were read after that point.
   So limits R of a process are either as found or within the daemon's for
   good, and a real-time level, wherever it is recorded, vouches for the
   second. *)
Lowered(l) == l.cur <= MaxRtTime /\ l.max <= MaxRtTime

GoodInfo(R, i) ==
  /\ i \in Infos
  /\ WellFormed(i.saved)
  /\ RealTime(i.saved) => i.saved.reset /\ Lowered(R[i.pid])

(* A call x of a thread of process p. *)
GoodCall(R, x, p) ==
  /\ x \in Calls \cup {Idle}
  /\ x.info # None => GoodInfo(R, x.info)
  /\ x.pc = "get" => x.limits \in Limits
  /\ x.pc \in {"set", "rollback_set"} => x.limits \in Limits /\ Lowered(x.limits)
  /\ x.pc \in {"request", "wait", "rollback_get", "rollback_set"} =>
       x.info # None /\ Lowered(R[p])

SchedOK ==
  /\ sched \in [Tids -> Attrs]
  /\ \A t \in Tids : WellFormed(sched[t])
  /\ \A t \in Tids :
       RealTime(sched[t]) => sched[t].reset /\ Lowered(rttime[proc[t]])

MachineOK ==
  /\ alive \subseteq Tids
  /\ proc \in [Tids -> Procs]
  /\ privileged \subseteq Procs
  /\ rtprio \in [Procs -> 0..99]
  /\ offline \subseteq Procs
  /\ late \subseteq Tids \X Procs
  /\ misled \subseteq Tids

LimitsOK ==
  /\ rttime \in [Procs -> Limits]
  /\ \A p \in Procs : rttime[p].cur <= rttime[p].max

ClientOK ==
  /\ before \in [Tids -> Levels \cup {None}]
  /\ \A i \in infos : GoodInfo(rttime, i)
  /\ handles \in [HandleIds -> Handles \cup {None}]
  /\ \A k \in HandleIds : handles[k] # None => GoodInfo(rttime, handles[k].info)

CallsOK ==
  /\ call = [c \in Tids |-> call[c]]
  /\ \A c \in Tids : GoodCall(rttime, call[c], proc[c])
  /\ \A c \in Tids : call[c].pc # "idle" => c \in alive

IInv == SchedOK /\ MachineOK /\ LimitsOK /\ ClientOK /\ CallsOK

-----------------------------------------------------------------------------
(* Facts about the operators. *)

LEMMA IdleFacts ==
  ASSUME NEW R, NEW p
  PROVE  GoodCall(R, Idle, p)
  BY DEF GoodCall, Idle

LEMMA InfoFacts ==
  ASSUME NEW R, NEW i, GoodInfo(R, i)
  PROVE  i.tid \in Tids /\ i.pid \in Procs /\ i.saved \in Attrs
         /\ WellFormed(i.saved) /\ i # None
  BY LinuxAssumption DEF GoodInfo, Infos

LEMMA CallFacts ==
  ASSUME NEW R, NEW x, NEW p, GoodCall(R, x, p), x.pc # "idle"
  PROVE  x \in Calls
  BY DEF GoodCall, Idle

LEMMA RtkitAttrFacts ==
  RtkitAttr \in Attrs /\ RtkitAttr.reset /\ WellFormed(RtkitAttr)
  BY DEF RtkitAttr, RT_PRIO_DEFAULT, Attrs, Policies, WellFormed, RealTime

LEMMA DemotedFacts ==
  ASSUME NEW a \in Attrs
  PROVE  /\ DemotedThreadAttr(a) \in Attrs
         /\ DemotedThreadAttr(a).reset
         /\ WellFormed(DemotedThreadAttr(a)) <=> WellFormed(a)
         /\ RealTime(DemotedThreadAttr(a)) <=> RealTime(a)
<1>1. /\ DemotedThreadAttr(a) \in Attrs
      /\ DemotedThreadAttr(a).reset
      /\ DemotedThreadAttr(a).policy = a.policy
      /\ DemotedThreadAttr(a).priority = a.priority
  BY DEF DemotedThreadAttr, Attrs
<1> QED
  BY <1>1 DEF WellFormed, RealTime

(* A budget is a limit, and what is asked of the kernel for it is within the
   daemon's. *)
LEMMA BudgetFacts ==
  ASSUME NEW f \in Frames, NEW r \in Rates, r # 0
  PROVE  Budget(f, r) \in Nat
<1>1. f \in Nat /\ r \in Nat /\ r > 0
  BY RtkitAssumption
<1>2. r \div 20 \in Nat
  BY <1>1
<1>3. BufferFrames(f, r) \in Nat
  BY <1>1, <1>2 DEF BufferFrames
<1>4. BufferFrames(f, r) * USEC_PER_SEC \in Nat
  BY <1>3 DEF USEC_PER_SEC
<1>5. \A n \in Nat : n \div r \in Nat
  BY <1>1
<1> QED
  BY <1>4, <1>5 DEF Budget

LEMMA RequestedFacts ==
  ASSUME NEW b \in Nat
  PROVE  RequestedLimits(b) \in Limits /\ Lowered(RequestedLimits(b))
  BY RtkitAssumption DEF RequestedLimits, Limits, Lowered

(* Infos and calls stay good while no process leaves the daemon's limits. *)
LEMMA GoodStays ==
  ASSUME NEW R, NEW S, \A p \in Procs : Lowered(R[p]) => Lowered(S[p])
  PROVE  /\ \A i : GoodInfo(R, i) => GoodInfo(S, i)
         /\ \A x, p : GoodCall(R, x, p) /\ p \in Procs => GoodCall(S, x, p)
<1>1. \A i : GoodInfo(R, i) => GoodInfo(S, i)
  BY DEF GoodInfo, Infos
<1> QED
  BY <1>1 DEF GoodCall

-----------------------------------------------------------------------------
(* What keeps each part of the invariant. *)

Tighter == \A p \in Procs : Lowered(rttime[p]) => Lowered(rttime'[p])

LEMMA SchedKept ==
  ASSUME SchedOK, MachineOK, Tighter, UNCHANGED << proc, sched >>
  PROVE  SchedOK'
  BY DEF SchedOK, MachineOK, Tighter

LEMMA ClientKept ==
  ASSUME ClientOK, Tighter, UNCHANGED clientVars
  PROVE  ClientOK'
<1>1. \A i : GoodInfo(rttime, i) => GoodInfo(rttime', i)
  BY GoodStays DEF Tighter
<1> QED
  BY <1>1 DEF ClientOK, clientVars

(* The calls, when that of c becomes x. *)
LEMMA CallsMove ==
  ASSUME CallsOK, MachineOK, Tighter, UNCHANGED << alive, proc >>,
         NEW c \in Tids, NEW x, call' = [call EXCEPT ![c] = x],
         GoodCall(rttime', x, proc[c]), c \in alive
  PROVE  CallsOK'
<1>1. \A y, p : GoodCall(rttime, y, p) /\ p \in Procs => GoodCall(rttime', y, p)
  BY GoodStays DEF Tighter
<1> QED
  BY <1>1 DEF CallsOK, MachineOK

LEMMA CallsKept ==
  ASSUME CallsOK, MachineOK, Tighter, UNCHANGED << alive, proc, call >>
  PROVE  CallsOK'
<1>1. \A y, p : GoodCall(rttime, y, p) /\ p \in Procs => GoodCall(rttime', y, p)
  BY GoodStays DEF Tighter
<1> QED
  BY <1>1 DEF CallsOK, MachineOK

(* Asking the kernel for well-formed attributes, real-time ones only with the
   flag and in a process within the daemon's limits. *)
LEMMA SetSchedulerFacts ==
  ASSUME SchedOK, NEW t \in Tids, NEW e, NEW new \in Attrs, WellFormed(new),
         RealTime(new) => new.reset /\ Lowered(rttime[proc[t]]),
         SetScheduler(t, new, e), UNCHANGED << proc, rttime >>
  PROVE  SchedOK'
  BY DEF SchedOK, SetScheduler

-----------------------------------------------------------------------------

LEMMA InitIInv == Init => IInv
<1> SUFFICES ASSUME Init PROVE IInv
  OBVIOUS
<1>1. SchedOK
  BY StartFacts DEF Init, SchedOK
<1> USE LinuxAssumption, RtkitAssumption DEF Init, LinuxInit
<1>2. MachineOK
  BY DEF MachineOK
<1>3. LimitsOK
  BY DEF LimitsOK
<1>4. ClientOK
  BY DEF ClientOK
<1>5. CallsOK
  BY IdleFacts DEF CallsOK, Idle
<1> QED
  BY <1>1, <1>2, <1>3, <1>4, <1>5 DEF IInv

-----------------------------------------------------------------------------
(* Steps that only move the call of c on: it becomes x. *)

LEMMA CallOnly ==
  ASSUME IInv, NEW c \in alive, NEW x, GoodCall(rttime, x, proc[c]),
         call' = [call EXCEPT ![c] = x],
         UNCHANGED << kernelVars, clientVars, rttime, offline >>,
         late' \subseteq Tids \X Procs, misled' \subseteq Tids
  PROVE  IInv'
<1> USE DEF IInv
<1>1. UNCHANGED << alive, proc, sched, privileged, rtprio >> /\ UNCHANGED rttime
  BY DEF kernelVars
<1>2. Tighter
  BY <1>1 DEF Tighter
<1>3. SchedOK'
  BY <1>1, <1>2, SchedKept
<1>4. MachineOK'
  BY <1>1 DEF MachineOK
<1>5. LimitsOK'
  BY <1>1 DEF LimitsOK
<1>6. ClientOK'
  BY <1>2, ClientKept DEF clientVars
<1>7. CallsOK'
  <2>1. c \in Tids
    BY DEF MachineOK
  <2> QED
    BY <1>1, <1>2, <2>1, CallsMove
<1> QED
  BY <1>3, <1>4, <1>5, <1>6, <1>7

(* Steps that set the limits of the process of c to within the daemon's, or
   leave them alone. *)
LEMMA LimitsStep ==
  ASSUME IInv, NEW c \in alive, NEW l \in Limits, Lowered(l), l.cur <= l.max,
         rttime' = [rttime EXCEPT ![proc[c]] = l] \/ UNCHANGED rttime,
         NEW x, GoodCall(rttime', x, proc[c]), call' = [call EXCEPT ![c] = x],
         UNCHANGED << kernelVars, clientVars, offline, late, misled >>
  PROVE  IInv'
<1> USE DEF IInv
<1>1. UNCHANGED << alive, proc, sched, privileged, rtprio >>
  BY DEF kernelVars
<1>2. Tighter
  BY DEF Tighter, LimitsOK
<1>3. SchedOK'
  BY <1>1, <1>2, SchedKept
<1>4. MachineOK'
  BY <1>1 DEF MachineOK
<1>5. LimitsOK'
  BY DEF LimitsOK
<1>6. ClientOK'
  BY <1>2, ClientKept
<1>7. CallsOK'
  <2>1. c \in Tids
    BY DEF MachineOK
  <2> QED
    BY <1>1, <1>2, <2>1, CallsMove
<1> QED
  BY <1>3, <1>4, <1>5, <1>6, <1>7

(* Where the call of a thread stands. *)
LEMMA CallOf ==
  ASSUME IInv, NEW c \in Tids,
         call[c].pc \in {"get", "set", "request", "wait", "rollback_get", "rollback_set"}
  PROVE  /\ c \in alive
         /\ call[c] \in Calls
         /\ GoodCall(rttime, call[c], proc[c])
<1>1. call[c].pc # "idle"
  OBVIOUS
<1>2. c \in alive /\ GoodCall(rttime, call[c], proc[c])
  BY <1>1 DEF IInv, CallsOK
<1> QED
  BY <1>1, <1>2, CallFacts

LEMMA IdleStep ==
  ASSUME IInv, NEW c \in alive, Return(c),
         UNCHANGED << kernelVars, clientVars, rtkitVars >>
  PROVE  IInv'
  BY IdleFacts, CallOnly DEF Return, rtkitVars, IInv, MachineOK

(* Moving on within the library keeps a call good when the new place asks no
   more of it. *)
LEMMA GotoStep ==
  ASSUME IInv, NEW c \in Tids, NEW pc \in {"wait", "rollback_get"},
         call[c].pc \in {"request", "wait"}, Goto(c, pc),
         UNCHANGED << kernelVars, clientVars, rttime, offline >>,
         late' \subseteq Tids \X Procs, misled' \subseteq Tids
  PROVE  IInv'
<1> DEFINE x == [call[c] EXCEPT !.pc = pc]
<1>1. c \in alive /\ call[c] \in Calls /\ GoodCall(rttime, call[c], proc[c])
  BY CallOf
<1>2. /\ x \in Calls
      /\ x.pc = pc /\ x.info = call[c].info
  BY <1>1 DEF Calls
<1>3. GoodCall(rttime, x, proc[c])
  BY <1>1, <1>2 DEF GoodCall
<1>4. call' = [call EXCEPT ![c] = x]
  BY DEF Goto
<1> HIDE DEF x
<1> QED
  BY <1>1, <1>3, <1>4, CallOnly

-----------------------------------------------------------------------------
(* Steps of a thread inside the library. *)

LEMMA ContinueStep ==
  ASSUME IInv, NEW c \in Tids, Continue(c)
  PROVE  IInv'
<1>1. CASE GetLimits(c)
  <2> USE <1>1 DEF GetLimits
  <2>1. c \in alive /\ call[c] \in Calls /\ GoodCall(rttime, call[c], proc[c])
    BY CallOf
  <2>2. CASE Return(c)
    BY <2>1, <2>2, IdleStep
  <2>3. CASE ~ Return(c)
    <3> DEFINE l == RequestedLimits(call[c].limits.cur)
               x == [call[c] EXCEPT !.pc = "set", !.limits = l]
    <3>1. call[c].limits.cur \in Nat
      BY <2>1 DEF GoodCall, Limits
    <3>2. l \in Limits /\ Lowered(l)
      BY <3>1, RequestedFacts
    <3>3. call' = [call EXCEPT ![c] = x]
      BY <2>3
    <3> HIDE DEF l
    <3>4. x \in Calls /\ x.pc = "set" /\ x.limits = l /\ x.info = call[c].info
      BY <2>1, <3>2 DEF Calls
    <3>5. GoodCall(rttime, x, proc[c])
      BY <2>1, <3>2, <3>4 DEF GoodCall
    <3> HIDE DEF x
    <3> QED
      BY <2>1, <3>3, <3>5, CallOnly DEF rtkitVars, IInv, MachineOK
  <2> QED
    BY <2>2, <2>3
<1>2. CASE SetLimits(c)
  <2> USE <1>2 DEF SetLimits
  <2> DEFINE l == call[c].limits
  <2>1. c \in alive /\ call[c] \in Calls /\ GoodCall(rttime, call[c], proc[c])
    BY CallOf
  <2>2. l \in Limits /\ Lowered(l)
    BY <2>1 DEF GoodCall
  <2>3. CASE CanSetRlimit(proc[c], l) /\ call[c].info # None
    <3> DEFINE x == [call[c] EXCEPT !.pc = "request", !.limits = None]
    <3>1. rttime' = [rttime EXCEPT ![proc[c]] = l] /\ l.cur <= l.max
      BY <2>3 DEF CanSetRlimit
    <3>2. call' = [call EXCEPT ![c] = x]
      BY <2>3
    <3>3. x \in Calls /\ x.pc = "request" /\ x.info = call[c].info
      BY <2>1 DEF Calls
    <3>4. rttime'[proc[c]] = l
      BY <2>1, <3>1 DEF IInv, MachineOK, LimitsOK
    <3>5. \A p \in Procs : Lowered(rttime[p]) => Lowered(rttime'[p])
      BY <2>2, <3>1 DEF IInv, LimitsOK
    <3>6. GoodInfo(rttime', call[c].info)
      <4>1. GoodInfo(rttime, call[c].info)
        BY <2>1, <2>3 DEF GoodCall
      <4> HIDE DEF l
      <4> QED
        BY <4>1, <3>5, GoodStays
    <3>7. GoodCall(rttime', x, proc[c])
      BY <2>2, <2>3, <3>3, <3>4, <3>6 DEF GoodCall
    <3> HIDE DEF x, l
    <3> QED
      BY <2>1, <2>2, <3>1, <3>2, <3>7, LimitsStep
  <2>4. CASE CanSetRlimit(proc[c], l) /\ call[c].info = None
    <3>1. rttime' = [rttime EXCEPT ![proc[c]] = l] /\ l.cur <= l.max
      BY <2>4 DEF CanSetRlimit
    <3>2. call' = [call EXCEPT ![c] = Idle]
      BY <2>4 DEF Return
    <3> HIDE DEF l
    <3> QED
      BY <2>1, <2>2, <3>1, <3>2, IdleFacts, LimitsStep
  <2>5. CASE ~ CanSetRlimit(proc[c], l)
    <3>1. Return(c) /\ UNCHANGED rttime
      BY <2>5
    <3> QED
      BY <2>1, <3>1, IdleStep DEF rtkitVars
  <2> QED
    BY <2>3, <2>4, <2>5
<1>3. CASE Request(c)
  <2> USE <1>3 DEF Request
  <2>1. late' \subseteq Tids \X Procs /\ misled' \subseteq Tids
    BY DEF rtkitVars, IInv, MachineOK
  <2>2. Goto(c, "rollback_get") \/ Goto(c, "wait")
    OBVIOUS
  <2> QED
    BY <2>1, <2>2, GotoStep DEF rtkitVars
<1>4. CASE Answered(c)
  <2> DEFINE i == call[c].info
  <2>1. call[c].pc = "wait" /\ UNCHANGED << kernelVars, infos, rtkitVars >>
    BY <1>4 DEF Answered
  <2>2. c \in alive /\ call[c] \in Calls /\ GoodCall(rttime, call[c], proc[c])
    BY <2>1, CallOf
  <2>3. GoodInfo(rttime, i)
    BY <2>1, <2>2 DEF GoodCall
  <2>4. CASE Granted(call[c].answer)
    <3>1. /\ ReturnHandle(c, i)
          /\ Remember(i.tid, Level(i.saved))
          /\ call' = [call EXCEPT ![c] = Idle]
      BY <1>4, <2>4 DEF Answered, Return
    <3> HIDE DEF i
    <3>2. UNCHANGED << alive, proc, sched, privileged, rtprio, rttime, offline, late,
                     misled >>
      BY <2>1 DEF kernelVars, rtkitVars
    <3>3. Tighter
      BY <3>2 DEF Tighter
    <3>4. SchedOK' /\ MachineOK' /\ LimitsOK'
      BY <3>2, <3>3, SchedKept DEF IInv, MachineOK, LimitsOK
    <3>5. CallsOK'
      BY <2>2, <3>1, <3>2, <3>3, IdleFacts, CallsMove DEF IInv, MachineOK
    <3>6. before' \in [Tids -> Levels \cup {None}]
      BY <2>3, <3>1, InfoFacts, LevelFacts, RememberFacts DEF IInv, ClientOK
    <3> DEFINE h == [holder |-> proc[c], info |-> i]
    <3>7. h \in Handles /\ h.info = i
      BY <2>3 DEF Handles, GoodInfo, IInv, MachineOK
    <3>8. PICK k \in HandleIds : handles' = [handles EXCEPT ![k] = h]
      BY <3>1 DEF ReturnHandle
    <3> HIDE DEF h
    <3>9. ClientOK'
      BY <2>1, <2>3, <3>2, <3>6, <3>7, <3>8 DEF ClientOK, IInv
    <3> QED
      BY <3>4, <3>5, <3>9 DEF IInv
  <2>5. CASE ~ Granted(call[c].answer)
    <3>1. Goto(c, "rollback_get") /\ UNCHANGED << handles, before >>
      BY <1>4, <2>5 DEF Answered
    <3>2. UNCHANGED << clientVars, rttime, offline, late, misled >> /\ UNCHANGED kernelVars
      BY <2>1, <3>1 DEF clientVars, rtkitVars
    <3> QED
      BY <2>1, <3>1, <3>2, GotoStep DEF IInv, MachineOK
  <2> QED
    BY <2>4, <2>5
<1>5. CASE Timeout(c)
  <2> USE <1>5 DEF Timeout
  <2>1. GoodInfo(rttime, call[c].info)
    BY CallOf DEF GoodCall
  <2>2. late' \subseteq Tids \X Procs /\ misled' \subseteq Tids
    BY <2>1, InfoFacts DEF IInv, MachineOK, Mislead
  <2> QED
    BY <2>2, GotoStep
<1>6. CASE RollbackGet(c)
  <2> USE <1>6 DEF RollbackGet
  <2>1. c \in alive /\ call[c] \in Calls /\ GoodCall(rttime, call[c], proc[c])
    BY CallOf
  <2>2. CASE Return(c)
    BY <2>1, <2>2, IdleStep
  <2>3. CASE ~ Return(c)
    <3> DEFINE l == rttime[proc[c]]
               x == [call[c] EXCEPT !.pc = "rollback_set", !.limits = l]
    <3>1. l \in Limits
      BY <2>1 DEF IInv, MachineOK, LimitsOK
    <3>2. Lowered(l)
      BY <2>1 DEF GoodCall
    <3>3. call' = [call EXCEPT ![c] = x]
      BY <2>3 DEF RollbackLimits
    <3>4. x \in Calls /\ x.pc = "rollback_set" /\ x.limits = l /\ x.info = call[c].info
      BY <2>1, <3>1 DEF Calls
    <3>5. GoodCall(rttime, x, proc[c])
      BY <2>1, <3>1, <3>2, <3>4 DEF GoodCall
    <3> HIDE DEF x
    <3> QED
      BY <2>1, <3>3, <3>5, CallOnly DEF rtkitVars, IInv, MachineOK
  <2> QED
    BY <2>2, <2>3
<1>7. CASE RollbackSet(c)
  <2> USE <1>7 DEF RollbackSet
  <2> DEFINE l == call[c].limits
  <2>1. c \in alive /\ GoodCall(rttime, call[c], proc[c])
    BY CallOf
  <2>2. l \in Limits /\ Lowered(l)
    BY <2>1 DEF GoodCall
  <2>3. call' = [call EXCEPT ![c] = Idle]
    BY DEF Return
  <2>4. CASE CanSetRlimit(proc[c], l)
    <3>1. l.cur <= l.max
      BY <2>4 DEF CanSetRlimit
    <3>2. rttime' = [rttime EXCEPT ![proc[c]] = l] \/ UNCHANGED rttime
      OBVIOUS
    <3>3. UNCHANGED << kernelVars, clientVars, offline, late, misled >>
      OBVIOUS
    <3> HIDE DEF l
    <3> QED
      BY <2>1, <2>2, <2>3, <3>1, <3>2, <3>3, IdleFacts, LimitsStep
  <2>5. CASE ~ CanSetRlimit(proc[c], l)
    <3>1. UNCHANGED rttime
      BY <2>5
    <3> QED
      BY <2>1, <3>1, IdleStep DEF rtkitVars
  <2> QED
    BY <2>4, <2>5
<1> QED
  BY <1>1, <1>2, <1>3, <1>4, <1>5, <1>6, <1>7 DEF Continue

-----------------------------------------------------------------------------
(* Steps of a thread that calls the library. *)

LEMMA CaptureFacts ==
  ASSUME IInv, NEW c \in Tids
  PROVE  GoodInfo(rttime, InfoOf(c))
  BY DEF GoodInfo, InfoOf, Infos, IInv, SchedOK, MachineOK

LEMMA BeginStep ==
  ASSUME IInv, NEW c \in alive, NEW i, i = None \/ GoodInfo(rttime, i),
         NEW f \in Frames, NEW r \in Rates, r # 0, Begin(c, i, f, r)
  PROVE  IInv'
<1> DEFINE l == [cur |-> Budget(f, r), max |-> Infinity]
           x == [pc |-> "get", info |-> i, answer |-> None, limits |-> l]
<1>1. call' = [call EXCEPT ![c] = x]
      /\ UNCHANGED << kernelVars, clientVars, rtkitVars >>
  BY DEF Begin
<1>2. l \in Limits
  BY BudgetFacts, RtkitAssumption DEF Limits
<1> HIDE DEF l
<1>3. x \in Calls
  BY <1>2 DEF Calls, GoodInfo
<1>4. GoodCall(rttime, x, proc[c])
  BY <1>2, <1>3 DEF GoodCall
<1> HIDE DEF x
<1> QED
  BY <1>1, <1>4, CallOnly DEF rtkitVars, IInv, MachineOK

(* A demotion that asks for attributes `new`: well formed, and real-time only if
   the thread was when they were saved. *)
LEMMA RestoreStep ==
  ASSUME IInv, NEW c \in Tids, NEW t \in Tids, NEW new \in Attrs, WellFormed(new),
         RealTime(new) => new.reset /\ Lowered(rttime[proc[t]]),
         Restore(c, t, new), handles' = handles \/
           \E k \in HandleIds : handles' = [handles EXCEPT ![k] = None],
         UNCHANGED << alive, proc, privileged, rtprio, infos, call, rttime, offline,
                      late >>
  PROVE  IInv'
<1> USE DEF IInv
<1> DEFINE e == Errno(c, t, new)
<1>1. /\ SetScheduler(t, new, e) /\ (before' = before \/ Remember(t, None))
      /\ misled' \subseteq Tids
  BY DEF Restore, Report, Mislead, MachineOK
<1> HIDE DEF e
<1>2. SchedOK'
  BY <1>1, SetSchedulerFacts
<1>3. Tighter
  BY DEF Tighter
<1>4. MachineOK' /\ LimitsOK'
  BY <1>1 DEF MachineOK, LimitsOK
<1>5. CallsOK'
  BY <1>3, CallsKept
<1>6. before' \in [Tids -> Levels \cup {None}]
  BY <1>1, RememberFacts DEF ClientOK
<1>7. ClientOK'
  BY <1>6 DEF ClientOK
<1> QED
  BY <1>2, <1>4, <1>5, <1>7

LEMMA ClientStep ==
  ASSUME IInv, NEW c \in Tids, Client(c)
  PROVE  IInv'
<1>1. CASE get_current_thread_info(c) /\ UNCHANGED rtkitVars
  <2> USE <1>1 DEF get_current_thread_info
  <2>1. UNCHANGED << alive, proc, sched, privileged, rtprio, handles, before,
                     call, rttime, offline, late, misled >>
    BY DEF kernelVars, rtkitVars
  <2>2. Tighter
    BY <2>1 DEF Tighter
  <2>3. SchedOK' /\ MachineOK' /\ LimitsOK' /\ CallsOK'
    BY <2>1, <2>2, SchedKept, CallsKept DEF IInv, MachineOK, LimitsOK
  <2>4. ClientOK'
    BY <2>1, CaptureFacts DEF IInv, ClientOK
  <2> QED
    BY <2>3, <2>4 DEF IInv
<1>2. ASSUME NEW f \in Frames, NEW r \in Rates, set_real_time_hard_limit(c, f, r)
      PROVE  IInv'
  BY <1>2, BeginStep DEF set_real_time_hard_limit, CanCall
<1>3. ASSUME NEW f \in Frames, NEW r \in Rates, PromoteCurrent(c, f, r)
      PROVE  IInv'
  BY <1>3, CaptureFacts, BeginStep DEF PromoteCurrent, CanCall
<1>4. ASSUME NEW i \in infos, NEW f \in Frames, NEW r \in Rates,
             PromoteThread(c, i, f, r)
      PROVE  IInv'
  <2>1. GoodInfo(rttime, i)
    BY DEF IInv, ClientOK
  <2> QED
    BY <1>4, <2>1, BeginStep DEF PromoteThread, CanCall
<1>5. ASSUME NEW k \in HandleIds, DemoteCurrent(c, k)
      PROVE  IInv'
  <2> DEFINE i == handles[k].info
             new == DemotedCurrentAttr(i.saved)
  <2>1. /\ i.tid = c /\ i.pid = proc[c] /\ handles[k] # None
        /\ Restore(c, c, new)
        /\ handles' = [handles EXCEPT ![k] = None]
        /\ UNCHANGED << alive, proc, privileged, rtprio, infos, call, rttime,
                        offline, late >>
    BY <1>5 DEF DemoteCurrent
  <2>2. GoodInfo(rttime, i)
    BY <2>1 DEF IInv, ClientOK
  <2>3. /\ new \in Attrs /\ WellFormed(new)
        /\ RealTime(new) => new.reset /\ Lowered(rttime[proc[c]])
    BY <2>1, <2>2, InfoFacts DEF GoodInfo, DemotedCurrentAttr
  <2> HIDE DEF new, i
  <2> QED
    BY <2>1, <2>3, RestoreStep
<1>6. ASSUME NEW i \in infos, DemoteThread(c, i)
      PROVE  IInv'
  <2> DEFINE new == DemotedThreadAttr(i.saved)
  <2>1. /\ i.tid \in alive /\ proc[i.tid] = i.pid
        /\ Restore(c, i.tid, new)
        /\ UNCHANGED << alive, proc, privileged, rtprio, infos, handles, call,
                        rttime, offline, late >>
    BY <1>6 DEF DemoteThread
  <2>2. GoodInfo(rttime, i)
    BY DEF IInv, ClientOK
  <2>3. /\ new \in Attrs /\ WellFormed(new)
        /\ RealTime(new) => new.reset /\ Lowered(rttime[proc[i.tid]])
    BY <2>1, <2>2, InfoFacts, DemotedFacts DEF GoodInfo
  <2> HIDE DEF new
  <2> QED
    BY <2>1, <2>2, <2>3, InfoFacts, RestoreStep
<1> QED
  BY <1>1, <1>2, <1>3, <1>4, <1>5, <1>6 DEF Client

-----------------------------------------------------------------------------
(* Steps of the daemon. *)

(* Whatever the daemon accepts, it accepts within its own limits. *)
LEMMA AcceptStep ==
  ASSUME SchedOK, MachineOK, LimitsOK, NEW t \in Tids, NEW p \in Procs,
         RtkitAccepts(t, p), sched' = [sched EXCEPT ![t] = RtkitAttr],
         UNCHANGED << proc, rttime >>
  PROVE  SchedOK'
<1>1. Lowered(rttime[proc[t]])
  BY RtkitAssumption DEF RtkitAccepts, LimitsOK, Limits, Lowered
<1> QED
  BY <1>1, RtkitAttrFacts DEF SchedOK

LEMMA DaemonStep ==
  ASSUME IInv,
         \/ \E c \in Tids : RtkitAnswer(c)
         \/ \E t \in Tids, p \in Procs : RtkitLate(t, p)
  PROVE  IInv'
<1> USE DEF IInv
<1>1. ASSUME NEW c \in Tids, RtkitAnswer(c)
      PROVE  IInv'
  <2> DEFINE i == call[c].info
  <2>1. call[c].pc = "wait"
        /\ UNCHANGED << alive, proc, privileged, rtprio, clientVars, rtkitVars >>
    BY <1>1 DEF RtkitAnswer
  <2>2. c \in alive /\ call[c] \in Calls /\ GoodCall(rttime, call[c], proc[c])
    BY <2>1, CallOf
  <2>3. GoodInfo(rttime, i)
    BY <2>1, <2>2 DEF GoodCall
  <2>4. PICK a \in {"granted", "refused"} : call' = [call EXCEPT ![c].answer = a]
    BY <1>1 DEF RtkitAnswer
  <2> DEFINE x == [call[c] EXCEPT !.answer = a]
  <2>5. /\ x \in Calls /\ x.pc = call[c].pc
        /\ x.info = call[c].info /\ x.limits = call[c].limits
    BY <2>2 DEF Calls
  <2>6. call' = [call EXCEPT ![c] = x]
    BY <2>4
  <2>7. GoodCall(rttime, x, proc[c])
    BY <2>2, <2>5 DEF GoodCall
  <2> HIDE DEF x
  <2>8. UNCHANGED rttime /\ Tighter
    BY <2>1 DEF rtkitVars, Tighter
  <2>9. SchedOK'
    <3>1. CASE RtkitAccepts(i.tid, i.pid) /\ sched' = [sched EXCEPT ![i.tid] = RtkitAttr]
      <4> HIDE DEF i
      <4> QED
        BY <2>1, <2>3, <2>8, <3>1, InfoFacts, AcceptStep
    <3>2. CASE UNCHANGED sched
      BY <2>1, <2>8, <3>2, SchedKept
    <3> QED
      BY <1>1, <3>1, <3>2 DEF RtkitAnswer
  <2>10. MachineOK' /\ LimitsOK' /\ ClientOK'
    BY <2>1, <2>8, ClientKept DEF MachineOK, LimitsOK, rtkitVars
  <2>11. CallsOK'
    BY <2>1, <2>2, <2>6, <2>7, <2>8, CallsMove
  <2> QED
    BY <2>9, <2>10, <2>11
<1>2. ASSUME NEW t \in Tids, NEW p \in Procs, RtkitLate(t, p)
      PROVE  IInv'
  <2>1. /\ late' \subseteq late /\ misled' \subseteq Tids
        /\ \/ RtkitAccepts(t, p) /\ sched' = [sched EXCEPT ![t] = RtkitAttr]
           \/ UNCHANGED sched
        /\ UNCHANGED << alive, proc, privileged, rtprio, clientVars, call, rttime,
                        offline >>
    BY <1>2 DEF RtkitLate, Mislead, MachineOK
  <2>2. Tighter
    BY <2>1 DEF Tighter
  <2>3. SchedOK'
    BY <2>1, <2>2, SchedKept, AcceptStep
  <2>4. MachineOK' /\ LimitsOK' /\ ClientOK' /\ CallsOK'
    BY <2>1, <2>2, ClientKept, CallsKept DEF MachineOK, LimitsOK
  <2> QED
    BY <2>3, <2>4
<1> QED
  BY <1>1, <1>2

-----------------------------------------------------------------------------
(* Steps of the kernel and of the client, outside the library. *)

LEMMA MachineStep ==
  ASSUME IInv, LinuxEnvironment, misled' = misled \cap alive',
         UNCHANGED << rttime, offline, late >>
  PROVE  IInv'
<1> USE DEF IInv, kernelVars, clientVars
<1>0. misled' \subseteq Tids /\ Tighter
  BY DEF MachineOK, Tighter
<1>1. ASSUME NEW t \in Tids, NEW u \in Tids, Spawn(t, u)
      PROVE  IInv'
  <2> USE <1>0, <1>1 DEF Spawn
  <2>1. ~ RealTime(Inherited(sched[t])) /\ WellFormed(Inherited(sched[t]))
        /\ Inherited(sched[t]) \in Attrs
    BY InheritedFacts DEF SchedOK
  <2>2. SchedOK'
    BY <2>1 DEF SchedOK, MachineOK
  <2>3. MachineOK' /\ LimitsOK' /\ ClientOK'
    BY ClientKept DEF MachineOK, LimitsOK
  <2>4. call[u].pc = "idle"
    BY DEF CallsOK
  <2>5. GoodCall(rttime, call[u], proc[t])
    BY <2>4 DEF CallsOK, GoodCall
  <2>6. CallsOK'
    BY <2>5 DEF CallsOK, MachineOK
  <2> QED
    BY <2>2, <2>3, <2>6
<1>2. ASSUME NEW t \in Tids, Exit(t)
      PROVE  IInv'
  <2> USE <1>0, <1>2 DEF Exit
  <2>1. SchedOK'
    BY OrdinaryFacts DEF SchedOK
  <2>2. MachineOK' /\ LimitsOK'
    BY DEF MachineOK, LimitsOK
  <2>3. CallsOK'
    BY DEF CallsOK, CanCall, InFlight
  <2>4. before' \in [Tids -> Levels \cup {None}]
    BY RememberFacts DEF ClientOK
  <2>5. ClientOK'
    BY <2>4 DEF ClientOK
  <2> QED
    BY <2>1, <2>2, <2>3, <2>5
<1>3. ASSUME NEW p \in Procs, NEW n \in RtprioSet, SetRtprio(p, n)
      PROVE  IInv'
  BY <1>0, <1>3, LinuxAssumption, SchedKept, ClientKept, CallsKept
     DEF SetRtprio, MachineOK, LimitsOK
<1>4. ASSUME NEW p \in Droppers, DropPrivilege(p)
      PROVE  IInv'
  BY <1>0, <1>4, SchedKept, ClientKept, CallsKept
     DEF DropPrivilege, MachineOK, LimitsOK
<1> QED
  BY <1>1, <1>2, <1>3, <1>4 DEF LinuxEnvironment

LEMMA EnvironmentStep ==
  ASSUME IInv, Environment
  PROVE  IInv'
<1> USE DEF IInv, kernelVars, clientVars
<1>1. ASSUME NEW k \in HandleIds, DropHandle(k), UNCHANGED rtkitVars
      PROVE  IInv'
  <2>1. /\ UNCHANGED << alive, proc, sched, privileged, rtprio, infos, before,
                        call, rttime, offline, late, misled >>
        /\ handles' = [handles EXCEPT ![k] = None]
    BY <1>1 DEF DropHandle, rtkitVars
  <2>2. Tighter
    BY <2>1 DEF Tighter
  <2>3. SchedOK' /\ MachineOK' /\ LimitsOK' /\ CallsOK'
    BY <2>1, <2>2, SchedKept, CallsKept DEF MachineOK, LimitsOK
  <2>4. ClientOK'
    BY <2>1 DEF ClientOK
  <2> QED
    BY <2>3, <2>4
<1>2. ASSUME NEW p \in Sandboxed, Lockdown(p)
      PROVE  IInv'
  <2>1. /\ UNCHANGED << alive, proc, sched, privileged, rtprio, call, rttime, late,
                        misled >>
        /\ UNCHANGED clientVars
        /\ offline' = offline \cup {p} /\ p \in Procs
    BY <1>2, RtkitAssumption DEF Lockdown
  <2>2. Tighter
    BY <2>1 DEF Tighter
  <2> QED
    BY <2>1, <2>2, SchedKept, ClientKept, CallsKept DEF MachineOK, LimitsOK
<1> QED
  BY <1>1, <1>2, MachineStep, DaemonStep DEF Environment

LEMMA StutterStep ==
  ASSUME IInv, UNCHANGED vars
  PROVE  IInv'
<1>1. UNCHANGED << alive, proc, sched, privileged, rtprio, call, rttime, offline,
                   late, misled >> /\ UNCHANGED clientVars
  BY DEF vars, clientVars
<1>2. Tighter
  BY <1>1 DEF Tighter
<1> QED
  BY <1>1, <1>2, SchedKept, ClientKept, CallsKept
     DEF IInv, MachineOK, LimitsOK

(* The inductive invariant holds of the specification. *)
THEOREM Inductive == Spec => []IInv
<1>1. Init => IInv
  BY InitIInv
<1>2. IInv /\ [Next]_vars => IInv'
  BY ClientStep, ContinueStep, EnvironmentStep, StutterStep DEF Next
<1> QED
  BY <1>1, <1>2, PTL DEF Spec

-----------------------------------------------------------------------------
(* What follows from it. *)

(* Type correctness of every variable. *)
THEOREM TypeCorrect == Spec => []TypeOK
<1>1. IInv => TypeOK
  <2> SUFFICES ASSUME IInv PROVE TypeOK
    OBVIOUS
  <2>1. LinuxTypeOK
    BY DEF IInv, SchedOK, MachineOK, ClientOK, GoodInfo, LinuxTypeOK
  <2>2. \A c \in Tids : call[c] \in Calls \cup {Idle}
    BY DEF IInv, CallsOK, GoodCall
  <2>3. call \in [Tids -> Calls \cup {Idle}]
    BY <2>2 DEF IInv, CallsOK
  <2> QED
    BY <2>1, <2>3 DEF IInv, MachineOK, LimitsOK, TypeOK
<1> QED
  BY <1>1, Inductive, PTL

(* A process with a real-time thread is within the daemon's limits, whatever its
   other threads promote, fail to promote or put back, and however late the
   daemon acts. *)
THEOREM RealTimeBounded == Spec => []BoundedRealTime
<1>1. IInv => BoundedRealTime
  BY DEF IInv, SchedOK, MachineOK, Lowered, BoundedRealTime
<1> QED
  BY <1>1, Inductive, PTL

(* Within the process of the thread, the kernel never refuses
   demote_thread_from_real_time an ordinary level. *)
THEOREM SandboxDemotes == Spec => []SandboxedCanDemote
<1>1. ASSUME IInv, NEW i, GoodInfo(rttime, i), i.tid \in alive,
             proc[i.tid] = i.pid, ~ RealTime(i.saved),
             NEW c \in alive, proc[c] = i.pid
      PROVE  Errno(c, i.tid, DemotedThreadAttr(i.saved)) = 0
  <2> DEFINE new == DemotedThreadAttr(i.saved)
  <2>1. WellFormed(new) /\ ~ RealTime(new) /\ new.reset
    BY <1>1, InfoFacts, DemotedFacts
  <2> HIDE DEF new
  <2>2. Permitted(sched[i.tid], new, rtprio[proc[i.tid]])
    BY <2>1 DEF Permitted
  <2>3. Errno(c, i.tid, new) = 0
    BY <1>1, <2>1, <2>2 DEF Errno
  <2> QED
    BY <2>3 DEF new
<1>2. IInv => SandboxedCanDemote
  BY <1>1 DEF IInv, ClientOK, SandboxedCanDemote
<1> QED
  BY <1>2, Inductive, PTL

(* No thread is ever born real-time. *)
THEOREM NothingInherited == Spec => NoInheritedRealTime
<1> DEFINE Fresh(t) == t \notin alive /\ t \in alive' => ~ RealTime(sched'[t])
<1>1. ASSUME IInv, [Next]_vars, NEW t \in Tids, t \notin alive, t \in alive'
      PROVE  ~ RealTime(sched'[t])
  <2>1. alive' # alive
    BY <1>1
  <2>2. ASSUME NEW c \in Tids, Client(c) \/ Continue(c)
        PROVE  alive' = alive
    <3>1. ASSUME Client(c) PROVE alive' = alive
      BY <3>1 DEF Client, get_current_thread_info, set_real_time_hard_limit,
         PromoteCurrent, PromoteThread, Begin, DemoteCurrent, DemoteThread,
         kernelVars
    <3>2. ASSUME Continue(c) PROVE alive' = alive
      BY <3>2 DEF Continue, GetLimits, SetLimits, Request, Answered, Timeout,
         RollbackGet, RollbackSet, kernelVars
    <3> QED
      BY <2>2, <3>1, <3>2
  <2>3. PICK p \in Tids, u \in Tids : Spawn(p, u)
    BY <1>1, <2>1, <2>2 DEF Next, Environment, LinuxEnvironment, SetRtprio,
       DropPrivilege, DropHandle, Exit, RtkitAnswer, RtkitLate, Lockdown,
       kernelVars, vars
  <2>4. u = t /\ sched'[t] = Inherited(sched[p])
    BY <1>1, <2>3 DEF Spawn, IInv, SchedOK
  <2> QED
    BY <1>1, <2>4, InheritedFacts DEF IInv, SchedOK
<1>2. IInv /\ [Next]_vars => [\A t \in Tids : Fresh(t)]_vars
  BY <1>1
<1> QED
  BY <1>2, Inductive, PTL DEF Spec, NoInheritedRealTime

(* The steps left to a call go by where it is, whichever state. *)
LEMMA Steps ==
  ASSUME NEW c \in Tids
  PROVE  /\ call[c].pc = "get" => StepsLeft(c) = 6
         /\ call[c].pc = "set" => StepsLeft(c) = 5
         /\ call[c].pc = "request" => StepsLeft(c) = 4
         /\ call[c].pc = "wait" => StepsLeft(c) = 3
         /\ call[c].pc = "rollback_get" => StepsLeft(c) = 2
         /\ call[c].pc = "rollback_set" => StepsLeft(c) = 1
         /\ call[c].pc = "idle" => StepsLeft(c) = 0
  BY DEF StepsLeft

LEMMA StepsNext ==
  ASSUME NEW c \in Tids
  PROVE  /\ call'[c].pc = "set" => StepsLeft(c)' = 5
         /\ call'[c].pc = "request" => StepsLeft(c)' = 4
         /\ call'[c].pc = "wait" => StepsLeft(c)' = 3
         /\ call'[c].pc = "rollback_get" => StepsLeft(c)' = 2
         /\ call'[c].pc = "rollback_set" => StepsLeft(c)' = 1
         /\ call'[c].pc = "idle" => StepsLeft(c)' = 0
  BY DEF StepsLeft

(* What moving on and returning do to the call of c. *)
LEMMA Moved ==
  ASSUME CallsOK, NEW c \in Tids, NEW x, call' = [call EXCEPT ![c] = x]
  PROVE  call'[c] = x /\ \A d \in Tids \ {c} : call'[d] = call[d]
  BY DEF CallsOK

LEMMA Goes ==
  ASSUME IInv, NEW c \in Tids, NEW pc, Goto(c, pc),
         call[c].pc \in {"request", "wait"}
  PROVE  call'[c].pc = pc /\ \A d \in Tids \ {c} : call'[d] = call[d]
<1> DEFINE x == [call[c] EXCEPT !.pc = pc]
<1>1. call[c] \in Calls
  BY CallOf
<1>2. x.pc = pc
  BY <1>1 DEF Calls
<1>3. call' = [call EXCEPT ![c] = x]
  BY DEF Goto
<1>4. CallsOK
  BY DEF IInv
<1> HIDE DEF x
<1> QED
  BY <1>2, <1>3, <1>4, Moved

LEMMA Returns ==
  ASSUME IInv, NEW c \in Tids, Return(c)
  PROVE  call'[c].pc = "idle" /\ \A d \in Tids \ {c} : call'[d] = call[d]
<1>1. CallsOK
  BY DEF IInv
<1>2. call' = [call EXCEPT ![c] = Idle]
  BY DEF Return
<1>3. call'[c] = Idle /\ \A d \in Tids \ {c} : call'[d] = call[d]
  BY <1>1, <1>2, Moved
<1> QED
  BY <1>3 DEF Idle

(* A step inside the library takes its own call nearer to its end, and leaves
   the others where they are. *)
LEMMA StepForward ==
  ASSUME IInv, NEW c \in Tids, Continue(c)
  PROVE  /\ \A d \in Tids \ {c} : call'[d] = call[d]
         /\ StepsLeft(c)' < StepsLeft(c)
<1>1. CASE GetLimits(c)
  <2>1. CASE Return(c)
    BY <1>1, <2>1, Returns, Steps, StepsNext DEF GetLimits
  <2>2. CASE ~ Return(c)
    <3> DEFINE x == [call[c] EXCEPT !.pc = "set", !.limits = RequestedLimits(call[c].limits.cur)]
    <3>1. call' = [call EXCEPT ![c] = x]
      BY <1>1, <2>2 DEF GetLimits
    <3>2. x.pc = "set"
      BY <1>1, CallOf DEF GetLimits, Calls
    <3>3. CallsOK
      BY DEF IInv
    <3> HIDE DEF x
    <3>4. call'[c].pc = "set" /\ \A d \in Tids \ {c} : call'[d] = call[d]
      BY <3>1, <3>2, <3>3, Moved
    <3> QED
      BY <1>1, <3>4, Steps, StepsNext DEF GetLimits
  <2> QED
    BY <2>1, <2>2
<1>2. CASE SetLimits(c)
  <2>1. CASE Return(c)
    BY <1>2, <2>1, Returns, Steps, StepsNext DEF SetLimits
  <2>2. CASE ~ Return(c)
    <3> DEFINE x == [call[c] EXCEPT !.pc = "request", !.limits = None]
    <3>1. call' = [call EXCEPT ![c] = x]
      BY <1>2, <2>2 DEF SetLimits
    <3>2. x.pc = "request"
      BY <1>2, CallOf DEF SetLimits, Calls
    <3>3. CallsOK
      BY DEF IInv
    <3> HIDE DEF x
    <3>4. call'[c].pc = "request" /\ \A d \in Tids \ {c} : call'[d] = call[d]
      BY <3>1, <3>2, <3>3, Moved
    <3> QED
      BY <1>2, <3>4, Steps, StepsNext DEF SetLimits
  <2> QED
    BY <2>1, <2>2
<1>3. CASE Request(c)
  BY <1>3, Goes, Steps, StepsNext DEF Request
<1>4. CASE Answered(c)
  BY <1>4, Goes, Returns, Steps, StepsNext DEF Answered
<1>5. CASE Timeout(c)
  BY <1>5, Goes, Steps, StepsNext DEF Timeout
<1>6. CASE RollbackGet(c)
  <2>1. CASE Return(c)
    BY <1>6, <2>1, Returns, Steps, StepsNext DEF RollbackGet
  <2>2. CASE ~ Return(c)
    <3> DEFINE x == [call[c] EXCEPT !.pc = "rollback_set", !.limits = RollbackLimits(proc[c])]
    <3>1. call' = [call EXCEPT ![c] = x]
      BY <1>6, <2>2 DEF RollbackGet
    <3>2. x.pc = "rollback_set"
      BY <1>6, CallOf DEF RollbackGet, Calls
    <3>3. CallsOK
      BY DEF IInv
    <3> HIDE DEF x
    <3>4. call'[c].pc = "rollback_set" /\ \A d \in Tids \ {c} : call'[d] = call[d]
      BY <3>1, <3>2, <3>3, Moved
    <3> QED
      BY <1>6, <3>4, Steps, StepsNext DEF RollbackGet
  <2> QED
    BY <2>1, <2>2
<1>7. CASE RollbackSet(c)
  BY <1>7, Returns, Steps, StepsNext DEF RollbackSet
<1> QED
  BY <1>1, <1>2, <1>3, <1>4, <1>5, <1>6, <1>7 DEF Continue

(* No call goes round, and none is set back by another, by the bus or by the
   daemon: what CallsReturn needs of the code besides fairness. *)
THEOREM CallsOnlyAdvance == Spec => NothingSetBack
<1> DEFINE Advance(c) ==
      InFlight(c) /\ call'[c].pc # call[c].pc => StepsLeft(c)' < StepsLeft(c)
<1>1. ASSUME IInv, [Next]_vars, NEW c \in Tids, InFlight(c), call'[c].pc # call[c].pc
      PROVE  StepsLeft(c)' < StepsLeft(c)
  <2>1. ASSUME NEW d \in Tids, Continue(d)
        PROVE  StepsLeft(c)' < StepsLeft(c)
    BY <1>1, <2>1, StepForward
  <2>2. ASSUME NEW d \in Tids, Client(d)
        PROVE  FALSE
    <3>1. CanCall(d)
      BY <2>2 DEF Client, get_current_thread_info, set_real_time_hard_limit,
         PromoteCurrent, PromoteThread, DemoteCurrent, DemoteThread
    <3>2. call' = call \/ \E x : call' = [call EXCEPT ![d] = x]
      BY <2>2 DEF Client, get_current_thread_info, set_real_time_hard_limit,
         PromoteCurrent, PromoteThread, Begin, DemoteCurrent, DemoteThread
    <3>3. d # c
      BY <1>1, <3>1 DEF CanCall
    <3> QED
      BY <1>1, <3>2, <3>3, Moved DEF IInv
  <2>3. ASSUME Environment
        PROVE  FALSE
    <3>1. call' = call \/ \E d \in Tids : RtkitAnswer(d)
      BY <2>3 DEF Environment, LinuxEnvironment, Spawn, Exit, SetRtprio,
         DropPrivilege, DropHandle, RtkitLate, Lockdown
    <3>2. ASSUME NEW d \in Tids, RtkitAnswer(d)
          PROVE  call'[c].pc = call[c].pc
      <4>1. call[d] \in Calls
        BY <1>1, <3>2, CallOf DEF RtkitAnswer
      <4>2. PICK a : call' = [call EXCEPT ![d] = [call[d] EXCEPT !.answer = a]]
        BY <3>2 DEF RtkitAnswer
      <4>3. [call[d] EXCEPT !.answer = a].pc = call[d].pc
        BY <4>1 DEF Calls
      <4> QED
        BY <1>1, <4>2, <4>3, Moved DEF IInv
    <3> QED
      BY <1>1, <3>1, <3>2
  <2> QED
    BY <1>1, <2>1, <2>2, <2>3 DEF Next, vars
<1>2. IInv /\ [Next]_vars => [\A c \in Tids : Advance(c)]_vars
  BY <1>1
<1> QED
  BY <1>2, Inductive, PTL DEF Spec, NothingSetBack

-----------------------------------------------------------------------------
(***************************************************************************)
(* The second part: RtLinux implements RtPriorityMisled when its clients   *)
(* use each thread from one place at a time, with any privileges and any   *)
(* daemon.                                                                 *)
(***************************************************************************)

(* The daemon has granted the request c waits for, and c has not heard. *)
Pending(c) == call[c].pc = "wait" /\ call[c].answer = "granted"

(* The level a thread comes from: what every thread info of it has saved. *)
Origin(t) == IF before[t] = None THEN VisibleLevel(t) ELSE before[t]

Faithful(i) ==
  i.tid \in alive /\ (i.tid \in misled \/ Level(i.saved) = Origin(i.tid))

(* The inductive invariant of exclusive clients.  An info never goes stale: as
   long as it is in use its thread runs, and it saves the level that thread comes
   from, unless the client has been misled about it. *)
InUse(i) ==
  \/ i \in infos
  \/ \E k \in HandleIds : handles[k] # None /\ handles[k].info = i
  \/ \E c \in Tids : call[c].info # None /\ call[c].info = i

FaithfulInfos == \A i \in Infos : InUse(i) => Faithful(i)

(* No two calls are about one thread, none about a promoted one, and there is an
   answer only once there is a request. *)
ApartCalls ==
  \A c \in Tids :
    /\ call[c].info # None =>
         /\ before[call[c].info.tid] = None
         /\ \A d \in Tids : call[d].info # None /\ call[d].info.tid = call[c].info.tid
                              => d = c
    /\ call[c].pc \in {"get", "set", "request"} => call[c].answer = None
    /\ Pending(c) => call[c].info.tid \in misled \/ ~ RealTime(call[c].info.saved)

(* A thread is real-time exactly while it is to come back, or about to be: it
   comes back to an ordinary level, and goes no further than its life. *)
Promised ==
  \A t \in Tids :
    /\ t \in misled \/ (RealTime(sched[t]) <=>
                           \/ before[t] # None
                           \/ \E c \in Tids : Pending(c) /\ call[c].info.tid = t)
    /\ before[t] # None => t \in alive /\ (t \in misled \/ before[t] # "REALTIME")

EInv == FaithfulInfos /\ ApartCalls /\ Promised /\ misled \subseteq alive

visible == [t \in Tids |-> VisibleLevel(t)]

Refines ==
  Contract!MisledNext \/ (visible' = visible /\ before' = before /\ misled' = misled)

-----------------------------------------------------------------------------
(* The level the client sees. *)

LEMMA NotPending ==
  ASSUME NEW t \in Tids, \A c \in Tids : Pending(c) => call[c].info.tid # t
  PROVE  VisibleLevel(t) = Level(sched[t])
<1>1. {c \in Tids : /\ call[c].pc = "wait" /\ call[c].answer = "granted"
                    /\ call[c].info.tid = t} = {}
  BY DEF Pending
<1> QED
  BY <1>1 DEF VisibleLevel

LEMMA IsPending ==
  ASSUME NEW t \in Tids, NEW c \in Tids, Pending(c), call[c].info.tid = t,
         \A d \in Tids : Pending(d) /\ call[d].info.tid = t => d = c
  PROVE  VisibleLevel(t) = Level(call[c].info.saved)
<1>1. {d \in Tids : /\ call[d].pc = "wait" /\ call[d].answer = "granted"
                    /\ call[d].info.tid = t} = {c}
  BY DEF Pending
<1>2. (CHOOSE d \in {c} : TRUE) = c
  OBVIOUS
<1> QED
  BY <1>1, <1>2 DEF VisibleLevel

(* The same, of the next state. *)
LEMMA NotPendingNext ==
  ASSUME NEW t \in Tids, \A c \in Tids : Pending(c)' => call'[c].info.tid # t
  PROVE  VisibleLevel(t)' = Level(sched'[t])
<1>1. {c \in Tids : /\ call'[c].pc = "wait" /\ call'[c].answer = "granted"
                    /\ call'[c].info.tid = t} = {}
  BY DEF Pending
<1>2. Level(sched[t])' = Level(sched'[t])
  BY DEF Level, RealTime
<1> QED
  BY <1>1, <1>2 DEF VisibleLevel

LEMMA IsPendingNext ==
  ASSUME NEW t \in Tids, NEW c \in Tids, Pending(c)', call'[c].info.tid = t,
         \A d \in Tids : Pending(d)' /\ call'[d].info.tid = t => d = c
  PROVE  VisibleLevel(t)' = Level(call'[c].info.saved)
<1>1. {d \in Tids : /\ call'[d].pc = "wait" /\ call'[d].answer = "granted"
                    /\ call'[d].info.tid = t} = {c}
  BY DEF Pending
<1>2. (CHOOSE d \in {c} : TRUE) = c
  OBVIOUS
<1> QED
  BY <1>1, <1>2 DEF VisibleLevel

(* It stays when neither the level of the thread nor what is pending of it
   changes. *)
LEMMA SeenLevel ==
  ASSUME NEW t \in Tids, Level(sched'[t]) = Level(sched[t]),
         \A c \in Tids :
           /\ Pending(c)' /\ call'[c].info.tid = t <=> Pending(c) /\ call[c].info.tid = t
           /\ Pending(c) /\ call[c].info.tid = t => call'[c].info = call[c].info
  PROVE  VisibleLevel(t)' = VisibleLevel(t)
<1> DEFINE granted == {c \in Tids : /\ call[c].pc = "wait" /\ call[c].answer = "granted"
                                    /\ call[c].info.tid = t}
<1>1. granted' = granted
  BY DEF Pending
<1>2. (CHOOSE c \in granted : TRUE)' = (CHOOSE c \in granted : TRUE)
  BY <1>1
<1>3. granted # {} => (CHOOSE c \in granted : TRUE) \in granted
  OBVIOUS
<1>4. \A c \in granted : call'[c].info = call[c].info
  BY DEF Pending
<1>5. Level(sched[t])' = Level(sched[t])
  BY DEF Level, RealTime
<1> QED
  BY <1>1, <1>2, <1>3, <1>4, <1>5 DEF VisibleLevel

LEMMA SeenElsewhere ==
  ASSUME NEW t \in Tids, sched'[t] = sched[t],
         \A c \in Tids :
           /\ Pending(c)' /\ call'[c].info.tid = t <=> Pending(c) /\ call[c].info.tid = t
           /\ Pending(c) /\ call[c].info.tid = t => call'[c].info = call[c].info
  PROVE  VisibleLevel(t)' = VisibleLevel(t)
  BY SeenLevel

LEMMA VisibleKept ==
  ASSUME NEW t \in Tids, sched'[t] = sched[t],
         \A c \in Tids : /\ Pending(c)' <=> Pending(c)
                         /\ Pending(c) => call'[c].info = call[c].info
  PROVE  VisibleLevel(t)' = VisibleLevel(t)
  BY SeenElsewhere

(* An info that is in use is one, and its thread runs. *)
LEMMA UseFacts ==
  ASSUME IInv, EInv
  PROVE  /\ \A c \in Tids : call[c].info # None =>
              /\ InUse(call[c].info) /\ GoodInfo(rttime, call[c].info)
              /\ Faithful(call[c].info) /\ call[c].info.tid \in Tids
         /\ \A k \in HandleIds : handles[k] # None =>
              /\ InUse(handles[k].info) /\ GoodInfo(rttime, handles[k].info)
              /\ Faithful(handles[k].info)
         /\ \A i \in infos : GoodInfo(rttime, i) /\ Faithful(i)
<1>1. \A i : GoodInfo(rttime, i) /\ InUse(i) => Faithful(i)
  BY DEF EInv, FaithfulInfos, GoodInfo
<1>2. \A c \in Tids : call[c].info # None =>
        GoodInfo(rttime, call[c].info) /\ InUse(call[c].info)
  BY DEF IInv, CallsOK, GoodCall, InUse
<1>3. \A k \in HandleIds : handles[k] # None =>
        GoodInfo(rttime, handles[k].info) /\ InUse(handles[k].info)
  BY DEF IInv, ClientOK, InUse
<1>4. \A i \in infos : GoodInfo(rttime, i) /\ InUse(i)
  BY DEF IInv, ClientOK, InUse
<1> QED
  BY <1>1, <1>2, <1>3, <1>4, InfoFacts

LEMMA LevelIs ==
  ASSUME NEW a \in Attrs
  PROVE  /\ Level(a) = "REALTIME" <=> RealTime(a)
         /\ Level(a) \in Levels
         /\ Level(a) # None
  BY LevelFacts, LinuxAssumption DEF Level, RealTime, Attrs, Policies, Levels

(* What a client sees is a level. *)
LEMMA VisibleTyped == IInv => \A t \in Tids : VisibleLevel(t) \in Levels
<1> SUFFICES ASSUME IInv, NEW t \in Tids PROVE VisibleLevel(t) \in Levels
  OBVIOUS
<1> DEFINE granted == {c \in Tids : /\ call[c].pc = "wait" /\ call[c].answer = "granted"
                                    /\ call[c].info.tid = t}
<1>1. CASE granted = {}
  <2>1. Level(sched[t]) \in Levels
    BY LevelIs DEF IInv, SchedOK
  <2> QED
    BY <1>1, <2>1 DEF VisibleLevel
<1>2. CASE granted # {}
  <2>1. PICK c \in granted : c = CHOOSE d \in granted : TRUE
    BY <1>2
  <2>2. c \in Tids /\ call[c].pc = "wait"
    BY <2>1
  <2>3. Level(call[c].info.saved) \in Levels
    BY <2>2, CallOf, InfoFacts, LevelIs DEF GoodCall
  <2> QED
    BY <1>2, <2>1, <2>3 DEF VisibleLevel
<1> QED
  BY <1>1, <1>2

LEMMA VisibleTypedNext == IInv' => (\A t \in Tids : VisibleLevel(t) \in Levels)'
  BY VisibleTyped, PTL

SeenSame == \A t \in Tids : VisibleLevel(t)' = VisibleLevel(t)

LEMMA SeenRefines ==
  ASSUME SeenSame, before' = before, misled' = misled
  PROVE  Refines
  BY DEF SeenSame, Refines, visible

LEMMA InfosKept ==
  ASSUME IInv, EInv, SeenSame, UNCHANGED << before, alive, misled >>,
         \A i \in Infos : InUse(i)' => InUse(i) \/ Faithful(i)
  PROVE  FaithfulInfos'
<1>1. ASSUME NEW i \in Infos, Faithful(i) PROVE Faithful(i)'
  BY <1>1 DEF Faithful, Origin, SeenSame, Infos
<1> QED
  BY <1>1 DEF EInv, FaithfulInfos

-----------------------------------------------------------------------------
(* Steps the client does not see. *)

LEMMA StillStep ==
  ASSUME IInv, EInv, UNCHANGED << alive, sched, before, call, misled >>,
         \A i \in Infos : InUse(i)' => InUse(i) \/ Faithful(i)
  PROVE  EInv' /\ Refines
<1>1. SeenSame
  BY VisibleKept DEF SeenSame, Pending
<1>2. FaithfulInfos' /\ Refines
  BY <1>1, InfosKept, SeenRefines
<1>3. ApartCalls' /\ Promised'
  BY DEF EInv, ApartCalls, Promised, Pending
<1> QED
  BY <1>2, <1>3 DEF EInv

(* The call of c becomes x, with nothing pending. *)
LEMMA MoveStep ==
  ASSUME IInv, EInv, NEW c \in Tids, NEW x, call' = [call EXCEPT ![c] = x],
         UNCHANGED << alive, sched, before, misled >>,
         \A i \in Infos : InUse(i)' => InUse(i) \/ Faithful(i),
         ~ Pending(c), ~ (x.pc = "wait" /\ x.answer = "granted"),
         x.pc \in {"get", "set", "request"} => x.answer = None,
         x.info # None =>
           /\ before[x.info.tid] = None
           /\ \A d \in Tids \ {c} : call[d].info # None => call[d].info.tid # x.info.tid
  PROVE  EInv' /\ Refines
<1>1. call'[c] = x /\ \A d \in Tids \ {c} : call'[d] = call[d]
  BY DEF IInv, CallsOK
<1>2. \A d \in Tids : /\ Pending(d)' <=> Pending(d)
                      /\ Pending(d) => call'[d].info = call[d].info
  BY <1>1 DEF Pending
<1>3. SeenSame
  BY <1>2, VisibleKept DEF SeenSame
<1>4. FaithfulInfos' /\ Refines
  BY <1>3, InfosKept, SeenRefines
<1>5. ApartCalls'
  <2>1. \A d \in Tids : Pending(d)' => call'[d].info.tid \in misled \/ ~ RealTime(call'[d].info.saved)
    BY <1>2 DEF EInv, ApartCalls
  <2> QED
    BY <1>1, <2>1 DEF EInv, ApartCalls, RealTime
<1>6. Promised'
  <2>1. \A d \in Tids, t \in Tids :
          (Pending(d) /\ call[d].info.tid = t)' <=> (Pending(d) /\ call[d].info.tid = t)
    BY <1>2
  <2> QED
    BY <2>1 DEF EInv, Promised
<1> QED
  BY <1>4, <1>5, <1>6 DEF EInv
(* A call goes on with the thread it is about, or is over. *)
LEMMA GoOnStep ==
  ASSUME IInv, EInv, NEW c \in Tids, NEW x, call' = [call EXCEPT ![c] = x],
         UNCHANGED << kernelVars, clientVars, misled >>,
         x.info \in {call[c].info, None},
         ~ Pending(c), ~ (x.pc = "wait" /\ x.answer = "granted"),
         x.pc \in {"get", "set", "request"} => x.answer = None
  PROVE  EInv' /\ Refines
<1>1. UNCHANGED << alive, sched, before, infos, handles >>
  BY DEF kernelVars, clientVars
<1>2. call'[c] = x /\ \A d \in Tids \ {c} : call'[d] = call[d]
  BY DEF IInv, CallsOK
<1>3. \A i \in Infos : InUse(i)' => InUse(i) \/ Faithful(i)
  BY <1>1, <1>2 DEF InUse
<1>4. x.info # None =>
        /\ before[x.info.tid] = None
        /\ \A d \in Tids \ {c} : call[d].info # None => call[d].info.tid # x.info.tid
  BY DEF EInv, ApartCalls
<1> QED
  BY <1>1, <1>3, <1>4, MoveStep

LEMMA ReturnStep ==
  ASSUME IInv, EInv, NEW c \in Tids, ~ Pending(c), Return(c),
         UNCHANGED << kernelVars, clientVars, misled >>
  PROVE  EInv' /\ Refines
<1>1. call' = [call EXCEPT ![c] = Idle]
  BY DEF Return
<1>2. Idle.info = None /\ Idle.pc = "idle"
  BY DEF Idle
<1> HIDE DEF Idle
<1> QED
  BY <1>1, <1>2, GoOnStep

(* A promotion starts, about a thread nothing is being done to; or a limit call,
   about none. *)
LEMMA BeginMove ==
  ASSUME IInv, EInv, NEW c \in Tids, CanCall(c), NEW x, call' = [call EXCEPT ![c] = x],
         UNCHANGED << kernelVars, clientVars, rtkitVars >>,
         x.pc = "get", x.answer = None,
         x.info # None => Faithful(x.info) /\ Quiet(x.info.tid)
  PROVE  EInv' /\ Refines
<1>1. UNCHANGED << alive, sched, before, infos, handles, misled >>
  BY DEF kernelVars, clientVars, rtkitVars
<1>2. call'[c] = x /\ \A d \in Tids \ {c} : call'[d] = call[d]
  BY DEF IInv, CallsOK
<1>3. \A j \in Infos : InUse(j)' => InUse(j) \/ Faithful(j)
  BY <1>1, <1>2 DEF InUse
<1>4. ~ Pending(c)
  BY DEF CanCall, InFlight, Pending
<1>5. x.info # None =>
        /\ before[x.info.tid] = None
        /\ \A d \in Tids \ {c} : call[d].info # None => call[d].info.tid # x.info.tid
  BY DEF Quiet, Targeted
<1>6. /\ ~ (x.pc = "wait" /\ x.answer = "granted")
      /\ x.pc \in {"get", "set", "request"} => x.answer = None
  OBVIOUS
<1> QED
  BY <1>1, <1>3, <1>4, <1>5, <1>6, MoveStep

LEMMA BeginPromise ==
  ASSUME IInv, EInv, NEW c \in Tids, CanCall(c), NEW i, NEW f, NEW r, Begin(c, i, f, r),
         i # None => Faithful(i) /\ Quiet(i.tid)
  PROVE  EInv' /\ Refines
<1> DEFINE x == [pc |-> "get", info |-> i, answer |-> None,
                 limits |-> [cur |-> Budget(f, r), max |-> Infinity]]
<1>1. call' = [call EXCEPT ![c] = x] /\ UNCHANGED << kernelVars, clientVars, rtkitVars >>
  BY DEF Begin
<1>2. x.pc = "get" /\ x.info = i /\ x.answer = None
  OBVIOUS
<1> HIDE DEF x
<1> QED
  BY <1>1, <1>2, BeginMove

(* What is gathered on a thread nothing is being done to is faithful. *)
LEMMA GatheredFacts ==
  ASSUME IInv, EInv, NEW t \in alive, Quiet(t), call[t].pc = "idle"
  PROVE  Faithful(InfoOf(t))
<1>1. t \in Tids
  BY DEF IInv, MachineOK
<1>2. \A c \in Tids : Pending(c) => call[c].info.tid # t
  BY CallOf DEF Pending, Quiet, Targeted, GoodCall
<1>3. VisibleLevel(t) = Level(sched[t])
  BY <1>1, <1>2, NotPending
<1>4. InfoOf(t).tid = t /\ InfoOf(t).saved = sched[t]
  BY DEF InfoOf
<1> QED
  BY <1>3, <1>4 DEF Faithful, Origin, Quiet

LEMMA UnseenContinue ==
  ASSUME IInv, EInv, NEW c \in Tids,
         \/ GetLimits(c) \/ SetLimits(c) \/ Request(c)
         \/ Answered(c) /\ ~ Granted(call[c].answer)
         \/ RollbackGet(c) \/ RollbackSet(c)
  PROVE  EInv' /\ Refines
<1>0. call[c].pc \in {"get", "set", "request", "wait", "rollback_get", "rollback_set"}
  BY DEF GetLimits, SetLimits, Request, Answered, RollbackGet, RollbackSet
<1>1. call[c] \in Calls
  BY <1>0, CallOf
<1>2. ~ Pending(c)
  BY DEF GetLimits, SetLimits, Request, Answered, RollbackGet, RollbackSet, Pending, Granted
<1>3. call[c].pc \in {"get", "set", "request"} => call[c].answer = None
  BY DEF EInv, ApartCalls
<1>4. UNCHANGED << kernelVars, clientVars, misled >>
  BY DEF GetLimits, SetLimits, Request, Answered, RollbackGet, RollbackSet, clientVars, rtkitVars
<1>5. CASE Return(c)
  BY <1>2, <1>4, <1>5, ReturnStep
<1>6. ASSUME NEW x, call' = [call EXCEPT ![c] = x], x.info = call[c].info,
             x.answer = call[c].answer, x.pc = "wait" => call[c].pc = "request",
             x.pc \in {"get", "set", "request"} => call[c].pc \in {"get", "set", "request"}
      PROVE  EInv' /\ Refines
  <2>1. None # "granted"
    BY RtkitAssumption
  <2> QED
    BY <1>2, <1>3, <1>4, <1>6, <2>1, GoOnStep
<1>7. CASE GetLimits(c) /\ ~ Return(c)
  <2> DEFINE x == [call[c] EXCEPT !.pc = "set", !.limits = RequestedLimits(call[c].limits.cur)]
  <2>1. x.pc = "set" /\ x.info = call[c].info /\ x.answer = call[c].answer
    BY <1>1 DEF Calls
  <2>2. call' = [call EXCEPT ![c] = x] /\ call[c].pc = "get"
    BY <1>7 DEF GetLimits
  <2> HIDE DEF x
  <2> QED
    BY <2>1, <2>2, <1>6
<1>8. CASE SetLimits(c) /\ ~ Return(c)
  <2> DEFINE x == [call[c] EXCEPT !.pc = "request", !.limits = None]
  <2>1. x.pc = "request" /\ x.info = call[c].info /\ x.answer = call[c].answer
    BY <1>1 DEF Calls
  <2>2. call' = [call EXCEPT ![c] = x] /\ call[c].pc = "set"
    BY <1>8 DEF SetLimits
  <2> HIDE DEF x
  <2> QED
    BY <2>1, <2>2, <1>6
<1>9. ASSUME NEW pc \in {"wait", "rollback_get"}, Goto(c, pc), pc = "wait" => call[c].pc = "request"
      PROVE  EInv' /\ Refines
  <2> DEFINE x == [call[c] EXCEPT !.pc = pc]
  <2>1. x.pc = pc /\ x.info = call[c].info /\ x.answer = call[c].answer
    BY <1>1 DEF Calls
  <2>2. call' = [call EXCEPT ![c] = x]
    BY <1>9 DEF Goto
  <2> HIDE DEF x
  <2> QED
    BY <2>1, <2>2, <1>6, <1>9
<1>10. CASE Request(c)
  BY <1>9, <1>10 DEF Request
<1>11. CASE Answered(c) /\ ~ Granted(call[c].answer)
  BY <1>9, <1>11 DEF Answered
<1>12. CASE RollbackGet(c) /\ ~ Return(c)
  <2> DEFINE x == [call[c] EXCEPT !.pc = "rollback_set", !.limits = RollbackLimits(proc[c])]
  <2>1. x.pc = "rollback_set" /\ x.info = call[c].info /\ x.answer = call[c].answer
    BY <1>1 DEF Calls
  <2>2. call' = [call EXCEPT ![c] = x]
    BY <1>12 DEF RollbackGet
  <2> HIDE DEF x
  <2> QED
    BY <2>1, <2>2, <1>6
<1>13. CASE RollbackSet(c)
  BY <1>5, <1>13 DEF RollbackSet
<1> QED
  BY <1>5, <1>7, <1>8, <1>10, <1>11, <1>12, <1>13

-----------------------------------------------------------------------------
(* Steps that change a thread, or what is promised of it. *)

(* As InfosKept, when the level a client sees may change. *)
LEMMA OriginsKept ==
  ASSUME IInv, EInv, \A t \in Tids \ misled : Origin(t)' = Origin(t),
         UNCHANGED << alive, misled >>,
         \A i \in Infos : InUse(i)' => InUse(i) \/ Faithful(i)
  PROVE  FaithfulInfos'
<1>1. ASSUME NEW i \in Infos, Faithful(i) PROVE Faithful(i)'
  BY <1>1 DEF Faithful, Infos, Level, RealTime
<1> QED
  BY <1>1 DEF EInv, FaithfulInfos

(* The call that waits for a grant, and its thread. *)
LEMMA WaitFacts ==
  ASSUME IInv, EInv, NEW c \in Tids, call[c].pc = "wait"
  PROVE  /\ call[c] \in Calls /\ call[c].info # None
         /\ call[c].info \in Infos /\ InUse(call[c].info)
         /\ call[c].info.tid \in Tids /\ call[c].info.tid \in alive
         /\ before[call[c].info.tid] = None
         /\ \/ call[c].info.tid \in misled
            \/ Level(call[c].info.saved) = VisibleLevel(call[c].info.tid)
         /\ \A d \in Tids \ {c} :
              /\ call[d].info # None => call[d].info.tid # call[c].info.tid
              /\ Pending(d) => call[d].info.tid # call[c].info.tid
<1>1. call[c] \in Calls /\ call[c].info # None
  BY CallOf DEF GoodCall
<1>2. /\ call[c].info \in Infos /\ InUse(call[c].info) /\ Faithful(call[c].info)
      /\ call[c].info.tid \in Tids
  BY <1>1, UseFacts DEF GoodInfo
<1>3. before[call[c].info.tid] = None
  BY <1>1 DEF EInv, ApartCalls
<1>4. \A d \in Tids \ {c} :
        call[d].info # None => call[d].info.tid # call[c].info.tid
  BY <1>1 DEF EInv, ApartCalls
<1>5. \A d \in Tids : Pending(d) => call[d].info # None
  BY CallOf DEF Pending, GoodCall
<1> QED
  BY <1>1, <1>2, <1>3, <1>4, <1>5 DEF Faithful, Origin

(* The calls stay apart when that of c goes on or is over. *)
LEMMA ApartMove ==
  ASSUME IInv, EInv, NEW c \in Tids, NEW x, call' = [call EXCEPT ![c] = x],
         x.info \in {call[c].info, None},
         x.pc \in {"get", "set", "request"} => x.answer = None,
         x.pc = "wait" /\ x.answer = "granted" =>
           x.info.tid \in misled' \/ ~ RealTime(x.info.saved),
         misled \subseteq misled',
         \A d \in Tids : call'[d].info # None => before'[call'[d].info.tid] = None
  PROVE  ApartCalls'
<1>1. call'[c] = x /\ \A d \in Tids \ {c} : call'[d] = call[d]
  BY DEF IInv, CallsOK
<1>2. \A d \in Tids : Pending(d)' => \/ call'[d].info.tid \in misled'
                                     \/ ~ RealTime(call'[d].info.saved)
  BY <1>1 DEF EInv, ApartCalls, Pending
<1>3. \A d, e \in Tids :
        call'[d].info # None /\ call'[e].info # None
          /\ call'[e].info.tid = call'[d].info.tid
          => e = d
  BY <1>1 DEF EInv, ApartCalls
<1>4. \A d \in Tids : call'[d].pc \in {"get", "set", "request"} => call'[d].answer = None
  BY <1>1 DEF EInv, ApartCalls
<1> QED
  BY <1>2, <1>3, <1>4 DEF ApartCalls, RealTime

(* A client is misled about t, or has been: whatever becomes of t, other threads
   are left alone. *)
LEMMA AwayStep ==
  ASSUME IInv, IInv', EInv, NEW t \in Tids, t \in alive, alive' = alive,
         misled' = misled \cup {t},
         t \in misled \/ (VisibleLevel(t)' = "REALTIME" /\ before'[t] = None),
         \A u \in Tids \ {t} : sched'[u] = sched[u] /\ before'[u] = before[u],
         \A c \in Tids, u \in Tids \ {t} :
           /\ Pending(c)' /\ call'[c].info.tid = u <=> Pending(c) /\ call[c].info.tid = u
           /\ Pending(c) /\ call[c].info.tid = u => call'[c].info = call[c].info,
         \A i \in Infos : InUse(i)' => InUse(i),
         ApartCalls'
  PROVE  EInv' /\ Refines
<1>1. \A u \in Tids \ {t} : VisibleLevel(u)' = VisibleLevel(u)
  BY SeenElsewhere
<1>2. \A u \in Tids \ {t} : Origin(u)' = Origin(u)
  BY <1>1 DEF Origin
<1>3. FaithfulInfos'
  <2>1. ASSUME NEW i \in Infos, Faithful(i) PROVE Faithful(i)'
    BY <1>2, <2>1 DEF Faithful, Infos, Level, RealTime
  <2> QED
    BY <2>1 DEF EInv, FaithfulInfos
<1>4. Promised'
  <2>1. ASSUME NEW u \in Tids \ {t}
        PROVE  (\E c \in Tids : Pending(c)' /\ call'[c].info.tid = u)
                 <=> \E c \in Tids : Pending(c) /\ call[c].info.tid = u
    BY <2>1
  <2> QED
    BY <2>1 DEF EInv, Promised, RealTime
<1>5. misled' \subseteq alive'
  BY DEF EInv
<1>6. VisibleLevel(t)' \in Levels /\ before'[t] \in Levels \cup {None}
  BY VisibleTypedNext DEF IInv, ClientOK
<1>7. /\ visible' = [visible EXCEPT ![t] = VisibleLevel(t)']
      /\ before' = [before EXCEPT ![t] = before'[t]]
  BY <1>1 DEF visible, IInv, ClientOK
<1>8. CASE t \in misled
  <2>1. misled' = misled
    BY <1>8
  <2>2. Contract!Astray(t)
    BY <1>6, <1>7, <1>8, <2>1 DEF Contract!Astray, visible
  <2> QED
    BY <1>3, <1>4, <1>5, <2>2 DEF EInv, Refines, Contract!MisledNext
<1>9. CASE t \notin misled
  <2>1. Contract!MisleadAbout(t)
    BY <1>7, <1>9 DEF Contract!MisleadAbout, RealTimeLevels, visible
  <2> QED
    BY <1>3, <1>4, <1>5, <2>1 DEF EInv, Refines, Contract!MisledNext
<1> QED
  BY <1>8, <1>9

(* The daemon makes the thread real-time; the client does not see it yet. *)
LEMMA GrantStep ==
  ASSUME IInv, IInv', EInv, NEW c \in Tids, call[c].pc = "wait", call[c].answer = None,
         sched' = [sched EXCEPT ![call[c].info.tid] = RtkitAttr],
         call' = [call EXCEPT ![c].answer = "granted"],
         UNCHANGED << alive, clientVars, rtkitVars >>
  PROVE  EInv' /\ Refines
<1> DEFINE x == [call[c] EXCEPT !.answer = "granted"]
<1>i. PICK i \in Infos : i = call[c].info
  BY WaitFacts
<1>t. PICK t \in Tids : t = i.tid
  BY <1>i, WaitFacts
<1>1. /\ call[c] \in Calls /\ i # None /\ before[t] = None /\ t \in alive
      /\ t \in misled \/ Level(i.saved) = VisibleLevel(t)
      /\ \A d \in Tids \ {c} : Pending(d) => call[d].info.tid # t
  BY <1>i, <1>t, WaitFacts
<1>2. ~ Pending(c)
  BY RtkitAssumption DEF Pending
<1>3. VisibleLevel(t) = Level(sched[t]) /\ (t \in misled \/ ~ RealTime(sched[t]))
  BY <1>1, <1>2, NotPending DEF EInv, Promised
<1>4. i.saved \in Attrs /\ sched[t] \in Attrs
  BY <1>1, <1>i, UseFacts, InfoFacts DEF IInv, SchedOK
<1>5. t \in misled \/ ~ RealTime(i.saved)
  BY <1>1, <1>3, <1>4, LevelIs
<1>6. x.pc = "wait" /\ x.answer = "granted" /\ x.info = i /\ call' = [call EXCEPT ![c] = x]
  BY <1>1, <1>i DEF Calls
<1> HIDE DEF x
<1>7. call'[c] = x /\ \A d \in Tids \ {c} : call'[d] = call[d]
  BY <1>6 DEF IInv, CallsOK
<1>8. Pending(c)' /\ \A d \in Tids \ {c} : Pending(d)' <=> Pending(d)
  BY <1>6, <1>7 DEF Pending
<1>9. \A d \in Tids : call'[d].info = call[d].info
  BY <1>6, <1>7, <1>i
<1>10. /\ sched'[t] = RtkitAttr /\ \A u \in Tids \ {t} : sched'[u] = sched[u]
       /\ UNCHANGED << before, infos, handles, misled >>
  BY <1>1, <1>i, <1>t DEF IInv, SchedOK, clientVars, rtkitVars
<1>11. \A u \in Tids \ {t}, d \in Tids :
         /\ Pending(d)' /\ call'[d].info.tid = u <=> Pending(d) /\ call[d].info.tid = u
         /\ Pending(d) /\ call[d].info.tid = u => call'[d].info = call[d].info
  BY <1>2, <1>8, <1>9, <1>i, <1>t
<1>12. \A j \in Infos : InUse(j)' => InUse(j)
  BY <1>9, <1>10 DEF InUse
<1>13. ApartCalls'
  <2>1. \A d \in Tids : call'[d].info # None => before'[call'[d].info.tid] = None
    BY <1>9, <1>10 DEF EInv, ApartCalls
  <2>2. /\ x.info \in {call[c].info, None} /\ x.pc \notin {"get", "set", "request"}
        /\ misled \subseteq misled' /\ (x.info.tid \in misled' \/ ~ RealTime(x.info.saved))
    BY <1>5, <1>6, <1>10, <1>i, <1>t
  <2> QED
    BY <1>6, <2>1, <2>2, ApartMove
<1>14. CASE t \in misled
  <2>1. misled' = misled \cup {t}
    BY <1>10, <1>14
  <2> QED
    BY <1>1, <1>10, <1>11, <1>12, <1>13, <1>14, <2>1, AwayStep
<1>15. CASE t \notin misled
  <2>1. VisibleLevel(t)' = VisibleLevel(t)
    <3>1. VisibleLevel(t)' = Level(call'[c].info.saved)
      BY <1>1, <1>8, <1>9, <1>i, <1>t, IsPendingNext
    <3> QED
      BY <1>1, <1>9, <1>15, <1>i, <3>1
  <2>2. SeenSame
    BY <1>10, <1>11, <2>1, SeenElsewhere DEF SeenSame
  <2>3. FaithfulInfos' /\ Refines
    BY <1>10, <1>12, <2>2, InfosKept, SeenRefines
  <2>4. Promised'
    <3>1. \A u \in Tids \ {t} :
            (\E d \in Tids : Pending(d)' /\ call'[d].info.tid = u)
              <=> \E d \in Tids : Pending(d) /\ call[d].info.tid = u
      BY <1>11
    <3>2. RealTime(RtkitAttr)
      BY DEF RealTime, RtkitAttr
    <3>3. Pending(c)' /\ call'[c].info.tid = t
      BY <1>8, <1>9, <1>i, <1>t
    <3>4. \A u \in Tids :
            u \in misled \/ (RealTime(sched'[u]) <=>
              \/ before'[u] # None
              \/ \E d \in Tids : Pending(d)' /\ call'[d].info.tid = u)
      BY <1>10, <3>1, <3>2, <3>3 DEF EInv, Promised
    <3> QED
      BY <1>1, <1>10, <3>4 DEF EInv, Promised, RealTime
  <2> QED
    BY <1>10, <1>13, <2>3, <2>4 DEF EInv
<1> QED
  BY <1>14, <1>15

(* The client hears of the grant: the promotion takes effect for it. *)
LEMMA ReportStep ==
  ASSUME Exclusive, IInv, IInv', EInv, NEW c \in Tids, Pending(c), Answered(c)
  PROVE  EInv' /\ Refines
<1>i. PICK i \in Infos : i = call[c].info
  BY WaitFacts DEF Pending
<1>t. PICK t \in Tids : t = i.tid
  BY <1>i, WaitFacts DEF Pending
<1>b. PICK b \in Levels : b = Level(i.saved)
  BY LevelIs DEF Infos
<1>1. /\ call[c].info # None /\ InUse(i) /\ t \in alive /\ before[t] = None
      /\ t \in misled \/ b = VisibleLevel(t)
      /\ \A d \in Tids \ {c} : /\ call[d].info # None => call[d].info.tid # t
                               /\ Pending(d) => call[d].info.tid # t
  BY <1>i, <1>t, <1>b, WaitFacts DEF Pending
<1>2. b # None /\ (t \in misled \/ b # "REALTIME")
  BY <1>i, <1>t, <1>b, LevelIs DEF EInv, ApartCalls, Infos
<1>3. t \in misled \/ (RealTime(sched[t]) /\ Level(sched[t]) = "REALTIME")
  BY <1>i, <1>t, LevelIs DEF EInv, Promised, IInv, SchedOK
<1>4. /\ call' = [call EXCEPT ![c] = Idle]
      /\ before' = [before EXCEPT ![t] = b]
      /\ UNCHANGED << alive, sched, infos, misled >>
  BY <1>i, <1>t, <1>b
     DEF Answered, Granted, Pending, Remember, Return, kernelVars, rtkitVars
<1>5. PICK k \in HandleIds :
        handles' = [handles EXCEPT ![k] = [holder |-> proc[c], info |-> i]]
  BY <1>i DEF Answered, Granted, Pending, ReturnHandle
<1>6. call'[c] = Idle /\ \A d \in Tids \ {c} : call'[d] = call[d]
  BY <1>4 DEF IInv, CallsOK
<1>7. Idle.info = None /\ Idle.pc = "idle"
  BY DEF Idle
<1> HIDE DEF Idle
<1>8. ~ Pending(c)' /\ \A d \in Tids \ {c} : Pending(d)' <=> Pending(d)
  BY <1>6, <1>7 DEF Pending
<1>9. \A u \in Tids \ {t}, d \in Tids :
        /\ Pending(d)' /\ call'[d].info.tid = u <=> Pending(d) /\ call[d].info.tid = u
        /\ Pending(d) /\ call[d].info.tid = u => call'[d].info = call[d].info
  BY <1>i, <1>t, <1>6, <1>8
<1>10. before'[t] = b /\ \A u \in Tids \ {t} : before'[u] = before[u]
  BY <1>4 DEF IInv, ClientOK
<1>11. \A j \in Infos : InUse(j)' => InUse(j)
  <2>1. handles'[k].info = i /\ \A h \in HandleIds \ {k} : handles'[h] = handles[h]
    BY <1>5 DEF IInv, ClientOK
  <2> QED
    BY <1>1, <1>4, <1>6, <1>7, <2>1 DEF InUse
<1>12. ApartCalls'
  <2>1. \A d \in Tids : call'[d].info # None => before'[call'[d].info.tid] = None
    <3>1. \A d \in Tids \ {c} : call[d].info # None => call[d].info.tid \in Tids \ {t}
      BY <1>1, UseFacts
    <3> QED
      BY <1>6, <1>7, <1>10, <3>1 DEF EInv, ApartCalls
  <2> QED
    BY <1>4, <1>7, <2>1, ApartMove
<1>13. CASE t \in misled
  <2>1. misled' = misled \cup {t}
    BY <1>4, <1>13
  <2>2. alive' = alive /\ sched' = sched
    BY <1>4
  <2> QED
    BY <1>1, <1>9, <1>10, <1>11, <1>12, <1>13, <2>1, <2>2, AwayStep
<1>14. CASE t \notin misled
  <2>1. VisibleLevel(t)' = "REALTIME"
    <3>1. VisibleLevel(t)' = Level(sched'[t])
      BY <1>1, <1>6, <1>8, NotPendingNext
    <3> QED
      BY <1>3, <1>4, <1>14, <3>1
  <2>2. \A u \in Tids \ {t} : VisibleLevel(u)' = VisibleLevel(u)
    BY <1>4, <1>9, SeenElsewhere
  <2>3. Contract!Keep(t)
    <3>1. visible' = [visible EXCEPT ![t] = "REALTIME"]
      BY <2>1, <2>2 DEF visible
    <3>2. before' = [before EXCEPT ![t] = visible[t]]
      BY <1>1, <1>4, <1>14 DEF visible
    <3>3. Contract!Promote(t)
      BY <1>1, <3>1, <3>2 DEF Contract!Promote, RealTimeLevels, visible
    <3> QED
      BY <1>4, <1>14, <3>3 DEF Contract!Keep
  <2>4. FaithfulInfos'
    <3>1. \A u \in Tids : Origin(u)' = Origin(u)
      BY <1>1, <1>2, <1>10, <1>14, <2>2 DEF Origin
    <3> QED
      BY <1>4, <1>11, <3>1, OriginsKept
  <2>5. Promised'
    <3>1. \A u \in Tids \ {t} :
            (\E d \in Tids : Pending(d)' /\ call'[d].info.tid = u)
              <=> \E d \in Tids : Pending(d) /\ call[d].info.tid = u
      BY <1>9
    <3>2. \A u \in Tids :
            u \in misled \/ (RealTime(sched[u]) <=>
              \/ before'[u] # None
              \/ \E d \in Tids : Pending(d)' /\ call'[d].info.tid = u)
      BY <1>2, <1>3, <1>10, <3>1 DEF EInv, Promised
    <3> QED
      BY <1>1, <1>2, <1>4, <1>10, <3>2 DEF EInv, Promised, RealTime
  <2> QED
    BY <1>4, <1>12, <2>3, <2>4, <2>5 DEF EInv, Refines, Contract!MisledNext
<1> QED
  BY <1>13, <1>14

(* A thread nothing is pending for changes, and nothing is promised of it any
   more: the client sees just that. *)
LEMMA OneMoves ==
  ASSUME IInv, NEW t \in Tids, NEW a, call' = call,
         sched' = [sched EXCEPT ![t] = a], before' = [before EXCEPT ![t] = None],
         \A c \in Tids : Pending(c) => call[c].info.tid # t
  PROVE  /\ VisibleLevel(t)' = Level(a) /\ sched'[t] = a /\ before'[t] = None
         /\ \A u \in Tids \ {t} : /\ VisibleLevel(u)' = VisibleLevel(u)
                                  /\ sched'[u] = sched[u] /\ before'[u] = before[u]
                                  /\ Origin(u)' = Origin(u)
         /\ visible' = [visible EXCEPT ![t] = Level(a)]
<1>1. /\ sched'[t] = a /\ before'[t] = None
      /\ \A u \in Tids \ {t} : sched'[u] = sched[u] /\ before'[u] = before[u]
  BY DEF IInv, SchedOK, ClientOK
<1>2. \A c \in Tids : Pending(c)' <=> Pending(c)
  BY DEF Pending
<1>3. VisibleLevel(t)' = Level(a)
  <2>1. VisibleLevel(t)' = Level(sched'[t])
    BY <1>2, NotPendingNext
  <2> QED
    BY <1>1, <2>1
<1>4. \A u \in Tids \ {t} : VisibleLevel(u)' = VisibleLevel(u)
  BY <1>1, <1>2, SeenElsewhere
<1>5. visible' = [visible EXCEPT ![t] = Level(a)]
  BY <1>3, <1>4 DEF visible
<1> QED
  BY <1>1, <1>3, <1>4, <1>5 DEF Origin

(* What is promised then, when t is ordinary from now on. *)
LEMMA OnePromised ==
  ASSUME IInv, EInv, NEW t \in Tids, NEW a, ~ RealTime(a), call' = call,
         sched' = [sched EXCEPT ![t] = a], before' = [before EXCEPT ![t] = None],
         misled' = misled \ {t},
         \A c \in Tids : call[c].info # None => call[c].info.tid # t,
         \A u \in Tids \ {t} : u \in alive => u \in alive'
  PROVE  ApartCalls' /\ Promised' /\ misled' \subseteq alive'
<1>1. \A c \in Tids : Pending(c) => call[c].info # None
  BY CallOf DEF Pending, GoodCall
<1>2. /\ sched'[t] = a /\ before'[t] = None
      /\ \A u \in Tids \ {t} : sched'[u] = sched[u] /\ before'[u] = before[u]
  BY DEF IInv, SchedOK, ClientOK
<1>3. \A c \in Tids : Pending(c)' <=> Pending(c)
  BY DEF Pending
<1>4. ApartCalls'
  <2>1. \A c \in Tids : call[c].info # None => call[c].info.tid \in Tids
    BY UseFacts
  <2>2. \A c \in Tids : call[c].info # None => before'[call[c].info.tid] = None
    BY <1>2, <2>1 DEF EInv, ApartCalls
  <2> QED
    BY <1>1, <1>3, <2>2 DEF EInv, ApartCalls, RealTime
<1>5. Promised'
  <2>1. \A u \in Tids :
          u \in misled' \/ (RealTime(sched'[u]) <=>
            \/ before'[u] # None
            \/ \E d \in Tids : Pending(d) /\ call[d].info.tid = u)
    BY <1>1, <1>2 DEF EInv, Promised
  <2> QED
    BY <1>2, <1>3, <2>1 DEF EInv, Promised, RealTime
<1>6. misled' \subseteq alive'
  BY DEF EInv, IInv, MachineOK
<1> QED
  BY <1>4, <1>5, <1>6

(* The thread t comes back to the level promised. *)
LEMMA ComeBackStep ==
  ASSUME IInv, EInv, NEW t \in Tids, NEW a, Level(a) = before[t], ~ RealTime(a),
         t \notin misled, before[t] # None, call' = call,
         sched' = [sched EXCEPT ![t] = a], before' = [before EXCEPT ![t] = None],
         UNCHANGED << alive, misled >>,
         \A d \in Tids : call[d].info # None => call[d].info.tid # t,
         \A j \in Infos : InUse(j)' => InUse(j)
  PROVE  EInv' /\ Refines
<1>1. \A d \in Tids : Pending(d) => call[d].info.tid # t
  BY CallOf DEF Pending, GoodCall
<1>2. misled' = misled \ {t}
  OBVIOUS
<1>3. ApartCalls' /\ Promised' /\ misled' \subseteq alive'
  BY <1>2, OnePromised
<1>4. /\ VisibleLevel(t)' = Level(a) /\ before'[t] = None
      /\ \A u \in Tids \ {t} : Origin(u)' = Origin(u)
      /\ visible' = [visible EXCEPT ![t] = Level(a)]
  BY <1>1, OneMoves
<1>5. Origin(t)' = Origin(t)
  BY <1>4 DEF Origin
<1>6. FaithfulInfos'
  BY <1>4, <1>5, OriginsKept
<1>7. Contract!Keep(t)
  BY <1>4 DEF Contract!Keep, Contract!Demote, visible
<1> QED
  BY <1>3, <1>6, <1>7 DEF EInv, Refines, Contract!MisledNext

(* A demotion does what it reports, or its client is misled. *)
LEMMA DemoteStep ==
  ASSUME Exclusive, IInv, IInv', EInv, NEW c \in alive, NEW i, GoodInfo(rttime, i),
         Faithful(i), before[i.tid] # None, ~ Targeted(i.tid),
         NEW new \in Attrs, WellFormed(new), Level(new) = Level(i.saved),
         Restore(c, i.tid, new),
         UNCHANGED << alive, infos, call >>,
         \A k \in HandleIds : handles'[k] # None => handles'[k] = handles[k]
  PROVE  EInv' /\ Refines
<1>t. PICK t \in Tids : t = i.tid
  BY InfoFacts
<1>1. t \in alive /\ before[t] # None /\ (t \in misled \/ Level(i.saved) = before[t])
  BY <1>t DEF Faithful, Origin
<1>e. PICK e : e = Errno(c, t, new)
  OBVIOUS
<1>2. e \in {0, ESRCH, EINVAL, EPERM}
  BY <1>e DEF Errno
<1>3. ~ PthreadFailed(PthreadRc(e))
  BY <1>2 DEF PthreadFailed, PthreadRc, ESRCH, EINVAL, EPERM
<1>4. /\ sched' = IF e = 0 THEN [sched EXCEPT ![t] = new] ELSE sched
      /\ before' = [before EXCEPT ![t] = None]
      /\ misled' = misled \cup (IF e = 0 THEN {} ELSE {t})
  BY <1>t, <1>e, <1>3 DEF Restore, Report, SetScheduler, Remember, Mislead
<1>5. \A d \in Tids : call[d].info # None => call[d].info.tid # t
  BY <1>t DEF Targeted
<1>6. \A d \in Tids : Pending(d) => call[d].info.tid # t
  BY <1>5, CallOf DEF Pending, GoodCall
<1>7. \A j \in Infos : InUse(j)' => InUse(j)
  BY DEF InUse
<1>8. CASE e = 0 /\ t \notin misled
  <2>1. Level(new) = before[t] /\ ~ RealTime(new)
    BY <1>t, <1>1, <1>8, LevelIs DEF EInv, Promised
  <2>2. /\ sched' = [sched EXCEPT ![t] = new] /\ call' = call
        /\ UNCHANGED << alive, misled >>
    BY <1>4, <1>8
  <2> QED
    BY <1>1, <1>4, <1>5, <1>7, <1>8, <2>1, <2>2, ComeBackStep
<1>9. CASE ~ (e = 0 /\ t \notin misled)
  <2>1. misled' = misled \cup {t}
    BY <1>4, <1>9
  <2>2. \A u \in Tids \ {t} : sched'[u] = sched[u] /\ before'[u] = before[u]
    BY <1>4 DEF IInv, SchedOK, ClientOK
  <2>3. before'[t] = None
    BY <1>4 DEF IInv, ClientOK
  <2>4. \A d \in Tids : Pending(d)' <=> Pending(d)
    BY DEF Pending
  <2>5. t \in misled \/ VisibleLevel(t)' = "REALTIME"
    <3>1. VisibleLevel(t)' = Level(sched'[t])
      BY <1>6, <2>4, NotPendingNext
    <3>2. t \in misled \/ (sched' = sched /\ RealTime(sched[t]))
      BY <1>1, <1>4, <1>9 DEF EInv, Promised
    <3> QED
      BY <3>1, <3>2, LevelIs DEF IInv, SchedOK
  <2>6. ApartCalls'
    <3>1. \A d \in Tids : call[d].info # None => call[d].info.tid \in Tids \ {t}
      BY <1>5, UseFacts
    <3>2. \A d \in Tids : call[d].info # None => before'[call[d].info.tid] = None
      BY <2>2, <3>1 DEF EInv, ApartCalls
    <3>3. \A d \in Tids : Pending(d)' => \/ call[d].info.tid \in misled'
                                         \/ ~ RealTime(call[d].info.saved)
      BY <2>1, <2>4 DEF EInv, ApartCalls
    <3> QED
      BY <3>2, <3>3 DEF EInv, ApartCalls, RealTime
  <2>7. \A d \in Tids, u \in Tids \ {t} :
          /\ Pending(d)' /\ call'[d].info.tid = u <=> Pending(d) /\ call[d].info.tid = u
          /\ Pending(d) /\ call[d].info.tid = u => call'[d].info = call[d].info
    BY <2>4
  <2>8. t \in misled \/ (VisibleLevel(t)' = "REALTIME" /\ before'[t] = None)
    BY <2>3, <2>5
  <2> QED
    BY <1>1, <1>7, <2>1, <2>2, <2>6, <2>7, <2>8, AwayStep
<1> QED
  BY <1>8, <1>9

(* The thread t is replaced, and nothing that names it stays in use. *)
LEMMA RestartStep ==
  ASSUME IInv, EInv, NEW t \in Tids, NEW a \in Attrs, ~ RealTime(a),
         sched' = [sched EXCEPT ![t] = a], before' = [before EXCEPT ![t] = None],
         misled' = misled \ {t}, call' = call,
         \A c \in Tids : call[c].info # None => call[c].info.tid # t,
         \A i \in Infos : InUse(i)' => InUse(i) /\ i.tid # t,
         \A u \in Tids \ {t} : u \in alive => u \in alive'
  PROVE  EInv' /\ Refines
<1>1. \A d \in Tids : Pending(d) => call[d].info.tid # t
  BY CallOf DEF Pending, GoodCall
<1>2. ApartCalls' /\ Promised' /\ misled' \subseteq alive'
  BY OnePromised
<1>3. /\ \A u \in Tids \ {t} : Origin(u)' = Origin(u)
      /\ visible' = [visible EXCEPT ![t] = Level(a)]
  BY <1>1, OneMoves
<1>4. FaithfulInfos'
  <2>1. ASSUME NEW i \in Infos, InUse(i), i.tid # t
        PROVE  Faithful(i)'
    <3>1. Faithful(i) /\ i.tid \in Tids \ {t}
      BY <2>1 DEF EInv, FaithfulInfos, Infos
    <3> QED
      BY <1>3, <3>1 DEF Faithful, Level, RealTime
  <2> QED
    BY <2>1 DEF FaithfulInfos
<1>5. Contract!StartAnew(t)
  <2>1. Level(a) \in Levels \ RealTimeLevels
    BY LevelIs DEF RealTimeLevels
  <2> QED
    BY <1>3, <2>1 DEF Contract!StartAnew, Contract!Restart, Contract!Ordinary, visible
<1> QED
  BY <1>2, <1>4, <1>5 DEF EInv, Refines, Contract!MisledNext

(* A request times out. *)
LEMMA TimeoutStep ==
  ASSUME Exclusive, IInv, IInv', EInv, NEW c \in Tids, Timeout(c)
  PROVE  EInv' /\ Refines
<1> DEFINE x == [call[c] EXCEPT !.pc = "rollback_get"]
<1>0. call[c].pc = "wait" /\ UNCHANGED << kernelVars, clientVars, rttime, offline >>
  BY DEF Timeout
<1>1. call[c] \in Calls /\ call[c].info # None
  BY <1>0, WaitFacts
<1>2. call' = [call EXCEPT ![c] = x]
  BY DEF Timeout, Goto
<1>3. x.pc = "rollback_get" /\ x.info = call[c].info /\ x.answer = call[c].answer
  BY <1>1 DEF Calls
<1> HIDE DEF x
<1>4. CASE call[c].answer # "granted"
  <2>1. ~ Pending(c) /\ misled' = misled
    BY <1>4 DEF Timeout, Mislead, Pending
  <2> QED
    BY <1>0, <1>2, <1>3, <2>1, GoOnStep
<1>5. CASE call[c].answer = "granted"
  <2>t. PICK t \in Tids : t = call[c].info.tid
    BY <1>0, WaitFacts
  <2>1. /\ t \in alive /\ before[t] = None
        /\ \A d \in Tids \ {c} : Pending(d) => call[d].info.tid # t
    BY <1>0, <2>t, WaitFacts
  <2>2. misled' = misled \cup {t}
    BY <1>5, <2>t DEF Timeout, Mislead
  <2>3. call'[c] = x /\ \A d \in Tids \ {c} : call'[d] = call[d]
    BY <1>2 DEF IInv, CallsOK
  <2>4. ~ Pending(c)' /\ \A d \in Tids \ {c} : Pending(d)' <=> Pending(d)
    BY <1>3, <2>3 DEF Pending
  <2>5. UNCHANGED << alive, sched, before, infos, handles >>
    BY <1>0 DEF kernelVars, clientVars
  <2>6. t \in misled \/ VisibleLevel(t)' = "REALTIME"
    <3>1. VisibleLevel(t)' = Level(sched'[t])
      BY <2>1, <2>3, <2>4, NotPendingNext
    <3>2. t \in misled \/ RealTime(sched[t])
      BY <1>0, <1>5, <2>t DEF EInv, Promised, Pending
    <3> QED
      BY <2>5, <3>1, <3>2, LevelIs DEF IInv, SchedOK
  <2>7. ApartCalls'
    <3>1. \A d \in Tids : call'[d].info = call[d].info
      BY <1>3, <2>3
    <3>2. \A d \in Tids : call'[d].info # None => before'[call'[d].info.tid] = None
      BY <2>5, <3>1 DEF EInv, ApartCalls
    <3> QED
      BY <1>2, <1>3, <2>2, <3>2, ApartMove
  <2>8. \A i \in Infos : InUse(i)' => InUse(i)
    BY <1>3, <2>3, <2>5 DEF InUse
  <2>9. \A d \in Tids, u \in Tids \ {t} :
          /\ Pending(d)' /\ call'[d].info.tid = u <=> Pending(d) /\ call[d].info.tid = u
          /\ Pending(d) /\ call[d].info.tid = u => call'[d].info = call[d].info
    BY <2>t, <2>3, <2>4
  <2>10. /\ t \in misled \/ (VisibleLevel(t)' = "REALTIME" /\ before'[t] = None)
         /\ \A u \in Tids \ {t} : sched'[u] = sched[u] /\ before'[u] = before[u]
    BY <2>1, <2>5, <2>6
  <2> QED
    BY <2>1, <2>2, <2>5, <2>7, <2>8, <2>9, <2>10, AwayStep
<1> QED
  BY <1>4, <1>5

(* The daemon gets to a request after its timeout. *)
LEMMA LateStep ==
  ASSUME Exclusive, IInv, IInv', EInv, NEW t \in Tids, NEW p \in Procs, RtkitLate(t, p)
  PROVE  EInv' /\ Refines
<1>1. /\ UNCHANGED << alive, proc, clientVars, call >>
      /\ UNCHANGED << infos, handles, before >>
  BY DEF RtkitLate, clientVars
<1>2. \A i \in Infos : InUse(i)' => InUse(i)
  BY <1>1 DEF InUse
<1>3. \A d \in Tids : Pending(d)' <=> Pending(d)
  BY <1>1 DEF Pending
<1>4. CASE UNCHANGED << sched, misled >>
  BY <1>1, <1>2, <1>4, StillStep
<1>5. CASE /\ RtkitAccepts(t, p) /\ sched' = [sched EXCEPT ![t] = RtkitAttr]
           /\ Mislead(IF RealTime(sched[t]) THEN {} ELSE {t})
  <2>1. /\ t \in alive /\ sched'[t] = RtkitAttr
        /\ \A u \in Tids \ {t} : sched'[u] = sched[u]
    BY <1>5 DEF RtkitAccepts, IInv, SchedOK
  <2>2. RealTime(RtkitAttr) /\ Level(RtkitAttr) = "REALTIME"
    BY DEF RtkitAttr, RealTime, Level
  <2>3. CASE RealTime(sched[t])
    <3>1. misled' = misled
      BY <1>5, <2>3 DEF Mislead
    <3>2. \A u \in Tids : /\ RealTime(sched'[u]) <=> RealTime(sched[u])
                          /\ Level(sched'[u]) = Level(sched[u])
      BY <2>1, <2>2, <2>3 DEF Level
    <3>3. SeenSame
      BY <1>1, <1>3, <3>2, SeenLevel DEF SeenSame
    <3>4. FaithfulInfos' /\ Refines
      BY <1>1, <1>2, <3>1, <3>3, InfosKept, SeenRefines
    <3>5. ApartCalls'
      BY <1>1, <1>3, <3>1 DEF EInv, ApartCalls, RealTime
    <3>6. Promised'
      BY <1>1, <1>3, <3>1, <3>2 DEF EInv, Promised, RealTime
    <3> QED
      BY <1>1, <3>1, <3>4, <3>5, <3>6 DEF EInv
  <2>4. CASE ~ RealTime(sched[t])
    <3>1. misled' = misled \cup {t}
      BY <1>5, <2>4 DEF Mislead
    <3>2. t \in misled \/ (VisibleLevel(t)' = "REALTIME" /\ before'[t] = None)
      <4>1. CASE t \notin misled
        <5>1. /\ before[t] = None
              /\ \A d \in Tids : Pending(d) => call[d].info.tid # t
          BY <2>4, <4>1 DEF EInv, Promised
        <5>2. VisibleLevel(t)' = Level(sched'[t])
          BY <1>1, <1>3, <5>1, NotPendingNext
        <5> QED
          BY <1>1, <2>1, <2>2, <5>1, <5>2
      <4> QED
        BY <4>1
    <3>3. ApartCalls'
      BY <1>1, <1>3, <3>1 DEF EInv, ApartCalls, RealTime
    <3>4. \A d \in Tids, u \in Tids \ {t} :
            /\ Pending(d)' /\ call'[d].info.tid = u <=> Pending(d) /\ call[d].info.tid = u
            /\ Pending(d) /\ call[d].info.tid = u => call'[d].info = call[d].info
      BY <1>1, <1>3
    <3>5. \A u \in Tids \ {t} : sched'[u] = sched[u] /\ before'[u] = before[u]
      BY <1>1, <2>1
    <3>6. alive' = alive
      BY <1>1
    <3> QED
      BY <1>2, <2>1, <3>1, <3>2, <3>3, <3>4, <3>5, <3>6, AwayStep
  <2> QED
    BY <2>3, <2>4
<1> QED
  BY <1>4, <1>5 DEF RtkitLate

-----------------------------------------------------------------------------
(* All steps. *)

LEMMA ExclusiveClient ==
  ASSUME Exclusive, IInv, IInv', EInv, NEW c \in Tids, Client(c)
  PROVE  EInv' /\ Refines
<1>1. ASSUME get_current_thread_info(c), UNCHANGED rtkitVars
      PROVE  EInv' /\ Refines
  <2>1. Faithful(InfoOf(c))
    BY <1>1, GatheredFacts DEF get_current_thread_info, CanCall, InFlight
  <2>2. UNCHANGED << alive, sched, before, call, handles, misled >>
        /\ infos' = infos \cup {InfoOf(c)}
    BY <1>1 DEF get_current_thread_info, kernelVars, rtkitVars
  <2>3. \A i \in Infos : InUse(i)' => InUse(i) \/ Faithful(i)
    BY <2>1, <2>2 DEF InUse
  <2> QED
    BY <2>2, <2>3, StillStep
<1>2. ASSUME NEW f \in Frames, NEW r \in Rates, set_real_time_hard_limit(c, f, r)
      PROVE  EInv' /\ Refines
  BY <1>2, BeginPromise DEF set_real_time_hard_limit
<1>3. ASSUME NEW f \in Frames, NEW r \in Rates, PromoteCurrent(c, f, r)
      PROVE  EInv' /\ Refines
  <2>1. CanCall(c) /\ Quiet(c) /\ Begin(c, InfoOf(c), f, r)
    BY <1>3 DEF PromoteCurrent
  <2>2. Faithful(InfoOf(c)) /\ InfoOf(c).tid = c
    BY <2>1, GatheredFacts DEF CanCall, InFlight, InfoOf
  <2> QED
    BY <2>1, <2>2, BeginPromise
<1>4. ASSUME NEW i \in infos, NEW f \in Frames, NEW r \in Rates, PromoteThread(c, i, f, r)
      PROVE  EInv' /\ Refines
  <2>1. CanCall(c) /\ Quiet(i.tid) /\ Begin(c, i, f, r)
    BY <1>4 DEF PromoteThread
  <2>2. Faithful(i)
    BY UseFacts
  <2> QED
    BY <2>1, <2>2, BeginPromise
<1>5. ASSUME NEW k \in HandleIds, DemoteCurrent(c, k)
      PROVE  EInv' /\ Refines
  <2>i. PICK i \in Infos : i = handles[k].info
    BY <1>5, UseFacts DEF DemoteCurrent, GoodInfo
  <2>1. /\ GoodInfo(rttime, i) /\ Faithful(i)
        /\ c \in alive /\ i.tid = c /\ before[c] # None /\ ~ Targeted(c)
        /\ Restore(c, i.tid, i.saved)
        /\ UNCHANGED << alive, infos, call >>
        /\ handles' = [handles EXCEPT ![k] = None]
    BY <1>5, <2>i, UseFacts DEF DemoteCurrent, DemotedCurrentAttr, CanCall
  <2>2. i.saved \in Attrs /\ WellFormed(i.saved)
    BY <2>1, InfoFacts
  <2>3. \A h \in HandleIds : handles'[h] # None => handles'[h] = handles[h]
    BY <2>1 DEF IInv, ClientOK
  <2> QED
    BY <2>1, <2>2, <2>3, DemoteStep
<1>6. ASSUME NEW i \in infos, DemoteThread(c, i)
      PROVE  EInv' /\ Refines
  <2>1. /\ GoodInfo(rttime, i) /\ Faithful(i)
        /\ c \in alive /\ before[i.tid] # None /\ ~ Targeted(i.tid)
        /\ Restore(c, i.tid, DemotedThreadAttr(i.saved))
        /\ UNCHANGED << alive, infos, call, handles >>
    BY <1>6, UseFacts DEF DemoteThread, CanCall
  <2>2. /\ DemotedThreadAttr(i.saved) \in Attrs
        /\ WellFormed(DemotedThreadAttr(i.saved))
        /\ DemotedThreadAttr(i.saved).policy = i.saved.policy
    BY <2>1, InfoFacts, DemotedFacts DEF DemotedThreadAttr, Attrs
  <2>3. Level(DemotedThreadAttr(i.saved)) = Level(i.saved)
    BY <2>2 DEF Level, RealTime
  <2> QED
    BY <2>1, <2>2, <2>3, DemoteStep
<1> QED
  BY <1>1, <1>2, <1>3, <1>4, <1>5, <1>6 DEF Client

LEMMA ExclusiveContinue ==
  ASSUME Exclusive, IInv, IInv', EInv, NEW c \in Tids, Continue(c)
  PROVE  EInv' /\ Refines
<1>1. CASE Timeout(c)
  BY <1>1, TimeoutStep
<1>2. CASE Answered(c) /\ Granted(call[c].answer)
  BY <1>2, ReportStep DEF Answered, Granted, Pending
<1> QED
  BY <1>1, <1>2, UnseenContinue DEF Continue

LEMMA ExclusiveEnvironment ==
  ASSUME Exclusive, IInv, IInv', EInv, Environment
  PROVE  EInv' /\ Refines
<1>0. misled \subseteq alive
  BY DEF EInv
<1>1. ASSUME NEW p \in Tids, NEW u \in Tids, Spawn(p, u), misled' = misled \cap alive'
      PROVE  EInv' /\ Refines
  <2> DEFINE a == Inherited(sched[p])
  <2>1. a \in Attrs /\ ~ RealTime(a)
    BY InheritedFacts DEF IInv, SchedOK
  <2>2. u \notin alive /\ before[u] = None
    BY <1>1 DEF Spawn, EInv, Promised
  <2>3. /\ sched' = [sched EXCEPT ![u] = a]
        /\ before' = [before EXCEPT ![u] = None]
        /\ alive' = alive \cup {u}
        /\ misled' = misled \ {u}
        /\ UNCHANGED << infos, handles, call >>
    BY <1>0, <1>1, <2>2 DEF Spawn, IInv, ClientOK, clientVars
  <2>4. \A i \in Infos : InUse(i) => i.tid # u
    BY <2>2 DEF EInv, FaithfulInfos, Faithful
  <2>5. \A d \in Tids : call[d].info # None => call[d].info.tid # u
    BY <2>2, UseFacts DEF Faithful
  <2>6. \A i \in Infos : InUse(i)' => InUse(i)
    BY <2>3 DEF InUse
  <2>7. PICK b \in Attrs : b = a
    BY <2>1
  <2> HIDE DEF a
  <2> QED
    BY <2>1, <2>3, <2>4, <2>5, <2>6, <2>7, RestartStep
<1>2. ASSUME NEW t \in Tids, Exit(t), misled' = misled \cap alive'
      PROVE  EInv' /\ Refines
  <2>1. /\ sched' = [sched EXCEPT ![t] = OrdinaryAttr]
        /\ before' = [before EXCEPT ![t] = None]
        /\ alive' = alive \ {t}
        /\ misled' = misled \ {t}
        /\ infos' = {i \in infos : i.tid # t}
        /\ handles' = [k \in HandleIds |->
                         IF handles[k] # None /\ handles[k].info.tid = t
                         THEN None ELSE handles[k]]
        /\ call' = call
    BY <1>0, <1>2 DEF Exit, Remember
  <2>2. \A d \in Tids : call[d].info # None => call[d].info.tid # t
    BY <1>2 DEF Exit, Targeted
  <2>3. \A i \in Infos : InUse(i)' => InUse(i) /\ i.tid # t
    BY <2>1, <2>2 DEF InUse
  <2> QED
    BY <2>1, <2>2, <2>3, OrdinaryFacts, RestartStep
<1>3. ASSUME UNCHANGED << alive, sched, clientVars, call >>, misled' = misled \cap alive'
      PROVE  EInv' /\ Refines
  BY <1>0, <1>3, StillStep DEF InUse, clientVars
<1>4. CASE LinuxEnvironment /\ misled' = misled \cap alive'
  BY <1>1, <1>2, <1>3, <1>4 DEF LinuxEnvironment, SetRtprio, DropPrivilege
<1>5. ASSUME NEW k \in HandleIds, DropHandle(k), UNCHANGED rtkitVars
      PROVE  EInv' /\ Refines
  <2>1. UNCHANGED << alive, sched, before, call, infos, misled >>
        /\ handles' = [handles EXCEPT ![k] = None]
    BY <1>5 DEF DropHandle, kernelVars, rtkitVars
  <2>2. \A i \in Infos : InUse(i)' => InUse(i)
    BY <2>1 DEF InUse, IInv, ClientOK
  <2> QED
    BY <2>1, <2>2, StillStep
<1>6. ASSUME NEW c \in Tids, RtkitAnswer(c)
      PROVE  EInv' /\ Refines
  <2>1. /\ call[c].pc = "wait" /\ call[c].answer = None
        /\ UNCHANGED << alive, privileged, rtprio, proc, clientVars, rtkitVars >>
    BY <1>6 DEF RtkitAnswer
  <2>2. CASE sched' = [sched EXCEPT ![call[c].info.tid] = RtkitAttr]
             /\ call' = [call EXCEPT ![c].answer = "granted"]
    BY <2>1, <2>2, GrantStep
  <2>3. CASE sched' = sched /\ call' = [call EXCEPT ![c].answer = "refused"]
    <3> DEFINE x == [call[c] EXCEPT !.answer = "refused"]
    <3>1. x.pc = "wait" /\ x.info = call[c].info /\ x.answer = "refused"
      BY <2>1, WaitFacts DEF Calls
    <3>2. call' = [call EXCEPT ![c] = x] /\ ~ Pending(c)
      BY <2>1, <2>3, RtkitAssumption DEF Pending
    <3>3. UNCHANGED << kernelVars, clientVars, misled >>
      BY <2>1, <2>3 DEF kernelVars, rtkitVars
    <3> HIDE DEF x
    <3> QED
      BY <3>1, <3>2, <3>3, GoOnStep
  <2> QED
    BY <1>6, <2>2, <2>3 DEF RtkitAnswer
<1>7. ASSUME NEW p \in Sandboxed, Lockdown(p)
      PROVE  EInv' /\ Refines
  BY <1>7, StillStep DEF Lockdown, InUse, kernelVars, clientVars
<1> QED
  BY <1>4, <1>5, <1>6, <1>7, LateStep DEF Environment

LEMMA ExclusiveStep ==
  ASSUME Exclusive, IInv, EInv, [Next]_vars
  PROVE  EInv' /\ Refines
<1>1. CASE UNCHANGED vars
  BY <1>1, StillStep DEF vars, InUse
<1>2. IInv'
  BY ClientStep, ContinueStep, EnvironmentStep, StutterStep DEF Next
<1> QED
  BY <1>1, <1>2, ExclusiveClient, ExclusiveContinue, ExclusiveEnvironment DEF Next

LEMMA InitEInv == Init => EInv /\ Contract!MisledInit
<1> SUFFICES ASSUME Init PROVE EInv /\ Contract!MisledInit
  OBVIOUS
<1> USE DEF Init, LinuxInit
<1>1. \A c \in Tids : call[c].pc = "idle" /\ call[c].info = None /\ ~ Pending(c)
  BY DEF Idle, Pending
<1>2. \A t \in Tids : sched[t] \in Attrs /\ ~ RealTime(sched[t])
  <2> TAKE t \in Tids
  <2> DEFINE p == IF t \in Batch THEN "BATCH" ELSE "OTHER"
  <2>1. sched[t] = [OrdinaryAttr EXCEPT !.policy = p]
    OBVIOUS
  <2>2. sched[t].policy = p
    BY <2>1 DEF OrdinaryAttr
  <2> QED
    BY <2>2, InitIInv DEF RealTime, IInv, SchedOK
<1>3. FaithfulInfos
  BY <1>1 DEF FaithfulInfos, InUse
<1>4. ApartCalls /\ Promised
  BY <1>1, <1>2 DEF ApartCalls, Promised
<1>5. Contract!MisledInit
  <2>1. \A t \in Tids : VisibleLevel(t) \in Levels \ RealTimeLevels
    BY <1>1, <1>2, NotPending, LevelIs DEF RealTimeLevels
  <2> QED
    BY <2>1 DEF Contract!MisledInit, Contract!Init, Contract!Ordinary
<1> QED
  BY <1>3, <1>4, <1>5 DEF EInv

LEMMA ExclusiveInductive ==
  ASSUME Exclusive
  PROVE  Spec => [](IInv /\ EInv)
<1>1. Init => EInv
  BY InitEInv
<1>2. IInv /\ EInv /\ [Next]_vars => EInv'
  BY ExclusiveStep
<1> QED
  BY <1>1, <1>2, Inductive, PTL DEF Spec

(* With clients that use each thread from one place at a time the backend keeps
   the contract of every thread of which its client has not been misled, whatever
   privilege the processes have or give up, however late the daemon is, and
   whatever other threads and the limits of the process do between the steps of a
   promotion: a promotion reports Ok exactly when it has moved the thread to a
   real-time level, and a demotion brings it back to the level it had before. *)
THEOREM RtkitKeepsContract ==
  ASSUME Exclusive
  PROVE  Spec => KeepsContract
<1>1. Init => EInv /\ Contract!MisledInit
  BY InitEInv
<1>2. IInv /\ EInv /\ [Next]_vars => EInv' /\ [Contract!MisledNext]_(Contract!misledVars)
  BY ExclusiveStep DEF Refines, visible, Contract!misledVars
<1> QED
  BY <1>1, <1>2, Inductive, PTL DEF Spec, KeepsContract, Contract!MisledSpec

(* A thread whose client has not been misled is real-time exactly while a
   promotion is in effect or about to be reported. *)
THEOREM RealTimePromised ==
  ASSUME Exclusive
  PROVE  Spec => []RealTimeIffPromised
<1>1. EInv => RealTimeIffPromised
  BY DEF EInv, Promised, Pending, RealTimeIffPromised
<1> QED
  BY <1>1, ExclusiveInductive, PTL

-----------------------------------------------------------------------------
(* When a client is misled. *)

(* This step misleads a client about t only in one of the ways that are known. *)
MisledKnown ==
  \A t \in misled' \ misled :
    \/ \E c \in Tids :
         /\ call[c].pc = "wait" /\ call'[c].pc = "rollback_get"
         /\ call[c].answer = "granted" /\ call[c].info.tid = t
    \/ \E p \in Procs : <<t, p>> \in late \ late'
    \/ /\ proc[t] \notin privileged
       /\ \E k \in HandleIds : /\ handles[k] # None /\ handles'[k] = None
                               /\ handles[k].info.tid = t

(* The history is not kept of clients that are not exclusive. *)
LEMMA RacesBlur ==
  ASSUME ~ Exclusive, [Next]_vars
  PROVE  misled' \subseteq misled
<1>1. ASSUME NEW c \in Tids, Client(c) PROVE misled' = misled
  BY <1>1 DEF Client, get_current_thread_info, set_real_time_hard_limit,
     PromoteCurrent, PromoteThread, Begin, DemoteCurrent, DemoteThread, Restore,
     Report, Mislead, rtkitVars
<1>2. ASSUME NEW c \in Tids, Continue(c) PROVE misled' = misled
  BY <1>2 DEF Continue, GetLimits, SetLimits, Request, Answered, Timeout, Mislead,
     RollbackGet, RollbackSet, rtkitVars
<1>3. ASSUME Environment PROVE misled' \subseteq misled
  BY <1>3 DEF Environment, RtkitAnswer, RtkitLate, Mislead, Lockdown, rtkitVars
<1> QED
  BY <1>1, <1>2, <1>3 DEF Next, vars

(* Restoring a thread misleads only when the kernel refuses. *)
LEMMA RestoreMisleads ==
  ASSUME NEW c, NEW t, NEW new, Restore(c, t, new)
  PROVE  misled' \subseteq misled \/ (misled' \subseteq misled \cup {t} /\ Errno(c, t, new) # 0)
  BY DEF Restore, Report, Mislead

LEMMA KnownStep ==
  ASSUME IInv, EInv, [Next]_vars
  PROVE  MisledKnown
<1>1. ASSUME NEW c \in Tids, NEW k \in HandleIds, DemoteCurrent(c, k)
      PROVE  MisledKnown
  <2>1. /\ c \in alive /\ handles[k] # None /\ handles'[k] = None
        /\ handles[k].info.tid = c /\ GoodInfo(rttime, handles[k].info)
        /\ Restore(c, c, handles[k].info.saved)
    BY <1>1, UseFacts DEF DemoteCurrent, CanCall, DemotedCurrentAttr, IInv, ClientOK
  <2>2. Errno(c, c, handles[k].info.saved) # 0 => proc[c] \notin privileged
    BY <2>1, InfoFacts DEF Errno
  <2> QED
    BY <2>1, <2>2, RestoreMisleads DEF MisledKnown
<1>2. ASSUME NEW c \in Tids, NEW i \in infos, DemoteThread(c, i),
             Exclusive
      PROVE  MisledKnown
  <2>1. /\ i.tid \in alive /\ before[i.tid] # None /\ proc[c] = proc[i.tid]
        /\ GoodInfo(rttime, i) /\ Faithful(i) /\ i.tid \in Tids
        /\ Restore(c, i.tid, DemotedThreadAttr(i.saved))
    BY <1>2, UseFacts, InfoFacts DEF DemoteThread, CanCall
  <2>2. CASE i.tid \in misled
    BY <2>1, <2>2, RestoreMisleads DEF MisledKnown
  <2>3. CASE i.tid \notin misled
    <3>1. i.saved \in Attrs /\ WellFormed(i.saved) /\ ~ RealTime(i.saved)
      BY <2>1, <2>3, InfoFacts, LevelIs DEF Faithful, Origin, EInv, Promised
    <3>2. /\ WellFormed(DemotedThreadAttr(i.saved)) /\ DemotedThreadAttr(i.saved).reset
          /\ ~ RealTime(DemotedThreadAttr(i.saved))
      BY <3>1, DemotedFacts DEF DemotedThreadAttr, RealTime, Attrs
    <3>3. Errno(c, i.tid, DemotedThreadAttr(i.saved)) = 0
      BY <2>1, <3>2 DEF Errno, Permitted
    <3> QED
      BY <2>1, <3>3, RestoreMisleads DEF MisledKnown
  <2> QED
    BY <2>2, <2>3
<1>3. ASSUME NEW c \in Tids, Timeout(c) PROVE MisledKnown
  <2>1. call'[c].pc = "rollback_get"
    BY <1>3, CallOf DEF Timeout, Goto, IInv, CallsOK, GoodCall, Calls
  <2> QED
    BY <1>3, <2>1 DEF MisledKnown, Timeout, Mislead
<1>4. ASSUME NEW t \in Tids, NEW p \in Procs, RtkitLate(t, p) PROVE MisledKnown
  BY <1>4 DEF MisledKnown, RtkitLate, Mislead
<1>5. ASSUME misled' \subseteq misled PROVE MisledKnown
  BY <1>5 DEF MisledKnown
<1>6. ASSUME NEW c \in Tids, Client(c) PROVE MisledKnown
  <2>1. CASE ~ Exclusive
    BY <1>5, <2>1, RacesBlur
  <2>2. CASE UNCHANGED rtkitVars
    BY <1>5, <2>2 DEF rtkitVars
  <2> QED
    BY <1>1, <1>2, <1>6, <2>1, <2>2 DEF Client, set_real_time_hard_limit,
       PromoteCurrent, PromoteThread, Begin
<1>7. ASSUME NEW c \in Tids, Continue(c) PROVE MisledKnown
  <2>1. CASE misled' = misled
    BY <1>5, <2>1
  <2> QED
    BY <1>3, <1>7, <2>1 DEF Continue, GetLimits, SetLimits, Request, Answered,
       RollbackGet, RollbackSet, rtkitVars
<1>8. ASSUME Environment PROVE MisledKnown
  BY <1>4, <1>5, <1>8 DEF Environment, RtkitAnswer, Lockdown, rtkitVars
<1> QED
  BY <1>5, <1>6, <1>7, <1>8 DEF Next, vars

(* A client is misled only by a request that is granted before or after its
   timeout, and by demote_current_thread_from_real_time in a process without
   privilege: never by demote_thread_from_real_time. *)
THEOREM MisledOnlyThus == Spec => MisledOnly
<1>1. IInv /\ (Exclusive => EInv) /\ [Next]_vars => MisledKnown
  <2>1. CASE Exclusive
    BY <2>1, KnownStep
  <2>2. CASE ~ Exclusive
    BY <2>2, RacesBlur DEF MisledKnown
  <2> QED
    BY <2>1, <2>2
<1>2. CASE Exclusive
  <2>1. IInv /\ EInv /\ [Next]_vars => [MisledKnown]_vars
    BY <1>1
  <2> QED
    BY <1>2, <2>1, ExclusiveInductive, PTL DEF Spec, MisledOnly, MisledKnown
<1>3. CASE ~ Exclusive
  <2>1. [Next]_vars /\ IInv => [MisledKnown]_vars
    BY <1>1, <1>3
  <2> QED
    BY <1>3, <2>1, Inductive, PTL DEF Spec, MisledOnly, MisledKnown
<1> QED
  BY <1>2, <1>3
=============================================================================
