-------------------------- MODULE LinuxThreadsProofs --------------------------
(***************************************************************************)
(* Facts about the operators of LinuxThreads that the proofs about both    *)
(* Linux backends use.                                                     *)
(***************************************************************************)
EXTENDS LinuxThreads, TLAPS

(* The attributes of an exited thread, and of the child of a real-time one. *)
LEMMA OrdinaryFacts ==
  OrdinaryAttr \in Attrs /\ ~ RealTime(OrdinaryAttr) /\ WellFormed(OrdinaryAttr)
  BY DEF OrdinaryAttr, Attrs, Policies, RealTime, WellFormed

(* A new thread gets attributes the kernel accepts, and with SCHED_RESET_ON_FORK
   on the parent never real-time ones. *)
LEMMA InheritedFacts ==
  ASSUME NEW a \in Attrs, WellFormed(a)
  PROVE  /\ Inherited(a) \in Attrs
         /\ WellFormed(Inherited(a))
         /\ (RealTime(a) => a.reset) => ~ RealTime(Inherited(a))
<1>1. CASE a.reset /\ ~ RealTime(a)
  <2> DEFINE b == [a EXCEPT !.reset = FALSE]
  <2>1. b \in Attrs /\ b.policy = a.policy /\ b.priority = a.priority
    BY DEF Attrs
  <2>2. Inherited(a) = b
    BY <1>1 DEF Inherited
  <2> QED
    BY <1>1, <2>1, <2>2 DEF WellFormed, RealTime
<1>2. CASE a.reset /\ RealTime(a)
  BY <1>2, OrdinaryFacts DEF Inherited
<1>3. CASE ~ a.reset
  BY <1>3 DEF Inherited
<1> QED
  BY <1>1, <1>2, <1>3 DEF Attrs

(* All attributes have a level. *)
LEMMA LevelFacts ==
  ASSUME NEW a \in Attrs
  PROVE  Level(a) \in Levels
  BY DEF Level, Levels, Attrs, Policies, RealTime

(* The history stays a history of levels. *)
LEMMA RememberFacts ==
  ASSUME before \in [Tids -> Levels \cup {None}], NEW t \in Tids,
         NEW l \in Levels \cup {None}, Remember(t, l)
  PROVE  before' \in [Tids -> Levels \cup {None}]
  BY DEF Remember

(* Every thread starts with an ordinary level. *)
LEMMA StartFacts ==
  ASSUME LinuxInit
  PROVE  /\ sched \in [Tids -> Attrs]
         /\ \A t \in Tids : ~ RealTime(sched[t]) /\ WellFormed(sched[t])
<1>1. \A t \in Tids : /\ sched[t] \in Attrs
                      /\ ~ RealTime(sched[t])
                      /\ WellFormed(sched[t])
  <2> TAKE t \in Tids
  <2> DEFINE p == IF t \in Batch THEN "BATCH" ELSE "OTHER"
  <2>1. sched[t] = [OrdinaryAttr EXCEPT !.policy = p]
    BY DEF LinuxInit
  <2>2. sched[t] = [policy |-> p, reset |-> FALSE, priority |-> 0]
    BY <2>1 DEF OrdinaryAttr
  <2>3. p \in {"OTHER", "BATCH"}
    OBVIOUS
  <2> HIDE DEF p
  <2> QED
    BY <2>2, <2>3 DEF Attrs, Policies, RealTime, WellFormed
<1>2. DOMAIN sched = Tids /\ sched = [t \in Tids |-> sched[t]]
  BY DEF LinuxInit
<1> QED
  BY <1>1, <1>2
=============================================================================
