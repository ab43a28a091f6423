----------------------------- MODULE RtMachProofs -----------------------------
(***************************************************************************)
(* Theorems about RtMach, for any threads, time base, buffer sizes and     *)
(* sample rates.                                                           *)
(***************************************************************************)
EXTENDS RtMach, TLAPS

Own == {Default, Custom}

(* What a promotion and its handle know of thread t: the time constraint read
   is still the one reported, a handle holds what is to come back, and a thread
   has a requested time constraint exactly while a promotion is in effect. *)
Known(t) ==
  /\ call[t] # None => /\ call[t].previous = Reported(policy[t])
                       /\ handle[t] = None /\ before[t] = None
  /\ handle[t] # None => handle[t] = before[t]
  /\ before[t] = None => Reported(policy[t]) \in Own
  /\ before[t] # None => policy[t] \in Requests

IInv == TypeOK /\ \A t \in Threads : Known(t)

Calls == [previous : Own, request : Requests]

-----------------------------------------------------------------------------

LEMMA OwnFacts ==
  /\ Own \subseteq TimeConstraints
  /\ Timeshare \notin Own /\ None \notin Own /\ Timeshare # None
  /\ \A p \in Own : Reported(p) = p
  /\ Reported(Timeshare) \in Own
  /\ Own \cap Requests = {}
  BY MachAssumption, OwnAssumption DEF Own, Reported

(* The kernel has a reason to refuse the request only if the buffer is short. *)
OnlyShortRefused(tc) == Acceptable(tc) <=> 2 * MinComputation <= tc.constraint

(* What a promotion asks for fits the fields, is no more than the kernel lets a
   thread compute, and no more than its constraint. *)
LEMMA RequestFacts ==
  ASSUME NEW f \in Nat, NEW r \in Nat, r # 0
  PROVE  Request(f, r) \in TimeConstraints /\ OnlyShortRefused(Request(f, r))
<1> DEFINE d == Duration(BufferFrames(f, r), r)
           q == MAX_RT_QUANTUM * TicksPerMs
           min == MinComputation
<1>1. BufferFrames(f, r) \in Nat
  <2>1. r \div 20 \in Nat
    OBVIOUS
  <2> QED
    BY <2>1 DEF BufferFrames
<1>2. d \in Nat
  <2>1. \A n \in Nat : n \div r \in Nat
    OBVIOUS
  <2>2. \A n \in Nat : n * 1000 * TicksPerMs \in Nat
    BY MachAssumption
  <2> QED
    BY <1>1, <2>1, <2>2 DEF Duration
<1>3. q \in Nat /\ q <= U32Max /\ U32Max \in Nat
  BY MachAssumption DEF MAX_RT_QUANTUM
<1>m. min \in Nat /\ 2 * min <= q
  <2>1. TicksPerMs \in Nat /\ TicksPerMs \div 20 \in Nat
        /\ TicksPerMs \div 20 <= TicksPerMs
    BY MachAssumption
  <2> QED
    BY <2>1 DEF MinComputation, MAX_RT_QUANTUM
<1> HIDE DEF d, q, min
<1>4. d \div 2 \in Nat /\ d \div 2 <= d
  BY <1>2
<1>5. /\ AtMost(d, U32Max) \in 0..U32Max
      /\ AtMost(d \div 2, q) \in 0..U32Max
      /\ AtMost(d \div 2, q) <= q
      /\ AtMost(d \div 2, q) <= AtMost(d, U32Max)
  BY <1>2, <1>3, <1>4 DEF AtMost
<1>6. Request(f, r) = [period |-> AtMost(d, U32Max), computation |-> AtMost(d \div 2, q),
                       constraint |-> AtMost(d, U32Max), preemptible |-> TRUE]
  BY DEF Request, Computation, d, q
<1>7. Request(f, r) \in TimeConstraints
  BY <1>5, <1>6 DEF TimeConstraints
<1>8. Request(f, r).computation <= q
      /\ Request(f, r).computation <= Request(f, r).constraint
  BY <1>5, <1>6
<1>9. min <= AtMost(d \div 2, q) <=> 2 * min <= AtMost(d, U32Max)
  <2>1. min <= d \div 2 <=> 2 * min <= d
    BY <1>2, <1>m
  <2> QED
    BY <1>2, <1>3, <1>4, <1>m, <2>1 DEF AtMost
<1>10. min <= Request(f, r).computation <=> 2 * min <= Request(f, r).constraint
  BY <1>6, <1>9
<1> QED
  BY <1>7, <1>8, <1>10 DEF OnlyShortRefused, Acceptable, q, min

LEMMA RequestsFacts ==
  \A q \in Requests : q \in TimeConstraints /\ OnlyShortRefused(q)
  BY RequestFacts, MachAssumption DEF Requests

LEMMA Distinct ==
  /\ Timeshare \notin Requests /\ None \notin Requests
  /\ \A p \in Requests : Reported(p) = p
  /\ \A c \in Calls : c # None => c.previous \in Own /\ c.request \in Requests
<1>1. Timeshare \notin Requests /\ None \notin Requests
  BY RequestsFacts, MachAssumption
<1>2. \A p \in Requests : Reported(p) = p
  BY <1>1 DEF Reported
<1> QED
  BY <1>1, <1>2 DEF Calls

(* The type invariant in the names of this module. *)
LEMMA Types ==
  ASSUME TypeOK
  PROVE  /\ policy \in [Threads -> Requests \cup Own \cup {Timeshare}]
         /\ call \in [Threads -> Calls \cup {None}]
         /\ handle \in [Threads -> Own \cup {None}]
         /\ before \in [Threads -> Own \cup {None}]
<1>1. Requests \cup {Timeshare, Default, Custom} = Requests \cup Own \cup {Timeshare}
      /\ {Default, Custom, None} = Own \cup {None}
  BY DEF Own
<1> QED
  BY <1>1 DEF TypeOK, Calls, Own

-----------------------------------------------------------------------------
(* Each action changes one thread and leaves the invariant. *)

LEMMA PromoteStep ==
  ASSUME IInv, NEW t \in Threads, NEW f \in Frames, NEW r \in Rates, Promote(t, f, r)
  PROVE  IInv'
<1>1. Request(f, r) \in Requests
  BY DEF Promote, Requests
<1>2. Reported(policy[t]) \in Own /\ before[t] = None /\ handle[t] = None
  BY OwnFacts DEF Promote, IInv, Known
<1> DEFINE new == [previous |-> Reported(policy[t]), request |-> Request(f, r)]
<1>3. new \in [previous : {Default, Custom}, request : Requests]
  BY <1>1, <1>2 DEF Own
<1>4. call' = [call EXCEPT ![t] = new] /\ UNCHANGED << policy, handle, before >>
  BY DEF Promote
<1>5. new.previous = Reported(policy[t])
  OBVIOUS
<1> HIDE DEF new
<1>6. TypeOK'
  BY <1>3, <1>4 DEF IInv, TypeOK
<1>7. \A u \in Threads : Known(u)'
  BY <1>2, <1>4, <1>5 DEF IInv, TypeOK, Known, Reported
<1> QED
  BY <1>6, <1>7 DEF IInv

LEMMA PromoteSetStep ==
  ASSUME IInv, NEW t \in Threads, PromoteSet(t) PROVE IInv'
<1>1. /\ call[t].previous = Reported(policy[t]) /\ handle[t] = None /\ before[t] = None
      /\ call[t].previous \in Own /\ call[t].request \in Requests
  BY Types, Distinct DEF PromoteSet, IInv, Known
<1>2. call' = [call EXCEPT ![t] = None]
  BY DEF PromoteSet
<1>3. CASE UNCHANGED << policy, handle, before >>
  <2>1. TypeOK'
    BY <1>2, <1>3 DEF IInv, TypeOK
  <2>2. \A u \in Threads : Known(u)'
    BY <1>2, <1>3 DEF IInv, TypeOK, Known, Reported
  <2> QED
    BY <2>1, <2>2 DEF IInv
<1>4. CASE /\ policy' = [policy EXCEPT ![t] = call[t].request]
           /\ handle' = [handle EXCEPT ![t] = call[t].previous]
           /\ before' = [before EXCEPT ![t] = call[t].previous]
  <2>1. TypeOK'
    BY <1>1, <1>2, <1>4 DEF IInv, TypeOK, Own
  <2>2. \A u \in Threads : Known(u)'
    BY <1>1, <1>2, <1>4, OwnFacts DEF IInv, TypeOK, Known, Reported
  <2> QED
    BY <2>1, <2>2 DEF IInv
<1> QED
  BY <1>1, <1>3, <1>4 DEF PromoteSet, Previous

LEMMA DemoteStep ==
  ASSUME IInv, NEW t \in Threads, Demote(t) PROVE IInv'
<1>1. handle[t] = before[t] /\ handle[t] \in Own
  BY Types DEF Demote, IInv, Known
<1>2. call[t] = None
  BY DEF Demote, IInv, Known
<1>3. TypeOK'
  BY <1>1 DEF Demote, IInv, TypeOK, Own
<1>4. \A u \in Threads : Known(u)'
  BY <1>1, <1>2, OwnFacts DEF Demote, IInv, TypeOK, Known, Reported
<1> QED
  BY <1>3, <1>4 DEF IInv

LEMMA RestartStep ==
  ASSUME IInv, NEW t \in Threads, Restart(t) PROVE IInv'
<1>1. TypeOK'
  BY DEF Restart, IInv, TypeOK
<1>2. \A u \in Threads : Known(u)'
  BY OwnFacts DEF Restart, IInv, TypeOK, Known, Reported, Own
<1> QED
  BY <1>1, <1>2 DEF IInv

LEMMA DropStep ==
  ASSUME IInv, (\E t \in Threads : DropHandle(t)) \/ UNCHANGED vars PROVE IInv'
BY DEF IInv, TypeOK, Known, Reported, DropHandle, vars

(* The invariant is inductive. *)
THEOREM Inductive == Spec => []IInv
<1>1. Init => IInv
  BY OwnFacts DEF Init, IInv, TypeOK, Known, Reported, Own
<1>2. IInv /\ [Next]_vars => IInv'
  BY PromoteStep, PromoteSetStep, DemoteStep, RestartStep, DropStep DEF Next
<1> QED
  BY <1>1, <1>2, PTL DEF Spec

-----------------------------------------------------------------------------
(* What follows from it. *)

(* Type correctness. *)
THEOREM TypeCorrect == Spec => []TypeOK
  BY Inductive, PTL DEF IInv

(* The kernel has a reason to refuse what a promotion asks for exactly when the
   buffer lasts less than 100us. *)
THEOREM OnlyShortBuffersRefused == Spec => []RequestAcceptable
<1>1. IInv => RequestAcceptable
  BY Types, Distinct, RequestsFacts DEF IInv, RequestAcceptable, OnlyShortRefused
<1> QED
  BY <1>1, Inductive, PTL

(* The backend implements the contract, as far as thread_policy_get tells. *)
THEOREM MachKeepsContract == Spec => KeepsContract
<1> DEFINE level == [t \in Threads |-> Reported(policy[t])]
<1>1. Own \subseteq Contract!Ordinary
  BY OwnFacts DEF Contract!Ordinary, Levels, RealTimeLevels, Own
<1>2. Init => Contract!Init
  BY <1>1, OwnFacts DEF Init, Contract!Init, Own
<1>3. IInv /\ [Next]_vars => [Contract!Next]_(Contract!vars)
  <2> SUFFICES ASSUME IInv, [Next]_vars PROVE [Contract!Next]_(Contract!vars)
    OBVIOUS
  <2>0. ASSUME UNCHANGED << policy, before >> PROVE UNCHANGED Contract!vars
    BY <2>0 DEF Contract!vars, Reported
  <2>1. ASSUME NEW t \in Threads, PromoteSet(t)
        PROVE  Contract!Promote(t) \/ UNCHANGED << policy, before >>
    <3>1. before[t] = None /\ call[t].request \in Requests
      BY <2>1, Types, Distinct DEF PromoteSet, IInv, Known
    <3>2. ASSUME policy' = [policy EXCEPT ![t] = call[t].request],
                 before' = [before EXCEPT ![t] = Reported(policy[t])]
          PROVE  Contract!Promote(t)
      <4>1. level' = [level EXCEPT ![t] = call[t].request]
        BY <3>1, <3>2, Distinct DEF IInv, TypeOK, Reported
      <4> QED
        BY <3>1, <3>2, <4>1 DEF Contract!Promote, RealTimeLevels
    <3> QED
      BY <2>1, <3>2 DEF PromoteSet
  <2>2. ASSUME NEW t \in Threads, Demote(t)
        PROVE  Contract!Demote(t) \/ UNCHANGED << policy, before >>
    <3>1. handle[t] = before[t] /\ handle[t] \in Own /\ before[t] # None
      BY <2>2, Types DEF Demote, IInv, Known
    <3>2. ASSUME policy' = [policy EXCEPT ![t] = handle[t]],
                 before' = [before EXCEPT ![t] = None]
          PROVE  Contract!Demote(t)
      <4>1. level' = [level EXCEPT ![t] = before[t]]
        BY <3>1, <3>2, OwnFacts DEF IInv, TypeOK, Reported
      <4> QED
        BY <3>1, <3>2, <4>1 DEF Contract!Demote
    <3> QED
      BY <2>2, <3>2 DEF Demote
  <2>3. ASSUME NEW t \in Threads, Restart(t) PROVE Contract!Restart(t)
    <3>1. PICK p \in {Timeshare, Custom} : policy' = [policy EXCEPT ![t] = p]
      BY <2>3 DEF Restart
    <3>2. level' = [level EXCEPT ![t] = Reported(p)]
      BY <3>1 DEF IInv, TypeOK, Reported
    <3>3. Reported(p) \in Own
      BY <3>1, OwnFacts DEF Own
    <3> QED
      BY <2>3, <3>2, <3>3, <1>1 DEF Restart, Contract!Restart
  <2>4. ASSUME \/ \E t \in Threads, f \in Frames, r \in Rates : Promote(t, f, r)
               \/ \E t \in Threads : DropHandle(t)
               \/ UNCHANGED vars
        PROVE  UNCHANGED << policy, before >>
    BY <2>4 DEF Promote, DropHandle, vars
  <2> QED
    BY <2>0, <2>1, <2>2, <2>3, <2>4 DEF Next, Contract!Next
<1> QED
  BY <1>2, <1>3, Inductive, PTL DEF Spec, KeepsContract, Contract!Spec

(* In particular a thread has a time constraint of the library exactly while a
   promotion is in effect: a demotion never leaves one behind. *)
THEOREM MachRealTime == Spec => []Contract!RealTimeIffPromised
<1>1. ASSUME IInv, NEW t \in Threads
      PROVE  Reported(policy[t]) \in Requests <=> before[t] # None
  <2>1. CASE before[t] = None
    BY <1>1, <2>1, OwnFacts DEF IInv, Known
  <2>2. CASE before[t] # None
    <3>1. policy[t] \in Requests
      BY <1>1, <2>2 DEF IInv, Known
    <3>2. policy[t] # Timeshare
      BY <3>1, Distinct
    <3> QED
      BY <2>2, <3>1, <3>2 DEF Reported
  <2> QED
    BY <2>1, <2>2
<1>2. IInv => Contract!RealTimeIffPromised
  BY <1>1 DEF Contract!RealTimeIffPromised, RealTimeLevels
<1> QED
  BY <1>2, Inductive, PTL
=============================================================================
