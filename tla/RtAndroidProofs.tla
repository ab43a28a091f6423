--------------------------- MODULE RtAndroidProofs ---------------------------
(***************************************************************************)
(* Theorems about RtAndroid, for any set of threads, any nice values and   *)
(* any floors.                                                             *)
(***************************************************************************)
EXTENDS RtAndroid, TLAPS

(* What a promotion and its handle know of thread t: between the two system
   calls the value read is still the nice value, a handle holds what is to come
   back, and a thread has the urgent audio priority exactly while a promotion
   is in effect. *)
Known(t) ==
  /\ call[t] # None => call[t] = nice[t] /\ handle[t] = None /\ before[t] = None
  /\ handle[t] # None => handle[t] = before[t]
  /\ before[t] = None => nice[t] \in Nices
  /\ before[t] # None => nice[t] = THREAD_PRIORITY_URGENT_AUDIO

IInv == TypeOK /\ ErrorIffRefused /\ \A t \in Threads : Known(t)

LEMMA NiceFacts ==
  /\ None \notin Nices /\ Nices \subseteq Int
  /\ THREAD_PRIORITY_URGENT_AUDIO \in Int \ Nices
<1>1. \A n \in Nices : n \in Int
  BY AndroidAssumption
<1>2. None \notin Nices
  BY <1>1, AndroidAssumption
<1> QED
  BY <1>1, <1>2, AndroidAssumption DEF THREAD_PRIORITY_URGENT_AUDIO

LEMMA ReturnsFacts ==
  ASSUME TypeOK, NEW t \in Threads, NEW ok \in BOOLEAN, NEW refused \in BOOLEAN,
         Returns(t, ok, refused)
  PROVE  outcome' \in [Threads -> [ok : BOOLEAN, refused : BOOLEAN]]
<1>1. [ok |-> ok, refused |-> refused] \in [ok : BOOLEAN, refused : BOOLEAN]
  OBVIOUS
<1> QED
  BY <1>1, Zenon DEF TypeOK, Returns

(* Each action changes one thread and leaves the invariant. *)
LEMMA PromoteStep ==
  ASSUME IInv, NEW t \in Threads, Promote(t) PROVE IInv'
<1>1. PICK refused \in BOOLEAN :
        /\ errno' = [errno EXCEPT ![t] = refused]
        /\ IF refused
           THEN Returns(t, FALSE, refused) /\ UNCHANGED call
           ELSE call' = [call EXCEPT ![t] = nice[t]] /\ UNCHANGED outcome
  BY DEF Promote, GetFailed, ErrnoCleared
<1>2. nice[t] \in Nices /\ call[t] = None /\ handle[t] = None /\ before[t] = None
  BY DEF Promote, IInv, Known
<1>3. UNCHANGED << nice, floor, handle, before >>
  BY DEF Promote
<1>4. TypeOK'
  <2>1. outcome' \in [Threads -> [ok : BOOLEAN, refused : BOOLEAN]]
    BY <1>1, ReturnsFacts DEF IInv, TypeOK
  <2>2. errno' \in [Threads -> BOOLEAN]
    BY <1>1, Zenon DEF IInv, TypeOK
  <2>3. call' \in [Threads -> Nices \cup {None}]
    BY <1>1, <1>2 DEF IInv, TypeOK
  <2> QED
    BY <2>1, <2>2, <2>3, <1>3 DEF IInv, TypeOK
<1>5. ErrorIffRefused'
  BY <1>1 DEF IInv, TypeOK, ErrorIffRefused, Returns
<1>6. \A u \in Threads : Known(u)'
  <2> SUFFICES ASSUME NEW u \in Threads PROVE Known(u)'
    OBVIOUS
  <2>1. call'[u] = call[u] \/ (u = t /\ call'[u] = nice[u])
    BY <1>1 DEF IInv, TypeOK
  <2>2. Known(u)
    BY DEF IInv
  <2> QED
    BY <1>2, <1>3, <2>1, <2>2 DEF Known
<1> QED
  BY <1>4, <1>5, <1>6 DEF IInv

LEMMA PromoteSetStep ==
  ASSUME IInv, NEW t \in Threads, PromoteSet(t) PROVE IInv'
<1>1. call[t] = nice[t] /\ nice[t] \in Nices /\ call[t] # None /\ handle[t] = None
      /\ before[t] = None
  BY DEF PromoteSet, IInv, Known
<1>2. TypeOK'
  <2>1. outcome' \in [Threads -> [ok : BOOLEAN, refused : BOOLEAN]]
    BY ReturnsFacts DEF PromoteSet, IInv
  <2> QED
    BY <2>1, <1>1 DEF PromoteSet, IInv, TypeOK, PreviousPriority, RealTimeLevels
<1>3. ErrorIffRefused'
  BY DEF PromoteSet, IInv, TypeOK, ErrorIffRefused, Returns
<1>4. \A u \in Threads : Known(u)'
  BY <1>1, NiceFacts DEF PromoteSet, IInv, TypeOK, Known, PreviousPriority
<1> QED
  BY <1>2, <1>3, <1>4 DEF IInv

LEMMA DemoteStep ==
  ASSUME IInv, NEW t \in Threads, Demote(t) PROVE IInv'
<1>1. handle[t] = before[t] /\ handle[t] \in Nices /\ call[t] = None
  BY DEF Demote, IInv, TypeOK, Known
<1>2. TypeOK'
  <2>1. outcome' \in [Threads -> [ok : BOOLEAN, refused : BOOLEAN]]
    BY ReturnsFacts DEF Demote, IInv
  <2> QED
    BY <2>1, <1>1 DEF Demote, IInv, TypeOK
<1>3. ErrorIffRefused'
  BY DEF Demote, IInv, TypeOK, ErrorIffRefused, Returns
<1>4. \A u \in Threads : Known(u)'
  BY <1>1 DEF Demote, IInv, TypeOK, Known
<1> QED
  BY <1>2, <1>3, <1>4 DEF IInv

LEMMA RestartStep ==
  ASSUME IInv, NEW t \in Threads, Restart(t) PROVE IInv'
<1>1. TypeOK'
  BY DEF Restart, IInv, TypeOK, Returns
<1>2. ErrorIffRefused'
  BY DEF Restart, IInv, TypeOK, ErrorIffRefused, Returns
<1>3. \A u \in Threads : Known(u)'
  BY NiceFacts DEF Restart, IInv, TypeOK, Known
<1> QED
  BY <1>1, <1>2, <1>3 DEF IInv

LEMMA OtherStep ==
  ASSUME IInv,
         \/ \E t \in Threads : DropHandle(t) \/ OtherCall(t)
         \/ SetFloor
         \/ UNCHANGED vars
  PROVE  IInv'
BY DEF IInv, TypeOK, ErrorIffRefused, Known, DropHandle, OtherCall, SetFloor, vars

(* The invariant is inductive. *)
THEOREM Inductive == Spec => []IInv
<1>1. Init => IInv
  BY NiceFacts DEF Init, IInv, TypeOK, ErrorIffRefused, Known
<1>2. IInv /\ [Next]_vars => IInv'
  BY PromoteStep, PromoteSetStep, DemoteStep, RestartStep, OtherStep DEF Next
<1> QED
  BY <1>1, <1>2, PTL DEF Spec

-----------------------------------------------------------------------------
(* What follows from it. *)

(* Type correctness. *)
THEOREM TypeCorrect == Spec => []TypeOK
  BY Inductive, PTL DEF IInv

(* No nice value is taken for an error, no refusal for a success. *)
THEOREM ErrorsMeanRefusals == Spec => []ErrorIffRefused
  BY Inductive, PTL DEF IInv

(* Giving a nice value back needs no privilege. *)
THEOREM AlwaysDemotable == Spec => []DemotionNeverDenied
<1>1. IInv => DemotionNeverDenied
  <2> SUFFICES ASSUME IInv, NEW t \in Threads, handle[t] # None, handle[t] >= -19
               PROVE  MaySet(t, handle[t])
    BY DEF DemotionNeverDenied
  <2>1. nice[t] = -19
    BY DEF IInv, Known, THREAD_PRIORITY_URGENT_AUDIO
  <2> QED
    BY <2>1 DEF MaySet
<1> QED
  BY <1>1, Inductive, PTL

(* The backend implements the contract. *)
THEOREM AndroidKeepsContract == Spec => KeepsContract
<1>1. Init => Contract!Init
  BY NiceFacts, AndroidAssumption
     DEF Init, Contract!Init, Contract!Ordinary, Levels, RealTimeLevels
<1>2. IInv /\ [Next]_vars => [Contract!Next]_(Contract!vars)
  <2> SUFFICES ASSUME IInv, [Next]_vars PROVE [Contract!Next]_(Contract!vars)
    OBVIOUS
  <2>1. ASSUME NEW t \in Threads, PromoteSet(t)
        PROVE  Contract!Promote(t) \/ UNCHANGED << nice, before >>
    BY <2>1 DEF PromoteSet, IInv, Known, Contract!Promote, RealTimeLevels
  <2>2. ASSUME NEW t \in Threads, Demote(t)
        PROVE  Contract!Demote(t) \/ UNCHANGED << nice, before >>
    BY <2>2 DEF Demote, IInv, Known, Contract!Demote
  <2>3. ASSUME NEW t \in Threads, Restart(t) PROVE Contract!Restart(t)
    <3>1. Nices \subseteq Contract!Ordinary
      BY NiceFacts, AndroidAssumption DEF Contract!Ordinary, Levels, RealTimeLevels
    <3> QED
      BY <2>3, <3>1 DEF Restart, Contract!Restart
  <2>4. ASSUME \/ \E t \in Threads : Promote(t) \/ DropHandle(t) \/ OtherCall(t)
               \/ SetFloor
               \/ UNCHANGED vars
        PROVE  UNCHANGED << nice, before >>
    BY <2>4 DEF Promote, DropHandle, OtherCall, SetFloor, vars
  <2> QED
    BY <2>1, <2>2, <2>3, <2>4 DEF Next, Contract!Next, Contract!vars
<1> QED
  BY <1>1, <1>2, Inductive, PTL DEF Spec, KeepsContract, Contract!Spec

(* In particular a thread has the urgent audio priority exactly while a promotion
   is in effect, refusals and stale error numbers notwithstanding. *)
THEOREM AndroidRealTime == Spec => []Contract!RealTimeIffPromised
<1>1. IInv => Contract!RealTimeIffPromised
  BY NiceFacts DEF IInv, Known, Contract!RealTimeIffPromised, RealTimeLevels
<1> QED
  BY <1>1, Inductive, PTL
=============================================================================
