--------------------------- MODULE RtPriorityProofs ---------------------------
(***************************************************************************)
(* What the contract of RtPriority guarantees, for any set of threads and  *)
(* levels.  A backend that implements the contract inherits all of it.     *)
(***************************************************************************)
EXTENDS RtPriority, TLAPS

(* The three parts support each other: a demotion restores an ordinary level
   because a promotion starts only from one, and it does so because a thread
   that is real-time is one that is promised to come back. *)
Inv == TypeOK /\ RealTimeIffPromised /\ RemembersOrdinary

LEMMA LevelsFacts ==
  /\ None \notin Levels
  /\ Ordinary \subseteq Levels /\ RealTimeLevels \subseteq Levels
  /\ \A l \in Ordinary : l \notin RealTimeLevels
  /\ \A l \in Levels : l \in Ordinary \/ l \in RealTimeLevels
  BY LevelsAssumption DEF Ordinary

(* The inductive invariant holds of the contract. *)
THEOREM ContractInv == Spec => []Inv
<1> USE LevelsFacts DEF TypeOK, RealTimeIffPromised, RemembersOrdinary
<1>1. Init => Inv
  BY DEF Init, Inv
<1>2. Inv /\ [Next]_vars => Inv'
  <2> SUFFICES ASSUME Inv, [Next]_vars PROVE Inv'
    OBVIOUS
  <2> USE DEF Inv
  <2>1. ASSUME NEW t \in Threads, Promote(t) PROVE Inv'
    <3>1. level[t] \in Ordinary
      BY <2>1 DEF Promote
    <3> QED
      BY <2>1, <3>1 DEF Promote
  <2>2. ASSUME NEW t \in Threads, Demote(t) PROVE Inv'
    BY <2>2 DEF Demote
  <2>3. ASSUME NEW t \in Threads, Restart(t) PROVE Inv'
    BY <2>3 DEF Restart
  <2>4. CASE UNCHANGED vars
    BY <2>4 DEF vars
  <2> QED
    BY <2>1, <2>2, <2>3, <2>4 DEF Next
<1> QED
  BY <1>1, <1>2, PTL DEF Spec

(* A thread is real-time exactly while a promotion that reported success has
   not been undone. *)
THEOREM ContractRealTime == Spec => []RealTimeIffPromised
  BY ContractInv, PTL DEF Inv

(* The level remembered, and so the level a demotion goes back to, is never
   real-time. *)
THEOREM ContractOrdinary == Spec => []RemembersOrdinary
  BY ContractInv, PTL DEF Inv
=============================================================================
