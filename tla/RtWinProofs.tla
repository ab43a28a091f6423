----------------------------- MODULE RtWinProofs -----------------------------
(***************************************************************************)
(* Theorems about RtWin, for any set of threads.                           *)
(***************************************************************************)
EXTENDS RtWin, TLAPS

(* The inductive invariant.  One thread at most runs try_new, and the number of
   references to the module follows from how far it has come. *)
Loading ==
  /\ \A t, u \in Threads : Initializing(t) /\ Initializing(u) => t = u
  /\ (\E t \in Threads : Initializing(t)) <=> AV_RT_LIBRARY = "running"
  /\ AV_RT_LIBRARY \in {"empty", "err"} => modules = 0
  /\ AV_RT_LIBRARY = "ok" => modules = 1
  /\ \A t \in Threads : call[t].pc = "load" => modules = 0
  /\ \A t \in Threads : call[t].pc \in {"get_set", "get_revert"} => modules = 1

(* The library is there for those who use it, or have something to give back. *)
Using ==
  \A t \in Threads :
    InAvrt(t) \/ call[t].pc = "once" \/ t \in handles \/ call[t].op = "demote"
      => AV_RT_LIBRARY = "ok"

(* The first AvSet call is the one that runs inside the Once.  A demotion needs
   an AvSet call that has returned, so the Once is complete by then. *)
FirstCall ==
  /\ FIRST_CALL = "incomplete" <=> ~ opened
  /\ opener # None => FIRST_CALL = "running"
  /\ FIRST_CALL = "running" => \E t \in Threads : call[t].pc = "setting_first"
  /\ \A t \in Threads :
       /\ call[t].pc = "setting_first" => FIRST_CALL = "running" /\ opener = t
       /\ call[t].pc = "setting" \/ t \in handles \/ call[t].op = "demote"
            => FIRST_CALL = "complete"

(* Where a thread is in its promotion and demotion. *)
Promised(t) ==
  /\ level[t] = "AUDIO" <=> before[t] # None
  /\ before[t] # "AUDIO"
  /\ call[t].pc # "idle" => call[t].op \in Ops
  /\ call[t].pc = "reverting" => call[t].op = "demote"
  /\ call[t].pc \in {"once", "setting", "setting_first"} => call[t].op = "promote"
  /\ call[t].op = "promote" => before[t] = None
  /\ call[t].op = "demote" => before[t] = "NORMAL" /\ t \notin handles
  /\ t \in handles => before[t] = "NORMAL"

IInv == TypeOK /\ Loading /\ Using /\ FirstCall /\ \A t \in Threads : Promised(t)

-----------------------------------------------------------------------------

LEMMA Distinct ==
  None \notin Threads /\ None \notin {"promote", "demote", "NORMAL", "AUDIO"}
  BY WinAssumption DEF Ops, TaskLevels

(* What every step of t does to `call`. *)
LEMMA CallFacts ==
  ASSUME TypeOK, NEW t \in Threads
  PROVE  /\ call[t].pc \in Pcs \cup {"idle"}
         /\ call[t].op \in Ops \cup {None}
         /\ call[t] = Idle <=> call[t].pc = "idle"
         /\ call[t].pc = "idle" => call[t].op = None
  BY DEF TypeOK, Idle, Pcs

LEMMA GotoFacts ==
  ASSUME TypeOK, NEW t \in Threads, NEW pc \in Pcs, call[t].pc # "idle", Goto(t, pc)
  PROVE  /\ call'[t].pc = pc /\ call'[t].op = call[t].op
         /\ \A u \in Threads \ {t} : call'[u] = call[u]
         /\ call' \in [Threads -> [pc : Pcs, op : Ops] \cup {Idle}]
<1>1. call[t] \in [pc : Pcs, op : Ops]
  BY DEF TypeOK, Idle
<1>2. [call[t] EXCEPT !.pc = pc] \in [pc : Pcs, op : Ops]
  BY <1>1
<1> QED
  BY <1>1, <1>2 DEF TypeOK, Goto

LEMMA ReturnFacts ==
  ASSUME TypeOK, NEW t \in Threads, Return(t)
  PROVE  /\ call'[t].pc = "idle" /\ call'[t].op = None
         /\ \A u \in Threads \ {t} : call'[u] = call[u]
         /\ call' \in [Threads -> [pc : Pcs, op : Ops] \cup {Idle}]
  BY DEF TypeOK, Return, Idle

-----------------------------------------------------------------------------
(* The invariant is kept.  *)

LEMMA InitIInv == Init => IInv
<1> SUFFICES ASSUME Init PROVE IInv
  OBVIOUS
<1>1. \A t \in Threads : call[t].pc = "idle" /\ call[t].op = None
  BY DEF Init, Idle
<1>2. TypeOK
  <2>1. call \in [Threads -> [pc : Pcs, op : Ops] \cup {Idle}]
    BY DEF Init
  <2>2. level \in [Threads -> TaskLevels] /\ before \in [Threads -> TaskLevels \cup {None}]
    BY DEF Init, TaskLevels
  <2>3. opened \in BOOLEAN
    BY Zenon DEF Init
  <2> QED
    BY <2>1, <2>2, <2>3 DEF Init, TypeOK
<1> QED
  BY <1>1, <1>2, Distinct DEF Init, IInv, Loading, Using, FirstCall, Promised,
     Initializing, InAvrt, Ops

LEMMA PromoteStep ==
  ASSUME IInv, NEW t \in Threads, Promote(t)
  PROVE  IInv'
<1>1. /\ call'[t] = [pc |-> "avrt", op |-> "promote"]
      /\ \A u \in Threads \ {t} : call'[u] = call[u]
      /\ call' \in [Threads -> [pc : Pcs, op : Ops] \cup {Idle}]
  BY DEF Promote, IInv, TypeOK, Pcs, Ops
<1>2. call[t].pc = "idle" /\ call[t].op = None
  BY DEF Promote, Idle
<1> QED
  BY <1>1, <1>2, Distinct DEF Promote, IInv, TypeOK, Loading, Using, FirstCall, Promised,
     Initializing, InAvrt, libraryVars, historyVars, Ops, TaskLevels

LEMMA DemoteStep ==
  ASSUME IInv, NEW t \in Threads, Demote(t)
  PROVE  IInv'
<1>1. /\ call'[t] = [pc |-> "avrt", op |-> "demote"]
      /\ \A u \in Threads \ {t} : call'[u] = call[u]
      /\ call' \in [Threads -> [pc : Pcs, op : Ops] \cup {Idle}]
  BY DEF Demote, IInv, TypeOK, Pcs, Ops
<1>2. call[t].pc = "idle" /\ call[t].op = None
  BY DEF Demote, Idle
<1> QED
  BY <1>1, <1>2, Distinct DEF Demote, IInv, TypeOK, Loading, Using, FirstCall, Promised,
     Initializing, InAvrt, libraryVars, historyVars, Ops, TaskLevels

LEMMA RestartStep ==
  ASSUME IInv, NEW t \in Threads, Restart(t)
  PROVE  IInv'
<1> USE Distinct DEF IInv, libraryVars, historyVars, Initializing, InAvrt, Ops,
           TaskLevels
<1>1. call[t].pc = "idle" /\ call[t].op = None
  BY DEF Restart, Idle
<1>2. TypeOK'
  BY <1>1 DEF Restart, TypeOK
<1>3. Loading'
  BY <1>1 DEF Restart, TypeOK, Loading
<1>4. Using'
  BY <1>1 DEF Restart, TypeOK, Using, Loading, FirstCall, Promised
<1>5. FirstCall'
  BY <1>1, Distinct DEF Restart, TypeOK, FirstCall, Promised
<1>6. \A u \in Threads : Promised(u)'
  BY <1>1 DEF Restart, TypeOK, Promised
<1> QED
  BY <1>2, <1>3, <1>4, <1>5, <1>6

LEMMA InitLibraryStep ==
  ASSUME IInv, NEW t \in Threads, InitLibrary(t)
  PROVE  IInv'
<1> USE Distinct DEF IInv, libraryVars, historyVars, Initializing, InAvrt, Ops,
           TaskLevels
<1>1. /\ call[t].pc = "avrt"
      /\ call'[t].pc = "load" /\ call'[t].op = call[t].op
      /\ \A u \in Threads \ {t} : call'[u] = call[u]
      /\ call' \in [Threads -> [pc : Pcs, op : Ops] \cup {Idle}]
  BY GotoFacts DEF InitLibrary, At, Pcs
<1>2. TypeOK'
  BY <1>1 DEF InitLibrary, TypeOK
<1>3. Loading'
  BY <1>1 DEF InitLibrary, TypeOK, Loading
<1>4. Using'
  BY <1>1 DEF InitLibrary, TypeOK, Using, Loading, FirstCall, Promised
<1>5. FirstCall'
  BY <1>1, Distinct DEF InitLibrary, TypeOK, FirstCall, Promised
<1>6. \A u \in Threads : Promised(u)'
  BY <1>1 DEF InitLibrary, TypeOK, Promised
<1> QED
  BY <1>2, <1>3, <1>4, <1>5, <1>6

LEMMA LoadLibraryStep ==
  ASSUME IInv, NEW t \in Threads, LoadLibrary(t)
  PROVE  IInv'
<1> USE Distinct DEF IInv, libraryVars, historyVars, Initializing, InAvrt, Ops,
           TaskLevels
<1>1. /\ call[t].pc = "load"
      /\ call'[t].pc \in {"get_set", "avrt"} /\ call'[t].op = call[t].op
      /\ \A u \in Threads \ {t} : call'[u] = call[u]
      /\ call' \in [Threads -> [pc : Pcs, op : Ops] \cup {Idle}]
  BY GotoFacts DEF LoadLibrary, FailInit, At, Pcs
<1>2. TypeOK'
  BY <1>1 DEF LoadLibrary, FailInit, Goto, TypeOK
<1>3. Loading'
  BY <1>1 DEF LoadLibrary, FailInit, Goto, TypeOK, Loading
<1>4. Using'
  BY <1>1 DEF LoadLibrary, FailInit, Goto, TypeOK, Using, Loading, FirstCall, Promised
<1>5. FirstCall'
  BY <1>1, Distinct DEF LoadLibrary, FailInit, Goto, TypeOK, FirstCall, Promised
<1>6. \A u \in Threads : Promised(u)'
  BY <1>1 DEF LoadLibrary, FailInit, Goto, TypeOK, Promised
<1> QED
  BY <1>2, <1>3, <1>4, <1>5, <1>6

LEMMA GetSetProcStep ==
  ASSUME IInv, NEW t \in Threads, GetSetProc(t)
  PROVE  IInv'
<1> USE Distinct DEF IInv, libraryVars, historyVars, Initializing, InAvrt, Ops,
           TaskLevels
<1>1. /\ call[t].pc = "get_set"
      /\ call'[t].pc \in {"get_revert", "avrt"} /\ call'[t].op = call[t].op
      /\ \A u \in Threads \ {t} : call'[u] = call[u]
      /\ call' \in [Threads -> [pc : Pcs, op : Ops] \cup {Idle}]
  BY GotoFacts DEF GetSetProc, FailInit, At, Pcs
<1>2. TypeOK'
  BY <1>1 DEF GetSetProc, FailInit, Goto, TypeOK
<1>3. Loading'
  BY <1>1 DEF GetSetProc, FailInit, Goto, TypeOK, Loading
<1>4. Using'
  BY <1>1 DEF GetSetProc, FailInit, Goto, TypeOK, Using, Loading, FirstCall, Promised
<1>5. FirstCall'
  BY <1>1, Distinct DEF GetSetProc, FailInit, Goto, TypeOK, FirstCall, Promised
<1>6. \A u \in Threads : Promised(u)'
  BY <1>1 DEF GetSetProc, FailInit, Goto, TypeOK, Promised
<1> QED
  BY <1>2, <1>3, <1>4, <1>5, <1>6

LEMMA GetRevertProcStep ==
  ASSUME IInv, NEW t \in Threads, GetRevertProc(t)
  PROVE  IInv'
<1> USE Distinct DEF IInv, libraryVars, historyVars, Initializing, InAvrt, Ops,
           TaskLevels
<1>1. /\ call[t].pc = "get_revert"
      /\ call'[t].pc \in {"avrt"} /\ call'[t].op = call[t].op
      /\ \A u \in Threads \ {t} : call'[u] = call[u]
      /\ call' \in [Threads -> [pc : Pcs, op : Ops] \cup {Idle}]
  BY GotoFacts DEF GetRevertProc, FailInit, At, Pcs
<1>2. TypeOK'
  BY <1>1 DEF GetRevertProc, FailInit, Goto, TypeOK
<1>3. Loading'
  BY <1>1 DEF GetRevertProc, FailInit, Goto, TypeOK, Loading
<1>4. Using'
  BY <1>1 DEF GetRevertProc, FailInit, Goto, TypeOK, Using, Loading, FirstCall, Promised
<1>5. FirstCall'
  BY <1>1, Distinct DEF GetRevertProc, FailInit, Goto, TypeOK, FirstCall, Promised
<1>6. \A u \in Threads : Promised(u)'
  BY <1>1 DEF GetRevertProc, FailInit, Goto, TypeOK, Promised
<1> QED
  BY <1>2, <1>3, <1>4, <1>5, <1>6

LEMMA CallOnceStep ==
  ASSUME IInv, NEW t \in Threads, CallOnce(t)
  PROVE  IInv'
<1> USE Distinct DEF IInv, libraryVars, historyVars, Initializing, InAvrt, Ops,
           TaskLevels
<1>1. /\ call[t].pc = "once"
      /\ call'[t].pc \in {"setting_first", "setting"} /\ call'[t].op = call[t].op
      /\ \A u \in Threads \ {t} : call'[u] = call[u]
      /\ call' \in [Threads -> [pc : Pcs, op : Ops] \cup {Idle}]
  BY GotoFacts DEF CallOnce, At, Pcs
<1>2. TypeOK'
  BY <1>1 DEF CallOnce, CanRunFirst, CanPassOnce, EnterAvSet, Goto, TypeOK
<1>3. Loading'
  BY <1>1 DEF CallOnce, CanRunFirst, CanPassOnce, EnterAvSet, Goto, TypeOK, Loading
<1>4. Using'
  BY <1>1 DEF CallOnce, CanRunFirst, CanPassOnce, EnterAvSet, Goto, TypeOK, Using, Loading, FirstCall, Promised
<1>5. FirstCall'
  BY <1>1, Distinct DEF CallOnce, CanRunFirst, CanPassOnce, EnterAvSet, Goto, TypeOK, FirstCall, Promised
<1>6. \A u \in Threads : Promised(u)'
  BY <1>1 DEF CallOnce, CanRunFirst, CanPassOnce, EnterAvSet, Goto, TypeOK, Promised
<1> QED
  BY <1>2, <1>3, <1>4, <1>5, <1>6

LEMMA FirstSetReturnsStep ==
  ASSUME IInv, NEW t \in Threads, FirstSetReturns(t)
  PROVE  IInv'
<1> USE Distinct DEF IInv, libraryVars, historyVars, Initializing, InAvrt, Ops,
           TaskLevels
<1>1. /\ call[t].pc = "setting_first"
      /\ call'[t].pc = "idle" /\ call'[t].op = None
      /\ \A u \in Threads \ {t} : call'[u] = call[u]
      /\ call' \in [Threads -> [pc : Pcs, op : Ops] \cup {Idle}]
  BY ReturnFacts DEF FirstSetReturns, At
<1>2. TypeOK'
  BY <1>1 DEF FirstSetReturns, AvSet, LeaveAvSet, TypeOK
<1>3. Loading'
  BY <1>1 DEF FirstSetReturns, AvSet, LeaveAvSet, TypeOK, Loading
<1>4. Using'
  BY <1>1 DEF FirstSetReturns, AvSet, LeaveAvSet, TypeOK, Using, Loading, FirstCall, Promised
<1>5. FirstCall'
  BY <1>1, Distinct DEF FirstSetReturns, AvSet, LeaveAvSet, TypeOK, FirstCall, Promised
<1>6. \A u \in Threads : Promised(u)'
  BY <1>1 DEF FirstSetReturns, AvSet, LeaveAvSet, TypeOK, Promised
<1> QED
  BY <1>2, <1>3, <1>4, <1>5, <1>6

LEMMA SetReturnsStep ==
  ASSUME IInv, NEW t \in Threads, SetReturns(t)
  PROVE  IInv'
<1> USE Distinct DEF IInv, libraryVars, historyVars, Initializing, InAvrt, Ops,
           TaskLevels
<1>1. /\ call[t].pc = "setting"
      /\ call'[t].pc = "idle" /\ call'[t].op = None
      /\ \A u \in Threads \ {t} : call'[u] = call[u]
      /\ call' \in [Threads -> [pc : Pcs, op : Ops] \cup {Idle}]
  BY ReturnFacts DEF SetReturns, At
<1>2. TypeOK'
  BY <1>1 DEF SetReturns, AvSet, LeaveAvSet, TypeOK
<1>3. Loading'
  BY <1>1 DEF SetReturns, AvSet, LeaveAvSet, TypeOK, Loading
<1>4. Using'
  BY <1>1 DEF SetReturns, AvSet, LeaveAvSet, TypeOK, Using, Loading, FirstCall, Promised
<1>5. FirstCall'
  BY <1>1, Distinct DEF SetReturns, AvSet, LeaveAvSet, TypeOK, FirstCall, Promised
<1>6. \A u \in Threads : Promised(u)'
  BY <1>1 DEF SetReturns, AvSet, LeaveAvSet, TypeOK, Promised
<1> QED
  BY <1>2, <1>3, <1>4, <1>5, <1>6

LEMMA RevertReturnsStep ==
  ASSUME IInv, NEW t \in Threads, RevertReturns(t)
  PROVE  IInv'
<1> USE Distinct DEF IInv, libraryVars, historyVars, Initializing, InAvrt, Ops,
           TaskLevels
<1>1. /\ call[t].pc = "reverting"
      /\ call'[t].pc = "idle" /\ call'[t].op = None
      /\ \A u \in Threads \ {t} : call'[u] = call[u]
      /\ call' \in [Threads -> [pc : Pcs, op : Ops] \cup {Idle}]
  BY ReturnFacts DEF RevertReturns, At
<1>2. TypeOK'
  BY <1>1 DEF RevertReturns, TypeOK
<1>3. Loading'
  BY <1>1 DEF RevertReturns, TypeOK, Loading
<1>4. Using'
  BY <1>1 DEF RevertReturns, TypeOK, Using, Loading, FirstCall, Promised
<1>5. FirstCall'
  BY <1>1, Distinct DEF RevertReturns, TypeOK, FirstCall, Promised
<1>6. \A u \in Threads : Promised(u)'
  BY <1>1 DEF RevertReturns, TypeOK, Promised
<1> QED
  BY <1>2, <1>3, <1>4, <1>5, <1>6

LEMMA UseLibraryStep ==
  ASSUME IInv, NEW t \in Threads, UseLibrary(t)
  PROVE  IInv'
<1> USE Distinct DEF IInv, libraryVars, historyVars, Initializing, InAvrt, Ops,
           TaskLevels
<1>1. call[t].pc = "avrt" /\ call[t].op \in Ops
  BY DEF UseLibrary, At, Promised
<1>2. CASE Return(t)
  <2>1. /\ call'[t].pc = "idle" /\ call'[t].op = None
        /\ \A u \in Threads \ {t} : call'[u] = call[u]
        /\ call' \in [Threads -> [pc : Pcs, op : Ops] \cup {Idle}]
    BY <1>2, ReturnFacts
  <2>2. TypeOK'
    BY <1>1, <2>1 DEF UseLibrary, TypeOK
  <2>3. Loading'
    BY <1>1, <2>1 DEF UseLibrary, TypeOK, Loading
  <2>4. Using' /\ FirstCall'
    BY <1>1, <2>1 DEF UseLibrary, Using, FirstCall
  <2>5. \A u \in Threads : Promised(u)'
    BY <1>1, <2>1 DEF UseLibrary, Promised
  <2> QED
    BY <2>2, <2>3, <2>4, <2>5
<1>3. CASE ~ Return(t)
  <2>1. /\ AV_RT_LIBRARY = "ok"
        /\ call'[t].pc = IF call[t].op = "promote" THEN "once" ELSE "reverting"
        /\ call'[t].op = call[t].op
        /\ \A u \in Threads \ {t} : call'[u] = call[u]
        /\ call' \in [Threads -> [pc : Pcs, op : Ops] \cup {Idle}]
    BY <1>1, <1>3, GotoFacts DEF UseLibrary, Pcs
  <2> QED
    BY <1>1, <2>1 DEF UseLibrary, TypeOK, Loading, Using, FirstCall, Promised
<1> QED
  BY <1>2, <1>3

(* The invariant is inductive. *)
THEOREM Inductive == Spec => []IInv
<1>1. IInv /\ [Next]_vars => IInv'
  <2>1. IInv /\ UNCHANGED vars => IInv'
    BY DEF vars, IInv, TypeOK, Loading, Using, FirstCall, Promised,
       Initializing, InAvrt
  <2> QED
    BY <2>1, PromoteStep, DemoteStep, RestartStep, InitLibraryStep,
       LoadLibraryStep, GetSetProcStep, GetRevertProcStep, UseLibraryStep,
       CallOnceStep, FirstSetReturnsStep, SetReturnsStep, RevertReturnsStep
       DEF Next, Continue
<1> QED
  BY <1>1, InitIInv, PTL DEF Spec

-----------------------------------------------------------------------------
(* What follows from it. *)

(* Type correctness; in particular the Once is never poisoned. *)
THEOREM TypeCorrect == Spec => []TypeOK
  BY Inductive, PTL DEF IInv

(* No thread is inside avrt.dll together with the one that makes the first AvSet
   call of the process: not even to revert. *)
THEOREM NobodyOverlapsFirstCall == Spec => []FirstCallAlone
<1>1. IInv => FirstCallAlone
  BY DEF IInv, FirstCall, FirstCallAlone, InAvrt, Promised
<1> QED
  BY <1>1, Inductive, PTL

(* avrt.dll stays loaded while its functions are used, and is not leaked. *)
THEOREM LibraryOwned == Spec => []LibraryHeld
<1>1. IInv => LibraryHeld
  BY DEF IInv, TypeOK, Loading, Using, LibraryHeld
<1> QED
  BY <1>1, Inductive, PTL

(* A promotion that succeeded leaves the library there for its demotion. *)
THEOREM DemotionServed == Spec => []DemotionFindsLibrary
<1>1. IInv => DemotionFindsLibrary
  BY DEF IInv, Using, DemotionFindsLibrary
<1> QED
  BY <1>1, Inductive, PTL

(* A call that waits always waits for a thread that is at work. *)
THEOREM NobodyWaitsInVain == Spec => []WaitersServed
<1>1. IInv => WaitersServed
  BY DEF IInv, Loading, FirstCall, WaitersServed, At
<1> QED
  BY <1>1, Inductive, PTL

(* The steps left to a call go by where it is, and by the OnceLock for those
   that have not got past it. *)
LEMMA Steps ==
  ASSUME NEW t \in Threads
  PROVE  /\ call[t].pc = "avrt" /\ AV_RT_LIBRARY \in {"empty", "running"} => StepsLeft(t) = 7
         /\ call[t].pc = "load" => StepsLeft(t) = 6
         /\ call[t].pc = "get_set" => StepsLeft(t) = 5
         /\ call[t].pc = "get_revert" => StepsLeft(t) = 4
         /\ call[t].pc = "avrt" /\ AV_RT_LIBRARY \in {"ok", "err"} => StepsLeft(t) = 3
         /\ call[t].pc = "once" => StepsLeft(t) = 2
         /\ call[t].pc \in {"setting_first", "setting", "reverting"} => StepsLeft(t) = 1
         /\ call[t].pc = "idle" => StepsLeft(t) = 0
  BY DEF StepsLeft, At

LEMMA StepsNext ==
  ASSUME NEW t \in Threads
  PROVE  /\ call'[t].pc = "avrt" /\ AV_RT_LIBRARY' \in {"empty", "running"} => StepsLeft(t)' = 7
         /\ call'[t].pc = "load" => StepsLeft(t)' = 6
         /\ call'[t].pc = "get_set" => StepsLeft(t)' = 5
         /\ call'[t].pc = "get_revert" => StepsLeft(t)' = 4
         /\ call'[t].pc = "avrt" /\ AV_RT_LIBRARY' \in {"ok", "err"} => StepsLeft(t)' = 3
         /\ call'[t].pc = "once" => StepsLeft(t)' = 2
         /\ call'[t].pc \in {"setting_first", "setting", "reverting"} => StepsLeft(t)' = 1
         /\ call'[t].pc = "idle" => StepsLeft(t)' = 0
  BY DEF StepsLeft, At

(* Of the OnceLock, calls that wait for it see only that it is set. *)
LibraryMoves ==
  AV_RT_LIBRARY \in {"ok", "err"} => AV_RT_LIBRARY' = AV_RT_LIBRARY

LEMMA OthersKept ==
  ASSUME IInv, NEW t \in Threads, call'[t] = call[t], LibraryMoves, TypeOK'
  PROVE  StepsLeft(t)' <= StepsLeft(t)
<1>1. call[t].pc \in Pcs \cup {"idle"}
  BY CallFacts DEF IInv
<1>2. AV_RT_LIBRARY \in {"empty", "running", "ok", "err"}
      /\ AV_RT_LIBRARY' \in {"empty", "running", "ok", "err"}
  BY DEF IInv, TypeOK
<1> QED
  BY <1>1, <1>2, Steps, StepsNext DEF LibraryMoves, Pcs

(* A step of t leaves every other call where it is, sets the lock at most once,
   and takes a call of t nearer to its end. *)
LEMMA StepForward ==
  ASSUME IInv, TypeOK', NEW t \in Threads, Continue(t)
  PROVE  /\ LibraryMoves
         /\ \A u \in Threads \ {t} : call'[u] = call[u]
         /\ StepsLeft(t)' < StepsLeft(t)
<1> USE DEF IInv, At
<1>1. CASE InitLibrary(t)
  BY <1>1, GotoFacts, Steps, StepsNext DEF InitLibrary, Pcs, LibraryMoves
<1>2. CASE LoadLibrary(t) \/ GetSetProc(t) \/ GetRevertProc(t)
  <2>1. AV_RT_LIBRARY = "running" /\ call[t].pc \in {"load", "get_set", "get_revert"}
    BY <1>2 DEF LoadLibrary, GetSetProc, GetRevertProc, Loading, Initializing
  <2>2. /\ \A u \in Threads \ {t} : call'[u] = call[u]
        /\ \/ call'[t].pc = "avrt" /\ AV_RT_LIBRARY' \in {"ok", "err"}
           \/ call[t].pc = "load" /\ call'[t].pc = "get_set"
           \/ call[t].pc = "get_set" /\ call'[t].pc = "get_revert"
    BY <1>2, <2>1, GotoFacts DEF LoadLibrary, GetSetProc, GetRevertProc, FailInit, Pcs
  <2> QED
    BY <2>1, <2>2, Steps, StepsNext DEF LibraryMoves
<1>3. CASE UseLibrary(t)
  <2>1. /\ call[t].pc = "avrt" /\ AV_RT_LIBRARY \in {"ok", "err"}
        /\ call'[t].pc \in {"idle", "once", "reverting"}
        /\ \A u \in Threads \ {t} : call'[u] = call[u]
    BY <1>3, GotoFacts, ReturnFacts DEF UseLibrary, Pcs
  <2> QED
    BY <1>3, <2>1, Steps, StepsNext DEF UseLibrary, libraryVars, LibraryMoves
<1>4. CASE CallOnce(t)
  BY <1>4, GotoFacts, Steps, StepsNext DEF CallOnce, libraryVars, Pcs, LibraryMoves
<1>5. CASE FirstSetReturns(t) \/ SetReturns(t) \/ RevertReturns(t)
  BY <1>5, ReturnFacts, Steps, StepsNext
     DEF FirstSetReturns, SetReturns, RevertReturns, libraryVars, LibraryMoves
<1> QED
  BY <1>1, <1>2, <1>3, <1>4, <1>5 DEF Continue

(* No call goes round, and none is set back by another: with NobodyWaitsInVain,
   what CallsReturn needs of the code besides fairness. *)
THEOREM CallsOnlyAdvance == Spec => NothingSetBack
<1> DEFINE Advance(t) ==
      call[t] # Idle =>
        /\ StepsLeft(t)' <= StepsLeft(t)
        /\ call'[t] # call[t] => StepsLeft(t)' < StepsLeft(t)
<1>1. IInv /\ TypeOK' /\ [Next]_vars => \A t \in Threads : Advance(t)
  <2> SUFFICES ASSUME IInv, TypeOK', [Next]_vars, NEW t \in Threads, call[t] # Idle
               PROVE  Advance(t)
    OBVIOUS
  <2>1. ASSUME LibraryMoves, call'[t] = call[t]
        PROVE  Advance(t)
    BY <2>1, OthersKept
  <2>2. ASSUME NEW u \in Threads, Continue(u)
        PROVE  Advance(t)
    <3>1. CASE u = t
      <4>1. StepsLeft(t)' < StepsLeft(t)
        BY <2>2, <3>1, StepForward
      <4>2. StepsLeft(t) \in Nat /\ StepsLeft(t)' \in Nat
        <5>1. call[t].pc \in Pcs \cup {"idle"} /\ AV_RT_LIBRARY \in {"empty", "running", "ok", "err"}
          BY CallFacts DEF IInv, TypeOK
        <5>2. call'[t].pc \in Pcs \cup {"idle"} /\ AV_RT_LIBRARY' \in {"empty", "running", "ok", "err"}
          BY DEF TypeOK, Idle
        <5> QED
          BY <5>1, <5>2, Steps, StepsNext DEF Pcs
      <4> QED
        BY <4>1, <4>2
    <3>2. CASE u # t
      BY <2>1, <2>2, <3>2, StepForward
    <3> QED
      BY <3>1, <3>2
  <2>3. ASSUME NEW u \in Threads, Promote(u) \/ Demote(u) \/ Restart(u)
        PROVE  Advance(t)
    <3>1. LibraryMoves
      BY <2>3 DEF Promote, Demote, Restart, libraryVars, LibraryMoves
    <3>2. call'[t] = call[t]
      BY <2>3 DEF Promote, Demote, Restart, IInv, TypeOK
    <3> QED
      BY <2>1, <3>1, <3>2
  <2>4. ASSUME UNCHANGED vars
        PROVE  Advance(t)
    BY <2>1, <2>4 DEF vars, LibraryMoves
  <2> QED
    BY <2>2, <2>3, <2>4 DEF Next
<1>2. IInv /\ TypeOK' /\ [Next]_vars =>
        [\A t \in Threads : Advance(t)]_vars
  BY <1>1
<1> QED
  BY <1>2, Inductive, TypeCorrect, PTL DEF Spec, NothingSetBack

(* The backend implements the contract: of all its steps, only the return of a
   successful AvSet call is a promotion and only the return of a successful
   revert is a demotion. *)
THEOREM WinKeepsContract == Spec => KeepsContract
<1>1. Init => Contract!Init
  BY DEF Init, Contract!Init, Contract!Ordinary, TaskLevels
<1>2. IInv /\ [Next]_vars => [Contract!Next]_(Contract!vars)
  <2> SUFFICES ASSUME IInv, [Next]_vars PROVE [Contract!Next]_(Contract!vars)
    OBVIOUS
  <2>1. ASSUME NEW t \in Threads, AvSet(t), call[t].op = "promote"
        PROVE  [Contract!Next]_(Contract!vars)
    <3>1. before[t] = None
      BY <2>1 DEF IInv, Promised
    <3>2. Contract!Promote(t) \/ UNCHANGED << level, before >>
      BY <2>1, <3>1 DEF AvSet, Contract!Promote
    <3> QED
      BY <3>2 DEF Contract!Next, Contract!vars
  <2>2. ASSUME NEW t \in Threads, RevertReturns(t)
        PROVE  [Contract!Next]_(Contract!vars)
    <3>1. before[t] = "NORMAL"
      BY <2>2 DEF RevertReturns, At, IInv, Promised
    <3>2. before[t] # None
      BY <3>1, Distinct
    <3>3. Contract!Demote(t) \/ UNCHANGED << level, before >>
      BY <2>2, <3>1, <3>2 DEF RevertReturns, Contract!Demote
    <3> QED
      BY <3>3 DEF Contract!Next, Contract!vars
  <2>3. ASSUME NEW t \in Threads, Restart(t)
        PROVE  [Contract!Next]_(Contract!vars)
    <3>1. Contract!Restart(t)
      BY <2>3 DEF Restart, Contract!Restart, Contract!Ordinary, TaskLevels
    <3> QED
      BY <3>1 DEF Contract!Next
  <2>4. ASSUME UNCHANGED << level, before >>
        PROVE  [Contract!Next]_(Contract!vars)
    BY <2>4 DEF Contract!vars
  <2>5. ASSUME NEW t \in Threads, FirstSetReturns(t) \/ SetReturns(t)
        PROVE  AvSet(t) /\ call[t].op = "promote"
    BY <2>5 DEF FirstSetReturns, SetReturns, At, IInv, Promised
  <2>6. ASSUME NEW t \in Threads, Continue(t)
        PROVE  [Contract!Next]_(Contract!vars)
    BY <2>1, <2>2, <2>4, <2>5, <2>6
       DEF Continue, InitLibrary, LoadLibrary, GetSetProc, GetRevertProc,
           UseLibrary, CallOnce
  <2>7. ASSUME NEW t \in Threads, Promote(t) \/ Demote(t)
        PROVE  [Contract!Next]_(Contract!vars)
    BY <2>4, <2>7 DEF Promote, Demote
  <2> QED
    BY <2>3, <2>4, <2>6, <2>7 DEF Next, vars
<1> QED
  BY <1>1, <1>2, Inductive, PTL DEF Spec, KeepsContract, Contract!Spec

(* In particular a thread runs in the "Audio" task exactly while a promotion is
   in effect. *)
THEOREM WinRealTime == Spec => []Contract!RealTimeIffPromised
<1>1. IInv => Contract!RealTimeIffPromised
  BY DEF IInv, Promised, Contract!RealTimeIffPromised
<1> QED
  BY <1>1, Inductive, PTL
=============================================================================
