-------------------------------- MODULE RtWin --------------------------------
(***************************************************************************)
(* src/src/rt_win.rs: the Windows backend.  A thread is promoted by        *)
(* joining the "Audio" task of the multimedia class scheduler (MMCSS),     *)
(* with two functions of avrt.dll found at run time.                       *)
(*                                                                         *)
(* Every call first needs the library: the first one loads it under a      *)
(* OnceLock, the others wait and all share the outcome for good.  The      *)
(* first call of AvSetMmThreadCharacteristicsW runs alone, under a Once.   *)
(* Loading, and every call of an avrt.dll function, takes time: other      *)
(* threads run while one is inside.  LoadLibraryW, GetProcAddress and the  *)
(* avrt.dll functions are external, and each may fail.                     *)
(***************************************************************************)
EXTENDS Integers

CONSTANTS
  Threads,   (* the threads of the process.                                *)
  None

Ops == {"promote", "demote"}
TaskLevels == {"NORMAL", "AUDIO"}

ASSUME WinAssumption == None \notin Threads \cup Ops \cup TaskLevels

VARIABLES
  AV_RT_LIBRARY,  (* the OnceLock: empty, being set, or Ok or Err.         *)
  modules,        (* references to avrt.dll the process holds.             *)
  FIRST_CALL,     (* the Once.                                             *)
  level,          (* does each thread run in the "Audio" task?             *)
  handles,        (* threads that hold the handle of their promotion.      *)
  call,           (* where each thread is.                                 *)
  opener,         (* history: thread inside the first AvSet call ever      *)
                  (* made, None before and after it.                       *)
  opened,         (* history: has an AvSet call been made?                 *)
  before          (* history: level to come back to of a promoted thread.  *)

libraryVars == << AV_RT_LIBRARY, modules >>
historyVars == << opener, opened >>
vars == << AV_RT_LIBRARY, modules, FIRST_CALL, level, handles, call, opener,
           opened, before >>

Idle == [pc |-> "idle", op |-> None]

Init ==
  /\ AV_RT_LIBRARY = "empty"
  /\ modules = 0
  /\ FIRST_CALL = "incomplete"
  /\ level = [t \in Threads |-> "NORMAL"]
  /\ handles = {}
  /\ call = [t \in Threads |-> Idle]
  /\ opener = None /\ opened = FALSE
  /\ before = [t \in Threads |-> None]

At(t, pc)   == call[t].pc = pc
Goto(t, pc) == call' = [call EXCEPT ![t].pc = pc]
Return(t)   == call' = [call EXCEPT ![t] = Idle]

-----------------------------------------------------------------------------
(* promote_current_thread_to_real_time and demote_current_thread_from_real_time
   are called; the second consumes the handle of the thread. *)

Promote(t) ==
  /\ call[t] = Idle
  /\ before[t] = None
  /\ call' = [call EXCEPT ![t] = [pc |-> "avrt", op |-> "promote"]]
  /\ UNCHANGED << libraryVars, FIRST_CALL, level, handles, historyVars, before >>

Demote(t) ==
  /\ call[t] = Idle
  /\ t \in handles
  /\ handles' = handles \ {t}
  /\ call' = [call EXCEPT ![t] = [pc |-> "avrt", op |-> "demote"]]
  /\ UNCHANGED << libraryVars, FIRST_CALL, level, historyVars, before >>

-----------------------------------------------------------------------------
(* avrt(): OnceLock::get_or_init(AvRtLibrary::try_new). *)

(* The thread that finds the lock empty runs try_new, the others wait. *)
InitLibrary(t) ==
  /\ At(t, "avrt") /\ AV_RT_LIBRARY = "empty"
  /\ AV_RT_LIBRARY' = "running"
  /\ Goto(t, "load")
  /\ UNCHANGED << modules, FIRST_CALL, level, handles, historyVars, before >>

(* Faulty variants: the lock is left empty, for the next attempt; the module is
   not freed. *)
FailInitRetried(t, owned) ==
  /\ AV_RT_LIBRARY' = "empty"
  /\ modules' = modules - owned
  /\ Goto(t, "avrt")

FailInitLeaking(t, owned) ==
  /\ AV_RT_LIBRARY' = "err"
  /\ Goto(t, "avrt")
  /\ UNCHANGED modules

(* try_new fails: the OwnedLibrary, if there is one, is dropped, which frees
   the module, and the lock keeps the error. *)
FailInit(t, owned) ==
  /\ AV_RT_LIBRARY' = "err"
  /\ modules' = modules - owned
  /\ Goto(t, "avrt")

LoadLibrary(t) ==
  /\ At(t, "load")
  /\ \/ FailInit(t, 0)
     \/ /\ modules' = modules + 1
        /\ Goto(t, "get_set")
        /\ UNCHANGED AV_RT_LIBRARY
  /\ UNCHANGED << FIRST_CALL, level, handles, historyVars, before >>

GetSetProc(t) ==
  /\ At(t, "get_set")
  /\ \/ FailInit(t, 1)
     \/ Goto(t, "get_revert") /\ UNCHANGED libraryVars
  /\ UNCHANGED << FIRST_CALL, level, handles, historyVars, before >>

GetRevertProc(t) ==
  /\ At(t, "get_revert")
  /\ \/ FailInit(t, 1)
     \/ AV_RT_LIBRARY' = "ok" /\ Goto(t, "avrt") /\ UNCHANGED modules
  /\ UNCHANGED << FIRST_CALL, level, handles, historyVars, before >>

(* Faulty variant: the outcome is not looked at. *)
UseAnyLibrary(t) ==
  /\ At(t, "avrt") /\ AV_RT_LIBRARY \in {"ok", "err"}
  /\ Goto(t, IF call[t].op = "promote" THEN "once" ELSE "reverting")
  /\ UNCHANGED << libraryVars, FIRST_CALL, level, handles, historyVars, before >>

(* The lock is set: an error ends the call, a library is used.  A demotion calls
   AvRevertMmThreadCharacteristics right away. *)
UseLibrary(t) ==
  /\ At(t, "avrt")
  /\ \/ AV_RT_LIBRARY = "err" /\ Return(t)
     \/ /\ AV_RT_LIBRARY = "ok"
        /\ Goto(t, IF call[t].op = "promote" THEN "once" ELSE "reverting")
  /\ UNCHANGED << libraryVars, FIRST_CALL, level, handles, historyVars, before >>

-----------------------------------------------------------------------------
(* set_mm_thread_characteristics: FIRST_CALL.call_once, then a call of its own
   for every thread but the one that ran the closure. *)

EnterAvSet(t) ==
  /\ opened' = TRUE
  /\ opener' = IF opened THEN opener ELSE t

LeaveAvSet(t) == opener' = (IF opener = t THEN None ELSE opener)

(* Faulty variant: a flag that is set when the first call starts. *)
CanPassFlag == FIRST_CALL # "incomplete"

(* call_once runs the closure in the first thread; the others wait until it has
   returned. *)
CanRunFirst == FIRST_CALL = "incomplete"
CanPassOnce == FIRST_CALL = "complete"

CallOnce(t) ==
  /\ At(t, "once")
  /\ \/ CanRunFirst /\ FIRST_CALL' = "running" /\ Goto(t, "setting_first")
     \/ CanPassOnce /\ UNCHANGED FIRST_CALL /\ Goto(t, "setting")
  /\ EnterAvSet(t)
  /\ UNCHANGED << libraryVars, level, handles, before >>

(* Faulty variant: NULL is taken for a task handle. *)
AvSetUnchecked(t) ==
  /\ \E l \in {"NORMAL", "AUDIO"} : level' = [level EXCEPT ![t] = l]
  /\ before' = [before EXCEPT ![t] = level[t]]
  /\ handles' = handles \cup {t}

(* AvSetMmThreadCharacteristicsW returns a task handle, or NULL. *)
AvSet(t) ==
  \/ /\ level' = [level EXCEPT ![t] = "AUDIO"]
     /\ before' = [before EXCEPT ![t] = level[t]]
     /\ handles' = handles \cup {t}
  \/ UNCHANGED << level, before, handles >>

(* Faulty variants: the Once completes only when the call succeeds; the closure
   panics when it does not, which poisons the Once. *)
FirstSetRetried(t) ==
  /\ At(t, "setting_first")
  /\ AvSet(t)
  /\ FIRST_CALL' = IF t \in handles' THEN "complete" ELSE "running"
  /\ LeaveAvSet(t)
  /\ Return(t)
  /\ UNCHANGED << libraryVars, opened >>

FirstSetPanics(t) ==
  /\ At(t, "setting_first")
  /\ AvSet(t)
  /\ FIRST_CALL' = IF t \in handles' THEN "complete" ELSE "poisoned"
  /\ LeaveAvSet(t)
  /\ Return(t)
  /\ UNCHANGED << libraryVars, opened >>

(* The Once completes whether or not the first call succeeds. *)
FirstSetReturns(t) ==
  /\ At(t, "setting_first")
  /\ AvSet(t)
  /\ FIRST_CALL' = "complete"
  /\ LeaveAvSet(t)
  /\ Return(t)
  /\ UNCHANGED << libraryVars, opened >>

SetReturns(t) ==
  /\ At(t, "setting")
  /\ AvSet(t)
  /\ LeaveAvSet(t)
  /\ Return(t)
  /\ UNCHANGED << libraryVars, FIRST_CALL, opened >>

(* AvRevertMmThreadCharacteristics returns TRUE, or FALSE. *)
RevertReturns(t) ==
  /\ At(t, "reverting")
  /\ \/ /\ level' = [level EXCEPT ![t] = "NORMAL"]
        /\ before' = [before EXCEPT ![t] = None]
     \/ UNCHANGED << level, before >>
  /\ Return(t)
  /\ UNCHANGED << libraryVars, FIRST_CALL, handles, historyVars >>

-----------------------------------------------------------------------------

(* The thread exits outside of the library and a new one takes its place; the
   task ends with the thread, the handle is dropped without a call. *)
Restart(t) ==
  /\ call[t] = Idle
  /\ level' = [level EXCEPT ![t] = "NORMAL"]
  /\ before' = [before EXCEPT ![t] = None]
  /\ handles' = handles \ {t}
  /\ UNCHANGED << libraryVars, FIRST_CALL, call, historyVars >>

Continue(t) ==
  \/ InitLibrary(t) \/ LoadLibrary(t) \/ GetSetProc(t) \/ GetRevertProc(t)
  \/ UseLibrary(t) \/ CallOnce(t) \/ FirstSetReturns(t) \/ SetReturns(t)
  \/ RevertReturns(t)

Next == \E t \in Threads : Promote(t) \/ Demote(t) \/ Restart(t) \/ Continue(t)

Spec == Init /\ [][Next]_vars

(* A thread inside the library runs, and the system calls it makes return. *)
Fairness == \A t \in Threads : WF_vars(Continue(t))

FairSpec == Spec /\ Fairness

-----------------------------------------------------------------------------

Pcs == {"avrt", "load", "get_set", "get_revert", "once", "setting_first",
        "setting", "reverting"}

(* The type invariant. *)
TypeOK ==
  /\ AV_RT_LIBRARY \in {"empty", "running", "ok", "err"}
  /\ modules \in Int
  /\ FIRST_CALL \in {"incomplete", "running", "complete"}
  /\ level \in [Threads -> TaskLevels]
  /\ handles \subseteq Threads
  /\ call \in [Threads -> [pc : Pcs, op : Ops] \cup {Idle}]
  /\ opener \in Threads \cup {None}
  /\ opened \in BOOLEAN
  /\ before \in [Threads -> TaskLevels \cup {None}]

InAvrt(t) == call[t].pc \in {"setting_first", "setting", "reverting"}

(* "Ensure that the first call never runs in parallel with other calls"
   (rt_win.rs:119): no thread is inside a function of avrt.dll together with
   the thread that makes the first AvSet call of the process. *)
FirstCallAlone ==
  opener # None => \A t \in Threads : InAvrt(t) => t = opener

Initializing(t) == call[t].pc \in {"load", "get_set", "get_revert"}

(* The process holds one reference to avrt.dll from the moment it may call its
   functions, and none when loading has failed, even half way: neither a call
   into an unloaded module nor a leaked reference. *)
LibraryHeld ==
  /\ (\E t \in Threads : InAvrt(t)) => modules = 1
  /\ (\A t \in Threads : ~ Initializing(t)) =>
       modules = IF AV_RT_LIBRARY = "ok" THEN 1 ELSE 0

(* A handle is only ever given out while the library is there to take it back:
   a demotion never fails with "Unable to load avrt.dll". *)
DemotionFindsLibrary ==
  \A t \in Threads : t \in handles \/ call[t].op = "demote" => AV_RT_LIBRARY = "ok"

(* A call waits only for a thread that is inside the library and waits for
   nobody: there is a thread loading the library while calls wait for the
   OnceLock, and one inside the first AvSet call while calls wait for the Once. *)
WaitersServed ==
  \A t \in Threads :
    /\ At(t, "avrt") /\ AV_RT_LIBRARY = "running" => \E u \in Threads : Initializing(u)
    /\ At(t, "once") /\ FIRST_CALL = "running" => \E u \in Threads : At(u, "setting_first")

(* How many steps a call of t may still need, at most. *)
StepsLeft(t) ==
  CASE At(t, "avrt") /\ AV_RT_LIBRARY \in {"empty", "running"} -> 7
    [] At(t, "load") -> 6
    [] At(t, "get_set") -> 5
    [] At(t, "get_revert") -> 4
    [] At(t, "avrt") /\ AV_RT_LIBRARY \in {"ok", "err"} -> 3
    [] At(t, "once") -> 2
    [] At(t, "setting_first") \/ At(t, "setting") \/ At(t, "reverting") -> 1
    [] At(t, "idle") -> 0

(* Every step of a call takes it nearer to its end, and no step of another
   thread sets it back: the library is loaded once, whatever comes of it, and no
   call goes round. *)
NothingSetBack ==
  [][\A t \in Threads :
       call[t] # Idle =>
         /\ StepsLeft(t)' <= StepsLeft(t)
         /\ call'[t] # call[t] => StepsLeft(t)' < StepsLeft(t)]_vars

(* Every call returns, those that wait for another thread to load the library
   or to finish the first call included. *)
CallsReturn == \A t \in Threads : call[t] # Idle ~> call[t] = Idle

(* The backend keeps the contract of RtPriority. *)
Contract == INSTANCE RtPriority WITH
  Levels <- TaskLevels, RealTimeLevels <- {"AUDIO"}

KeepsContract == Contract!Spec
=============================================================================
