------------------------------ MODULE RtAndroid ------------------------------
(***************************************************************************)
(* src/src/rt_android.rs: a thread is promoted by giving it the nice value *)
(* THREAD_PRIORITY_URGENT_AUDIO, and demoted by giving it back the value   *)
(* getpriority returned before.                                            *)
(*                                                                         *)
(* getpriority returns the nice value, or -1 with errno set: -1 is a nice  *)
(* value too, and errno may hold the error of any earlier call.  The       *)
(* kernel, which is external, lets any thread raise its nice value, and    *)
(* lower it down to a floor that RLIMIT_NICE or a capability sets and the  *)
(* system changes while the process runs.                                  *)
(***************************************************************************)
EXTENDS Integers

CONSTANTS
  Threads,  (* threads of the process.                                     *)
  Nices,    (* nice values threads start with, or are given by others.     *)
  Floors,   (* lowest nice values the process may ask for.                 *)
  None      (* no handle, no level.                                        *)

(* Faulty variant: the sign is lost. *)
THREAD_PRIORITY_UNSIGNED == 19

THREAD_PRIORITY_URGENT_AUDIO == -19

ASSUME AndroidAssumption ==
  /\ Nices \subseteq (-20..19) \ {THREAD_PRIORITY_URGENT_AUDIO}
  /\ Nices # {}
  /\ Floors \subseteq -20..20
  /\ None \notin Int

VARIABLES
  nice,     (* nice value of each thread.                                  *)
  floor,    (* lowest nice value the kernel lets the process ask for.      *)
  errno,    (* errno of each thread: is it set?                            *)
  call,     (* the promotion each thread is in: the previous priority read *)
            (* so far, None outside promotions.                            *)
  handle,   (* the previous priority in the handle of each thread's client.*)
  before,   (* history: level a promoted thread is to come back to.        *)
  outcome   (* history: what the last call of each thread returned, and    *)
            (* whether the kernel refused something meanwhile.             *)

vars == << nice, floor, errno, call, handle, before, outcome >>

Init ==
  /\ nice \in [Threads -> Nices]
  /\ floor \in Floors
  /\ errno \in [Threads -> BOOLEAN]
  /\ call = [t \in Threads |-> None]
  /\ handle = [t \in Threads |-> None]
  /\ before = [t \in Threads |-> None]
  /\ outcome = [t \in Threads |-> [ok |-> TRUE, refused |-> FALSE]]

-----------------------------------------------------------------------------
(* getpriority(2) and setpriority(2). *)

MaySet(t, n) == n >= nice[t] \/ n >= floor

Returns(t, ok, refused) ==
  outcome' = [outcome EXCEPT ![t] = [ok |-> ok, refused |-> refused]]

(* Faulty variant: errno is not cleared first. *)
ErrnoKept(t) == errno[t]

(* errno when getpriority is called: `*libc::__errno() = 0`. *)
ErrnoCleared(t) == FALSE

(* How the code tells an error from the nice value -1. *)
GetFailed(value, set) == value = -1 /\ set

-----------------------------------------------------------------------------
(* promote_current_thread_to_real_time: getpriority, then setpriority. *)

(* A client promotes a thread that is not promoted; a promotion of a promoted
   one would remember THREAD_PRIORITY_URGENT_AUDIO. *)
Promote(t) ==
  /\ call[t] = None /\ handle[t] = None /\ before[t] = None
  /\ \E refused \in BOOLEAN :
       LET value == IF refused THEN -1 ELSE nice[t]
           set   == refused \/ ErrnoCleared(t)
       IN  /\ errno' = [errno EXCEPT ![t] = set]
           /\ IF GetFailed(value, set)
              THEN Returns(t, FALSE, refused) /\ UNCHANGED call
              ELSE call' = [call EXCEPT ![t] = value] /\ UNCHANGED outcome
  /\ UNCHANGED << nice, floor, handle, before >>

(* Faulty variant: the value is read once the thread is promoted. *)
ReadLate(t) == THREAD_PRIORITY_URGENT_AUDIO

(* The previous priority the handle gets. *)
PreviousPriority(t) == call[t]

PromoteSet(t) ==
  /\ call[t] # None
  /\ call' = [call EXCEPT ![t] = None]
  /\ IF MaySet(t, THREAD_PRIORITY_URGENT_AUDIO)
     THEN /\ nice' = [nice EXCEPT ![t] = THREAD_PRIORITY_URGENT_AUDIO]
          /\ handle' = [handle EXCEPT ![t] = PreviousPriority(t)]
          /\ before' = [before EXCEPT ![t] = nice[t]]
          /\ Returns(t, TRUE, FALSE)
          /\ UNCHANGED errno
     ELSE /\ errno' = [errno EXCEPT ![t] = TRUE]
          /\ Returns(t, FALSE, TRUE)
          /\ UNCHANGED << nice, handle, before >>
  /\ UNCHANGED floor

(* Faulty variant: the result of setpriority is not looked at. *)
DemoteUnchecked(t) ==
  /\ call[t] = None /\ handle[t] # None
  /\ handle' = [handle EXCEPT ![t] = None]
  /\ nice' = IF MaySet(t, handle[t]) THEN [nice EXCEPT ![t] = handle[t]] ELSE nice
  /\ errno' = [errno EXCEPT ![t] = errno[t] \/ ~ MaySet(t, handle[t])]
  /\ before' = [before EXCEPT ![t] = None]
  /\ Returns(t, TRUE, ~ MaySet(t, handle[t]))
  /\ UNCHANGED << floor, call >>

(* demote_current_thread_from_real_time, on the thread the handle is of: the
   code acts on its caller and has no means to tell.  The handle is gone even
   when the kernel refuses. *)
Demote(t) ==
  /\ call[t] = None /\ handle[t] # None
  /\ handle' = [handle EXCEPT ![t] = None]
  /\ IF MaySet(t, handle[t])
     THEN /\ nice' = [nice EXCEPT ![t] = handle[t]]
          /\ before' = [before EXCEPT ![t] = None]
          /\ Returns(t, TRUE, FALSE)
          /\ UNCHANGED errno
     ELSE /\ errno' = [errno EXCEPT ![t] = TRUE]
          /\ Returns(t, FALSE, TRUE)
          /\ UNCHANGED << nice, before >>
  /\ UNCHANGED << floor, call >>

-----------------------------------------------------------------------------
(* Steps of the client and of the system. *)

(* The handle is dropped: nothing is demoted. *)
DropHandle(t) ==
  /\ handle[t] # None
  /\ handle' = [handle EXCEPT ![t] = None]
  /\ UNCHANGED << nice, floor, errno, call, before, outcome >>

(* Any other call the thread makes may leave errno set. *)
OtherCall(t) ==
  /\ call[t] = None
  /\ errno' = [errno EXCEPT ![t] = TRUE]
  /\ UNCHANGED << nice, floor, call, handle, before, outcome >>

(* The thread exits and another one takes its place, started by a thread that
   is not promoted: the nice value is inherited. *)
Restart(t) ==
  /\ call[t] = None
  /\ \E n \in Nices : nice' = [nice EXCEPT ![t] = n]
  /\ errno' = [errno EXCEPT ![t] = FALSE]
  /\ handle' = [handle EXCEPT ![t] = None]
  /\ before' = [before EXCEPT ![t] = None]
  /\ Returns(t, TRUE, FALSE)
  /\ UNCHANGED << floor, call >>

SetFloor ==
  /\ floor' \in Floors
  /\ UNCHANGED << nice, errno, call, handle, before, outcome >>

Next ==
  \/ \E t \in Threads : Promote(t) \/ PromoteSet(t) \/ Demote(t)
  \/ \E t \in Threads : DropHandle(t) \/ OtherCall(t) \/ Restart(t)
  \/ SetFloor

Spec == Init /\ [][Next]_vars

-----------------------------------------------------------------------------

Levels == (-20)..19
RealTimeLevels == {THREAD_PRIORITY_URGENT_AUDIO}

(* The type invariant: handles and promotions only hold ordinary values. *)
TypeOK ==
  /\ nice \in [Threads -> Nices \cup RealTimeLevels]
  /\ floor \in Floors
  /\ errno \in [Threads -> BOOLEAN]
  /\ call \in [Threads -> Nices \cup {None}]
  /\ handle \in [Threads -> Nices \cup {None}]
  /\ before \in [Threads -> Nices \cup {None}]
  /\ outcome \in [Threads -> [ok : BOOLEAN, refused : BOOLEAN]]

(* A call reports an error exactly when the kernel refused it something: the
   nice value -1, with an errno some earlier call left behind, is not taken for
   a failure (rt_android.rs:32-34), and no refusal is taken for a success. *)
ErrorIffRefused ==
  \A t \in Threads : outcome[t].ok <=> ~ outcome[t].refused

(* As long as the kernel leaves a promoted thread alone, its handle can always
   be used: giving back a nice value never needs the privilege the promotion
   needed, however the floor moved meanwhile, but for a thread that came from
   below the urgent audio priority (rt_android.rs:36-42, 52). *)
DemotionNeverDenied ==
  \A t \in Threads :
    handle[t] # None /\ handle[t] >= -19 => MaySet(t, handle[t])

Contract == INSTANCE RtPriority WITH level <- nice

(* The backend keeps the contract of RtPriority: the nice value of before the
   promotion comes back, whatever calls fail. *)
KeepsContract == Contract!Spec
=============================================================================
