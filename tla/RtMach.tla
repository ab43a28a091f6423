-------------------------------- MODULE RtMach --------------------------------
(***************************************************************************)
(* src/src/rt_mach.rs: on macOS and iOS a thread is promoted with the time *)
(* constraint scheduling policy of Mach: every `period` it gets to compute *)
(* for `computation`, within `constraint`.  A promotion first asks for the *)
(* time constraint of the thread (thread_policy_get), to come back to; a   *)
(* demotion sets that time constraint again, from any thread.              *)
(*                                                                         *)
(* The kernel is external.  A thread without a time constraint is under    *)
(* the timeshare policy, and thread_policy_get then answers with a default *)
(* time constraint; the code passes `get_default` to learn which, and does *)
(* not look at it.                                                         *)
(*                                                                         *)
(* Durations are exact here and cut to whole ticks at the end; the code    *)
(* computes them as f32 and the conversion to u32 saturates.               *)
(***************************************************************************)
EXTENDS Integers

CONSTANTS
  Threads,     (* threads of the process.                                  *)
  Frames,      (* buffer sizes clients pass; 0 asks for the default.       *)
  Rates,       (* sample rates clients pass.                               *)
  TicksPerMs,  (* ms2abs: ticks of the time base in a millisecond.         *)
  U32Max,      (* the largest number of ticks a field can hold.            *)
  Default,     (* the time constraint the kernel answers by default.       *)
  Custom,      (* a time constraint a client may have set itself.          *)
  Timeshare,   (* the policy of a thread without a time constraint.        *)
  None

TimeConstraints ==
  [period : 0..U32Max, computation : 0..U32Max, constraint : 0..U32Max,
   preemptible : BOOLEAN]

MAX_RT_QUANTUM == 50

ASSUME MachAssumption ==
  /\ Frames \subseteq Nat /\ Rates \subseteq Nat
  /\ TicksPerMs \in Nat /\ U32Max \in Nat
  /\ MAX_RT_QUANTUM * TicksPerMs <= U32Max
  /\ Default \in TimeConstraints /\ Custom \in TimeConstraints
  /\ {None, Timeshare} \cap TimeConstraints = {} /\ None # Timeshare

VARIABLES
  policy,   (* Timeshare or the time constraint of each thread.            *)
  call,     (* the promotion each thread is in: the time constraint to     *)
            (* come back to and the one to ask for, None outside.          *)
  handle,   (* previous_time_constraint_policy in the handle of each       *)
            (* promoted thread (`tid`), while the client holds it.         *)
  before    (* history: level a promoted thread is to come back to.        *)

vars == << policy, call, handle, before >>

-----------------------------------------------------------------------------
(* The request. *)

AtMost(n, m) == IF n < m THEN n ELSE m

BufferFrames(frames, rate) == IF frames > 0 THEN frames ELSE rate \div 20

(* The ticks a buffer lasts. *)
Duration(frames, rate) == (frames * 1000 * TicksPerMs) \div rate

(* Faulty variant: half of the buffer, however long it is. *)
HalfTheBuffer(duration) == AtMost(duration \div 2, U32Max)

(* Half of the buffer, at most 50ms. *)
Computation(duration) == AtMost(duration \div 2, MAX_RT_QUANTUM * TicksPerMs)

Request(frames, rate) ==
  LET duration == Duration(BufferFrames(frames, rate), rate)
  IN  [period      |-> AtMost(duration, U32Max),
       computation |-> Computation(duration),
       constraint  |-> AtMost(duration, U32Max),
       preemptible |-> TRUE]

(* What clients may ask for: promote_current_thread_to_real_time refuses a
   sample rate of 0. *)
Requests == {Request(f, r) : f \in Frames, r \in Rates \ {0}}

(* A client that sets a time constraint itself sets another one. *)
ASSUME OwnAssumption == {Default, Custom} \cap Requests = {}

-----------------------------------------------------------------------------
(* The kernel. *)

Init ==
  /\ policy \in [Threads -> {Timeshare, Custom}]
  /\ call = [t \in Threads |-> None]
  /\ handle = [t \in Threads |-> None]
  /\ before = [t \in Threads |-> None]

(* The time constraint thread_policy_get answers. *)
Reported(p) == IF p = Timeshare THEN Default ELSE p

(* min_rt_quantum, 50us, in ticks. *)
MinComputation == TicksPerMs \div 20

(* thread_policy.c and sched_prim.c, which the code cites: at least 50us of
   computation, at most 50ms, and no more than the constraint. *)
Acceptable(tc) ==
  /\ MinComputation <= tc.computation
  /\ tc.computation <= MAX_RT_QUANTUM * TicksPerMs
  /\ tc.computation <= tc.constraint

-----------------------------------------------------------------------------
(* promote_current_thread_to_real_time. *)

(* thread_policy_get.  When it fails, the promotion does, and nothing changes. *)
Promote(t, frames, rate) ==
  /\ call[t] = None /\ before[t] = None
  /\ rate # 0
  /\ call' = [call EXCEPT ![t] = [previous |-> Reported(policy[t]),
                                  request  |-> Request(frames, rate)]]
  /\ UNCHANGED << policy, handle, before >>

(* Faulty variant: the handle holds the request. *)
RequestKept(t) == call[t].request

(* The time constraint the handle gets. *)
Previous(t) == call[t].previous

(* thread_policy_set, which may fail whatever it is asked. *)
PromoteSet(t) ==
  /\ call[t] # None
  /\ call' = [call EXCEPT ![t] = None]
  /\ \/ /\ Acceptable(call[t].request)
        /\ policy' = [policy EXCEPT ![t] = call[t].request]
        /\ handle' = [handle EXCEPT ![t] = Previous(t)]
        /\ before' = [before EXCEPT ![t] = Reported(policy[t])]
     \/ UNCHANGED << policy, handle, before >>

(* Faulty variant: the result of thread_policy_set is not looked at. *)
DemoteUnchecked(t) ==
  /\ handle[t] # None
  /\ handle' = [handle EXCEPT ![t] = None]
  /\ policy' \in {policy, [policy EXCEPT ![t] = handle[t]]}
  /\ before' = [before EXCEPT ![t] = None]
  /\ UNCHANGED call

(* demote_current_thread_from_real_time, of the thread the handle names, on
   whichever thread it is called.  The handle is gone even on a failure. *)
Demote(t) ==
  /\ handle[t] # None
  /\ handle' = [handle EXCEPT ![t] = None]
  /\ \/ /\ Acceptable(handle[t])
        /\ policy' = [policy EXCEPT ![t] = handle[t]]
        /\ before' = [before EXCEPT ![t] = None]
     \/ UNCHANGED << policy, before >>
  /\ UNCHANGED call

(* The handle is dropped: nothing is demoted. *)
DropHandle(t) ==
  /\ handle[t] # None
  /\ handle' = [handle EXCEPT ![t] = None]
  /\ UNCHANGED << policy, call, before >>

(* The thread exits, its client drops the handle, and a new thread starts. *)
Restart(t) ==
  /\ call[t] = None
  /\ \E p \in {Timeshare, Custom} : policy' = [policy EXCEPT ![t] = p]
  /\ handle' = [handle EXCEPT ![t] = None]
  /\ before' = [before EXCEPT ![t] = None]
  /\ UNCHANGED call

Next ==
  \E t \in Threads :
    \/ \E f \in Frames, r \in Rates : Promote(t, f, r)
    \/ PromoteSet(t) \/ Demote(t) \/ DropHandle(t) \/ Restart(t)

Spec == Init /\ [][Next]_vars

-----------------------------------------------------------------------------

(* The type invariant: no duration wraps. *)
TypeOK ==
  /\ policy \in [Threads -> Requests \cup {Timeshare, Default, Custom}]
  /\ call \in [Threads -> [previous : {Default, Custom}, request : Requests] \cup {None}]
  /\ handle \in [Threads -> {Default, Custom, None}]
  /\ before \in [Threads -> {Default, Custom, None}]

(* Whatever the buffer size and the sample rate, the only reason the kernel has to
   refuse what a promotion asks for is a buffer shorter than 100us, half of which
   is below its minimum (rt_mach.rs:116-135): a large buffer never asks for more
   than a thread may compute, and its duration does not wrap. *)
RequestAcceptable ==
  \A t \in Threads : call[t] # None =>
    /\ call[t].request \in TimeConstraints
    /\ Acceptable(call[t].request) <=> 2 * MinComputation <= call[t].request.constraint

Levels == Requests \cup {Default, Custom}
RealTimeLevels == Requests
Contract == INSTANCE RtPriority WITH
  level <- [t \in Threads |-> Reported(policy[t])]

(* The backend keeps the contract of RtPriority as far as thread_policy_get
   tells: a demotion puts back the time constraint reported before. *)
KeepsContract == Contract!Spec

(* "this thread is now bumped back to normal" (lib.rs:37), "to revert to the
   previous thread priority" (lib.rs:508): a thread nothing has promoted, or
   that was demoted, is timeshare unless it had a time constraint of its own. *)
BackToNormal ==
  \A t \in Threads : before[t] = None => policy[t] \in {Timeshare, Custom}
=============================================================================
