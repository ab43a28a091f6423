--------------------------------- MODULE CApi ---------------------------------
(***************************************************************************)
(* The C API on Linux (the `atp_` functions of src/src/lib.rs, declared in *)
(* src/audio_thread_priority.h) over a backend that keeps the contract of  *)
(* RtPriority.  A handle or a thread info is a box on the heap of one      *)
(* process: the library makes it and gives the client a raw pointer, and   *)
(* takes it back when the client demotes with it or frees it.  Infos reach *)
(* another process as bytes.                                               *)
(*                                                                         *)
(* The client follows the documentation: it passes a pointer only while it *)
(* holds it, demotes on the right thread, gathers an info on a thread that *)
(* is to be promoted, and promotes or demotes with infos and handles of    *)
(* threads that still run.  A call that returns NULL or fails before the   *)
(* backend has done anything changes nothing.                              *)
(***************************************************************************)
EXTENDS RtPriority, ThreadInfo, FiniteSets

CONSTANTS
  Home,         (* process of each thread.                                 *)
  Pthreads,     (* values of pthread_t: each new thread with an id has the *)
                (* next one.                                               *)
  Ptrs,         (* addresses boxes can have.                               *)
  Rates,        (* sample rates clients pass.                              *)
  MaxBuffers    (* bound: byte buffers in circulation.                     *)

(* A level is what an info saves: a policy and a priority. *)
Infos ==
  [thread_id : Threads, pthread_id : Pthreads, pid : {Home[t] : t \in Threads},
   policy : {l[1] : l \in Levels}, priority : {l[2] : l \in Levels}]

Boxes == [kind : {"handle", "info"}, proc : {Home[t] : t \in Threads}, info : Infos]

ASSUME ApiAssumption ==
  /\ \A l \in Levels : l \in Int \X Int
  /\ Pthreads \subseteq Nat /\ \E n \in Pthreads : \A k \in Pthreads : n <= k
  /\ MaxBuffers \in Nat
  /\ None \notin Boxes

(* What the fields of an info hold are values of their types: kernel_pid_t,
   pthread_t, pid_t and c_int. *)
ASSUME FieldsAssumption ==
  /\ \A t \in Threads : FitsSigned(t, LongSize) /\ FitsSigned(Home[t], IntSize)
  /\ \A n \in Pthreads : n \in 0..(Pow[LongSize] - 1)
  /\ \A l \in Levels : FitsSigned(l[1], IntSize) /\ FitsSigned(l[2], IntSize)

VARIABLES
  pthread,   (* pthread_t of the thread that has each id.                  *)
  heap,      (* the box at each address.                                   *)
  held,      (* pointers the client may still pass to the library.         *)
  buffers,   (* byte buffers sent to other processes, which may read them  *)
             (* any number of times.                                       *)
  gathered   (* history: every info the library has read from a thread.    *)

apiVars == << level, before, pthread, heap, held, buffers, gathered >>

ApiInit ==
  /\ Init
  /\ pthread = [t \in Threads |-> CHOOSE n \in Pthreads : \A k \in Pthreads : n <= k]
  /\ heap = [p \in Ptrs |-> None]
  /\ held = {}
  /\ buffers = {}
  /\ gathered = {}

-----------------------------------------------------------------------------
(* Boxes: Box::into_raw and Box::from_raw. *)

Give(c, kind, info) ==
  \E p \in Ptrs :
    /\ heap[p] = None
    /\ heap' = [heap EXCEPT ![p] = [kind |-> kind, proc |-> Home[c], info |-> info]]
    /\ held' = held \cup {p}

(* The client can pass p, a pointer to a box of this kind, on thread c. *)
Passes(c, p, kind) == p \in held /\ heap[p].kind = kind /\ heap[p].proc = Home[c]

(* Faulty variant: the box is taken back only when the call succeeds. *)
TakenOnSuccess(ok) == ok

TakenBack(ok) == TRUE

(* From here on the client must not pass p again, whatever the call returns. *)
TakeBack(p, ok) ==
  /\ held' = held \ {p}
  /\ heap' = IF TakenBack(ok) THEN [heap EXCEPT ![p] = None] ELSE heap

(* Every function but the promotions returns 0 or 1. *)
ResultIgnored(ok) == 0   \* Faulty variant.
Result(ok) == IF ok THEN 0 ELSE 1

-----------------------------------------------------------------------------
(* The backend, as the contract has it. *)

InfoOf(t) ==
  [thread_id |-> t, pthread_id |-> pthread[t], pid |-> Home[t],
   policy |-> level[t][1], priority |-> level[t][2]]

(* Faulty variants: the policy saved is not looked at; the info is read once
   the thread is promoted. *)
SavedDefault(info) == << 0, 0 >>
InfoPromoted(t, l) == [InfoOf(t) EXCEPT !.policy = l[1], !.priority = l[2]]

Saved(info) == << info.policy, info.priority >>

(* The info in the handle of a promotion of its caller to level l. *)
OwnInfo(t, l) == InfoOf(t)

(* The info is one of a thread that still runs. *)
Fresh(info) ==
  info.thread_id \in Threads /\ SameThread(info, InfoOf(info.thread_id))

PromoteTo(t, l, info) ==
  /\ before[t] = None
  /\ level' = [level EXCEPT ![t] = l]
  /\ before' = [before EXCEPT ![t] = Saved(info)]

(* A demotion that returns `result`; it may be refused. *)
DemoteBy(t, info, ok) ==
  /\ before[t] # None
  /\ level' = IF ok THEN [level EXCEPT ![t] = Saved(info)] ELSE level
  /\ before' = IF Result(ok) = 0 THEN [before EXCEPT ![t] = None] ELSE before

-----------------------------------------------------------------------------
(* The functions of the API, called on thread c. *)

atp_get_current_thread_info(c) ==
  /\ before[c] = None
  /\ Give(c, "info", InfoOf(c))
  /\ gathered' = gathered \cup {InfoOf(c)}
  /\ UNCHANGED << level, before, pthread, buffers >>

atp_free_thread_info(c, p) ==
  /\ Passes(c, p, "info")
  /\ TakeBack(p, TRUE)
  /\ UNCHANGED << level, before, pthread, buffers, gathered >>

(* The client then sends the bytes. *)
atp_serialize_thread_info(c, p) ==
  /\ Passes(c, p, "info")
  /\ buffers' = buffers \cup {serialize(heap[p].info)}
  /\ Cardinality(buffers') <= MaxBuffers
  /\ UNCHANGED << level, before, pthread, heap, held, gathered >>

atp_deserialize_thread_info(c, bytes) ==
  /\ Give(c, "info", deserialize(bytes))
  /\ UNCHANGED << level, before, pthread, buffers, gathered >>

atp_promote_current_thread_to_real_time(c, rate, l) ==
  /\ rate # 0
  /\ LET info == OwnInfo(c, l)
     IN  /\ PromoteTo(c, l, info)
         /\ Give(c, "handle", info)
         /\ gathered' = gathered \cup {info}
  /\ UNCHANGED << pthread, buffers >>

(* The header declares the first argument only, so a C client passes whatever
   the registers hold as buffer size and sample rate. *)
atp_promote_thread_to_real_time(c, p, rate, l) ==
  /\ Passes(c, p, "info") /\ Fresh(heap[p].info)
  /\ rate # 0
  /\ PromoteTo(heap[p].info.thread_id, l, heap[p].info)
  /\ Give(c, "handle", heap[p].info)
  /\ UNCHANGED << pthread, buffers, gathered >>

atp_demote_current_thread_from_real_time(c, p, ok) ==
  /\ Passes(c, p, "handle") /\ Fresh(heap[p].info) /\ heap[p].info.thread_id = c
  /\ DemoteBy(c, heap[p].info, ok)
  /\ TakeBack(p, ok)
  /\ UNCHANGED << pthread, buffers, gathered >>

(* The info stays with the client.  `pthread_id` is of use only in the process
   of the thread. *)
atp_demote_thread_from_real_time(c, p, ok) ==
  /\ Passes(c, p, "info") /\ Fresh(heap[p].info) /\ heap[p].info.pid = Home[c]
  /\ DemoteBy(heap[p].info.thread_id, heap[p].info, ok)
  /\ UNCHANGED << pthread, heap, held, buffers, gathered >>

(* Nothing is demoted. *)
atp_free_handle(c, p) ==
  /\ Passes(c, p, "handle")
  /\ TakeBack(p, TRUE)
  /\ UNCHANGED << level, before, pthread, buffers, gathered >>

(* The thread exits and another one gets its id; the boxes stay. *)
ThreadRestart(t) ==
  /\ pthread[t] + 1 \in Pthreads
  /\ pthread' = [pthread EXCEPT ![t] = @ + 1]
  /\ Restart(t)
  /\ UNCHANGED << heap, held, buffers, gathered >>

-----------------------------------------------------------------------------

InfoCalls(c) ==
  \/ atp_get_current_thread_info(c)
  \/ \E p \in Ptrs : atp_free_thread_info(c, p) \/ atp_serialize_thread_info(c, p)
  \/ \E bytes \in buffers : atp_deserialize_thread_info(c, bytes)

Promotions(c) ==
  \E rate \in Rates, l \in RealTimeLevels :
    \/ atp_promote_current_thread_to_real_time(c, rate, l)
    \/ \E p \in Ptrs : atp_promote_thread_to_real_time(c, p, rate, l)

Demotions(c) ==
  \E p \in Ptrs :
    \/ \E ok \in BOOLEAN : \/ atp_demote_current_thread_from_real_time(c, p, ok)
                           \/ atp_demote_thread_from_real_time(c, p, ok)
    \/ atp_free_handle(c, p)

ApiNext ==
  \E c \in Threads :
    InfoCalls(c) \/ Promotions(c) \/ Demotions(c) \/ ThreadRestart(c)

ApiSpec == ApiInit /\ [][ApiNext]_apiVars

-----------------------------------------------------------------------------

(* The type invariant. *)
ApiTypeOK ==
  /\ TypeOK
  /\ pthread \in [Threads -> Pthreads]
  /\ heap \in [Ptrs -> Boxes \cup {None}]
  /\ held \subseteq Ptrs
  /\ gathered \subseteq Infos

(* Whatever info a client holds, it can send it on unchanged: a pthread_t with
   its top bit set is not taken for a negative one, and no field ends in another
   (rt_linux.rs:59-101). *)
RoundTrip ==
  \A p \in held : deserialize(serialize(heap[p].info)) = heap[p].info

(* A box is live exactly while the client holds its pointer: whatever calls
   fail, nothing the library gave away is leaked once the client may not pass
   it any more, and nothing it may pass has been freed (the Safety sections of
   atp_demote_current_thread_from_real_time and the atp_free functions). *)
BoxesOwned == held = {p \in Ptrs : heap[p] # None}

(* Every info in the hands of a client, in whatever process and behind however
   many transports, is one the library read from a thread: all its fields, those
   the equality of infos ignores included. *)
InfosGenuine == \A p \in held : heap[p].info \in gathered

(* Over such infos and handles the API keeps the contract: each promotion
   remembers the level of its thread at that time, and each demotion that
   returns 0 brings it back, with the handle or with any copy of the info. *)
KeepsContract == Spec
=============================================================================
