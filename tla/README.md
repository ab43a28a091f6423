# audio_thread_priority: TLA+ models, checks and proofs

The crate promotes a thread to real-time scheduling so that it can compute
audio, and demotes it again. Each platform has a backend with the same
functions. Most of the difficulty is not in the functions themselves, which are
short, but in what goes on around them: the thread may belong to another
process, its id may have been reused, the privilege that allowed the promotion
may be gone when it is demoted, a daemon answers late or never, limits belong to
a process while promotions belong to threads, Windows needs a library that is
loaded once under a lock, and through the C API everything is behind a raw
pointer or a buffer of bytes.

This directory holds TLA+ modules for the contract, for the five backends and for
the C API on top, TLC configurations that check them on small instances, and TLAPS
proofs for any number of threads and processes.

## The system

| component | code | state | operations |
|---|---|---|---|
| public Rust API | `src/lib.rs` 222-533 | none; refuses a sample rate of 0 | promote/demote the current thread; on Linux also get thread info, promote/demote a given thread, set the limit |
| Linux, native | `src/rt_linux_native.rs` | `RT_PRIORITY` (one atomic per process); policy, priority and `SCHED_RESET_ON_FORK` of each thread (kernel) | the above with `pthread_setschedparam` / `sched_setscheduler`; `set_rt_priority` |
| Linux, rtkit | `src/rt_linux.rs` | `RLIMIT_RTTIME` of each process and the scheduling of each thread (kernel) | the above over D-Bus; `set_real_time_hard_limit` |
| Windows | `src/rt_win.rs` | `AV_RT_LIBRARY` (OnceLock), `FIRST_CALL` (Once), the module reference, the MMCSS task of each thread | promote, demote, loading avrt.dll |
| macOS, iOS | `src/rt_mach.rs` | Mach thread policy (kernel), the time constraint in the handle | promote, demote |
| Android | `src/rt_android.rs` | nice value and errno of the thread, the previous priority in the handle | promote, demote |
| fallback | `src/lib.rs` 150-219 | none | no-ops that report success |
| C API | `src/lib.rs` 289-620, `audio_thread_priority.h` | boxed handles and infos behind raw pointers | `atp_*` wrappers, frees |
| thread info bytes | `serialize`, `deserialize` of the Linux backends | none | pack and unpack five fields |
| error type | `src/lib.rs` 55-99 | none | message and source |

How they interact. The public functions call the one backend the build selects.
A thread info travels: it is gathered on the thread to promote, copied freely,
serialized to another process, and used there by a thread that may promote it. A
handle is owned, and a demotion consumes it. The native backend changes the
scheduler itself. The rtkit backend lowers the limits of its own process, sends
a request, blocks for at most `DBUS_SOCKET_TIMEOUT`, and on an error puts limits
back. On Windows all threads share one lazily loaded library.

What is hard, and what makes each part correct:

- *Native*: promotions take three steps (capture, load the priority, system
  call) between which anything may run; the saved attributes can be stale; a
  sticky kernel flag makes naive demotions fail without privilege; the two system
  calls report errors differently. Correct when a success means what it says,
  when what is asked of the kernel is always well formed, when a demotion is
  never refused, and when real-time scheduling never spreads to new threads.
- *rtkit*: process-wide limits shared by concurrent promotions, a request that
  times out while it is granted, an error path in two steps. Correct when no
  real-time thread runs with more real-time CPU time than the daemon allows, when
  every call returns, when a sandboxed process can still demote.
- *Windows*: one-time initialization that can fail half way, a first call that
  must run alone. Correct when nobody calls into an unloaded module, nothing
  leaks, nobody overlaps with the first call, and nobody waits for ever.
- *macOS*: a request computed from client numbers that the kernel limits, an
  answer that may be a default. Correct when what is asked for is always
  acceptable and a demotion puts back what was reported.
- *Android*: a return value that is an error and a nice value at once, rights that
  come and go. Correct when an error means a refusal and nothing else, and when a
  demotion needs no privilege.
- *C API and thread info bytes*: boxes of several processes, taken back by calls
  that may fail; infos that are copied, kept and sent on. Correct when each box has
  one owner at any time, when every info that arrives is one that was gathered, and
  when the contract still holds with handles and with copies of infos.

## The modules

| module | models | uses |
|---|---|---|
| `RtPriority` | what every backend promises: promote, demote, restart of a thread | |
| `RtPriorityMisled` | the same, of a backend that may tell its client something wrong | `RtPriority` |
| `LinuxThreads` | kernel rule for scheduling attributes, threads and processes that come and go, thread infos and handles: common to both Linux backends | |
| `RtLinuxNative` | `rt_linux_native.rs` | `LinuxThreads`, instance of `RtPriority` |
| `RtLinux` | `rt_linux.rs` | `LinuxThreads`, instance of `RtPriorityMisled` |
| `RtWin` | `rt_win.rs` | instance of `RtPriority` |
| `RtMach` | `rt_mach.rs` | instance of `RtPriority` |
| `RtAndroid` | `rt_android.rs` | instance of `RtPriority` |
| `ThreadInfo` | the bytes of a thread info, of both Linux backends | |
| `CApi` | the `atp_` functions of `lib.rs` over a backend that keeps the contract | `RtPriority`, `ThreadInfo` |
| `LinuxThreadsProofs` | facts on the operators both Linux backends share | `LinuxThreads`, `TLAPS` |
| `*Proofs` | the theorems about one module each | their module, `TLAPS` |
| `MC*` | values of the constants for TLC | their module |

Definitions named "faulty variant" in a comment are not part of any
specification: each one is a plausible bug, put in the place of the definition
that follows it to confirm that a property notices.

### RtPriority: the contract

A thread has a level. A successful promotion moves it to a real-time level and
remembers where it was; a successful demotion moves it back exactly there; an
error changes nothing; a promotion ends with its thread. The two invariants are
what a client may conclude: a thread is real-time exactly while a promotion is in
effect, and demoting never leaves it real-time. Four of the five backends are
checked, and proved, against this module with `KeepsContract == Contract!Spec`, so
a backend step that changes a level without reporting it, or reports what it did
not do, is a violation.

### RtPriorityMisled: the contract of the rtkit backend

The rtkit backend does report what it did not do: a demotion the kernel refuses
returns Ok, and a promotion that times out returns an error for a thread the
daemon makes real-time (`rtkit_silent_demotion`, `rtkit_late_grant`). Its contract
adds `misled`, the threads whose client has been told something wrong. A step that
misleads takes the thread to a real-time level with nothing promised of it
(`MisleadAbout`), from then on anything may become of that thread (`Astray`) and
of that thread only, and all of it ends with the thread (`StartAnew`). Every other
thread keeps the contract of `RtPriority`. The invariant `RealTimeIffPromised` of
`RtLinux` is the client's conclusion, for the threads it has not been misled about,
and `MisledOnly` says which steps mislead: without it the contract would excuse
everything.

### LinuxThreads

The kernel is external; `Permitted` and `Errno` state the rule the backends
rely on and comment on: without `CAP_SYS_NICE` a real-time policy or a higher
priority needs `RLIMIT_RTPRIO` of the target's process, and
`SCHED_RESET_ON_FORK` cannot be cleared (rt_linux_native.rs 214-216). New threads
inherit the attributes of the thread that creates them, or ordinary ones if that
thread carries the flag. `Spawn` and `Exit` reuse ids, `DropPrivilege` and
`SetRtprio` take rights away. An info records the thread, its process and the
attributes of the moment; a handle also has the process that holds it.

`Exclusive` describes the client. When TRUE each thread is promoted, demoted and
inspected from one place at a time, and clients throw away what they hold on a
thread that exits: the way the documentation shows. When FALSE infos go stale,
promotions nest and race, several callers act on one thread. `before` is a
history variable for the contract and is kept for exclusive clients only.

### RtLinuxNative

`PromoteCurrent` or `PromoteThread` (capture, or receive, the info), `LoadPriority`
(`requested_priority()`), `PromoteSet` (the system call and the return) are the
three steps of a promotion, one call in flight per thread, other threads in
between. The demotions and `set_rt_priority` are atomic: they have one system
call or one store. `PthreadFailed` (`rc != 0`) and `SchedFailed` (`rc < 0`) are
applied to the result conventions of the two calls, so the code's way of testing
for errors is part of the model. Attributes asked for are `PromotedAttr` and
`DemotedAttr`.

Constraint on the client kept by the guards: `pthread_id` is only used in the
process it came from while that thread runs (anything else is undefined
behaviour of `pthread_setschedparam`).

### RtLinux

The steps of a promotion are `PromoteCurrent`/`PromoteThread` (the budget),
`GetLimits` (D-Bus), `SetLimits` (`setrlimit`, of the caller's process),
`Request` (sent or failed), the daemon's `RtkitAnswer`, then `Answered` or
`Timeout`, and on an error `RollbackGet`, `RollbackSet`. `late` holds requests
nobody waits for any more: the daemon may still act on them (`RtkitLate`). A
limit call shares the first three; `Limiters` are the processes that make one,
`Brokers` those that have threads of other processes promoted and none of their
own. `Lockdown` takes D-Bus away from a process.
The demotions ask the kernel directly, and `PthreadFailed` is the test of the
code, `rc < 0`.

The budget is computed at the start of a call, before the limits are read, as
in the code. A sample rate of 0 can only come through
`atp_set_real_time_limit`, where the division panics and, inside an `extern "C"`
function, aborts the process: the guard of `set_real_time_hard_limit` leaves the
call out.

`misled` is a history variable like `before`, kept for exclusive clients. It is
written where a report and the kernel part: `Report` (a demotion is reported as done
and the kernel has refused it), `Timeout` (of a request that has been granted) and
`RtkitLate` (a grant nobody waits for).

A grant takes effect for the client when the promotion reports it: the
refinement mapping `VisibleLevel` shows the old level until then.

### RtWin

`InitLibrary`, `LoadLibrary`, `GetSetProc`, `GetRevertProc` are `get_or_init`
with `try_new`; `FailInit` is an early return, with the drop of the
`OwnedLibrary` (`modules` counts references). Other threads wait at `avrt` until
the lock is set. `CallOnce` enters `FIRST_CALL`, or passes once it is complete.
The calls of avrt.dll have a begin and an end, so that they can overlap.
`opener`/`opened` record who makes the first AvSet call ever, independently of
how the code excludes others. Handles stay with the thread they promote: they are
raw pointers, which are not `Send`.

### RtMach

`Promote` is the call up to `thread_policy_get`, `PromoteSet` is
`thread_policy_set` and the return; `Demote` sets the time constraint of the
handle, from any thread (the handle names its thread by port). The kernel refuses
a time constraint that is not `Acceptable`, which is what the two places of xnu the
code cites look at (50us to 50 ms of computation, within the constraint), and may
refuse any other. The code takes care of the upper bound only, so a buffer shorter
than 100us is refused: `RequestAcceptable` says that this is the only reason.
`Reported` is the answer of `thread_policy_get`: the thread's own time constraint,
or the default one of a timeshare thread, since the code does not look at
`get_default`. The contract is checked of what is reported; that this is less than what the
documentation says is the run `mach_demotion`.

Durations are natural numbers of ticks, cut once at the end, where the code
computes with `f32` and rounds on the way; the saturation of the conversion to
`u32` is kept (`AtMost(_, U32Max)`).

### RtAndroid

`Promote` is `errno = 0` and `getpriority`, `PromoteSet` is `setpriority` and the
return, `Demote` one `setpriority`. `errno` is a variable, per thread, that any
other call (`OtherCall`) may leave set, because the code tells an error from the
nice value -1 by it. The kernel's rule is `MaySet`: up always, down to `floor`,
which the system moves at any moment. `outcome` records what the last call
returned and whether something was refused, independently of how the code decides.

Constraints on the client kept by the guards: a thread is promoted when it is not
promoted, and demoted on the thread the handle is of. The nice value is inherited
by threads a promoted thread creates; `Restart` assumes that the creator is not
promoted, since the code has nothing to prevent it.

### ThreadInfo and CApi

`serialize` and `deserialize` put five integers down one after the other and take
them up again; a byte has `Base` values, a `long` `LongSize` bytes and an `int`
`IntSize`, so that an instance can be small and still have the top bit of a
`pthread_t` set. `InfoSize` is the size of the `repr(C)` struct: the five fields,
padded to the alignment of a long, on 32-bit and 64-bit systems alike. `Pow` and
`Value` are recursive functions, so that they can be reasoned about. `SameThread`
is `PartialEq` of infos, which compares two of the five fields.

`CApi` extends the contract: the backend below is any that keeps it, and each
`atp_` function adds what it does with boxes. `heap` is what is at each address,
`held` the pointers the client may still pass, `buffers` the bytes in circulation.
`Give` is `Box::into_raw`, `TakeBack` is `Box::from_raw`, in the order of the code:
before the backend is asked, so that a failure does not bring the handle back.
Addresses are reused, also in another process. `pthread` gives every thread that
gets an id a new `pthread_t`, which is how an info of a thread that has gone is
told from one of its successor (`Fresh`). A client passes a pointer while it holds
it, on a thread of the process it belongs to; everything else (a pointer freed
twice, a handle demoted on another thread) is outside of the documentation. Calls
with NULL, and calls that fail before the backend has acted, change nothing and are
not actions. Nothing orders the calls apart from that: infos are sent on while
their thread is promoted, kept over demotions, read several times.

## The runs

| run | bounds | what it shows |
|---|---|---|
| `capi` | 2 threads of 2 processes, 2 values of `pthread_t` with the top bit set, 3 boxes, 1 buffer, 2 ordinary levels and a real-time one | no leak and no use after free, infos arrive as gathered, the contract and the conclusions of a client from it |
| `native_contract` | 3 threads (one started later), 2 processes, 2 handles, 1 info; priorities 0, 99, 100 and 255; limit 20 or 0 | the native backend keeps the contract; the priority asked for is always valid |
| `native_free` | the same with racing clients; the late thread in either process | no inherited real-time, demotion never denied |
| `rtkit_contract` | 3 threads, 2 processes, a late daemon, a process that drops its privilege | the contract of every thread its client has not been misled about, and which steps mislead |
| `rtkit_bounded` | racing clients, late answers, limits of 300 ms against the daemon's 200 ms, a process that drops its privilege | real-time CPU time stays bounded, the sandboxed demotion is never refused, no inheritance |
| `rtkit_returns` | 2 threads, 2 processes, an unresponsive daemon, a sandbox that closes | every call returns, and no step sets one back |
| `win` | 3 threads | exclusion of the first call, ownership of the module, nobody waits in vain, no call goes round, every call returns, the contract |
| `rtkit_silent_demotion` | the content process without `CAP_SYS_NICE` | *violation*: a refused demotion reports Ok |
| `rtkit_late_grant` | a daemon that may be late | *violation*: a failed promotion has promoted |
| `android` | 2 threads, nice values -20, -1, 0 and 10, floors -20, -19, 0 and 20 | an error means a refusal, demotion needs no privilege, the contract |
| `mach` | 2 threads, buffers 0, 1, 512, 8192, 40000 at 8000 and 48000 Hz, also a rate of 0 | the request is acceptable unless the buffer is shorter than 100us, no duration wraps, the contract |
| `mach_demotion` | the same | *violation*: a demoted timeshare thread has the default time constraint |

Why the bounds are enough. Three threads in two processes give every relation a
call can have to its target: itself, another thread of the process, a thread of
another process, a thread that is gone, a new one with the same id. Two handles
let two promotions overlap; more only repeat a pair of callers. One info in
circulation can be fresh, stale, of a promoted thread or of a reused id; the
promotions of the current thread add captures of their own. In `rtkit_bounded`
one of the two threads of a process can be real-time while the other is anywhere
in its own promotion, error path included; the two start alike, and the broker,
which has no real-time thread, starts with limits already lowered. In
`rtkit_contract` both processes do, because the limits do not enter into its
properties: a thread is then in either of its states before, during and after a
promotion, and its process with or without the privilege. Its two threads of one
process start alike too, under `SCHED_BATCH`, so that what a demotion brings back
differs from the default, and only the process the promotions happen in gives its
privilege up. In the other rtkit runs every process starts unlimited. 200000 is the
daemon's default maximum and 1000000 stands for "unlimited"; only the order of these
numbers matters. `MCSymmetry` permutes the handle slots, which no definition tells
apart, and `MCThreadSymmetry` also the two alike threads; the liveness runs have
no symmetry.

In `capi` a handle outlives its thread and an address its process, which takes
three boxes (two kept, one reused), and one buffer is enough for an info to go from
one process to the other, back, and to be read again. `android` has the ambiguous
-1, the one value a promotion lowers the urgency of (-20), and floors that allow
everything, the promotion only, some demotions, and nothing. The buffers of `mach`
are the default, one too short for the kernel, an ordinary one, one whose half exceeds
50 ms and one whose length exceeds `u32`; ticks and `u32` are scaled down together.

Deadlock is not checked in `native_free`, in the rtkit runs and in `capi`: every
thread may exit, or the bounded ids and handles are used up, and then nothing is
left to do.

### Fairness

`RtLinux!Fairness` is weak fairness of `Continue(c)`: a thread inside the
library that can run does run. It holds of the scheduler, and the `Timeout` step
is enabled as long as the call waits because `send_with_reply_and_block` is given
`DBUS_SOCKET_TIMEOUT`. Nothing is assumed of the daemon, of clients or of the
environment. `RtWin!Fairness` is the same for threads inside the Windows backend;
it includes that `LoadLibraryW` and the functions of avrt.dll return. Waiting
threads are in `Continue` only when the lock or the Once lets them pass.

### Disagreements between documentation and code

1. *Silent demotion* (`rt_linux.rs:229`). `demote_current_thread_from_real_time`
   asks for the bare saved policy. rtkit has set `SCHED_RESET_ON_FORK`, so the
   kernel refuses with EPERM, which `pthread_setschedparam` returns as a positive
   number; the code tests `< 0` and returns Ok. The thread stays real-time. The
   native backend's comments (132-133, 214-216) describe both halves.
2. *Late grant* (`rt_linux.rs:146`). After the timeout the promotion returns an
   error and no handle, but the thread is, or becomes, real-time. Only a thread info
   gathered before can still demote it.
3. *Mach demotion* (`rt_mach.rs:90`). The handle keeps what `thread_policy_get`
   answers even when that is the default and not a policy of the thread: a demoted
   thread that was timeshare has a time constraint afterwards, and is not "bumped
   back to normal" (`lib.rs:37`).

Seen while reading and modelling, without a run:

- *Remoting call* (`rt_linux.rs:315-321`). The comment says a promotion for
  another process skips the limit; the code, and `SetLimits`, lowers the limits of
  the caller.
- *Limit without D-Bus* (`rt_linux.rs:299-317`). The comment says the maximum is
  hardcoded because there is no D-Bus; the code, and `GetLimits`, asks over D-Bus
  and fails.
- *Zero rate* (`rt_linux.rs:313`). `atp_set_real_time_limit(n, 0)` divides by 0 and
  aborts the process; it is documented to return 0 or 1.
- *Zero limit* (`rt_linux.rs:311-313`). The default buffer of a rate below 20 Hz has
  no frame, and a single frame above 1 MHz lasts less than a microsecond: the soft
  limit asked for is then 0. Nothing in the code excludes these rates.
- *Short buffers on macOS* (`rt_mach.rs:116-128`). The computation time is capped at
  the kernel's maximum and not raised to its minimum, which the code cited beside it
  also checks: the promotion of a buffer shorter than 100us is refused.
- *Remote handle* (`lib.rs:380`). `promote_thread_to_real_time` says its handle is
  for `demote_current_thread_from_real_time`, which panics on any other thread than
  the one promoted (`rt_linux.rs:224`).
- `audio_thread_priority.h:92` declares `atp_promote_thread_to_real_time` with one
  parameter, the function has three.
- `lib.rs:9` names the "Pro Audio" task, the code joins "Audio" (`rt_win.rs:40`).
- The error path's comparison with `RLIM_INFINITY` (`rt_linux.rs:344`) reads limits
  that have just been lowered, so it restores nothing.
- `atp_test.cpp:18` compares a boxed info including its padding.

## The proofs

All theorems hold for every value of the constants that satisfies the named
assumptions (`LevelsAssumption`, `LinuxAssumption`, `NativeAssumption`,
`RtkitAssumption`, `WinAssumption`, `MachAssumption`, `OwnAssumption`,
`AndroidAssumption`, `WidthAssumption`, `ApiAssumption`, `FieldsAssumption`: sizes and kinds of the
parameters, that `None` is none of the values it stands beside, that ids,
policies and priorities fit the C types of their fields, that no process
starts with a soft limit above its hard one, which setrlimit(2) excludes, that 50 ms
fit `u32` ticks, and that clients who set a Mach time constraint or a nice value
themselves set another one than a promotion does). Every one is evaluated by TLC in
a run.

*RtPriorityProofs.* `TypeOK`, `RealTimeIffPromised` and `RemembersOrdinary` are
inductive only together: a demotion restores an ordinary level because a
promotion starts from one, and it does because a thread without a promise is not
real-time.

*RtLinuxNativeProofs*, for exclusive and racing clients alike. None of the
properties is inductive by itself. `IInv` adds that

- attributes are well formed wherever they are kept, in the kernel, in infos, in
  handles and in calls in flight (else a stale info could make a demotion ask for
  something the kernel answers with EINVAL),
- every real-time thread has `SCHED_RESET_ON_FORK` (`RealTimeResets`), which
  every request of the library sets and which no step clears on a real-time
  thread,
- `RT_PRIORITY` is within 0..99 although its type is a byte.

From it follow `TypeCorrect`, `PriorityValid` (a priority loaded from the static
is 1..99), `NothingInherited` (a child of a real-time thread starts ordinary) and
`AlwaysDemotable` (an ordinary, well-formed request that keeps the flag is
permitted to anyone in the process).

Its second part proves `NativeKeepsContract` under `Exclusive`, on top of `IInv`.
The strengthening is that no info goes stale: each one in circulation, in a handle
or in a call saves the level its thread comes from (`FaithfulInfos`,
`FaithfulCalls`), two calls never have the same target, and a thread is real-time
exactly when it is promised to come back (`Promised`). Then the step `PromoteSet`
is a promotion or, refused, a stutter; a demotion likewise; `Spawn` and `Exit`
are restarts; all others stutter. `NativeRealTime` follows: no assumption about
privileges is needed, because this backend reports what the kernel refuses.

*RtLinuxProofs*, for exclusive and racing clients, a daemon that refuses or is
late, and processes that lose D-Bus or the privilege at any moment. `IInv` says

- of limits, that those of a process stay within the daemon's once they are
  (`Tighter` holds of every step): `set_limits` only ever writes a maximum that is
  the daemon's, and what the error path writes back it has read after that,
- of calls (`GoodCall`), that one which is past `set_limits` runs in a process
  within the daemon's limits, so that the two steps of the error path can have
  anything in between; and that a thread in a call is running, so that its process
  is still the one whose limits it has set,
- of attributes, that a real-time level, in the kernel or saved in an info, comes
  with `SCHED_RESET_ON_FORK` and with a process within the daemon's limits: a
  demotion that "restores" a real-time level from a stale info exceeds nothing.

From it follow `TypeCorrect`, `RealTimeBounded`, `SandboxDemotes` and
`NothingInherited`. The bare attributes `demote_current_thread_from_real_time`
asks for need the third part: saved while the thread was real-time, they keep the
flag.

Its second part proves `RtkitKeepsContract` for `Exclusive` clients, and nothing
else is assumed: processes may have the privilege, lack it or give it up, and the
daemon may refuse, be late, or act on a request long after its timeout. A promotion
is six steps of two actors, and one step of the contract. The daemon makes the
thread real-time before the caller knows: between the two the grant is *pending*,
and the client still sees the level the info has saved (`VisibleLevel`). `EInv` has
what that takes, each part of it for the threads that are not in `misled`: an info
that is in use, wherever it is kept (`InUse`), saves the level its thread comes from
(`FaithfulInfos`); no two calls are about one thread, and none about a promoted one
(`ApartCalls`), so that there is one pending grant at most to choose from; and a
thread is real-time exactly while it is promised to come back or a grant of it is
pending (`Promised`). Then the daemon's grant stutters (`GrantStep`), the answer is
the promotion (`ReportStep`), `Spawn` and `Exit` are restarts, and every other step,
limits and error path included, leaves what the client sees as it is (`MoveStep`,
`StillStep`). A demotion does what it reports (`ComeBackStep`) or misleads
(`DemoteStep`); so do a timeout (`TimeoutStep`) and a late grant (`LateStep`), and
what was seen of the thread by then is real-time. Steps on a thread that is in
`misled` already leave all others alone (`AwayStep`).

`RealTimePromised` is `Promised` read by a client. `MisledOnlyThus` (`MisledOnly`)
holds of all clients: a demotion misleads only if the kernel refuses it, and it
cannot refuse `demote_thread_from_real_time` an ordinary level with the flag kept
(the level saved is ordinary by `EInv`), nor a privileged process anything.

`CallsOnlyAdvance` (`NothingSetBack`) needs no such hypothesis: `StepsLeft` of a
call falls with each of its own steps and is left alone by every other step,
those of the daemon included. It is the half of `CallsReturn` that can be proved;
the other half, that a call can always go on, is about ENABLED.

*RtWinProofs*, for any number of threads. `IInv` says that one thread at most
runs `try_new` (`Loading`), that the number of references follows from how far it
has come, that whoever uses or holds something finds the library loaded (`Using`),
that the thread inside the Once is the one that made the first call and that
nobody can hold a handle before the Once is complete (`FirstCall`), and where a
thread is between its promotion and its demotion (`Promised`). The last part of
`FirstCall` is why even a revert cannot overlap with the first call.
`WinKeepsContract` and `WinRealTime` follow from the last part. `Loading` and
`FirstCall` also say that a lock which is being set has a thread that is setting
it, hence `NobodyWaitsInVain`. `CallsOnlyAdvance` needs more than the control flow
of one thread: a call that waits for the OnceLock is as near to its end as the lock
is to being set, and the lock never goes back.

*RtAndroidProofs.* `IInv` says what is known of a thread (`Known`): between the
promotion and the demotion the kernel has the urgent nice value and the handle has
the one remembered, which is never the urgent one; inside a promotion the value
read is still the nice value. With that, the -1 an error returns is told from the
nice value by an errno cleared just before (`ErrorsMeanRefusals`), and
`AlwaysDemotable`, `AndroidKeepsContract` and `AndroidRealTime` follow.

*RtMachProofs.* The arithmetic comes first: for any buffer and any rate but 0, the
request fits its fields, computes for no more than 50 ms and no longer than its
constraint (`RequestFacts`), so that the minimum of the kernel is all it can miss
(`OnlyShortBuffersRefused`). `IInv` then says of each
thread which time constraint a handle and a call hold, for `MachKeepsContract` and
`MachRealTime`: a demotion may leave the default time constraint behind
(`mach_demotion`), but never one the library asked for.

*CApiProofs*, for any threads, processes, addresses and buffers. The bytes come
first. `SerializeRoundTrip` says that `deserialize` undoes `serialize` for every
base, all widths of which the long is no narrower than the int, and every info that
fits: the value of the digits of a number is
the number (`BytesOfValue`, by induction on the number of digits), the sign comes
back (`FieldRoundTrip`), and each field is taken from where it was put
(`ConcatBytes`, `SubBytes`). `FieldsFit` is its instance under `FieldsAssumption`.
The inductions are over sets of naturals: the set of counterexamples has a least
element (`SetInduction`, from `WellFoundedInduction`), which needs no operator as a
parameter. That the recursive functions `Pow` and `Value` satisfy their equations is
itself proved (`PrefixesExist`, `PrefixesAgree`, `Recursion`: the partial solutions
exist and agree), and the definitions are expanded for Zenon only: the SMT backend
takes the equation of a recursive definition for granted, whether or not a function
satisfies it.

`IInv` says that a box is
live exactly while it is held, that what boxes and buffers hold was gathered, and
that a gathered info is `Faithful`: it is of an earlier thread with the same id, or
it saves the level the thread is to come back to. The last part needs the number of
the `pthread_t`, and that infos are gathered from threads that are not promoted. It
is why any copy of an info, however old and wherever it went, can be used to demote
(`ApiKeepsContract`), and the conclusions of a client, `ApiRealTime` and
`ApiOrdinary`, follow from the theorems about the contract.

## Model-checked only

- `CallsReturn` (of `RtLinux` and of `RtWin`): liveness under fairness is outside of
  the prover's reach. What it rests on in the code is proved (`NothingSetBack`,
  `WaitersServed`).
- The three statements of the documentation that the code does not keep: TLC finds
  a counterexample of each.

## Not modelled

- The C library's own cache of scheduling parameters; the code does not mention
  it and the models read the kernel's values.
- A `pthread_id` used in another process or after its thread has gone: undefined
  behaviour of the C library. A pointer passed after it was taken back, a handle
  demoted on another thread: the client is asked not to.
- Processes that exit; their threads do, one by one. The process that aborts when
  `atp_set_real_time_limit` is given a rate of 0.
- `get_current_thread_info` failing, `getrlimit` failing, calls with NULL: no state
  changes (a failed `get_limits` is in the model).
- The rounding of `f32` in the request to Mach.
- Text of errors and logs: the error type (`lib.rs` 55-99) is nothing else.
- The fallback for other platforms: every function returns a constant. The choice
  of a backend by `cfg_if`, the build files, the tests.

## Plan

Done: the contract, all five backends, the bytes of an info and the C API, each with
the proof that it implements the contract. What is left, in the order of what it
would add:

1. Clients that are not exclusive: what nested promotions of one thread, and
   demotions through the infos of the inner ones, still guarantee (the hazard at
   `rt_linux_native.rs:184`; the documentation promises nothing).
2. A property of the soft limit of a process with two streams (a later promotion
   with a smaller buffer lowers it for both, `rt_linux.rs:320`), and a lower bound of
   it, once the documentation says what clients may expect.
3. Runs for the disagreements that have none.
