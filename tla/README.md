# A verification project for juggle

juggle is a cooperative scheduler for Rust, with and without `std`: a `Wheel`
is a future that polls other futures, its tasks, on one thread. This directory
models its core in TLA+, checks the models with TLC and proves their main
properties with TLAPS.

## 1. Inventory

| Component | State | Operations | Modelled by |
|---|---|---|---|
| `utils::AtomicCell` (utils/cell.rs) | `mark`, `cell` | new, try_swap, swap, try_apply, apply, get_mut | `AtomicCell` |
| `AtomicWakerRegistry`, task wakers (utils/mod.rs, dy/dyn_future.rs) | the executor's waker in an `AtomicCell`; `runnable` of each task | register, clear, notify_wake, wake | `Wheel` |
| `dy::Wheel` over `UnorderedAlgorithm` (dy/wheel.rs, dy/unordered_algorithm.rs) | registry, `last_waker`, `current`, `suspended_count` | register, suspend, resume, cancel, get_state, poll_internal, beat_once | `Wheel` |
| `WheelHandle`, `LockedWheel` (dy/handle.rs, dy/wheel.rs) | a weak pointer to the algorithm | spawn, suspend, resume, cancel, get_state, current; lock, unlock | `Wheel` (not lock and unlock) |
| `Registry` (dy/registry.rs) | a slab, two debug flags | get, insert, remove, count, retain | `Wheel`, `ChunkSlab` (not the flags) |
| `ChunkSlab` (utils/chunk_slab.rs) | chunks of entries, `len`, `next` | insert, remove, clear, retain | `ChunkSlab` |
| executors (block.rs) | none | block_on, spin_block_on | `Wheel` (`MayPoll`, `PollStart`) |
| `st::StaticWheel` (st/) | fixed tasks with a flag for their future; `unfinished_count`, `suspended_count`, a generation, a lock | try_lock, init, dispose, suspend, resume, restart, cancel, poll_internal, beat_once, handle_task | `StaticWheel` |
| `TimingGroup` (utils/timing.rs) | time used per entry, slot counts, `max` | insert, remove, clear, can_execute, update_duration | `TimingGroup` |
| `LoadBalance` (utils/load.rs) | a key per wrapper, the group and the clock they share | with, insert, remove, drop, poll | `LoadBalance` |
| `st::AtomicMarkerOption` (st/atomic_marker.rs) | `mark`, `value` | put, clear, try_put, take | `AtomicMarkerOption` |
| `IrqSignal` (utils/signal.rs) | flags, waker, a borrow flag | notify, try_listen, drop; poll, whose second half is `todo!()` | `IrqSignal` |
| `SchedulerAlgorithm` (dy/algorithm.rs) | two queues, the deferred tasks, `suspended_count`, `scan_registry` | register, resume, suspend, cancel, poll_internal, rotate_once, drain_runnable | `SchedulerAlgorithm` |
| `Yield`, macros, `Ucw`, formatting | | | no protocol of their own |

How they interact. An executor polls the `Wheel`; `poll_internal` calls
`beat_once`, which goes over the keys of the `Registry` and polls every task
that is neither suspended nor cancelled and whose `runnable` flag is set. A
polled task may call any method of a `WheelHandle` and may give its waker to
other threads or interrupt handlers. Waking a task takes the executor's waker
out of the `AtomicWakerRegistry`, runs it, and sets `runnable`. When a beat
polled nothing the wheel registers the executor's waker, makes one more beat,
and then returns `Ok`, `SuspendError` or `Pending`.

What is hard. The wheel's own data is confined to one thread, but that thread
is re-entered: tasks, and the destructors of finished and cancelled tasks, call
handles in the middle of a beat, and tasks panic. Wakers run on other threads
at any point of a beat. `suspended_count` is kept by hand beside the stop
reasons. The cell of the waker registry is shared with interrupt handlers.
The slab threads its free list through the entries and truncates keys. A
balanced task may poll other tasks of its group between the question whether it
may execute and the account of its time. The hazards, each at its line and with the properties that cover it, are listed in
`PROJECT.json`.

What makes each part correct:

* `AtomicCell`: exclusive access between the compare_exchange and the release;
  each call takes effect at one instant; a panicking closure leaves the old
  value and releases the mark; values are neither duplicated nor lost.
* `Wheel`: the count of suspended tasks is exact; `current` is the task that
  is polled; a `Pending` wheel can be woken; the returned verdict is true;
  tasks go through the documented life cycle; runnable tasks are served and
  cancelled ones removed.
* `StaticWheel`: the counts of unfinished and suspended tasks are right; every
  future is dropped before the lock is free; a wheel that is locked again is as
  good as new, whatever happened to it before.
* `ChunkSlab`: it is a map; insert never meets a full entry; no empty entry is
  lost; `len` is exact.
* `TimingGroup`, `LoadBalance`: some entry may always execute, and one is refused
  only for another that used less and may go on; shares stay about
  equal; every wrapper has its entry and gets its own time; the group goes on.
* `AtomicMarkerOption`: put and take exclude each other, a put notices a take
  that met it, the cell is not left locked unless a value's clone or drop panics.
* `IrqSignal`: one user at the waker, no notification lost, polls end.
* `SchedulerAlgorithm`: no task is lost between queues; what a poll returns is
  true.

## 2. Modules

    AtomicSwap      <- AtomicCell  <- AtomicCellProofs,  MCAtomicCell
    TaskLifecycle   <- Wheel       <- WheelProofs,       MCWheel
    SlabMap         <- ChunkSlab   <- ChunkSlabProofs,   MCChunkSlab
                       StaticWheel <- StaticWheelProofs, MCStaticWheel
    TimingGroup     <- LoadBalance <- LoadBalanceProofs, MCLoadBalance
    SchedulerAlgorithm <- SchedulerAlgorithmProofs <- SchedulerQueueProofs
    AtomicMarkerOption, IrqSignal, SchedulerAlgorithm <- MCDormant
    MCDormant, SchedulerAlgorithmProofs <- DormantProofs

`AtomicSwap`, `TaskLifecycle` and `SlabMap` are abstract: what the component
promises. The modules next to them follow the code and instantiate the abstract
one with a refinement mapping. `LoadBalance` extends `TimingGroup` and calls its
operations. `*Proofs` hold the theorems, `MC*` the constants of the instances.
`PROJECT.json` maps every definition to the lines it stands for. Definitions
whose comment begins with "Mutant" are faults a property has to detect; no
specification uses them.

### AtomicCell

One step per access of shared memory: the compare_exchange (`CasOk`, `CasErr`,
`CasRetry`), the volatile `Read`, the volatile write
(`WriteSwap`, `WriteApply`), the release (`Unlock`). `try_*` and the busy loops
share these steps and differ in what follows a failure. `FuncPanics` is a
closure that panics: the write is skipped and `UnwindGuard` releases the mark.
A `try_*` that meets the mark returns at once (`CasErr`), which `TryReturns` says.
`hand[p]` is the value process p owns, so that moves of ownership show: two
equal entries would be a value that is dropped twice. `SpuriousFail` lets
`compare_exchange_weak` fail on a clear mark, which Rust allows and LL/SC
targets do: the caller goes on as after a success, so it is an outcome of
`CasOk`. `Preempts` says which process is an interrupt handler that stops
which other. The refinement mapping places the effect of a call at its write.

### Wheel

Everything the wheel's thread does between two points where user code or
another thread comes in is one step. The position in `poll_internal` and
`beat_once` is `pc`: "beat" with `cursor` at the next key below `limit` (the
capacity when the beat began), "poll" while a task is polled, "drop" while the
destructor of a removed future runs, "idle" outside. While `pc` is "poll" or
"drop" user code may use handles (`Handle`), wake tasks (`WakeHere`) and, in
a poll, keep its waker (`CloneWaker`). It may then return, finish or panic.
On other threads a wake is four steps (`BeginWake`, `Notify`, `WakeOuter`,
`StoreRunnable`). A swap of the waker registry's cell is one step, which
`CellLinearizable` justifies. A waker whose task was removed keeps the flag of
a dead task alive; `NoKey` stands for all of these. `leaked` is a history
variable: it counts the tasks that finished while suspended, for which the
code forgets to decrement `suspended_count`.

`GetState` is what `get_state` reports. The refinement of `TaskLifecycle` maps
the state of a task to `DocState` instead, the state as the doc of `State` has
it: an executing task is `Runnable`. The two differ for the executing task only
(section 3).

The constants select the environment. `Parks`: the executor polls again only
after its waker ran, instead of at once as `spin_block_on` does. `Outside`:
code between polls uses handles and polls the wheel as it likes, also after
it finished or panicked. `Destructors`: destructors of futures use handles or
panic.

The memory model is sequential consistency. The accesses of `runnable` are
Release stores and Relaxed loads; weaker behaviours of them are not explored.

### StaticWheel

The same grain as `Wheel`, for a fixed set of tasks. `flag[k]` is the
`INIT_FLAG` of task k: whether its static holds a future. `pc` is also the
position in `init` and `dispose`, which go over the tasks with `cursor`;
`dropping` says that the destructor of the task at `cursor` runs, and `pc` what
follows it: the destructor may use handles, so the code after it acts on a
state it did not check. The lock is free exactly when `pc` is "free".
`valid` stands for the generations: the tasks whose future has a handle that
`is_valid` accepts; the end of `dispose` empties it. `checked` is chosen once:
a build with overflow checks panics when `unfinished_count` goes below zero,
another one wraps to `UintMax`, which is also the mark of a wheel that was
never initialized (`LockPanics`). A destructor that panics unwinds the poll,
drops the new wheel in `init`, and in `dispose` starts the emergency cleanup;
a panic during that aborts. `clean` is a history variable: no task was
cancelled, and no suspension was lost, since the wheel was locked.

### ChunkSlab

Keys are `0 .. KeyLimit - 1`. `content[k]` and `link[k]` are the entry with
key k, `chunks` the number of allocated chunks. `Truncate` is the conversion
`as I`, which wraps. `retain` is one step per entry, so that the free list is
checked in its middle and when its closure panics (`RetainPanics`). `LenExact`
speaks of the slab between operations: inside a `retain` the comments of
`Registry` and the code differ (section 3).

### TimingGroup and LoadBalance

`info` is the slab of entries, `max` the largest time per slot that was ever
reached. The operators of `TimerCount` wrap at `setting.modulus`, as unsigned
counters do without overflow checks. `setting`, chosen once, is the use that is
made of the group: `fixed` entries stay, `direct` groups are used by code that
asks, executes and accounts in one step, the others through `LoadBalance`.
There `polling` is the stack of wrappers whose futures are being polled: a
future may use and poll the other wrappers of its group before its own time is
accounted. `PollEnd` and `PollPanics` are the ways a poll ends; `used` is a
history variable. The executor polls a wrapper that was woken, and a refused
one again, since it wakes itself.

### The parts that nothing uses

`AtomicMarkerOption`, `IrqSignal` and `SchedulerAlgorithm` are compiled, but no
other code constructs them at this commit. They share no state; `MCDormant`
checks them in one run, each behaviour being one of one of them.

* `AtomicMarkerOption`: one step per access of the mark or the value. `call[p]`
  is the call p is in; `met` is history: a take met the put. `WritePanics` is a
  clone or a drop of a value that panics under the lock: nothing clears PUTTING,
  the caller stays at "panicked" and counts as inside, so that `MarkerExclusive`
  says that nobody gets at the value afterwards.
* `IrqSignal`: one step per access of the flags. `owed` is history: a notify
  returned and no poll was Ready since. The half of `poll` that registers a
  waker is missing; the steps that access the waker are kept.
* `SchedulerAlgorithm`: the grain of `Wheel`; `at` is the position in
  `poll_internal`. `from` and `to` are the two queues as the beat names them.
  A wake is one step and destructors do not use handles, both of which `Wheel`
  has. An internal panic or endless loop ends the behaviour. `Retained` is
  `retain` of a queue: the place of an element is the number of retained
  elements up to it, which needs no recursion.

## 3. Runs

| Run | Instance | Checks |
|---|---|---|
| cell_atomic | 2 fair threads, 3 values, one closure | `MutualExclusion`, `Linearizable`, `SomeCallCompletes`, `TryReturns` |
| wheel_park | 2 slots, 1 thread, sleeping executor, destructors, fair | `TypeOK`, `CountExact`, `CurrentExact`, `WakerNotLost`, `VerdictTrue`, `Lifecycle`, `WakeReachesExecutor` |
| wheel_spin | 2 slots, 1 thread, an executor that polls again and again, destructors, use between polls, fair | `RunnableServed`, `CancelledRemoved` |
| wheel_alone | 4 slots in 2 chunks, no other thread | `NoneLeftRunnable` |
| static | 2 tasks, one starts suspended, wakes from another thread, both kinds of build | `TypeOK`, `SuspendedCovered`, `CountsExact`, `WakerNotLost`, `DisposedClean`, `LockIsFresh` |
| slab | 2 chunks of 3, the whole key type, 2 values | `TypeOK`, `NextIsFree`, `NoEntryLost`, `LenExact`, `IsMap` |
| balance | 3 keys, slot counts 1 and 2, durations up to 2; entries that stay; counters of 4 bits; 2 wrappers, fair | `SomeoneMayExecute`, `RefusedForLess`, `BoundedLead`, `EntriesAreWrappers`, `TimeIsOwn`, `GroupProgress` |
| dormant | 3 processes at a marker, 2 handlers and a listener, 2 tasks in queues; the first two fair | `TypeOK`, `MarkerExclusive`, `TakeNoticed`, `CallsComplete`, `WakerExclusive`, `NotifyKept`, `PollEnds`, `NeverLost`, `PollReturnsTrue` |

These runs find no error. The next ones exhibit a disagreement between the
code and one of its own comments, documents or tests (quoted in
`PROJECT.json`, "findings"):

| Run | What TLC shows |
|---|---|
| cell_llsc | A spurious failure returns `Err(false)`, which `unwrap_or_else(identity)` makes a success: two threads are at the content at once. |
| wheel_lost_wakeup | `wake` runs the executor's waker before it sets `runnable`. The wheel is polled in between, finds nothing and sleeps with a runnable task. |
| wheel_suspend_error | A task suspends itself and finishes; `suspended_count` stays too high. The wheel returns `Pending` when all tasks are suspended, or `SuspendError` while a task waits for an event. |
| static_cancel | A cancelled task is counted down in every beat; the static wheel returns `Ok` with a suspended task, and polled on, the count goes below zero. |

Smaller differences, without a run of their own. `AtomicCell::swap` spins for
ever in an interrupt handler that interrupted a `swap` (`SomeCallCompletes` fails
with `Preempts <- IrqOverMain` in `MCAtomicCell`, and `CellHandlerSpins` proves
it), where the doc says the cell uses no locks. `poll_local` clears `runnable` before it polls, so `get_state` reports `Waiting` for the executing task, where
the doc of `State::Runnable` says "currently executing or waiting for its turn"
(handle.rs:55); `Lifecycle` is about the documented state and does not hide this:
with `GetState` in place of `DocState` TLC refutes it at the first poll of a task.
`ChunkSlab::retain` decrements `len` for each entry it drops, where the comments
of `Registry` (registry.rs:105 and 181) say the count changes only after the
iteration; `LenExact` says nothing of that time. The
destructor of a cancelled task may spawn a task in the last beat, behind the
cursor; the wheel then returns `Pending` without having executed it, against
the comment in `beat_once` that `any_poll` is true when a task is added
(`NoneLeftRunnable` fails with `Destructors` and three slots). In the static
wheel a task that is restarted and then suspended comes back unsuspended
(`reset(false)` sets `None` over `Suspended`) while it stays counted, next to the
comment "task is suspended so we're done here" (st/algorithm.rs:221).

In `TimingGroup`, `remove` leaves `max` behind: the entries that remain are
compared with a time nobody has any more and are not balanced until they reach
nine tenths of it, where the doc promises "more-less equal amount of time per
slot". `max * 9` overflows for a `u16` as soon as `max` exceeds 7281, and the
bound that protects starved entries becomes small. A wrapper with little time
that waits for an event, or is never polled, makes `can_execute` refuse the
others until then; this is why `GroupProgress` assumes that events occur.
`BoundedLead` is stated for entries that stay and counters that are wide enough.

A clone or a drop that panics inside `AtomicMarkerOption::try_put` leaves PUTTING
set: `take` then always reports a concurrent put, `put` and `clear` loop for ever
(`CallsComplete` fails without its last disjunct). The wakers it is meant for
do not panic there by convention, nothing enforces it.

A `poll` of `IrqSignal` without a notification sets `EXT_LOCK`, goes round its
loop and trips its own assertion; the lock stays set. In `SchedulerAlgorithm`
the `continue` of `rotate_once` carries the comment "remove from queue" but
removes nothing: a suspended task at the front is looked at for ever, a
cancelled one ends in the panic "unknown task in queue" (`RotateSpins`,
`RotateUnwinds`). A task that suspends and resumes itself is queued twice,
against the comment in `resume`; a scan of the registry removes tasks that are
still in `deferred`, and the next drain panics; a task that finishes while
suspended stays counted, as in `UnorderedAlgorithm`; one that panics is in no
queue any more. `SchedulerNeverStops` says which uses of handles are free of
the panics and the loop.

Bounds. Two slots are enough for a task before and a task behind the cursor,
for the growth of the registry during a beat (`ChunkSize` 1) and for the reuse
of an identifier; four in two chunks let the slab grow by more than it needs. The runs of
the wheel have at most one other thread, which races with the wheel's own for the
registered waker; that several threads do no more harm is shown by the theorems
only, which are for any number of them. `MaxLeaks` 1 allows one task
to finish while suspended, which is enough for both consequences. Calls
that would count up to `UintMax` are not made, so with `UintMax` 4 in static the
counts of two tasks rise to three, above the number of tasks, reach zero and
wrap; static_cancel needs only the way down and has 3. Six keys
let the slab fill its key type, and its free list hold entries of both chunks
in any order. Three keys let two entries pass each other while a third falls
behind; the limits on the time of an entry (60 and 6) are several times what
`BoundedLead` needs, and four bits make sums and `max * 9` wrap. Three processes
are a put, a second put and a take; two handlers race for the lock that the
listener waits for. `MaxQueued` 2 lets the queues of two tasks hold four keys,
so that keys are duplicated and outlive their tasks; `MaxLeaked` is as
`MaxLeaks`. The groups, cells and queues may stay unused for good, and the
wheel may stop for good (its future returned, or nobody
holds a waker), so these runs do not check for deadlock.

Fairness. The wheel's thread keeps running (`PollStart`, `Beat`), a poll of a
task and a destructor return (`TaskReturns`, `DropReturns`: cooperative
scheduling rests on it), and a `wake` that began goes on (`Thread`). No event
has to occur, no task has to finish. For the cell each process keeps taking
the steps of a call it began; nothing is assumed about who gets the mark, so
single callers of `swap` and `apply` may starve and only progress of some call is
claimed; the `try_*` calls do not wait and each of them returns. The same
holds for `AtomicMarkerOption`, and for handlers and the listener of a signal.
For `LoadBalance` executors poll what was woken and drop what finished, polls
return, and events occur.

## 4. Proofs

All theorems hold for every value of the constants that satisfies the named
assumptions `CellAssumption`, `WheelAssumption`, `SlabAssumption`,
`StaticAssumption`, `TimingAssumption`, `SignalAssumption`. Every inductive
invariant was first checked with TLC on the instance of its component's run
(those of `SchedulerAlgorithm` also with three tasks and longer queues). Where a
theorem restricts how the component is used, the restriction is an action
property in its hypothesis (`[][NoCancel]_vars`, `[][SelfOnly]_scheduler`): it
constrains the callers, not the code, and TLC finds the counterexample when it
is dropped.

* `AtomicCellProofs`. Where `compare_exchange_weak` does not fail
  spuriously, `CellMutualExclusion`, `CellOwnership` and
  `CellLinearizable`. The invariant ties the mark to the one process inside
  and says that the local `first` of a process about to write is still the
  content: this is what makes the write a swap. `CellHandlerSpins` uses the same
  invariant for what goes wrong: once an interrupt handler is in the busy loop
  of a `swap` or `apply` and the process it stopped holds the mark, this stays
  so for ever, since only that process would clear the mark.
* `WheelProofs`. `WheelTyping`, `WheelCountExact`, `WheelWakerNotLost`,
  `WheelCurrentExact`, `WheelVerdictTrue`, `WheelSuspendErrorExact`,
  `WheelNoneLeftRunnable` and the refinement `WheelLifecycle`.
  The type invariant is strengthened by: slots beyond the capacity are vacant,
  and the key of a polled task is below the limit, registered, and has set
  `any_poll`. The waker is not lost because from the second beat on it is
  registered or somebody who took it notifies the executor. The verdict is
  true because in a beat that polled nothing no visited key is cancelled and
  the stop reasons of visited keys do not change. `WheelSuspendErrorExact` is the
  other side of the run wheel_suspend_error: while `leaked` is zero the property
  that run refutes holds, so tasks that finish suspended are its only cause.
  `WheelNoneLeftRunnable` adds
  `PassedInv`: such a beat has passed no task that it would poll, because only
  a poll lets user code in, and a poll sets `any_poll`. It is stated for
  `~ Destructors`, since a destructor also lets user code in without setting
  `any_poll` (section 3), and `NoneLeftRunnable` itself is about wheels no other
  thread wakes; the number of tasks and the chunk size are free.
* `StaticWheelProofs`. `StaticTyping`, `StaticSuspendedCovered`,
  `StaticCountsExact`, `StaticWakerNotLost`, `StaticDisposedClean` and
  `StaticLockIsFresh`, for any number of tasks, any that start suspended, and
  both kinds of build. None of them is inductive. `DropInv` says where
  destructors run and that the task at the cursor has no future then, so that a
  step after a destructor knows what it finds; `FreeInv` what is left of a
  wheel that nobody holds (no valid handle, and no future unless
  `unfinished_count` is zero); `ProgressInv` what `init` and `dispose` did below
  the cursor, which is all tasks when they end; `PollInv` that `current` is
  set in a poll only and that a second beat has its waker. `CountInv` extends
  `SuspendedCovered` to the time the wheel is free, as a lock that finds tasks
  counts on from there, and says of a clean history that nothing is cancelled
  and that the task of a restart or a poll has not finished: otherwise it would be
  counted down twice.

  `StaticVerdictExact` states what the counters are for: in a clean history a
  poll returns `Ok` exactly when all tasks finished, the error exactly when some
  are left and all of those are suspended, `Pending` exactly otherwise. It
  follows because suspended tasks are unfinished ones, so that equal counts
  mean equal sets. The other side of static_cancel are `StaticReadyMeansFinished`
  and `StaticLockNeverPanics`: where no handle cancels a task, the property that
  run refutes holds and no lock meets a wrapped counter, suspensions that are
  lost included. `UncancelledInv` is the part of `CountInv` that survives
  these: `unfinished_count` alone is exact while the wheel is in use, nothing is
  cancelled, and the count of an initialized wheel is not `UintMax`. In
  `dispose` destructors may restart tasks and raise the count; that it stays
  below `UintMax` there is the bound in `IncUnfinished`, not the code.
* `ChunkSlabProofs`. `SlabTyping`, `SlabNextIsFree`, `SlabNoEntryLost`,
  `SlabLenExact` and the refinement `SlabIsMap`. The invariant says that there
  is a free list: a sequence of distinct empty entries, from `next` to the
  wrapped end, that holds every empty entry. insert takes its first element,
  remove and retain put one in front, a new chunk makes a fresh one. For `len` it
  has `LenCounts`, which also holds inside a retain, as the code counts there;
  `LenExact` is the part of it that the docs promise.
  `ChunkSize` is at least two (it is 16): with one entry per chunk the pointer
  to the next entry is not truncated on growth.

* `LoadBalanceProofs`. `BalanceEntries`, `BalanceTimeIsOwn`,
  `BalanceSomeoneMayExecute`, `BalanceRefusedForLess`, `BalanceBoundedLead`. The
  invariant of the first four is the conjunction of the types, the first two and
  `TimeAtMostMax`: no entry has more time than `max`, which is all that
  `can_execute` needs, although `max` may be nobody's. `RefusedForLess` follows
  without a smallest time: an entry is refused because it leads, or because
  another one is within the bound and it is not, and either gives the entry that
  may go on instead. A poll that ends
  finds its entry because entries and wrappers correspond and a polled wrapper
  cannot be dropped. Sums wrap, so the account rests on a lemma on remainders.
  `BoundedLead` needs to know why an entry may execute at the moment its time is
  accounted, which is not the moment `can_execute` was asked: polls nested in
  its own raise `max` in between. `Entitled` is what survives: the entry is at
  or below the bound, which only rises, or every entry is above nine tenths of
  its own time, which does not change while it is polled. `PolledInv` keeps this
  for every wrapper on the stack and says that no wrapper is on it twice.
* `DormantProofs`. `MarkerMutualExclusion`, `MarkerTakeNoticed`,
  `MarkerPutKeepsValue`: the bits of the mark say who is inside, PUTTING while a
  put writes, both bits while it takes back, MARKING alone while a take is
  there; and PUTTING stays set after a put that panicked. `SignalWakerExclusive`, `SignalNotifyKept`: a handler at the waker has
  IRQ_LOCK set, the poll EXT_LOCK without IRQ_LOCK, and who is about to lock saw
  no lock. `DormantParts`: the composition `MCDormant` implies the
  specification of each of its three parts, with its fairness, so what is proved of a part holds
  of the composition; `DormantTyping` uses it for `TypeOK`.
* `SchedulerAlgorithmProofs`. `SchedulerTyping`, `SchedulerNeverLost`,
  `SchedulerPollReturnsTrue`, for queues of any length. The order of a queue
  does not matter for them, so each operation on sequences has a lemma on the
  set of its elements (`SetAppend`, `SetConcat`, `SetTail`, `SetRemoveFirst`,
  `SetRetained`; the last one by counting: an injection between finite sets of
  equal size is onto). `QInv` adds to `NeverLost`: the task that is polled is
  the front of its queue, so that `Guard::drop` takes out the right key; the
  count of suspended tasks is exact; both queues are empty from the registration
  of the waker to the second look, and the waker is there or ran. With these a
  `Pending` leaves every task that may run in `deferred` and not runnable, and a
  `Ready` finds all queues empty.
* `SchedulerQueueProofs`. `SchedulerNeverStops`: the scheduler reaches neither
  the panic of an `unwrap` nor the endless loop of `rotate_once`;
  `SchedulerQueuedOnce`: no key is queued twice. Both hold under `SelfOnly`: a
  task is suspended or cancelled only while it is itself polled, and is not
  resumed in that poll. Each restriction is needed: a queued task that is
  suspended from outside is looked at for ever, one that is cancelled from
  outside panics, one that is resumed in its own poll is queued twice and
  panics when it is freed. `OnceInv` joins the two
  properties with: a queued task has no stop reason unless it is the one
  polled, whose key `Guard::drop` takes out when the poll returns. Here the
  set of a queue's elements is not enough: the lemmas on sequences are about
  injectivity.

Every invariant and every action property that a passing run checks is stated by
a theorem. Model-checked only: the properties of liveness, which are beyond
the prover (`SomeCallCompletes`, `TryReturns`, `RunnableServed`, `CancelledRemoved`,
`WakeReachesExecutor`, `GroupProgress`, `CallsComplete`, `PollEnds`).

## 5. What is left

Models: validity of `WheelHandle` over `lock`, `unlock` and drop; a composition
of `Wheel` with the steps of `AtomicCell` instead of atomic swaps.

Not modelled:

* `lock`, `unlock` and handles that outlive the wheel: `Weak::upgrade` fails
  and every operation returns its default.
* The borrow and iterate flags of `Registry`, which exist in debug builds and
  panic; a destructor that panics inside `ChunkSlab::retain`, which the wheel
  in use never calls.
* The waker constructors and the reference counts behind wakers.
* The counters of `Yield` and `YieldTimes`: the task is one that wakes itself.
* `Ucw`, a `RefCell` in debug builds and an `UnsafeCell` in release builds.
* Signed counters and `Duration` as counters of `TimingGroup`.
* Formatting, names, the macros, and weak memory.
