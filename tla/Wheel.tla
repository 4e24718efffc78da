------------------------------- MODULE Wheel -------------------------------
(***************************************************************************)
(* The dynamic scheduler of juggle: dy::Wheel and its WheelHandle over     *)
(* UnorderedAlgorithm, DynamicFuture, Registry and AtomicWakerRegistry,    *)
(* polled by an executor.                                                  *)
(*                                                                         *)
(* The wheel, its tasks and its handles live on one thread (they are       *)
(* !Send), so everything the wheel's thread does between two points where  *)
(* other threads or user code come in is one step.  Wakers are Send: other *)
(* threads run InnerSyncFlags::wake concurrently, one shared access a      *)
(* step.  The registered waker of the executor sits in an AtomicCell; a    *)
(* swap of it is one step here, which module AtomicCell justifies.         *)
(***************************************************************************)
EXTENDS Integers, FiniteSets

CONSTANTS ChunkSize,    \* CHUNK_SIZE, the slots a ChunkSlab grows by
          MaxCapacity,  \* bound: the slots the registry may grow to
          MaxLeaks,     \* bound: tasks that finish while they are suspended
          Threads,      \* threads that wake tasks
          Parks,        \* the executor polls again only after its waker ran
          Outside,      \* code between polls uses handles and polls again
          Destructors   \* destructors of dropped futures use handles

ASSUME WheelAssumption == /\ ChunkSize \in Nat \ {0}
                          /\ MaxCapacity \in Nat
                          /\ MaxLeaks \in Nat
                          /\ {Parks, Outside, Destructors} \subseteq BOOLEAN

VARIABLES stop,             \* stop[k]: "Vacant", or the stop_reason of task k
          runnable,         \* runnable[k]: InnerSyncFlags::runnable of task k
          capacity,         \* ChunkSlab::capacity()
          suspended_count,  \* UnorderedAlgorithm::suspended_count
          current,          \* UnorderedAlgorithm::current
          last_waker,       \* is a waker of the executor registered?
          pc,               \* "idle", or where poll_internal is
          cursor,           \* the key beat_once is at
          limit,            \* the capacity when beat_once began
          any_poll,         \* beat_once: any_poll
          second,           \* the beat_once after the waker was registered
          result,           \* what the last poll of the wheel returned
          woken,            \* has the executor's waker run since it polled?
          held,             \* wakers of tasks kept by event sources
          wpc,              \* wpc[t]: where thread t is in wake
          wtarget,          \* wtarget[t]: the task thread t wakes
          leaked            \* history: tasks that finished while suspended

taskVars == <<stop, runnable, capacity, suspended_count, leaked>>
beatVars == <<cursor, limit, any_poll, second>>
threadVars == <<held, wpc, wtarget>>
vars == <<taskVars, current, last_waker, pc, beatVars, result, woken, threadVars>>

Keys == 0 .. MaxCapacity - 1
NoKey == -1   \* None, and the key of a waker whose task was removed

Registered == {k \in Keys : stop[k] # "Vacant"}
Suspended == {k \in Keys : stop[k] = "Suspended"}

TypeOK == /\ stop \in [Keys -> {"Vacant", "None", "Suspended", "Cancelled"}]
          /\ runnable \in [Keys -> BOOLEAN]
          /\ capacity \in 0 .. MaxCapacity
          /\ suspended_count \in Nat
          /\ leaked \in 0 .. MaxLeaks
          /\ current \in Keys \cup {NoKey}
          /\ last_waker \in BOOLEAN /\ woken \in BOOLEAN
          /\ any_poll \in BOOLEAN /\ second \in BOOLEAN
          /\ pc \in {"idle", "beat", "poll", "drop"}
          /\ limit \in 0 .. capacity
          /\ cursor \in 0 .. limit
          /\ result \in {"none", "Pending", "ReadyOk", "ReadyErr", "Panicked"}
          /\ held \subseteq Keys \cup {NoKey}
          /\ wpc \in [Threads -> {"idle", "notify", "outer", "store"}]
          /\ wtarget \in [Threads -> Keys \cup {NoKey}]

Init == /\ stop = [k \in Keys |-> "Vacant"]
        /\ runnable = [k \in Keys |-> FALSE]
        /\ capacity = 0
        /\ suspended_count = 0
        /\ leaked = 0
        /\ current = NoKey
        /\ last_waker = FALSE
        /\ pc = "idle"
        /\ cursor = 0 /\ limit = 0 /\ any_poll = FALSE /\ second = FALSE
        /\ result = "none"
        /\ woken = FALSE
        /\ held = {}
        /\ wpc = [t \in Threads |-> "idle"]
        /\ wtarget = [t \in Threads |-> NoKey]
----------------------------------------------------------------------------
(* What code on the wheel's thread may do through a WheelHandle: a task    *)
(* while it is polled, a destructor while a future is dropped, the owner   *)
(* of the wheel before the first poll, and, with Outside, between polls.   *)

UserMayAct == \/ pc = "poll"
              \/ pc = "drop"
              \/ pc = "idle" /\ (result = "none" \/ Outside)

Free == {k \in 0 .. capacity - 1 : stop[k] = "Vacant"}

\* ChunkSlab::insert takes a free slot, or grows the slab when there is none.
Insert(k) == \/ /\ k \in Free
                /\ UNCHANGED capacity
             \/ /\ Free = {}
                /\ capacity + ChunkSize <= MaxCapacity
                /\ k = capacity
                /\ capacity' = capacity + ChunkSize

Spawn(k, reason) ==
  /\ UserMayAct
  /\ Insert(k)
  /\ stop' = [stop EXCEPT ![k] = reason]
  /\ runnable' = [runnable EXCEPT ![k] = TRUE]
  /\ suspended_count' = suspended_count + (IF reason = "Suspended" THEN 1 ELSE 0)
  /\ UNCHANGED <<leaked, current, last_waker, pc, beatVars, result, woken, threadVars>>

SetStop(k, reason, delta) ==
  /\ stop' = [stop EXCEPT ![k] = reason]
  /\ suspended_count' = suspended_count + delta
  /\ UNCHANGED <<runnable, capacity, leaked, current, last_waker, pc, beatVars,
                 result, woken, threadVars>>

\* Mutant: only a suspended task is refused.
SuspendUnguarded(k) == /\ UserMayAct
                       /\ stop[k] \in {"None", "Cancelled"}
                       /\ SetStop(k, "Suspended", 1)

Suspend(k) == /\ UserMayAct
              /\ stop[k] = "None"
              /\ SetStop(k, "Suspended", 1)

Resume(k) == /\ UserMayAct
             /\ stop[k] = "Suspended"
             /\ SetStop(k, "None", -1)

\* Mutant: the count of suspended tasks is forgotten.
CancelForgetsCount(k) == /\ UserMayAct
                         /\ stop[k] \in {"None", "Suspended"}
                         /\ SetStop(k, "Cancelled", 0)

Cancel(k) == /\ UserMayAct
             /\ stop[k] \in {"None", "Suspended"}
             /\ SetStop(k, "Cancelled", IF stop[k] = "Suspended" THEN -1 ELSE 0)

\* The polled task hands a clone of its waker to an event source.
CloneWaker == /\ pc = "poll"
              /\ held' = held \cup {cursor}
              /\ UNCHANGED <<taskVars, current, last_waker, pc, beatVars, result,
                             woken, wpc, wtarget>>

\* InnerSyncFlags::wake on the wheel's own thread.
WakeHere(k) ==
  /\ UserMayAct
  /\ k \in held \cup (IF pc = "poll" THEN {cursor} ELSE {})
  /\ woken' = (woken \/ last_waker)
  /\ last_waker' = FALSE
  /\ runnable' = [j \in Keys |-> runnable[j] \/ j = k]
  /\ UNCHANGED <<stop, capacity, suspended_count, leaked, current, pc, beatVars,
                 result, threadVars>>
----------------------------------------------------------------------------
(* InnerSyncFlags::wake on another thread: notify_wake swaps the registered *)
(* waker out of the cell and runs it, then `runnable` is stored.           *)

BeginWake(t, k) == /\ wpc[t] = "idle"
                   /\ k \in held
                   /\ wpc' = [wpc EXCEPT ![t] = "notify"]
                   /\ wtarget' = [wtarget EXCEPT ![t] = k]
                   /\ UNCHANGED <<taskVars, current, last_waker, pc, beatVars,
                                  result, woken, held>>

\* Mutant: the waker is taken out of the registry and dropped.
NotifySilently(t) == /\ wpc[t] = "notify"
                     /\ last_waker' = FALSE
                     /\ wpc' = [wpc EXCEPT ![t] = "store"]
                     /\ UNCHANGED <<taskVars, current, pc, beatVars, result, woken,
                                    held, wtarget>>

Notify(t) == /\ wpc[t] = "notify"
             /\ last_waker' = FALSE
             /\ wpc' = [wpc EXCEPT ![t] = IF last_waker THEN "outer" ELSE "store"]
             /\ UNCHANGED <<taskVars, current, pc, beatVars, result, woken, held,
                            wtarget>>

WakeOuter(t) == /\ wpc[t] = "outer"
                /\ woken' = TRUE
                /\ wpc' = [wpc EXCEPT ![t] = "store"]
                /\ UNCHANGED <<taskVars, current, last_waker, pc, beatVars, result,
                               held, wtarget>>

StoreRunnable(t) ==
  /\ wpc[t] = "store"
  /\ runnable' = [j \in Keys |-> runnable[j] \/ j = wtarget[t]]
  /\ wpc' = [wpc EXCEPT ![t] = "idle"]
  /\ wtarget' = [wtarget EXCEPT ![t] = NoKey]
  /\ UNCHANGED <<stop, capacity, suspended_count, leaked, current, last_waker, pc,
                 beatVars, result, woken, held>>
----------------------------------------------------------------------------
(* poll_internal and beat_once.                                            *)

\* Mutants: the range of keys ends one too late, one too early.
NewBeatInclusive == /\ cursor' = 0
                    /\ limit' = capacity + 1
                    /\ any_poll' = FALSE

NewBeatShort == /\ cursor' = 0
                /\ limit' = IF capacity = 0 THEN 0 ELSE capacity - 1
                /\ any_poll' = FALSE

NewBeat == /\ cursor' = 0
           /\ limit' = capacity
           /\ any_poll' = FALSE

\* The locals of poll_internal are gone when it returns or unwinds.
Leave(res) == /\ pc' = "idle"
              /\ cursor' = 0 /\ limit' = 0 /\ any_poll' = FALSE /\ second' = FALSE
              /\ result' = res

MayPoll == \/ result = "none"
           \/ result = "Pending" /\ (Parks => woken)
           \/ Outside

PollStart == /\ pc = "idle"
             /\ MayPoll
             /\ last_waker' = FALSE
             /\ woken' = FALSE
             /\ pc' = "beat"
             /\ result' = "none"
             /\ second' = FALSE
             /\ NewBeat
             /\ UNCHANGED <<taskVars, current, threadVars>>

Visiting == pc = "beat" /\ cursor < limit

Visit == cursor' = cursor + 1

Skip == /\ Visiting
        /\ \/ stop[cursor] \in {"Vacant", "Suspended"}
           \/ stop[cursor] = "None" /\ ~ runnable[cursor]
        /\ Visit
        /\ UNCHANGED <<taskVars, current, last_waker, pc, limit, any_poll, second,
                       result, woken, threadVars>>

(* registry.remove(k): the slot is free, wakers of the task outlive it, and *)
(* dropping the future may run user code.                                  *)
Remove(k) ==
  /\ stop' = [stop EXCEPT ![k] = "Vacant"]
  /\ runnable' = [runnable EXCEPT ![k] = FALSE]
  /\ held' = IF k \in held THEN (held \ {k}) \cup {NoKey} ELSE held
  /\ wtarget' = [t \in Threads |-> IF wtarget[t] = k THEN NoKey ELSE wtarget[t]]
  /\ pc' = IF Destructors THEN "drop" ELSE "beat"

\* Mutant: a cancelled task is passed over.
RemoveCancelledSkips == /\ Visiting
                        /\ stop[cursor] = "Cancelled"
                        /\ Visit
                        /\ UNCHANGED <<taskVars, current, last_waker, pc, limit,
                                       any_poll, second, result, woken, threadVars>>

RemoveCancelled == /\ Visiting
                   /\ stop[cursor] = "Cancelled"
                   /\ Remove(cursor)
                   /\ Visit
                   /\ UNCHANGED <<capacity, suspended_count, leaked, current,
                                  last_waker, limit, any_poll, second, result,
                                  woken, wpc>>

DropDone == /\ pc = "drop"
            /\ pc' = "beat"
            /\ UNCHANGED <<taskVars, current, last_waker, beatVars, result, woken,
                           threadVars>>

\* The destructor panicked: the slot is already free, the poll unwinds.
DropPanics == /\ pc = "drop"
              /\ Leave("Panicked")
              /\ UNCHANGED <<taskVars, current, last_waker, woken, threadVars>>

\* Mutant: any_poll is not set.
PollTaskSilently == /\ Visiting
                    /\ stop[cursor] = "None"
                    /\ runnable[cursor]
                    /\ current' = cursor
                    /\ runnable' = [runnable EXCEPT ![cursor] = FALSE]
                    /\ pc' = "poll"
                    /\ UNCHANGED <<stop, capacity, suspended_count, leaked, last_waker,
                                   beatVars, result, woken, threadVars>>

\* is_runnable, current.set and the set_runnable(false) of poll_local.
PollTask == /\ Visiting
            /\ stop[cursor] = "None"
            /\ runnable[cursor]
            /\ current' = cursor
            /\ any_poll' = TRUE
            /\ runnable' = [runnable EXCEPT ![cursor] = FALSE]
            /\ pc' = "poll"
            /\ UNCHANGED <<stop, capacity, suspended_count, leaked, last_waker,
                           cursor, limit, second, result, woken, threadVars>>

TaskPending == /\ pc = "poll"
               /\ pc' = "beat"
               /\ current' = NoKey
               /\ Visit
               /\ UNCHANGED <<taskVars, last_waker, limit, any_poll, second, result,
                              woken, threadVars>>

(* The task finished and is removed, whatever its stop_reason is by now:   *)
(* suspended_count is not touched.                                         *)
TaskReady == /\ pc = "poll"
             /\ leaked' = leaked + (IF stop[cursor] = "Suspended" THEN 1 ELSE 0)
             /\ leaked' <= MaxLeaks
             /\ current' = NoKey
             /\ Remove(cursor)
             /\ Visit
             /\ UNCHANGED <<capacity, suspended_count, last_waker, limit, any_poll,
                            second, result, woken, wpc>>

\* Mutant: `current` has no DropGuard.
TaskPanicsUnguarded == /\ pc = "poll"
                       /\ Leave("Panicked")
                       /\ UNCHANGED <<taskVars, current, last_waker, woken, threadVars>>

\* The task panicked: the guards reset `current`, the poll of the wheel unwinds.
TaskPanics == /\ pc = "poll"
              /\ current' = NoKey
              /\ Leave("Panicked")
              /\ UNCHANGED <<taskVars, last_waker, woken, threadVars>>

BeatDone == pc = "beat" /\ cursor = limit

\* Some task was polled: clear the waker if it was registered, and go round.
BeatAgain == /\ BeatDone
             /\ any_poll
             /\ last_waker' = (last_waker /\ ~ second)
             /\ second' = FALSE
             /\ NewBeat
             /\ UNCHANGED <<taskVars, current, pc, result, woken, threadVars>>

\* No task was polled: register the waker and check once again.
RegisterWaker == /\ BeatDone
                 /\ ~ any_poll
                 /\ ~ second
                 /\ last_waker' = TRUE
                 /\ second' = TRUE
                 /\ NewBeat
                 /\ UNCHANGED <<taskVars, current, pc, result, woken, threadVars>>

\* Mutant: one suspended task is enough.
NothingToWaitForAny == Registered = {} \/ suspended_count # 0

\* registry.count() is 0 or suspended_count: the wheel has nothing to wait for.
NothingToWaitFor == Cardinality(Registered) \in {0, suspended_count}

Finish == /\ BeatDone
          /\ ~ any_poll
          /\ second
          /\ NothingToWaitFor
          /\ last_waker' = FALSE
          /\ Leave(IF Registered = {} THEN "ReadyOk" ELSE "ReadyErr")
          /\ UNCHANGED <<taskVars, current, woken, threadVars>>

\* Mutant: the waker is cleared before every return.
WaitClears == /\ BeatDone
              /\ ~ any_poll
              /\ second
              /\ ~ NothingToWaitFor
              /\ last_waker' = FALSE
              /\ Leave("Pending")
              /\ UNCHANGED <<taskVars, current, woken, threadVars>>

Wait == /\ BeatDone
        /\ ~ any_poll
        /\ second
        /\ ~ NothingToWaitFor
        /\ Leave("Pending")
        /\ UNCHANGED <<taskVars, current, last_waker, woken, threadVars>>
----------------------------------------------------------------------------
Handle == \E k \in Keys : \/ \E reason \in {"None", "Suspended"} : Spawn(k, reason)
                          \/ Suspend(k) \/ Resume(k) \/ Cancel(k)

User == Handle \/ CloneWaker \/ \E k \in Keys \cup {NoKey} : WakeHere(k)

Thread(t) == Notify(t) \/ WakeOuter(t) \/ StoreRunnable(t)

TaskReturns == TaskPending \/ TaskReady \/ TaskPanics

DropReturns == DropDone \/ DropPanics

Beat == Skip \/ RemoveCancelled \/ PollTask \/ BeatAgain \/ RegisterWaker \/ Finish \/ Wait

Next == \/ User
        \/ \E t \in Threads : Thread(t) \/ \E k \in held : BeginWake(t, k)
        \/ PollStart \/ Beat \/ TaskReturns \/ DropReturns

Spec == Init /\ [][Next]_vars

(* The wheel's thread runs; a poll of a task and a destructor return; a    *)
(* wake that began ends; the executor polls when it may.  No event has to  *)
(* happen, and no task has to finish.                                      *)
Fairness == /\ WF_vars(PollStart)
            /\ WF_vars(Beat)
            /\ WF_vars(TaskReturns)
            /\ WF_vars(DropReturns)
            /\ \A t \in Threads : WF_vars(Thread(t))

FairSpec == Spec /\ Fairness
----------------------------------------------------------------------------
\* WheelHandle::get_state.
GetState(k) == CASE stop[k] = "Vacant" -> "Inactive"
                 [] stop[k] = "None" -> IF runnable[k] THEN "Runnable" ELSE "Waiting"
                 [] OTHER -> stop[k]

(* suspended_count is the number of suspended tasks plus the tasks that    *)
(* finished while suspended, over every order of spawn, suspend, resume,   *)
(* cancel, completion and removal: dec_suspended never underflows.         *)
CountExact == suspended_count = Cardinality(Suspended) + leaked

(* handle.current() is the task that is being polled, and None outside of  *)
(* tasks ("Not called inside task", handle.rs), after a panic as well.     *)
CurrentExact == /\ (current # NoKey) <=> (pc = "poll")
                /\ current # NoKey => current = cursor /\ stop[current] # "Vacant"

(* While the wheel is Pending an event that wakes a task finds the         *)
(* executor's waker registered, or the executor has been, or is being,     *)
(* notified: the wheel never sleeps with nobody able to wake it.           *)
WakerNotLost == (pc = "idle" /\ result = "Pending") =>
                   last_waker \/ woken \/ \E t \in Threads : wpc[t] = "outer"

(* What the wheel's future returned is true of its tasks, as long as no    *)
(* task finished while it was suspended: Ok when there are no tasks,       *)
(* SuspendError when there are and all are suspended, Pending when some    *)
(* task is neither suspended nor, unless destructors cancel, cancelled.    *)
VerdictTrue ==
  (pc = "idle" /\ ~ Outside /\ leaked = 0) =>
     /\ result = "ReadyOk" => Registered = {}
     /\ result = "ReadyErr" => Registered # {} /\ Registered = Suspended
     /\ result = "Pending" => \E k \in Keys : \/ stop[k] = "None"
                                              \/ Destructors /\ stop[k] = "Cancelled"

Parked == pc = "idle" /\ result = "Pending" /\ ~ Outside

(* "Error returned by scheduler's `Future` when all tasks become           *)
(* suspended" (wheel.rs); "all tasks should eventually be suspended and    *)
(* error should be raised" (tests/control.rs): the wheel returns the error *)
(* when all its tasks are suspended and does not wait then.                *)
SuspendErrorExact ==
  (pc = "idle" /\ ~ Outside) =>
     /\ result = "ReadyErr" => Registered = Suspended
     /\ result = "Pending" => Registered # Suspended

(* "task allocated outside will be executed by next call to beat_once,     *)
(* note that any_poll will be true in case task is added" (beat_once): the *)
(* wheel does not return Pending with a task that was added and not        *)
(* executed.  Without other threads no task is woken after the last beat.  *)
NoneLeftRunnable == (Parked /\ Threads = {}) => \A k \in Keys : GetState(k) # "Runnable"

(* The State of a task as the docs have it: one that executes and is not   *)
(* stopped is "Runnable: currently executing or waiting for its turn"      *)
(* (handle.rs).  get_state reports it as Waiting until it is woken, since  *)
(* poll_local clears `runnable` before the poll: there the code and the    *)
(* docs differ, and Lifecycle is about the State of the docs.              *)
DocState(k) == IF k = current /\ stop[k] = "None" THEN "Runnable" ELSE GetState(k)

States == [k \in Keys |-> DocState(k)]

Life == INSTANCE TaskLifecycle WITH None <- NoKey, executing <- current, state <- States

(* Tasks go through the life cycle that the docs of State and WheelHandle  *)
(* give: one task executes at a time, only when it was Runnable; after its *)
(* turn it waits unless it was woken during it; a cancelled task is never  *)
(* executed, resumed or suspended again, and its identifier is not given   *)
(* away before it was removed.                                             *)
Lifecycle == Life!Spec

Stopped == pc = "idle" /\ result \in {"ReadyOk", "ReadyErr", "Panicked"}

(* "when woken they are added at the end of queue" (wheel.rs): a runnable  *)
(* task is polled, unless it is suspended or cancelled first or the wheel  *)
(* stops.                                                                  *)
RunnableServed == \A k \in Keys :
                    (stop[k] = "None" /\ runnable[k]) ~>
                       (current = k \/ stop[k] # "None" \/ Stopped)

(* A cancelled task is removed from the scheduler, unless the wheel stops. *)
CancelledRemoved == \A k \in Keys : stop[k] = "Cancelled" ~> (stop[k] # "Cancelled" \/ Stopped)

(* An event that begins to wake a task while the wheel is Pending makes    *)
(* the executor poll the wheel again.                                      *)
WakeReachesExecutor == \A t \in Threads :
                         (wpc[t] = "notify" /\ pc = "idle" /\ result = "Pending") ~> (pc # "idle")
=============================================================================
