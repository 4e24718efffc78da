---------------------------- MODULE StaticWheel ----------------------------
(***************************************************************************)
(* The static scheduler of juggle: st::StaticWheelDef, StaticWheel and     *)
(* StaticHandle over StaticAlgorithm and the StaticFutures of a            *)
(* static_config!.  The tasks are fixed and can be restarted; the wheel    *)
(* can be locked, dropped and locked again any number of times.            *)
(*                                                                         *)
(* As in Wheel, what the wheel's thread does between two points where user *)
(* code comes in is one step, and so is a swap of the waker registry.      *)
(***************************************************************************)
EXTENDS Integers, FiniteSets

CONSTANTS N,               \* the number of tasks, registry.len()
          UintMax,         \* usize::MAX, also the mark "never initialized"
          StartSuspended,  \* tasks with StaticParams::suspended(true)
          Events           \* tasks whose waker other threads run

Tasks == 0 .. N - 1
NoTask == -1

ASSUME StaticAssumption == /\ N \in Nat \ {0}
                           /\ UintMax \in Nat
                           /\ N < UintMax
                           /\ StartSuspended \subseteq Tasks
                           /\ Events \subseteq Tasks

VARIABLES stop,              \* stop[k]: stop_reason of task k
          runnable,          \* runnable[k]: StaticSyncFlags::runnable
          flag,              \* flag[k]: INIT_FLAG of task k
          valid,             \* tasks whose handle is of this generation
          unfinished_count, suspended_count,
          current,           \* StaticAlgorithm::current
          last_waker,        \* the executor's waker: "none", "registered" or "ran"
          inited,            \* were the self references created?
          checked,           \* a build with overflow checks
          pc,                \* where the wheel's thread is
          dropping,          \* the destructor of task `cursor` runs
          unwinding,         \* the wheel is dropped by a panic
          cursor, any_poll, second, result,  \* as in Wheel
          held,              \* tasks of Events whose waker exists
          storing,           \* wakes that notified and did not store yet
          clean              \* history: no task was cancelled, no suspension lost

taskVars == <<stop, runnable, flag, valid>>
countVars == <<unfinished_count, suspended_count, clean>>
beatVars == <<cursor, any_poll, second, result>>
wakeVars == <<last_waker, held, storing>>
fixedVars == <<inited, checked>>
vars == <<taskVars, countVars, current, pc, dropping, unwinding, beatVars, wakeVars, fixedVars>>

Reasons == {"None", "Suspended", "Cancelled", "Finished", "Restart", "RestartSuspended"}
Suspension == {"Suspended", "RestartSuspended"}

\* Positions of poll_internal at which tasks and destructors may run.
Polling == {"beat", "cancel", "restart", "restartsuspended", "poll", "ready"}

TypeOK == /\ stop \in [Tasks -> Reasons]
          /\ runnable \in [Tasks -> BOOLEAN]
          /\ flag \in [Tasks -> {"Uninit", "Created", "Dropped"}]
          /\ valid \subseteq Tasks
          /\ unfinished_count \in 0 .. UintMax
          /\ suspended_count \in 0 .. UintMax
          /\ current \in Tasks \cup {NoTask}
          /\ last_waker \in {"none", "registered", "ran"}
          /\ {inited, checked, dropping, unwinding, any_poll,
              second, clean} \subseteq BOOLEAN
          /\ pc \in Polling \cup {"free", "init", "idle", "dispose", "aborted"}
          /\ cursor \in 0 .. N
          /\ (pc \in Polling \ {"beat"} \/ dropping) => cursor \in Tasks
          /\ result \in {"none", "Pending", "ReadyOk", "ReadyErr", "Panicked"}
          /\ held \subseteq Events
          /\ storing \subseteq held

StartReason(k) == IF k \in StartSuspended THEN "Suspended" ELSE "None"

Init == /\ stop = [k \in Tasks |-> "None"]
        /\ runnable = [k \in Tasks |-> TRUE]
        /\ flag = [k \in Tasks |-> "Uninit"]
        /\ valid = {}
        /\ unfinished_count = UintMax /\ suspended_count = 0 /\ clean = TRUE
        /\ current = NoTask
        /\ pc = "free" /\ dropping = FALSE /\ unwinding = FALSE
        /\ cursor = 0 /\ any_poll = FALSE /\ second = FALSE /\ result = "none"
        /\ last_waker = "none" /\ held = {} /\ storing = {}
        /\ inited = FALSE
        /\ checked \in BOOLEAN
----------------------------------------------------------------------------
(* StaticHandle.  The owner of the wheel uses handles between polls, tasks *)
(* and destructors while they run; is_valid refuses the handle of a future *)
(* that an earlier use of the wheel left behind.                           *)

UserMayAct == \/ pc = "idle"
              \/ (pc = "poll" \/ dropping) /\ cursor \in valid

SetStop(k, reason) ==
  /\ stop' = [stop EXCEPT ![k] = reason]
  /\ UNCHANGED <<runnable, flag, valid, current, pc, dropping, unwinding, beatVars,
                 wakeVars, fixedVars>>

\* Mutant: a task that is about to restart is suspended without being counted.
SuspendUncounted(k) ==
  /\ UserMayAct
  /\ \/ /\ stop[k] = "None" /\ SetStop(k, "Suspended")
        /\ suspended_count < UintMax
        /\ suspended_count' = suspended_count + 1
     \/ /\ stop[k] = "Restart" /\ SetStop(k, "RestartSuspended")
        /\ UNCHANGED suspended_count
  /\ UNCHANGED <<unfinished_count, clean>>

Suspend(k) == /\ UserMayAct
              /\ \/ stop[k] = "None" /\ SetStop(k, "Suspended")
                 \/ stop[k] = "Restart" /\ SetStop(k, "RestartSuspended")
              /\ suspended_count < UintMax   \* bound
              /\ suspended_count' = suspended_count + 1
              /\ UNCHANGED <<unfinished_count, clean>>

Resume(k) == /\ UserMayAct
             /\ stop[k] = "Suspended"
             /\ SetStop(k, "None")
             /\ suspended_count' = suspended_count - 1
             /\ UNCHANGED <<unfinished_count, clean>>

\* inc_unfinished, which a build without overflow checks wraps.
IncUnfinished == /\ unfinished_count # UintMax - 1   \* bound
                 /\ unfinished_count' = (unfinished_count + 1) % (UintMax + 1)

\* Mutant: only a cancelled task is counted as unfinished again.
RestartForgetsFinished(k) ==
  /\ UserMayAct
  /\ stop[k] # "Restart"
  /\ SetStop(k, "Restart")
  /\ suspended_count' = suspended_count - (IF stop[k] \in Suspension THEN 1 ELSE 0)
  /\ IF stop[k] = "Cancelled" THEN IncUnfinished ELSE UNCHANGED unfinished_count
  /\ UNCHANGED clean

Restart(k) ==
  /\ UserMayAct
  /\ stop[k] # "Restart"
  /\ SetStop(k, "Restart")
  /\ suspended_count' = suspended_count - (IF stop[k] \in Suspension THEN 1 ELSE 0)
  /\ IF stop[k] \in {"Cancelled", "Finished"} THEN IncUnfinished
                                              ELSE UNCHANGED unfinished_count
  /\ UNCHANGED clean

Cancel(k) ==
  /\ UserMayAct
  /\ stop[k] # "Cancelled"
  /\ SetStop(k, "Cancelled")
  /\ suspended_count' = suspended_count - (IF stop[k] = "Suspended" THEN 1 ELSE 0)
  /\ clean' = FALSE
  /\ UNCHANGED unfinished_count
----------------------------------------------------------------------------
(* StaticSyncFlags::wake.  Wakers are 'static and outlive every future and  *)
(* every use of the wheel.                                                 *)

NotifyWake == last_waker' = IF last_waker = "registered" THEN "ran" ELSE last_waker

\* The polled task wakes itself.
WakeSelf == /\ pc = "poll"
            /\ NotifyWake
            /\ runnable' = [runnable EXCEPT ![cursor] = TRUE]
            /\ UNCHANGED <<stop, flag, valid, countVars, current, pc, dropping, unwinding,
                           beatVars, held, storing, fixedVars>>

\* On another thread the waker is notified first and `runnable` stored second.
WakeNotify(k) == /\ pc # "aborted"
                 /\ k \in held \ storing
                 /\ NotifyWake
                 /\ storing' = storing \cup {k}
                 /\ UNCHANGED <<taskVars, countVars, current, pc, dropping, unwinding,
                                beatVars, held, fixedVars>>

WakeStore(k) == /\ pc # "aborted"
                /\ k \in storing
                /\ runnable' = [runnable EXCEPT ![k] = TRUE]
                /\ storing' = storing \ {k}
                /\ UNCHANGED <<stop, flag, valid, countVars, current, pc, dropping,
                               unwinding, beatVars, last_waker, held, fixedVars>>
----------------------------------------------------------------------------
(* try_lock and StaticAlgorithm::init.                                     *)

\* The first lock: every task is untouched.
LockFirst == /\ pc = "free" /\ unfinished_count = UintMax /\ ~ inited
             /\ inited' = TRUE
             /\ stop' = [k \in Tasks |-> StartReason(k)]
             /\ runnable' = [k \in Tasks |-> TRUE]
             /\ unfinished_count' = N
             /\ suspended_count' = Cardinality(StartSuspended)
             /\ clean' = TRUE
             /\ pc' = "idle"
             /\ UNCHANGED <<flag, valid, current, dropping, unwinding, beatVars,
                            wakeVars, checked>>

\* unfinished_count wrapped to the mark: task.init fails, and the new wheel is dropped.
LockPanics == /\ pc = "free" /\ unfinished_count = UintMax /\ inited
              /\ pc' = "dispose" /\ cursor' = 0 /\ unwinding' = TRUE
              /\ UNCHANGED <<taskVars, countVars, current, dropping, any_poll, second,
                             result, wakeVars, fixedVars>>

LockAgain == /\ pc = "free" /\ unfinished_count # UintMax
             /\ pc' = "init" /\ cursor' = 0
             /\ UNCHANGED <<taskVars, countVars, current, dropping, unwinding, any_poll,
                            second, result, wakeVars, fixedVars>>

\* cancel(.., uninit) of a future that still exists: its destructor runs.
DropTask(status) == /\ flag[cursor] = "Created"
                    /\ flag' = [flag EXCEPT ![cursor] = status]
                    /\ dropping' = TRUE

InitDropsTask == /\ pc = "init" /\ ~ dropping /\ cursor < N
                 /\ DropTask("Uninit")
                 /\ UNCHANGED <<stop, runnable, valid, countVars, current, pc, unwinding,
                                beatVars, wakeVars, fixedVars>>

InitTask == /\ pc = "init" /\ ~ dropping /\ cursor < N
            /\ flag[cursor] # "Created"
            /\ flag' = [flag EXCEPT ![cursor] = "Uninit"]
            /\ stop' = [stop EXCEPT ![cursor] = StartReason(cursor)]
            /\ runnable' = [runnable EXCEPT ![cursor] = TRUE]
            /\ cursor' = cursor + 1
            /\ UNCHANGED <<valid, countVars, current, pc, dropping, unwinding, any_poll,
                           second, result, wakeVars, fixedVars>>

InitDone == /\ pc = "init" /\ cursor = N
            /\ unfinished_count' = N
            /\ suspended_count' = Cardinality(StartSuspended)
            /\ clean' = TRUE
            /\ pc' = "idle" /\ cursor' = 0
            /\ UNCHANGED <<taskVars, current, dropping, unwinding, any_poll, second,
                           result, wakeVars, fixedVars>>
----------------------------------------------------------------------------
(* Drop for StaticWheel and StaticAlgorithm::dispose.                      *)

\* Mutant: the generation is not changed.
ReleaseKeepsHandles ==
  /\ pc' = "free" /\ cursor' = 0 /\ unwinding' = FALSE /\ result' = "none"
  /\ UNCHANGED valid

\* The generation changes, so no handle is valid any more, and the lock is released.
Release == /\ pc' = "free" /\ cursor' = 0 /\ unwinding' = FALSE /\ result' = "none"
           /\ valid' = {}

BeginDispose(unwind) ==
  \/ unfinished_count = 0 /\ Release
  \/ /\ unfinished_count # 0
     /\ pc' = "dispose" /\ cursor' = 0 /\ unwinding' = unwind
     /\ UNCHANGED <<result, valid>>

\* The owner drops the wheel, or a panic that left poll does.
DropWheel == /\ pc = "idle"
             /\ \E unwind \in {FALSE, result = "Panicked"} : BeginDispose(unwind)
             /\ UNCHANGED <<stop, runnable, flag, countVars, current, dropping, any_poll,
                            second, wakeVars, fixedVars>>

DisposeDropsTask == /\ pc = "dispose" /\ ~ dropping /\ cursor < N
                    /\ DropTask("Uninit")
                    /\ UNCHANGED <<stop, runnable, valid, countVars, current, pc,
                                   unwinding, beatVars, wakeVars, fixedVars>>

DisposeTask == /\ pc = "dispose" /\ ~ dropping /\ cursor < N
               /\ flag[cursor] # "Created"
               /\ flag' = [flag EXCEPT ![cursor] = "Uninit"]
               /\ stop' = [stop EXCEPT ![cursor] = "Cancelled"]
               /\ cursor' = cursor + 1
               /\ UNCHANGED <<runnable, valid, countVars, current, pc, dropping,
                              unwinding, any_poll, second, result, wakeVars, fixedVars>>

DisposeDone == /\ pc = "dispose" /\ cursor = N
               /\ Release
               /\ UNCHANGED <<stop, runnable, flag, countVars, current, dropping,
                              any_poll, second, wakeVars, fixedVars>>
----------------------------------------------------------------------------
(* poll_internal and beat_once.                                            *)

Leave(res) == /\ pc' = "idle" /\ cursor' = 0
              /\ any_poll' = FALSE /\ second' = FALSE
              /\ result' = res

NewBeat == cursor' = 0 /\ any_poll' = FALSE

PollStart == /\ pc = "idle"
             /\ last_waker' = "none"
             /\ pc' = "beat" /\ second' = FALSE /\ result' = "none"
             /\ NewBeat
             /\ UNCHANGED <<taskVars, countVars, current, dropping, unwinding, held,
                            storing, fixedVars>>

Visiting(reason) == pc = "beat" /\ cursor < N /\ stop[cursor] = reason

Visit == pc' = "beat" /\ cursor' = cursor + 1 /\ UNCHANGED <<any_poll, second, result>>

Skip == /\ \/ Visiting("Finished") \/ Visiting("Suspended")
           \/ Visiting("None") /\ ~ runnable[cursor]
        /\ Visit
        /\ UNCHANGED <<taskVars, countVars, current, dropping, unwinding, wakeVars, fixedVars>>

\* Mutant: zero is not looked at.
DecUnfinishedBelowZero == unfinished_count' = unfinished_count - 1 /\ Visit

\* dec_unfinished: at zero it panics or, without overflow checks, wraps.
DecUnfinished ==
  \/ /\ unfinished_count # 0 \/ ~ checked
     /\ unfinished_count' = (unfinished_count + UintMax) % (UintMax + 1)
     /\ Visit
  \/ /\ unfinished_count = 0 /\ checked
     /\ Leave("Panicked")
     /\ UNCHANGED unfinished_count

\* run_task.cancel(.., uninit): the future is dropped, or only the flag is set.
CancelTask(status) == \/ DropTask(status)
                      \/ /\ flag[cursor] # "Created"
                         /\ flag' = [flag EXCEPT ![cursor] = status]
                         /\ UNCHANGED dropping

VisitCancelled == /\ Visiting("Cancelled")
                  /\ CancelTask("Dropped")
                  /\ pc' = "cancel"
                  /\ UNCHANGED <<stop, runnable, valid, countVars, current, unwinding,
                                 beatVars, wakeVars, fixedVars>>

CancelDone == /\ pc = "cancel" /\ ~ dropping
              /\ DecUnfinished
              /\ UNCHANGED <<taskVars, suspended_count, clean, current, dropping,
                             unwinding, wakeVars, fixedVars>>

VisitRestart == /\ \/ /\ Visiting("Restart")
                      /\ stop' = [stop EXCEPT ![cursor] = "None"]
                      /\ pc' = "restart"
                   \/ /\ Visiting("RestartSuspended")
                      /\ stop' = [stop EXCEPT ![cursor] = "Suspended"]
                      /\ pc' = "restartsuspended"
                /\ CancelTask("Uninit")
                /\ UNCHANGED <<runnable, valid, countVars, current, unwinding, beatVars,
                               wakeVars, fixedVars>>

\* reset(false) sets StopReason::None, whatever the reason is by now.
Reset == /\ stop' = [stop EXCEPT ![cursor] = "None"]
         /\ clean' = (clean /\ stop[cursor] \notin Suspension)

RestartSuspendedDone ==
  /\ pc = "restartsuspended" /\ ~ dropping
  /\ Reset
  /\ runnable' = [runnable EXCEPT ![cursor] = TRUE]
  /\ Visit
  /\ UNCHANGED <<flag, valid, unfinished_count, suspended_count, current, dropping,
                 unwinding, wakeVars, fixedVars>>

\* The task to poll next: it is its turn, or it was just restarted.
Turn == \/ /\ Visiting("None") /\ runnable[cursor]
           /\ UNCHANGED <<stop, clean>>
        \/ pc = "restart" /\ ~ dropping /\ Reset

\* poll_local and handle_task: the future is created if there is none, then polled.
PollTask == /\ Turn
            /\ flag[cursor] # "Dropped"
            /\ flag' = [flag EXCEPT ![cursor] = "Created"]
            /\ valid' = valid \cup {cursor}
            /\ runnable' = [runnable EXCEPT ![cursor] = FALSE]
            /\ held' = held \cup ({cursor} \cap Events)
            /\ current' = cursor
            /\ any_poll' = TRUE
            /\ pc' = "poll"
            /\ UNCHANGED <<unfinished_count, suspended_count, dropping, unwinding, cursor,
                           second, result, last_waker, storing, fixedVars>>

\* The expression that creates the future panicked.
CreatePanics == /\ Turn
                /\ flag[cursor] = "Uninit"
                /\ runnable' = [runnable EXCEPT ![cursor] = FALSE]
                /\ Leave("Panicked")
                /\ UNCHANGED <<flag, valid, unfinished_count, suspended_count, current,
                               dropping, unwinding, wakeVars, fixedVars>>

\* The future is gone (its destructor panicked when it finished): Ready at once.
PollDropped == /\ Turn
               /\ flag[cursor] = "Dropped"
               /\ runnable' = [runnable EXCEPT ![cursor] = FALSE]
               /\ current' = cursor
               /\ any_poll' = TRUE
               /\ pc' = "ready"
               /\ UNCHANGED <<flag, valid, unfinished_count, suspended_count, dropping,
                              unwinding, cursor, second, result, wakeVars, fixedVars>>

TaskPending == /\ pc = "poll"
               /\ current' = NoTask
               /\ Visit
               /\ UNCHANGED <<taskVars, countVars, dropping, unwinding, wakeVars, fixedVars>>

\* The task finished: handle_task marks it and drops the future.
TaskReady == /\ pc = "poll"
             /\ DropTask("Dropped")
             /\ pc' = "ready"
             /\ UNCHANGED <<stop, runnable, valid, countVars, current, unwinding, beatVars,
                            wakeVars, fixedVars>>

TaskPanics == /\ pc = "poll"
              /\ current' = NoTask
              /\ Leave("Panicked")
              /\ UNCHANGED <<taskVars, countVars, dropping, unwinding, wakeVars, fixedVars>>

ReadyDone == /\ pc = "ready" /\ ~ dropping
             /\ current' = NoTask
             /\ stop' = [stop EXCEPT ![cursor] = "Finished"]
             /\ clean' = (clean /\ stop[cursor] \notin Suspension)
             /\ DecUnfinished
             /\ UNCHANGED <<runnable, flag, valid, suspended_count, dropping, unwinding,
                            wakeVars, fixedVars>>

BeatDone == pc = "beat" /\ cursor = N

BeatAgain == /\ BeatDone /\ any_poll
             /\ last_waker' = IF second THEN "none" ELSE last_waker
             /\ second' = FALSE
             /\ NewBeat
             /\ UNCHANGED <<taskVars, countVars, current, pc, dropping, unwinding, result, held, storing, fixedVars>>

RegisterWaker == /\ BeatDone /\ ~ any_poll /\ ~ second
                 /\ last_waker' = "registered"
                 /\ second' = TRUE
                 /\ NewBeat
                 /\ UNCHANGED <<taskVars, countVars, current, pc, dropping, unwinding,
                                result, held, storing, fixedVars>>

Finish == /\ BeatDone /\ ~ any_poll /\ second
          /\ unfinished_count \in {0, suspended_count}
          /\ last_waker' = "none"
          /\ Leave(IF unfinished_count = 0 THEN "ReadyOk" ELSE "ReadyErr")
          /\ UNCHANGED <<taskVars, countVars, current, dropping, unwinding, held,
                         storing, fixedVars>>

\* Mutant: the waker is cleared before every return.
WaitClears == /\ BeatDone /\ ~ any_poll /\ second
              /\ unfinished_count \notin {0, suspended_count}
              /\ last_waker' = "none"
              /\ Leave("Pending")
              /\ UNCHANGED <<taskVars, countVars, current, dropping, unwinding, held,
                             storing, fixedVars>>

Wait == /\ BeatDone /\ ~ any_poll /\ second
        /\ unfinished_count \notin {0, suspended_count}
        /\ Leave("Pending")
        /\ UNCHANGED <<taskVars, countVars, current, dropping, unwinding, wakeVars, fixedVars>>
----------------------------------------------------------------------------
DropReturns == /\ dropping
               /\ dropping' = FALSE
               /\ UNCHANGED <<taskVars, countVars, current, pc, unwinding, beatVars,
                              wakeVars, fixedVars>>

\* A destructor panics in a poll: the guards reset `current`, the poll unwinds.
DropPanicsInPoll == /\ dropping /\ pc \in Polling
                    /\ dropping' = FALSE
                    /\ current' = NoTask
                    /\ Leave("Panicked")
                    /\ UNCHANGED <<taskVars, countVars, unwinding, wakeVars, fixedVars>>

\* ... in init: the wheel that was about to be returned is dropped.
DropPanicsInInit == /\ dropping /\ pc = "init"
                    /\ dropping' = FALSE
                    /\ BeginDispose(TRUE)
                    /\ UNCHANGED <<stop, runnable, flag, countVars, current, any_poll,
                                   second, wakeVars, fixedVars>>

\* Mutant: there is no emergency cleanup.
DropPanicsInDisposeStops ==
  /\ dropping /\ pc = "dispose"
  /\ dropping' = FALSE
  /\ Release
  /\ stop' = [stop EXCEPT ![cursor] = "Cancelled"]
  /\ UNCHANGED <<runnable, flag, countVars, current, any_poll, second, wakeVars, fixedVars>>

(* ... in dispose: cleanup's guard marks the task and the emergency cleanup *)
(* goes on with the others; a second panic aborts the process.             *)
DropPanicsInDispose ==
  /\ dropping /\ pc = "dispose"
  /\ dropping' = FALSE
  /\ \/ /\ ~ unwinding
        /\ unwinding' = TRUE
        /\ stop' = [stop EXCEPT ![cursor] = "Cancelled"]
        /\ cursor' = cursor + 1
        /\ UNCHANGED pc
     \/ /\ unwinding
        /\ pc' = "aborted"
        /\ UNCHANGED <<unwinding, stop, cursor>>
  /\ UNCHANGED <<runnable, flag, valid, countVars, current, any_poll, second, result,
                 wakeVars, fixedVars>>

User == \E k \in Tasks : Suspend(k) \/ Resume(k) \/ Restart(k) \/ Cancel(k)

Lock == LockFirst \/ LockPanics \/ LockAgain

InitStep == InitDropsTask \/ InitTask \/ InitDone

Dispose == DisposeDropsTask \/ DisposeTask \/ DisposeDone

Beat == \/ Skip \/ VisitCancelled \/ CancelDone \/ VisitRestart \/ RestartSuspendedDone
        \/ PollTask \/ CreatePanics \/ PollDropped \/ ReadyDone
        \/ BeatAgain \/ RegisterWaker \/ Finish \/ Wait

TaskReturns == TaskPending \/ TaskReady \/ TaskPanics

DropEnds == DropReturns \/ DropPanicsInPoll \/ DropPanicsInInit \/ DropPanicsInDispose

Next == \/ User \/ Lock \/ InitStep \/ PollStart \/ DropWheel \/ Dispose
        \/ Beat \/ TaskReturns \/ DropEnds
        \/ WakeSelf \/ \E k \in Tasks : WakeNotify(k) \/ WakeStore(k)

Spec == Init /\ [][Next]_vars

----------------------------------------------------------------------------
(* dec_suspended never underflows: over every order of suspend, resume,    *)
(* restart, cancel, completion and panic, also from destructors that       *)
(* dispose runs, suspended_count covers the tasks that are suspended.      *)
SuspendedCovered ==
  pc \in Polling \cup {"idle", "dispose"} =>
     suspended_count >= Cardinality({k \in Tasks : stop[k] \in Suspension})

(* The counts that decide what the wheel's future returns are the numbers  *)
(* of unfinished and of suspended tasks, as long as no task was cancelled, *)
(* and none finished or was restarted while it was suspended.              *)
CountsExact ==
  (clean /\ pc \in Polling \cup {"idle"}) =>
     /\ unfinished_count = Cardinality({k \in Tasks : stop[k] # "Finished"})
     /\ suspended_count = Cardinality({k \in Tasks : stop[k] \in Suspension})

(* A Pending static wheel can be woken: its executor's waker is registered *)
(* or has run.                                                             *)
WakerNotLost == (pc = "idle" /\ result = "Pending") => last_waker # "none"

(* "we need to properly dispose scheduler, only after that lock can be     *)
(* released" (st/wheel.rs): unless unfinished_count was zero, every future *)
(* is dropped when the lock is free again, also when destructors panicked. *)
DisposedClean == (pc = "free" /\ unfinished_count # 0) => \A k \in Tasks : flag[k] # "Created"

Pristine == /\ flag = [k \in Tasks |-> "Uninit"]
            /\ stop = [k \in Tasks |-> StartReason(k)]
            /\ runnable = [k \in Tasks |-> TRUE]
            /\ unfinished_count = N
            /\ suspended_count = Cardinality({k \in Tasks : stop[k] = "Suspended"})
            /\ current = NoTask

(* Whatever happened to the wheel before, panics, abandoned futures and    *)
(* late wakes included, a lock that succeeds hands out a fresh wheel.      *)
LockIsFresh == [][(pc \in {"free", "init"} /\ pc' = "idle") => Pristine']_vars

(* "true if all tasks finished" (poll_internal): when the wheel's future   *)
(* returns Ok, no task has anything left to do.                            *)
ReadyMeansFinished ==
  [][(BeatDone /\ result' = "ReadyOk") => \A k \in Tasks : stop[k] \in {"Finished", "Cancelled"}]_vars
=============================================================================
