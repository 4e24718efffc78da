------------------------- MODULE StaticWheelProofs -------------------------
(***************************************************************************)
(* Proofs about StaticWheel for any number of tasks, any tasks that start  *)
(* suspended or are woken by other threads, any width of the counters that *)
(* holds the number of tasks, with and without overflow checks.            *)
(***************************************************************************)
EXTENDS StaticWheel, FiniteSetTheorems, TLAPS

\* What a task with a stop reason adds to the two counters.
Sus(reason) == IF reason \in Suspension THEN 1 ELSE 0
Unf(reason) == IF reason # "Finished" THEN 1 ELSE 0

SuspendedTasks == {k \in Tasks : stop[k] \in Suspension}
UnfinishedTasks == {k \in Tasks : stop[k] # "Finished"}

Active == Polling \cup {"idle"}

\* Where destructors run: never at an idle or a free wheel.  A lock runs one
\* only when unfinished_count was zero, and the dispose before did nothing.
DropInv == dropping => /\ pc \in {"cancel", "restart", "restartsuspended", "ready", "init", "dispose"}
                       /\ flag[cursor] # "Created"
                       /\ pc = "init" => unfinished_count = 0

\* A wheel that is not locked: no handle is valid, nothing was returned, and
\* unless unfinished_count is zero no future is left.
FreeInv ==
  /\ pc \in {"free", "init"} => valid = {} /\ result = "none"
  /\ (pc \in {"free", "init"} /\ unfinished_count # 0) => \A k \in Tasks : flag[k] # "Created"
  /\ ~ inited => /\ pc = "free" /\ unfinished_count = UintMax
                 /\ \A k \in Tasks : flag[k] = "Uninit" /\ stop[k] = "None"

\* How far init and dispose came.
ProgressInv ==
  /\ pc = "init" => \A k \in Tasks : k < cursor => /\ flag[k] = "Uninit" /\ runnable[k]
                                                   /\ stop[k] = StartReason(k)
  /\ pc = "dispose" => \A k \in Tasks : k < cursor => flag[k] # "Created"

\* `current` is set only in a poll, and the second beat has a waker.
PollInv == /\ pc \notin {"poll", "ready"} => current = NoTask
           /\ second => last_waker # "none"
           /\ WakerNotLost

\* The suspended tasks are counted also while the wheel is free, unless the
\* dispose before did nothing.
Covered == (pc \in Active \cup {"dispose"} \/ (pc = "free" /\ unfinished_count # 0)) =>
             suspended_count >= Cardinality(SuspendedTasks)

\* As long as the history is clean nothing is cancelled, and a task that is
\* restarted or polled has not finished.
CleanInv == /\ (clean /\ pc \in Active) => pc # "cancel" /\ \A k \in Tasks : stop[k] # "Cancelled"
            /\ pc \in {"restart", "restartsuspended", "poll", "ready"} => stop[cursor] # "Finished"

CountInv == /\ Covered /\ CleanInv
            /\ (clean /\ pc \in Active) =>
                 /\ unfinished_count = Cardinality(UnfinishedTasks)
                 /\ suspended_count = Cardinality(SuspendedTasks)

IInv == TypeOK /\ DropInv /\ FreeInv /\ ProgressInv /\ PollInv /\ CountInv
----------------------------------------------------------------------------
(* Quotient and remainder are unique.                                      *)
LEMMA RemainderIs == ASSUME NEW x \in Int, NEW b \in Nat \ {0}, NEW p \in Int,
                            NEW s \in 0 .. (b - 1), x = b * p + s
                     PROVE  x % b = s
<1> DEFINE q == x \div b
           r == x % b
<1>1. x = b * q + r /\ q \in Int /\ r \in 0 .. (b - 1)
  OBVIOUS
<1>2. ~ (q >= p + 1)
  <2> SUFFICES ASSUME q >= p + 1 PROVE FALSE
    OBVIOUS
  <2>1. b * q >= b * (p + 1)
    BY <1>1
  <2>2. b * (p + 1) = b * p + b
    OBVIOUS
  <2> QED BY <1>1, <2>1, <2>2
<1>3. ~ (p >= q + 1)
  <2> SUFFICES ASSUME p >= q + 1 PROVE FALSE
    OBVIOUS
  <2>1. b * p >= b * (q + 1)
    BY <1>1
  <2>2. b * (q + 1) = b * q + b
    BY <1>1
  <2> QED BY <1>1, <2>1, <2>2
<1> QED BY <1>1, <1>2, <1>3

(* What inc_unfinished and dec_unfinished do to a usize: they stay in its  *)
(* range, and unless they wrap they add and subtract one.                  *)
LEMMA UnfinishedWraps ==
  ASSUME NEW u \in 0 .. UintMax
  PROVE  /\ (u + 1) % (UintMax + 1) \in 0 .. UintMax
         /\ u # UintMax => (u + 1) % (UintMax + 1) = u + 1
         /\ (u + UintMax) % (UintMax + 1) \in 0 .. UintMax
         /\ u # 0 => (u + UintMax) % (UintMax + 1) = u - 1
<1> DEFINE m == UintMax + 1
<1>1. m \in Nat \ {0} /\ UintMax \in Nat /\ u \in Int
  BY StaticAssumption
<1>2. \A x \in Int : x % m \in 0 .. UintMax
  BY <1>1
<1>3. ASSUME u # UintMax PROVE (u + 1) % m = u + 1
  <2>1. u + 1 = m * 0 + (u + 1) /\ u + 1 \in 0 .. (m - 1)
    BY <1>1, <1>3
  <2> HIDE DEF m
  <2> QED BY <1>1, <2>1, RemainderIs
<1>4. ASSUME u # 0 PROVE (u + UintMax) % m = u - 1
  <2>1. u + UintMax = m * 1 + (u - 1) /\ u - 1 \in 0 .. (m - 1) /\ u + UintMax \in Int
    BY <1>1, <1>4
  <2> HIDE DEF m
  <2> QED BY <1>1, <2>1, RemainderIs
<1> QED BY <1>1, <1>2, <1>3, <1>4

(* The sets that the two counters count are finite.                        *)
LEMMA TasksFinite ==
  /\ IsFiniteSet(SuspendedTasks) /\ Cardinality(SuspendedTasks) \in 0 .. N
  /\ IsFiniteSet(UnfinishedTasks) /\ Cardinality(UnfinishedTasks) \in 0 .. N
  /\ Cardinality(StartSuspended) \in 0 .. N
<1>1. IsFiniteSet(Tasks) /\ Cardinality(Tasks) = N
  BY FS_Interval, StaticAssumption DEF Tasks
<1>2. ASSUME NEW S \in SUBSET Tasks
      PROVE  IsFiniteSet(S) /\ Cardinality(S) \in 0 .. N
  <2>1. IsFiniteSet(S) /\ Cardinality(S) <= Cardinality(Tasks)
    BY <1>1, <1>2, FS_Subset
  <2>2. Cardinality(S) \in Nat
    BY <2>1, FS_CardinalityType
  <2> QED BY <1>1, <2>1, <2>2, StaticAssumption
<1>3. SuspendedTasks \in SUBSET Tasks /\ UnfinishedTasks \in SUBSET Tasks
      /\ StartSuspended \in SUBSET Tasks
  BY StaticAssumption DEF SuspendedTasks, UnfinishedTasks
<1> QED BY <1>2, <1>3

(* A set that one element joins, leaves, or stays out of.                  *)
LEMMA OneMember ==
  ASSUME NEW S, NEW T, NEW k, IsFiniteSet(S), Cardinality(S) \in Nat, S \ {k} = T \ {k}
  PROVE  Cardinality(T) = Cardinality(S) + (IF k \in T THEN 1 ELSE 0)
                                         - (IF k \in S THEN 1 ELSE 0)
<1>1. CASE k \in T
  <2>1. T = S \cup {k}
    BY <1>1
  <2>2. Cardinality(S \cup {k}) = IF k \in S THEN Cardinality(S) ELSE Cardinality(S) + 1
    BY FS_AddElement
  <2> QED BY <1>1, <2>1, <2>2
<1>2. CASE k \notin T
  <2>1. T = S \ {k}
    BY <1>2
  <2>2. Cardinality(S \ {k}) = IF k \in S THEN Cardinality(S) - 1 ELSE Cardinality(S)
    BY FS_RemoveElement
  <2> QED BY <1>2, <2>1, <2>2
<1> QED BY <1>1, <1>2

(* How the numbers of suspended and unfinished tasks change when one stop  *)
(* reason changes.                                                         *)
LEMMA StopChange ==
  ASSUME TypeOK, NEW k \in Tasks, NEW r, stop' = [stop EXCEPT ![k] = r]
  PROVE  /\ Cardinality(SuspendedTasks)' = Cardinality(SuspendedTasks) + Sus(r) - Sus(stop[k])
         /\ Cardinality(UnfinishedTasks)' = Cardinality(UnfinishedTasks) + Unf(r) - Unf(stop[k])
<1>1. /\ SuspendedTasks \ {k} = SuspendedTasks' \ {k}
      /\ UnfinishedTasks \ {k} = UnfinishedTasks' \ {k}
  BY DEF TypeOK, SuspendedTasks, UnfinishedTasks
<1>2. /\ k \in SuspendedTasks <=> stop[k] \in Suspension
      /\ k \in UnfinishedTasks <=> stop[k] # "Finished"
      /\ k \in SuspendedTasks' <=> r \in Suspension
      /\ k \in UnfinishedTasks' <=> r # "Finished"
  BY DEF TypeOK, SuspendedTasks, UnfinishedTasks
<1>3. Cardinality(SuspendedTasks) \in Nat /\ Cardinality(UnfinishedTasks) \in Nat
  BY TasksFinite, StaticAssumption
<1>4. Cardinality(SuspendedTasks') = Cardinality(SuspendedTasks)
          + (IF k \in SuspendedTasks' THEN 1 ELSE 0) - (IF k \in SuspendedTasks THEN 1 ELSE 0)
  BY <1>1, <1>3, TasksFinite, OneMember
<1>5. Cardinality(UnfinishedTasks') = Cardinality(UnfinishedTasks)
          + (IF k \in UnfinishedTasks' THEN 1 ELSE 0) - (IF k \in UnfinishedTasks THEN 1 ELSE 0)
  BY <1>1, <1>3, TasksFinite, OneMember
<1> QED BY <1>2, <1>4, <1>5 DEF Sus, Unf

(* The counted tasks are among the tasks.                                  *)
LEMMA CountedPositive ==
  ASSUME NEW k \in Tasks
  PROVE  /\ stop[k] \in Suspension => Cardinality(SuspendedTasks) >= 1
         /\ stop[k] # "Finished" => Cardinality(UnfinishedTasks) >= 1
         /\ stop[k] = "Finished" => Cardinality(UnfinishedTasks) <= N - 1
<1> USE StaticAssumption
<1>1. ASSUME stop[k] \in Suspension PROVE Cardinality(SuspendedTasks) >= 1
  <2>1. k \in SuspendedTasks
    BY <1>1 DEF SuspendedTasks
  <2> QED BY <2>1, TasksFinite, FS_EmptySet
<1>2. ASSUME stop[k] # "Finished" PROVE Cardinality(UnfinishedTasks) >= 1
  <2>1. k \in UnfinishedTasks
    BY <1>2 DEF UnfinishedTasks
  <2> QED BY <2>1, TasksFinite, FS_EmptySet
<1>3. ASSUME stop[k] = "Finished" PROVE Cardinality(UnfinishedTasks) <= N - 1
  <2>1. UnfinishedTasks \in SUBSET (Tasks \ {k})
    BY <1>3 DEF UnfinishedTasks
  <2>2. IsFiniteSet(Tasks) /\ Cardinality(Tasks) = N
    BY FS_Interval DEF Tasks
  <2>3. IsFiniteSet(Tasks \ {k}) /\ Cardinality(Tasks \ {k}) = N - 1
    BY <2>2, FS_RemoveElement
  <2> QED BY <2>1, <2>3, FS_Subset
<1> QED BY <1>1, <1>2, <1>3
----------------------------------------------------------------------------
(* Typing.  The type invariant in four parts: what the provers need to see *)
(* at once is different for each.                                          *)
TaskTypes == /\ stop \in [Tasks -> Reasons]
             /\ runnable \in [Tasks -> BOOLEAN]
             /\ flag \in [Tasks -> {"Uninit", "Created", "Dropped"}]
             /\ valid \subseteq Tasks
             /\ held \subseteq Events /\ storing \subseteq held

PlaceTypes == /\ pc \in Polling \cup {"free", "init", "idle", "dispose", "aborted"}
              /\ cursor \in 0 .. N
              /\ (pc \in Polling \ {"beat"} \/ dropping) => cursor \in Tasks
              /\ current \in Tasks \cup {NoTask}
              /\ last_waker \in {"none", "registered", "ran"}
              /\ result \in {"none", "Pending", "ReadyOk", "ReadyErr", "Panicked"}

BoolTypes == /\ inited \in BOOLEAN /\ checked \in BOOLEAN /\ dropping \in BOOLEAN
             /\ unwinding \in BOOLEAN /\ any_poll \in BOOLEAN /\ second \in BOOLEAN
             /\ clean \in BOOLEAN

CountTypes == /\ unfinished_count \in 0 .. UintMax
              /\ suspended_count \in 0 .. UintMax

LEMMA TypeParts == TypeOK <=> TaskTypes /\ PlaceTypes /\ BoolTypes /\ CountTypes
BY DEF TypeOK, TaskTypes, PlaceTypes, BoolTypes, CountTypes

(* The steps keep the types of the tasks' state.                           *)
LEMMA TaskTypesStep == ASSUME TaskTypes, PlaceTypes, [Next]_vars PROVE TaskTypes'
<1> USE StaticAssumption DEF TaskTypes, Reasons, taskVars, wakeVars
<1>1. CASE User
  BY <1>1 DEF User, Suspend, Resume, Restart, Cancel, SetStop
<1>2. CASE Lock
  BY <1>2 DEF Lock, LockFirst, LockPanics, LockAgain, StartReason
<1>3. CASE InitStep
  BY <1>3 DEF InitStep, InitDropsTask, InitTask, InitDone, DropTask, StartReason, Tasks, PlaceTypes
<1>4. CASE PollStart \/ DropWheel
  BY <1>4 DEF PollStart, DropWheel, BeginDispose, Release
<1>5. CASE Dispose
  BY <1>5 DEF Dispose, DisposeDropsTask, DisposeTask, DisposeDone, DropTask, Release
<1>6. CASE Skip \/ VisitCancelled \/ CancelDone \/ VisitRestart \/ RestartSuspendedDone
  BY <1>6 DEF Skip, VisitCancelled, CancelDone, VisitRestart, RestartSuspendedDone, Reset,
              CancelTask, DropTask
<1>7. CASE PollTask \/ CreatePanics \/ PollDropped \/ ReadyDone
  <2>1. PollTask => cursor \in Tasks
    BY DEF PollTask, Turn, Visiting, PlaceTypes, Tasks, Polling
  <2> QED BY <1>7, <2>1 DEF PollTask, CreatePanics, PollDropped, ReadyDone, Turn, Reset
<1>8. CASE BeatAgain \/ RegisterWaker \/ Finish \/ Wait
  BY <1>8 DEF BeatAgain, RegisterWaker, Finish, Wait
<1>9. CASE TaskReturns
  BY <1>9 DEF TaskReturns, TaskPending, TaskReady, TaskPanics, DropTask
<1>10. CASE DropEnds
  BY <1>10 DEF DropEnds, DropReturns, DropPanicsInPoll, DropPanicsInInit,
               DropPanicsInDispose, BeginDispose, Release
<1>11. CASE WakeSelf
  BY <1>11 DEF WakeSelf
<1>12. ASSUME NEW k \in Tasks, WakeNotify(k) \/ WakeStore(k) PROVE TaskTypes'
  BY <1>12 DEF WakeNotify, WakeStore
<1>13. CASE UNCHANGED vars
  BY <1>13 DEF vars
<1> QED
  BY <1>1, <1>2, <1>3, <1>4, <1>5, <1>6, <1>7, <1>8, <1>9, <1>10, <1>11, <1>12, <1>13
  DEF Next, Beat

(* The steps keep the types of the Boolean variables.                      *)
LEMMA BoolTypesStep == ASSUME BoolTypes, [Next]_vars PROVE BoolTypes'
<1> USE DEF BoolTypes, beatVars, fixedVars, countVars
<1>1. CASE User
  BY <1>1 DEF User, Suspend, Resume, Restart, Cancel, SetStop
<1>2. CASE Lock
  BY <1>2 DEF Lock, LockFirst, LockPanics, LockAgain
<1>3. CASE InitStep
  BY <1>3 DEF InitStep, InitDropsTask, InitTask, InitDone, DropTask
<1>4. CASE PollStart \/ DropWheel
  BY <1>4 DEF PollStart, NewBeat, DropWheel, BeginDispose, Release
<1>5. CASE Dispose
  BY <1>5 DEF Dispose, DisposeDropsTask, DisposeTask, DisposeDone, DropTask, Release
<1>6. CASE Skip \/ VisitCancelled \/ CancelDone \/ VisitRestart \/ RestartSuspendedDone
  BY <1>6 DEF Skip, VisitCancelled, CancelDone, DecUnfinished, VisitRestart,
              RestartSuspendedDone, Visit, Leave, Reset, CancelTask, DropTask
<1>7. CASE PollTask \/ CreatePanics \/ PollDropped \/ ReadyDone
  BY <1>7 DEF PollTask, CreatePanics, PollDropped, ReadyDone, DecUnfinished, Visit, Leave,
              Turn, Reset
<1>8. CASE BeatAgain \/ RegisterWaker \/ Finish \/ Wait
  BY <1>8 DEF BeatAgain, RegisterWaker, Finish, Wait, NewBeat, Leave
<1>9. CASE TaskReturns
  BY <1>9 DEF TaskReturns, TaskPending, TaskReady, TaskPanics, Visit, Leave, DropTask
<1>10. CASE DropEnds
  BY <1>10 DEF DropEnds, DropReturns, DropPanicsInPoll, DropPanicsInInit,
               DropPanicsInDispose, BeginDispose, Release, Leave
<1>11. CASE WakeSelf
  BY <1>11 DEF WakeSelf
<1>12. ASSUME NEW k \in Tasks, WakeNotify(k) \/ WakeStore(k) PROVE BoolTypes'
  BY <1>12 DEF WakeNotify, WakeStore
<1>13. CASE UNCHANGED vars
  BY <1>13 DEF vars
<1> QED
  BY <1>1, <1>2, <1>3, <1>4, <1>5, <1>6, <1>7, <1>8, <1>9, <1>10, <1>11, <1>12, <1>13
  DEF Next, Beat

(* The steps keep the types of the scheduler's position.                   *)
LEMMA PlaceTypesStep == ASSUME PlaceTypes, BoolTypes, DropInv, [Next]_vars PROVE PlaceTypes'
<1> USE StaticAssumption DEF PlaceTypes, BoolTypes, Polling, Tasks, NoTask, beatVars, wakeVars
<1>1. CASE User
  BY <1>1 DEF User, Suspend, Resume, Restart, Cancel, SetStop
<1>2. CASE Lock
  BY <1>2 DEF Lock, LockFirst, LockPanics, LockAgain, DropInv
<1>3. CASE InitStep
  BY <1>3 DEF InitStep, InitDropsTask, InitTask, InitDone, DropTask
<1>4. CASE PollStart \/ DropWheel
  <2>1. ~ dropping
    BY <1>4 DEF PollStart, DropWheel, DropInv
  <2>2. CASE PollStart
    BY <2>1, <2>2 DEF PollStart, NewBeat
  <2>3. CASE DropWheel
    BY <2>1, <2>3 DEF DropWheel, BeginDispose, Release
  <2> QED BY <1>4, <2>2, <2>3
<1>5. CASE Dispose
  BY <1>5 DEF Dispose, DisposeDropsTask, DisposeTask, DisposeDone, DropTask, Release
<1>6. CASE Skip \/ VisitCancelled \/ CancelDone \/ VisitRestart \/ RestartSuspendedDone
  BY <1>6 DEF Skip, VisitCancelled, CancelDone, DecUnfinished, VisitRestart, DropInv,
              RestartSuspendedDone, Visiting, Visit, Leave, CancelTask, DropTask
<1>7. CASE PollTask \/ CreatePanics \/ PollDropped \/ ReadyDone
  BY <1>7 DEF PollTask, CreatePanics, PollDropped, ReadyDone, DecUnfinished, Visiting, Visit,
              Leave, Turn, DropInv
<1>8. CASE BeatAgain \/ RegisterWaker \/ Finish \/ Wait
  BY <1>8 DEF BeatAgain, RegisterWaker, Finish, Wait, BeatDone, NewBeat, Leave, DropInv
<1>9. CASE TaskReturns
  BY <1>9 DEF TaskReturns, TaskPending, TaskReady, TaskPanics, Visit, Leave, DropTask, DropInv
<1>10. CASE DropEnds
  BY <1>10 DEF DropEnds, DropReturns, DropPanicsInPoll, DropPanicsInInit,
               DropPanicsInDispose, BeginDispose, Release, Leave
<1>11. CASE WakeSelf
  BY <1>11 DEF WakeSelf, NotifyWake
<1>12. ASSUME NEW k \in Tasks, WakeNotify(k) \/ WakeStore(k) PROVE PlaceTypes'
  BY <1>12 DEF WakeNotify, WakeStore, NotifyWake
<1>13. CASE UNCHANGED vars
  BY <1>13 DEF vars
<1> QED
  BY <1>1, <1>2, <1>3, <1>4, <1>5, <1>6, <1>7, <1>8, <1>9, <1>10, <1>11, <1>12, <1>13
  DEF Next, Beat
----------------------------------------------------------------------------
(* The parts of the invariant that do not count.                           *)
LEMMA DropTaskDrops ==
  ASSUME TaskTypes, cursor \in Tasks, NEW status \in {"Uninit", "Dropped"}, DropTask(status)
  PROVE  flag'[cursor] # "Created" /\ dropping'
BY DEF DropTask, TaskTypes

LEMMA DropInvStep ==
  ASSUME TypeOK, DropInv, FreeInv, [Next]_vars
  PROVE  DropInv'
<1>0. TaskTypes /\ PlaceTypes /\ BoolTypes
  BY TypeParts
<1> USE <1>0, StaticAssumption DEF DropInv, taskVars, countVars, beatVars
<1>1. CASE User
  BY <1>1 DEF User, Suspend, Resume, Restart, Cancel, SetStop, UserMayAct, FreeInv
<1>2. CASE Lock
  BY <1>2 DEF Lock, LockFirst, LockPanics, LockAgain
<1>3. CASE InitStep
  <2>1. CASE InitDropsTask
    <3>1. cursor \in Tasks /\ unfinished_count = 0
      BY <2>1 DEF InitDropsTask, DropTask, FreeInv, Tasks, PlaceTypes
    <3> QED BY <2>1, <3>1, DropTaskDrops DEF InitDropsTask
  <2>2. CASE InitTask \/ InitDone
    <3>1. ~ dropping
      BY <2>2 DEF InitTask, InitDone, PlaceTypes, Tasks
    <3>2. dropping' = dropping
      BY <2>2 DEF InitTask, InitDone
    <3> QED BY <3>1, <3>2
  <2> QED BY <1>3, <2>1, <2>2 DEF InitStep
<1>4. CASE PollStart \/ DropWheel
  BY <1>4 DEF PollStart, DropWheel
<1>5. CASE Dispose
  <2>1. CASE DisposeDropsTask
    <3>1. cursor \in Tasks
      BY <2>1 DEF DisposeDropsTask, Tasks, PlaceTypes
    <3> QED BY <2>1, <3>1, DropTaskDrops DEF DisposeDropsTask
  <2>2. CASE DisposeTask \/ DisposeDone
    <3>1. ~ dropping
      BY <2>2 DEF DisposeTask, DisposeDone, PlaceTypes, Tasks
    <3>2. dropping' = dropping
      BY <2>2 DEF DisposeTask, DisposeDone
    <3> QED BY <3>1, <3>2
  <2> QED BY <1>5, <2>1, <2>2 DEF Dispose
<1>6. CASE Skip \/ VisitCancelled \/ CancelDone \/ VisitRestart \/ RestartSuspendedDone
  <2>1. CASE VisitCancelled \/ VisitRestart
    <3>1. cursor \in Tasks /\ ~ dropping
      BY <2>1 DEF VisitCancelled, VisitRestart, Visiting, Tasks, PlaceTypes
    <3>2. \E status \in {"Uninit", "Dropped"} : CancelTask(status)
      BY <2>1 DEF VisitCancelled, VisitRestart
    <3>3. dropping' => flag'[cursor] # "Created"
      BY <3>1, <3>2, DropTaskDrops DEF CancelTask
    <3> QED BY <2>1, <3>3 DEF VisitCancelled, VisitRestart
  <2>2. CASE Skip \/ CancelDone \/ RestartSuspendedDone
    BY <2>2 DEF Skip, CancelDone, RestartSuspendedDone, Visiting
  <2> QED BY <1>6, <2>1, <2>2
<1>7. CASE PollTask \/ CreatePanics \/ PollDropped \/ ReadyDone
  BY <1>7 DEF PollTask, CreatePanics, PollDropped, ReadyDone, Turn, Visiting
<1>8. CASE BeatAgain \/ RegisterWaker \/ Finish \/ Wait
  BY <1>8 DEF BeatAgain, RegisterWaker, Finish, Wait, BeatDone
<1>9. CASE TaskReturns
  <2>1. CASE TaskReady
    <3>1. cursor \in Tasks
      BY <2>1 DEF TaskReady, PlaceTypes, Polling
    <3> QED BY <2>1, <3>1, DropTaskDrops DEF TaskReady
  <2>2. CASE TaskPending \/ TaskPanics
    BY <2>2 DEF TaskPending, TaskPanics
  <2> QED BY <1>9, <2>1, <2>2 DEF TaskReturns
<1>10. CASE DropEnds
  BY <1>10 DEF DropEnds, DropReturns, DropPanicsInPoll, DropPanicsInInit, DropPanicsInDispose
<1>11. CASE WakeSelf
  BY <1>11 DEF WakeSelf
<1>12. ASSUME NEW k \in Tasks, WakeNotify(k) \/ WakeStore(k) PROVE DropInv'
  BY <1>12 DEF WakeNotify, WakeStore
<1>13. CASE UNCHANGED vars
  BY <1>13 DEF vars
<1> QED
  BY <1>1, <1>2, <1>3, <1>4, <1>5, <1>6, <1>7, <1>8, <1>9, <1>10, <1>11, <1>12, <1>13
  DEF Next, Beat

LEMMA FreeInvStep ==
  ASSUME TypeOK, DropInv, FreeInv, ProgressInv, [Next]_vars
  PROVE  FreeInv'
<1>0. TaskTypes /\ PlaceTypes /\ BoolTypes
  BY TypeParts
<1> USE <1>0, StaticAssumption DEF FreeInv, taskVars, countVars, beatVars, fixedVars, TaskTypes
<1>1. CASE User
  BY <1>1 DEF User, Suspend, Resume, Restart, Cancel, SetStop, UserMayAct, DropInv
<1>2. CASE Lock
  BY <1>2 DEF Lock, LockFirst, LockPanics, LockAgain
<1>3. CASE InitStep
  BY <1>3 DEF InitStep, InitDropsTask, InitTask, InitDone, DropTask
<1>4. CASE PollStart \/ DropWheel
  BY <1>4 DEF PollStart, DropWheel, BeginDispose, Release
<1>5. CASE Dispose
  BY <1>5 DEF Dispose, DisposeDropsTask, DisposeTask, DisposeDone, Release, ProgressInv, Tasks
<1>6. CASE Skip \/ VisitCancelled \/ CancelDone \/ VisitRestart \/ RestartSuspendedDone
  BY <1>6 DEF Skip, VisitCancelled, CancelDone, DecUnfinished, VisitRestart,
              RestartSuspendedDone, Visiting, Visit, Leave
<1>7. CASE PollTask \/ CreatePanics \/ PollDropped \/ ReadyDone
  BY <1>7 DEF PollTask, CreatePanics, PollDropped, ReadyDone, DecUnfinished, Turn, Visiting,
              Visit, Leave
<1>8. CASE BeatAgain \/ RegisterWaker \/ Finish \/ Wait
  BY <1>8 DEF BeatAgain, RegisterWaker, Finish, Wait, BeatDone, Leave
<1>9. CASE TaskReturns
  BY <1>9 DEF TaskReturns, TaskPending, TaskReady, TaskPanics, Visit, Leave
<1>10. CASE DropEnds
  BY <1>10 DEF DropEnds, DropReturns, DropPanicsInPoll, DropPanicsInInit, DropPanicsInDispose,
               BeginDispose, Release, Leave, Polling
<1>11. CASE WakeSelf
  BY <1>11 DEF WakeSelf
<1>12. ASSUME NEW k \in Tasks, WakeNotify(k) \/ WakeStore(k) PROVE FreeInv'
  BY <1>12 DEF WakeNotify, WakeStore
<1>13. CASE UNCHANGED vars
  BY <1>13 DEF vars
<1> QED
  BY <1>1, <1>2, <1>3, <1>4, <1>5, <1>6, <1>7, <1>8, <1>9, <1>10, <1>11, <1>12, <1>13
  DEF Next, Beat

LEMMA ProgressInvStep ==
  ASSUME TypeOK, DropInv, FreeInv, ProgressInv, [Next]_vars
  PROVE  ProgressInv'
<1>0. TaskTypes /\ PlaceTypes /\ BoolTypes
  BY TypeParts
<1> USE <1>0, StaticAssumption DEF ProgressInv, taskVars, beatVars, TaskTypes, StartReason
<1>1. CASE User
  BY <1>1 DEF User, Suspend, Resume, Restart, Cancel, SetStop, UserMayAct, FreeInv
<1>2. CASE Lock
  BY <1>2 DEF Lock, LockFirst, LockPanics, LockAgain, Tasks
<1>3. CASE InitStep
  <2>1. CASE InitDropsTask
    BY <2>1 DEF InitDropsTask, DropTask
  <2>2. CASE InitTask
    <3>1. cursor \in Tasks /\ cursor' = cursor + 1 /\ pc' = "init" /\ pc = "init"
      BY <2>2 DEF InitTask, PlaceTypes, Tasks
    <3>2. \A k \in Tasks : k < cursor + 1 => k < cursor \/ k = cursor
      BY <3>1 DEF Tasks
    <3> QED BY <2>2, <3>1, <3>2 DEF InitTask
  <2>3. CASE InitDone
    BY <2>3 DEF InitDone
  <2> QED BY <1>3, <2>1, <2>2, <2>3 DEF InitStep
<1>4. CASE PollStart \/ DropWheel
  <2>1. pc' # "init" /\ (pc' = "dispose" => cursor' = 0)
    BY <1>4 DEF PollStart, DropWheel, BeginDispose, Release
  <2> QED BY <2>1 DEF Tasks
<1>5. CASE Dispose
  <2>1. CASE DisposeDropsTask
    BY <2>1 DEF DisposeDropsTask, DropTask
  <2>2. CASE DisposeTask
    <3>1. cursor \in Tasks /\ cursor' = cursor + 1 /\ pc' = "dispose" /\ pc = "dispose"
      BY <2>2 DEF DisposeTask, PlaceTypes, Tasks
    <3>2. \A k \in Tasks : k < cursor + 1 => k < cursor \/ k = cursor
      BY <3>1 DEF Tasks
    <3> QED BY <2>2, <3>1, <3>2 DEF DisposeTask
  <2>3. CASE DisposeDone
    BY <2>3 DEF DisposeDone, Release
  <2> QED BY <1>5, <2>1, <2>2, <2>3 DEF Dispose
<1>6. CASE Skip \/ VisitCancelled \/ CancelDone \/ VisitRestart \/ RestartSuspendedDone
  BY <1>6 DEF Skip, VisitCancelled, CancelDone, DecUnfinished, VisitRestart,
              RestartSuspendedDone, Visiting, Visit, Leave
<1>7. CASE PollTask \/ CreatePanics \/ PollDropped \/ ReadyDone
  BY <1>7 DEF PollTask, CreatePanics, PollDropped, ReadyDone, DecUnfinished, Turn, Visiting,
              Visit, Leave
<1>8. CASE BeatAgain \/ RegisterWaker \/ Finish \/ Wait
  BY <1>8 DEF BeatAgain, RegisterWaker, Finish, Wait, BeatDone, Leave
<1>9. CASE TaskReturns
  BY <1>9 DEF TaskReturns, TaskPending, TaskReady, TaskPanics, Visit, Leave
<1>10. CASE DropEnds
  <2>1. CASE DropReturns
    BY <2>1 DEF DropReturns
  <2>2. CASE DropPanicsInPoll
    BY <2>2 DEF DropPanicsInPoll, Leave
  <2>3. CASE DropPanicsInInit
    <3>1. pc' # "init" /\ (pc' = "dispose" => cursor' = 0)
      BY <2>3 DEF DropPanicsInInit, BeginDispose, Release
    <3> QED BY <3>1 DEF Tasks
  <2>4. CASE DropPanicsInDispose
    <3>1. cursor \in Tasks /\ pc = "dispose" /\ flag[cursor] # "Created"
      BY <2>4 DEF DropPanicsInDispose, PlaceTypes, DropInv
    <3>2. /\ pc' = "aborted" \/ (pc' = pc /\ cursor' = cursor + 1)
          /\ flag' = flag
      BY <2>4 DEF DropPanicsInDispose
    <3>3. \A k \in Tasks : k < cursor + 1 => k < cursor \/ k = cursor
      BY <3>1 DEF Tasks
    <3> QED BY <3>1, <3>2, <3>3
  <2> QED BY <1>10, <2>1, <2>2, <2>3, <2>4 DEF DropEnds
<1>11. CASE WakeSelf
  BY <1>11 DEF WakeSelf
<1>12. ASSUME NEW k \in Tasks, WakeNotify(k) \/ WakeStore(k) PROVE ProgressInv'
  BY <1>12 DEF WakeNotify, WakeStore
<1>13. CASE UNCHANGED vars
  BY <1>13 DEF vars
<1> QED
  BY <1>1, <1>2, <1>3, <1>4, <1>5, <1>6, <1>7, <1>8, <1>9, <1>10, <1>11, <1>12, <1>13
  DEF Next, Beat

LEMMA PollInvStep ==
  ASSUME TypeOK, DropInv, FreeInv, PollInv, [Next]_vars
  PROVE  PollInv'
<1>0. TaskTypes /\ PlaceTypes /\ BoolTypes
  BY TypeParts
<1> USE <1>0 DEF PollInv, WakerNotLost, wakeVars, beatVars, BoolTypes
<1>1. CASE User
  BY <1>1 DEF User, Suspend, Resume, Restart, Cancel, SetStop
<1>2. CASE Lock
  BY <1>2 DEF Lock, LockFirst, LockPanics, LockAgain, FreeInv
<1>3. CASE InitStep
  BY <1>3 DEF InitStep, InitDropsTask, InitTask, InitDone, FreeInv
<1>4. CASE PollStart \/ DropWheel
  BY <1>4 DEF PollStart, DropWheel, BeginDispose, Release
<1>5. CASE Dispose
  BY <1>5 DEF Dispose, DisposeDropsTask, DisposeTask, DisposeDone, Release
<1>6. CASE Skip \/ VisitCancelled \/ CancelDone \/ VisitRestart \/ RestartSuspendedDone
  BY <1>6 DEF Skip, VisitCancelled, CancelDone, DecUnfinished, VisitRestart,
              RestartSuspendedDone, Visiting, Visit, Leave
<1>7. CASE PollTask \/ CreatePanics \/ PollDropped \/ ReadyDone
  BY <1>7 DEF PollTask, CreatePanics, PollDropped, ReadyDone, DecUnfinished, Turn, Visiting,
              Visit, Leave
<1>8. CASE BeatAgain \/ RegisterWaker \/ Finish \/ Wait
  BY <1>8 DEF BeatAgain, RegisterWaker, Finish, Wait, BeatDone, NewBeat, Leave
<1>9. CASE TaskReturns
  BY <1>9 DEF TaskReturns, TaskPending, TaskReady, TaskPanics, Visit, Leave
<1>10. CASE DropEnds
  BY <1>10 DEF DropEnds, DropReturns, DropPanicsInPoll, DropPanicsInInit, DropPanicsInDispose,
               BeginDispose, Release, Leave
<1>11. CASE WakeSelf
  BY <1>11 DEF WakeSelf, NotifyWake
<1>12. ASSUME NEW k \in Tasks, WakeNotify(k) \/ WakeStore(k) PROVE PollInv'
  BY <1>12 DEF WakeNotify, WakeStore, NotifyWake
<1>13. CASE UNCHANGED vars
  BY <1>13 DEF vars
<1> QED
  BY <1>1, <1>2, <1>3, <1>4, <1>5, <1>6, <1>7, <1>8, <1>9, <1>10, <1>11, <1>12, <1>13
  DEF Next, Beat
----------------------------------------------------------------------------
(* The counters.                                                           *)

CountsOK == CountTypes /\ CountInv

(* Steps that change neither a stop reason nor a counter.                  *)
LEMMA QuietCounts ==
  ASSUME CountsOK, UNCHANGED <<stop, unfinished_count, suspended_count, clean>>,
         pc' \in Active \cup {"dispose"} \/ (pc' = "free" /\ unfinished_count # 0) =>
           pc \in Active \cup {"dispose"} \/ (pc = "free" /\ unfinished_count # 0),
         pc' \in Active => pc \in Active /\ (pc' = "cancel" => pc = "cancel" \/ ~ clean),
         pc' \in {"restart", "restartsuspended", "poll", "ready"} => stop[cursor'] # "Finished"
  PROVE  CountsOK'
<1>1. /\ Cardinality(SuspendedTasks)' = Cardinality(SuspendedTasks)
      /\ Cardinality(UnfinishedTasks)' = Cardinality(UnfinishedTasks)
  BY DEF SuspendedTasks, UnfinishedTasks
<1>2. CountTypes'
  BY DEF CountsOK, CountTypes
<1>3. Covered' /\ CleanInv'
  BY <1>1 DEF CountsOK, CountInv, Covered, CleanInv
<1> QED BY <1>1, <1>2, <1>3 DEF CountsOK, CountInv

(* A balance of four integers, solved for the first.                       *)
LEMMA Balance ==
  ASSUME NEW a \in Int, NEW b \in Int, NEW c \in Int, NEW d \in Int, a + b = c + d
  PROVE  a = c + d - b
OBVIOUS

(* Steps that change one stop reason, and the counters with it.            *)
LEMMA ReasonCounts ==
  ASSUME TypeOK, CountsOK,
         NEW k \in Tasks, NEW r \in Reasons, stop' = [stop EXCEPT ![k] = r],
         CountTypes',
         pc \in Active \cup {"dispose"}, pc' # "free", pc' # "cancel" \/ ~ clean',
         pc' \in Active => pc \in Active,
         pc' \in {"restart", "restartsuspended", "poll", "ready"} => stop'[cursor'] # "Finished",
         suspended_count' + Sus(stop[k]) >= suspended_count + Sus(r),
         (clean' /\ pc' \in Active) => clean /\ r # "Cancelled",
         (clean' /\ pc \in Active) =>
           /\ unfinished_count' + Unf(stop[k]) = unfinished_count + Unf(r)
           /\ suspended_count' + Sus(stop[k]) = suspended_count + Sus(r)
  PROVE  CountsOK'
<1> DEFINE S == Cardinality(SuspendedTasks)
           U == Cardinality(UnfinishedTasks)
<1>1. /\ Cardinality(SuspendedTasks)' = S + Sus(r) - Sus(stop[k])
      /\ Cardinality(UnfinishedTasks)' = U + Unf(r) - Unf(stop[k])
  BY StopChange
<1>2. /\ S \in Int /\ U \in Int
      /\ suspended_count \in Int /\ unfinished_count \in Int
      /\ suspended_count' \in Int /\ unfinished_count' \in Int
  BY TasksFinite, StaticAssumption DEF CountsOK, CountTypes
<1>3. Sus(r) \in Int /\ Sus(stop[k]) \in Int /\ Unf(r) \in Int /\ Unf(stop[k]) \in Int
  BY DEF Sus, Unf
<1>4. Covered'
  <2>1. suspended_count >= S
    BY DEF CountsOK, CountInv, Covered
  <2>2. suspended_count' >= S + Sus(r) - Sus(stop[k])
    BY <1>2, <1>3, <2>1
  <2> QED BY <1>1, <2>2 DEF Covered
<1>5. CleanInv'
  BY DEF CountsOK, CountInv, CleanInv, TypeOK
<1>6. ASSUME clean', pc' \in Active
      PROVE  /\ unfinished_count' = Cardinality(UnfinishedTasks)'
             /\ suspended_count' = Cardinality(SuspendedTasks)'
  <2>1. unfinished_count = U /\ suspended_count = S
    BY <1>6 DEF CountsOK, CountInv
  <2>2. unfinished_count' + Unf(stop[k]) = unfinished_count + Unf(r)
    BY <1>6
  <2>3. unfinished_count' = unfinished_count + Unf(r) - Unf(stop[k])
    BY <1>2, <1>3, <2>2, Balance
  <2>4. suspended_count' + Sus(stop[k]) = suspended_count + Sus(r)
    BY <1>6
  <2>5. suspended_count' = suspended_count + Sus(r) - Sus(stop[k])
    BY <1>2, <1>3, <2>4, Balance
  <2> QED BY <1>1, <2>1, <2>3, <2>5
<1> QED BY <1>4, <1>5, <1>6 DEF CountsOK, CountInv

(* Handles are used while the suspended tasks are covered.                 *)
LEMMA UserCovered ==
  ASSUME DropInv, FreeInv, UserMayAct
  PROVE  pc \in (Active \cup {"dispose"}) \ {"cancel"} \/ (pc = "cancel" /\ dropping)
BY DEF DropInv, FreeInv, UserMayAct, Active, Polling

(* The calls on a handle keep the counters right.                          *)
LEMMA UserCounts ==
  ASSUME TypeOK, CountsOK, DropInv, FreeInv, User
  PROVE  CountsOK'
<1>0. TaskTypes /\ PlaceTypes /\ BoolTypes
  BY TypeParts
<1>1. PICK k \in Tasks : Suspend(k) \/ Resume(k) \/ Restart(k) \/ Cancel(k)
  BY DEF User
<1>2. pc' = pc /\ cursor' = cursor /\ pc \in Active \cup {"dispose"}
  <2>1. pc' = pc /\ cursor' = cursor /\ UserMayAct
    BY <1>1 DEF Suspend, Resume, Restart, Cancel, SetStop, beatVars
  <2>2. pc \in Active \cup {"dispose"}
    BY <2>1, UserCovered DEF Active, Polling
  <2> QED BY <2>1, <2>2
<1>3. pc \in {"restart", "restartsuspended", "poll", "ready"} => cursor \in Tasks /\ stop[cursor] # "Finished"
  BY <1>0 DEF PlaceTypes, Polling, CountsOK, CountInv, CleanInv
<1>4. /\ suspended_count \in 0 .. UintMax /\ unfinished_count \in 0 .. UintMax
      /\ UintMax \in Nat /\ stop[k] \in Reasons
      /\ stop[k] \in Suspension => suspended_count >= 1
  <2>1. suspended_count >= Cardinality(SuspendedTasks) /\ Cardinality(SuspendedTasks) \in 0 .. N
    BY <1>2, TasksFinite DEF CountsOK, CountInv, Covered
  <2>2. suspended_count \in 0 .. UintMax /\ unfinished_count \in 0 .. UintMax /\ stop[k] \in Reasons
    BY <1>0 DEF TaskTypes, CountsOK, CountTypes
  <2> QED BY <2>1, <2>2, CountedPositive, StaticAssumption
<1>5. (clean /\ pc \in Active) => /\ stop[k] # "Cancelled"
                                  /\ stop[k] = "Finished" => unfinished_count # UintMax
  BY <1>4, CountedPositive, TasksFinite, StaticAssumption DEF CountsOK, CountInv, CleanInv
<1>6. pc' # "free" /\ (pc' = "cancel" => ~ clean)
  BY <1>2 DEF CountsOK, CountInv, CleanInv, Active, Polling
<1>7. /\ Sus("None") = 0 /\ Sus("Restart") = 0 /\ Sus("Cancelled") = 0
      /\ Sus("Suspended") = 1 /\ Sus("RestartSuspended") = 1
      /\ Sus(stop[k]) = (IF stop[k] \in Suspension THEN 1 ELSE 0)
  BY DEF Sus, Suspension
<1>8. /\ Unf("None") = 1 /\ Unf("Restart") = 1 /\ Unf("Cancelled") = 1
      /\ Unf("Suspended") = 1 /\ Unf("RestartSuspended") = 1
      /\ Unf(stop[k]) = (IF stop[k] = "Finished" THEN 0 ELSE 1)
  BY DEF Unf
<1>9. ASSUME NEW r \in Reasons, stop' = [stop EXCEPT ![k] = r], CountTypes', r # "Finished",
             suspended_count' + Sus(stop[k]) >= suspended_count + Sus(r),
             clean' => clean /\ r # "Cancelled",
             (clean' /\ pc \in Active) =>
               /\ unfinished_count' + Unf(stop[k]) = unfinished_count + Unf(r)
               /\ suspended_count' + Sus(stop[k]) = suspended_count + Sus(r)
      PROVE  CountsOK'
  <2>1. pc' \in {"restart", "restartsuspended", "poll", "ready"} => stop'[cursor'] # "Finished"
    BY <1>0, <1>2, <1>3, <1>9 DEF TaskTypes
  <2> QED BY <1>2, <1>6, <1>9, <2>1, ReasonCounts
<1>10. CASE Suspend(k)
  <2>1. /\ suspended_count' = suspended_count + 1 /\ suspended_count' \in 0 .. UintMax
        /\ unfinished_count' = unfinished_count /\ clean' = clean
    BY <1>4, <1>10 DEF Suspend
  <2>2. CountTypes'
    BY <1>4, <2>1 DEF CountTypes
  <2>3. CASE stop[k] = "None" /\ SetStop(k, "Suspended")
    BY <1>4, <1>7, <1>8, <1>9, <2>1, <2>2, <2>3 DEF SetStop, Reasons
  <2>4. CASE stop[k] = "Restart" /\ SetStop(k, "RestartSuspended")
    BY <1>4, <1>7, <1>8, <1>9, <2>1, <2>2, <2>4 DEF SetStop, Reasons
  <2> QED BY <1>10, <2>3, <2>4 DEF Suspend
<1>11. CASE Resume(k)
  <2>1. /\ stop[k] = "Suspended" /\ stop' = [stop EXCEPT ![k] = "None"]
        /\ suspended_count' = suspended_count - 1 /\ suspended_count' \in 0 .. UintMax
        /\ unfinished_count' = unfinished_count /\ clean' = clean
    BY <1>4, <1>11 DEF Resume, SetStop, Suspension
  <2>2. CountTypes'
    BY <1>4, <2>1 DEF CountTypes
  <2> QED BY <1>4, <1>7, <1>8, <1>9, <2>1, <2>2 DEF Reasons
<1>12. CASE Restart(k)
  <2>1. /\ stop' = [stop EXCEPT ![k] = "Restart"] /\ clean' = clean
        /\ suspended_count' = suspended_count - Sus(stop[k])
    BY <1>7, <1>12 DEF Restart, SetStop
  <2>2. suspended_count' \in 0 .. UintMax /\ suspended_count' + Sus(stop[k]) = suspended_count + Sus("Restart")
    BY <1>4, <1>7, <2>1
  <2>3. /\ unfinished_count' \in 0 .. UintMax
        /\ (clean /\ pc \in Active) => unfinished_count' + Unf(stop[k]) = unfinished_count + Unf("Restart")
    <3>1. CASE stop[k] \in {"Cancelled", "Finished"}
      <4>1. unfinished_count' = (unfinished_count + 1) % (UintMax + 1)
        BY <1>12, <3>1 DEF Restart, IncUnfinished
      <4> QED BY <1>4, <1>5, <1>8, <3>1, <4>1, UnfinishedWraps
    <3>2. CASE stop[k] \notin {"Cancelled", "Finished"}
      BY <1>4, <1>8, <1>12, <3>2 DEF Restart
    <3> QED BY <3>1, <3>2
  <2>4. CountTypes' /\ "Restart" \in Reasons
    BY <2>2, <2>3 DEF CountTypes, Reasons
  <2>5. suspended_count' + Sus(stop[k]) >= suspended_count + Sus("Restart")
    BY <1>4, <1>7, <2>2
  <2> QED BY <1>9, <2>1, <2>2, <2>3, <2>4, <2>5
<1>13. CASE Cancel(k)
  <2>1. /\ stop' = [stop EXCEPT ![k] = "Cancelled"] /\ clean' = FALSE
        /\ suspended_count' = suspended_count - (IF stop[k] = "Suspended" THEN 1 ELSE 0)
        /\ unfinished_count' = unfinished_count
    BY <1>13 DEF Cancel, SetStop
  <2>2. suspended_count' \in 0 .. UintMax
        /\ suspended_count' + Sus(stop[k]) >= suspended_count + Sus("Cancelled")
    BY <1>4, <1>7, <2>1 DEF Suspension
  <2>3. CountTypes' /\ "Cancelled" \in Reasons
    BY <1>4, <2>1, <2>2 DEF CountTypes, Reasons
  <2> QED BY <1>9, <2>1, <2>2, <2>3
<1> QED BY <1>1, <1>10, <1>11, <1>12, <1>13

(* reset(false) of a task: its stop reason becomes None; a suspension that *)
(* it overwrites stays counted.                                            *)
LEMMA ResetCounts ==
  ASSUME TypeOK, CountsOK, cursor \in Tasks, stop[cursor] # "Finished", pc \in Active, Reset,
         UNCHANGED <<unfinished_count, suspended_count>>,
         pc' \in {"beat", "poll", "ready", "idle"},
         pc' \in {"poll", "ready"} => cursor' = cursor
  PROVE  CountsOK'
<1>1. /\ stop' = [stop EXCEPT ![cursor] = "None"]
      /\ clean' = (clean /\ stop[cursor] \notin Suspension)
  BY DEF Reset
<1>2. /\ suspended_count \in 0 .. UintMax /\ unfinished_count \in 0 .. UintMax /\ CountTypes'
      /\ "None" \in Reasons /\ pc' # "free" /\ pc' # "cancel" /\ (clean' => clean)
  BY <1>1 DEF CountsOK, CountTypes, Reasons
<1>3. /\ Sus("None") = 0 /\ Unf("None") = 1 /\ Unf(stop[cursor]) = 1
      /\ Sus(stop[cursor]) \in {0, 1} /\ (clean' => Sus(stop[cursor]) = 0)
  BY <1>1 DEF Sus, Unf, Suspension
<1>4. /\ suspended_count' + Sus(stop[cursor]) >= suspended_count + Sus("None")
      /\ unfinished_count' + Unf(stop[cursor]) = unfinished_count + Unf("None")
      /\ clean' => suspended_count' + Sus(stop[cursor]) = suspended_count + Sus("None")
  BY <1>2, <1>3, StaticAssumption
<1>5. pc' \in {"poll", "ready"} => stop'[cursor'] # "Finished"
  BY <1>1 DEF TypeOK
<1> QED BY <1>1, <1>2, <1>4, <1>5, ReasonCounts

(* The steps of poll_internal keep the counters right.                     *)
LEMMA BeatCounts ==
  ASSUME TypeOK, CountsOK, DropInv, PollStart \/ Beat \/ TaskReturns
  PROVE  CountsOK'
<1>0. TaskTypes /\ PlaceTypes /\ BoolTypes
  BY TypeParts
<1>1. /\ suspended_count \in 0 .. UintMax /\ unfinished_count \in 0 .. UintMax /\ UintMax \in Nat
      /\ suspended_count + Sus("None") >= suspended_count + Sus("None")
  BY StaticAssumption DEF CountsOK, CountTypes, Sus
<1>2. "idle" \in Active /\ Polling \subseteq Active /\ "free" \notin Active /\ "dispose" \notin Active
      /\ "cancel" \in Polling /\ "beat" \in Polling
  BY DEF Active, Polling
<1>3. CASE PollStart \/ BeatAgain \/ RegisterWaker \/ Finish \/ Wait
  <2>1. UNCHANGED <<stop, unfinished_count, suspended_count, clean>> /\ pc \in Active /\ pc' \in {"beat", "idle"}
    BY <1>2, <1>3 DEF PollStart, BeatAgain, RegisterWaker, Finish, Wait, BeatDone, Leave, taskVars, countVars
  <2> QED BY <2>1, QuietCounts
<1>4. CASE Skip \/ TaskPending \/ TaskPanics
  <2>1. UNCHANGED <<stop, unfinished_count, suspended_count, clean>> /\ pc \in Active /\ pc' \in {"beat", "idle"}
    BY <1>2, <1>4 DEF Skip, TaskPending, TaskPanics, Visiting, Visit, Leave, taskVars, countVars, Active, Polling
  <2> QED BY <2>1, QuietCounts
<1>5. CASE TaskReady
  <2>1. /\ UNCHANGED <<stop, unfinished_count, suspended_count, clean>>
        /\ pc = "poll" /\ pc' = "ready" /\ cursor' = cursor /\ stop[cursor] # "Finished" /\ pc \in Active
    BY <1>5 DEF TaskReady, countVars, beatVars, CountsOK, CountInv, CleanInv, Active, Polling
  <2> QED BY <2>1, QuietCounts
<1>6. CASE VisitCancelled
  <2>1. /\ UNCHANGED <<stop, unfinished_count, suspended_count, clean>>
        /\ pc = "beat" /\ pc' = "cancel" /\ pc \in Active /\ cursor \in Tasks /\ stop[cursor] = "Cancelled"
    BY <1>0, <1>2, <1>6, StaticAssumption DEF VisitCancelled, Visiting, countVars, PlaceTypes, Tasks
  <2>2. ~ clean
    BY <2>1 DEF CountsOK, CountInv, CleanInv
  <2> QED BY <2>1, <2>2, QuietCounts
<1>7. CASE CancelDone
  <2>1. pc = "cancel" /\ pc \in Active /\ ~ clean
    BY <1>2, <1>7 DEF CancelDone, CountsOK, CountInv, CleanInv
  <2>2. /\ UNCHANGED <<stop, suspended_count, clean>> /\ pc' \in {"beat", "idle"}
        /\ unfinished_count' \in 0 .. UintMax
    BY <1>1, <1>7, UnfinishedWraps DEF CancelDone, DecUnfinished, Visit, Leave, taskVars
  <2>3. Cardinality(SuspendedTasks)' = Cardinality(SuspendedTasks)
    BY <2>2 DEF SuspendedTasks
  <2>4. suspended_count >= Cardinality(SuspendedTasks)
    BY <2>1 DEF CountsOK, CountInv, Covered
  <2> QED BY <1>1, <2>1, <2>2, <2>3, <2>4 DEF CountsOK, CountTypes, CountInv, Covered, CleanInv
<1>8. CASE VisitRestart
  <2>1. PICK r \in {"None", "Suspended"} :
          /\ stop' = [stop EXCEPT ![cursor] = r]
          /\ stop[cursor] = (IF r = "None" THEN "Restart" ELSE "RestartSuspended")
    BY <1>8 DEF VisitRestart, Visiting
  <2>2. /\ pc = "beat" /\ pc' \in {"restart", "restartsuspended"} /\ cursor \in Tasks /\ cursor' = cursor
        /\ UNCHANGED <<unfinished_count, suspended_count, clean>>
    BY <1>0, <1>8, StaticAssumption DEF VisitRestart, Visiting, countVars, beatVars, PlaceTypes, Tasks
  <2>3. Sus(stop[cursor]) = Sus(r) /\ Unf(stop[cursor]) = Unf(r) /\ Sus(r) \in Int /\ r \in Reasons
    BY <2>1 DEF Sus, Unf, Suspension, Reasons
  <2>4. stop'[cursor'] # "Finished" /\ CountTypes' /\ suspended_count' + Sus(r) >= suspended_count + Sus(r)
    BY <1>0, <1>1, <2>1, <2>2, <2>3 DEF TaskTypes, CountTypes
  <2> QED BY <1>2, <2>1, <2>2, <2>3, <2>4, ReasonCounts
<1>9. CASE RestartSuspendedDone
  <2>1. /\ pc = "restartsuspended" /\ pc' = "beat" /\ cursor \in Tasks
        /\ stop[cursor] # "Finished" /\ Reset /\ pc \in Active
        /\ UNCHANGED <<unfinished_count, suspended_count>>
    BY <1>0, <1>9 DEF RestartSuspendedDone, Visit, PlaceTypes, CountsOK, CountInv, CleanInv, Active, Polling
  <2> QED BY <1>0, <1>1, <1>2, <2>1, ResetCounts
<1>10. CASE PollTask \/ CreatePanics \/ PollDropped
  <2>1. /\ cursor \in Tasks /\ pc' \in {"poll", "ready", "idle"} 
        /\ pc' \in {"poll", "ready"} => cursor' = cursor
        /\ UNCHANGED <<unfinished_count, suspended_count>>
    BY <1>0, <1>10, StaticAssumption
    DEF PollTask, CreatePanics, PollDropped, Turn, Visiting, Leave, PlaceTypes, Tasks, Polling
  <2>2. CASE Visiting("None") /\ UNCHANGED <<stop, clean>>
    <3>1. pc \in Active /\ stop[cursor] = "None"
      BY <1>2, <2>2 DEF Visiting
    <3> QED BY <2>1, <2>2, <3>1, QuietCounts
  <2>3. CASE pc = "restart" /\ Reset
    <3>1. pc \in Active /\ stop[cursor] # "Finished"
      BY <2>3 DEF CountsOK, CountInv, CleanInv, Active, Polling
    <3> QED BY <1>0, <1>1, <1>2, <2>1, <2>3, <3>1, ResetCounts
  <2> QED BY <1>10, <2>2, <2>3 DEF PollTask, CreatePanics, PollDropped, Turn
<1>11. CASE ReadyDone
  <2>1. /\ pc = "ready" /\ pc \in Active /\ cursor \in Tasks /\ stop[cursor] # "Finished"
        /\ stop' = [stop EXCEPT ![cursor] = "Finished"]
        /\ clean' = (clean /\ stop[cursor] \notin Suspension)
        /\ suspended_count' = suspended_count /\ pc' \in {"beat", "idle"}
    BY <1>0, <1>11 DEF ReadyDone, DecUnfinished, Visit, Leave, PlaceTypes, CountsOK, CountInv,
                       CleanInv, Active, Polling
  <2>2. unfinished_count' \in 0 .. UintMax
    BY <1>1, <1>11, UnfinishedWraps DEF ReadyDone, DecUnfinished
  <2>3. ASSUME clean PROVE unfinished_count' + 1 = unfinished_count
    <3>1. unfinished_count = Cardinality(UnfinishedTasks) /\ Cardinality(UnfinishedTasks) >= 1
      BY <2>1, <2>3, CountedPositive DEF CountsOK, CountInv
    <3>2. unfinished_count # 0
      BY <1>1, <3>1
    <3>3. unfinished_count' = (unfinished_count + UintMax) % (UintMax + 1)
      BY <1>11, <3>2 DEF ReadyDone, DecUnfinished
    <3> QED BY <1>1, <3>2, <3>3, UnfinishedWraps
  <2>4. /\ Sus("Finished") = 0 /\ Unf("Finished") = 0 /\ Unf(stop[cursor]) = 1
        /\ Sus(stop[cursor]) \in {0, 1} /\ (clean' => Sus(stop[cursor]) = 0)
    BY <2>1 DEF Sus, Unf, Suspension
  <2>5. CountTypes' /\ "Finished" \in Reasons /\ (clean' => clean)
    BY <1>1, <2>1, <2>2 DEF CountTypes, Reasons
  <2>6. /\ suspended_count' + Sus(stop[cursor]) >= suspended_count + Sus("Finished")
        /\ clean' => /\ unfinished_count' + Unf(stop[cursor]) = unfinished_count + Unf("Finished")
                     /\ suspended_count' + Sus(stop[cursor]) = suspended_count + Sus("Finished")
    BY <1>1, <2>1, <2>3, <2>4, <2>5
  <2> QED BY <1>2, <2>1, <2>5, <2>6, ReasonCounts
<1> QED
  BY <1>3, <1>4, <1>5, <1>6, <1>7, <1>8, <1>9, <1>10, <1>11 DEF Beat, TaskReturns

(* A fresh wheel counts its tasks and those that start suspended.          *)
LEMMA FreshCounts ==
  ASSUME \A k \in Tasks : stop'[k] = StartReason(k),
         unfinished_count' = N, suspended_count' = Cardinality(StartSuspended), pc' = "idle"
  PROVE  CountsOK'
<1> USE StaticAssumption
<1>1. SuspendedTasks' = StartSuspended /\ UnfinishedTasks' = Tasks
  BY DEF SuspendedTasks, UnfinishedTasks, StartReason, Suspension
<1>2. Cardinality(Tasks) = N
  BY FS_Interval DEF Tasks
<1>3. Cardinality(SuspendedTasks)' = Cardinality(StartSuspended) /\ Cardinality(UnfinishedTasks)' = N
  BY <1>1, <1>2
<1>4. Cardinality(StartSuspended) \in 0 .. UintMax /\ N \in 0 .. UintMax
  BY TasksFinite
<1>5. \A k \in Tasks : stop'[k] # "Cancelled"
  BY DEF StartReason
<1> QED BY <1>3, <1>4, <1>5 DEF CountsOK, CountTypes, CountInv, Covered, CleanInv

(* dispose cancels a task, without counting.                               *)
LEMMA DisposeCounts ==
  ASSUME TypeOK, CountsOK, pc = "dispose", pc' = "dispose", cursor \in Tasks,
         stop' = [stop EXCEPT ![cursor] = "Cancelled"],
         UNCHANGED <<unfinished_count, suspended_count>>
  PROVE  CountsOK'
<1>1. suspended_count \in 0 .. UintMax /\ unfinished_count \in 0 .. UintMax /\ CountTypes'
      /\ "Cancelled" \in Reasons /\ "dispose" \notin Active
  BY DEF CountsOK, CountTypes, Reasons, Active, Polling
<1>2. Sus("Cancelled") = 0 /\ Sus(stop[cursor]) \in {0, 1}
  BY DEF Sus, Suspension
<1>3. suspended_count' + Sus(stop[cursor]) >= suspended_count + Sus("Cancelled")
  BY <1>1, <1>2, StaticAssumption
<1> QED BY <1>1, <1>3, ReasonCounts

(* lock, init, drop, dispose and the end of a destructor keep the counters *)
(* right.                                                                  *)
LEMMA LockCounts ==
  ASSUME TypeOK, CountsOK, DropInv, FreeInv, ProgressInv,
         Lock \/ InitStep \/ DropWheel \/ Dispose \/ DropEnds
  PROVE  CountsOK'
<1>0. TaskTypes /\ PlaceTypes /\ BoolTypes
  BY TypeParts
<1> USE StaticAssumption DEF taskVars, countVars
<1>1. CASE LockFirst
  <2>1. \A k \in Tasks : stop'[k] = StartReason(k)
    BY <1>1 DEF LockFirst
  <2> QED BY <1>1, <2>1, FreshCounts DEF LockFirst
<1>2. CASE LockPanics
  <2>1. unfinished_count # 0 /\ pc = "free" /\ pc' = "dispose"
        /\ UNCHANGED <<stop, unfinished_count, suspended_count, clean>>
    BY <1>2 DEF LockPanics
  <2> QED BY <2>1, QuietCounts DEF Active, Polling
<1>3. CASE LockAgain \/ InitDropsTask
  <2>1. pc' = "init" /\ UNCHANGED <<stop, unfinished_count, suspended_count, clean>>
    BY <1>3 DEF LockAgain, InitDropsTask
  <2> QED BY <2>1, QuietCounts DEF Active, Polling
<1>4. CASE InitTask
  <2>1. pc' = "init" /\ UNCHANGED <<unfinished_count, suspended_count, clean>>
    BY <1>4 DEF InitTask
  <2> QED BY <2>1 DEF CountsOK, CountTypes, CountInv, Covered, CleanInv, Active, Polling
<1>5. CASE InitDone
  <2>1. \A k \in Tasks : stop'[k] = StartReason(k)
    BY <1>5 DEF InitDone, ProgressInv, Tasks
  <2> QED BY <1>5, <2>1, FreshCounts DEF InitDone
<1>6. CASE DropWheel
  <2>1. /\ pc = "idle" /\ pc' \in {"free", "dispose"}
        /\ UNCHANGED <<stop, unfinished_count, suspended_count, clean>>
    BY <1>6 DEF DropWheel, BeginDispose, Release
  <2> QED BY <2>1, QuietCounts DEF Active, Polling
<1>7. CASE DisposeDropsTask \/ DisposeDone
  <2>1. /\ pc = "dispose" /\ pc' \in {"free", "dispose"}
        /\ UNCHANGED <<stop, unfinished_count, suspended_count, clean>>
    BY <1>7 DEF DisposeDropsTask, DisposeDone, Release
  <2> QED BY <2>1, QuietCounts DEF Active, Polling
<1>8. CASE DisposeTask
  <2>1. /\ pc = "dispose" /\ pc' = "dispose" /\ cursor \in Tasks
        /\ stop' = [stop EXCEPT ![cursor] = "Cancelled"]
        /\ UNCHANGED <<unfinished_count, suspended_count>>
    BY <1>0, <1>8 DEF DisposeTask, PlaceTypes, Tasks
  <2> QED BY <2>1, DisposeCounts
<1>9. CASE DropReturns
  <2>1. /\ pc' = pc /\ cursor' = cursor
        /\ UNCHANGED <<stop, unfinished_count, suspended_count, clean>>
    BY <1>9 DEF DropReturns, beatVars
  <2>2. pc \in {"restart", "restartsuspended", "poll", "ready"} => stop[cursor] # "Finished"
    BY DEF CountsOK, CountInv, CleanInv
  <2> QED BY <2>1, <2>2, QuietCounts
<1>10. CASE DropPanicsInPoll
  <2>1. /\ pc \in Active /\ pc' = "idle"
        /\ UNCHANGED <<stop, unfinished_count, suspended_count, clean>>
    BY <1>10 DEF DropPanicsInPoll, Leave, Active
  <2> QED BY <2>1, QuietCounts
<1>11. CASE DropPanicsInInit
  <2>1. /\ pc' = "free" /\ unfinished_count = 0
        /\ UNCHANGED <<stop, unfinished_count, suspended_count, clean>>
    BY <1>11 DEF DropPanicsInInit, BeginDispose, Release, DropInv
  <2> QED BY <2>1, QuietCounts DEF Active, Polling
<1>12. CASE DropPanicsInDispose
  <2>1. /\ pc = "dispose" /\ cursor \in Tasks
        /\ UNCHANGED <<unfinished_count, suspended_count, clean>>
        /\ \/ pc' = pc /\ stop' = [stop EXCEPT ![cursor] = "Cancelled"]
           \/ pc' = "aborted" /\ stop' = stop
    BY <1>0, <1>12 DEF DropPanicsInDispose, PlaceTypes
  <2>2. CASE pc' = pc /\ stop' = [stop EXCEPT ![cursor] = "Cancelled"]
    BY <2>1, <2>2, DisposeCounts
  <2>3. CASE pc' = "aborted" /\ stop' = stop
    BY <2>1, <2>3, QuietCounts DEF Active, Polling
  <2> QED BY <2>1, <2>2, <2>3
<1> QED
  BY <1>1, <1>2, <1>3, <1>4, <1>5, <1>6, <1>7, <1>8, <1>9, <1>10, <1>11, <1>12
  DEF Lock, InitStep, Dispose, DropEnds

(* A wake, and a step of something else, leaves the counters alone.        *)
LEMMA WakeCounts ==
  ASSUME CountsOK,
         WakeSelf \/ (\E k \in Tasks : WakeNotify(k) \/ WakeStore(k)) \/ UNCHANGED vars
  PROVE  CountsOK'
<1>1. /\ pc' = pc /\ cursor' = cursor
      /\ UNCHANGED <<stop, unfinished_count, suspended_count, clean>>
  BY DEF WakeSelf, WakeNotify, WakeStore, vars, taskVars, countVars, beatVars
<1>2. pc \in {"restart", "restartsuspended", "poll", "ready"} => stop[cursor] # "Finished"
  BY DEF CountsOK, CountInv, CleanInv
<1> QED BY <1>1, <1>2, QuietCounts
----------------------------------------------------------------------------
LEMMA InitIInv == Init => IInv
<1> SUFFICES ASSUME Init PROVE IInv
  OBVIOUS
<1> USE StaticAssumption DEF Init
<1>1. TypeOK
  <2>1. TaskTypes
    BY DEF TaskTypes, Reasons
  <2>2. PlaceTypes
    BY DEF PlaceTypes, Polling
  <2>3. BoolTypes
    BY DEF BoolTypes
  <2>4. CountTypes
    BY DEF CountTypes
  <2> QED BY <2>1, <2>2, <2>3, <2>4, TypeParts
<1>2. DropInv /\ ProgressInv
  BY DEF DropInv, ProgressInv
<1>3. FreeInv
  BY DEF FreeInv
<1>4. PollInv
  BY DEF PollInv, WakerNotLost
<1>5. CountInv
  <2>1. SuspendedTasks = {}
    BY DEF SuspendedTasks, Suspension
  <2>2. Cardinality(SuspendedTasks) = 0
    BY <2>1, FS_EmptySet
  <2> QED BY <2>2 DEF CountInv, Covered, CleanInv, Active, Polling
<1> QED BY <1>1, <1>2, <1>3, <1>4, <1>5 DEF IInv

LEMMA NextIInv == IInv /\ [Next]_vars => IInv'
<1> SUFFICES ASSUME IInv, [Next]_vars PROVE IInv'
  OBVIOUS
<1>1. TypeOK /\ DropInv /\ FreeInv /\ ProgressInv /\ PollInv /\ CountInv
  BY DEF IInv
<1>2. TaskTypes /\ PlaceTypes /\ BoolTypes /\ CountsOK
  BY <1>1, TypeParts DEF CountsOK
<1>3. CountsOK'
  BY <1>1, <1>2, UserCounts, BeatCounts, LockCounts, WakeCounts DEF Next
<1>4. TaskTypes' /\ PlaceTypes' /\ BoolTypes'
  BY <1>1, <1>2, TaskTypesStep, PlaceTypesStep, BoolTypesStep
<1>5. TypeOK'
  <2>1. CountTypes'
    BY <1>3 DEF CountsOK
  <2> QED BY <1>4, <2>1 DEF TypeOK, TaskTypes, PlaceTypes, BoolTypes, CountTypes
<1>6. DropInv' /\ FreeInv' /\ ProgressInv' /\ PollInv'
  BY <1>1, DropInvStep, FreeInvStep, ProgressInvStep, PollInvStep
<1> QED BY <1>3, <1>5, <1>6 DEF IInv, CountsOK

LEMMA IInvInvariant == Spec => []IInv
BY InitIInv, NextIInv, PTL DEF Spec
----------------------------------------------------------------------------
(* Every variable of the static scheduler keeps its type: resume, restart  *)
(* and cancel never take suspended_count below zero, with handles used at  *)
(* any point of a beat and destructors that panic.  (Increments past       *)
(* usize::MAX are excluded by the bounds of the actions.)                  *)
THEOREM StaticTyping == Spec => []TypeOK
<1>1. IInv => TypeOK
  BY DEF IInv
<1> QED BY <1>1, IInvInvariant, PTL

(* suspended_count covers the suspended tasks whenever a handle may be     *)
(* used, so that dec_suspended never underflows.                           *)
THEOREM StaticSuspendedCovered == Spec => []SuspendedCovered
<1>1. IInv => SuspendedCovered
  BY DEF IInv, CountInv, Covered, SuspendedCovered, SuspendedTasks, Active
<1> QED BY <1>1, IInvInvariant, PTL

(* While no task was cancelled and no suspension overwritten,              *)
(* unfinished_count and suspended_count are the numbers of unfinished and  *)
(* of suspended tasks, also after restarts, panics and earlier locks.      *)
THEOREM StaticCountsExact == Spec => []CountsExact
<1>1. IInv => CountsExact
  BY DEF IInv, CountInv, CountsExact, SuspendedTasks, UnfinishedTasks, Active
<1> QED BY <1>1, IInvInvariant, PTL

(* A static wheel that returned Pending has its executor's waker           *)
(* registered, or the waker ran since.                                     *)
THEOREM StaticWakerNotLost == Spec => []WakerNotLost
<1>1. IInv => WakerNotLost
  BY DEF IInv, PollInv
<1> QED BY <1>1, IInvInvariant, PTL

(* When the lock is free again every future was dropped, also when         *)
(* destructors panicked in dispose, unless unfinished_count was zero.      *)
THEOREM StaticDisposedClean == Spec => []DisposedClean
<1>1. IInv => DisposedClean
  BY DEF IInv, FreeInv, DisposedClean
<1> QED BY <1>1, IInvInvariant, PTL
(* A lock that succeeds, the first one or one that init completed, leaves  *)
(* every task without a future, runnable and with the stop reason it was   *)
(* declared with, both counters exact, and no current task.                *)
LEMMA LockEndsFresh ==
  ASSUME IInv, Next, pc \in {"free", "init"}, pc' = "idle"
  PROVE  Pristine'
<1>1. TypeOK /\ DropInv /\ FreeInv /\ ProgressInv /\ PollInv
  BY DEF IInv
<1>2. TaskTypes /\ PlaceTypes /\ BoolTypes
  BY <1>1, TypeParts
<1>3. current' = NoTask /\ current = NoTask /\ (LockFirst \/ InitDone)
  <2>1. current = NoTask
    BY <1>1 DEF PollInv
  <2>2. LockFirst \/ InitDone
    BY DEF Next, User, Suspend, Resume, Restart, Cancel, SetStop, Lock, LockPanics, LockAgain,
           InitStep, InitDropsTask, InitTask, PollStart, DropWheel, Dispose, DisposeDropsTask,
           DisposeTask, DisposeDone, Beat, Skip, Visiting, Visit, VisitCancelled, CancelDone,
           VisitRestart, RestartSuspendedDone, PollTask, CreatePanics, PollDropped, Turn,
           ReadyDone, BeatDone, BeatAgain, RegisterWaker, Finish, Wait, TaskReturns, TaskPending,
           TaskReady, TaskPanics, DropEnds, DropReturns, DropPanicsInPoll, DropPanicsInInit,
           DropPanicsInDispose, BeginDispose, Release, WakeSelf, WakeNotify, WakeStore, Polling
  <2> QED BY <2>1, <2>2 DEF LockFirst, InitDone
<1>4. ASSUME stop' = [k \in Tasks |-> StartReason(k)]
      PROVE  {k \in Tasks : stop'[k] = "Suspended"} = StartSuspended
  BY <1>4, StaticAssumption DEF StartReason
<1>5. CASE LockFirst
  <2>1. flag' = [k \in Tasks |-> "Uninit"]
    BY <1>1, <1>2, <1>5 DEF LockFirst, FreeInv, TaskTypes
  <2> QED BY <1>3, <1>4, <1>5, <2>1 DEF LockFirst, Pristine
<1>6. CASE InitDone
  <2>1. \A k \in Tasks : k < cursor
    BY <1>6, StaticAssumption DEF InitDone, Tasks
  <2>2. \A k \in Tasks : flag[k] = "Uninit" /\ runnable[k] /\ stop[k] = StartReason(k)
    BY <1>1, <1>6, <2>1 DEF InitDone, ProgressInv
  <2>3. flag' = [k \in Tasks |-> "Uninit"] /\ stop' = [k \in Tasks |-> StartReason(k)]
    BY <1>2, <1>6, <2>2 DEF InitDone, taskVars, TaskTypes
  <2>4. runnable' = [k \in Tasks |-> TRUE]
    BY <1>2, <1>6, <2>2, Zenon DEF InitDone, taskVars, TaskTypes
  <2> QED BY <1>3, <1>4, <1>6, <2>3, <2>4 DEF InitDone, Pristine
<1> QED BY <1>3, <1>5, <1>6

(* Whatever happened before, a lock that succeeds hands out a fresh wheel. *)
THEOREM StaticLockIsFresh == Spec => LockIsFresh
<1>1. IInv /\ [Next]_vars => [(pc \in {"free", "init"} /\ pc' = "idle") => Pristine']_vars
  BY LockEndsFresh
<1> QED BY <1>1, IInvInvariant, PTL DEF Spec, LockIsFresh
----------------------------------------------------------------------------
(* What the wheel's future tells its executor at the end of a poll is what *)
(* the tasks' stop reasons say.                                            *)
VerdictIsExact ==
  /\ result' = "ReadyOk" <=> \A k \in Tasks : stop[k] = "Finished"
  /\ result' = "ReadyErr" <=> /\ \E k \in Tasks : stop[k] # "Finished"
                              /\ \A k \in Tasks : stop[k] \in Suspension \cup {"Finished"}
  /\ result' = "Pending" <=> \E k \in Tasks : stop[k] \notin Suspension \cup {"Finished"}

(* Only Finish and Wait end a poll at the end of a beat.                   *)
LEMMA BeatEnds ==
  ASSUME TypeOK, DropInv, Next, BeatDone, pc' = "idle"
  PROVE  Finish \/ Wait
<1>1. pc = "beat" /\ cursor = N /\ ~ dropping
  BY DEF BeatDone, DropInv
<1>2. ~ (cursor < N)
  BY <1>1, StaticAssumption
<1> QED
  BY <1>1, <1>2
  DEF Next, User, Suspend, Resume, Restart, Cancel, UserMayAct, Lock, LockFirst, LockPanics,
      LockAgain, InitStep, InitDropsTask, InitTask, InitDone, PollStart, DropWheel, Dispose,
      DisposeDropsTask, DisposeTask, DisposeDone, Beat, Skip, Visiting, VisitCancelled,
      CancelDone, VisitRestart, RestartSuspendedDone, PollTask, CreatePanics, PollDropped, Turn,
      ReadyDone, BeatAgain, RegisterWaker, TaskReturns, TaskPending, TaskReady, TaskPanics,
      DropEnds, DropReturns, DropPanicsInPoll, DropPanicsInInit, DropPanicsInDispose, WakeSelf,
      WakeNotify, WakeStore

(* Comparing the two counters, when they are exact, compares the two sets: *)
(* the suspended tasks are among the unfinished ones.                      *)
LEMMA CountsDecide ==
  /\ Cardinality(UnfinishedTasks) = 0 <=> \A k \in Tasks : stop[k] = "Finished"
  /\ Cardinality(UnfinishedTasks) = Cardinality(SuspendedTasks) <=>
       \A k \in Tasks : stop[k] \in Suspension \cup {"Finished"}
<1>1. /\ IsFiniteSet(UnfinishedTasks) /\ IsFiniteSet(SuspendedTasks)
      /\ Cardinality(UnfinishedTasks) \in Nat
  BY TasksFinite, StaticAssumption
<1>2. UnfinishedTasks = {} <=> \A k \in Tasks : stop[k] = "Finished"
  BY DEF UnfinishedTasks
<1>3. SuspendedTasks \subseteq UnfinishedTasks
  BY DEF UnfinishedTasks, SuspendedTasks, Suspension
<1>4. SuspendedTasks = UnfinishedTasks <=>
        \A k \in Tasks : stop[k] \in Suspension \cup {"Finished"}
  BY DEF UnfinishedTasks, SuspendedTasks, Suspension
<1>5. SuspendedTasks # UnfinishedTasks => Cardinality(SuspendedTasks) # Cardinality(UnfinishedTasks)
  BY <1>1, <1>3, FS_Subset
<1> QED BY <1>1, <1>2, <1>4, <1>5, FS_EmptySet

(* poll_internal's verdict is true while no task was cancelled and no      *)
(* suspension overwritten: Ok exactly when every task finished, the error  *)
(* exactly when some are left and all of those are suspended, Pending      *)
(* exactly when a task is neither.                                         *)
THEOREM StaticVerdictExact ==
  Spec => [][(BeatDone /\ pc' = "idle" /\ clean) => VerdictIsExact]_vars
<1>1. ASSUME IInv, Next, BeatDone, pc' = "idle", clean PROVE VerdictIsExact
  <2>1. /\ TypeOK /\ DropInv
        /\ unfinished_count = Cardinality(UnfinishedTasks)
        /\ suspended_count = Cardinality(SuspendedTasks)
    BY <1>1 DEF IInv, CountInv, BeatDone, Active, Polling
  <2>2. Finish \/ Wait
    BY <1>1, <2>1, BeatEnds
  <2>3. /\ result' = "ReadyOk" <=> unfinished_count = 0
        /\ result' = "ReadyErr" <=> unfinished_count # 0 /\ unfinished_count = suspended_count
        /\ result' = "Pending" <=> unfinished_count # 0 /\ unfinished_count # suspended_count
    BY <2>2 DEF Finish, Wait, Leave
  <2> QED BY <2>1, <2>3, CountsDecide DEF VerdictIsExact
<1>2. IInv /\ [Next]_vars =>
        [(BeatDone /\ pc' = "idle" /\ clean) => VerdictIsExact]_vars
  BY <1>1
<1> QED BY <1>2, IInvInvariant, PTL DEF Spec
----------------------------------------------------------------------------
(* Without StaticHandle::cancel.  The counter of unfinished tasks is then  *)
(* exact also when suspensions are overwritten (the history need not be    *)
(* clean), no visit finds a cancelled task, and the counter never reaches  *)
(* the mark "never initialized".                                           *)
NoCancel == \A k \in Tasks : ~ Cancel(k)

UncancelledInv ==
  /\ pc \in Active => /\ unfinished_count = Cardinality(UnfinishedTasks)
                      /\ pc # "cancel" /\ \A k \in Tasks : stop[k] # "Cancelled"
  /\ inited => unfinished_count # UintMax

(* Steps that change no stop reason and no counter.                        *)
LEMMA UncancelledQuiet ==
  ASSUME UncancelledInv, UNCHANGED <<stop, unfinished_count>>, inited' = inited,
         pc' \in Active => pc \in Active /\ (pc' = "cancel" => pc = "cancel")
  PROVE  UncancelledInv'
<1>1. Cardinality(UnfinishedTasks)' = Cardinality(UnfinishedTasks)
  BY DEF UnfinishedTasks
<1> QED BY <1>1 DEF UncancelledInv

(* There are N tasks.                                                      *)
LEMMA TaskCount == IsFiniteSet(Tasks) /\ Cardinality(Tasks) = N
BY FS_Interval, StaticAssumption DEF Tasks

(* Steps of a wheel in use that change one stop reason, and the counter    *)
(* with it.                                                                *)
LEMMA UncancelledReason ==
  ASSUME TypeOK, UncancelledInv,
         NEW k \in Tasks, NEW r \in Reasons, stop' = [stop EXCEPT ![k] = r],
         pc \in Active, pc' # "cancel", r # "Cancelled", unfinished_count' \in Int,
         unfinished_count' + Unf(stop[k]) = unfinished_count + Unf(r)
  PROVE  UncancelledInv'
<1>1. Cardinality(UnfinishedTasks)' = Cardinality(UnfinishedTasks) + Unf(r) - Unf(stop[k])
  BY StopChange
<1>2. unfinished_count = Cardinality(UnfinishedTasks) /\ unfinished_count \in Int
      /\ Unf(r) \in Int /\ Unf(stop[k]) \in Int
  BY StaticAssumption DEF UncancelledInv, TypeOK, Unf
<1>3. unfinished_count' = Cardinality(UnfinishedTasks)'
  BY <1>1, <1>2, Balance
<1>4. Cardinality(UnfinishedTasks') \in 0 .. N
  <2>1. UnfinishedTasks' \in SUBSET Tasks
    BY DEF UnfinishedTasks
  <2>2. /\ IsFiniteSet(UnfinishedTasks')
        /\ Cardinality(UnfinishedTasks') <= N
    BY <2>1, TaskCount, FS_Subset
  <2>3. Cardinality(UnfinishedTasks') \in Nat
    BY <2>2, FS_CardinalityType
  <2> QED BY <2>2, <2>3, StaticAssumption
<1>5. unfinished_count' # UintMax
  BY <1>3, <1>4, StaticAssumption
<1>6. \A j \in Tasks : stop'[j] # "Cancelled"
  BY DEF UncancelledInv, TypeOK
<1> QED BY <1>3, <1>5, <1>6 DEF UncancelledInv

(* The calls on a handle other than cancel.                                *)
LEMMA UncancelledUser ==
  ASSUME TypeOK, DropInv, FreeInv, UncancelledInv, User, NoCancel
  PROVE  UncancelledInv'
<1>1. PICK k \in Tasks : Suspend(k) \/ Resume(k) \/ Restart(k)
  BY DEF User, NoCancel
<1>2. pc' = pc /\ inited' = inited /\ UserMayAct
  BY <1>1 DEF Suspend, Resume, Restart, SetStop, fixedVars
<1>3. pc \in Active \cup {"dispose"}
  BY <1>2, UserCovered DEF Active, Polling
<1>4. unfinished_count \in 0 .. UintMax /\ UintMax \in Nat /\ stop[k] \in Reasons
  BY StaticAssumption DEF TypeOK
<1>5. unfinished_count' \in 0 .. UintMax /\ (inited => unfinished_count' # UintMax)
  <2>1. CASE UNCHANGED unfinished_count
    BY <1>4, <2>1 DEF UncancelledInv
  <2>2. CASE IncUnfinished
    <3>1. CASE unfinished_count = UintMax
      BY <1>2, <1>4, <2>2, <3>1, UnfinishedWraps DEF IncUnfinished, UncancelledInv, FreeInv, UserMayAct, DropInv
    <3>2. CASE unfinished_count # UintMax
      BY <1>4, <2>2, <3>2, UnfinishedWraps DEF IncUnfinished
    <3> QED BY <3>1, <3>2
  <2> QED BY <1>1, <2>1, <2>2 DEF Suspend, Resume, Restart
<1>6. CASE pc = "dispose"
  BY <1>2, <1>5, <1>6 DEF UncancelledInv, Active, Polling
<1>7. CASE pc \in Active
  <2>1. stop[k] # "Cancelled" /\ pc # "cancel" /\ unfinished_count = Cardinality(UnfinishedTasks)
    BY <1>7 DEF UncancelledInv
  <2>2. PICK r \in {"None", "Suspended", "Restart", "RestartSuspended"} :
          stop' = [stop EXCEPT ![k] = r]
    BY <1>1 DEF Suspend, Resume, Restart, SetStop
  <2>3. r \in Reasons /\ r # "Cancelled" /\ Unf(r) = 1
    BY DEF Reasons, Unf
  <2>4. CASE stop[k] = "Finished"
    <3>1. Restart(k) /\ Unf(stop[k]) = 0
      BY <1>1, <2>4 DEF Suspend, Resume, Unf
    <3>2. unfinished_count # UintMax
      BY <2>1, <2>4, CountedPositive, TasksFinite, StaticAssumption
    <3>3. unfinished_count' = unfinished_count + 1
      BY <1>4, <2>4, <3>1, <3>2, UnfinishedWraps DEF Restart, IncUnfinished
    <3>4. unfinished_count' + Unf(stop[k]) = unfinished_count + Unf(r) /\ unfinished_count' \in Int
      BY <1>4, <2>3, <3>1, <3>3
    <3> QED BY <1>2, <1>7, <2>1, <2>2, <2>3, <3>4, UncancelledReason
  <2>5. CASE stop[k] # "Finished"
    <3>1. unfinished_count' = unfinished_count /\ Unf(stop[k]) = 1
      BY <1>1, <2>1, <2>5 DEF Suspend, Resume, Restart, Unf
    <3>2. unfinished_count' + Unf(stop[k]) = unfinished_count + Unf(r) /\ unfinished_count' \in Int
      BY <1>4, <2>3, <3>1
    <3> QED BY <1>2, <1>7, <2>1, <2>2, <2>3, <3>2, UncancelledReason
  <2> QED BY <2>4, <2>5
<1> QED BY <1>3, <1>6, <1>7

(* The steps of a poll.                                                    *)
LEMMA UncancelledBeat ==
  ASSUME TypeOK, CountInv, UncancelledInv, Beat \/ TaskReturns \/ PollStart
  PROVE  UncancelledInv'
<1>0. TaskTypes /\ PlaceTypes
  BY TypeParts
<1>1. unfinished_count \in 0 .. UintMax /\ UintMax \in Nat
  BY StaticAssumption DEF TypeOK
<1> USE DEF taskVars, countVars, fixedVars
<1>2. ASSUME NEW r \in {"None", "Suspended"}, cursor \in Tasks, pc \in Active, pc' # "cancel",
             stop[cursor] # "Finished", stop' = [stop EXCEPT ![cursor] = r],
             unfinished_count' = unfinished_count
      PROVE  UncancelledInv'
  <2>1. Unf(stop[cursor]) = 1 /\ Unf(r) = 1 /\ r \in Reasons /\ r # "Cancelled"
    BY <1>2 DEF Unf, Reasons
  <2>2. unfinished_count' + Unf(stop[cursor]) = unfinished_count + Unf(r) /\ unfinished_count' \in Int
    BY <1>1, <1>2, <2>1
  <2> QED BY <1>2, <2>1, <2>2, UncancelledReason
<1>3. CASE Skip \/ BeatAgain \/ RegisterWaker \/ Finish \/ Wait \/ TaskReturns \/ PollStart
  <2>1. /\ UNCHANGED <<stop, unfinished_count>> /\ inited' = inited
        /\ pc \in Active /\ pc' # "cancel"
    BY <1>3 DEF Skip, Visiting, Visit, BeatDone, BeatAgain, RegisterWaker, Finish, Wait, Leave,
                TaskReturns, TaskPending, TaskReady, TaskPanics, PollStart, Active, Polling
  <2> QED BY <2>1, UncancelledQuiet
<1>4. CASE VisitCancelled \/ CancelDone
  <2>1. pc \in Active /\ (pc = "cancel" \/ (cursor \in Tasks /\ stop[cursor] = "Cancelled"))
    BY <1>0, <1>4, StaticAssumption
    DEF VisitCancelled, CancelDone, Visiting, PlaceTypes, Tasks, Active, Polling
  <2> QED BY <2>1 DEF UncancelledInv
<1>5. CASE VisitRestart
  <2>1. /\ cursor \in Tasks /\ pc \in Active /\ pc' # "cancel" /\ stop[cursor] # "Finished"
        /\ unfinished_count' = unfinished_count
        /\ \E r \in {"None", "Suspended"} : stop' = [stop EXCEPT ![cursor] = r]
    BY <1>0, <1>5, StaticAssumption
    DEF VisitRestart, Visiting, PlaceTypes, Tasks, Active, Polling
  <2> QED BY <1>2, <2>1
<1>6. CASE RestartSuspendedDone
  <2>1. /\ cursor \in Tasks /\ pc \in Active /\ pc' # "cancel" /\ stop[cursor] # "Finished"
        /\ unfinished_count' = unfinished_count /\ stop' = [stop EXCEPT ![cursor] = "None"]
    BY <1>0, <1>6 DEF RestartSuspendedDone, Reset, Visit, PlaceTypes, Active, Polling, CountInv,
                      CleanInv
  <2> QED BY <1>2, <2>1
<1>7. CASE PollTask \/ CreatePanics \/ PollDropped
  <2>1. pc' # "cancel" /\ unfinished_count' = unfinished_count /\ inited' = inited
    BY <1>7 DEF PollTask, CreatePanics, PollDropped, Leave
  <2>2. CASE Visiting("None") /\ UNCHANGED stop
    BY <2>1, <2>2, UncancelledQuiet DEF Visiting, Active, Polling
  <2>3. CASE pc = "restart" /\ Reset
    <3>1. /\ cursor \in Tasks /\ pc \in Active /\ stop[cursor] # "Finished"
          /\ stop' = [stop EXCEPT ![cursor] = "None"]
      BY <1>0, <2>3 DEF Reset, PlaceTypes, Active, Polling, CountInv, CleanInv
    <3> QED BY <1>2, <2>1, <3>1
  <2> QED BY <1>7, <2>2, <2>3 DEF PollTask, CreatePanics, PollDropped, Turn
<1>8. CASE ReadyDone
  <2>1. /\ cursor \in Tasks /\ pc \in Active /\ stop[cursor] # "Finished"
        /\ stop' = [stop EXCEPT ![cursor] = "Finished"] /\ pc' # "cancel"
    BY <1>0, <1>8 DEF ReadyDone, DecUnfinished, Visit, Leave, PlaceTypes, Active, Polling, CountInv,
                      CleanInv
  <2>2. unfinished_count = Cardinality(UnfinishedTasks) /\ Cardinality(UnfinishedTasks) >= 1
    BY <2>1, CountedPositive DEF UncancelledInv
  <2>3. unfinished_count # 0
    BY <1>1, <2>2
  <2>4. unfinished_count' = (unfinished_count + UintMax) % (UintMax + 1)
    BY <1>8, <2>3 DEF ReadyDone, DecUnfinished
  <2>5. unfinished_count' = unfinished_count - 1
    BY <1>1, <2>3, <2>4, UnfinishedWraps
  <2>6. Unf(stop[cursor]) = 1 /\ Unf("Finished") = 0 /\ "Finished" \in Reasons
    BY <2>1 DEF Unf, Reasons
  <2>7. /\ unfinished_count' + Unf(stop[cursor]) = unfinished_count + Unf("Finished")
        /\ unfinished_count' \in Int
    BY <1>1, <2>5, <2>6
  <2> QED BY <2>1, <2>6, <2>7, UncancelledReason
<1> QED BY <1>3, <1>4, <1>5, <1>6, <1>7, <1>8 DEF Beat

(* lock, init, drop, dispose, the end of a destructor, and wakes.          *)
LEMMA UncancelledLock ==
  ASSUME TypeOK, DropInv, FreeInv, ProgressInv, UncancelledInv,
         \/ Lock \/ InitStep \/ DropWheel \/ Dispose \/ DropEnds
         \/ WakeSelf \/ (\E k \in Tasks : WakeNotify(k) \/ WakeStore(k)) \/ UNCHANGED vars
  PROVE  UncancelledInv'
<1> USE DEF taskVars, countVars, fixedVars
<1>1. ASSUME \A k \in Tasks : stop'[k] = StartReason(k), unfinished_count' = N, pc' = "idle"
      PROVE  UncancelledInv'
  <2>1. UnfinishedTasks' = Tasks /\ \A k \in Tasks : stop'[k] # "Cancelled"
    BY <1>1 DEF UnfinishedTasks, StartReason
  <2>2. Cardinality(UnfinishedTasks)' = N
    BY <2>1, TaskCount
  <2>3. N # UintMax
    BY StaticAssumption
  <2> QED BY <1>1, <2>1, <2>2, <2>3 DEF UncancelledInv
<1>2. CASE LockFirst
  BY <1>1, <1>2 DEF LockFirst
<1>3. CASE InitDone
  <2>1. \A k \in Tasks : stop'[k] = StartReason(k)
    BY <1>3, StaticAssumption DEF InitDone, ProgressInv, Tasks
  <2> QED BY <1>1, <1>3, <2>1 DEF InitDone
<1>4. CASE \/ LockPanics \/ LockAgain \/ InitDropsTask \/ InitTask \/ DropWheel \/ Dispose
           \/ DropPanicsInInit \/ DropPanicsInDispose
  <2>1. pc' \notin Active /\ unfinished_count' = unfinished_count /\ inited' = inited
    BY <1>4 DEF LockPanics, LockAgain, InitDropsTask, InitTask, DropWheel, Dispose,
                DisposeDropsTask, DisposeTask, DisposeDone, DropPanicsInInit,
                DropPanicsInDispose, BeginDispose, Release, Active, Polling
  <2> QED BY <2>1 DEF UncancelledInv
<1>5. CASE \/ DropReturns \/ DropPanicsInPoll
           \/ WakeSelf \/ (\E k \in Tasks : WakeNotify(k) \/ WakeStore(k)) \/ UNCHANGED vars
  <2>1. /\ UNCHANGED <<stop, unfinished_count>> /\ inited' = inited
        /\ pc' = pc \/ (pc \in Active /\ pc' = "idle")
    BY <1>5 DEF DropReturns, DropPanicsInPoll, Leave, WakeSelf, WakeNotify, WakeStore, vars, Active
  <2> QED BY <2>1, UncancelledQuiet
<1> QED BY <1>2, <1>3, <1>4, <1>5 DEF Lock, InitStep, DropEnds

LEMMA UncancelledInvariant == Spec /\ [][NoCancel]_vars => []UncancelledInv
<1>1. Init => UncancelledInv
  BY DEF Init, UncancelledInv, Active, Polling
<1>2. UncancelledInv /\ IInv /\ [Next]_vars /\ [NoCancel]_vars => UncancelledInv'
  <2> SUFFICES ASSUME UncancelledInv, IInv, [Next]_vars, [NoCancel]_vars PROVE UncancelledInv'
    OBVIOUS
  <2>1. TypeOK /\ DropInv /\ FreeInv /\ ProgressInv /\ CountInv
    BY DEF IInv
  <2>2. CASE User /\ NoCancel
    BY <2>1, <2>2, UncancelledUser
  <2> QED BY <2>1, <2>2, UncancelledBeat, UncancelledLock DEF Next
<1> QED BY <1>1, <1>2, IInvInvariant, PTL DEF Spec

(* A poll that has not returned has no verdict, and one that ran a beat to *)
(* its end goes on or returns.                                             *)
NoVerdictYet == pc \in Polling => result = "none"

LEMMA NoVerdictInvariant == Spec => []NoVerdictYet
<1>1. Init => NoVerdictYet
  BY DEF Init, NoVerdictYet
<1>2. NoVerdictYet /\ [Next]_vars => NoVerdictYet'
  <2> SUFFICES ASSUME NoVerdictYet, [Next]_vars PROVE NoVerdictYet'
    OBVIOUS
  <2> USE DEF NoVerdictYet, beatVars, Polling
  <2>1. CASE User \/ Lock \/ InitStep \/ PollStart \/ DropWheel \/ Dispose
    BY <2>1 DEF User, Suspend, Resume, Restart, Cancel, SetStop, Lock, LockFirst, LockPanics,
         LockAgain, InitStep, InitDropsTask, InitTask, InitDone, PollStart, DropWheel,
         BeginDispose, Release, Dispose, DisposeDropsTask, DisposeTask, DisposeDone
  <2>2. CASE Beat
    BY <2>2 DEF Beat, Skip, Visiting, Visit, VisitCancelled, CancelDone, DecUnfinished,
         VisitRestart, RestartSuspendedDone, PollTask, CreatePanics, PollDropped, Turn, ReadyDone,
         BeatDone, BeatAgain, RegisterWaker, Finish, Wait, Leave
  <2>3. CASE TaskReturns \/ DropEnds
    BY <2>3 DEF TaskReturns, TaskPending, TaskReady, TaskPanics, DropEnds, DropReturns,
         DropPanicsInPoll, DropPanicsInInit, DropPanicsInDispose, BeginDispose, Release, Visit,
         Leave
  <2>4. CASE WakeSelf \/ (\E k \in Tasks : WakeNotify(k) \/ WakeStore(k)) \/ UNCHANGED vars
    BY <2>4 DEF WakeSelf, WakeNotify, WakeStore, vars
  <2> QED BY <2>1, <2>2, <2>3, <2>4 DEF Next
<1> QED BY <1>1, <1>2, PTL DEF Spec

LEMMA BeatGoesOn == ASSUME DropInv, Next, BeatDone PROVE pc' \in Polling \cup {"idle"}
<1>1. pc = "beat" /\ ~ dropping
  BY DEF BeatDone, DropInv
<1> QED
  BY <1>1
  DEF Next, User, Suspend, Resume, Restart, Cancel, UserMayAct, Lock, LockFirst, LockPanics,
      LockAgain, InitStep, InitDropsTask, InitTask, InitDone, PollStart, DropWheel, Dispose,
      DisposeDropsTask, DisposeTask, DisposeDone, Beat, Skip, Visit, VisitCancelled, CancelDone,
      VisitRestart, RestartSuspendedDone, PollTask, CreatePanics, PollDropped, ReadyDone,
      BeatAgain, RegisterWaker, Finish, Wait, Leave, TaskReturns, TaskPending, TaskReady,
      TaskPanics, DropEnds, DropReturns, DropPanicsInPoll, DropPanicsInInit,
      DropPanicsInDispose, WakeSelf, WakeNotify, WakeStore, Polling

(* Cancelling is the only thing that makes the wheel report that all tasks *)
(* finished when some did not (what the run static_cancel shows): where no *)
(* handle cancels a task, Ok means that every task is done, whatever is    *)
(* suspended, resumed, restarted or panics.                                *)
THEOREM StaticReadyMeansFinished == Spec /\ [][NoCancel]_vars => ReadyMeansFinished
<1>1. ASSUME IInv, UncancelledInv, NoVerdictYet', Next, BeatDone, result' = "ReadyOk"
      PROVE  \A k \in Tasks : stop[k] \in {"Finished", "Cancelled"}
  <2>1. TypeOK /\ DropInv /\ unfinished_count = Cardinality(UnfinishedTasks)
    BY <1>1 DEF IInv, UncancelledInv, BeatDone, Active, Polling
  <2>2. pc' = "idle"
    BY <1>1, <2>1, BeatGoesOn DEF NoVerdictYet
  <2>3. Finish \/ Wait
    BY <1>1, <2>1, <2>2, BeatEnds
  <2>4. unfinished_count = 0
    BY <1>1, <2>3 DEF Finish, Wait, Leave
  <2> QED BY <2>1, <2>4, CountsDecide
<1>2. IInv /\ UncancelledInv /\ NoVerdictYet' /\ [Next]_vars =>
        [(BeatDone /\ result' = "ReadyOk") =>
           \A k \in Tasks : stop[k] \in {"Finished", "Cancelled"}]_vars
  BY <1>1
<1> QED
  BY <1>2, IInvInvariant, UncancelledInvariant, NoVerdictInvariant, PTL
  DEF Spec, ReadyMeansFinished

(* Without cancelling no lock panics: unfinished_count never wraps to the  *)
(* mark "never initialized", so a released wheel can always be locked      *)
(* again.  (Restarts from the destructors of one dispose stay below        *)
(* usize::MAX by the bound of IncUnfinished.)                              *)
THEOREM StaticLockNeverPanics == Spec /\ [][NoCancel]_vars => [][~ LockPanics]_vars
<1>1. UncancelledInv => ~ LockPanics
  BY DEF UncancelledInv, LockPanics
<1>2. UncancelledInv => [~ LockPanics]_vars
  BY <1>1
<1> QED BY <1>2, UncancelledInvariant, PTL
=============================================================================
