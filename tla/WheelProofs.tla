----------------------------- MODULE WheelProofs -----------------------------
(***************************************************************************)
(* Proofs about Wheel for registries of any capacity, any number of waking *)
(* threads, both kinds of executor, and user code between polls and in     *)
(* destructors or not.                                                     *)
(***************************************************************************)
EXTENDS Wheel, FiniteSetTheorems, TLAPS

\* Tasks are in slots that were allocated.
SlotInv == \A k \in Keys : stop[k] # "Vacant" => k < capacity

\* While a task is polled the cursor is at it and any_poll is set.
PollInv == pc = "poll" => cursor < limit /\ any_poll /\ stop[cursor] # "Vacant"

\* The type invariant is inductive only together with the exact count.
TInv == TypeOK /\ SlotInv /\ PollInv /\ CountExact
----------------------------------------------------------------------------
(* The set of suspended tasks is finite.                                   *)
LEMMA SuspendedFinite ==
  /\ IsFiniteSet(Keys)
  /\ IsFiniteSet(Suspended) /\ Cardinality(Suspended) \in Nat
  /\ IsFiniteSet(Registered) /\ Cardinality(Registered) \in Nat
<1>1. IsFiniteSet(Keys)
  BY FS_Interval, WheelAssumption DEF Keys
<1>2. Suspended \subseteq Keys /\ Registered \subseteq Keys
  BY DEF Suspended, Registered
<1> QED
  BY <1>1, <1>2, FS_Subset, FS_CardinalityType

(* How the number of suspended tasks changes when one stop_reason changes. *)
LEMMA SuspendedChange ==
  ASSUME TypeOK, NEW k \in Keys, NEW r, stop' = [stop EXCEPT ![k] = r]
  PROVE  Cardinality(Suspended)' = Cardinality(Suspended)
                                     + (IF r = "Suspended" THEN 1 ELSE 0)
                                     - (IF stop[k] = "Suspended" THEN 1 ELSE 0)
<1>1. CASE r = "Suspended"
  <2>1. Suspended' = Suspended \cup {k}
    BY <1>1 DEF Suspended, TypeOK
  <2>2. k \in Suspended <=> stop[k] = "Suspended"
    BY DEF Suspended
  <2>3. Cardinality(Suspended \cup {k}) =
          IF k \in Suspended THEN Cardinality(Suspended) ELSE Cardinality(Suspended) + 1
    BY SuspendedFinite, FS_AddElement
  <2> QED
    BY <1>1, <2>1, <2>2, <2>3, SuspendedFinite
<1>2. CASE r # "Suspended"
  <2>1. Suspended' = Suspended \ {k}
    BY <1>2 DEF Suspended, TypeOK
  <2>2. k \in Suspended <=> stop[k] = "Suspended"
    BY DEF Suspended
  <2>3. Cardinality(Suspended \ {k}) =
          IF k \in Suspended THEN Cardinality(Suspended) - 1 ELSE Cardinality(Suspended)
    BY SuspendedFinite, FS_RemoveElement
  <2> QED
    BY <1>2, <2>1, <2>2, <2>3, SuspendedFinite
<1> QED
  BY <1>1, <1>2

(* A suspended task is counted.                                            *)
LEMMA SuspendedPositive ==
  ASSUME NEW k \in Keys, stop[k] = "Suspended"
  PROVE  Cardinality(Suspended) \in Nat \ {0}
<1>1. k \in Suspended
  BY DEF Suspended
<1> QED
  BY <1>1, SuspendedFinite, FS_EmptySet

(* Without a change of stop the number of suspended tasks stays.           *)
LEMMA SuspendedSame ==
  ASSUME stop' = stop
  PROVE  Cardinality(Suspended)' = Cardinality(Suspended)
BY DEF Suspended

(* The initial states satisfy the type invariant and its strengthening.    *)
LEMMA InitTInv == Init => TInv
<1> SUFFICES ASSUME Init PROVE TInv
  OBVIOUS
<1>1. TypeOK
  <2>1. /\ stop \in [Keys -> {"Vacant", "None", "Suspended", "Cancelled"}]
        /\ runnable \in [Keys -> BOOLEAN]
        /\ wpc \in [Threads -> {"idle", "notify", "outer", "store"}]
        /\ wtarget \in [Threads -> Keys \cup {NoKey}]
    BY DEF Init
  <2>2. capacity \in 0 .. MaxCapacity /\ leaked \in 0 .. MaxLeaks /\ suspended_count \in Nat
        /\ limit \in 0 .. capacity /\ cursor \in 0 .. limit
    BY WheelAssumption DEF Init
  <2> QED
    BY <2>1, <2>2 DEF Init, TypeOK
<1>2. Suspended = {}
  BY DEF Init, Suspended
<1>3. CountExact
  BY <1>2, FS_EmptySet DEF CountExact, Init
<1> QED
  BY <1>1, <1>3 DEF TInv, SlotInv, PollInv, Init

(* The calls on a handle keep the type invariant.                          *)
LEMMA HandleTInv == ASSUME TInv, Handle PROVE TInv'
<1> USE WheelAssumption DEF TInv
<1>1. ASSUME NEW k \in Keys, NEW reason \in {"None", "Suspended"}, Spawn(k, reason)
      PROVE  TInv'
  <2> USE <1>1 DEF Spawn
  <2>1. stop[k] = "Vacant"
    BY DEF Insert, Free, SlotInv, TypeOK
  <2>2. CountExact'
    <3>1. Cardinality(Suspended)' = Cardinality(Suspended) + (IF reason = "Suspended" THEN 1 ELSE 0)
      <4>1. Cardinality(Suspended)' = Cardinality(Suspended)
                                        + (IF reason = "Suspended" THEN 1 ELSE 0)
                                        - (IF stop[k] = "Suspended" THEN 1 ELSE 0)
        BY SuspendedChange
      <4> HIDE <1>1 DEF Spawn
      <4> QED
        BY <2>1, <4>1, SuspendedFinite
    <3>2. /\ suspended_count' = suspended_count + (IF reason = "Suspended" THEN 1 ELSE 0)
          /\ leaked' = leaked /\ leaked \in Nat /\ suspended_count \in Nat
      BY DEF TypeOK
    <3> HIDE <1>1 DEF Spawn
    <3> QED
      BY <3>1, <3>2, SuspendedFinite DEF CountExact
  <2>3. k < capacity' /\ capacity <= capacity' /\ capacity' \in 0 .. MaxCapacity
    BY DEF Insert, Free, TypeOK
  <2>4. TypeOK'
    BY <2>3 DEF TypeOK, beatVars, threadVars
  <2>5. SlotInv' /\ PollInv'
    BY <2>3 DEF SlotInv, PollInv, TypeOK, beatVars, Keys
  <2> QED
    BY <2>2, <2>4, <2>5
<1>2. ASSUME NEW k \in Keys, stop[k] # "Vacant",
             NEW r \in {"None", "Suspended", "Cancelled"}, NEW d \in Int,
             SetStop(k, r, d),
             d = (IF r = "Suspended" THEN 1 ELSE 0) - (IF stop[k] = "Suspended" THEN 1 ELSE 0)
      PROVE  TInv'
  <2> USE <1>2 DEF SetStop
  <2>1. CountExact'
    <3>1. Cardinality(Suspended)' = Cardinality(Suspended) + d
      BY SuspendedChange, SuspendedFinite
    <3> QED
      BY <3>1, SuspendedFinite DEF CountExact, TypeOK
  <2>2. suspended_count' \in Nat
    BY SuspendedPositive DEF CountExact, TypeOK
  <2>3. TypeOK'
    BY <2>2 DEF TypeOK, beatVars, threadVars
  <2>4. SlotInv' /\ PollInv'
    BY DEF SlotInv, PollInv, TypeOK, beatVars
  <2> QED
    BY <2>1, <2>3, <2>4
<1>3. ASSUME NEW k \in Keys, Suspend(k) \/ Resume(k) \/ Cancel(k) PROVE TInv'
  <2>1. CASE Suspend(k)
    BY <1>2, <2>1 DEF Suspend
  <2>2. CASE Resume(k)
    BY <1>2, <2>2 DEF Resume
  <2>3. CASE Cancel(k)
    BY <1>2, <2>3 DEF Cancel
  <2> QED
    BY <1>3, <2>1, <2>2, <2>3
<1> QED
  BY <1>1, <1>3 DEF Handle

(* Steps that touch neither stop reasons nor the count.                    *)
LEMMA QuietTInv ==
  ASSUME TInv, TypeOK', PollInv', UNCHANGED <<stop, capacity, suspended_count, leaked>>
  PROVE  TInv'
BY SuspendedSame DEF TInv, SlotInv, CountExact

(* Wakers, on any thread, keep the type invariant.                         *)
LEMMA WakeTInv ==
  ASSUME TInv,
         \/ CloneWaker \/ \E k \in Keys \cup {NoKey} : WakeHere(k)
         \/ \E t \in Threads : Thread(t) \/ \E k \in held : BeginWake(t, k)
  PROVE  TInv'
<1> USE DEF TInv, TypeOK, PollInv, taskVars, beatVars, threadVars
<1>1. CASE CloneWaker
  <2>1. cursor \in Keys
    BY <1>1, WheelAssumption DEF CloneWaker, Keys
  <2> QED
    BY <1>1, <2>1, QuietTInv DEF CloneWaker
<1>2. ASSUME NEW k \in Keys \cup {NoKey}, WakeHere(k) PROVE TInv'
  <2>1. runnable' \in [Keys -> BOOLEAN] /\ woken' \in BOOLEAN /\ last_waker' \in BOOLEAN
    BY <1>2 DEF WakeHere
  <2> QED
    BY <1>2, <2>1, QuietTInv DEF WakeHere
<1>3. ASSUME NEW t \in Threads, Notify(t) PROVE TInv'
  BY <1>3, QuietTInv DEF Notify
<1>4. ASSUME NEW t \in Threads, WakeOuter(t) PROVE TInv'
  BY <1>4, QuietTInv DEF WakeOuter
<1>5. ASSUME NEW t \in Threads, StoreRunnable(t) PROVE TInv'
  <2>1. runnable' \in [Keys -> BOOLEAN]
    BY <1>5 DEF StoreRunnable
  <2> QED
    BY <1>5, <2>1, QuietTInv DEF StoreRunnable
<1>6. ASSUME NEW t \in Threads, NEW k \in held, BeginWake(t, k) PROVE TInv'
  BY <1>6, QuietTInv DEF BeginWake
<1> QED
  BY <1>1, <1>2, <1>3, <1>4, <1>5, <1>6 DEF Thread

(* Removing the task at the cursor keeps the type invariant.               *)
LEMMA RemoveTInv ==
  ASSUME TInv, cursor < limit, stop[cursor] # "Vacant",
         Remove(cursor), Visit, UNCHANGED <<capacity, suspended_count, last_waker, limit,
                                            any_poll, second, result, woken, wpc>>,
         current' \in Keys \cup {NoKey}, leaked' \in 0 .. MaxLeaks,
         leaked' = leaked + (IF stop[cursor] = "Suspended" THEN 1 ELSE 0)
  PROVE  TInv'
<1> USE DEF TInv, Remove, Visit
<1>1. cursor \in Keys
  BY WheelAssumption DEF TypeOK, Keys
<1>2. CountExact'
  <2>1. Cardinality(Suspended)' = Cardinality(Suspended)
                                    + (IF "Vacant" = "Suspended" THEN 1 ELSE 0)
                                    - (IF stop[cursor] = "Suspended" THEN 1 ELSE 0)
    BY <1>1, SuspendedChange
  <2>2. leaked \in Nat /\ suspended_count' = suspended_count
    BY WheelAssumption DEF TypeOK
  <2> HIDE DEF Remove, Visit
  <2> QED
    BY <2>1, <2>2, SuspendedFinite DEF CountExact
<1>3. TypeOK'
  <2>1. cursor' \in 0 .. limit'
    BY DEF TypeOK
  <2>2. wtarget' \in [Threads -> Keys \cup {NoKey}] /\ held' \subseteq Keys \cup {NoKey}
    BY DEF TypeOK
  <2>3. stop' \in [Keys -> {"Vacant", "None", "Suspended", "Cancelled"}]
        /\ runnable' \in [Keys -> BOOLEAN]
    BY <1>1 DEF TypeOK
  <2> QED
    BY <2>1, <2>2, <2>3 DEF TypeOK
<1>4. SlotInv' /\ PollInv'
  BY DEF SlotInv, PollInv, TypeOK
<1> QED
  BY <1>2, <1>3, <1>4

(* The steps of poll_internal keep the type invariant.                     *)
LEMMA PollTInv ==
  ASSUME TInv, PollStart \/ Beat \/ TaskReturns \/ DropReturns
  PROVE  TInv'
<1> USE WheelAssumption DEF TInv, taskVars, beatVars, threadVars
<1>1. CASE PollStart
  <2>1. limit' \in 0 .. capacity /\ cursor' \in 0 .. limit' /\ pc' # "poll"
    BY <1>1 DEF PollStart, NewBeat, TypeOK
  <2>2. UNCHANGED <<stop, capacity, suspended_count, leaked>>
    BY <1>1 DEF PollStart
  <2>3. TypeOK'
    BY <1>1, <2>1, <2>2 DEF PollStart, NewBeat, TypeOK
  <2> QED
    BY <2>1, <2>2, <2>3, QuietTInv DEF PollInv
<1>2. CASE Skip
  BY <1>2, QuietTInv DEF Skip, Visiting, Visit, TypeOK, PollInv
<1>3. CASE RemoveCancelled
  <2>1. cursor < limit /\ stop[cursor] = "Cancelled" /\ current' = current /\ leaked' = leaked
    BY <1>3 DEF RemoveCancelled, Visiting
  <2>2. leaked' = leaked + (IF stop[cursor] = "Suspended" THEN 1 ELSE 0)
    BY <2>1 DEF TypeOK
  <2> QED
    BY <1>3, <2>1, <2>2, RemoveTInv DEF RemoveCancelled, TypeOK
<1>4. CASE PollTask
  <2>1. cursor \in Keys /\ cursor < limit
    BY <1>4 DEF PollTask, Visiting, TypeOK, Keys
  <2> QED
    BY <1>4, <2>1, QuietTInv DEF PollTask, TypeOK, PollInv
<1>5. CASE BeatAgain
  <2>1. limit' \in 0 .. capacity /\ cursor' \in 0 .. limit' /\ pc' # "poll"
        /\ last_waker' \in BOOLEAN
    BY <1>5 DEF BeatAgain, BeatDone, NewBeat, TypeOK
  <2>2. UNCHANGED <<stop, capacity, suspended_count, leaked>>
    BY <1>5 DEF BeatAgain
  <2>3. TypeOK'
    BY <1>5, <2>1, <2>2 DEF BeatAgain, BeatDone, NewBeat, TypeOK
  <2> QED
    BY <2>1, <2>2, <2>3, QuietTInv DEF PollInv
<1>6. CASE RegisterWaker
  <2>1. limit' \in 0 .. capacity /\ cursor' \in 0 .. limit' /\ pc' # "poll"
        /\ last_waker' \in BOOLEAN
    BY <1>6 DEF RegisterWaker, BeatDone, NewBeat, TypeOK
  <2>2. UNCHANGED <<stop, capacity, suspended_count, leaked>>
    BY <1>6 DEF RegisterWaker
  <2>3. TypeOK'
    BY <1>6, <2>1, <2>2 DEF RegisterWaker, BeatDone, NewBeat, TypeOK
  <2> QED
    BY <2>1, <2>2, <2>3, QuietTInv DEF PollInv
<1>7. CASE Finish
  <2>1. limit' \in 0 .. capacity /\ cursor' \in 0 .. limit' /\ pc' # "poll"
    BY <1>7 DEF Finish, Leave, TypeOK
  <2>2. UNCHANGED <<stop, capacity, suspended_count, leaked>>
    BY <1>7 DEF Finish
  <2>3. TypeOK'
    BY <1>7, <2>1, <2>2 DEF Finish, Leave, TypeOK
  <2> QED
    BY <2>1, <2>2, <2>3, QuietTInv DEF PollInv
<1>8. CASE Wait
  <2>1. limit' \in 0 .. capacity /\ cursor' \in 0 .. limit' /\ pc' # "poll"
        /\ last_waker' \in BOOLEAN
    BY <1>8 DEF Wait, Leave, TypeOK
  <2>2. UNCHANGED <<stop, capacity, suspended_count, leaked>>
    BY <1>8 DEF Wait
  <2>3. TypeOK'
    BY <1>8, <2>1, <2>2 DEF Wait, Leave, TypeOK
  <2> QED
    BY <2>1, <2>2, <2>3, QuietTInv DEF PollInv
<1>9. CASE TaskPending
  BY <1>9, QuietTInv DEF TaskPending, Visit, TypeOK, PollInv
<1>10. CASE TaskReady
  <2>1. cursor < limit /\ stop[cursor] # "Vacant"
    BY <1>10 DEF TaskReady, PollInv
  <2>2. leaked' \in 0 .. MaxLeaks
    BY <1>10 DEF TaskReady, TypeOK
  <2> QED
    BY <1>10, <2>1, <2>2, RemoveTInv DEF TaskReady
<1>11. CASE TaskPanics \/ DropPanics
  <2>1. limit' \in 0 .. capacity /\ cursor' \in 0 .. limit' /\ pc' # "poll"
        /\ last_waker' \in BOOLEAN
    BY <1>11 DEF TaskPanics, DropPanics, Leave, TypeOK
  <2>2. UNCHANGED <<stop, capacity, suspended_count, leaked>>
    BY <1>11 DEF TaskPanics, DropPanics
  <2>3. TypeOK'
    BY <1>11, <2>1, <2>2 DEF TaskPanics, DropPanics, Leave, TypeOK
  <2> QED
    BY <2>1, <2>2, <2>3, QuietTInv DEF PollInv
<1>12. CASE DropDone
  BY <1>12, QuietTInv DEF DropDone, TypeOK, PollInv
<1> QED
  BY <1>1, <1>2, <1>3, <1>4, <1>5, <1>6, <1>7, <1>8, <1>9, <1>10, <1>11, <1>12
  DEF Beat, TaskReturns, DropReturns

(* The type invariant with its strengthening holds of the specification.  *)
LEMMA TInvInvariant == Spec => []TInv
<1>1. TInv /\ [Next]_vars => TInv'
  <2> SUFFICES ASSUME TInv, [Next]_vars PROVE TInv'
    OBVIOUS
  <2>1. CASE UNCHANGED vars
    BY <2>1, QuietTInv DEF vars, taskVars, beatVars, threadVars, TInv, TypeOK, PollInv
  <2> QED
    BY <2>1, HandleTInv, WakeTInv, PollTInv DEF Next, User
<1> QED
  BY <1>1, InitTInv, PTL DEF Spec

(* Every variable of the wheel keeps its type; in particular the count of  *)
(* suspended tasks never goes below zero, where dec_suspended would panic. *)
THEOREM WheelTyping == Spec => []TypeOK
BY TInvInvariant, PTL DEF TInv

(* suspended_count is exact: the suspended tasks, plus those that finished *)
(* while they were suspended.                                              *)
THEOREM WheelCountExact == Spec => []CountExact
BY TInvInvariant, PTL DEF TInv
----------------------------------------------------------------------------
(* The waker registered before the last beat stays registered, or somebody *)
(* took it out to run it.                                                  *)
Notified == last_waker \/ woken \/ \E t \in Threads : wpc[t] = "outer"
SleepInv == (second \/ (pc = "idle" /\ result = "Pending")) => Notified

(* Only threads and WakeHere take the waker away, and they run it.         *)
LEMMA NotifiedStays ==
  ASSUME TypeOK, Notified,
         \/ \E k \in Keys \cup {NoKey} : WakeHere(k)
         \/ \E t \in Threads : Thread(t) \/ \E k \in held : BeginWake(t, k)
         \/ UNCHANGED <<last_waker, woken, wpc>>
  PROVE  Notified'
<1> USE DEF Notified, TypeOK
<1>1. ASSUME NEW k \in Keys \cup {NoKey}, WakeHere(k) PROVE Notified'
  BY <1>1 DEF WakeHere, threadVars
<1>2. ASSUME NEW t \in Threads, Notify(t) PROVE Notified'
  <2>1. CASE last_waker
    BY <1>2, <2>1 DEF Notify
  <2>2. CASE woken
    BY <1>2, <2>2 DEF Notify
  <2>3. ASSUME NEW u \in Threads, wpc[u] = "outer" PROVE Notified'
    <3>1. u # t
      BY <1>2, <2>3 DEF Notify
    <3>2. wpc'[u] = "outer"
      BY <1>2, <2>3, <3>1 DEF Notify
    <3> QED
      BY <3>2
  <2> QED
    BY <2>1, <2>2, <2>3
<1>3. ASSUME NEW t \in Threads, WakeOuter(t) PROVE Notified'
  BY <1>3 DEF WakeOuter
<1>4. ASSUME NEW t \in Threads, StoreRunnable(t) PROVE Notified'
  <2>1. \A u \in Threads : wpc[u] = "outer" => wpc'[u] = "outer"
    BY <1>4 DEF StoreRunnable
  <2> QED
    BY <1>4, <2>1 DEF StoreRunnable
<1>5. ASSUME NEW t \in Threads, NEW k \in held, BeginWake(t, k) PROVE Notified'
  <2>1. \A u \in Threads : wpc[u] = "outer" => wpc'[u] = "outer"
    BY <1>5 DEF BeginWake
  <2> QED
    BY <1>5, <2>1 DEF BeginWake
<1>6. CASE UNCHANGED <<last_waker, woken, wpc>>
  BY <1>6
<1> QED
  BY <1>1, <1>2, <1>3, <1>4, <1>5, <1>6 DEF Thread

(* While the wheel is Pending its executor can be, or was, notified:       *)
(* through every order of registering, clearing and notifying.             *)
THEOREM WheelWakerNotLost == Spec => []WakerNotLost
<1>1. Init => SleepInv
  BY DEF Init, SleepInv
<1>2. TypeOK /\ SleepInv /\ [Next]_vars => SleepInv'
  <2> SUFFICES ASSUME TypeOK, SleepInv, [Next]_vars PROVE SleepInv'
    OBVIOUS
  <2> USE DEF SleepInv, taskVars, beatVars, threadVars
  <2>1. CASE Handle \/ CloneWaker \/ UNCHANGED vars
    <3>1. UNCHANGED <<last_waker, woken, wpc, second, pc, result>>
      BY <2>1 DEF Handle, Spawn, Suspend, Resume, Cancel, SetStop, CloneWaker, vars
    <3> QED
      BY <3>1, NotifiedStays
  <2>2. CASE \/ \E k \in Keys \cup {NoKey} : WakeHere(k)
             \/ \E t \in Threads : Thread(t) \/ \E k \in held : BeginWake(t, k)
    <3>1. UNCHANGED <<second, pc, result>>
      BY <2>2 DEF WakeHere, Thread, Notify, WakeOuter, StoreRunnable, BeginWake
    <3> QED
      BY <2>2, <3>1, NotifiedStays
  <2>3. CASE PollStart \/ BeatAgain
    BY <2>3 DEF PollStart, BeatAgain, BeatDone
  <2>4. CASE RegisterWaker
    BY <2>4 DEF RegisterWaker, Notified
  <2>5. CASE Finish \/ TaskPanics \/ DropPanics
    BY <2>5 DEF Finish, TaskPanics, DropPanics, Leave
  <2>6. CASE Wait
    <3>1. Notified'
      BY <2>6, NotifiedStays DEF Wait
    <3> QED
      BY <3>1
  <2>7. CASE Skip \/ RemoveCancelled \/ PollTask \/ TaskPending \/ TaskReady \/ DropDone
    <3>1. UNCHANGED <<last_waker, woken, wpc, second>> /\ pc' # "idle"
      BY <2>7 DEF Skip, RemoveCancelled, PollTask, TaskPending, TaskReady, DropDone,
                  Remove, Visiting
    <3> QED
      BY <3>1, NotifiedStays
  <2> QED
    BY <2>1, <2>2, <2>3, <2>4, <2>5, <2>6, <2>7 DEF Next, User, Beat, TaskReturns, DropReturns
<1>3. SleepInv => WakerNotLost
  BY DEF SleepInv, WakerNotLost, Notified
<1> QED
  BY <1>1, <1>2, <1>3, WheelTyping, PTL DEF Spec

(* handle.current() is the task that is polled, through panics too.        *)
THEOREM WheelCurrentExact == Spec => []CurrentExact
<1> DEFINE CInv == current = (IF pc = "poll" THEN cursor ELSE NoKey)
<1>1. Init => CInv
  BY DEF Init
<1>2. TInv /\ CInv /\ [Next]_vars => CInv'
  <2> SUFFICES ASSUME TInv, CInv, [Next]_vars PROVE CInv'
    OBVIOUS
  <2> USE DEF taskVars, beatVars, threadVars
  <2>1. CASE User \/ UNCHANGED vars
    BY <2>1 DEF User, Handle, Spawn, Suspend, Resume, Cancel, SetStop, CloneWaker, WakeHere, vars
  <2>2. CASE \E t \in Threads : Thread(t) \/ \E k \in held : BeginWake(t, k)
    BY <2>2 DEF Thread, Notify, WakeOuter, StoreRunnable, BeginWake
  <2>3. CASE Beat
    <3>1. CASE PollTask
      <4>1. pc' = "poll" /\ current' = cursor /\ cursor' = cursor
        BY <3>1 DEF PollTask
      <4> QED
        BY <4>1
    <3>2. CASE Beat /\ ~ PollTask
      <4>1. pc = "beat" /\ current' = current
        BY <3>2 DEF Beat, Skip, RemoveCancelled, BeatAgain, RegisterWaker, Finish, Wait,
                    Visiting, BeatDone
      <4>2. pc' # "poll"
        BY <3>2, <4>1 DEF Beat, Skip, RemoveCancelled, BeatAgain, RegisterWaker, Finish, Wait,
                          Remove, Leave
      <4> QED
        BY <4>1, <4>2
    <3> QED
      BY <2>3, <3>1, <3>2
  <2>4. CASE PollStart \/ DropReturns \/ TaskReturns
    BY <2>4 DEF PollStart, DropReturns, DropDone, DropPanics, TaskReturns, TaskPending, TaskReady, TaskPanics, Remove, Leave
  <2> QED
    BY <2>1, <2>2, <2>3, <2>4 DEF Next
<1>3. TInv /\ CInv => CurrentExact
  BY DEF TInv, TypeOK, PollInv, CurrentExact, NoKey
<1> QED
  BY <1>1, <1>2, <1>3, TInvInvariant, PTL DEF Spec
----------------------------------------------------------------------------
(* As long as a beat has polled nothing and dropped nothing with a         *)
(* destructor, no user code ran: the slots it has passed hold no cancelled *)
(* task and the registry did not grow.                                     *)
BeatInv == (pc = "beat" /\ ~ any_poll /\ ~ Destructors) =>
              /\ limit = capacity
              /\ \A k \in Keys : k < cursor => stop[k] # "Cancelled"

\* Only with Destructors is a destructor a point where user code runs.
DropInv == pc = "drop" => Destructors

VInv == BeatInv /\ DropInv /\ VerdictTrue

(* When the last beat ends, the tasks justify what the wheel returns.      *)
LEMMA VerdictAtReturn ==
  ASSUME TInv, BeatInv, Finish \/ Wait
  PROVE  VerdictTrue'
<1> USE WheelAssumption DEF TInv
<1>1. stop' = stop /\ leaked' = leaked /\ pc' = "idle"
  BY DEF Finish, Wait, Leave, taskVars
<1>2. Registered' = Registered /\ Suspended' = Suspended
  BY <1>1 DEF Registered, Suspended
<1>3. Suspended \subseteq Registered
  BY DEF Suspended, Registered
<1>4. leaked = 0 => suspended_count = Cardinality(Suspended)
  BY SuspendedFinite DEF CountExact
<1>5. leaked = 0 /\ Cardinality(Registered) = suspended_count => Registered = Suspended
  BY <1>3, <1>4, SuspendedFinite, FS_Subset
<1>6. CASE Finish
  <2>1. result' = (IF Registered = {} THEN "ReadyOk" ELSE "ReadyErr")
    BY <1>6 DEF Finish, Leave
  <2>2. Registered # {} => Cardinality(Registered) # 0
    BY SuspendedFinite, FS_EmptySet
  <2>3. leaked = 0 /\ Registered # {} => Registered = Suspended
    BY <1>5, <1>6, <2>2 DEF Finish, NothingToWaitFor
  <2> QED
    BY <1>1, <1>2, <2>1, <2>3 DEF VerdictTrue
<1>7. CASE Wait
  <2>1. result' = "Pending"
    BY <1>7 DEF Wait, Leave
  <2>2. leaked = 0 => Registered # Suspended
    BY <1>4, <1>7 DEF Wait, NothingToWaitFor
  <2>3. leaked = 0 => \E k \in Keys : stop[k] \in {"None", "Cancelled"}
    BY <1>3, <2>2 DEF Registered, Suspended, TypeOK
  <2>4. ~ Destructors => \A k \in Keys : stop[k] # "Cancelled"
    <3>1. SUFFICES ASSUME ~ Destructors, NEW k \in Keys, stop[k] = "Cancelled" PROVE FALSE
      OBVIOUS
    <3>2. k < capacity
      BY <3>1 DEF SlotInv
    <3>3. pc = "beat" /\ ~ any_poll /\ cursor = limit
      BY <1>7 DEF Wait, BeatDone
    <3>4. limit = capacity /\ (k < cursor => stop[k] # "Cancelled")
      BY <3>1, <3>3 DEF BeatInv
    <3> QED
      BY <3>1, <3>2, <3>3, <3>4
  <2>5. leaked = 0 => \E k \in Keys : \/ stop[k] = "None"
                                      \/ Destructors /\ stop[k] = "Cancelled"
    BY <2>3, <2>4
  <2>6. leaked' = 0 => \E k \in Keys : \/ stop'[k] = "None"
                                       \/ Destructors /\ stop'[k] = "Cancelled"
    BY <1>1, <2>5
  <2> QED
    BY <2>1, <2>6 DEF VerdictTrue
<1> QED
  BY <1>6, <1>7

(* What a beat established of the slots it passed holds when it returns.   *)
LEMMA VInvInvariant == Spec => []VInv
<1>1. Init => VInv
  BY DEF Init, VInv, BeatInv, DropInv, VerdictTrue
<1>2. TInv /\ VInv /\ [Next]_vars => VInv'
  <2> SUFFICES ASSUME TInv, VInv, [Next]_vars PROVE VInv'
    OBVIOUS
  <2> USE WheelAssumption DEF taskVars, beatVars, threadVars
  <2>1. CASE Handle
    <3>1. UserMayAct /\ UNCHANGED <<pc, result, any_poll>>
      BY <2>1 DEF Handle, Spawn, Suspend, Resume, Cancel, SetStop
    <3>2. BeatInv' /\ DropInv'
      BY <3>1 DEF UserMayAct, BeatInv, DropInv, VInv
    <3>3. VerdictTrue'
      BY <3>1 DEF UserMayAct, VerdictTrue
    <3> QED
      BY <3>2, <3>3 DEF VInv
  <2>2. CASE \/ CloneWaker \/ \E k \in Keys \cup {NoKey} : WakeHere(k)
             \/ \E t \in Threads : Thread(t) \/ \E k \in held : BeginWake(t, k)
             \/ UNCHANGED vars
    <3>1. UNCHANGED <<stop, leaked, capacity, pc, result, any_poll, cursor, limit>>
      BY <2>2 DEF CloneWaker, WakeHere, Thread, Notify, WakeOuter, StoreRunnable, BeginWake, vars
    <3> QED
      BY <3>1 DEF VInv, BeatInv, DropInv, VerdictTrue, Registered, Suspended
  <2>3. CASE PollStart \/ BeatAgain \/ RegisterWaker
    <3>1. pc' = "beat" /\ cursor' = 0 /\ limit' = capacity /\ capacity' = capacity
      BY <2>3 DEF PollStart, BeatAgain, RegisterWaker, NewBeat, BeatDone
    <3> QED
      BY <3>1 DEF VInv, BeatInv, DropInv, VerdictTrue, Keys
  <2>4. CASE Skip \/ RemoveCancelled
    <3>1. /\ cursor' = cursor + 1 /\ UNCHANGED <<limit, capacity, any_poll>>
          /\ pc = "beat" /\ pc' # "idle"
          /\ stop'[cursor] # "Cancelled"
          /\ \A k \in Keys : k # cursor => stop'[k] = stop[k]
          /\ pc' = "drop" => Destructors
      <4>1. cursor \in Keys /\ pc = "beat"
        BY <2>4 DEF Skip, RemoveCancelled, Visiting, TInv, TypeOK, Keys
      <4>2. CASE Skip
        BY <4>1, <4>2 DEF Skip, Visit
      <4>3. CASE RemoveCancelled
        BY <4>1, <4>3 DEF RemoveCancelled, Visit, Remove, TInv, TypeOK
      <4> QED
        BY <2>4, <4>1, <4>2, <4>3
    <3>2. cursor \in Int
      BY DEF TInv, TypeOK
    <3> QED
      BY <3>1, <3>2 DEF VInv, BeatInv, DropInv, VerdictTrue, Keys
  <2>5. CASE PollTask \/ TaskPending \/ TaskReady
    <3>1. any_poll' /\ pc' # "idle" /\ (pc' = "drop" => Destructors)
      BY <2>5 DEF PollTask, TaskPending, TaskReady, Remove, TInv, PollInv
    <3> QED
      BY <3>1 DEF VInv, BeatInv, DropInv, VerdictTrue
  <2>6. CASE Finish \/ Wait
    <3>1. pc' = "idle"
      BY <2>6 DEF Finish, Wait, Leave
    <3> QED
      BY <2>6, <3>1, VerdictAtReturn DEF VInv, BeatInv, DropInv
  <2>7. CASE TaskPanics \/ DropPanics
    BY <2>7 DEF TaskPanics, DropPanics, Leave, VInv, BeatInv, DropInv, VerdictTrue
  <2>8. CASE DropDone
    BY <2>8 DEF DropDone, VInv, BeatInv, DropInv, VerdictTrue
  <2> QED
    BY <2>1, <2>2, <2>3, <2>4, <2>5, <2>6, <2>7, <2>8 DEF Next, User, Beat, TaskReturns, DropReturns
<1> QED
  BY <1>1, <1>2, TInvInvariant, PTL DEF Spec

(* Ok, SuspendError and Pending are returned when they are true of the     *)
(* tasks, for wheels in which no task finished while it was suspended.     *)
THEOREM WheelVerdictTrue == Spec => []VerdictTrue
BY VInvInvariant, PTL DEF VInv

(* As long as no task finished while it was suspended the wheel returns    *)
(* SuspendError when all its tasks are suspended and never waits then:     *)
(* such a task is the only cause of the violation that TLC shows.          *)
THEOREM WheelSuspendErrorExact == Spec => [](leaked = 0 => SuspendErrorExact)
<1>1. VerdictTrue => (leaked = 0 => SuspendErrorExact)
  <2> SUFFICES ASSUME VerdictTrue, leaked = 0, pc = "idle", ~ Outside
               PROVE  /\ result = "ReadyErr" => Registered = Suspended
                      /\ result = "Pending" => Registered # Suspended
    BY DEF SuspendErrorExact
  <2>1. ASSUME NEW k \in Keys, stop[k] \in {"None", "Cancelled"} PROVE k \in Registered \ Suspended
    BY <2>1 DEF Registered, Suspended
  <2>2. result = "Pending" => \E k \in Keys : stop[k] \in {"None", "Cancelled"}
    BY DEF VerdictTrue
  <2>3. result = "ReadyErr" => Registered = Suspended
    BY DEF VerdictTrue
  <2> QED BY <2>1, <2>2, <2>3
<1> QED BY <1>1, WheelVerdictTrue, PTL
----------------------------------------------------------------------------
\* What poll_local asks before it polls task k.
Ready(k) == stop[k] = "None" /\ runnable[k]

\* A beat that has polled nothing has passed no task that is ready.
PassedInv == (pc = "beat" /\ ~ any_poll) => \A k \in Keys : k < cursor => ~ Ready(k)

RInv == PassedInv /\ NoneLeftRunnable

(* get_state reports Runnable exactly for the tasks a beat would poll.     *)
LEMMA RunnableIsReady ==
  ASSUME TypeOK, NEW k \in Keys
  PROVE  GetState(k) = "Runnable" <=> Ready(k)
<1>1. stop[k] \in {"Vacant", "None", "Suspended", "Cancelled"}
  BY DEF TypeOK
<1> QED BY <1>1 DEF GetState, Ready

(* A beat that ends without a poll looked at every slot there is, so that  *)
(* the wheel returns Pending with no task ready.                           *)
LEMMA NoneReadyAtReturn ==
  ASSUME TInv, BeatInv, PassedInv, Wait, ~ Destructors
  PROVE  \A k \in Keys : ~ Ready(k)
<1>1. pc = "beat" /\ ~ any_poll /\ cursor = limit /\ limit = capacity
  BY DEF Wait, BeatDone, BeatInv
<1>2. \A k \in Keys : stop[k] # "Vacant" => k < cursor
  BY <1>1 DEF TInv, SlotInv
<1> QED BY <1>1, <1>2 DEF PassedInv, Ready

(* The wheel does not return Pending with a task that was spawned, resumed *)
(* or woken and not executed, when no thread wakes tasks and destructors   *)
(* leave handles alone: a poll is what lets user code in, any_poll records *)
(* it, and beat_once is repeated until a whole pass polled nothing.        *)
THEOREM WheelNoneLeftRunnable ==
  ASSUME ~ Destructors
  PROVE  Spec => []NoneLeftRunnable
<1> DEFINE R == Threads = {} => RInv
<1>1. Init => R
  BY DEF Init, RInv, PassedInv, NoneLeftRunnable, Parked
<1>2. TInv /\ VInv /\ R /\ [Next]_vars => R'
  <2> SUFFICES ASSUME TInv, VInv, RInv, [Next]_vars, Threads = {} PROVE RInv'
    OBVIOUS
  <2> USE WheelAssumption DEF taskVars, beatVars, threadVars
  <2>0. pc # "drop"
    BY DEF VInv, DropInv
  <2>1. CASE User
    <3>1. UserMayAct /\ UNCHANGED <<pc, result, any_poll>>
      BY <2>1 DEF User, Handle, Spawn, Suspend, Resume, Cancel, SetStop, CloneWaker, WakeHere, UserMayAct
    <3> QED
      BY <2>0, <3>1 DEF UserMayAct, RInv, PassedInv, NoneLeftRunnable, Parked
  <2>2. CASE UNCHANGED vars
    BY <2>2 DEF vars, RInv, PassedInv, NoneLeftRunnable, Parked, Ready, GetState
  <2>3. CASE PollStart \/ BeatAgain \/ RegisterWaker
    <3>1. pc' = "beat" /\ cursor' = 0
      BY <2>3 DEF PollStart, BeatAgain, RegisterWaker, NewBeat, BeatDone
    <3> QED
      BY <3>1 DEF RInv, PassedInv, NoneLeftRunnable, Parked, Keys
  <2>4. CASE Skip \/ RemoveCancelled
    <3>1. cursor \in Keys /\ pc = "beat"
      BY <2>4 DEF Skip, RemoveCancelled, Visiting, TInv, TypeOK, Keys
    <3>2. cursor' = cursor + 1 /\ any_poll' = any_poll /\ pc' = "beat"
      BY <2>4, <3>1 DEF Skip, RemoveCancelled, Visit, Remove
    <3>3. \A k \in Keys : Ready(k)' => k # cursor /\ Ready(k)
      <4>1. CASE Skip
        BY <4>1 DEF Skip, Ready
      <4>2. CASE RemoveCancelled
        BY <3>1, <4>2 DEF RemoveCancelled, Remove, Ready, TInv, TypeOK
      <4> QED BY <2>4, <4>1, <4>2
    <3>4. \A k \in Keys : k < cursor + 1 /\ k # cursor => k < cursor
      BY <3>1 DEF Keys
    <3> QED
      BY <3>1, <3>2, <3>3, <3>4 DEF RInv, PassedInv, NoneLeftRunnable, Parked
  <2>5. CASE PollTask \/ TaskPending \/ TaskReady
    <3>1. any_poll' /\ pc' # "idle"
      BY <2>5 DEF PollTask, TaskPending, TaskReady, Remove, TInv, PollInv
    <3> QED
      BY <3>1 DEF RInv, PassedInv, NoneLeftRunnable, Parked
  <2>6. CASE Wait
    <3>1. \A k \in Keys : ~ Ready(k)
      BY <2>6, NoneReadyAtReturn DEF VInv, RInv
    <3>2. UNCHANGED <<stop, runnable>> /\ pc' = "idle"
      BY <2>6 DEF Wait, Leave
    <3>3. \A k \in Keys : GetState(k) # "Runnable"
      BY <3>1, RunnableIsReady DEF TInv
    <3>4. \A k \in Keys : GetState(k)' # "Runnable"
      BY <3>2, <3>3 DEF GetState
    <3> QED
      BY <3>2, <3>4 DEF RInv, PassedInv, NoneLeftRunnable
  <2>7. CASE Finish \/ TaskPanics \/ DropReturns
    BY <2>0, <2>7 DEF Finish, TaskPanics, DropReturns, DropDone, DropPanics, Leave, RInv,
                      PassedInv, NoneLeftRunnable, Parked
  <2> QED
    BY <2>1, <2>2, <2>3, <2>4, <2>5, <2>6, <2>7 DEF Next, Beat, TaskReturns
<1>3. R => NoneLeftRunnable
  BY DEF RInv, NoneLeftRunnable
<1> QED
  BY <1>1, <1>2, <1>3, TInvInvariant, VInvInvariant, PTL DEF Spec
----------------------------------------------------------------------------
(* A step that touches the flags of one task, and lets no other task begin *)
(* or end its turn, changes the State of that task only.                   *)
LEMMA OneStateChanges ==
  ASSUME NEW k \in Keys, \A j \in Keys \ {k} : stop'[j] = stop[j] /\ runnable'[j] = runnable[j],
         \A j \in Keys \ {k} : j = current' <=> j = current
  PROVE  States' = [States EXCEPT ![k] = States'[k]]
<1>1. \A j \in Keys \ {k} : DocState(j)' = DocState(j)
  BY DEF DocState, GetState
<1> QED BY <1>1 DEF States

(* A step that touches the flags of no task changes no State.             *)
LEMMA SameStates ==
  ASSUME \A j \in Keys : stop'[j] = stop[j] /\ runnable'[j] = runnable[j], current' = current
  PROVE  States' = States
BY DEF States, DocState, GetState

(* The State of a task in terms of its stop_reason and runnable flag.      *)
LEMMA StateIs ==
  ASSUME TypeOK, NEW k \in Keys
  PROVE  /\ stop[k] = "Vacant" <=> States[k] = "Inactive"
         /\ stop[k] = "None" <=> States[k] \in {"Runnable", "Waiting"}
         /\ stop[k] = "Suspended" <=> States[k] = "Suspended"
         /\ stop[k] = "Cancelled" <=> States[k] = "Cancelled"
         /\ stop[k] = "None" => (runnable[k] \/ k = current <=> States[k] = "Runnable")
BY DEF States, DocState, GetState, TypeOK

(* What the handle operations do is what the life cycle allows.            *)
LEMMA HandleLife == ASSUME TInv, TInv', Handle PROVE Life!Next
<1> USE DEF TInv
<1>1. ASSUME NEW k \in Keys, NEW reason \in {"None", "Suspended"}, Spawn(k, reason)
      PROVE  Life!Next
  <2>1. stop[k] = "Vacant"
    BY <1>1 DEF Spawn, Insert, Free, SlotInv, TypeOK
  <2>2. stop'[k] = reason /\ runnable'[k] = TRUE /\ current' = current
        /\ \A j \in Keys \ {k} : stop'[j] = stop[j] /\ runnable'[j] = runnable[j]
    BY <1>1 DEF Spawn, TypeOK
  <2>3. States[k] = "Inactive"
    BY <2>1, StateIs
  <2>4. States'[k] \in {"Runnable", "Suspended"}
    BY <2>2 DEF States, DocState, GetState
  <2>5. States' = [States EXCEPT ![k] = States'[k]]
    BY <2>2, OneStateChanges
  <2>6. Life!Spawn(k)
    BY <2>2, <2>3, <2>4, <2>5 DEF Life!Spawn, Life!Move
  <2> QED
    BY <2>6 DEF Life!Next
<1>2. ASSUME NEW k \in Keys, NEW r, NEW d, SetStop(k, r, d)
      PROVE  /\ current' = current /\ runnable' = runnable /\ stop'[k] = r
             /\ States' = [States EXCEPT ![k] = States'[k]]
  <2>1. current' = current /\ runnable' = runnable /\ stop'[k] = r
        /\ \A j \in Keys \ {k} : stop'[j] = stop[j]
    BY <1>2 DEF SetStop, TypeOK
  <2> QED
    BY <2>1, OneStateChanges
<1>3. ASSUME NEW k \in Keys, Suspend(k) PROVE Life!Next
  <2>1. States[k] \in {"Runnable", "Waiting"}
    BY <1>3, StateIs DEF Suspend
  <2>2. /\ current' = current /\ stop'[k] = "Suspended"
        /\ States' = [States EXCEPT ![k] = States'[k]]
    BY <1>2, <1>3 DEF Suspend
  <2>3. States'[k] = "Suspended"
    BY <2>2 DEF States, DocState, GetState
  <2>4. Life!Suspend(k)
    BY <2>1, <2>2, <2>3 DEF Life!Suspend, Life!Move
  <2> QED
    BY <2>4 DEF Life!Next
<1>4. ASSUME NEW k \in Keys, Resume(k) PROVE Life!Next
  <2>1. States[k] = "Suspended"
    BY <1>4, StateIs DEF Resume
  <2>2. /\ current' = current /\ stop'[k] = "None"
        /\ States' = [States EXCEPT ![k] = States'[k]]
    BY <1>2, <1>4 DEF Resume
  <2>3. States'[k] \in {"Runnable", "Waiting"}
    BY <2>2 DEF States, DocState, GetState
  <2>4. Life!Resume(k)
    BY <2>1, <2>2, <2>3 DEF Life!Resume, Life!Move
  <2> QED
    BY <2>4 DEF Life!Next
<1>5. ASSUME NEW k \in Keys, Cancel(k) PROVE Life!Next
  <2>1. States[k] \in {"Runnable", "Waiting", "Suspended"}
    BY <1>5, StateIs DEF Cancel
  <2>2. /\ current' = current /\ stop'[k] = "Cancelled"
        /\ States' = [States EXCEPT ![k] = States'[k]]
    BY <1>2, <1>5 DEF Cancel
  <2>3. States'[k] = "Cancelled"
    BY <2>2 DEF States, DocState, GetState
  <2>4. Life!Cancel(k)
    BY <2>1, <2>2, <2>3 DEF Life!Cancel, Life!Move
  <2> QED
    BY <2>4 DEF Life!Next
<1> QED
  BY <1>1, <1>3, <1>4, <1>5 DEF Handle

(* Setting the runnable flag of one task wakes it or shows nowhere.        *)
LEMMA WakeLife ==
  ASSUME TInv, NEW k, runnable' = [j \in Keys |-> runnable[j] \/ j = k],
         UNCHANGED <<stop, current>>
  PROVE  Life!Next \/ UNCHANGED Life!vars
<1> USE DEF TInv
<1>1. CASE k \in Keys /\ stop[k] = "None" /\ ~ runnable[k] /\ k # current
  <2>1. States[k] = "Waiting"
    BY <1>1 DEF States, DocState, GetState
  <2>2. \A j \in Keys \ {k} : stop'[j] = stop[j] /\ runnable'[j] = runnable[j]
    BY DEF TypeOK
  <2>3. runnable'[k] /\ stop'[k] = "None"
    BY <1>1
  <2>4. States'[k] = "Runnable"
    BY <1>1, <2>3 DEF States, DocState, GetState
  <2>5. States' = [States EXCEPT ![k] = States'[k]]
    BY <1>1, <2>2, OneStateChanges
  <2>6. Life!Wake(k)
    BY <2>1, <2>4, <2>5 DEF Life!Wake, Life!Move
  <2> QED
    BY <1>1, <2>6 DEF Life!Next
<1>2. CASE ~ (k \in Keys /\ stop[k] = "None" /\ ~ runnable[k] /\ k # current)
  <2>1. \A j \in Keys : /\ stop'[j] = stop[j]
                         /\ (stop[j] = "None" /\ j # current => (runnable'[j] <=> runnable[j]))
    BY <1>2 DEF TypeOK
  <2>2. States' = States
    BY <2>1 DEF States, DocState, GetState
  <2> QED
    BY <2>2 DEF Life!vars
<1> QED
  BY <1>1, <1>2

(* Removing the task at the cursor: it completed, or it was cancelled.     *)
LEMMA RemoveLife ==
  ASSUME TInv, cursor < limit, stop[cursor] # "Vacant", Remove(cursor), current' = NoKey,
         \/ current = cursor
         \/ current = NoKey /\ stop[cursor] = "Cancelled"
  PROVE  Life!Next
<1> USE DEF TInv
<1>1. cursor \in Keys /\ cursor # NoKey
  BY WheelAssumption DEF TypeOK, Keys, NoKey
<1>2. stop'[cursor] = "Vacant"
      /\ \A j \in Keys \ {cursor} : stop'[j] = stop[j] /\ runnable'[j] = runnable[j]
  BY <1>1 DEF Remove, TypeOK
<1>3. States'[cursor] = "Inactive"
  BY <1>1, <1>2 DEF States, DocState, GetState
<1>4. States' = [States EXCEPT ![cursor] = "Inactive"]
  <2>1. \A j \in Keys \ {cursor} : j = current' <=> j = current
    BY DEF Keys, NoKey
  <2> QED BY <1>1, <1>2, <1>3, <2>1, OneStateChanges
<1>5. CASE current = cursor
  <2>1. States[cursor] \in {"Runnable", "Suspended", "Cancelled"}
    BY <1>1, <1>5 DEF States, DocState, GetState, TypeOK
  <2>2. Life!Complete(cursor)
    BY <1>4, <1>5, <2>1 DEF Life!Complete, Life!Move
  <2> QED
    BY <1>1, <2>2 DEF Life!Next
<1>6. CASE current = NoKey /\ stop[cursor] = "Cancelled"
  <2>1. States[cursor] = "Cancelled"
    BY <1>1, <1>6, StateIs
  <2>2. Life!Remove(cursor)
    BY <1>4, <1>6, <2>1 DEF Life!Remove, Life!Move
  <2> QED
    BY <1>1, <2>2 DEF Life!Next
<1> QED
  BY <1>5, <1>6

(* The steps of poll_internal follow the life cycle.                       *)
LEMMA PollLife ==
  ASSUME TInv, CurrentExact, PollStart \/ Beat \/ TaskReturns \/ DropReturns
  PROVE  Life!Next \/ UNCHANGED Life!vars
<1> USE DEF TInv, taskVars
<1>1. CASE PollStart \/ Skip \/ BeatAgain \/ RegisterWaker \/ Finish \/ Wait \/ DropReturns
  <2>1. UNCHANGED <<stop, runnable, current>>
    BY <1>1 DEF PollStart, Skip, BeatAgain, RegisterWaker, Finish, Wait, DropReturns,
                DropDone, DropPanics
  <2> QED
    BY <2>1, SameStates DEF Life!vars
<1>2. CASE RemoveCancelled
  <2>1. current = NoKey
    BY <1>2 DEF RemoveCancelled, Visiting, CurrentExact
  <2> QED
    BY <1>2, <2>1, RemoveLife DEF RemoveCancelled, Visiting
<1>3. CASE PollTask
  <2>1. cursor \in Keys /\ current = NoKey
    BY <1>3, WheelAssumption DEF PollTask, Visiting, CurrentExact, TypeOK, Keys
  <2>2. States[cursor] = "Runnable"
    BY <1>3, <2>1, StateIs DEF PollTask
  <2>3. /\ stop' = stop /\ current' = cursor /\ ~ runnable'[cursor]
        /\ \A j \in Keys \ {cursor} : runnable'[j] = runnable[j]
    BY <1>3, <2>1 DEF PollTask, TypeOK
  <2>4. States'[cursor] = "Runnable"
    BY <1>3, <2>1, <2>3 DEF PollTask, States, DocState
  <2>5. States' = [States EXCEPT ![cursor] = "Runnable"]
    BY <2>1, <2>3, <2>4, OneStateChanges DEF NoKey, Keys
  <2>6. Life!Execute(cursor)
    BY <2>1, <2>2, <2>3, <2>5 DEF Life!Execute, Life!Move
  <2> QED
    BY <2>1, <2>6 DEF Life!Next
<1>4. CASE TaskPending \/ TaskPanics
  <2>1. UNCHANGED <<stop, runnable>> /\ current # NoKey /\ current' = NoKey
    BY <1>4 DEF TaskPending, TaskPanics, CurrentExact
  <2>2. current \in Keys /\ \A j \in Keys \ {current} : j = current' <=> j = current
    BY <2>1 DEF TypeOK, Keys, NoKey
  <2>3. States' = [States EXCEPT ![current] = States'[current]]
    BY <2>1, <2>2, OneStateChanges
  <2>4. \/ States'[current] = States[current]
        \/ States[current] = "Runnable" /\ States'[current] = "Waiting"
    BY <2>1, <2>2 DEF States, DocState, GetState, Keys, NoKey
  <2>5. States' = States \/ Life!Move(current, {"Runnable"}, "Waiting")
    BY <2>2, <2>3, <2>4 DEF Life!Move, States
  <2>6. Life!Yield(current)
    BY <2>1, <2>5 DEF Life!Yield
  <2> QED
    BY <2>2, <2>6 DEF Life!Next
<1>5. CASE TaskReady
  <2>1. current = cursor /\ cursor < limit /\ stop[cursor] # "Vacant"
    BY <1>5 DEF TaskReady, CurrentExact, PollInv
  <2> QED
    BY <1>5, <2>1, RemoveLife DEF TaskReady
<1> QED
  BY <1>1, <1>2, <1>3, <1>4, <1>5 DEF Beat, TaskReturns

(* The wheel implements the life cycle of TaskLifecycle: every step of the *)
(* scheduler, of user code and of waking threads is a step a task may take *)
(* or changes nothing a handle can see.                                    *)
THEOREM WheelLifecycle == Spec => Lifecycle
<1>1. Init => Life!Init
  BY DEF Init, Life!Init, States, DocState, GetState
<1>2. TInv /\ TInv' /\ CurrentExact /\ [Next]_vars => [Life!Next]_(Life!vars)
  <2> SUFFICES ASSUME TInv, TInv', CurrentExact, [Next]_vars
               PROVE  Life!Next \/ UNCHANGED Life!vars
    OBVIOUS
  <2> USE DEF taskVars
  <2>1. CASE Handle
    BY <2>1, HandleLife
  <2>2. ASSUME NEW k \in Keys \cup {NoKey}, WakeHere(k) PROVE Life!Next \/ UNCHANGED Life!vars
    BY <2>2, WakeLife DEF WakeHere
  <2>3. ASSUME NEW t \in Threads, StoreRunnable(t) PROVE Life!Next \/ UNCHANGED Life!vars
    BY <2>3, WakeLife DEF StoreRunnable
  <2>4. CASE \/ CloneWaker \/ UNCHANGED vars
             \/ \E t \in Threads : \/ Notify(t) \/ WakeOuter(t)
                                   \/ \E k \in held : BeginWake(t, k)
    <3>1. UNCHANGED <<stop, runnable, current>>
      BY <2>4 DEF CloneWaker, Notify, WakeOuter, BeginWake, vars
    <3> QED
      BY <3>1, SameStates DEF Life!vars
  <2>5. CASE PollStart \/ Beat \/ TaskReturns \/ DropReturns
    BY <2>5, PollLife
  <2> QED
    BY <2>1, <2>2, <2>3, <2>4, <2>5 DEF Next, User, Thread
<1> QED
  BY <1>1, <1>2, TInvInvariant, WheelCurrentExact, PTL DEF Spec, Lifecycle, Life!Spec
=============================================================================
