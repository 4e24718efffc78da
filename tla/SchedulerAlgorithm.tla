------------------------- MODULE SchedulerAlgorithm -------------------------
(***************************************************************************)
(* dy::SchedulerAlgorithm, the algorithm with two queues that              *)
(* UnorderedAlgorithm replaced: a beat takes the tasks of one queue in     *)
(* turn and puts those that are runnable again into the other one;         *)
(* `deferred` holds the tasks that wait for an event.                      *)
(* Between two points where a task or another thread comes in the          *)
(* scheduler makes one step.  A wake is one step here (Wheel has its two   *)
(* halves), and destructors of futures do not use handles.  An internal    *)
(* panic ("unwound") and an endless loop ("stuck") end the behaviour.      *)
(***************************************************************************)
EXTENDS Integers, SequencesExt

CONSTANTS TaskKeys,
          NoTask,      \* `current` when no task is polled
          MaxQueued,   \* bound: keys that register and resume find in the queues
          MaxLeaked    \* bound: tasks that finish while suspended

VARIABLES reason,      \* reason[k]: the stop reason, or "Vacant"
          runnable,    \* runnable[k]: the flag that wakers set
          queue,       \* SchedulerAlgorithm::runnable, queue[which] and queue[~ which]
          which,       \* which_buffer
          deferred, suspended_count, scan_registry, current, last_waker,
          at,          \* the position in poll_internal
          verdict,     \* what the last poll returned
          leaked,      \* history: how many tasks finished while suspended
          panicked     \* history: tasks that panicked and were not resumed since

handles == <<reason, deferred, suspended_count, scan_registry>>
queues == <<queue, which, deferred>>
scheduler == <<reason, runnable, queue, which, deferred, suspended_count, scan_registry,
               current, last_waker, at, verdict, leaked, panicked>>

QueueTypeOK ==
  /\ reason \in [TaskKeys -> {"Vacant", "None", "Suspended", "Cancelled"}]
  /\ runnable \in [TaskKeys -> BOOLEAN]
  /\ \A b \in BOOLEAN : queue[b] \in Seq(TaskKeys)
  /\ which \in BOOLEAN /\ scan_registry \in BOOLEAN
  /\ deferred \in Seq(TaskKeys)
  /\ suspended_count \in Nat /\ leaked \in Nat
  /\ current \in TaskKeys \cup {NoTask}
  /\ last_waker \in {"empty", "registered", "notified"}
  /\ at \in {"idle", "process", "register", "again", "rotate", "poll", "stuck", "unwound"}
  /\ verdict \in {"None", "Pending", "Finished", "Suspended"}
  /\ panicked \subseteq TaskKeys

QueueInit ==
  /\ reason = [k \in TaskKeys |-> "Vacant"]
  /\ runnable = [k \in TaskKeys |-> FALSE]
  /\ queue = [b \in BOOLEAN |-> <<>>] /\ which = FALSE
  /\ deferred = <<>> /\ suspended_count = 0 /\ scan_registry = FALSE
  /\ current = NoTask /\ last_waker = "empty"
  /\ at = "idle" /\ verdict = "None" /\ leaked = 0 /\ panicked = {}

from == queue[which]
to == queue[~ which]
Has(s, k) == k \in ToSet(s)
Room == Len(from) + Len(to) + Len(deferred) <= MaxQueued
Queued(k) == Has(from, k) \/ Has(to, k) \/ Has(deferred, k)

\* Vec::retain: the elements of s that are in S, in their order.  The new place
\* of one is the number of retained elements up to it.
Retained(s, S) ==
  LET kept == {i \in DOMAIN s : s[i] \in S}
      Nth(n) == CHOOSE i \in kept : Cardinality({j \in kept : j <= i}) = n
  IN  [n \in 1 .. Cardinality(kept) |-> s[Nth(n)]]
----------------------------------------------------------------------------
\* What tasks, and the code between polls, do with handles.
HandleUsed == at \in {"idle", "poll"}
              /\ UNCHANGED <<which, current, last_waker, at, verdict, leaked>>

SetReason(k, r) == reason' = [reason EXCEPT ![k] = r]
enqueue_runnable(k) == queue' = [queue EXCEPT ![~ which] = Append(@, k)]

Register(k, r) ==
  /\ HandleUsed /\ Room /\ reason[k] = "Vacant" /\ r \in {"None", "Suspended"}
  /\ SetReason(k, r)
  /\ runnable' = [runnable EXCEPT ![k] = TRUE]
  /\ IF r = "Suspended" THEN suspended_count' = suspended_count + 1 /\ UNCHANGED queue
                        ELSE enqueue_runnable(k) /\ UNCHANGED suspended_count
  /\ panicked' = panicked \ {k}
  /\ UNCHANGED <<deferred, scan_registry>>

\* A task in neither queue that still waits goes back to `deferred`.
Resume(k) ==
  /\ HandleUsed /\ Room /\ reason[k] = "Suspended"
  /\ SetReason(k, "None")
  /\ suspended_count' = suspended_count - 1
  /\ IF runnable[k] \/ current = k
     THEN /\ IF Has(to, k) THEN UNCHANGED queue ELSE enqueue_runnable(k)
          /\ UNCHANGED deferred
     ELSE /\ deferred' = IF Has(deferred, k) THEN deferred ELSE Append(deferred, k)
          /\ UNCHANGED queue
  /\ panicked' = panicked \ {k}
  /\ UNCHANGED <<runnable, scan_registry>>

Suspend(k) ==
  /\ HandleUsed /\ reason[k] = "None"
  /\ SetReason(k, "Suspended")
  /\ suspended_count' = suspended_count + 1
  /\ deferred' = IF runnable[k] THEN deferred ELSE RemoveFirst(deferred, k)
  /\ UNCHANGED <<runnable, queue, scan_registry, panicked>>

\* Mutant: counts down for every task.
CancelCountsAny(k) ==
  /\ HandleUsed /\ reason[k] \in {"None", "Suspended"}
  /\ SetReason(k, "Cancelled")
  /\ suspended_count' = suspended_count - 1
  /\ scan_registry' = (scan_registry \/ reason[k] = "Suspended")
  /\ UNCHANGED <<runnable, queue, deferred, panicked>>

Cancel(k) ==
  /\ HandleUsed /\ reason[k] \in {"None", "Suspended"}
  /\ SetReason(k, "Cancelled")
  /\ IF reason[k] = "Suspended"
     THEN suspended_count' = suspended_count - 1 /\ scan_registry' = TRUE
     ELSE UNCHANGED <<suspended_count, scan_registry>>
  /\ UNCHANGED <<runnable, queue, deferred, panicked>>

\* A waker runs on any thread.
WakeTask(k) ==
  /\ reason[k] # "Vacant"
  /\ runnable' = [runnable EXCEPT ![k] = TRUE]
  /\ last_waker' = IF last_waker = "registered" THEN "notified" ELSE last_waker
  /\ UNCHANGED <<handles, queue, which, current, at, verdict, leaked, panicked>>
----------------------------------------------------------------------------
\* drain_runnable: suspended keys are dropped, cancelled tasks removed,
\* runnable ones move to `from`.
StaysDeferred(k) == reason[k] = "None" /\ ~ runnable[k]
MovesOut(k) == reason[k] = "None" /\ runnable[k]
drain_runnable ==
  /\ deferred' = Retained(deferred, {k \in TaskKeys : StaysDeferred(k)})
  /\ queue' = [queue EXCEPT ![which] = @ \o Retained(deferred, {k \in TaskKeys : MovesOut(k)})]
  /\ reason' = [k \in TaskKeys |-> IF Has(deferred, k) /\ reason[k] = "Cancelled"
                                   THEN "Vacant" ELSE reason[k]]
Drained == \E k \in ToSet(deferred) : ~ StaysDeferred(k)
\* The unwrap of a key that is not registered (any more).
DrainUnwinds == \E i \in DOMAIN deferred :
                  \/ reason[deferred[i]] = "Vacant"
                  \/ reason[deferred[i]] = "Cancelled"
                       /\ \E j \in 1 .. (i - 1) : deferred[j] = deferred[i]

Unwind == /\ at' = "unwound"
          /\ UNCHANGED <<handles, runnable, queue, which, current, last_waker, verdict, leaked, panicked>>

PollBegin == /\ at = "idle" /\ at' = "process"
             /\ last_waker' = "empty" /\ verdict' = "None"
             /\ UNCHANGED <<handles, runnable, queue, which, current, leaked, panicked>>

\* process_tasks up to the registration of the waker.
ProcessTasks ==
  /\ at = "process"
  /\ IF DrainUnwinds THEN Unwind
     ELSE /\ drain_runnable
          /\ at' = IF deferred # <<>> /\ ~ Drained /\ from = <<>> /\ to = <<>>
                   THEN "register" ELSE "rotate"
          /\ UNCHANGED <<runnable, which, suspended_count, scan_registry, current, last_waker, verdict, leaked, panicked>>

RegisterWaker == /\ at = "register" /\ at' = "again"
                 /\ last_waker' = "registered"
                 /\ UNCHANGED <<handles, runnable, queue, which, current, verdict, leaked, panicked>>

\* Mutant: waits without another look at the tasks.
CheckAgainNot ==
  /\ at = "again" /\ at' = "idle"
  /\ verdict' = "Pending" /\ which' = ~ which
  /\ UNCHANGED <<handles, runnable, queue, last_waker, current, leaked, panicked>>

\* The second look: Pending, or the waker is taken back.
CheckAgain ==
  /\ at = "again"
  /\ drain_runnable
  /\ IF Drained THEN /\ at' = "rotate" /\ last_waker' = "empty"
                     /\ UNCHANGED <<which, verdict>>
                ELSE /\ at' = "idle" /\ verdict' = "Pending" /\ which' = ~ which
                     /\ UNCHANGED last_waker
  /\ UNCHANGED <<runnable, suspended_count, scan_registry, current, leaked, panicked>>
----------------------------------------------------------------------------
\* rotate_once.  The key at the front stays there until its task was polled.
run_key == Head(from)
Rotating == at = "rotate" /\ from # <<>>

\* The front was removed before: "unknown task in queue".
RotateUnwinds == Rotating /\ reason[run_key] = "Vacant" /\ Unwind

\* `continue` does not remove a key from the queue: a suspended task at the
\* front is looked at for ever.
RotateSpins == /\ Rotating /\ reason[run_key] = "Suspended" /\ at' = "stuck"
               /\ UNCHANGED <<handles, runnable, queue, which, current, last_waker, verdict, leaked, panicked>>

RotateCancelled == /\ Rotating /\ reason[run_key] = "Cancelled"
                   /\ SetReason(run_key, "Vacant")
                   /\ UNCHANGED <<runnable, queues, suspended_count, scan_registry, current, last_waker, at, verdict, leaked, panicked>>

PollTask == /\ Rotating /\ reason[run_key] = "None"
            /\ current' = run_key /\ at' = "poll"
            /\ runnable' = [runnable EXCEPT ![run_key] = FALSE]
            /\ UNCHANGED <<handles, queue, which, last_waker, verdict, leaked, panicked>>

\* Guard::drop.  Handles never change `from`, so the key is still its front.
GuardDrop(requeued) == /\ at = "poll" /\ current' = NoTask
                       /\ queue' = [queue EXCEPT ![which] = Tail(@), ![~ which] = @ \o requeued]
                       /\ UNCHANGED <<runnable, which, suspended_count, scan_registry, last_waker, verdict>>

\* The task is Ready, or was cancelled during its poll.
TaskRemoved == /\ reason[current] = "Suspended" => leaked < MaxLeaked
               /\ GuardDrop(<<>>) /\ at' = "rotate"
               /\ SetReason(current, "Vacant")
               /\ leaked' = leaked + (IF reason[current] = "Suspended" THEN 1 ELSE 0)
               /\ UNCHANGED <<deferred, panicked>>

\* Mutant: a task that waits is put nowhere.
TaskPendingForgotten == /\ reason[current] # "Cancelled" /\ at' = "rotate"
                        /\ GuardDrop(IF MovesOut(current) THEN <<current>> ELSE <<>>)
                        /\ UNCHANGED <<reason, deferred, leaked, panicked>>

\* The task is Pending.
TaskPending == /\ at = "poll" /\ reason[current] # "Cancelled" /\ at' = "rotate"
               /\ GuardDrop(IF MovesOut(current) THEN <<current>> ELSE <<>>)
               /\ deferred' = IF StaysDeferred(current) THEN Append(deferred, current) ELSE deferred
               /\ UNCHANGED <<reason, leaked, panicked>>

\* The panic unwinds through poll_internal.
TaskPanics == /\ GuardDrop(<<>>) /\ at' = "idle"
              /\ panicked' = panicked \cup {current}
              /\ UNCHANGED <<reason, deferred, leaked>>

\* poll_internal after a beat: the buffers swap, and the loop goes on with what
\* is now in `from` unless nothing is left.
NextTurn == /\ which' = ~ which
            /\ IF queue'[~ which] = <<>> /\ deferred = <<>>
               THEN /\ at' = "idle"
                    /\ verdict' = IF suspended_count # 0 THEN "Suspended" ELSE "Finished"
                    /\ UNCHANGED last_waker
               ELSE /\ at' = "process" /\ last_waker' = "empty"
                    /\ UNCHANGED verdict

\* The end of rotate_once, with the scan of the registry.
NotCancelled(k) == reason[k] # "Cancelled"
RotateEnd ==
  /\ at = "rotate" /\ from = <<>>
  /\ IF scan_registry /\ \E k \in ToSet(to) : reason[k] = "Vacant"
     THEN Unwind
     ELSE /\ queue' = IF scan_registry
                      THEN [queue EXCEPT ![~ which] = Retained(@, {k \in TaskKeys : NotCancelled(k)})]
                      ELSE queue
          /\ reason' = [k \in TaskKeys |-> IF scan_registry /\ ~ NotCancelled(k) THEN "Vacant" ELSE reason[k]]
          /\ scan_registry' = FALSE
          /\ NextTurn
          /\ UNCHANGED <<runnable, deferred, suspended_count, current, leaked, panicked>>

TaskReturns == at = "poll" /\ (TaskRemoved \/ TaskPending \/ TaskPanics)
Rotate == RotateUnwinds \/ RotateSpins \/ RotateCancelled \/ PollTask \/ RotateEnd

QueueNext ==
  \/ \E k \in TaskKeys : \/ \E r \in {"None", "Suspended"} : Register(k, r)
                         \/ Resume(k) \/ Suspend(k) \/ Cancel(k) \/ WakeTask(k)
  \/ PollBegin \/ ProcessTasks \/ RegisterWaker \/ CheckAgain \/ Rotate \/ TaskReturns

QueueSpec == QueueInit /\ [][QueueNext]_scheduler
----------------------------------------------------------------------------
\* A task that may still run, or has still to be removed, is in a queue or in
\* `deferred`, or the scan of the registry finds it, whatever its handles did
\* while it was queued, deferred or polled; only a panic takes it out.
NeverLost == \A k \in TaskKeys \ panicked :
  \/ reason[k] \in {"None", "Cancelled"} => Queued(k)
  \/ reason[k] = "Cancelled" /\ scan_registry

\* What poll_internal returns is true.  Pending: a waker is registered or was
\* used since, and no task that may run is runnable.  Ready(true): all tasks
\* finished; Ready(false): what is left is suspended (a task that finished
\* suspended stays counted).
PollReturnsTrue ==
  [][at' = "idle" /\ at # "poll" /\ at # "idle" =>
       \/ /\ verdict' = "Pending" /\ last_waker' # "empty"
          /\ \A k \in TaskKeys \ panicked : ~ MovesOut(k)
       \/ /\ verdict' \in {"Finished", "Suspended"}
          /\ \A k \in TaskKeys \ panicked : reason'[k] \in {"Vacant", "Suspended"}
          /\ verdict' = "Finished" <=> (leaked = 0 /\ \A k \in TaskKeys : reason'[k] # "Suspended")]_scheduler
============================================================================
