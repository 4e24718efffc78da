--------------------------- MODULE TaskLifecycle ---------------------------
(***************************************************************************)
(* What the docs of State and WheelHandle promise about a task: the states *)
(* it goes through, who may move it, and that one task at a time executes, *)
(* only when it is its turn.                                               *)
(***************************************************************************)
CONSTANTS Keys,   \* identifiers of tasks
          None    \* no task executes

VARIABLES state,     \* state[k]: the State of the task with identifier k
          executing  \* the task that executes, or None

vars == <<state, executing>>

Init == /\ state = [k \in Keys |-> "Inactive"]
        /\ executing = None

Move(k, from, to) == /\ state[k] \in from
                     /\ state' = [state EXCEPT ![k] = to]

Spawn(k) == /\ \E to \in {"Runnable", "Suspended"} : Move(k, {"Inactive"}, to)
            /\ UNCHANGED executing

Wake(k) == Move(k, {"Waiting"}, "Runnable") /\ UNCHANGED executing

Suspend(k) == Move(k, {"Runnable", "Waiting"}, "Suspended") /\ UNCHANGED executing

\* "It will change state to `Runnable` or `Waiting`"
Resume(k) == /\ \E to \in {"Runnable", "Waiting"} : Move(k, {"Suspended"}, to)
             /\ UNCHANGED executing

Cancel(k) == /\ Move(k, {"Runnable", "Waiting", "Suspended"}, "Cancelled")
             /\ UNCHANGED executing

\* The scheduler removes a cancelled task between the turns of the others.
Remove(k) == /\ executing = None
             /\ Move(k, {"Cancelled"}, "Inactive")
             /\ UNCHANGED executing

\* "Task is currently executing or waiting for its turn to execute": it is
\* and stays Runnable.
Execute(k) == /\ executing = None
              /\ Move(k, {"Runnable"}, "Runnable")
              /\ executing' = k

\* The turn of the executing task ends and it stays in the scheduler, waiting
\* for an event unless it was woken, suspended or cancelled meanwhile ...
Yield(k) == /\ executing = k
            /\ executing' = None
            /\ UNCHANGED state \/ Move(k, {"Runnable"}, "Waiting")

\* ... or it is over and leaves it, whatever was done to it meanwhile.
Complete(k) == /\ executing = k
               /\ Move(k, {"Runnable", "Suspended", "Cancelled"}, "Inactive")
               /\ executing' = None

Next == \E k \in Keys : \/ Spawn(k) \/ Wake(k) \/ Suspend(k) \/ Resume(k) \/ Cancel(k)
                        \/ Remove(k) \/ Execute(k) \/ Yield(k) \/ Complete(k)

Spec == Init /\ [][Next]_vars
=============================================================================
