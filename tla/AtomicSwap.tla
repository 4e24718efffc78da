---------------------------- MODULE AtomicSwap ----------------------------
(***************************************************************************)
(* What juggle's AtomicCell promises its callers: every swap, try_swap,    *)
(* apply and try_apply takes effect at one instant between its call and    *)
(* its return.  The cell holds one value; every process owns one value,    *)
(* the one it would pass to its next swap.                                 *)
(***************************************************************************)
CONSTANTS Procs,   \* threads and interrupt handlers that share the cell
          Values,  \* the values of type T
          Funcs    \* the closures handed to apply and try_apply

VARIABLES value,   \* the value in the cell
          hand,    \* hand[p]: the value process p owns
          op,      \* op[p]: the operation p called last
          func,    \* func[p]: the closure of p's last apply or try_apply
          status,  \* status[p]: no call, a call to take effect, a call to return
          outcome  \* outcome[p]: how p's call ends

vars == <<value, hand, op, func, status, outcome>>

SwapOps == {"swap", "try_swap"}
ApplyOps == {"apply", "try_apply"}
TryOps == {"try_swap", "try_apply"}

Init == /\ value \in Values
        /\ hand \in [Procs -> Values]
        /\ op = [p \in Procs |-> "swap"]
        /\ func = [p \in Procs |-> [v \in Values |-> v]]
        /\ status = [p \in Procs |-> "idle"]
        /\ outcome = [p \in Procs |-> "none"]

Invoke(p, o, f) == /\ status[p] = "idle"
                   /\ o \in ApplyOps => f \in Funcs
                   /\ op' = [op EXCEPT ![p] = o]
                   /\ func' = [func EXCEPT ![p] = f]
                   /\ status' = [status EXCEPT ![p] = "pending"]
                   /\ outcome' = [outcome EXCEPT ![p] = "none"]
                   /\ UNCHANGED <<value, hand>>

Finish(p, how) == /\ status[p] = "pending"
                  /\ status' = [status EXCEPT ![p] = "done"]
                  /\ outcome' = [outcome EXCEPT ![p] = how]
                  /\ UNCHANGED <<op, func>>

\* The instant at which a swap exchanges the caller's value for the cell's.
SwapNow(p) == /\ op[p] \in SwapOps
              /\ Finish(p, "ok")
              /\ value' = hand[p]
              /\ hand' = [hand EXCEPT ![p] = value]

\* The instant at which a closure is applied to the value in the cell.
ApplyNow(p) == /\ op[p] \in ApplyOps
               /\ Finish(p, "ok")
               /\ value' = func[p][value]
               /\ UNCHANGED hand

\* The closure panics: the value is the one from before the call.
Panic(p) == /\ op[p] \in ApplyOps
            /\ Finish(p, "panic")
            /\ UNCHANGED <<value, hand>>

\* Only the try operations may give up, and only while another call runs.
GiveUp(p) == /\ op[p] \in TryOps
             /\ \E q \in Procs \ {p} : status[q] # "idle"
             /\ Finish(p, "err")
             /\ UNCHANGED <<value, hand>>

Return(p) == /\ status[p] = "done"
             /\ status' = [status EXCEPT ![p] = "idle"]
             /\ UNCHANGED <<value, hand, op, func, outcome>>

\* Exclusive access (`&mut`): the owner exchanges the content directly.
Exclusive(p) == /\ \A q \in Procs : status[q] = "idle"
                /\ value' = hand[p]
                /\ hand' = [hand EXCEPT ![p] = value]
                /\ UNCHANGED <<op, func, status, outcome>>

Next == \E p \in Procs :
           \/ \E o \in SwapOps \cup ApplyOps, f \in [Values -> Values] : Invoke(p, o, f)
           \/ SwapNow(p) \/ ApplyNow(p) \/ Panic(p) \/ GiveUp(p)
           \/ Return(p) \/ Exclusive(p)

Spec == Init /\ [][Next]_vars
=============================================================================
