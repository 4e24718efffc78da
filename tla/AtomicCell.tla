---------------------------- MODULE AtomicCell ----------------------------
(***************************************************************************)
(* utils::AtomicCell<T>: a value guarded by an atomic flag `mark` that the *)
(* callers acquire with compare_exchange_weak.  The content is read and    *)
(* written by separate volatile accesses, so each is a step of its own.    *)
(*                                                                         *)
(* compare_exchange_weak may fail although the flag is clear (it does on   *)
(* LL/SC targets).  It then returns Err(false), which                      *)
(* `res.unwrap_or_else(identity)` turns into `false`, the value the code   *)
(* takes for success: the caller goes on without having set the mark.      *)
(* SpuriousFail says whether the target has that behaviour.                *)
(***************************************************************************)
EXTENDS Naturals

CONSTANTS Procs,         \* threads and interrupt handlers that share the cell
          Values,        \* the values of type T
          Funcs,         \* closures handed to apply and try_apply
          SpuriousFail,  \* may compare_exchange_weak fail on a clear mark?
          Preempts       \* <<i, m>>: i is an interrupt handler that stops m

ASSUME CellAssumption == /\ Funcs \subseteq [Values -> Values]
                         /\ SpuriousFail \in BOOLEAN
                         /\ Preempts \subseteq Procs \X Procs

VARIABLES mark,     \* AtomicCell::mark
          cell,     \* AtomicCell::cell
          hand,     \* hand[p]: the value p owns, its argument of a swap
          op,       \* op[p]: the operation p called last
          func,     \* func[p]: the closure of p's last apply or try_apply
          pc,       \* pc[p]: where p is in its call
          first,    \* first[p]: the local `first`
          outcome   \* outcome[p]: how p's call ended

vars == <<mark, cell, hand, op, func, pc, first, outcome>>

SwapOps == {"swap", "try_swap"}
ApplyOps == {"apply", "try_apply"}
TryOps == {"try_swap", "try_apply"}
Steps == {"idle", "cas", "read", "write", "unlock", "ret"}

TypeOK == /\ mark \in BOOLEAN
          /\ cell \in Values
          /\ hand \in [Procs -> Values]
          /\ op \in [Procs -> SwapOps \cup ApplyOps]
          /\ func \in [Procs -> [Values -> Values]]
          /\ pc \in [Procs -> Steps]
          /\ first \in [Procs -> Values]
          /\ outcome \in [Procs -> {"none", "ok", "err", "panic"}]

\* The values in existence when the cell is created are different objects.
Init == /\ mark = FALSE
        /\ cell \in Values
        /\ hand \in [Procs -> Values \ {cell}]
        /\ \A p, q \in Procs : hand[p] = hand[q] => p = q
        /\ op = [p \in Procs |-> "swap"]
        /\ func = [p \in Procs |-> [v \in Values |-> v]]
        /\ pc = [p \in Procs |-> "idle"]
        /\ first = hand
        /\ outcome = [p \in Procs |-> "none"]

\* p is stopped while an interrupt handler that preempts it is in a call.
MayStep(p) == \A i \in Procs : <<i, p>> \in Preempts => pc[i] = "idle"

Goto(p, step) == pc' = [pc EXCEPT ![p] = step]

InvokeSwap(p, o) == /\ pc[p] = "idle"
                    /\ MayStep(p)
                    /\ Goto(p, "cas")
                    /\ op' = [op EXCEPT ![p] = o]
                    /\ outcome' = [outcome EXCEPT ![p] = "none"]
                    /\ UNCHANGED <<mark, cell, hand, func, first>>

InvokeApply(p, o, f) == /\ pc[p] = "idle"
                        /\ MayStep(p)
                        /\ Goto(p, "cas")
                        /\ op' = [op EXCEPT ![p] = o]
                        /\ func' = [func EXCEPT ![p] = f]
                        /\ outcome' = [outcome EXCEPT ![p] = "none"]
                        /\ UNCHANGED <<mark, cell, hand, first>>

\* mark.compare_exchange_weak(false, true, ..)
\* Mutant: a plain store instead of the compare_exchange.
CasOkUnguarded(p) == /\ pc[p] = "cas"
                     /\ MayStep(p)
                     /\ mark' = TRUE
                     /\ Goto(p, "read")
                     /\ UNCHANGED <<cell, hand, op, func, first, outcome>>

\* The mark is clear: the exchange succeeds, or fails spuriously.
CasOk(p) == /\ pc[p] = "cas"
            /\ MayStep(p)
            /\ mark = FALSE
            /\ mark' \in {TRUE, ~ SpuriousFail}
            /\ Goto(p, "read")
            /\ UNCHANGED <<cell, hand, op, func, first, outcome>>

\* Mutant: the try operations go back to the compare_exchange.
CasErrRetries(p) == /\ pc[p] = "cas"
                    /\ MayStep(p)
                    /\ mark = TRUE
                    /\ op[p] \in TryOps
                    /\ UNCHANGED vars

\* try_swap and try_apply give up when they meet the mark.
CasErr(p) == /\ pc[p] = "cas"
             /\ MayStep(p)
             /\ mark = TRUE
             /\ op[p] \in TryOps
             /\ outcome' = [outcome EXCEPT ![p] = "err"]
             /\ Goto(p, "ret")
             /\ UNCHANGED <<mark, cell, hand, op, func, first>>

\* The busy loop of swap and apply tries again.
CasRetry(p) == /\ pc[p] = "cas"
               /\ MayStep(p)
               /\ mark = TRUE
               /\ op[p] \notin TryOps
               /\ UNCHANGED vars

Read(p) == /\ pc[p] = "read"
           /\ MayStep(p)
           /\ first' = [first EXCEPT ![p] = cell]
           /\ Goto(p, "write")
           /\ UNCHANGED <<mark, cell, hand, op, func, outcome>>

\* The new value moves into the cell, and `first` now belongs to the caller.
WriteSwap(p) == /\ pc[p] = "write"
                /\ MayStep(p)
                /\ op[p] \in SwapOps
                /\ cell' = hand[p]
                /\ hand' = [hand EXCEPT ![p] = first[p]]
                /\ outcome' = [outcome EXCEPT ![p] = "ok"]
                /\ Goto(p, "unlock")
                /\ UNCHANGED <<mark, op, func, first>>

\* func(&mut first) returned: the modified copy is written back.
WriteApply(p) == /\ pc[p] = "write"
                 /\ MayStep(p)
                 /\ op[p] \in ApplyOps
                 /\ cell' = func[p][first[p]]
                 /\ outcome' = [outcome EXCEPT ![p] = "ok"]
                 /\ Goto(p, "unlock")
                 /\ UNCHANGED <<mark, hand, op, func, first>>

\* Mutant: the closure works on the cell and not on a local copy.
FuncPanicsInPlace(p) == /\ pc[p] = "write"
                        /\ MayStep(p)
                        /\ op[p] \in ApplyOps
                        /\ cell' = func[p][first[p]]
                        /\ outcome' = [outcome EXCEPT ![p] = "panic"]
                        /\ Goto(p, "unlock")
                        /\ UNCHANGED <<mark, hand, op, func, first>>

\* Mutant: no UnwindGuard, a panic leaves the mark set.
FuncPanicsUnguarded(p) == /\ pc[p] = "write"
                          /\ MayStep(p)
                          /\ op[p] \in ApplyOps
                          /\ outcome' = [outcome EXCEPT ![p] = "panic"]
                          /\ Goto(p, "ret")
                          /\ UNCHANGED <<mark, cell, hand, op, func, first>>

\* func panicked: unwinding skips the write and drops UnwindGuard.
FuncPanics(p) == /\ pc[p] = "write"
                 /\ MayStep(p)
                 /\ op[p] \in ApplyOps
                 /\ outcome' = [outcome EXCEPT ![p] = "panic"]
                 /\ Goto(p, "unlock")
                 /\ UNCHANGED <<mark, cell, hand, op, func, first>>

Unlock(p) == /\ pc[p] = "unlock"
             /\ MayStep(p)
             /\ mark' = FALSE
             /\ Goto(p, "ret")
             /\ UNCHANGED <<cell, hand, op, func, first, outcome>>

Return(p) == /\ pc[p] = "ret"
             /\ MayStep(p)
             /\ Goto(p, "idle")
             /\ UNCHANGED <<mark, cell, hand, op, func, first, outcome>>

\* get_mut: `&mut self` proves there is no call in progress.
GetMut(p) == /\ \A q \in Procs : pc[q] = "idle"
             /\ cell' = hand[p]
             /\ hand' = [hand EXCEPT ![p] = cell]
             /\ UNCHANGED <<mark, op, func, pc, first, outcome>>

Invoke(p) == \/ \E o \in SwapOps : InvokeSwap(p, o)
             \/ \E o \in ApplyOps, f \in Funcs : InvokeApply(p, o, f)

\* The steps of a call that has begun.
Step(p) == \/ CasOk(p) \/ CasErr(p) \/ CasRetry(p)
           \/ Read(p) \/ WriteSwap(p) \/ WriteApply(p) \/ FuncPanics(p)
           \/ Unlock(p) \/ Return(p)

Next == \E p \in Procs : Invoke(p) \/ Step(p) \/ GetMut(p)

Spec == Init /\ [][Next]_vars

(* A processor keeps executing the code it runs; nothing is assumed about  *)
(* who wins the race for the mark.                                         *)
Fairness == \A p \in Procs : WF_vars(Step(p))

FairSpec == Spec /\ Fairness
----------------------------------------------------------------------------
Inside(p) == pc[p] \in {"read", "write", "unlock"}

(* "we know for sure we are only thread writing to this location"          *)
(* (cell.rs, try_swap and try_apply): between the compare_exchange and the *)
(* release at most one process is at the cell.                             *)
MutualExclusion == \A p, q \in Procs : Inside(p) /\ Inside(q) => p = q

\* A call takes effect at its write step, or when it fails.
CallStatus == [p \in Procs |->
                 CASE pc[p] = "idle" -> "idle"
                   [] pc[p] \in {"cas", "read", "write"} -> "pending"
                   [] pc[p] \in {"unlock", "ret"} -> "done"]

Abstract == INSTANCE AtomicSwap WITH value <- cell, status <- CallStatus

(* swap, try_swap, apply and try_apply are atomic: each takes effect at    *)
(* one instant, a closure that panics leaves the value as it was, and only *)
(* a try operation gives up, while some other call is in progress.         *)
Linearizable == Abstract!Spec

(* A caller in the busy loop of swap or apply implies that some call gets  *)
(* out of the cell: "without using locks" (cell.rs, AtomicCell).           *)
SomeCallCompletes == (\E p \in Procs : pc[p] = "cas") ~> (\E p \in Procs : pc[p] = "ret")

(* try_swap and try_apply end however often they meet the mark: they do    *)
(* not have to win it against the other callers, as swap and apply do, who *)
(* may lose for ever.  An interrupt handler still stops the caller itself. *)
TryReturns == \A p \in Procs : (\A i \in Procs : <<i, p>> \notin Preempts)
                => (pc[p] = "cas" /\ op[p] \in TryOps ~> pc[p] = "ret")
=============================================================================
