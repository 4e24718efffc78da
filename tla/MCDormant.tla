----------------------------- MODULE MCDormant -----------------------------
(* The three parts that no other code of the crate uses yet, or any more,  *)
(* in one run: they share no state, and each behaviour is one of theirs.   *)
EXTENDS AtomicMarkerOption, IrqSignal, SchedulerAlgorithm

VARIABLE part          \* whose behaviour this is

vars == <<part, marker, signal, scheduler>>

TypeOK == MarkerTypeOK /\ SignalTypeOK /\ QueueTypeOK

Init == /\ part \in {"marker", "signal", "scheduler"}
        /\ MarkerInit /\ SignalInit /\ QueueInit

Next == /\ UNCHANGED part
        /\ \/ part = "marker" /\ MarkerNext /\ UNCHANGED <<signal, scheduler>>
           \/ part = "signal" /\ SignalNext /\ UNCHANGED <<marker, scheduler>>
           \/ part = "scheduler" /\ QueueNext /\ UNCHANGED <<marker, signal>>

Spec == Init /\ [][Next]_vars /\ MarkerFairness /\ SignalFairness
============================================================================
