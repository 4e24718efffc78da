--------------------------- MODULE MCAtomicCell ---------------------------
(* Instances of AtomicCell for TLC, with values 0 .. n and the closure that *)
(* steps to the next value.                                                 *)
EXTENDS AtomicCell

CONSTANTS main, irq, other

Values3 == 0 .. 2
Rotate == {[v \in Values3 |-> (v + 1) % 3]}
NoPreemption == {}
IrqOverMain == {<<irq, main>>}
=============================================================================
