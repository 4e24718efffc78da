------------------------------ MODULE SlabMap ------------------------------
(***************************************************************************)
(* What a slab promises: a map from keys to values in which inserting      *)
(* gives the value an unused key and no operation touches the value of     *)
(* another key.                                                            *)
(***************************************************************************)
CONSTANTS Keys, Values, NoValue

VARIABLE map   \* map[k]: the value with key k, or NoValue

Init == map = [k \in Keys |-> NoValue]

Insert(k, v) == /\ map[k] = NoValue
                /\ map' = [map EXCEPT ![k] = v]

Remove(k) == /\ map[k] # NoValue
             /\ map' = [map EXCEPT ![k] = NoValue]

Clear == map' = [k \in Keys |-> NoValue]

Next == \/ \E k \in Keys : Remove(k) \/ \E v \in Values : Insert(k, v)
        \/ Clear

Spec == Init /\ [][Next]_map
=============================================================================
