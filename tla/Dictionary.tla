------------------------------ MODULE Dictionary ------------------------------
(* What a map promises: get finds the value that was set for a key, and no   *)
(* other key has anything to do with it.  A key keeps its first value.       *)
CONSTANTS Keys, Values, None

VARIABLES map, answer

vars == <<map, answer>>

Set(k, v) ==
  /\ map' = [map EXCEPT ![k] = IF @ = None THEN v ELSE @]
  /\ answer' = None

Get(k) == map' = map /\ answer' = map[k]

Init == map = [k \in Keys |-> None] /\ answer = None

Next == \E k \in Keys : Get(k) \/ \E v \in Values : Set(k, v)

Spec == Init /\ [][Next]_vars
=============================================================================
