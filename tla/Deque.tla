-------------------------------- MODULE Deque --------------------------------
(* What a list promises: the values in their order, put in and taken out at  *)
(* both ends, and read by their place.                                       *)
EXTENDS Sequences, Integers

CONSTANT Values

VARIABLES values, answer

vars == <<values, answer>>

NoAnswer == <<>>

PushFront(v) == values' = <<v>> \o values /\ answer' = NoAnswer
PushBack(v) == values' = Append(values, v) /\ answer' = NoAnswer

PopFront ==
  /\ values # <<>>
  /\ values' = Tail(values)
  /\ answer' = <<Head(values)>>

PopBack ==
  /\ values # <<>>
  /\ values' = SubSeq(values, 1, Len(values) - 1)
  /\ answer' = <<values[Len(values)]>>

At(idx) ==
  /\ values' = values
  /\ answer' = <<values[idx + 1]>>

Clear == values' = <<>> /\ answer' = NoAnswer

Init == values = <<>> /\ answer = NoAnswer

Next ==
  \/ \E v \in Values : PushFront(v) \/ PushBack(v)
  \/ PopFront \/ PopBack
  \/ \E idx \in 0 .. Len(values) - 1 : At(idx)
  \/ Clear

Spec == Init /\ [][Next]_vars
=============================================================================
