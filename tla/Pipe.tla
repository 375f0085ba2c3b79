-------------------------------- MODULE Pipe --------------------------------
(* What a fifo promises its readers and writers: bytes leave it in the order *)
(* they went in, each of them once, and nothing leaves it that did not go in.*)
EXTENDS Sequences, Integers

CONSTANTS Bytes, MaxBytes

VARIABLES contents, answer

vars == <<contents, answer>>

Chunks == UNION {[1 .. n -> Bytes] : n \in 0 .. MaxBytes}

Write(chunk) ==
  /\ contents' = contents \o chunk
  /\ answer' = <<>>

Read(n) ==
  /\ n <= Len(contents)
  /\ answer' = SubSeq(contents, 1, n)
  /\ contents' = SubSeq(contents, n + 1, Len(contents))

Refuse ==
  /\ answer' = <<>>
  /\ contents' = contents

Init == contents = <<>> /\ answer = <<>>

Next ==
  \/ \E chunk \in Chunks : Write(chunk)
  \/ \E n \in 0 .. MaxBytes : Read(n)
  \/ Refuse

Spec == Init /\ [][Next]_vars
=============================================================================
