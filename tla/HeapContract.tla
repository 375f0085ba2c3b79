--------------------------- MODULE HeapContract ---------------------------
(* What a caller of kmalloc, krealloc and free may rely on: the regions     *)
(* handed out, each with the header in front of it, never overlap and never *)
(* leave the heap.                                                          *)
EXTENDS Integers

CONSTANTS HeapStart, HeapSize, HeaderSize, Sizes

VARIABLE live    \* pointers held |-> sizes they were asked with

HeapEnd == HeapStart + HeapSize

\* The region of p, header included, lies before that of q.
Before(p, size, q) == p + size <= q - HeaderSize

InHeap(p, size) == HeapStart <= p - HeaderSize /\ p + size <= HeapEnd

\* p can hold size bytes without touching anything others hold.
Vacant(p, size, others) ==
  /\ InHeap(p, size)
  /\ \A q \in others : Before(p, size, q) \/ Before(q, live[q], p)

Init == live = [p \in {} |-> 0]

Hand(p, size) ==
  /\ Vacant(p, size, DOMAIN live \ {p})
  /\ live' = [q \in DOMAIN live \cup {p} |-> IF q = p THEN size ELSE live[q]]

Malloc(p, size) == p \notin DOMAIN live /\ Hand(p, size)

Resize(p, size) == p \in DOMAIN live /\ Hand(p, size)

Free(p) ==
  /\ p \in DOMAIN live
  /\ live' = [q \in DOMAIN live \ {p} |-> live[q]]

Next ==
  \E p \in HeapStart .. HeapEnd :
    \/ \E size \in Sizes : Malloc(p, size) \/ Resize(p, size)
    \/ Free(p)

Spec == Init /\ [][Next]_live
=============================================================================
