----------------------------- MODULE LinkedList -----------------------------
(* util::list (list.h): nodes in kernel heap memory, linked both ways, with  *)
(* a pointer to the first.  A node that is deleted keeps what it holds until *)
(* the heap gives its memory to the next node, which may be any free one.    *)
EXTENDS Integers, Sequences, FiniteSets

CONSTANTS
  Nodes,     \* addresses of nodes
  Values,    \* what is put into the list
  Calls,     \* the operations a client uses
  MinPop     \* how many nodes a list must have for the client to pop its back

Null == "null"

NodesAssumption == IsFiniteSet(Nodes) /\ Null \notin Nodes

VARIABLES
  first,
  prev, next, value,   \* the nodes' contents, by address
  live,                \* addresses that new has given out and delete not taken
  answer,              \* what the last call returned
  stage                \* "open", or why the list is no longer modelled

vars == <<first, prev, next, value, live, answer, stage>>

Links == Nodes \cup {Null}

Init ==
  /\ first = Null
  /\ prev \in [Nodes -> {Null}] /\ next \in [Nodes -> {Null}]
  /\ value \in [Nodes -> {CHOOSE v \in Values : TRUE}]
  /\ live = {}
  /\ answer = <<>>
  /\ stage = "open"

----------------------------------------------------------------------------
(* Walking along next *)

\* walk[n][k]: the node k steps behind n.
Follow(n, k) ==
  LET walk[i \in 0 .. k] == IF i = 0 THEN n
                            ELSE IF walk[i - 1] = Null THEN Null
                            ELSE next[walk[i - 1]]
  IN walk[k]

Length == CHOOSE k \in 0 .. Cardinality(Nodes) :
            /\ Follow(first, k) = Null
            /\ \A i \in 0 .. k - 1 : Follow(first, i) # Null

\* The links may run in a circle: then a walk to the last node has no end.
Ends == \E k \in 0 .. Cardinality(Nodes) : Follow(first, k) = Null

\* while (last->next) last = last->next
Last == Follow(first, Length - 1)

----------------------------------------------------------------------------
(* Operations *)

\* new list_node<T>(), and its value.
NewNode(node, v) ==
  /\ node \in Nodes \ live
  /\ live' = live \cup {node}
  /\ value' = [value EXCEPT ![node] = v]

push_front(node, v) ==
  /\ NewNode(node, v)
  /\ first' = node
  /\ prev' = [prev EXCEPT ![node] = Null]
  /\ next' = [next EXCEPT ![node] = first]
  /\ answer' = <<>> /\ stage' = stage

\* Mutant: the node is linked behind the first one.
PushBehindFirst(node, v) ==
  /\ Ends
  /\ NewNode(node, v)
  /\ IF first = Null
       THEN /\ first' = node
            /\ prev' = [prev EXCEPT ![node] = Null]
            /\ next' = [next EXCEPT ![node] = Null]
       ELSE /\ first' = first
            /\ prev' = [prev EXCEPT ![node] = first]
            /\ next' = [next EXCEPT ![first] = node, ![node] = Null]
  /\ answer' = <<>> /\ stage' = stage

push_back(node, v) ==
  /\ Ends
  /\ NewNode(node, v)
  /\ IF first = Null
       THEN /\ first' = node
            /\ prev' = [prev EXCEPT ![node] = Null]
            /\ next' = [next EXCEPT ![node] = Null]
       ELSE /\ first' = first
            /\ prev' = [prev EXCEPT ![node] = Last]
            /\ next' = [next EXCEPT ![Last] = node, ![node] = Null]
  /\ answer' = <<>> /\ stage' = stage

\* The links of the old first node are cleared, the new first node's are not.
pop_front ==
  /\ first # Null
  /\ first' = next[first]
  /\ next' = [next EXCEPT ![first] = Null]
  /\ prev' = [prev EXCEPT ![first] = Null]
  /\ live' = live \ {first}
  /\ answer' = <<value[first]>>
  /\ UNCHANGED <<value, stage>>

\* The last node is unlinked from the one its prev leads to.
pop_back ==
  /\ first # Null /\ Ends /\ Length >= MinPop
  /\ next' = [n \in Nodes |-> IF n = prev[Last] THEN Null ELSE next[n]]
  /\ live' = live \ {Last}
  /\ answer' = <<value[Last]>>
  /\ UNCHANGED <<first, prev, value, stage>>

\* at, and the iterator that stands at that place.
at(idx) ==
  /\ answer' = <<value[Follow(first, idx)]>>
  /\ UNCHANGED <<first, prev, next, value, live, stage>>

\* ~list begins with the second node, and reads the links of those it has
\* deleted already; the first node stays allocated.
Destroy ==
  /\ live' = live \ {Follow(first, k) : k \in 1 .. Length}
  /\ first' = Null
  /\ answer' = <<>>
  /\ stage' = "destroyed"
  /\ UNCHANGED <<prev, next, value>>

\* A call that reads through a null pointer: the first of an empty list, or
\* the node at a place behind the last.
NullNode ==
  /\ stage' = "page fault"
  /\ UNCHANGED <<first, prev, next, value, live, answer>>

Call(name) == name \in Calls /\ stage = "open"

Next ==
  \/ Call("push_front") /\ \E node \in Nodes, v \in Values : push_front(node, v)
  \/ Call("push_back") /\ \E node \in Nodes, v \in Values : push_back(node, v)
  \/ Call("pop_front") /\ pop_front
  \/ Call("pop_back") /\ pop_back
  \/ Call("at") /\ Ends /\ \E idx \in 0 .. Length - 1 : at(idx)
  \/ Call("~list") /\ Ends /\ Destroy
  \/ \E name \in {"pop_front", "pop_back"} : Call(name) /\ first = Null /\ NullNode
  \/ Call("at") /\ Ends /\ NullNode

Spec == Init /\ [][Next]_vars

----------------------------------------------------------------------------
(* Properties *)

Listed == {Follow(first, k) : k \in 0 .. Cardinality(Nodes)} \ {Null}

\* No node is reached that has been deleted, and none is lost: what the list
\* has allocated is what a walk from its first node finds.
HoldsItsNodes == stage = "open" => Ends /\ Listed = live

\* What a walk reads, whether its nodes are the list's own or not.
Contents == INSTANCE Deque WITH
  values <- IF Ends THEN [i \in 1 .. Length |-> value[Follow(first, i - 1)]] ELSE <<>>

\* The linked nodes are the sequence of values that were put in.
IsDeque == Contents!Spec
=============================================================================
