------------------------------- MODULE HashMap -------------------------------
(* util::hashmap (hashmap.h) with numbers for keys: chains of nodes in a     *)
(* table of HASH_RANGE, and the hash that places a key.                      *)
EXTENDS Integers, Sequences, FiniteSetsExt

CONSTANTS
  Keys,       \* numbers that are used as keys
  Values,
  MaxNodes    \* bound: nodes in the table

HASH_RANGE == 256
None == "nullopt"

KeysAssumption == Keys \subseteq Nat /\ None \notin Values

\* The bytes of a size_t, lowest first.  hash takes them for a string, which
\* ends before the first that is 0.
Place == <<1, 256, 256 * 256, 256 * 256 * 256>>
Byte(i, k) == (i \div Place[k]) % 256
ByteCount(i) == CHOOSE n \in 0 .. 4 :
  /\ \A k \in 1 .. n : Byte(i, k) # 0
  /\ n = 4 \/ Byte(i, n + 1) = 0

\* hash * 33 + c for each of them, of which only the lowest byte is used.
hash(i) ==
  LET mixed[k \in 0 .. 4] == IF k = 0 THEN 5381 % HASH_RANGE
                             ELSE (mixed[k - 1] * 33 + Byte(i, k)) % HASH_RANGE
  IN mixed[ByteCount(i)]

VARIABLES
  table,   \* table[h]: the chain of nodes whose keys have that hash
  answer   \* what get returned

vars == <<table, answer>>

Init ==
  /\ table = [h \in 0 .. HASH_RANGE - 1 |-> <<>>]
  /\ answer = None

\* Mutant: the node is put in front of its chain.
SetInFront(key, v) ==
  /\ table' = [table EXCEPT ![hash(key)] = <<[key |-> key, value |-> v]>> \o @]
  /\ answer' = None

\* The new node goes behind every other, also behind one of the same key.
set(key, v) ==
  /\ table' = [table EXCEPT ![hash(key)] = Append(@, [key |-> key, value |-> v])]
  /\ answer' = None

\* The first node of the chain with that key.
Find(key) ==
  LET chain == table[hash(key)]
      found == {k \in DOMAIN chain : chain[k].key = key}
  IN IF found = {} THEN None ELSE chain[Min(found)].value

get(key) ==
  /\ answer' = Find(key)
  /\ table' = table

NodesInTable == MapThenSumSet(LAMBDA h : Len(table[h]), {hash(k) : k \in Keys})

Next == \E key \in Keys :
  \/ get(key)
  \/ NodesInTable < MaxNodes /\ \E v \in Values : set(key, v)

Spec == Init /\ [][Next]_vars

----------------------------------------------------------------------------

Map == INSTANCE Dictionary WITH map <- [key \in Keys |-> Find(key)]

\* Keys that share a chain do not disturb each other, and a key keeps its
\* first value.
IsDictionary == Map!Spec
=============================================================================
