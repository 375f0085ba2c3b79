------------------------------- MODULE MCUtil -------------------------------
(* The classes of includes/util: rc and weak, list, hashmap, string.  They share no *)
(* state but the heap, so nothing is to be seen in an interleaving of two   *)
(* of them: like tests/run_tests.cpp, a behaviour uses one of them.         *)
EXTENDS RefCount, TLC

CONSTANTS
  Nodes,          \* addresses of list nodes
  ListValues,
  Keys, MapValues,
  MaxMapNodes,    \* bound: nodes in the hash table
  StringVars, Buffers, Literals, MaxLength

VARIABLES
  subject,        \* the class that is used, and how
  first, prev, next, value, live, popped, stage,   \* the list
  table, found,                                    \* the hash table
  string, block, given, text, kin, disturbed, parts   \* strings

listVars == <<first, prev, next, value, live, popped, stage>>
mapVars == <<table, found>>
stringVars == <<string, block, given, text, kin, disturbed, parts>>

\* A list whose back is never popped, and one that is used only at its back
\* and never popped empty: the two ways that keep its links in order.
FrontCalls == {"push_front", "push_back", "pop_front", "at", "~list"}
BackCalls == {"push_back", "pop_back", "at", "~list"}

Queue == INSTANCE LinkedList WITH
  Values <- ListValues, Calls <- FrontCalls, MinPop <- 1, answer <- popped
Stack == INSTANCE LinkedList WITH
  Values <- ListValues, Calls <- BackCalls, MinPop <- 2, answer <- popped
Map == INSTANCE HashMap WITH
  Values <- MapValues, MaxNodes <- MaxMapNodes, answer <- found
Text == INSTANCE Strings WITH live <- given

ASSUME ListAssumption == Queue!NodesAssumption
ASSUME MapAssumption == Map!KeysAssumption
ASSUME TextAssumption == Text!StringsAssumption

\* The arguments of string(const char *).
ShortLiterals == {<<"a">>, <<"/">>}

UtilInit ==
  /\ subject \in {"rc", "queue", "stack", "map", "string"}
  /\ Init /\ Queue!Init /\ Map!Init /\ Text!Init

Uses(class, rest) == subject = class /\ UNCHANGED <<subject, rest>>

UtilNext ==
  \/ Uses("rc", <<listVars, mapVars, stringVars>>) /\ Next
  \/ Uses("queue", <<vars, mapVars, stringVars>>) /\ Queue!Next
  \/ Uses("stack", <<vars, mapVars, stringVars>>) /\ Stack!Next
  \/ Uses("map", <<vars, listVars, stringVars>>) /\ Map!Next
  \/ Uses("string", <<vars, listVars, mapVars>>) /\ Text!Next

utilVars == <<vars, subject, listVars, mapVars, stringVars>>

\* Sound: no property tells one address or one variable from another.
RcSymmetry == Permutations(Counters) \cup Permutations(Strong) \cup Permutations(Weak)

UtilSpec == UtilInit /\ [][UtilNext]_utilVars

\* The hashes that tests/hashmap.cpp relies on.
ASSUME TestedHashes == Map!hash(1) = Map!hash(352) /\ Map!hash(1) # Map!hash(2)

\* Inode numbers have one byte: no two of them share a chain but 0 and 96.
ASSUME InodeNumbersApart ==
  \A i, j \in 0 .. 255 : i < j /\ Map!hash(i) = Map!hash(j) => <<i, j>> = <<0, 96>>

\* The properties of LinkedList, HashMap and Strings, stated there.
IsDeque == Queue!IsDeque /\ [](subject \in {"queue", "stack"} => Queue!HoldsItsNodes)
IsDictionary == Map!IsDictionary
TextKept == Text!TextKept
SplitSections == Text!SplitSections
=============================================================================
