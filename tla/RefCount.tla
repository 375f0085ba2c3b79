------------------------------ MODULE RefCount ------------------------------
(* includes/util/rc.h: the counted pointers rc and weak.                    *)
(*                                                                          *)
(* Each constructor, assignment and destructor is an action.  A counter is  *)
(* known by its address, which the heap may give out again once the counter *)
(* is deleted, so a variable that still points there dangles.  A step that  *)
(* copies or ends through such a variable reads freed memory: "stale"       *)
(* records it, and nothing follows.                                         *)
EXTENDS Integers, FiniteSets

CONSTANTS
  Counters,   \* bound: the addresses of rc_counters
  Strong,     \* variables of type rc
  Weak,       \* variables of type weak
  Wrap        \* 2^32

ASSUME RefCountAssumption ==
  /\ IsFiniteSet(Strong) /\ Strong \cap Weak = {}
  /\ Wrap \in Nat /\ Cardinality(Strong) < Wrap
  /\ "none" \notin Counters

VARIABLES
  made,        \* the addresses at which a counter lives
  count,       \* the words at each address
  weak_count,
  counter,     \* where each variable points, "none" out of its scope
  ptr,         \* whether its ptr is not null
  dangling,    \* the variables whose counter was deleted under them
  stale        \* a step read a counter through one of them

vars == <<made, count, weak_count, counter, ptr, dangling, stale>>

Pointers == Strong \cup Weak

InScope(x) == counter[x] # "none"

\* The rc variables that hold an object.
Holders(c) == {h \in Strong : counter[h] = c /\ ptr[h]}

Up(n) == (n + 1) % Wrap
Down(n) == (n - 1) % Wrap

\* A step that reads the counter of x and of y.
Through(x, y, step) ==
  IF x \in dangling \/ y \in dangling
  THEN stale' = TRUE /\ UNCHANGED <<made, count, weak_count, counter, ptr, dangling>>
  ELSE step /\ UNCHANGED stale

\* x gets the pointers of y.
Point(x, y) ==
  /\ counter' = [counter EXCEPT ![x] = counter[y]]
  /\ ptr' = [ptr EXCEPT ![x] = ptr[y]]

\* The scope of x ends, the last one with the object and the counter.
Leave(x, last) ==
  LET c == counter[x]
  IN /\ counter' = [counter EXCEPT ![x] = "none"]
     /\ ptr' = [ptr EXCEPT ![x] = FALSE]
     /\ made' = IF last THEN made \ {c} ELSE made
     /\ dangling' = (IF last THEN dangling \cup {y \in Pointers : counter[y] = c}
                             ELSE dangling) \ {x}

\* new rc_counter
Make(x, c, object, n) ==
  /\ ~InScope(x)
  /\ c \notin made
  /\ made' = made \cup {c}
  /\ count' = [count EXCEPT ![c] = n]
  /\ weak_count' = [weak_count EXCEPT ![c] = 0]
  /\ counter' = [counter EXCEPT ![x] = c]
  /\ ptr' = [ptr EXCEPT ![x] = object]
  /\ UNCHANGED <<dangling, stale>>

----------------------------------------------------------------------------
(* rc *)

\* rc(T *ptr), make_rc
MakeRc(h, c) == Make(h, c, TRUE, 1)

\* rc()
EmptyRc(h, c) == Make(h, c, FALSE, 0)

\* rc(const rc &)
CopyRc(h, x) ==
  /\ ~InScope(h) /\ InScope(x)
  /\ Through(x, x,
       /\ count' = [count EXCEPT ![counter[x]] = Up(@)]
       /\ Point(h, x)
       /\ UNCHANGED <<made, weak_count, dangling>>)

\* lock(): an rc of a weak
Lock(h, w) == CopyRc(h, w)

\* Mutant: the counter of the pointer that is overwritten keeps its count.
AssignRcKeeps(h, r) ==
  /\ InScope(h) /\ InScope(r)
  /\ Through(h, r,
       /\ count' = [count EXCEPT ![counter[r]] = Up(@)]
       /\ Point(h, r)
       /\ UNCHANGED <<made, weak_count, dangling>>)

\* operator=: whoever loses its last holder here is not deleted.
AssignRc(h, r) ==
  /\ InScope(h) /\ InScope(r)
  /\ Through(h, r,
       /\ LET without == [count EXCEPT ![counter[h]] = Down(@)]
          IN count' = [without EXCEPT ![counter[r]] = Up(@)]
       /\ Point(h, r)
       /\ UNCHANGED <<made, weak_count, dangling>>)

\* ~rc: the last holder deletes the object and the counter.
DestroyRc(h) ==
  /\ InScope(h)
  /\ IF ptr[h]
     THEN Through(h, h,
            /\ count' = [count EXCEPT ![counter[h]] = Down(@)]
            /\ Leave(h, Down(count[counter[h]]) = 0)
            /\ UNCHANGED weak_count)
     ELSE Leave(h, FALSE) /\ UNCHANGED <<count, weak_count, stale>>

----------------------------------------------------------------------------
(* weak *)

\* weak(): a counter that counts none, not even this one
EmptyWeak(w, c) == Make(w, c, FALSE, 0)

\* weak(rc &), weak(weak &)
ShareWeak(w, x) ==
  /\ ~InScope(w) /\ InScope(x)
  /\ Through(x, x,
       /\ weak_count' = [weak_count EXCEPT ![counter[x]] = Up(@)]
       /\ Point(w, x)
       /\ UNCHANGED <<made, count, dangling>>)

\* operator=, from an rc or a weak.  It lowers the word where the variable
\* points, which may be freed memory or a later counter's.
AssignWeak(w, x) ==
  /\ InScope(w) /\ InScope(x)
  /\ Through(x, x,
       /\ LET without == [weak_count EXCEPT ![counter[w]] = Down(@)]
          IN weak_count' = [without EXCEPT ![counter[x]] = Up(@)]
       /\ Point(w, x)
       /\ dangling' = dangling \ {w}
       /\ UNCHANGED <<made, count>>)

\* Mutant: the holders are not asked for.
DestroyWeakAlone(w) ==
  /\ InScope(w)
  /\ Through(w, w,
       /\ weak_count' = [weak_count EXCEPT ![counter[w]] = Down(@)]
       /\ Leave(w, Down(weak_count[counter[w]]) = 0)
       /\ UNCHANGED count)

\* ~weak: the last of all deletes what no holder has deleted.
DestroyWeak(w) ==
  /\ InScope(w)
  /\ Through(w, w,
       /\ weak_count' = [weak_count EXCEPT ![counter[w]] = Down(@)]
       /\ Leave(w, Down(weak_count[counter[w]]) = 0 /\ count[counter[w]] = 0)
       /\ UNCHANGED count)

----------------------------------------------------------------------------
Init ==
  /\ made = {}
  /\ count = [c \in Counters |-> 0]
  /\ weak_count = [c \in Counters |-> 0]
  /\ counter = [x \in Pointers |-> "none"]
  /\ ptr = [x \in Pointers |-> FALSE]
  /\ dangling = {}
  /\ stale = FALSE

RcStep ==
  \E h \in Strong :
    \/ \E c \in Counters : MakeRc(h, c) \/ EmptyRc(h, c)
    \/ \E g \in Strong : CopyRc(h, g) \/ AssignRc(h, g)
    \/ \E w \in Weak : Lock(h, w)
    \/ DestroyRc(h)

WeakStep ==
  \E w \in Weak :
    \/ \E c \in Counters : EmptyWeak(w, c)
    \/ \E x \in Pointers : ShareWeak(w, x) \/ AssignWeak(w, x)
    \/ DestroyWeak(w)

Next == ~stale /\ (RcStep \/ WeakStep)

Spec == Init /\ [][Next]_vars

----------------------------------------------------------------------------
(* Properties *)

\* The counters keep to the fields of rc_counter.
TypeOK ==
  /\ made \in SUBSET Counters
  /\ count \in [Counters -> 0 .. Wrap - 1]
  /\ weak_count \in [Counters -> 0 .. Wrap - 1]
  /\ counter \in [Pointers -> Counters \cup {"none"}]
  /\ ptr \in [Pointers -> BOOLEAN]
  /\ dangling \in SUBSET Pointers
  /\ stale \in BOOLEAN

\* The count that a pointer to an object reads is the number of rc variables
\* that hold it, whatever was copied, assigned, locked and deleted before, and
\* whoever had the counter's address before.
CountExact ==
  \A x \in Pointers :
    InScope(x) /\ ptr[x] /\ x \notin dangling =>
      count[counter[x]] = Cardinality(Holders(counter[x]))

\* No object and no counter is deleted while an rc holds it, in any order of the
\* calls, also after weak variables have outlived their counters and have written
\* to them.
HeldIsLive ==
  \A h \in Strong :
    InScope(h) /\ ptr[h] => counter[h] \in made /\ h \notin dangling

\* The destructor that ends the last holder of an object deletes it, and every
\* step that deletes an object leaves nobody holding it.
LastDeletes ==
  [][\A c \in made :
       /\ (\E h \in Strong : DestroyRc(h) /\ Holders(c) = {h}) => c \notin made'
       /\ c \notin made' => Holders(c)' = {}]_vars
=============================================================================
