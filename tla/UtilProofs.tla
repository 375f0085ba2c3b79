----------------------------- MODULE UtilProofs -----------------------------
(* What the classes of includes/util promise, for any number of variables,   *)
(* counters, nodes, keys and buffers: rc and weak, lists, the hash table and *)
(* strings.                                                                  *)
EXTENDS MCUtil, FiniteSetTheorems, SequenceTheorems, WellFoundedInduction, TLAPS

\* A set of numbers that is not empty has a least one.
LEMMA LeastExists ==
  ASSUME NEW S, S \subseteq Nat, S # {}
  PROVE  \E x \in S : \A y \in S : x <= y
<1> DEFINE R == OpToRel(<, Nat)
<1>1. \A x, y \in Nat : y < x => <<y, x>> \in R
  BY DEF OpToRel
<1>2. IsWellFoundedOn(R, Nat)
  BY NatLessThanWellFounded
<1> HIDE DEF R
<1>3. PICK x \in S : \A y \in S : ~ (<<y, x>> \in R)
  BY <1>2, WFMin
<1>4. \A y \in S : ~ (y < x)
  BY <1>1, <1>3
<1>5. \A y \in S : x <= y
  BY <1>4, SMT
<1> QED
  BY <1>5

----------------------------------------------------------------------------
(* Counting *)

Fibre(S, f, c) == {y \in S : f[y] = c}
Moved(f, x, d) == [f EXCEPT ![x] = d]

\* Moving one point of a function moves one element between two of its fibres.
LEMMA FibreMoves ==
  ASSUME NEW S, IsFiniteSet(S), NEW T, NEW f \in [S -> T], NEW x \in S, NEW d \in T, NEW c
  PROVE  LET F == Fibre(S, f, c)
             G == Fibre(S, Moved(f, x, d), c)
         IN /\ Cardinality(F) \in Nat /\ Cardinality(G) \in Nat
            /\ Cardinality(F) <= Cardinality(S) /\ Cardinality(G) <= Cardinality(S)
            /\ f[x] = d => Cardinality(G) = Cardinality(F)
            /\ f[x] # d /\ c = d => Cardinality(G) = Cardinality(F) + 1
            /\ f[x] # d /\ c = f[x] => Cardinality(G) = Cardinality(F) - 1
            /\ c # d /\ c # f[x] => Cardinality(G) = Cardinality(F)
<1> DEFINE F == Fibre(S, f, c)
           G == Fibre(S, Moved(f, x, d), c)
<1>1. /\ IsFiniteSet(F) /\ IsFiniteSet(G)
      /\ Cardinality(F) <= Cardinality(S) /\ Cardinality(G) <= Cardinality(S)
  <2>1. F \subseteq S /\ G \subseteq S
    BY DEF Fibre
  <2> HIDE DEF F, G
  <2> QED
    BY <2>1, FS_Subset
<1>2. Cardinality(F) \in Nat /\ Cardinality(G) \in Nat
  BY <1>1, FS_CardinalityType
<1>3. ASSUME f[x] = d PROVE G = F
  BY <1>3 DEF Fibre, Moved
<1>4. ASSUME f[x] # d, c = d PROVE Cardinality(G) = Cardinality(F) + 1
  <2>1. G = F \cup {x} /\ x \notin F
    BY <1>4 DEF Fibre, Moved
  <2> HIDE DEF F, G
  <2> QED
    BY <2>1, <1>1, FS_AddElement
<1>5. ASSUME f[x] # d, c = f[x] PROVE Cardinality(G) = Cardinality(F) - 1
  <2>1. G = F \ {x} /\ x \in F
    BY <1>5 DEF Fibre, Moved
  <2> HIDE DEF F, G
  <2> QED
    BY <2>1, <1>1, FS_RemoveElement
<1>6. ASSUME c # d, c # f[x] PROVE G = F
  BY <1>6 DEF Fibre, Moved
<1> QED
  BY <1>1, <1>2, <1>3, <1>4, <1>5, <1>6

LEMMA WordFacts ==
  /\ Wrap \in Nat \ {0}
  /\ \A n \in 0 .. Wrap - 1 : Up(n) \in 0 .. Wrap - 1 /\ Down(n) \in 0 .. Wrap - 1
  /\ \A n \in 0 .. Wrap - 1 : n + 1 < Wrap => Up(n) = n + 1
  /\ \A n \in 0 .. Wrap - 1 : n > 0 => Down(n) = n - 1
<1>1. Wrap \in Nat \ {0}
  BY RefCountAssumption, FS_CardinalityType
<1> QED
  BY <1>1, SMT DEF Up, Down

Targets == Counters \cup {"none"}

\* The counter whose object an rc variable holds.
HeldBy(h) == IF ptr[h] THEN counter[h] ELSE "none"

\* What a step that touches one rc variable does to the number of holders.
LEMMA HoldersMove ==
  ASSUME TypeOK, NEW h \in Strong, HeldBy(h) \in Targets, HeldBy(h)' \in Targets,
         \A g \in Strong : g # h => counter'[g] = counter[g] /\ ptr'[g] = ptr[g],
         NEW c \in Counters
  PROVE  /\ Cardinality(Holders(c)) \in 0 .. Wrap - 1
         /\ Cardinality(Holders(c)') \in 0 .. Wrap - 1
         /\ HeldBy(h)' = HeldBy(h) => Cardinality(Holders(c)') = Cardinality(Holders(c))
         /\ HeldBy(h)' # HeldBy(h) /\ c = HeldBy(h)' =>
              Cardinality(Holders(c)') = Cardinality(Holders(c)) + 1
         /\ HeldBy(h)' # HeldBy(h) /\ c = HeldBy(h) =>
              Cardinality(Holders(c)') = Cardinality(Holders(c)) - 1
         /\ c # HeldBy(h)' /\ c # HeldBy(h) => Cardinality(Holders(c)') = Cardinality(Holders(c))
<1> DEFINE f == [g \in Strong |-> HeldBy(g)]
           d == HeldBy(h)'
           F == Fibre(Strong, f, c)
           G == Fibre(Strong, Moved(f, h, d), c)
<1>1. f \in [Strong -> Targets] /\ IsFiniteSet(Strong) /\ f[h] = HeldBy(h) /\ d \in Targets
  BY RefCountAssumption DEF TypeOK, Targets, HeldBy, Pointers
<1>2. Holders(c) = F
  BY RefCountAssumption DEF Holders, Fibre, HeldBy
<1>3. \A g \in Strong : HeldBy(g)' = Moved(f, h, d)[g]
  BY <1>1 DEF Moved, HeldBy
<1>4. Holders(c)' = G
  <2>1. Holders(c)' = {g \in Strong : HeldBy(g)' = c}
    BY RefCountAssumption DEF Holders, HeldBy
  <2> QED
    BY <1>3, <2>1 DEF Fibre
<1> HIDE DEF f, d
<1>5. /\ Cardinality(F) \in Nat /\ Cardinality(G) \in Nat
      /\ Cardinality(F) <= Cardinality(Strong) /\ Cardinality(G) <= Cardinality(Strong)
      /\ f[h] = d => Cardinality(G) = Cardinality(F)
      /\ f[h] # d /\ c = d => Cardinality(G) = Cardinality(F) + 1
      /\ f[h] # d /\ c = f[h] => Cardinality(G) = Cardinality(F) - 1
      /\ c # d /\ c # f[h] => Cardinality(G) = Cardinality(F)
  BY <1>1, FibreMoves
<1>6. Cardinality(Strong) \in Nat /\ Cardinality(Strong) < Wrap /\ Wrap \in Nat
  BY RefCountAssumption, FS_CardinalityType
<1>7. d = HeldBy(h)'
  BY DEF d
<1> HIDE DEF F, G
<1> QED
  BY <1>1, <1>2, <1>4, <1>5, <1>6, <1>7

\* A counter with a holder has a positive number of them.
LEMMA HeldOnce ==
  ASSUME NEW c, NEW h \in Holders(c)
  PROVE  Cardinality(Holders(c)) \in Nat /\ Cardinality(Holders(c)) > 0
<1>1. IsFiniteSet(Holders(c))
  <2>1. Holders(c) \subseteq Strong
    BY DEF Holders
  <2> QED
    BY <2>1, FS_Subset, RefCountAssumption
<1> QED
  BY <1>1, FS_EmptySet, FS_CardinalityType

----------------------------------------------------------------------------
(* The inductive invariant *)

\* A variable that does not dangle points to a counter that lives.
PointsToMade ==
  \A x \in Pointers : InScope(x) /\ x \notin dangling => counter[x] \in made

\* Two that share a counter agree on whether it counts an object.
SameObject ==
  \A x, y \in Pointers :
    InScope(x) /\ counter[x] = counter[y] /\ x \notin dangling /\ y \notin dangling =>
      ptr[x] = ptr[y]

\* An rc dangles only if it is empty.
DanglingEmpty == \A h \in Strong : h \in dangling => ~ptr[h]

Scoped == \A x \in Pointers : ~InScope(x) => ~ptr[x] /\ x \notin dangling

Structure == PointsToMade /\ SameObject /\ DanglingEmpty /\ Scoped

IInv == TypeOK /\ Structure /\ CountExact

LEMMA InitIInv == Init => IInv
<1> SUFFICES ASSUME Init PROVE IInv
  OBVIOUS
<1>1. TypeOK
  <2>1. 0 \in 0 .. Wrap - 1
    BY WordFacts
  <2> QED
    BY <2>1 DEF Init, TypeOK
<1>2. Structure
  BY DEF Init, Structure, PointsToMade, SameObject, DanglingEmpty, Scoped, InScope
<1>3. CountExact
  BY DEF Init, CountExact, InScope
<1> QED
  BY <1>1, <1>2, <1>3 DEF IInv

----------------------------------------------------------------------------
(* What the steps do to the pointers *)

\* Copying the pointers of a variable that does not dangle keeps them in order.
LEMMA PointKeeps ==
  ASSUME TypeOK, Structure, NEW x \in Pointers, NEW y \in Pointers,
         InScope(y), y \notin dangling, Point(x, y),
         made' = made, dangling' = dangling \ {x}
  PROVE  Structure'
<1>1. \A z \in Pointers :
        /\ z # x => counter'[z] = counter[z] /\ ptr'[z] = ptr[z]
        /\ z = x => counter'[z] = counter[y] /\ ptr'[z] = ptr[y]
  BY DEF Point, TypeOK
<1>2. PointsToMade'
  BY <1>1 DEF Structure, PointsToMade, InScope
<1>3. SameObject'
  BY <1>1 DEF Structure, SameObject, InScope
<1>4. DanglingEmpty'
  BY <1>1 DEF Structure, DanglingEmpty, Pointers
<1>5. Scoped'
  BY <1>1 DEF Structure, Scoped, InScope
<1> QED
  BY <1>2, <1>3, <1>4, <1>5 DEF Structure

LEMMA PointTypes ==
  ASSUME TypeOK, NEW x \in Pointers, NEW y \in Pointers, Point(x, y)
  PROVE  counter' \in [Pointers -> Counters \cup {"none"}] /\ ptr' \in [Pointers -> BOOLEAN]
BY DEF Point, TypeOK

\* So does ending a scope, with the counter if no other rc holds its object.
LEMMA LeaveKeeps ==
  ASSUME TypeOK, Structure, NEW x \in Pointers, InScope(x), NEW last \in BOOLEAN,
         Leave(x, last),
         last => \A g \in Strong : g # x /\ counter[g] = counter[x] => ~ptr[g]
  PROVE  Structure'
<1> DEFINE c == counter[x]
<1>1. \A z \in Pointers :
        /\ z # x => counter'[z] = counter[z] /\ ptr'[z] = ptr[z]
        /\ z = x => counter'[z] = "none" /\ ptr'[z] = FALSE /\ z \notin dangling'
  BY DEF Leave, TypeOK
<1>2. \A z \in Pointers : z # x =>
        /\ last => (z \in dangling' <=> z \in dangling \/ counter[z] = c)
        /\ ~last => (z \in dangling' <=> z \in dangling)
  BY DEF Leave
<1>3. IF last THEN made' = made \ {c} ELSE made' = made
  BY DEF Leave
<1>4. c # "none"
  BY DEF InScope
<1> HIDE DEF c
<1>5. PointsToMade'
  BY <1>1, <1>2, <1>3 DEF Structure, PointsToMade, InScope
<1>6. SameObject'
  BY <1>1, <1>2 DEF Structure, SameObject, InScope
<1>7. DanglingEmpty'
  <2> SUFFICES ASSUME NEW g \in Strong, g \in dangling' PROVE ~ptr'[g]
    BY DEF DanglingEmpty
  <2>1. g \in Pointers
    BY DEF Pointers
  <2>2. g # x /\ ptr'[g] = ptr[g]
    BY <2>1, <1>1
  <2>3. CASE g \in dangling
    BY <2>2, <2>3 DEF Structure, DanglingEmpty
  <2>4. CASE g \notin dangling
    <3>1. last /\ counter[g] = c
      BY <2>1, <2>2, <2>4, <1>2
    <3> QED
      BY <3>1, <2>2 DEF c
  <2> QED
    BY <2>3, <2>4
<1>8. Scoped'
  BY <1>1, <1>2, <1>4 DEF Structure, Scoped, InScope, c
<1> QED
  BY <1>5, <1>6, <1>7, <1>8 DEF Structure

LEMMA LeaveTypes ==
  ASSUME TypeOK, NEW x \in Pointers, NEW last \in BOOLEAN, Leave(x, last)
  PROVE  /\ counter' \in [Pointers -> Counters \cup {"none"}]
         /\ ptr' \in [Pointers -> BOOLEAN]
         /\ made' \in SUBSET Counters
         /\ dangling' \in SUBSET Pointers
<1>1. /\ counter' \in [Pointers -> Counters \cup {"none"}]
      /\ ptr' \in [Pointers -> BOOLEAN]
  BY DEF Leave, TypeOK
<1>2. made' \in SUBSET Counters
  BY DEF Leave, TypeOK
<1>3. dangling' \in SUBSET Pointers
  BY DEF Leave, TypeOK
<1> QED
  BY <1>1, <1>2, <1>3

\* A step through a variable that dangles changes nothing but stale.
LEMMA StaleKeeps ==
  ASSUME IInv, stale' = TRUE,
         UNCHANGED <<made, count, weak_count, counter, ptr, dangling>>
  PROVE  IInv'
<1>1. TypeOK'
  BY DEF IInv, TypeOK
<1>2. Structure'
  BY DEF IInv, Structure, PointsToMade, SameObject, DanglingEmpty, Scoped, InScope
<1>3. \A c : Holders(c)' = Holders(c)
  BY DEF Holders
<1>4. CountExact'
  BY <1>3 DEF IInv, CountExact, InScope
<1> QED
  BY <1>1, <1>2, <1>4 DEF IInv

\* A step of a weak touches no count and no holder.
LEMMA WeakKeepsCounts ==
  ASSUME IInv, NEW w \in Weak, count' = count,
         \A z \in Pointers : z # w => counter'[z] = counter[z] /\ ptr'[z] = ptr[z],
         \A z \in Pointers : z # w /\ z \notin dangling' => z \notin dangling,
         \/ counter'[w] = "none"
         \/ \E x \in Pointers : /\ InScope(x) /\ x \notin dangling
                                /\ counter'[w] = counter[x] /\ ptr'[w] = ptr[x]
  PROVE  CountExact'
<1>1. \A c : Holders(c)' = Holders(c)
  <2>1. \A h \in Strong : h \in Pointers /\ h # w
    BY RefCountAssumption DEF Pointers
  <2> QED
    BY <2>1 DEF Holders
<1> SUFFICES ASSUME NEW z \in Pointers, InScope(z)', ptr'[z], z \notin dangling'
             PROVE  count[counter'[z]] = Cardinality(Holders(counter'[z]))
  BY <1>1 DEF CountExact
<1>2. CASE z # w
  BY <1>2 DEF IInv, CountExact, InScope
<1>3. CASE z = w
  BY <1>3 DEF IInv, CountExact, InScope
<1> QED
  BY <1>2, <1>3

----------------------------------------------------------------------------
(* Each action keeps it *)

LEMMA MakeIInv ==
  ASSUME IInv, NEW x \in Pointers, NEW c \in Counters, NEW object \in BOOLEAN,
         NEW n \in {0, 1}, Make(x, c, object, n), n = 1 <=> object, object => x \in Strong
  PROVE  IInv'
<1>1. /\ TypeOK /\ Structure /\ CountExact
      /\ counter[x] = "none" /\ c # "none" /\ c \notin made
      /\ made' = made \cup {c}
      /\ count' = [count EXCEPT ![c] = n]
      /\ weak_count' = [weak_count EXCEPT ![c] = 0]
      /\ counter' = [counter EXCEPT ![x] = c]
      /\ ptr' = [ptr EXCEPT ![x] = object]
      /\ dangling' = dangling /\ stale' = stale
      /\ ~ptr[x] /\ x \notin dangling
  BY RefCountAssumption DEF IInv, Make, InScope, Structure, Scoped
<1>2. n \in 0 .. Wrap - 1 /\ 0 \in 0 .. Wrap - 1
  <2>1. x \in Strong => Cardinality(Strong) > 0
    BY FS_EmptySet, FS_CardinalityType, RefCountAssumption
  <2>2. Cardinality(Strong) \in Nat
    BY FS_CardinalityType, RefCountAssumption
  <2>3. n = 1 => Wrap > 1
    BY <2>1, <2>2, RefCountAssumption
  <2> QED
    BY <2>3, WordFacts
<1>3. TypeOK'
  <2> DEFINE numbers == 0 .. Wrap - 1
  <2>1. 0 \in numbers /\ n \in numbers
    BY <1>2
  <2>2. /\ count \in [Counters -> numbers] /\ weak_count \in [Counters -> numbers]
        /\ made \in SUBSET Counters /\ counter \in [Pointers -> Counters \cup {"none"}]
        /\ ptr \in [Pointers -> BOOLEAN] /\ dangling \in SUBSET Pointers /\ stale \in BOOLEAN
    BY <1>1 DEF TypeOK
  <2> HIDE DEF numbers
  <2>3. count' \in [Counters -> numbers] /\ weak_count' \in [Counters -> numbers]
    BY <1>1, <2>1, <2>2
  <2>4. counter' \in [Pointers -> Counters \cup {"none"}] /\ ptr' \in [Pointers -> BOOLEAN]
    BY <1>1, <2>2
  <2>5. made' \in SUBSET Counters /\ dangling' \in SUBSET Pointers /\ stale' \in BOOLEAN
    BY <1>1, <2>2
  <2> QED
    BY <2>3, <2>4, <2>5 DEF TypeOK, numbers
<1>4. \A z \in Pointers :
        /\ z # x => counter'[z] = counter[z] /\ ptr'[z] = ptr[z]
        /\ z = x => counter'[z] = c /\ ptr'[z] = object
  BY <1>1 DEF TypeOK
\* No variable that does not dangle points to the new counter.
<1>5. \A z \in Pointers : z \notin dangling => counter[z] # c
  BY <1>1 DEF Structure, PointsToMade, InScope
<1>6. Structure'
  <2>1. PointsToMade'
    BY <1>1, <1>4 DEF Structure, PointsToMade, InScope
  <2>2. SameObject'
    BY <1>1, <1>4, <1>5 DEF Structure, SameObject, InScope
  <2>3. DanglingEmpty'
    BY <1>1, <1>4 DEF Structure, DanglingEmpty, Pointers
  <2>4. Scoped'
    BY <1>1, <1>4 DEF Structure, Scoped, InScope
  <2> QED
    BY <2>1, <2>2, <2>3, <2>4 DEF Structure
<1>7. \A b \in Counters : b # c => Holders(b)' = Holders(b)
  BY <1>1, <1>4, RefCountAssumption DEF Holders, Pointers
<1>8. object => Holders(c)' = {x}
  <2> SUFFICES ASSUME object PROVE Holders(c)' = {x}
    OBVIOUS
  <2>1. \A h \in Strong : h # x /\ counter[h] = c => ~ptr[h]
    BY <1>1, <1>5 DEF Structure, DanglingEmpty, Pointers
  <2> QED
    BY <2>1, <1>4 DEF Holders, Pointers
<1>9. CountExact'
  <2> SUFFICES ASSUME NEW z \in Pointers, InScope(z)', ptr'[z], z \notin dangling,
                      NEW b, counter'[z] = b
               PROVE  count'[b] = Cardinality(Holders(b)')
    BY <1>1 DEF CountExact, Holders
  <2>1. CASE z = x
    <3>1. object /\ b = c /\ count'[c] = 1
      BY <2>1, <1>1, <1>4 DEF TypeOK
    <3>2. Cardinality({x}) = 1
      BY FS_Singleton
    <3> QED
      BY <3>1, <3>2, <1>8
  <2>2. CASE z # x
    <3>1. counter[z] = b /\ b # c /\ b \in Counters /\ ptr[z] /\ InScope(z)
      BY <2>2, <1>1, <1>4, <1>5 DEF TypeOK, InScope
    <3>2. count'[b] = count[b] /\ Holders(b)' = Holders(b)
      BY <3>1, <1>1, <1>7 DEF TypeOK
    <3>3. count[b] = Cardinality(Holders(b))
      BY <3>1, <1>1 DEF CountExact
    <3> QED
      BY <3>2, <3>3
  <2> QED
    BY <2>1, <2>2
<1> QED
  BY <1>3, <1>6, <1>9 DEF IInv

LEMMA CopyRcIInv ==
  ASSUME IInv, NEW h \in Strong, NEW x \in Pointers, CopyRc(h, x)
  PROVE  IInv'
<1>1. CASE x \in dangling
  BY <1>1, StaleKeeps DEF CopyRc, Through
<1>2. CASE x \notin dangling
  <2> DEFINE c == counter[x]
  <2>1. /\ TypeOK /\ Structure /\ CountExact
        /\ h \in Pointers /\ counter[h] = "none" /\ ~ptr[h] /\ h \notin dangling /\ InScope(x)
        /\ c \in Counters /\ c # "none"
        /\ count' = [count EXCEPT ![c] = Up(@)]
        /\ Point(h, x)
        /\ made' = made /\ weak_count' = weak_count /\ dangling' = dangling /\ stale' = stale
    BY <1>2 DEF CopyRc, Through, IInv, TypeOK, Structure, Scoped, InScope, Pointers
  <2> HIDE DEF c
  <2>2. dangling' = dangling \ {h}
    BY <2>1
  <2>3. Structure'
    BY <1>2, <2>1, <2>2, PointKeeps
  <2>4. TypeOK'
    BY <2>1, PointTypes, WordFacts DEF TypeOK
  <2>5. \A z \in Pointers :
          /\ z # h => counter'[z] = counter[z] /\ ptr'[z] = ptr[z]
          /\ z = h => counter'[z] = c /\ ptr'[z] = ptr[x]
    BY <2>1 DEF Point, TypeOK, c
  <2>6. /\ HeldBy(h) = "none"
        /\ ptr[x] => HeldBy(h)' = c
        /\ ~ptr[x] => HeldBy(h)' = "none"
    BY <2>1, <2>5 DEF HeldBy, TypeOK
  <2>7. \A b \in Counters :
          /\ Cardinality(Holders(b)) \in 0 .. Wrap - 1
          /\ Cardinality(Holders(b)') \in 0 .. Wrap - 1
          /\ ptr[x] /\ b = c => Cardinality(Holders(b)') = Cardinality(Holders(b)) + 1
          /\ b # c => Cardinality(Holders(b)') = Cardinality(Holders(b))
    <3> TAKE b \in Counters
    <3>1. HeldBy(h) \in Targets /\ HeldBy(h)' \in Targets
      BY <2>1, <2>6 DEF Targets, TypeOK
    <3>2. \A g \in Strong : g # h => counter'[g] = counter[g] /\ ptr'[g] = ptr[g]
      BY <2>5 DEF Pointers
    <3>3. /\ Cardinality(Holders(b)) \in 0 .. Wrap - 1
          /\ Cardinality(Holders(b)') \in 0 .. Wrap - 1
          /\ HeldBy(h)' = HeldBy(h) => Cardinality(Holders(b)') = Cardinality(Holders(b))
          /\ HeldBy(h)' # HeldBy(h) /\ b = HeldBy(h)' =>
               Cardinality(Holders(b)') = Cardinality(Holders(b)) + 1
          /\ b # HeldBy(h)' /\ b # HeldBy(h) =>
               Cardinality(Holders(b)') = Cardinality(Holders(b))
      BY <2>1, <3>1, <3>2, HoldersMove
    <3>4. ptr[x] \in BOOLEAN /\ b # "none"
      BY <2>1, RefCountAssumption DEF TypeOK
    <3> QED
      BY <3>3, <3>4, <2>1, <2>6
  <2>8. CountExact'
    <3> SUFFICES ASSUME NEW z \in Pointers, InScope(z)', ptr'[z], z \notin dangling,
                        NEW b, counter'[z] = b
                 PROVE  count'[b] = Cardinality(Holders(b)')
      BY <2>1 DEF CountExact, Holders
    <3>1. PICK y \in Pointers : /\ b = counter[y] /\ ptr'[z] = ptr[y]
                                /\ y \notin dangling /\ InScope(y)
      <4>1. CASE z = h
        BY <4>1, <2>1, <2>5, <1>2 DEF c
      <4>2. CASE z # h
        BY <4>2, <2>5 DEF InScope
      <4> QED
        BY <4>1, <4>2
    <3>2. b \in Counters
      BY <3>1, <2>1 DEF TypeOK, InScope
    <3>3. count[b] = Cardinality(Holders(b)) /\ ptr[y]
      BY <3>1, <3>2, <2>1 DEF CountExact
    <3>4. CASE b = c
      <4>1. ptr[x]
        BY <3>1, <3>2, <3>3, <3>4, <2>1, <1>2 DEF Structure, SameObject, c, InScope
      <4>2. Cardinality(Holders(b)') = count[b] + 1 /\ count[b] \in 0 .. Wrap - 1
            /\ count[b] + 1 < Wrap
        BY <4>1, <3>2, <3>3, <3>4, <2>7, WordFacts
      <4>3. count'[b] = Up(count[b])
        BY <3>4, <2>1 DEF TypeOK
      <4>4. Up(count[b]) = count[b] + 1
        BY <4>2, WordFacts
      <4> QED
        BY <4>2, <4>3, <4>4
    <3>5. CASE b # c
      <4>1. count'[b] = count[b]
        BY <3>2, <3>5, <2>1 DEF TypeOK
      <4> QED
        BY <4>1, <3>2, <3>3, <3>5, <2>7
    <3> QED
      BY <3>4, <3>5
  <2> QED
    BY <2>3, <2>4, <2>8 DEF IInv
<1> QED
  BY <1>1, <1>2

LEMMA AssignRcIInv ==
  ASSUME IInv, NEW h \in Strong, NEW r \in Strong, AssignRc(h, r)
  PROVE  IInv'
<1>1. CASE h \in dangling \/ r \in dangling
  BY <1>1, StaleKeeps DEF AssignRc, Through
<1>2. CASE h \notin dangling /\ r \notin dangling
  <2> DEFINE old == counter[h]
             new == counter[r]
             without == [count EXCEPT ![old] = Down(@)]
  <2>1. /\ TypeOK /\ Structure /\ CountExact
        /\ h \in Pointers /\ r \in Pointers /\ InScope(h) /\ InScope(r)
        /\ old \in Counters /\ new \in Counters /\ old # "none" /\ new # "none"
        /\ count' = [without EXCEPT ![new] = Up(@)]
        /\ Point(h, r)
        /\ made' = made /\ weak_count' = weak_count /\ dangling' = dangling /\ stale' = stale
    BY <1>2 DEF AssignRc, Through, IInv, TypeOK, InScope, Pointers
  <2>2. /\ without \in [Counters -> 0 .. Wrap - 1]
        /\ without[old] = Down(count[old])
        /\ \A b \in Counters : b # old => without[b] = count[b]
    BY <2>1, WordFacts DEF TypeOK
  <2> HIDE DEF old, new, without
  <2>3. /\ count' \in [Counters -> 0 .. Wrap - 1]
        /\ count'[new] = Up(without[new])
        /\ \A b \in Counters : b # new => count'[b] = without[b]
    BY <2>1, <2>2, WordFacts
  <2>4. dangling' = dangling \ {h}
    BY <2>1, <1>2
  <2>5. Structure'
    BY <1>2, <2>1, <2>4, PointKeeps
  <2>6. TypeOK'
    BY <2>1, <2>3, PointTypes DEF TypeOK
  <2>7. \A z \in Pointers :
          /\ z # h => counter'[z] = counter[z] /\ ptr'[z] = ptr[z]
          /\ z = h => counter'[z] = new /\ ptr'[z] = ptr[r]
    BY <2>1 DEF Point, TypeOK, new
  <2>8. /\ HeldBy(h) = (IF ptr[h] THEN old ELSE "none")
        /\ HeldBy(h)' = (IF ptr[r] THEN new ELSE "none")
        /\ ptr[h] \in BOOLEAN /\ ptr[r] \in BOOLEAN
    BY <2>1, <2>7 DEF HeldBy, TypeOK, old
  <2>9. \A b \in Counters :
          /\ Cardinality(Holders(b)) \in 0 .. Wrap - 1
          /\ Cardinality(Holders(b)') \in 0 .. Wrap - 1
          /\ b = old /\ b = new /\ ptr[h] = ptr[r] =>
               Cardinality(Holders(b)') = Cardinality(Holders(b))
          /\ b # old /\ b = new /\ ptr[r] =>
               Cardinality(Holders(b)') = Cardinality(Holders(b)) + 1
          /\ b = old /\ b # new /\ ptr[h] =>
               Cardinality(Holders(b)') = Cardinality(Holders(b)) - 1
          /\ b # old /\ b # new => Cardinality(Holders(b)') = Cardinality(Holders(b))
    <3> TAKE b \in Counters
    <3>1. HeldBy(h) \in Targets /\ HeldBy(h)' \in Targets
      BY <2>1, <2>8 DEF Targets
    <3>2. \A g \in Strong : g # h => counter'[g] = counter[g] /\ ptr'[g] = ptr[g]
      BY <2>7 DEF Pointers
    <3>3. /\ Cardinality(Holders(b)) \in 0 .. Wrap - 1
          /\ Cardinality(Holders(b)') \in 0 .. Wrap - 1
          /\ HeldBy(h)' = HeldBy(h) => Cardinality(Holders(b)') = Cardinality(Holders(b))
          /\ HeldBy(h)' # HeldBy(h) /\ b = HeldBy(h)' =>
               Cardinality(Holders(b)') = Cardinality(Holders(b)) + 1
          /\ HeldBy(h)' # HeldBy(h) /\ b = HeldBy(h) =>
               Cardinality(Holders(b)') = Cardinality(Holders(b)) - 1
          /\ b # HeldBy(h)' /\ b # HeldBy(h) =>
               Cardinality(Holders(b)') = Cardinality(Holders(b))
      BY <2>1, <3>1, <3>2, HoldersMove
    <3>4. b # "none"
      BY RefCountAssumption
    <3> QED
      BY <3>3, <3>4, <2>8
  <2>10. ptr[h] => Cardinality(Holders(old)) > 0 /\ Cardinality(Holders(old)) \in Nat
    <3> SUFFICES ASSUME ptr[h]
                 PROVE  Cardinality(Holders(old)) > 0 /\ Cardinality(Holders(old)) \in Nat
      OBVIOUS
    <3>1. h \in Holders(old)
      BY DEF Holders, old
    <3> QED
      BY <3>1, HeldOnce
  <2>11. CountExact'
    <3> SUFFICES ASSUME NEW z \in Pointers, InScope(z)', ptr'[z], z \notin dangling,
                        NEW b, counter'[z] = b
                 PROVE  count'[b] = Cardinality(Holders(b)')
      BY <2>1 DEF CountExact, Holders
    <3>1. PICK y \in Pointers : /\ b = counter[y] /\ ptr'[z] = ptr[y]
                                /\ y \notin dangling /\ InScope(y)
      <4>1. CASE z = h
        BY <4>1, <2>1, <2>7, <1>2 DEF new
      <4>2. CASE z # h
        BY <4>2, <2>7 DEF InScope
      <4> QED
        BY <4>1, <4>2
    <3>2. b \in Counters
      BY <3>1, <2>1 DEF TypeOK, InScope
    <3>3. count[b] = Cardinality(Holders(b)) /\ ptr[y]
      BY <3>1, <3>2, <2>1 DEF CountExact
    <3>4. b = old => ptr[h]
      BY <3>1, <3>2, <3>3, <2>1, <1>2 DEF Structure, SameObject, InScope, old
    <3>5. b = new => ptr[r]
      BY <3>1, <3>2, <3>3, <2>1, <1>2 DEF Structure, SameObject, InScope, new
    <3>6. count[b] \in 0 .. Wrap - 1 /\ Wrap \in Nat
      BY <3>2, <3>3, <2>9, WordFacts
    <3>7. count'[b] = Cardinality(Holders(b)')
      <4>1. CASE b = old /\ b = new
        <5>1. count[b] > 0 /\ without[b] = Down(count[b])
          BY <4>1, <3>3, <3>4, <2>2, <2>10
        <5>2. Down(count[b]) = count[b] - 1
          BY <5>1, <3>6, WordFacts
        <5>3. Up(count[b] - 1) = count[b]
          BY <5>1, <3>6, WordFacts
        <5>4. Cardinality(Holders(b)') = count[b]
          BY <4>1, <3>2, <3>3, <3>4, <3>5, <2>8, <2>9
        <5> QED
          BY <5>1, <5>2, <5>3, <5>4, <4>1, <2>3
      <4>2. CASE b = old /\ b # new
        <5>1. count[b] > 0 /\ count'[b] = Down(count[b])
          BY <4>2, <3>2, <3>3, <3>4, <2>2, <2>3, <2>10
        <5>2. Down(count[b]) = count[b] - 1
          BY <5>1, <3>6, WordFacts
        <5> QED
          BY <5>1, <5>2, <4>2, <3>2, <3>3, <3>4, <2>9
      <4>3. CASE b # old /\ b = new
        <5>1. Cardinality(Holders(b)') = count[b] + 1 /\ count[b] + 1 < Wrap
          BY <4>3, <3>2, <3>3, <3>5, <3>6, <2>9
        <5>2. count'[b] = Up(count[b])
          BY <4>3, <3>2, <2>2, <2>3
        <5>3. Up(count[b]) = count[b] + 1
          BY <5>1, <3>6, WordFacts
        <5> QED
          BY <5>1, <5>2, <5>3
      <4>4. CASE b # old /\ b # new
        BY <4>4, <3>2, <3>3, <2>2, <2>3, <2>9
      <4> QED
        BY <4>1, <4>2, <4>3, <4>4
    <3> QED
      BY <3>7
  <2> QED
    BY <2>5, <2>6, <2>11 DEF IInv
<1> QED
  BY <1>1, <1>2

LEMMA DestroyRcIInv ==
  ASSUME IInv, NEW h \in Strong, DestroyRc(h)
  PROVE  IInv'
<1>0. PICK c \in Counters : counter[h] = c
  BY DEF DestroyRc, IInv, TypeOK, InScope, Pointers
<1>1. /\ TypeOK /\ Structure /\ CountExact /\ InScope(h)
      /\ h \in Pointers /\ c \in Counters /\ c # "none"
      /\ ptr[h] \in BOOLEAN
  BY <1>0 DEF DestroyRc, IInv, TypeOK, InScope, Pointers
<1>2. ASSUME NEW last \in BOOLEAN, Leave(h, last), NEW b \in Counters
      PROVE  /\ Cardinality(Holders(b)) \in 0 .. Wrap - 1
             /\ Cardinality(Holders(b)') \in 0 .. Wrap - 1
             /\ ptr[h] /\ b = c => Cardinality(Holders(b)') = Cardinality(Holders(b)) - 1
             /\ ~ptr[h] \/ b # c => Cardinality(Holders(b)') = Cardinality(Holders(b))
  <2>1. \A z \in Pointers :
          /\ z # h => counter'[z] = counter[z] /\ ptr'[z] = ptr[z]
          /\ z = h => counter'[z] = "none" /\ ptr'[z] = FALSE
    BY <1>1, <1>2 DEF Leave, TypeOK
  <2>2. /\ HeldBy(h)' = "none"
        /\ HeldBy(h) = (IF ptr[h] THEN c ELSE "none")
    BY <1>0, <1>1, <2>1 DEF HeldBy
  <2>3. HeldBy(h) \in Targets /\ HeldBy(h)' \in Targets
    BY <1>1, <2>2 DEF Targets
  <2>4. \A g \in Strong : g # h => counter'[g] = counter[g] /\ ptr'[g] = ptr[g]
    BY <2>1 DEF Pointers
  <2>5. /\ Cardinality(Holders(b)) \in 0 .. Wrap - 1
        /\ Cardinality(Holders(b)') \in 0 .. Wrap - 1
        /\ HeldBy(h)' = HeldBy(h) => Cardinality(Holders(b)') = Cardinality(Holders(b))
        /\ HeldBy(h)' # HeldBy(h) /\ b = HeldBy(h) =>
             Cardinality(Holders(b)') = Cardinality(Holders(b)) - 1
        /\ b # HeldBy(h)' /\ b # HeldBy(h) =>
             Cardinality(Holders(b)') = Cardinality(Holders(b))
    BY <1>1, <2>3, <2>4, HoldersMove
  <2>6. b # "none"
    BY RefCountAssumption
  <2> QED
    BY <2>2, <2>5, <2>6, <1>1
<1>3. CASE ~ptr[h]
  <2>1. Leave(h, FALSE) /\ UNCHANGED <<count, weak_count, stale>>
    BY <1>3 DEF DestroyRc
  <2>2. Structure'
    BY <1>1, <2>1, LeaveKeeps
  <2>3. TypeOK'
    BY <1>1, <2>1, LeaveTypes DEF TypeOK
  <2>4. \A b \in Counters : Cardinality(Holders(b)') = Cardinality(Holders(b))
    BY <1>2, <1>3, <2>1
  <2>5. \A z \in Pointers :
          /\ z # h => counter'[z] = counter[z] /\ ptr'[z] = ptr[z]
                      /\ (z \notin dangling' => z \notin dangling)
          /\ z = h => counter'[z] = "none"
    BY <1>1, <2>1 DEF Leave, TypeOK
  <2>6. CountExact'
    <3> SUFFICES ASSUME NEW z \in Pointers, InScope(z)', ptr'[z], z \notin dangling',
                        NEW b, counter'[z] = b
                 PROVE  count'[b] = Cardinality(Holders(b)')
      BY DEF CountExact, Holders
    <3>1. z # h /\ counter[z] = b /\ ptr[z] /\ z \notin dangling /\ InScope(z)
      BY <2>5 DEF InScope
    <3>2. b \in Counters /\ count[b] = Cardinality(Holders(b))
      BY <3>1, <1>1 DEF CountExact, TypeOK, InScope
    <3> QED
      BY <3>2, <2>1, <2>4
  <2> QED
    BY <2>2, <2>3, <2>6 DEF IInv
<1>4. CASE ptr[h]
  <2> DEFINE last == Down(count[c]) = 0
  <2>1. h \notin dangling
    BY <1>1, <1>4 DEF Structure, DanglingEmpty
  <2>2. /\ count' = [count EXCEPT ![c] = Down(@)]
        /\ Leave(h, last)
        /\ weak_count' = weak_count /\ stale' = stale
        /\ last \in BOOLEAN
    BY <1>0, <1>4, <2>1 DEF DestroyRc, Through
  <2>3. count[c] = Cardinality(Holders(c))
    BY <1>0, <1>1, <1>4, <2>1 DEF CountExact
  <2>4. Cardinality(Holders(c)) > 0
    <3>1. h \in Holders(c)
      BY <1>0, <1>4 DEF Holders
    <3> QED
      BY <3>1, HeldOnce
  <2> HIDE DEF last
  <2>5. \A b \in Counters :
          /\ Cardinality(Holders(b)) \in 0 .. Wrap - 1
          /\ Cardinality(Holders(b)') \in 0 .. Wrap - 1
          /\ b = c => Cardinality(Holders(b)') = Cardinality(Holders(b)) - 1
          /\ b # c => Cardinality(Holders(b)') = Cardinality(Holders(b))
    BY <1>2, <1>4, <2>2
  <2>6. Down(count[c]) = Cardinality(Holders(c)')
    <3>1. count[c] \in 0 .. Wrap - 1
      BY <2>3, <2>5
    <3>2. count[c] > 0 /\ Cardinality(Holders(c)') = count[c] - 1
      BY <2>3, <2>4, <2>5
    <3> QED
      BY <3>1, <3>2, WordFacts
  <2>7. \A z \in Pointers :
          /\ z # h => /\ counter'[z] = counter[z] /\ ptr'[z] = ptr[z]
                      /\ z \notin dangling' =>
                           z \notin dangling /\ (last => counter[z] # c)
          /\ z = h => counter'[z] = "none"
    BY <1>0, <1>1, <2>2 DEF Leave, TypeOK
  <2>8. last => Holders(c)' = {}
    <3>1. Holders(c)' \subseteq Strong
      BY DEF Holders
    <3>2. IsFiniteSet(Holders(c)')
      BY <3>1, FS_Subset, RefCountAssumption
    <3>3. last => Cardinality(Holders(c)') = 0
      BY <2>6 DEF last
    <3> QED
      BY <3>2, <3>3, FS_EmptySet
  <2>9. last => \A g \in Strong : g # h /\ counter[g] = counter[h] => ~ptr[g]
    <3> SUFFICES ASSUME last, NEW g \in Strong, g # h, counter[g] = c PROVE ~ptr[g]
      BY <1>0
    <3>1. counter'[g] = c /\ ptr'[g] = ptr[g]
      BY <2>7 DEF Pointers
    <3>2. g \notin Holders(c)'
      BY <2>8
    <3> QED
      BY <3>1, <3>2 DEF Holders
  <2>10. Structure'
    BY <1>1, <2>2, <2>9, LeaveKeeps
  <2>11. TypeOK'
    <3>1. count' \in [Counters -> 0 .. Wrap - 1]
      BY <1>1, <2>2, WordFacts DEF TypeOK
    <3> QED
      BY <3>1, <1>1, <2>2, LeaveTypes DEF TypeOK
  <2>12. CountExact'
    <3> SUFFICES ASSUME NEW z \in Pointers, InScope(z)', ptr'[z], z \notin dangling',
                        NEW b, counter'[z] = b
                 PROVE  count'[b] = Cardinality(Holders(b)')
      BY DEF CountExact, Holders
    <3>1. z # h /\ counter[z] = b /\ ptr[z] /\ z \notin dangling /\ InScope(z)
      BY <2>7 DEF InScope
    <3>2. b \in Counters /\ count[b] = Cardinality(Holders(b))
      BY <3>1, <1>1 DEF CountExact, TypeOK, InScope
    <3>3. CASE b = c
      BY <3>3, <1>1, <2>2, <2>6 DEF TypeOK
    <3>4. CASE b # c
      <4>1. count'[b] = count[b]
        BY <3>2, <3>4, <1>1, <2>2 DEF TypeOK
      <4> QED
        BY <4>1, <3>2, <3>4, <2>5
    <3> QED
      BY <3>3, <3>4
  <2> QED
    BY <2>10, <2>11, <2>12 DEF IInv
<1> QED
  BY <1>3, <1>4

LEMMA ShareWeakIInv ==
  ASSUME IInv, NEW w \in Weak, NEW x \in Pointers, ShareWeak(w, x)
  PROVE  IInv'
<1>1. CASE x \in dangling
  BY <1>1, StaleKeeps DEF ShareWeak, Through
<1>2. CASE x \notin dangling
  <2>1. /\ TypeOK /\ Structure /\ w \in Pointers /\ InScope(x) /\ w \notin dangling
        /\ counter[x] \in Counters
        /\ weak_count' = [weak_count EXCEPT ![counter[x]] = Up(@)]
        /\ Point(w, x)
        /\ made' = made /\ count' = count /\ dangling' = dangling /\ stale' = stale
    BY <1>2 DEF ShareWeak, Through, IInv, TypeOK, Structure, Scoped, InScope, Pointers
  <2>2. dangling' = dangling \ {w}
    BY <2>1
  <2>3. Structure'
    BY <1>2, <2>1, <2>2, PointKeeps
  <2>4. TypeOK'
    BY <2>1, PointTypes, WordFacts DEF TypeOK
  <2>5. /\ \A z \in Pointers : z # w => counter'[z] = counter[z] /\ ptr'[z] = ptr[z]
        /\ counter'[w] = counter[x] /\ ptr'[w] = ptr[x]
    BY <2>1 DEF Point, TypeOK
  <2>6. CountExact'
    BY <1>2, <2>1, <2>5, WeakKeepsCounts
  <2> QED
    BY <2>3, <2>4, <2>6 DEF IInv
<1> QED
  BY <1>1, <1>2

LEMMA AssignWeakIInv ==
  ASSUME IInv, NEW w \in Weak, NEW x \in Pointers, AssignWeak(w, x)
  PROVE  IInv'
<1>1. CASE x \in dangling
  BY <1>1, StaleKeeps DEF AssignWeak, Through
<1>2. CASE x \notin dangling
  <2> DEFINE without == [weak_count EXCEPT ![counter[w]] = Down(@)]
  <2>1. /\ TypeOK /\ Structure /\ w \in Pointers /\ InScope(x)
        /\ counter[x] \in Counters /\ counter[w] \in Counters
        /\ weak_count' = [without EXCEPT ![counter[x]] = Up(@)]
        /\ Point(w, x)
        /\ made' = made /\ count' = count /\ dangling' = dangling \ {w} /\ stale' = stale
    BY <1>2 DEF AssignWeak, Through, IInv, TypeOK, InScope, Pointers
  <2>2. without \in [Counters -> 0 .. Wrap - 1]
    BY <2>1, WordFacts DEF TypeOK
  <2> HIDE DEF without
  <2>3. weak_count' \in [Counters -> 0 .. Wrap - 1]
    BY <2>1, <2>2, WordFacts
  <2>4. Structure'
    BY <1>2, <2>1, PointKeeps
  <2>5. TypeOK'
    BY <2>1, <2>3, PointTypes DEF TypeOK
  <2>6. /\ \A z \in Pointers : z # w => counter'[z] = counter[z] /\ ptr'[z] = ptr[z]
        /\ \A z \in Pointers : z # w /\ z \notin dangling' => z \notin dangling
        /\ counter'[w] = counter[x] /\ ptr'[w] = ptr[x]
    BY <2>1 DEF Point, TypeOK
  <2>7. CountExact'
    BY <1>2, <2>1, <2>6, WeakKeepsCounts
  <2> QED
    BY <2>4, <2>5, <2>7 DEF IInv
<1> QED
  BY <1>1, <1>2

LEMMA DestroyWeakIInv ==
  ASSUME IInv, NEW w \in Weak, DestroyWeak(w)
  PROVE  IInv'
<1>1. CASE w \in dangling
  BY <1>1, StaleKeeps DEF DestroyWeak, Through
<1>2. CASE w \notin dangling
  <2> DEFINE c == counter[w]
             last == Down(weak_count[c]) = 0 /\ count[c] = 0
  <2>1. /\ TypeOK /\ Structure /\ CountExact /\ InScope(w) /\ w \in Pointers
        /\ c \in Counters
        /\ weak_count' = [weak_count EXCEPT ![c] = Down(@)]
        /\ Leave(w, last)
        /\ count' = count /\ stale' = stale
        /\ last \in BOOLEAN
    BY <1>2 DEF DestroyWeak, Through, IInv, TypeOK, InScope, Pointers
  <2>2. last => count[c] = 0
    OBVIOUS
  <2> HIDE DEF c, last
  \* Whatever this deletes has no holder: a holder that does not dangle would
  \* share its object with w, and be counted.
  <2>3. last => \A g \in Strong : g # w /\ counter[g] = counter[w] => ~ptr[g]
    <3> SUFFICES ASSUME last, NEW g \in Strong, counter[g] = c, ptr[g] PROVE FALSE
      BY <2>1 DEF c, TypeOK, Pointers
    <3>1. g \in Pointers /\ g \notin dangling
      BY <2>1 DEF Structure, DanglingEmpty, Pointers
    <3>2. InScope(g)
      BY <2>1 DEF InScope, c
    <3>3. count[c] = Cardinality(Holders(c))
      BY <3>1, <3>2, <2>1 DEF CountExact
    <3>4. g \in Holders(c)
      BY DEF Holders
    <3>5. Cardinality(Holders(c)) > 0 /\ Cardinality(Holders(c)) \in Nat
      BY <3>4, HeldOnce
    <3> QED
      BY <3>3, <3>5, <2>2
  <2>4. Structure'
    BY <2>1, <2>3, LeaveKeeps
  <2>5. TypeOK'
    <3>1. weak_count' \in [Counters -> 0 .. Wrap - 1]
      BY <2>1, WordFacts DEF TypeOK
    <3> QED
      BY <3>1, <2>1, LeaveTypes DEF TypeOK
  <2>6. /\ \A z \in Pointers : z # w => counter'[z] = counter[z] /\ ptr'[z] = ptr[z]
        /\ \A z \in Pointers : z # w /\ z \notin dangling' => z \notin dangling
        /\ counter'[w] = "none"
    BY <2>1 DEF Leave, TypeOK
  <2>7. CountExact'
    BY <2>1, <2>6, WeakKeepsCounts
  <2> QED
    BY <2>4, <2>5, <2>7 DEF IInv
<1> QED
  BY <1>1, <1>2

----------------------------------------------------------------------------
(* Theorems *)

LEMMA NextIInv == IInv /\ [Next]_vars => IInv'
<1> SUFFICES ASSUME IInv, [Next]_vars PROVE IInv'
  OBVIOUS
<1>0. Strong \subseteq Pointers /\ Weak \subseteq Pointers
  BY DEF Pointers
<1>1. ASSUME NEW x \in Pointers, NEW c \in Counters,
             (x \in Strong /\ MakeRc(x, c)) \/ EmptyRc(x, c) \/ EmptyWeak(x, c)
      PROVE  IInv'
  <2>1. CASE x \in Strong /\ MakeRc(x, c)
    <3>1. PICK object \in BOOLEAN, n \in {0, 1} : object /\ n = 1 /\ Make(x, c, object, n)
      BY <2>1 DEF MakeRc
    <3> QED
      BY <2>1, <3>1, MakeIInv
  <2>2. CASE EmptyRc(x, c) \/ EmptyWeak(x, c)
    <3>1. PICK object \in BOOLEAN, n \in {0, 1} : ~object /\ n = 0 /\ Make(x, c, object, n)
      BY <2>2 DEF EmptyRc, EmptyWeak
    <3> QED
      BY <3>1, MakeIInv
  <2> QED
    BY <1>1, <2>1, <2>2
<1>2. ASSUME RcStep PROVE IInv'
  <2>1. PICK h \in Strong :
          \/ \E c \in Counters : MakeRc(h, c) \/ EmptyRc(h, c)
          \/ \E g \in Strong : CopyRc(h, g) \/ AssignRc(h, g)
          \/ \E w \in Weak : Lock(h, w)
          \/ DestroyRc(h)
    BY <1>2 DEF RcStep
  <2>2. ASSUME NEW c \in Counters, MakeRc(h, c) \/ EmptyRc(h, c) PROVE IInv'
    BY <2>2, <1>0, <1>1
  <2>3. ASSUME NEW x \in Pointers, CopyRc(h, x) PROVE IInv'
    BY <2>3, CopyRcIInv
  <2>4. ASSUME NEW w \in Weak, Lock(h, w) PROVE IInv'
    BY <2>3, <2>4, <1>0 DEF Lock
  <2>5. ASSUME NEW g \in Strong, AssignRc(h, g) PROVE IInv'
    BY <2>5, AssignRcIInv
  <2>6. CASE DestroyRc(h)
    BY <2>6, DestroyRcIInv
  <2> QED
    BY <2>1, <2>2, <2>3, <2>4, <2>5, <2>6, <1>0
<1>3. ASSUME WeakStep PROVE IInv'
  <2>1. PICK w \in Weak :
          \/ \E c \in Counters : EmptyWeak(w, c)
          \/ \E x \in Pointers : ShareWeak(w, x) \/ AssignWeak(w, x)
          \/ DestroyWeak(w)
    BY <1>3 DEF WeakStep
  <2>2. ASSUME NEW c \in Counters, EmptyWeak(w, c) PROVE IInv'
    BY <2>2, <1>0, <1>1
  <2>3. ASSUME NEW x \in Pointers, ShareWeak(w, x) \/ AssignWeak(w, x) PROVE IInv'
    BY <2>3, ShareWeakIInv, AssignWeakIInv
  <2>4. CASE DestroyWeak(w)
    BY <2>4, DestroyWeakIInv
  <2> QED
    BY <2>1, <2>2, <2>3, <2>4
<1>4. CASE UNCHANGED vars
  <2>1. \A c : Holders(c)' = Holders(c)
    BY <1>4 DEF vars, Holders
  <2>2. Structure'
    BY <1>4 DEF vars, IInv, Structure, PointsToMade, SameObject, DanglingEmpty, Scoped, InScope
  <2>3. TypeOK' /\ CountExact'
    BY <1>4, <2>1 DEF vars, IInv, TypeOK, CountExact, InScope
  <2> QED
    BY <2>2, <2>3 DEF IInv
<1> QED
  BY <1>2, <1>3, <1>4 DEF Next

\* Everything below rests on IInv: every constructor, assignment and destructor
\* keeps the counts of objects exact, in any order and also when a weak outlives
\* its counter and writes to it.
THEOREM RefCountInvariance == Spec => []IInv
  BY InitIInv, NextIInv, PTL DEF Spec

\* A pointer to an object whose counter lives reads the number of its holders.
THEOREM CountsExact == Spec => []CountExact
<1>1. IInv => CountExact
  BY DEF IInv
<1> QED
  BY <1>1, RefCountInvariance, PTL

\* No object is deleted while an rc holds it, nor its counter.
THEOREM NothingHeldIsDeleted == Spec => []HeldIsLive
<1>1. IInv => HeldIsLive
  BY DEF IInv, Structure, PointsToMade, DanglingEmpty, HeldIsLive, Pointers
<1> QED
  BY <1>1, RefCountInvariance, PTL

\* The last holder's destructor deletes the object, and whatever deletes one
\* leaves nobody holding it.
THEOREM LastHolderDeletes == Spec => LastDeletes
<1> DEFINE Deletes ==
      \A c \in made :
        /\ (\E h \in Strong : DestroyRc(h) /\ Holders(c) = {h}) => c \notin made'
        /\ c \notin made' => Holders(c)' = {}
<1>1. ASSUME IInv, IInv' PROVE Deletes
  <2> SUFFICES ASSUME NEW c \in made
               PROVE  /\ (\E h \in Strong : DestroyRc(h) /\ Holders(c) = {h}) => c \notin made'
                      /\ c \notin made' => Holders(c)' = {}
    OBVIOUS
  <2>0. c \in Counters /\ c # "none"
    BY <1>1, RefCountAssumption DEF IInv, TypeOK
  <2>1. ASSUME NEW h \in Strong, DestroyRc(h), Holders(c) = {h}
        PROVE  c \notin made'
    <3>1. counter[h] = c /\ ptr[h] /\ h \in Pointers /\ InScope(h) /\ h \notin dangling
      BY <2>0, <2>1, <1>1 DEF Holders, Pointers, InScope, IInv, Structure, DanglingEmpty
    <3>2. count[c] = 1
      <4>1. count[c] = Cardinality(Holders(c))
        BY <1>1, <3>1 DEF IInv, CountExact
      <4>2. Cardinality({h}) = 1
        BY FS_Singleton
      <4> QED
        BY <2>1, <4>1, <4>2
    <3>3. count[c] \in 0 .. Wrap - 1
      BY <1>1, <2>0 DEF IInv, TypeOK
    <3>4. Down(count[c]) = 0
      BY <3>2, <3>3, WordFacts
    <3>5. Leave(h, Down(count[c]) = 0)
      BY <2>1, <3>1 DEF DestroyRc, Through
    <3>6. made' = made \ {c}
      BY <3>1, <3>4, <3>5 DEF Leave
    <3> QED
      BY <3>6
  <2>2. ASSUME c \notin made' PROVE Holders(c)' = {}
    <3> SUFFICES ASSUME NEW h \in Strong, counter'[h] = c, ptr'[h] PROVE FALSE
      BY DEF Holders
    <3>1. h \in Pointers /\ h \notin dangling' /\ InScope(h)'
      BY <1>1, <2>0 DEF IInv, Structure, DanglingEmpty, Pointers, InScope
    <3> QED
      BY <3>1, <2>2, <1>1 DEF IInv, Structure, PointsToMade, InScope
  <2> QED
    BY <2>1, <2>2
<1>2. IInv /\ IInv' => [Deletes]_vars
  BY <1>1
<1> QED
  BY <1>2, RefCountInvariance, PTL DEF LastDeletes

----------------------------------------------------------------------------
(* Strings *)

\* What the bytes of buffers are.
Char == {"junk", Text!Nul} \cup UNION {Text!ToSet(cstr) : cstr \in Literals}

\* A buffer reads as a string: its bytes come first, and its end is marked.
Holds(held, means) ==
  /\ \A k \in 1 .. Len(means) : k <= Len(held) /\ held[k] = means[k]
  /\ means # <<>> => Len(means) + 1 \in 1 .. Len(held) /\ held[Len(means) + 1] = Text!Nul

TextTypes ==
  /\ string \in [StringVars -> [data : Buffers \cup {"none"}, length : Nat]]
  /\ text \in [StringVars -> Seq(Char)]
  /\ block \in [Buffers -> Seq(Char)]
  /\ given \subseteq Buffers

\* A string that no other has disturbed reads what it ought to.
Intact(s) ==
  /\ string[s].data \in given
  /\ string[s].length = Len(text[s])
  /\ Holds(block[string[s].data], text[s])

Good(s) == Text!Exists(s) /\ s \notin disturbed

TextIntact == \A s \in StringVars : Good(s) => Intact(s)

\* Copies are alike.
KinAlike == \A s, o \in StringVars : {s, o} \in kin =>
  s # o /\ Text!Exists(s) /\ string[s] = string[o] /\ text[s] = text[o]

\* Undisturbed strings share a buffer only with their copies.
SharedByKin == \A s, o \in StringVars :
  Good(s) /\ Good(o) /\ s # o /\ string[s].data = string[o].data => {s, o} \in kin

TextInv == TextTypes /\ TextIntact /\ KinAlike /\ SharedByKin

LEMMA CharsAre == "junk" \in Char /\ Text!Nul \in Char
BY DEF Char

LEMMA LiteralsAre == ASSUME NEW cstr \in Literals PROVE cstr \in Seq(Char)
<1>1. cstr \in Seq(Text!ToSet(cstr))
  BY TextAssumption DEF Text!StringsAssumption
<1>2. Text!ToSet(cstr) \subseteq Char
  BY DEF Char
<1> HIDE DEF Char
<1> QED
  BY <1>1, <1>2, SeqMonotonic

LEMMA AppendHolds ==
  ASSUME NEW means \in Seq(Char)
  PROVE  /\ Append(means, Text!Nul) \in Seq(Char)
         /\ Holds(Append(means, Text!Nul), means)
<1>1. Append(means, Text!Nul) \in Seq(Char)
      /\ Len(Append(means, Text!Nul)) = Len(means) + 1
      /\ \A i \in 1 .. Len(means) : Append(means, Text!Nul)[i] = means[i]
      /\ Append(means, Text!Nul)[Len(means) + 1] = Text!Nul
  BY CharsAre, AppendProperties
<1>2. Len(means) \in Nat
  BY LenProperties
<1> QED
  BY <1>1, <1>2, SMT DEF Holds

LEMMA JunkIs == ASSUME NEW n \in Nat PROVE Text!Junk(n) \in Seq(Char) /\ Len(Text!Junk(n)) = n
<1>1. Text!Junk(n) \in [1 .. n -> Char]
  BY CharsAre DEF Text!Junk
<1> HIDE DEF Char
<1>2. Text!Junk(n) \in Seq(Char)
  BY <1>1, SeqDef
<1> QED
  BY <1>1, <1>2, LenProperties, SMT

\* The bytes of an intact string are what it ought to read.
LEMMA IntactReads ==
  ASSUME TextTypes, NEW s \in StringVars, Intact(s)
  PROVE  Text!Bytes(s) = text[s]
<1>1. text[s] \in Seq(Char) /\ string[s].length = Len(text[s]) /\ Len(text[s]) \in Nat
  BY LenProperties DEF TextTypes, Intact
<1>2. text[s] = [k \in 1 .. Len(text[s]) |-> text[s][k]]
  BY <1>1, LenProperties
<1>3. \A k \in 1 .. Len(text[s]) :
         k <= Len(block[string[s].data]) /\ block[string[s].data][k] = text[s][k]
  BY DEF Intact, Holds
<1> QED
  BY <1>1, <1>2, <1>3 DEF Text!Bytes


\* A string that nothing is done to stays as it is.
LEMMA OthersIntact ==
  ASSUME TextTypes, NEW o \in StringVars, Intact(o),
         string'[o] = string[o], text'[o] = text[o],
         string[o].data \in given',
         block'[string[o].data] = block[string[o].data]
  PROVE  Intact(o)'
BY DEF Intact

\* A new buffer, or the old one, that is filled for s alone: every string that
\* is undisturbed behind it was so before or is s.
LEMMA FillKeeps ==
  ASSUME TextInv, NEW s \in StringVars, NEW b \in Buffers, NEW length \in Nat,
         NEW content \in Seq(Char), NEW means \in Seq(Char),
         string' = [string EXCEPT ![s] = [data |-> b, length |-> length]],
         text' = [text EXCEPT ![s] = means],
         given' \subseteq Buffers, b \in given',
         block' = Text!Forget([block EXCEPT ![b] = content], given'),
         kin' = {pair \in kin : s \notin pair},
         s \notin disturbed' => length = Len(means) /\ Holds(content, means),
         \A o \in StringVars \ {s} : Text!Exists(o) /\ o \notin disturbed' =>
            /\ o \notin disturbed
            /\ string[o].data # b
            /\ string[o].data \in given'
  PROVE  TextInv'
<1>1. /\ string \in [StringVars -> [data : Buffers \cup {"none"}, length : Nat]]
      /\ text \in [StringVars -> Seq(Char)] /\ block \in [Buffers -> Seq(Char)]
      /\ given \subseteq Buffers
  BY DEF TextInv, TextTypes
<1>2. \A o \in StringVars \ {s} : string'[o] = string[o] /\ text'[o] = text[o]
  BY <1>1
<1>3. string'[s] = [data |-> b, length |-> length] /\ text'[s] = means
  BY <1>1
<1>4. \A c \in Buffers : block'[c] = IF c \in given' THEN IF c = b THEN content ELSE block[c]
                                     ELSE <<>>
  BY <1>1 DEF Text!Forget
<1>5. TextTypes'
  <2>1. <<>> \in Seq(Char)
    BY EmptySeq
  <2>2. block' \in [Buffers -> Seq(Char)]
    BY <1>1, <2>1 DEF Text!Forget
  <2>3. [data |-> b, length |-> length] \in [data : Buffers \cup {"none"}, length : Nat]
    OBVIOUS
  <2>4. string' \in [StringVars -> [data : Buffers \cup {"none"}, length : Nat]]
    BY <1>1, <2>3, Zenon
  <2>5. text' \in [StringVars -> Seq(Char)]
    BY <1>1, Zenon
  <2> QED
    BY <2>2, <2>4, <2>5 DEF TextTypes
<1>6. ASSUME NEW o \in StringVars, o # s, Good(o)'
      PROVE  /\ Good(o) /\ string'[o].data # b /\ string'[o] = string[o]
             /\ Intact(o)'
  <2>1. string'[o] = string[o] /\ text'[o] = text[o]
    BY <1>2, <1>6
  <2>2. Text!Exists(o) /\ o \notin disturbed'
    BY <1>6, <2>1 DEF Good, Text!Exists
  <2>3. Good(o) /\ string[o].data # b /\ string[o].data \in given'
    BY <1>6, <2>2 DEF Good
  <2>4. Intact(o)
    BY <2>3 DEF TextInv, TextIntact
  <2>5. string[o].data \in Buffers
    BY <1>1, <2>4 DEF Intact
  <2>6. block'[string[o].data] = block[string[o].data]
    BY <1>4, <2>3, <2>5
  <2>7. Intact(o)'
    BY <2>1, <2>3, <2>4, <2>6, OthersIntact DEF TextInv
  <2> QED
    BY <2>1, <2>3, <2>7
<1>7. ASSUME Good(s)'
      PROVE  Intact(s)'
  <2>1. length = Len(means) /\ Holds(content, means)
    BY <1>7 DEF Good
  <2>2. block'[b] = content
    BY <1>4
  <2> QED
    BY <1>3, <2>1, <2>2 DEF Intact
<1>8. TextIntact'
  BY <1>6, <1>7 DEF TextIntact
<1>9. KinAlike'
  <2> SUFFICES ASSUME NEW r \in StringVars, NEW o \in StringVars, {r, o} \in kin'
               PROVE  /\ r # o /\ Text!Exists(r)'
                      /\ string'[r] = string'[o] /\ text'[r] = text'[o]
    BY DEF KinAlike
  <2>1. {r, o} \in kin /\ r # s /\ o # s
    OBVIOUS
  <2> QED
    BY <1>2, <2>1 DEF TextInv, KinAlike, Text!Exists
<1>10. SharedByKin'
  <2> SUFFICES ASSUME NEW r \in StringVars, NEW o \in StringVars,
                      Good(r)', Good(o)', r # o, string'[r].data = string'[o].data
               PROVE  {r, o} \in kin'
    BY DEF SharedByKin
  <2>1. string'[s].data = b
    BY <1>3
  <2>2. r # s /\ o # s
    BY <1>6, <2>1
  <2>3. {r, o} \in kin
    BY <1>6, <2>2 DEF TextInv, SharedByKin
  <2> QED
    BY <2>2, <2>3
<1> QED
  BY <1>5, <1>8, <1>9, <1>10 DEF TextInv

\* Whatever a new buffer is filled with, all other strings keep theirs.
LEMMA GiveKeeps ==
  ASSUME TextInv, NEW s \in StringVars, NEW length \in Nat,
         NEW content \in Seq(Char), NEW means \in Seq(Char),
         Text!Give(s, length, content, means),
         s \notin disturbed' => length = Len(means) /\ Holds(content, means),
         \A o \in StringVars \ {s} : o \notin disturbed' => o \notin disturbed
  PROVE  TextInv'
<1>1. PICK b \in Buffers \ given :
        /\ string' = [string EXCEPT ![s] = [data |-> b, length |-> length]]
        /\ given' = {string'[o].data : o \in StringVars} \cap (given \cup {b})
        /\ block' = Text!Forget([block EXCEPT ![b] = content], given')
  BY DEF Text!Give
<1>2. text' = [text EXCEPT ![s] = means] /\ kin' = {pair \in kin : s \notin pair}
  BY DEF Text!Give
<1>3. /\ string \in [StringVars -> [data : Buffers \cup {"none"}, length : Nat]]
      /\ given \subseteq Buffers
  BY DEF TextInv, TextTypes
<1>4. string'[s].data = b /\ \A o \in StringVars \ {s} : string'[o] = string[o]
  BY <1>1, <1>3
<1>5. given' \subseteq Buffers /\ b \in given'
  BY <1>1, <1>3, <1>4
<1>6. ASSUME NEW o \in StringVars \ {s}, Text!Exists(o), o \notin disturbed'
      PROVE  o \notin disturbed /\ string[o].data # b /\ string[o].data \in given'
  <2>1. Intact(o)
    BY <1>6 DEF TextInv, TextIntact, Good
  <2>2. string[o].data \in given
    BY <2>1 DEF Intact
  <2> QED
    BY <1>1, <1>4, <1>6, <2>2
<1> QED
  BY <1>1, <1>2, <1>5, <1>6, FillKeeps

LEMMA TextInit == Text!Init => TextInv
<1> SUFFICES ASSUME Text!Init
             PROVE  TextInv
  OBVIOUS
<1>1. Text!None \in [data : Buffers \cup {"none"}, length : Nat]
  BY DEF Text!None
<1>2. <<>> \in Seq(Char)
  BY EmptySeq
<1>3. TextTypes
  BY <1>1, <1>2, Zenon DEF TextTypes, Text!Init
<1>4. \A s \in StringVars : ~Text!Exists(s)
  BY DEF Text!Init, Text!Exists
<1> QED
  BY <1>3, <1>4 DEF TextInv, TextIntact, KinAlike, SharedByKin, Good, Text!Init

\* What is read of a string that can be read is what was put in.
LEMMA ReadableReads ==
  ASSUME TextInv, NEW s \in StringVars, Text!Readable(s)
  PROVE  /\ Text!Bytes(s) = text[s] /\ string[s].length = Len(text[s])
         /\ text[s] \in Seq(Char) /\ Len(text[s]) \in Nat
         /\ Good(s) /\ string[s].data \in given /\ string[s].data \in Buffers
<1>1. Good(s)
  BY DEF Good, Text!Readable
<1>2. Intact(s)
  BY <1>1 DEF TextInv, TextIntact
<1>3. text[s] \in Seq(Char) /\ given \subseteq Buffers
  BY DEF TextInv, TextTypes
<1> QED
  BY <1>1, <1>2, <1>3, IntactReads, LenProperties DEF TextInv, Intact

LEMMA DefaultKeeps ==
  ASSUME TextInv, NEW s \in StringVars, Text!Default(s)
  PROVE  TextInv'
<1>1. Text!Junk(5) \in Seq(Char) /\ <<>> \in Seq(Char) /\ Len(<<>>) = 0
  BY JunkIs, EmptySeq
<1>2. Holds(Text!Junk(5), <<>>)
  BY <1>1, SMT DEF Holds
<1> QED
  BY <1>1, <1>2, GiveKeeps DEF Text!Default

LEMMA LiteralKeeps ==
  ASSUME TextInv, NEW s \in StringVars, NEW cstr \in Literals, Text!FromLiteral(s, cstr)
  PROVE  TextInv'
<1>1. cstr \in Seq(Char) /\ Len(cstr) \in Nat
  BY LiteralsAre, LenProperties
<1> QED
  BY <1>1, AppendHolds, GiveKeeps DEF Text!FromLiteral

LEMMA CopyKeeps ==
  ASSUME TextInv, NEW s \in StringVars, NEW other \in StringVars, Text!Copy(s, other)
  PROVE  TextInv'
<1>1. /\ string \in [StringVars -> [data : Buffers \cup {"none"}, length : Nat]]
      /\ text \in [StringVars -> Seq(Char)]
  BY DEF TextInv, TextTypes
<1>2. /\ ~Text!Exists(s) /\ Text!Readable(other) /\ s # other
      /\ string' = [string EXCEPT ![s] = string[other]]
      /\ text' = [text EXCEPT ![s] = text[other]]
      /\ kin' = kin \cup {{s, o} : o \in {other} \cup {p \in StringVars : {p, other} \in kin}}
      /\ block' = block /\ given' = given /\ disturbed' = disturbed
  BY DEF Text!Copy, Text!Readable
<1>3. /\ string'[s] = string[other] /\ text'[s] = text[other]
      /\ \A o \in StringVars \ {s} : string'[o] = string[o] /\ text'[o] = text[o]
  BY <1>1, <1>2
<1>4. TextTypes'
  BY <1>1, <1>2, Zenon DEF TextInv, TextTypes
<1>5. \A o \in StringVars : {s, o} \notin kin
  BY <1>2 DEF TextInv, KinAlike
<1>6. TextIntact'
  <2> SUFFICES ASSUME NEW o \in StringVars, Good(o)'
               PROVE  Intact(o)'
    BY DEF TextIntact
  <2>1. CASE o = s
    <3>1. Good(other)
      BY <1>2 DEF Good, Text!Readable
    <3> QED
      BY <1>2, <1>3, <2>1, <3>1 DEF Intact, TextInv, TextIntact
  <2>2. CASE o # s
    BY <1>2, <1>3, <2>2 DEF Intact, Good, Text!Exists, TextInv, TextIntact
  <2> QED
    BY <2>1, <2>2
<1>7. \A o \in StringVars : {o, other} = {other, o}
  OBVIOUS
<1>8. ASSUME NEW r \in StringVars, NEW o \in StringVars, {r, o} \in kin', r # s
      PROVE  /\ r # o /\ Text!Exists(r)'
             /\ string'[r] = string'[o] /\ text'[r] = text'[o]
  <2>1. CASE {r, o} \in kin
    <3>1. o # s
      <4> SUFFICES ASSUME o = s
                   PROVE  FALSE
        OBVIOUS
      <4>1. {r, o} = {s, r}
        OBVIOUS
      <4> QED
        BY <1>5, <2>1, <4>1
    <3> QED
      BY <1>3, <1>8, <2>1, <3>1 DEF TextInv, KinAlike, Text!Exists
  <2>2. CASE {r, o} \notin kin
    <3>1. PICK p \in {other} \cup {q \in StringVars : {q, other} \in kin} : {r, o} = {s, p}
      BY <1>2, <1>8, <2>2
    <3>2. r = p /\ o = s
      BY <1>8, <3>1
    <3>3. Text!Exists(other)
      BY <1>2 DEF Text!Readable
    <3>4. Text!Exists(p) /\ string[p] = string[other] /\ text[p] = text[other]
      BY <3>1, <3>3 DEF TextInv, KinAlike
    <3> QED
      BY <1>3, <1>8, <3>2, <3>4 DEF Text!Exists
  <2> QED
    BY <2>1, <2>2
<1>9. KinAlike'
  <2> SUFFICES ASSUME NEW r \in StringVars, NEW o \in StringVars, {r, o} \in kin'
               PROVE  /\ r # o /\ Text!Exists(r)'
                      /\ string'[r] = string'[o] /\ text'[r] = text'[o]
    BY DEF KinAlike
  <2>1. CASE r # s
    BY <1>8, <2>1
  <2>2. CASE r = s /\ o # s
    <3>1. {o, r} \in kin'
      <4>1. {o, r} = {r, o}
        OBVIOUS
      <4> QED
        BY <4>1
    <3> QED
      BY <1>8, <2>2, <3>1 DEF Text!Exists
  <2>3. CASE r = s /\ o = s
    <3>1. {r, o} \notin kin
      BY <1>5, <2>3
    <3>2. PICK p \in {other} \cup {q \in StringVars : {q, other} \in kin} : {r, o} = {s, p}
      BY <1>2, <3>1
    <3>3. p = s
      BY <2>3, <3>2
    <3>4. {s, other} \in kin
      BY <1>2, <3>2, <3>3
    <3> QED
      BY <1>5, <3>4
  <2> QED
    BY <2>1, <2>2, <2>3
<1>10. ASSUME NEW o \in StringVars \ {s}, Good(o), string[o].data = string[other].data
       PROVE  {s, o} \in kin'
  <2>1. Good(other)
    BY <1>2 DEF Good, Text!Readable
  <2>2. o = other \/ {o, other} \in kin
    BY <1>10, <2>1 DEF TextInv, SharedByKin
  <2>3. o \in {other} \cup {p \in StringVars : {p, other} \in kin}
    BY <2>2
  <2> QED
    BY <1>2, <2>3
<1>11. SharedByKin'
  <2> SUFFICES ASSUME NEW r \in StringVars, NEW o \in StringVars,
                      Good(r)', Good(o)', r # o, string'[r].data = string'[o].data
               PROVE  {r, o} \in kin'
    BY DEF SharedByKin
  <2>1. CASE r = s
    BY <1>2, <1>3, <1>10, <2>1 DEF Good, Text!Exists
  <2>2. CASE o = s
    <3>1. {s, r} \in kin'
      BY <1>2, <1>3, <1>10, <2>2 DEF Good, Text!Exists
    <3>2. {s, r} = {r, o}
      BY <2>2
    <3> QED
      BY <3>1, <3>2
  <2>3. CASE r # s /\ o # s
    <3>1. {r, o} \in kin
      BY <1>2, <1>3, <2>3 DEF Good, Text!Exists, TextInv, SharedByKin
    <3> QED
      BY <1>2, <3>1
  <2> QED
    BY <2>1, <2>2, <2>3
<1> QED
  BY <1>4, <1>6, <1>9, <1>11 DEF TextInv

LEMMA AssignKeeps ==
  ASSUME TextInv, NEW s \in StringVars, NEW other \in StringVars, Text!Assign(s, other)
  PROVE  TextInv'
<1>1. /\ Text!Bytes(other) = text[other] /\ string[other].length = Len(text[other])
      /\ text[other] \in Seq(Char) /\ Len(text[other]) \in Nat
  BY ReadableReads DEF Text!Assign
<1>2. CASE s = other
  <2>1. /\ Text!Give(s, string[other].length, Append(Text!Junk(string[s].length), Text!Nul), text[other])
        /\ disturbed' = disturbed \cup {s}
    BY <1>2 DEF Text!Assign
  <2>2. Append(Text!Junk(string[s].length), Text!Nul) \in Seq(Char)
    BY <1>1, <1>2, JunkIs, CharsAre, AppendProperties
  <2>3. s \in disturbed' /\ \A o \in StringVars \ {s} : o \notin disturbed' => o \notin disturbed
    BY <2>1
  <2> QED
    BY <1>1, <2>1, <2>2, <2>3, GiveKeeps
<1>3. CASE s # other
  <2>1. /\ Text!Give(s, Len(text[other]), Append(text[other], Text!Nul), text[other])
        /\ disturbed' = disturbed \ {s}
    BY <1>1, <1>3 DEF Text!Assign
  <2>2. \A o \in StringVars \ {s} : o \notin disturbed' => o \notin disturbed
    BY <2>1
  <2> QED
    BY <1>1, <2>1, <2>2, AppendHolds, GiveKeeps
<1> QED
  BY <1>2, <1>3

\* Two strings and the mark behind them.
LEMMA JoinedIs ==
  ASSUME NEW left \in Seq(Char), NEW right \in Seq(Char)
  PROVE  /\ left \o right \in Seq(Char) /\ Len(left \o right) = Len(left) + Len(right)
         /\ Len(left) + Len(right) \in Nat
         /\ left \o right \o <<Text!Nul>> = Append(left \o right, Text!Nul)
<1>1. left \o right \in Seq(Char) /\ Len(left \o right) = Len(left) + Len(right)
  BY ConcatProperties
<1>2. Append(left \o right, Text!Nul) = left \o right \o <<Text!Nul>>
  BY <1>1, CharsAre, AppendIsConcat
<1>3. Len(left) + Len(right) \in Nat
  BY LenProperties, SMT
<1> QED
  BY <1>1, <1>2, <1>3

LEMMA PlusKeeps ==
  ASSUME TextInv, NEW s \in StringVars, NEW left \in StringVars, NEW right \in StringVars,
         Text!Plus(s, left, right)
  PROVE  TextInv'
<1>1. /\ Text!Bytes(left) = text[left] /\ string[left].length = Len(text[left])
      /\ Text!Bytes(right) = text[right] /\ string[right].length = Len(text[right])
      /\ text[left] \in Seq(Char) /\ text[right] \in Seq(Char)
  BY ReadableReads DEF Text!Plus
<1> DEFINE both == text[left] \o text[right]
<1>2. both \in Seq(Char) /\ Len(both) = Len(text[left]) + Len(text[right]) /\ Len(both) \in Nat
      /\ both \o <<Text!Nul>> = Append(both, Text!Nul)
  BY <1>1, JoinedIs
<1>3. Text!Give(s, Len(both), Append(both, Text!Nul), both) /\ disturbed' = disturbed
  BY <1>1, <1>2 DEF Text!Plus
<1> HIDE DEF both
<1> QED
  BY <1>2, <1>3, AppendHolds, GiveKeeps

LEMMA SliceKeeps ==
  ASSUME TextInv, NEW s \in StringVars, NEW from \in StringVars,
         NEW start \in 0 .. MaxLength, NEW end \in 0 .. MaxLength,
         Text!Slice(s, from, start, end)
  PROVE  TextInv'
<1>1. /\ Text!Bytes(from) = text[from] /\ string[from].length = Len(text[from])
      /\ text[from] \in Seq(Char) /\ Len(text[from]) \in Nat
  BY ReadableReads DEF Text!Slice
<1>2. MaxLength \in Nat
  BY TextAssumption DEF Text!StringsAssumption
<1>3. 0 <= start /\ start <= end /\ end <= Len(text[from]) /\ start \in Nat /\ end \in Nat
  BY <1>1, <1>2, SMT DEF Text!Slice
<1> DEFINE part == SubSeq(text[from], start + 1, end)
<1>4. part \in Seq(Char) /\ Len(part) = end - start /\ Len(part) \in Nat
  <2>1. \A i \in start + 1 .. end : text[from][i] \in Char
    BY <1>1, <1>3, ElementOfSeq, SMT
  <2>2. start + 1 \in Int /\ end \in Int
    BY <1>3, SMT
  <2>3. part \in Seq(Char) /\ Len(part) = IF start + 1 <= end THEN end - (start + 1) + 1 ELSE 0
    BY <2>1, <2>2, SubSeqProperties
  <2> HIDE DEF part
  <2> QED
    BY <1>3, <2>3, SMT
<1>5. Text!Give(s, Len(part), Append(part, Text!Nul), part) /\ disturbed' = disturbed
  BY <1>1, <1>4 DEF Text!Slice
<1> HIDE DEF part
<1> QED
  BY <1>4, <1>5, AppendHolds, GiveKeeps

LEMMA AppendStringKeeps ==
  ASSUME TextInv, NEW s \in StringVars, NEW other \in StringVars, Text!AppendString(s, other)
  PROVE  TextInv'
<1>1. /\ Text!Bytes(s) = text[s] /\ string[s].length = Len(text[s])
      /\ Text!Bytes(other) = text[other] /\ string[other].length = Len(text[other])
      /\ text[s] \in Seq(Char) /\ text[other] \in Seq(Char)
      /\ Good(s) /\ string[s].data \in given /\ string[s].data \in Buffers
  BY ReadableReads DEF Text!AppendString
<1>2. /\ string \in [StringVars -> [data : Buffers \cup {"none"}, length : Nat]]
      /\ text \in [StringVars -> Seq(Char)]
      /\ given \subseteq Buffers
  BY DEF TextInv, TextTypes
<1> DEFINE both == text[s] \o text[other]
<1>3. both \in Seq(Char) /\ Len(both) = Len(text[s]) + Len(text[other]) /\ Len(both) \in Nat
      /\ both \o <<Text!Nul>> = Append(both, Text!Nul)
  BY <1>1, JoinedIs
<1>4. PICK b \in {string[s].data} \cup (Buffers \ given) :
       /\ string' = [string EXCEPT ![s] = [data |-> b, length |-> @.length + string[other].length]]
       /\ given' = (given \ {string[s].data}) \cup {b}
       /\ block' = Text!Forget([block EXCEPT ![b] = Text!Bytes(s) \o Text!Bytes(other) \o <<Text!Nul>>], given')
  BY DEF Text!AppendString
<1>5. /\ text' = [text EXCEPT ![s] = both] /\ kin' = {pair \in kin : s \notin pair}
      /\ disturbed' = disturbed \cup {o \in StringVars : {s, o} \in kin}
                        \cup (IF {s, other} \in kin THEN {s} ELSE {})
  BY <1>2 DEF Text!AppendString
<1>6. /\ string' = [string EXCEPT ![s] = [data |-> b, length |-> Len(both)]]
      /\ block' = Text!Forget([block EXCEPT ![b] = Append(both, Text!Nul)], given')
  BY <1>1, <1>2, <1>3, <1>4
<1>7. b \in Buffers /\ given' \subseteq Buffers /\ b \in given'
  BY <1>1, <1>2, <1>4
<1>8. ASSUME NEW o \in StringVars \ {s}, Text!Exists(o), o \notin disturbed'
      PROVE  o \notin disturbed /\ string[o].data # b /\ string[o].data \in given'
  <2>1. o \notin disturbed /\ {s, o} \notin kin
    BY <1>5, <1>8
  <2>2. Good(o)
    BY <1>8, <2>1 DEF Good
  <2>3. string[o].data \in given
    BY <2>2 DEF TextInv, TextIntact, Intact
  <2>4. string[o].data # string[s].data
    BY <1>1, <2>1, <2>2 DEF TextInv, SharedByKin
  <2> QED
    BY <1>4, <2>1, <2>3, <2>4
<1> HIDE DEF both
<1>9. Append(both, Text!Nul) \in Seq(Char) /\ Holds(Append(both, Text!Nul), both)
  BY <1>3, AppendHolds
<1> QED
  BY <1>3, <1>5, <1>6, <1>7, <1>8, <1>9, FillKeeps

LEMMA DestroyKeeps ==
  ASSUME TextInv, NEW s \in StringVars, Text!Destroy(s)
  PROVE  TextInv'
<1>1. /\ string \in [StringVars -> [data : Buffers \cup {"none"}, length : Nat]]
      /\ text \in [StringVars -> Seq(Char)] /\ block \in [Buffers -> Seq(Char)]
      /\ given \subseteq Buffers
  BY DEF TextInv, TextTypes
<1>2. /\ string' = [string EXCEPT ![s] = Text!None]
      /\ given' = given \ {string[s].data}
      /\ text' = [text EXCEPT ![s] = <<>>]
      /\ kin' = {pair \in kin : s \notin pair}
      /\ disturbed' = (disturbed \ {s}) \cup
            {o \in StringVars \ {s} :
               {s, o} \in kin \/ (s \in disturbed /\ string[o].data = string[s].data)}
      /\ block' = Text!Forget(block, given')
      /\ Text!Exists(s)
  BY DEF Text!Destroy
<1>3. /\ \A o \in StringVars \ {s} : string'[o] = string[o] /\ text'[o] = text[o]
      /\ string'[s] = Text!None
  BY <1>1, <1>2
<1>4. TextTypes'
  <2>1. <<>> \in Seq(Char)
    BY EmptySeq
  <2>2. block' \in [Buffers -> Seq(Char)]
    BY <1>1, <1>2, <2>1 DEF Text!Forget
  <2>3. Text!None \in [data : Buffers \cup {"none"}, length : Nat]
    BY DEF Text!None
  <2>4. string' \in [StringVars -> [data : Buffers \cup {"none"}, length : Nat]]
    BY <1>1, <1>2, <2>3, Zenon
  <2>5. text' \in [StringVars -> Seq(Char)]
    BY <1>1, <1>2, <2>1, Zenon
  <2> QED
    BY <1>1, <1>2, <2>2, <2>4, <2>5 DEF TextTypes
<1>5. ASSUME NEW o \in StringVars, Good(o)'
      PROVE  o # s /\ Good(o) /\ Intact(o)'
  <2>1. o # s
    BY <1>3, <1>5 DEF Good, Text!Exists
  <2>2. o \notin disturbed /\ {s, o} \notin kin
        /\ ~(s \in disturbed /\ string[o].data = string[s].data) /\ Text!Exists(o)
    BY <1>2, <1>3, <1>5, <2>1 DEF Good, Text!Exists
  <2>3. Good(o)
    BY <2>2 DEF Good
  <2>4. string[o].data # string[s].data
    BY <1>2, <2>1, <2>2, <2>3 DEF Good, TextInv, SharedByKin
  <2>5. Intact(o)
    BY <2>3 DEF TextInv, TextIntact
  <2>6. string[o].data \in given' /\ string[o].data \in Buffers
    BY <1>1, <1>2, <2>4, <2>5 DEF Intact
  <2>7. block'[string[o].data] = block[string[o].data]
    BY <1>2, <2>6 DEF Text!Forget
  <2>8. Intact(o)'
    BY <1>3, <2>1, <2>5, <2>6, <2>7, OthersIntact DEF TextInv
  <2> QED
    BY <2>1, <2>3, <2>8
<1>6. TextIntact'
  BY <1>5 DEF TextIntact
<1>7. KinAlike'
  <2> SUFFICES ASSUME NEW r \in StringVars, NEW o \in StringVars, {r, o} \in kin'
               PROVE  /\ r # o /\ Text!Exists(r)'
                      /\ string'[r] = string'[o] /\ text'[r] = text'[o]
    BY DEF KinAlike
  <2>1. {r, o} \in kin /\ r # s /\ o # s
    BY <1>2
  <2> QED
    BY <1>3, <2>1 DEF TextInv, KinAlike, Text!Exists
<1>8. SharedByKin'
  <2> SUFFICES ASSUME NEW r \in StringVars, NEW o \in StringVars,
                      Good(r)', Good(o)', r # o, string'[r].data = string'[o].data
               PROVE  {r, o} \in kin'
    BY DEF SharedByKin
  <2>1. r # s /\ o # s /\ Good(r) /\ Good(o)
    BY <1>5
  <2>2. {r, o} \in kin
    BY <1>3, <2>1 DEF TextInv, SharedByKin
  <2> QED
    BY <1>2, <2>1, <2>2
<1> QED
  BY <1>4, <1>6, <1>7, <1>8 DEF TextInv

LEMMA TextUnchanged ==
  ASSUME TextInv, UNCHANGED <<string, block, given, text, kin, disturbed>>
  PROVE  TextInv'
BY DEF TextInv, TextTypes, TextIntact, KinAlike, SharedByKin, Intact, Good, Text!Exists

LEMMA TextStep == TextInv /\ [UtilNext]_utilVars => TextInv'
<1> SUFFICES ASSUME TextInv, [UtilNext]_utilVars
             PROVE  TextInv'
  OBVIOUS
<1>1. CASE UNCHANGED stringVars
  BY <1>1, TextUnchanged DEF stringVars
<1>2. CASE Text!Next
  <2>1. PICK s \in StringVars :
          \/ Text!Default(s) \/ \E cstr \in Literals : Text!FromLiteral(s, cstr)
          \/ \E other \in StringVars :
               Text!Copy(s, other) \/ Text!Assign(s, other) \/ Text!AppendString(s, other)
          \/ \E left, right \in StringVars : Text!Plus(s, left, right)
          \/ \E from \in StringVars, start, end \in 0 .. MaxLength : Text!Slice(s, from, start, end)
          \/ Text!Destroy(s) \/ Text!split(s)
    BY <1>2 DEF Text!Next
  <2>2. Text!split(s) => TextInv'
    BY TextUnchanged DEF Text!split
  <2> QED
    BY <2>1, <2>2, DefaultKeeps, LiteralKeeps, CopyKeeps, AssignKeeps, AppendStringKeeps,
       PlusKeeps, SliceKeeps, DestroyKeeps
<1> QED
  BY <1>1, <1>2 DEF UtilNext, Uses, utilVars

\* Every undisturbed string reads what was put into it, and == tells them apart.
LEMMA IntactIsKept == TextInv => TextKept
<1> SUFFICES ASSUME TextInv
             PROVE  Text!TextKept
  BY DEF TextKept
<1> SUFFICES ASSUME NEW s \in {r \in StringVars : Text!Exists(r)} \ disturbed
             PROVE  /\ Text!Bytes(s) = text[s] /\ string[s].data \in given
                    /\ text[s] # <<>> => block[string[s].data][string[s].length + 1] = Text!Nul
                    /\ \A o \in {r \in StringVars : Text!Exists(r)} \ disturbed :
                         Text!Equal(s, o) <=> text[s] = text[o]
  BY DEF Text!TextKept
<1>1. \A o \in {r \in StringVars : Text!Exists(r)} \ disturbed :
        /\ o \in StringVars /\ Good(o) /\ Intact(o)
        /\ Text!Bytes(o) = text[o] /\ string[o].length = Len(text[o])
  BY ReadableReads DEF TextInv, TextIntact, Good, Text!Readable
<1>2. text[s] # <<>> => block[string[s].data][string[s].length + 1] = Text!Nul
  BY <1>1 DEF Intact, Holds
<1>3. ASSUME NEW o \in {r \in StringVars : Text!Exists(r)} \ disturbed
      PROVE  Text!Equal(s, o) <=> text[s] = text[o]
  <2>1. string[s].data = string[o].data => text[s] = text[o]
    BY <1>1 DEF TextInv, SharedByKin, KinAlike
  <2> QED
    BY <1>1, <2>1 DEF Text!Equal
<1> QED
  BY <1>1, <1>2, <1>3 DEF Intact

\* As long as no copy of a string frees or writes the common buffer, the string
\* reads what was put into it.
THEOREM StringsKeepText == UtilSpec => []TextKept
<1>1. UtilInit => TextInv
  BY TextInit DEF UtilInit
<1> QED
  BY <1>1, TextStep, IntactIsKept, PTL DEF UtilSpec

----------------------------------------------------------------------------
(* The sections of a string *)

\* What the loop of split starts with, and what it does with byte i.
FirstLoop == [out |-> <<>>, start |-> 0, size |-> 0]
LoopStep(bytes, i, l) ==
  IF bytes[i] = Text!Slash
  THEN [out |-> Append(l.out, SubSeq(bytes, l.start + 1, l.start + l.size)),
        start |-> i, size |-> 0]
  ELSE [l EXCEPT !.size = @ + 1]

IsLoop(bytes, n, f) ==
  f = [i \in 0 .. n |-> IF i = 0 THEN FirstLoop ELSE LoopStep(bytes, i, f[i - 1])]

LEMMA LoopExists ==
  ASSUME NEW bytes, NEW L \in Nat
  PROVE  \E f : IsLoop(bytes, L, f)
<1> DEFINE bad == {n \in Nat : ~\E f : IsLoop(bytes, n, f)}
<1> SUFFICES ASSUME bad # {}
             PROVE  FALSE
  OBVIOUS
<1>1. PICK n \in bad : \A m \in bad : n <= m
  <2>1. bad \subseteq Nat
    OBVIOUS
  <2> HIDE DEF bad
  <2> QED
    BY <2>1, LeastExists
<1>2. n \in Nat /\ ~\E f : IsLoop(bytes, n, f)
  OBVIOUS
<1>3. CASE n = 0
  <2> DEFINE f == [i \in 0 .. 0 |-> FirstLoop]
  <2>1. \A i \in 0 .. 0 : f[i] = IF i = 0 THEN FirstLoop ELSE LoopStep(bytes, i, f[i - 1])
    BY SMT
  <2>2. f = [i \in 0 .. 0 |-> f[i]]
    OBVIOUS
  <2>3. IsLoop(bytes, 0, f)
    <3> HIDE DEF f
    <3> QED
      BY <2>1, <2>2 DEF IsLoop
  <2> QED
    BY <1>2, <1>3, <2>3
<1>4. CASE n # 0
  <2>1. /\ n - 1 \in Nat /\ ~(n <= n - 1)
        /\ \A i \in 0 .. n : i = n \/ i \in 0 .. n - 1
        /\ \A i \in 0 .. n : i # 0 => i - 1 \in 0 .. n /\ i - 1 # n /\ i - 1 \in 0 .. n - 1
    BY <1>2, <1>4, SMT
  <2>2. PICK f : IsLoop(bytes, n - 1, f)
    <3>1. n - 1 \notin bad
      BY <1>1, <2>1
    <3> QED
      BY <2>1, <3>1
  <2>3. \A i \in 0 .. n - 1 : f[i] = IF i = 0 THEN FirstLoop ELSE LoopStep(bytes, i, f[i - 1])
    BY <2>2 DEF IsLoop
  <2> DEFINE g == [i \in 0 .. n |-> IF i = n THEN LoopStep(bytes, n, f[n - 1]) ELSE f[i]]
  <2>4. ASSUME NEW i \in 0 .. n
        PROVE  g[i] = IF i = 0 THEN FirstLoop ELSE LoopStep(bytes, i, g[i - 1])
    <3>1. CASE i = n
      <4>1. n - 1 \in 0 .. n /\ n - 1 # n
        BY <1>4, <2>1, <3>1
      <4>2. g[n - 1] = f[n - 1] /\ g[n] = LoopStep(bytes, n, f[n - 1])
        BY <3>1, <4>1
      <4> QED
        BY <1>4, <3>1, <4>2
    <3>2. CASE i # n
      <4>1. g[i] = f[i] /\ i \in 0 .. n - 1
        BY <2>1, <3>2
      <4>2. i # 0 => g[i - 1] = f[i - 1]
        BY <2>1
      <4> QED
        BY <2>3, <4>1, <4>2
    <3> QED
      BY <3>1, <3>2
  <2>5. g = [i \in 0 .. n |-> g[i]]
    OBVIOUS
  <2>6. IsLoop(bytes, n, g)
    <3> HIDE DEF g
    <3> QED
      BY <2>4, <2>5 DEF IsLoop
  <2> QED
    BY <1>2, <2>6
<1> QED
  BY <1>3, <1>4

LEMMA SectionsAre ==
  ASSUME NEW bytes, Len(bytes) \in Nat
  PROVE  \E f : /\ f[0] = FirstLoop
                /\ \A i \in 1 .. Len(bytes) : f[i] = LoopStep(bytes, i, f[i - 1])
                /\ Text!Sections(bytes) = f[Len(bytes)]
<1> DEFINE w == CHOOSE f : IsLoop(bytes, Len(bytes), f)
<1>1. Text!Sections(bytes) = w[Len(bytes)]
  BY DEF Text!Sections, IsLoop, FirstLoop, LoopStep, Text!SectionAfter
<1>2. IsLoop(bytes, Len(bytes), w)
  BY LoopExists
<1> HIDE DEF w
<1>3. /\ 0 \in 0 .. Len(bytes)
      /\ \A i \in 1 .. Len(bytes) : i \in 0 .. Len(bytes) /\ i # 0
  <2>1. \A n \in Nat : 0 \in 0 .. n /\ \A i \in 1 .. n : i \in 0 .. n /\ i # 0
    BY SMT
  <2> QED
    BY <2>1
<1>4. \A i \in 0 .. Len(bytes) : w[i] = IF i = 0 THEN FirstLoop ELSE LoopStep(bytes, i, w[i - 1])
  BY <1>2 DEF IsLoop
<1> QED
  BY <1>1, <1>3, <1>4

\* The bytes between two places.
Section(bytes, a, b) == SubSeq(bytes, a + 1, b - 1)
NoSlash(bytes, a, b) == \A j \in a + 1 .. b - 1 : bytes[j] # Text!Slash

\* The sections of the list end at the separators that c names, the first one
\* begins at the text's, and every other behind the end of the one before.
CutAt(bytes, list, c) ==
  /\ c[0] = 0
  /\ \A k \in 1 .. Len(list) :
       /\ c[k] \in Nat /\ c[k - 1] \in Nat /\ c[k - 1] < c[k]
       /\ list[k] = Section(bytes, c[k - 1], c[k]) /\ NoSlash(bytes, c[k - 1], c[k])

\* The loop of split at byte i.
LoopInv(V, bytes, i, l, c) ==
  /\ l \in [out : Seq(Seq(V)), start : Nat, size : Nat]
  /\ l.start + l.size = i
  /\ CutAt(bytes, l.out, c) /\ c[Len(l.out)] = l.start
  /\ \A k \in 1 .. Len(l.out) : c[k] <= i /\ bytes[c[k]] = Text!Slash
  /\ NoSlash(bytes, l.start, i + 1)

\* Another section is cut from the text.
MayCut(V, bytes, list, c, a, b) ==
  /\ list \in Seq(Seq(V)) /\ CutAt(bytes, list, c)
  /\ a \in Nat /\ c[Len(list)] = a /\ b \in Nat /\ a < b
  /\ Section(bytes, a, b) \in Seq(V) /\ NoSlash(bytes, a, b)

LEMMA CutMore ==
  ASSUME NEW V, NEW bytes, NEW list, NEW c, NEW a, NEW b, MayCut(V, bytes, list, c, a, b)
  PROVE  \E d : /\ CutAt(bytes, Append(list, Section(bytes, a, b)), d)
                /\ d[Len(list) + 1] = b
                /\ \A k \in 0 .. Len(list) : d[k] = c[k]
<1> DEFINE s == Section(bytes, a, b)
           more == Append(list, s)
           d == [k \in 0 .. Len(list) + 1 |-> IF k <= Len(list) THEN c[k] ELSE b]
           n == Len(list)
<1>0. /\ list \in Seq(Seq(V)) /\ CutAt(bytes, list, c)
      /\ a \in Nat /\ c[Len(list)] = a /\ b \in Nat /\ a < b
      /\ Section(bytes, a, b) \in Seq(V) /\ NoSlash(bytes, a, b)
  BY DEF MayCut
<1>1. n \in Nat
  BY <1>0, LenProperties
<1>2. /\ more \in Seq(Seq(V)) /\ Len(more) = n + 1
      /\ \A k \in 1 .. n : more[k] = list[k]
      /\ more[n + 1] = s
  <2> HIDE DEF s
  <2>1. s \in Seq(V)
    BY <1>0 DEF s
  <2> QED
    BY <1>0, <2>1, AppendProperties
<1>3. /\ \A k \in 0 .. n : d[k] = c[k]
      /\ d[n + 1] = b
  <2> HIDE DEF n
  <2>1. d = [k \in 0 .. n + 1 |-> IF k <= n THEN c[k] ELSE b]
    BY DEF n
  <2>2. n + 1 \in 0 .. n + 1 /\ ~(n + 1 <= n) /\ \A k \in 0 .. n : k \in 0 .. n + 1 /\ k <= n
    BY <1>1, SMT
  <2> HIDE DEF d
  <2> QED
    BY <2>1, <2>2
<1> HIDE DEF d, more, s
<1>4. CutAt(bytes, more, d)
  <2>1. d[0] = 0
    <3>1. 0 \in 0 .. n
      BY <1>1, SMT
    <3> QED
      BY <1>0, <1>3, <3>1 DEF CutAt
  <2>2. ASSUME NEW k \in 1 .. n + 1
        PROVE  /\ d[k] \in Nat /\ d[k - 1] \in Nat /\ d[k - 1] < d[k]
               /\ more[k] = Section(bytes, d[k - 1], d[k]) /\ NoSlash(bytes, d[k - 1], d[k])
    <3> HIDE DEF n
    <3>1. k - 1 \in 0 .. n /\ (k = n + 1 \/ (k \in 1 .. n /\ k \in 0 .. n))
      BY <1>1, SMT
    <3>2. CASE k = n + 1
      <4>1. k - 1 = n /\ n \in 0 .. n
        BY <1>1, <3>2, SMT
      <4> QED
        BY <1>0, <1>2, <1>3, <3>2, <4>1 DEF s, n
    <3>3. CASE k \in 1 .. n
      <4>1. /\ c[k] \in Nat /\ c[k - 1] \in Nat /\ c[k - 1] < c[k]
            /\ list[k] = Section(bytes, c[k - 1], c[k]) /\ NoSlash(bytes, c[k - 1], c[k])
        BY <1>0, <3>3 DEF CutAt, n
      <4>2. d[k] = c[k] /\ d[k - 1] = c[k - 1] /\ more[k] = list[k]
        BY <1>2, <1>3, <3>1, <3>3
      <4> QED
        BY <4>1, <4>2
    <3> QED
      BY <3>1, <3>2, <3>3
  <2> QED
    BY <1>2, <2>1, <2>2 DEF CutAt
<1> QED
  BY <1>2, <1>3, <1>4 DEF d, more, s

\* The text from a place on, to another one.
LEMMA SectionIs ==
  ASSUME NEW V, NEW bytes \in Seq(V), NEW a \in Nat, NEW b \in Nat, b <= Len(bytes) + 1
  PROVE  /\ Section(bytes, a, b) \in Seq(V)
         /\ NoSlash(bytes, a, b) => \A j \in 1 .. Len(Section(bytes, a, b)) : Section(bytes, a, b)[j] # Text!Slash
<1> DEFINE n == Len(bytes)
           m == a + 1
           e == b - 1
           s == SubSeq(bytes, m, e)
<1>1. n \in Nat /\ \A i \in 1 .. n : bytes[i] \in V
  BY LenProperties, ElementOfSeq
<1> HIDE DEF n
<1>2. m \in Int /\ e \in Int /\ \A i \in m .. e : i \in 1 .. n
  BY <1>1, SMT DEF n
<1>3. \A i \in m .. e : bytes[i] \in V
  BY <1>1, <1>2
<1> HIDE DEF m, e
<1>4. /\ s \in Seq(V) /\ Len(s) = IF m <= e THEN e - m + 1 ELSE 0
      /\ \A i \in 1 .. e - m + 1 : s[i] = bytes[m + i - 1]
  BY <1>2, <1>3, SubSeqProperties
<1> HIDE DEF s
<1>5. \A i \in 1 .. Len(s) : i \in 1 .. e - m + 1 /\ m + i - 1 \in m .. e
  BY <1>2, <1>4, SMT
<1>6. Section(bytes, a, b) = s /\ (NoSlash(bytes, a, b) => \A i \in m .. e : bytes[i] # Text!Slash)
  BY DEF Section, NoSlash, s, m, e
<1> QED
  BY <1>4, <1>5, <1>6

LEMMA LoopStarts == ASSUME NEW V, NEW bytes PROVE LoopInv(V, bytes, 0, FirstLoop, [k \in 0 .. 0 |-> 0])
<1> DEFINE c == [k \in 0 .. 0 |-> 0]
<1>1. FirstLoop \in [out : Seq(Seq(V)), start : Nat, size : Nat]
  BY EmptySeq DEF FirstLoop
<1>2. FirstLoop.out = <<>> /\ FirstLoop.start = 0 /\ FirstLoop.size = 0 /\ Len(<<>>) = 0
  BY EmptySeq DEF FirstLoop
<1>3. c[0] = 0
  BY SMT
<1> HIDE DEF c
<1>4. \A k \in 1 .. 0 : FALSE
  BY SMT
<1>5. NoSlash(bytes, 0, 0 + 1)
  BY SMT DEF NoSlash
<1> HIDE DEF c
<1> QED
  BY <1>1, <1>2, <1>3, <1>4, <1>5 DEF LoopInv, CutAt, c

LEMMA LoopKeeps ==
  ASSUME NEW V, NEW bytes \in Seq(V), NEW i \in 1 .. Len(bytes), NEW l, NEW c,
         LoopInv(V, bytes, i - 1, l, c)
  PROVE  \E d : LoopInv(V, bytes, i, LoopStep(bytes, i, l), d)
<1>0. PICK out \in Seq(Seq(V)), a \in Nat, z \in Nat : l = [out |-> out, start |-> a, size |-> z]
  BY DEF LoopInv
<1> DEFINE m == Len(out)
<1>1. l.out = out /\ l.start = a /\ l.size = z
  BY <1>0
<1>2. /\ a + z = i - 1
      /\ CutAt(bytes, out, c) /\ c[m] = a
      /\ \A k \in 1 .. m : c[k] <= i - 1 /\ bytes[c[k]] = Text!Slash
      /\ NoSlash(bytes, a, (i - 1) + 1)
  BY <1>1 DEF LoopInv
<1>3. i \in Nat /\ i >= 1 /\ i <= Len(bytes) + 1 /\ a < i /\ (i - 1) + 1 = i /\ a + z = i - 1
      /\ m \in Nat
  <2>1. Len(bytes) \in Nat /\ m \in Nat
    BY LenProperties
  <2> HIDE DEF m
  <2> QED
    BY <1>1, <1>2, <2>1, SMT
<1>4. \A k \in 1 .. m : c[k] \in Nat
  BY <1>2 DEF CutAt
<1>5. CASE bytes[i] = Text!Slash
  <2> DEFINE s == Section(bytes, a, i)
             more == Append(out, s)
  <2>1. s \in Seq(V) /\ NoSlash(bytes, a, i)
    <3> HIDE DEF s
    <3> QED
      BY <1>1, <1>2, <1>3, SectionIs DEF s
  <2>2. /\ more \in Seq(Seq(V)) /\ Len(more) = m + 1
    <3> HIDE DEF s
    <3> QED
      BY <1>1, <2>1, AppendProperties
  <2>10. PICK d : /\ CutAt(bytes, more, d) /\ d[m + 1] = i
                  /\ \A k \in 0 .. m : d[k] = c[k]
    <3>1. MayCut(V, bytes, out, c, a, i)
      BY <1>2, <1>3, <2>1 DEF MayCut
    <3> QED
      BY <3>1, CutMore
  <2>3. LoopStep(bytes, i, l) = [out |-> more, start |-> i, size |-> 0]
    <3>1. SubSeq(bytes, l.start + 1, l.start + l.size) = s
      BY <1>1, <1>3 DEF Section
    <3> HIDE DEF s
    <3> QED
      BY <1>1, <1>5, <3>1 DEF LoopStep
  <2> DEFINE r == [out |-> more, start |-> i, size |-> 0]
  <2>4. r.out = more /\ r.start = i /\ r.size = 0
    OBVIOUS
  <2>5. r \in [out : Seq(Seq(V)), start : Nat, size : Nat]
    <3> HIDE DEF more
    <3> QED
      BY <1>3, <2>2
  <2> HIDE DEF r, more, s
  <2>6. \A k \in 1 .. m + 1 : d[k] <= i /\ bytes[d[k]] = Text!Slash
    <3> SUFFICES ASSUME NEW k \in 1 .. m + 1
                 PROVE  d[k] <= i /\ bytes[d[k]] = Text!Slash
      OBVIOUS
    <3> HIDE DEF m
    <3>1. k = m + 1 \/ (k \in 1 .. m /\ k \in 0 .. m)
      BY <1>3, SMT
    <3>2. CASE k = m + 1
      BY <1>3, <1>5, <2>10, <3>2, SMT
    <3>3. CASE k \in 1 .. m
      <4>1. d[k] = c[k] /\ c[k] <= i - 1 /\ bytes[c[k]] = Text!Slash /\ c[k] \in Nat
        BY <1>2, <1>4, <2>10, <3>1, <3>3
      <4>2. c[k] <= i
        BY <1>3, <4>1, SMT
      <4> QED
        BY <4>1, <4>2
    <3> QED
      BY <3>1, <3>2, <3>3
  <2>7. NoSlash(bytes, i, i + 1)
    BY <1>3, SMT DEF NoSlash
  <2>8. i + 0 = i
    BY <1>3, SMT
  <2>9. LoopInv(V, bytes, i, r, d)
    <3>1. CutAt(bytes, r.out, d) /\ d[Len(r.out)] = r.start
      BY <2>2, <2>4, <2>10
    <3> HIDE DEF m
    <3> QED
      BY <2>2, <2>4, <2>5, <2>6, <2>7, <2>8, <3>1 DEF LoopInv
  <2> QED
    BY <2>3, <2>9 DEF r
<1>6. CASE bytes[i] # Text!Slash
  <2> DEFINE r == [l EXCEPT !.size = @ + 1]
  <2>1. LoopStep(bytes, i, l) = r
    BY <1>6 DEF LoopStep
  <2>2. r = [out |-> out, start |-> a, size |-> z + 1] /\ z + 1 \in Nat
    BY <1>0, <1>1, SMT
  <2> HIDE DEF r
  <2>7. r.out = out /\ r.start = a /\ r.size = z + 1
        /\ r \in [out : Seq(Seq(V)), start : Nat, size : Nat]
    BY <2>2
  <2> HIDE DEF m
  <2>3. a + (z + 1) = i
    BY <1>3, SMT
  <2>4. \A k \in 1 .. m : c[k] <= i
    <3> SUFFICES ASSUME NEW k \in 1 .. m
                 PROVE  c[k] <= i
      OBVIOUS
    <3>1. c[k] \in Nat /\ c[k] <= i - 1
      BY <1>2, <1>4
    <3> QED
      BY <1>3, <3>1, SMT
  <2>5. NoSlash(bytes, a, i + 1)
    <3>1. \A j \in a + 1 .. (i + 1) - 1 : j = i \/ j \in a + 1 .. i - 1
      BY <1>1, <1>3, SMT
    <3> QED
      BY <1>2, <1>3, <1>6, <3>1 DEF NoSlash
  <2>6. LoopInv(V, bytes, i, r, c)
    BY <1>2, <2>3, <2>4, <2>5, <2>7 DEF LoopInv, m
  <2> QED
    BY <2>1, <2>6
<1> QED
  BY <1>5, <1>6

\* What split makes of a text: its sections, all but the last ended by a
\* separator.
IsCut(V, bytes, list, c) ==
  /\ list \in Seq(Seq(V)) /\ list # <<>>
  /\ CutAt(bytes, list, c) /\ c[Len(list)] = Len(bytes) + 1
  /\ \A k \in 1 .. Len(list) - 1 : bytes[c[k]] = Text!Slash

LEMMA SectionsCut ==
  ASSUME NEW V, NEW bytes \in Seq(V)
  PROVE  LET end == Text!Sections(bytes)
         IN  \E c : IsCut(V, bytes, Append(end.out, SubSeq(bytes, end.start + 1, end.start + end.size)), c)
<1> DEFINE n == Len(bytes)
           end == Text!Sections(bytes)
<1>1. n \in Nat
  BY LenProperties
<1>2. PICK f : /\ f[0] = FirstLoop
               /\ \A i \in 1 .. n : f[i] = LoopStep(bytes, i, f[i - 1])
               /\ end = f[n]
  BY <1>1, SectionsAre
<1> HIDE DEF end, n
<1>3. \E c : LoopInv(V, bytes, n, end, c)
  <2> DEFINE bad == {i \in 0 .. n : ~\E c : LoopInv(V, bytes, i, f[i], c)}
  <2>1. bad = {}
    <3> SUFFICES ASSUME bad # {}
                 PROVE  FALSE
      OBVIOUS
    <3>1. PICK i \in bad : \A j \in bad : i <= j
      <4>1. bad \subseteq Nat
        BY SMT
      <4> HIDE DEF bad
      <4> QED
        BY <4>1, LeastExists
    <3>2. i \in 0 .. n /\ ~\E c : LoopInv(V, bytes, i, f[i], c)
      OBVIOUS
    <3>3. i # 0
      BY <1>2, <3>2, LoopStarts
    <3>4. i \in 1 .. n /\ i - 1 \in 0 .. n /\ ~(i <= i - 1)
      BY <1>1, <3>2, <3>3, SMT
    <3>5. PICK c : LoopInv(V, bytes, i - 1, f[i - 1], c)
      BY <3>1, <3>4
    <3>6. \E d : LoopInv(V, bytes, i, LoopStep(bytes, i, f[i - 1]), d)
      BY <3>4, <3>5, LoopKeeps DEF n
    <3> QED
      BY <1>2, <3>2, <3>4, <3>6
  <2>2. n \in 0 .. n
    BY <1>1, SMT
  <2> QED
    BY <1>2, <2>1, <2>2
<1>4. PICK c : LoopInv(V, bytes, n, end, c)
  BY <1>3
<1> DEFINE a == end.start
           out == end.out
<1>5. /\ out \in Seq(Seq(V)) /\ a \in Nat /\ end.size \in Nat
      /\ a + end.size = n /\ CutAt(bytes, out, c) /\ c[Len(out)] = a
      /\ \A k \in 1 .. Len(out) : bytes[c[k]] = Text!Slash
      /\ NoSlash(bytes, a, n + 1)
  BY <1>4 DEF LoopInv
<1> HIDE DEF a, out
<1>6. n + 1 \in Nat /\ a < n + 1 /\ (n + 1) - 1 = n /\ n + 1 <= n + 1
  BY <1>1, <1>5, SMT
<1>7. Section(bytes, a, n + 1) \in Seq(V)
  BY <1>5, <1>6, SectionIs DEF n
<1> DEFINE s == Section(bytes, a, n + 1)
           more == Append(out, s)
<1>8. SubSeq(bytes, end.start + 1, end.start + end.size) = s
  BY <1>5, <1>6 DEF Section, a
<1>9. more \in Seq(Seq(V)) /\ Len(more) = Len(out) + 1
  <2> HIDE DEF s
  <2> QED
    BY <1>5, <1>7, AppendProperties DEF s
<1>11. PICK d : /\ CutAt(bytes, more, d) /\ d[Len(out) + 1] = n + 1
                /\ \A k \in 0 .. Len(out) : d[k] = c[k]
  <2>1. MayCut(V, bytes, out, c, a, n + 1)
    BY <1>5, <1>6, <1>7 DEF MayCut
  <2> QED
    BY <2>1, CutMore
<1> HIDE DEF more, s
<1>10. IsCut(V, bytes, more, d)
  <2>1. more # <<>>
    <3>1. Len(out) \in Nat
      BY <1>5, LenProperties
    <3>2. Len(out) + 1 # 0
      BY <3>1, SMT
    <3> QED
      BY <1>9, <3>2, EmptySeq
  <2>2. \A k \in 1 .. Len(more) - 1 : bytes[d[k]] = Text!Slash
    <3>1. Len(out) \in Nat
      BY <1>5, LenProperties
    <3>2. \A k \in 1 .. Len(more) - 1 : k \in 1 .. Len(out) /\ k \in 0 .. Len(out)
      BY <1>9, <3>1, SMT
    <3> QED
      BY <1>5, <1>9, <1>11, <3>2
  <2> QED
    BY <1>9, <1>11, <2>1, <2>2 DEF IsCut, n
<1> QED
  BY <1>8, <1>10 DEF end, more, out

\* Sections put together again, with separators.
Join(b, list) == Text!FoldLeft(LAMBDA joined, part : joined \o <<Text!Slash>> \o part, b, list)

\* How a fold takes the first n of the list: the last of them last.
IsJoin(b, list, n, f) ==
  f = [s \in SUBSET (1 .. n) |->
         IF s = {} THEN b
         ELSE f[s \ {Text!Max(s)}] \o <<Text!Slash>> \o list[Text!Max(s)]]

LEMMA GreatestIs == ASSUME NEW n \in Nat, NEW s \in SUBSET (1 .. n), n \in s PROVE Text!Max(s) = n
<1>1. n \in s /\ \A y \in s : n >= y
  BY SMT
<1>2. \A x \in s : (\A y \in s : x >= y) => x = n
  <2>1. \A x \in s : x \in Nat /\ n >= x
    BY SMT
  <2> QED
    BY <2>1, SMT
<1> QED
  BY <1>1, <1>2 DEF Text!Max

LEMMA JoinExists ==
  ASSUME NEW b, NEW list, NEW L \in Nat
  PROVE  \E f : IsJoin(b, list, L, f)
<1> DEFINE bad == {n \in Nat : ~\E f : IsJoin(b, list, n, f)}
<1> SUFFICES ASSUME bad # {}
             PROVE  FALSE
  OBVIOUS
<1>1. PICK n \in bad : \A m \in bad : n <= m
  <2>1. bad \subseteq Nat
    OBVIOUS
  <2> HIDE DEF bad
  <2> QED
    BY <2>1, LeastExists
<1>2. n \in Nat /\ ~\E f : IsJoin(b, list, n, f)
  OBVIOUS
<1>3. CASE n = 0
  <2>1. 1 .. 0 = {}
    BY SMT
  <2> DEFINE f == [s \in SUBSET (1 .. 0) |-> b]
  <2>2. \A s \in SUBSET (1 .. 0) : s = {} /\ f[s] = b
    BY <2>1
  <2>3. f = [s \in SUBSET (1 .. 0) |-> f[s]]
    OBVIOUS
  <2> HIDE DEF f
  <2>4. IsJoin(b, list, 0, f)
    BY <2>2, <2>3 DEF IsJoin
  <2> QED
    BY <1>2, <1>3, <2>4
<1>4. CASE n # 0
  <2>1. n - 1 \in Nat /\ ~(n <= n - 1) /\ n \in 1 .. n
        /\ (\A i \in 1 .. n : i = n \/ i \in 1 .. n - 1)
        /\ n \notin 1 .. n - 1 /\ \A i \in 1 .. n - 1 : i \in 1 .. n
    BY <1>2, <1>4, SMT
  <2>2. PICK f : IsJoin(b, list, n - 1, f)
    <3>1. n - 1 \notin bad
      BY <1>1, <2>1
    <3> QED
      BY <2>1, <3>1
  <2>3. \A s \in SUBSET (1 .. n - 1) :
          f[s] = IF s = {} THEN b ELSE f[s \ {Text!Max(s)}] \o <<Text!Slash>> \o list[Text!Max(s)]
    BY <2>2 DEF IsJoin
  <2> DEFINE g == [s \in SUBSET (1 .. n) |->
                     IF n \in s THEN f[s \ {n}] \o <<Text!Slash>> \o list[n] ELSE f[s]]
  <2>4. /\ \A s \in SUBSET (1 .. n) : g[s] = IF n \in s THEN f[s \ {n}] \o <<Text!Slash>> \o list[n] ELSE f[s]
        /\ g = [s \in SUBSET (1 .. n) |-> g[s]]
    OBVIOUS
  <2> HIDE DEF g
  <2>5. ASSUME NEW s \in SUBSET (1 .. n)
        PROVE  g[s] = IF s = {} THEN b
                      ELSE g[s \ {Text!Max(s)}] \o <<Text!Slash>> \o list[Text!Max(s)]
    <3>1. CASE n \in s
      <4>1. Text!Max(s) = n
        BY <1>2, <3>1, GreatestIs
      <4>2. s \ {n} \in SUBSET (1 .. n) /\ n \notin s \ {n} /\ s # {}
        BY <3>1
      <4>3. g[s \ {n}] = f[s \ {n}]
        BY <2>4, <4>2
      <4> QED
        BY <2>4, <3>1, <4>1, <4>2, <4>3
    <3>2. CASE n \notin s
      <4>1. s \in SUBSET (1 .. n - 1)
        BY <2>1, <3>2
      <4> DEFINE t == s \ {Text!Max(s)}
      <4>2. t \in SUBSET (1 .. n) /\ n \notin t
        BY <3>2
      <4>3. g[t] = f[t] /\ g[s] = f[s]
        <5> HIDE DEF t
        <5> QED
          BY <2>4, <3>2, <4>2
      <4> QED
        BY <2>3, <4>1, <4>3
    <3> QED
      BY <3>1, <3>2
  <2>6. IsJoin(b, list, n, g)
    BY <2>4, <2>5 DEF IsJoin
  <2> QED
    BY <1>2, <2>6
<1> QED
  BY <1>3, <1>4

\* Joining adds one section of the list after the other.
Joining(b, list, f) ==
  /\ f[0] = b
  /\ \A k \in 1 .. Len(list) : f[k] = f[k - 1] \o <<Text!Slash>> \o list[k]
  /\ Join(b, list) = f[Len(list)]

LEMMA JoinSteps ==
  ASSUME NEW b, NEW S, NEW list \in Seq(S)
  PROVE  \E f : Joining(b, list, f)
<1> DEFINE n == Len(list)
           w == CHOOSE f : IsJoin(b, list, n, f)
<1>1. n \in Nat /\ DOMAIN list = 1 .. n
  BY LenProperties
<1> HIDE DEF n
<1>2. Join(b, list) = w[1 .. n]
  <2>1. Join(b, list) = (CHOOSE f : f = [s \in SUBSET DOMAIN list |->
          IF s = {} THEN b
          ELSE f[s \ {Text!Max(s)}] \o <<Text!Slash>> \o list[Text!Max(s)]])[DOMAIN list]
    BY DEF Join, Text!FoldLeft, Text!MapThenFoldSet
  <2> QED
    BY <1>1, <2>1 DEF IsJoin
<1>3. IsJoin(b, list, n, w)
  BY <1>1, JoinExists
<1> HIDE DEF w
<1>4. \A s \in SUBSET (1 .. n) :
        w[s] = IF s = {} THEN b ELSE w[s \ {Text!Max(s)}] \o <<Text!Slash>> \o list[Text!Max(s)]
  BY <1>3 DEF IsJoin
<1> DEFINE f == [k \in 0 .. n |-> w[1 .. k]]
<1>5. f[0] = b
  <2>1. 1 .. 0 = {} /\ 0 \in 0 .. n
    BY <1>1, SMT
  <2>2. w[{}] = b
    BY <1>4
  <2> QED
    BY <2>1, <2>2
<1>6. ASSUME NEW k \in 1 .. n
      PROVE  f[k] = f[k - 1] \o <<Text!Slash>> \o list[k]
  <2>1. /\ k \in Nat /\ k \in 1 .. k /\ 1 .. k \in SUBSET (1 .. n) /\ (1 .. k) \ {k} = 1 .. k - 1
        /\ k \in 0 .. n /\ k - 1 \in 0 .. n
    BY <1>1, SMT
  <2>2. Text!Max(1 .. k) = k
    BY <2>1, GreatestIs
  <2>3. w[1 .. k] = w[1 .. k - 1] \o <<Text!Slash>> \o list[k]
    BY <1>4, <2>1, <2>2
  <2> QED
    BY <2>1, <2>3
<1>7. f[n] = w[1 .. n]
  BY <1>1, SMT
<1> HIDE DEF f
<1>8. Joining(b, list, f)
  BY <1>2, <1>5, <1>6, <1>7 DEF n, Joining
<1> QED
  BY <1>8

\* A text is its sections put together.
LEMMA JoinCut ==
  ASSUME NEW V, NEW bytes \in Seq(V), NEW list, NEW c, IsCut(V, bytes, list, c)
  PROVE  /\ Join(Head(list), Tail(list)) = bytes
         /\ \A k \in DOMAIN list : Text!Slash \notin Text!ToSet(list[k])
<1> DEFINE n == Len(bytes)
           m == Len(list)
           rest == Tail(list)
<1>1. /\ list \in Seq(Seq(V)) /\ list # <<>> /\ c[0] = 0 /\ c[m] = n + 1
      /\ \A k \in 1 .. m : /\ c[k] \in Nat /\ c[k - 1] \in Nat /\ c[k - 1] < c[k]
                           /\ list[k] = Section(bytes, c[k - 1], c[k]) /\ NoSlash(bytes, c[k - 1], c[k])
      /\ \A k \in 1 .. m - 1 : bytes[c[k]] = Text!Slash
  BY DEF IsCut, CutAt
<1>2. /\ n \in Nat /\ m \in Nat \ {0} /\ DOMAIN list = 1 .. m
      /\ Head(list) = list[1] /\ rest \in Seq(Seq(V)) /\ Len(rest) = m - 1
      /\ \A i \in 1 .. m - 1 : rest[i] = list[i + 1]
  <2>1. n \in Nat /\ m \in Nat \ {0} /\ DOMAIN list = 1 .. m
    BY <1>1, LenProperties, EmptySeq
  <2>2. rest \in Seq(Seq(V)) /\ Len(rest) = m - 1 /\ \A i \in 1 .. Len(rest) : rest[i] = list[i + 1]
    BY <1>1, HeadTailProperties
  <2>3. Head(list) = list[1]
    BY <1>1, SMT
  <2> HIDE DEF n, m, rest
  <2> QED
    BY <2>1, <2>2, <2>3
<1>3. PICK f : /\ f[0] = Head(list)
               /\ \A k \in 1 .. m - 1 : f[k] = f[k - 1] \o <<Text!Slash>> \o rest[k]
               /\ Join(Head(list), rest) = f[m - 1]
  <2>1. PICK b, r : b = Head(list) /\ r = rest
    OBVIOUS
  <2>2. r \in Seq(Seq(V)) /\ Len(r) = m - 1
    BY <1>2, <2>1
  <2>3. PICK f : Joining(b, r, f)
    BY <2>2, JoinSteps
  <2>4. /\ f[0] = b
        /\ \A k \in 1 .. Len(r) : f[k] = f[k - 1] \o <<Text!Slash>> \o r[k]
        /\ Join(b, r) = f[Len(r)]
    BY <2>3 DEF Joining
  <2> HIDE DEF m, rest
  <2> QED
    BY <2>1, <2>2, <2>4
<1> HIDE DEF n, m, rest
\* The separators are within the text.
<1>4. \A k \in 1 .. m : c[k] <= n + 1
  <2> DEFINE bad == {d \in 0 .. m - 1 : ~(c[m - d] <= n + 1)}
  <2>1. bad = {}
    <3> SUFFICES ASSUME bad # {}
                 PROVE  FALSE
      OBVIOUS
    <3>1. PICK d \in bad : \A e \in bad : d <= e
      <4>1. bad \subseteq Nat
        BY SMT
      <4> HIDE DEF bad
      <4> QED
        BY <4>1, LeastExists
    <3>2. d \in 0 .. m - 1 /\ ~(c[m - d] <= n + 1)
      OBVIOUS
    <3>3. d # 0
      <4>1. m - 0 = m /\ n + 1 <= n + 1
        BY <1>2, SMT
      <4> QED
        BY <1>1, <3>2, <4>1 DEF m, n
    <3>4. d - 1 \in 0 .. m - 1 /\ ~(d <= d - 1) /\ m - (d - 1) \in 1 .. m
          /\ (m - (d - 1)) - 1 = m - d
      BY <1>2, <3>2, <3>3, SMT
    <3>5. c[m - (d - 1)] <= n + 1
      BY <3>1, <3>4
    <3>6. c[m - d] < c[m - (d - 1)] /\ c[m - d] \in Nat /\ c[m - (d - 1)] \in Nat
      BY <1>1, <3>4 DEF m
    <3> DEFINE x == c[m - d]
               y == c[m - (d - 1)]
    <3> HIDE DEF x, y
    <3>7. x \in Nat /\ y \in Nat /\ x < y /\ y <= n + 1 /\ ~(x <= n + 1)
      BY <3>2, <3>5, <3>6 DEF x, y
    <3> QED
      BY <1>2, <3>7, SMT
  <2>2. ASSUME NEW k \in 1 .. m
        PROVE  c[k] <= n + 1
    <3>1. m - k \in 0 .. m - 1 /\ m - (m - k) = k
      BY <1>2, SMT
    <3> QED
      BY <2>1, <3>1
  <2> QED
    BY <2>2
\* The sections up to a separator are the text up to it.
<1>5. \A k \in 0 .. m - 1 : f[k] = SubSeq(bytes, 1, c[k + 1] - 1)
  <2> DEFINE bad == {k \in 0 .. m - 1 : f[k] # SubSeq(bytes, 1, c[k + 1] - 1)}
  <2> SUFFICES ASSUME bad # {}
               PROVE  FALSE
    OBVIOUS
  <2>1. PICK k \in bad : \A e \in bad : k <= e
    <3>1. bad \subseteq Nat
      BY SMT
    <3> HIDE DEF bad
    <3> QED
      BY <3>1, LeastExists
  <2>2. k \in 0 .. m - 1 /\ f[k] # SubSeq(bytes, 1, c[k + 1] - 1)
    OBVIOUS
  <2>3. k # 0
    <3>1. 1 \in 1 .. m /\ 1 - 1 = 0 /\ 0 + 1 = 1
      BY <1>2, SMT
    <3>2. list[1] = SubSeq(bytes, 1, c[1] - 1)
      BY <1>1, <3>1 DEF Section, m
    <3> QED
      BY <1>2, <1>3, <2>2, <3>1, <3>2
  <2>4. /\ k - 1 \in 0 .. m - 1 /\ ~(k <= k - 1) /\ (k - 1) + 1 = k /\ (k + 1) - 1 = k
        /\ k \in 1 .. m - 1 /\ k \in 1 .. m /\ k + 1 \in 1 .. m
    BY <1>2, <2>2, <2>3, SMT
  <2> DEFINE x == c[k]
             y == c[k + 1]
  <2> HIDE DEF x, y
  <2>5. f[k - 1] = SubSeq(bytes, 1, x - 1)
    BY <2>1, <2>4 DEF x
  <2>6. f[k] = f[k - 1] \o <<bytes[x]>> \o SubSeq(bytes, x + 1, y - 1)
    <3>1. rest[k] = list[k + 1] /\ list[k + 1] = Section(bytes, x, y) /\ bytes[x] = Text!Slash
      BY <1>1, <1>2, <2>4 DEF x, y, m
    <3> QED
      BY <1>3, <2>4, <3>1 DEF Section
  <2>7. x \in Nat /\ y \in Nat /\ x < y /\ y <= n + 1 /\ x # 0
    <3>1. /\ c[k] \in Nat /\ c[k + 1] \in Nat /\ c[k] < c[k + 1]
          /\ c[k - 1] \in Nat /\ c[k - 1] < c[k]
      BY <1>1, <2>4 DEF m
    <3>2. PICK u : u = c[k - 1]
      OBVIOUS
    <3>3. x \in Nat /\ y \in Nat /\ u \in Nat /\ u < x /\ x < y /\ y <= n + 1
      BY <1>4, <2>4, <3>1, <3>2 DEF x, y
    <3> QED
      BY <3>3, SMT
  <2>8. /\ x \in 1 .. n /\ 1 \in 1 .. n /\ x \in 1 .. x /\ 1 \in 1 .. n + 1
        /\ x \in 1 - 1 .. n /\ y - 1 \in x .. n
    BY <1>2, <2>7, SMT
  <2>9. SubSeq(bytes, 1, x) = SubSeq(bytes, 1, x - 1) \o <<bytes[x]>>
    <3>1. x \in 1 .. Len(bytes) /\ 1 \in 1 .. Len(bytes) /\ x \in 1 .. Len(bytes)
      BY <2>8 DEF n
    <3>2. x \in 1 .. Len(bytes) /\ 1 <= x
      BY <2>8, SMT DEF n
    <3> QED
      BY <3>1, <3>2, SubSeqRecursiveSecond
  <2>10. SubSeq(bytes, 1, x) \o SubSeq(bytes, x + 1, y - 1) = SubSeq(bytes, 1, y - 1)
    BY <2>8, ConcatAdjacentSubSeq DEF n
  <2> QED
    BY <2>2, <2>5, <2>6, <2>9, <2>10 DEF y
<1>6. Join(Head(list), rest) = bytes
  <2>1. m - 1 \in 0 .. m - 1 /\ (m - 1) + 1 = m /\ (n + 1) - 1 = n
    BY <1>2, SMT
  <2>2. SubSeq(bytes, 1, n) = bytes
    BY SubSeqFull DEF n
  <2> QED
    BY <1>1, <1>3, <1>5, <2>1, <2>2 DEF m, n
<1>7. ASSUME NEW k \in DOMAIN list
      PROVE  Text!Slash \notin Text!ToSet(list[k])
  <2>1. k \in 1 .. m
    BY <1>2
  <2> DEFINE a == c[k - 1]
             b == c[k]
             s == Section(bytes, a, b)
  <2>2. list[k] = s /\ NoSlash(bytes, a, b) /\ a \in Nat /\ b \in Nat /\ b <= Len(bytes) + 1
    BY <1>1, <1>4, <2>1 DEF m, n
  <2> HIDE DEF a, b
  <2>3. s \in Seq(V) /\ \A j \in 1 .. Len(s) : s[j] # Text!Slash
    BY <2>2, SectionIs
  <2> HIDE DEF s
  <2>4. DOMAIN s = 1 .. Len(s)
    BY <2>3, LenProperties
  <2> QED
    BY <2>2, <2>3, <2>4 DEF Text!ToSet
<1> QED
  BY <1>6, <1>7 DEF rest

\* The sections that split returns are those of a string.
LEMMA SplitCuts ==
  ASSUME TextInv, [UtilNext]_utilVars
  PROVE  [parts' # <<>> =>
            /\ \A k \in DOMAIN parts' : Text!Slash \notin Text!ToSet(parts'[k])
            /\ \E s \in StringVars \ disturbed : text[s] = Join(Head(parts'), Tail(parts'))]_Text!vars
<1> SUFFICES ASSUME parts' # <<>>, Text!vars' # Text!vars
             PROVE  /\ \A k \in DOMAIN parts' : Text!Slash \notin Text!ToSet(parts'[k])
                    /\ \E s \in StringVars \ disturbed : text[s] = Join(Head(parts'), Tail(parts'))
  OBVIOUS
<1>1. Text!Next
  BY DEF UtilNext, Uses, utilVars, stringVars, Text!vars
<1>2. PICK s \in StringVars :
        \/ Text!Default(s) \/ \E cstr \in Literals : Text!FromLiteral(s, cstr)
        \/ \E other \in StringVars : Text!Copy(s, other) \/ Text!Assign(s, other) \/ Text!AppendString(s, other)
        \/ \E left, right \in StringVars : Text!Plus(s, left, right)
        \/ \E from \in StringVars, start, end \in 0 .. MaxLength : Text!Slice(s, from, start, end)
        \/ Text!Destroy(s) \/ Text!split(s)
  BY <1>1 DEF Text!Next
<1>3. Text!split(s)
  BY <1>2 DEF Text!Default, Text!FromLiteral, Text!Copy, Text!Assign, Text!AppendString,
       Text!Plus, Text!Slice, Text!Destroy, Text!Give
<1>4. Text!Readable(s) /\ s \notin disturbed
  BY <1>3 DEF Text!split, Text!Readable
<1>5. Text!Bytes(s) = text[s] /\ text[s] \in Seq(Char)
  BY <1>4, ReadableReads
<1> DEFINE end == Text!Sections(text[s])
<1>6. parts' = Append(end.out, SubSeq(text[s], end.start + 1, end.start + end.size))
  BY <1>3, <1>5 DEF Text!split
<1> HIDE DEF Char
<1>7. \E c : IsCut(Char, text[s], parts', c)
  <2>1. PICK bytes, list : bytes = text[s] /\ list = parts'
    OBVIOUS
  <2>2. bytes \in Seq(Char)
    BY <1>5, <2>1
  <2>3. \E c : IsCut(Char, bytes, Append(Text!Sections(bytes).out,
          SubSeq(bytes, Text!Sections(bytes).start + 1, Text!Sections(bytes).start + Text!Sections(bytes).size)), c)
    BY <2>2, SectionsCut
  <2> QED
    BY <1>6, <2>1, <2>3
<1>8. /\ Join(Head(parts'), Tail(parts')) = text[s]
      /\ \A k \in DOMAIN parts' : Text!Slash \notin Text!ToSet(parts'[k])
  BY <1>5, <1>7, JoinCut
<1> QED
  BY <1>4, <1>8

\* Put together again with separators, what split returns is the string, and no
\* section holds one, for every string, of any length and any characters.
THEOREM SectionsAreRight == UtilSpec => SplitSections
<1> DEFINE Right ==
      parts' # <<>> =>
        /\ \A k \in DOMAIN parts' : Text!Slash \notin Text!ToSet(parts'[k])
        /\ \E s \in StringVars \ disturbed : text[s] = Join(Head(parts'), Tail(parts'))
<1>1. UtilInit => TextInv
  BY TextInit DEF UtilInit
<1>2. TextInv /\ [UtilNext]_utilVars => [Right]_Text!vars
  BY SplitCuts
<1>3. SplitSections <=> [][Right]_Text!vars
  BY DEF SplitSections, Text!SplitSections, Join
<1> HIDE DEF Right
<1> QED
  BY <1>1, <1>2, <1>3, TextStep, PTL DEF UtilSpec

----------------------------------------------------------------------------
(* The hash table *)

Hashes == 0 .. Map!HASH_RANGE - 1
MapNode == [key : Keys, value : MapValues]

MapInv == table \in [Hashes -> Seq(MapNode)]

\* Every byte of a number is one, and so is what they are mixed to.
LEMMA BytesAre == ASSUME NEW i \in Nat, NEW k \in 1 .. 4 PROVE Map!Byte(i, k) \in Nat
<1>1. Map!Place[k] \in Nat \ {0}
  BY SMT DEF Map!Place
<1> DEFINE p == Map!Place[k]
<1> HIDE DEF p
<1>2. p \in Nat \ {0}
  BY <1>1 DEF p
<1>3. (i \div p) % 256 \in Nat
  BY <1>2, SMT
<1> QED
  BY <1>3 DEF Map!Byte, p

LEMMA ByteCounts == ASSUME NEW i \in Nat PROVE Map!ByteCount(i) \in 0 .. 4
<1> DEFINE Zero(k) == Map!Byte(i, k) = 0
           Ends(n) == (\A k \in 1 .. n : ~Zero(k)) /\ (n = 4 \/ Zero(n + 1))
<1>1. \E n \in 0 .. 4 : Ends(n)
  <2> HIDE DEF Zero
  <2>1. CASE Zero(1)
    BY <2>1, SMT
  <2>2. CASE ~Zero(1) /\ Zero(2)
    BY <2>2, SMT
  <2>3. CASE ~Zero(1) /\ ~Zero(2) /\ Zero(3)
    BY <2>3, SMT
  <2>4. CASE ~Zero(1) /\ ~Zero(2) /\ ~Zero(3) /\ Zero(4)
    BY <2>4, SMT
  <2>5. CASE ~Zero(1) /\ ~Zero(2) /\ ~Zero(3) /\ ~Zero(4)
    <3>1. \A k \in 1 .. 4 : k = 1 \/ k = 2 \/ k = 3 \/ k = 4
      BY SMT
    <3>2. Ends(4) /\ 4 \in 0 .. 4
      BY <2>5, <3>1
    <3> QED
      BY <3>2
  <2> QED
    BY <2>1, <2>2, <2>3, <2>4, <2>5
<1> QED
  BY <1>1 DEF Map!ByteCount

LEMMA HashesAre == ASSUME NEW i \in Nat PROVE Map!hash(i) \in Hashes
<1> DEFINE Mix(h, k) == (h * 33 + Map!Byte(i, k)) % Map!HASH_RANGE
           h0 == 5381 % Map!HASH_RANGE
           h1 == Mix(h0, 1)
           h2 == Mix(h1, 2)
           h3 == Mix(h2, 3)
           h4 == Mix(h3, 4)
           is(m) == m = [k \in 0 .. 4 |-> IF k = 0 THEN h0 ELSE Mix(m[k - 1], k)]
<1>1. \A h \in Hashes, k \in 1 .. 4 : Mix(h, k) \in Hashes
  <2> SUFFICES ASSUME NEW h \in Hashes, NEW k \in 1 .. 4
               PROVE  Mix(h, k) \in Hashes
    OBVIOUS
  <2>1. Map!Byte(i, k) \in Nat
    BY BytesAre
  <2> DEFINE b == Map!Byte(i, k)
  <2> HIDE DEF b
  <2>2. b \in Nat /\ h \in Nat
    BY <2>1, SMT DEF b, Hashes, Map!HASH_RANGE
  <2>3. (h * 33 + b) % 256 \in 0 .. 255
    BY <2>2, SMT
  <2> QED
    BY <2>3, SMT DEF Hashes, Map!HASH_RANGE, b
<1>2. h0 \in Hashes
  BY SMT DEF Hashes, Map!HASH_RANGE
<1> HIDE DEF h0, Mix
<1>3. h1 \in Hashes /\ h2 \in Hashes /\ h3 \in Hashes /\ h4 \in Hashes
  BY <1>1, <1>2
<1> HIDE DEF h1, h2, h3, h4
<1>4. \E m : is(m)
  <2> DEFINE g == [k \in 0 .. 4 |-> IF k = 0 THEN h0 ELSE IF k = 1 THEN h1 ELSE
                     IF k = 2 THEN h2 ELSE IF k = 3 THEN h3 ELSE h4]
  <2>1. g[0] = h0 /\ g[1] = h1 /\ g[2] = h2 /\ g[3] = h3 /\ g[4] = h4
    BY SMT
  <2>2. \A k \in 0 .. 4 : k = 0 \/ k = 1 \/ k = 2 \/ k = 3 \/ k = 4
    BY SMT
  <2>3. g[1] = Mix(g[1 - 1], 1) /\ g[2] = Mix(g[2 - 1], 2)
        /\ g[3] = Mix(g[3 - 1], 3) /\ g[4] = Mix(g[4 - 1], 4)
    BY <2>1 DEF h1, h2, h3, h4
  <2>4. \A k \in 0 .. 4 : g[k] = IF k = 0 THEN h0 ELSE Mix(g[k - 1], k)
    BY <2>1, <2>2, <2>3
  <2>5. g = [k \in 0 .. 4 |-> g[k]]
    OBVIOUS
  <2> HIDE DEF g
  <2>6. is(g)
    BY <2>4, <2>5
  <2> QED
    BY <2>6
<1> DEFINE mixed == CHOOSE m : is(m)
<1>5. is(mixed)
  BY <1>4
<1> HIDE DEF mixed
<1>6. mixed[0] = h0 /\ \A k \in 1 .. 4 : mixed[k] = Mix(mixed[k - 1], k)
  <2>1. \A k \in 0 .. 4 : mixed[k] = IF k = 0 THEN h0 ELSE Mix(mixed[k - 1], k)
    BY <1>5
  <2>2. 0 \in 0 .. 4 /\ \A k \in 1 .. 4 : k \in 0 .. 4 /\ k # 0
    BY SMT
  <2> QED
    BY <2>1, <2>2
<1>7. mixed[0] \in Hashes /\ mixed[1] \in Hashes /\ mixed[2] \in Hashes
      /\ mixed[3] \in Hashes /\ mixed[4] \in Hashes
  <2>1. mixed[0] \in Hashes
    BY <1>2, <1>6
  <2>2. mixed[1] = Mix(mixed[0], 1) /\ mixed[2] = Mix(mixed[1], 2)
        /\ mixed[3] = Mix(mixed[2], 3) /\ mixed[4] = Mix(mixed[3], 4)
    BY <1>6, SMT
  <2> QED
    BY <1>1, <2>1, <2>2
<1>8. \A k \in 0 .. 4 : mixed[k] \in Hashes
  <2>1. \A k \in 0 .. 4 : k = 0 \/ k = 1 \/ k = 2 \/ k = 3 \/ k = 4
    BY SMT
  <2> QED
    BY <1>7, <2>1
<1>9. Map!hash(i) = mixed[Map!ByteCount(i)]
  BY DEF Map!hash, mixed, h0, Mix
<1> QED
  BY <1>8, <1>9, ByteCounts

LEMMA MinIsLeast ==
  ASSUME NEW S, S \subseteq Nat, S # {}
  PROVE  Map!Min(S) \in S /\ \A y \in S : Map!Min(S) <= y
BY LeastExists DEF Map!Min

LEMMA LeastIsMin ==
  ASSUME NEW S, S \subseteq Nat, NEW x \in S, \A y \in S : x <= y
  PROVE  Map!Min(S) = x
<1>1. Map!Min(S) \in S /\ Map!Min(S) <= x
  BY MinIsLeast
<1>2. x <= Map!Min(S)
  BY <1>1
<1>3. x \in Nat /\ Map!Min(S) \in Nat
  BY <1>1
<1> QED
  BY <1>1, <1>2, <1>3, SMT

\* The places in a chain that have a key.
Places(chain, key) == {k \in DOMAIN chain : chain[k].key = key}
FoundIn(chain, key) ==
  IF Places(chain, key) = {} THEN Map!None ELSE chain[Map!Min(Places(chain, key))].value

LEMMA FindIs == ASSUME NEW key PROVE Map!Find(key) = FoundIn(table[Map!hash(key)], key)
BY DEF Map!Find, FoundIn, Places

\* A node behind the others is found under its own key only, and only when
\* none was found before.
LEMMA AppendedFound ==
  ASSUME NEW chain \in Seq(MapNode), NEW node \in MapNode, NEW key
  PROVE  FoundIn(Append(chain, node), key) =
           IF key = node.key /\ FoundIn(chain, key) = Map!None THEN node.value ELSE FoundIn(chain, key)
<1> DEFINE longer == Append(chain, node)
           old == Places(chain, key)
           new == Places(longer, key)
           n == Len(chain)
<1>1. /\ longer \in Seq(MapNode) /\ Len(longer) = n + 1
      /\ \A i \in 1 .. n : longer[i] = chain[i]
      /\ longer[n + 1] = node
  BY AppendProperties
<1>2. n \in Nat /\ DOMAIN chain = 1 .. n /\ DOMAIN longer = 1 .. n + 1
  BY <1>1, LenProperties
<1> HIDE DEF longer, n
<1>3. old \subseteq 1 .. n /\ old = {i \in 1 .. n : chain[i].key = key}
      /\ new = {i \in 1 .. n + 1 : longer[i].key = key}
  BY <1>2 DEF Places
<1> HIDE DEF old, new
<1>4. old \subseteq Nat /\ new \subseteq Nat
  BY <1>2, <1>3
<1>5. CASE old # {}
  <2>1. Map!Min(old) \in old /\ \A y \in old : Map!Min(old) <= y
    BY <1>4, <1>5, MinIsLeast
  <2> DEFINE m == Map!Min(old)
  <2> HIDE DEF m
  <2>2. m \in old /\ \A y \in old : m <= y
    BY <2>1 DEF m
  <2>3. m \in new
    BY <1>1, <1>2, <1>3, <2>2, SMT
  <2>4. \A y \in new : m <= y
    BY <1>1, <1>2, <1>3, <2>2, SMT
  <2>5. Map!Min(new) = m
    BY <1>4, <2>3, <2>4, LeastIsMin
  <2>6. longer[m] = chain[m]
    BY <1>1, <1>3, <2>2
  <2>7. FoundIn(chain, key) = chain[m].value /\ FoundIn(longer, key) = chain[m].value
    BY <1>5, <2>3, <2>5, <2>6 DEF FoundIn, old, new, m
  <2>8. chain[m] \in MapNode
    BY <1>2, <1>3, <2>2, ElementOfSeq DEF n
  <2>9. chain[m].value # Map!None
    BY <2>8, MapAssumption DEF Map!KeysAssumption, MapNode
  <2> QED
    BY <2>7, <2>9 DEF longer
<1>6. CASE old = {} /\ key = node.key
  <2>1. new = {n + 1}
    BY <1>1, <1>2, <1>3, <1>6, SMT
  <2>2. Map!Min(new) = n + 1
    <3>1. n + 1 \in new /\ \A y \in new : n + 1 <= y
      BY <1>2, <2>1, SMT
    <3> QED
      BY <1>4, <3>1, LeastIsMin
  <2>3. FoundIn(longer, key) = node.value /\ FoundIn(chain, key) = Map!None
    BY <1>1, <1>6, <2>1, <2>2 DEF FoundIn, old, new
  <2> QED
    BY <1>6, <2>3 DEF longer
<1>7. CASE old = {} /\ key # node.key
  <2>1. new = {}
    BY <1>1, <1>2, <1>3, <1>7, SMT
  <2> QED
    BY <1>7, <2>1 DEF FoundIn, old, new, longer
<1> QED
  BY <1>5, <1>6, <1>7

LEMMA KeyHashes == ASSUME NEW key \in Keys PROVE Map!hash(key) \in Hashes
BY HashesAre, MapAssumption DEF Map!KeysAssumption

LEMMA SetIsSet ==
  ASSUME MapInv, NEW key \in Keys, NEW v \in MapValues, Map!set(key, v)
  PROVE  MapInv' /\ Map!Map!Set(key, v)
<1> DEFINE node == [key |-> key, value |-> v]
           h == Map!hash(key)
<1>1. node \in MapNode /\ h \in Hashes
  BY KeyHashes DEF MapNode
<1>2. table' = [table EXCEPT ![h] = Append(@, node)] /\ found' = Map!None
  BY DEF Map!set
<1>3. table[h] \in Seq(MapNode) /\ Append(table[h], node) \in Seq(MapNode)
  BY <1>1, AppendProperties DEF MapInv
<1>4. MapInv'
  BY <1>1, <1>2, <1>3, Zenon DEF MapInv
<1>5. ASSUME NEW k \in Keys
      PROVE  Map!Find(k)' = IF k = key /\ Map!Find(k) = Map!None THEN v ELSE Map!Find(k)
  <2>1. Map!Find(k)' = FoundIn(table'[Map!hash(k)], k)
    BY DEF Map!Find, FoundIn, Places
  <2>2. Map!Find(k) = FoundIn(table[Map!hash(k)], k)
    BY FindIs
  <2>3. Map!hash(k) \in Hashes
    BY KeyHashes
  <2>4. CASE Map!hash(k) = h
    <3>1. table'[Map!hash(k)] = Append(table[h], node)
      BY <1>1, <1>2, <2>4 DEF MapInv
    <3> QED
      BY <1>1, <1>3, <2>1, <2>2, <2>4, <3>1, AppendedFound
  <2>5. CASE Map!hash(k) # h
    <3>1. table'[Map!hash(k)] = table[Map!hash(k)] /\ k # key
      BY <1>2, <2>3, <2>5 DEF MapInv
    <3> QED
      BY <2>1, <2>2, <3>1
  <2> QED
    BY <2>4, <2>5
<1> DEFINE before == [k \in Keys |-> Map!Find(k)]
<1>6. [k \in Keys |-> Map!Find(k)]' = [before EXCEPT ![key] = IF @ = Map!None THEN v ELSE @]
  <2>1. [k \in Keys |-> Map!Find(k)]' = [k \in Keys |-> Map!Find(k)']
    OBVIOUS
  <2>2. [before EXCEPT ![key] = IF @ = Map!None THEN v ELSE @]
          = [k \in Keys |-> IF k = key /\ Map!Find(k) = Map!None THEN v ELSE Map!Find(k)]
    OBVIOUS
  <2> QED
    BY <1>5, <2>1, <2>2
<1> QED
  BY <1>2, <1>4, <1>6 DEF Map!Map!Set

LEMMA MapStep ==
  ASSUME MapInv, [UtilNext]_utilVars
  PROVE  MapInv' /\ [Map!Map!Next]_(Map!Map!vars)
<1>1. CASE UNCHANGED mapVars
  <2>1. MapInv'
    BY <1>1 DEF mapVars, MapInv
  <2>2. UNCHANGED Map!Map!vars
    BY <1>1 DEF mapVars, Map!Map!vars, Map!Find
  <2> QED
    BY <2>1, <2>2
<1>2. CASE Map!Next
  <2>1. PICK key \in Keys : Map!get(key) \/ \E v \in MapValues : Map!set(key, v)
    BY <1>2 DEF Map!Next
  <2>2. CASE Map!get(key)
    <3>1. table' = table /\ found' = Map!Find(key)
      BY <2>2 DEF Map!get
    <3>2. MapInv'
      BY <3>1 DEF MapInv
    <3>3. Map!Map!Get(key)
      BY <3>1 DEF Map!Map!Get, Map!Find
    <3> QED
      BY <3>2, <3>3 DEF Map!Map!Next
  <2>3. CASE \E v \in MapValues : Map!set(key, v)
    BY <2>3, SetIsSet DEF Map!Map!Next
  <2> QED
    BY <2>1, <2>2, <2>3
<1> QED
  BY <1>1, <1>2 DEF UtilNext, Uses, utilVars

\* Keys that share a chain do not disturb each other, and a key keeps its
\* first value: the table is a dictionary.
THEOREM TableIsDictionary == UtilSpec => IsDictionary
<1>1. UtilInit => MapInv
  <2> SUFFICES ASSUME UtilInit
               PROVE  MapInv
    OBVIOUS
  <2>1. table = [h \in Hashes |-> <<>>] /\ <<>> \in Seq(MapNode)
    BY EmptySeq DEF UtilInit, Map!Init, Hashes
  <2> QED
    BY <2>1, Zenon DEF MapInv
<1>2. UtilInit => Map!Map!Init
  <2> SUFFICES ASSUME UtilInit
               PROVE  Map!Map!Init
    OBVIOUS
  <2>1. table = [h \in Hashes |-> <<>>] /\ found = Map!None
    BY DEF UtilInit, Map!Init, Hashes
  <2>2. \A k \in Keys : Map!Find(k) = Map!None
    <3> SUFFICES ASSUME NEW k \in Keys
                 PROVE  Map!Find(k) = Map!None
      OBVIOUS
    <3>1. table[Map!hash(k)] = <<>>
      BY <2>1, KeyHashes
    <3>2. Places(<<>>, k) = {}
      BY DEF Places
    <3> QED
      BY <3>1, <3>2, FindIs DEF FoundIn
  <2> QED
    BY <2>1, <2>2 DEF Map!Map!Init
<1> QED
  BY <1>1, <1>2, MapStep, PTL DEF UtilSpec, IsDictionary, Map!IsDictionary, Map!Map!Spec

----------------------------------------------------------------------------
(* The list *)

Null == Queue!Null

\* What a node may hold, also before it is first written.
Held == ListValues \cup {CHOOSE v \in ListValues : TRUE}

NodeTypes ==
  /\ prev \in [Nodes -> Nodes \cup {Null}] /\ next \in [Nodes -> Nodes \cup {Null}]
  /\ value \in [Nodes -> Held]

Distinct(s) == \A i, j \in 1 .. Len(s) : s[i] = s[j] => i = j

\* The nodes of s, in its order, are what a walk along next finds, and what a
\* list that is open has allocated.  The way back is only kept by a list that
\* is used at its back.
Linked(s) ==
  /\ s \in Seq(Nodes) /\ Distinct(s)
  /\ first = IF s = <<>> THEN Null ELSE s[1]
  /\ \A i \in 1 .. Len(s) : next[s[i]] = IF i < Len(s) THEN s[i + 1] ELSE Null
  /\ stage = "open" => live = {s[i] : i \in 1 .. Len(s)}
  /\ subject = "stack" => \A i \in 2 .. Len(s) : prev[s[i]] = s[i - 1]

ListInv == NodeTypes /\ \E s \in Seq(Nodes) : Linked(s)

\* What the nodes hold.
ReadOf(holds, s) == [i \in 1 .. Len(s) |-> holds[s[i]]]
Read(s) == ReadOf(value, s)

LEMMA NullIsNoNode == \A n \in Nodes : n # Null
BY ListAssumption DEF Queue!NodesAssumption, Null

LEMMA SeqFacts ==
  ASSUME NEW s \in Seq(Nodes)
  PROVE  /\ Len(s) \in Nat
         /\ \A i \in 1 .. Len(s) : s[i] \in Nodes /\ s[i] # Null
         /\ s = <<>> <=> Len(s) = 0
<1>1. Len(s) \in Nat /\ \A i \in 1 .. Len(s) : s[i] \in Nodes
  BY LenProperties, ElementOfSeq
<1>2. s = <<>> <=> Len(s) = 0
  BY EmptySeq
<1> QED
  BY <1>1, <1>2, NullIsNoNode

\* The node k steps behind the first.
Nth(s, k) == IF k < Len(s) THEN s[k + 1] ELSE Null

LEMMA WalkFinds ==
  ASSUME NEW s, Linked(s), NEW k \in Nat
  PROVE  Queue!Follow(first, k) = Nth(s, k)
<1> DEFINE is(w) == w = [i \in 0 .. k |-> IF i = 0 THEN first
                                          ELSE IF w[i - 1] = Null THEN Null
                                          ELSE next[w[i - 1]]]
           g == [i \in 0 .. k |-> Nth(s, i)]
           w == CHOOSE v : is(v)
<1>1. s \in Seq(Nodes) /\ Len(s) \in Nat
      /\ \A i \in 1 .. Len(s) : s[i] \in Nodes /\ s[i] # Null
  BY SeqFacts DEF Linked
<1>2. first = Nth(s, 0)
  BY <1>1, SeqFacts, SMT DEF Linked, Nth
<1>3. \A i \in 1 .. k : Nth(s, i) = IF Nth(s, i - 1) = Null THEN Null ELSE next[Nth(s, i - 1)]
  <2> SUFFICES ASSUME NEW i \in 1 .. k
               PROVE  Nth(s, i) = IF Nth(s, i - 1) = Null THEN Null ELSE next[Nth(s, i - 1)]
    OBVIOUS
  <2>1. i \in Nat /\ i >= 1
    BY SMT
  <2>2. CASE i - 1 < Len(s)
    <3>1. Nth(s, i - 1) = s[i] /\ i \in 1 .. Len(s)
      BY <1>1, <2>1, <2>2, SMT DEF Nth
    <3>2. next[s[i]] = IF i < Len(s) THEN s[i + 1] ELSE Null
      BY <3>1 DEF Linked
    <3> QED
      BY <1>1, <3>1, <3>2 DEF Nth
  <2>3. CASE ~(i - 1 < Len(s))
    BY <1>1, <2>1, <2>3, SMT DEF Nth
  <2> QED
    BY <2>2, <2>3
<1>4. is(g)
  <2>1. \A i \in 0 .. k : g[i] = IF i = 0 THEN first ELSE IF g[i - 1] = Null THEN Null
                                 ELSE next[g[i - 1]]
    <3> SUFFICES ASSUME NEW i \in 0 .. k
                 PROVE  g[i] = IF i = 0 THEN first ELSE IF g[i - 1] = Null THEN Null
                                 ELSE next[g[i - 1]]
      OBVIOUS
    <3>1. CASE i = 0
      BY <1>2, <3>1
    <3>2. CASE i # 0
      <4>1. i \in 1 .. k /\ i - 1 \in 0 .. k
        BY <3>2, SMT
      <4>2. g[i] = Nth(s, i) /\ g[i - 1] = Nth(s, i - 1)
        BY <4>1
      <4> QED
        BY <1>3, <3>2, <4>1, <4>2
    <3> QED
      BY <3>1, <3>2
  <2>2. g = [i \in 0 .. k |-> g[i]]
    OBVIOUS
  <2> HIDE DEF g
  <2> QED
    BY <2>1, <2>2
<1>5. is(w)
  <2> HIDE DEF g
  <2> QED
    BY <1>4
<1>6. Queue!Follow(first, k) = w[k]
  BY DEF Queue!Follow, Null
<1>7. \A i \in 0 .. k : g[i] = Nth(s, i)
  OBVIOUS
<1> HIDE DEF w, g
<1>8. \A i \in 0 .. k : w[i] = IF i = 0 THEN first ELSE IF w[i - 1] = Null THEN Null
                               ELSE next[w[i - 1]]
  BY <1>5
<1> DEFINE bad == {i \in 0 .. k : w[i] # Nth(s, i)}
<1>9. bad = {}
  <2> SUFFICES ASSUME bad # {}
               PROVE  FALSE
    OBVIOUS
  <2>1. bad \subseteq Nat
    BY SMT
  <2>2. PICK x \in bad : \A y \in bad : x <= y
    <3> HIDE DEF bad
    <3> QED
      BY <2>1, LeastExists
  <2>3. x \in 0 .. k /\ w[x] # Nth(s, x)
    OBVIOUS
  <2>4. x # 0
    BY <1>2, <1>8, <2>3
  <2>5. x \in 1 .. k /\ x - 1 \in 0 .. k /\ ~(x <= x - 1)
    BY <2>3, <2>4, SMT
  <2>6. w[x - 1] = Nth(s, x - 1)
    BY <2>2, <2>5
  <2>7. w[x] = IF w[x - 1] = Null THEN Null ELSE next[w[x - 1]]
    BY <1>8, <2>3, <2>4
  <2> QED
    BY <1>3, <2>3, <2>5, <2>6, <2>7
<1>10. k \in 0 .. k
  BY SMT
<1> QED
  BY <1>6, <1>9, <1>10

LEMMA OneCardinality ==
  ASSUME NEW S
  PROVE  Queue!Cardinality(S) = Cardinality(S) /\ (Queue!IsFiniteSet(S) <=> IsFiniteSet(S))
BY DEF Queue!Cardinality, Cardinality, Queue!IsFiniteSet, IsFiniteSet

LEMMA NoMoreThanNodes ==
  ASSUME NEW s \in Seq(Nodes), Distinct(s)
  PROVE  /\ Len(s) \in Nat /\ Cardinality(Nodes) \in Nat
         /\ Len(s) <= Cardinality(Nodes)
<1>1. Len(s) \in Nat /\ s \in [1 .. Len(s) -> Nodes]
  BY LenProperties
<1>2. s \in Injection(1 .. Len(s), Nodes)
  BY <1>1 DEF Distinct, Injection, IsInjective
<1>3. IsFiniteSet(Nodes)
  BY ListAssumption, OneCardinality DEF Queue!NodesAssumption
<1>4. Cardinality(1 .. Len(s)) <= Cardinality(Nodes) /\ Cardinality(Nodes) \in Nat
  BY <1>2, <1>3, FS_Injection, FS_CardinalityType
<1>5. Cardinality(1 .. Len(s)) = Len(s)
  <2> DEFINE n == Len(s)
  <2> HIDE DEF n
  <2>1. n \in Nat
    BY <1>1 DEF n
  <2>2. Cardinality(1 .. n) = IF 1 > n THEN 0 ELSE n - 1 + 1
    BY <2>1, FS_Interval
  <2> QED
    BY <2>1, <2>2, SMT DEF n
<1> QED
  BY <1>1, <1>4, <1>5

\* A walk along the links ends, behind the nodes of s.
LEMMA WalkEnds ==
  ASSUME NEW s, Linked(s)
  PROVE  /\ Queue!Ends /\ Queue!Length = Len(s)
         /\ Queue!Listed = {s[i] : i \in 1 .. Len(s)}
         /\ Len(s) > 0 => Queue!Last = s[Len(s)]
<1> DEFINE c == Cardinality(Nodes)
           n == Len(s)
           F(k) == Queue!Follow(first, k)
<1>1. /\ s \in Seq(Nodes) /\ n \in Nat /\ c \in Nat /\ n <= c
      /\ \A i \in 1 .. n : s[i] \in Nodes /\ s[i] # Null
  BY SeqFacts, NoMoreThanNodes DEF Linked
<1>2. \A k \in Nat : F(k) = Nth(s, k)
  BY WalkFinds
<1>3. Queue!Ends <=> \E k \in 0 .. c : F(k) = Null
  BY OneCardinality DEF Queue!Ends, Null
<1>4. Queue!Length = CHOOSE k \in 0 .. c : F(k) = Null /\ \A i \in 0 .. k - 1 : F(i) # Null
  BY OneCardinality DEF Queue!Length, Null
<1>5. Queue!Listed = {F(k) : k \in 0 .. c} \ {Null}
  BY OneCardinality DEF Queue!Listed, Null
<1>6. Queue!Last = F(Queue!Length - 1)
  BY DEF Queue!Last
<1> HIDE DEF c, F
<1>7. \A k \in Nat : F(k) = IF k < n THEN s[k + 1] ELSE Null
  BY <1>2 DEF Nth
<1> HIDE DEF n
<1>8. \A k \in Nat : F(k) = Null <=> k >= n
  BY <1>1, <1>7, SMT
<1>9. Queue!Ends
  BY <1>1, <1>3, <1>8, SMT
<1>10. Queue!Length = n
  <2> DEFINE P(k) == F(k) = Null /\ \A i \in 0 .. k - 1 : F(i) # Null
  <2>1. n \in 0 .. c /\ P(n)
    BY <1>1, <1>8, SMT
  <2>2. ASSUME NEW k \in 0 .. c, P(k)
        PROVE  k = n
    <3>1. k \in Nat /\ k >= n
      BY <1>8, <2>2, SMT
    <3>2. ~(k > n)
      <4> SUFFICES ASSUME k > n
                   PROVE  FALSE
        OBVIOUS
      <4>1. n \in 0 .. k - 1
        BY <1>1, <3>1, SMT
      <4>2. F(n) # Null
        BY <2>2, <4>1
      <4> QED
        BY <2>1, <4>2
    <3> QED
      BY <1>1, <3>1, <3>2, SMT
  <2> HIDE DEF P
  <2>3. (CHOOSE k \in 0 .. c : P(k)) = n
    BY <2>1, <2>2
  <2> QED
    BY <1>4, <2>3 DEF P
<1>11. Queue!Listed = {s[i] : i \in 1 .. n}
  <2>1. ASSUME NEW x \in Queue!Listed
        PROVE  x \in {s[i] : i \in 1 .. n}
    <3>1. PICK k \in 0 .. c : x = F(k) /\ x # Null
      BY <1>5
    <3>2. k \in Nat /\ k < n
      BY <1>1, <1>8, <3>1, SMT
    <3>3. k + 1 \in 1 .. n /\ x = s[k + 1]
      BY <1>1, <1>7, <3>1, <3>2, SMT
    <3> QED
      BY <3>3
  <2>2. ASSUME NEW i \in 1 .. n
        PROVE  s[i] \in Queue!Listed
    <3>1. i - 1 \in 0 .. c /\ i - 1 \in Nat /\ i - 1 < n /\ (i - 1) + 1 = i
      BY <1>1, SMT
    <3>2. F(i - 1) = s[i]
      BY <1>7, <3>1
    <3> QED
      BY <1>1, <1>5, <3>1, <3>2
  <2> QED
    BY <2>1, <2>2
<1>12. n > 0 => Queue!Last = s[n]
  <2> SUFFICES ASSUME n > 0
               PROVE  Queue!Last = s[n]
    OBVIOUS
  <2>1. n - 1 \in Nat /\ n - 1 < n /\ (n - 1) + 1 = n
    BY <1>1, SMT
  <2> QED
    BY <1>6, <1>7, <1>10, <2>1
<1> QED
  BY <1>9, <1>10, <1>11, <1>12 DEF n

\* The values that a client sees.
Seen == IF Queue!Ends THEN [i \in 1 .. Queue!Length |-> value[Queue!Follow(first, i - 1)]] ELSE <<>>

LEMMA ReadIs ==
  ASSUME NEW holds \in [Nodes -> Held], NEW s \in Seq(Nodes)
  PROVE  /\ ReadOf(holds, s) \in Seq(Held) /\ Len(ReadOf(holds, s)) = Len(s)
         /\ \A i \in 1 .. Len(s) : ReadOf(holds, s)[i] = holds[s[i]]
<1>1. Len(s) \in Nat /\ \A i \in 1 .. Len(s) : s[i] \in Nodes
  BY SeqFacts
<1>2. ReadOf(holds, s) \in [1 .. Len(s) -> Held]
  BY <1>1 DEF ReadOf
<1>3. ReadOf(holds, s) \in Seq(Held)
  BY <1>1, <1>2, SeqDef
<1>4. Len(ReadOf(holds, s)) = Len(s)
  BY <1>1, <1>2, <1>3, LenProperties, SMT
<1> QED
  BY <1>3, <1>4 DEF ReadOf

LEMMA SeenIsRead ==
  ASSUME NodeTypes, NEW s, Linked(s)
  PROVE  Seen = Read(s)
<1>1. s \in Seq(Nodes) /\ Len(s) \in Nat /\ \A i \in 1 .. Len(s) : s[i] \in Nodes
  BY SeqFacts DEF Linked
<1>2. \A i \in 1 .. Len(s) : Queue!Follow(first, i - 1) = s[i]
  <2> SUFFICES ASSUME NEW i \in 1 .. Len(s)
               PROVE  Queue!Follow(first, i - 1) = s[i]
    OBVIOUS
  <2>1. i - 1 \in Nat /\ i - 1 < Len(s) /\ (i - 1) + 1 = i
    BY <1>1, SMT
  <2> QED
    BY <2>1, WalkFinds DEF Nth
<1>3. Queue!Ends /\ Queue!Length = Len(s)
  BY WalkEnds
<1>4. Seen = [i \in 1 .. Len(s) |-> value[Queue!Follow(first, i - 1)]]
  BY <1>3 DEF Seen
<1> QED
  BY <1>2, <1>4 DEF Read, ReadOf

\* Both uses of a list walk it alike.
LEMMA SameWalks ==
  /\ Stack!Ends = Queue!Ends /\ Stack!Length = Queue!Length /\ Stack!Last = Queue!Last
  /\ \A n, k : Stack!Follow(n, k) = Queue!Follow(n, k)
<1>1. \A n, k : Stack!Follow(n, k) = Queue!Follow(n, k)
  BY DEF Stack!Follow, Queue!Follow, Stack!Null, Queue!Null
<1>2. \A S : Stack!Cardinality(S) = Queue!Cardinality(S)
  BY DEF Stack!Cardinality, Queue!Cardinality
<1>3. Stack!Length = Queue!Length
  BY <1>1, <1>2 DEF Stack!Length, Queue!Length, Stack!Null, Queue!Null
<1>4. Stack!Ends = Queue!Ends
  BY <1>1, <1>2 DEF Stack!Ends, Queue!Ends, Stack!Null, Queue!Null
<1>5. Stack!Last = Queue!Last
  BY <1>1, <1>3 DEF Stack!Last, Queue!Last
<1> QED
  BY <1>1, <1>3, <1>4, <1>5

\* A new node in front.
LEMMA PushFrontLinks ==
  ASSUME NodeTypes, NEW s, Linked(s), subject' = subject, subject = "queue", stage = "open",
         NEW node \in Nodes, NEW v \in ListValues, Queue!push_front(node, v)
  PROVE  /\ NodeTypes' /\ Linked(<<node>> \o s)'
         /\ Read(<<node>> \o s)' = <<v>> \o Read(s)
<1> DEFINE t == <<node>> \o s
<1>1. /\ s \in Seq(Nodes) /\ Len(s) \in Nat
      /\ \A i \in 1 .. Len(s) : s[i] \in Nodes /\ s[i] # Null
      /\ (s = <<>> <=> Len(s) = 0)
  BY SeqFacts DEF Linked
<1>2. /\ node \notin live /\ live' = live \cup {node} /\ stage' = stage
      /\ value' = [value EXCEPT ![node] = v] /\ first' = node
      /\ prev' = [prev EXCEPT ![node] = Null] /\ next' = [next EXCEPT ![node] = first]
  BY DEF Queue!push_front, Queue!NewNode, Null
<1>3. live = {s[i] : i \in 1 .. Len(s)}
  BY DEF Linked
<1>4. /\ t \in Seq(Nodes) /\ Len(t) = Len(s) + 1 /\ t[1] = node
      /\ \A i \in 2 .. Len(s) + 1 : t[i] = s[i - 1]
  <2>1. <<node>> \in Seq(Nodes) /\ Len(<<node>>) = 1 /\ <<node>>[1] = node
    OBVIOUS
  <2>2. /\ t \in Seq(Nodes) /\ Len(t) = Len(<<node>>) + Len(s)
        /\ \A i \in 1 .. Len(<<node>>) + Len(s) :
             t[i] = IF i <= Len(<<node>>) THEN <<node>>[i] ELSE s[i - Len(<<node>>)]
    BY <1>1, <2>1, ConcatProperties
  <2> HIDE DEF t
  <2>3. /\ Len(t) = 1 + Len(s)
        /\ \A i \in 1 .. 1 + Len(s) : t[i] = IF i <= 1 THEN node ELSE s[i - 1]
    BY <2>1, <2>2, SMT
  <2> QED
    BY <1>1, <2>2, <2>3, SMT
<1> HIDE DEF t
<1>5. \A i \in 1 .. Len(s) : s[i] # node
  BY <1>2, <1>3
<1>6. NodeTypes'
  <2>1. first \in Nodes \cup {Null} /\ v \in Held
    BY <1>1, SMT DEF Linked, Held
  <2> QED
    BY <1>2, <2>1, Zenon DEF NodeTypes
<1>7. Distinct(t)
  <2> SUFFICES ASSUME NEW i \in 1 .. Len(t), NEW j \in 1 .. Len(t), t[i] = t[j]
               PROVE  i = j
    BY DEF Distinct
  <2>1. \A k \in 1 .. Len(t) : k # 1 => k - 1 \in 1 .. Len(s) /\ k \in 2 .. Len(s) + 1
    BY <1>1, <1>4, SMT
  <2>2. \A k \in 1 .. Len(t) : k # 1 => t[k] = s[k - 1] /\ t[k] # node
    BY <1>4, <1>5, <2>1
  <2>3. CASE i # 1 /\ j # 1
    <3>1. i - 1 = j - 1
      BY <2>1, <2>2, <2>3 DEF Linked, Distinct
    <3> QED
      BY <3>1, SMT
  <2> QED
    BY <1>4, <2>2, <2>3
<1>8. \A i \in 1 .. Len(t) : next'[t[i]] = IF i < Len(t) THEN t[i + 1] ELSE Null
  <2> SUFFICES ASSUME NEW i \in 1 .. Len(t)
               PROVE  next'[t[i]] = IF i < Len(t) THEN t[i + 1] ELSE Null
    OBVIOUS
  <2>1. CASE i = 1
    <3>1. next'[node] = first
      BY <1>2 DEF NodeTypes
    <3>2. first = IF 1 < Len(t) THEN t[2] ELSE Null
      BY <1>1, <1>4, SMT DEF Linked
    <3> QED
      BY <1>4, <2>1, <3>1, <3>2
  <2>2. CASE i # 1
    <3>1. i - 1 \in 1 .. Len(s) /\ i \in 2 .. Len(s) + 1
      BY <1>1, <1>4, <2>2, SMT
    <3>2. t[i] = s[i - 1] /\ s[i - 1] # node /\ s[i - 1] \in Nodes
      BY <1>1, <1>4, <1>5, <3>1
    <3>3. next'[t[i]] = next[s[i - 1]]
      BY <1>2, <3>2 DEF NodeTypes
    <3>4. next[s[i - 1]] = IF i - 1 < Len(s) THEN s[(i - 1) + 1] ELSE Null
      BY <3>1 DEF Linked
    <3>5. i - 1 < Len(s) => t[i + 1] = s[(i - 1) + 1]
      BY <1>1, <1>4, <3>1, SMT
    <3>6. i - 1 < Len(s) <=> i < Len(t)
      BY <1>1, <1>4, <3>1, SMT
    <3> QED
      BY <3>3, <3>4, <3>5, <3>6
  <2> QED
    BY <2>1, <2>2
<1>9. live' = {t[i] : i \in 1 .. Len(t)}
  <2>1. \A i \in 1 .. Len(t) : t[i] \in live'
    <3>1. ASSUME NEW i \in 1 .. Len(t), i # 1
          PROVE  t[i] \in live'
      <4>1. i - 1 \in 1 .. Len(s) /\ i \in 2 .. Len(s) + 1
        BY <1>1, <1>4, <3>1, SMT
      <4>2. t[i] = s[i - 1] /\ s[i - 1] \in live
        BY <1>3, <1>4, <4>1
      <4> QED
        BY <1>2, <4>2
    <3> QED
      BY <1>2, <1>4, <3>1
  <2>2. 1 \in 1 .. Len(t) /\ \A i \in 1 .. Len(s) : i + 1 \in 1 .. Len(t) /\ t[i + 1] = s[i]
    BY <1>1, <1>4, SMT
  <2>3. ASSUME NEW x \in live'
        PROVE  \E i \in 1 .. Len(t) : x = t[i]
    <3>1. CASE x = node
      BY <1>4, <2>2, <3>1
    <3>2. CASE x \in live
      <4>1. PICK i \in 1 .. Len(s) : x = s[i]
        BY <1>3, <3>2
      <4>2. i + 1 \in 1 .. Len(t) /\ t[i + 1] = s[i]
        BY <2>2
      <4> QED
        BY <4>1, <4>2
    <3> QED
      BY <1>2, <3>1, <3>2
  <2> QED
    BY <2>1, <2>3
<1>10. Linked(t)'
  <2>1. t # <<>> /\ first' = t[1]
    BY <1>1, <1>2, <1>4, SeqFacts, SMT
  <2> QED
    BY <1>4, <1>7, <1>8, <1>9, <2>1 DEF Linked
<1>11. Read(t)' = <<v>> \o Read(s)
  <2>1. value \in [Nodes -> Held] /\ value' \in [Nodes -> Held] /\ s \in Seq(Nodes)
    BY <1>1, <1>6 DEF NodeTypes
  <2>2. /\ Read(s) \in Seq(Held) /\ Len(Read(s)) = Len(s)
        /\ \A i \in 1 .. Len(s) : Read(s)[i] = value[s[i]]
    BY <2>1, ReadIs DEF Read
  <2>3. /\ Read(t)' \in Seq(Held) /\ Len(Read(t)') = Len(t)
        /\ \A i \in 1 .. Len(t) : Read(t)'[i] = value'[t[i]]
    BY <1>4, <2>1, ReadIs DEF Read
  <2> DEFINE r == Read(s)
             new == Read(t)'
  <2> HIDE DEF r, new
  <2>4. r \in Seq(Held) /\ Len(r) = Len(s) /\ \A i \in 1 .. Len(s) : r[i] = value[s[i]]
    BY <2>2 DEF r
  <2>5. new \in Seq(Held) /\ Len(new) = Len(t) /\ \A i \in 1 .. Len(t) : new[i] = value'[t[i]]
    BY <2>3 DEF new
  <2>6. v \in Held
    BY DEF Held
  <2>7. <<v>> \o r \in Seq(Held) /\ Len(<<v>> \o r) = Len(s) + 1
        /\ \A i \in 1 .. Len(s) + 1 : (<<v>> \o r)[i] = IF i = 1 THEN v ELSE r[i - 1]
    <3>1. <<v>> \in Seq(Held) /\ Len(<<v>>) = 1 /\ <<v>>[1] = v
      BY <2>6
    <3>2. /\ <<v>> \o r \in Seq(Held) /\ Len(<<v>> \o r) = Len(<<v>>) + Len(r)
          /\ \A i \in 1 .. Len(<<v>>) + Len(r) :
               (<<v>> \o r)[i] = IF i <= Len(<<v>>) THEN <<v>>[i] ELSE r[i - Len(<<v>>)]
      BY <2>4, <3>1, ConcatProperties
    <3>3. \A i \in 1 .. Len(s) + 1 : i <= 1 <=> i = 1
      BY <1>1, SMT
    <3>4. Len(<<v>>) + Len(r) = Len(s) + 1
      BY <1>1, <2>4, <3>1, SMT
    <3> QED
      BY <3>1, <3>2, <3>3, <3>4
  <2>8. ASSUME NEW i \in 1 .. Len(s) + 1
        PROVE  new[i] = (<<v>> \o r)[i]
    <3>1. CASE i = 1
      <4>1. value'[node] = v
        BY <1>2, <2>1
      <4> QED
        BY <1>4, <2>5, <2>7, <3>1, <4>1
    <3>2. CASE i # 1
      <4>1. i - 1 \in 1 .. Len(s) /\ i \in 2 .. Len(s) + 1
        BY <1>1, <3>2, SMT
      <4>2. t[i] = s[i - 1] /\ s[i - 1] # node /\ s[i - 1] \in Nodes
        BY <1>1, <1>4, <1>5, <4>1
      <4>3. value'[s[i - 1]] = value[s[i - 1]]
        BY <1>2, <2>1, <4>2
      <4> QED
        BY <1>4, <2>4, <2>5, <2>7, <3>2, <4>1, <4>2, <4>3
    <3> QED
      BY <3>1, <3>2
  <2>9. new = <<v>> \o r
    <3> DEFINE q == <<v>> \o r
    <3> HIDE DEF q
    <3>1. q \in Seq(Held) /\ Len(q) = Len(new) /\ \A i \in 1 .. Len(new) : new[i] = q[i]
      BY <1>4, <2>5, <2>7, <2>8 DEF q
    <3>2. new = q
      BY <2>5, <3>1, SeqEqual
    <3> QED
      BY <3>2 DEF q
  <2> QED
    BY <2>9 DEF r, new
<1> QED
  BY <1>6, <1>10, <1>11 DEF t

\* A new node behind the last.
LEMMA PushBackLinks ==
  ASSUME NodeTypes, NEW s, Linked(s), subject' = subject, stage = "open",
         NEW node \in Nodes, NEW v \in ListValues, Queue!push_back(node, v)
  PROVE  /\ NodeTypes' /\ Linked(Append(s, node))'
         /\ Read(Append(s, node))' = Append(Read(s), v)
<1> DEFINE t == Append(s, node)
           n == Len(s)
<1>1. /\ s \in Seq(Nodes) /\ n \in Nat
      /\ \A i \in 1 .. n : s[i] \in Nodes /\ s[i] # Null
      /\ (s = <<>> <=> n = 0)
  BY SeqFacts DEF Linked
<1>2. /\ node \notin live /\ live' = live \cup {node} /\ stage' = stage
      /\ value' = [value EXCEPT ![node] = v]
  BY DEF Queue!push_back, Queue!NewNode
<1>3. live = {s[i] : i \in 1 .. n}
  BY DEF Linked
<1>4. /\ t \in Seq(Nodes) /\ Len(t) = n + 1 /\ t # <<>>
      /\ \A i \in 1 .. n : t[i] = s[i]
      /\ t[n + 1] = node
  BY <1>1, AppendProperties
<1>5. /\ n = 0 => /\ first = Null /\ first' = node
                  /\ prev' = [prev EXCEPT ![node] = Null] /\ next' = [next EXCEPT ![node] = Null]
      /\ n # 0 => /\ first = s[1] /\ first' = first
                  /\ prev' = [prev EXCEPT ![node] = s[n]]
                  /\ next' = [next EXCEPT ![s[n]] = node, ![node] = Null]
  <2>1. n = 0 => first = Null
    BY <1>1 DEF Linked
  <2>2. n # 0 => first = s[1] /\ first # Null /\ Queue!Last = s[n]
    <3>1. n # 0 => n > 0 /\ 1 \in 1 .. n
      BY <1>1, SMT
    <3> QED
      BY <1>1, <3>1, WalkEnds DEF Linked
  <2> QED
    BY <2>1, <2>2 DEF Queue!push_back, Null
<1> HIDE DEF t, n
<1>6. \A i \in 1 .. n : s[i] # node
  BY <1>2, <1>3
<1>7. \A k \in 1 .. n + 1 : k # n + 1 => k \in 1 .. n
  BY <1>1, SMT
<1>8. n # 0 => n \in 1 .. n /\ 1 \in 1 .. n
  BY <1>1, SMT
<1>9. NodeTypes'
  <2>1. v \in Held
    BY DEF Held
  <2>2. value' \in [Nodes -> Held]
    BY <1>2, <2>1, Zenon DEF NodeTypes
  <2>3. CASE n = 0
    <3>1. prev' \in [Nodes -> Nodes \cup {Null}] /\ next' \in [Nodes -> Nodes \cup {Null}]
      BY <1>5, <2>3, Zenon DEF NodeTypes
    <3> QED
      BY <2>2, <3>1 DEF NodeTypes
  <2>4. CASE n # 0
    <3>1. s[n] \in Nodes
      BY <1>1, <1>8, <2>4
    <3>2. prev' \in [Nodes -> Nodes \cup {Null}]
      BY <1>5, <2>4, <3>1, Zenon DEF NodeTypes
    <3>3. [next EXCEPT ![s[n]] = node] \in [Nodes -> Nodes \cup {Null}]
      BY Zenon DEF NodeTypes
    <3>4. next' = [[next EXCEPT ![s[n]] = node] EXCEPT ![node] = Null]
      BY <1>5, <2>4
    <3>5. next' \in [Nodes -> Nodes \cup {Null}]
      BY <3>3, <3>4, Zenon
    <3> QED
      BY <2>2, <3>2, <3>5 DEF NodeTypes
  <2> QED
    BY <2>3, <2>4
<1>10. Distinct(t)
  <2> SUFFICES ASSUME NEW i \in 1 .. Len(t), NEW j \in 1 .. Len(t), t[i] = t[j]
               PROVE  i = j
    BY DEF Distinct
  <2>1. \A k \in 1 .. Len(t) : k # n + 1 => k \in 1 .. n /\ t[k] = s[k] /\ t[k] # node
    BY <1>4, <1>6, <1>7
  <2>2. CASE i # n + 1 /\ j # n + 1
    BY <2>1, <2>2 DEF Linked, Distinct, n
  <2> QED
    BY <1>4, <2>1, <2>2
<1>11. \A i \in 1 .. Len(t) : next'[t[i]] = IF i < Len(t) THEN t[i + 1] ELSE Null
  <2> SUFFICES ASSUME NEW i \in 1 .. Len(t)
               PROVE  next'[t[i]] = IF i < Len(t) THEN t[i + 1] ELSE Null
    OBVIOUS
  <2>1. next'[node] = Null
    BY <1>5 DEF NodeTypes
  <2>2. CASE i = n + 1
    <3>1. ~(i < Len(t))
      BY <1>1, <1>4, <2>2, SMT
    <3> QED
      BY <1>4, <2>1, <2>2, <3>1
  <2>3. CASE i = n /\ i # n + 1
    <3>1. i \in 1 .. n /\ n # 0
      BY <1>1, <1>4, <1>7, <2>3, SMT
    <3>2. next'[s[n]] = node
      BY <1>1, <1>5, <1>6, <1>8, <3>1 DEF NodeTypes
    <3>3. i < Len(t)
      BY <1>1, <1>4, <2>3, SMT
    <3> QED
      BY <1>4, <2>3, <3>1, <3>2, <3>3
  <2>4. CASE i # n /\ i # n + 1
    <3>1. i \in 1 .. n /\ n # 0 /\ i < n /\ i < Len(t) /\ i + 1 \in 1 .. n
      BY <1>1, <1>4, <1>7, <2>4, SMT
    <3>2. s[i] # s[n]
      BY <1>8, <2>4, <3>1 DEF Linked, Distinct, n
    <3>3. next'[s[i]] = next[s[i]]
      BY <1>1, <1>5, <1>6, <3>1, <3>2 DEF NodeTypes
    <3>4. next[s[i]] = s[i + 1]
      BY <3>1 DEF Linked, n
    <3> QED
      BY <1>4, <3>1, <3>3, <3>4
  <2> QED
    BY <2>2, <2>3, <2>4
<1>12. live' = {t[i] : i \in 1 .. Len(t)}
  <2>1. n + 1 \in 1 .. n + 1 /\ \A i \in 1 .. n : i \in 1 .. n + 1
    BY <1>1, SMT
  <2> QED
    BY <1>2, <1>3, <1>4, <1>7, <2>1
<1>13. subject = "stack" => \A i \in 2 .. Len(t) : prev'[t[i]] = t[i - 1]
  <2> SUFFICES ASSUME subject = "stack", NEW i \in 2 .. Len(t)
               PROVE  prev'[t[i]] = t[i - 1]
    OBVIOUS
  <2>1. n # 0 /\ i - 1 \in 1 .. n
    BY <1>1, <1>4, SMT
  <2>2. CASE i = n + 1
    <3>1. prev'[node] = s[n] /\ i - 1 = n
      BY <1>1, <1>5, <2>1, <2>2, SMT DEF NodeTypes
    <3> QED
      BY <1>4, <2>1, <2>2, <3>1
  <2>3. CASE i # n + 1
    <3>1. i \in 2 .. n /\ i \in 1 .. n
      BY <1>1, <1>4, <2>3, SMT
    <3>2. prev[s[i]] = s[i - 1]
      BY <3>1 DEF Linked, n
    <3>3. prev'[s[i]] = prev[s[i]]
      BY <1>1, <1>5, <1>6, <2>1, <3>1 DEF NodeTypes
    <3> QED
      BY <1>4, <2>1, <3>1, <3>2, <3>3
  <2> QED
    BY <2>2, <2>3
<1>14. Linked(t)'
  <2>1. first' = t[1]
    <3>1. n = 0 => n + 1 = 1
      BY SMT
    <3> QED
      BY <1>4, <1>5, <1>8, <3>1
  <2> QED
    BY <1>4, <1>10, <1>11, <1>12, <1>13, <2>1 DEF Linked
<1>15. Read(t)' = Append(Read(s), v)
  <2>1. value \in [Nodes -> Held] /\ value' \in [Nodes -> Held] /\ v \in Held
    BY <1>9 DEF NodeTypes, Held
  <2> DEFINE r == Read(s)
             new == Read(t)'
             q == Append(r, v)
  <2>2. r \in Seq(Held) /\ Len(r) = n /\ \A i \in 1 .. n : r[i] = value[s[i]]
    BY <1>1, <2>1, ReadIs DEF Read, n
  <2>3. new \in Seq(Held) /\ Len(new) = n + 1 /\ \A i \in 1 .. n + 1 : new[i] = value'[t[i]]
    BY <1>4, <2>1, ReadIs DEF Read
  <2> HIDE DEF r, new
  <2>4. q \in Seq(Held) /\ Len(q) = n + 1 /\ q[n + 1] = v /\ \A i \in 1 .. n : q[i] = r[i]
    BY <2>1, <2>2, AppendProperties
  <2> HIDE DEF q
  <2>5. ASSUME NEW i \in 1 .. n + 1
        PROVE  new[i] = q[i]
    <3>1. CASE i = n + 1
      BY <1>2, <1>4, <2>1, <2>3, <2>4, <3>1
    <3>2. CASE i # n + 1
      <4>1. i \in 1 .. n /\ t[i] = s[i] /\ s[i] # node /\ s[i] \in Nodes
        BY <1>1, <1>4, <1>6, <1>7, <3>2
      <4>2. value'[s[i]] = value[s[i]]
        BY <1>2, <2>1, <4>1
      <4> QED
        BY <2>2, <2>3, <2>4, <4>1, <4>2
    <3> QED
      BY <3>1, <3>2
  <2>6. new = q
    BY <2>3, <2>4, <2>5, SeqEqual
  <2> QED
    BY <2>6 DEF r, new, q
<1> QED
  BY <1>9, <1>14, <1>15 DEF t

\* The first node is taken out.
LEMMA PopFrontLinks ==
  ASSUME NodeTypes, NEW s, Linked(s), subject' = subject, subject = "queue", stage = "open",
         Queue!pop_front
  PROVE  /\ NodeTypes' /\ Linked(Tail(s))' /\ s # <<>>
         /\ Read(Tail(s))' = Tail(Read(s)) /\ popped' = <<Read(s)[1]>>
<1> DEFINE t == Tail(s)
           n == Len(s)
<1>1. /\ s \in Seq(Nodes) /\ n \in Nat
      /\ \A i \in 1 .. n : s[i] \in Nodes /\ s[i] # Null
      /\ (s = <<>> <=> n = 0)
  BY SeqFacts DEF Linked
<1>2. /\ first # Null /\ first' = next[first] /\ next' = [next EXCEPT ![first] = Null]
      /\ prev' = [prev EXCEPT ![first] = Null] /\ live' = live \ {first}
      /\ popped' = <<value[first]>> /\ value' = value /\ stage' = stage
  BY DEF Queue!pop_front, Null
<1>3. live = {s[i] : i \in 1 .. n}
  BY DEF Linked
<1>4. s # <<>> /\ first = s[1]
  BY <1>2 DEF Linked
<1>5. /\ t \in Seq(Nodes) /\ Len(t) = n - 1
      /\ \A i \in 1 .. n - 1 : t[i] = s[i + 1]
  BY <1>1, <1>4, HeadTailProperties
<1> HIDE DEF t, n
<1>6. 1 \in 1 .. n /\ n - 1 \in Nat /\ \A i \in 1 .. n - 1 : i + 1 \in 1 .. n /\ i + 1 # 1
  BY <1>1, <1>4, SMT
<1>7. \A i \in 1 .. n : i # 1 => s[i] # s[1]
  BY <1>6 DEF Linked, Distinct, n
<1>8. \A i \in 1 .. n - 1 : t[i] \in Nodes /\ t[i] # s[1]
  BY <1>1, <1>5, <1>6, <1>7
<1>9. NodeTypes'
  BY <1>2, Zenon DEF NodeTypes
<1>10. Distinct(t)
  <2> SUFFICES ASSUME NEW i \in 1 .. Len(t), NEW j \in 1 .. Len(t), t[i] = t[j]
               PROVE  i = j
    BY DEF Distinct
  <2>1. i + 1 = j + 1
    BY <1>5, <1>6 DEF Linked, Distinct, n
  <2> QED
    BY <2>1, SMT
<1>11. \A i \in 1 .. Len(t) : next'[t[i]] = IF i < Len(t) THEN t[i + 1] ELSE Null
  <2> SUFFICES ASSUME NEW i \in 1 .. Len(t)
               PROVE  next'[t[i]] = IF i < Len(t) THEN t[i + 1] ELSE Null
    OBVIOUS
  <2>1. next'[t[i]] = next[s[i + 1]]
    BY <1>2, <1>4, <1>5, <1>8 DEF NodeTypes
  <2>2. next[s[i + 1]] = IF i + 1 < n THEN s[(i + 1) + 1] ELSE Null
    BY <1>5, <1>6 DEF Linked, n
  <2>3. i + 1 < n <=> i < Len(t)
    BY <1>1, <1>5, SMT
  <2>4. i < Len(t) => t[i + 1] = s[(i + 1) + 1]
    BY <1>1, <1>5, SMT
  <2> QED
    BY <2>1, <2>2, <2>3, <2>4
<1>12. live' = {t[i] : i \in 1 .. Len(t)}
  <2>1. \A i \in 1 .. n : i # 1 => i - 1 \in 1 .. n - 1 /\ (i - 1) + 1 = i
    BY <1>1, SMT
  <2>2. ASSUME NEW x \in live'
        PROVE  \E k \in 1 .. Len(t) : x = t[k]
    <3>1. PICK i \in 1 .. n : x = s[i] /\ i # 1
      BY <1>2, <1>3, <1>4
    <3> QED
      BY <1>5, <2>1, <3>1
  <2>3. \A i \in 1 .. Len(t) : t[i] \in live'
    BY <1>2, <1>3, <1>4, <1>5, <1>6, <1>8
  <2> QED
    BY <2>2, <2>3
<1>13. Linked(t)'
  <2>1. first' = IF t = <<>> THEN Null ELSE t[1]
    <3>1. next[s[1]] = IF 1 < n THEN s[1 + 1] ELSE Null
      BY <1>6 DEF Linked, n
    <3>2. t = <<>> <=> Len(t) = 0
      BY <1>5, SeqFacts
    <3>3. 1 < n => 1 \in 1 .. n - 1 /\ Len(t) # 0
      BY <1>1, <1>5, SMT
    <3>4. ~(1 < n) => Len(t) = 0
      BY <1>1, <1>5, <1>6, SMT
    <3> QED
      BY <1>2, <1>4, <1>5, <3>1, <3>2, <3>3, <3>4
  <2> QED
    BY <1>5, <1>10, <1>11, <1>12, <2>1 DEF Linked
<1> DEFINE r == Read(s)
           new == Read(t)'
<1>14. r \in Seq(Held) /\ Len(r) = n /\ \A i \in 1 .. n : r[i] = value[s[i]]
  BY <1>1, ReadIs DEF Read, n, NodeTypes
<1>15. new \in Seq(Held) /\ Len(new) = n - 1 /\ \A i \in 1 .. n - 1 : new[i] = value'[t[i]]
  BY <1>5, <1>9, ReadIs DEF Read, NodeTypes
<1> HIDE DEF r, new
<1>16. new = Tail(r)
  <2>1. r # <<>>
    BY <1>1, <1>4, <1>14, EmptySeq
  <2>2. Tail(r) \in Seq(Held) /\ Len(Tail(r)) = n - 1 /\ \A i \in 1 .. n - 1 : Tail(r)[i] = r[i + 1]
    BY <1>14, <2>1, HeadTailProperties
  <2>3. \A i \in 1 .. n - 1 : new[i] = Tail(r)[i]
    BY <1>2, <1>5, <1>6, <1>14, <1>15, <2>2
  <2> QED
    BY <1>15, <2>2, <2>3, SeqEqual
<1>17. popped' = <<r[1]>>
  BY <1>2, <1>4, <1>6, <1>14
<1> QED
  BY <1>4, <1>9, <1>13, <1>16, <1>17 DEF t, r, new

\* The last node is taken out, which the way back leads from to the one before.
LEMMA PopBackLinks ==
  ASSUME NodeTypes, NEW s, Linked(s), subject' = subject, subject = "stack", stage = "open",
         Stack!pop_back
  PROVE  /\ NodeTypes' /\ Linked(SubSeq(s, 1, Len(s) - 1))' /\ s # <<>>
         /\ Read(SubSeq(s, 1, Len(s) - 1))' = SubSeq(Read(s), 1, Len(s) - 1)
         /\ popped' = <<Read(s)[Len(s)]>>
<1> DEFINE n == Len(s)
           t == SubSeq(s, 1, n - 1)
<1>1. /\ s \in Seq(Nodes) /\ n \in Nat
      /\ \A i \in 1 .. n : s[i] \in Nodes /\ s[i] # Null
      /\ (s = <<>> <=> n = 0)
  BY SeqFacts DEF Linked
<1>2. n >= 2 /\ Queue!Last = s[n]
  <2>1. Queue!Length >= 2
    BY SameWalks DEF Stack!pop_back
  <2> QED
    BY <1>1, <2>1, WalkEnds, SMT
<1>3. /\ next' = [m \in Nodes |-> IF m = prev[s[n]] THEN Null ELSE next[m]]
      /\ live' = live \ {s[n]} /\ popped' = <<value[s[n]]>>
      /\ first' = first /\ prev' = prev /\ value' = value /\ stage' = stage
  BY <1>2, SameWalks DEF Stack!pop_back, Stack!Null, Queue!Null, Null
<1>4. live = {s[i] : i \in 1 .. n}
  BY DEF Linked
<1>5. n \in 1 .. n /\ n \in 2 .. n /\ n - 1 \in 1 .. n /\ 1 \in 1 .. n - 1 /\ n - 1 \in Nat
      /\ \A i \in 1 .. n - 1 : i \in 1 .. n /\ i # n
  BY <1>1, <1>2, SMT
<1>6. prev[s[n]] = s[n - 1]
  BY <1>5 DEF Linked
<1>7. /\ t \in Seq(Nodes) /\ Len(t) = n - 1
      /\ \A i \in 1 .. n - 1 : t[i] = s[i]
  <2> DEFINE m == n - 1
  <2>1. \A i \in 1 .. m : s[i] \in Nodes
    BY <1>1, <1>5
  <2>2. m \in Int /\ 1 \in Int
    BY <1>1, SMT
  <2> HIDE DEF m
  <2>3. /\ SubSeq(s, 1, m) \in Seq(Nodes)
        /\ Len(SubSeq(s, 1, m)) = IF 1 <= m THEN m - 1 + 1 ELSE 0
        /\ \A i \in 1 .. m - 1 + 1 : SubSeq(s, 1, m)[i] = s[1 + i - 1]
    BY <2>1, <2>2, SubSeqProperties
  <2>4. \A i \in 1 .. m : SubSeq(s, 1, m)[i] = s[i]
    BY <2>2, <2>3, SMT
  <2>5. Len(SubSeq(s, 1, m)) = m
    BY <1>2, <2>2, <2>3, SMT DEF m
  <2> QED
    BY <2>3, <2>4, <2>5 DEF m
<1> HIDE DEF t, n
<1>8. \A i \in 1 .. n - 1 : t[i] \in Nodes /\ t[i] # s[n]
  BY <1>1, <1>5, <1>7 DEF Linked, Distinct, n
<1>9. NodeTypes'
  <2>1. next' \in [Nodes -> Nodes \cup {Null}]
    BY <1>3 DEF NodeTypes
  <2> QED
    BY <1>3, <2>1 DEF NodeTypes
<1>10. Distinct(t)
  BY <1>5, <1>7 DEF Linked, Distinct, n
<1>11. \A i \in 1 .. Len(t) : next'[t[i]] = IF i < Len(t) THEN t[i + 1] ELSE Null
  <2> SUFFICES ASSUME NEW i \in 1 .. Len(t)
               PROVE  next'[t[i]] = IF i < Len(t) THEN t[i + 1] ELSE Null
    OBVIOUS
  <2>1. next'[t[i]] = IF s[i] = s[n - 1] THEN Null ELSE next[s[i]]
    BY <1>3, <1>6, <1>7, <1>8
  <2>2. next[s[i]] = IF i < n THEN s[i + 1] ELSE Null
    BY <1>5, <1>7 DEF Linked, n
  <2>3. s[i] = s[n - 1] <=> i = n - 1
    BY <1>5, <1>7 DEF Linked, Distinct, n
  <2>4. i < Len(t) <=> i # n - 1
    BY <1>1, <1>7, SMT
  <2>5. i < Len(t) => i < n /\ t[i + 1] = s[i + 1]
    BY <1>1, <1>7, SMT
  <2> QED
    BY <2>1, <2>2, <2>3, <2>4, <2>5
<1>12. live' = {t[i] : i \in 1 .. Len(t)}
  <2>1. \A i \in 1 .. n : i # n => i \in 1 .. n - 1
    BY <1>1, SMT
  <2>2. ASSUME NEW x \in live'
        PROVE  \E k \in 1 .. Len(t) : x = t[k]
    <3>1. PICK i \in 1 .. n : x = s[i] /\ i # n
      BY <1>3, <1>4
    <3> QED
      BY <1>7, <2>1, <3>1
  <2>3. \A i \in 1 .. Len(t) : t[i] \in live'
    BY <1>3, <1>4, <1>5, <1>7, <1>8
  <2> QED
    BY <2>2, <2>3
<1>13. \A i \in 2 .. Len(t) : prev'[t[i]] = t[i - 1]
  <2> SUFFICES ASSUME NEW i \in 2 .. Len(t)
               PROVE  prev'[t[i]] = t[i - 1]
    OBVIOUS
  <2>1. i \in 1 .. n - 1 /\ i - 1 \in 1 .. n - 1 /\ i \in 2 .. n
    BY <1>1, <1>7, SMT
  <2>2. prev[s[i]] = s[i - 1]
    BY <2>1 DEF Linked, n
  <2> QED
    BY <1>3, <1>7, <2>1, <2>2
<1>14. Linked(t)'
  <2>1. s # <<>> /\ t # <<>>
    BY <1>1, <1>2, <1>5, <1>7, SeqFacts, SMT
  <2>2. first' = t[1]
    BY <1>3, <1>5, <1>7, <2>1 DEF Linked
  <2> QED
    BY <1>7, <1>10, <1>11, <1>12, <1>13, <2>1, <2>2 DEF Linked
<1> DEFINE r == Read(s)
           new == Read(t)'
<1>15. r \in Seq(Held) /\ Len(r) = n /\ \A i \in 1 .. n : r[i] = value[s[i]]
  BY <1>1, ReadIs DEF Read, n, NodeTypes
<1>16. new \in Seq(Held) /\ Len(new) = n - 1 /\ \A i \in 1 .. n - 1 : new[i] = value'[t[i]]
  BY <1>7, <1>9, ReadIs DEF Read, NodeTypes
<1> HIDE DEF r, new
<1>17. new = SubSeq(r, 1, n - 1)
  <2> DEFINE m == n - 1
             q == SubSeq(r, 1, m)
  <2>1. \A i \in 1 .. m : r[i] \in Held
    BY <1>5, <1>15, ElementOfSeq
  <2>2. m \in Int /\ 1 \in Int /\ 1 <= m
    BY <1>1, <1>2, SMT
  <2>3. \A i \in 1 .. m : new[i] = r[i]
    BY <1>3, <1>5, <1>7, <1>15, <1>16
  <2>4. new \in Seq(Held) /\ Len(new) = m
    BY <1>16
  <2> HIDE DEF m
  <2>5. /\ q \in Seq(Held) /\ Len(q) = (IF 1 <= m THEN m - 1 + 1 ELSE 0)
        /\ \A i \in 1 .. m - 1 + 1 : q[i] = r[1 + i - 1]
    BY <2>1, <2>2, SubSeqProperties
  <2> HIDE DEF q
  <2>6. Len(q) = m /\ \A i \in 1 .. m : q[i] = r[i]
    BY <2>2, <2>5, SMT
  <2>7. new = q
    BY <2>3, <2>4, <2>5, <2>6, SeqEqual
  <2> QED
    BY <2>7 DEF q, m
<1>18. popped' = <<r[n]>> /\ s # <<>>
  BY <1>1, <1>2, <1>3, <1>5, <1>15, SMT
<1> QED
  BY <1>9, <1>14, <1>17, <1>18 DEF t, r, new, n

\* What a client sees before and after a step.
SeenRight == NodeTypes => \A s \in Seq(Nodes) : Linked(s) => Seen = Read(s)

LEMMA SeenIsRight == SeenRight
BY SeenIsRead DEF SeenRight

LEMMA SeenIsRightBehind == SeenRight'
BY SeenIsRight, PTL

\* Nothing that the list consists of is changed.
LEMMA ListUnchanged ==
  ASSUME ListInv, UNCHANGED <<first, prev, next, value, live, stage>>, subject' = subject
  PROVE  ListInv' /\ Seen' = Seen
<1>1. PICK s \in Seq(Nodes) : Linked(s)
  BY DEF ListInv
<1>2. NodeTypes' /\ Linked(s)' /\ Read(s)' = Read(s)
  BY <1>1 DEF ListInv, NodeTypes, Linked, Read, ReadOf, Distinct
<1>3. Seen' = Seen
  BY <1>1, <1>2, SeenIsRight, SeenIsRightBehind DEF SeenRight, ListInv
<1> QED
  BY <1>2, <1>3 DEF ListInv

\* A list that is not in order any more: its nodes are lost to its client.
LEMMA NullNodeKeeps ==
  ASSUME ListInv, UNCHANGED <<first, prev, next, value, live>>, subject' = subject,
         stage = "open", stage' # "open"
  PROVE  ListInv' /\ Seen' = Seen
<1>1. PICK s \in Seq(Nodes) : Linked(s)
  BY DEF ListInv
<1>2. NodeTypes' /\ Linked(s)' /\ Read(s)' = Read(s)
  BY <1>1 DEF ListInv, NodeTypes, Linked, Read, ReadOf, Distinct
<1>3. Seen' = Seen
  BY <1>1, <1>2, SeenIsRight, SeenIsRightBehind DEF SeenRight, ListInv
<1> QED
  BY <1>2, <1>3 DEF ListInv

LEMMA DestroyKeepsList ==
  ASSUME ListInv, subject' = subject, stage = "open", Queue!Destroy
  PROVE  ListInv' /\ Queue!Contents!Clear
<1>1. /\ first' = Null /\ stage' = "destroyed" /\ popped' = <<>>
      /\ UNCHANGED <<prev, next, value>>
  BY DEF Queue!Destroy, Null
<1>2. <<>> \in Seq(Nodes) /\ Len(<<>>) = 0
  BY EmptySeq
<1>3. NodeTypes'
  BY <1>1 DEF ListInv, NodeTypes
<1>4. \A i : i \notin 1 .. 0 /\ i \notin 2 .. 0
  BY SMT
<1>5. Linked(<<>>)'
  BY <1>1, <1>2, <1>4 DEF Linked, Distinct
<1>6. Read(<<>>)' = <<>>
  <2> DEFINE r == Read(<<>>)'
  <2>1. value' \in [Nodes -> Held]
    BY <1>3 DEF NodeTypes
  <2>2. r \in Seq(Held) /\ Len(r) = 0
    BY <1>2, <2>1, ReadIs DEF Read
  <2> HIDE DEF r
  <2>3. r = <<>>
    BY <2>2, EmptySeq
  <2> QED
    BY <2>3 DEF r
<1>7. Seen' = <<>>
  BY <1>2, <1>3, <1>5, <1>6, SeenIsRightBehind DEF SeenRight
<1>8. Queue!Contents!Clear
  BY <1>1, <1>7 DEF Queue!Contents!Clear, Queue!Contents!NoAnswer, Seen
<1> QED
  BY <1>2, <1>3, <1>5, <1>8 DEF ListInv

LEMMA AtIsAt ==
  ASSUME ListInv, subject' = subject, NEW idx \in 0 .. Queue!Length - 1, Queue!at(idx)
  PROVE  ListInv' /\ Queue!Contents!Next
<1>1. PICK s \in Seq(Nodes) : Linked(s)
  BY DEF ListInv
<1>2. popped' = <<value[Queue!Follow(first, idx)]>> /\ UNCHANGED <<first, prev, next, value, live, stage>>
  BY DEF Queue!at
<1>3. Queue!Length = Len(s) /\ Len(s) \in Nat
  BY <1>1, WalkEnds, SeqFacts
<1> DEFINE n == Len(s)
           r == Read(s)
<1>4. r \in Seq(Held) /\ Len(r) = n /\ \A i \in 1 .. n : r[i] = value[s[i]]
  BY <1>1, ReadIs DEF Read, ListInv, NodeTypes
<1>5. Seen = r
  BY <1>1, SeenIsRight DEF SeenRight, ListInv
<1>6. idx \in Nat /\ idx < n /\ idx + 1 \in 1 .. n /\ idx \in 0 .. n - 1
  BY <1>3, SMT
<1>7. Queue!Follow(first, idx) = s[idx + 1]
  BY <1>1, <1>6, WalkFinds DEF Nth
<1> HIDE DEF r, n
<1>8. popped' = <<r[idx + 1]>>
  BY <1>2, <1>4, <1>6, <1>7
<1>9. ListInv' /\ Seen' = Seen
  BY <1>2, ListUnchanged
<1>10. Queue!Contents!At(idx)
  BY <1>5, <1>8, <1>9 DEF Queue!Contents!At, Seen
<1>11. idx \in 0 .. Len(Seen) - 1
  BY <1>4, <1>5, <1>6
<1> QED
  BY <1>9, <1>10, <1>11 DEF Queue!Contents!Next, Seen

LEMMA PushFrontIs ==
  ASSUME ListInv, subject' = subject, subject = "queue", stage = "open",
         NEW node \in Nodes, NEW v \in ListValues, Queue!push_front(node, v)
  PROVE  ListInv' /\ Queue!Contents!PushFront(v)
<1>1. PICK s \in Seq(Nodes) : Linked(s)
  BY DEF ListInv
<1> DEFINE t == <<node>> \o s
<1>2. NodeTypes' /\ Linked(t)' /\ Read(t)' = <<v>> \o Read(s)
  BY <1>1, PushFrontLinks DEF ListInv
<1>3. t \in Seq(Nodes)
  BY <1>2 DEF Linked
<1> HIDE DEF t
<1>4. Seen = Read(s) /\ Seen' = Read(t)'
  BY <1>1, <1>2, <1>3, SeenIsRight, SeenIsRightBehind DEF SeenRight, ListInv
<1>5. popped' = <<>>
  BY DEF Queue!push_front
<1> QED
  BY <1>2, <1>3, <1>4, <1>5
     DEF ListInv, Queue!Contents!PushFront, Queue!Contents!NoAnswer, Seen

LEMMA PushBackIs ==
  ASSUME ListInv, subject' = subject, stage = "open",
         NEW node \in Nodes, NEW v \in ListValues, Queue!push_back(node, v)
  PROVE  ListInv' /\ Queue!Contents!PushBack(v)
<1>1. PICK s \in Seq(Nodes) : Linked(s)
  BY DEF ListInv
<1> DEFINE t == Append(s, node)
<1>2. NodeTypes' /\ Linked(t)' /\ Read(t)' = Append(Read(s), v)
  BY <1>1, PushBackLinks DEF ListInv
<1>3. t \in Seq(Nodes)
  BY <1>2 DEF Linked
<1> HIDE DEF t
<1>4. Seen = Read(s) /\ Seen' = Read(t)'
  BY <1>1, <1>2, <1>3, SeenIsRight, SeenIsRightBehind DEF SeenRight, ListInv
<1>5. popped' = <<>>
  BY DEF Queue!push_back
<1> QED
  BY <1>2, <1>3, <1>4, <1>5
     DEF ListInv, Queue!Contents!PushBack, Queue!Contents!NoAnswer, Seen

\* What is seen of a list with nodes is not empty.
LEMMA SeenOfNodes ==
  ASSUME NodeTypes, NEW s \in Seq(Nodes), s # <<>>
  PROVE  Read(s) # <<>> /\ Len(Read(s)) = Len(s) /\ Read(s) \in Seq(Held)
<1>1. Read(s) \in Seq(Held) /\ Len(Read(s)) = Len(s)
  BY ReadIs DEF Read, NodeTypes
<1>2. Len(s) # 0 /\ Len(<<>>) = 0
  BY SeqFacts, EmptySeq
<1> QED
  BY <1>1, <1>2

LEMMA PopFrontIs ==
  ASSUME ListInv, subject' = subject, subject = "queue", stage = "open", Queue!pop_front
  PROVE  ListInv' /\ Queue!Contents!PopFront
<1>1. PICK s \in Seq(Nodes) : Linked(s)
  BY DEF ListInv
<1> DEFINE t == Tail(s)
           r == Read(s)
<1>2. /\ NodeTypes' /\ Linked(t)' /\ s # <<>>
      /\ Read(t)' = Tail(r) /\ popped' = <<r[1]>>
  BY <1>1, PopFrontLinks DEF ListInv
<1>3. t \in Seq(Nodes) /\ r # <<>> /\ r \in Seq(Held)
  BY <1>2, SeenOfNodes DEF Linked, ListInv
<1>4. Seen = r /\ Seen' = Read(t)'
  <2> HIDE DEF t
  <2> QED
    BY <1>1, <1>2, <1>3, SeenIsRight, SeenIsRightBehind DEF SeenRight, ListInv
<1> HIDE DEF t, r
<1>5. Head(r) = r[1]
  BY <1>3
<1>6. Seen # <<>> /\ Seen' = Tail(Seen) /\ popped' = <<Head(Seen)>>
  BY <1>2, <1>3, <1>4, <1>5
<1> QED
  BY <1>2, <1>3, <1>6 DEF ListInv, Queue!Contents!PopFront, Seen

LEMMA PopBackIs ==
  ASSUME ListInv, subject' = subject, subject = "stack", stage = "open", Stack!pop_back
  PROVE  ListInv' /\ Queue!Contents!PopBack
<1>1. PICK s \in Seq(Nodes) : Linked(s)
  BY DEF ListInv
<1> DEFINE t == SubSeq(s, 1, Len(s) - 1)
           r == Read(s)
<1>2. /\ NodeTypes' /\ Linked(t)' /\ s # <<>>
      /\ Read(t)' = SubSeq(r, 1, Len(s) - 1) /\ popped' = <<r[Len(s)]>>
  BY <1>1, PopBackLinks DEF ListInv
<1>3. t \in Seq(Nodes) /\ r # <<>> /\ r \in Seq(Held) /\ Len(r) = Len(s)
  BY <1>2, SeenOfNodes DEF Linked, ListInv
<1>4. Seen = r /\ Seen' = Read(t)'
  <2> HIDE DEF t
  <2> QED
    BY <1>1, <1>2, <1>3, SeenIsRight, SeenIsRightBehind DEF SeenRight, ListInv
<1> HIDE DEF t, r
<1>5. Seen # <<>> /\ Seen' = SubSeq(Seen, 1, Len(Seen) - 1) /\ popped' = <<Seen[Len(Seen)]>>
  BY <1>2, <1>3, <1>4
<1> QED
  BY <1>2, <1>3, <1>5 DEF ListInv, Queue!Contents!PopBack, Seen

\* Both uses of a list push to its back, read and destroy it alike.
LEMMA SameOperations ==
  /\ \A node, v : Stack!push_back(node, v) => Queue!push_back(node, v)
  /\ \A idx : Stack!at(idx) => Queue!at(idx)
  /\ Stack!Destroy => Queue!Destroy
  /\ Stack!NullNode => Queue!NullNode
<1>1. ASSUME NEW node, NEW v, Stack!push_back(node, v)
      PROVE  Queue!push_back(node, v)
  BY <1>1, SameWalks
     DEF Stack!push_back, Queue!push_back, Stack!NewNode, Queue!NewNode, Stack!Null, Queue!Null
<1>2. ASSUME NEW idx, Stack!at(idx)
      PROVE  Queue!at(idx)
  BY <1>2, SameWalks DEF Stack!at, Queue!at
<1>3. ASSUME Stack!Destroy
      PROVE  Queue!Destroy
  BY <1>3, SameWalks DEF Stack!Destroy, Queue!Destroy, Stack!Null, Queue!Null
<1>4. Stack!NullNode => Queue!NullNode
  BY DEF Stack!NullNode, Queue!NullNode
<1> QED
  BY <1>1, <1>2, <1>3, <1>4

LEMMA ListNullNode ==
  ASSUME ListInv, subject' = subject, stage = "open", Queue!NullNode
  PROVE  ListInv' /\ UNCHANGED Queue!Contents!vars
<1>1. ListInv' /\ Seen' = Seen
  BY NullNodeKeeps DEF Queue!NullNode
<1> QED
  BY <1>1 DEF Queue!NullNode, Queue!Contents!vars, Seen

LEMMA QueueStep ==
  ASSUME ListInv, subject' = subject, subject = "queue", Queue!Next
  PROVE  ListInv' /\ [Queue!Contents!Next]_(Queue!Contents!vars)
<1>0. \A name : Queue!Call(name) => stage = "open" /\ name \in FrontCalls
  BY DEF Queue!Call
<1>1. CASE Queue!Call("push_front") /\ \E node \in Nodes, v \in ListValues : Queue!push_front(node, v)
  BY <1>0, <1>1, PushFrontIs DEF Queue!Contents!Next
<1>2. CASE Queue!Call("push_back") /\ \E node \in Nodes, v \in ListValues : Queue!push_back(node, v)
  BY <1>0, <1>2, PushBackIs DEF Queue!Contents!Next
<1>3. CASE Queue!Call("pop_front") /\ Queue!pop_front
  BY <1>0, <1>3, PopFrontIs DEF Queue!Contents!Next
<1>4. CASE Queue!Call("pop_back")
  BY <1>0, <1>4 DEF FrontCalls
<1>5. CASE \E idx \in 0 .. Queue!Length - 1 : Queue!at(idx)
  BY <1>5, AtIsAt
<1>6. CASE Queue!Call("~list") /\ Queue!Destroy
  BY <1>0, <1>6, DestroyKeepsList DEF Queue!Contents!Next
<1>7. CASE stage = "open" /\ Queue!NullNode
  BY <1>7, ListNullNode
<1> QED
  BY <1>0, <1>1, <1>2, <1>3, <1>4, <1>5, <1>6, <1>7 DEF Queue!Next

LEMMA StackStep ==
  ASSUME ListInv, subject' = subject, subject = "stack", Stack!Next
  PROVE  ListInv' /\ [Queue!Contents!Next]_(Queue!Contents!vars)
<1>0. \A name : Stack!Call(name) => stage = "open" /\ name \in BackCalls
  BY DEF Stack!Call
<1>1. CASE Stack!Call("push_front")
  BY <1>0, <1>1 DEF BackCalls
<1>2. CASE Stack!Call("push_back") /\ \E node \in Nodes, v \in ListValues : Stack!push_back(node, v)
  BY <1>0, <1>2, PushBackIs, SameOperations DEF Queue!Contents!Next
<1>3. CASE Stack!Call("pop_front")
  BY <1>0, <1>3 DEF BackCalls
<1>4. CASE Stack!Call("pop_back") /\ Stack!pop_back
  BY <1>0, <1>4, PopBackIs DEF Queue!Contents!Next
<1>5. CASE \E idx \in 0 .. Stack!Length - 1 : Stack!at(idx)
  BY <1>5, AtIsAt, SameOperations, SameWalks
<1>6. CASE Stack!Call("~list") /\ Stack!Destroy
  BY <1>0, <1>6, DestroyKeepsList, SameOperations DEF Queue!Contents!Next
<1>7. CASE stage = "open" /\ Stack!NullNode
  BY <1>7, ListNullNode, SameOperations
<1> QED
  BY <1>0, <1>1, <1>2, <1>3, <1>4, <1>5, <1>6, <1>7 DEF Stack!Next

LEMMA ListStep ==
  ListInv /\ [UtilNext]_utilVars => ListInv' /\ [Queue!Contents!Next]_(Queue!Contents!vars)
<1> SUFFICES ASSUME ListInv, [UtilNext]_utilVars
             PROVE  ListInv' /\ [Queue!Contents!Next]_(Queue!Contents!vars)
  OBVIOUS
<1>1. CASE UNCHANGED <<listVars, subject>>
  <2>1. ListInv' /\ Seen' = Seen /\ popped' = popped
    BY <1>1, ListUnchanged DEF listVars
  <2> QED
    BY <2>1 DEF Queue!Contents!vars, Seen
<1>2. CASE Uses("queue", <<vars, mapVars, stringVars>>) /\ Queue!Next
  BY <1>2, QueueStep DEF Uses
<1>3. CASE Uses("stack", <<vars, mapVars, stringVars>>) /\ Stack!Next
  BY <1>3, StackStep DEF Uses
<1> QED
  BY <1>1, <1>2, <1>3 DEF UtilNext, Uses, utilVars

LEMMA ListInit == UtilInit => ListInv /\ Queue!Contents!Init
<1> SUFFICES ASSUME UtilInit
             PROVE  ListInv /\ Queue!Contents!Init
  OBVIOUS
<1>1. /\ first = Null /\ prev \in [Nodes -> {Null}] /\ next \in [Nodes -> {Null}]
      /\ value \in [Nodes -> {CHOOSE v \in ListValues : TRUE}]
      /\ live = {} /\ popped = <<>> /\ stage = "open"
  BY DEF UtilInit, Queue!Init, Null
<1>2. NodeTypes
  BY <1>1 DEF NodeTypes, Held
<1>3. <<>> \in Seq(Nodes) /\ Len(<<>>) = 0
  BY EmptySeq
<1>4. \A i : i \notin 1 .. 0 /\ i \notin 2 .. 0
  BY SMT
<1>5. Linked(<<>>)
  BY <1>1, <1>3, <1>4 DEF Linked, Distinct
<1>6. Seen = <<>>
  <2> DEFINE r == Read(<<>>)
  <2>1. r \in Seq(Held) /\ Len(r) = 0 /\ Seen = r
    BY <1>2, <1>3, <1>5, ReadIs, SeenIsRight DEF Read, NodeTypes, SeenRight
  <2> HIDE DEF r
  <2> QED
    BY <2>1, EmptySeq
<1>7. Queue!Contents!Init
  BY <1>1, <1>6 DEF Queue!Contents!Init, Queue!Contents!NoAnswer, Seen
<1> QED
  BY <1>2, <1>3, <1>5, <1>7 DEF ListInv

\* While it can be used, a list reaches just the nodes it has allocated.
LEMMA LinkedHolds == ListInv => Queue!HoldsItsNodes
<1> SUFFICES ASSUME ListInv, stage = "open"
             PROVE  Queue!Ends /\ Queue!Listed = live
  BY DEF Queue!HoldsItsNodes
<1>1. PICK s \in Seq(Nodes) : Linked(s)
  BY DEF ListInv
<1>2. Queue!Ends /\ Queue!Listed = {s[i] : i \in 1 .. Len(s)}
  BY <1>1, WalkEnds
<1>3. live = {s[i] : i \in 1 .. Len(s)}
  BY <1>1 DEF Linked
<1> QED
  BY <1>2, <1>3

\* The linked nodes are the sequence of the values that were put in, and no
\* other nodes are allocated: of a list whose back is never popped, and of one
\* that is used at its back only and never popped empty.
THEOREM ListIsDeque == UtilSpec => IsDeque
<1>1. ListInv => (subject \in {"queue", "stack"} => Queue!HoldsItsNodes)
  BY LinkedHolds
<1> QED
  BY <1>1, ListStep, ListInit, PTL
     DEF UtilSpec, IsDeque, Queue!IsDeque, Queue!Contents!Spec
=============================================================================
