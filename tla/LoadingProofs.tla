--------------------------- MODULE LoadingProofs ---------------------------
EXTENDS MCLoading, FiniteSetTheorems, SequenceTheorems, NaturalsInduction,
  WellFoundedInduction, TLAPS

----------------------------------------------------------------------------
(* Pages *)

\* The page of a number of bytes behind a page's base is as many pages behind
\* it as the bytes fill.
LEMMA PageOf ==
  ASSUME NEW p \in Nat \ {0}, NEW v \in Nat, v % p = 0, NEW m \in Nat, NEW a \in v .. v + m - 1
  PROVE  /\ v \div p <= a \div p
         /\ a \div p < v \div p + (((m + p - 1) \div p) * p) \div p
<1>1. v = p * (v \div p) /\ v \div p \in Nat
  BY SMT
<1>2. a = p * (a \div p) + (a % p) /\ a % p \in 0 .. p - 1 /\ a \div p \in Nat
  BY SMT
<1>3. m + p - 1 = p * ((m + p - 1) \div p) + ((m + p - 1) % p)
      /\ (m + p - 1) % p \in 0 .. p - 1 /\ (m + p - 1) \div p \in Nat
  BY SMT
<1> QED
  BY <1>1, <1>2, <1>3, SMT

LEMMA PageInSpace ==
  ASSUME NEW p \in Nat \ {0}, NEW space \in Nat, space % p = 0, NEW a \in 0 .. space - 1
  PROVE  a \div p \in 0 .. space \div p - 1
<1>1. space = p * (space \div p) /\ space \div p \in Nat
  BY SMT
<1>2. a = p * (a \div p) + (a % p) /\ a % p \in 0 .. p - 1 /\ a \div p \in Nat
  BY SMT
<1> QED
  BY <1>1, <1>2, SMT

LEMMA SameCardinality ==
  ASSUME NEW S
  PROVE  Program!Cardinality(S) = Cardinality(S)
BY DEF Program!Cardinality, Cardinality

----------------------------------------------------------------------------
(* The program *)

Header == [type : STRING, offset : Nat, vaddr : Nat, filesz : Nat, memsz : Nat]

Headers == image.segments
IsLoaded(k) == Headers[k].type = "PT_LOAD"

\* Segment k reaches address a.
Reaches(k, a) == Headers[k].vaddr <= a /\ a < Headers[k].vaddr + Headers[k].filesz

\* The segments in front of n are in memory, the later over the earlier.
Copied(n) ==
  \A k \in DOMAIN Headers : \A a \in Program!Addresses \ {StackSize - 1} :
    /\ k < n /\ IsLoaded(k) /\ Reaches(k, a)
    /\ \A l \in DOMAIN Headers : k < l /\ l < n /\ IsLoaded(l) => ~Reaches(l, a)
    => memory[a] = Program!FileByte(image, Headers[k].offset + a - Headers[k].vaddr)

\* They have the memory that they ask for.
Backed(n) ==
  \A k \in DOMAIN Headers :
    k < n /\ IsLoaded(k) /\ Headers[k].vaddr % PageSize = 0 =>
      \A a \in Headers[k].vaddr .. Headers[k].vaddr + Headers[k].memsz - 1 :
        a \div PageSize \in mapped

StackBacked == Program!PagesFor(0, StackSize) \subseteq mapped

LoadTypes ==
  /\ image \in Images
  /\ segment \in Nat \ {0}
  /\ mapped \subseteq 0 .. Space \div PageSize - 1
  /\ memory = [a \in Program!Addresses |-> memory[a]]
  /\ progress \in {"headers", "segments", "copy", "stack", "running",
                   "page fault", "assertion failed"}

LoadInv ==
  /\ LoadTypes
  /\ progress = "headers" => segment = 1
  /\ progress \in {"segments", "copy", "stack", "running"} => Copied(segment) /\ Backed(segment)
  /\ progress = "copy" => /\ segment \in DOMAIN Headers /\ IsLoaded(segment)
                          /\ Backed(segment + 1)
  /\ progress \in {"stack", "running"} => segment > Len(Headers) /\ StackBacked

LEMMA LoadSizes ==
  /\ PageSize \in Nat \ {0} /\ Space \in Nat /\ Space % PageSize = 0
  /\ StackSize \in 1 .. Space
BY SizesAssumption DEF Program!SizesAssumption

LEMMA HeadersAre ==
  ASSUME image \in Images
  PROVE  /\ Headers \in Seq(Header) /\ DOMAIN Headers = 1 .. Len(Headers) /\ Len(Headers) \in Nat
         /\ \A k \in DOMAIN Headers :
              /\ Headers[k] \in Header
              /\ Headers[k].vaddr + Headers[k].memsz <= Space
<1>1. Headers \in Seq(Header)
  BY ImagesAssumption DEF Program!ImagesAssumption, Headers, Header
<1>2. DOMAIN Headers = 1 .. Len(Headers) /\ Len(Headers) \in Nat
  BY <1>1, LenProperties
<1>3. \A k \in DOMAIN Headers : Headers[k] \in Header
  BY <1>1, <1>2, ElementOfSeq
<1>4. \A k \in DOMAIN Headers : Headers[k].vaddr + Headers[k].memsz <= Space
  BY ImagesAssumption DEF Program!ImagesAssumption, Headers
<1> QED
  BY <1>1, <1>2, <1>3, <1>4

LEMMA HeaderNumbers ==
  ASSUME LoadTypes
  PROVE  /\ DOMAIN Headers = 1 .. Len(Headers) /\ Len(Headers) \in Nat
         /\ \A k \in DOMAIN Headers : k \in Nat \ {0}
<1>1. DOMAIN Headers = 1 .. Len(Headers) /\ Len(Headers) \in Nat
  BY HeadersAre DEF LoadTypes
<1>2. \A k \in 1 .. Len(Headers) : k \in Nat \ {0}
  BY <1>1, SMT
<1> QED
  BY <1>1, <1>2

\* The pages of a segment that begins at a page's base hold what it asks for.
LEMMA AllocatedBacks ==
  ASSUME LoadTypes, NEW k \in DOMAIN Headers, Headers[k].vaddr % PageSize = 0,
         NEW a \in Headers[k].vaddr .. Headers[k].vaddr + Headers[k].memsz - 1
  PROVE  a \div PageSize \in Program!PagesFor(Headers[k].vaddr, Headers[k].memsz)
<1> DEFINE v == Headers[k].vaddr
           m == Headers[k].memsz
<1>1. v \in Nat /\ m \in Nat /\ v + m <= Space
  BY HeadersAre DEF LoadTypes, Header
<1>2. PageSize \in Nat \ {0} /\ Space \in Nat /\ Space % PageSize = 0
  BY LoadSizes
<1> HIDE DEF v, m
<1>3. v % PageSize = 0 /\ a \in v .. v + m - 1
  BY DEF v, m
<1>4. a \in 0 .. Space - 1
  BY <1>1, <1>2, <1>3, SMT
<1>5. a \div PageSize \in 0 .. Space \div PageSize - 1
  BY <1>2, <1>4, PageInSpace
<1>6. /\ v \div PageSize <= a \div PageSize
      /\ a \div PageSize < v \div PageSize + (((m + PageSize - 1) \div PageSize) * PageSize) \div PageSize
  BY <1>1, <1>2, <1>3, PageOf
<1>7. a \div PageSize \in Program!PagesFor(v, m)
  BY <1>5, <1>6 DEF Program!PagesFor, Program!RoundUp
<1> QED
  BY <1>7 DEF v, m

LEMMA CopiedStays ==
  ASSUME image' = image, memory' = memory, Copied(segment')
  PROVE  Copied(segment)'
BY DEF Copied, Headers, IsLoaded, Reaches

LEMMA BackedStays ==
  ASSUME image' = image, mapped \subseteq mapped', Backed(segment')
  PROVE  Backed(segment)'
BY DEF Backed, Headers, IsLoaded

LEMMA CheckHeadersKeeps == LoadInv /\ Program!CheckHeaders => LoadInv'
<1> SUFFICES ASSUME LoadInv, Program!CheckHeaders
             PROVE  LoadInv'
  OBVIOUS
<1>1. /\ progress = "headers" /\ progress' \in {"segments", "assertion failed"}
      /\ UNCHANGED <<mapped, memory, image, segment, runs>>
  BY DEF Program!CheckHeaders
<1>2. segment' = 1 /\ LoadTypes
  BY <1>1 DEF LoadInv
<1>3. \A k \in DOMAIN Headers : ~(k < 1)
  <2>1. \A k \in Nat \ {0} : ~(k < 1)
    BY SMT
  <2> QED
    BY <1>2, <2>1, HeaderNumbers
<1>4. Copied(segment') /\ Backed(segment')
  BY <1>2, <1>3 DEF Copied, Backed
<1>5. Copied(segment)' /\ Backed(segment)'
  BY <1>1, <1>4, CopiedStays, BackedStays
<1>6. LoadTypes'
  BY <1>1 DEF LoadInv, LoadTypes
<1> QED
  BY <1>1, <1>2, <1>5, <1>6 DEF LoadInv

\* The segments before the next one are those before this one and this one.
LEMMA BeforeNext ==
  ASSUME LoadTypes
  PROVE  \A k \in DOMAIN Headers : k < segment + 1 <=> k < segment \/ k = segment
<1>1. segment \in Nat
  BY DEF LoadTypes
<1>2. \A k \in Nat : k < segment + 1 <=> k < segment \/ k = segment
  BY <1>1, SMT
<1> QED
  BY <1>2, HeaderNumbers

LEMMA SkipSegmentKeeps == LoadInv /\ Program!SkipSegment => LoadInv'
<1> SUFFICES ASSUME LoadInv, Program!SkipSegment
             PROVE  LoadInv'
  OBVIOUS
<1>1. /\ progress = "segments" /\ progress' = progress /\ ~IsLoaded(segment)
      /\ segment' = segment + 1
      /\ UNCHANGED <<mapped, memory, image, runs>>
  BY DEF Program!SkipSegment, Program!Segment, IsLoaded, Headers
<1>2. segment \in Nat \ {0} /\ Copied(segment) /\ Backed(segment) /\ LoadTypes
  BY <1>1 DEF LoadInv, LoadTypes
<1>3. Copied(segment + 1) /\ Backed(segment + 1)
  BY <1>1, <1>2, BeforeNext DEF Copied, Backed
<1>4. Copied(segment') /\ Backed(segment')
  BY <1>1, <1>3
<1>5. Copied(segment)' /\ Backed(segment)'
  BY <1>1, <1>4, CopiedStays, BackedStays
<1>6. LoadTypes'
  BY <1>1, <1>2 DEF LoadTypes
<1> QED
  BY <1>1, <1>5, <1>6 DEF LoadInv

LEMMA AllocateSegmentKeeps == LoadInv /\ Program!AllocateSegment => LoadInv'
<1> SUFFICES ASSUME LoadInv, Program!AllocateSegment
             PROVE  LoadInv'
  OBVIOUS
<1> DEFINE pages == Program!PagesFor(Headers[segment].vaddr, Headers[segment].memsz)
<1>1. /\ progress = "segments" /\ progress' = "copy" /\ segment <= Len(Headers)
      /\ IsLoaded(segment) /\ mapped' = mapped \cup pages /\ memory' = memory
      /\ UNCHANGED <<image, segment, runs>>
  BY DEF Program!AllocateSegment, Program!Segment, Program!Allocate, Headers, IsLoaded
<1>2. LoadTypes /\ Copied(segment) /\ Backed(segment)
  BY <1>1 DEF LoadInv
<1>3. Headers' = Headers /\ segment' = segment
  BY <1>1 DEF Headers
<1> HIDE DEF pages
<1>4. LoadTypes'
  <2>1. pages \subseteq 0 .. Space \div PageSize - 1
    BY DEF pages, Program!PagesFor
  <2> QED
    BY <1>1, <1>2, <2>1 DEF LoadTypes
<1>5. segment \in DOMAIN Headers
  <2> DEFINE n == Len(Headers)
  <2>1. n \in Nat /\ DOMAIN Headers = 1 .. n /\ segment \in Nat \ {0} /\ segment <= n
    BY <1>1, <1>2, HeaderNumbers DEF LoadTypes
  <2> HIDE DEF n
  <2> QED
    BY <2>1, SMT
<1>6. Copied(segment)' /\ Backed(segment)'
  BY <1>1, <1>2, CopiedStays, BackedStays
<1>7. \A k \in DOMAIN Headers : k < segment + 1 /\ IsLoaded(k) /\ Headers[k].vaddr % PageSize = 0 =>
        \A a \in Headers[k].vaddr .. Headers[k].vaddr + Headers[k].memsz - 1 :
          a \div PageSize \in mapped'
  <2> SUFFICES ASSUME NEW k \in DOMAIN Headers, k < segment + 1, IsLoaded(k),
                      Headers[k].vaddr % PageSize = 0,
                      NEW a \in Headers[k].vaddr .. Headers[k].vaddr + Headers[k].memsz - 1
               PROVE  a \div PageSize \in mapped'
    OBVIOUS
  <2>1. CASE k < segment
    BY <1>1, <1>2, <2>1 DEF Backed
  <2>2. CASE k = segment
    BY <1>1, <1>2, <2>2, AllocatedBacks DEF pages
  <2> QED
    BY <1>2, <2>1, <2>2, BeforeNext
<1>8. Backed(segment + 1)'
  BY <1>3, <1>7 DEF Backed, IsLoaded
<1>9. IsLoaded(segment)' /\ (segment \in DOMAIN Headers)'
  BY <1>1, <1>3, <1>5 DEF IsLoaded
<1> QED
  BY <1>1, <1>4, <1>6, <1>8, <1>9 DEF LoadInv

\* A copy that comes to its end has stored every byte.
LEMMA AllStored ==
  ASSUME NEW v \in Nat, NEW f \in Nat, NEW S, S \subseteq v .. v + f - 1, Cardinality(S) = f
  PROVE  S = v .. v + f - 1
<1>1. IsFiniteSet(v .. v + f - 1) /\ Cardinality(v .. v + f - 1) = f
  <2> DEFINE w == v + f - 1
  <2>1. w \in Int
    BY SMT
  <2>2. IsFiniteSet(v .. w) /\ Cardinality(v .. w) = IF v > w THEN 0 ELSE w - v + 1
    BY <2>1, FS_Interval
  <2>3. (IF v > w THEN 0 ELSE w - v + 1) = f
    BY SMT
  <2> QED
    BY <2>2, <2>3
<1> QED
  BY <1>1, FS_Subset

LEMMA CopySegmentKeeps == LoadInv /\ Program!CopySegment => LoadInv'
<1> SUFFICES ASSUME LoadInv, Program!CopySegment
             PROVE  LoadInv'
  OBVIOUS
<1> DEFINE S == Program!Stored
           v == Headers[segment].vaddr
           f == Headers[segment].filesz
           o == Headers[segment].offset
<1>1. /\ progress = "copy"
      /\ memory' = [a \in Program!Addresses |->
           IF a \in S THEN Program!FileByte(image, o + a - v) ELSE memory[a]]
      /\ \/ Cardinality(S) = f /\ progress' = "segments" /\ segment' = segment + 1
         \/ progress' = "page fault" /\ segment' = segment
      /\ UNCHANGED <<mapped, image, runs>>
  BY SameCardinality DEF Program!CopySegment, Program!Segment, Headers
<1>2. LoadTypes /\ Copied(segment) /\ Backed(segment + 1) /\ segment \in DOMAIN Headers
      /\ IsLoaded(segment)
  BY <1>1 DEF LoadInv
<1>3. v \in Nat /\ f \in Nat /\ o \in Nat
  BY <1>2, HeadersAre DEF LoadTypes, Header
<1>4. S \subseteq v .. v + f - 1
  BY DEF Program!Stored, Program!Segment, Headers
<1> HIDE DEF S, v, f, o
<1>5. LoadTypes'
  <2>1. segment \in Nat \ {0}
    BY <1>2 DEF LoadTypes
  <2>2. segment + 1 \in Nat \ {0}
    BY <2>1, SMT
  <2>3. segment' \in Nat \ {0}
    BY <1>1, <2>1, <2>2
  <2>4. memory' = [a \in Program!Addresses |-> memory'[a]]
    BY <1>1
  <2>5. progress' \in {"headers", "segments", "copy", "stack", "running",
                       "page fault", "assertion failed"}
    BY <1>1
  <2>6. image' \in Images /\ mapped' \subseteq 0 .. Space \div PageSize - 1
    BY <1>1, <1>2 DEF LoadTypes
  <2> QED
    BY <2>3, <2>4, <2>5, <2>6 DEF LoadTypes
<1>6. CASE progress' = "page fault"
  BY <1>5, <1>6 DEF LoadInv
<1>7. CASE Cardinality(S) = f /\ progress' = "segments" /\ segment' = segment + 1
  <2>1. S = v .. v + f - 1
    BY <1>3, <1>4, <1>7, AllStored
  <2>2. \A a \in Program!Addresses : a \in S <=> Reaches(segment, a)
    <3>1. \A a \in Program!Addresses : a \in Nat
      BY SMT DEF Program!Addresses
    <3>2. \A a \in Nat : a \in S <=> v <= a /\ a < v + f
      BY <1>3, <2>1, SMT
    <3> QED
      BY <3>1, <3>2 DEF Reaches, v, f
  <2>3. ASSUME NEW k \in DOMAIN Headers, NEW a \in Program!Addresses \ {StackSize - 1},
               k < segment + 1, IsLoaded(k), Reaches(k, a),
               \A l \in DOMAIN Headers : k < l /\ l < segment + 1 /\ IsLoaded(l) => ~Reaches(l, a)
        PROVE  memory'[a] = Program!FileByte(image, Headers[k].offset + a - Headers[k].vaddr)
    <3>1. CASE k = segment
      <4>1. a \in S
        BY <2>2, <2>3, <3>1
      <4> QED
        BY <1>1, <3>1, <4>1 DEF o, v
    <3>2. CASE k # segment
      <4>1. k < segment
        BY <1>2, <2>3, <3>2, BeforeNext
      <4>2. segment < segment + 1
        <5>1. segment \in Nat
          BY <1>2 DEF LoadTypes
        <5> QED
          BY <5>1, SMT
      <4>3. a \notin S
        BY <1>2, <2>2, <2>3, <4>1, <4>2
      <4>4. \A l \in DOMAIN Headers : k < l /\ l < segment /\ IsLoaded(l) => ~Reaches(l, a)
        BY <1>2, <2>3, BeforeNext
      <4>5. memory[a] = Program!FileByte(image, Headers[k].offset + a - Headers[k].vaddr)
        BY <1>2, <2>3, <4>1, <4>4 DEF Copied
      <4> QED
        BY <1>1, <4>3, <4>5
    <3> QED
      BY <3>1, <3>2
  <2>4. Copied(segment)'
    <3>1. segment' = segment + 1 /\ image' = image
      BY <1>1, <1>7
    <3>2. Headers' = Headers
      BY <3>1 DEF Headers
    <3> QED
      BY <2>3, <3>1, <3>2 DEF Copied, IsLoaded, Reaches
  <2>5. Backed(segment)'
    BY <1>1, <1>2, <1>7, BackedStays
  <2> QED
    BY <1>5, <1>7, <2>4, <2>5 DEF LoadInv
<1> QED
  BY <1>1, <1>6, <1>7

LEMMA AllocateStackKeeps == LoadInv /\ Program!AllocateStack => LoadInv'
<1> SUFFICES ASSUME LoadInv, Program!AllocateStack
             PROVE  LoadInv'
  OBVIOUS
<1> DEFINE pages == Program!PagesFor(0, StackSize)
<1>1. /\ progress = "segments" /\ progress' = "stack" /\ segment > Len(Headers)
      /\ mapped' = mapped \cup pages /\ memory' = memory
      /\ UNCHANGED <<image, segment, runs>>
  BY DEF Program!AllocateStack, Program!Allocate, Headers
<1>2. LoadTypes /\ Copied(segment) /\ Backed(segment)
  BY <1>1 DEF LoadInv
<1>3. pages \subseteq 0 .. Space \div PageSize - 1
  BY DEF Program!PagesFor
<1>4. StackBacked'
  BY <1>1 DEF StackBacked, Program!PagesFor
<1> HIDE DEF pages
<1>5. LoadTypes'
  BY <1>1, <1>2, <1>3 DEF LoadTypes
<1>6. Copied(segment)' /\ Backed(segment)'
  BY <1>1, <1>2, CopiedStays, BackedStays
<1>7. (segment > Len(Headers))'
  BY <1>1 DEF Headers
<1> QED
  BY <1>1, <1>4, <1>5, <1>6, <1>7 DEF LoadInv

LEMMA CallEntryKeeps == LoadInv /\ Program!CallEntry => LoadInv'
<1> SUFFICES ASSUME LoadInv, Program!CallEntry
             PROVE  LoadInv'
  OBVIOUS
<1>1. /\ progress = "stack" /\ progress' \in {"running", "page fault"}
      /\ memory' = [memory EXCEPT ![StackSize - 1] = Program!ReturnAddress]
      /\ UNCHANGED <<mapped, image, segment, runs>>
  BY DEF Program!CallEntry
<1>2. LoadTypes /\ Copied(segment) /\ Backed(segment) /\ segment > Len(Headers) /\ StackBacked
  BY <1>1 DEF LoadInv
<1>3. memory' = [a \in Program!Addresses |-> memory'[a]]
  <2>1. memory = [a \in Program!Addresses |-> memory[a]]
    BY <1>2 DEF LoadTypes
  <2> QED
    BY <1>1, <2>1
<1>4. LoadTypes'
  BY <1>1, <1>2, <1>3 DEF LoadTypes
<1>5. \A a \in Program!Addresses \ {StackSize - 1} : memory'[a] = memory[a]
  BY <1>1, <1>2 DEF LoadTypes
<1>6. Copied(segment)'
  BY <1>1, <1>2, <1>5 DEF Copied, Headers, IsLoaded, Reaches
<1>7. Backed(segment)' /\ StackBacked' /\ (segment > Len(Headers))'
  BY <1>1, <1>2, BackedStays DEF StackBacked, Headers, Program!PagesFor
<1> QED
  BY <1>1, <1>4, <1>6, <1>7 DEF LoadInv

LEMMA NextProgramKeeps == LoadInv /\ Program!exec_process => LoadInv'
BY DEF LoadInv, LoadTypes, Program!exec_process

LEMMA LoadStutters == LoadInv /\ UNCHANGED programVars => LoadInv'
<1> SUFFICES ASSUME LoadInv, UNCHANGED programVars
             PROVE  LoadInv'
  OBVIOUS
<1>1. LoadTypes'
  BY DEF LoadInv, LoadTypes, programVars
<1>2. Headers' = Headers /\ \A n : (Copied(n)' <=> Copied(n)) /\ (Backed(n)' <=> Backed(n))
  BY DEF Headers, Copied, Backed, IsLoaded, Reaches, programVars
<1>3. (StackBacked' <=> StackBacked) /\ (\A k : IsLoaded(k)' <=> IsLoaded(k))
  BY DEF StackBacked, IsLoaded, Headers, programVars, Program!PagesFor
<1>4. segment' = segment /\ progress' = progress
  BY DEF programVars
<1>5. (Copied(segment)' <=> Copied(segment)) /\ (Backed(segment)' <=> Backed(segment))
      /\ (Backed(segment + 1)' <=> Backed(segment + 1))
      /\ (IsLoaded(segment)' <=> IsLoaded(segment))
  BY DEF Headers, Copied, Backed, IsLoaded, Reaches, programVars
<1> QED
  BY <1>1, <1>2, <1>3, <1>4, <1>5 DEF LoadInv

LEMMA LoadInit == Program!Init => LoadInv
<1> SUFFICES ASSUME Program!Init
             PROVE  LoadInv
  OBVIOUS
<1>1. /\ mapped = {} /\ memory = [a \in Program!Addresses |-> Program!Unknown]
      /\ image \in Images /\ segment = 1 /\ progress = "headers"
  BY DEF Program!Init
<1> QED
  BY <1>1 DEF LoadInv, LoadTypes

LEMMA LoadStep == LoadInv /\ [Program!Next]_programVars => LoadInv'
<1> SUFFICES ASSUME LoadInv, Program!Next
             PROVE  LoadInv'
  BY LoadStutters
<1>1. Program!Halted => LoadInv'
  BY LoadStutters DEF Program!Halted, Program!vars, programVars
<1> QED
  BY <1>1, CheckHeadersKeeps, SkipSegmentKeeps, AllocateSegmentKeeps, CopySegmentKeeps,
     AllocateStackKeeps, CallEntryKeeps, NextProgramKeeps DEF Program!Next

LEMMA LoadInvArrives == LoadInv => Program!SegmentsArrive
<1> SUFFICES ASSUME LoadInv, progress = "running"
             PROVE  Program!SegmentsArrive
  BY DEF Program!SegmentsArrive
<1>1. LoadTypes /\ Copied(segment) /\ Backed(segment) /\ segment > Len(Headers) /\ StackBacked
  BY DEF LoadInv
<1>2. \A k \in DOMAIN Headers : k < segment
  <2> DEFINE n == Len(Headers)
  <2>1. n \in Nat /\ DOMAIN Headers = 1 .. n /\ segment \in Nat /\ segment > n
    BY <1>1, HeaderNumbers DEF LoadTypes
  <2> HIDE DEF n
  <2> QED
    BY <2>1, SMT
<1>3. \A k : k \in Program!Loaded <=> k \in DOMAIN Headers /\ IsLoaded(k)
  BY DEF Program!Loaded, IsLoaded, Headers
<1>4. \A k, a : Program!Covers(k, Headers[k].filesz, a) <=> Reaches(k, a)
  BY DEF Program!Covers, Reaches, Headers
<1>5. ASSUME NEW k \in Program!Loaded, NEW a \in Program!Addresses \ {StackSize - 1},
             Program!Covers(k, Headers[k].filesz, a),
             \A l \in Program!Loaded : l > k => ~Program!Covers(l, Headers[l].filesz, a)
      PROVE  memory[a] = Program!FileByte(image, Headers[k].offset + a - Headers[k].vaddr)
  <2>1. \A l \in DOMAIN Headers : l > k <=> k < l
    BY <1>1, <1>3, HeaderNumbers, SMT
  <2> QED
    BY <1>1, <1>2, <1>3, <1>4, <1>5, <2>1 DEF Copied
<1>6. \A k \in Program!Loaded : Headers[k].vaddr % PageSize = 0 =>
        \A a \in Headers[k].vaddr .. Headers[k].vaddr + Headers[k].memsz - 1 :
          a \div PageSize \in mapped
  BY <1>1, <1>2, <1>3 DEF Backed
<1> QED
  BY <1>1, <1>5, <1>6 DEF Program!SegmentsArrive, Headers, StackBacked

\* A running program has its segments, its stack and the memory it asked for,
\* for every image that is linked to the lower half and however pages are shared.
THEOREM ProgramsArrive == LoadingSpec => []SegmentsArrive
<1> DEFINE Inv == way \in {"image", "program"} /\ (way = "program" => LoadInv)
<1>1. LoadingInit => Inv
  BY LoadInit DEF LoadingInit
<1>2. Inv /\ [LoadingNext]_loadingVars => Inv'
  <2> SUFFICES ASSUME Inv, [LoadingNext]_loadingVars
               PROVE  Inv'
    OBVIOUS
  <2>1. way' = way
    BY DEF LoadingNext, loadingVars
  <2>2. way = "program" => [Program!Next]_programVars
    BY DEF LoadingNext, loadingVars
  <2> QED
    BY <2>1, <2>2, LoadStep
<1>3. Inv => SegmentsArrive
  BY LoadInvArrives DEF SegmentsArrive
<1> HIDE DEF Inv
<1> QED
  BY <1>1, <1>2, <1>3, PTL DEF LoadingSpec

----------------------------------------------------------------------------
(* The tables of an image *)

Numbers == 0 .. Len(dirents) - 1
Entry(q) == dirents[q + 1]
Inode(q) == inodes[q + 1]
Kids(q) == {c \in Numbers \ {0} : Entry(c).parent = q}

\* The last of a set of numbers, or 0.
IsLastOf(q, S) == q \in S \cup {0} /\ \A c \in S : c <= q

EntryType == [name : Files(tree), parent : Nat, first_child : Nat, sibling : Nat]
InodeType == [mode : {"dir", "reg", "none"}, size : Nat, data : Nat]

Tables ==
  /\ tree \in Trees
  /\ dirents \in Seq(EntryType) /\ inodes \in Seq(InodeType)
  /\ Len(inodes) = Len(dirents) /\ Len(dirents) \in 1 .. TableSize
  /\ out_data \in Seq(Nat \X Nat)

\* Every entry stands for a file of its own, under the directory that the file
\* is in, and is linked to the one found before it there.
Linked ==
  /\ Entry(0).name = 1 /\ Entry(0).sibling = 0
  /\ \A q, r \in Numbers : Entry(q).name = Entry(r).name => q = r
  /\ \A q \in Numbers \ {0} : \E p \in Numbers :
       /\ Entry(q).parent = p /\ p < q
       /\ tree[Entry(q).name].parent = Entry(p).name
       /\ IsLastOf(Entry(q).sibling, {c \in Kids(p) : c < q})

\* The bytes of file n are in the image, from offset on.
Holds(offset, n) ==
  /\ offset + tree[n].size <= Len(out_data)
  /\ \A i \in 1 .. tree[n].size : out_data[offset + i] = <<n, i>>

Stored ==
  /\ Inode(0).size = 0
  /\ \A q \in Numbers \ {0} : \A n \in Files(tree) : Entry(q).name = n =>
       /\ Inode(q).mode = tree[n].kind
       /\ tree[n].kind # "dir" => Inode(q).size = tree[n].size /\ Holds(Inode(q).data, n)

\* The entry of a directory that was read leads to those of all its files.
Names(S) == {Entry(c).name : c \in S}

Complete(q) ==
  /\ IsLastOf(Entry(q).first_child, Kids(q))
  /\ Names(Kids(q)) = In(tree, Entry(q).name)

FrameType == [dir : Files(tree), number : Nat, last : Nat, left : SUBSET Files(tree)]

\* A call of traverse_dir knows which entry it found last and what is left.
InOrder(f) ==
  /\ f \in FrameType
  /\ f.number \in Numbers /\ Entry(f.number).name = f.dir
  /\ IsLastOf(f.last, Kids(f.number))
  /\ f.left = In(tree, f.dir) \ Names(Kids(f.number))

\* An entry is complete, or its directory is being read.
WalkInv ==
  /\ id = Len(dirents) /\ kernel = <<>>
  /\ open_dirs \in Seq(FrameType) /\ open_dirs # <<>>
  /\ open_dirs[1].number = 0
  /\ \A f \in ToSet(open_dirs) : InOrder(f)
  /\ \A k, l \in 1 .. Len(open_dirs) : open_dirs[k].number = open_dirs[l].number => k = l
  /\ \A q \in Numbers : Complete(q) \/ \E f \in ToSet(open_dirs) : f.number = q

----------------------------------------------------------------------------
(* The entries of the kernel *)

\* The call for q makes the one for r.
LeadsTo(q, r) == r # 0 /\ (Entry(q).first_child = r \/ Entry(q).sibling = r)

Made(q) == \E m \in 1 .. Len(kernel) : kernel[m].ino = q
Called(q) == \E c \in ToSet(calls) : c.number = q

\* An entry that is made or called for but the root has its parent's entry for
\* parent.
Under(parent, q) ==
  IF q = 0 THEN parent = 0
  ELSE parent \in 1 .. Len(kernel) /\ kernel[parent].ino = Entry(q).parent

KernelType ==
  [ident : Files(tree), parent : Nat, ino : Numbers, kind : {"directory_like", "rdfs_inode"},
   bytes : Seq(Nat \X Nat), children : Seq(Nat)]

\* What the file of an entry is, and holds.
KindOf(q) == IF tree[Entry(q).name].kind = "dir" THEN "directory_like" ELSE "rdfs_inode"
ContentOf(q) == IF tree[Entry(q).name].kind = "dir" THEN <<>> ELSE BytesOf(tree, Entry(q).name)

MadeFrom(m, p, q) ==
  /\ kernel[m].ino = q /\ kernel[m].parent = p
  /\ kernel[m].ident = Entry(q).name
  /\ p < m /\ Under(p, q)
  /\ q # 0 => kernel[m].kind = KindOf(q) /\ kernel[m].bytes = ContentOf(q)

KernelInv ==
  /\ kernel \in Seq(KernelType)
  /\ \A m \in 1 .. Len(kernel) : \E p \in 0 .. Len(kernel), q \in Numbers : MadeFrom(m, p, q)
  /\ \A m \in 1 .. Len(kernel) :
       ToSet(kernel[m].children) = {c \in 1 .. Len(kernel) : kernel[c].parent = m}
  /\ \A m, l \in 1 .. Len(kernel) : kernel[m].ino = kernel[l].ino => m = l

\* The call for an entry is made once, by the one that leads to it, and by then.
CallsInv ==
  /\ calls \in Seq([parent : Nat, number : Numbers])
  /\ \A c \in ToSet(calls) : ~Made(c.number) /\ Under(c.parent, c.number)
  /\ \A c, d \in 1 .. Len(calls) : calls[c].number = calls[d].number => c = d
  /\ Made(0) \/ Called(0)
  /\ \A r \in Numbers \ {0} :
       Made(r) \/ Called(r) <=> \E q \in Numbers : Made(q) /\ LeadsTo(q, r)

TreeInv ==
  /\ image_stage \in {"none", "makefs", "table overrun", "boot", "running"}
  /\ image_stage \notin {"none", "table overrun"} => Tables /\ Linked /\ Stored
  /\ image_stage = "makefs" => WalkInv
  /\ image_stage \in {"boot", "running"} => (\A q \in Numbers : Complete(q)) /\ KernelInv /\ CallsInv
  /\ image_stage = "running" => calls = <<>>

----------------------------------------------------------------------------
(* Trees *)

\* A set of numbers has a least one.
LEMMA LeastExists ==
  ASSUME NEW S, S \subseteq Nat, S # {}
  PROVE  \E x \in S : \A y \in S : x <= y
<1> DEFINE R == OpToRel(<, Nat)
<1>1. \A x, y \in Nat : y < x => <<y, x>> \in R
  BY DEF OpToRel
<1>2. IsWellFoundedOn(R, Nat)
  BY NatLessThanWellFounded
<1> HIDE DEF R
<1>3. PICK x \in S : \A y \in S : ~ (<<y, x>> \in R)
  BY <1>2, WFMin
<1>4. \A y \in S : ~ (y < x)
  BY <1>1, <1>3
<1>5. \A y \in S : x <= y
  BY <1>4, SMT
<1> QED
  BY <1>5

----------------------------------------------------------------------------
LEMMA TreeShape ==
  ASSUME NEW t \in Trees
  PROVE  /\ Len(t) \in Nat \ {0} /\ Files(t) = 1 .. Len(t)
         /\ \A n \in Files(t) : t[n].parent \in Nat /\ t[n].kind \in {"dir", "reg"} /\ t[n].size \in Nat
         /\ t[1].kind = "dir"
         /\ \A n \in Files(t) \ {1} : t[n].parent \in Files(t) /\ t[n].parent < n /\ t[t[n].parent].kind = "dir"
<1>1. t \in Seq([parent : Nat, kind : {"dir", "reg"}, size : Nat]) /\ t # <<>> /\ t[1].kind = "dir"
      /\ \A n \in 2 .. Len(t) : t[n].parent \in 1 .. n - 1 /\ t[t[n].parent].kind = "dir"
  BY TreesAssumption DEF IsTree
<1>2. Len(t) \in Nat \ {0} /\ Files(t) = 1 .. Len(t)
  BY <1>1, EmptySeq, LenProperties, SMT DEF Files
<1>3. ASSUME NEW n \in Files(t)
      PROVE  t[n].parent \in Nat /\ t[n].kind \in {"dir", "reg"} /\ t[n].size \in Nat
  <2>1. t[n] \in [parent : Nat, kind : {"dir", "reg"}, size : Nat]
    BY <1>1, <1>2, ElementOfSeq
  <2> QED
    BY <2>1
<1>4. \A n \in Files(t) \ {1} : n \in 2 .. Len(t)
  BY <1>2, SMT
<1>5. ASSUME NEW n \in Files(t) \ {1}
      PROVE  t[n].parent \in Files(t) /\ t[n].parent < n /\ t[t[n].parent].kind = "dir"
  <2> DEFINE p == t[n].parent
  <2>1. p \in 1 .. n - 1 /\ t[p].kind = "dir"
    BY <1>1, <1>4
  <2> HIDE DEF p
  <2>2. p \in Files(t) /\ p < n
    BY <1>2, <2>1, SMT
  <2> QED
    BY <2>1, <2>2 DEF p
<1> QED
  BY <1>1, <1>2, <1>3, <1>5

LEMMA TableShape ==
  ASSUME Tables
  PROVE  /\ Len(dirents) \in Nat \ {0} /\ Numbers = 0 .. Len(dirents) - 1 /\ 0 \in Numbers
         /\ \A q \in Numbers : /\ Entry(q).name \in Files(tree) /\ Entry(q).parent \in Nat
                               /\ Entry(q).first_child \in Nat /\ Entry(q).sibling \in Nat
                               /\ Entry(q) \in EntryType
<1>1. Len(dirents) \in Nat \ {0} /\ Numbers = 0 .. Len(dirents) - 1 /\ 0 \in Numbers
  BY SMT DEF Tables, Numbers
<1>2. ASSUME NEW q \in Numbers
      PROVE  Entry(q) \in EntryType
  <2>1. q + 1 \in 1 .. Len(dirents)
    BY <1>1, SMT
  <2> QED
    BY <2>1, ElementOfSeq DEF Tables, Entry
<1> QED
  BY <1>1, <1>2 DEF EntryType

----------------------------------------------------------------------------
(* makefs *)

LEMMA InitTree == ImageInit => TreeInv
<1> SUFFICES ASSUME ImageInit
             PROVE  TreeInv
  OBVIOUS
<1> DEFINE e == [name |-> 1, parent |-> 0, first_child |-> 0, sibling |-> 0]
           f == [dir |-> 1, number |-> 0, last |-> 0, left |-> In(tree, 1)]
<1>1. /\ tree \in Trees /\ dirents = <<e>> /\ inodes = <<InodeOf(1, 0)>> /\ out_data = <<>>
      /\ id = 1 % IdRange /\ open_dirs = <<f>> /\ kernel = <<>> /\ image_stage = "makefs"
  BY DEF ImageInit, DirentOf, Frame
<1>2. /\ Len(tree) \in Nat \ {0} /\ Files(tree) = 1 .. Len(tree) /\ tree[1].kind = "dir" /\ 1 \in Files(tree)
  BY <1>1, TreeShape, SMT
<1>3. inodes = <<[mode |-> "dir", size |-> 0, data |-> 0]>>
  BY <1>1, <1>2 DEF InodeOf
<1>4. id = 1
  BY <1>1, TableAssumption, SMT
<1>5. Len(dirents) = 1 /\ Numbers = {0} /\ Entry(0) = e /\ Len(open_dirs) = 1 /\ open_dirs[1] = f
  BY <1>1, SMT DEF Numbers, Entry
<1>6. Tables
  <2>1. e \in EntryType /\ [mode |-> "dir", size |-> 0, data |-> 0] \in InodeType
    BY <1>2, SMT DEF EntryType, InodeType
  <2>2. 1 \in 1 .. TableSize
    BY TableAssumption, SMT
  <2>3. Len(inodes) = 1
    BY <1>3, SMT
  <2>4. out_data \in Seq(Nat \X Nat)
    BY <1>1, EmptySeq
  <2>5. dirents \in Seq(EntryType) /\ inodes \in Seq(InodeType)
    BY <1>1, <1>3, <2>1, SMT
  <2> QED
    BY <1>1, <1>5, <2>2, <2>3, <2>4, <2>5 DEF Tables
<1>7. Linked /\ Stored
  <2>1. Inode(0).size = 0
    BY <1>3 DEF Inode
  <2> QED
    BY <1>5, <2>1 DEF Linked, Stored
<1>8. Kids(0) = {}
  BY <1>5 DEF Kids
<1>9. f \in FrameType
  BY <1>2 DEF FrameType, In
<1>10. InOrder(f)
  BY <1>5, <1>8, <1>9 DEF InOrder, IsLastOf, Names
<1>11. WalkInv
  <2>1. open_dirs \in Seq(FrameType) /\ open_dirs # <<>>
    BY <1>1, <1>9, SMT
  <2>2. \A k \in 1 .. Len(open_dirs) : k = 1
    BY <1>5, SMT
  <2>3. ToSet(open_dirs) = {f}
    <3>1. DOMAIN open_dirs = {1}
      BY <1>1, SMT
    <3> QED
      BY <1>5, <3>1 DEF ToSet
  <2>4. f.number = 0
    OBVIOUS
  <2> HIDE DEF f
  <2> QED
    BY <1>1, <1>4, <1>5, <1>10, <2>1, <2>2, <2>3, <2>4 DEF WalkInv
<1> QED
  BY <1>1, <1>6, <1>7, <1>11 DEF TreeInv

\* What traverse_dir finds in the directory on top of its stack has no entry yet.
LEMMA NewFile ==
  ASSUME Tables, Linked, NEW f, InOrder(f), NEW n \in f.left
  PROVE  n \in Files(tree) \ {1} /\ tree[n].parent = f.dir /\ \A q \in Numbers : Entry(q).name # n
<1>1. n \in In(tree, f.dir) /\ \A c \in Kids(f.number) : Entry(c).name # n
  BY DEF InOrder, Names
<1>2. n \in Files(tree) \ {1} /\ tree[n].parent = f.dir
  BY <1>1 DEF In
<1>3. ASSUME NEW q \in Numbers, Entry(q).name = n
      PROVE  FALSE
  <2>1. q # 0
    BY <1>2, <1>3 DEF Linked
  <2>2. Entry(Entry(q).parent).name = Entry(f.number).name /\ Entry(q).parent \in Numbers
    BY <1>2, <1>3, <2>1 DEF Linked, InOrder
  <2>4. Entry(q).parent = f.number
    BY <2>2 DEF Linked, InOrder
  <2> QED
    BY <1>1, <1>3, <2>1, <2>4 DEF Kids
<1> QED
  BY <1>2, <1>3

LEMMA LastOfMore ==
  ASSUME NEW D \in Nat \ {0}, NEW S \in SUBSET (1 .. D - 1)
  PROVE  IsLastOf(D, S \cup {D})
BY SMT DEF IsLastOf

\* The tables after an entry for file n was stored behind the last one.
StoredFor(n, f) ==
  /\ tree' = tree
  /\ dirents' = Append(dirents, [name |-> n, parent |-> f.number, first_child |-> 0, sibling |-> f.last])
  /\ inodes' = Append(inodes, InodeOf(n, Len(out_data)))
  /\ out_data' = out_data \o (IF tree[n].kind = "dir" THEN <<>> ELSE BytesOf(tree, n))

LEMMA EntriesAfter ==
  ASSUME Tables, NEW f, NEW n, StoredFor(n, f), n \in Files(tree), f.number \in Numbers, f.last \in Nat,
         NEW D, D = Len(dirents)
  PROVE  /\ dirents' \in Seq(EntryType) /\ Len(dirents') = Len(dirents) + 1
         /\ Numbers' = Numbers \cup {D}
         /\ \A q \in Numbers : q < D /\ Entry(q)' = Entry(q)
         /\ Entry(D)' = [name |-> n, parent |-> f.number, first_child |-> 0, sibling |-> f.last]
         /\ \A q \in Numbers : Kids(q)' = IF q = f.number THEN Kids(q) \cup {D} ELSE Kids(q)
         /\ \A q \in Numbers : Kids(q) \in SUBSET (1 .. D - 1)
<1> DEFINE e == [name |-> n, parent |-> f.number, first_child |-> 0, sibling |-> f.last]
<1>1. D \in Nat \ {0} /\ Numbers = 0 .. D - 1 /\ dirents \in Seq(EntryType)
  BY TableShape DEF Tables
<1>2. e \in EntryType
  BY <1>1, SMT DEF EntryType
<1>3. dirents' = Append(dirents, e)
  BY DEF StoredFor
<1> HIDE DEF e
<1>4. dirents' \in Seq(EntryType) /\ Len(dirents') = D + 1
  BY <1>1, <1>2, <1>3, SMT
<1>5. \A q \in 1 .. D : dirents'[q] = dirents[q]
  BY <1>1, <1>2, <1>3, SMT
<1>6. dirents'[D + 1] = e
  BY <1>1, <1>2, <1>3, SMT
<1>7. Numbers' = Numbers \cup {D}
  BY <1>1, <1>4, SMT DEF Numbers
<1>8. \A q \in Numbers : q < D /\ Entry(q)' = Entry(q)
  BY <1>1, <1>5, SMT DEF Entry
<1>9. Entry(D)' = e
  BY <1>6 DEF Entry
<1>10. e.parent = f.number /\ D # 0 /\ D \notin Numbers
  BY <1>1, SMT DEF e
<1>11. ASSUME NEW q \in Numbers
       PROVE  Kids(q)' = IF q = f.number THEN Kids(q) \cup {D} ELSE Kids(q)
  <2>1. \A c : c \in Kids(q)' <=> c \in Numbers' \ {0} /\ Entry(c)'.parent = q
    BY DEF Kids
  <2>2. \A c : c \in Kids(q) <=> c \in Numbers \ {0} /\ Entry(c).parent = q
    BY DEF Kids
  <2>3. \A c : c \in Kids(q)' <=> c \in Kids(q) \/ (c = D /\ f.number = q)
    BY <1>7, <1>8, <1>9, <1>10, <2>1, <2>2
  <2> QED
    BY <2>3
<1>12. \A q \in Numbers : Kids(q) \in SUBSET (1 .. D - 1)
  BY <1>1, SMT DEF Kids
<1> QED
  BY <1>4, <1>7, <1>8, <1>9, <1>11, <1>12 DEF e

LEMMA TablesGrow ==
  ASSUME Tables, NEW f, NEW n, StoredFor(n, f), n \in Files(tree), f.number \in Numbers, f.last \in Nat,
         Len(dirents) < TableSize
  PROVE  /\ Tables'
         /\ \A q \in Numbers : inodes'[q + 1] = inodes[q + 1]
         /\ inodes'[Len(dirents) + 1] = InodeOf(n, Len(out_data))
         /\ \A i \in 1 .. Len(out_data) : out_data'[i] = out_data[i]
         /\ Len(out_data) \in Nat /\ Len(out_data)' \in Nat /\ Len(out_data)' >= Len(out_data)
         /\ tree[n].kind # "dir" =>
              Len(out_data)' = Len(out_data) + tree[n].size
              /\ \A i \in 1 .. tree[n].size : out_data'[Len(out_data) + i] = <<n, i>>
<1> DEFINE D == Len(dirents)
           d == InodeOf(n, Len(out_data))
           more == IF tree[n].kind = "dir" THEN <<>> ELSE BytesOf(tree, n)
           L == Len(out_data)
<1>1. D \in Nat \ {0} /\ Numbers = 0 .. D - 1 /\ inodes \in Seq(InodeType) /\ Len(inodes) = D
      /\ tree \in Trees /\ out_data \in Seq(Nat \X Nat) /\ L \in Nat
  BY TableShape, LenProperties DEF Tables
<1>2. tree[n].size \in Nat /\ tree[n].kind \in {"dir", "reg"} /\ n \in Nat
  BY <1>1, TreeShape, SMT
<1>3. d \in InodeType
  BY <1>1, <1>2 DEF InodeOf, InodeType
<1>4. inodes' = Append(inodes, d) /\ out_data' = out_data \o more /\ tree' = tree
  BY DEF StoredFor
<1> HIDE DEF d
<1>5. inodes' \in Seq(InodeType) /\ Len(inodes') = D + 1 /\ inodes'[D + 1] = d
      /\ \A q \in 1 .. D : inodes'[q] = inodes[q]
  BY <1>1, <1>3, <1>4, SMT
<1>6. more \in Seq(Nat \X Nat)
      /\ (tree[n].kind # "dir" => Len(more) = tree[n].size /\ \A i \in 1 .. tree[n].size : more[i] = <<n, i>>)
  <2> DEFINE s == tree[n].size
             b == [i \in 1 .. s |-> <<n, i>>]
  <2>1. b \in Seq(Nat \X Nat) /\ Len(b) = s /\ \A i \in 1 .. s : b[i] = <<n, i>>
    BY <1>2, SMT
  <2>2. more = IF tree[n].kind = "dir" THEN <<>> ELSE b
    BY DEF BytesOf
  <2> HIDE DEF b, more
  <2> QED
    BY <2>1, <2>2, EmptySeq
<1> HIDE DEF more
<1>7. out_data' \in Seq(Nat \X Nat) /\ Len(out_data') = L + Len(more) /\ Len(more) \in Nat
      /\ (\A i \in 1 .. L : out_data'[i] = out_data[i])
      /\ \A i \in 1 .. Len(more) : out_data'[L + i] = more[i]
  <2>1. /\ out_data' \in Seq(Nat \X Nat) /\ Len(out_data') = L + Len(more)
        /\ \A i \in 1 .. L + Len(more) : out_data'[i] = IF i <= L THEN out_data[i] ELSE more[i - L]
    BY <1>1, <1>4, <1>6, ConcatProperties
  <2>2. Len(more) \in Nat
    BY <1>6, LenProperties
  <2>3. \A i \in 1 .. L : i \in 1 .. L + Len(more) /\ i <= L
    BY <1>1, <2>2, SMT
  <2>4. \A i \in 1 .. Len(more) : L + i \in 1 .. L + Len(more) /\ ~(L + i <= L) /\ (L + i) - L = i
    BY <1>1, <2>2, SMT
  <2>5. \A i \in 1 .. Len(more) : out_data'[L + i] = more[i]
    BY <2>1, <2>4
  <2> QED
    BY <2>1, <2>2, <2>3, <2>5
<1>8. \A q \in Numbers : inodes'[q + 1] = inodes[q + 1]
  <2>1. \A q \in Numbers : q + 1 \in 1 .. D
    BY <1>1, SMT
  <2> QED
    BY <1>5, <2>1
<1>9. Tables'
  <2>1. dirents' \in Seq(EntryType) /\ Len(dirents') = D + 1
    BY EntriesAfter
  <2>2. EntryType' = EntryType
    BY <1>4 DEF EntryType
  <2>3. D + 1 \in 1 .. TableSize
    BY <1>1, TableAssumption, SMT
  <2> QED
    BY <1>1, <1>4, <1>5, <1>7, <2>1, <2>2, <2>3 DEF Tables, InodeType
<1>10. Len(out_data') \in Nat /\ Len(out_data') >= L
  BY <1>1, <1>7, SMT
<1>11. tree[n].kind # "dir" => Len(more) = tree[n].size /\ \A i \in 1 .. tree[n].size : out_data'[L + i] = <<n, i>>
  BY <1>6, <1>7
<1> QED
  BY <1>1, <1>5, <1>7, <1>8, <1>9, <1>10, <1>11 DEF d

LEMMA LinkedGrows ==
  ASSUME Tables, Linked, NEW f, InOrder(f), NEW n \in f.left, StoredFor(n, f)
  PROVE  Linked'
<1> DEFINE D == Len(dirents)
<1>1. PICK d : d = D
  OBVIOUS
<1>2. f.number \in Numbers /\ f.last \in Nat /\ Entry(f.number).name = f.dir /\ IsLastOf(f.last, Kids(f.number))
  BY DEF InOrder, FrameType
<1>3. n \in Files(tree) \ {1} /\ tree[n].parent = f.dir /\ \A q \in Numbers : Entry(q).name # n
  BY NewFile
<1>4. /\ Numbers' = Numbers \cup {d}
      /\ \A q \in Numbers : q < d /\ Entry(q)' = Entry(q)
      /\ Entry(d)' = [name |-> n, parent |-> f.number, first_child |-> 0, sibling |-> f.last]
      /\ \A q \in Numbers : Kids(q)' = IF q = f.number THEN Kids(q) \cup {d} ELSE Kids(q)
      /\ \A q \in Numbers : Kids(q) \in SUBSET (1 .. d - 1)
  BY <1>1, <1>2, <1>3, EntriesAfter
<1>5. tree' = tree /\ d \in Nat \ {0} /\ Numbers = 0 .. d - 1
  BY <1>1, TableShape DEF StoredFor
<1>6. Entry(0)' = Entry(0) /\ 0 \in Numbers
  BY <1>4, <1>5, SMT
<1>7. \A q, r \in Numbers' : Entry(q)'.name = Entry(r)'.name => q = r
  BY <1>3, <1>4 DEF Linked
<1>8. ASSUME NEW q \in Numbers \ {0}
      PROVE  \E p \in Numbers' :
               /\ Entry(q)'.parent = p /\ p < q
               /\ tree'[Entry(q)'.name].parent = Entry(p)'.name
               /\ IsLastOf(Entry(q)'.sibling, {c \in Kids(p)' : c < q})
  <2>1. PICK p \in Numbers :
               /\ Entry(q).parent = p /\ p < q
               /\ tree[Entry(q).name].parent = Entry(p).name
               /\ IsLastOf(Entry(q).sibling, {c \in Kids(p) : c < q})
    BY DEF Linked
  <2>2. ~(d < q)
    BY <1>5, SMT
  <2>3. {c \in Kids(p)' : c < q} = {c \in Kids(p) : c < q}
    BY <1>4, <2>2
  <2>4. p \in Numbers' /\ Entry(q)' = Entry(q) /\ Entry(p)' = Entry(p)
    BY <1>4
  <2> QED
    BY <1>5, <2>1, <2>3, <2>4
<1>9. \E p \in Numbers' :
         /\ Entry(d)'.parent = p /\ p < d
         /\ tree'[Entry(d)'.name].parent = Entry(p)'.name
         /\ IsLastOf(Entry(d)'.sibling, {c \in Kids(p)' : c < d})
  <2> DEFINE p == f.number
  <2>1. Kids(p)' = Kids(p) \cup {d} /\ Entry(p)' = Entry(p) /\ p \in Numbers' /\ p < d
    BY <1>2, <1>4
  <2>2. ~(d < d) /\ \A c \in Kids(p) : c < d
    BY <1>2, <1>4, <1>5, SMT
  <2>3. {c \in Kids(p)' : c < d} = Kids(p)
    BY <2>1, <2>2
  <2>4. Entry(d)'.parent = p /\ Entry(d)'.sibling = f.last /\ Entry(d)'.name = n
    BY <1>4
  <2>5. tree'[Entry(d)'.name].parent = Entry(p)'.name
    BY <1>2, <1>3, <1>5, <2>1, <2>4
  <2>6. IsLastOf(Entry(d)'.sibling, {c \in Kids(p)' : c < d})
    BY <1>2, <2>3, <2>4
  <2> QED
    BY <2>1, <2>4, <2>5, <2>6
<1> QED
  BY <1>4, <1>6, <1>7, <1>8, <1>9 DEF Linked, IsLastOf

LEMMA StoredGrows ==
  ASSUME Tables, Stored, NEW f, NEW n \in Files(tree), f.number \in Numbers, f.last \in Nat,
         StoredFor(n, f), Len(dirents) < TableSize
  PROVE  Stored'
<1> PICK d : d = Len(dirents)
  OBVIOUS
<1>1. /\ Numbers' = Numbers \cup {d}
      /\ \A q \in Numbers : q < d /\ Entry(q)' = Entry(q)
      /\ Entry(d)' = [name |-> n, parent |-> f.number, first_child |-> 0, sibling |-> f.last]
  BY EntriesAfter
<1>2. /\ \A q \in Numbers : Inode(q)' = Inode(q)
      /\ Inode(d)' = InodeOf(n, Len(out_data))
      /\ \A i \in 1 .. Len(out_data) : out_data'[i] = out_data[i]
      /\ Len(out_data) \in Nat /\ Len(out_data)' \in Nat /\ Len(out_data)' >= Len(out_data)
      /\ tree[n].kind # "dir" =>
           Len(out_data)' = Len(out_data) + tree[n].size
           /\ \A i \in 1 .. tree[n].size : out_data'[Len(out_data) + i] = <<n, i>>
  BY TablesGrow DEF Inode
<1>3. tree' = tree /\ Files(tree)' = Files(tree)
  BY DEF StoredFor, Files
<1>4. \A m \in Files(tree) : tree[m].size \in Nat /\ tree \in Trees
  BY TreeShape DEF Tables
<1>5. \A q \in Numbers : Inode(q).data \in Nat
  <2>1. \A q \in Numbers : q + 1 \in 1 .. Len(inodes)
    BY TableShape, SMT DEF Tables
  <2>2. \A q \in Numbers : Inode(q) \in InodeType
    BY <2>1, ElementOfSeq DEF Tables, Inode
  <2> QED
    BY <2>2 DEF InodeType
<1>6. ASSUME NEW o \in Nat, NEW m \in Files(tree), Holds(o, m)
      PROVE  Holds(o, m)'
  <2> DEFINE s == tree[m].size
             L == Len(out_data)
             M == Len(out_data')
  <2>1. L \in Nat /\ M \in Nat /\ L <= M /\ s \in Nat /\ o + s <= L
    BY <1>2, <1>4, <1>6 DEF Holds
  <2> HIDE DEF s, L, M
  <2>2. o + s <= M /\ \A i \in 1 .. s : o + i \in 1 .. L
    BY <2>1, SMT
  <2>3. \A i \in 1 .. s : out_data'[o + i] = out_data[o + i]
    BY <1>2, <2>2 DEF L
  <2> QED
    BY <1>3, <1>6, <2>2, <2>3 DEF Holds, s, L, M
<1>7. ASSUME NEW q \in Numbers \ {0}, NEW m \in Files(tree), Entry(q)'.name = m
      PROVE  /\ Inode(q)'.mode = tree[m].kind
             /\ tree[m].kind # "dir" => Inode(q)'.size = tree[m].size /\ Holds(Inode(q).data, m)'
  <2>1. Entry(q).name = m
    BY <1>1, <1>7
  <2>2. Inode(q)' = Inode(q) /\ Inode(q).data \in Nat
    BY <1>2, <1>5
  <2>3. PICK o \in Nat : o = Inode(q).data
    BY <2>2
  <2>4. Inode(q).mode = tree[m].kind /\ (tree[m].kind # "dir" => Inode(q).size = tree[m].size /\ Holds(o, m))
    BY <2>1, <2>3 DEF Stored
  <2>5. Holds(o, m) => Holds(o, m)'
    BY <1>6
  <2>6. Inode(q)'.data = o
    BY <2>2, <2>3
  <2> QED
    BY <2>2, <2>4, <2>5, <2>6 DEF Holds
<1>8. ASSUME NEW m \in Files(tree), Entry(d)'.name = m
      PROVE  /\ Inode(d)'.mode = tree[m].kind
             /\ tree[m].kind # "dir" => Inode(d)'.size = tree[m].size /\ Holds(Inode(d).data, m)'
  <2>1. m = n
    BY <1>1, <1>8
  <2>2. Inode(d)'.mode = tree[n].kind
    BY <1>2 DEF InodeOf
  <2>3. ASSUME tree[n].kind # "dir"
        PROVE  Inode(d)'.size = tree[n].size /\ Holds(Inode(d).data, n)'
    <3>1. Inode(d)'.size = tree[n].size /\ Inode(d)'.data = Len(out_data)
      BY <1>2, <2>3 DEF InodeOf
    <3>2. Len(out_data) + tree[n].size <= Len(out_data)'
      BY <1>2, <1>4, <2>3, SMT
    <3> QED
      BY <1>2, <1>3, <2>3, <3>1, <3>2 DEF Holds
  <2> QED
    BY <2>1, <2>2, <2>3
<1> QED
  BY <1>1, <1>2, <1>3, <1>7, <1>8, TableShape DEF Stored

LEMMA FrontOf ==
  ASSUME NEW S, NEW s \in Seq(S), s # <<>>
  PROVE  /\ Front(s) \in Seq(S) /\ Len(Front(s)) = Len(s) - 1
         /\ \A i \in 1 .. Len(s) - 1 : Front(s)[i] = s[i]
         /\ Len(s) \in Nat \ {0} /\ s[Len(s)] \in S
<1>1. Len(s) \in Nat \ {0}
  BY EmptySeq
<1>2. \A i \in 1 .. Len(s) - 1 : s[i] \in S
  BY <1>1, ElementOfSeq, SMT
<1>3. Front(s) = SubSeq(s, 1, Len(s) - 1)
  BY DEF Front
<1> DEFINE n == Len(s)
<1>4. SubSeq(s, 1, n - 1) \in Seq(S) /\ Len(SubSeq(s, 1, n - 1)) = n - 1
      /\ \A i \in 1 .. n - 1 : SubSeq(s, 1, n - 1)[i] = s[i]
  <2>1. 1 \in Int /\ n - 1 \in Int
    BY <1>1, SMT
  <2>2. /\ SubSeq(s, 1, n - 1) \in Seq(S)
        /\ Len(SubSeq(s, 1, n - 1)) = IF 1 <= n - 1 THEN n - 1 - 1 + 1 ELSE 0
        /\ \A i \in 1 .. n - 1 - 1 + 1 : SubSeq(s, 1, n - 1)[i] = s[1 + i - 1]
    BY <1>2, <2>1, SubSeqProperties
  <2>3. Len(SubSeq(s, 1, n - 1)) = n - 1
    <3>1. \A k \in Nat \ {0} : (IF 1 <= k - 1 THEN k - 1 - 1 + 1 ELSE 0) = k - 1
      BY SMT
    <3> QED
      BY <1>1, <2>2, <3>1
  <2>4. \A i \in 1 .. n - 1 : i \in 1 .. n - 1 - 1 + 1 /\ 1 + i - 1 = i
    BY <1>1, SMT
  <2>5. \A i \in 1 .. n - 1 : SubSeq(s, 1, n - 1)[i] = s[i]
    BY <2>2, <2>4
  <2> QED
    BY <2>2, <2>3, <2>5
<1>5. n \in 1 .. n
  BY <1>1, SMT
<1> QED
  BY <1>1, <1>3, <1>4, <1>5, ElementOfSeq

\* In what order the entries of one directory stand is not changed by the next one.
LEMMA OthersInOrder ==
  ASSUME Tables, Linked, NEW f, InOrder(f), NEW n \in f.left, StoredFor(n, f), Len(dirents) < TableSize
  PROVE  /\ \A g \in FrameType : InOrder(g) /\ g.number # f.number => InOrder(g)'
         /\ \A q \in Numbers : Complete(q) /\ q # f.number => Complete(q)'
<1> PICK d : d = Len(dirents)
  OBVIOUS
<1>1. f.number \in Numbers /\ f.last \in Nat /\ n \in Files(tree)
  BY NewFile DEF InOrder, FrameType
<1>2. /\ Numbers' = Numbers \cup {d}
      /\ \A q \in Numbers : q < d /\ Entry(q)' = Entry(q)
      /\ \A q \in Numbers : Kids(q)' = IF q = f.number THEN Kids(q) \cup {d} ELSE Kids(q)
      /\ \A q \in Numbers : Kids(q) \subseteq Numbers
  BY <1>1, EntriesAfter DEF Kids
<1>3. tree' = tree /\ Files(tree)' = Files(tree)
  BY DEF StoredFor, Files
<1>4. \A q \in Numbers : q # f.number => Kids(q)' = Kids(q) /\ Names(Kids(q))' = Names(Kids(q))
  <2> SUFFICES ASSUME NEW q \in Numbers, q # f.number
               PROVE  Kids(q)' = Kids(q) /\ Names(Kids(q))' = Names(Kids(q))
    OBVIOUS
  <2>1. Kids(q)' = Kids(q)
    BY <1>2
  <2>2. Names(Kids(q))' = {Entry(c)'.name : c \in Kids(q)}
    BY <2>1 DEF Names
  <2> QED
    BY <1>2, <2>1, <2>2 DEF Names
<1>5. ASSUME NEW g \in FrameType, InOrder(g), g.number # f.number
      PROVE  InOrder(g)'
  <2>1. g.number \in Numbers' /\ Entry(g.number)' = Entry(g.number) /\ g \in FrameType'
    BY <1>2, <1>3, <1>5 DEF InOrder, FrameType
  <2>2. Kids(g.number)' = Kids(g.number) /\ Names(Kids(g.number))' = Names(Kids(g.number))
    BY <1>4, <1>5 DEF InOrder
  <2>3. In(tree, g.dir)' = In(tree, g.dir)
    BY <1>3 DEF In
  <2> QED
    BY <1>5, <2>1, <2>2, <2>3 DEF InOrder, IsLastOf
<1>6. ASSUME NEW q \in Numbers, Complete(q), q # f.number
      PROVE  Complete(q)'
  <2>1. Entry(q)' = Entry(q) /\ Kids(q)' = Kids(q) /\ Names(Kids(q))' = Names(Kids(q))
    BY <1>2, <1>4, <1>6
  <2>2. In(tree, Entry(q).name)' = In(tree, Entry(q).name)
    BY <1>3, <2>1 DEF In
  <2> QED
    BY <1>6, <2>1, <2>2 DEF Complete, IsLastOf
<1> QED
  BY <1>5, <1>6

\* The directory that is read, and the new entry.
LEMMA ThisInOrder ==
  ASSUME Tables, Linked, NEW f, InOrder(f), NEW n \in f.left, StoredFor(n, f), Len(dirents) < TableSize,
         NEW d, d = Len(dirents),
         NEW new, new = [dir |-> n, number |-> d, last |-> 0, left |-> In(tree, n)]
  PROVE  /\ InOrder([f EXCEPT !.left = @ \ {n}, !.last = d])'
         /\ InOrder(new)'
         /\ tree[n].kind # "dir" => Complete(d)'
<1>1. f \in FrameType /\ f.number \in Numbers /\ f.last \in Nat /\ n \in Files(tree) \ {1}
      /\ \A q \in Numbers : Entry(q).name # n
  BY NewFile DEF InOrder, FrameType
<1>2. /\ Numbers' = Numbers \cup {d}
      /\ \A q \in Numbers : q < d /\ Entry(q)' = Entry(q)
      /\ Entry(d)' = [name |-> n, parent |-> f.number, first_child |-> 0, sibling |-> f.last]
      /\ \A q \in Numbers : Kids(q)' = IF q = f.number THEN Kids(q) \cup {d} ELSE Kids(q)
      /\ \A q \in Numbers : Kids(q) \in SUBSET (1 .. d - 1) /\ Kids(q) \subseteq Numbers
  BY <1>1, EntriesAfter DEF Kids
<1>3. tree' = tree /\ Files(tree)' = Files(tree) /\ FrameType' = FrameType
  BY DEF StoredFor, Files, FrameType
<1>4. d \in Nat \ {0} /\ Numbers = 0 .. d - 1 /\ d \notin Numbers
  BY TableShape, SMT
<1>5. Kids(d)' = {}
  <2>1. ASSUME NEW c \in Numbers \ {0}
        PROVE  Entry(c)'.parent # d
    <3>1. Entry(c).parent \in Numbers
      BY DEF Linked
    <3> QED
      BY <1>2, <1>4, <3>1
  <2>2. Entry(d)'.parent # d
    BY <1>1, <1>2, <1>4
  <2> QED
    BY <1>2, <2>1, <2>2 DEF Kids
<1>6. InOrder([f EXCEPT !.left = @ \ {n}, !.last = d])'
  <2> DEFINE p == f.number
             h == [f EXCEPT !.left = @ \ {n}, !.last = d]
  <2>1. h \in FrameType /\ h.number = p /\ h.dir = f.dir /\ h.last = d /\ h.left = f.left \ {n}
    BY <1>1, <1>4 DEF FrameType
  <2>2. Kids(p)' = Kids(p) \cup {d} /\ Entry(p)' = Entry(p)
    BY <1>1, <1>2
  <2>3. IsLastOf(d, Kids(p) \cup {d})
    BY <1>1, <1>2, <1>4, LastOfMore
  <2>4. Names(Kids(p))' = Names(Kids(p)) \cup {n}
    <3>1. Names(Kids(p))' = {Entry(c)'.name : c \in Kids(p) \cup {d}}
      BY <2>2 DEF Names
    <3>2. \A c \in Kids(p) : Entry(c)' = Entry(c)
      BY <1>1, <1>2
    <3>3. Entry(d)'.name = n
      BY <1>2
    <3> QED
      BY <3>1, <3>2, <3>3 DEF Names
  <2>5. In(tree, f.dir)' = In(tree, f.dir)
    BY <1>3 DEF In
  <2>6. Entry(p).name = f.dir /\ f.left = In(tree, f.dir) \ Names(Kids(p))
    BY DEF InOrder
  <2>7. IsLastOf(h.last, Kids(p))'
    BY <2>1, <2>2, <2>3 DEF IsLastOf
  <2> HIDE DEF h, p
  <2>8. h \in FrameType' /\ p \in Numbers' /\ Entry(h.number)' = Entry(p)
    BY <1>1, <1>2, <1>3, <2>1, <2>2 DEF p
  <2> QED
    BY <2>1, <2>2, <2>4, <2>5, <2>6, <2>7, <2>8 DEF InOrder, h
<1>7. InOrder(new)'
  <2>1. new \in FrameType /\ In(tree, n)' = In(tree, n)
    BY <1>1, <1>3, <1>4 DEF FrameType, In
  <2>2. Names(Kids(d))' = {} /\ Entry(d)'.name = n
    BY <1>2, <1>5 DEF Names
  <2> QED
    BY <1>2, <1>3, <1>5, <2>1, <2>2 DEF InOrder, IsLastOf
<1>8. ASSUME tree[n].kind # "dir"
      PROVE  Complete(d)'
  <2>1. In(tree, n) = {}
    BY <1>8, TreeShape DEF In, Tables
  <2>2. Names(Kids(d))' = {} /\ Entry(d)'.name = n /\ Entry(d)'.first_child = 0
    BY <1>2, <1>5 DEF Names
  <2>3. In(tree, Entry(d).name)' = {}
    BY <1>3, <2>1, <2>2 DEF In
  <2> QED
    BY <1>5, <2>2, <2>3 DEF Complete, IsLastOf
<1> QED
  BY <1>6, <1>7, <1>8

LEMMA TraverseKeeps == TreeInv /\ traverse_dir => TreeInv'
<1> SUFFICES ASSUME TreeInv, traverse_dir
             PROVE  TreeInv'
  OBVIOUS
<1> DEFINE K == Len(open_dirs)
           below == Front(open_dirs)
<1>1. PICK f, d : f = Top /\ d = id
  OBVIOUS
<1>2. /\ image_stage = "makefs" /\ image_stage' = image_stage /\ Tables /\ Linked /\ Stored /\ WalkInv
  BY DEF TreeInv, traverse_dir
<1>3. PICK n \in f.left :
        LET here == [f EXCEPT !.left = @ \ {n}, !.last = d]
        IN /\ d < TableSize
           /\ Store(n)
           /\ id' = (d + 1) % IdRange
           /\ open_dirs' = below \o <<here>> \o
                (IF tree[n].kind = "dir" THEN <<Frame(n, d)>> ELSE <<>>)
  BY <1>1 DEF traverse_dir, Below
<1>4. /\ open_dirs \in Seq(FrameType) /\ K \in Nat \ {0} /\ f = open_dirs[K] /\ K \in 1 .. K
      /\ below \in Seq(FrameType) /\ Len(below) = K - 1
      /\ \A i \in 1 .. K - 1 : below[i] = open_dirs[i]
  <2>1. open_dirs \in Seq(FrameType) /\ open_dirs # <<>>
    BY <1>2 DEF WalkInv
  <2>2. K \in Nat \ {0} /\ K \in 1 .. K
    <3>1. K \in Nat /\ K # 0
      BY <2>1, EmptySeq, LenProperties
    <3> QED
      BY <3>1, SMT
  <2>3. /\ below \in Seq(FrameType) /\ Len(below) = K - 1
        /\ \A i \in 1 .. K - 1 : below[i] = open_dirs[i]
    BY <2>1, FrontOf
  <2>4. f = open_dirs[K]
    BY <1>1 DEF Top
  <2> QED
    BY <2>1, <2>2, <2>3, <2>4
<1>5. InOrder(f) /\ f \in FrameType
  <2>1. f \in ToSet(open_dirs)
    BY <1>4, LenProperties DEF ToSet
  <2> QED
    BY <1>2, <2>1 DEF WalkInv, InOrder
<1>6. d = Len(dirents) /\ Len(dirents) < TableSize
  BY <1>1, <1>2, <1>3 DEF WalkInv
<1>7. StoredFor(n, f)
  BY <1>1, <1>3 DEF Store, StoredFor, DirentOf, traverse_dir
<1>8. n \in Files(tree) \ {1} /\ f.number \in Numbers /\ f.last \in Nat /\ f.number # d
  <2>1. \A q \in Numbers : q # d
    BY <1>2, <1>6, TableShape, SMT
  <2> QED
    BY <1>2, <1>5, <2>1, NewFile DEF InOrder, FrameType
<1> DEFINE here == [f EXCEPT !.left = @ \ {n}, !.last = d]
<1> PICK new : new = [dir |-> n, number |-> d, last |-> 0, left |-> In(tree, n)]
  OBVIOUS
<1> DEFINE top == IF tree[n].kind = "dir" THEN <<new>> ELSE <<>>
<1>9. Tables' /\ Linked' /\ Stored'
  BY <1>2, <1>5, <1>6, <1>7, <1>8, TablesGrow, LinkedGrows, StoredGrows
<1>10. InOrder(here)' /\ InOrder(new)' /\ (tree[n].kind # "dir" => Complete(d)')
  BY <1>2, <1>5, <1>6, <1>7, ThisInOrder
<1>11. FrameType' = FrameType /\ here.number = f.number /\ new.number = d /\ below \in Seq(FrameType')
       /\ here \in FrameType' /\ new \in FrameType'
  <2>1. FrameType' = FrameType
    BY <1>7 DEF StoredFor, Files, FrameType
  <2>2. here \in FrameType' /\ new \in FrameType'
    BY <1>10 DEF InOrder
  <2>3. here.number = f.number
    BY <1>5 DEF FrameType
  <2> QED
    BY <1>4, <2>1, <2>2, <2>3
<1>12. open_dirs' = (below \o <<here>>) \o top
  BY <1>3 DEF Frame
<1> HIDE DEF here
<1>13. /\ open_dirs' \in Seq(FrameType')
       /\ Len(open_dirs') = K + Len(top) /\ Len(top) \in {0, 1}
       /\ \A i \in 1 .. K - 1 : open_dirs'[i] = open_dirs[i]
       /\ open_dirs'[K] = here
       /\ Len(top) = 1 => tree[n].kind = "dir" /\ open_dirs'[K + 1] = new
       /\ Len(top) = 0 => tree[n].kind # "dir"
  <2>1. /\ below \o <<here>> \in Seq(FrameType') /\ Len(below \o <<here>>) = K
        /\ \A i \in 1 .. K - 1 : (below \o <<here>>)[i] = open_dirs[i]
        /\ (below \o <<here>>)[K] = here
    <3>1. below \o <<here>> = Append(below, here)
      BY <1>11, AppendIsConcat
    <3> DEFINE S == FrameType'
    <3>2. below \in Seq(S) /\ here \in S
      BY <1>11
    <3> HIDE DEF S
    <3> HIDE DEF below
    <3>3. /\ Append(below, here) \in Seq(S) /\ Len(Append(below, here)) = Len(below) + 1
          /\ \A i \in 1 .. Len(below) : Append(below, here)[i] = below[i]
          /\ Append(below, here)[Len(below) + 1] = here
      BY <3>2, AppendProperties
    <3>4. Len(below) + 1 = K /\ 1 .. K - 1 = 1 .. Len(below)
      BY <1>4, SMT
    <3> QED
      BY <1>4, <3>1, <3>3, <3>4 DEF S
  <2>2. PICK b : b = below \o <<here>>
    OBVIOUS
  <2>3. CASE tree[n].kind = "dir"
    <3>1. top = <<new>> /\ open_dirs' = Append(b, new) /\ Len(top) = 1
      BY <1>11, <1>12, <2>1, <2>2, <2>3, AppendIsConcat
    <3>2. /\ Append(b, new) \in Seq(FrameType') /\ Len(Append(b, new)) = Len(b) + 1
          /\ \A i \in 1 .. Len(b) : Append(b, new)[i] = b[i]
          /\ Append(b, new)[Len(b) + 1] = new
      BY <1>11, <2>1, <2>2, AppendProperties
    <3>3. K - 1 \in Nat /\ \A i \in 1 .. K - 1 : i \in 1 .. K
      BY <1>4, SMT
    <3> QED
      BY <1>4, <2>1, <2>2, <2>3, <3>1, <3>2, <3>3
  <2>4. CASE tree[n].kind # "dir"
    <3>1. top = <<>> /\ open_dirs' = b /\ Len(top) = 0 /\ K + 0 = K
      BY <1>4, <1>12, <2>1, <2>2, <2>4, ConcatEmptySeq, EmptySeq, SMT
    <3> QED
      BY <1>4, <2>1, <2>2, <2>4, <3>1
  <2> QED
    BY <2>3, <2>4
<1> HIDE DEF top, below
<1>14. DOMAIN open_dirs' = 1 .. Len(open_dirs') /\ DOMAIN open_dirs = 1 .. K
       /\ (Len(top) = 0 => 1 .. Len(open_dirs') = 1 .. K)
       /\ (Len(top) = 1 => 1 .. Len(open_dirs') = (1 .. K) \cup {K + 1})
       /\ 1 .. K = (1 .. K - 1) \cup {K}
       /\ K + 1 \notin 1 .. K /\ K \notin 1 .. K - 1
  <2>1. DOMAIN open_dirs' = 1 .. Len(open_dirs') /\ DOMAIN open_dirs = 1 .. K
    BY <1>4, <1>13, LenProperties
  <2>2. \A k \in Nat \ {0} :
          /\ 1 .. k + 0 = 1 .. k /\ 1 .. k + 1 = (1 .. k) \cup {k + 1}
          /\ 1 .. k = (1 .. k - 1) \cup {k}
          /\ k + 1 \notin 1 .. k /\ k \notin 1 .. k - 1
    BY SMT
  <2>3. /\ Len(top) = 0 => Len(open_dirs') = K + 0
        /\ Len(top) = 1 => Len(open_dirs') = K + 1
    BY <1>13
  <2> QED
    BY <1>4, <2>1, <2>2, <2>3
<1>15. \A k, l \in 1 .. K : open_dirs[k].number = open_dirs[l].number => k = l
  BY <1>2 DEF WalkInv
<1>16. \A k \in 1 .. K : InOrder(open_dirs[k]) /\ open_dirs[k] \in FrameType
  <2>1. \A k \in 1 .. K : open_dirs[k] \in ToSet(open_dirs)
    BY <1>14 DEF ToSet
  <2> QED
    BY <1>2, <2>1 DEF WalkInv, InOrder
<1>17. \A g \in ToSet(open_dirs)' : InOrder(g)'
  <2>1. ASSUME NEW g, NEW i \in 1 .. Len(open_dirs'), g = open_dirs'[i]
        PROVE  InOrder(g)'
    <3>1. CASE i \in 1 .. K - 1
      <4>1. g = open_dirs[i] /\ i \in 1 .. K /\ i # K
        BY <1>13, <1>14, <2>1, <3>1
      <4>2. InOrder(g) /\ g \in FrameType /\ g.number # f.number
        BY <1>4, <1>14, <1>15, <1>16, <4>1
      <4> QED
        BY <1>2, <1>5, <1>6, <1>7, <4>2, OthersInOrder
    <3>2. CASE i = K
      BY <1>10, <1>13, <2>1, <3>2 DEF here
    <3>3. CASE i = K + 1 /\ Len(top) = 1
      BY <1>10, <1>13, <2>1, <3>3
    <3> QED
      BY <1>13, <1>14, <3>1, <3>2, <3>3
  <2>2. \A g \in ToSet(open_dirs)' : \E i \in 1 .. Len(open_dirs') : g = open_dirs'[i]
    BY <1>14 DEF ToSet
  <2> QED
    BY <2>1, <2>2
<1>18. \A k, l \in 1 .. Len(open_dirs') : open_dirs'[k].number = open_dirs'[l].number => k = l
  <2>1. \A k \in 1 .. K : open_dirs'[k].number = open_dirs[k].number /\ open_dirs[k].number # d
    <3>1. \A k \in 1 .. K : open_dirs'[k].number = open_dirs[k].number
      BY <1>4, <1>11, <1>13, <1>14
    <3>2. \A q \in Numbers : q # d
      BY <1>2, <1>6, TableShape, SMT
    <3> QED
      BY <1>16, <3>1, <3>2 DEF InOrder
  <2>2. Len(top) = 1 => open_dirs'[K + 1].number = d
    BY <1>11, <1>13
  <2>3. \A k, l \in 1 .. K : open_dirs'[k].number = open_dirs'[l].number => k = l
    BY <1>15, <2>1
  <2>4. \A k \in 1 .. K : open_dirs'[k].number # d
    BY <2>1
  <2>5. CASE Len(top) = 0
    BY <1>14, <2>3, <2>5
  <2>6. CASE Len(top) = 1
    BY <1>14, <2>2, <2>3, <2>4, <2>6
  <2> QED
    BY <1>13, <2>5, <2>6
<1>19. \A q \in Numbers' : Complete(q)' \/ \E g \in ToSet(open_dirs)' : g.number = q
  <2>1. \A i \in 1 .. Len(open_dirs') : open_dirs'[i] \in ToSet(open_dirs)'
    BY <1>14 DEF ToSet
  <2>2. here \in ToSet(open_dirs)' /\ (Len(top) = 1 => new \in ToSet(open_dirs)')
    <3>1. K \in 1 .. Len(open_dirs')
      BY <1>13, <1>14
    <3>2. Len(top) = 1 => K + 1 \in 1 .. Len(open_dirs')
      BY <1>14
    <3>3. open_dirs'[K] = here /\ (Len(top) = 1 => open_dirs'[K + 1] = new)
      BY <1>13
    <3>4. open_dirs'[K] \in ToSet(open_dirs)'
      BY <2>1, <3>1
    <3>5. Len(top) = 1 => open_dirs'[K + 1] \in ToSet(open_dirs)'
      BY <2>1, <3>2
    <3> QED
      BY <3>3, <3>4, <3>5
  <2>3. ASSUME NEW q \in Numbers
        PROVE  Complete(q)' \/ \E g \in ToSet(open_dirs)' : g.number = q
    <3>1. CASE q = f.number
      BY <1>11, <2>2, <3>1
    <3>2. CASE Complete(q) /\ q # f.number
      BY <1>2, <1>5, <1>6, <1>7, <3>2, OthersInOrder
    <3>3. CASE ~Complete(q) /\ q # f.number
      <4>1. PICK g \in ToSet(open_dirs) : g.number = q
        BY <1>2, <3>3 DEF WalkInv
      <4>2. PICK i \in 1 .. K : g = open_dirs[i]
        BY <1>14, <4>1 DEF ToSet
      <4>3. i \in 1 .. K - 1
        BY <1>4, <1>14, <3>3, <4>1, <4>2
      <4> QED
        BY <1>13, <1>14, <2>1, <4>1, <4>2, <4>3
    <3> QED
      BY <3>1, <3>2, <3>3
  <2>4. Complete(d)' \/ \E g \in ToSet(open_dirs)' : g.number = d
    BY <1>10, <1>11, <1>13, <2>2
  <2>5. Numbers' = Numbers \cup {d}
    BY <1>2, <1>6, <1>7, <1>8, EntriesAfter
  <2> QED
    BY <2>3, <2>4, <2>5
<1>20. id' = Len(dirents)'
  <2>1. Len(dirents)' = d + 1
    BY <1>2, <1>6, <1>7, <1>8, EntriesAfter
  <2>2. id' = (d + 1) % IdRange /\ d < TableSize
    BY <1>3
  <2>3. d \in Nat
    BY <1>2, <1>6, TableShape
  <2> QED
    BY <2>1, <2>2, <2>3, TableAssumption, SMT
<1>21. open_dirs'[1].number = 0
  <2>1. open_dirs[1].number = 0
    BY <1>2 DEF WalkInv
  <2>2. 1 = K \/ 1 \in 1 .. K - 1
    BY <1>4, SMT
  <2> QED
    BY <1>4, <1>11, <1>13, <2>1, <2>2
<1>22. open_dirs' # <<>>
  <2>1. Len(open_dirs') # 0
    BY <1>4, <1>13, SMT
  <2> QED
    BY <2>1, EmptySeq
<1>23. WalkInv'
  BY <1>2, <1>13, <1>17, <1>18, <1>19, <1>20, <1>21, <1>22 DEF WalkInv, traverse_dir
<1> QED
  BY <1>2, <1>9, <1>23 DEF TreeInv

\* A traversed directory has led to entries for all of its files.
LEMMA ReadIsComplete ==
  ASSUME Tables, Linked, NEW f, InOrder(f), f.left = {}, tree' = tree,
         dirents' = [dirents EXCEPT ![f.number + 1].first_child = f.last]
  PROVE  /\ Len(dirents') = Len(dirents) /\ dirents' \in Seq(EntryType') /\ Numbers' = Numbers
         /\ \A q \in Numbers : Kids(q)' = Kids(q) /\ Names(Kids(q))' = Names(Kids(q))
         /\ \A q \in Numbers : Entry(q)' = IF q = f.number THEN [Entry(q) EXCEPT !.first_child = f.last] ELSE Entry(q)
         /\ Linked'
         /\ \A q \in Numbers : q = f.number \/ Complete(q) => Complete(q)'
         /\ \A g \in FrameType : InOrder(g) => InOrder(g)'
<1> DEFINE D == Len(dirents)
           e == [Entry(f.number) EXCEPT !.first_child = f.last]
<1>1. D \in Nat \ {0} /\ Numbers = 0 .. D - 1 /\ 0 \in Numbers /\ dirents \in Seq(EntryType)
      /\ \A q \in Numbers : Entry(q) \in EntryType
  BY TableShape DEF Tables
<1>2. f.number \in Numbers /\ f.last \in Nat
  BY DEF InOrder, FrameType
<1>3. e \in EntryType /\ e.name = Entry(f.number).name /\ e.parent = Entry(f.number).parent
      /\ e.sibling = Entry(f.number).sibling /\ e.first_child = f.last
  <2>1. Entry(f.number) \in EntryType
    BY <1>1, <1>2
  <2> QED
    BY <1>2, <2>1 DEF EntryType
<1>4. \A q \in Numbers : q + 1 \in 1 .. D /\ (q + 1 = f.number + 1 <=> q = f.number)
  BY <1>1, <1>2, SMT
<1>5. dirents' = [dirents EXCEPT ![f.number + 1] = e]
  BY DEF Entry
<1> HIDE DEF e
<1>6. /\ dirents' \in Seq(EntryType) /\ Len(dirents') = D
      /\ \A j \in 1 .. D : dirents'[j] = IF j = f.number + 1 THEN e ELSE dirents[j]
  BY <1>1, <1>2, <1>3, <1>4, <1>5, ExceptSeq
<1>7. \A q \in Numbers : Entry(q)' = IF q = f.number THEN e ELSE Entry(q)
  BY <1>4, <1>6 DEF Entry
<1>8. Numbers' = Numbers /\ EntryType' = EntryType /\ Files(tree)' = Files(tree) /\ FrameType' = FrameType
  BY <1>6 DEF Numbers, EntryType, FrameType, Files
<1>9. \A q \in Numbers : /\ Entry(q)'.name = Entry(q).name /\ Entry(q)'.parent = Entry(q).parent
                         /\ Entry(q)'.sibling = Entry(q).sibling
                         /\ q # f.number => Entry(q)' = Entry(q)
  BY <1>3, <1>7
<1>10. \A q \in Numbers : Kids(q)' = Kids(q)
  BY <1>8, <1>9 DEF Kids
<1>11. ASSUME NEW q \in Numbers
       PROVE  Names(Kids(q))' = Names(Kids(q)) /\ In(tree, Entry(q).name)' = In(tree, Entry(q).name)
  <2>1. Names(Kids(q))' = {Entry(c)'.name : c \in Kids(q)}
    BY <1>10 DEF Names
  <2>2. \A c \in Kids(q) : Entry(c)'.name = Entry(c).name
    BY <1>9 DEF Kids
  <2>3. In(tree, Entry(q).name)' = In(tree, Entry(q).name)
    BY <1>8, <1>9 DEF In
  <2> QED
    BY <2>1, <2>2, <2>3 DEF Names
<1>12. Linked'
  <2>1. ASSUME NEW q \in Numbers \ {0}
        PROVE  \E p \in Numbers :
               /\ Entry(q)'.parent = p /\ p < q
               /\ tree'[Entry(q)'.name].parent = Entry(p)'.name
               /\ IsLastOf(Entry(q)'.sibling, {c \in Kids(p)' : c < q})
    <3>1. PICK p \in Numbers :
               /\ Entry(q).parent = p /\ p < q
               /\ tree[Entry(q).name].parent = Entry(p).name
               /\ IsLastOf(Entry(q).sibling, {c \in Kids(p) : c < q})
      BY DEF Linked
    <3>2. Kids(p)' = Kids(p) /\ Entry(p)'.name = Entry(p).name
      BY <1>9, <1>10
    <3> QED
      BY <1>9, <3>1, <3>2
  <2>2. Entry(0)'.name = 1 /\ Entry(0)'.sibling = 0
    BY <1>1, <1>9 DEF Linked
  <2>3. \A q, r \in Numbers : Entry(q)'.name = Entry(r)'.name => q = r
    BY <1>9 DEF Linked
  <2> QED
    BY <1>8, <2>1, <2>2, <2>3 DEF Linked, IsLastOf
<1>13. ASSUME NEW q \in Numbers, q = f.number \/ Complete(q)
       PROVE  Complete(q)'
  <2>1. Kids(q)' = Kids(q) /\ Names(Kids(q))' = Names(Kids(q)) /\ In(tree, Entry(q).name)' = In(tree, Entry(q).name)
    BY <1>10, <1>11
  <2>2. CASE q = f.number
    <3>1. IsLastOf(f.last, Kids(q)) /\ Entry(q)'.first_child = f.last
      BY <1>3, <1>7, <2>2 DEF InOrder
    <3>2. Names(Kids(q)) = In(tree, Entry(q).name)
      <4>1. Entry(q).name = f.dir /\ In(tree, f.dir) \subseteq Names(Kids(q))
        BY <2>2 DEF InOrder
      <4>2. ASSUME NEW c \in Kids(q)
            PROVE  Entry(c).name \in In(tree, Entry(q).name)
        <5>1. c \in Numbers \ {0} /\ Entry(c).parent = q
          BY DEF Kids
        <5>2. tree[Entry(c).name].parent = Entry(q).name
          BY <5>1 DEF Linked
        <5>3. Entry(c).name \in Files(tree) /\ Entry(c).name # 1
          BY <1>1, <5>1, TableShape DEF Linked
        <5> QED
          BY <5>2, <5>3 DEF In
      <4> QED
        BY <4>1, <4>2 DEF Names
    <3> QED
      BY <2>1, <3>1, <3>2 DEF Complete, IsLastOf
  <2>3. CASE Complete(q) /\ q # f.number
    BY <1>9, <2>1, <2>3 DEF Complete, IsLastOf
  <2> QED
    BY <1>13, <2>2, <2>3
<1>14. ASSUME NEW g \in FrameType, InOrder(g)
       PROVE  InOrder(g)'
  <2>1. g.number \in Numbers /\ g \in FrameType'
    BY <1>8, <1>14 DEF InOrder
  <2>2. Kids(g.number)' = Kids(g.number) /\ Names(Kids(g.number))' = Names(Kids(g.number))
        /\ Entry(g.number)'.name = Entry(g.number).name
    BY <1>9, <1>10, <1>11, <2>1
  <2>3. In(tree, g.dir)' = In(tree, g.dir)
    BY <1>8 DEF In
  <2> QED
    BY <1>8, <1>14, <2>1, <2>2, <2>3 DEF InOrder, IsLastOf
<1> QED
  BY <1>6, <1>7, <1>8, <1>10, <1>11, <1>12, <1>13, <1>14 DEF e

LEMMA StoredStays ==
  ASSUME Stored, Tables, tree' = tree, Numbers' = Numbers, out_data' = out_data,
         \A q \in Numbers : Entry(q)'.name = Entry(q).name,
         Inode(0)'.size = Inode(0).size, \A q \in Numbers \ {0} : Inode(q)' = Inode(q)
  PROVE  Stored'
<1>1. Files(tree)' = Files(tree)
  BY DEF Files
<1>2. ASSUME NEW o, NEW n
      PROVE  Holds(o, n)' <=> Holds(o, n)
  BY DEF Holds
<1>3. ASSUME NEW q \in Numbers \ {0}, NEW n \in Files(tree), Entry(q).name = n
      PROVE  /\ Inode(q)'.mode = tree[n].kind
             /\ tree[n].kind # "dir" => Inode(q)'.size = tree[n].size /\ Holds(Inode(q).data, n)'
  <2>1. PICK o : o = Inode(q).data
    OBVIOUS
  <2>2. Inode(q)' = Inode(q) /\ Inode(q)'.data = o
    BY <2>1
  <2>3. Inode(q).mode = tree[n].kind /\ (tree[n].kind # "dir" => Inode(q).size = tree[n].size /\ Holds(o, n))
    BY <1>3, <2>1 DEF Stored
  <2> QED
    BY <1>2, <2>2, <2>3 DEF Holds
<1> QED
  BY <1>1, <1>3 DEF Stored

\* The call on top of the stack, and the others.
LEMMA TopIs ==
  ASSUME WalkInv
  PROVE  /\ open_dirs \in Seq(FrameType) /\ Len(open_dirs) \in Nat \ {0}
         /\ DOMAIN open_dirs = 1 .. Len(open_dirs) /\ Len(open_dirs) \in 1 .. Len(open_dirs)
         /\ Top \in ToSet(open_dirs) /\ InOrder(Top)
         /\ Below \in Seq(FrameType) /\ Len(Below) = Len(open_dirs) - 1
         /\ \A i \in 1 .. Len(open_dirs) - 1 : Below[i] = open_dirs[i]
<1>1. open_dirs \in Seq(FrameType) /\ open_dirs # <<>>
  BY DEF WalkInv
<1>2. Len(open_dirs) \in Nat \ {0} /\ DOMAIN open_dirs = 1 .. Len(open_dirs) /\ Len(open_dirs) \in 1 .. Len(open_dirs)
  <2>1. Len(open_dirs) \in Nat \ {0} /\ DOMAIN open_dirs = 1 .. Len(open_dirs)
    BY <1>1, EmptySeq, LenProperties
  <2> QED
    BY <2>1, SMT
<1>3. Top \in ToSet(open_dirs)
  BY <1>2 DEF ToSet, Top
<1>4. Below \in Seq(FrameType) /\ Len(Below) = Len(open_dirs) - 1
      /\ \A i \in 1 .. Len(open_dirs) - 1 : Below[i] = open_dirs[i]
  BY <1>1, FrontOf DEF Below
<1>5. InOrder(Top)
  BY <1>3 DEF WalkInv
<1> QED
  BY <1>1, <1>2, <1>3, <1>4, <1>5

LEMMA DirectoryReadKeeps == TreeInv /\ DirectoryRead => TreeInv'
<1> SUFFICES ASSUME TreeInv, DirectoryRead
             PROVE  TreeInv'
  OBVIOUS
<1> DEFINE K == Len(open_dirs)
<1> PICK f : f = Top
  OBVIOUS
<1>1. /\ image_stage = "makefs" /\ image_stage' = image_stage /\ Tables /\ Linked /\ Stored /\ WalkInv
      /\ inodes' = inodes /\ out_data' = out_data /\ tree' = tree /\ id' = id /\ kernel' = kernel
      /\ dirents' = [dirents EXCEPT ![f.number + 1].first_child = f.last]
      /\ f.left = {} /\ open_dirs' = Below /\ K > 1
  BY DEF TreeInv, DirectoryRead, ReturnsTo
<1>2. /\ open_dirs \in Seq(FrameType) /\ K \in Nat \ {0}
      /\ DOMAIN open_dirs = 1 .. K /\ K \in 1 .. K
      /\ f \in ToSet(open_dirs) /\ f = open_dirs[K] /\ InOrder(f)
      /\ open_dirs' \in Seq(FrameType) /\ Len(open_dirs') = K - 1
      /\ \A i \in 1 .. K - 1 : open_dirs'[i] = open_dirs[i]
  BY <1>1, TopIs DEF Top
<1>3. /\ Len(dirents') = Len(dirents) /\ dirents' \in Seq(EntryType') /\ Numbers' = Numbers
      /\ \A q \in Numbers : Entry(q)' = IF q = f.number THEN [Entry(q) EXCEPT !.first_child = f.last] ELSE Entry(q)
      /\ Linked'
      /\ \A q \in Numbers : q = f.number \/ Complete(q) => Complete(q)'
      /\ \A g \in FrameType : InOrder(g) => InOrder(g)'
  BY <1>1, <1>2, ReadIsComplete
<1>4. Tables'
  BY <1>1, <1>3 DEF Tables, InodeType
<1>5. Stored'
  <2>1. \A q \in Numbers : Entry(q)'.name = Entry(q).name
    BY <1>1, <1>3, TableShape DEF EntryType
  <2>2. \A q : Inode(q)' = Inode(q)
    BY <1>1 DEF Inode
  <2> QED
    BY <1>1, <1>3, <2>1, <2>2, StoredStays
<1>6. FrameType' = FrameType
  BY <1>1 DEF FrameType, Files
<1>7. DOMAIN open_dirs' = 1 .. K - 1 /\ (\A i \in 1 .. K : i \in 1 .. K - 1 \/ i = K)
      /\ (\A i \in 1 .. K - 1 : i \in 1 .. K) /\ 1 \in 1 .. K - 1
  <2>1. DOMAIN open_dirs' = 1 .. K - 1
    BY <1>2, LenProperties
  <2>2. \A k \in Nat \ {0} : k > 1 =>
          (\A i \in 1 .. k : i \in 1 .. k - 1 \/ i = k) /\ (\A i \in 1 .. k - 1 : i \in 1 .. k) /\ 1 \in 1 .. k - 1
    BY SMT
  <2> QED
    BY <1>1, <1>2, <2>1, <2>2
<1>8. ToSet(open_dirs') \subseteq ToSet(open_dirs)
      /\ \A g \in ToSet(open_dirs) : g = f \/ g \in ToSet(open_dirs')
  <2>1. \A g \in ToSet(open_dirs') : \E i \in 1 .. K - 1 : g = open_dirs'[i]
    BY <1>7 DEF ToSet
  <2>2. \A g \in ToSet(open_dirs) : \E i \in 1 .. K : g = open_dirs[i]
    BY <1>2 DEF ToSet
  <2>3. \A i \in 1 .. K : open_dirs[i] \in ToSet(open_dirs)
    BY <1>2 DEF ToSet
  <2>4. \A i \in 1 .. K - 1 : open_dirs'[i] \in ToSet(open_dirs')
    BY <1>7 DEF ToSet
  <2>5. ASSUME NEW g \in ToSet(open_dirs')
        PROVE  g \in ToSet(open_dirs)
    <3>1. PICK i \in 1 .. K - 1 : g = open_dirs'[i]
      BY <2>1
    <3>2. g = open_dirs[i] /\ i \in 1 .. K
      BY <1>2, <1>7, <3>1
    <3> QED
      BY <2>3, <3>2
  <2>6. ASSUME NEW g \in ToSet(open_dirs)
        PROVE  g = f \/ g \in ToSet(open_dirs')
    <3>1. PICK i \in 1 .. K : g = open_dirs[i]
      BY <2>2
    <3>2. CASE i = K
      BY <1>2, <3>1, <3>2
    <3>3. CASE i \in 1 .. K - 1
      BY <1>2, <2>4, <3>1, <3>3
    <3> QED
      BY <1>7, <3>2, <3>3
  <2> QED
    BY <2>5, <2>6
<1>9. open_dirs' # <<>>
  BY <1>7, EmptySeq
<1>10. WalkInv'
  <2>1. \A g \in ToSet(open_dirs') : InOrder(g)'
    BY <1>1, <1>3, <1>8 DEF WalkInv, InOrder
  <2>2. \A k, l \in 1 .. Len(open_dirs') : open_dirs'[k].number = open_dirs'[l].number => k = l
    BY <1>1, <1>2, <1>7 DEF WalkInv
  <2>3. \A q \in Numbers : Complete(q)' \/ \E g \in ToSet(open_dirs') : g.number = q
    BY <1>1, <1>3, <1>8 DEF WalkInv
  <2>4. open_dirs'[1].number = 0
    BY <1>1, <1>2, <1>7 DEF WalkInv
  <2>5. id' = Len(dirents') /\ kernel' = <<>>
    BY <1>1, <1>3 DEF WalkInv
  <2> QED
    BY <1>2, <1>3, <1>6, <1>9, <2>1, <2>2, <2>3, <2>4, <2>5 DEF WalkInv
<1> QED
  BY <1>1, <1>3, <1>4, <1>5, <1>10 DEF TreeInv

LEMMA ImageWrittenKeeps == TreeInv /\ ImageWritten => TreeInv'
<1> SUFFICES ASSUME TreeInv, ImageWritten
             PROVE  TreeInv'
  OBVIOUS
<1> PICK f : f = Top
  OBVIOUS
<1> DEFINE c == [parent |-> 0, number |-> 0]
<1>1. /\ image_stage = "makefs" /\ image_stage' = "boot" /\ Tables /\ Linked /\ Stored /\ WalkInv
      /\ out_data' = out_data /\ tree' = tree /\ id' = id /\ kernel' = kernel
      /\ dirents' = [dirents EXCEPT ![0 + 1].first_child = f.last]
      /\ inodes' = [inodes EXCEPT ![1].mode = "none"]
      /\ calls' = <<c>>
      /\ f.left = {} /\ Len(open_dirs) = 1
  BY DEF TreeInv, ImageWritten, ReturnsTo
<1>2. f \in ToSet(open_dirs) /\ f = open_dirs[1] /\ InOrder(f) /\ f.number = 0 /\ DOMAIN open_dirs = {1}
  <2>1. 1 .. 1 = {1}
    BY SMT
  <2> QED
    BY <1>1, <2>1, TopIs DEF Top, WalkInv
<1>3. /\ Len(dirents') = Len(dirents) /\ dirents' \in Seq(EntryType') /\ Numbers' = Numbers
      /\ \A q \in Numbers : Entry(q)' = IF q = f.number THEN [Entry(q) EXCEPT !.first_child = f.last] ELSE Entry(q)
      /\ Linked'
      /\ \A q \in Numbers : q = f.number \/ Complete(q) => Complete(q)'
  BY <1>1, <1>2, ReadIsComplete
<1>4. /\ inodes' \in Seq(InodeType) /\ Len(inodes') = Len(inodes)
      /\ Inode(0)'.size = Inode(0).size
      /\ \A q \in Numbers \ {0} : Inode(q)' = Inode(q)
  <2> DEFINE i == [inodes[1] EXCEPT !.mode = "none"]
  <2>1. inodes \in Seq(InodeType) /\ 1 \in 1 .. Len(inodes)
    BY <1>1, TableShape, SMT DEF Tables
  <2>2. inodes[1] \in InodeType
    BY <2>1, ElementOfSeq
  <2>3. i \in InodeType /\ i.size = inodes[1].size
    BY <2>2 DEF InodeType
  <2>4. inodes' = [inodes EXCEPT ![1] = i]
    BY <1>1
  <2> HIDE DEF i
  <2>5. /\ inodes' \in Seq(InodeType) /\ Len(inodes') = Len(inodes)
        /\ \A j \in 1 .. Len(inodes) : inodes'[j] = IF j = 1 THEN i ELSE inodes[j]
    BY <2>1, <2>3, <2>4, ExceptSeq
  <2>6. \A q \in Numbers \ {0} : q + 1 \in 1 .. Len(inodes) /\ q + 1 # 1
    BY <1>1, TableShape, SMT DEF Tables
  <2>7. Inode(0)'.size = Inode(0).size
    BY <2>1, <2>3, <2>5 DEF Inode
  <2> QED
    BY <2>5, <2>6, <2>7 DEF Inode
<1>5. Tables'
  BY <1>1, <1>3, <1>4 DEF Tables, InodeType
<1>6. Stored'
  <2>1. \A q \in Numbers : Entry(q)'.name = Entry(q).name
    BY <1>1, <1>3, TableShape DEF EntryType
  <2> QED
    BY <1>1, <1>3, <1>4, <2>1, StoredStays
<1>7. \A q \in Numbers : Complete(q)'
  <2>1. \A g \in ToSet(open_dirs) : g = f
    BY <1>2 DEF ToSet
  <2> QED
    BY <1>1, <1>3, <2>1 DEF WalkInv
<1>8. kernel' = <<>> /\ Len(kernel') = 0 /\ (\A m : m \notin 1 .. Len(kernel'))
  <2>1. kernel' = <<>> /\ Len(kernel') = 0
    BY <1>1, EmptySeq DEF WalkInv
  <2>2. \A m : m \notin 1 .. 0
    BY SMT
  <2> QED
    BY <2>1, <2>2
<1>9. KernelInv'
  <2>1. kernel' \in Seq(KernelType')
    BY <1>8, EmptySeq
  <2> QED
    BY <1>8, <2>1 DEF KernelInv
<1>10. CallsInv'
  <2>1. 0 \in Numbers'
    BY <1>1, <1>3, TableShape
  <2>2. c \in [parent : Nat, number : Numbers']
    BY <2>1
  <2>3. calls' \in Seq([parent : Nat, number : Numbers']) /\ Len(calls') = 1 /\ calls'[1] = c /\ 1 .. 1 = {1}
    BY <1>1, <2>2, SMT
  <2>4. ToSet(calls') = {c}
    <3>1. DOMAIN calls' = {1}
      BY <1>1, SMT
    <3> QED
      BY <2>3, <3>1 DEF ToSet
  <2>5. \A q : ~Made(q)'
    BY <1>8 DEF Made
  <2>6. \A g \in ToSet(calls') : Under(g.parent, g.number)'
    BY <2>4 DEF Under
  <2>7. \A q : Called(q)' <=> q = 0
    BY <2>4 DEF Called
  <2> QED
    BY <2>3, <2>4, <2>5, <2>6, <2>7 DEF CallsInv
<1> QED
  BY <1>1, <1>3, <1>5, <1>6, <1>7, <1>9, <1>10 DEF TreeInv

----------------------------------------------------------------------------
(* initrd::cache *)

\* An entry is led to by one other, and that one leads to it in one way.
LEMMA OneLeads ==
  ASSUME Tables, Linked, \A q \in Numbers : Complete(q)
  PROVE  /\ \A q, r, x \in Numbers : LeadsTo(q, x) /\ LeadsTo(r, x) => q = r
         /\ \A q, x \in Numbers : LeadsTo(q, x) => x # q /\ Entry(q).first_child # Entry(q).sibling
         /\ \A q, x \in Numbers : LeadsTo(q, x) =>
              IF Entry(q).first_child = x THEN Entry(x).parent = q
              ELSE q # 0 /\ Entry(x).parent = Entry(q).parent
         /\ \A q \in Numbers : Entry(q).first_child \in Numbers /\ Entry(q).sibling \in Numbers
<1>1. Numbers \subseteq Nat /\ 0 \in Numbers
  BY TableShape, SMT
<1>2. ASSUME NEW q \in Numbers, NEW x \in Numbers, x # 0, Entry(q).first_child = x
      PROVE  Entry(x).parent = q /\ x > q /\ \A c \in Kids(q) : c <= x
  <2>1. x \in Kids(q) /\ \A c \in Kids(q) : c <= x
    BY <1>2 DEF Complete, IsLastOf
  <2>2. Entry(x).parent = q
    BY <2>1 DEF Kids
  <2>3. q < x
    <3>1. \A r \in Numbers \ {0} : \E p \in Numbers : Entry(r).parent = p /\ p < r
      BY DEF Linked
    <3>2. x \in Numbers \ {0}
      BY <1>2
    <3>3. PICK p \in Numbers : Entry(x).parent = p /\ p < x
      BY <3>1, <3>2
    <3> QED
      BY <2>2, <3>3
  <2> QED
    BY <1>1, <2>1, <2>2, <2>3, SMT
<1>3. ASSUME NEW q \in Numbers, NEW x \in Numbers, x # 0, Entry(q).sibling = x
      PROVE  q # 0 /\ Entry(x).parent = Entry(q).parent /\ x < q
             /\ \A c \in Kids(Entry(q).parent) : c < q => c <= x
  <2>1. q # 0
    BY <1>3 DEF Linked
  <2>2. PICK p \in Numbers : Entry(q).parent = p /\ IsLastOf(x, {c \in Kids(p) : c < q})
    BY <1>3, <2>1 DEF Linked
  <2> QED
    BY <1>3, <2>1, <2>2 DEF IsLastOf, Kids
<1>4. ASSUME NEW q \in Numbers
      PROVE  Entry(q).first_child \in Numbers /\ Entry(q).sibling \in Numbers
  <2>1. Entry(q).first_child \in Numbers
    BY <1>1 DEF Complete, IsLastOf, Kids
  <2>2. Entry(q).sibling \in Numbers
    BY <1>1 DEF Linked, IsLastOf, Kids
  <2> QED
    BY <2>1, <2>2
<1>6. \A q \in Numbers \ {0} : q \in Kids(Entry(q).parent)
  BY DEF Kids
<1>7. ASSUME NEW q \in Numbers, NEW r \in Numbers, NEW x \in Numbers, x # 0,
             Entry(q).first_child = x, Entry(r).sibling = x
      PROVE  FALSE
  <2>1. Entry(x).parent = q /\ \A c \in Kids(q) : c <= x
    BY <1>2, <1>7
  <2>2. r # 0 /\ Entry(r).parent = q /\ x < r
    BY <1>3, <1>7, <2>1
  <2>3. r \in Kids(q)
    BY <1>6, <2>2
  <2> QED
    BY <1>1, <2>1, <2>2, <2>3, SMT
<1>8. ASSUME NEW q \in Numbers, NEW r \in Numbers, NEW x \in Numbers, x # 0,
             Entry(q).sibling = x, Entry(r).sibling = x
      PROVE  q = r
  <2>1. q # 0 /\ x < q /\ \A c \in Kids(Entry(q).parent) : c < q => c <= x
    BY <1>3, <1>8
  <2>2. r # 0 /\ x < r /\ \A c \in Kids(Entry(r).parent) : c < r => c <= x
    BY <1>3, <1>8
  <2>3. Entry(q).parent = Entry(r).parent
    BY <1>3, <1>8
  <2>4. q \in Kids(Entry(r).parent) /\ r \in Kids(Entry(q).parent)
    BY <1>6, <2>1, <2>2, <2>3
  <2>5. ~(r < q) /\ ~(q < r)
    BY <1>1, <2>1, <2>2, <2>4, SMT
  <2> QED
    BY <1>1, <2>5, SMT
<1>9. ASSUME NEW q \in Numbers, NEW r \in Numbers, NEW x \in Numbers, LeadsTo(q, x), LeadsTo(r, x)
      PROVE  q = r
  BY <1>2, <1>7, <1>8, <1>9 DEF LeadsTo
<1>10. ASSUME NEW q \in Numbers, NEW x \in Numbers, LeadsTo(q, x)
       PROVE  x # q /\ Entry(q).first_child # Entry(q).sibling
  <2>1. x # q
    BY <1>1, <1>2, <1>3, <1>10, SMT DEF LeadsTo
  <2>2. Entry(q).first_child # Entry(q).sibling
    BY <1>7, <1>10 DEF LeadsTo
  <2> QED
    BY <2>1, <2>2
<1>11. ASSUME NEW q \in Numbers, NEW x \in Numbers, LeadsTo(q, x)
       PROVE  IF Entry(q).first_child = x THEN Entry(x).parent = q
              ELSE q # 0 /\ Entry(x).parent = Entry(q).parent
  BY <1>2, <1>3, <1>11 DEF LeadsTo
<1> QED
  BY <1>4, <1>9, <1>10, <1>11

\* Nothing but the calls for the entries that were made leads to an entry.
LEMMA SomeLeads ==
  ASSUME Tables, Linked, \A q \in Numbers : Complete(q), NEW x \in Numbers \ {0}
  PROVE  \E q \in Numbers : LeadsTo(q, x) /\
           (q = Entry(x).parent \/ (q > x /\ q \in Kids(Entry(x).parent)))
<1> DEFINE p == Entry(x).parent
           S == {c \in Kids(p) : x < c}
<1>1. p \in Numbers /\ x \in Kids(p)
  BY DEF Linked, Kids
<1>2. Numbers = 0 .. Len(dirents) - 1 /\ Len(dirents) \in Nat \ {0} /\ Kids(p) \subseteq Numbers \ {0}
  BY TableShape DEF Kids
<1>3. CASE S = {}
  <2>1. IsLastOf(Entry(p).first_child, Kids(p))
    BY <1>1 DEF Complete
  <2>2. PICK y : y = Entry(p).first_child
    OBVIOUS
  <2>3. y \in Kids(p) \cup {0} /\ x <= y
    BY <1>1, <2>1, <2>2 DEF IsLastOf
  <2>4. y = x
    <3>1. ~(x < y) \/ y = 0
      BY <1>3, <2>3
    <3>2. y \in Nat /\ x \in Nat /\ x # 0
      BY <1>2, <2>3, SMT
    <3> QED
      BY <2>3, <3>1, <3>2, SMT
  <2> QED
    BY <1>1, <2>2, <2>4 DEF LeadsTo
<1>4. CASE S # {}
  <2>1. PICK q \in S : \A r \in S : q <= r
    <3>1. S \subseteq Nat
      BY <1>2, SMT
    <3> HIDE DEF S
    <3> QED
      BY <1>4, <3>1, LeastExists
  <2>2. q \in Numbers \ {0} /\ Entry(q).parent = p /\ x < q /\ q \in Kids(p)
    BY DEF Kids
  <2>3. IsLastOf(Entry(q).sibling, {c \in Kids(p) : c < q})
    BY <2>2 DEF Linked
  <2>4. PICK y : y = Entry(q).sibling
    OBVIOUS
  <2>5. x <= y /\ (y = 0 \/ (y \in Kids(p) /\ y < q))
    BY <1>1, <2>2, <2>3, <2>4 DEF IsLastOf
  <2>6. y = x
    <3>1. y \in Nat /\ x \in Nat /\ x # 0 /\ q \in Nat
      BY <1>2, <2>2, <2>5, SMT
    <3>2. x < y => y \in S
      BY <2>5, <3>1, SMT
    <3>3. y \in S => q <= y
      BY <2>1
    <3> QED
      BY <2>5, <3>1, <3>2, <3>3, SMT
  <2>7. q > x
    BY <1>2, <2>2, SMT
  <2> QED
    BY <2>2, <2>4, <2>6, <2>7 DEF LeadsTo
<1> QED
  BY <1>3, <1>4

LEMMA TablesStay ==
  ASSUME UNCHANGED hostVars
  PROVE  /\ Numbers' = Numbers /\ tree' = tree /\ Files(tree)' = Files(tree)
         /\ \A q : Entry(q)' = Entry(q) /\ KindOf(q)' = KindOf(q) /\ ContentOf(q)' = ContentOf(q)
         /\ \A q, r : LeadsTo(q, r)' <=> LeadsTo(q, r)
         /\ \A q \in Numbers : Complete(q) => Complete(q)'
         /\ Tables => Tables'
         /\ Linked => Linked'
         /\ Stored /\ Tables => Stored'
<1>1. tree' = tree /\ dirents' = dirents /\ inodes' = inodes /\ out_data' = out_data
  BY DEF hostVars
<1>2. Numbers' = Numbers /\ Files(tree)' = Files(tree) /\ EntryType' = EntryType
  BY <1>1 DEF Numbers, Files, EntryType
<1>3. \A q : Entry(q)' = Entry(q) /\ Inode(q)' = Inode(q)
  BY <1>1 DEF Entry, Inode
<1>4. \A q : Kids(q)' = Kids(q)
  BY <1>2, <1>3 DEF Kids
<1>5. ASSUME NEW q
      PROVE  KindOf(q)' = KindOf(q) /\ ContentOf(q)' = ContentOf(q)
  BY <1>1, <1>3 DEF KindOf, ContentOf, BytesOf
<1>6. ASSUME NEW q, NEW r
      PROVE  LeadsTo(q, r)' <=> LeadsTo(q, r)
  BY <1>3 DEF LeadsTo
<1>7. ASSUME NEW q \in Numbers, Complete(q)
      PROVE  Complete(q)'
  <2>1. Names(Kids(q))' = Names(Kids(q))
    BY <1>3, <1>4 DEF Names
  <2>2. In(tree, Entry(q).name)' = In(tree, Entry(q).name)
    BY <1>1, <1>3 DEF In, Files
  <2> QED
    BY <1>3, <1>4, <1>7, <2>1, <2>2 DEF Complete, IsLastOf
<1>8. Tables => Tables'
  BY <1>1, <1>2 DEF Tables, InodeType
<1>9. Linked => Linked'
  BY <1>1, <1>2, <1>3, <1>4 DEF Linked, IsLastOf
<1>10. Stored /\ Tables => Stored'
  BY <1>1, <1>2, <1>3, StoredStays
<1> QED
  BY <1>1, <1>2, <1>3, <1>5, <1>6, <1>7, <1>8, <1>9, <1>10

\* What the kernel makes of an entry.
LEMMA EntryMade ==
  ASSUME Tables, Stored, NEW q \in Numbers, NEW p \in Nat
  PROVE  LET e == KernelEntry(q, p)
         IN /\ e \in KernelType
            /\ e.ino = q /\ e.parent = p /\ e.ident = Entry(q).name /\ e.children = <<>>
            /\ q # 0 => e.kind = KindOf(q) /\ e.bytes = ContentOf(q)
<1> DEFINE i == Inode(q)
           n == Entry(q).name
           k == IF i.mode = "dir" THEN "directory_like" ELSE "rdfs_inode"
           b == IF i.mode = "dir" THEN <<>> ELSE SubSeq(out_data, i.data + 1, i.data + i.size)
<1>1. KernelEntry(q, p) = [ident |-> n, parent |-> p, ino |-> q, kind |-> k, bytes |-> b, children |-> <<>>]
  BY DEF KernelEntry, Entry, Inode
<1>2. n \in Files(tree) /\ i.size \in Nat /\ i.data \in Nat /\ out_data \in Seq(Nat \X Nat)
  <2>1. q + 1 \in 1 .. Len(inodes)
    BY TableShape, SMT DEF Tables
  <2>2. i \in InodeType
    BY <2>1, ElementOfSeq DEF Tables, Inode
  <2> QED
    BY <2>2, TableShape DEF InodeType, Tables
<1>3. q = 0 => b \in Seq(Nat \X Nat)
  <2> SUFFICES ASSUME q = 0, i.mode # "dir"
               PROVE  b \in Seq(Nat \X Nat)
    BY EmptySeq
  <2>1. i.size = 0
    BY DEF Stored
  <2>2. \A d \in Nat : d + 1 \in Int /\ d + 0 \in Int /\ d + 0 < d + 1
    BY SMT
  <2>3. SubSeq(out_data, i.data + 1, i.data + 0) = <<>>
    BY <1>2, <2>2, SubSeqEmpty
  <2>4. b = <<>>
    BY <2>1, <2>3
  <2> HIDE DEF b
  <2> QED
    BY <2>4, EmptySeq
<1>4. q # 0 => b \in Seq(Nat \X Nat) /\ k = KindOf(q) /\ b = ContentOf(q)
  <2> SUFFICES ASSUME q # 0
               PROVE  b \in Seq(Nat \X Nat) /\ k = KindOf(q) /\ b = ContentOf(q)
    OBVIOUS
  <2>1. i.mode = tree[n].kind
        /\ (tree[n].kind # "dir" => i.size = tree[n].size /\ Holds(i.data, n))
    BY <1>2 DEF Stored
  <2>2. CASE tree[n].kind = "dir"
    BY <2>1, <2>2, EmptySeq DEF KindOf, ContentOf
  <2>3. CASE tree[n].kind # "dir"
    <3> DEFINE s == tree[n].size
               t == SubSeq(out_data, i.data + 1, i.data + i.size)
               w == [j \in 1 .. s |-> <<n, j>>]
    <3> PICK d : d = i.data
      OBVIOUS
    <3>1. d \in Nat /\ s \in Nat /\ Len(out_data) \in Nat /\ d + s <= Len(out_data) /\ n \in Nat /\ i.size = s
          /\ \A j \in 1 .. s : out_data[d + j] = <<n, j>>
      <4>1. n \in Nat
        BY <1>2, TreeShape, SMT DEF Tables
      <4> QED
        BY <1>2, <2>1, <2>3, <4>1, LenProperties DEF Holds
    <3>2. \A j \in d + 1 .. d + s : out_data[j] \in Nat \X Nat
      <4>1. \A j \in d + 1 .. d + s : j - d \in 1 .. s /\ d + (j - d) = j
        <5>1. \A e, z \in Nat : \A j \in e + 1 .. e + z : j - e \in 1 .. z /\ e + (j - e) = j
          BY SMT
        <5>2. PICK z \in Nat : z = s
          BY <3>1
        <5>3. \A j \in d + 1 .. d + z : j - d \in 1 .. z /\ d + (j - d) = j
          BY <3>1, <5>1
        <5> QED
          BY <5>2, <5>3
      <4>2. \A j \in 1 .. s : <<n, j>> \in Nat \X Nat
        BY <3>1, SMT
      <4>3. ASSUME NEW j \in d + 1 .. d + s
            PROVE  out_data[j] \in Nat \X Nat
        <5>1. PICK l \in 1 .. s : l = j - d /\ d + l = j
          BY <4>1
        <5>2. out_data[d + l] = <<n, l>>
          BY <3>1
        <5>3. <<n, l>> \in Nat \X Nat
          BY <4>2
        <5> QED
          BY <5>1, <5>2, <5>3
      <4> QED
        BY <4>3
    <3> HIDE DEF s
    <3> PICK lo, hi : lo = d + 1 /\ hi = d + s
      OBVIOUS
    <3>0. d \in Nat /\ s \in Nat /\ n \in Nat
      BY <3>1
    <3>3. lo \in Int /\ hi \in Int /\ (IF lo <= hi THEN hi - lo + 1 ELSE 0) = s /\ hi - lo + 1 = s
          /\ \A j \in 1 .. s : lo + j - 1 = d + j
      BY <3>0, SMT
    <3>4. /\ SubSeq(out_data, lo, hi) \in Seq(Nat \X Nat)
          /\ Len(SubSeq(out_data, lo, hi)) = IF lo <= hi THEN hi - lo + 1 ELSE 0
          /\ \A j \in 1 .. hi - lo + 1 : SubSeq(out_data, lo, hi)[j] = out_data[lo + j - 1]
      BY <3>2, <3>3, SubSeqProperties
    <3>5. t = SubSeq(out_data, lo, hi)
      BY <3>1
    <3> HIDE DEF t
    <3>6. \A j \in 1 .. s : t[j] = out_data[d + j]
      <4>1. ASSUME NEW j \in 1 .. s
            PROVE  t[j] = out_data[d + j]
        <5>1. j \in 1 .. hi - lo + 1 /\ lo + j - 1 = d + j
          BY <3>3
        <5>2. t[j] = out_data[lo + j - 1]
          BY <3>4, <3>5, <5>1
        <5> QED
          BY <5>1, <5>2
      <4> QED
        BY <4>1
    <3>7. Len(t) = s /\ (\A j \in 1 .. s : t[j] = <<n, j>>) /\ t \in Seq(Nat \X Nat)
      BY <3>1, <3>3, <3>4, <3>5, <3>6
    <3>8. w \in Seq(Nat \X Nat) /\ Len(w) = s /\ \A j \in 1 .. s : w[j] = <<n, j>>
      BY <3>0, SMT
    <3>9. w = BytesOf(tree, n)
      BY DEF BytesOf, s
    <3> HIDE DEF w
    <3>10. t = w
      BY <3>7, <3>8, SeqEqual
    <3> QED
      BY <2>1, <2>3, <3>7, <3>9, <3>10 DEF KindOf, ContentOf, t
  <2> QED
    BY <2>2, <2>3
<1> HIDE DEF b, i
<1>5. b \in Seq(Nat \X Nat) /\ <<>> \in Seq(Nat)
  BY <1>3, <1>4, EmptySeq
<1>6. KernelEntry(q, p) \in KernelType
  BY <1>1, <1>2, <1>5 DEF KernelType
<1> QED
  BY <1>1, <1>4, <1>6

CallType == [parent : Nat, number : Numbers]

\* No two calls are for the same entry.
Apart(s) == \A i, j \in 1 .. Len(s) : s[i].number = s[j].number => i = j

LEMMA ToSetAppend ==
  ASSUME NEW T, NEW s \in Seq(T), NEW x \in T
  PROVE  ToSet(Append(s, x)) = ToSet(s) \cup {x}
<1> PICK t : t = Append(s, x)
  OBVIOUS
<1>1. /\ t \in Seq(T) /\ Len(t) = Len(s) + 1
      /\ \A i \in 1 .. Len(s) : t[i] = s[i]
      /\ t[Len(s) + 1] = x
  BY AppendProperties
<1>2. Len(s) \in Nat /\ DOMAIN s = 1 .. Len(s) /\ DOMAIN t = 1 .. Len(s) + 1
  BY <1>1, LenProperties
<1>3. \A l \in Nat : 1 .. l + 1 = (1 .. l) \cup {l + 1}
  BY SMT
<1>4. DOMAIN t = DOMAIN s \cup {Len(s) + 1}
  BY <1>2, <1>3
<1>5. ToSet(t) = ToSet(s) \cup {x}
  BY <1>1, <1>2, <1>4 DEF ToSet
<1> QED
  BY <1>5

\* A call that is put behind others, if it is for an entry of its own.
LEMMA OneMoreCall ==
  ASSUME NEW T, NEW s \in Seq(T), NEW x \in T, Apart(s), \A c \in ToSet(s) : c.number # x.number
  PROVE  s \o <<x>> \in Seq(T) /\ Apart(s \o <<x>>) /\ ToSet(s \o <<x>>) = ToSet(s) \cup {x}
<1>0. PICK t : t = Append(s, x)
  OBVIOUS
<1>1. /\ t \in Seq(T) /\ Len(t) = Len(s) + 1
      /\ \A i \in 1 .. Len(s) : t[i] = s[i]
      /\ t[Len(s) + 1] = x
  BY <1>0, AppendProperties
<1>2. Len(s) \in Nat /\ DOMAIN s = 1 .. Len(s)
  BY LenProperties
<1>3. \A l \in Nat : 1 .. l + 1 = (1 .. l) \cup {l + 1} /\ l + 1 \notin 1 .. l
  BY SMT
<1>4. 1 .. Len(t) = (1 .. Len(s)) \cup {Len(s) + 1}
  BY <1>1, <1>2, <1>3
<1>5. \A i \in 1 .. Len(s) : t[i].number # x.number
  BY <1>1, <1>2 DEF ToSet
<1>6. Apart(t)
  BY <1>1, <1>4, <1>5 DEF Apart
<1>7. t = s \o <<x>>
  BY <1>0, AppendIsConcat
<1>8. ToSet(t) = ToSet(s) \cup {x}
  BY <1>0, ToSetAppend
<1> QED
  BY <1>1, <1>6, <1>7, <1>8

LEMMA LastCall ==
  ASSUME NEW T, NEW s \in Seq(T), s # <<>>,
         Apart(s)
  PROVE  /\ Front(s) \in Seq(T) /\ Last(s) \in T
         /\ Apart(Front(s))
         /\ ToSet(s) = ToSet(Front(s)) \cup {Last(s)}
         /\ \A c \in ToSet(Front(s)) : c.number # Last(s).number
<1> DEFINE n == Len(s)
           f == Front(s)
<1>1. /\ f \in Seq(T) /\ Len(f) = n - 1 /\ (\A i \in 1 .. n - 1 : f[i] = s[i])
      /\ n \in Nat \ {0} /\ s[n] \in T /\ Last(s) = s[n]
  BY FrontOf DEF Last
<1>2. DOMAIN f = 1 .. n - 1 /\ DOMAIN s = 1 .. n
  BY <1>1, LenProperties
<1>3. \A k \in Nat \ {0} : 1 .. k = (1 .. k - 1) \cup {k} /\ k \notin 1 .. k - 1
  BY SMT
<1>4. DOMAIN s = DOMAIN f \cup {n} /\ n \notin DOMAIN f
  BY <1>1, <1>2, <1>3
<1> HIDE DEF f
<1>5. ToSet(s) = ToSet(f) \cup {s[n]}
  <2>1. \A i \in DOMAIN f : f[i] = s[i]
    BY <1>1, <1>2
  <2> QED
    <3>1. ToSet(s) = {s[i] : i \in DOMAIN f \cup {n}}
      BY <1>4 DEF ToSet
    <3>2. ToSet(f) = {s[i] : i \in DOMAIN f}
      BY <2>1 DEF ToSet
    <3> QED
      BY <3>1, <3>2
<1>6. Apart(f)
  BY <1>1, <1>2, <1>4 DEF Apart
<1>7. \A c \in ToSet(f) : c.number # s[n].number
  BY <1>1, <1>2, <1>4 DEF ToSet, Apart
<1> QED
  BY <1>1, <1>5, <1>6, <1>7 DEF f

\* The kernel's entries after one was made for q under p.
EntryAdded(q, p) ==
  LET n == Len(kernel) + 1
  IN kernel' = Added(Append(kernel, KernelEntry(q, p)), p, n)

LEMMA KernelGrows ==
  ASSUME Tables, Linked, Stored, KernelInv, UNCHANGED hostVars,
         NEW q \in Numbers, NEW p \in Nat, NEW n, n = Len(kernel) + 1,
         ~Made(q), Under(p, q), EntryAdded(q, p)
  PROVE  /\ KernelInv'
         /\ Len(kernel') = n /\ n \in Nat \ {0} /\ 1 .. n = (1 .. Len(kernel)) \cup {n}
         /\ \A m \in 1 .. Len(kernel) : kernel'[m].ino = kernel[m].ino
         /\ kernel'[n].ino = q
<1> DEFINE N == Len(kernel)
<1> PICK e : e = KernelEntry(q, p)
  OBVIOUS
<1>1. /\ e \in KernelType /\ e.ino = q /\ e.parent = p /\ e.ident = Entry(q).name /\ e.children = <<>>
      /\ q # 0 => e.kind = KindOf(q) /\ e.bytes = ContentOf(q)
  BY EntryMade
<1>2. kernel \in Seq(KernelType) /\ N \in Nat /\ p < n /\ p \in 0 .. N
  <2>1. kernel \in Seq(KernelType) /\ N \in Nat
    BY LenProperties DEF KernelInv
  <2>2. p = 0 \/ p \in 1 .. N
    BY DEF Under
  <2>3. \A k \in Nat : \A j : j = 0 \/ j \in 1 .. k => j < k + 1 /\ j \in 0 .. k
    BY SMT
  <2> QED
    BY <2>1, <2>2, <2>3
<1>3. n \in Nat \ {0} /\ 1 .. n = (1 .. N) \cup {n} /\ n \notin 1 .. N /\ (\A m \in 1 .. N : m < n /\ m \in Nat \ {0})
      /\ 0 .. n = (0 .. N) \cup {n}
  <2>1. \A k \in Nat : /\ k + 1 \in Nat \ {0} /\ 1 .. k + 1 = (1 .. k) \cup {k + 1} /\ k + 1 \notin 1 .. k
                       /\ 0 .. k + 1 = (0 .. k) \cup {k + 1}
                       /\ \A m \in 1 .. k : m < k + 1 /\ m \in Nat \ {0}
    BY SMT
  <2> QED
    BY <1>2, <2>1
<1>0. PICK made : made = Append(kernel, e)
  OBVIOUS
<1>4. /\ made \in Seq(KernelType) /\ Len(made) = n
      /\ \A m \in 1 .. N : made[m] = kernel[m]
      /\ made[n] = e
  BY <1>0, <1>1, <1>2, AppendProperties
<1>5. kernel' = IF p = 0 THEN made ELSE [made EXCEPT ![p].children = Append(@, n)]
  BY <1>0 DEF EntryAdded, Added
<1>6. ASSUME NEW m \in 1 .. n
      PROVE  made[m] \in KernelType /\ made[m].children \in Seq(Nat)
  <2>1. made[m] \in KernelType
    BY <1>4, ElementOfSeq
  <2> QED
    BY <2>1 DEF KernelType
<1>7. /\ kernel' \in Seq(KernelType) /\ Len(kernel') = n
      /\ \A m \in 1 .. n :
           kernel'[m] = IF m = p THEN [made[m] EXCEPT !.children = Append(@, n)] ELSE made[m]
  <2>1. CASE p = 0
    <3>1. \A m \in 1 .. n : m # p
      BY <1>3, <2>1, SMT
    <3> QED
      BY <1>4, <1>5, <2>1, <3>1
  <2>2. CASE p # 0
    <3>0. PICK f : f = [made[p] EXCEPT !.children = Append(@, n)]
      OBVIOUS
    <3>1. p \in 1 .. n /\ p \in 1 .. N
      <4>1. p \in 1 .. N
        BY <2>2 DEF Under
      <4> QED
        BY <1>3, <4>1
    <3>2. Append(made[p].children, n) \in Seq(Nat)
      BY <1>3, <1>6, <3>1, AppendProperties
    <3>3. f \in KernelType
      BY <3>0, <1>6, <3>1, <3>2 DEF KernelType
    <3>4. kernel' = [made EXCEPT ![p] = f]
      BY <1>5, <2>2, <3>0
    <3>5. /\ kernel' \in Seq(KernelType) /\ Len(kernel') = Len(made)
          /\ \A m \in 1 .. Len(made) : kernel'[m] = IF m = p THEN f ELSE made[m]
      <4>0. PICK T : T = KernelType
        OBVIOUS
      <4>1. made \in Seq(T) /\ p \in 1 .. Len(made) /\ f \in T
        BY <4>0, <1>4, <3>1, <3>3
      <4>2. kernel' \in Seq(T)
        BY <3>4, <4>1, ExceptSeq
      <4>3. Len(kernel') = Len(made)
        BY <3>4, <4>1, ExceptSeq
      <4>4. \A m \in 1 .. Len(made) : kernel'[m] = IF m = p THEN f ELSE made[m]
        BY <3>4, <4>1, ExceptSeq
      <4> QED
        BY <4>0, <4>2, <4>3, <4>4
    <3> QED
      BY <1>4, <3>0, <3>5
  <2> QED
    BY <2>1, <2>2
<1>8. ASSUME NEW m \in 1 .. n
      PROVE  /\ kernel'[m].ino = made[m].ino /\ kernel'[m].parent = made[m].parent
             /\ kernel'[m].ident = made[m].ident /\ kernel'[m].kind = made[m].kind
             /\ kernel'[m].bytes = made[m].bytes
             /\ kernel'[m].children = IF m = p THEN Append(made[m].children, n) ELSE made[m].children
  <2>1. made[m] \in KernelType
    BY <1>6
  <2>2. CASE m = p
    <3>1. kernel'[m] = [made[m] EXCEPT !.children = Append(@, n)]
      BY <1>7, <2>2
    <3> QED
      BY <2>1, <2>2, <3>1 DEF KernelType
  <2>3. CASE m # p
    BY <1>7, <2>3
  <2> QED
    BY <2>2, <2>3
<1>9. \A m \in 1 .. N : m \in 1 .. n /\ kernel'[m].ino = kernel[m].ino /\ kernel'[m].parent = kernel[m].parent
  BY <1>3, <1>4, <1>8
<1>10. kernel'[n].ino = q /\ kernel'[n].parent = p /\ n \in 1 .. n
  BY <1>1, <1>3, <1>4, <1>8
<1>11. Numbers' = Numbers /\ KernelType' = KernelType
       /\ \A x : Entry(x)' = Entry(x) /\ KindOf(x)' = KindOf(x) /\ ContentOf(x)' = ContentOf(x)
  BY TablesStay DEF KernelType
<1>12. \A x, o : Under(o, x) => Under(o, x)'
  <2> SUFFICES ASSUME NEW x, NEW o, Under(o, x)
               PROVE  Under(o, x)'
    OBVIOUS
  <2>1. x = 0 => o = 0
    BY DEF Under
  <2>2. x # 0 => o \in 1 .. N /\ kernel[o].ino = Entry(x).parent
    BY DEF Under
  <2>3. x # 0 => o \in 1 .. Len(kernel') /\ kernel'[o].ino = Entry(x)'.parent
    BY <1>7, <1>9, <1>11, <2>2
  <2> QED
    BY <2>1, <2>3 DEF Under
<1>13. ASSUME NEW m \in 1 .. n
       PROVE  \E o \in 0 .. n, x \in Numbers : MadeFrom(m, o, x)'
  <2>1. CASE m = n
    <3>1. MadeFrom(n, p, q)'
      BY <1>1, <1>2, <1>4, <1>8, <1>10, <1>11, <1>12 DEF MadeFrom
    <3> QED
      BY <1>2, <1>3, <2>1, <3>1
  <2>2. CASE m \in 1 .. N
    <3>1. PICK o \in 0 .. N, x \in Numbers : MadeFrom(m, o, x)
      BY <2>2 DEF KernelInv
    <3>2. made[m] = kernel[m]
      BY <1>4, <2>2
    <3>3. MadeFrom(m, o, x)'
      BY <1>8, <1>11, <1>12, <3>1, <3>2 DEF MadeFrom
    <3> QED
      BY <1>3, <3>1, <3>3
  <2> QED
    BY <1>3, <2>1, <2>2
<1>14. ASSUME NEW m \in 1 .. n
       PROVE  ToSet(kernel'[m].children) = {c \in 1 .. n : kernel'[c].parent = m}
  <2>1. CASE m = n
    <3>1. kernel'[n].children = <<>>
      BY <1>1, <1>2, <1>4, <1>8, <1>10
    <3>2. ToSet(<<>>) = {}
      BY DEF ToSet
    <3>3. \A c \in 1 .. N : kernel'[c].parent # n
      <4> SUFFICES ASSUME NEW c \in 1 .. N
                   PROVE  kernel[c].parent # n
        BY <1>9
      <4>1. kernel[c].parent \in 0 .. N
        BY DEF KernelInv, MadeFrom
      <4>2. \A k \in Nat : k + 1 \notin 0 .. k
        BY SMT
      <4> QED
        BY <1>2, <4>1, <4>2
    <3>4. kernel'[n].parent # n
      BY <1>2, <1>3, <1>10, SMT
    <3> QED
      BY <1>3, <2>1, <3>1, <3>2, <3>3, <3>4
  <2>2. CASE m \in 1 .. N /\ m # p
    <3>1. ToSet(kernel'[m].children) = {c \in 1 .. N : kernel[c].parent = m}
      BY <1>4, <1>8, <2>2 DEF KernelInv
    <3> QED
      BY <1>3, <1>9, <1>10, <2>2, <3>1
  <2>3. CASE m \in 1 .. N /\ m = p
    <3>1. ToSet(kernel[m].children) = {c \in 1 .. N : kernel[c].parent = m}
      BY <2>3 DEF KernelInv
    <3>2. made[m] = kernel[m] /\ kernel[m].children \in Seq(Nat)
      BY <1>4, <1>6, <2>3
    <3>3. kernel'[m].children = Append(kernel[m].children, n)
      BY <1>8, <2>3, <3>2
    <3>4. ToSet(Append(kernel[m].children, n)) = ToSet(kernel[m].children) \cup {n}
      BY <1>3, <3>2, ToSetAppend
    <3>5. {c \in 1 .. n : kernel'[c].parent = m} = {c \in 1 .. N : kernel[c].parent = m} \cup {n}
      BY <1>3, <1>9, <1>10, <2>3
    <3> QED
      BY <3>1, <3>3, <3>4, <3>5
  <2> QED
    BY <1>3, <2>1, <2>2, <2>3
<1>15. \A m, l \in 1 .. n : kernel'[m].ino = kernel'[l].ino => m = l
  <2>1. \A m \in 1 .. N : kernel[m].ino # q
    BY DEF Made
  <2>2. \A m, l \in 1 .. N : kernel[m].ino = kernel[l].ino => m = l
    BY DEF KernelInv
  <2> QED
    BY <1>3, <1>9, <1>10, <2>1, <2>2
<1>16. KernelInv'
  BY <1>7, <1>11, <1>13, <1>14, <1>15 DEF KernelInv
<1> QED
  BY <1>3, <1>7, <1>9, <1>10, <1>16

LEMMA CacheKeeps == TreeInv /\ cache => TreeInv'
<1> SUFFICES ASSUME TreeInv, cache
             PROVE  TreeInv'
  OBVIOUS
<1> DEFINE N == Len(kernel)
<1> PICK call, n : call = Last(calls) /\ n = N + 1
  OBVIOUS
<1> PICK q, p : q = call.number /\ p = call.parent
  OBVIOUS
<1>1. /\ image_stage = "boot" /\ image_stage' = "boot" /\ calls # <<>> /\ UNCHANGED hostVars
      /\ Tables /\ Linked /\ Stored /\ (\A x \in Numbers : Complete(x)) /\ KernelInv /\ CallsInv
  BY DEF TreeInv, cache
<1>2. /\ EntryAdded(q, p)
      /\ calls' = Front(calls) \o Nested(Entry(q), n, p)
  BY DEF cache, EntryAdded, Entry
<1> DEFINE front == Front(calls)
<1>3. /\ calls \in Seq(CallType)
      /\ Apart(calls)
  BY <1>1 DEF CallsInv, CallType, Apart
<1>4. /\ front \in Seq(CallType) /\ call \in CallType
      /\ Apart(front)
      /\ ToSet(calls) = ToSet(front) \cup {call}
      /\ \A c \in ToSet(front) : c.number # q
  BY <1>1, <1>3, LastCall
<1>5. q \in Numbers /\ p \in Nat /\ ~Made(q) /\ Under(p, q)
  BY <1>1, <1>4 DEF CallType, CallsInv
<1>6. /\ KernelInv'
      /\ Len(kernel') = n /\ n \in Nat \ {0} /\ 1 .. n = (1 .. N) \cup {n}
      /\ \A m \in 1 .. N : kernel'[m].ino = kernel[m].ino
      /\ kernel'[n].ino = q
  BY <1>1, <1>2, <1>5, KernelGrows
<1>7. /\ Numbers' = Numbers /\ CallType' = CallType
      /\ \A x : Entry(x)' = Entry(x)
      /\ \A x, y : LeadsTo(x, y)' <=> LeadsTo(x, y)
      /\ \A x \in Numbers : Complete(x)'
      /\ Tables' /\ Linked' /\ Stored'
  BY <1>1, TablesStay DEF CallType
<1>8. \A x : Made(x)' <=> Made(x) \/ x = q
  BY <1>6 DEF Made
<1>9. \A x, o : Under(o, x) => Under(o, x)'
  <2> SUFFICES ASSUME NEW x, NEW o, Under(o, x)
               PROVE  Under(o, x)'
    OBVIOUS
  <2>1. x = 0 => o = 0
    BY DEF Under
  <2>2. x # 0 => o \in 1 .. N /\ kernel[o].ino = Entry(x).parent
    BY DEF Under
  <2>3. x # 0 => o \in 1 .. Len(kernel') /\ kernel'[o].ino = Entry(x)'.parent
    BY <1>6, <1>7, <2>2
  <2> QED
    BY <2>1, <2>3 DEF Under
<1> PICK fc, s : fc = Entry(q).first_child /\ s = Entry(q).sibling
  OBVIOUS
<1> DEFINE child == [parent |-> n, number |-> fc]
           next == [parent |-> p, number |-> s]
           front2 == front \o (IF fc = 0 THEN <<>> ELSE <<child>>)
<1>10. /\ fc \in Numbers /\ s \in Numbers /\ fc \in Nat /\ s \in Nat
       /\ \A x \in Numbers : LeadsTo(q, x) <=> x # 0 /\ (x = fc \/ x = s)
       /\ fc # 0 => Entry(fc).parent = q
       /\ s # 0 => q # 0 /\ Entry(s).parent = Entry(q).parent
       /\ fc = s => fc = 0
       /\ fc # 0 => fc # q
       /\ s # 0 => s # q
  <2>1. fc \in Numbers /\ s \in Numbers /\ fc \in Nat /\ s \in Nat
    BY <1>1, <1>5, OneLeads, TableShape
  <2>2. \A x \in Numbers : LeadsTo(q, x) <=> x # 0 /\ (x = fc \/ x = s)
    BY DEF LeadsTo
  <2>3. /\ fc # 0 => Entry(fc).parent = q /\ fc # q /\ fc # s
        /\ s # 0 => s # q /\ fc # s /\ q # 0 /\ Entry(s).parent = Entry(q).parent
    BY <1>1, <1>5, <2>1, <2>2, OneLeads
  <2> QED
    BY <2>1, <2>2, <2>3
<1>11. ASSUME NEW x \in Numbers, LeadsTo(q, x)
       PROVE  ~Made(x) /\ ~Called(x)
  <2>1. x \in Numbers \ {0}
    BY <1>11 DEF LeadsTo
  <2>2. ASSUME NEW r \in Numbers, Made(r), LeadsTo(r, x)
        PROVE  FALSE
    BY <1>1, <1>5, <1>11, <2>2, OneLeads
  <2> QED
    BY <1>1, <2>1, <2>2 DEF CallsInv
<1>12. \A x : Called(x) <=> x = q \/ \E c \in ToSet(front) : c.number = x
  BY <1>4 DEF Called
<1>13. child \in CallType /\ next \in CallType
  BY <1>5, <1>6, <1>10 DEF CallType
<1>14. calls' = front2 \o (IF s = 0 THEN <<>> ELSE <<next>>)
  <2>1. (IF fc = 0 THEN <<>> ELSE <<child>>) \in Seq(CallType)
        /\ (IF s = 0 THEN <<>> ELSE <<next>>) \in Seq(CallType)
    <3>1. \A x \in CallType : <<x>> \in Seq(CallType)
      BY SMT
    <3> QED
      BY <1>13, <3>1, EmptySeq
  <2>2. Nested(Entry(q), n, p) = (IF fc = 0 THEN <<>> ELSE <<child>>) \o (IF s = 0 THEN <<>> ELSE <<next>>)
    BY DEF Nested
  <2>0. PICK T, A, B : T = CallType /\ A = (IF fc = 0 THEN <<>> ELSE <<child>>)
                       /\ B = (IF s = 0 THEN <<>> ELSE <<next>>)
    OBVIOUS
  <2>3. front \in Seq(T) /\ A \in Seq(T) /\ B \in Seq(T)
    BY <1>4, <2>0, <2>1
  <2>6. PICK f : f = front
    OBVIOUS
  <2>7. f \in Seq(T)
    BY <2>3, <2>6
  <2>4. (f \o A) \o B = f \o (A \o B)
    <3> HIDE DEF front, child, next, front2
    <3>1. A \in Seq(T) /\ B \in Seq(T)
      BY <2>3
    <3> QED
      BY <2>7, <3>1, ConcatAssociative
  <2>5. calls' = f \o (A \o B)
    BY <1>2, <2>0, <2>2, <2>6
  <2> QED
    BY <2>0, <2>6, <2>4, <2>5
<1> HIDE DEF child, next
<1>15. /\ front2 \in Seq(CallType)
       /\ Apart(front2)
       /\ ToSet(front2) = IF fc = 0 THEN ToSet(front) ELSE ToSet(front) \cup {child}
  <2>1. fc # 0 => \A c \in ToSet(front) : c.number # child.number
    BY <1>10, <1>11, <1>12 DEF child
  <2>2. CASE fc = 0
    BY <1>4, <2>2, ConcatEmptySeq
  <2>3. CASE fc # 0
    <3>1. front2 = front \o <<child>>
      BY <2>3
    <3> HIDE DEF front, front2
    <3> QED
      BY <1>4, <1>13, <2>1, <2>3, <3>1, OneMoreCall
  <2> QED
    BY <2>2, <2>3
<1> HIDE DEF front2
<1>16. /\ calls' \in Seq(CallType)
       /\ Apart(calls')
       /\ ToSet(calls') = IF s = 0 THEN ToSet(front2) ELSE ToSet(front2) \cup {next}
  <2>1. s # 0 => \A c \in ToSet(front2) : c.number # next.number
    BY <1>10, <1>11, <1>12, <1>15 DEF child, next
  <2>2. CASE s = 0
    BY <1>14, <1>15, <2>2, ConcatEmptySeq
  <2>3. CASE s # 0
    <3>1. calls' = front2 \o <<next>>
      BY <1>14, <2>3
    <3> QED
      BY <1>13, <1>15, <2>1, <2>3, <3>1, OneMoreCall
  <2> QED
    BY <2>2, <2>3
<1>17. \A c : c \in ToSet(calls') <=> c \in ToSet(front) \/ (fc # 0 /\ c = child) \/ (s # 0 /\ c = next)
  BY <1>15, <1>16
<1>18. ASSUME NEW c \in ToSet(calls')
       PROVE  ~Made(c.number)' /\ Under(c.parent, c.number)'
  <2>1. CASE c \in ToSet(front)
    <3>1. ~Made(c.number) /\ Under(c.parent, c.number) /\ c.number # q
      BY <1>1, <1>4, <2>1 DEF CallsInv
    <3> QED
      BY <1>8, <1>9, <3>1
  <2>2. CASE fc # 0 /\ c = child
    <3>1. c.number = fc /\ c.parent = n
      BY <2>2 DEF child
    <3>2. ~Made(fc)'
      BY <1>8, <1>10, <1>11, <2>2
    <3>3. n \in 1 .. Len(kernel') /\ kernel'[n].ino = Entry(fc)'.parent
      BY <1>6, <1>7, <1>10, <2>2
    <3>4. Under(n, fc)'
      BY <2>2, <3>3 DEF Under
    <3> QED
      BY <3>1, <3>2, <3>4
  <2>3. CASE s # 0 /\ c = next
    <3>1. c.number = s /\ c.parent = p
      BY <2>3 DEF next
    <3>2. ~Made(s)'
      BY <1>8, <1>10, <1>11, <2>3
    <3>3. p \in 1 .. N /\ kernel[p].ino = Entry(q).parent
      BY <1>5, <1>10, <2>3 DEF Under
    <3>4. p \in 1 .. Len(kernel') /\ kernel'[p].ino = Entry(s)'.parent
      BY <1>6, <1>7, <1>10, <2>3, <3>3
    <3>5. Under(p, s)'
      BY <2>3, <3>4 DEF Under
    <3> QED
      BY <3>1, <3>2, <3>5
  <2> QED
    BY <1>17, <2>1, <2>2, <2>3
<1>19. \A x \in Numbers : Made(x)' \/ Called(x)' <=> Made(x) \/ Called(x) \/ LeadsTo(q, x)
  <2> SUFFICES ASSUME NEW x \in Numbers
               PROVE  Made(x)' \/ Called(x)' <=> Made(x) \/ Called(x) \/ LeadsTo(q, x)
    OBVIOUS
  <2>1. Called(x)' <=> (\E c \in ToSet(front) : c.number = x) \/ (fc # 0 /\ x = fc) \/ (s # 0 /\ x = s)
    <3>1. child.number = fc /\ next.number = s
      BY DEF child, next
    <3>2. Called(x)' <=> \E c \in ToSet(calls') : c.number = x
      BY DEF Called
    <3> HIDE DEF front
    <3> QED
      BY <1>17, <3>1, <3>2
  <2>2. LeadsTo(q, x) <=> x # 0 /\ (x = fc \/ x = s)
    BY <1>10
  <2> QED
    BY <1>8, <1>12, <2>1, <2>2
<1>20. ASSUME NEW x \in Numbers \ {0}
       PROVE  Made(x)' \/ Called(x)' <=> \E r \in Numbers : Made(r)' /\ LeadsTo(r, x)
  <2>1. Made(x) \/ Called(x) <=> \E r \in Numbers : Made(r) /\ LeadsTo(r, x)
    BY <1>1 DEF CallsInv
  <2>2. Made(x)' \/ Called(x)' <=> Made(x) \/ Called(x) \/ LeadsTo(q, x)
    BY <1>19
  <2> QED
    BY <1>5, <1>8, <2>1, <2>2
<1>21. Made(0)' \/ Called(0)'
  <2>1. 0 \in Numbers /\ (Made(0) \/ Called(0))
    BY <1>1, TableShape DEF CallsInv
  <2> QED
    BY <1>19, <2>1
<1>22. CallsInv'
  BY <1>7, <1>16, <1>18, <1>20, <1>21 DEF CallsInv, CallType, Apart
<1> QED
  BY <1>1, <1>6, <1>7, <1>22 DEF TreeInv

LEMMA CachesStay ==
  ASSUME UNCHANGED <<hostVars, calls, kernel>>
  PROVE  /\ KernelInv => KernelInv'
         /\ CallsInv => CallsInv'
<1>1. kernel' = kernel /\ calls' = calls
  OBVIOUS
<1>2. Numbers' = Numbers /\ (\A q : Entry(q)' = Entry(q) /\ KindOf(q)' = KindOf(q) /\ ContentOf(q)' = ContentOf(q))
      /\ Files(tree)' = Files(tree) /\ \A q, r : LeadsTo(q, r)' <=> LeadsTo(q, r)
  BY TablesStay
<1>3. \A o, q : Under(o, q)' <=> Under(o, q)
  BY <1>1, <1>2 DEF Under
<1>4. \A q : (Made(q)' <=> Made(q)) /\ (Called(q)' <=> Called(q))
  BY <1>1 DEF Made, Called
<1>5. \A m, p, q : MadeFrom(m, p, q)' <=> MadeFrom(m, p, q)
  BY <1>1, <1>2, <1>3 DEF MadeFrom
<1>6. KernelType' = KernelType
  BY <1>2 DEF KernelType
<1>7. KernelInv => KernelInv'
  BY <1>1, <1>2, <1>5, <1>6 DEF KernelInv
<1>8. CallsInv => CallsInv'
  BY <1>1, <1>2, <1>3, <1>4 DEF CallsInv
<1> QED
  BY <1>7, <1>8

LEMMA TreeStutters == TreeInv /\ UNCHANGED imageVars => TreeInv'
<1> SUFFICES ASSUME TreeInv, UNCHANGED imageVars
             PROVE  TreeInv'
  OBVIOUS
<1>1. /\ UNCHANGED <<hostVars, calls, kernel>> /\ image_stage' = image_stage /\ id' = id
      /\ open_dirs' = open_dirs /\ kernel' = kernel /\ dirents' = dirents /\ calls' = calls
  BY DEF imageVars, hostVars
<1>2. /\ Numbers' = Numbers /\ tree' = tree /\ Files(tree)' = Files(tree)
      /\ \A q : Entry(q)' = Entry(q)
      /\ \A q \in Numbers : Complete(q) => Complete(q)'
      /\ Tables => Tables'
      /\ Linked => Linked'
      /\ Stored /\ Tables => Stored'
      /\ KernelInv => KernelInv'
      /\ CallsInv => CallsInv'
  BY <1>1, TablesStay, CachesStay
<1>3. WalkInv => WalkInv'
  <2>1. \A q : Kids(q)' = Kids(q)
    BY <1>2 DEF Kids
  <2>2. \A q : Names(Kids(q))' = Names(Kids(q))
    BY <1>2, <2>1 DEF Names
  <2>3. FrameType' = FrameType /\ \A d : In(tree, d)' = In(tree, d)
    BY <1>2 DEF FrameType, In
  <2>4. \A f : InOrder(f) => InOrder(f)'
    BY <1>2, <2>1, <2>2, <2>3 DEF InOrder, IsLastOf
  <2> QED
    BY <1>1, <1>2, <2>3, <2>4 DEF WalkInv
<1> QED
  BY <1>1, <1>2, <1>3 DEF TreeInv

LEMMA TreeStep == TreeInv /\ [ImageNext]_imageVars => TreeInv'
<1> SUFFICES ASSUME TreeInv, ImageNext
             PROVE  TreeInv'
  BY TreeStutters
<1>1. CASE traverse_dir
  BY <1>1, TraverseKeeps
<1>2. CASE BehindTable
  BY <1>2 DEF BehindTable, TreeInv
<1>3. CASE DirectoryRead
  BY <1>3, DirectoryReadKeeps
<1>4. CASE ImageWritten
  BY <1>4, ImageWrittenKeeps
<1>5. CASE cache
  BY <1>5, CacheKeeps
<1>6. CASE Cached
  <2>1. image_stage = "boot" /\ image_stage' = "running" /\ calls' = <<>> /\ UNCHANGED <<hostVars, calls, kernel>>
    BY <1>6 DEF Cached
  <2>2. Numbers' = Numbers /\ (\A q \in Numbers : Complete(q) => Complete(q)') /\ (Tables => Tables')
        /\ (Linked => Linked') /\ (Stored /\ Tables => Stored') /\ (KernelInv => KernelInv') /\ (CallsInv => CallsInv')
    BY <2>1, TablesStay, CachesStay
  <2> QED
    BY <2>1, <2>2 DEF TreeInv
<1>7. CASE Running
  BY <1>7, TreeStutters DEF Running
<1> QED
  BY <1>1, <1>2, <1>3, <1>4, <1>5, <1>6, <1>7 DEF ImageNext

----------------------------------------------------------------------------
(* What has arrived *)

\* When no call is left there is an entry of the kernel for every one of the image.
LEMMA AllMade ==
  ASSUME Tables, Linked, \A q \in Numbers : Complete(q), CallsInv, calls = <<>>
  PROVE  \A q \in Numbers : Made(q)
<1>1. \A q : ~Called(q)
  BY DEF Called, ToSet
<1>2. Made(0) /\ \A q, x \in Numbers : Made(q) /\ LeadsTo(q, x) => Made(x)
  BY <1>1 DEF CallsInv, LeadsTo
<1>3. Numbers = 0 .. Len(dirents) - 1 /\ Len(dirents) \in Nat \ {0}
  BY TableShape
<1> DEFINE bad == {q \in Numbers : ~Made(q)}
           parents == {p \in Numbers : \E q \in bad : q # 0 /\ Entry(q).parent = p}
<1>4. \A q \in Numbers \ {0} : Entry(q).parent \in Numbers /\ Entry(q).parent < q
  BY DEF Linked
<1> SUFFICES ASSUME bad # {}
             PROVE  FALSE
  OBVIOUS
<1>5. parents # {} /\ parents \subseteq Nat
  BY <1>2, <1>3, <1>4, SMT
<1>6. PICK p \in parents : \A o \in parents : p <= o
  <2> HIDE DEF parents
  <2> QED
    BY <1>5, LeastExists
<1>7. Made(p)
  <2> SUFFICES ASSUME ~Made(p)
               PROVE  FALSE
    OBVIOUS
  <2>1. p \in bad /\ p # 0 /\ p \in Numbers
    BY <1>2
  <2>2. Entry(p).parent \in parents /\ Entry(p).parent < p
    BY <1>4, <2>1
  <2>3. p <= Entry(p).parent
    BY <1>6, <2>2
  <2>4. p \in Nat /\ Entry(p).parent \in Nat
    BY <1>3, <1>4, <2>1, SMT
  <2> QED
    BY <2>2, <2>3, <2>4, SMT
<1> DEFINE D == Len(dirents)
           late == {q \in bad : q # 0 /\ Entry(q).parent = p}
           turned == {i \in Nat : \E q \in late : i = D - q}
<1>8. late # {} /\ late \subseteq Numbers \ {0}
  OBVIOUS
<1>9. \A q \in late : D - q \in turned
  BY <1>3, <1>8, SMT
<1>10. PICK i \in turned : \A j \in turned : i <= j
  <2>1. turned # {} /\ turned \subseteq Nat
    BY <1>8, <1>9
  <2> HIDE DEF turned
  <2> QED
    BY <2>1, LeastExists
<1>11. PICK x \in late : i = D - x
  OBVIOUS
<1>12. \A q \in late : q <= x
  <2> SUFFICES ASSUME NEW q \in late
               PROVE  q <= x
    OBVIOUS
  <2>1. i <= D - q
    BY <1>9, <1>10
  <2>2. q \in Nat /\ x \in Nat /\ D \in Nat
    BY <1>3, <1>8, SMT
  <2> HIDE DEF D
  <2> QED
    BY <1>11, <2>1, <2>2, SMT
<1>13. x \in Numbers \ {0} /\ Entry(x).parent = p /\ ~Made(x)
  OBVIOUS
<1>14. PICK q \in Numbers : LeadsTo(q, x) /\ (q = p \/ (q > x /\ q \in Kids(p)))
  BY <1>13, SomeLeads
<1>15. ~Made(q)
  BY <1>2, <1>13, <1>14
<1>16. q > x /\ q \in Kids(p)
  BY <1>7, <1>14, <1>15
<1>17. q \in late
  BY <1>15, <1>16 DEF Kids
<1>18. q <= x /\ q \in Nat /\ x \in Nat
  BY <1>3, <1>12, <1>13, <1>17, SMT
<1> QED
  BY <1>16, <1>18, SMT

\* Every file of the tree has an entry of the image.
LEMMA AllNamed ==
  ASSUME Tables, Linked, \A q \in Numbers : Complete(q)
  PROVE  \A n \in Files(tree) : \E q \in Numbers : Entry(q).name = n
<1>1. tree \in Trees
  BY DEF Tables
<1>2. Files(tree) \subseteq Nat /\ 0 \in Numbers
      /\ \A n \in Files(tree) \ {1} : tree[n].parent \in Files(tree) /\ tree[n].parent < n
  BY <1>1, TreeShape, TableShape, SMT
<1> DEFINE bad == {n \in Files(tree) : \A q \in Numbers : Entry(q).name # n}
<1> SUFFICES ASSUME bad # {}
             PROVE  FALSE
  OBVIOUS
<1>3. PICK n \in bad : \A m \in bad : n <= m
  <2>1. bad \subseteq Nat
    BY <1>2
  <2> HIDE DEF bad
  <2> QED
    BY <2>1, LeastExists
<1>4. n \in Files(tree) /\ n # 1
  BY <1>2 DEF Linked
<1> DEFINE m == tree[n].parent
<1>5. m \in Files(tree) /\ m < n /\ m \in Nat /\ n \in Nat
  BY <1>2, <1>4
<1>6. m \notin bad
  <2> HIDE DEF m, bad
  <2> QED
    BY <1>3, <1>5, SMT
<1>7. PICK q \in Numbers : Entry(q).name = m
  BY <1>5, <1>6
<1>8. n \in Names(Kids(q))
  <2>1. n \in In(tree, m)
    BY <1>4 DEF In
  <2> QED
    BY <1>7, <2>1 DEF Complete
<1>9. \E c \in Numbers : Entry(c).name = n
  BY <1>8 DEF Names, Kids
<1> QED
  BY <1>9

----------------------------------------------------------------------------
(* Paths *)

\* A function leads from V to V, and f applies it L times, from c on.
Closed(F, V) == \A v \in V : F[v] \in V
IsWalk(f, c, F, V, L) ==
  /\ f[0] = c /\ \A k \in 0 .. L : f[k] \in V
  /\ \A k \in 1 .. L : f[k] = F[f[k - 1]]

\* From any member of a set, a function on the set can be applied L times.
LEMMA WalkExists ==
  ASSUME NEW V, NEW c \in V, NEW F, Closed(F, V), NEW L \in Nat
  PROVE  \E f : IsWalk(f, c, F, V, L)
<1> DEFINE bad == {n \in Nat : ~\E f : IsWalk(f, c, F, V, n)}
<1> SUFFICES ASSUME bad # {}
             PROVE  FALSE
  OBVIOUS
<1>1. PICK n \in bad : \A m \in bad : n <= m
  <2>1. bad \subseteq Nat
    OBVIOUS
  <2> HIDE DEF bad
  <2> QED
    BY <2>1, LeastExists
<1>2. n \in Nat /\ ~\E f : IsWalk(f, c, F, V, n)
  OBVIOUS
<1>3. CASE n = 0
  <2> DEFINE f == [k \in 0 .. 0 |-> c]
  <2>1. IsWalk(f, c, F, V, 0)
    BY SMT DEF IsWalk
  <2> QED
    BY <1>2, <1>3, <2>1
<1>4. CASE n # 0
  <2>1. n - 1 \in Nat /\ ~(n <= n - 1)
    BY <1>2, <1>4, SMT
  <2>2. n - 1 \notin bad
    BY <1>1, <2>1
  <2>3. PICK f : IsWalk(f, c, F, V, n - 1)
    BY <2>1, <2>2
  <2> DEFINE g == [k \in 0 .. n |-> IF k = n THEN F[f[n - 1]] ELSE f[k]]
  <2>4. /\ 0 \in 0 .. n /\ n - 1 \in 0 .. n - 1
        /\ \A k \in 0 .. n : k = n \/ k \in 0 .. n - 1
        /\ \A k \in 1 .. n : k \in 0 .. n /\ k - 1 \in 0 .. n /\ k - 1 # n
                             /\ (k = n \/ k \in 1 .. n - 1)
    BY <1>2, <1>4, SMT
  <2>5. /\ f[0] = c /\ \A k \in 0 .. n - 1 : f[k] \in V
        /\ \A k \in 1 .. n - 1 : f[k] = F[f[k - 1]]
    BY <2>3 DEF IsWalk
  <2>6. g[0] = c
    BY <1>4, <2>4, <2>5
  <2>7. ASSUME NEW k \in 0 .. n
        PROVE  g[k] \in V
    BY <2>4, <2>5 DEF Closed
  <2>8. ASSUME NEW k \in 1 .. n
        PROVE  g[k] = F[g[k - 1]]
    <3>1. g[k - 1] = f[k - 1]
      BY <2>4
    <3>2. CASE k = n
      BY <2>4, <3>1, <3>2
    <3>3. CASE k # n
      BY <2>4, <2>5, <3>1, <3>3
    <3> QED
      BY <3>2, <3>3
  <2>9. IsWalk(g, c, F, V, n)
    <3> HIDE DEF g
    <3> QED
      BY <2>6, <2>7, <2>8 DEF IsWalk
  <2> QED
    BY <1>2, <2>9
<1> QED
  BY <1>3, <1>4

\* If h turns each step of F into one of G, it turns the walk of F into that of G.
LEMMA WalksMeet ==
  ASSUME NEW V, NEW W, NEW c, NEW F, NEW G, NEW h, NEW L \in Nat, NEW u, NEW w,
         \A v \in V : h[F[v]] = G[h[v]],
         IsWalk(u, c, F, V, L), IsWalk(w, h[c], G, W, L)
  PROVE  \A k \in 0 .. L : w[k] = h[u[k]]
<1>0. /\ \A k \in 0 .. L : u[k] \in V
      /\ u[0] = c /\ \A k \in 1 .. L : u[k] = F[u[k - 1]]
      /\ w[0] = h[c] /\ \A k \in 1 .. L : w[k] = G[w[k - 1]]
  BY DEF IsWalk
<1> DEFINE bad == {k \in 0 .. L : w[k] # h[u[k]]}
<1> SUFFICES ASSUME bad # {}
             PROVE  FALSE
  OBVIOUS
<1>1. PICK k \in bad : \A m \in bad : k <= m
  <2>1. bad \subseteq Nat
    BY SMT
  <2> HIDE DEF bad
  <2> QED
    BY <2>1, LeastExists
<1>2. k \in 0 .. L /\ w[k] # h[u[k]]
  OBVIOUS
<1>3. k # 0
  BY <1>0, <1>2
<1>4. k \in 1 .. L /\ k - 1 \in 0 .. L /\ ~(k <= k - 1)
  BY <1>2, <1>3, SMT
<1>5. u[k - 1] \in V /\ w[k - 1] = h[u[k - 1]]
  BY <1>0, <1>1, <1>4
<1>6. u[k] = F[u[k - 1]] /\ w[k] = G[w[k - 1]]
  BY <1>0, <1>4
<1> QED
  BY <1>2, <1>5, <1>6

\* The directory above a file, and the entry above an entry.
UpFile == [n \in Files(tree) |-> IF n <= 1 THEN 1 ELSE tree[n].parent]
UpEntry == [m \in 1 .. Len(kernel) |-> IF m <= 1 THEN 1 ELSE kernel[m].parent]

LEMMA HostPathIs ==
  ASSUME tree \in Trees, NEW n \in Files(tree)
  PROVE  \E u : IsWalk(u, n, UpFile, Files(tree), Len(tree)) /\ HostPath(n) = [k \in 0 .. Len(tree) |-> u[k]]
<1> DEFINE L == Len(tree)
           is(u) == u = [k \in 0 .. L |-> IF k = 0 THEN n ELSE IF u[k - 1] <= 1 THEN 1
                                           ELSE tree[u[k - 1]].parent]
           w == CHOOSE u : is(u)
<1>1. HostPath(n) = [k \in 0 .. L |-> w[k]]
  BY DEF HostPath
<1>2. L \in Nat \ {0} /\ 1 \in Files(tree) /\ UpFile \in [Files(tree) -> Files(tree)]
  <2>1. L \in Nat \ {0} /\ 1 \in Files(tree)
    BY TreeShape, SMT
  <2>2. ASSUME NEW m \in Files(tree), ~(m <= 1)
        PROVE  tree[m].parent \in Files(tree)
    BY <2>2, TreeShape, SMT
  <2> QED
    BY <2>1, <2>2 DEF UpFile
<1>3. \A x \in Files(tree) : UpFile[x] = IF x <= 1 THEN 1 ELSE tree[x].parent
  BY DEF UpFile
<1> HIDE DEF L
<1>4. L \in Nat /\ \A k \in 0 .. L : k # 0 => k \in 1 .. L /\ k - 1 \in 0 .. L
  BY <1>2, SMT
<1>5. PICK f : IsWalk(f, n, UpFile, Files(tree), L)
  BY <1>2, <1>4, WalkExists DEF Closed
<1>6. /\ f[0] = n /\ \A k \in 0 .. L : f[k] \in Files(tree)
      /\ \A k \in 1 .. L : f[k] = UpFile[f[k - 1]]
  BY <1>5 DEF IsWalk
<1> DEFINE g == [k \in 0 .. L |-> f[k]]
<1>7. is(g)
  <2>1. \A k \in 0 .. L : g[k] = IF k = 0 THEN n ELSE IF g[k - 1] <= 1 THEN 1
                                 ELSE tree[g[k - 1]].parent
    BY <1>3, <1>4, <1>6
  <2>2. g = [k \in 0 .. L |-> g[k]]
    OBVIOUS
  <2> HIDE DEF g
  <2> QED
    BY <2>1, <2>2
<1>8. is(w)
  <2> HIDE DEF g
  <2> QED
    BY <1>7
<1> DEFINE bad == {k \in 0 .. L : w[k] # f[k]}
<1>9. \A k \in 0 .. L : w[k] = IF k = 0 THEN n ELSE IF w[k - 1] <= 1 THEN 1
                               ELSE tree[w[k - 1]].parent
  <2> HIDE DEF w
  <2> QED
    BY <1>8
<1> HIDE DEF w
<1>10. bad = {}
  <2> SUFFICES ASSUME bad # {}
               PROVE  FALSE
    OBVIOUS
  <2>1. bad \subseteq Nat
    BY SMT
  <2>2. PICK x \in bad : \A y \in bad : x <= y
    <3> HIDE DEF bad
    <3> QED
      BY <2>1, LeastExists
  <2>3. x \in 0 .. L /\ w[x] # f[x]
    OBVIOUS
  <2>4. x # 0
    BY <1>6, <1>9, <2>3
  <2>5. x \in 1 .. L /\ x - 1 \in 0 .. L /\ ~(x <= x - 1)
    BY <1>4, <2>3, <2>4, SMT
  <2>6. w[x - 1] = f[x - 1]
    BY <2>2, <2>5
  <2> QED
    BY <1>3, <1>6, <1>9, <2>3, <2>4, <2>5, <2>6
<1>11. HostPath(n) = [k \in 0 .. L |-> f[k]]
  BY <1>1, <1>10
<1> QED
  BY <1>5, <1>11 DEF L

LEMMA KernelPathIs ==
  ASSUME Len(tree) \in Nat, UpEntry \in [1 .. Len(kernel) -> 1 .. Len(kernel)], NEW m \in 1 .. Len(kernel)
  PROVE  \E u : IsWalk(u, m, UpEntry, 1 .. Len(kernel), Len(tree)) /\ KernelPath(m) = [k \in 0 .. Len(tree) |-> kernel[u[k]].ident]
<1> DEFINE L == Len(tree)
           E == 1 .. Len(kernel)
           is(u) == u = [k \in 0 .. L |-> IF k = 0 THEN m ELSE IF u[k - 1] <= 1 THEN 1
                                           ELSE kernel[u[k - 1]].parent]
           w == CHOOSE u : is(u)
<1>1. KernelPath(m) = [k \in 0 .. L |-> kernel[w[k]].ident]
  BY DEF KernelPath
<1>3. \A x \in E : UpEntry[x] = IF x <= 1 THEN 1 ELSE kernel[x].parent
  BY DEF UpEntry
<1> HIDE DEF L, E
<1>4. L \in Nat /\ \A k \in 0 .. L : k # 0 => k \in 1 .. L /\ k - 1 \in 0 .. L
  BY SMT DEF L
<1>2. UpEntry \in [E -> E] /\ m \in E
  BY DEF E
<1>5. PICK f : IsWalk(f, m, UpEntry, E, L)
  BY <1>2, <1>4, WalkExists DEF Closed
<1>6. /\ f[0] = m /\ \A k \in 0 .. L : f[k] \in E
      /\ \A k \in 1 .. L : f[k] = UpEntry[f[k - 1]]
  BY <1>5 DEF IsWalk
<1> DEFINE g == [k \in 0 .. L |-> f[k]]
<1>7. is(g)
  <2>1. \A k \in 0 .. L : g[k] = IF k = 0 THEN m ELSE IF g[k - 1] <= 1 THEN 1
                                 ELSE kernel[g[k - 1]].parent
    BY <1>3, <1>4, <1>6
  <2>2. g = [k \in 0 .. L |-> g[k]]
    OBVIOUS
  <2> HIDE DEF g
  <2> QED
    BY <2>1, <2>2
<1>8. is(w)
  <2> HIDE DEF g
  <2> QED
    BY <1>7
<1> DEFINE bad == {k \in 0 .. L : w[k] # f[k]}
<1>9. \A k \in 0 .. L : w[k] = IF k = 0 THEN m ELSE IF w[k - 1] <= 1 THEN 1
                               ELSE kernel[w[k - 1]].parent
  <2> HIDE DEF w
  <2> QED
    BY <1>8
<1> HIDE DEF w
<1>10. bad = {}
  <2> SUFFICES ASSUME bad # {}
               PROVE  FALSE
    OBVIOUS
  <2>1. bad \subseteq Nat
    BY SMT
  <2>2. PICK x \in bad : \A y \in bad : x <= y
    <3> HIDE DEF bad
    <3> QED
      BY <2>1, LeastExists
  <2>3. x \in 0 .. L /\ w[x] # f[x]
    OBVIOUS
  <2>4. x # 0
    BY <1>6, <1>9, <2>3
  <2>5. x \in 1 .. L /\ x - 1 \in 0 .. L /\ ~(x <= x - 1)
    BY <1>4, <2>3, <2>4, SMT
  <2>6. w[x - 1] = f[x - 1]
    BY <2>2, <2>5
  <2> QED
    BY <1>3, <1>6, <1>9, <2>3, <2>4, <2>5, <2>6
<1>11. KernelPath(m) = [k \in 0 .. L |-> kernel[f[k]].ident]
  BY <1>1, <1>10
<1> QED
  BY <1>5, <1>11 DEF L, E

----------------------------------------------------------------------------
(* TreeArrives *)

\* The kernel's first entry is the root, and any other lies under the entry of
\* the directory that its file is in.
LEMMA KernelShape ==
  ASSUME Tables, Linked, KernelInv
  PROVE  /\ Len(kernel) \in Nat
         /\ \A m \in 1 .. Len(kernel) :
              /\ kernel[m].ident \in Files(tree)
              /\ m <= 1 => kernel[m].ident = 1
              /\ ~(m <= 1) => /\ kernel[m].parent \in 1 .. Len(kernel)
                              /\ ~(kernel[m].ident <= 1)
                              /\ tree[kernel[m].ident].parent = kernel[kernel[m].parent].ident
         /\ \A m, l \in 1 .. Len(kernel) : kernel[m].ident = kernel[l].ident => m = l
<1> DEFINE K == Len(kernel)
<1>1. K \in Nat /\ \A m \in 1 .. K : kernel[m] \in KernelType
  BY LenProperties, ElementOfSeq DEF KernelInv
<1>2. \A m \in 1 .. K : kernel[m].ident \in Files(tree)
  BY <1>1 DEF KernelType
<1> HIDE DEF K
<1>3. \A m \in 1 .. K : \E p \in 0 .. K, q \in Numbers :
        /\ kernel[m].ino = q /\ kernel[m].parent = p /\ kernel[m].ident = Entry(q).name
        /\ p < m
        /\ q # 0 => p \in 1 .. K /\ kernel[p].ino = Entry(q).parent
  <2> SUFFICES ASSUME NEW m \in 1 .. K
               PROVE  \E p \in 0 .. K, q \in Numbers :
                        /\ kernel[m].ino = q /\ kernel[m].parent = p /\ kernel[m].ident = Entry(q).name
                        /\ p < m
                        /\ q # 0 => p \in 1 .. K /\ kernel[p].ino = Entry(q).parent
    OBVIOUS
  <2>1. PICK p \in 0 .. K, q \in Numbers : MadeFrom(m, p, q)
    BY DEF KernelInv, K
  <2>2. /\ kernel[m].ino = q /\ kernel[m].parent = p /\ kernel[m].ident = Entry(q).name
        /\ p < m /\ Under(p, q)
    BY <2>1 DEF MadeFrom
  <2>3. q # 0 => p \in 1 .. K /\ kernel[p].ino = Entry(q).parent
    BY <2>2 DEF Under, K
  <2> QED
    BY <2>2, <2>3
<1>4. \A m, l \in 1 .. K : kernel[m].ino = kernel[l].ino => m = l
  BY DEF KernelInv, K
<1>5. \A m, l \in 1 .. K : kernel[m].ident = kernel[l].ident => m = l
  BY <1>3, <1>4 DEF Linked
<1>6. ASSUME NEW m \in 1 .. K, m <= 1
      PROVE  kernel[m].ino = 0 /\ kernel[m].ident = 1
  <2>1. PICK p \in 0 .. K, q \in Numbers :
          /\ kernel[m].ino = q /\ kernel[m].ident = Entry(q).name /\ p < m
          /\ q # 0 => p \in 1 .. K
    BY <1>3
  <2>2. q = 0
    BY <1>1, <1>6, <2>1, SMT
  <2> QED
    BY <2>1, <2>2 DEF Linked
<1>7. ASSUME NEW m \in 1 .. K, ~(m <= 1)
      PROVE  /\ kernel[m].parent \in 1 .. K /\ ~(kernel[m].ident <= 1)
             /\ tree[kernel[m].ident].parent = kernel[kernel[m].parent].ident
  <2>1. PICK p \in 0 .. K, q \in Numbers :
          /\ kernel[m].ino = q /\ kernel[m].parent = p /\ kernel[m].ident = Entry(q).name
          /\ q # 0 => p \in 1 .. K /\ kernel[p].ino = Entry(q).parent
    BY <1>3
  <2>2. 1 \in 1 .. K /\ m # 1
    BY <1>1, <1>7, SMT
  <2>3. kernel[1].ino = 0 /\ kernel[1].ident = 1
    BY <1>6, <2>2
  <2>4. q # 0 /\ kernel[m].ident # 1
    BY <1>4, <1>5, <2>1, <2>2, <2>3
  <2>5. ~(kernel[m].ident <= 1)
    <3>1. Files(tree) = 1 .. Len(tree) /\ Len(tree) \in Nat
      BY TreeShape DEF Tables
    <3>2. kernel[m].ident \in 1 .. Len(tree)
      BY <1>2, <3>1
    <3> QED
      BY <2>4, <3>1, <3>2, SMT
  <2>6. p \in 1 .. K /\ kernel[p].ino = Entry(q).parent
    BY <2>1, <2>4
  <2>7. PICK r \in Numbers : kernel[p].ino = r /\ kernel[p].ident = Entry(r).name
    BY <1>3, <2>6
  <2>8. tree[Entry(q).name].parent = Entry(r).name
    <3>1. \A x \in Numbers \ {0} : \E y \in Numbers :
            Entry(x).parent = y /\ tree[Entry(x).name].parent = Entry(y).name
      BY DEF Linked
    <3>2. PICK y \in Numbers : Entry(q).parent = y /\ tree[Entry(q).name].parent = Entry(y).name
      BY <2>4, <3>1
    <3>3. y = r
      BY <2>6, <2>7, <3>2
    <3> QED
      BY <3>2, <3>3
  <2> QED
    BY <2>1, <2>5, <2>6, <2>7, <2>8
<1> QED
  BY <1>1, <1>2, <1>5, <1>6, <1>7 DEF K

\* The entry of a file is at its place.
LEMMA SamePath ==
  ASSUME Tables, Linked, KernelInv, NEW m \in 1 .. Len(kernel)
  PROVE  KernelPath(m) = HostPath(kernel[m].ident)
<1> DEFINE E == 1 .. Len(kernel)
           h == [e \in E |-> kernel[e].ident]
           n == kernel[m].ident
<1>1. tree \in Trees /\ Len(tree) \in Nat /\ Len(kernel) \in Nat
  BY TreeShape, KernelShape DEF Tables
<1>2. /\ \A e \in E : kernel[e].ident \in Files(tree)
      /\ \A e \in E : e <= 1 => kernel[e].ident = 1
      /\ \A e \in E : ~(e <= 1) => /\ kernel[e].parent \in E /\ ~(kernel[e].ident <= 1)
                                   /\ tree[kernel[e].ident].parent = kernel[kernel[e].parent].ident
  BY KernelShape
<1>3. n \in Files(tree) /\ h[m] = n /\ m \in E
  BY <1>2
<1>4. \A e \in E : 1 \in E
  BY <1>1, SMT
<1>5. UpEntry \in [E -> E] /\ \A e \in E : UpEntry[e] = IF e <= 1 THEN 1 ELSE kernel[e].parent
  BY <1>2, <1>4 DEF UpEntry
<1>6. \A x \in Files(tree) : UpFile[x] = IF x <= 1 THEN 1 ELSE tree[x].parent
  BY DEF UpFile
<1>7. ASSUME NEW e \in E
      PROVE  h[UpEntry[e]] = UpFile[h[e]]
  <2>1. h[e] = kernel[e].ident /\ h[UpEntry[e]] = kernel[UpEntry[e]].ident
    BY <1>5
  <2>2. UpFile[kernel[e].ident] = IF kernel[e].ident <= 1 THEN 1 ELSE tree[kernel[e].ident].parent
    BY <1>2, <1>6
  <2>3. CASE e <= 1
    <3>1. 1 \in E /\ (1 <= 1)
      BY <1>4, SMT
    <3>2. UpEntry[e] = 1 /\ kernel[1].ident = 1 /\ kernel[e].ident = 1
      BY <1>2, <1>5, <2>3, <3>1
    <3> QED
      BY <2>1, <2>2, <3>1, <3>2
  <2>4. CASE ~(e <= 1)
    BY <1>2, <1>5, <2>1, <2>2, <2>4
  <2> QED
    BY <2>3, <2>4
<1> HIDE DEF h, n
<1>8. PICK u : IsWalk(u, m, UpEntry, E, Len(tree)) /\ KernelPath(m) = [k \in 0 .. Len(tree) |-> kernel[u[k]].ident]
  BY <1>1, <1>5, KernelPathIs
<1>9. PICK w : IsWalk(w, n, UpFile, Files(tree), Len(tree)) /\ HostPath(n) = [k \in 0 .. Len(tree) |-> w[k]]
  BY <1>1, <1>3, HostPathIs
<1>10. \A k \in 0 .. Len(tree) : w[k] = h[u[k]]
  <2> HIDE DEF E
  <2>1. IsWalk(w, h[m], UpFile, Files(tree), Len(tree))
    BY <1>3, <1>9
  <2> QED
    BY <1>1, <1>7, <1>8, <2>1, WalksMeet
<1>11. \A k \in 0 .. Len(tree) : w[k] = kernel[u[k]].ident
  <2>1. \A k \in 0 .. Len(tree) : u[k] \in E
    BY <1>8 DEF IsWalk
  <2> QED
    BY <1>10, <2>1 DEF h
<1> QED
  BY <1>8, <1>9, <1>11 DEF n

LEMMA TreeInvArrives == TreeInv => TreeArrives
<1> SUFFICES ASSUME TreeInv, image_stage = "running"
             PROVE  /\ Len(kernel) = Len(tree)
                    /\ \A n \in DOMAIN kernel :
                         ToSet(kernel[n].children) = {m \in DOMAIN kernel : kernel[m].parent = n}
                    /\ \A n \in Files(tree) \ {1} : \E m \in DOMAIN kernel :
                         /\ KernelPath(m) = HostPath(n)
                         /\ kernel[m].kind = (IF tree[n].kind = "dir" THEN "directory_like" ELSE "rdfs_inode")
                         /\ kernel[m].bytes = (IF tree[n].kind = "dir" THEN <<>> ELSE BytesOf(tree, n))
  BY DEF TreeArrives
<1>1. /\ Tables /\ Linked /\ \A q \in Numbers : Complete(q)
      /\ KernelInv /\ CallsInv /\ calls = <<>>
  BY DEF TreeInv
<1>2. /\ tree \in Trees /\ Len(tree) \in Nat /\ Files(tree) = 1 .. Len(tree)
      /\ Len(kernel) \in Nat /\ DOMAIN kernel = 1 .. Len(kernel)
  <2>1. kernel \in Seq(KernelType)
    BY <1>1 DEF KernelInv
  <2> QED
    BY <1>1, <2>1, TreeShape, LenProperties DEF Tables
<1> DEFINE E == 1 .. Len(kernel)
<1>3. ASSUME NEW n \in Files(tree)
      PROVE  \E m \in E : /\ kernel[m].ident = n
                          /\ n # 1 => \E q \in Numbers :
                               /\ Entry(q).name = n
                               /\ kernel[m].kind = KindOf(q) /\ kernel[m].bytes = ContentOf(q)
  <2>1. PICK q \in Numbers : Entry(q).name = n
    BY <1>1, AllNamed
  <2>2. PICK m \in E : kernel[m].ino = q
    BY <1>1, AllMade DEF Made
  <2>3. PICK p \in 0 .. Len(kernel), r \in Numbers : MadeFrom(m, p, r)
    BY <1>1 DEF KernelInv
  <2>4. r = q /\ kernel[m].ident = n
    BY <2>1, <2>2, <2>3 DEF MadeFrom
  <2>5. n # 1 => q # 0
    BY <1>1, <2>1 DEF Linked
  <2> QED
    BY <2>1, <2>3, <2>4, <2>5 DEF MadeFrom
<1>4. Len(kernel) = Len(tree)
  <2> DEFINE f == [m \in E |-> kernel[m].ident]
  <2>1. /\ \A m \in E : kernel[m].ident \in Files(tree)
        /\ \A m, l \in E : kernel[m].ident = kernel[l].ident => m = l
    BY <1>1, KernelShape
  <2>2. f \in Injection(E, Files(tree))
    BY <2>1 DEF Injection, IsInjective
  <2>3. f \in Surjection(E, Files(tree))
    BY <1>3, <2>1 DEF Surjection
  <2> HIDE DEF f
  <2>4. \A k \in Nat : IsFiniteSet(1 .. k) /\ Cardinality(1 .. k) = k
    <3> SUFFICES ASSUME NEW k \in Nat
                 PROVE  IsFiniteSet(1 .. k) /\ Cardinality(1 .. k) = k
      OBVIOUS
    <3>1. IsFiniteSet(1 .. k) /\ Cardinality(1 .. k) = IF 1 > k THEN 0 ELSE k - 1 + 1
      BY FS_Interval
    <3> QED
      BY <3>1, SMT
  <2>5. Cardinality(E) = Cardinality(Files(tree))
    BY <1>2, <2>2, <2>3, <2>4, FS_Injection
  <2> QED
    BY <1>2, <2>4, <2>5
<1>5. ASSUME NEW n \in DOMAIN kernel
      PROVE  ToSet(kernel[n].children) = {m \in DOMAIN kernel : kernel[m].parent = n}
  BY <1>1, <1>2 DEF KernelInv
<1>6. ASSUME NEW n \in Files(tree) \ {1}
      PROVE  \E m \in DOMAIN kernel :
               /\ KernelPath(m) = HostPath(n)
               /\ kernel[m].kind = (IF tree[n].kind = "dir" THEN "directory_like" ELSE "rdfs_inode")
               /\ kernel[m].bytes = (IF tree[n].kind = "dir" THEN <<>> ELSE BytesOf(tree, n))
  <2>1. PICK m \in E, q \in Numbers :
          /\ kernel[m].ident = n /\ Entry(q).name = n
          /\ kernel[m].kind = KindOf(q) /\ kernel[m].bytes = ContentOf(q)
    BY <1>3
  <2>2. KernelPath(m) = HostPath(n)
    BY <1>1, <2>1, SamePath
  <2> QED
    BY <1>2, <2>1, <2>2 DEF KindOf, ContentOf
<1> QED
  BY <1>4, <1>5, <1>6

\* The kernel of a machine that was started has the host's files at their places
\* with their kinds and bytes, for every tree and every order in which readdir
\* returns the files of a directory, unless the tables were too small for it.
THEOREM TreesArrive == LoadingSpec => []TreeArrives
<1> DEFINE Inv == /\ way \in {"image", "program"}
                  /\ way = "image" => TreeInv
                  /\ way = "program" => image_stage = "none"
<1>1. LoadingInit => Inv
  BY InitTree DEF LoadingInit, NoImage
<1>2. Inv /\ [LoadingNext]_loadingVars => Inv'
  <2> SUFFICES ASSUME Inv, [LoadingNext]_loadingVars
               PROVE  Inv'
    OBVIOUS
  <2>1. way' = way
    BY DEF LoadingNext, loadingVars
  <2>2. way = "image" => [ImageNext]_imageVars
    BY DEF LoadingNext, loadingVars
  <2>3. way = "program" => image_stage' = image_stage
    BY DEF LoadingNext, loadingVars, imageVars
  <2> QED
    BY <2>1, <2>2, <2>3, TreeStep
<1>3. Inv => TreeArrives
  BY TreeInvArrives DEF TreeArrives
<1> HIDE DEF Inv
<1> QED
  BY <1>1, <1>2, <1>3, PTL DEF LoadingSpec
=============================================================================
