---------------------------- MODULE PagingProofs ----------------------------
(* What Paging promises for every number of directories, pages and frames.  *)
EXTENDS Paging, TLAPS, WellFoundedInduction

----------------------------------------------------------------------------
(* Arithmetic of pages *)

LEMMA DivisionFacts ==
  ASSUME NEW a \in Nat, NEW n \in Nat \ {0}
  PROVE  /\ a \div n \in Nat
         /\ a % n \in 0 .. n - 1
         /\ a = n * (a \div n) + (a % n)
  BY SMT

LEMMA ProductMonotonic ==
  ASSUME NEW x \in Nat, NEW y \in Nat, NEW n \in Nat \ {0}
  PROVE  /\ n * x < n * y <=> x < y
         /\ n * x <= n * y <=> x <= y
         /\ n * (x + 1) = n * x + n
         /\ n * x \in Nat
  BY SMT

LEMMA WordFacts ==
  /\ Word \in Nat
  /\ Word = PageSize * PageCount
  /\ PageSize \in Nat \ {0}
  /\ PageCount \in Nat \ {0}
  BY PagingAssumption, SMT DEF Word

LEMMA PageDivision ==
  ASSUME NEW a \in Nat
  PROVE  /\ a \div PageSize \in Nat
         /\ a % PageSize \in 0 .. PageSize - 1
         /\ a % PageSize \in Nat
         /\ a = PageSize * (a \div PageSize) + (a % PageSize)
<1>1. PageSize \in Nat \ {0}
  BY WordFacts
<1>2. /\ a \div PageSize \in Nat
      /\ a % PageSize \in 0 .. PageSize - 1
      /\ a = PageSize * (a \div PageSize) + (a % PageSize)
  BY <1>1, DivisionFacts
<1> QED
  BY <1>1, <1>2

\* The base of the page that an address lies in.
LEMMA BaseFacts ==
  ASSUME NEW a \in Nat
  PROVE  /\ PageBase(a) \in Nat
         /\ PageBase(a) = PageSize * (a \div PageSize)
         /\ PageBase(a) <= a
         /\ a \div PageSize \in Nat
  BY DivisionFacts, WordFacts DEF PageBase

\* An address of the address space lies in one of its pages.
LEMMA AddressInPage ==
  ASSUME NEW a \in 0 .. Word - 1
  PROVE  a \div PageSize \in Pages
<1>1. PageSize * (a \div PageSize) < PageSize * PageCount
  BY BaseFacts, WordFacts
<1>2. a \div PageSize < PageCount
  BY <1>1, ProductMonotonic, BaseFacts, WordFacts
<1> QED
  BY <1>2, BaseFacts, WordFacts DEF Pages

\* The end of the loop is an address.
LEMMA EndFacts ==
  ASSUME NEW a \in Nat
  PROVE  a % Word \in 0 .. Word - 1
<1>1. PageSize * 1 <= PageSize * PageCount
  BY ProductMonotonic, WordFacts
<1>2. Word \in Nat \ {0}
  BY <1>1, WordFacts
<1> QED
  BY <1>2, DivisionFacts

----------------------------------------------------------------------------
(* The bitset *)

LEMMA FrameFacts ==
  /\ Frames \subseteq Nat
  /\ 0 \in Frames
  /\ LockedFrames \in Nat \ {0}
  /\ 0 .. LockedFrames - 1 \subseteq Frames
  BY PagingAssumption DEF Frames

\* first_frame answers with a free frame if there is one.
LEMMA FirstFrameFree ==
  ASSUME NEW used, used \subseteq Frames, used # Frames
  PROVE  FirstFrame(used) \in Frames \ used
<1> DEFINE R == OpToRel(<, Nat)
<1>1. \E f \in Frames \ used : \A g \in Frames \ used : ~ (<<g, f>> \in R)
  <2>1. Frames \ used # {} /\ Frames \ used \subseteq Nat
    BY FrameFacts
  <2> HIDE DEF R
  <2>2. IsWellFoundedOn(R, Nat)
    BY NatLessThanWellFounded DEF R
  <2> QED
    BY <2>1, <2>2, WFMin
<1>2. \A f, g \in Nat : g < f => <<g, f>> \in R
  BY DEF OpToRel
<1>3. \E f \in Frames \ used : \A g \in Frames \ used : f <= g
  <2> HIDE DEF R
  <2>1. PICK f \in Frames \ used : \A g \in Frames \ used : ~ (<<g, f>> \in R)
    BY <1>1
  <2>2. \A g \in Frames \ used : ~ (g < f)
    BY <2>1, <1>2, FrameFacts
  <2> QED
    BY <2>2, FrameFacts
<1> QED
  BY <1>3 DEF FirstFrame

\* first_frame answers with a frame, and with a locked one if none is free.
LEMMA FirstFrameIsFrame ==
  ASSUME NEW used, used \subseteq Frames
  PROVE  /\ FirstFrame(used) \in Frames
         /\ used = Frames => FirstFrame(used) = 0
<1>1. CASE used = Frames
  BY <1>1, FrameFacts DEF FirstFrame
<1>2. CASE used # Frames
  BY <1>2, FirstFrameFree
<1> QED
  BY <1>1, <1>2

----------------------------------------------------------------------------
(* The inductive invariant *)

LockedSet == 0 .. LockedFrames - 1 \subseteq frames

\* What allocate's loop has done when i is where it is: i is a page's base, and
\* every page from the first to it is present.
LoopInv ==
  pc = "allocate" =>
    /\ call.dir \in forked
    /\ \E k \in 0 .. PageCount : i = PageSize * k
    /\ \A p \in Pages :
         PageBase(call.virt_addr) <= PageSize * p /\ PageSize * p < i =>
           pages[call.dir][p].present

FramedIsPresent ==
  \A d \in Dirs, p \in Pages : pages[d][p].frame # 0 => pages[d][p].present

IInv ==
  /\ TypeOK
  /\ LockedSet
  /\ FramesExclusive
  /\ FramedIsPresent
  /\ PresentIsReachable
  /\ LoopInv

LEMMA TableOfPage ==
  ASSUME NEW p \in Pages
  PROVE  TableOf(p) \in Tables
  BY DEF Tables

LEMMA InitIInv == Init => IInv
<1> SUFFICES ASSUME Init PROVE IInv
  OBVIOUS
<1> USE DEF Init
<1>1. TypeOK
  <2>1. frames \subseteq Frames
    BY PagingAssumption DEF Frames
  <2>2. /\ tables \in [Dirs -> SUBSET Tables]
        /\ tables_physical \in [Dirs -> [Tables -> {"none", "4MB", "table"}]]
    BY DEF NoTables, ForkedTables
  <2>3. pages \in [Dirs -> [Pages -> Page]]
    BY FrameFacts DEF NoPage, Page
  <2>4. call \in [dir : Dirs, virt_addr : 0 .. Word - 1, size : 0 .. Word - 1,
                  kernel : BOOLEAN, writable : BOOLEAN]
    <3>1. 0 \in 0 .. Word - 1
      <4>1. 0 % Word \in 0 .. Word - 1
        BY EndFacts
      <4> QED
        BY <4>1, WordFacts
    <3> QED
      BY <3>1, PagingAssumption DEF NoCall
  <2> QED
    BY <2>1, <2>2, <2>3, <2>4, PagingAssumption, WordFacts DEF TypeOK
<1>2. LockedSet
  BY DEF LockedSet
<1>3. FramesExclusive /\ FramedIsPresent /\ PresentIsReachable /\ LoopInv
  BY DEF FramesExclusive, FramedIsPresent, PresentIsReachable, LoopInv, NoPage
<1> QED
  BY <1>1, <1>2, <1>3 DEF IInv

----------------------------------------------------------------------------
(* One lemma per action *)

LEMMA StartAllocateIInv ==
  ASSUME IInv, NEW d \in Dirs, NEW range \in Ranges, NEW right \in Rights,
         StartAllocate(d, range[1], range[2], right[1], right[2])
  PROVE  IInv'
<1> USE DEF IInv, StartAllocate
<1>1. /\ range[1] \in 0 .. Word - 1
      /\ range[2] \in 0 .. Word - 1
      /\ right[1] \in BOOLEAN
      /\ right[2] \in BOOLEAN
  BY PagingAssumption DEF Word
<1> DEFINE v == range[1]
<1>2. v \in Nat
  BY <1>1, WordFacts
<1> HIDE DEF v
<1>3. /\ PageBase(v) \in Nat
      /\ PageBase(v) = PageSize * (v \div PageSize)
      /\ PageBase(v) <= v
      /\ v \div PageSize \in Nat
  BY <1>2, BaseFacts
<1>4. v \div PageSize \in 0 .. PageCount
  BY <1>1, AddressInPage, WordFacts DEF v, Pages
<1>5. i' = PageBase(v) /\ call'.virt_addr = v
  BY DEF v
<1>6. TypeOK'
  BY <1>1, <1>3, <1>5, WordFacts DEF TypeOK, v
<1>7. LoopInv'
  <2>1. \E k \in 0 .. PageCount : i' = PageSize * k
    BY <1>3, <1>4, <1>5
  <2>2. \A p \in Pages : PageSize * p \in Nat
    BY WordFacts, ProductMonotonic DEF Pages
  <2>3. \A p \in Pages : ~ (PageBase(v) <= PageSize * p /\ PageSize * p < PageBase(v))
    BY <2>2, <1>3
  <2>4. call'.dir \in forked'
    OBVIOUS
  <2> QED
    BY <2>1, <2>3, <2>4, <1>5 DEF LoopInv, PageBase
<1> QED
  BY <1>6, <1>7 DEF LockedSet, FramesExclusive, OwnFrame, FramedIsPresent, PresentIsReachable

\* What alloc_frame does with the page it is given, whether it has a frame
\* already, takes a free one, or gets frame 0 because there is none.
LEMMA AllocFrameFacts ==
  ASSUME TypeOK, LockedSet, FramesExclusive, FramedIsPresent, NEW d \in Dirs, NEW p \in Pages,
         NEW kernel \in BOOLEAN, NEW writable \in BOOLEAN,
         AllocFrame(d, p, kernel, writable)
  PROVE  /\ frames' \subseteq Frames
         /\ pages' \in [Dirs -> [Pages -> Page]]
         /\ LockedSet'
         /\ FramesExclusive' /\ FramedIsPresent'
         /\ \A e \in Dirs, q \in Pages : e # d \/ q # p => pages'[e][q] = pages[e][q]
         /\ pages'[d][p].present
         /\ pages[d][p].present =>
              /\ pages'[d][p].frame = pages[d][p].frame
              /\ pages'[d][p] = pages[d][p] \/ (pages[d][p].frame = 0 /\ frames = Frames)
<1> DEFINE idx == FirstFrame(frames)
<1>1. /\ idx \in Frames
      /\ frames = Frames => idx = 0
      /\ frames # Frames => idx \notin frames
  BY FirstFrameIsFrame, FirstFrameFree DEF TypeOK
<1> HIDE DEF idx
<1>z. 0 \in 0 .. LockedFrames - 1 /\ 0 \in frames
  BY FrameFacts DEF LockedSet
<1>2. CASE pages[d][p].frame # 0
  <2>1. UNCHANGED <<frames, pages>>
    BY <1>2 DEF AllocFrame
  <2>2. FramesExclusive'
    BY <2>1 DEF FramesExclusive, OwnFrame
  <2> QED
    BY <1>2, <2>1, <2>2 DEF TypeOK, LockedSet, FramedIsPresent
<1>3. CASE pages[d][p].frame = 0
  <2> DEFINE new == [present |-> TRUE, rw |-> writable, user |-> ~kernel, frame |-> idx]
  <2>1. frames' = frames \cup {idx} /\ pages' = [pages EXCEPT ![d][p] = new]
    BY <1>3 DEF AllocFrame, idx
  <2>2. new \in Page /\ new.present /\ new.frame = idx
    BY <1>1 DEF Page
  <2> HIDE DEF new
  <2>3. pages' \in [Dirs -> [Pages -> Page]]
    BY <2>1, <2>2 DEF TypeOK
  <2>4. /\ \A e \in Dirs, q \in Pages : e # d \/ q # p => pages'[e][q] = pages[e][q]
        /\ pages'[d][p] = new
    BY <2>1 DEF TypeOK
  <2>5. frames' \subseteq Frames /\ LockedSet'
    BY <2>1, <1>1 DEF TypeOK, LockedSet
  <2>6. FramesExclusive'
    <3> SUFFICES ASSUME NEW e \in Dirs, NEW q \in Pages, pages'[e][q].present
                 PROVE  /\ pages'[e][q].frame \in frames'
                        /\ OwnFrame(e, q)' \/ (pages'[e][q].frame = 0 /\ frames' = Frames)
      BY DEF FramesExclusive
    <3>1. CASE frames = Frames
      <4>1. idx = 0 /\ frames' = Frames
        BY <3>1, <2>1, <1>1
      <4>2. CASE e = d /\ q = p
        BY <4>1, <4>2, <2>2, <2>4, <1>1
      <4>3. CASE ~ (e = d /\ q = p)
        <5>1. pages'[e][q] = pages[e][q] /\ pages[e][q].present
          BY <4>3, <2>4
        <5>2. /\ pages[e][q].frame \in frames
              /\ OwnFrame(e, q) \/ pages[e][q].frame = 0
          BY <5>1 DEF FramesExclusive
        <5>3. ASSUME OwnFrame(e, q) PROVE OwnFrame(e, q)'
          <6>1. pages[e][q].frame # 0
            BY <5>3, <1>z DEF OwnFrame
          <6> QED
            BY <5>1, <5>3, <6>1, <4>1, <2>2, <2>4 DEF OwnFrame
        <5> QED
          BY <5>1, <5>2, <5>3, <4>1, <3>1
      <4> QED
        BY <4>2, <4>3
    <3>2. CASE frames # Frames
      <4>1. idx \notin frames
        BY <3>2, <1>1
      <4>2. idx \notin 0 .. LockedFrames - 1
        BY <4>1 DEF LockedSet
      <4>3. \A x \in Dirs, y \in Pages : pages[x][y].present => pages[x][y].frame # idx
        BY <4>1 DEF FramesExclusive
      <4>4. CASE e = d /\ q = p
        <5>1. \A x \in Dirs, y \in Pages :
                pages'[x][y].present /\ pages'[x][y].frame = idx => x = d /\ y = p
          BY <4>3, <2>4
        <5> QED
          BY <4>2, <4>4, <5>1, <2>1, <2>2, <2>4 DEF OwnFrame
      <4>5. CASE ~ (e = d /\ q = p)
        <5>1. pages'[e][q] = pages[e][q] /\ pages[e][q].present
          BY <4>5, <2>4
        <5>2. pages[e][q].frame \in frames /\ OwnFrame(e, q)
          BY <5>1, <3>2 DEF FramesExclusive
        <5>3. OwnFrame(e, q)'
          BY <5>1, <5>2, <4>1, <2>2, <2>4 DEF OwnFrame
        <5> QED
          BY <5>1, <5>2, <5>3, <2>1
      <4> QED
        BY <4>4, <4>5
    <3> QED
      BY <3>1, <3>2
  <2>7. pages[d][p].present => frames = Frames
    BY <1>3, <1>z DEF FramesExclusive, OwnFrame
  <2>8. pages[d][p].present => pages'[d][p].frame = pages[d][p].frame
    BY <2>7, <1>1, <1>3, <2>2, <2>4
  <2> QED
    BY <1>3, <2>2, <2>3, <2>4, <2>5, <2>6, <2>7, <2>8 DEF FramedIsPresent
<1> QED
  BY <1>2, <1>3

\* What get_page does with the table of the page it is asked for.
LEMMA GetPageFacts ==
  ASSUME TypeOK, PresentIsReachable, NEW d \in Dirs, NEW p, TableOf(p) \in Tables, GetPage(d, p)
  PROVE  /\ tables' \in [Dirs -> SUBSET Tables]
         /\ tables_physical' \in [Dirs -> [Tables -> {"none", "4MB", "table"}]]
         /\ tables_physical'[d][TableOf(p)] = "table"
         /\ \A e \in Dirs : \A t \in tables'[e] : tables_physical'[e][t] = "table"
         /\ \A e \in Dirs, t \in Tables :
              tables_physical[e][t] = "table" => tables_physical'[e][t] = "table"
<1> DEFINE u == TableOf(p)
<1>0. /\ tables \in [Dirs -> SUBSET Tables]
      /\ tables_physical \in [Dirs -> [Tables -> {"none", "4MB", "table"}]]
      /\ \A e \in Dirs : \A t \in tables[e] : tables_physical[e][t] = "table"
      /\ u \in Tables
  BY DEF TypeOK, PresentIsReachable
<1>1. CASE u \in tables[d]
  <2>1. UNCHANGED <<tables, tables_physical>>
    BY <1>1 DEF GetPage
  <2> HIDE DEF u
  <2> QED
    BY <1>0, <1>1, <2>1 DEF u
<1>2. CASE u \notin tables[d]
  <2>1. /\ tables' = [tables EXCEPT ![d] = @ \cup {u}]
        /\ tables_physical' = [tables_physical EXCEPT ![d][u] = "table"]
    BY <1>2 DEF GetPage
  <2> HIDE DEF u
  <2>2. /\ tables' \in [Dirs -> SUBSET Tables]
        /\ \A e \in Dirs : tables'[e] = IF e = d THEN tables[d] \cup {u} ELSE tables[e]
    BY <1>0, <2>1
  <2>3. /\ tables_physical' \in [Dirs -> [Tables -> {"none", "4MB", "table"}]]
        /\ \A e \in Dirs, t \in Tables :
             tables_physical'[e][t] =
               IF e = d /\ t = u THEN "table" ELSE tables_physical[e][t]
    BY <1>0, <2>1
  <2>4. \A e \in Dirs : \A t \in tables'[e] : t \in Tables
    BY <2>2
  <2> QED
    BY <1>0, <2>2, <2>3, <2>4 DEF u
<1> QED
  BY <1>1, <1>2

\* The page that allocate asks for next is one of the address space.
LEMMA AllocatePageInside ==
  ASSUME IInv, AllocatePage
  PROVE  i \in 0 .. Word - 1 /\ i \div PageSize \in Pages
<1>1. /\ call.virt_addr \in 0 .. Word - 1 /\ call.size \in 0 .. Word - 1
      /\ i \in 0 .. Word /\ i < RangeEnd
  BY DEF IInv, TypeOK, AllocatePage
<1>2. PageBase(call.virt_addr) \in Nat
  BY <1>1, WordFacts, BaseFacts
<1>3. RoundUp(call.size) \in Nat
  BY <1>1, WordFacts, BaseFacts DEF RoundUp
<1>4. RangeEnd \in 0 .. Word - 1
  BY <1>2, <1>3, EndFacts DEF RangeEnd
<1>5. i \in 0 .. Word - 1
  BY <1>1, <1>4, WordFacts
<1> QED
  BY <1>5, AddressInPage

LEMMA AllocatePageIInv ==
  ASSUME IInv, AllocatePage
  PROVE  IInv'
<1> DEFINE d == call.dir
           p == i \div PageSize
<1>1. /\ TypeOK /\ LockedSet /\ FramesExclusive /\ FramedIsPresent
      /\ PresentIsReachable /\ LoopInv
      /\ pc = "allocate" /\ i < RangeEnd
      /\ GetPage(d, p)
      /\ AllocFrame(d, p, call.kernel, call.writable)
      /\ i' = i + PageSize
      /\ UNCHANGED <<forked, pc, call>>
  BY DEF IInv, AllocatePage
<1>2. /\ d \in Dirs
      /\ call.virt_addr \in 0 .. Word - 1 /\ call.size \in 0 .. Word - 1
      /\ call.kernel \in BOOLEAN /\ call.writable \in BOOLEAN
      /\ i \in 0 .. Word
  BY <1>1 DEF TypeOK
<1>3. /\ i \in 0 .. Word - 1
      /\ \E k \in 0 .. PageCount : i = PageSize * k
  BY <1>1, AllocatePageInside DEF LoopInv
<1>4. p \in Pages /\ i = PageSize * p
  <2>1. p \in Pages
    BY <1>3, AddressInPage
  <2>2. PICK k \in 0 .. PageCount : i = PageSize * k
    BY <1>3
  <2>3. /\ p \in Nat
        /\ i % PageSize \in 0 .. PageSize - 1
        /\ i = PageSize * p + (i % PageSize)
    <3>1. i \in Nat
      BY <1>3, WordFacts
    <3> QED
      BY <3>1, PageDivision
  <2>4. p \in 0 .. PageCount - 1 /\ k \in Nat
    BY <2>1, <2>2, WordFacts DEF Pages
  <2>5. PageSize * k < PageSize * (p + 1)
    <3>1. PageSize * (p + 1) = PageSize * p + PageSize
      BY <2>3, WordFacts, ProductMonotonic
    <3> QED
      BY <2>2, <2>3, <3>1, WordFacts
  <2>6. k <= p
    BY <2>5, <2>4, WordFacts, ProductMonotonic
  <2>7. PageSize * p <= PageSize * k
    BY <2>2, <2>3, <1>3, WordFacts
  <2>8. p <= k
    BY <2>7, <2>4, WordFacts, ProductMonotonic
  <2> QED
    BY <2>1, <2>2, <2>4, <2>6, <2>8
<1> HIDE DEF d, p
<1>5. /\ frames' \subseteq Frames
      /\ pages' \in [Dirs -> [Pages -> Page]]
      /\ LockedSet'
      /\ FramesExclusive' /\ FramedIsPresent'
      /\ \A e \in Dirs, q \in Pages : e # d \/ q # p => pages'[e][q] = pages[e][q]
      /\ pages'[d][p].present
  BY <1>1, <1>2, <1>4, AllocFrameFacts
<1>6. /\ tables' \in [Dirs -> SUBSET Tables]
      /\ tables_physical' \in [Dirs -> [Tables -> {"none", "4MB", "table"}]]
      /\ tables_physical'[d][TableOf(p)] = "table"
      /\ \A e \in Dirs : \A t \in tables'[e] : tables_physical'[e][t] = "table"
      /\ \A e \in Dirs, t \in Tables :
           tables_physical[e][t] = "table" => tables_physical'[e][t] = "table"
  <2>1. GetPage(d, p) /\ PresentIsReachable
    BY <1>1
  <2>2. TableOf(p) \in Tables
    BY <1>4, TableOfPage
  <2> QED
    BY <1>1, <1>2, <2>1, <2>2, GetPageFacts
<1>7. i' \in 0 .. Word /\ \E k \in 0 .. PageCount : i' = PageSize * k
  <2>1. p + 1 \in 0 .. PageCount /\ p \in Nat
    BY <1>4, WordFacts DEF Pages
  <2>2. i' = PageSize * (p + 1)
    BY <1>1, <1>4, <2>1, WordFacts, ProductMonotonic
  <2>3. PageSize * (p + 1) <= PageSize * PageCount
    BY <2>1, WordFacts, ProductMonotonic
  <2> QED
    BY <2>1, <2>2, <2>3, WordFacts, ProductMonotonic
<1>8. TypeOK'
  BY <1>1, <1>5, <1>6, <1>7 DEF TypeOK
<1>9. d \in forked
  BY <1>1 DEF LoopInv, d
<1>10. PresentIsReachable'
  <2> SUFFICES ASSUME NEW e \in Dirs, NEW q \in Pages, pages'[e][q].present
               PROVE  e \in forked' /\ tables_physical'[e][TableOf(q)] = "table"
    BY <1>6 DEF PresentIsReachable
  <2>1. CASE e = d /\ q = p
    BY <2>1, <1>1, <1>6, <1>9
  <2>2. CASE ~ (e = d /\ q = p)
    <3>1. pages[e][q].present /\ TableOf(q) \in Tables
      BY <2>2, <1>5, TableOfPage
    <3>2. e \in forked /\ tables_physical[e][TableOf(q)] = "table"
      BY <3>1, <1>1 DEF PresentIsReachable
    <3> QED
      BY <3>1, <3>2, <1>1, <1>6
  <2> QED
    BY <2>1, <2>2
<1>11. LoopInv'
  <2> SUFFICES ASSUME NEW q \in Pages, PageBase(call.virt_addr) <= PageSize * q,
                      PageSize * q < i'
               PROVE  pages'[d][q].present
    BY <1>1, <1>7, <1>9 DEF LoopInv, PageBase, d
  <2>1. p \in Nat /\ q \in Nat /\ p + 1 \in Nat
    BY <1>4 DEF Pages
  <2>2. i' = PageSize * (p + 1)
    BY <1>1, <1>4, <2>1, WordFacts, ProductMonotonic
  <2>3. q < p + 1
    BY <2>1, <2>2, WordFacts, ProductMonotonic
  <2>4. CASE q = p
    BY <2>4, <1>5
  <2>5. CASE q < p
    <3>1. PageSize * q < i
      BY <2>1, <2>5, <1>4, WordFacts, ProductMonotonic
    <3>2. pages[d][q].present
      BY <3>1, <1>1 DEF LoopInv, d
    <3> QED
      BY <3>2, <2>1, <2>5, <1>5, <1>2
  <2> QED
    BY <2>1, <2>3, <2>4, <2>5
<1> QED
  BY <1>1, <1>5, <1>8, <1>10, <1>11 DEF IInv

LEMMA TableExhaustedIInv ==
  ASSUME IInv, TableExhausted
  PROVE  IInv'
BY DEF IInv, TableExhausted, TypeOK, LockedSet, FramesExclusive, OwnFrame, FramedIsPresent,
       PresentIsReachable, LoopInv

LEMMA AllocateDoneIInv ==
  ASSUME IInv, AllocateDone
  PROVE  IInv'
<1>1. 0 \in 0 .. Word - 1 /\ 0 \in 0 .. Word
  <2>1. 0 % Word \in 0 .. Word - 1
    BY EndFacts
  <2> QED
    BY <2>1, WordFacts
<1>2. NoCall \in [dir : Dirs, virt_addr : 0 .. Word - 1, size : 0 .. Word - 1,
                  kernel : BOOLEAN, writable : BOOLEAN]
  BY <1>1, PagingAssumption DEF NoCall
<1>3. TypeOK'
  BY <1>1, <1>2 DEF IInv, AllocateDone, TypeOK
<1> QED
  BY <1>3 DEF IInv, AllocateDone, LockedSet, FramesExclusive, OwnFrame, FramedIsPresent,
              PresentIsReachable, LoopInv

LEMMA ForkPageIInv ==
  ASSUME IInv, NEW d \in Dirs, ForkPage(d)
  PROVE  IInv'
<1>1. /\ ForkedTables \in [Tables -> {"none", "4MB", "table"}]
      /\ d \notin forked
      /\ forked' = forked \cup {d}
      /\ tables' = [tables EXCEPT ![d] = {}]
      /\ tables_physical' = [tables_physical EXCEPT ![d] = ForkedTables]
      /\ UNCHANGED <<frames, pages, pc, call, i>>
  BY DEF ForkPage, ForkedTables
<1>2. TypeOK'
  BY <1>1 DEF IInv, TypeOK
<1>3. PresentIsReachable'
  BY <1>1 DEF IInv, TypeOK, PresentIsReachable
<1> QED
  BY <1>1, <1>2, <1>3 DEF IInv, LockedSet, FramesExclusive, OwnFrame, FramedIsPresent, LoopInv,
                          ForkPage

----------------------------------------------------------------------------
(* Theorems *)

LEMMA NextIInv == IInv /\ [Next]_vars => IInv'
<1> SUFFICES ASSUME IInv, [Next]_vars PROVE IInv'
  OBVIOUS
<1>1. ASSUME NEW d \in Dirs, NEW range \in Ranges, NEW right \in Rights,
             StartAllocate(d, range[1], range[2], right[1], right[2])
      PROVE  IInv'
  BY <1>1, StartAllocateIInv
<1>2. CASE AllocatePage
  BY <1>2, AllocatePageIInv
<1>3. CASE TableExhausted
  BY <1>3, TableExhaustedIInv
<1>4. CASE AllocateDone
  BY <1>4, AllocateDoneIInv
<1>5. ASSUME NEW d \in Dirs, ForkPage(d)
      PROVE  IInv'
  BY <1>5, ForkPageIInv
<1>6. CASE UNCHANGED vars
  BY <1>6 DEF vars, IInv, TypeOK, LockedSet, FramesExclusive, OwnFrame, FramedIsPresent,
              PresentIsReachable, LoopInv
<1> QED
  BY <1>1, <1>2, <1>3, <1>4, <1>5, <1>6 DEF Next

\* Everything below rests on IInv: initialise_paging establishes it, and
\* fork_page and every step of allocate keep it.
THEOREM PagingInvariance == Spec => []IInv
  BY InitIInv, NextIInv, PTL DEF Spec

\* The bitset, the directories and the page entries keep to their types.
THEOREM PagingTypeCorrect == Spec => []TypeOK
<1>1. IInv => TypeOK
  BY DEF IInv
<1> QED
  BY <1>1, PagingInvariance, PTL

\* Every present page has a frame of its own that is none of the locked ones,
\* or is on frame 0, which happens only once every frame is taken.
THEOREM NoFrameShared == Spec => []FramesExclusive
<1>1. IInv => FramesExclusive
  BY DEF IInv
<1> QED
  BY <1>1, PagingInvariance, PTL

\* Every present page is behind a table its directory names.
THEOREM PagesReachable == Spec => []PresentIsReachable
<1>1. IInv => PresentIsReachable
  BY DEF IInv
<1> QED
  BY <1>1, PagingInvariance, PTL

\* No step unmaps or moves a mapped page; permissions change only on frame 0
\* once the frames have run out, and a 4 MB page gives way only to the table
\* that allocate asks for inside of it.
THEOREM TranslationsStay == Spec => TranslationStable
<1> DEFINE Stable ==
      \A d \in Dirs :
        /\ \A p \in Pages : pages[d][p].present => PageStable(d, p)
        /\ \A t \in Tables :
             d \in forked /\ tables_physical[d][t] # "none" => TableStable(d, t)
<1>1. ASSUME IInv, AllocatePage
      PROVE  Stable
  <2> DEFINE e == call.dir
             q == i \div PageSize
  <2>1. /\ e \in Dirs /\ call.kernel \in BOOLEAN /\ call.writable \in BOOLEAN
        /\ pc = "allocate" /\ call.dir = e
        /\ GetPage(e, q) /\ AllocFrame(e, q, call.kernel, call.writable)
        /\ q \in Pages
    BY <1>1, AllocatePageInside DEF IInv, TypeOK, AllocatePage
  <2>2. TypeOK /\ LockedSet /\ FramesExclusive /\ FramedIsPresent /\ PresentIsReachable
    BY <1>1 DEF IInv
  <2> HIDE DEF e
  <2>3. ASSUME NEW d \in Dirs, NEW p \in Pages, pages[d][p].present
        PROVE  PageStable(d, p)
    <3> HIDE DEF q
    <3>1. CASE d = e /\ p = q
      <4>1. /\ pages'[e][q].present
            /\ pages[e][q].present =>
                 /\ pages'[e][q].frame = pages[e][q].frame
                 /\ pages'[e][q] = pages[e][q] \/ (pages[e][q].frame = 0 /\ frames = Frames)
        BY <2>1, <2>2, AllocFrameFacts
      <4> QED
        BY <3>1, <4>1, <2>3, <2>1 DEF PageStable, Allocating, q
    <3>2. CASE ~ (d = e /\ p = q)
      <4>1. \A x \in Dirs, y \in Pages : x # e \/ y # q => pages'[x][y] = pages[x][y]
        BY <2>1, <2>2, AllocFrameFacts
      <4> QED
        BY <3>2, <4>1, <2>3 DEF PageStable
    <3> QED
      BY <3>1, <3>2
  <2>4. ASSUME NEW d \in Dirs, NEW t \in Tables, tables_physical[d][t] # "none"
        PROVE  TableStable(d, t)
    <3>1. /\ TableOf(q) \in Tables
          /\ tables_physical \in [Dirs -> [Tables -> {"none", "4MB", "table"}]]
      BY <2>1, <2>2, TableOfPage DEF TypeOK
    <3>2. CASE d = e /\ t = TableOf(q)
      <4>1. tables_physical'[e][TableOf(q)] = "table"
        <5> HIDE DEF q
        <5> QED
          BY <2>1, <2>2, <3>1, GetPageFacts
      <4>2. tables_physical[d][t] \in {"4MB", "table"}
        BY <2>4, <3>1
      <4> QED
        BY <3>2, <4>1, <4>2, <2>1 DEF TableStable, Allocating
    <3>3. CASE ~ (d = e /\ t = TableOf(q))
      <4>1. \/ tables_physical' = tables_physical
            \/ tables_physical' = [tables_physical EXCEPT ![e][TableOf(q)] = "table"]
        BY <2>1 DEF GetPage
      <4> HIDE DEF q
      <4>2. tables_physical'[d][t] = tables_physical[d][t]
        BY <4>1, <3>1, <3>3, <2>1
      <4> QED
        BY <4>2 DEF TableStable
    <3> QED
      BY <3>2, <3>3
  <2> QED
    BY <2>3, <2>4
<1>2. ASSUME IInv, NEW x \in Dirs, ForkPage(x)
      PROVE  Stable
  <2>1. pages' = pages /\ x \notin forked /\ tables_physical \in [Dirs -> [Tables -> {"none", "4MB", "table"}]]
        /\ tables_physical' = [tables_physical EXCEPT ![x] = ForkedTables]
    BY <1>2 DEF ForkPage, IInv, TypeOK
  <2>2. \A d \in Dirs : d \in forked => tables_physical'[d] = tables_physical[d]
    BY <2>1
  <2> QED
    BY <2>1, <2>2 DEF PageStable, TableStable
<1>3. ASSUME UNCHANGED <<pages, tables_physical>>
      PROVE  Stable
  BY <1>3 DEF PageStable, TableStable
<1>4. ASSUME IInv, [Next]_vars
      PROVE  Stable
  <2> HIDE DEF Stable
  <2> QED
    BY <1>1, <1>2, <1>3, <1>4
    DEF Next, vars, StartAllocate, TableExhausted, AllocateDone
<1>5. IInv /\ [Next]_vars => [Stable]_vars
  BY <1>4
<1> QED
  BY <1>5, PagingInvariance, PTL DEF Spec, TranslationStable

\* What allocate was asked for is mapped when it returns, whatever the range,
\* the page size and the size of the address space.
THEOREM RequestsMapped == Spec => RequestMapped
<1> DEFINE Mapped ==
      AllocateDone =>
        \A a \in 0 .. Word - 1 :
          /\ call.virt_addr <= a
          /\ a < call.virt_addr + call.size - (call.virt_addr % PageSize)
          /\ PageBase(call.virt_addr) + RoundUp(call.size) < Word
          => pages[call.dir][a \div PageSize].present
<1>1. ASSUME IInv PROVE Mapped
  <2> SUFFICES ASSUME AllocateDone, NEW a \in 0 .. Word - 1, call.virt_addr <= a,
                      a < call.virt_addr + call.size - (call.virt_addr % PageSize),
                      PageBase(call.virt_addr) + RoundUp(call.size) < Word
               PROVE  pages[call.dir][a \div PageSize].present
    OBVIOUS
  <2> DEFINE v == call.virt_addr
             size == call.size
             p == a \div PageSize
  <2>1. v \in Nat /\ size \in Nat /\ a \in Nat /\ i \in Nat
    BY <1>1, WordFacts DEF IInv, TypeOK
  <2>2. /\ v % PageSize \in Nat
        /\ PageBase(v) = v - (v % PageSize)
        /\ PageBase(v) = PageSize * (v \div PageSize)
        /\ PageBase(v) \in Nat /\ v \div PageSize \in Nat
    <3> HIDE DEF v
    <3> QED
      BY <2>1, PageDivision, BaseFacts DEF PageBase
  <2>3. RoundUp(size) \in Nat /\ size <= RoundUp(size)
    <3>1. /\ size % PageSize \in 0 .. PageSize - 1
          /\ PageBase(size) = size - (size % PageSize)
          /\ PageBase(size) \in Nat
      BY <2>1, WordFacts, DivisionFacts, BaseFacts DEF PageBase
    <3> QED
      BY <3>1, <2>1, WordFacts DEF RoundUp
  <2>4. PageBase(v) + RoundUp(size) <= i
    <3> DEFINE sum == PageBase(v) + RoundUp(size)
    <3>1. sum \in Nat /\ sum < Word /\ Word \in Nat
      BY <2>2, <2>3, WordFacts
    <3>2. RangeEnd = sum % Word
      BY DEF RangeEnd
    <3> HIDE DEF sum
    <3>3. sum % Word = sum
      BY <3>1, SMT
    <3>4. i >= RangeEnd
      BY DEF AllocateDone
    <3> QED
      BY <3>2, <3>3, <3>4 DEF sum
  <2>5. /\ p \in Nat /\ p \in Pages
        /\ a % PageSize \in 0 .. PageSize - 1
        /\ a = PageSize * p + (a % PageSize)
        /\ PageSize * p \in Nat
    BY <2>1, WordFacts, DivisionFacts, AddressInPage, ProductMonotonic
  <2> HIDE DEF p, v, size
  <2>6. PageSize * p < i
    BY <2>1, <2>2, <2>3, <2>4, <2>5, WordFacts DEF v, size
  <2>7. PageBase(v) <= PageSize * p
    <3> DEFINE k == v \div PageSize
    <3>1. k \in Nat /\ PageSize * k <= a /\ p + 1 \in Nat
      BY <2>1, <2>2, <2>5, WordFacts DEF v
    <3> HIDE DEF k
    <3>2. PageSize * (p + 1) = PageSize * p + PageSize /\ PageSize * k \in Nat
      BY <2>5, <3>1, WordFacts, ProductMonotonic
    <3>3. PageSize * k < PageSize * (p + 1)
      BY <2>5, <3>1, <3>2, WordFacts
    <3>4. k <= p
      BY <3>1, <3>3, <2>5, WordFacts, ProductMonotonic
    <3>5. PageSize * k <= PageSize * p
      BY <3>1, <3>4, <2>5, WordFacts, ProductMonotonic
    <3> QED
      BY <3>5, <2>2 DEF k
  <2> QED
    BY <1>1, <2>5, <2>6, <2>7 DEF IInv, LoopInv, AllocateDone, p, v
<1>2. IInv => [Mapped]_vars
  BY <1>1
<1> QED
  BY <1>2, PagingInvariance, PTL DEF RequestMapped
=============================================================================
