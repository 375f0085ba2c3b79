------------------------------- MODULE Paging -------------------------------
(* kernel/page.cpp: the bitset of physical frames, the page directories and *)
(* page_allocator::allocate, which maps a range one page at a time.         *)
(*                                                                          *)
(* A page table is made the first time a page in it is asked for; until     *)
(* then its pages read as the zeroes it will be filled with.  Directories   *)
(* and tables come from kmalloc_ap (KMalloc): here, it either answers or    *)
(* halts the kernel with its assertion.                                     *)
EXTENDS Integers, FiniteSets

CONSTANTS
  Dirs,          \* page directories fork_page may hand out
  KernelDir,     \* kernel_directory
  PageSize,      \* 0x1000
  PageCount,     \* virtual pages; addresses wrap at PageCount * PageSize
  TablePages,    \* 1024
  BigTables,     \* KERNEL_PAGE_NUMBER and KHEAP_PAGE_NUMBER
  NFrames,       \* nframes
  LockedFrames,  \* 0x800
  ClearedFrames, \* frames whose bits initialise_paging's memset reaches
  Ranges,        \* <<virt_addr, size>> asked of allocate
  Rights         \* <<is_kernel, is_writable>> asked of it

ASSUME PagingAssumption ==
  /\ KernelDir \in Dirs
  /\ PageSize \in Nat \ {0}
  /\ PageCount \in Nat \ {0}
  /\ TablePages \in Nat \ {0}
  /\ BigTables \subseteq Nat
  /\ NFrames \in Nat
  /\ LockedFrames \in 1 .. NFrames
  /\ ClearedFrames \in LockedFrames .. NFrames
  /\ Ranges \subseteq (0 .. PageCount * PageSize - 1) \X (0 .. PageCount * PageSize - 1)
  /\ Rights \subseteq BOOLEAN \X BOOLEAN

Frames == 0 .. NFrames - 1
Pages == 0 .. PageCount - 1
Word == PageCount * PageSize
TableOf(p) == p \div TablePages
Tables == {TableOf(p) : p \in Pages}

VARIABLES
  frames,   \* frames whose bit is set
  forked,   \* directories fork_page has made
  tables,   \* tables[dir]: the 4 MB numbers whose table pointer is set
  tables_physical, \* tables_physical[dir][t]: what the processor finds for t
  pages,    \* pages[dir][p]: the page entry of virtual page p
  pc,       \* "idle", inside allocate's loop, or "halted"
  call,     \* allocate's arguments
  i         \* allocate's i, an address

vars == <<frames, forked, tables, tables_physical, pages, pc, call, i>>

Page == [present : BOOLEAN, rw : BOOLEAN, user : BOOLEAN, frame : Frames]
NoPage == [present |-> FALSE, rw |-> FALSE, user |-> FALSE, frame |-> 0]
NoCall == [dir |-> KernelDir, virt_addr |-> 0, size |-> 0, kernel |-> FALSE, writable |-> FALSE]

----------------------------------------------------------------------------
(* The frame bitset.  Its memory holds a bit for every frame, but memset    *)
(* clears only as many bytes as there are words: the rest is what was there.*)

NoTables == [t \in Tables |-> "none"]
ForkedTables == [t \in Tables |-> IF t \in BigTables THEN "4MB" ELSE "none"]

Init ==
  /\ \E left \in SUBSET (ClearedFrames .. NFrames - 1) :
       frames = (0 .. LockedFrames - 1) \cup left
  /\ forked = {KernelDir}
  /\ tables = [d \in Dirs |-> {}]
  /\ tables_physical = [d \in Dirs |-> IF d = KernelDir THEN ForkedTables ELSE NoTables]
  /\ pages = [d \in Dirs |-> [p \in Pages |-> NoPage]]
  /\ pc = "idle"
  /\ call = NoCall
  /\ i = 0

\* Zero stands for "none", and for frame 0.
FirstFrame(used) ==
  IF used = Frames THEN 0
  ELSE CHOOSE f \in Frames \ used : \A g \in Frames \ used : f <= g

\* Mutant: alloc_frame does not take the frame it found.
AllocFrameUntaken(d, p, kernel, writable) ==
  LET idx == FirstFrame(frames)
  IN IF pages[d][p].frame # 0 THEN UNCHANGED <<frames, pages>>
     ELSE /\ UNCHANGED frames
          /\ pages' = [pages EXCEPT ![d][p] =
               [present |-> TRUE, rw |-> writable, user |-> ~kernel, frame |-> idx]]

\* Mutant: alloc_frame maps a page again that has a frame.
AllocFrameAgain(d, p, kernel, writable) ==
  LET idx == FirstFrame(frames)
  IN /\ frames' = frames \cup {idx}
     /\ pages' = [pages EXCEPT ![d][p] =
          [present |-> TRUE, rw |-> writable, user |-> ~kernel, frame |-> idx]]

\* A page that has a frame keeps it, and keeps its permissions.
AllocFrame(d, p, kernel, writable) ==
  LET idx == FirstFrame(frames)
  IN IF pages[d][p].frame # 0 THEN UNCHANGED <<frames, pages>>
     ELSE /\ frames' = frames \cup {idx}
          /\ pages' = [pages EXCEPT ![d][p] =
               [present |-> TRUE, rw |-> writable, user |-> ~kernel, frame |-> idx]]

----------------------------------------------------------------------------
(* Directories *)

ForkPage(d) ==
  /\ pc = "idle"
  /\ d \notin forked
  /\ forked' = forked \cup {d}
  /\ tables' = [tables EXCEPT ![d] = {}]
  /\ tables_physical' = [tables_physical EXCEPT ![d] = ForkedTables]
  /\ UNCHANGED <<frames, pages, pc, call, i>>

\* Mutant: get_page sets the pointer to a table and does not tell the processor.
GetPageUnentered(d, p) ==
  /\ tables' = [tables EXCEPT ![d] = @ \cup {TableOf(p)}]
  /\ UNCHANGED tables_physical

\* get_page(address, 1, dir) makes the table the page is in if the pointer to
\* it is not set, and takes no notice of a 4 MB page that is there.
GetPage(d, p) ==
  LET t == TableOf(p)
  IN IF t \in tables[d] THEN UNCHANGED <<tables, tables_physical>>
     ELSE /\ tables' = [tables EXCEPT ![d] = @ \cup {t}]
          /\ tables_physical' = [tables_physical EXCEPT ![d][t] = "table"]

----------------------------------------------------------------------------
(* page_allocator::allocate *)

PageBase(a) == a - (a % PageSize)

\* Mutant: a partial last page is not counted.
RoundDown(size) == PageBase(size)

RoundUp(size) == IF size % PageSize = 0 THEN size ELSE PageBase(size) + PageSize

\* Where the loop ends: the sum is a 32 bit one.
RangeEnd == (PageBase(call.virt_addr) + RoundUp(call.size)) % Word

StartAllocate(d, virt_addr, size, kernel, writable) ==
  /\ pc = "idle"
  /\ d \in forked
  /\ pc' = "allocate"
  /\ call' = [dir |-> d, virt_addr |-> virt_addr, size |-> size,
              kernel |-> kernel, writable |-> writable]
  /\ i' = PageBase(virt_addr)
  /\ UNCHANGED <<frames, forked, tables, tables_physical, pages>>

AllocatePage ==
  /\ pc = "allocate"
  /\ i < RangeEnd
  /\ GetPage(call.dir, i \div PageSize)
  /\ AllocFrame(call.dir, i \div PageSize, call.kernel, call.writable)
  /\ i' = i + PageSize
  /\ UNCHANGED <<forked, pc, call>>

\* The heap has no room for the table get_page must make.
TableExhausted ==
  /\ pc = "allocate"
  /\ i < RangeEnd
  /\ TableOf(i \div PageSize) \notin tables[call.dir]
  /\ pc' = "halted"
  /\ UNCHANGED <<frames, forked, tables, tables_physical, pages, call, i>>

AllocateDone ==
  /\ pc = "allocate"
  /\ i >= RangeEnd
  /\ pc' = "idle"
  /\ call' = NoCall
  /\ i' = 0
  /\ UNCHANGED <<frames, forked, tables, tables_physical, pages>>

Next ==
  \/ \E d \in Dirs, range \in Ranges, right \in Rights :
       StartAllocate(d, range[1], range[2], right[1], right[2])
  \/ AllocatePage
  \/ TableExhausted
  \/ AllocateDone
  \/ \E d \in Dirs : ForkPage(d)

Spec == Init /\ [][Next]_vars

----------------------------------------------------------------------------
(* Properties *)

\* The variables keep to the fields of their structures.
TypeOK ==
  /\ frames \subseteq Frames
  /\ forked \subseteq Dirs
  /\ tables \in [Dirs -> SUBSET Tables]
  /\ tables_physical \in [Dirs -> [Tables -> {"none", "4MB", "table"}]]
  /\ pages \in [Dirs -> [Pages -> Page]]
  /\ pc \in {"idle", "allocate", "halted"}
  /\ call \in [dir : Dirs, virt_addr : 0 .. Word - 1, size : 0 .. Word - 1,
               kernel : BOOLEAN, writable : BOOLEAN]
  /\ i \in 0 .. Word

\* No other page shows what is written into page p.
OwnFrame(d, p) ==
  /\ pages[d][p].frame \notin 0 .. LockedFrames - 1
  /\ \A e \in Dirs, q \in Pages :
       pages[e][q].present /\ pages[e][q].frame = pages[d][p].frame => e = d /\ q = p

\* The frame of every present page has its bit set, is none of the locked ones
\* the kernel lies in, and is the frame of no other present page, of this
\* directory or another.  The one exception is frame 0: the page is on it only
\* if first_frame found no free frame, and then every frame is taken for good.
FramesExclusive ==
  \A d \in Dirs, p \in Pages :
    pages[d][p].present =>
      /\ pages[d][p].frame \in frames
      /\ OwnFrame(d, p) \/ (pages[d][p].frame = 0 /\ frames = Frames)

\* A page is present only in a directory that was forked, and where get_page
\* finds a table the processor finds one: it can reach every page that allocate
\* has mapped, also when tables and tables_physical were set long before.
PresentIsReachable ==
  \A d \in Dirs :
    /\ \A t \in tables[d] : tables_physical[d][t] = "table"
    /\ \A p \in Pages :
         pages[d][p].present => d \in forked /\ tables_physical[d][TableOf(p)] = "table"

\* When allocate returns, every byte it was asked for is in a present page, but
\* for as many bytes at the end of the range as it begins behind a page's base
\* (the rounding of virt_addr does not lengthen the range), if the range does
\* not wrap around the end of the address space.
RequestMapped ==
  [][AllocateDone =>
       \A a \in 0 .. Word - 1 :
         /\ call.virt_addr <= a
         /\ a < call.virt_addr + call.size - (call.virt_addr % PageSize)
         /\ PageBase(call.virt_addr) + RoundUp(call.size) < Word
         => pages[call.dir][a \div PageSize].present]_vars

\* allocate is at work in directory d.
Allocating(d) == pc = "allocate" /\ call.dir = d

\* A mapped page stays where it is: no step unmaps it or moves it to another
\* frame, and only a page that got frame 0 because the frames had run out has
\* its permissions changed, by a second allocate of that page.
PageStable(d, p) ==
  /\ pages'[d][p].present
  /\ pages'[d][p].frame = pages[d][p].frame
  /\ \/ pages'[d][p] = pages[d][p]
     \/ pages[d][p].frame = 0 /\ frames = Frames /\ Allocating(d) /\ i \div PageSize = p

\* What the processor finds for 4 MB number t stays: a table for good, a 4 MB
\* page until allocate is asked for a page inside of it, whose table then takes
\* the place of the whole 4 MB.
TableStable(d, t) ==
  \/ tables_physical'[d][t] = tables_physical[d][t]
  \/ tables_physical[d][t] = "4MB" /\ Allocating(d) /\ TableOf(i \div PageSize) = t

\* No translation changes under a running program, but for the two cases that
\* PageStable and TableStable name: neither a second allocate of the same page,
\* in any directory, nor the making of a table moves a mapped page.
TranslationStable ==
  [][\A d \in Dirs :
       /\ \A p \in Pages : pages[d][p].present => PageStable(d, p)
       /\ \A t \in Tables :
            d \in forked /\ tables_physical[d][t] # "none" => TableStable(d, t)]_vars

\* assert(idx != (uint32_t)-1 && "No free frames!"): a page that alloc_frame
\* marks present has a frame of its own.
PresentHasFrame == \A d \in Dirs, p \in Pages : pages[d][p].present => pages[d][p].frame # 0
=============================================================================
