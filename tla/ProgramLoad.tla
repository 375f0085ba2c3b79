----------------------------- MODULE ProgramLoad -----------------------------
(* exec_process (process.cpp) and the ELF loader (elf.h): a file is read     *)
(* into the heap, its segments are copied into the one address space there   *)
(* is, a stack is put at the bottom of it, and the program is called.        *)
(* Programs may be run one after another in the same space.  That a frame    *)
(* can always be had is Paging's matter.                                     *)
EXTENDS Integers, SequencesExt

CONSTANTS
  PageSize,
  Space,       \* addresses of the lower half
  StackSize,   \* 0x2000
  Images,      \* files: their sizes, headers and segments
  MaxRuns      \* bound: programs that are run

SizesAssumption ==
  /\ PageSize \in Nat \ {0} /\ Space \in Nat /\ Space % PageSize = 0
  /\ StackSize \in 1 .. Space

\* Programs are linked to addresses of the lower half.
ImagesAssumption ==
  \A file \in Images :
    /\ file.size \in Nat
    /\ file.segments \in Seq([type : STRING, offset : Nat, vaddr : Nat, filesz : Nat, memsz : Nat])
    /\ \A k \in DOMAIN file.segments : file.segments[k].vaddr + file.segments[k].memsz <= Space

VARIABLES
  mapped,    \* pages that are present
  memory,    \* what is at each address; of pages that are not mapped, nothing
  image,     \* the file that is being run
  segment,   \* the next program header
  runs,      \* programs that were run before
  stage

vars == <<mapped, memory, image, segment, runs, stage>>

Addresses == 0 .. Space - 1
Unknown == <<"whatever was there">>
ReturnAddress == <<"return address">>

\* A byte of the file in the heap; behind the file, one of the heap.
FileByte(file, offset) == IF offset < file.size THEN <<file.name, offset>> ELSE Unknown

Init ==
  /\ mapped = {}
  /\ memory = [a \in Addresses |-> Unknown]
  /\ image \in Images
  /\ segment = 1 /\ runs = 0
  /\ stage = "headers"

----------------------------------------------------------------------------

RoundUp(size) == ((size + PageSize - 1) \div PageSize) * PageSize

\* The pages that page_allocator::allocate maps.
PagesFor(vaddr, size) ==
  {p \in 0 .. Space \div PageSize - 1 :
     vaddr \div PageSize <= p /\ p < vaddr \div PageSize + RoundUp(size) \div PageSize}

\* Mutant: pages that are mapped already get another frame.
AllocateAgain(pages) ==
  /\ mapped' = mapped \cup pages
  /\ memory' = [a \in Addresses |-> IF a \div PageSize \in pages THEN Unknown ELSE memory[a]]

\* A page that is mapped keeps its frame, and with it what is there.
Allocate(pages) ==
  /\ mapped' = mapped \cup pages
  /\ memory' = memory

\* The elf_loader's and load's assertions.
CheckHeaders ==
  /\ stage = "headers"
  /\ stage' = IF image.valid = "yes" /\ image.segments # <<>> THEN "segments" ELSE "assertion failed"
  /\ UNCHANGED <<mapped, memory, image, segment, runs>>

Segment == image.segments[segment]

SkipSegment ==
  /\ stage = "segments" /\ segment <= Len(image.segments)
  /\ Segment.type # "PT_LOAD"
  /\ segment' = segment + 1
  /\ UNCHANGED <<mapped, memory, image, stage, runs>>

AllocateSegment ==
  /\ stage = "segments" /\ segment <= Len(image.segments)
  /\ Segment.type = "PT_LOAD"
  /\ Allocate(PagesFor(Segment.vaddr, Segment.memsz))
  /\ stage' = "copy"
  /\ UNCHANGED <<image, segment, runs>>

\* The bytes that memcpy stores before it comes to a page that is not mapped.
Stored ==
  {a \in Segment.vaddr .. Segment.vaddr + Segment.filesz - 1 :
     \A b \in Segment.vaddr .. a : b \div PageSize \in mapped}

CopySegment ==
  /\ stage = "copy"
  /\ memory' = [a \in Addresses |->
       IF a \in Stored THEN FileByte(image, Segment.offset + a - Segment.vaddr) ELSE memory[a]]
  /\ IF Cardinality(Stored) = Segment.filesz
       THEN stage' = "segments" /\ segment' = segment + 1
       ELSE stage' = "page fault" /\ segment' = segment
  /\ UNCHANGED <<mapped, image, runs>>

AllocateStack ==
  /\ stage = "segments" /\ segment > Len(image.segments)
  /\ Allocate(PagesFor(0, StackSize))
  /\ stage' = "stack"
  /\ UNCHANGED <<image, segment, runs>>

\* The stack pointer is set to the stack's end, and the call stores its return
\* address below.
CallEntry ==
  /\ stage = "stack"
  /\ memory' = [memory EXCEPT ![StackSize - 1] = ReturnAddress]
  /\ stage' = IF image.entry \div PageSize \in mapped THEN "running" ELSE "page fault"
  /\ UNCHANGED <<mapped, image, segment, runs>>

\* Another program is run when one has returned.
exec_process ==
  /\ stage = "running"
  /\ image' \in Images
  /\ segment' = 1
  /\ runs < MaxRuns - 1 /\ runs' = runs + 1
  /\ stage' = "headers"
  /\ UNCHANGED <<mapped, memory>>

\* The kernel has stopped, or the last program is running.
Halted ==
  /\ stage \in {"assertion failed", "page fault"} \/ (stage = "running" /\ runs = MaxRuns - 1)
  /\ UNCHANGED vars

Next ==
  \/ CheckHeaders \/ SkipSegment \/ AllocateSegment \/ CopySegment
  \/ AllocateStack \/ CallEntry \/ exec_process \/ Halted

Spec == Init /\ [][Next]_vars

----------------------------------------------------------------------------
(* Properties *)

Loaded == {k \in DOMAIN image.segments : image.segments[k].type = "PT_LOAD"}
Covers(k, size, a) ==
  image.segments[k].vaddr <= a /\ a < image.segments[k].vaddr + size

\* A running program has its segments in memory as they are in its file, the
\* later over the earlier, although segments and the stack may share pages that
\* are allocated once more behind the copying, and other programs ran before;
\* and it can reach its stack and, of a segment that begins at a page's base,
\* as much memory as memsz asks for.
SegmentsArrive ==
  stage = "running" =>
    /\ \A k \in Loaded : \A a \in Addresses \ {StackSize - 1} :
         /\ Covers(k, image.segments[k].filesz, a)
         /\ \A l \in Loaded : l > k => ~Covers(l, image.segments[l].filesz, a)
         => memory[a] = FileByte(image, image.segments[k].offset + a - image.segments[k].vaddr)
    /\ PagesFor(0, StackSize) \subseteq mapped
    /\ \A k \in Loaded :
         LET s == image.segments[k]
         IN s.vaddr % PageSize = 0 =>
              \A a \in s.vaddr .. s.vaddr + s.memsz - 1 : a \div PageSize \in mapped
=============================================================================
