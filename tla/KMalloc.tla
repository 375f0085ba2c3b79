------------------------------ MODULE KMalloc ------------------------------
(* The kernel heap of kernel/kmalloc.cpp: a list of blocks threaded through *)
(* the heap itself, searched best-fit, split on allocation and coalesced on *)
(* free.                                                                    *)
(*                                                                          *)
(* Memory is the function hdr: hdr[a] is what the four words of a struct    *)
(* block_header read as when they are taken at address a.  Every address    *)
(* has such a reading, not only the block starts, because free() trusts the *)
(* words in front of whatever pointer it is given: headers that a merge     *)
(* swallowed stay in memory until somebody writes over them.                *)
(*                                                                          *)
(* Every loop of the source is stepped one iteration at a time.             *)
EXTENDS Integers

CONSTANTS
  HeapStart,     \* address of the first block header
  HeapSize,      \* bytes given to create_heap
  HeaderSize,    \* sizeof(struct block_header)
  MinBlock,      \* MIN_BLOCK_SIZE
  Page,          \* 0x1000
  Word,          \* 2^32: what uint32_t arithmetic wraps at
  Sizes,         \* sizes asked of kmalloc and krealloc
  AlignedSizes   \* sizes asked of kmalloc_a and kmalloc_ap

Null == 0
HeapEnd == HeapStart + HeapSize
Addr == HeapStart .. HeapEnd - 1

ASSUME HeapAssumption ==
  /\ HeapStart \in Nat \ {0}
  /\ HeapSize \in Nat
  /\ HeaderSize \in Nat \ {0}
  /\ MinBlock \in Nat
  /\ Word \in Nat
  /\ HeaderSize <= HeapSize
  /\ HeapStart + HeapSize < Word

ASSUME PageAssumption ==
  /\ Page \in Nat \ {0}
  /\ Page + HeaderSize + MinBlock < Word

ASSUME SizesAssumption ==
  /\ Sizes \subseteq 0 .. Word - 1
  /\ AlignedSizes \subseteq 0 .. Word - 1

VARIABLES
  hdr,      \* memory, read as a block header at every address
  live,     \* pointers the callers hold |-> the size they asked for
  pc,       \* where the running heap call stands
  sz,       \* its size argument
  align,    \* its page_align argument
  best,     \* get_suitable_block's best
  current,  \* get_suitable_block's and free's current
  moving    \* the pointer krealloc moves, Null outside it

vars == <<hdr, live, pc, sz, align, best, current, moving>>

\* __assert prints and spins, a page fault prints and spins; past the other
\* three the contents of memory are not modelled any further.
Stopped == {"halt", "fault", "smeared", "escaped", "tangled"}

----------------------------------------------------------------------------
(* uint32_t arithmetic *)

Plus(a, b) == IF a + b < Word THEN a + b ELSE (a + b) - Word
Minus(a, b) == IF b <= a THEN a - b ELSE (a + Word) - b

(* Headers *)

Header == [magic : {"free", "used", "junk"}, size : 0 .. Word - 1,
           next : Addr \cup {Null}, previous : Addr \cup {Null}]

\* Words that are no longer a block's header: only their magic matters, since
\* free() asks whether it is valid and used before it reads anything else.
Leftover(magic) == [magic |-> magic, size |-> 0, next |-> Null, previous |-> Null]
Junk == Leftover("junk")

IsUsed(h, b) == h[b].magic = "used"
IsValid(h, b) == h[b].magic # "junk"

\* Storing a header at b leaves no readable header inside its own words.
StoreHeader(h, b, header) ==
  [a \in Addr |-> IF a = b THEN header
                  ELSE IF b < a /\ a < b + HeaderSize THEN Junk
                  ELSE h[a]]

MergeBlocks(h, first, second) ==
  LET after == h[second].next
  IN [b \in Addr |->
        IF b = first
        THEN [h[b] EXCEPT !.next = after,
                          !.size = Plus(@, Plus(h[second].size, HeaderSize))]
        ELSE IF b = after THEN [h[b] EXCEPT !.previous = first]
        ELSE IF b = second THEN Leftover(h[b].magic)
        ELSE h[b]]

\* Mutant: block->next->previous is not moved to the new block.
SplitOneWay(h, block, size) ==
  LET new == block + size + HeaderSize
  IN StoreHeader([h EXCEPT ![block] = [magic |-> "used", size |-> size, next |-> new,
                                       previous |-> @.previous]],
                 new,
                 [magic |-> "free", size |-> Minus(h[block].size, size + HeaderSize),
                  next |-> h[block].next, previous |-> block])

CreateNewBlockHeader(h, block, size) ==
  LET new == block + size + HeaderSize
      after == h[block].next
      header == [magic |-> "free",
                 size |-> Minus(h[block].size, size + HeaderSize),
                 next |-> after, previous |-> block]
      linked == [b \in Addr |->
                   IF b = block THEN [magic |-> "used", size |-> size, next |-> new,
                                      previous |-> h[b].previous]
                   ELSE IF b = after THEN [h[b] EXCEPT !.previous = new]
                   ELSE h[b]]
  IN StoreHeader(linked, new, header)

\* krealloc's memcpy: n bytes, whatever stale headers they hold with them.
CopyPayload(h, from, to, n) ==
  [a \in Addr |-> IF to <= a /\ a < to + n THEN Leftover(h[from + (a - to)].magic)
                  ELSE h[a]]

\* Mutant: the header of the rest is forgotten.
SplitWithoutRoom(room, size) == Minus(room, size) > 0

SplitWorthwhile(room, size) == Minus(room, size) > HeaderSize + MinBlock

\* Mutant: only a split marks the block used.
OccupyUnmarked(h, block, size) ==
  IF SplitWorthwhile(h[block].size, size)
  THEN CreateNewBlockHeader(h, block, size)
  ELSE h

\* alloc_internal once the block is chosen: split it if the rest is worth it.
Occupy(h, block, size) ==
  IF SplitWorthwhile(h[block].size, size)
  THEN CreateNewBlockHeader(h, block, size)
  ELSE [h EXCEPT ![block].magic = "used"]

----------------------------------------------------------------------------
CreateHeap ==
  [a \in Addr |->
     IF a = HeapStart
     THEN [magic |-> "free", size |-> HeapSize - HeaderSize, next |-> Null, previous |-> Null]
     ELSE Junk]

Init ==
  /\ hdr = CreateHeap
  /\ live = [p \in {} |-> 0]
  /\ pc = "idle"
  /\ sz = 0
  /\ align = FALSE
  /\ best = Null
  /\ current = Null
  /\ moving = Null

\* A call returns, or stops the machine, leaving no local behind.
Finish(label) ==
  /\ pc' = label
  /\ sz' = 0
  /\ align' = FALSE
  /\ best' = Null
  /\ current' = Null
  /\ moving' = Null

Stop(label) == Finish(label) /\ UNCHANGED <<hdr, live>>

StartSearch(size, aligned, old) ==
  /\ pc' = "skip"
  /\ sz' = size
  /\ align' = aligned
  /\ best' = HeapStart
  /\ current' = HeapStart
  /\ moving' = old
  /\ UNCHANGED <<hdr, live>>

Kmalloc(size) == pc = "idle" /\ StartSearch(size, FALSE, Null)

KmallocA(size) == pc = "idle" /\ StartSearch(size, TRUE, Null)

\* while (is_used(best->magic)) { assert(best->next && "No unused blocks"); ... }
SkipUsed ==
  /\ pc = "skip"
  /\ IsUsed(hdr, best)
  /\ hdr[best].next # Null
  /\ best' = hdr[best].next
  /\ UNCHANGED <<hdr, live, pc, sz, align, current, moving>>

NoUnusedBlocks ==
  /\ pc = "skip"
  /\ IsUsed(hdr, best)
  /\ hdr[best].next = Null
  /\ Stop("halt")

FoundUnused ==
  /\ pc = "skip"
  /\ ~IsUsed(hdr, best)
  /\ pc' = "scan"
  /\ UNCHANGED <<hdr, live, sz, align, best, current, moving>>

\* The distance the search adds is that of the first block.
RequiredSize == IF align THEN Plus(sz, (HeapStart + HeaderSize) % Page) ELSE sz

\* Mutant: the first block that is large enough is kept.
FirstFit(block) ==
  /\ ~IsUsed(hdr, block)
  /\ hdr[block].size >= RequiredSize
  /\ hdr[best].size < RequiredSize

Better(block) ==
  /\ ~IsUsed(hdr, block)
  /\ hdr[block].size >= RequiredSize
  /\ \/ hdr[block].size < hdr[best].size
     \/ hdr[best].size < RequiredSize

\* Mutant: the loop moves on only past unused blocks.
ScanStuck ==
  /\ pc = "scan"
  /\ current # Null
  /\ best' = IF Better(current) THEN current ELSE best
  /\ current' = IF IsUsed(hdr, current) THEN current ELSE hdr[current].next
  /\ UNCHANGED <<hdr, live, pc, sz, align, moving>>

Scan ==
  /\ pc = "scan"
  /\ current # Null
  /\ best' = IF Better(current) THEN current ELSE best
  /\ current' = hdr[current].next
  /\ UNCHANGED <<hdr, live, pc, sz, align, moving>>

SearchDone == pc = "scan" /\ current = Null

OutOfSpace ==
  /\ SearchDone
  /\ ~align
  /\ hdr[best].size < sz
  /\ Stop("halt")

Hold(p, size) == [q \in DOMAIN live \cup {p} |-> IF q = p THEN size ELSE live[q]]

\* kmalloc returns to its caller; inside krealloc the old block is copied
\* and is freed next.
Deliver(h, block) ==
  LET ptr == block + HeaderSize
  IN /\ live' = Hold(ptr, sz)
     /\ \/ /\ moving = Null
           /\ hdr' = h
           /\ Finish("idle")
        \/ /\ moving # Null
           /\ hdr' = CopyPayload(h, moving, ptr, h[moving - HeaderSize].size)
           /\ pc' = "release"
           /\ UNCHANGED <<sz, align, best, current, moving>>

Take ==
  /\ SearchDone
  /\ ~align
  /\ hdr[best].size >= sz
  /\ Deliver(Occupy(hdr, best, sz), best)

----------------------------------------------------------------------------
(* make_aligned_block *)

MemAddress == best + HeaderSize
Distance == Page - (MemAddress % Page)
HeaderPos == best + Distance
RoomLeft == Minus(hdr[best].size, Distance)

\* assert(best->size + distance >= size && "Out of heap space for aligned malloc")
AlignedSpaceAssert == Plus(hdr[best].size, MemAddress % Page) >= sz

OutOfSpaceAligned ==
  /\ SearchDone
  /\ align
  /\ ~AlignedSpaceAssert
  /\ Stop("halt")

\* block->previous->next is written even when the block is the first one.
AlignFirstBlock ==
  /\ SearchDone
  /\ align
  /\ AlignedSpaceAssert
  /\ hdr[best].previous = Null
  /\ Stop("fault")

\* A move shorter than the header: memcpy reads words it has just written.
AlignSmears ==
  /\ SearchDone
  /\ align
  /\ AlignedSpaceAssert
  /\ hdr[best].previous # Null
  /\ Distance < HeaderSize
  /\ Stop("smeared")

\* The moved header, or the header split off behind it, ends outside the heap.
Escapes ==
  \/ HeaderPos + HeaderSize > HeapEnd
  \/ /\ SplitWorthwhile(RoomLeft, sz)
     /\ HeaderPos + sz + 2 * HeaderSize > HeapEnd

AlignEscapes ==
  /\ SearchDone
  /\ align
  /\ AlignedSpaceAssert
  /\ hdr[best].previous # Null
  /\ Distance >= HeaderSize
  /\ Escapes
  /\ Stop("escaped")

\* Mutant: block->previous->next = header_pos is missing.
AlignedBlockUnlinked ==
  LET shrunk == [hdr EXCEPT ![best].size = RoomLeft,
                            ![hdr[best].previous].size = Plus(@, Distance)]
  IN StoreHeader(shrunk, HeaderPos, shrunk[best])

\* The bytes from the page boundary on are enough.  AlignedSpaceAssert adds those
\* behind the page before where this takes off those before the page behind, so
\* blocks without room pass it.
HasRoom == hdr[best].size >= Distance + sz

\* The block behind goes on naming the old place of a header that is moved: all
\* is well if there is none, or if a split behind the moved header writes that
\* link anew.
LinkRenewed ==
  \/ hdr[best].next = Null
  \/ HasRoom /\ SplitWorthwhile(RoomLeft, sz)

\* The words at the old place are left over once nothing names it.
MakeAlignedBlock ==
  LET shrunk == [hdr EXCEPT ![best].size = RoomLeft,
                            ![hdr[best].previous].next = HeaderPos,
                            ![hdr[best].previous].size = Plus(@, Distance)]
      moved == StoreHeader(shrunk, HeaderPos, shrunk[best])
  IN IF LinkRenewed THEN [moved EXCEPT ![best] = Leftover(@.magic)] ELSE moved

\* Every request the assertion lets through is answered.  The ones that leave a
\* stale link or overrun the block are followed up to here: what later calls
\* make of such a list is not modelled.
TakeAligned ==
  /\ SearchDone
  /\ align
  /\ AlignedSpaceAssert
  /\ hdr[best].previous # Null
  /\ Distance >= HeaderSize
  /\ ~Escapes
  /\ hdr' = Occupy(MakeAlignedBlock, HeaderPos, sz)
  /\ live' = Hold(HeaderPos + HeaderSize, sz)
  /\ Finish(IF LinkRenewed THEN "idle" ELSE "tangled")

----------------------------------------------------------------------------
(* free.  Callers do free a pointer twice (util::string copies share their  *)
(* buffer), so the pointer is any address a block's data can have.          *)

Pointers == {p \in Addr : p - HeaderSize \in Addr} \cup {HeapEnd}

FreeInvalid(p) ==
  /\ pc = "idle"
  /\ ~IsValid(hdr, p - HeaderSize)
  /\ Stop("halt")

FreeUnused(p) ==
  /\ pc = "idle"
  /\ hdr[p - HeaderSize].magic = "free"
  /\ UNCHANGED vars

MarkFree(p) ==
  /\ IsUsed(hdr, p - HeaderSize)
  /\ hdr' = [hdr EXCEPT ![p - HeaderSize].magic = "free"]
  /\ live' = [q \in DOMAIN live \ {p} |-> live[q]]
  /\ pc' = "forward"
  /\ current' = p - HeaderSize
  /\ sz' = 0
  /\ best' = Null
  /\ moving' = Null
  /\ UNCHANGED align

Free(p) == pc = "idle" /\ MarkFree(p)

\* The free() at the end of krealloc.
ReleaseOld == pc = "release" /\ MarkFree(moving)

NextHeader == hdr[current].next
PreviousHeader == hdr[current].previous

\* A neighbour a merge loop may swallow.
Mergeable(b) == b # Null /\ IsValid(hdr, b) /\ ~IsUsed(hdr, b)

\* assert(is_valid(...) && "Heap block is invalid!")
Invalid(b) == b # Null /\ ~IsValid(hdr, b)

MergeForward ==
  /\ pc = "forward"
  /\ Mergeable(NextHeader)
  /\ hdr' = MergeBlocks(hdr, current, NextHeader)
  /\ UNCHANGED <<live, pc, sz, align, best, current, moving>>

\* Mutant: free() does not look backward.
EndForwardReturns ==
  /\ pc = "forward"
  /\ ~Mergeable(NextHeader)
  /\ Finish("idle")
  /\ UNCHANGED <<hdr, live>>

EndForward ==
  /\ pc = "forward"
  /\ ~Mergeable(NextHeader)
  /\ pc' = IF Invalid(NextHeader) THEN "halt" ELSE "backward"
  /\ UNCHANGED <<hdr, live, sz, align, best, current, moving>>

\* merge_blocks asserts that previous->next is the block it is merged with.
MergeBackward ==
  /\ pc = "backward"
  /\ Mergeable(PreviousHeader)
  /\ IF hdr[PreviousHeader].next = current
     THEN /\ hdr' = MergeBlocks(hdr, PreviousHeader, current)
          /\ current' = PreviousHeader
          /\ UNCHANGED <<live, pc, sz, align, best, moving>>
     ELSE Stop("halt")

EndBackward ==
  /\ pc = "backward"
  /\ ~Mergeable(PreviousHeader)
  /\ Finish(IF Invalid(PreviousHeader) THEN "halt" ELSE "idle")
  /\ UNCHANGED <<hdr, live>>

----------------------------------------------------------------------------
(* krealloc *)

KreallocInvalid(p) ==
  /\ pc = "idle"
  /\ ~IsValid(hdr, p - HeaderSize)
  /\ Stop("halt")

\* Mutant: krealloc does not compare the sizes.
KreallocFitsAlways(p, size) ==
  /\ pc = "idle"
  /\ live' = Hold(p, size)
  /\ UNCHANGED <<hdr, pc, sz, align, best, current, moving>>

KreallocFits(p, size) ==
  /\ pc = "idle"
  /\ hdr[p - HeaderSize].size >= size
  /\ live' = Hold(p, size)
  /\ UNCHANGED <<hdr, pc, sz, align, best, current, moving>>

MergedSize(b) == Plus(Plus(hdr[hdr[b].next].size, hdr[b].size), HeaderSize)

\* Mutant: a block grows into a used one.
CanGrowIntoUsed(b, size) ==
  /\ hdr[b].next # Null
  /\ MergedSize(b) >= size

CanGrow(b, size) ==
  /\ hdr[b].next # Null
  /\ ~IsUsed(hdr, hdr[b].next)
  /\ MergedSize(b) >= size

KreallocMove(p, size) ==
  /\ pc = "idle"
  /\ hdr[p - HeaderSize].size < size
  /\ ~CanGrow(p - HeaderSize, size)
  /\ StartSearch(size, FALSE, p)

KreallocGrow(p, size) ==
  LET b == p - HeaderSize
      merged == MergeBlocks(hdr, b, hdr[b].next)
  IN /\ pc = "idle"
     /\ hdr[b].size < size
     /\ CanGrow(b, size)
     /\ hdr' = Occupy(merged, b, size)
     /\ live' = Hold(p, size)
     /\ UNCHANGED <<pc, sz, align, best, current, moving>>

----------------------------------------------------------------------------
\* The holder of p fills its bytes with data of its own.
ClientWrite(p) ==
  /\ pc = "idle"
  /\ hdr' = [a \in Addr |-> IF p <= a /\ a < p + live[p]
                            THEN Junk ELSE hdr[a]]
  /\ UNCHANGED <<live, pc, sz, align, best, current, moving>>

\* while (1); in __assert and in cpu_fault_handler.
Halted == pc \in Stopped /\ UNCHANGED vars

Running ==
  \/ SkipUsed \/ NoUnusedBlocks \/ FoundUnused \/ Scan
  \/ OutOfSpace \/ Take
  \/ OutOfSpaceAligned \/ AlignFirstBlock \/ AlignSmears \/ AlignEscapes \/ TakeAligned
  \/ ReleaseOld
  \/ MergeForward \/ EndForward \/ MergeBackward \/ EndBackward

Allocate ==
  \/ \E size \in Sizes : Kmalloc(size)
  \/ \E size \in AlignedSizes : KmallocA(size)

Release == \E p \in Pointers : FreeInvalid(p) \/ FreeUnused(p) \/ Free(p)

Reallocate ==
  \/ \E p \in Pointers : KreallocInvalid(p)
  \/ \E p \in DOMAIN live, size \in Sizes :
       KreallocFits(p, size) \/ KreallocMove(p, size) \/ KreallocGrow(p, size)

Use == \E p \in DOMAIN live : ClientWrite(p)

Next == Allocate \/ Release \/ Reallocate \/ Use \/ Running \/ Halted

Spec == Init /\ [][Next]_vars

\* Nothing preempts a heap call for good: interrupt handlers return to it.
FairSpec == Spec /\ WF_vars(Running)

----------------------------------------------------------------------------
(* Properties *)

\* The variables keep to what the words they stand for can hold.
TypeOK ==
  /\ hdr \in [Addr -> Header]
  /\ DOMAIN live \subseteq Pointers
  /\ \A p \in DOMAIN live : live[p] \in Sizes \cup AlignedSizes
  /\ pc \in {"idle", "skip", "scan", "release", "forward", "backward"} \cup Stopped
  /\ sz \in Sizes \cup AlignedSizes \cup {0}
  /\ align \in BOOLEAN
  /\ best \in Addr \cup {Null}
  /\ current \in Addr \cup {Null}
  /\ moving \in Pointers \cup {Null}

\* The used bit in memory and the pointers the callers hold agree at every
\* address: neither a header swallowed by a merge nor one copied about by
\* krealloc ever reads as used, so no free() goes through a stale header.  A
\* second free of an address that was given out again is a free of the block
\* that is there now.
UsedIffLive == \A b \in Addr : IsUsed(hdr, b) <=> b + HeaderSize \in DOMAIN live

\* No two live regions share a byte, counting the header in front of each,
\* no region leaves the heap, and no block is smaller than what was asked.
LiveDisjoint ==
  \A p \in DOMAIN live :
    /\ p + live[p] <= HeapEnd
    /\ live[p] <= hdr[p - HeaderSize].size
    /\ \A q \in DOMAIN live : p < q => p + live[p] <= q - HeaderSize

\* The sanity checks free() makes of its neighbours cannot fail: whatever
\* it walks to is a valid header that points back at where it came from.
FreeAssertsHold ==
  /\ pc = "forward" => ~Invalid(NextHeader)
  /\ pc = "backward" /\ PreviousHeader # Null =>
       IsValid(hdr, PreviousHeader) /\ hdr[PreviousHeader].next = current

\* tests/kmalloc.cpp:17, blk->next->previous == blk, and the block after a
\* live one starts where the live one ends.
LiveLinksAgree ==
  \A p \in DOMAIN live :
    LET b == p - HeaderSize
    IN /\ hdr[b].next # Null => hdr[hdr[b].next].previous = b
       /\ p + hdr[b].size = IF hdr[b].next = Null THEN HeapEnd ELSE hdr[b].next

\* The blocks the links reach, from the first one on.
ListBlocks ==
  {HeapStart} \cup
  {b \in Addr : /\ IsValid(hdr, b)
                /\ hdr[b].previous \in Addr
                /\ hdr[hdr[b].previous].next = b}

\* Between two calls no free block of the list has a free block after it:
\* both merge loops went all the way.
Coalesced ==
  pc = "idle" =>
    \A b \in ListBlocks :
      ~IsUsed(hdr, b) /\ hdr[b].next # Null => IsUsed(hdr, hdr[b].next)

\* kmalloc gives up only when no free block of the list is large enough, and
\* otherwise takes a smallest one that is; it never takes a used one.
BestFit ==
  SearchDone /\ ~align =>
    /\ ~IsUsed(hdr, best)
    /\ \A b \in ListBlocks :
         ~IsUsed(hdr, b) /\ hdr[b].size >= sz =>
           sz <= hdr[best].size /\ hdr[best].size <= hdr[b].size

\* No step of the allocator writes a header word into bytes that are live
\* before and after it (only their holder does).
PayloadsUntouched ==
  [][Use \/ \A p \in DOMAIN live \cap DOMAIN live' : \A a \in Addr :
       hdr'[a] # hdr[a] => a < p \/ p + live[p] <= a]_vars

\* No aligned request has left a stale link.
Untangled == pc # "tangled"

\* Page-aligned requests (make_aligned_block) among all others.  Each is answered
\* with a region that begins at a page boundary and, if the block that is taken
\* has room for it there, lies in the heap and shares no byte with a live region
\* or the header in front of it.  As long as every block whose header was moved
\* had room and no block behind it, or was split, the links of all live blocks
\* agree.  The other requests are answered as well, against the assertion and
\* the links (LiveDisjoint and LiveLinksAgree do not hold of them).
PagesKept ==
  [][/\ Untangled' => LiveLinksAgree'
     /\ TakeAligned => \E p \in Pointers :
          /\ p % Page = 0
          /\ live' = Hold(p, sz)
          /\ HasRoom =>
               /\ p + sz <= HeapEnd
               /\ \A q \in DOMAIN live :
                    p + sz <= q - HeaderSize \/ q + live[q] <= p - HeaderSize]_vars

\* Every heap call returns or stops the machine.
HeapCallsReturn == pc \notin {"idle"} \cup Stopped ~> pc \in {"idle"} \cup Stopped

\* The heap keeps the promise callers rely on.
Contract == INSTANCE HeapContract WITH Sizes <- Sizes \cup AlignedSizes
ImplementsContract == Contract!Spec
=============================================================================
