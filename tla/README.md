# weird-os: a verification project

weird-os is a small x86 kernel: a heap, paging, a text console, keyboard and
timer interrupts, a file tree over an initial ramdisk and a device directory, a
handful of system calls and an ELF loader. This directory holds TLA+ models of
its parts, the configurations with which TLC checks them, and proofs that TLAPS
checks. All paths below are relative to `src/`. Every definition was translated from
the code; comments, documents and tests were read for what they claim.

Contents: [inventory](#inventory) · [modules](#modules) ·
[runs](#runs-and-their-bounds) · [fairness](#fairness) · [proofs](#proofs) ·
[what is only model-checked](#what-is-only-model-checked) ·
[known departures](#known-departures) · [what is not modelled](#what-is-not-modelled) ·
[plan](#plan) · [running it](#running-it)

## Inventory

One processor runs one thread of one process, in ring 0. Concurrency comes
from interrupts and from nothing else, two of which have a handler; system calls enter through an
interrupt gate, which keeps interrupts off. What is hard is therefore mostly
long sequences of legal calls over linked structures that live in the memory
they manage, edges of unsigned arithmetic, and tables that fill up.

| Component (code) | State | Operations | What makes it correct |
|---|---|---|---|
| Kernel heap (`kernel/kmalloc.cpp`) | block headers threaded through the heap, linked both ways | `kmalloc`, `kmalloc_a`, `krealloc`, `free` | live regions are disjoint; a second `free` stops or frees nothing, unless the address has been given out again: then the code frees its new holder's block, and the model counts it as that holder's `free`; links agree; free neighbours coalesce; every call returns. Page-aligned requests break two of these (see [runs](#runs-and-their-bounds)) |
| Frames and page directories (`kernel/page.cpp`) | bitset of frames, tables of each directory, page entries | `fork_page`, `get_page`, `alloc_frame`, `page_allocator::allocate` | no frame is shared, but for frame 0 once all are taken; what is asked for is mapped and reachable; a page keeps its frame, and its rights unless it is on frame 0 |
| Interrupts, keyboard, timer (`ps2.cpp`, `timer.cpp`, `irq.cpp`, `irq.s`, `getc`) | key stack and pointer, shift state, `timer_ticks` | two handlers; `getc`, `sleep` | no key lost or read twice, the right character, `sleep` never short, nobody waits for ever |
| `rc`, `weak` (`includes/util/rc.h`) | two counts per object | constructors, assignments, destructors, `lock` | exact counts; a held object is never deleted; the last holder deletes it; the kernel reads through no pointer whose counter is gone, though it makes such pointers |
| `list` (`includes/util/list.h`) | nodes in the heap | push, pop, `at`, destructor | a sequence of values, and no node it holds is freed memory |
| `hashmap` (`includes/util/hashmap.h`) | a chain per bucket | `set`, `get` | a dictionary, whatever collides |
| `util::string` (`includes/util/string.h`) | length and pointer to a buffer that copies share | constructors, assignment, `+`, `+=`, `slice`, `split`, `==`, destructor | a string reads what was put into it until another that shares its buffer frees or writes it; `split` finds every section |
| Console (`vga.cpp`, `stdio.cpp`) | video memory, pointer, line, column; stdout's buffer | `printk`, `vga_dev::write`, `cleark` | a terminal; no store outside video memory; nothing held back |
| printf (`stdio.cpp`, `string.cpp`) | cursor in format and arguments | `vfprintf`, `vsprintf`, `itoa` | every conversion prints its own argument |
| File tree (`kernel/fs/vfs.cpp`, `udev.cpp`, `initrd.cpp`, `fs.h`) | directory entries, inode caches | `mount_device`, `resolve_path`, `make_file`, `create_tty` | a namespace: mounts cover, new files hide nothing, inodes stay alive |
| Open files (`kernel/fs/fs.cpp`, `fifo.cpp`, `kernel/syscall.cpp`, `isr.s`, `clib/syscall.cpp`) | descriptor table, the fifo's buffer | open, read, write, close | a descriptor keeps its file; what is written to the fifo leaves it in order and once |
| Ramdisk image (`scripts/makefs.c`, `initrd::cache`) | tables of entries and inodes, file data | traversal, writing; reading back | the host's tree arrives |
| Program loader (`includes/kernel/elf.h`, `kernel/process.cpp`) | memory, mapped pages | `exec_process`, `load` | a program is in memory as in its file |
| Boot, descriptor tables, controllers (`start.cpp`, `entry.asm`, `gdt.cpp`, `idt.cpp`, `irq.cpp`, the stubs) | the two tables, the controllers' lines, the interrupt flag, what memory boot has taken | the steps of `__kernel_main__`; request, delivery and end of an interrupt; fault, halt; system call | everything finds its stub; the kernel's data has one user at a time; every line is served; memory taken is mapped and disjoint |

Interaction. Boot builds the tables through which every handler below is entered, and puts the frames' bitset, the
first directory and the heap where it takes memory to be free. Everything allocates from the heap; `get_page` takes page tables
from it with `kmalloc_ap`. The loader asks `page_allocator` for pages and reads
the program through an inode. The file tree is made of `rc`, `weak`, `list` and
`hashmap`: an entry reaches its inode through a `weak`, which only the device's
`inode_cache` keeps alive. `open` resolves a path and stores the file in the
process's table; `write` on `/dev/vga` shares the screen, though not the buffer,
with `printk`. The handlers share stdin's buffer and `timer_ticks` with the
thread, touch neither heap nor console, and communicate with it only through
memory and through ending `hlt`. A failed assertion (`kernel/assertk.cpp`)
prints and spins; a page fault (`idt.cpp:209`) prints and halts. No state
survives a restart: there is no crash recovery to model.

`PROJECT.json` lists the hazards of this code, each at its line with the
properties that cover it or the reason why none does.

## Modules

Names of operators are the source's where TLA+ allows. Operators whose comment begins
with `Mutant:` are deliberately wrong variants that stand before the definition
they vary: with one of them in its place, the property named in `PROJECT.json`
fails. No specification uses them.

**KMalloc** keeps the heap as the function `hdr`: what the words at each address
read as when they are taken for a `block_header`. Every address has such a
reading because `free` believes whatever stands in front of the pointer it is
given: a header that a merge swallowed stays behind as a "leftover" of which only
the magic number matters, a holder's data overwrites it with junk, `krealloc`'s copy
carries it elsewhere. `live` is what callers hold. `pc` steps every loop of the code one iteration at a
time: `skip` and `scan` for `get_suitable_block`, `release` for the `free`
inside `krealloc`, `forward` and `backward` for `free`'s two merge loops; `halt`, `fault`,
`smeared` and `escaped` are the ends of what is modelled. `free` may be called
with any address a block's data can have, since copies of `util::string` do free
a pointer twice; `krealloc` only with live pointers or where it asserts.
**HeapContract** is what callers rely on: a set of disjoint regions that requests
enter and frees leave. KMalloc implements it (`ImplementsContract`).

**Paging** has the bitset `frames`, what a directory says of its tables (`tables`, those that
`get_page` finds, and `tables_physical`, which the processor reads: none, a 4 MB entry or a table), and all page entries. `allocate` is stepped one page at a
time. The bitset's bytes that `initialise_paging` does not clear
(page.cpp:125-126 allocate and clear as many bytes as there are words) are free or taken at
random. `kmalloc_ap` either answers or ends in an assertion.

**Interrupts** steps `getc` and `sleep` one access to memory at a time;
between any two of them either handler may run, in one step, as interrupts are off in it. The
unread keys are a stack (`*++ptr = c`, `*ptr--`). `typed`, `handled`, `got`,
`elapsed` and `raced` are history.

**RefCount** has the variables that are `rc`s and `weak`s, each with where it points, and the counters at addresses that the heap
gives out again. Construction, assignment and destruction are single calls, in any order; `Wrap` is the width of the
counts. A variable whose counter was deleted under it is `dangling`: it may be assigned, which writes to the freed words as in the code, and a
step that reads through it ends the behaviour (`stale`). **Entries** composes it with its users: each call of the devices, of `open` and of `exec_process` is the
sequence of constructors, assignments and destructors that the compiled code runs, those of parameters and temporaries included, and the
heap puts every new counter at a fresh address or at any freed one. It leaves out the counts that each entry adds to its parent, and copies that come and go within one constructor; it has one device at
a time, and mounting is not in it. What the heap makes of a freed counter other than a counter again is not followed.
**LinkedList** models nodes and links at
addresses that the heap may hand out again, with old contents in them;
**Deque** is the sequence it should be. **HashMap** models chains, `set` and
`get`, and the hash of a number byte by byte, which ends at its first zero byte; **Dictionary**
is a function in which the first `set` of a key counts. **Strings** models
strings as length and pointer, and the heap as a set of buffers that it may give out
again; what is in a buffer that is not live is junk. `text` says what a string ought to read, `kin`
which strings were copied from one another; the first of them that frees or writes the common buffer
makes the others `disturbed`, of which nothing is promised any more and which nothing reads. `MCUtil` composes the
four.

**Console** models video memory as cells with line, column and the pointer
`vbuf` that the code keeps beside them, stdout's buffer with its write pointer,
and the three who print: `printk`, `vga_dev::write`, and `cpu_fault_handler` from
the middle of a write. **Terminal** is a screen that only knows a position.
**Format** steps `vfprintf` one character of the format at a time; `itoa` and the digits of `%x` are computed in words
of `Nibbles` half bytes (eight in the code). **Printing** composes the two: a behaviour is one of printf or one of the console.

**FileTree** models entries with their inode, parent and children, the caches of
both devices, and the boot's order `BootUdev`, `BootRoot`, `BootDev`, `BootVga`, then more
files and mounts. A string is the sequence of its components. **Namespace** is a map from
paths to files in which a mount covers a path. **OpenFiles** models the
descriptor table, the registers' way through `int 0x80`, and reads and writes
per kind of inode. The fifo's `buffer_index` begins as any word, and `unwritten` of the bytes in front of it are nobody's; **Pipe** is the fifo's promise to its writers: empty at
first, what is written leaves it in order and each byte once. The mapping leaves the unwritten bytes out, which readers do get (see [departures](#known-departures)). **InitrdImage** runs `makefs`
over a host's tree, `readdir` answering in any order, writes the image and reads
it back with `initrd::cache`; both recursions are explicit stacks.
**ProgramLoad** runs `exec_process` with one program after another in the same memory. `MCLoading` composes
the last two, and `MCFiles` composes these with Entries, OpenFiles and Printing.

**Boot** runs `__kernel_main__` one call at a time (`Order`); between two of them, and for good behind the last,
devices raise lines, the processor takes interrupts when its flag lets it, instructions fault, and programs make system
calls. `gdt_set_gate` and `init_idt_entry` split addresses and limits into fields as the code does, and `Segment` and `Entered` put
them together again as the processor does: whether a vector arrives at its stub is computed from the fields, and
compared with the number that the handler ought to find (`due`). The two controllers are modelled with the lines
that wait and are in service, the slave behind the master's line 2, priorities, the spurious interrupts 7 and 15 (which
put nothing in service of their own) and the non-specific end of interrupt. `stack` holds what the processor
is in the middle of; a stub and a handler are two steps, so that what a trap gate lets in before the stub's `cli` shows. The processor, the controllers, devices and
programs are external: modelled from how the code uses them.

Modules whose names begin with `MC` instantiate a specification for TLC; those
that end in `Proofs` hold theorems.

## Runs and their bounds

| Run | What it asks | Bounds | States |
|---|---|---|---|
| `heap_free` | every order of `kmalloc`, `krealloc`, `free` of live and stale pointers, and client writes | 14 bytes, headers of 2, requests of 0, 2 and 5 | 280 838 |
| `heap_pages` | page-aligned requests among plain ones, `krealloc` and `free` | 20 bytes, pages of 4, plain requests of 1, aligned ones of 1 and 3 | 225 271 |
| `heap_links` | do the links agree after every aligned request? (no) | as `heap_pages` | |
| `heap_room` | does the space assertion keep regions apart? (no) | as `heap_pages` | |
| `paging` | every order of `fork_page` and `allocate` in two directories, until frames run out and after | 5 frames, 2 locked, 4 pages in 2 tables | 211 408 |
| `paging_frames` | does `alloc_frame`'s assertion do what it says? (no) | as `paging` | |
| `interrupts` | handlers between any two accesses of `getc` and `sleep` | 3 scancodes, 5 cells, ticks modulo 4 | 587 128 |
| `util` | every order of calls of `rc` and `weak`, `list`, `hashmap`, `string` | 2 counters, 3 `rc`, 2 `weak`; 4 nodes; keys 0, 96, 1, 352; 2 strings of up to 3 characters, 3 buffers | 233 318 |
| `files` | every tree through the image, in every order of `readdir`, and pairs of programs in one memory; the kernel's uses of `rc` and `weak`, temporaries included; every order of open, read, write through int 0x80; every order of printing calls and every short format | 6 files, tables of 5, pages of 4 bytes, 24 bytes, 2 programs; 1 device of 1 to 3 entries, 2 opens, 1 program at a time, 20 addresses; 3 descriptors, 4 bytes of fifo, calls of up to 3; 3 x 3 screen, formats of up to 4 characters, words of 8 bits | 787 772 |
| `entries_created` | is an entry's `m_inode` always counted? (no) | as `files` | |
| `tree` | every small ramdisk, then more files and mounts | 3 entries, depth 2, 11 entries in all | 2 272 |
| `boot` | interrupts, spurious ones, faults and system calls between any two steps of boot and after it | lines 0, 1, 8 and 15; faults 0, 13 and 14; four bits count 4 | 20 944 |

Why these are enough:

- `heap_free`: three blocks fit, so a block can have a used or a free neighbour on either
  side, both at once, or none; sizes 0, 2 and 5 split with and
  without a worthwhile rest (the rest of exactly header plus `MIN_BLOCK_SIZE` included) and
  make `krealloc` stay, grow and move. `Word` is 64, above every address, as the code's is.
- `heap_pages`: blocks with a used or a free neighbour on either side, aligned requests that are split and that are not,
  boundaries at every distance from one to a page. Every aligned request that the code's assertion accepts is executed. One that leaves the block behind
  with a link to the old place, as one does that is neither the last of the list nor split behind its moved header, ends the behaviour (`tangled`): the state after it is still
  checked by `heap_links` and `heap_room`, what later calls make of it is not.
- `paging`: eight pages in two directories share at most three free frames, so these do run out; the ranges start
  or end off a page's base, overlap, cross a table, and wrap around the address space.
- `interrupts`: three scancodes are enough for one key below, one being read
  and one that arrives; ticks wrap within a `sleep` of two. Letters and a key without
  character, shift pressed and let go.
- `util`: an object can be held twice and watched twice while a third holder moves between
  objects, and both addresses are given out again; counters and variables are symmetric. Keys 1 and 352 are the pair of tests/hashmap.cpp with equal hashes, 0 and
  96 the only pair of inode numbers with equal hashes (an assumption TLC evaluates, `InodeNumbersApart`).
  The classes share no state but the heap, so a behaviour uses one of them (`subject`); an
  interleaving of two would only multiply the states. Two strings and three buffers are enough for a copy, its original, and a
  buffer that is given out again; the literals are a letter and a separator, so that strings of up to three characters have every
  arrangement of separators. The list is used as the kernel or
  its tests use it and its links allow: as a queue whose back is never
  popped, or at its back and never popped empty.
- `tree`: with and without a directory `dev`, with files in it that the mount covers,
  and with names that are made again later.
- `files` has four parts, of which none reads the state of another, so a behaviour runs one of them (`part`); the one that runs begins in each of its
  initial states, the others stay in one of theirs.
  - `loading`: three levels, siblings at each, and one file more than the table has entries; segments on the same page,
    on the next, off a page's base, over one another and over the stack. A program is a file of the tree, but nothing else passes from one half to the other,
    so a behaviour runs one of the two.
  - `pointers`: a device's root, the terminal that `udev` makes, and one more file; a ramdisk with a sibling and a child's nesting; opens before and after files are made,
    and while a program runs. At most 20 counters exist at once.
  - `program`: a fifo shared by two descriptors, one open more than there are descriptors, and every number of unwritten bytes in a fresh fifo.
  - `printing`: three lines scroll, three columns wrap; stdout's buffer holds more than the one
    character it ever should. Formats of four characters have two conversions, a
    conversion behind text and text behind one. `vfprintf` never looks at what its file does with a character, so a
    behaviour runs one half or the other.
- `boot`: two lines on each controller, the slave's first (where `irq_handler` tells 39 from 40) and last (where spurious interrupts
  are) among them. Four bits have 4 values instead of 16, so bytes 16 and addresses 65 536: every field of a descriptor still holds part of an
  address or of a limit, and the addresses chosen have a part in each. The ramdisk is put into the memory that stays
  mapped, into the placement area, under the heap, and behind both. `MemoryKept` says for each place what holds: only in the first is it neither
  overwritten nor missing, and nothing in the code sees to it that the boot loader puts it there.

Deadlock is checked except where the modelled system really stops (a failed assertion or a
fault in `paging` and `paging_frames`), in `heap_pages`, `heap_links` and `heap_room` (see above) and in `util`, where a behaviour
ends when a class has been used up. The `Halted` step of KMalloc and `ProgramStops` of MCFiles are the spin in `__assert`, and the latter also the ends of what OpenFiles models.

The four violation runs are disagreements between the code and what it, or a test, says of it:

- `paging_frames`: `assert(idx != (uint32_t)-1 && "No free frames!")` (page.cpp:66) cannot
  fail, as `first_frame` answers 0 when there is none (page.cpp:57); the page is then present with frame 0.
- `entries_created`: `m_inode` is "A reference to the raw inode" (fs.h:130), but every dirent is made with the temporary `weak<inode>()`
  (udev.cpp:9, :42, udev.h:22, initrd.cpp:41). An empty weak does not count itself (rc.h:96), so the end of its first copy deletes the counter (rc.h:154-159) while
  `m_inode` points to it, and `m_inode = inode` (udev.cpp:14, :48, udev.h:26, initrd.cpp:58) lowers a word of freed memory (rc.h:105, :121). `files` shows how far this goes if
  the freed bytes become nothing but counters: nothing else is read through the freed counter, and the entry leads to its inode
  afterwards.
- `heap_links`: a test expects `ASSERT(head[i]->next->previous == head[i])` (tests/kmalloc.cpp:37) of a block in use, but `make_aligned_block` relinks
  only the block before the moved header (kmalloc.cpp:88).
- `heap_room`: the assertion "Out of heap space for aligned malloc" (kmalloc.cpp:129-130) adds the bytes since the last page boundary to the block's size, while
  those up to the next one are taken away from it (:87). A free block in the middle of the heap can pass without room for the request, which then overlaps the live region behind it.

## Fairness

Three properties are about progress.

- `HeapCallsReturn` assumes that a heap call that has begun goes on (`WF(Running)`): interrupt
  handlers return, and no scheduler exists that could abandon it.
- `GetcWakes` assumes that the timer goes on ticking (the chip is programmed for a periodic
  rate and never stopped), that a raised interrupt is delivered (interrupts are on outside
  handlers and system calls, and every handler ends with end-of-interrupt), and that the thread runs between interrupts.
  Nothing is assumed of the person at the keyboard.
- `LinesServed` assumes that the kernel's own steps go on (`WF(Kernel)`) and that an interrupt which is offered to the processor
  again and again is taken in the end (`SF(Deliver)`): the processor looks for one between every two instructions, so a thread that makes system
  call after system call has interrupts on in between. Devices need never raise anything.

## Proofs

Each proof module states an inductive invariant, proves that the initial states have it and that every step
keeps it, with one lemma per action, and draws the theorems from it. TLC has checked each of these invariants before it was
proved. The constants are arbitrary up to the named assumptions of their modules; TLC evaluates those for the
instances of the runs.

**KMallocProofs** (`Invariance`, `PlainHeapUntangled`, `TypeCorrect`, `UsedIsHeld`, `LiveRegionsApart`,
`FreeNeverAsserts`, `LinksAgree`, `HeapKeepsContract`, `BestIsFound`, `FreeBlocksMerged`, `OnlyHoldersWrite`, `AlignedRegionsFit`), for
every heap size, header size and page size, and every set of plain and of page-aligned sizes. `TypeCorrect`, `FreeNeverAsserts`, `BestIsFound`, `FreeBlocksMerged` and `AlignedRegionsFit` are about all
behaviours. The others are about the states, or the behaviours, in which no page-aligned request has left a stale link (`Untangled`): that is the invariance of
`IInv`, and without page-aligned requests it is everything (`PlainHeapUntangled`); with them the statements are false, as `heap_links` and `heap_room` show. None of the properties is inductive: that regions are disjoint depends on the links.
`IInv` says that the list is *well linked*: there is a set of block starts, each linked to the one
before and the one behind it and ending where the next begins, and every other address reads as junk or
as a leftover that is not used; that the used bits are exactly the callers' pointers; and that the loops'
pointers stand on blocks. The proof of each list operation (split, merge, overwrite, copy) is a lemma
about `WellLinked` of a heap value, independent of the variables, and the actions cite them. An aligned request
moves a header up within its block and gives the bytes in front to the block before (`Relocated`); the code forgets the link of the
block behind, and the proof shows that the split that follows writes exactly that link (`SplitRenews`), and that a request at the end of the heap that passes the code's
checks and stays in the heap fits behind the moved header. A request that is not split leaves that link wrong, and `WellLinked` with it. Two further invariants rest on `IInv`: `SearchSeen`, that the
search's `best` is the smallest of the free blocks it has passed (`BestFit`), and `PairsInv`, that two free neighbours are
only ever those that a running `free` is about to merge (`Coalesced`).

**PagingProofs** (`PagingInvariance`, `PagingTypeCorrect`, `NoFrameShared`, `PagesReachable`,
`TranslationsStay`, `RequestsMapped`), for any number of directories, pages and frames. `NoFrameShared` says where sharing begins: only on frame 0, and only when every
frame is taken. Besides the checked properties `IInv` needs that
the locked frames stay set, that a page with a frame is present, and that `allocate`'s loop has left
present pages behind it.

**InterruptsProofs** (`StackKept`, `BottomIsKept`, `CharacterIsRight`, `SleepIsLongEnough`, `KeysAreKept`, `WaitsOnlyWhenEmpty`), for any
keyboard map whose shift and release codes are no keys, any buffer that holds what is typed
(`MaxTyped < BufferSize`: behind its end the code writes past the buffer, see the hazards) and any width of the tick count. Four invariants, one upon the
other. `StackInv`: a pointer that `getc` has loaded is never behind the stack's top, as only `getc` moves the top down; where it has tested
that a key is there, one is. `CharactersInv`: whatever is in the buffer, in `getc`'s hands or returned is a press with the shift of its own
scancode. `SleepInv`: the tick count is `elapsed` behind the one that `sleep` started from, modulo the width. `KeysInv`: as long as no key came while `getc`
took one, the presses on the stack are in their order and every character is in one place.

**UtilProofs** has three independent parts, on the composition that the run `util` checks.
(1) `RefCountInvariance`, `CountsExact`, `NothingHeldIsDeleted`, `LastHolderDeletes`: for
finite sets of variables, fewer than a count can hold, and every order of calls, up to the first step that reads freed memory (where the model ends). `IInv` adds what keeps stray writes away from
the counts: what does not dangle points to a counter that lives, what holds an object never dangles, and two pointers to one counter that counts an object see the same one (`Structure`).
An assignment to a weak variable that dangles writes to `weak_count` alone, so the counts stay exact whoever has the address by then. They are cardinalities of sets of holders; the lemmas say
how they move when one variable is pointed elsewhere.
(2) `StringsKeepText` and `SectionsAreRight`, for any set of variables and buffers: `TextInv` says that an undisturbed string has a live buffer with its text in it,
that copies are alike, and that two undisturbed strings share a buffer only as copies. `split`'s loop is
a recursive function and the joining of the property a fold, both over strings of any length; `SectionsCut` and `JoinCut` say of each where it cuts the text, `SplitCuts` that
the cuts are the separators.
(3) `TableIsDictionary` and `ListIsDeque`, two refinements. The table's mapping needs that every chain is a sequence
of nodes and that the first node with a key answers for it; keys are natural numbers and `None` is no value. The list's invariant
names the sequence of nodes that a walk along `next` finds, distinct and exactly those allocated while the list is open, and linked backward
where it is used at its back. A walk is as long as the number of nodes allows, so this needs
the finiteness of `Nodes`.

**ConsoleProofs** (`ConsoleInvariance`, `ConsoleTypeCorrect`, `StaysInVideoMemory`, `StdoutIsFlushed`,
`ConsoleIsTerminal`), for any width and height and any texts. `ScreenOK` says that the pointer is where line and column put it and that everything
below the current line is blank; the latter is what makes scrolling by copying rows a terminal's scrolling. The refinement
maps the flat memory to Terminal's rows.
`PrintingIsRead` is about the other half of Printing, for words of any number of half bytes, every format and every number a word can be. `PrintfOK` says that no more arguments have been taken than there are
conversions behind the place, so that the next one is there. That digits are read back as their number is argued of both of `Format`'s conversions and of the fold that reads them: each is shown to have a value for every
number of steps, then the text is followed from its first digit (`DigitsAre`, `SpeltReads`) or, for `%x`, along with the word that is shifted away (`NothingLeft`, `HexReads`). The least
number is no exception, since its negation fits into an unsigned word (`ItoaReads`). `TextAt` and the arguments are assumed to be what C makes them: texts, and numbers of a word (`FormatAssumption`).

**FilesProofs** has three parts, of which the last two belong together. (1) `OpenFilesInvariance`, `DescriptorsStay`, `FifoIsPipe`, for every size of table and buffer. `IInv` says that
only descriptors below `last_desc` have a file, the one of boot aside, and that nothing is written yet where the fifo's index is behind its buffer. It may begin as any word; the refinement maps the
bytes between `unwritten` and `buffer_index` to the pipe's contents; reading shifts the rest to the front, of which the lemmas say that it is taking from a sequence's front.
(2) `InodesStayCached`, for any images, further devices and mount paths, if no two devices are the same (`DevicesAssumption`). `TreeInv` adds to it that the numbers in a
device's cache are all different, `udev`'s below its next one, and is kept because only `udev` makes entries, under new numbers, and a mount changes names, parents and
children but no entry's device or number.
(3) `TreeIsNamespace`, the refinement of Namespace, for paths of any length, any images, further devices and names. Its hypothesis `TopMounts` is that devices are
mounted on paths of one name, as `init_fs` does; a mount below another directory is not found again (see the departures), so without it the statement is false.
`ASSUME MountsAssumption` of MCFileTree has TLC check that the `tree` run satisfies it. `PlacesInv` is the inductive invariant: every child names its directory as its parent, but for the roots of
mounted devices, which are children of the tree's root and of nothing else (`KidsInv`); no two devices have the same root and a root has no parent, so
that nothing can be mounted over a mounted device (`RootsInv`); and what is mounted is what a lookup under its name finds first (`MountedInv`). A
lookup is a fold over the path; it is shown to be the sequence of the children it goes through (`WalkSteps`), to begin with the child of the first name (`WalkDown`), and to find the same
in two states of the tree if it stays where both have the same children with the same names (`WalksAgree`). Each step then is argued by the part of the tree that it leaves alone:
all but the root for a mount, all but the root and udev's for a new file.

**LoadingProofs** has two independent parts. (1) `TreesArrive`, for any trees whose files are numbered from the root on (`TreesAssumption`), any order in which `readdir`
returns a directory's files, and tables that are smaller than the range of their numbers (`TableAssumption`; with as many entries as numbers, the last number would be 0 again, the root's). `TreeInv`
follows the tree through both programs: a file of the host has at most one entry, whose number is greater than its directory's; the entries of a directory that is being read are
linked from its last one backward, each with a smaller number, and are the files that `readdir` has returned; every regular file's bytes lie where its inode says; and in the kernel each
call of `cache` that is done or still to come is for one entry, under the one that was made for its directory, so that every entry is made exactly once. A walk along siblings ends and two walks along the same links are the same
(`WalkExists`, `WalksMeet`), because numbers fall along it.
(2) `ProgramsArrive`, for any pages, stack and images whose segments end in the lower half (`ImagesAssumption`; the linker scripts put
programs there). `LoadInv` says of every segment in front of the one being loaded that it is in memory, where no later one covers it, and
that the pages of what it asked for are mapped; a copy that is not cut off by a page fault stores every byte, since the stored addresses are as many as the bytes.

**BootProofs** (`BootIsKept`, `AllLedToTheirStubs`, `NoneDisturbed`, `HaltsForGood`, `MemoryIsKept`), for any addresses of the stubs and of the task
state that a descriptor can name, any set of lines but the cascade's, any faults but a page fault (which boot raises itself where it touches what is not mapped). `BootInv` says how
far each table is at each step, and that the processor is in the middle of at most two things: of a fault's stub with an interrupt in it, or of a fault's
handler that makes a system call; of everything on its stack that it was entered with its own number. The lemmas put a descriptor's split fields together again. `MemoryInv` adds
which memory boot has taken at which step, and what is mapped; `MemoryIsKept` says for which places of the ramdisk that is enough.

Induction over data. The library's induction theorems cannot be used here, as no installed prover can instantiate their operators. Where a proof needs
one (the end of a walk along a list, the last press of shift), it goes through a least or a greatest element instead: the set of the counterexamples is a set of natural
numbers, and `WFMin` gives it a least one. In the same way a recursive function or a fold of the model is first shown to have a value for every number of steps
(`LoopExists`, `JoinExists`, `FoldExists`, `IterExists`, `DigitsExist`, `WalkExists`), by the least number for which it has none.

## What is only model-checked

- Liveness (`HeapCallsReturn`, `GetcWakes`, `LinesServed`): out of the prover's reach.
- `NothingStale` and `InodeReached`: that the kernel's own sequences of calls read no freed counter, for devices of up to three entries.

The other way round, some theorems are about invariants that no run checks, because another property of the run implies them or
the theorem says more than a run could: the type invariants of Paging and Console, `LiveDisjoint` (part of `ImplementsContract`),
`FreeAssertsHold`, `NoStray`, `LastDeletes` (the counts that `CountExact` and `HeldIsLive` are about), `InodesCached` (whose hazard `InodeReached` shows on the pointers themselves).

## Known departures

What the code does that a document, a comment, a message or a test denies, or that a reader
would not expect. The models follow the code in each case.

- Heap, aligned requests: the block behind the moved header keeps its link to the old place
  (kmalloc.cpp:88 relinks one side only); a request answered from the first block writes through its null
  link (:88); a boundary nearer than a header makes the copy overlap itself (:92); the space check adds where it
  should subtract (:129-130), so the moved block may overlap the live one behind it, end outside of the heap, or have a size that has wrapped around zero; the required size is computed from
  the first block's distance (:109-111); an address that is aligned already skips a page (:70).
- Paging: beside the assertion above, the end of a range is lost when its start is off a page's
  base (page.cpp:195); a range that wraps is not mapped at all (:199); `get_page` replaces a 4 MB
  entry by an empty table (:183); `free_frame`, which nobody calls, clears the wrong bit (:80).
- Keyboard: unread keys are a stack, so the last typed is read first; a key that arrives while `getc` takes another
  may be lost and the other read twice; a key without a character buries those below; the buffer has no end (ps2.cpp:105). `install_keyboard` is commented out at start.cpp:51.
- `rc`: the last one deletes the counter with the object (rc.h:66-69) though a `weak` may still point to it, whose `count` is "The strong count of the pointer" (:166-169); assigning over the last holder deletes nothing (rc.h:43-61); an `rc` with nothing in it never deletes its counter (:64).
- `weak`: an empty one does not count itself (rc.h:96), so its first copy to end deletes the counter of all (:156-158), as every dirent's does while it is made;
  its assignment lowers a count without asking whether that was the last (:104-134).
- `list`: `pop_front` leaves the new first node's previous link at freed memory (list.h:86-94), `pop_back` of the only node leaves `first` there (:99-109), `push_front` does not set the old first's previous link (:55-64), and the destructor skips the first node and follows links of freed ones (:33-39).
- `util::string`: a copy shares its buffer, and whichever destructor is first frees it for both (string.h:42-44, :58); a string that is assigned to
  itself copies the new buffer instead of the old one (:26-40); assignment never frees the old buffer.
- `hashmap`: a second `set` of a key has no effect (hashmap.h:68-79).
- `sprintf` returns 0 and writes no NUL (stdio.cpp:103), while tests/test/tests.h:42 indexes with its result; `itoa` is wrong above base 10 (string.cpp:31).
- File tree: a mounted root has no parent (vfs.cpp:23 against fs.h:161), so a second mount in its place ends in "VFS issue"; a mount below another is named with everything behind the first
  slash (vfs.cpp:19) and cannot be found; a ramdisk without `dev` ends in "Bad mount" (vfs.cpp:17), the repository's own among them; "/" itself resolves to nothing.
- Descriptors: 0 is taken at boot without being counted, so a program's first open replaces it (start.cpp:67); the open behind the
  table overwrites `last_desc` (fs.cpp:62); `close` does nothing (fs.cpp:42); a bad path stops the kernel (fs.cpp:50); no result of a system call reaches the program, since the gate restores all registers (isr.s).
- Fifo: `buffer_index` is not initialised (fifo.cpp:4-7, fifo.h:17), so a fresh one may answer with bytes nobody wrote, though its inode is made as "a pipe or FIFO special file" (flags.h:62); `mode |=` changes the parameter (fifo.cpp:6), and a write does not stop at the buffer's end (:22).
- Ramdisk: reads are bounded by the file's size and not by the offset (initrd.cpp:21-25); the root has no directory bit and becomes an `rdfs_inode` (makefs.c:165).
- Boot: the limit of the task segment is an address, `base + sizeof` (gdt.cpp:105); the last vector is left out of the loop that
  disables all of them (idt.cpp:157), and is only not present because the table starts as zeros; the bitset of frames is asked for with 512 bytes and used with 2048 (page.cpp:125), which does no harm because what is placed next is
  aligned to a page; placement begins at 2 MB and the heap lies from 4 to 8 MB wherever the boot loader has put the ramdisk, and only the first 4 MB and the heap stay mapped: a ramdisk in MB 2 or from 4 on is overwritten or cannot be read.
- Loader: bytes between `filesz` and `memsz` are not cleared (elf.h:229), while init/hi.c:4 declares such a variable; programs run in the kernel's process.

## What is not modelled

- `vec` (unused), `optional` (no behaviour of its own).
- Threads, `do_switch`, `enter_usermode`: no caller.
- Ports and the serial line: pure I/O. Of boot, the stack, the stack segment and the task state's contents: nothing leaves ring 0.
- The timer chip's divisor, and the keyboard's installation, which is commented out (start.cpp:51).
- Memory beyond the end of a structure: where the code writes past one, the model stops.
- The contents of memory, except where a property is about them (payloads of the heap are not; headers in it, video memory, the fifo and programs' segments are).
- Tests, build files, the vendored boot loader.

## Plan

Done, in this order: heap and its contract, paging, interrupts, `rc`, console, file tree, open files, list, hash table, image, printf, loader; proofs of heap, paging, `rc` and console; strings, boot with descriptor tables and controllers, aligned requests with `free`; proofs of interrupts, boot, open files, the tree's caches, list, hash table, strings and loader, and of the heap with aligned requests; proofs of the image's way, of `split`, of the tree as a namespace, and of printf's numbers; the kernel's use of `rc` and `weak`, its frees of counters included, and the aligned requests and the fresh fifo that the code handles wrongly.

Next:

1. Composition: Entries with OpenFiles and FileTree (several devices and mounts), ProgramLoad over Paging (frames that run out while a program is loaded).
2. An invariant of Entries for any number of entries: which pointers dangle at which step of a call.

## Running it

    tlc -workers 2 -config KMallocFree.cfg KMalloc
    tlapm KMallocProofs.tla

Every run is named in `PROJECT.json` with its module and its configuration; each takes seconds, the longest two or three minutes.
