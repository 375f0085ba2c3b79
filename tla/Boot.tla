-------------------------------- MODULE Boot --------------------------------
(* The start of the kernel (entry.asm, start.cpp), the descriptor tables it *)
(* builds (gdt.cpp, idt.cpp), the two interrupt controllers it programs     *)
(* (irq.cpp) and the path of an interrupt, a fault or a system call through *)
(* them: request, vector, gate, segment, stub, handler, end of interrupt.   *)
(*                                                                          *)
(* A step of __kernel_main__ is one step here; interrupts arrive between    *)
(* two of them whenever the processor lets them.  A descriptor's fields are *)
(* scaled: four bits of the hardware count Nibble values.                   *)
EXTENDS Integers, Sequences, FiniteSetsExt

CONSTANTS
  Lines,       \* interrupt lines that have a device
  Traps,       \* exceptions the code may run into, but page faults
  Nibble,      \* 2^4, values of four bits
  TssAddress,  \* &tss_entry
  FirstStub,   \* address of the first stub
  ImageBlocks  \* the megabytes the boot loader may put the ramdisk into

Byte == Nibble * Nibble
Half == Byte * Byte
Word == Half * Half
Vectors == 0 .. 255
PageFault == 14
Int80 == 128

ASSUME BootAssumption ==
  /\ Lines \subseteq 0 .. 15 \ {2}
  /\ Traps \subseteq 0 .. 31 \ {PageFault}
  /\ Nibble \in {4, 8, 16}
  /\ FirstStub \in Nat /\ FirstStub + Nibble * Int80 < Word
  /\ TssAddress \in Nat /\ TssAddress + 104 < Word
  /\ ImageBlocks \subseteq 1 .. 15

VARIABLES
  step,            \* how far __kernel_main__ has come
  gdt, idt,        \* the tables in memory
  gdtr, idtr,      \* the limits of those the processor has loaded, 0 before
  base,            \* the first vector of the master and of the slave controller
  irr, isr,        \* lines that wait, and lines in service
  irq_routines,
  timer_ticks,     \* mod 2
  interrupt_flag,
  stack,           \* what the processor is in the middle of, innermost first
  directory,       \* the 4 MB entries of the directory in cr3
  kernel_directory,
  placement,       \* _internal_placement_address, from the start of memory
  used,            \* history: the memory the kernel has taken for itself
  image            \* the megabyte that holds the ramdisk

tables == <<gdt, idt, gdtr, idtr>>
pics == <<base, irr, isr>>
memory == <<directory, kernel_directory, placement, used, image>>
vars == <<step, tables, pics, irq_routines, timer_ticks, interrupt_flag, stack, memory>>

----------------------------------------------------------------------------
(* Descriptors, as gdt.cpp and idt.cpp pack them and the processor unpacks them *)

Granularity(limit, gran) == ((limit \div Half) % Nibble) + gran - (gran % Nibble)

gdt_set_gate(at, limit, access, gran) ==
  [base_low |-> at % Half,
   base_middle |-> (at \div Half) % Byte,
   base_high |-> (at \div (Half * Byte)) % Byte,
   limit_low |-> limit % Half,
   granularity |-> Granularity(limit, gran),
   access |-> access]

\* What the processor takes a descriptor for.
Segment(d) ==
  LET limit == d.limit_low + (d.granularity % Nibble) * Half
      paged == d.granularity \div Nibble >= Nibble \div 2
  IN [from |-> d.base_low + d.base_middle * Half + d.base_high * Half * Byte,
      last |-> IF paged THEN (limit + 1) * (Word \div (Half * Nibble)) - 1 ELSE limit,
      code |-> {"PRESENT", "EXECUTABLE"} \subseteq d.access]

init_idt_entry(offset, type, enabled) ==
  [offset_1 |-> offset % Half, offset_2 |-> offset \div Half, selector |-> 8,
   type |-> type, enabled |-> enabled]

\* The linker's place for the stub that pushes a number: isr0 to isr31, irq0
\* to irq15 (32 to 47) and isr80.
StubNumbers == 0 .. 47 \cup {Int80}
Stub(number) == FirstStub + Nibble * number

\* The number the stub behind a vector pushes, -1 if the processor finds none.
Entered(vector) ==
  LET gate == idt[vector]
      segment == Segment(gdt[gate.selector \div 8])
      offset == gate.offset_1 + gate.offset_2 * Half
      found == {s \in StubNumbers : Stub(s) = segment.from + offset}
  IN IF /\ 8 * vector + 7 <= idtr /\ gate.enabled
        /\ gate.selector + 7 <= gdtr /\ segment.code /\ offset <= segment.last
        /\ found # {}
     THEN CHOOSE s \in found : TRUE ELSE -1

\* The processor goes through a vector; "due" is the number that the handler
\* ought to find.
Enter(vector, due) ==
  /\ stack' = <<[int_no |-> Entered(vector), due |-> due, at |-> "stub",
                 flag |-> interrupt_flag]>> \o stack
  /\ interrupt_flag' = (interrupt_flag /\ idt[vector].type # "INT_GATE")

----------------------------------------------------------------------------
(* The two interrupt controllers: the slave asks through the master's line 2 *)

Chip(line) == line \div 8
Free(line) == \A s \in isr : Chip(s) = Chip(line) => line < s
Asking(chip) == {l \in irr : Chip(l) = chip /\ Free(l)}
Master == Asking(0) \cup {l \in {2} : Asking(1) # {} /\ Free(l)}

\* The first line that waits, if none before it is in service.
Offered(line) ==
  IF Chip(line) = 0 THEN line \in Master /\ line = Min(Master)
  ELSE 2 \in Master /\ 2 = Min(Master) /\ line \in Asking(1) /\ line = Min(Asking(1))

Raise(line) ==
  /\ irr' = irr \cup {line}
  /\ UNCHANGED <<step, tables, base, isr, irq_routines, timer_ticks, interrupt_flag, stack, memory>>

\* The processor takes the vector and the line is in service; or the device
\* has taken its request back meanwhile, and the controller answers with its
\* last vector and puts nothing in service.
Deliver(line, spurious) ==
  LET own == IF spurious THEN {} ELSE {line}
      last == IF spurious THEN 7 ELSE line % 8
  IN /\ interrupt_flag /\ Offered(line)
     /\ irr' = irr \ {line}
     /\ isr' = isr \cup own \cup (IF Chip(line) = 1 THEN {2} ELSE {})
     /\ Enter(base[Chip(line)] + last, 32 + 8 * Chip(line) + last)
     /\ UNCHANGED <<step, tables, base, irq_routines, timer_ticks, memory>>

\* The first line in service of a controller is done.
EndOfInterrupt(chip, service) ==
  LET own == {l \in service : Chip(l) = chip}
  IN IF own = {} THEN service ELSE service \ {Min(own)}

----------------------------------------------------------------------------
(* Handlers *)

In(at) == stack # <<>> /\ Head(stack).at = at
Number == Head(stack).int_no
IsIrq(number) == number \in 32 .. 47
InThread == stack = <<>> \/ (In("handler") /\ Number = Int80)

Iret ==
  /\ stack' = Tail(stack)
  /\ interrupt_flag' = Head(stack).flag

\* Mutant: the stubs of exceptions have no cli.
ClearsOnIrq(number) == IsIrq(number)

\* The stubs of exceptions and interrupts begin with cli, isr80 does not.
Clears(number) == number # Int80

EnterHandler ==
  /\ In("stub") /\ Number >= 0
  /\ interrupt_flag' = (interrupt_flag /\ ~Clears(Number))
  /\ stack' = [stack EXCEPT ![1].at = "handler"]
  /\ UNCHANGED <<step, tables, pics, irq_routines, timer_ticks, memory>>

\* Mutant: line 8 is taken for one of the master's.
ForwardedAbove40(number) == number > 40

\* The slave has to be told too.
Forwarded(number) == number >= 40

irq_handler ==
  /\ In("handler") /\ IsIrq(Number)
  /\ timer_ticks' = IF irq_routines[Number - 32] = "timer_handler"
                    THEN (timer_ticks + 1) % 2 ELSE timer_ticks
  /\ isr' = EndOfInterrupt(0, IF Forwarded(Number) THEN EndOfInterrupt(1, isr) ELSE isr)
  /\ Iret
  /\ UNCHANGED <<step, tables, base, irr, irq_routines, memory>>

\* It prints, and halts in a loop.
cpu_fault_handler ==
  /\ In("handler") /\ Number < 32
  /\ stack' = [stack EXCEPT ![1].at = "halted"]
  /\ UNCHANGED <<step, tables, pics, irq_routines, timer_ticks, interrupt_flag, memory>>

\* The end of syscall_handler.
SyscallReturns ==
  /\ In("handler") /\ Number = Int80
  /\ Iret
  /\ UNCHANGED <<step, tables, pics, irq_routines, timer_ticks, memory>>

----------------------------------------------------------------------------
(* __kernel_main__ *)

KernelPage == 768  \* 0xc0000000 >> 22
HeapPage == 832    \* 0xd0000000 >> 22
MB == 1048576

\* Mutant: the interrupts come on before the tables are complete.
OrderStiEarly ==
  <<"gdt_install", "init_idt", "sti", "irq_install", "allocate", "switch_page_directory",
    "init_kernal_heap", "find_image", "install_timer", "init_fs", "exec_process">>

\* The three parts of initialise_paging stand where it is called.
Order ==
  <<"gdt_install", "init_idt", "irq_install", "allocate", "switch_page_directory",
    "init_kernal_heap", "find_image", "install_timer", "sti", "init_fs", "exec_process">>

At(s) == stack = <<>> /\ step <= Len(Order) /\ Order[step] = s
Running == stack = <<>> /\ step > Len(Order)

\* The 4 MB of the address space that a step reads or writes in.
Touched(s) ==
  CASE s = "init_kernal_heap" -> {HeapPage}
    [] s = "init_fs" -> {HeapPage, KernelPage + image \div 4}
    [] OTHER -> {KernelPage}

Mapped(s) == Touched(s) \subseteq DOMAIN directory

Flat == (Nibble \div 2 + Nibble \div 4) * Nibble + Nibble - 1   \* 0xcf
Segments == {"PRESENT", "NOT_SYS", "RW"}

\* The limit is taken to be an address, like the base.
write_tss == gdt_set_gate(TssAddress, TssAddress + 104, {"PRESENT", "PRVL_3"}, 0)

gdt_flush == gdtr' = 8 * 6 - 1

gdt_install ==
  /\ gdt' = [n \in 0 .. 5 |->
       CASE n = 0 -> gdt_set_gate(0, 0, {}, 0)
         [] n = 1 -> gdt_set_gate(0, Word - 1, Segments \cup {"EXECUTABLE"}, Flat)
         [] n = 2 -> gdt_set_gate(0, Word - 1, Segments, Flat)
         [] n = 3 -> gdt_set_gate(0, Word - 1, Segments \cup {"PRVL_3", "EXECUTABLE"}, Flat)
         [] n = 4 -> gdt_set_gate(0, Word - 1, Segments \cup {"PRVL_3"}, Flat)
         [] n = 5 -> write_tss]
  /\ gdt_flush
  /\ UNCHANGED <<idt, idtr, pics, irq_routines, interrupt_flag, memory>>

\* Mutant: the gate of int 0x80 is a trap gate, like those of the exceptions.
SyscallTrapGate == "TRAP_GATE"

SyscallGate == "INT_GATE"

asm_idt_load == idtr' = 8 * 256 - 1

\* The last vector is left out of the loop that fills the table.
init_idt ==
  /\ idt' = [v \in Vectors |->
       CASE v \in 0 .. 31 -> init_idt_entry(Stub(v), "TRAP_GATE", TRUE)
         [] v = Int80 -> init_idt_entry(Stub(v), SyscallGate, TRUE)
         [] v \in 32 .. 254 \ {Int80} -> init_idt_entry(0, "INT_GATE", FALSE)
         [] OTHER -> idt[v]]
  /\ asm_idt_load
  /\ UNCHANGED <<gdt, gdtr, pics, irq_routines, interrupt_flag, memory>>

\* Initialising a controller drops what it held.
irq_remap ==
  /\ base' = [chip \in {0, 1} |-> IF chip = 0 THEN 32 ELSE 40]
  /\ irr' = {} /\ isr' = {}

irq_install ==
  /\ irq_remap
  /\ idt' = [v \in Vectors |->
       IF IsIrq(v) THEN init_idt_entry(Stub(v), "INT_GATE", TRUE) ELSE idt[v]]
  /\ UNCHANGED <<gdt, gdtr, idtr, irq_routines, interrupt_flag, memory>>

\* Mutant: the placement address is not aligned.
PlacedUnaligned(align, at) == at

\* Also an address that is aligned is moved to the next page.
Placed(align, at) == IF align THEN at - (at % 4096) + 4096 ELSE at

\* The bitset of frames is asked for with a quarter of the size it is used
\* with; the kernel's directory is placed behind it.
allocate ==
  LET frames == Placed(FALSE, 2 * MB)
      fork_page == Placed(TRUE, frames + 512)
  IN /\ placement' = fork_page + 8196
     /\ used' = used \cup {[by |-> "frames", from |-> frames, to |-> frames + 4 * 512],
                           [by |-> "directory", from |-> fork_page, to |-> placement']}
     /\ kernel_directory' = [p \in {KernelPage, HeapPage} |-> IF p = KernelPage THEN 0 ELSE 1]
     /\ UNCHANGED <<tables, pics, irq_routines, interrupt_flag, directory, image>>

switch_page_directory ==
  /\ directory' = kernel_directory
  /\ UNCHANGED <<tables, pics, irq_routines, interrupt_flag, kernel_directory, placement, used, image>>

init_kernal_heap ==
  /\ used' = used \cup {[by |-> "heap", from |-> 4 * MB * directory[HeapPage],
                         to |-> 4 * MB * (directory[HeapPage] + 1)]}
  /\ UNCHANGED <<tables, pics, irq_routines, interrupt_flag, directory, kernel_directory, placement, image>>

install_timer ==
  /\ irq_routines' = [irq_routines EXCEPT ![0] = "timer_handler"]
  /\ UNCHANGED <<tables, pics, interrupt_flag, memory>>

sti ==
  /\ interrupt_flag' = TRUE
  /\ UNCHANGED <<tables, pics, irq_routines, memory>>

BootStep ==
  \E s \in {Order[n] : n \in DOMAIN Order} :
    /\ At(s) /\ Mapped(s)
    /\ CASE s = "gdt_install" -> gdt_install
         [] s = "init_idt" -> init_idt
         [] s = "irq_install" -> irq_install
         [] s = "allocate" -> allocate
         [] s = "switch_page_directory" -> switch_page_directory
         [] s = "init_kernal_heap" -> init_kernal_heap
         [] s = "install_timer" -> install_timer
         [] s = "sti" -> sti
         [] OTHER -> UNCHANGED <<tables, pics, irq_routines, interrupt_flag, memory>>
    /\ step' = step + 1
    /\ UNCHANGED <<timer_ticks, stack>>

\* An exception in the thread: a step of boot outside the mapped memory, or a
\* mistake of the code.
Exception(n) ==
  /\ idtr # 0
  /\ IF n = PageFault THEN \E k \in DOMAIN Order : At(Order[k]) /\ ~Mapped(Order[k])
     ELSE InThread
  /\ Enter(n, n)
  /\ UNCHANGED <<step, tables, pics, irq_routines, timer_ticks, memory>>

\* The program executes int 0x80.
Syscall ==
  /\ Running
  /\ Enter(Int80, Int80)
  /\ UNCHANGED <<step, tables, pics, irq_routines, timer_ticks, memory>>

----------------------------------------------------------------------------
\* entry.asm has mapped the first 16 MB to KernelPage and taken the identity
\* mapping away; the controllers stand as the BIOS has left them.
Init ==
  /\ step = 1 /\ stack = <<>> /\ interrupt_flag = FALSE
  /\ gdt = [n \in 0 .. 5 |-> gdt_set_gate(0, 0, {}, 0)]
  /\ idt = [v \in Vectors |-> [init_idt_entry(0, "none", FALSE) EXCEPT !.selector = 0]]
  /\ gdtr = 0 /\ idtr = 0
  /\ base = [chip \in {0, 1} |-> IF chip = 0 THEN 8 ELSE 112]
  /\ irr = {} /\ isr = {}
  /\ irq_routines = [n \in 0 .. 15 |-> "none"]
  /\ timer_ticks = 0
  /\ directory = [p \in KernelPage .. KernelPage + 3 |-> p - KernelPage]
  /\ kernel_directory = <<>>
  /\ placement = 0 /\ used = {}
  /\ image \in ImageBlocks

Kernel ==
  EnterHandler \/ irq_handler \/ cpu_fault_handler \/ SyscallReturns \/ BootStep

Next ==
  \/ \E line \in Lines : Raise(line)
  \/ \E line \in Lines, spurious \in BOOLEAN : Deliver(line, spurious)
  \/ Kernel
  \/ \E n \in Traps \cup {PageFault} : Exception(n)
  \/ Syscall

Spec == Init /\ [][Next]_vars

\* The kernel runs.  The processor looks for interrupts between every two
\* instructions, and so does not pass by one for good that is offered again
\* and again.
FairSpec ==
  /\ Spec
  /\ WF_vars(Kernel)
  /\ SF_vars(\E line \in Lines, spurious \in BOOLEAN : Deliver(line, spurious))

----------------------------------------------------------------------------
(* Properties *)

\* Whatever the processor goes through a vector for, an interrupt of either
\* controller, a spurious one, a fault or a system call, it gets to the stub
\* that pushes the number the handler needs, through gate, segment and offset;
\* and the task register's descriptor leads to the TSS.
LedToItsStub ==
  /\ \A k \in DOMAIN stack : stack[k].int_no = stack[k].due
  /\ gdtr # 0 => Segment(gdt[5]).from = TssAddress

\* No interrupt comes between the beginning and the end of a system call, nor
\* of the handler of another interrupt: the kernel's data, the timer's count
\* apart, is used by one of them at a time.  Only a fault's stub, which has a
\* trap gate, may be interrupted before its cli.
SyscallsUndisturbed ==
  \A k \in DOMAIN stack, l \in DOMAIN stack :
    k < l /\ IsIrq(stack[k].int_no) => stack[l].int_no < 32 /\ stack[l].at = "stub"

\* After "System Halted!" the kernel does nothing more, whatever interrupts the
\* devices raise.
HaltIsFinal ==
  [][In("halted") => UNCHANGED <<step, stack, timer_ticks>>]_vars

Before(line, other) ==
  LET Rank(l) == IF Chip(l) = 1 THEN 20 + l ELSE IF l < 2 THEN l ELSE 40 + l
  IN Rank(line) < Rank(other)

\* A line that a device raises is served in the end, also line 8 and those
\* behind it on the slave and after spurious interrupts, unless lines before it
\* are raised or the kernel has halted.
LinesServed ==
  \A line \in Lines :
    line \in irr ~>
      line \notin irr \/ In("halted") \/ \E other \in irr : Before(other, line)

\* What boot takes for the bitset of frames, the directory and the heap never
\* overlaps.  The code reserves and maps nothing for the ramdisk, wherever the boot
\* loader has put it: boot takes its memory only in the third and the fifth to
\* eighth megabytes, and gets a page fault only behind the fourth.
MemoryKept ==
  /\ \A u, v \in used : u # v => u.to <= v.from \/ v.to <= u.from
  /\ \A u \in used :
       u.to <= image * MB \/ (image + 1) * MB <= u.from \/ image \in {2} \cup 4 .. 7
  /\ (\E k \in DOMAIN stack : stack[k].due = PageFault) => image \notin 0 .. 3
=============================================================================
