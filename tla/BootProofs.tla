------------------------------ MODULE BootProofs ------------------------------
(* The start of the kernel, its tables and its interrupts, for every set of  *)
(* devices and faults, every place of the ramdisk and of the linked code.    *)
EXTENDS Boot, SequenceTheorems, TLAPS

----------------------------------------------------------------------------
(* Descriptors *)

LEMMA Widths ==
  \/ Nibble = 4 /\ Byte = 16 /\ Half = 256 /\ Word = 65536
  \/ Nibble = 8 /\ Byte = 64 /\ Half = 4096 /\ Word = 16777216
  \/ Nibble = 16 /\ Byte = 256 /\ Half = 65536 /\ Word = 4294967296
  BY BootAssumption, SMT DEF Byte, Half, Word

\* A base that fits in the fields of a descriptor is the one the processor
\* finds there.
LEMMA BaseRead ==
  ASSUME NEW at \in Nat, at < Word, NEW limit, NEW access, NEW gran
  PROVE  Segment(gdt_set_gate(at, limit, access, gran)).from = at
<1>1. (at % Half) + ((at \div Half) % Byte) * Half + ((at \div (Half * Byte)) % Byte) * Half * Byte = at
  <2>1. CASE Nibble = 4
    BY <2>1, Widths, SMT
  <2>2. CASE Nibble = 8
    BY <2>2, Widths, SMT
  <2>3. CASE Nibble = 16
    BY <2>3, Widths, SMT
  <2> QED
    BY <2>1, <2>2, <2>3, Widths
<1> QED
  BY <1>1 DEF Segment, gdt_set_gate

\* The flat segments: all of the memory.
LEMMA FlatRead ==
  ASSUME NEW access, {"PRESENT", "EXECUTABLE"} \subseteq access
  PROVE  LET segment == Segment(gdt_set_gate(0, Word - 1, access, Flat))
         IN /\ segment.from = 0
            /\ segment.last = Word - 1
            /\ segment.code
<1> DEFINE d == gdt_set_gate(0, Word - 1, access, Flat)
<1>1. /\ d.limit_low = (Word - 1) % Half
      /\ d.granularity = Granularity(Word - 1, Flat)
      /\ d.access = access
  BY DEF gdt_set_gate
<1>2. /\ d.limit_low = Half - 1
      /\ d.granularity % Nibble = Nibble - 1
      /\ d.granularity \div Nibble >= Nibble \div 2
  <2>1. CASE Nibble = 4
    BY <1>1, <2>1, Widths, SMT DEF Granularity, Flat
  <2>2. CASE Nibble = 8
    BY <1>1, <2>2, Widths, SMT DEF Granularity, Flat
  <2>3. CASE Nibble = 16
    BY <1>1, <2>3, Widths, SMT DEF Granularity, Flat
  <2> QED
    BY <2>1, <2>2, <2>3, Widths
<1>3. (Half - 1 + (Nibble - 1) * Half + 1) * (Word \div (Half * Nibble)) - 1 = Word - 1
  <2>1. CASE Nibble = 4
    BY <2>1, Widths, SMT
  <2>2. CASE Nibble = 8
    BY <2>2, Widths, SMT
  <2>3. CASE Nibble = 16
    BY <2>3, Widths, SMT
  <2> QED
    BY <2>1, <2>2, <2>3, Widths
<1>4. Segment(d).from = 0
  <2>1. 0 < Word
    BY Widths, SMT
  <2> QED
    BY <2>1, BaseRead
<1>5. Segment(d).last = Word - 1 /\ Segment(d).code
  BY <1>1, <1>2, <1>3 DEF Segment
<1> QED
  BY <1>4, <1>5

\* An offset that is a word is the one the processor finds in its gate.
LEMMA OffsetRead ==
  ASSUME NEW offset \in Nat, offset < Word
  PROVE  (offset % Half) + (offset \div Half) * Half = offset
  BY Widths, SMT

\* The stubs are at different places, all of them in the address space.
LEMMA StubPlaces ==
  /\ StubNumbers \subseteq 0 .. Int80
  /\ \A s \in StubNumbers : Stub(s) \in Nat /\ Stub(s) < Word
  /\ \A s, t \in StubNumbers : Stub(s) = Stub(t) => s = t
<1>1. StubNumbers \subseteq 0 .. Int80
  BY SMT DEF StubNumbers, Int80
<1>2. Nibble \in {4, 8, 16} /\ FirstStub \in Nat
  BY BootAssumption
<1>3. FirstStub + Nibble * 128 < Word
  BY BootAssumption DEF Int80
<1>4. \A s \in 0 .. 128 : Stub(s) \in Nat /\ Stub(s) < Word
  BY <1>2, <1>3, Widths, SMT DEF Stub
<1>5. \A s, t \in 0 .. 128 : Stub(s) = Stub(t) => s = t
  BY <1>2, SMT DEF Stub
<1> QED
  BY <1>1, <1>4, <1>5 DEF Int80

----------------------------------------------------------------------------
(* The order of boot *)

\* The tables and controllers that the first three steps leave behind.
GdtReady ==
  /\ gdt[1] = gdt_set_gate(0, Word - 1, Segments \cup {"EXECUTABLE"}, Flat)
  /\ gdt[5] = write_tss

FaultsReady ==
  /\ \A v \in 0 .. 31 : idt[v] = init_idt_entry(Stub(v), "TRAP_GATE", TRUE)
  /\ idt[Int80] = init_idt_entry(Stub(Int80), "INT_GATE", TRUE)

IrqsReady ==
  /\ \A v \in 32 .. 47 : idt[v] = init_idt_entry(Stub(v), "INT_GATE", TRUE)
  /\ base = [chip \in {0, 1} |-> IF chip = 0 THEN 32 ELSE 40]

TablesInv ==
  /\ step \in 1 .. 12
  /\ gdtr = IF step > 1 THEN 47 ELSE 0
  /\ idtr = IF step > 2 THEN 2047 ELSE 0
  /\ step > 1 => GdtReady
  /\ step > 2 => FaultsReady
  /\ step > 3 => IrqsReady
  /\ interrupt_flag \in BOOLEAN
  /\ interrupt_flag => step > 9

----------------------------------------------------------------------------
(* What the processor is in the middle of *)

IsFault(number) == number \in 0 .. 31

Entry == [int_no : StubNumbers, due : StubNumbers, at : {"stub", "handler", "halted"},
          flag : BOOLEAN]

\* One of a kind that the tables are ready for.
EntryOK(x) ==
  /\ x \in Entry
  /\ x.int_no = x.due
  /\ IF IsFault(x.int_no) THEN step > 2
     ELSE x.at # "halted" /\ step > 9 /\ (IsIrq(x.int_no) \/ x.int_no = Int80)

\* The processor is in the middle of nothing; of one thing that nothing
\* disturbs but an interrupt a fault's stub; or of two.
Single ==
  interrupt_flag => IsFault(stack[1].int_no) /\ stack[1].at = "stub"

Double ==
  /\ ~interrupt_flag
  /\ \/ IsIrq(stack[1].int_no) /\ IsFault(stack[2].int_no) /\ stack[2].at = "stub"
     \/ IsFault(stack[1].int_no) /\ stack[2].int_no = Int80 /\ stack[2].at = "handler"

NestingInv ==
  /\ stack \in Seq(Entry)
  /\ Len(stack) \in {0, 1, 2}
  /\ \A k \in DOMAIN stack : EntryOK(stack[k])
  /\ Len(stack) = 1 => Single
  /\ Len(stack) = 2 => Double

BootInv == TablesInv /\ NestingInv

----------------------------------------------------------------------------
(* Through a gate *)

\* A gate that was filled leads to the stub of its own number.
LEMMA GateLeads ==
  ASSUME TablesInv, step > 2, NEW v \in StubNumbers, NEW type,
         idt[v] = init_idt_entry(Stub(v), type, TRUE)
  PROVE  Entered(v) = v
<1>1. PICK gate : gate = idt[v]
  OBVIOUS
<1>2. PICK offset : offset = gate.offset_1 + gate.offset_2 * Half
  OBVIOUS
<1>3. PICK segment : segment = Segment(gdt[gate.selector \div 8])
  OBVIOUS
<1>4. PICK found : found = {s \in StubNumbers : Stub(s) = segment.from + offset}
  OBVIOUS
<1>5. /\ gate.offset_1 = Stub(v) % Half /\ gate.offset_2 = Stub(v) \div Half
      /\ gate.selector = 8 /\ gate.enabled
  BY <1>1 DEF init_idt_entry
<1>6. Stub(v) \in Nat /\ Stub(v) < Word /\ v \in 0 .. 128 /\ Word \in Nat
  <2>1. Word \in Nat
    BY Widths, SMT
  <2> QED
    BY <2>1, StubPlaces DEF Int80
<1>7. offset = Stub(v)
  BY <1>2, <1>5, <1>6, OffsetRead
<1>8. step > 1 /\ gdtr = 47 /\ idtr = 2047
  BY SMT DEF TablesInv
<1>9. gdt[gate.selector \div 8] = gdt_set_gate(0, Word - 1, Segments \cup {"EXECUTABLE"}, Flat)
  <2>1. 8 \div 8 = 1
    BY SMT
  <2> QED
    BY <1>5, <1>8, <2>1 DEF TablesInv, GdtReady
<1>10. segment.from = 0 /\ segment.last = Word - 1 /\ segment.code
  <2>1. {"PRESENT", "EXECUTABLE"} \subseteq Segments \cup {"EXECUTABLE"}
    BY DEF Segments
  <2> QED
    BY <1>3, <1>9, <2>1, FlatRead
<1>11. segment.from + offset = Stub(v)
  BY <1>6, <1>7, <1>10, SMT
<1>12. found = {v}
  BY <1>4, <1>11, StubPlaces
<1>13. 8 * v + 7 <= idtr /\ gate.selector + 7 <= gdtr /\ offset <= segment.last
  BY <1>5, <1>6, <1>7, <1>8, <1>10, SMT
<1>14. Entered(v) = IF /\ 8 * v + 7 <= idtr /\ gate.enabled
                       /\ gate.selector + 7 <= gdtr /\ segment.code /\ offset <= segment.last
                       /\ found # {}
                    THEN CHOOSE s \in found : TRUE ELSE -1
  BY <1>1, <1>2, <1>3, <1>4 DEF Entered
<1> QED
  BY <1>5, <1>10, <1>12, <1>13, <1>14

\* So every vector that is used leads where it should, and an interrupt's or a
\* system call's does so with the interrupts off.
LEMMA VectorsLead ==
  ASSUME TablesInv
  PROVE  /\ step > 2 => \A v \in 0 .. 31 : v \in StubNumbers /\ Entered(v) = v
         /\ step > 2 => Entered(Int80) = Int80 /\ idt[Int80].type = "INT_GATE"
         /\ step > 3 => \A v \in 32 .. 47 : /\ v \in StubNumbers /\ Entered(v) = v
                                            /\ idt[v].type = "INT_GATE"
         /\ Int80 \in StubNumbers
<1>1. /\ \A v \in 0 .. 31 : v \in StubNumbers
      /\ \A v \in 32 .. 47 : v \in StubNumbers
      /\ Int80 \in StubNumbers
  BY SMT DEF StubNumbers
<1>2. ASSUME step > 2, NEW v \in 0 .. 31
      PROVE  Entered(v) = v
  BY <1>1, <1>2, GateLeads DEF TablesInv, FaultsReady
<1>3. ASSUME step > 2
      PROVE  Entered(Int80) = Int80 /\ idt[Int80].type = "INT_GATE"
  <2>1. idt[Int80] = init_idt_entry(Stub(Int80), "INT_GATE", TRUE)
    BY <1>3 DEF TablesInv, FaultsReady
  <2>2. idt[Int80].type = "INT_GATE"
    BY <2>1 DEF init_idt_entry
  <2> QED
    BY <1>1, <1>3, <2>1, <2>2, GateLeads
<1>4. ASSUME step > 3, NEW v \in 32 .. 47
      PROVE  Entered(v) = v /\ idt[v].type = "INT_GATE"
  <2>1. idt[v] = init_idt_entry(Stub(v), "INT_GATE", TRUE)
    BY <1>4 DEF TablesInv, IrqsReady
  <2>2. idt[v].type = "INT_GATE" /\ step > 2
    BY <1>4, <2>1, SMT DEF init_idt_entry, TablesInv
  <2> QED
    BY <1>1, <2>1, <2>2, GateLeads
<1> QED
  BY <1>1, <1>2, <1>3, <1>4

----------------------------------------------------------------------------
(* The steps of boot *)

LEMMA OrderFacts ==
  /\ Len(Order) = 11
  /\ \A n \in 1 .. 11 : n \in DOMAIN Order
  /\ Order[1] = "gdt_install" /\ Order[2] = "init_idt" /\ Order[3] = "irq_install"
  /\ Order[4] = "allocate" /\ Order[5] = "switch_page_directory"
  /\ Order[6] = "init_kernal_heap" /\ Order[7] = "find_image"
  /\ Order[8] = "install_timer" /\ Order[9] = "sti" /\ Order[10] = "init_fs"
  /\ Order[11] = "exec_process"
  BY DEF Order

\* What a step of boot may change but for the last line of the routine.
Plain == UNCHANGED <<tables, pics, irq_routines, interrupt_flag, memory>>

\* Each step of boot has its turn.
LEMMA BootCases ==
  ASSUME BootStep, step \in 1 .. 12
  PROVE  /\ stack = <<>> /\ step' = step + 1 /\ UNCHANGED <<timer_ticks, stack>>
         /\ step \in 1 .. 11 /\ Mapped(Order[step])
         /\ \/ step = 1 /\ gdt_install
            \/ step = 2 /\ init_idt
            \/ step = 3 /\ irq_install
            \/ step = 4 /\ allocate
            \/ step = 5 /\ switch_page_directory
            \/ step = 6 /\ init_kernal_heap
            \/ step = 7 /\ Plain
            \/ step = 8 /\ install_timer
            \/ step = 9 /\ sti
            \/ step = 10 /\ Plain
            \/ step = 11 /\ Plain
<1>1. PICK s \in {Order[n] : n \in DOMAIN Order} :
        /\ At(s) /\ Mapped(s)
        /\ CASE s = "gdt_install" -> gdt_install
             [] s = "init_idt" -> init_idt
             [] s = "irq_install" -> irq_install
             [] s = "allocate" -> allocate
             [] s = "switch_page_directory" -> switch_page_directory
             [] s = "init_kernal_heap" -> init_kernal_heap
             [] s = "install_timer" -> install_timer
             [] s = "sti" -> sti
             [] OTHER -> Plain
        /\ step' = step + 1
        /\ UNCHANGED <<timer_ticks, stack>>
  BY DEF BootStep, Plain
<1>2. stack = <<>> /\ step \in 1 .. 11 /\ s = Order[step]
  <2>1. stack = <<>> /\ step <= Len(Order) /\ s = Order[step]
    BY <1>1 DEF At
  <2> QED
    BY <2>1, OrderFacts, SMT
<1>3. step \in {1, 2, 3, 4, 5, 6, 7, 8, 9, 10, 11}
  BY <1>2, SMT
<1>4. CASE step = 1
  BY <1>1, <1>2, <1>4, OrderFacts
<1>5. CASE step = 2
  BY <1>1, <1>2, <1>5, OrderFacts
<1>6. CASE step = 3
  BY <1>1, <1>2, <1>6, OrderFacts
<1>7. CASE step = 4
  BY <1>1, <1>2, <1>7, OrderFacts
<1>8. CASE step = 5
  BY <1>1, <1>2, <1>8, OrderFacts
<1>9. CASE step = 6
  BY <1>1, <1>2, <1>9, OrderFacts
<1>10. CASE step = 7
  BY <1>1, <1>2, <1>10, OrderFacts
<1>11. CASE step = 8
  BY <1>1, <1>2, <1>11, OrderFacts
<1>12. CASE step = 9
  BY <1>1, <1>2, <1>12, OrderFacts
<1>13. CASE step = 10
  BY <1>1, <1>2, <1>13, OrderFacts
<1>14. CASE step = 11
  BY <1>1, <1>2, <1>14, OrderFacts
<1> QED
  BY <1>3, <1>4, <1>5, <1>6, <1>7, <1>8, <1>9, <1>10, <1>11, <1>12, <1>13, <1>14

LEMMA TablesInit == Init => TablesInv
<1> SUFFICES ASSUME Init
             PROVE  TablesInv
  OBVIOUS
<1>1. step = 1 /\ gdtr = 0 /\ idtr = 0 /\ interrupt_flag = FALSE
  BY DEF Init
<1>2. interrupt_flag \in BOOLEAN /\ ~interrupt_flag
  BY <1>1
<1> QED
  BY <1>1, <1>2, SMT DEF TablesInv

LEMMA TablesSame ==
  /\ gdt' = gdt => (GdtReady' <=> GdtReady)
  /\ idt' = idt => (FaultsReady' <=> FaultsReady)
  /\ idt' = idt /\ base' = base => (IrqsReady' <=> IrqsReady)
  BY DEF GdtReady, FaultsReady, IrqsReady

\* An interrupt, a handler or a system call leaves the tables alone; the flag
\* comes on only if it was on before.
LEMMA TablesAlone ==
  ASSUME TablesInv, UNCHANGED <<step, tables, base>>,
         interrupt_flag' \in BOOLEAN, interrupt_flag' => step > 9
  PROVE  TablesInv'
  BY TablesSame DEF TablesInv, tables

LEMMA TablesBoot ==
  ASSUME TablesInv, BootStep
  PROVE  TablesInv'
<1>0. step \in 1 .. 12 /\ interrupt_flag \in BOOLEAN /\ (interrupt_flag => step > 9)
  BY DEF TablesInv
<1>1. CASE step = 1 /\ gdt_install
  <2>1. step' = 2
    BY <1>0, <1>1, BootCases
  <2>2. gdtr' = 47 /\ idtr' = 0 /\ interrupt_flag' \in BOOLEAN /\ ~interrupt_flag'
    <3>1. gdtr' = 8 * 6 - 1 /\ idtr' = idtr /\ interrupt_flag' = interrupt_flag
      BY <1>1 DEF gdt_install, gdt_flush
    <3>2. idtr = 0 /\ ~interrupt_flag
      BY <1>0, <1>1, SMT DEF TablesInv
    <3> QED
      BY <1>0, <3>1, <3>2
  <2>3. GdtReady'
    <3>1. 1 \in 0 .. 5 /\ 5 \in 0 .. 5
      BY SMT
    <3>2. /\ gdt'[1] = gdt_set_gate(0, Word - 1, Segments \cup {"EXECUTABLE"}, Flat)
          /\ gdt'[5] = write_tss
      BY <1>1, <3>1 DEF gdt_install
    <3> QED
      BY <3>2 DEF GdtReady
  <2> QED
    BY <2>1, <2>2, <2>3, SMT DEF TablesInv
<1>2. CASE step = 2 /\ init_idt
  <2>1. step' = 3 /\ idtr' = 2047 /\ UNCHANGED <<gdt, gdtr, interrupt_flag>>
    <3>1. idtr' = 8 * 256 - 1
      BY <1>2 DEF init_idt, asm_idt_load
    <3>2. UNCHANGED <<gdt, gdtr, interrupt_flag>> /\ step' = 3
      BY <1>0, <1>2, BootCases DEF init_idt
    <3> QED
      BY <3>1, <3>2, SMT
  <2>2. FaultsReady'
    <3>1. \A v \in 0 .. 31 : idt'[v] = init_idt_entry(Stub(v), "TRAP_GATE", TRUE)
      <4>1. \A v \in 0 .. 31 : v \in Vectors /\ v # Int80 /\ v \notin 32 .. 254 \ {Int80}
        BY SMT DEF Vectors, Int80
      <4>2. ASSUME NEW v \in 0 .. 31
            PROVE  idt'[v] = init_idt_entry(Stub(v), "TRAP_GATE", TRUE)
        <5> DEFINE exception == init_idt_entry(Stub(v), "TRAP_GATE", TRUE)
                   call == init_idt_entry(Stub(v), SyscallGate, TRUE)
                   disabled == init_idt_entry(0, "INT_GATE", FALSE)
        <5>1. v \in Vectors /\ v # Int80 /\ v \notin 32 .. 254 \ {Int80}
          BY <4>1
        <5>2. idt'[v] = CASE v \in 0 .. 31 -> exception
                          [] v = Int80 -> call
                          [] v \in 32 .. 254 \ {Int80} -> disabled
                          [] OTHER -> idt[v]
          BY <1>2, <5>1 DEF init_idt
        <5> HIDE DEF exception, call, disabled
        <5>3. idt'[v] = exception
          BY <5>1, <5>2
        <5> QED
          BY <5>3 DEF exception
      <4> QED
        BY <4>2
    <3>2. idt'[Int80] = init_idt_entry(Stub(Int80), "INT_GATE", TRUE)
      <4>1. Int80 \in Vectors /\ Int80 \notin 0 .. 31
        BY SMT DEF Int80, Vectors
      <4> QED
        BY <1>2, <4>1 DEF init_idt, SyscallGate
    <3> QED
      BY <3>1, <3>2 DEF FaultsReady
  <2>3. GdtReady' /\ gdtr = 47
    BY <1>2, <2>1, TablesSame, SMT DEF TablesInv
  <2> QED
    BY <1>0, <1>2, <2>1, <2>2, <2>3, SMT DEF TablesInv
<1>3. CASE step = 3 /\ irq_install
  <2>1. step' = 4 /\ UNCHANGED <<gdtr, idtr, interrupt_flag, gdt>>
    BY <1>0, <1>3, BootCases DEF irq_install
  <2>2. \A v \in Vectors : idt'[v] = IF IsIrq(v) THEN init_idt_entry(Stub(v), "INT_GATE", TRUE)
                                     ELSE idt[v]
    BY <1>3 DEF irq_install
  <2>3. /\ \A v \in 0 .. 31 : v \in Vectors /\ ~IsIrq(v)
        /\ \A v \in 32 .. 47 : v \in Vectors /\ IsIrq(v)
        /\ Int80 \in Vectors /\ ~IsIrq(Int80)
    BY SMT DEF Vectors, IsIrq, Int80
  <2>4. base' = [chip \in {0, 1} |-> IF chip = 0 THEN 32 ELSE 40]
    BY <1>3 DEF irq_install, irq_remap
  <2>5. IrqsReady'
    BY <2>2, <2>3, <2>4 DEF IrqsReady
  <2>6. GdtReady' /\ FaultsReady /\ gdtr = 47 /\ idtr = 2047
    BY <1>3, <2>1, TablesSame, SMT DEF TablesInv
  <2>7. FaultsReady'
    BY <2>2, <2>3, <2>6 DEF FaultsReady
  <2> QED
    BY <1>0, <1>3, <2>1, <2>5, <2>6, <2>7, SMT DEF TablesInv
<1>4. CASE step > 3 /\ UNCHANGED <<tables, pics>> /\ interrupt_flag' \in {interrupt_flag, step = 9}
  <2>1. step' = step + 1 /\ step \in 1 .. 11
    BY <1>0, BootCases
  <2>2. interrupt_flag' \in BOOLEAN
    BY <1>0, <1>4
  <2>3. interrupt_flag' => step' > 9
    <3>1. interrupt_flag' => interrupt_flag \/ step = 9
      BY <1>4
    <3> QED
      BY <1>0, <2>1, <3>1, SMT
  <2>4. /\ step' \in 1 .. 12 /\ step > 1 /\ step > 2
        /\ step' > 1 /\ step' > 2 /\ step' > 3
    BY <1>4, <2>1, SMT
  <2>5. GdtReady' /\ FaultsReady' /\ IrqsReady' /\ gdtr = 47 /\ idtr = 2047
    BY <1>4, <2>4, TablesSame DEF TablesInv, tables, pics
  <2> QED
    BY <1>4, <2>2, <2>3, <2>4, <2>5 DEF TablesInv, tables
<1>5. \/ step = 1 /\ gdt_install
      \/ step = 2 /\ init_idt
      \/ step = 3 /\ irq_install
      \/ step > 3 /\ UNCHANGED <<tables, pics>> /\ interrupt_flag' \in {interrupt_flag, step = 9}
  <2>1. CASE step = 4 /\ allocate
    BY <2>1 DEF allocate
  <2>2. CASE step = 5 /\ switch_page_directory
    BY <2>2 DEF switch_page_directory
  <2>3. CASE step = 6 /\ init_kernal_heap
    BY <2>3 DEF init_kernal_heap
  <2>4. CASE step \in {7, 10, 11} /\ Plain
    BY <2>4 DEF Plain
  <2>5. CASE step = 8 /\ install_timer
    BY <2>5 DEF install_timer
  <2>6. CASE step = 9 /\ sti
    <3>1. UNCHANGED <<tables, pics>> /\ interrupt_flag' = TRUE
      BY <2>6 DEF sti
    <3>2. (step = 9) = TRUE /\ step > 3
      BY <2>6
    <3> QED
      BY <3>1, <3>2
  <2> QED
    BY <1>0, <2>1, <2>2, <2>3, <2>4, <2>5, <2>6, BootCases
<1> QED
  BY <1>1, <1>2, <1>3, <1>4, <1>5

----------------------------------------------------------------------------
(* Interrupts, faults and system calls *)

LEMMA Kinds ==
  /\ \A n : ~(IsFault(n) /\ IsIrq(n))
  /\ ~IsFault(Int80) /\ ~IsIrq(Int80)
  /\ \A n \in StubNumbers : n < 32 => IsFault(n)
  /\ \A n : IsFault(n) => Clears(n)
<1>1. /\ \A n : ~(IsFault(n) /\ IsIrq(n))
      /\ ~IsFault(Int80) /\ ~IsIrq(Int80)
  BY SMT DEF IsFault, IsIrq, Int80
<1>2. \A n \in 0 .. 128 : n < 32 => IsFault(n)
  BY SMT DEF IsFault
<1>3. \A n : IsFault(n) => Clears(n)
  BY <1>1 DEF Clears
<1> QED
  BY <1>1, <1>2, <1>3, StubPlaces DEF Int80

\* The stack as a sequence.
LEMMA StackFacts ==
  ASSUME NestingInv
  PROVE  /\ stack = <<>> <=> Len(stack) = 0
         /\ stack # <<>> =>
              /\ Len(stack) \in {1, 2}
              /\ Head(stack) = stack[1]
              /\ 1 \in DOMAIN stack
              /\ stack[1] \in Entry
              /\ Tail(stack) \in Seq(Entry) /\ Len(Tail(stack)) = Len(stack) - 1
              /\ DOMAIN Tail(stack) = 1 .. Len(stack) - 1
              /\ Len(stack) = 2 => 2 \in DOMAIN stack /\ Tail(stack)[1] = stack[2]
<1>1. stack \in Seq(Entry) /\ Len(stack) \in {0, 1, 2}
  BY DEF NestingInv
<1>2. stack = <<>> <=> Len(stack) = 0
  BY <1>1, EmptySeq
<1>3. ASSUME stack # <<>>
      PROVE  /\ Len(stack) \in {1, 2}
             /\ Head(stack) = stack[1]
             /\ 1 \in DOMAIN stack
             /\ stack[1] \in Entry
             /\ Tail(stack) \in Seq(Entry) /\ Len(Tail(stack)) = Len(stack) - 1
             /\ DOMAIN Tail(stack) = 1 .. Len(stack) - 1
             /\ Len(stack) = 2 => 2 \in DOMAIN stack /\ Tail(stack)[1] = stack[2]
  <2>1. Len(stack) \in {1, 2}
    BY <1>1, <1>2, <1>3
  <2>2. /\ Tail(stack) \in Seq(Entry)
        /\ Len(Tail(stack)) = Len(stack) - 1
        /\ \A i \in 1 .. Len(Tail(stack)) : Tail(stack)[i] = stack[i + 1]
    BY <1>1, <1>3, HeadTailProperties
  <2>3. DOMAIN stack = 1 .. Len(stack) /\ DOMAIN Tail(stack) = 1 .. Len(Tail(stack))
    BY <1>1, <2>2, LenProperties
  <2>4. 1 \in DOMAIN stack /\ (Len(stack) = 2 => 2 \in DOMAIN stack)
    BY <2>1, <2>3, SMT
  <2>5. stack[1] \in Entry /\ Head(stack) = stack[1]
    BY <1>1, <2>3, <2>4, SMT
  <2>6. Len(stack) = 2 => Tail(stack)[1] = stack[2]
    BY <2>2, SMT
  <2> QED
    BY <2>1, <2>2, <2>3, <2>4, <2>5, <2>6
<1> QED
  BY <1>2, <1>3

\* The processor goes through a vector.
LEMMA EnterNests ==
  ASSUME NestingInv, Len(stack) \in {0, 1}, UNCHANGED step, interrupt_flag \in BOOLEAN,
         NEW v \in StubNumbers, Enter(v, v), Entered(v) = v,
         step > 2, ~IsFault(v) => step > 9 /\ (IsIrq(v) \/ v = Int80) /\ ~interrupt_flag',
         Len(stack) = 1 =>
           /\ ~interrupt_flag'
           /\ \/ IsIrq(v) /\ IsFault(stack[1].int_no) /\ stack[1].at = "stub"
              \/ IsFault(v) /\ stack[1].int_no = Int80 /\ stack[1].at = "handler"
  PROVE  NestingInv'
<1>1. PICK x : x = [int_no |-> v, due |-> v, at |-> "stub", flag |-> interrupt_flag]
  OBVIOUS
<1>2. x \in Entry /\ x.int_no = v /\ x.at = "stub" /\ x.due = v
  BY <1>1 DEF Entry
<1>3. stack' = <<x>> \o stack
  BY <1>1 DEF Enter
<1>4. stack \in Seq(Entry)
  BY DEF NestingInv
<1>5. /\ stack' \in Seq(Entry) /\ Len(stack') = Len(stack) + 1
      /\ stack'[1] = x
      /\ \A k \in DOMAIN stack' : k = 1 \/ (k = 2 /\ 1 \in DOMAIN stack /\ stack'[k] = stack[1])
      /\ Len(stack) = 1 => stack'[2] = stack[1]
  BY <1>2, <1>3, <1>4, SMT
<1>6. EntryOK(x)'
  BY <1>2 DEF EntryOK
<1>7. \A y : EntryOK(y) => EntryOK(y)'
  BY DEF EntryOK
<1>8. \A k \in DOMAIN stack' : EntryOK(stack[k])'
  BY <1>5, <1>6, <1>7 DEF NestingInv
<1>9. CASE Len(stack) = 0
  <2>1. Len(stack') = 1
    BY <1>5, <1>9
  <2>2. Single'
    BY <1>2, <1>5 DEF Single, IsFault
  <2> QED
    BY <1>5, <1>8, <2>1, <2>2 DEF NestingInv
<1>10. CASE Len(stack) = 1
  <2>1. Len(stack') = 2 /\ Len(stack') # 1 /\ Len(stack') \in {0, 1, 2}
    BY <1>5, <1>10
  <2>2. Double'
    BY <1>2, <1>5, <1>10 DEF Double, IsFault, IsIrq
  <2> QED
    BY <1>5, <1>8, <2>1, <2>2 DEF NestingInv
<1> QED
  BY <1>9, <1>10

\* The innermost goes on to its next place.
LEMMA MovesOn ==
  ASSUME NestingInv, stack # <<>>, NEW at \in {"handler", "halted"},
         stack' = [stack EXCEPT ![1].at = at], UNCHANGED step,
         at = "halted" => IsFault(stack[1].int_no),
         ~interrupt_flag'
  PROVE  NestingInv'
<1>1. /\ stack \in Seq(Entry) /\ Len(stack) \in {1, 2} /\ stack[1] \in Entry
      /\ EntryOK(stack[1]) /\ 1 \in DOMAIN stack
  BY StackFacts DEF NestingInv
<1>2. PICK x : x = [stack[1] EXCEPT !.at = at]
  OBVIOUS
<1>3. x \in Entry /\ x.int_no = stack[1].int_no /\ x.due = stack[1].due /\ x.at = at
  BY <1>1, <1>2, SMT DEF Entry
<1>4. /\ stack' \in Seq(Entry) /\ Len(stack') = Len(stack) /\ stack'[1] = x
      /\ \A k \in DOMAIN stack' : k \in DOMAIN stack /\ (k = 1 \/ stack'[k] = stack[k])
      /\ Len(stack) = 2 => stack'[2] = stack[2]
  BY <1>1, <1>2, <1>3, SMT
<1>5. EntryOK(x)'
  BY <1>1, <1>3 DEF EntryOK
<1>6. \A y : EntryOK(y) => EntryOK(y)'
  BY DEF EntryOK
<1>7. \A k \in DOMAIN stack' : EntryOK(stack[k])'
  BY <1>4, <1>5, <1>6 DEF NestingInv
<1>8. Single'
  BY DEF Single
<1>9. Len(stack) = 2 => Double'
  BY <1>3, <1>4 DEF NestingInv, Double, IsFault, IsIrq
<1> QED
  BY <1>1, <1>4, <1>7, <1>8, <1>9 DEF NestingInv

\* The innermost is done: what is left is nothing, or a fault's stub.
LEMMA ComesBack ==
  ASSUME NestingInv, stack # <<>>, stack' = Tail(stack), UNCHANGED step,
         ~IsFault(stack[1].int_no)
  PROVE  NestingInv'
<1>1. \A y : EntryOK(y) => EntryOK(y)'
  BY DEF EntryOK
<1>2. stack' \in Seq(Entry) /\ Len(stack) \in {1, 2} /\ Len(stack') = Len(stack) - 1
      /\ DOMAIN stack' = 1 .. Len(stack) - 1
  BY StackFacts
<1>3. CASE Len(stack) = 1
  <2>1. Len(stack') = 0 /\ DOMAIN stack' = {}
    BY <1>2, <1>3, SMT
  <2> QED
    BY <1>2, <2>1 DEF NestingInv
<1>4. CASE Len(stack) = 2
  <2>1. Len(stack') = 1 /\ DOMAIN stack' = {1} /\ stack'[1] = stack[2] /\ 2 \in DOMAIN stack
    <3>1. Len(stack') = 1 /\ DOMAIN stack' = {1}
      BY <1>2, <1>4, SMT
    <3> QED
      BY <1>4, <3>1, StackFacts
  <2>2. EntryOK(stack[2]) /\ IsFault(stack[2].int_no) /\ stack[2].at = "stub"
    BY <1>4, <2>1 DEF NestingInv, Double
  <2>3. Single'
    BY <2>1, <2>2 DEF Single, IsFault
  <2>4. \A k \in DOMAIN stack' : EntryOK(stack[k])'
    BY <1>1, <2>1, <2>2
  <2>5. Len(stack') \in {0, 1, 2} /\ Len(stack') # 2
    BY <2>1
  <2> QED
    BY <1>2, <2>3, <2>4, <2>5 DEF NestingInv
<1> QED
  BY <1>2, <1>3, <1>4

----------------------------------------------------------------------------
(* The invariant of every step *)

LEMMA NestingKept ==
  ASSUME NestingInv, UNCHANGED <<stack, interrupt_flag, step>>
  PROVE  NestingInv'
  BY DEF NestingInv, EntryOK, IsFault, IsIrq, Single, Double

LEMMA BootInit == Init => BootInv
<1>1. Init => NestingInv
  <2> SUFFICES ASSUME Init
               PROVE  NestingInv
    OBVIOUS
  <2>1. stack = <<>>
    BY DEF Init
  <2>2. stack \in Seq(Entry) /\ Len(stack) = 0 /\ DOMAIN stack = {}
    BY <2>1, EmptySeq
  <2> QED
    BY <2>2 DEF NestingInv
<1> QED
  BY <1>1, TablesInit DEF BootInv

\* What is known when the innermost is at some place.
LEMMA InnermostFacts ==
  ASSUME BootInv, stack # <<>>
  PROVE  /\ stack \in Seq(Entry) /\ Len(stack) \in {1, 2} /\ Head(stack) = stack[1]
         /\ EntryOK(stack[1])
         /\ stack[1].int_no \in StubNumbers
         /\ stack[1].flag \in BOOLEAN
         /\ interrupt_flag \in BOOLEAN
         /\ interrupt_flag => IsFault(stack[1].int_no) /\ stack[1].at = "stub" /\ Len(stack) = 1
<1>1. /\ stack \in Seq(Entry) /\ Len(stack) \in {1, 2} /\ Head(stack) = stack[1]
      /\ 1 \in DOMAIN stack
  BY StackFacts DEF BootInv, NestingInv
<1>2. EntryOK(stack[1])
  BY <1>1 DEF BootInv, NestingInv
<1>3. stack[1].int_no \in StubNumbers /\ stack[1].flag \in BOOLEAN
  BY <1>2 DEF EntryOK, Entry
<1>4. interrupt_flag => Len(stack) # 2
  BY DEF BootInv, NestingInv, Double
<1> QED
  BY <1>1, <1>2, <1>3, <1>4 DEF BootInv, NestingInv, TablesInv, Single

\* The vector that a controller answers with, and what it is for.
LEMMA DeliverEnters ==
  ASSUME BootInv, NEW line \in Lines, NEW spurious \in BOOLEAN, Deliver(line, spurious)
  PROVE  /\ interrupt_flag
         /\ \E v \in 32 .. 47 : Enter(v, v)
         /\ UNCHANGED <<step, tables, base, timer_ticks>>
<1>1. interrupt_flag /\ step > 3 /\ step > 9
  BY SMT DEF Deliver, BootInv, TablesInv
<1>2. base = [chip \in {0, 1} |-> IF chip = 0 THEN 32 ELSE 40]
  BY <1>1 DEF BootInv, TablesInv, IrqsReady
<1>3. PICK last : /\ last = IF spurious THEN 7 ELSE line % 8
                  /\ Enter(base[Chip(line)] + last, 32 + 8 * Chip(line) + last)
  BY DEF Deliver
<1>4. line \in 0 .. 15
  BY BootAssumption
<1>5. Chip(line) \in {0, 1} /\ last \in 0 .. 7
  BY <1>3, <1>4, SMT DEF Chip
<1>6. base[Chip(line)] = 32 + 8 * Chip(line)
  BY <1>2, <1>5, SMT
<1>7. 32 + 8 * Chip(line) + last \in 32 .. 47
  BY <1>5, SMT
<1> QED
  BY <1>1, <1>3, <1>6, <1>7 DEF Deliver

LEMMA BootInvStep == BootInv /\ [Next]_vars => BootInv'
<1> SUFFICES ASSUME BootInv, [Next]_vars
             PROVE  BootInv'
  OBVIOUS
<1> USE DEF BootInv
<1>0. interrupt_flag \in BOOLEAN /\ (interrupt_flag => step > 9) /\ step \in 1 .. 12
  BY DEF TablesInv
<1>1. CASE UNCHANGED vars
  BY <1>0, <1>1, TablesAlone, NestingKept DEF vars, tables, pics
<1>2. ASSUME NEW line \in Lines, Raise(line)
      PROVE  BootInv'
  BY <1>0, <1>2, TablesAlone, NestingKept DEF Raise, tables
<1>3. ASSUME NEW line \in Lines, NEW spurious \in BOOLEAN, Deliver(line, spurious)
      PROVE  BootInv'
  <2>1. interrupt_flag /\ UNCHANGED <<step, tables, base>> /\ step > 2 /\ step > 3 /\ step > 9
    BY <1>0, <1>3, DeliverEnters, SMT
  <2>2. PICK v \in 32 .. 47 : Enter(v, v)
    BY <1>3, DeliverEnters
  <2>3. v \in StubNumbers /\ Entered(v) = v /\ idt[v].type = "INT_GATE" /\ IsIrq(v)
    BY <2>1, VectorsLead DEF IsIrq
  <2>4. interrupt_flag' = FALSE
    BY <2>2, <2>3 DEF Enter
  <2>5. Len(stack) \in {0, 1} /\ (Len(stack) = 1 => IsFault(stack[1].int_no) /\ stack[1].at = "stub")
    BY <2>1 DEF NestingInv, Single, Double
  <2>6. NestingInv'
    BY <1>0, <2>1, <2>2, <2>3, <2>4, <2>5, EnterNests
  <2> QED
    BY <2>1, <2>4, <2>6, TablesAlone
<1>4. CASE EnterHandler
  <2>1. /\ stack # <<>> /\ Number \in StubNumbers /\ Number = stack[1].int_no
        /\ UNCHANGED <<step, tables, base>>
        /\ interrupt_flag' = (interrupt_flag /\ ~Clears(Number))
        /\ stack' = [stack EXCEPT ![1].at = "handler"]
    BY <1>4, InnermostFacts DEF EnterHandler, In, Number, pics
  <2>2. ~interrupt_flag'
    <3>1. interrupt_flag => IsFault(Number)
      BY <2>1, InnermostFacts
    <3>2. IsFault(Number) => Clears(Number)
      BY Kinds
    <3> QED
      BY <2>1, <3>1, <3>2
  <2>3. interrupt_flag' \in BOOLEAN
    BY <2>1
  <2> QED
    BY <2>1, <2>2, <2>3, TablesAlone, MovesOn
<1>5. CASE irq_handler
  <2>1. /\ stack # <<>> /\ IsIrq(stack[1].int_no)
        /\ UNCHANGED <<step, tables, base>>
        /\ interrupt_flag' = stack[1].flag /\ stack' = Tail(stack)
    BY <1>5, InnermostFacts DEF irq_handler, In, Number, Iret
  <2>2. ~IsFault(stack[1].int_no)
    BY <2>1, Kinds
  <2>3. interrupt_flag' \in BOOLEAN /\ step > 9
    BY <2>1, <2>2, InnermostFacts DEF EntryOK
  <2> QED
    BY <2>1, <2>2, <2>3, TablesAlone, ComesBack
<1>6. CASE cpu_fault_handler
  <2>1. /\ stack # <<>> /\ stack[1].at = "handler" /\ stack[1].int_no < 32
        /\ UNCHANGED <<step, tables, base, interrupt_flag>>
        /\ stack' = [stack EXCEPT ![1].at = "halted"]
    BY <1>6, InnermostFacts DEF cpu_fault_handler, In, Number, pics
  <2>2. IsFault(stack[1].int_no)
    BY <2>1, InnermostFacts, Kinds
  <2>3. ~interrupt_flag
    BY <2>1, InnermostFacts
  <2> QED
    BY <1>0, <2>1, <2>2, <2>3, TablesAlone, MovesOn
<1>7. CASE SyscallReturns
  <2>1. /\ stack # <<>> /\ stack[1].int_no = Int80
        /\ UNCHANGED <<step, tables, base>>
        /\ interrupt_flag' = stack[1].flag /\ stack' = Tail(stack)
    BY <1>7, InnermostFacts DEF SyscallReturns, In, Number, Iret, pics
  <2>2. ~IsFault(stack[1].int_no)
    BY <2>1, Kinds
  <2>3. interrupt_flag' \in BOOLEAN /\ step > 9
    BY <2>1, <2>2, InnermostFacts DEF EntryOK
  <2> QED
    BY <2>1, <2>2, <2>3, TablesAlone, ComesBack
<1>8. CASE BootStep
  <2>1. stack = <<>> /\ stack' = stack
    BY <1>0, <1>8, BootCases
  <2>2. stack' \in Seq(Entry) /\ Len(stack') = 0 /\ DOMAIN stack' = {}
    BY <2>1, EmptySeq
  <2>3. NestingInv'
    BY <2>2 DEF NestingInv
  <2> QED
    BY <1>8, <2>3, TablesBoot
<1>9. ASSUME NEW n \in Traps \cup {PageFault}, Exception(n)
      PROVE  BootInv'
  <2>1. n \in 0 .. 31
    BY BootAssumption, SMT DEF PageFault
  <2>2. step > 2
    BY <1>0, <1>9, SMT DEF Exception, TablesInv
  <2>3. n \in StubNumbers /\ Entered(n) = n /\ IsFault(n)
    BY <2>1, <2>2, VectorsLead DEF IsFault
  <2>4. Enter(n, n) /\ UNCHANGED <<step, tables, base>>
    BY <1>9 DEF Exception, pics
  <2>5. interrupt_flag' \in BOOLEAN /\ (interrupt_flag' => interrupt_flag)
    BY <1>0, <2>4 DEF Enter
  <2>6. stack = <<>> \/ (stack # <<>> /\ stack[1].at = "handler" /\ stack[1].int_no = Int80)
    BY <1>9, InnermostFacts DEF Exception, InThread, In, Number, At
  <2>7. /\ Len(stack) \in {0, 1}
        /\ Len(stack) = 1 => ~interrupt_flag /\ stack[1].int_no = Int80 /\ stack[1].at = "handler"
    <3>1. CASE stack = <<>>
      BY <3>1, StackFacts
    <3>2. CASE stack # <<>> /\ stack[1].at = "handler" /\ stack[1].int_no = Int80
      <4>1. Len(stack) \in {1, 2} /\ ~interrupt_flag
        BY <3>2, InnermostFacts, Kinds
      <4>2. Len(stack) # 2
        BY <3>2, Kinds DEF NestingInv, Double
      <4> QED
        BY <3>2, <4>1, <4>2
    <3> QED
      BY <2>6, <3>1, <3>2
  <2>8. NestingInv'
    BY <1>0, <2>2, <2>3, <2>4, <2>5, <2>7, EnterNests
  <2> QED
    BY <1>0, <2>4, <2>5, <2>8, TablesAlone
<1>10. CASE Syscall
  <2>1. stack = <<>> /\ step > 11 /\ Enter(Int80, Int80) /\ UNCHANGED <<step, tables, base>>
    BY <1>10, OrderFacts DEF Syscall, Running, pics
  <2>2. step > 2 /\ step > 9
    BY <1>0, <2>1, SMT
  <2>3. Int80 \in StubNumbers /\ Entered(Int80) = Int80 /\ idt[Int80].type = "INT_GATE"
    BY <2>2, VectorsLead
  <2>4. interrupt_flag' = FALSE
    BY <2>1, <2>3 DEF Enter
  <2>5. Len(stack) = 0
    BY <2>1, SMT
  <2>6. NestingInv'
    BY <1>0, <2>1, <2>2, <2>3, <2>4, <2>5, EnterNests
  <2> QED
    BY <2>1, <2>4, <2>6, TablesAlone
<1> QED
  BY <1>1, <1>2, <1>3, <1>4, <1>5, <1>6, <1>7, <1>8, <1>9, <1>10 DEF Next, Kernel

\* The tables are complete before anything goes through them, and the processor
\* is never in the middle of more than two things.
THEOREM BootIsKept == Spec => []BootInv
<1>1. Init => BootInv
  BY BootInit
<1>2. BootInv /\ [Next]_vars => BootInv'
  BY BootInvStep
<1> QED
  BY <1>1, <1>2, PTL DEF Spec

\* An interrupt, a fault or a system call gets to the stub with its own number,
\* wherever the stubs have been linked to, and the task register's descriptor
\* leads to the TSS, wherever that is.
THEOREM AllLedToTheirStubs == Spec => []LedToItsStub
<1>1. BootInv => LedToItsStub
  <2> SUFFICES ASSUME BootInv
               PROVE  LedToItsStub
    OBVIOUS
  <2>1. \A k \in DOMAIN stack : stack[k].int_no = stack[k].due
    BY DEF BootInv, NestingInv, EntryOK
  <2>2. ASSUME gdtr # 0
        PROVE  Segment(gdt[5]).from = TssAddress
    <3>1. gdt[5] = write_tss
      BY <2>2 DEF BootInv, TablesInv, GdtReady
    <3>2. TssAddress \in Nat /\ TssAddress < Word
      BY BootAssumption, Widths, SMT
    <3> QED
      BY <3>1, <3>2, BaseRead DEF write_tss
  <2> QED
    BY <2>1, <2>2 DEF LedToItsStub
<1> QED
  BY <1>1, BootIsKept, PTL

\* System calls and the handlers of interrupts are not interrupted, whatever
\* lines are raised at whatever instant.
THEOREM NoneDisturbed == Spec => []SyscallsUndisturbed
<1>1. BootInv => SyscallsUndisturbed
  <2> SUFFICES ASSUME BootInv, NEW k \in DOMAIN stack, NEW l \in DOMAIN stack,
                      k < l, IsIrq(stack[k].int_no)
               PROVE  stack[l].int_no < 32 /\ stack[l].at = "stub"
    BY DEF SyscallsUndisturbed
  <2>1. NestingInv /\ stack \in Seq(Entry) /\ Len(stack) \in {0, 1, 2}
    BY DEF BootInv, NestingInv
  <2>2. DOMAIN stack = 1 .. Len(stack)
    BY <2>1, LenProperties
  <2>3. Len(stack) = 2 /\ k = 1 /\ l = 2
    BY <2>1, <2>2, SMT
  <2>4. IsFault(stack[2].int_no) /\ stack[2].at = "stub"
    BY <2>1, <2>3, Kinds DEF NestingInv, Double
  <2> QED
    BY <2>3, <2>4, SMT DEF IsFault
<1> QED
  BY <1>1, BootIsKept, PTL

\* Nothing leaves the loop that a fault's handler ends in, neither a step of
\* boot nor an interrupt, which finds the flag off.
THEOREM HaltsForGood == Spec => HaltIsFinal
<1>1. BootInv /\ [Next]_vars => [In("halted") => UNCHANGED <<step, stack, timer_ticks>>]_vars
  <2> SUFFICES ASSUME BootInv, Next, In("halted")
               PROVE  UNCHANGED <<step, stack, timer_ticks>>
    OBVIOUS
  <2>1. stack # <<>> /\ Head(stack).at = "halted" /\ ~interrupt_flag
    BY InnermostFacts DEF In
  <2>2. ~In("stub") /\ ~In("handler")
    BY <2>1 DEF In
  <2>3. ~EnterHandler /\ ~irq_handler /\ ~cpu_fault_handler /\ ~SyscallReturns
    BY <2>2 DEF EnterHandler, irq_handler, cpu_fault_handler, SyscallReturns
  <2>4. ~BootStep /\ ~Syscall
    BY <2>1 DEF BootStep, Syscall, At, Running
  <2>5. \A n : ~Exception(n)
    BY <2>1, <2>2 DEF Exception, At, InThread
  <2>6. \A line, spurious : ~Deliver(line, spurious)
    BY <2>1 DEF Deliver
  <2>7. \A line : Raise(line) => UNCHANGED <<step, stack, timer_ticks>>
    BY DEF Raise
  <2> QED
    BY <2>3, <2>4, <2>5, <2>6, <2>7 DEF Next, Kernel
<1> QED
  BY <1>1, BootIsKept, PTL DEF Spec, HaltIsFinal

----------------------------------------------------------------------------
(* Memory *)

Frames == Placed(FALSE, 2 * MB)
ForkPage == Placed(TRUE, Frames + 512)

\* The only memory that boot takes.
Taken ==
  {[by |-> "frames", from |-> Frames, to |-> Frames + 4 * 512],
   [by |-> "directory", from |-> ForkPage, to |-> ForkPage + 8196],
   [by |-> "heap", from |-> 4 * MB * 1, to |-> 4 * MB * (1 + 1)]}

\* What the directory maps once the kernel has made it.
KernelMap == [p \in {KernelPage, HeapPage} |-> IF p = KernelPage THEN 0 ELSE 1]

MappingInv ==
  /\ directory = IF step > 5 THEN KernelMap
                 ELSE [p \in KernelPage .. KernelPage + 3 |-> p - KernelPage]
  /\ step > 4 => kernel_directory = KernelMap

NoPageFault == image \in 0 .. 3 => \A k \in DOMAIN stack : stack[k].due # PageFault

MemoryInv ==
  /\ MappingInv
  /\ used \subseteq Taken
  /\ NoPageFault
  /\ image \in 0 .. 15

\* Where boot's allocations are.
LEMMA Pages ==
  /\ KernelPage \in Nat /\ HeapPage \in Nat /\ KernelPage # HeapPage
  /\ KernelPage \in KernelPage .. KernelPage + 3
  /\ \A i \in 0 .. 3 : KernelPage + (i \div 4) = KernelPage
  BY SMT DEF KernelPage, HeapPage

LEMMA Places == Frames = 2 * 1048576 /\ ForkPage = 2 * 1048576 + 4096
<1>1. Frames = 2 * 1048576
  BY SMT DEF Frames, Placed, MB
<1> QED
  BY <1>1, SMT DEF ForkPage, Placed

\* No two of them overlap, nor does one with a ramdisk outside these megabytes.
LEMMA Apart ==
  ASSUME NEW u \in Taken
  PROVE  /\ \A v \in Taken : u # v => u.to <= v.from \/ v.to <= u.from
         /\ \A i \in 0 .. 15 :
              u.to <= i * MB \/ (i + 1) * MB <= u.from \/ i \in {2} \cup 4 .. 7
<1> DEFINE frames == [by |-> "frames", from |-> Frames, to |-> Frames + 4 * 512]
           directory_ == [by |-> "directory", from |-> ForkPage, to |-> ForkPage + 8196]
           heap == [by |-> "heap", from |-> 4 * MB * 1, to |-> 4 * MB * (1 + 1)]
<1>1. /\ frames.to <= directory_.from
      /\ frames.to <= heap.from
      /\ directory_.to <= heap.from
  BY Places, SMT DEF MB
<1>2. \A i \in 0 .. 15 :
        frames.to <= i * MB \/ (i + 1) * MB <= frames.from \/ i \in {2} \cup 4 .. 7
  BY Places, SMT DEF MB
<1>3. \A i \in 0 .. 15 :
        directory_.to <= i * MB \/ (i + 1) * MB <= directory_.from \/ i \in {2} \cup 4 .. 7
  BY Places, SMT DEF MB
<1>4. \A i \in 0 .. 15 :
        heap.to <= i * MB \/ (i + 1) * MB <= heap.from \/ i \in {2} \cup 4 .. 7
  BY SMT DEF MB
<1>5. Taken = {frames, directory_, heap}
  BY DEF Taken
<1> HIDE DEF frames, directory_, heap
<1> QED
  BY <1>1, <1>2, <1>3, <1>4, <1>5

\* A step of boot that has its turn finds what it touches mapped, if the
\* ramdisk is within the first four megabytes.
LEMMA AlwaysMapped ==
  ASSUME MappingInv, NEW n \in 1 .. 11, step = n, image \in 0 .. 3
  PROVE  Mapped(Order[n])
<1>1. KernelPage \in DOMAIN directory
  <2>1. CASE step > 5
    BY <2>1 DEF MappingInv, KernelMap
  <2>2. CASE ~(step > 5)
    BY <2>2, Pages DEF MappingInv
  <2> QED
    BY <2>1, <2>2
<1>2. step > 5 => HeapPage \in DOMAIN directory
  BY DEF MappingInv, KernelMap
<1>3. CASE n = 6
  <2>1. step > 5 /\ Order[n] = "init_kernal_heap"
    BY <1>3, OrderFacts, SMT
  <2> QED
    BY <1>2, <2>1 DEF Mapped, Touched
<1>4. CASE n = 10
  <2>1. step > 5 /\ Order[n] = "init_fs"
    BY <1>4, OrderFacts, SMT
  <2>2. Touched(Order[n]) = {HeapPage, KernelPage + image \div 4}
    BY <2>1 DEF Touched
  <2>3. KernelPage + image \div 4 = KernelPage
    BY Pages
  <2> QED
    BY <1>1, <1>2, <2>1, <2>2, <2>3 DEF Mapped
<1>5. CASE n \notin {6, 10}
  <2>1. Order[n] # "init_kernal_heap" /\ Order[n] # "init_fs"
    <3>1. n \in {1, 2, 3, 4, 5, 7, 8, 9, 11}
      BY <1>5, SMT
    <3> QED
      BY <3>1, OrderFacts
  <2>2. Touched(Order[n]) = {KernelPage}
    BY <2>1 DEF Touched
  <2> QED
    BY <1>1, <2>2 DEF Mapped
<1> QED
  BY <1>3, <1>4, <1>5

LEMMA MemoryInit == Init => MemoryInv
<1> SUFFICES ASSUME Init
             PROVE  MemoryInv
  OBVIOUS
<1>1. step = 1 /\ stack = <<>> /\ used = {}
      /\ directory = [p \in KernelPage .. KernelPage + 3 |-> p - KernelPage]
  BY DEF Init
<1>2. ~(step > 5) /\ ~(step > 4)
  BY <1>1, SMT
<1>3. DOMAIN stack = {}
  BY <1>1
<1>4. image \in 0 .. 15
  <2>1. image \in ImageBlocks
    BY DEF Init
  <2>2. image \in 1 .. 15
    BY <2>1, BootAssumption
  <2> QED
    BY <2>2, SMT
<1> QED
  BY <1>1, <1>2, <1>3, <1>4 DEF MemoryInv, MappingInv, NoPageFault

LEMMA MappingSame ==
  ASSUME MappingInv, UNCHANGED <<step, directory, kernel_directory>>
  PROVE  MappingInv'
  BY DEF MappingInv

LEMMA MappingBoot ==
  ASSUME MappingInv, BootStep, step \in 1 .. 12
  PROVE  MappingInv'
<1>1. step' = step + 1 /\ step \in 1 .. 11
  BY BootCases
<1>2. CASE step = 4 /\ allocate
  <2>1. kernel_directory' = KernelMap /\ directory' = directory
    BY <1>2 DEF allocate, KernelMap
  <2>2. ~(step > 5) /\ ~(step' > 5)
    BY <1>1, <1>2, SMT
  <2> QED
    BY <2>1, <2>2 DEF MappingInv, KernelMap
<1>3. CASE step = 5 /\ switch_page_directory
  <2>1. directory' = kernel_directory /\ kernel_directory' = kernel_directory
    BY <1>3 DEF switch_page_directory
  <2>2. step > 4 /\ step' > 4 /\ step' > 5
    BY <1>1, <1>3, SMT
  <2> QED
    BY <2>1, <2>2 DEF MappingInv, KernelMap
<1>4. CASE step \notin {4, 5} /\ UNCHANGED <<directory, kernel_directory>>
  <2>1. (step' > 5 <=> step > 5) /\ (step' > 4 <=> step > 4)
    BY <1>1, <1>4, SMT
  <2> QED
    BY <1>4, <2>1 DEF MappingInv, KernelMap
<1>5. \/ step = 4 /\ allocate
      \/ step = 5 /\ switch_page_directory
      \/ step \notin {4, 5} /\ UNCHANGED <<directory, kernel_directory>>
  <2>1. CASE step = 1 /\ gdt_install
    BY <2>1 DEF gdt_install, memory
  <2>2. CASE step = 2 /\ init_idt
    BY <2>2 DEF init_idt, memory
  <2>3. CASE step = 3 /\ irq_install
    BY <2>3 DEF irq_install, memory
  <2>4. CASE step = 6 /\ init_kernal_heap
    BY <2>4 DEF init_kernal_heap
  <2>5. CASE step \in {7, 10, 11} /\ Plain
    BY <2>5 DEF Plain, memory
  <2>6. CASE step = 8 /\ install_timer
    BY <2>6 DEF install_timer, memory
  <2>7. CASE step = 9 /\ sti
    BY <2>7 DEF sti, memory
  <2> QED
    BY <2>1, <2>2, <2>3, <2>4, <2>5, <2>6, <2>7, BootCases
<1> QED
  BY <1>2, <1>3, <1>4, <1>5

\* Boot takes the two allocations and the heap, and leaves the ramdisk be.
LEMMA UsedBoot ==
  ASSUME MappingInv, BootStep, step \in 1 .. 12, used \subseteq Taken
  PROVE  used' \subseteq Taken /\ image' = image
<1>1. CASE step = 4 /\ allocate
  <2>1. /\ placement' = ForkPage + 8196 /\ image' = image
        /\ used' = used \cup {[by |-> "frames", from |-> Frames, to |-> Frames + 4 * 512],
                              [by |-> "directory", from |-> ForkPage, to |-> placement']}
    BY <1>1 DEF allocate, Frames, ForkPage
  <2> QED
    BY <2>1 DEF Taken
<1>2. CASE step = 6 /\ init_kernal_heap
  <2>1. step > 5
    BY <1>2, SMT
  <2>2. directory[HeapPage] = 1
    BY <2>1, Pages DEF MappingInv, KernelMap
  <2>3. /\ used' = used \cup {[by |-> "heap", from |-> 4 * MB * directory[HeapPage],
                               to |-> 4 * MB * (directory[HeapPage] + 1)]}
        /\ image' = image
    BY <1>2 DEF init_kernal_heap
  <2> QED
    BY <2>2, <2>3 DEF Taken
<1>3. CASE UNCHANGED <<used, image>>
  BY <1>3
<1>4. \/ step = 4 /\ allocate
      \/ step = 6 /\ init_kernal_heap
      \/ UNCHANGED <<used, image>>
  <2>1. CASE step = 1 /\ gdt_install
    BY <2>1 DEF gdt_install, memory
  <2>2. CASE step = 2 /\ init_idt
    BY <2>2 DEF init_idt, memory
  <2>3. CASE step = 3 /\ irq_install
    BY <2>3 DEF irq_install, memory
  <2>4. CASE step = 5 /\ switch_page_directory
    BY <2>4 DEF switch_page_directory
  <2>5. CASE step \in {7, 10, 11} /\ Plain
    BY <2>5 DEF Plain, memory
  <2>6. CASE step = 8 /\ install_timer
    BY <2>6 DEF install_timer, memory
  <2>7. CASE step = 9 /\ sti
    BY <2>7 DEF sti, memory
  <2> QED
    BY <2>1, <2>2, <2>3, <2>4, <2>5, <2>6, <2>7, BootCases
<1> QED
  BY <1>1, <1>2, <1>3, <1>4

\* The processor goes through the vector of page faults for nothing else.
LEMMA NoneEnters ==
  ASSUME NestingInv, NoPageFault, image' = image,
         NEW vector, NEW due, Enter(vector, due), due # PageFault
  PROVE  NoPageFault'
<1>1. stack \in Seq(Entry)
  BY DEF NestingInv
<1>2. PICK x : x = [int_no |-> Entered(vector), due |-> due, at |-> "stub",
                    flag |-> interrupt_flag]
  OBVIOUS
<1>3. stack' = <<x>> \o stack /\ x.due # PageFault
  BY <1>2 DEF Enter
<1>4. \A k \in DOMAIN (<<x>> \o stack) :
        (<<x>> \o stack)[k] = x \/ \E l \in DOMAIN stack : (<<x>> \o stack)[k] = stack[l]
  <2>1. stack \in Seq(Entry \cup {x}) /\ <<x>> \in Seq(Entry \cup {x})
    BY <1>1, SMT
  <2> QED
    BY <2>1, SMT
<1> QED
  BY <1>3, <1>4 DEF NoPageFault

\* A handler goes on or comes back.
LEMMA NoneStays ==
  ASSUME NestingInv, NoPageFault, image' = image, stack # <<>>,
         \/ \E at : stack' = [stack EXCEPT ![1].at = at]
         \/ stack' = Tail(stack)
  PROVE  NoPageFault'
<1>1. stack \in Seq(Entry)
  BY DEF NestingInv
<1>2. CASE stack' = Tail(stack)
  <2>1. \A k \in DOMAIN Tail(stack) : k + 1 \in DOMAIN stack /\ Tail(stack)[k] = stack[k + 1]
    BY <1>1, SMT
  <2> QED
    BY <1>2, <2>1 DEF NoPageFault
<1>3. ASSUME NEW at, stack' = [stack EXCEPT ![1].at = at]
      PROVE  NoPageFault'
  <2>1. DOMAIN stack' = DOMAIN stack
    BY <1>3
  <2>2. ASSUME NEW k \in DOMAIN stack
        PROVE  stack'[k].due = stack[k].due
    <3>1. stack[k] \in Entry
      BY <1>1, SMT
    <3>2. CASE k = 1
      <4>1. stack'[1] = [stack[1] EXCEPT !.at = at]
        BY <1>3, <2>2, <3>2
      <4> QED
        BY <3>1, <3>2, <4>1 DEF Entry
    <3>3. CASE k # 1
      BY <1>3, <3>3
    <3> QED
      BY <3>2, <3>3
  <2> QED
    BY <2>1, <2>2 DEF NoPageFault
<1> QED
  BY <1>2, <1>3

LEMMA MemoryInvStep == BootInv /\ MemoryInv /\ [Next]_vars => MemoryInv'
<1> SUFFICES ASSUME BootInv, MemoryInv, [Next]_vars
             PROVE  MemoryInv'
  OBVIOUS
<1>0. /\ NestingInv /\ step \in 1 .. 12 /\ MappingInv /\ used \subseteq Taken /\ NoPageFault
      /\ image \in 0 .. 15
  BY DEF BootInv, TablesInv, MemoryInv
<1>1. CASE UNCHANGED vars
  <2>1. UNCHANGED <<step, directory, kernel_directory, used, image, stack>>
    BY <1>1 DEF vars, memory
  <2> QED
    BY <1>0, <2>1, MappingSame DEF MemoryInv, NoPageFault
<1>2. CASE BootStep
  <2>1. stack' = stack
    BY <1>0, <1>2, BootCases
  <2> QED
    BY <1>0, <1>2, <2>1, MappingBoot, UsedBoot DEF MemoryInv, NoPageFault
<1>3. CASE UNCHANGED <<step, memory>> /\ NoPageFault'
  <2>1. UNCHANGED <<step, directory, kernel_directory, used, image>>
    BY <1>3 DEF memory
  <2> QED
    BY <1>0, <1>3, <2>1, MappingSame DEF MemoryInv
<1>4. CASE \E line \in Lines : Raise(line)
  <2>1. UNCHANGED <<step, memory, stack>> /\ image' = image
    BY <1>4 DEF Raise, memory
  <2>2. NoPageFault'
    BY <1>0, <2>1 DEF NoPageFault
  <2> QED
    BY <1>3, <2>1, <2>2
<1>5. ASSUME NEW line \in Lines, NEW spurious \in BOOLEAN, Deliver(line, spurious)
      PROVE  MemoryInv'
  <2>1. PICK last : last = IF spurious THEN 7 ELSE line % 8
    OBVIOUS
  <2>2. /\ Enter(base[Chip(line)] + last, 32 + 8 * Chip(line) + last)
        /\ UNCHANGED <<step, memory>>
    BY <1>5, <2>1 DEF Deliver
  <2>3. 32 + 8 * Chip(line) + last # PageFault
    <3>1. line \in 0 .. 15
      BY BootAssumption
    <3>2. last \in 0 .. 7
      BY <2>1, <3>1, SMT
    <3> QED
      BY <3>1, <3>2, SMT DEF Chip, PageFault
  <2>4. image' = image
    BY <2>2 DEF memory
  <2> QED
    BY <1>0, <1>3, <2>2, <2>3, <2>4, NoneEnters
<1>6. CASE EnterHandler
  BY <1>0, <1>3, <1>6, NoneStays DEF EnterHandler, In, memory
<1>7. CASE irq_handler
  BY <1>0, <1>3, <1>7, NoneStays DEF irq_handler, Iret, In, memory
<1>8. CASE cpu_fault_handler
  BY <1>0, <1>3, <1>8, NoneStays DEF cpu_fault_handler, In, memory
<1>9. CASE SyscallReturns
  BY <1>0, <1>3, <1>9, NoneStays DEF SyscallReturns, Iret, In, memory
<1>10. ASSUME NEW n \in Traps \cup {PageFault}, Exception(n)
       PROVE  MemoryInv'
  <2>1. Enter(n, n) /\ UNCHANGED <<step, memory>> /\ image' = image
    BY <1>10 DEF Exception, memory
  <2>2. CASE n # PageFault
    BY <1>0, <1>3, <2>1, <2>2, NoneEnters
  <2>3. CASE n = PageFault
    <3>1. PICK k \in DOMAIN Order : At(Order[k]) /\ ~Mapped(Order[k])
      BY <1>10, <2>3 DEF Exception
    <3>2. step \in 1 .. 11 /\ ~Mapped(Order[step])
      BY <1>0, <3>1, OrderFacts, SMT DEF At
    <3>3. image \notin 0 .. 3
      BY <1>0, <3>2, AlwaysMapped
    <3>4. NoPageFault'
      BY <2>1, <3>3 DEF NoPageFault
    <3> QED
      BY <1>3, <2>1, <3>4
  <2> QED
    BY <2>2, <2>3
<1>11. CASE Syscall
  <2>1. Enter(Int80, Int80) /\ UNCHANGED <<step, memory>> /\ image' = image
    BY <1>11 DEF Syscall, memory
  <2>2. Int80 # PageFault
    BY DEF Int80, PageFault
  <2> QED
    BY <1>0, <1>3, <2>1, <2>2, NoneEnters
<1> QED
  BY <1>1, <1>2, <1>4, <1>5, <1>6, <1>7, <1>8, <1>9, <1>10, <1>11 DEF Next, Kernel

\* What boot takes for itself never overlaps; it takes a ramdisk's memory only in
\* the third and the fifth to eighth megabytes, and touches memory that is not
\* mapped only for a ramdisk behind the fourth.
THEOREM MemoryIsKept == Spec => []MemoryKept
<1>1. Init => MemoryInv
  BY MemoryInit
<1>2. BootInv /\ MemoryInv /\ [Next]_vars => MemoryInv'
  BY MemoryInvStep
<1>3. MemoryInv => MemoryKept
  <2> SUFFICES ASSUME MemoryInv
               PROVE  MemoryKept
    OBVIOUS
  <2>1. (\E k \in DOMAIN stack : stack[k].due = PageFault) => image \notin 0 .. 3
    BY DEF MemoryInv, NoPageFault
  <2>2. \A u, v \in used : u # v => u.to <= v.from \/ v.to <= u.from
    BY Apart DEF MemoryInv
  <2>3. ASSUME NEW u \in used
        PROVE  u.to <= image * MB \/ (image + 1) * MB <= u.from \/ image \in {2} \cup 4 .. 7
    BY Apart DEF MemoryInv
  <2> QED
    BY <2>1, <2>2, <2>3 DEF MemoryKept
<1> QED
  BY <1>1, <1>2, <1>3, BootIsKept, PTL DEF Spec

==============================================================================
