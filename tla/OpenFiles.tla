------------------------------ MODULE OpenFiles ------------------------------
(* The system calls of the one process there is: its table of descriptors    *)
(* (fs.h, fs.cpp), the way from int 0x80 to the calls (clib/syscall.cpp,     *)
(* isr.s, syscall.cpp), and what reading and writing does to each kind of    *)
(* inode (fifo.cpp, initrd.cpp, vga.cpp).  The gate of int 0x80 turns        *)
(* interrupts off, so a call is one step.                                    *)
EXTENDS Integers, Sequences

CONSTANTS
  FD_MAX,      \* descriptors in the table
  Capacity,    \* bytes in the buffer of a fifo
  Word,        \* values a size_t can have
  Bytes,       \* what is written
  MaxBytes,    \* bound: bytes in one call
  Text,        \* the contents of the initrd's file, and what lies behind it
  TextSize     \* the size of that file

ASSUME OpenAssumption ==
  /\ FD_MAX \in Nat \ {0} /\ Capacity \in Nat \ {0} /\ Word \in Nat \ {0}
  /\ MaxBytes \in Nat
  /\ TextSize \in 0 .. Len(Text)

VARIABLES
  data,          \* data[fd]: the inode of the descriptor's file
  last_desc,
  buffer,        \* of the fifo /dev/tty0
  buffer_index,
  unwritten,     \* history: of these, the bytes at the front nobody wrote
  received,      \* what the last call read, from which inode, and how many
                 \* bytes at its front nobody wrote
  shown,         \* what the last call gave to the screen
  file_stage

fifo == <<buffer, buffer_index, unwritten>>
openVars == <<data, last_desc, fifo, received, shown, file_stage>>

Descriptors == 0 .. FD_MAX - 1
NoFile == "no file"
Unknown == "unknown"  \* a byte of memory that nobody wrote
Nothing == [from |-> "none", bytes |-> <<>>, unwritten |-> 0]

\* What resolve_path and weak::lock find.
InodeAt == [path \in {"/dev/vga", "/dev/tty0", "/test.txt", "/missing"} |->
              CASE path = "/dev/vga" -> "vga"
                [] path = "/dev/tty0" -> "fifo"
                [] path = "/test.txt" -> "file"
                [] OTHER -> NoFile]

\* process_t clears its table.  Nothing sets the fifo's buffer_index: it is
\* any word, whatever the memory was left with that the fifo is put into.
OpenInit ==
  /\ data = [fd \in Descriptors |-> NoFile]
  /\ last_desc = 0
  /\ buffer = [i \in 0 .. Capacity - 1 |-> Unknown]
  /\ buffer_index \in 0 .. Word - 1
  /\ unwritten = buffer_index
  /\ received = Nothing /\ shown = <<>>
  /\ file_stage = "boot"

----------------------------------------------------------------------------
(* Opening *)

\* The file is in the table before its path is known to lead anywhere.
Opened(fildes, path) ==
  /\ data' = [data EXCEPT ![fildes] = InodeAt[path]]
  /\ file_stage' = IF InodeAt[path] = NoFile THEN "bad open syscall" ELSE "running"

syscall_open_at(fildes, path) ==
  /\ fildes \in Descriptors
  /\ last_desc' = last_desc
  /\ Opened(fildes, path)

\* The entry behind the table's last is last_desc: it becomes the address of
\* a file, and no descriptor can be told from memory at large any more.
OpenBehindTable(path) ==
  /\ last_desc = FD_MAX
  /\ last_desc' = FD_MAX + 1
  /\ data' = data
  /\ file_stage' = IF InodeAt[path] = NoFile THEN "bad open syscall" ELSE "table overwritten"

\* Mutant: the counter is only advanced when the table is empty.
OpenUncounted(path) ==
  \/ /\ last_desc < FD_MAX
     /\ last_desc' = 1
     /\ Opened(last_desc, path)
  \/ OpenBehindTable(path)

syscall_open(path) ==
  \/ /\ last_desc < FD_MAX
     /\ last_desc' = last_desc + 1
     /\ Opened(last_desc, path)
  \/ OpenBehindTable(path)

----------------------------------------------------------------------------
(* Reading and writing *)

Min2(a, b) == IF a < b THEN a ELSE b

\* Mutant: the shift copies what is left, from one byte too early.
ShiftShort(n) ==
  [i \in DOMAIN buffer |->
     IF i >= buffer_index - n \/ n = 0 THEN buffer[i] ELSE buffer[i + n - 1]]

\* memcpy(buffer, &buffer[nbyte], buffer_index) also copies nbyte bytes from
\* behind what the fifo holds, and may be from behind the buffer.
Shift(n) ==
  [i \in DOMAIN buffer |->
     IF i >= buffer_index THEN buffer[i]
     ELSE IF i + n < Capacity THEN buffer[i + n] ELSE Unknown]

\* Behind the end of the buffer lie buffer_index itself and other memory.
FifoOverrun ==
  /\ file_stage' = "fifo overrun"
  /\ received' = Nothing
  /\ UNCHANGED fifo

FifoRefuses ==
  /\ received' = Nothing
  /\ UNCHANGED <<fifo, file_stage>>

FifoGives(n) ==
  LET strays == Min2(n, unwritten)
  IN /\ received' = [from |-> "fifo", bytes |-> [i \in 1 .. n |-> buffer[i - 1]],
                     unwritten |-> strays]
     /\ buffer' = Shift(n)
     /\ buffer_index' = buffer_index - n
     /\ unwritten' = unwritten - strays
     /\ file_stage' = file_stage

\* An index that was never right makes the shift go over the buffer's end.
FifoRead(n) ==
  /\ shown' = <<>>
  /\ \/ buffer_index < n /\ FifoRefuses
     \/ n <= buffer_index /\ (buffer_index <= Capacity \/ n = 0) /\ FifoGives(n)
     \/ n <= buffer_index /\ buffer_index > Capacity /\ n > 0 /\ FifoOverrun

FifoTakes(chunk) ==
  /\ buffer' = [i \in DOMAIN buffer |->
       IF i \in buffer_index .. buffer_index + Len(chunk) - 1
       THEN chunk[i - buffer_index + 1]
       ELSE buffer[i]]
  /\ buffer_index' = buffer_index + Len(chunk)
  /\ received' = Nothing
  /\ UNCHANGED <<unwritten, file_stage>>

\* A write that does not fit goes on over the fifo's index.
FifoWrite(chunk) ==
  LET fits == chunk = <<>> \/ buffer_index + Len(chunk) <= Capacity
  IN /\ shown' = <<>>
     /\ \/ fits /\ FifoTakes(chunk)
        \/ ~fits /\ FifoOverrun

\* rdfs_inode::read keeps to the size, but not behind the offset.
FileRead(n, offset) ==
  /\ received' = [from |-> "file", bytes |-> [i \in 1 .. Min2(TextSize, n) |->
       IF i + offset <= Len(Text) THEN Text[i + offset] ELSE Unknown], unwritten |-> 0]
  /\ shown' = <<>>
  /\ UNCHANGED <<fifo, file_stage>>

ScreenWrite(chunk) ==
  /\ shown' = chunk
  /\ received' = Nothing
  /\ UNCHANGED <<fifo, file_stage>>

\* The reads and writes that inode, rdfs_inode and vga_dev answer with 0.
NothingDone ==
  /\ received' = Nothing /\ shown' = <<>>
  /\ UNCHANGED <<fifo, file_stage>>

\* A descriptor without a file: the inode is read from the page at 0, where
\* the process has its stack.
NoInode(fildes) ==
  /\ data[fildes] = NoFile
  /\ file_stage' = "null file"
  /\ UNCHANGED <<fifo, received, shown>>

syscall_read(fildes, n, offset) ==
  \/ data[fildes] = "fifo" /\ FifoRead(n)
  \/ data[fildes] = "file" /\ FileRead(n, offset)
  \/ data[fildes] = "vga" /\ NothingDone
  \/ NoInode(fildes)

syscall_write(fildes, chunk) ==
  \/ data[fildes] = "fifo" /\ FifoWrite(chunk)
  \/ data[fildes] = "vga" /\ ScreenWrite(chunk)
  \/ data[fildes] = "file" /\ NothingDone
  \/ NoInode(fildes)

----------------------------------------------------------------------------
(* The program: what it loads into the registers is what the call gets, and  *)
(* a read or write through the C library leaves the offset as it is.         *)

Chunks == UNION {[1 .. n -> Bytes] : n \in 0 .. MaxBytes}

CallOpen ==
  /\ \E path \in DOMAIN InodeAt : syscall_open(path)
  /\ received' = Nothing /\ shown' = <<>>
  /\ UNCHANGED fifo

\* syscall_close and a number that is no call do nothing to the files.
CallCloseOrInvalid == UNCHANGED openVars

CallRead ==
  /\ \E fildes \in Descriptors, n \in 0 .. MaxBytes, offset \in 0 .. Len(Text) :
       syscall_read(fildes, n, offset)
  /\ UNCHANGED <<data, last_desc>>

CallWrite ==
  /\ \E fildes \in Descriptors, chunk \in Chunks : syscall_write(fildes, chunk)
  /\ UNCHANGED <<data, last_desc>>

syscall_handler == CallOpen \/ CallCloseOrInvalid \/ CallRead \/ CallWrite

\* The interrupt of a call: every register is restored behind it, so that no
\* result of a call reaches the program.
isr80 ==
  /\ file_stage = "running"
  /\ syscall_handler

\* kernel_main opens descriptor 0 without syscall_open's counter.
Boot ==
  /\ file_stage = "boot"
  /\ syscall_open_at(0, "/dev/vga")
  /\ UNCHANGED <<fifo, received, shown>>

OpenNext == Boot \/ isr80

OpenSpec == OpenInit /\ [][OpenNext]_openVars

----------------------------------------------------------------------------
(* Properties *)

\* A descriptor names one file for good: no later open gives it to another
\* file, but for the screen's, which the program's first open replaces.
DescriptorsKept ==
  [][\A fd \in Descriptors : data[fd] # NoFile =>
       data'[fd] = data[fd] \/ (fd = 0 /\ last_desc = 0)]_openVars

\* What was written into the fifo and not yet read, and what of an answer was.
Held == [i \in 1 .. buffer_index - unwritten |-> buffer[unwritten + i - 1]]
Answered(r) ==
  IF r.from = "fifo" THEN SubSeq(r.bytes, r.unwritten + 1, Len(r.bytes)) ELSE <<>>

TheFifo == INSTANCE Pipe WITH contents <- Held, answer <- Answered(received)

\* Through however many descriptors, the shifting buffer is a pipe to its
\* writers, also when it began with bytes that nobody wrote: what was written
\* leaves it in the order it went in, each byte once, behind those bytes.
IsPipe == TheFifo!Spec
=============================================================================
