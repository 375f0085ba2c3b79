--------------------------- MODULE FilesProofs -----------------------------
(* Descriptors and the fifo behind them, for every size of the table and of  *)
(* the buffer, every file and whatever the program calls; the caches that    *)
(* the tree's inodes are found in, for every image and mount; and the        *)
(* namespace that the tree implements, for paths of any length.              *)
EXTENDS OpenFiles, FileTree, SequenceTheorems, FiniteSetTheorems,
        NaturalsInduction, WellFoundedInduction, TLAPS

Inodes == {NoFile, "vga", "fifo", "file"}

\* What a byte of the buffer reads as.
Cell == Bytes \cup {Unknown}

\* Only descriptors below last_desc have a file, but for the one of boot.
FilesInv ==
  /\ data \in [Descriptors -> Inodes]
  /\ last_desc \in 0 .. FD_MAX + 1
  /\ file_stage = "boot" => last_desc = 0 /\ \A fd \in Descriptors : data[fd] = NoFile
  /\ \A fd \in Descriptors : data[fd] # NoFile => fd = 0 \/ fd < last_desc

FifoInv ==
  /\ buffer \in [0 .. Capacity - 1 -> Cell]
  /\ buffer_index \in Nat
  /\ unwritten \in 0 .. buffer_index
  /\ buffer_index > Capacity => unwritten = buffer_index

IInv == FilesInv /\ FifoInv

----------------------------------------------------------------------------
(* The table *)

LEMMA InodeTypes == \A path \in DOMAIN InodeAt : InodeAt[path] \in Inodes
<1> SUFFICES ASSUME NEW path \in DOMAIN InodeAt
             PROVE  InodeAt[path] \in Inodes
  OBVIOUS
<1>1. path \in {"/dev/vga", "/dev/tty0", "/test.txt", "/missing"}
  BY DEF InodeAt
<1>2. CASE path = "/dev/vga"
  BY <1>2 DEF InodeAt, Inodes
<1>3. CASE path = "/dev/tty0"
  BY <1>3 DEF InodeAt, Inodes
<1>4. CASE path = "/test.txt"
  BY <1>4 DEF InodeAt, Inodes
<1>5. CASE path = "/missing"
  BY <1>5 DEF InodeAt, Inodes, NoFile
<1> QED
  BY <1>1, <1>2, <1>3, <1>4, <1>5

LEMMA FilesInit == OpenInit => FilesInv
<1> SUFFICES ASSUME OpenInit
             PROVE  FilesInv
  OBVIOUS
<1>1. data = [fd \in Descriptors |-> NoFile] /\ last_desc = 0
  BY DEF OpenInit
<1>2. 0 \in 0 .. FD_MAX + 1
  BY OpenAssumption, SMT
<1> QED
  BY <1>1, <1>2 DEF FilesInv, Inodes

\* The descriptor that open gives out has no file yet, but for the screen's.
LEMMA OpenTakesFree ==
  ASSUME FilesInv, NEW path \in DOMAIN InodeAt, syscall_open(path)
  PROVE  /\ data' \in [Descriptors -> Inodes]
         /\ last_desc' = last_desc + 1 /\ last_desc' \in 0 .. FD_MAX + 1
         /\ file_stage' # "boot"
         /\ \A fd \in Descriptors : fd # last_desc => data'[fd] = data[fd]
<1>1. last_desc \in 0 .. FD_MAX + 1 /\ FD_MAX \in Nat /\ data \in [Descriptors -> Inodes]
  BY OpenAssumption DEF FilesInv
<1>2. InodeAt[path] \in Inodes
  BY InodeTypes
<1>3. CASE /\ last_desc < FD_MAX
           /\ last_desc' = last_desc + 1
           /\ Opened(last_desc, path)
  <2>1. last_desc + 1 \in 0 .. FD_MAX + 1 /\ last_desc \in Descriptors
    BY <1>1, <1>3, SMT DEF Descriptors
  <2>2. data' = [data EXCEPT ![last_desc] = InodeAt[path]] /\ file_stage' # "boot"
    BY <1>3 DEF Opened
  <2> QED
    BY <1>1, <1>2, <1>3, <2>1, <2>2
<1>4. CASE OpenBehindTable(path)
  <2>1. last_desc + 1 = FD_MAX + 1 /\ FD_MAX + 1 \in 0 .. FD_MAX + 1
    <3>1. last_desc = FD_MAX /\ FD_MAX \in Nat
      BY <1>1, <1>4, Zenon DEF OpenBehindTable
    <3> QED
      BY <3>1, SMT
  <2>2. data' = data /\ last_desc' = FD_MAX + 1 /\ file_stage' # "boot"
    BY <1>4 DEF OpenBehindTable
  <2> QED
    BY <1>1, <2>1, <2>2
<1> QED
  BY <1>3, <1>4 DEF syscall_open

LEMMA BootOpens ==
  ASSUME FilesInv, Boot
  PROVE  /\ data' = [data EXCEPT ![0] = "vga"] /\ 0 \in Descriptors
         /\ last_desc = 0 /\ last_desc' = 0 /\ file_stage' = "running"
         /\ \A fd \in Descriptors : data[fd] = NoFile
<1>1. InodeAt["/dev/vga"] = "vga" /\ "vga" # NoFile
  BY DEF InodeAt, NoFile
<1> QED
  BY <1>1 DEF Boot, syscall_open_at, Opened, FilesInv

LEMMA FilesStep == FilesInv /\ [OpenNext]_openVars => FilesInv'
<1> SUFFICES ASSUME FilesInv, [OpenNext]_openVars
             PROVE  FilesInv'
  OBVIOUS
<1>1. CASE UNCHANGED <<data, last_desc>> /\ (file_stage' = "boot" => file_stage = "boot")
  BY <1>1 DEF FilesInv
<1>2. CASE Boot
  <2>1. \A fd \in Descriptors : fd # 0 => data'[fd] = NoFile
    BY <1>2, BootOpens DEF FilesInv
  <2>2. data' \in [Descriptors -> Inodes] /\ last_desc' \in 0 .. FD_MAX + 1 /\ file_stage' # "boot"
    BY <1>2, BootOpens DEF FilesInv, Inodes
  <2> QED
    BY <2>1, <2>2 DEF FilesInv
<1>3. ASSUME NEW path \in DOMAIN InodeAt, syscall_open(path)
      PROVE  FilesInv'
  <2>1. /\ data' \in [Descriptors -> Inodes]
        /\ last_desc' = last_desc + 1 /\ last_desc' \in 0 .. FD_MAX + 1
        /\ file_stage' # "boot"
        /\ \A fd \in Descriptors : fd # last_desc => data'[fd] = data[fd]
    BY <1>3, OpenTakesFree
  <2>2. ASSUME NEW fd \in Descriptors, data'[fd] # NoFile
        PROVE  fd = 0 \/ fd < last_desc'
    <3>1. fd \in Nat /\ last_desc \in Nat
      BY OpenAssumption, SMT DEF Descriptors, FilesInv
    <3>2. fd = last_desc \/ fd = 0 \/ fd < last_desc
      BY <2>1, <2>2 DEF FilesInv
    <3> QED
      BY <2>1, <3>1, <3>2
  <2> QED
    BY <2>1, <2>2 DEF FilesInv
<1>4. CASE isr80
  <2>1. CASE CallOpen
    BY <1>3, <2>1 DEF CallOpen
  <2>2. CASE CallCloseOrInvalid
    BY <1>1, <2>2 DEF CallCloseOrInvalid, openVars
  <2>3. CASE CallRead
    <3>1. PICK fildes \in Descriptors, n \in 0 .. MaxBytes, offset \in 0 .. Len(Text) :
            syscall_read(fildes, n, offset)
      BY <2>3 DEF CallRead
    <3>2. file_stage' # "boot"
      BY <1>4, <3>1, Zenon
         DEF isr80, syscall_read, FifoRead, FifoRefuses, FifoGives, FifoOverrun, FileRead,
             NothingDone, NoInode
    <3> QED
      BY <1>1, <2>3, <3>2 DEF CallRead
  <2>4. CASE CallWrite
    <3>1. PICK fildes \in Descriptors, chunk \in Chunks : syscall_write(fildes, chunk)
      BY <2>4 DEF CallWrite
    <3>2. file_stage' # "boot"
      BY <1>4, <3>1, Zenon
         DEF isr80, syscall_write, FifoWrite, FifoTakes, FifoOverrun, ScreenWrite,
             NothingDone, NoInode
    <3> QED
      BY <1>1, <2>4, <3>2 DEF CallWrite
  <2> QED
    BY <1>4, <2>1, <2>2, <2>3, <2>4 DEF isr80, syscall_handler
<1>5. CASE UNCHANGED openVars
  BY <1>1, <1>5 DEF openVars
<1> QED
  BY <1>2, <1>4, <1>5 DEF OpenNext

\* A descriptor names the same file for good, but for the one of boot that the
\* program's first open replaces, however many are opened and though the table
\* is overrun.
THEOREM DescriptorsStay == OpenSpec => DescriptorsKept
<1>1. FilesInv /\ [OpenNext]_openVars =>
        [\A fd \in Descriptors : data[fd] # NoFile =>
           data'[fd] = data[fd] \/ (fd = 0 /\ last_desc = 0)]_openVars
  <2> SUFFICES ASSUME FilesInv, OpenNext, NEW fd \in Descriptors, data[fd] # NoFile
               PROVE  data'[fd] = data[fd] \/ (fd = 0 /\ last_desc = 0)
    OBVIOUS
  <2>1. CASE Boot
    BY <2>1, BootOpens
  <2>2. ASSUME NEW path \in DOMAIN InodeAt, syscall_open(path)
        PROVE  data'[fd] = data[fd] \/ (fd = 0 /\ last_desc = 0)
    <3>1. fd = last_desc => fd = 0
      <4>1. fd \in Nat
        BY OpenAssumption, SMT DEF Descriptors
      <4> QED
        BY <4>1 DEF FilesInv
    <3> QED
      BY <2>2, <3>1, OpenTakesFree
  <2>3. CASE isr80
    BY <2>2, <2>3
       DEF isr80, syscall_handler, CallOpen, CallCloseOrInvalid, CallRead, CallWrite, openVars
  <2> QED
    BY <2>1, <2>3 DEF OpenNext
<1> QED
  BY <1>1, FilesInit, FilesStep, PTL DEF OpenSpec, DescriptorsKept

----------------------------------------------------------------------------
(* The fifo *)

\* What n bytes of a buffer are, those behind the first k.
FifoPart(bytes, k, n) == [i \in 1 .. n |-> bytes[k + i - 1]]

LEMMA PartIsSeq ==
  ASSUME NEW bytes, bytes \in [0 .. Capacity - 1 -> Cell], NEW k \in Nat, NEW n \in Nat,
         k + n <= Capacity \/ n = 0
  PROVE  /\ FifoPart(bytes, k, n) \in Seq(Cell)
         /\ Len(FifoPart(bytes, k, n)) = n
         /\ \A i \in 1 .. n : FifoPart(bytes, k, n)[i] = bytes[k + i - 1]
<1>1. \A i \in 1 .. n : k + i - 1 \in 0 .. Capacity - 1
  BY OpenAssumption, SMT
<1>2. \A i \in 1 .. n : bytes[k + i - 1] \in Cell
  BY <1>1
<1>3. FifoPart(bytes, k, n) \in [1 .. n -> Cell]
  BY <1>2 DEF FifoPart
<1>4. FifoPart(bytes, k, n) \in Seq(Cell)
  BY <1>3, SeqDef
<1>5. Len(FifoPart(bytes, k, n)) = n
  BY <1>3, <1>4, SMT
<1> QED
  BY <1>4, <1>5 DEF FifoPart

\* A part of a part.
LEMMA PartOfPart ==
  ASSUME NEW bytes, bytes \in [0 .. Capacity - 1 -> Cell], NEW k \in Nat, NEW n \in Nat,
         k + n <= Capacity \/ n = 0, NEW a \in Nat, NEW b \in Nat, a + b <= n,
         NEW whole, whole = FifoPart(bytes, k, n),
         NEW rest, rest = FifoPart(bytes, k + a, b)
  PROVE  SubSeq(whole, a + 1, a + b) = rest
<1>1. PICK old : old = FifoPart(bytes, k, n)
  OBVIOUS
<1>2. old \in Seq(Cell) /\ Len(old) = n /\ \A i \in 1 .. n : old[i] = bytes[k + i - 1]
  BY <1>1, PartIsSeq
<1>3. PICK m, c : m = a + b /\ c = k + a
  OBVIOUS
<1>4. /\ m \in Nat /\ c \in Nat /\ a + 1 \in Int /\ m \in Int /\ m - (a + 1) + 1 = b
      /\ c + b <= Capacity \/ b = 0
      /\ \A i \in a + 1 .. m : i \in 1 .. n
      /\ \A i \in 1 .. b : /\ a + 1 + i - 1 = a + i /\ a + i \in 1 .. n
                           /\ k + (a + i) - 1 = c + i - 1
  BY <1>3, OpenAssumption, SMT
<1>5. \A i \in a + 1 .. m : old[i] \in Cell
  BY <1>2, <1>4, ElementOfSeq
<1>6. PICK part : part = SubSeq(old, a + 1, m)
  OBVIOUS
<1>7. /\ part \in Seq(Cell)
      /\ Len(part) = IF a + 1 <= m THEN m - (a + 1) + 1 ELSE 0
      /\ \A i \in 1 .. m - (a + 1) + 1 : part[i] = old[a + 1 + i - 1]
  BY <1>4, <1>5, <1>6, SubSeqProperties
<1>8. Len(part) = b
  BY <1>3, <1>4, <1>7, SMT
<1>9. PICK new : new = FifoPart(bytes, c, b)
  OBVIOUS
<1>10. new \in Seq(Cell) /\ Len(new) = b /\ \A i \in 1 .. b : new[i] = bytes[c + i - 1]
  <2>1. c \in Nat /\ (c + b <= Capacity \/ b = 0)
    BY <1>4
  <2> QED
    BY <1>9, <2>1, PartIsSeq
<1>11. ASSUME NEW i \in 1 .. b
       PROVE  part[i] = new[i]
  <2>1. part[i] = old[a + i]
    BY <1>4, <1>7
  <2>2. old[a + i] = bytes[k + (a + i) - 1]
    BY <1>2, <1>4
  <2> QED
    BY <1>4, <1>10, <2>1, <2>2
<1>12. part = new
  BY <1>7, <1>8, <1>10, <1>11, SeqEqual
<1> QED
  BY <1>1, <1>3, <1>6, <1>9, <1>12

LEMMA FifoInit == OpenInit => FifoInv
<1> SUFFICES ASSUME OpenInit
             PROVE  FifoInv
  OBVIOUS
<1>1. buffer_index \in Nat /\ unwritten = buffer_index
  BY OpenAssumption, SMT DEF OpenInit
<1>2. unwritten \in 0 .. buffer_index
  BY <1>1, SMT
<1> QED
  BY <1>1, <1>2 DEF OpenInit, FifoInv, Cell

\* Reading takes the front, and what lies behind it moves there; the bytes that
\* nobody wrote are taken first.
LEMMA ReadTakesFront ==
  ASSUME FifoInv, NEW n \in 0 .. MaxBytes, FifoGives(n), n <= buffer_index,
         buffer_index <= Capacity \/ n = 0
  PROVE  /\ FifoInv'
         /\ \E taken \in 0 .. MaxBytes :
              /\ taken <= Len(Held)
              /\ Answered(received') = SubSeq(Held, 1, taken)
              /\ Held' = SubSeq(Held, taken + 1, Len(Held))
<1>0. buffer \in [0 .. Capacity - 1 -> Cell]
  BY DEF FifoInv
<1>1. PICK x, u, k, t, y, v :
        /\ x = buffer_index /\ u = unwritten /\ k = Min2(n, unwritten) /\ t = n - k
        /\ y = x - n /\ v = u - k
  OBVIOUS
<1>2. /\ Capacity \in Nat /\ MaxBytes \in Nat /\ n \in Nat /\ n <= MaxBytes
      /\ x \in Nat /\ u \in Nat /\ u <= x /\ n <= x
      /\ x > Capacity => u = x
      /\ x <= Capacity \/ n = 0
  BY <1>1, OpenAssumption, SMT DEF FifoInv
<1>3. /\ k \in Nat /\ k <= n /\ k <= u /\ (k = n \/ k = u)
  BY <1>1, <1>2, SMT DEF Min2
<1>h. PICK h, w : h = x - u /\ w = y - v
  OBVIOUS
<1>a. /\ t \in Nat /\ y \in Nat /\ v \in Nat /\ h \in Nat /\ t <= MaxBytes
      /\ v + n = u + t /\ k + t = n
      /\ t = 0 \/ k = u
  <2>1. y = x - n /\ v = u - k /\ t = n - k /\ h = x - u
    BY <1>1, <1>h
  <2>2. t \in Nat /\ v \in Nat /\ t <= MaxBytes /\ k + t = n
    BY <1>2, <1>3, <2>1, SMT
  <2>3. y \in Nat /\ h \in Nat
    BY <1>2, <2>1, SMT
  <2>4. v + n = u + t
    BY <1>2, <1>3, <2>1, SMT
  <2>5. t = 0 \/ k = u
    <3>1. k = n => t = 0
      BY <1>2, <2>1, SMT
    <3> QED
      BY <1>3, <3>1
  <2> QED
    BY <2>2, <2>3, <2>4, <2>5
<1>b. y = x - n /\ v = u - k /\ t = n - k /\ h = x - u /\ w = y - v
  BY <1>1, <1>h
<1>c. t <= h
  <2>1. CASE t = 0
    BY <1>a, <2>1, SMT
  <2>2. CASE k = u
    BY <1>2, <1>b, <2>2, SMT
  <2> QED
    BY <1>a, <2>1, <2>2
<1>d. w \in Nat /\ v <= y /\ w = h - t /\ v + w = y /\ u + h = x
  BY <1>2, <1>3, <1>a, <1>b, <1>c, SMT
<1>e. /\ y > Capacity => v = y
      /\ u + h <= Capacity \/ h = 0
      /\ v + w <= Capacity \/ w = 0
      /\ 0 + n <= Capacity \/ n = 0
  <2>1. CASE x <= Capacity
    BY <1>2, <1>a, <1>b, <1>d, <2>1, SMT
  <2>2. CASE n = 0 /\ u = x
    <3>1. k = 0
      BY <1>3, <2>2, SMT
    <3>2. y = x /\ v = x
      BY <1>2, <1>b, <2>2, <3>1, SMT
    <3> QED
      BY <1>2, <1>b, <2>2, <3>2, SMT
  <2> QED
    BY <1>2, <2>1, <2>2, SMT
<1>4. /\ t \in Nat /\ y \in Nat /\ v \in Nat /\ v <= y /\ t <= MaxBytes /\ t <= h
      /\ v + n = u + t /\ k + t = n /\ w = h - t
      /\ y > Capacity => v = y
      /\ t = 0 \/ k = u
      /\ h \in Nat /\ w \in Nat
  BY <1>a, <1>c, <1>d, <1>e
<1>5. /\ received' = [from |-> "fifo", bytes |-> [i \in 1 .. n |-> buffer[i - 1]], unwritten |-> k]
      /\ buffer' = Shift(n) /\ buffer_index' = y /\ unwritten' = v
  BY <1>1 DEF FifoGives
<1>6. buffer \in [0 .. Capacity - 1 -> Cell] /\ DOMAIN buffer = 0 .. Capacity - 1
  BY DEF FifoInv
<1>7. /\ buffer' \in [0 .. Capacity - 1 -> Cell]
      /\ \A i \in 0 .. Capacity - 1 : i < y => buffer'[i] = buffer[i + n]
  <2>1. \A i \in 0 .. Capacity - 1 : i + n < Capacity => i + n \in 0 .. Capacity - 1
    BY <1>2, SMT
  <2>2. buffer' = [i \in 0 .. Capacity - 1 |->
                     IF i >= x THEN buffer[i]
                     ELSE IF i + n < Capacity THEN buffer[i + n] ELSE Unknown]
    BY <1>1, <1>5, <1>6 DEF Shift
  <2>3. \A i \in 0 .. Capacity - 1 : i < y => ~(i >= x) /\ i + n < Capacity
    <3> SUFFICES ASSUME NEW i \in 0 .. Capacity - 1, i < y
                 PROVE  ~(i >= x) /\ i + n < Capacity
      OBVIOUS
    <3>1. i + n < x
      BY <1>1, <1>2, SMT
    <3> QED
      BY <1>2, <3>1, SMT
  <2>4. \A i \in 0 .. Capacity - 1 : buffer'[i] \in Cell
    BY <1>6, <2>1, <2>2 DEF Cell
  <2> QED
    BY <2>2, <2>3, <2>4
<1>8. FifoInv'
  <2>1. v \in 0 .. y
    BY <1>4, SMT
  <2> QED
    BY <1>4, <1>5, <1>7, <2>1 DEF FifoInv
<1>9. Held = FifoPart(buffer, u, h) /\ Held' = FifoPart(buffer', v, w)
  BY <1>1, <1>h, <1>5 DEF Held, FifoPart
<1>10. Len(Held) = h
  BY <1>2, <1>4, <1>e, <1>6, <1>9, PartIsSeq
<1>11. Held' = SubSeq(Held, t + 1, Len(Held))
  <2>1. PICK r : r = u + t
    OBVIOUS
  <2>2. r \in Nat /\ t + w = h /\ t + w <= h
    BY <1>2, <1>4, <2>1, SMT
  <2>3. SubSeq(FifoPart(buffer, u, h), t + 1, t + w) = FifoPart(buffer, r, w)
    <3>1. u \in Nat /\ h \in Nat /\ t \in Nat /\ w \in Nat
      BY <1>2, <1>4
    <3>2. u + h <= Capacity \/ h = 0
      BY <1>e
    <3>3. t + w <= h
      BY <2>2
    <3>4. buffer \in [0 .. Capacity - 1 -> Cell]
      BY <1>6
    <3>5. PICK whole, rest : whole = FifoPart(buffer, u, h) /\ rest = FifoPart(buffer, u + t, w)
      OBVIOUS
    <3>6. SubSeq(whole, t + 1, t + w) = rest
      BY <3>1, <3>2, <3>3, <3>4, <3>5, PartOfPart
    <3> QED
      BY <2>1, <3>5, <3>6
  <2>4. ASSUME NEW i \in 1 .. w
        PROVE  buffer'[v + i - 1] = buffer[r + i - 1]
    <3>1. v + w <= Capacity
      BY <1>4, <1>e, <2>4, SMT
    <3>2. /\ v + i - 1 \in 0 .. Capacity - 1 /\ v + i - 1 < y
          /\ (v + i - 1) + n = r + i - 1
      BY <1>2, <1>4, <1>d, <2>1, <3>1, SMT
    <3> QED
      BY <1>7, <3>2
  <2>5. FifoPart(buffer', v, w) = FifoPart(buffer, r, w)
    BY <2>4 DEF FifoPart
  <2> QED
    BY <1>9, <1>10, <2>2, <2>3, <2>5
<1>12. Answered(received') = SubSeq(Held, 1, t)
  <2>1. PICK all, o : all = [i \in 1 .. n |-> buffer[i - 1]] /\ o = 0
    OBVIOUS
  <2>2. all = FifoPart(buffer, o, n)
    <3>1. \A i \in 1 .. n : o + i - 1 = i - 1
      BY <2>1, SMT
    <3> QED
      BY <2>1, <3>1 DEF FifoPart
  <2>3. o \in Nat /\ (o + n <= Capacity \/ n = 0)
    BY <1>e, <2>1
  <2>4. Len(all) = n
    BY <1>0, <1>2, <2>2, <2>3, PartIsSeq
  <2>5. Answered(received') = SubSeq(all, k + 1, n)
    BY <1>5, <2>1, <2>4 DEF Answered
  <2>6. PICK front, first : front = FifoPart(buffer, o + k, t) /\ first = FifoPart(buffer, u + o, t)
    OBVIOUS
  <2>7. SubSeq(all, k + 1, k + t) = front
    <3>1. n \in Nat /\ k \in Nat /\ t \in Nat /\ k + t <= n
      BY <1>2, <1>3, <1>4, SMT
    <3> QED
      BY <1>0, <2>2, <2>3, <2>6, <3>1, PartOfPart
  <2>8. SubSeq(Held, o + 1, o + t) = first
    <3>1. u \in Nat /\ h \in Nat /\ t \in Nat /\ o + t <= h
      BY <1>2, <1>4, <2>1, SMT
    <3>2. u + h <= Capacity \/ h = 0
      BY <1>e
    <3>3. PICK held : held = Held
      OBVIOUS
    <3>4. SubSeq(held, o + 1, o + t) = first
      BY <1>0, <1>9, <2>3, <2>6, <3>1, <3>2, <3>3, PartOfPart
    <3> QED
      BY <3>3, <3>4
  <2>9. front = first
    <3>1. o + k = k /\ u + o = u
      BY <1>2, <1>3, <2>1, SMT
    <3>2. CASE k = u
      BY <2>6, <3>1, <3>2
    <3>3. CASE t = 0
      BY <2>6, <3>3 DEF FifoPart
    <3> QED
      BY <1>4, <3>2, <3>3
  <2>10. k + t = n /\ o + 1 = 1 /\ o + t = t
    BY <1>4, <2>1, SMT
  <2> QED
    BY <2>5, <2>7, <2>8, <2>9, <2>10
<1>13. t \in 0 .. MaxBytes /\ t <= Len(Held)
  BY <1>2, <1>4, <1>10, SMT
<1> QED
  BY <1>8, <1>11, <1>12, <1>13

\* Writing adds behind what the fifo holds.
LEMMA WriteAppends ==
  ASSUME FifoInv, NEW chunk \in Chunks, FifoTakes(chunk),
         chunk = <<>> \/ buffer_index + Len(chunk) <= Capacity
  PROVE  FifoInv' /\ Held' = Held \o chunk
<1>1. PICK n \in 0 .. MaxBytes : chunk \in [1 .. n -> Bytes]
  BY DEF Chunks
<1>2. PICK x, u, h : x = buffer_index /\ u = unwritten /\ h = x - u
  OBVIOUS
<1>3. /\ n \in Nat /\ Capacity \in Nat /\ x \in Nat /\ u \in Nat /\ h \in Nat
      /\ u <= x /\ u + h = x
      /\ x > Capacity => u = x
  BY <1>2, OpenAssumption, SMT DEF FifoInv
<1>4. chunk \in Seq(Cell) /\ Len(chunk) = n
  <2>1. chunk \in [1 .. n -> Cell]
    BY <1>1 DEF Cell
  <2>2. chunk \in Seq(Cell)
    BY <1>3, <2>1, SeqDef
  <2> QED
    BY <1>3, <2>1, <2>2, SMT
<1>5. n = 0 \/ x + n <= Capacity
  <2>1. CASE chunk = <<>>
    <3>1. Len(chunk) = 0
      BY <2>1, SMT
    <3> QED
      BY <1>4, <3>1
  <2> QED
    BY <1>2, <1>4, <2>1
<1>6. /\ buffer' = [i \in DOMAIN buffer |->
            IF i \in x .. x + n - 1 THEN chunk[i - x + 1] ELSE buffer[i]]
      /\ buffer_index' = x + n /\ unwritten' = u
  BY <1>2, <1>4 DEF FifoTakes
<1>7. buffer \in [0 .. Capacity - 1 -> Cell] /\ DOMAIN buffer = 0 .. Capacity - 1
  BY DEF FifoInv
<1>8. /\ buffer' \in [0 .. Capacity - 1 -> Cell]
      /\ \A i \in 0 .. Capacity - 1 :
           /\ i < x => buffer'[i] = buffer[i]
           /\ x <= i /\ i < x + n => buffer'[i] = chunk[i - x + 1]
  <2>1. \A i \in 0 .. Capacity - 1 :
          /\ i \in x .. x + n - 1 <=> x <= i /\ i < x + n
          /\ x <= i => ~(i < x)
          /\ i \in x .. x + n - 1 => i - x + 1 \in 1 .. n
    BY <1>3, SMT
  <2>2. \A i \in 0 .. Capacity - 1 :
          buffer'[i] = IF i \in x .. x + n - 1 THEN chunk[i - x + 1] ELSE buffer[i]
    BY <1>6, <1>7
  <2>3. \A i \in 0 .. Capacity - 1 : buffer'[i] \in Cell
    BY <1>1, <1>7, <2>1, <2>2 DEF Cell
  <2>4. buffer' = [i \in 0 .. Capacity - 1 |-> buffer'[i]]
    BY <1>6, <1>7
  <2> QED
    BY <2>1, <2>2, <2>3, <2>4
<1>9. FifoInv'
  <2>1. x + n \in Nat /\ u \in 0 .. x + n /\ (x + n > Capacity => u = x + n)
    BY <1>3, <1>5, SMT
  <2> QED
    BY <1>6, <1>8, <2>1 DEF FifoInv
<1>10. Held' = Held \o chunk
  <2>1. PICK new, old : new = FifoPart(buffer', u, h + n) /\ old = FifoPart(buffer, u, h)
    OBVIOUS
  <2>2. x + n - u = h + n
    BY <1>2, <1>3, SMT
  <2>3. new = Held' /\ old = Held
    <3>0. PICK g, z : g = x + n - u /\ z = x + n
      OBVIOUS
    <3>4. buffer_index' = z /\ unwritten' = u /\ g = z - u
      <4>1. buffer_index' = x + n /\ unwritten' = u
        BY <1>6
      <4> QED
        BY <1>3, <3>0, <4>1
    <3>1. Held' = [i \in 1 .. g |-> buffer'[u + i - 1]]
      BY <3>4 DEF Held
    <3>2. Held = [i \in 1 .. h |-> buffer[u + i - 1]]
      BY <1>2 DEF Held
    <3> QED
      BY <2>1, <2>2, <3>0, <3>1, <3>2 DEF FifoPart
  <2>4. /\ h + n \in Nat
        /\ u + h <= Capacity \/ h = 0
        /\ u + (h + n) <= Capacity \/ h + n = 0
    BY <1>2, <1>3, <1>5, SMT
  <2>5. /\ new \in Seq(Cell) /\ Len(new) = h + n
        /\ \A i \in 1 .. h + n : new[i] = buffer'[u + i - 1]
    <3>1. u \in Nat /\ h + n \in Nat /\ (u + (h + n) <= Capacity \/ h + n = 0)
      BY <1>3, <2>4
    <3> QED
      BY <1>8, <2>1, <3>1, PartIsSeq
  <2>6. old \in Seq(Cell) /\ Len(old) = h /\ \A i \in 1 .. h : old[i] = buffer[u + i - 1]
    <3>1. u \in Nat /\ h \in Nat /\ (u + h <= Capacity \/ h = 0)
      BY <1>3, <2>4
    <3>2. buffer \in [0 .. Capacity - 1 -> Cell]
      BY <1>7
    <3> QED
      BY <2>1, <3>1, <3>2, PartIsSeq
  <2>7. /\ old \o chunk \in Seq(Cell) /\ Len(old \o chunk) = h + n
        /\ \A i \in 1 .. h + n :
             (old \o chunk)[i] = IF i <= h THEN old[i] ELSE chunk[i - h]
    BY <1>4, <2>6, ConcatProperties
  <2>8. ASSUME NEW i \in 1 .. h + n
        PROVE  new[i] = (old \o chunk)[i]
    <3>1. u + i - 1 \in 0 .. Capacity - 1
      BY <1>3, <2>4, SMT
    <3>2. CASE i <= h
      <4>1. u + i - 1 < x /\ i \in 1 .. h
        BY <1>3, <3>2, SMT
      <4>2. buffer'[u + i - 1] = buffer[u + i - 1]
        BY <1>8, <3>1, <4>1
      <4>3. (old \o chunk)[i] = old[i] /\ old[i] = buffer[u + i - 1]
        BY <2>6, <2>7, <3>2, <4>1
      <4> QED
        BY <2>5, <4>2, <4>3
    <3>3. CASE ~(i <= h)
      <4>1. x <= u + i - 1 /\ u + i - 1 < x + n /\ (u + i - 1) - x + 1 = i - h
        BY <1>3, <3>3, SMT
      <4>2. buffer'[u + i - 1] = chunk[(u + i - 1) - x + 1]
        BY <1>8, <3>1, <4>1
      <4>3. (old \o chunk)[i] = chunk[i - h]
        BY <2>7, <3>3
      <4> QED
        BY <2>5, <4>1, <4>2, <4>3
    <3> QED
      BY <3>2, <3>3
  <2>9. new = old \o chunk
    BY <2>5, <2>7, <2>8, SeqEqual
  <2> QED
    BY <2>3, <2>9
<1> QED
  BY <1>9, <1>10

\* A call that does not reach the fifo, or that it refuses.
Elsewhere ==
  /\ UNCHANGED fifo
  /\ UNCHANGED received \/ Answered(received') = <<>>

LEMMA CallCases ==
  ASSUME [OpenNext]_openVars, FifoInv
  PROVE  \/ Elsewhere
         \/ \E n \in 0 .. MaxBytes :
              FifoGives(n) /\ n <= buffer_index /\ (buffer_index <= Capacity \/ n = 0)
         \/ \E chunk \in Chunks :
              FifoTakes(chunk) /\ (chunk = <<>> \/ buffer_index + Len(chunk) <= Capacity)
<1>0. Answered(Nothing) = <<>>
  BY DEF Answered, Nothing
<1>1. CASE Boot \/ CallOpen \/ UNCHANGED openVars \/ CallCloseOrInvalid
  BY <1>0, <1>1 DEF Boot, CallOpen, CallCloseOrInvalid, openVars, Elsewhere
<1>2. ASSUME NEW fildes \in Descriptors, NEW n \in 0 .. MaxBytes, NEW offset \in 0 .. Len(Text),
             syscall_read(fildes, n, offset)
      PROVE  \/ Elsewhere
             \/ FifoGives(n) /\ n <= buffer_index /\ (buffer_index <= Capacity \/ n = 0)
  <2>1. CASE FifoRead(n)
    BY <1>0, <2>1 DEF FifoRead, FifoRefuses, FifoOverrun, Elsewhere
  <2>2. CASE FileRead(n, offset)
    BY <2>2 DEF FileRead, Elsewhere, Answered
  <2>3. CASE NothingDone \/ NoInode(fildes)
    BY <1>0, <2>3 DEF NothingDone, NoInode, Elsewhere
  <2> QED
    BY <1>2, <2>1, <2>2, <2>3 DEF syscall_read
<1>3. ASSUME NEW fildes \in Descriptors, NEW chunk \in Chunks, syscall_write(fildes, chunk)
      PROVE  \/ Elsewhere
             \/ FifoTakes(chunk) /\ (chunk = <<>> \/ buffer_index + Len(chunk) <= Capacity)
  <2>1. CASE FifoWrite(chunk)
    BY <1>0, <2>1 DEF FifoWrite, FifoOverrun, Elsewhere
  <2>2. CASE ScreenWrite(chunk) \/ NothingDone \/ NoInode(fildes)
    BY <1>0, <2>2 DEF ScreenWrite, NothingDone, NoInode, Elsewhere
  <2> QED
    BY <1>3, <2>1, <2>2 DEF syscall_write
<1>4. CASE CallRead
  BY <1>2, <1>4 DEF CallRead
<1>5. CASE CallWrite
  BY <1>3, <1>5 DEF CallWrite
<1> QED
  BY <1>1, <1>4, <1>5 DEF OpenNext, isr80, syscall_handler

LEMMA FifoStep == FifoInv /\ [OpenNext]_openVars => FifoInv'
<1> SUFFICES ASSUME FifoInv, [OpenNext]_openVars
             PROVE  FifoInv'
  OBVIOUS
<1>1. CASE Elsewhere
  BY <1>1 DEF Elsewhere, fifo, FifoInv
<1>2. ASSUME NEW n \in 0 .. MaxBytes, FifoGives(n), n <= buffer_index,
             buffer_index <= Capacity \/ n = 0
      PROVE  FifoInv'
  BY <1>2, ReadTakesFront
<1>3. ASSUME NEW chunk \in Chunks, FifoTakes(chunk),
             chunk = <<>> \/ buffer_index + Len(chunk) <= Capacity
      PROVE  FifoInv'
  BY <1>3, WriteAppends
<1> QED
  BY <1>1, <1>2, <1>3, CallCases

\* The inductive invariant of the table and of the buffer, whatever number the
\* fifo's index began with.
THEOREM OpenFilesInvariance == OpenSpec => []IInv
<1>1. OpenInit => IInv
  BY FilesInit, FifoInit DEF IInv
<1>2. IInv /\ [OpenNext]_openVars => IInv'
  BY FilesStep, FifoStep DEF IInv
<1> QED
  BY <1>1, <1>2, PTL DEF OpenSpec

----------------------------------------------------------------------------
(* The pipe *)

LEMMA StepIsPiped == FifoInv /\ [OpenNext]_openVars => [TheFifo!Next]_TheFifo!vars
<1> SUFFICES ASSUME FifoInv, [OpenNext]_openVars
             PROVE  [TheFifo!Next]_TheFifo!vars
  OBVIOUS
<1>1. CASE Elsewhere
  <2>0. Held' = Held
    BY <1>1 DEF Elsewhere, fifo, Held
  <2>1. CASE UNCHANGED received
    BY <2>0, <2>1 DEF TheFifo!vars, Answered
  <2>2. CASE Answered(received') = <<>>
    BY <2>0, <2>2 DEF TheFifo!Next, TheFifo!Refuse, Answered
  <2> QED
    BY <1>1, <2>1, <2>2 DEF Elsewhere
<1>2. ASSUME NEW n \in 0 .. MaxBytes, FifoGives(n), n <= buffer_index,
             buffer_index <= Capacity \/ n = 0
      PROVE  TheFifo!Next
  <2>1. PICK taken \in 0 .. MaxBytes :
          /\ taken <= Len(Held)
          /\ Answered(received') = SubSeq(Held, 1, taken)
          /\ Held' = SubSeq(Held, taken + 1, Len(Held))
    BY <1>2, ReadTakesFront
  <2>2. TheFifo!Read(taken)
    BY <2>1 DEF TheFifo!Read, Answered
  <2> QED
    BY <2>2 DEF TheFifo!Next
<1>3. ASSUME NEW chunk \in Chunks, FifoTakes(chunk),
             chunk = <<>> \/ buffer_index + Len(chunk) <= Capacity
      PROVE  TheFifo!Next
  <2>1. Held' = Held \o chunk
    BY <1>3, WriteAppends
  <2>2. received' = Nothing
    BY <1>3 DEF FifoTakes
  <2>3. TheFifo!Write(chunk)
    BY <2>1, <2>2 DEF TheFifo!Write, Answered, Nothing
  <2> QED
    BY <2>3 DEF TheFifo!Next, TheFifo!Chunks, Chunks
<1> QED
  BY <1>1, <1>2, <1>3, CallCases

\* The shifting buffer, read and written through however many descriptors, is
\* a pipe to its writers: nothing is in it at first, however full its index
\* says it is, and what was written leaves it once and in the order it came.
THEOREM FifoIsPipe == OpenSpec => IsPipe
<1>1. OpenInit => TheFifo!Init
  <2> SUFFICES ASSUME OpenInit
               PROVE  Held = <<>> /\ Answered(received) = <<>>
    BY DEF TheFifo!Init, Answered
  <2>1. buffer_index - unwritten = 0
    BY OpenAssumption, SMT DEF OpenInit
  <2>2. Held = <<>>
    BY <2>1 DEF Held
  <2> QED
    BY <2>2 DEF OpenInit, Answered, Nothing
<1>2. IInv /\ [OpenNext]_openVars => [TheFifo!Next]_TheFifo!vars
  BY StepIsPiped DEF IInv
<1> QED
  BY <1>1, <1>2, OpenFilesInvariance, PTL DEF OpenSpec, IsPipe, TheFifo!Spec

----------------------------------------------------------------------------
(* The tree the files are found in: every entry's inode stays cached, for    *)
(* every image, every further device and every mount.                        *)

Fields == {"ident", "parent", "dev", "ino", "children"}

EntriesInv ==
  /\ Len(dirent) \in Nat /\ dirent = [n \in 1 .. Len(dirent) |-> dirent[n]]
  /\ \A n \in 1 .. Len(dirent) :
       DOMAIN dirent[n] = Fields /\ dirent[n].dev \in Devices /\ dirent[n].ino \in Nat

Slot == [id : Nat, inode : Nat]

CachesInv ==
  /\ inode_cache \in [Devices -> Seq(Slot)]
  /\ \A d \in Devices : \A i, j \in 1 .. Len(inode_cache[d]) :
       inode_cache[d][i].id = inode_cache[d][j].id => i = j
  /\ inode_counter \in Nat
  /\ \A i \in 1 .. Len(inode_cache["udev"]) : inode_cache["udev"][i].id < inode_counter

\* Every entry is in the cache of its device, under its number.
EntriesCached ==
  \A n \in 1 .. Len(dirent) : \E i \in 1 .. Len(inode_cache[dirent[n].dev]) :
    inode_cache[dirent[n].dev][i] = [id |-> dirent[n].ino, inode |-> n]

TreeInv == root_of \in [Devices -> Nat] /\ EntriesInv /\ CachesInv /\ EntriesCached

\* A step that gives no entry another device or number, and makes none.
SameEntries(ds) ==
  /\ Len(ds) = Len(dirent) /\ ds = [n \in 1 .. Len(dirent) |-> ds[n]]
  /\ \A n \in 1 .. Len(dirent) :
       DOMAIN ds[n] = Fields /\ ds[n].dev = dirent[n].dev /\ ds[n].ino = dirent[n].ino

LEMMA DevicesAre == "initrd" \in Devices /\ "udev" \in Devices
BY DEF Devices

LEMMA InvCached == TreeInv => InodesCached
<1> SUFFICES ASSUME TreeInv, NEW n \in 1 .. Len(dirent)
             PROVE  LET cached == SelectInSeq(inode_cache[dirent[n].dev], LAMBDA c : c.id = dirent[n].ino)
                    IN cached # 0 /\ inode_cache[dirent[n].dev][cached].inode = n
  BY DEF InodesCached
<1> DEFINE d == dirent[n].dev
           cache == inode_cache[d]
           I == {k \in 1 .. Len(cache) : cache[k].id = dirent[n].ino}
<1>1. PICK i \in 1 .. Len(cache) : cache[i] = [id |-> dirent[n].ino, inode |-> n]
  BY DEF TreeInv, EntriesCached
<1>2. d \in Devices
  BY DEF TreeInv, EntriesInv
<1>3. I = {i}
  <2>1. cache[i].id = dirent[n].ino
    BY <1>1
  <2>2. \A k \in 1 .. Len(cache) : cache[k].id = cache[i].id => k = i
    BY <1>2 DEF TreeInv, CachesInv
  <2> HIDE DEF cache
  <2> QED
    BY <2>1, <2>2
<1>4. Len(cache) \in Nat
  BY <1>2 DEF TreeInv, CachesInv
<1>5. Min(I) = i
  <2>1. i \in I /\ \A k \in I : i =< k
    BY <1>3, <1>4
  <2>2. \A x \in I : x = i
    BY <1>3
  <2> QED
    BY <2>1, <2>2 DEF Min
<1>6. SelectInSeq(cache, LAMBDA c : c.id = dirent[n].ino) = i
  BY <1>3, <1>5 DEF SelectInSeq
<1>7. i # 0 /\ cache[i].inode = n
  BY <1>1, <1>4
<1> QED
  BY <1>6, <1>7, Zenon

LEMMA KeptBySame ==
  ASSUME TreeInv, SameEntries(dirent'),
         UNCHANGED <<root_of, inode_cache, inode_counter>>
  PROVE  TreeInv'
<1>1. EntriesInv'
  BY DEF TreeInv, EntriesInv, SameEntries
<1>2. CachesInv'
  BY DEF TreeInv, CachesInv
<1>3. EntriesCached'
  BY DEF TreeInv, EntriesCached, SameEntries
<1> QED
  BY <1>1, <1>2, <1>3 DEF TreeInv

LEMMA IsSeqOfItems ==
  ASSUME NEW m \in Nat, NEW s, s = [i \in 1 .. m |-> s[i]]
  PROVE  s \in Seq({s[i] : i \in 1 .. m}) /\ Len(s) = m /\ DOMAIN s = 1 .. m
<1> DEFINE S == {s[i] : i \in 1 .. m}
<1>1. s \in [1 .. m -> S]
  OBVIOUS
<1> HIDE DEF S
<1>2. s \in Seq(S)
  BY <1>1
<1>3. DOMAIN s = 1 .. m /\ Len(s) \in Nat /\ DOMAIN s = 1 .. Len(s)
  BY <1>1, <1>2, LenProperties
<1>4. Len(s) = m
  BY <1>3
<1> QED
  BY <1>2, <1>3, <1>4 DEF S

\* An entry of the same device and number in the place of an entry.
LEMMA ReplacedSame ==
  ASSUME TreeInv, NEW ds, SameEntries(ds), NEW n, NEW e,
         n \in 1 .. Len(dirent) =>
           DOMAIN e = Fields /\ e.dev = ds[n].dev /\ e.ino = ds[n].ino
  PROVE  SameEntries([ds EXCEPT ![n] = e])
<1> DEFINE new == [ds EXCEPT ![n] = e]
<1>1. Len(dirent) \in Nat /\ ds = [i \in 1 .. Len(dirent) |-> ds[i]]
  BY DEF TreeInv, EntriesInv, SameEntries
<1>2. new = [i \in 1 .. Len(dirent) |-> IF i = n THEN e ELSE ds[i]]
  BY <1>1
<1>3. new = [i \in 1 .. Len(dirent) |-> new[i]]
  BY <1>2
<1> HIDE DEF new
<1>4. Len(new) = Len(dirent)
  BY <1>1, <1>3, IsSeqOfItems
<1>5. \A i \in 1 .. Len(dirent) :
        DOMAIN new[i] = Fields /\ new[i].dev = dirent[i].dev /\ new[i].ino = dirent[i].ino
  BY <1>2 DEF SameEntries
<1> QED
  BY <1>3, <1>4, <1>5 DEF SameEntries, new

LEMMA UnchangedSame == TreeInv => SameEntries(dirent)
BY DEF SameEntries, TreeInv, EntriesInv

\* A name, a parent or the children are no device and no number.
LEMMA FieldsSame ==
  ASSUME TreeInv, NEW ds, SameEntries(ds), NEW n, NEW v
  PROVE  /\ SameEntries([ds EXCEPT ![n].ident = v])
         /\ SameEntries([ds EXCEPT ![n].parent = v])
         /\ SameEntries([ds EXCEPT ![n].children = v])
<1>1. n \in 1 .. Len(dirent) => DOMAIN ds[n] = Fields
  BY DEF SameEntries
<1>2. ASSUME NEW e,
             \E f \in {"ident", "parent", "children"} : e = [ds[n] EXCEPT ![f] = v]
      PROVE  SameEntries([ds EXCEPT ![n] = e])
  BY <1>1, <1>2, ReplacedSame DEF Fields
<1>3. /\ [ds EXCEPT ![n].ident = v] = [ds EXCEPT ![n] = [ds[n] EXCEPT !["ident"] = v]]
      /\ [ds EXCEPT ![n].parent = v] = [ds EXCEPT ![n] = [ds[n] EXCEPT !["parent"] = v]]
      /\ [ds EXCEPT ![n].children = v] = [ds EXCEPT ![n] = [ds[n] EXCEPT !["children"] = v]]
  OBVIOUS
<1> QED
  BY <1>2, <1>3

\* A mount gives no entry another device or number.
LEMMA MountSame ==
  ASSUME TreeInv,
         \/ \E d : MountRoot(d)
         \/ \E d, path : MountStops(d, path) \/ MountCovers(d, path)
  PROVE  SameEntries(dirent')
<1>1. ASSUME NEW d, MountRoot(d)
      PROVE  SameEntries(dirent')
  <2>1. PICK ds : ds = Named(d, <<"", "">>)
    OBVIOUS
  <2>2. SameEntries(ds)
    BY <2>1, UnchangedSame, FieldsSame DEF Named
  <2>3. dirent' = [ds EXCEPT ![root_of[d]].parent = NoParent]
    BY <1>1, <2>1 DEF MountRoot
  <2> QED
    BY <2>2, <2>3, FieldsSame
<1>2. ASSUME NEW d, NEW path, MountStops(d, path)
      PROVE  SameEntries(dirent')
  BY <1>2, UnchangedSame, FieldsSame DEF MountStops, Named
<1>3. ASSUME NEW d, NEW path, MountCovers(d, path)
      PROVE  SameEntries(dirent')
  <2>1. PICK n, place : dirent' = [Named(d, path) EXCEPT ![n].children[place] = root_of[d]]
    BY <1>3 DEF MountCovers
  <2>2. PICK ds : ds = Named(d, path)
    OBVIOUS
  <2>3. SameEntries(ds)
    BY <2>2, UnchangedSame, FieldsSame DEF Named
  <2>4. dirent' = [ds EXCEPT ![n].children = [ds[n].children EXCEPT ![place] = root_of[d]]]
    BY <2>1, <2>2
  <2> QED
    BY <2>3, <2>4, FieldsSame
<1> QED
  BY <1>1, <1>2, <1>3

----------------------------------------------------------------------------
(* Entries that are made *)

LEMMA AppendOne ==
  ASSUME NEW s, Len(s) \in Nat, s = [n \in 1 .. Len(s) |-> s[n]], NEW e
  PROVE  /\ Len(Append(s, e)) = Len(s) + 1
         /\ Append(s, e) = [n \in 1 .. Len(s) + 1 |-> Append(s, e)[n]]
         /\ \A n \in 1 .. Len(s) : Append(s, e)[n] = s[n]
         /\ Append(s, e)[Len(s) + 1] = e
<1> DEFINE S == {s[n] : n \in 1 .. Len(s)} \cup {e}
<1>1. s \in Seq(S) /\ e \in S
  <2>1. s \in Seq({s[n] : n \in 1 .. Len(s)})
    BY IsSeqOfItems
  <2> QED
    BY <2>1, SeqMonotonic
<1> HIDE DEF S
<1>2. /\ Append(s, e) \in Seq(S)
      /\ Len(Append(s, e)) = Len(s) + 1
      /\ \A i \in 1 .. Len(s) : Append(s, e)[i] = s[i]
      /\ Append(s, e)[Len(s) + 1] = e
  BY <1>1, AppendProperties
<1>3. Append(s, e) \in [1 .. Len(s) + 1 -> S]
  BY <1>2, LenProperties
<1>4. Append(s, e) = [n \in 1 .. Len(s) + 1 |-> Append(s, e)[n]]
  BY <1>3
<1> QED
  BY <1>2, <1>4

\* New entries of udev that its cache gets under new numbers.
LEMMA GrowKeeps ==
  ASSUME TreeInv,
         NEW new \in Seq(Slot),
         \A j, k \in 1 .. Len(new) : new[j].id = new[k].id => j = k,
         inode_counter' \in Nat, inode_counter <= inode_counter',
         \A j \in 1 .. Len(new) : inode_counter <= new[j].id /\ new[j].id < inode_counter',
         inode_cache' = [inode_cache EXCEPT !["udev"] = @ \o new],
         root_of' \in [Devices -> Nat],
         Len(dirent') \in Nat, dirent' = [n \in 1 .. Len(dirent') |-> dirent'[n]],
         Len(dirent) <= Len(dirent'),
         \A n \in 1 .. Len(dirent) :
           DOMAIN dirent'[n] = Fields /\ dirent'[n].dev = dirent[n].dev /\ dirent'[n].ino = dirent[n].ino,
         \A n \in Len(dirent) + 1 .. Len(dirent') :
           /\ DOMAIN dirent'[n] = Fields /\ dirent'[n].dev = "udev" /\ dirent'[n].ino \in Nat
           /\ \E j \in 1 .. Len(new) : new[j] = [id |-> dirent'[n].ino, inode |-> n]
  PROVE  TreeInv'
<1> DEFINE old == inode_cache["udev"]
           both == old \o new
<1>1. old \in Seq(Slot)
  BY DevicesAre DEF TreeInv, CachesInv
<1>2. /\ both \in Seq(Slot) /\ Len(both) = Len(old) + Len(new)
      /\ Len(old) \in Nat /\ Len(new) \in Nat
      /\ \A i \in 1 .. Len(old) : both[i] = old[i]
      /\ \A i \in 1 .. Len(new) : both[Len(old) + i] = new[i]
  <2> HIDE DEF old
  <2>1. Len(old) \in Nat /\ Len(new) \in Nat
    BY <1>1, LenProperties
  <2>2. /\ both \in Seq(Slot) /\ Len(both) = Len(old) + Len(new)
        /\ \A i \in 1 .. Len(old) + Len(new) :
             both[i] = IF i <= Len(old) THEN old[i] ELSE new[i - Len(old)]
    BY <1>1, ConcatProperties
  <2> HIDE DEF both
  <2>3. \A i \in 1 .. Len(old) : both[i] = old[i]
    BY <2>1, <2>2
  <2>4. ASSUME NEW i \in 1 .. Len(new)
        PROVE  both[Len(old) + i] = new[i]
    <3>1. Len(old) + i \in 1 .. Len(old) + Len(new) /\ ~ (Len(old) + i <= Len(old))
          /\ Len(old) + i - Len(old) = i
      BY <2>1
    <3> QED
      BY <3>1, <2>2
  <2> QED
    BY <2>1, <2>2, <2>3, <2>4
<1>3. inode_cache'["udev"] = both
      /\ \A d \in Devices \ {"udev"} : inode_cache'[d] = inode_cache[d]
  BY DevicesAre DEF TreeInv, CachesInv
<1>4. inode_cache' \in [Devices -> Seq(Slot)]
  BY <1>2 DEF TreeInv, CachesInv
<1>5. \A i \in 1 .. Len(both) :
        \/ i \in 1 .. Len(old) /\ both[i] = old[i] /\ old[i].id < inode_counter /\ old[i].id \in Nat
        \/ i - Len(old) \in 1 .. Len(new) /\ both[i] = new[i - Len(old)]
  <2> SUFFICES ASSUME NEW i \in 1 .. Len(both)
               PROVE  \/ i \in 1 .. Len(old) /\ both[i] = old[i] /\ old[i].id < inode_counter /\ old[i].id \in Nat
                      \/ i - Len(old) \in 1 .. Len(new) /\ both[i] = new[i - Len(old)]
    OBVIOUS
  <2>1. CASE i <= Len(old)
    <3>1. i \in 1 .. Len(old)
      BY <2>1, <1>2
    <3>2. old[i].id < inode_counter
      BY <3>1 DEF TreeInv, CachesInv
    <3>3. old[i] \in Slot
      BY <3>1, <1>1, ElementOfSeq
    <3> QED
      BY <3>1, <3>2, <3>3, <1>2 DEF Slot
  <2>2. CASE Len(old) < i
    <3>1. i - Len(old) \in 1 .. Len(new)
      BY <2>2, <1>2
    <3> DEFINE j == i - Len(old)
    <3>2. Len(old) + j = i
      BY <1>2
    <3>3. both[Len(old) + j] = new[j]
      BY <3>1, <1>2
    <3> QED
      BY <3>1, <3>2, <3>3
  <2> QED
    BY <2>1, <2>2, <1>2
<1>6. \A j \in 1 .. Len(new) : new[j].id \in Nat
  <2> SUFFICES ASSUME NEW j \in 1 .. Len(new)
               PROVE  new[j].id \in Nat
    OBVIOUS
  <2>1. new[j] \in Slot
    BY ElementOfSeq
  <2> QED
    BY <2>1 DEF Slot
<1>7. \A i, k \in 1 .. Len(old) : old[i].id = old[k].id => i = k
  BY DevicesAre DEF TreeInv, CachesInv
<1>8. inode_counter \in Nat
  BY DEF TreeInv, CachesInv
<1>9. \A i, k \in 1 .. Len(both) : both[i].id = both[k].id => i = k
  <2> SUFFICES ASSUME NEW i \in 1 .. Len(both), NEW k \in 1 .. Len(both), both[i].id = both[k].id
               PROVE  i = k
    OBVIOUS
  <2> DEFINE Old(x) == x \in 1 .. Len(old) /\ both[x] = old[x] /\ old[x].id < inode_counter /\ old[x].id \in Nat
             New(x) == x - Len(old) \in 1 .. Len(new) /\ both[x] = new[x - Len(old)]
  <2>1. (Old(i) \/ New(i)) /\ (Old(k) \/ New(k))
    BY <1>5
  <2>2. \A x : New(x) => inode_counter <= both[x].id /\ both[x].id \in Nat
    BY <1>6
  <2> HIDE DEF both, old
  <2>3. CASE Old(i) /\ Old(k)
    BY <2>3, <1>7
  <2>4. CASE New(i) /\ New(k)
    <3>1. i - Len(old) = k - Len(old)
      <4>1. PICK j \in 1 .. Len(new) : j = i - Len(old) /\ both[i] = new[j]
        BY <2>4
      <4>2. PICK l \in 1 .. Len(new) : l = k - Len(old) /\ both[k] = new[l]
        BY <2>4
      <4> QED
        BY <4>1, <4>2
    <3> QED
      BY <3>1, <1>2
  <2>5. CASE (Old(i) /\ New(k)) \/ (New(i) /\ Old(k))
    <3>1. \A x : Old(x) => both[x].id < inode_counter /\ both[x].id \in Nat
      OBVIOUS
    <3> HIDE DEF Old, New
    <3>2. both[i].id # both[k].id
      BY <2>2, <2>5, <3>1, <1>8
    <3> QED
      BY <3>2
  <2> QED
    BY <2>1, <2>3, <2>4, <2>5
<1>10. \A i \in 1 .. Len(both) : both[i].id < inode_counter'
  <2> SUFFICES ASSUME NEW i \in 1 .. Len(both)
               PROVE  both[i].id < inode_counter'
    OBVIOUS
  <2> HIDE DEF both, old
  <2>1. CASE both[i] = old[i] /\ old[i].id < inode_counter /\ old[i].id \in Nat
    BY <2>1, <1>8
  <2>2. CASE i - Len(old) \in 1 .. Len(new) /\ both[i] = new[i - Len(old)]
    BY <2>2
  <2> QED
    BY <2>1, <2>2, <1>5
<1>11. CachesInv'
  <2>1. \A d \in Devices : \A i, j \in 1 .. Len(inode_cache'[d]) :
          inode_cache'[d][i].id = inode_cache'[d][j].id => i = j
    <3>1. ASSUME NEW d \in Devices, d # "udev", NEW i \in 1 .. Len(inode_cache[d]),
                 NEW j \in 1 .. Len(inode_cache[d]), inode_cache[d][i].id = inode_cache[d][j].id
          PROVE  i = j
      BY <3>1 DEF TreeInv, CachesInv
    <3> HIDE DEF both
    <3>2. ASSUME NEW d \in Devices, NEW i \in 1 .. Len(inode_cache'[d]), NEW j \in 1 .. Len(inode_cache'[d]),
                 inode_cache'[d][i].id = inode_cache'[d][j].id
          PROVE  i = j
      <4>1. CASE d = "udev"
        <5>1. inode_cache'[d] = both
          BY <4>1, <1>3
        <5>2. i \in 1 .. Len(both) /\ j \in 1 .. Len(both) /\ both[i].id = both[j].id
          BY <3>2, <5>1
        <5> QED
          BY <1>9, <5>2
      <4>2. CASE d # "udev"
        <5>1. inode_cache'[d] = inode_cache[d]
          BY <4>2, <1>3
        <5> QED
          BY <4>2, <5>1, <3>2, <3>1
      <4> QED
        BY <4>1, <4>2
    <3> QED
      BY <3>2
  <2> HIDE DEF both
  <2> QED
    BY <2>1, <1>3, <1>4, <1>10 DEF CachesInv
<1>12. EntriesInv'
  <2> SUFFICES ASSUME NEW n \in 1 .. Len(dirent')
               PROVE  DOMAIN dirent'[n] = Fields /\ dirent'[n].dev \in Devices /\ dirent'[n].ino \in Nat
    BY DEF EntriesInv
  <2>1. n \in 1 .. Len(dirent) \/ n \in Len(dirent) + 1 .. Len(dirent')
    BY DEF TreeInv, EntriesInv
  <2> QED
    BY <2>1, DevicesAre DEF TreeInv, EntriesInv
<1>13. EntriesCached'
  <2> SUFFICES ASSUME NEW n \in 1 .. Len(dirent')
               PROVE  \E i \in 1 .. Len(inode_cache'[dirent'[n].dev]) :
                        inode_cache'[dirent'[n].dev][i] = [id |-> dirent'[n].ino, inode |-> n]
    BY DEF EntriesCached
  <2>1. n \in 1 .. Len(dirent) \/ n \in Len(dirent) + 1 .. Len(dirent')
    BY DEF TreeInv, EntriesInv
  <2>2. CASE n \in 1 .. Len(dirent)
    <3>1. PICK i \in 1 .. Len(inode_cache[dirent[n].dev]) :
            inode_cache[dirent[n].dev][i] = [id |-> dirent[n].ino, inode |-> n]
      BY <2>2 DEF TreeInv, EntriesCached
    <3>2. dirent'[n].dev = dirent[n].dev /\ dirent'[n].ino = dirent[n].ino
      BY <2>2
    <3>3. CASE dirent[n].dev = "udev"
      <4>1. i \in 1 .. Len(both) /\ both[i] = [id |-> dirent[n].ino, inode |-> n]
        BY <3>1, <3>3, <1>2
      <4> QED
        BY <4>1, <3>2, <3>3, <1>3
    <3>4. CASE dirent[n].dev # "udev"
      <4>1. inode_cache'[dirent[n].dev] = inode_cache[dirent[n].dev]
        BY <2>2, <3>4, <1>3 DEF TreeInv, EntriesInv
      <4> QED
        BY <4>1, <3>1, <3>2
    <3> QED
      BY <3>3, <3>4
  <2>3. CASE n \in Len(dirent) + 1 .. Len(dirent')
    <3>1. PICK j \in 1 .. Len(new) : new[j] = [id |-> dirent'[n].ino, inode |-> n]
      BY <2>3
    <3>2. Len(old) + j \in 1 .. Len(both) /\ both[Len(old) + j] = new[j]
      <4> HIDE DEF both, old
      <4>1. both[Len(old) + j] = new[j]
        BY <1>2
      <4> QED
        BY <4>1, <1>2
    <3>3. inode_cache'[dirent'[n].dev] = both
      BY <2>3, <1>3
    <3>4. both[Len(old) + j] = [id |-> dirent'[n].ino, inode |-> n]
      BY <3>1, <3>2
    <3> HIDE DEF both, old
    <3> QED
      BY <3>2, <3>3, <3>4
  <2> QED
    BY <2>1, <2>2, <2>3
<1> QED
  BY <1>11, <1>12, <1>13 DEF TreeInv

LEMMA SlotIs == ASSUME NEW i \in Nat, NEW n \in Nat PROVE [id |-> i, inode |-> n] \in Slot
BY DEF Slot

\* The tree that an entry and a child behind it give.
LEMMA ChildAdded ==
  ASSUME NEW m \in Nat, NEW ds, ds = [n \in 1 .. m |-> ds[n]],
         \A n \in 1 .. m : DOMAIN ds[n] = Fields,
         NEW d, NEW child
  PROVE  LET new == add_child(ds, d, child)
         IN /\ Len(new) = m /\ new = [n \in 1 .. m |-> new[n]]
            /\ \A n \in 1 .. m :
                 DOMAIN new[n] = Fields /\ new[n].dev = ds[n].dev /\ new[n].ino = ds[n].ino
<1> DEFINE new == add_child(ds, d, child)
<1>1. new = [n \in 1 .. m |-> IF n = d THEN [ds[n] EXCEPT !.children = Append(@, child)] ELSE ds[n]]
  BY DEF add_child
<1>2. new = [n \in 1 .. m |-> new[n]]
  BY <1>1
<1>3. \A n \in 1 .. m :
        DOMAIN new[n] = Fields /\ new[n].dev = ds[n].dev /\ new[n].ino = ds[n].ino
  BY <1>1 DEF Fields
<1> HIDE DEF new
<1>4. Len(new) = m
  BY <1>2, IsSeqOfItems
<1> QED
  BY <1>2, <1>3, <1>4 DEF new

LEMMA EntryFields ==
  ASSUME NEW ident, NEW parent, NEW dev, NEW ino
  PROVE  LET e == Entry(ident, parent, dev, ino)
         IN DOMAIN e = Fields /\ e.dev = dev /\ e.ino = ino
BY DEF Entry, Fields

LEMMA MakeFileKeeps == ASSUME TreeInv, NEW name, make_file(name) PROVE TreeInv'
<1> DEFINE L == Len(dirent)
           r == root_of'["udev"]
           e == Entry(<<name>>, r, "udev", inode_counter)
           ds == Append(dirent, e)
           new == <<[id |-> inode_counter, inode |-> L + 1]>>
<1>1. /\ root_of' = root_of
      /\ dirent' = add_child(ds, r, L + 1)
      /\ inode_cache' = [inode_cache EXCEPT !["udev"] = Append(inode_cache["udev"], [id |-> inode_counter, inode |-> L + 1])]
      /\ inode_counter' = inode_counter + 1
  BY DEF make_file, AddFile
<1>2. L \in Nat /\ inode_counter \in Nat /\ inode_cache["udev"] \in Seq(Slot)
      /\ dirent = [n \in 1 .. L |-> dirent[n]]
      /\ \A n \in 1 .. L : DOMAIN dirent[n] = Fields
  BY DevicesAre DEF TreeInv, EntriesInv, CachesInv
<1>3. DOMAIN e = Fields /\ e.dev = "udev" /\ e.ino = inode_counter
  BY EntryFields
<1> HIDE DEF e
<1>4. /\ Len(ds) = L + 1 /\ ds = [n \in 1 .. L + 1 |-> ds[n]]
      /\ \A n \in 1 .. L : ds[n] = dirent[n]
      /\ ds[L + 1] = e
  BY <1>2, AppendOne
<1> HIDE DEF ds, r, L
<1>20. \A n \in 1 .. L + 1 : n \in 1 .. L \/ n = L + 1
  BY <1>2
<1>21. L + 1 \in Nat /\ L + 1 \in 1 .. L + 1 /\ \A n \in 1 .. L : n \in 1 .. L + 1
  BY <1>2
<1>5. \A n \in 1 .. L + 1 : DOMAIN ds[n] = Fields
  BY <1>2, <1>3, <1>4, <1>20
<1>6. /\ Len(dirent') = L + 1 /\ dirent' = [n \in 1 .. L + 1 |-> dirent'[n]]
      /\ \A n \in 1 .. L + 1 :
           DOMAIN dirent'[n] = Fields /\ dirent'[n].dev = ds[n].dev /\ dirent'[n].ino = ds[n].ino
  <2>1. PICK y : y = add_child(ds, r, L + 1)
    OBVIOUS
  <2>2. /\ Len(y) = L + 1 /\ y = [n \in 1 .. L + 1 |-> y[n]]
        /\ \A n \in 1 .. L + 1 : DOMAIN y[n] = Fields /\ y[n].dev = ds[n].dev /\ y[n].ino = ds[n].ino
    BY <2>1, <1>4, <1>5, <1>21, ChildAdded
  <2>3. dirent' = y
    BY <2>1, <1>1
  <2> QED
    BY <2>2, <2>3
<1>7. \A n \in 1 .. L :
        DOMAIN dirent'[n] = Fields /\ dirent'[n].dev = dirent[n].dev /\ dirent'[n].ino = dirent[n].ino
  BY <1>4, <1>6, <1>21
<1>8. DOMAIN dirent'[L + 1] = Fields /\ dirent'[L + 1].dev = "udev" /\ dirent'[L + 1].ino = inode_counter
  BY <1>3, <1>4, <1>6, <1>21
<1>9. [id |-> inode_counter, inode |-> L + 1] \in Slot
  BY <1>2, SlotIs
<1>10. new \in Seq(Slot) /\ Len(new) = 1 /\ new[1] = [id |-> inode_counter, inode |-> L + 1]
  BY <1>9
<1>11. inode_cache' = [inode_cache EXCEPT !["udev"] = @ \o new]
  BY <1>1, <1>2, <1>9, AppendIsConcat
<1>12. root_of' \in [Devices -> Nat]
  BY <1>1 DEF TreeInv
<1>13. \A j \in 1 .. Len(new) : j = 1 /\ new[j].id = inode_counter
  BY <1>10
<1>14. \A n \in L + 1 .. Len(dirent') : n = L + 1
  BY <1>2, <1>6
<1>15. \A n \in L + 1 .. Len(dirent') :
         /\ DOMAIN dirent'[n] = Fields /\ dirent'[n].dev = "udev" /\ dirent'[n].ino \in Nat
         /\ \E j \in 1 .. Len(new) : new[j] = [id |-> dirent'[n].ino, inode |-> n]
  BY <1>2, <1>8, <1>10, <1>14
<1> HIDE DEF new
<1>16. inode_counter + 1 \in Nat /\ inode_counter <= inode_counter + 1 /\ inode_counter < inode_counter + 1
  BY <1>2
<1>17. /\ \A j, k \in 1 .. Len(new) : new[j].id = new[k].id => j = k
       /\ \A j \in 1 .. Len(new) : inode_counter <= new[j].id /\ new[j].id < inode_counter'
  BY <1>1, <1>2, <1>13
<1>18. Len(dirent') \in Nat /\ L <= Len(dirent') /\ dirent' = [n \in 1 .. Len(dirent') |-> dirent'[n]]
  BY <1>2, <1>6
<1> QED
  BY <1>16, <1>17, <1>18, <1>1, <1>7, <1>10, <1>11, <1>12, <1>15, GrowKeeps DEF L

LEMMA NewUdevKeeps == ASSUME TreeInv, NewUdev PROVE TreeInv'
<1> DEFINE L == Len(dirent)
           c == inode_counter
           e1 == [Entry(<<"">>, NoParent, "udev", c) EXCEPT !.children = <<L + 2>>]
           e2 == Entry(<<"tty0">>, L + 1, "udev", c + 1)
           ds == Append(dirent, e1)
           new == <<[id |-> c + 1, inode |-> L + 2], [id |-> c, inode |-> L + 1]>>
<1>2. L \in Nat /\ c \in Nat /\ dirent = [n \in 1 .. L |-> dirent[n]]
      /\ \A n \in 1 .. L : DOMAIN dirent[n] = Fields
  BY DEF TreeInv, EntriesInv, CachesInv
<1>1. /\ root_of' = [root_of EXCEPT !["udev"] = L + 1]
      /\ dirent' = Append(ds, e2)
      /\ inode_cache' = [inode_cache EXCEPT !["udev"] = @ \o new]
      /\ inode_counter' = c + 2
  <2>1. L + 1 + 1 = L + 2
    BY <1>2
  <2> QED
    BY <2>1 DEF NewUdev
<1>3. DOMAIN e1 = Fields /\ e1.dev = "udev" /\ e1.ino = c
  BY DEF Entry, Fields
<1>4. DOMAIN e2 = Fields /\ e2.dev = "udev" /\ e2.ino = c + 1
  BY EntryFields
<1> HIDE DEF e1, e2
<1>5. /\ Len(ds) = L + 1 /\ ds = [n \in 1 .. L + 1 |-> ds[n]]
      /\ \A n \in 1 .. L : ds[n] = dirent[n]
      /\ ds[L + 1] = e1
  BY <1>2, AppendOne
<1> HIDE DEF ds
<1>6. /\ Len(dirent') = L + 2 /\ dirent' = [n \in 1 .. L + 2 |-> dirent'[n]]
      /\ \A n \in 1 .. L + 1 : dirent'[n] = ds[n]
      /\ dirent'[L + 2] = e2
  <2>1. Len(ds) \in Nat /\ Len(ds) + 1 = L + 2 /\ ds = [n \in 1 .. Len(ds) |-> ds[n]]
    BY <1>2, <1>5
  <2> QED
    BY <1>1, <1>5, <2>1, AppendOne
<1>7. \A n \in 1 .. L : dirent'[n] = dirent[n]
  <2>1. \A n \in 1 .. L : n \in 1 .. L + 1
    BY <1>2
  <2> QED
    BY <1>5, <1>6, <2>1
<1>8. dirent'[L + 1] = e1
  <2>1. L + 1 \in 1 .. L + 1
    BY <1>2
  <2> QED
    BY <1>5, <1>6, <2>1
<1> HIDE DEF L, c
<1>18. L + 1 \in Nat /\ L + 2 \in Nat /\ c + 1 \in Nat
  BY <1>2
<1>9. [id |-> c + 1, inode |-> L + 2] \in Slot /\ [id |-> c, inode |-> L + 1] \in Slot
  BY <1>2, <1>18, SlotIs
<1>10. new \in Seq(Slot) /\ Len(new) = 2 /\ new[1] = [id |-> c + 1, inode |-> L + 2]
       /\ new[2] = [id |-> c, inode |-> L + 1]
  BY <1>9
<1>11. root_of' \in [Devices -> Nat]
  BY <1>1, <1>18 DEF TreeInv
<1>12. \A j \in 1 .. Len(new) : (j = 1 /\ new[j].id = c + 1) \/ (j = 2 /\ new[j].id = c)
  BY <1>10
<1>13. \A n \in L + 1 .. Len(dirent') : n = L + 1 \/ n = L + 2
  BY <1>2, <1>6
<1>14. \A n \in L + 1 .. Len(dirent') :
         /\ DOMAIN dirent'[n] = Fields /\ dirent'[n].dev = "udev" /\ dirent'[n].ino \in Nat
         /\ \E j \in 1 .. Len(new) : new[j] = [id |-> dirent'[n].ino, inode |-> n]
  <2>1. /\ DOMAIN dirent'[L + 1] = Fields /\ dirent'[L + 1].dev = "udev" /\ dirent'[L + 1].ino = c
        /\ DOMAIN dirent'[L + 2] = Fields /\ dirent'[L + 2].dev = "udev" /\ dirent'[L + 2].ino = c + 1
    BY <1>3, <1>4, <1>6, <1>8
  <2>2. 1 \in 1 .. Len(new) /\ 2 \in 1 .. Len(new)
    BY <1>10
  <2> SUFFICES ASSUME NEW n \in L + 1 .. Len(dirent')
               PROVE  /\ DOMAIN dirent'[n] = Fields /\ dirent'[n].dev = "udev" /\ dirent'[n].ino \in Nat
                      /\ \E j \in 1 .. Len(new) : new[j] = [id |-> dirent'[n].ino, inode |-> n]
    OBVIOUS
  <2> HIDE DEF new
  <2>3. CASE n = L + 1
    BY <2>1, <2>2, <2>3, <1>2, <1>10
  <2>4. CASE n = L + 2
    BY <2>1, <2>2, <2>4, <1>10, <1>18
  <2> QED
    BY <2>3, <2>4, <1>13
<1> HIDE DEF new
<1>15. \A j, k \in 1 .. Len(new) : new[j].id = new[k].id => j = k
  BY <1>12, <1>2
<1>16. c + 2 \in Nat /\ c <= c + 2 /\ \A j \in 1 .. Len(new) : c <= new[j].id /\ new[j].id < c + 2
  BY <1>12, <1>2
<1>17. Len(dirent') \in Nat /\ L <= Len(dirent') /\ dirent' = [n \in 1 .. Len(dirent') |-> dirent'[n]]
  BY <1>2, <1>6
<1>19. \A n \in 1 .. L :
         DOMAIN dirent'[n] = Fields /\ dirent'[n].dev = dirent[n].dev /\ dirent'[n].ino = dirent[n].ino
  BY <1>2, <1>7
<1>20. inode_counter' \in Nat /\ c <= inode_counter'
       /\ \A j \in 1 .. Len(new) : c <= new[j].id /\ new[j].id < inode_counter'
  BY <1>1, <1>16
<1>21. new \in Seq(Slot) /\ inode_cache' = [inode_cache EXCEPT !["udev"] = @ \o new]
  BY <1>1, <1>10
<1> QED
  BY <1>11, <1>14, <1>15, <1>17, <1>19, <1>20, <1>21, GrowKeeps DEF L, c

LEMMA TreeInvStep == TreeInv /\ [TreeNext]_treeVars => TreeInv'
<1> SUFFICES ASSUME TreeInv, [TreeNext]_treeVars
             PROVE  TreeInv'
  OBVIOUS
<1>1. CASE BootUdev
  BY <1>1, NewUdevKeeps DEF BootUdev
<1>2. CASE BootRoot
  BY <1>2, MountSame, KeptBySame DEF BootRoot
<1>3. CASE BootDev
  BY <1>3, MountSame, KeptBySame DEF BootDev
<1>4. CASE BootVga
  BY <1>4, MakeFileKeeps DEF BootVga
<1>5. CASE MakeFile
  BY <1>5, MakeFileKeeps DEF MakeFile
<1>6. CASE mount_device
  BY <1>6, MountSame, KeptBySame DEF mount_device
<1>7. CASE UNCHANGED treeVars
  BY <1>7, UnchangedSame, KeptBySame DEF treeVars
<1>8. CASE LookUpOrSpin
  BY <1>8, <1>7 DEF LookUpOrSpin
<1> QED
  BY <1>1, <1>2, <1>3, <1>4, <1>5, <1>6, <1>7, <1>8 DEF TreeNext

----------------------------------------------------------------------------
(* The tree that the boot begins with *)

\* Where entry n behind the image's stands: it is a root or the file behind one.
LEMMA ExtraPlace ==
  ASSUME NEW N \in Nat, NEW K \in Nat, NEW n \in N + 1 .. N + 2 * K
  PROVE  LET i == (n - N + 1) \div 2
         IN i \in 1 .. K /\ (n = N + 2 * i - 1 \/ n = N + 2 * i)
<1>1. PICK m \in Nat : m = n - N + 1 /\ 2 <= m /\ m <= 2 * K + 1
  BY SMT
<1>2. m \div 2 \in 1 .. K /\ (m = 2 * (m \div 2) \/ m = 2 * (m \div 2) + 1)
  BY <1>1, SMT
<1> QED
  BY <1>1, <1>2, SMT

LEMMA InitrdFields ==
  ASSUME NEW image, NEW n
  PROVE  LET e == InitrdEntry(image, n)
         IN DOMAIN e = Fields /\ e.dev = "initrd" /\ e.ino = n - 1
<1>1. \A ident, parent, children :
        LET e == [ident |-> ident, parent |-> parent, dev |-> "initrd", ino |-> n - 1, children |-> children]
        IN DOMAIN e = Fields /\ e.dev = "initrd" /\ e.ino = n - 1
  BY DEF Fields
<1> QED
  BY <1>1, Zenon DEF InitrdEntry

LEMMA TreeInvInit == TreeInit => TreeInv
<1> SUFFICES ASSUME TreeInit
             PROVE  TreeInv
  OBVIOUS
<1>1. PICK image \in Images : InitWith(image)
  BY DEF TreeInit
<1> DEFINE N == Len(image)
           K == Len(Extra)
           RootOf(i) == N + 2 * i - 1
           Place(d) == CHOOSE i \in DOMAIN Extra : Extra[i] = d
           ItemOf(i, n) == IF n = RootOf(i) THEN ExtraRoot(n, Extra[i]) ELSE ExtraFile(n, Extra[i])
           InitrdCache == [n \in 1 .. N |-> [id |-> n - 1, inode |-> n]]
           ExtraCache(i) == [k \in 1 .. 2 |-> [id |-> k - 1, inode |-> RootOf(i) + k - 1]]
<1>2. /\ N \in Nat /\ K \in Nat /\ DOMAIN Extra = 1 .. K
      /\ \A i, j \in 1 .. K : Extra[i] = Extra[j] => i = j
      /\ \A i \in 1 .. K : Extra[i] # "initrd" /\ Extra[i] # "udev" /\ Extra[i] \in Devices
  BY DevicesAssumption DEF IsInjective, Range, Devices
<1>3. /\ dirent = [n \in 1 .. N + 2 * K |->
            IF n <= N THEN InitrdEntry(image, n) ELSE ItemOf((n - N + 1) \div 2, n)]
      /\ root_of = [d \in Devices |->
            CASE d = "initrd" -> 1 [] d = "udev" -> 0 [] OTHER -> RootOf(Place(d))]
      /\ inode_cache = [d \in Devices |->
            CASE d = "initrd" -> InitrdCache [] d = "udev" -> <<>> [] OTHER -> ExtraCache(Place(d))]
  BY <1>1 DEF InitWith
<1>4. inode_counter = 0
  BY DEF TreeInit
<1>5. \A i \in 1 .. K : Place(Extra[i]) = i
  BY <1>2
<1>6. \A d \in Devices :
        \/ d = "initrd" /\ root_of[d] = 1 /\ inode_cache[d] = InitrdCache
        \/ d = "udev" /\ root_of[d] = 0 /\ inode_cache[d] = <<>>
        \/ \E i \in 1 .. K : d = Extra[i] /\ root_of[d] = RootOf(i) /\ inode_cache[d] = ExtraCache(i)
  <2>1. /\ root_of["initrd"] = 1 /\ inode_cache["initrd"] = InitrdCache
        /\ root_of["udev"] = 0 /\ inode_cache["udev"] = <<>>
    BY <1>3, DevicesAre
  <2>2. ASSUME NEW d \in Devices, d # "initrd", d # "udev"
        PROVE  \E i \in 1 .. K : d = Extra[i] /\ root_of[d] = RootOf(i) /\ inode_cache[d] = ExtraCache(i)
    <3>1. PICK i \in 1 .. K : d = Extra[i]
      BY <2>2, <1>2 DEF Devices, Range
    <3>2. Place(d) = i
      BY <3>1, <1>5
    <3>3. root_of[d] = RootOf(Place(d)) /\ inode_cache[d] = ExtraCache(Place(d))
      BY <2>2, <1>3
    <3> QED
      BY <3>1, <3>2, <3>3
  <2> HIDE DEF InitrdCache, ExtraCache, RootOf, Place
  <2> QED
    BY <2>1, <2>2
<1>7. InitrdCache \in Seq(Slot) /\ Len(InitrdCache) = N
      /\ \A n \in 1 .. N : InitrdCache[n] = [id |-> n - 1, inode |-> n]
  <2>1. \A n \in 1 .. N : [id |-> n - 1, inode |-> n] \in Slot
    BY <1>2, SlotIs
  <2> QED
    BY <2>1, <1>2
<1>8. ASSUME NEW i \in 1 .. K
      PROVE  /\ ExtraCache(i) \in Seq(Slot) /\ Len(ExtraCache(i)) = 2
             /\ \A k \in 1 .. 2 : ExtraCache(i)[k] = [id |-> k - 1, inode |-> RootOf(i) + k - 1]
             /\ RootOf(i) \in Nat
  <2>1. RootOf(i) \in Nat
    BY <1>2
  <2>2. \A k \in 1 .. 2 : [id |-> k - 1, inode |-> RootOf(i) + k - 1] \in Slot
    BY <2>1, SlotIs
  <2> QED
    BY <2>1, <2>2
<1> HIDE DEF InitrdCache, ExtraCache, RootOf
<1>9. root_of \in [Devices -> Nat]
  <2>1. ASSUME NEW d \in Devices
        PROVE  root_of[d] \in Nat
    <3>1. root_of[d] = 1 \/ root_of[d] = 0 \/ \E i \in 1 .. K : root_of[d] = RootOf(i)
      BY <1>6
    <3>2. \A i \in 1 .. K : RootOf(i) \in Nat
      BY <1>8
    <3> QED
      BY <3>1, <3>2
  <2>2. PICK F : F = [d \in Devices |->
                        CASE d = "initrd" -> 1 [] d = "udev" -> 0 [] OTHER -> RootOf(Place(d))]
    OBVIOUS
  <2>3. root_of = F
    BY <1>3, <2>2
  <2>4. DOMAIN F = Devices /\ F = [d \in Devices |-> F[d]]
    BY <2>2
  <2> QED
    BY <2>1, <2>3, <2>4
<1>10. CachesInv
  <2>1. ASSUME NEW d \in Devices
        PROVE  inode_cache[d] \in Seq(Slot)
    <3>1. CASE inode_cache[d] = InitrdCache
      BY <3>1, <1>7
    <3>2. CASE inode_cache[d] = <<>>
      BY <3>2
    <3>3. ASSUME NEW i \in 1 .. K, inode_cache[d] = ExtraCache(i)
          PROVE  inode_cache[d] \in Seq(Slot)
      BY <3>3, <1>8
    <3> QED
      BY <3>1, <3>2, <3>3, <1>6
  <2>2. ASSUME NEW d \in Devices, NEW a \in 1 .. Len(inode_cache[d]), NEW b \in 1 .. Len(inode_cache[d]),
               inode_cache[d][a].id = inode_cache[d][b].id
        PROVE  a = b
    <3>1. CASE inode_cache[d] = InitrdCache
      <4>1. a \in 1 .. N /\ b \in 1 .. N /\ InitrdCache[a].id = InitrdCache[b].id
        BY <2>2, <3>1, <1>7
      <4>2. \A n \in 1 .. N : InitrdCache[n].id = n - 1
        <5> SUFFICES ASSUME NEW n \in 1 .. N
                     PROVE  InitrdCache[n].id = n - 1
          OBVIOUS
        <5>1. InitrdCache[n] = [id |-> n - 1, inode |-> n]
          BY <1>7
        <5> QED
          BY <5>1
      <4>3. a - 1 = b - 1
        BY <4>1, <4>2
      <4> QED
        BY <4>1, <4>3, <1>2
    <3>2. CASE inode_cache[d] = <<>>
      BY <3>2
    <3>3. ASSUME NEW i \in 1 .. K, inode_cache[d] = ExtraCache(i)
          PROVE  a = b
      <4>1. a \in 1 .. 2 /\ b \in 1 .. 2 /\ ExtraCache(i)[a].id = ExtraCache(i)[b].id
        BY <2>2, <3>3, <1>8
      <4>2. \A k \in 1 .. 2 : ExtraCache(i)[k].id = k - 1
        <5> SUFFICES ASSUME NEW k \in 1 .. 2
                     PROVE  ExtraCache(i)[k].id = k - 1
          OBVIOUS
        <5>1. ExtraCache(i)[k] = [id |-> k - 1, inode |-> RootOf(i) + k - 1]
          BY <1>8
        <5> QED
          BY <5>1
      <4>3. a - 1 = b - 1
        BY <4>1, <4>2
      <4> QED
        BY <4>1, <4>3
    <3> QED
      BY <3>1, <3>2, <3>3, <1>6
  <2>3. inode_cache["udev"] = <<>>
    BY <1>2, <1>6, DevicesAre
  <2>4. inode_cache \in [Devices -> Seq(Slot)]
    BY <2>1, <1>3
  <2> QED
    BY <2>2, <2>3, <2>4, <1>4 DEF CachesInv
<1>11. \A n \in 1 .. N : dirent[n] = InitrdEntry(image, n)
  BY <1>2, <1>3
<1>12. ASSUME NEW n \in N + 1 .. N + 2 * K
       PROVE  \E i \in 1 .. K : \/ n = RootOf(i) /\ dirent[n] = ExtraRoot(n, Extra[i])
                                \/ n = RootOf(i) + 1 /\ dirent[n] = ExtraFile(n, Extra[i])
  <2> DEFINE i == (n - N + 1) \div 2
  <2>1. i \in 1 .. K /\ (n = N + 2 * i - 1 \/ n = N + 2 * i)
    BY <1>2, ExtraPlace
  <2>2. n \in 1 .. N + 2 * K /\ ~ (n <= N)
    BY <1>2
  <2>3. dirent[n] = ItemOf(i, n)
    BY <2>2, <1>3
  <2> HIDE DEF i
  <2>4. n = RootOf(i) \/ (n = RootOf(i) + 1 /\ n # RootOf(i))
    BY <2>1, <1>2 DEF RootOf
  <2> QED
    BY <2>1, <2>3, <2>4
<1>13. \A n \in 1 .. N + 2 * K : n \in 1 .. N \/ n \in N + 1 .. N + 2 * K
  BY <1>2
<1>14. ASSUME NEW n \in 1 .. N
       PROVE  DOMAIN dirent[n] = Fields /\ dirent[n].dev = "initrd" /\ dirent[n].ino = n - 1
  BY <1>11, InitrdFields
<1>15. ASSUME NEW n \in N + 1 .. N + 2 * K
       PROVE  /\ DOMAIN dirent[n] = Fields
              /\ \E i \in 1 .. K, k \in 1 .. 2 :
                   dirent[n].dev = Extra[i] /\ dirent[n].ino = k - 1 /\ n = RootOf(i) + k - 1
  <2>1. PICK i \in 1 .. K : \/ n = RootOf(i) /\ dirent[n] = ExtraRoot(n, Extra[i])
                            \/ n = RootOf(i) + 1 /\ dirent[n] = ExtraFile(n, Extra[i])
    BY <1>12
  <2>2. CASE n = RootOf(i) /\ dirent[n] = ExtraRoot(n, Extra[i])
    <3>1. DOMAIN dirent[n] = Fields /\ dirent[n].dev = Extra[i] /\ dirent[n].ino = 0
      BY <2>2 DEF ExtraRoot, Entry, Fields
    <3>2. 1 \in 1 .. 2 /\ 1 - 1 = 0 /\ n = RootOf(i) + 1 - 1
      BY <2>2, <1>8
    <3> QED
      BY <3>1, <3>2
  <2>3. CASE n = RootOf(i) + 1 /\ dirent[n] = ExtraFile(n, Extra[i])
    <3>1. DOMAIN dirent[n] = Fields /\ dirent[n].dev = Extra[i] /\ dirent[n].ino = 1
      BY <2>3, EntryFields DEF ExtraFile
    <3>2. 2 \in 1 .. 2 /\ 2 - 1 = 1 /\ n = RootOf(i) + 2 - 1
      BY <2>3, <1>8
    <3> QED
      BY <3>1, <3>2
  <2> QED
    BY <2>1, <2>2, <2>3
<1>16. Len(dirent) = N + 2 * K /\ N + 2 * K \in Nat /\ dirent = [n \in 1 .. N + 2 * K |-> dirent[n]]
  <2>1. N + 2 * K \in Nat
    BY <1>2
  <2>2. PICK m \in Nat : m = N + 2 * K
    BY <2>1
  <2>3. dirent = [n \in 1 .. m |-> dirent[n]]
    BY <1>3, <2>2
  <2>4. Len(dirent) = m
    BY <2>3, IsSeqOfItems
  <2> QED
    BY <2>2, <2>3, <2>4
<1>17. EntriesInv
  <2> SUFFICES ASSUME NEW n \in 1 .. N + 2 * K
               PROVE  DOMAIN dirent[n] = Fields /\ dirent[n].dev \in Devices /\ dirent[n].ino \in Nat
    BY <1>16 DEF EntriesInv
  <2>1. CASE n \in 1 .. N
    BY <2>1, <1>2, <1>14, DevicesAre
  <2>2. CASE n \in N + 1 .. N + 2 * K
    BY <2>2, <1>2, <1>15
  <2> QED
    BY <2>1, <2>2, <1>13
<1>18. EntriesCached
  <2> SUFFICES ASSUME NEW n \in 1 .. N + 2 * K
               PROVE  \E i \in 1 .. Len(inode_cache[dirent[n].dev]) :
                        inode_cache[dirent[n].dev][i] = [id |-> dirent[n].ino, inode |-> n]
    BY <1>16 DEF EntriesCached
  <2>1. CASE n \in 1 .. N
    <3>1. inode_cache["initrd"] = InitrdCache
      BY <1>2, <1>6, DevicesAre
    <3> QED
      BY <2>1, <3>1, <1>7, <1>14
  <2>2. CASE n \in N + 1 .. N + 2 * K
    <3>1. PICK i \in 1 .. K, k \in 1 .. 2 :
            dirent[n].dev = Extra[i] /\ dirent[n].ino = k - 1 /\ n = RootOf(i) + k - 1
      BY <2>2, <1>15
    <3>2. inode_cache[Extra[i]] = ExtraCache(i)
      BY <1>2, <1>6
    <3>3. k \in 1 .. Len(ExtraCache(i)) /\ ExtraCache(i)[k] = [id |-> k - 1, inode |-> RootOf(i) + k - 1]
      BY <1>8
    <3> QED
      BY <3>1, <3>2, <3>3
  <2> QED
    BY <2>1, <2>2, <1>13
<1> QED
  BY <1>9, <1>10, <1>17, <1>18 DEF TreeInv

\* InodesCached holds in every reachable state: whatever the image, the
\* devices and the mounts are, an entry's inode is found in its device's cache
\* under the entry's number (fs_device::get_inode), so a path that leads to
\* the entry leads to a file that can be opened.
THEOREM InodesStayCached == TreeSpec => []InodesCached
BY TreeInvInit, TreeInvStep, InvCached, PTL DEF TreeSpec

----------------------------------------------------------------------------
(* Lookups: a path is followed from child to child.                          *)

\* A set of numbers has a least one.
LEMMA LeastExists ==
  ASSUME NEW S, S \subseteq Nat, S # {}
  PROVE  \E x \in S : \A y \in S : x <= y
<1> DEFINE R == OpToRel(<, Nat)
<1>1. \A x, y \in Nat : y < x => <<y, x>> \in R
  BY DEF OpToRel
<1>2. IsWellFoundedOn(R, Nat)
  BY NatLessThanWellFounded
<1> HIDE DEF R
<1>3. PICK x \in S : \A y \in S : ~ (<<y, x>> \in R)
  BY <1>2, WFMin
<1>4. \A y \in S : ~ (y < x)
  BY <1>1, <1>3
<1>5. \A y \in S : x <= y
  BY <1>4, SMT
<1> QED
  BY <1>5

\* The numbers of a set, the greatest first.
Falls(s, C) ==
  /\ s \in [1 .. Cardinality(C) -> C]
  /\ \A i, j \in 1 .. Cardinality(C) : i < j => s[i] > s[j]

LEMMA FallsExists ==
  ASSUME NEW m \in Nat, NEW C, C \subseteq 1 .. m
  PROVE  Cardinality(C) \in Nat /\ \E s : Falls(s, C)
<1> DEFINE Has(n) == \A D \in SUBSET (1 .. n) : \E s : Falls(s, D)
           bad == {n \in Nat : ~ Has(n)}
<1>1. ASSUME NEW n \in Nat, NEW D \in SUBSET (1 .. n)
      PROVE  IsFiniteSet(D) /\ Cardinality(D) \in Nat
  <2>1. n \in Int /\ 1 \in Int /\ D \subseteq 1 .. n
    BY SMT
  <2>2. IsFiniteSet(1 .. n)
    BY <2>1, FS_Interval
  <2>3. IsFiniteSet(D)
    BY <2>1, <2>2, FS_Subset
  <2> QED
    BY <2>3, FS_CardinalityType
<1>2. ASSUME bad # {}
      PROVE  FALSE
  <2>1. PICK n \in bad : \A k \in bad : n <= k
    <3>1. bad \subseteq Nat
      OBVIOUS
    <3> HIDE DEF bad
    <3> QED
      BY <1>2, <3>1, LeastExists
  <2>2. PICK D \in SUBSET (1 .. n) : ~\E s : Falls(s, D)
    OBVIOUS
  <2>3. n \in Nat
    OBVIOUS
  <2> HIDE DEF Has
  <2>4. D # {}
    <3> SUFFICES ASSUME D = {}
                 PROVE  \E s : Falls(s, D)
      BY <2>2
    <3>1. Cardinality(D) = 0 /\ 1 .. 0 = {}
      BY FS_EmptySet, SMT
    <3>2. [i \in {} |-> i] \in [{} -> {}]
      OBVIOUS
    <3> QED
      BY <3>1, <3>2 DEF Falls
  <2>5. n > 0
    <3>1. PICK d \in D : TRUE
      BY <2>4
    <3>2. d \in 1 .. n
      BY <2>2
    <3> QED
      BY <2>3, <3>2, SMT
  <2>6. n - 1 \in Nat /\ ~ (n <= n - 1) /\ \A i \in 1 .. n : i = n \/ (i \in 1 .. n - 1 /\ n > i)
    BY <2>3, <2>5, SMT
  <2>7. Has(n - 1)
    BY <2>1, <2>6
  <2>8. CASE n \notin D
    <3>1. D \in SUBSET (1 .. n - 1)
      BY <2>6, <2>8
    <3> QED
      BY <2>2, <2>7, <3>1 DEF Has
  <2>9. CASE n \in D
    <3> DEFINE E == D \ {n}
    <3>1. E \in SUBSET (1 .. n - 1)
      BY <2>6
    <3>2. PICK s : Falls(s, E)
      BY <2>7, <3>1 DEF Has
    <3>3. PICK c : c = Cardinality(E)
      OBVIOUS
    <3>4. c \in Nat /\ Cardinality(D) = c + 1
      <4>1. IsFiniteSet(D) /\ Cardinality(D) \in Nat /\ c \in Nat
        BY <1>1, <2>3, <2>6, <3>1, <3>3
      <4>2. Cardinality(E) = Cardinality(D) - 1
        BY <2>9, <4>1, FS_RemoveElement
      <4> QED
        BY <3>3, <4>1, <4>2, SMT
    <3>5. s \in [1 .. c -> E] /\ \A i, j \in 1 .. c : i < j => s[i] > s[j]
      BY <3>2, <3>3 DEF Falls
    <3> DEFINE t == [i \in 1 .. c + 1 |-> IF i = 1 THEN n ELSE s[i - 1]]
    <3>6. \A i \in 1 .. c + 1 : i = 1 \/ (i - 1 \in 1 .. c /\ ~ (i < 1))
      BY <3>4, SMT
    <3>7. t \in [1 .. c + 1 -> D]
      BY <2>9, <3>5, <3>6
    <3>8. \A i \in 1 .. c : n > s[i]
      BY <2>6, <3>1, <3>5
    <3>9. ASSUME NEW i \in 1 .. c + 1, NEW j \in 1 .. c + 1, i < j
          PROVE  t[i] > t[j]
      <4>1. j # 1 /\ j - 1 \in 1 .. c
        BY <3>6, <3>9, <3>4, SMT
      <4>2. t[j] = s[j - 1]
        BY <4>1
      <4>3. CASE i = 1
        BY <4>1, <4>2, <4>3, <3>8
      <4>4. CASE i # 1
        <5>1. i - 1 \in 1 .. c /\ i - 1 < j - 1
          BY <3>4, <3>9, <4>4, SMT
        <5>2. t[i] = s[i - 1]
          BY <4>4
        <5> QED
          BY <3>5, <4>1, <4>2, <5>1, <5>2
      <4> QED
        BY <4>3, <4>4
    <3> HIDE DEF t
    <3>10. Falls(t, D)
      BY <3>4, <3>7, <3>9 DEF Falls
    <3> QED
      BY <2>2, <3>10
  <2> QED
    BY <2>8, <2>9
<1>3. m \notin bad
  BY <1>2
<1> QED
  BY <1>1, <1>3

\* The children that an image's entry begins with are entries of the image,
\* of which it is the parent.
LEMMA ImageChildren ==
  ASSUME NEW image, NEW N \in Nat, Len(image) = N, NEW n
  PROVE  LET list == ChildrenOf(image, n)
         IN /\ list \in Seq(2 .. N)
            /\ \A k \in 1 .. Len(list) : image[list[k]].parent = n
<1> DEFINE C == {c \in 2 .. N : image[c].parent = n}
           m == Cardinality(C)
<1>1. C \subseteq 1 .. N
  BY SMT
<1>2. \A c \in C : c \in 2 .. N /\ image[c].parent = n
  OBVIOUS
<1>3. PICK list : list = ChildrenOf(image, n)
  OBVIOUS
<1>4. list = CHOOSE s \in [1 .. m -> C] : \A i, j \in DOMAIN s : i < j => s[i] > s[j]
  BY <1>3 DEF ChildrenOf
<1> HIDE DEF C
<1>5. m \in Nat /\ \E s : Falls(s, C)
  BY <1>1, FallsExists
<1> HIDE DEF m
<1>6. \E s \in [1 .. m -> C] : \A i, j \in DOMAIN s : i < j => s[i] > s[j]
  BY <1>5 DEF Falls, m
<1>7. list \in [1 .. m -> C]
  BY <1>4, <1>6
<1>8. \A k \in 1 .. m : list[k] \in 2 .. N /\ image[list[k]].parent = n
  BY <1>2, <1>7
<1>9. list \in [1 .. m -> 2 .. N]
  BY <1>7, <1>2
<1>10. list \in Seq(2 .. N)
  BY <1>5, <1>9
<1>11. Len(list) = m
  <2>1. list = [k \in 1 .. m |-> list[k]]
    BY <1>9
  <2> QED
    BY <1>5, <2>1, IsSeqOfItems
<1> QED
  BY <1>3, <1>8, <1>10, <1>11

\* The first child of that name is in place k, or there is none.
IsFirst(ds, n, ident, k) ==
  /\ k \in 1 .. Len(ds[n].children) /\ ds[ds[n].children[k]].ident = ident
  /\ \A j \in 1 .. k - 1 : ds[ds[n].children[j]].ident # ident

HasNone(ds, n, ident) ==
  \A k \in 1 .. Len(ds[n].children) : ds[ds[n].children[k]].ident # ident

LEMMA FirstChildIs ==
  ASSUME NEW ds, NEW n, Len(ds[n].children) \in Nat, NEW ident
  PROVE  /\ HasNone(ds, n, ident) =>
              get_child_iter(ds, n, ident) = 0 /\ get_child(ds, n, ident) = 0
         /\ \A k : IsFirst(ds, n, ident, k) =>
              get_child_iter(ds, n, ident) = k /\ get_child(ds, n, ident) = ds[n].children[k]
         /\ HasNone(ds, n, ident) \/ \E k : IsFirst(ds, n, ident, k)
<1> DEFINE kids == ds[n].children
           I == {i \in 1 .. Len(kids) : ds[kids[i]].ident = ident}
<1>1. PICK m \in Nat : m = Len(kids)
  OBVIOUS
<1>2. get_child_iter(ds, n, ident) = IF I # {} THEN Min(I) ELSE 0
  BY DEF get_child_iter, SelectInSeq
<1>3. get_child(ds, n, ident) = IF get_child_iter(ds, n, ident) = 0 THEN 0 ELSE kids[get_child_iter(ds, n, ident)]
  BY DEF get_child
<1>4. HasNone(ds, n, ident) <=> I = {}
  BY DEF HasNone
<1>5. ASSUME NEW k, IsFirst(ds, n, ident, k)
      PROVE  get_child_iter(ds, n, ident) = k /\ get_child(ds, n, ident) = kids[k]
  <2>1. k \in I /\ \A i \in I : k =< i
    <3>1. k \in 1 .. m /\ \A j \in 1 .. k - 1 : j \notin I
      BY <1>1, <1>5 DEF IsFirst
    <3>2. \A i \in I : i \in 1 .. m
      BY <1>1
    <3>3. k \in I
      BY <1>5 DEF IsFirst
    <3> HIDE DEF I
    <3> QED
      BY <3>1, <3>2, <3>3, SMT
  <2>2. \A i \in I : i \in Nat
    BY <1>1
  <2>3. Min(I) = k
    <3>1. \A x, y \in Nat : x <= y /\ y <= x => x = y
      BY SMT
    <3> HIDE DEF I
    <3>2. \A x \in I : (\A i \in I : x =< i) => x = k
      BY <2>1, <2>2, <3>1
    <3> QED
      BY <2>1, <3>2 DEF Min
  <2>4. k # 0
    BY <2>1
  <2> QED
    BY <1>2, <1>3, <2>1, <2>3, <2>4
<1>6. ASSUME I # {}
      PROVE  \E k : IsFirst(ds, n, ident, k)
  <2>1. \A i \in I : i \in Nat /\ i \in 1 .. m
    BY <1>1
  <2>2. PICK k \in I : \A i \in I : k <= i
    <3> HIDE DEF I
    <3>1. I \subseteq Nat
      BY <2>1
    <3> QED
      BY <3>1, <1>6, LeastExists
  <2>3. \A j \in 1 .. k - 1 : j \in 1 .. m /\ ~ (k <= j)
    BY <2>1, SMT
  <2>4. \A j \in 1 .. k - 1 : j \notin I
    BY <2>2, <2>3
  <2> QED
    BY <1>1, <2>2, <2>3, <2>4 DEF IsFirst
<1> QED
  BY <1>2, <1>3, <1>4, <1>5, <1>6

\* What is found is a child of that name.
LEMMA FoundChild ==
  ASSUME NEW ds, NEW n, NEW S, ds[n].children \in Seq(S), NEW ident,
         get_child(ds, n, ident) # 0
  PROVE  /\ get_child(ds, n, ident) \in S
         /\ ds[get_child(ds, n, ident)].ident = ident
         /\ \E k \in 1 .. Len(ds[n].children) : get_child(ds, n, ident) = ds[n].children[k]
<1>1. Len(ds[n].children) \in Nat
  BY LenProperties
<1>2. ~ HasNone(ds, n, ident)
  BY <1>1, FirstChildIs
<1>3. PICK k : IsFirst(ds, n, ident, k)
  BY <1>1, <1>2, FirstChildIs
<1>4. get_child(ds, n, ident) = ds[n].children[k]
  BY <1>1, <1>3, FirstChildIs
<1>5. k \in 1 .. Len(ds[n].children) /\ ds[ds[n].children[k]].ident = ident
  BY <1>3 DEF IsFirst
<1>6. ds[n].children[k] \in S
  BY <1>5, ElementOfSeq
<1> QED
  BY <1>4, <1>5, <1>6

\* Where the children are the same, and their names, the same is found.
ChildrenAlike(ds, es, n, S) ==
  /\ ds[n].children \in Seq(S) /\ es[n].children = ds[n].children
  /\ \A c \in S : es[c].ident = ds[c].ident

LEMMA SameChild ==
  ASSUME NEW ds, NEW es, NEW n, NEW S, ChildrenAlike(ds, es, n, S), NEW ident
  PROVE  get_child(es, n, ident) = get_child(ds, n, ident)
<1> USE DEF ChildrenAlike
<1>1. Len(ds[n].children) \in Nat
  BY LenProperties
<1>2. \A k \in 1 .. Len(ds[n].children) : ds[n].children[k] \in S
  BY ElementOfSeq
<1>3. CASE HasNone(ds, n, ident)
  <2>1. HasNone(es, n, ident)
    BY <1>2, <1>3 DEF HasNone
  <2> QED
    BY <1>1, <1>3, <2>1, FirstChildIs
<1>4. ASSUME NEW k, IsFirst(ds, n, ident, k)
      PROVE  get_child(es, n, ident) = get_child(ds, n, ident)
  <2>1. k \in 1 .. Len(ds[n].children)
    BY <1>4 DEF IsFirst
  <2>2. \A j \in 1 .. k - 1 : j \in 1 .. Len(ds[n].children)
    BY <1>1, <2>1
  <2>3. IsFirst(es, n, ident, k)
    BY <1>2, <1>4, <2>1, <2>2 DEF IsFirst
  <2> QED
    BY <1>1, <1>4, <2>3, FirstChildIs
<1> QED
  BY <1>1, <1>3, <1>4, FirstChildIs

\* The steps of a lookup: one child for each name.
Steps(ds, from, path, m, f) ==
  /\ f[0] = from
  /\ \A k \in 1 .. m : f[k] = IF f[k - 1] = 0 THEN 0 ELSE get_child(ds, f[k - 1], <<path[k]>>)

\* The fold that the lookup is, over the places of the path taken so far.
IsFold(ds, from, path, m, f) ==
  f = [s \in SUBSET (1 .. m) |->
         IF s = {} THEN from
         ELSE IF f[s \ {Max(s)}] = 0 THEN 0 ELSE get_child(ds, f[s \ {Max(s)}], <<path[Max(s)]>>)]

LEMMA GreatestOf ==
  ASSUME NEW n \in Nat, NEW s \in SUBSET (1 .. n), n \in s
  PROVE  Max(s) = n
<1>1. n \in s /\ \A y \in s : n >= y
  OBVIOUS
<1>2. \A x \in s : (\A y \in s : x >= y) => x = n
  BY <1>1
<1> QED
  BY <1>1, <1>2 DEF Max

LEMMA FoldExists ==
  ASSUME NEW ds, NEW from, NEW path, NEW L \in Nat
  PROVE  \E f : IsFold(ds, from, path, L, f)
<1> DEFINE bad == {n \in Nat : ~\E f : IsFold(ds, from, path, n, f)}
           Next1(d, n) == IF d = 0 THEN 0 ELSE get_child(ds, d, <<path[n]>>)
<1> SUFFICES ASSUME bad # {}
             PROVE  FALSE
  OBVIOUS
<1>1. PICK n \in bad : \A m \in bad : n <= m
  <2>1. bad \subseteq Nat
    OBVIOUS
  <2> HIDE DEF bad
  <2> QED
    BY <2>1, LeastExists
<1>2. n \in Nat /\ ~\E f : IsFold(ds, from, path, n, f)
  OBVIOUS
<1>3. CASE n = 0
  <2>1. 1 .. 0 = {}
    BY SMT
  <2> DEFINE f == [s \in SUBSET (1 .. 0) |-> from]
  <2>2. \A s \in SUBSET (1 .. 0) : s = {} /\ f[s] = from
    BY <2>1
  <2>3. f = [s \in SUBSET (1 .. 0) |-> f[s]]
    OBVIOUS
  <2> HIDE DEF f
  <2>4. IsFold(ds, from, path, 0, f)
    BY <2>2, <2>3 DEF IsFold
  <2> QED
    BY <1>2, <1>3, <2>4
<1>4. CASE n # 0
  <2>1. n - 1 \in Nat /\ ~(n <= n - 1) /\ n \in 1 .. n
        /\ (\A i \in 1 .. n : i = n \/ i \in 1 .. n - 1)
        /\ n \notin 1 .. n - 1 /\ \A i \in 1 .. n - 1 : i \in 1 .. n
    BY <1>2, <1>4, SMT
  <2>2. PICK f : IsFold(ds, from, path, n - 1, f)
    <3>1. n - 1 \notin bad
      BY <1>1, <2>1
    <3> QED
      BY <2>1, <3>1
  <2>3. \A s \in SUBSET (1 .. n - 1) :
          f[s] = IF s = {} THEN from ELSE Next1(f[s \ {Max(s)}], Max(s))
    BY <2>2 DEF IsFold
  <2> HIDE DEF Next1
  <2> DEFINE g == [s \in SUBSET (1 .. n) |->
                     IF n \in s THEN Next1(f[s \ {n}], n) ELSE f[s]]
  <2>4. /\ \A s \in SUBSET (1 .. n) : g[s] = IF n \in s THEN Next1(f[s \ {n}], n) ELSE f[s]
        /\ g = [s \in SUBSET (1 .. n) |-> g[s]]
    OBVIOUS
  <2> HIDE DEF g
  <2>5. ASSUME NEW s \in SUBSET (1 .. n)
        PROVE  g[s] = IF s = {} THEN from ELSE Next1(g[s \ {Max(s)}], Max(s))
    <3>1. CASE n \in s
      <4>1. Max(s) = n
        BY <1>2, <3>1, GreatestOf
      <4>2. s \ {n} \in SUBSET (1 .. n) /\ n \notin s \ {n} /\ s # {}
        BY <3>1
      <4>3. g[s \ {n}] = f[s \ {n}]
        BY <2>4, <4>2
      <4> QED
        BY <2>4, <3>1, <4>1, <4>2, <4>3
    <3>2. CASE n \notin s
      <4>1. s \in SUBSET (1 .. n - 1)
        BY <2>1, <3>2
      <4> DEFINE t == s \ {Max(s)}
      <4>2. t \in SUBSET (1 .. n) /\ n \notin t
        BY <3>2
      <4>3. g[t] = f[t] /\ g[s] = f[s]
        <5> HIDE DEF t
        <5> QED
          BY <2>4, <3>2, <4>2
      <4> QED
        BY <2>3, <4>1, <4>3
    <3> QED
      BY <3>1, <3>2
  <2>6. IsFold(ds, from, path, n, g)
    BY <2>4, <2>5 DEF IsFold, Next1
  <2> QED
    BY <1>2, <2>6
<1> QED
  BY <1>3, <1>4

LEMMA WalkSteps ==
  ASSUME NEW ds, NEW from, NEW path, NEW m \in Nat, DOMAIN path = 1 .. m
  PROVE  \E f : Steps(ds, from, path, m, f) /\ Walk(ds, from, path) = f[m]
<1> DEFINE w == CHOOSE f : IsFold(ds, from, path, m, f)
<1>1. Walk(ds, from, path) = w[1 .. m]
  <2>1. Walk(ds, from, path) =
          (CHOOSE f : f = [s \in SUBSET (DOMAIN path) |->
             IF s = {} THEN from
             ELSE IF f[s \ {Max(s)}] = 0 THEN 0
                  ELSE get_child(ds, f[s \ {Max(s)}], <<path[Max(s)]>>)])[DOMAIN path]
    BY DEF Walk, FoldLeft, MapThenFoldSet
  <2> QED
    BY <2>1 DEF IsFold
<1>2. IsFold(ds, from, path, m, w)
  BY FoldExists
<1> HIDE DEF w
<1>3. \A s \in SUBSET (1 .. m) :
        w[s] = IF s = {} THEN from
               ELSE IF w[s \ {Max(s)}] = 0 THEN 0
                    ELSE get_child(ds, w[s \ {Max(s)}], <<path[Max(s)]>>)
  BY <1>2 DEF IsFold
<1> DEFINE f == [k \in 0 .. m |-> w[1 .. k]]
<1>4. f[0] = from
  <2>1. 1 .. 0 = {} /\ 0 \in 0 .. m
    BY SMT
  <2>2. w[{}] = from
    BY <1>3
  <2> QED
    BY <2>1, <2>2
<1>5. ASSUME NEW k \in 1 .. m
      PROVE  f[k] = IF f[k - 1] = 0 THEN 0 ELSE get_child(ds, f[k - 1], <<path[k]>>)
  <2>1. /\ k \in Nat /\ k \in 1 .. k /\ 1 .. k \in SUBSET (1 .. m) /\ (1 .. k) \ {k} = 1 .. k - 1
        /\ k \in 0 .. m /\ k - 1 \in 0 .. m
    BY SMT
  <2>2. Max(1 .. k) = k
    BY <2>1, GreatestOf
  <2>3. w[1 .. k] = IF w[1 .. k - 1] = 0 THEN 0 ELSE get_child(ds, w[1 .. k - 1], <<path[k]>>)
    BY <1>3, <2>1, <2>2
  <2> QED
    BY <2>1, <2>3
<1>6. f[m] = w[1 .. m]
  BY SMT
<1> HIDE DEF f
<1> QED
  BY <1>1, <1>4, <1>5, <1>6 DEF Steps

LEMMA Upward ==
  ASSUME NEW m \in Nat, NEW B, 0 \in B, \A k \in 1 .. m : k - 1 \in B => k \in B
  PROVE  \A k \in 0 .. m : k \in B
<1> DEFINE bad == {k \in 0 .. m : k \notin B}
<1> SUFFICES ASSUME bad # {}
             PROVE  FALSE
  OBVIOUS
<1>1. PICK k \in bad : \A j \in bad : k <= j
  <2>1. bad \subseteq Nat
    OBVIOUS
  <2> HIDE DEF bad
  <2> QED
    BY <2>1, LeastExists
<1>2. k \in 0 .. m /\ k \notin B
  OBVIOUS
<1>3. k \in 1 .. m /\ k - 1 \in 0 .. m /\ ~ (k <= k - 1)
  <2>1. k # 0
    BY <1>2
  <2> QED
    BY <1>2, <2>1, SMT
<1>4. k - 1 \in B
  BY <1>1, <1>3
<1> QED
  BY <1>2, <1>3, <1>4

\* A part of the tree that lookups do not leave, and in which they find the
\* same in two states of the tree.
SameLookups(A, ds, es) ==
  /\ 0 \notin A
  /\ \A n \in A, name \in Names :
       /\ get_child(ds, n, <<name>>) \in A \cup {0}
       /\ get_child(es, n, <<name>>) = get_child(ds, n, <<name>>)

LEMMA WalksAgree ==
  ASSUME NEW A, NEW ds, NEW es, SameLookups(A, ds, es), NEW from \in A \cup {0},
         NEW m \in Nat, NEW path \in [1 .. m -> Names]
  PROVE  Walk(es, from, path) = Walk(ds, from, path) /\ Walk(ds, from, path) \in A \cup {0}
<1>1. PICK f : Steps(ds, from, path, m, f) /\ Walk(ds, from, path) = f[m]
  BY WalkSteps
<1>2. PICK g : Steps(es, from, path, m, g) /\ Walk(es, from, path) = g[m]
  BY WalkSteps
<1> DEFINE B == {k \in Nat : f[k] \in A \cup {0} /\ g[k] = f[k]}
<1>3. 0 \in B
  BY <1>1, <1>2 DEF Steps
<1>4. ASSUME NEW k \in 1 .. m, k - 1 \in B
      PROVE  k \in B
  <2>1. /\ f[k] = IF f[k - 1] = 0 THEN 0 ELSE get_child(ds, f[k - 1], <<path[k]>>)
        /\ g[k] = IF g[k - 1] = 0 THEN 0 ELSE get_child(es, g[k - 1], <<path[k]>>)
    BY <1>1, <1>2 DEF Steps
  <2>2. f[k - 1] \in A \cup {0} /\ g[k - 1] = f[k - 1]
    BY <1>4
  <2>3. path[k] \in Names /\ k \in Nat
    OBVIOUS
  <2>4. f[k] \in A \cup {0} /\ g[k] = f[k]
    BY <2>1, <2>2, <2>3 DEF SameLookups
  <2> QED
    BY <2>3, <2>4
<1>5. m \in B
  <2> HIDE DEF B
  <2>1. \A k \in 0 .. m : k \in B
    BY <1>3, <1>4, Upward
  <2> QED
    BY <2>1
<1> QED
  BY <1>1, <1>2, <1>5

\* Behind no entry nothing is found.
LEMMA WalkNowhere ==
  ASSUME NEW ds, NEW m \in Nat, NEW path \in [1 .. m -> Names]
  PROVE  Walk(ds, 0, path) = 0
<1>1. SameLookups({}, ds, ds) /\ 0 \in {} \cup {0}
  BY DEF SameLookups
<1>2. Walk(ds, 0, path) \in {} \cup {0}
  BY <1>1, WalksAgree
<1> QED
  BY <1>2

LEMMA WalkStays ==
  ASSUME NEW ds, NEW from, NEW path \in [1 .. 0 -> Names]
  PROVE  Walk(ds, from, path) = from
<1>1. PICK f : Steps(ds, from, path, 0, f) /\ Walk(ds, from, path) = f[0]
  BY WalkSteps
<1> QED
  BY <1>1 DEF Steps

LEMMA PathTail ==
  ASSUME NEW m \in Nat \ {0}, NEW path \in [1 .. m -> Names]
  PROVE  /\ path[1] \in Names /\ Tail(path) \in [1 .. m - 1 -> Names]
         /\ \A k \in 1 .. m - 1 : Tail(path)[k] = path[k + 1]
         /\ path \in Seq(Names) /\ Len(path) = m /\ path # <<>>
         /\ Tail(path) = SubSeq(path, 2, Len(path))
<1>1. path \in Seq(Names)
  OBVIOUS
<1>2. Len(path) = m
  BY IsSeqOfItems
<1>3. path # <<>>
  BY <1>2, EmptySeq
<1>4. Tail(path) \in Seq(Names) /\ Len(Tail(path)) = m - 1
      /\ \A k \in 1 .. m - 1 : Tail(path)[k] = path[k + 1]
  BY <1>1, <1>2, <1>3, HeadTailProperties
<1>5. Tail(path) \in [1 .. m - 1 -> Names]
  BY <1>4, LenProperties
<1>6. Tail(path) = SubSeq(path, 2, Len(path))
  BY <1>1, <1>3, TailIsSubSeq
<1>7. path[1] \in Names
  OBVIOUS
<1> QED
  BY <1>1, <1>2, <1>3, <1>4, <1>5, <1>6, <1>7

\* A lookup begins with the child of the path's first name.
LEMMA WalkDown ==
  ASSUME NEW ds, NEW from, from # 0, NEW m \in Nat \ {0}, NEW path \in [1 .. m -> Names]
  PROVE  Walk(ds, from, path) = Walk(ds, get_child(ds, from, <<path[1]>>), Tail(path))
<1>1. /\ Tail(path) \in [1 .. m - 1 -> Names] /\ m - 1 \in Nat
      /\ \A k \in 1 .. m - 1 : Tail(path)[k] = path[k + 1]
  BY PathTail
<1>2. PICK f : Steps(ds, from, path, m, f) /\ Walk(ds, from, path) = f[m]
  BY WalkSteps
<1>3. PICK tail, child : tail = Tail(path) /\ child = get_child(ds, from, <<path[1]>>)
  OBVIOUS
<1>4. PICK g : Steps(ds, child, tail, m - 1, g) /\ Walk(ds, child, tail) = g[m - 1]
  <2>1. PICK j \in Nat : j = m - 1
    BY <1>1
  <2>2. DOMAIN tail = 1 .. j
    BY <1>1, <1>3, <2>1
  <2>3. \E g : Steps(ds, child, tail, j, g) /\ Walk(ds, child, tail) = g[j]
    BY <2>2, WalkSteps
  <2> QED
    BY <2>1, <2>3
<1> DEFINE B == {k \in Nat : g[k] = f[k + 1]}
<1>5. 0 \in B
  <2>1. f[0] = from /\ f[1] = IF f[1 - 1] = 0 THEN 0 ELSE get_child(ds, f[1 - 1], <<path[1]>>)
    <3>1. 1 \in 1 .. m
      OBVIOUS
    <3> QED
      BY <1>2, <3>1 DEF Steps
  <2>2. g[0] = child /\ 1 - 1 = 0 /\ 0 + 1 = 1
    BY <1>4 DEF Steps
  <2> QED
    BY <1>3, <2>1, <2>2
<1>6. ASSUME NEW k \in 1 .. m - 1, k - 1 \in B
      PROVE  k \in B
  <2>1. k \in Nat /\ k + 1 \in 1 .. m /\ (k + 1) - 1 = k /\ (k - 1) + 1 = k
    BY SMT
  <2>2. f[k + 1] = IF f[k] = 0 THEN 0 ELSE get_child(ds, f[k], <<path[k + 1]>>)
    BY <1>2, <2>1 DEF Steps
  <2>3. g[k] = IF g[k - 1] = 0 THEN 0 ELSE get_child(ds, g[k - 1], <<tail[k]>>)
    BY <1>4 DEF Steps
  <2>4. g[k - 1] = f[k]
    BY <1>6, <2>1
  <2>5. tail[k] = path[k + 1]
    BY <1>1, <1>3
  <2> QED
    BY <2>1, <2>2, <2>3, <2>4, <2>5
<1>7. g[m - 1] = f[m]
  <2> HIDE DEF B
  <2>1. \A k \in 0 .. m - 1 : k \in B
    BY <1>1, <1>5, <1>6, Upward
  <2>2. m - 1 \in B /\ (m - 1) + 1 = m
    BY <2>1
  <2> USE DEF B
  <2> QED
    BY <2>2
<1> QED
  BY <1>2, <1>3, <1>4, <1>7

----------------------------------------------------------------------------
(* The namespace                                                             *)

Roots == {root_of[d] : d \in Devices}

Placed(n, c) ==
  \/ c \notin Roots /\ dirent[c].parent = n
  \/ n = root /\ c # root /\ \E d \in Devices : c = root_of[d] /\ mounted[d] # Unmounted

\* A child is an entry that has its directory for its parent, or the root of a
\* device that is mounted, and then its directory is the root.
KidsInv ==
  \A n \in 1 .. Len(dirent) :
    /\ dirent[n].children \in Seq(1 .. Len(dirent))
    /\ \A k \in 1 .. Len(dirent[n].children), c \in 1 .. Len(dirent) :
         c = dirent[n].children[k] => Placed(n, c)

RootsInv ==
  /\ root_of \in [Devices -> 0 .. Len(dirent)]
  /\ \A d \in Devices : root_of[d] = 0 <=> d = "udev" /\ tree_stage = "udev"
  /\ \A d, e \in Devices : root_of[d] = root_of[e] => d = e
  /\ \A d \in Devices : root_of[d] # 0 => dirent[root_of[d]].parent \in {NoParent, NullParent}

BeforeRoot == tree_stage \in {"udev", "mount_root"}

MountsInv ==
  /\ mounted = [d \in Devices |-> mounted[d]]
  /\ root = IF BeforeRoot THEN 0 ELSE root_of["initrd"]
  /\ IF BeforeRoot THEN \A d \in Devices : mounted[d] = Unmounted ELSE mounted["initrd"] = <<>>
  /\ tree_stage = "mount_dev" => mounted["udev"] = Unmounted
  /\ tree_stage \in {"vga", "running"} => mounted["udev"] = <<"dev">>

\* What is mounted is found under the name that it is mounted on.
MountedInv ==
  \A d \in Devices \ {"initrd"} :
    \/ mounted[d] = Unmounted
    \/ \E name \in Names :
         ~ BeforeRoot /\ mounted[d] = <<name>> /\ get_child(dirent, root, <<name>>) = root_of[d]

PlacesInv == TreeInv /\ KidsInv /\ RootsInv /\ MountsInv /\ MountedInv

Entries == 1 .. Len(dirent)

LEMMA ChildIs ==
  ASSUME PlacesInv, NEW n \in Entries, NEW k \in 1 .. Len(dirent[n].children),
         NEW c, c = dirent[n].children[k]
  PROVE  \/ c \notin Roots /\ dirent[c].parent = n
         \/ n = root /\ c # root /\ \E d \in Devices : c = root_of[d] /\ mounted[d] # Unmounted
<1>1. dirent[n].children \in Seq(Entries)
  BY DEF PlacesInv, KidsInv, Entries
<1>2. c \in Entries
  BY <1>1, ElementOfSeq
<1>3. KidsInv
  BY DEF PlacesInv
<1>4. Placed(n, c)
  BY <1>2, <1>3 DEF KidsInv, Entries
<1> QED
  BY <1>4 DEF Placed

\* The root of a device that is not mounted is nobody's child.
LEMMA FreeRoot ==
  ASSUME PlacesInv, NEW d \in Devices, mounted[d] = Unmounted, NEW n \in Entries
  PROVE  dirent[n].children \in Seq(Entries \ {root_of[d]})
<1>1. dirent[n].children \in Seq(Entries)
  BY DEF PlacesInv, KidsInv, Entries
<1>2. ASSUME NEW k \in 1 .. Len(dirent[n].children)
      PROVE  dirent[n].children[k] # root_of[d]
  <2> SUFFICES ASSUME dirent[n].children[k] = root_of[d]
               PROVE  FALSE
    OBVIOUS
  <2>1. root_of[d] \in Roots
    BY DEF Roots
  <2>2. PICK e \in Devices : root_of[d] = root_of[e] /\ mounted[e] # Unmounted
    BY <2>1, ChildIs
  <2>3. d = e
    BY <2>2 DEF PlacesInv, RootsInv
  <2> QED
    BY <2>2, <2>3
<1>3. Len(dirent[n].children) \in Nat /\ dirent[n].children \in [1 .. Len(dirent[n].children) -> Entries]
  BY <1>1, LenProperties
<1>4. dirent[n].children \in [1 .. Len(dirent[n].children) -> Entries \ {root_of[d]}]
  BY <1>2, <1>3
<1> QED
  BY <1>3, <1>4

\* Neither is the root of the tree.
LEMMA TopIsNoChild ==
  ASSUME PlacesInv, ~ BeforeRoot, NEW n \in Entries
  PROVE  dirent[n].children \in Seq(Entries \ {root})
<1>1. dirent[n].children \in Seq(Entries)
  BY DEF PlacesInv, KidsInv, Entries
<1>2. root \in Roots
  BY DevicesAre DEF PlacesInv, MountsInv, Roots
<1>3. ASSUME NEW k \in 1 .. Len(dirent[n].children)
      PROVE  dirent[n].children[k] # root
  BY <1>2, ChildIs
<1>4. Len(dirent[n].children) \in Nat /\ dirent[n].children \in [1 .. Len(dirent[n].children) -> Entries]
  BY <1>1, LenProperties
<1>5. dirent[n].children \in [1 .. Len(dirent[n].children) -> Entries \ {root}]
  BY <1>3, <1>4
<1> QED
  BY <1>4, <1>5

\* Only the root has a device's root for a child.
LEMMA InnerChildren ==
  ASSUME PlacesInv, NEW n \in Entries, n # root
  PROVE  dirent[n].children \in Seq(Entries \ Roots)
<1>1. dirent[n].children \in Seq(Entries)
  BY DEF PlacesInv, KidsInv, Entries
<1>2. ASSUME NEW k \in 1 .. Len(dirent[n].children)
      PROVE  dirent[n].children[k] \notin Roots
  BY ChildIs
<1>3. Len(dirent[n].children) \in Nat /\ dirent[n].children \in [1 .. Len(dirent[n].children) -> Entries]
  BY <1>1, LenProperties
<1>4. dirent[n].children \in [1 .. Len(dirent[n].children) -> Entries \ Roots]
  BY <1>2, <1>3
<1> QED
  BY <1>3, <1>4

LEMMA RootIs ==
  ASSUME PlacesInv
  PROVE  /\ Len(dirent) \in Nat /\ 0 \notin Entries
         /\ \A d \in Devices : root_of[d] \in Entries \/ (root_of[d] = 0 /\ d = "udev" /\ tree_stage = "udev")
         /\ ~ BeforeRoot => root = root_of["initrd"] /\ root \in Entries /\ mounted["initrd"] = <<>>
         /\ BeforeRoot => root = 0
<1>1. Len(dirent) \in Nat
  BY DEF PlacesInv, TreeInv, EntriesInv
<1>2. \A d \in Devices : root_of[d] \in 0 .. Len(dirent)
  BY DEF PlacesInv, RootsInv
<1>3. \A d \in Devices : root_of[d] = 0 => d = "udev" /\ tree_stage = "udev"
  BY DEF PlacesInv, RootsInv
<1>4. \A i \in 0 .. Len(dirent) : i = 0 \/ i \in Entries
  BY <1>1 DEF Entries
<1>5. 0 \notin Entries
  BY DEF Entries
<1>6. root = IF BeforeRoot THEN 0 ELSE root_of["initrd"]
  BY DEF PlacesInv, MountsInv
<1>7. ~ BeforeRoot => mounted["initrd"] = <<>>
  BY DEF PlacesInv, MountsInv
<1>8. \A d \in Devices : root_of[d] \in Entries \/ (root_of[d] = 0 /\ d = "udev" /\ tree_stage = "udev")
  BY <1>2, <1>3, <1>4
<1>9. root_of["initrd"] \in Entries
  BY <1>8, DevicesAre
<1> QED
  BY <1>1, <1>5, <1>6, <1>7, <1>8, <1>9

\* A step that leaves the children and, but for a root that nobody has for a
\* child, the names: what is found from an entry on does not change.
SameNames(ds, r) ==
  /\ \A n \in Entries : /\ ds[n].children = dirent[n].children
                        /\ dirent[n].children \in Seq(Entries \ {r})
  /\ \A n \in Entries \ {r} : ds[n].ident = dirent[n].ident

LEMMA SameNamesFound ==
  ASSUME NEW ds, NEW r, SameNames(ds, r)
  PROVE  \A n \in Entries : \A ident :
           get_child(ds, n, ident) = get_child(dirent, n, ident)
<1> SUFFICES ASSUME NEW n \in Entries, NEW ident
             PROVE  get_child(ds, n, ident) = get_child(dirent, n, ident)
  OBVIOUS
<1>1. /\ ds[n].children = dirent[n].children
      /\ dirent[n].children \in Seq(Entries \ {r})
      /\ \A c \in Entries \ {r} : ds[c].ident = dirent[c].ident
  BY DEF SameNames
<1>2. PICK S : S = Entries \ {r}
  OBVIOUS
<1>3. dirent[n].children \in Seq(S) /\ \A c \in S : ds[c].ident = dirent[c].ident
  BY <1>1, <1>2
<1> QED
  <2>1. ChildrenAlike(dirent, ds, n, S)
    BY <1>1, <1>3 DEF ChildrenAlike
  <2> QED
    BY <2>1, SameChild

LEMMA FoundEntry ==
  ASSUME PlacesInv, NEW n \in Entries, NEW ident
  PROVE  get_child(dirent, n, ident) \in Entries \cup {0}
<1>1. dirent[n].children \in Seq(Entries)
  BY DEF PlacesInv, KidsInv, Entries
<1> QED
  BY <1>1, FoundChild

LEMMA SameNamesLookups ==
  ASSUME PlacesInv, NEW ds, NEW r, SameNames(ds, r)
  PROVE  SameLookups(Entries, dirent, ds)
BY RootIs, SameNamesFound, FoundEntry DEF SameLookups

\* A file is what a lookup from a root leads to.
FileIn(ds, r, p) ==
  LET n == IF r = 0 THEN 0 ELSE Walk(ds, r, p)
  IN IF n = 0 THEN Unmounted ELSE <<ds[n].dev, ds[n].ino>>

SameIds(A, ds, es) == \A n \in A : es[n].dev = ds[n].dev /\ es[n].ino = ds[n].ino

LEMMA PathIs ==
  ASSUME NEW p \in Paths
  PROVE  \E m \in 0 .. MaxDepth : p \in [1 .. m -> Names]
BY DEF Paths

LEMMA FilesAgree ==
  ASSUME TopMounts, NEW A, NEW ds, NEW es, SameLookups(A, ds, es), SameIds(A, ds, es), NEW r \in A \cup {0},
         NEW p \in Paths
  PROVE  FileIn(es, r, p) = FileIn(ds, r, p)
<1>1. PICK m \in Nat : p \in [1 .. m -> Names]
  BY PathIs DEF TopMounts
<1>2. Walk(es, r, p) = Walk(ds, r, p) /\ Walk(ds, r, p) \in A \cup {0}
  BY <1>1, WalksAgree
<1> QED
  BY <1>2 DEF FileIn, SameIds

Renamed(r, v) == [dirent EXCEPT ![r].ident = v]

LEMMA RenamedIs ==
  ASSUME TreeInv, NEW r, NEW v
  PROVE  LET ds == Renamed(r, v)
         IN /\ SameEntries(ds)
            /\ \A n \in Entries : ds[n].children = dirent[n].children /\ ds[n].parent = dirent[n].parent
            /\ \A n \in Entries \ {r} : ds[n] = dirent[n]
            /\ r \in Entries => ds[r].ident = v
<1>0. PICK ds : ds = Renamed(r, v)
  OBVIOUS
<1>1. SameEntries(ds)
  BY <1>0, UnchangedSame, FieldsSame DEF Renamed
<1>2. dirent = [n \in Entries |-> dirent[n]] /\ \A n \in Entries : DOMAIN dirent[n] = Fields
  BY DEF TreeInv, EntriesInv, Entries
<1>3. \A n \in Entries : ds[n] = IF n = r THEN [dirent[n] EXCEPT !.ident = v] ELSE dirent[n]
  BY <1>0, <1>2 DEF Renamed
<1>4. ASSUME NEW n \in Entries
      PROVE  /\ [dirent[n] EXCEPT !.ident = v].children = dirent[n].children
             /\ [dirent[n] EXCEPT !.ident = v].parent = dirent[n].parent
             /\ [dirent[n] EXCEPT !.ident = v].ident = v
  BY <1>2 DEF Fields
<1> QED
  BY <1>0, <1>1, <1>3, <1>4

\* The first mount gives the root its parent, too.
Uprooted(r, v) == [[dirent EXCEPT ![r].ident = v] EXCEPT ![r].parent = NoParent]

LEMMA UprootedIs ==
  ASSUME TreeInv, NEW r \in Entries, NEW v
  PROVE  LET ds == Uprooted(r, v)
         IN /\ SameEntries(ds)
            /\ \A n \in Entries : ds[n].children = dirent[n].children
            /\ \A n \in Entries \ {r} : ds[n] = dirent[n]
            /\ ds[r].parent = NoParent
<1>0. PICK ds : ds = Uprooted(r, v)
  OBVIOUS
<1>1. PICK es : es = Renamed(r, v)
  OBVIOUS
<1>2. /\ SameEntries(es)
      /\ \A n \in Entries : es[n].children = dirent[n].children
      /\ \A n \in Entries \ {r} : es[n] = dirent[n]
  BY <1>1, RenamedIs
<1>3. ds = [es EXCEPT ![r].parent = NoParent]
  BY <1>0, <1>1 DEF Uprooted, Renamed
<1>4. SameEntries(ds)
  <2>1. \A w : SameEntries([es EXCEPT ![r].parent = w])
    BY <1>2, FieldsSame
  <2> QED
    BY <1>3, <2>1
<1>5. es = [n \in Entries |-> es[n]] /\ \A n \in Entries : DOMAIN es[n] = Fields
  BY <1>2 DEF SameEntries, Entries
<1>6. \A n \in Entries : ds[n] = IF n = r THEN [es[n] EXCEPT !.parent = NoParent] ELSE es[n]
  BY <1>3, <1>5
<1>7. [es[r] EXCEPT !.parent = NoParent].children = es[r].children
      /\ [es[r] EXCEPT !.parent = NoParent].parent = NoParent
  BY <1>5 DEF Fields
<1>8. /\ \A n \in Entries : ds[n].children = dirent[n].children
      /\ \A n \in Entries \ {r} : ds[n] = dirent[n]
      /\ ds[r].parent = NoParent
  BY <1>2, <1>6, <1>7
<1> QED
  BY <1>0, <1>4, <1>8

\* A step that changes nothing of the tree but the name and the parent of a
\* root that is nowhere in it yet.
OnlyRoot(ds, r) ==
  /\ SameEntries(ds)
  /\ \A n \in Entries : ds[n].children = dirent[n].children
  /\ \A n \in Entries \ {r} : ds[n].ident = dirent[n].ident /\ ds[n].parent = dirent[n].parent
  /\ ds[r].parent \in {NoParent, NullParent}

LEMMA RootKeepsNames ==
  ASSUME PlacesInv, NEW d \in Devices, mounted[d] = Unmounted, NEW ds, OnlyRoot(ds, root_of[d])
  PROVE  SameNames(ds, root_of[d]) /\ SameIds(Entries, dirent, ds)
<1>1. \A n \in Entries : dirent[n].children \in Seq(Entries \ {root_of[d]})
  BY FreeRoot
<1> QED
  BY <1>1 DEF SameNames, SameIds, OnlyRoot, SameEntries, Entries

LEMMA RootKeepsKids ==
  ASSUME PlacesInv, NEW d \in Devices, mounted[d] = Unmounted, OnlyRoot(dirent', root_of[d]),
         root_of' = root_of,
         (root' = root /\ mounted' = mounted) \/ BeforeRoot
  PROVE  KidsInv'
<1>1. Len(dirent') = Len(dirent) /\ \A n \in Entries : dirent'[n].children = dirent[n].children
  BY DEF OnlyRoot, SameEntries
<1> SUFFICES ASSUME NEW n \in Entries
             PROVE  /\ dirent'[n].children \in Seq(1 .. Len(dirent'))
                    /\ \A k \in 1 .. Len(dirent'[n].children), c \in Entries :
                         c = dirent'[n].children[k] => Placed(n, c)'
  BY <1>1 DEF KidsInv, Entries
<1>2. dirent[n].children \in Seq(Entries)
  BY DEF PlacesInv, KidsInv, Entries
<1>3. dirent'[n].children \in Seq(1 .. Len(dirent'))
  BY <1>1, <1>2 DEF Entries
<1>4. ASSUME NEW k \in 1 .. Len(dirent[n].children), NEW c \in Entries, c = dirent[n].children[k]
      PROVE  Placed(n, c)'
  <2>1. \/ c \notin Roots /\ dirent[c].parent = n
        \/ /\ n = root /\ c # root
           /\ \E e \in Devices : c = root_of[e] /\ mounted[e] # Unmounted
    BY <1>4, ChildIs
  <2>2. Roots' = Roots
    BY DEF Roots
  <2>3. CASE c \notin Roots /\ dirent[c].parent = n
    <3>2. c # root_of[d]
      BY <2>3 DEF Roots
    <3>3. dirent'[c].parent = dirent[c].parent
      BY <3>2 DEF OnlyRoot
    <3> QED
      BY <2>2, <2>3, <3>3 DEF Placed
  <2>4. CASE n = root /\ c # root /\ \E e \in Devices : c = root_of[e] /\ mounted[e] # Unmounted
    <3>1. ~ BeforeRoot
      BY <2>4, RootIs
    <3> QED
      BY <2>4, <3>1 DEF Placed
  <2> QED
    BY <2>1, <2>3, <2>4
<1> QED
  BY <1>1, <1>3, <1>4

LEMMA RootKeepsRoots ==
  ASSUME PlacesInv, NEW d \in Devices, mounted[d] = Unmounted, OnlyRoot(dirent', root_of[d]),
         root_of' = root_of, tree_stage # "udev", tree_stage' # "udev"
  PROVE  RootsInv'
<1>1. Len(dirent') = Len(dirent)
  BY DEF OnlyRoot, SameEntries
<1>2. ASSUME NEW e \in Devices
      PROVE  root_of[e] # 0 /\ dirent'[root_of[e]].parent \in {NoParent, NullParent}
  <2>1. root_of[e] # 0 /\ root_of[e] \in Entries /\ dirent[root_of[e]].parent \in {NoParent, NullParent}
    <3>1. root_of[e] # 0
      BY DEF PlacesInv, RootsInv
    <3> QED
      BY <3>1, RootIs DEF PlacesInv, RootsInv
  <2>2. CASE root_of[e] = root_of[d]
    BY <2>1, <2>2 DEF OnlyRoot
  <2>3. CASE root_of[e] # root_of[d]
    BY <2>1, <2>3 DEF OnlyRoot
  <2> QED
    BY <2>1, <2>2, <2>3
<1> QED
  BY <1>1, <1>2 DEF PlacesInv, RootsInv

LEMMA RootKeepsMounted ==
  ASSUME PlacesInv, NEW d \in Devices, mounted[d] = Unmounted, OnlyRoot(dirent', root_of[d]),
         root_of' = root_of, ~ BeforeRoot', ~ BeforeRoot => root' = root,
         \A e \in Devices \ {"initrd"} : mounted'[e] = mounted[e]
  PROVE  MountedInv'
<1> SUFFICES ASSUME NEW e \in Devices \ {"initrd"}, mounted'[e] # Unmounted
             PROVE  \E name \in Names :
                      ~ BeforeRoot' /\ mounted'[e] = <<name>> /\ get_child(dirent', root', <<name>>) = root_of'[e]
  BY DEF MountedInv
<1>1. PICK name \in Names :
        ~ BeforeRoot /\ mounted[e] = <<name>> /\ get_child(dirent, root, <<name>>) = root_of[e]
  BY DEF PlacesInv, MountedInv
<1>2. root \in Entries
  BY <1>1, RootIs
<1>3. SameNames(dirent', root_of[d])
  BY RootKeepsNames
<1>4. get_child(dirent', root, <<name>>) = get_child(dirent, root, <<name>>)
  BY <1>2, <1>3, SameNamesFound
<1> QED
  BY <1>1, <1>4

LEMMA BootRootKeeps == ASSUME PlacesInv, BootRoot PROVE PlacesInv' /\ OnlyRoot(dirent', root_of["initrd"])
<1>1. /\ tree_stage = "mount_root" /\ tree_stage' = "mount_dev" /\ root_of' = root_of
      /\ dirent' = Uprooted(root_of["initrd"], <<"", "">>)
      /\ root' = root_of["initrd"] /\ mounted' = [mounted EXCEPT !["initrd"] = <<>>]
  BY DEF BootRoot, MountRoot, Named, Uprooted
<1>2. BeforeRoot /\ ~ BeforeRoot'
  BY <1>1 DEF BeforeRoot
<1>3. "initrd" \in Devices /\ "udev" \in Devices /\ "udev" # "initrd"
  BY DevicesAre
<1>4. \A d \in Devices : mounted[d] = Unmounted
  BY <1>2 DEF PlacesInv, MountsInv
<1>5. root_of["initrd"] \in Entries
  BY <1>3, RootIs
<1>6. OnlyRoot(dirent', root_of["initrd"])
  BY <1>1, <1>5, UprootedIs DEF OnlyRoot, PlacesInv
<1>7. TreeInv'
  BY TreeInvStep DEF TreeNext, PlacesInv
<1>8. KidsInv'
  BY <1>1, <1>2, <1>3, <1>4, <1>6, RootKeepsKids
<1>9. RootsInv'
  BY <1>1, <1>3, <1>4, <1>6, RootKeepsRoots
<1>10. DOMAIN mounted = Devices
  BY DEF PlacesInv, MountsInv
<1>11. \A d \in Devices : mounted'[d] = IF d = "initrd" THEN <<>> ELSE mounted[d]
  BY <1>1, <1>10
<1>12. MountedInv'
  BY <1>1, <1>2, <1>3, <1>4, <1>6, <1>11, RootKeepsMounted
<1>13. MountsInv'
  <2>1. mounted' = [d \in Devices |-> mounted'[d]]
    BY <1>1, <1>10
  <2> QED
    BY <1>1, <1>2, <1>3, <1>4, <1>11, <2>1 DEF MountsInv
<1> QED
  BY <1>6, <1>7, <1>8, <1>9, <1>12, <1>13 DEF PlacesInv

LEMMA StopKeeps ==
  ASSUME PlacesInv, NEW d \in Devices, NEW path, mounted[d] = Unmounted, MountStops(d, path),
         ~ BeforeRoot, UNCHANGED <<root_of, inode_cache, inode_counter>>
  PROVE  PlacesInv' /\ OnlyRoot(dirent', root_of[d])
<1>1. /\ tree_stage' = "stopped" /\ dirent' = Renamed(root_of[d], <<"">> \o path)
      /\ root' = root /\ mounted' = mounted
  BY DEF MountStops, Named, Renamed
<1>2. tree_stage # "udev" /\ ~ BeforeRoot'
  BY <1>1 DEF BeforeRoot
<1>3. root_of[d] \in Entries /\ root_of[d] # 0
  BY <1>2, RootIs
<1>4. OnlyRoot(dirent', root_of[d])
  <2>1. dirent[root_of[d]].parent \in {NoParent, NullParent}
    BY <1>3 DEF PlacesInv, RootsInv
  <2>2. PICK r, v : r = root_of[d] /\ v = <<"">> \o path
    OBVIOUS
  <2>3. /\ SameEntries(dirent')
        /\ \A n \in Entries : dirent'[n].children = dirent[n].children /\ dirent'[n].parent = dirent[n].parent
        /\ \A n \in Entries \ {root_of[d]} : dirent'[n] = dirent[n]
    <3>1. TreeInv
      BY DEF PlacesInv
    <3>2. /\ SameEntries(Renamed(r, v))
          /\ \A n \in Entries : /\ Renamed(r, v)[n].children = dirent[n].children
                                /\ Renamed(r, v)[n].parent = dirent[n].parent
          /\ \A n \in Entries \ {r} : Renamed(r, v)[n] = dirent[n]
      BY <3>1, RenamedIs
    <3>3. dirent' = Renamed(r, v)
      BY <1>1, <2>2
    <3> QED
      BY <2>2, <3>2, <3>3
  <2> QED
    BY <1>1, <1>3, <2>1, <2>3 DEF OnlyRoot
<1>5. TreeInv'
  <2>1. SameEntries(dirent')
    BY <1>4 DEF OnlyRoot
  <2> QED
    BY <2>1, KeptBySame DEF PlacesInv
<1>6. KidsInv' /\ RootsInv'
  BY <1>1, <1>2, <1>4, RootKeepsKids, RootKeepsRoots
<1>7. MountedInv'
  BY <1>1, <1>2, <1>4, RootKeepsMounted
<1>8. MountsInv'
  BY <1>1, <1>2 DEF PlacesInv, MountsInv, BeforeRoot
<1> QED
  BY <1>4, <1>5, <1>6, <1>7, <1>8 DEF PlacesInv

LEMMA WalkOne ==
  ASSUME NEW ds, NEW from, from # 0, NEW name \in Names
  PROVE  Walk(ds, from, <<name>>) = get_child(ds, from, <<name>>)
<1>0. PICK m \in Nat \ {0} : m = 1
  OBVIOUS
<1>1. PICK path : path = <<name>>
  OBVIOUS
<1>2. path \in [1 .. m -> Names] /\ path[1] = name
  BY <1>0, <1>1
<1>3. Walk(ds, from, path) = Walk(ds, get_child(ds, from, <<path[1]>>), Tail(path))
  BY <1>2, WalkDown
<1>4. Tail(path) \in [1 .. 0 -> Names]
  <2>1. Tail(path) \in [1 .. m - 1 -> Names]
    BY <1>2, PathTail
  <2> QED
    BY <1>0, <2>1
<1>5. \A e : Walk(ds, e, Tail(path)) = e
  BY <1>4, WalkStays
<1> QED
  BY <1>1, <1>2, <1>3, <1>5

\* A tree in which the device's root r, under the name, is in the place of the
\* root's child k, which was the first of that name.
Covers(ds, r, name, k) ==
  /\ IsFirst(dirent, root, <<name>>, k) /\ dirent[root].children[k] \notin Roots
  /\ ds = [Renamed(r, <<name>>) EXCEPT ![root].children[k] = r]

LEMMA CoversIs ==
  ASSUME PlacesInv, ~ BeforeRoot, NEW d \in Devices, mounted[d] = Unmounted, NEW name \in Names,
         MountCovers(d, <<name>>)
  PROVE  /\ \E k : Covers(dirent', root_of[d], name, k)
         /\ root' = root /\ mounted' = [mounted EXCEPT ![d] = <<name>>]
<1>1. PICK r, p : r = root_of[d] /\ p = <<name>>
  OBVIOUS
<1>2. PICK es, v : v = <<"">> \o p /\ es = Renamed(r, v)
  OBVIOUS
<1>3. PICK c : c = Covered(d, p)
  OBVIOUS
<1>4. root \in Entries /\ root # 0
  BY RootIs
<1>5. c = get_child(dirent, root, p)
  <2>1. c = Walk(es, root, p)
    BY <1>1, <1>2, <1>3 DEF Covered, resolve_path, Named, Renamed
  <2>2. c = get_child(es, root, p)
    BY <1>1, <1>4, <2>1, WalkOne
  <2>3. SameNames(es, r)
    <3>1. TreeInv
      BY DEF PlacesInv
    <3>2. /\ \A n \in Entries : es[n].children = dirent[n].children
          /\ \A n \in Entries \ {r} : es[n] = dirent[n]
      <4>1. /\ \A n \in Entries : Renamed(r, v)[n].children = dirent[n].children
            /\ \A n \in Entries \ {r} : Renamed(r, v)[n] = dirent[n]
        BY <3>1, RenamedIs
      <4> QED
        BY <1>2, <4>1
    <3>3. \A n \in Entries : dirent[n].children \in Seq(Entries \ {r})
      BY <1>1, FreeRoot
    <3> QED
      BY <3>2, <3>3 DEF SameNames
  <2> QED
    BY <1>4, <2>2, <2>3, SameNamesFound
<1>6. c \in Entries /\ dirent[c].parent \notin {NoParent, NullParent}
  <2>1. c \in Coverable
    BY <1>1, <1>3 DEF MountCovers
  <2>2. DOMAIN dirent = Entries
    BY DEF PlacesInv, TreeInv, EntriesInv, Entries
  <2> QED
    BY <2>1, <2>2 DEF Coverable
<1>7. c \notin Roots
  <2> SUFFICES ASSUME NEW e \in Devices, c = root_of[e]
               PROVE  FALSE
    BY DEF Roots
  <2>1. root_of[e] # 0
    BY <1>6, RootIs
  <2> QED
    BY <1>6, <2>1 DEF PlacesInv, RootsInv
<1>8. dirent[root].children \in Seq(Entries) /\ Len(dirent[root].children) \in Nat
  <2>1. dirent[root].children \in Seq(Entries)
    BY <1>4 DEF PlacesInv, KidsInv, Entries
  <2> QED
    BY <2>1, LenProperties
<1>9. PICK k : IsFirst(dirent, root, p, k) /\ c = dirent[root].children[k]
  <2>1. ~ HasNone(dirent, root, p)
    BY <1>5, <1>6, <1>8, FirstChildIs, RootIs
  <2> QED
    BY <1>5, <1>8, <2>1, FirstChildIs
<1>10. k \in 1 .. Len(dirent[root].children) /\ dirent[c].ident = p
  BY <1>9 DEF IsFirst
<1>11. dirent[c].parent = root
  <2>1. \/ c \notin Roots /\ dirent[c].parent = root
        \/ \E e \in Devices : c = root_of[e]
    BY <1>4, <1>9, <1>10, ChildIs
  <2> QED
    BY <1>7, <2>1 DEF Roots
<1>12. PICK ds : ds = Renamed(r, p)
  OBVIOUS
<1>13. /\ \A n \in Entries : ds[n].children = dirent[n].children
       /\ \A n \in Entries \ {r} : ds[n] = dirent[n]
  BY <1>12, RenamedIs DEF PlacesInv
<1>14. c # r
  BY <1>1, <1>7 DEF Roots
<1>15. ds[c].ident = p
  BY <1>6, <1>10, <1>13, <1>14
<1>16. get_child_iter(ds, root, p) = k
  <2>1. dirent[root].children \in Seq(Entries \ {r})
    BY <1>1, <1>4, FreeRoot
  <2>2. \A i \in 1 .. Len(dirent[root].children) : dirent[root].children[i] \in Entries \ {r}
    BY <2>1, ElementOfSeq
  <2>3. \A i \in 1 .. k - 1 : i \in 1 .. Len(dirent[root].children)
    BY <1>8, <1>10
  <2>4. IsFirst(ds, root, p, k)
    BY <1>4, <1>9, <1>10, <1>13, <2>2, <2>3 DEF IsFirst
  <2>5. Len(ds[root].children) \in Nat
    BY <1>4, <1>8, <1>13
  <2> QED
    BY <2>4, <2>5, FirstChildIs
<1>17. dirent' = [ds EXCEPT ![root].children[k] = r]
  <2>1. ds = Named(d, p)
    BY <1>1, <1>12 DEF Renamed, Named
  <2>2. dirent' = [Named(d, p) EXCEPT
           ![dirent[Covered(d, p)].parent].children[
             get_child_iter(Named(d, p), dirent[Covered(d, p)].parent, Named(d, p)[Covered(d, p)].ident)] = root_of[d]]
    BY <1>1 DEF MountCovers
  <2>3. dirent[Covered(d, p)].parent = root
    BY <1>3, <1>11
  <2>4. get_child_iter(ds, root, ds[c].ident) = k
    BY <1>15, <1>16
  <2>5. get_child_iter(Named(d, p), dirent[Covered(d, p)].parent, Named(d, p)[Covered(d, p)].ident) = k
    BY <1>3, <2>1, <2>3, <2>4
  <2> QED
    BY <1>1, <2>1, <2>2, <2>3, <2>5
<1>18. Covers(dirent', root_of[d], name, k)
  BY <1>1, <1>7, <1>9, <1>12, <1>17 DEF Covers
<1>19. root' = root /\ mounted' = [mounted EXCEPT ![d] = <<name>>]
  BY DEF MountCovers
<1> QED
  BY <1>18, <1>19

CoveredFields(ds, r, name, k) ==
  /\ SameEntries(ds)
  /\ \A n \in Entries : ds[n].parent = dirent[n].parent
  /\ \A n \in Entries \ {root} : ds[n].children = dirent[n].children
  /\ ds[root].children = [dirent[root].children EXCEPT ![k] = r]
  /\ \A n \in Entries \ {r} : ds[n].ident = dirent[n].ident
  /\ ds[r].ident = <<name>>

LEMMA CoversFields ==
  ASSUME PlacesInv, ~ BeforeRoot, NEW d \in Devices, mounted[d] = Unmounted, NEW name, NEW k,
         NEW ds, Covers(ds, root_of[d], name, k)
  PROVE  CoveredFields(ds, root_of[d], name, k)
<1>1. PICK r : r = root_of[d]
  OBVIOUS
<1>2. PICK es : es = Renamed(r, <<name>>)
  OBVIOUS
<1>3. TreeInv /\ root \in Entries /\ r \in Entries
  <2>1. tree_stage # "udev"
    BY DEF BeforeRoot
  <2> QED
    BY <1>1, <2>1, RootIs DEF PlacesInv
<1>4. /\ SameEntries(es)
      /\ \A n \in Entries : es[n].children = dirent[n].children /\ es[n].parent = dirent[n].parent
      /\ \A n \in Entries \ {r} : es[n] = dirent[n]
      /\ es[r].ident = <<name>>
  BY <1>2, <1>3, RenamedIs
<1>5. PICK kids : kids = [dirent[root].children EXCEPT ![k] = r]
  OBVIOUS
<1>6. ds = [es EXCEPT ![root].children = kids]
  <2>1. ds = [es EXCEPT ![root].children = [@ EXCEPT ![k] = r]]
    BY <1>1, <1>2 DEF Covers
  <2>2. es[root].children = dirent[root].children
    BY <1>3, <1>4
  <2> QED
    BY <1>5, <2>1, <2>2
<1>7. SameEntries(ds)
  <2>1. \A w : SameEntries([es EXCEPT ![root].children = w])
    BY <1>3, <1>4, FieldsSame
  <2> QED
    BY <1>6, <2>1
<1>8. es = [n \in Entries |-> es[n]] /\ \A n \in Entries : DOMAIN es[n] = Fields
  BY <1>4 DEF SameEntries, Entries
<1>9. \A n \in Entries : ds[n] = IF n = root THEN [es[n] EXCEPT !.children = kids] ELSE es[n]
  BY <1>6, <1>8
<1>10. /\ [es[root] EXCEPT !.children = kids].children = kids
       /\ [es[root] EXCEPT !.children = kids].parent = es[root].parent
       /\ [es[root] EXCEPT !.children = kids].ident = es[root].ident
  BY <1>3, <1>8 DEF Fields
<1>11. \A n \in Entries : ds[n].parent = es[n].parent /\ ds[n].ident = es[n].ident
  BY <1>9, <1>10
<1>12. ds[root].children = kids /\ \A n \in Entries \ {root} : ds[n].children = es[n].children
  BY <1>3, <1>9, <1>10
<1> QED
  BY <1>1, <1>3, <1>4, <1>5, <1>7, <1>11, <1>12 DEF CoveredFields

\* Nothing but the covered place is found otherwise than before.
LEMMA CoversFound ==
  ASSUME PlacesInv, ~ BeforeRoot, NEW d \in Devices, mounted[d] = Unmounted, NEW name, NEW k,
         NEW ds, Covers(ds, root_of[d], name, k)
  PROVE  /\ \A n \in Entries \ {root} : \A ident : get_child(ds, n, ident) = get_child(dirent, n, ident)
         /\ \A ident : ident # <<name>> => get_child(ds, root, ident) = get_child(dirent, root, ident)
         /\ get_child(ds, root, <<name>>) = root_of[d]
         /\ get_child(dirent, root, <<name>>) \in Entries \ Roots
<1>1. PICK r : r = root_of[d]
  OBVIOUS
<1>2. PICK list, kids : list = dirent[root].children /\ kids = ds[root].children
  OBVIOUS
<1>3. root \in Entries /\ r \in Entries
  <2>1. tree_stage # "udev"
    BY DEF BeforeRoot
  <2> QED
    BY <1>1, <2>1, RootIs
<1>4. /\ \A n \in Entries \ {root} : ds[n].children = dirent[n].children
      /\ kids = [list EXCEPT ![k] = r]
      /\ \A n \in Entries \ {r} : ds[n].ident = dirent[n].ident
      /\ ds[r].ident = <<name>>
  <2>1. CoveredFields(ds, root_of[d], name, k)
    BY CoversFields
  <2> QED
    BY <1>1, <1>2, <2>1 DEF CoveredFields
<1>5. \A n \in Entries : dirent[n].children \in Seq(Entries \ {r})
  BY <1>1, FreeRoot
<1>6. list \in Seq(Entries \ {r}) /\ Len(list) \in Nat /\ DOMAIN list = 1 .. Len(list)
  <2>1. list \in Seq(Entries \ {r})
    BY <1>2, <1>3, <1>5
  <2> QED
    BY <2>1, LenProperties
<1>7. IsFirst(dirent, root, <<name>>, k) /\ list[k] \notin Roots
  BY <1>1, <1>2 DEF Covers
<1>8. /\ k \in 1 .. Len(list) /\ dirent[list[k]].ident = <<name>>
      /\ \A j \in 1 .. k - 1 : dirent[list[j]].ident # <<name>>
  BY <1>2, <1>7 DEF IsFirst
<1>9. Len(kids) = Len(list) /\ \A i \in 1 .. Len(list) : kids[i] = IF i = k THEN r ELSE list[i]
  <2>1. list \in Seq(Entries)
    BY <1>6, SeqMonotonic
  <2> QED
    BY <1>3, <1>4, <1>8, <2>1, ExceptSeq
<1>10. \A i \in 1 .. Len(list) : list[i] \in Entries \ {r}
  BY <1>6, ElementOfSeq
<1>11. \A i \in 1 .. Len(list) : ds[kids[i]].ident = dirent[list[i]].ident
  BY <1>4, <1>8, <1>9, <1>10
<1>12. \A i \in 1 .. k - 1 : i \in 1 .. Len(list) /\ i # k
  BY <1>6, <1>8
<1>13. ASSUME NEW ident, ident # <<name>>
       PROVE  get_child(ds, root, ident) = get_child(dirent, root, ident)
  <2>1. CASE HasNone(dirent, root, ident)
    <3>1. HasNone(ds, root, ident)
      BY <1>2, <1>9, <1>11, <2>1 DEF HasNone
    <3> QED
      BY <1>2, <1>6, <1>9, <2>1, <3>1, FirstChildIs
  <2>2. ASSUME NEW i, IsFirst(dirent, root, ident, i)
        PROVE  get_child(ds, root, ident) = get_child(dirent, root, ident)
    <3>1. i \in 1 .. Len(list) /\ dirent[list[i]].ident = ident /\ \A j \in 1 .. i - 1 : dirent[list[j]].ident # ident
      BY <1>2, <2>2 DEF IsFirst
    <3>2. i # k
      BY <1>8, <1>13, <3>1
    <3>3. \A j \in 1 .. i - 1 : j \in 1 .. Len(list)
      BY <1>6, <3>1
    <3>4. IsFirst(ds, root, ident, i)
      BY <1>2, <1>9, <1>11, <3>1, <3>3 DEF IsFirst
    <3>5. get_child(ds, root, ident) = kids[i] /\ get_child(dirent, root, ident) = list[i]
      BY <1>2, <1>6, <1>9, <2>2, <3>4, FirstChildIs
    <3> QED
      BY <1>9, <3>1, <3>2, <3>5
  <2> QED
    BY <1>2, <1>6, <2>1, <2>2, FirstChildIs
<1>14. get_child(ds, root, <<name>>) = r
  <2>1. IsFirst(ds, root, <<name>>, k)
    BY <1>2, <1>8, <1>9, <1>11, <1>12 DEF IsFirst
  <2>2. get_child(ds, root, <<name>>) = kids[k]
    BY <1>2, <1>6, <1>9, <2>1, FirstChildIs
  <2> QED
    BY <1>8, <1>9, <2>2
<1>15. get_child(dirent, root, <<name>>) \in Entries \ Roots
  <2>1. get_child(dirent, root, <<name>>) = list[k]
    BY <1>2, <1>6, <1>7, FirstChildIs
  <2> QED
    BY <1>7, <1>8, <1>10, <2>1
<1>16. ASSUME NEW n \in Entries \ {root}, NEW ident
       PROVE  get_child(ds, n, ident) = get_child(dirent, n, ident)
  <2>1. PICK S : S = Entries \ {r}
    OBVIOUS
  <2>2. ChildrenAlike(dirent, ds, n, S)
    BY <1>4, <1>5, <2>1 DEF ChildrenAlike
  <2> QED
    BY <2>2, SameChild
<1> QED
  BY <1>1, <1>13, <1>14, <1>15, <1>16

LEMMA CoverKeeps ==
  ASSUME TopMounts, PlacesInv, ~ BeforeRoot, NEW d \in Devices, mounted[d] = Unmounted, NEW name \in Names,
         MountCovers(d, <<name>>), UNCHANGED <<root_of, inode_cache, inode_counter>>,
         \/ tree_stage = "mount_dev" /\ tree_stage' = "vga" /\ d = "udev" /\ name = "dev"
         \/ tree_stage = "running" /\ tree_stage' = "running"
  PROVE  PlacesInv'
<1>1. PICK r : r = root_of[d]
  OBVIOUS
<1>2. PICK k : Covers(dirent', root_of[d], name, k)
  BY CoversIs
<1>3. root' = root /\ mounted' = [mounted EXCEPT ![d] = <<name>>] /\ root_of' = root_of
  BY CoversIs
<1>4. ~ BeforeRoot' /\ tree_stage # "udev" /\ tree_stage' # "udev"
  BY DEF BeforeRoot
<1>5. mounted["initrd"] = <<>> /\ root = root_of["initrd"] /\ root \in Entries /\ root # 0
  BY RootIs
<1>6. <<name>> # Unmounted /\ <<>> # Unmounted
  <2>1. <<name>>[1] = name /\ Unmounted[1] = "none" /\ name # "none"
    BY DEF Unmounted, TopMounts
  <2>2. Len(<<>>) = 0 /\ Len(Unmounted) = 1
    BY DEF Unmounted
  <2> QED
    BY <2>1, <2>2
<1>7. d # "initrd"
  BY <1>5, <1>6
<1>8. r # root /\ r \in Entries /\ r \in Roots
  <2>1. r # root
    BY <1>1, <1>5, <1>7, DevicesAre DEF PlacesInv, RootsInv
  <2> QED
    BY <1>1, <1>4, <2>1, RootIs DEF Roots
<1>9. DOMAIN mounted = Devices
  BY DEF PlacesInv, MountsInv
<1>10. \A e \in Devices : mounted'[e] = IF e = d THEN <<name>> ELSE mounted[e]
  BY <1>3, <1>9
<1>11. CoveredFields(dirent', r, name, k)
  BY <1>1, <1>2, CoversFields
<1>12. /\ SameEntries(dirent') /\ Len(dirent') = Len(dirent)
       /\ \A n \in Entries : dirent'[n].parent = dirent[n].parent
       /\ \A n \in Entries \ {root} : dirent'[n].children = dirent[n].children
       /\ dirent'[root].children = [dirent[root].children EXCEPT ![k] = r]
  BY <1>11 DEF CoveredFields, SameEntries
<1>13. TreeInv'
  BY <1>12, KeptBySame DEF PlacesInv
<1>14. RootsInv'
  <2>1. \A e \in Devices : root_of[e] # 0 /\ root_of[e] \in Entries
    BY <1>4, RootIs DEF PlacesInv, RootsInv
  <2>2. \A e \in Devices : dirent'[root_of[e]].parent \in {NoParent, NullParent}
    BY <1>12, <2>1 DEF PlacesInv, RootsInv
  <2> QED
    BY <1>3, <1>4, <1>12, <2>1, <2>2 DEF PlacesInv, RootsInv
<1>15. Roots' = Roots
  BY <1>3 DEF Roots
<1>16. ASSUME NEW n \in Entries, NEW c \in Entries, NEW i \in 1 .. Len(dirent[n].children),
              c = dirent[n].children[i]
       PROVE  Placed(n, c)'
  <2>1. \/ c \notin Roots /\ dirent[c].parent = n
        \/ /\ n = root /\ c # root
           /\ \E e \in Devices : c = root_of[e] /\ mounted[e] # Unmounted
    BY <1>16, ChildIs
  <2> QED
    BY <1>3, <1>6, <1>10, <1>12, <1>15, <2>1 DEF Placed
<1>17. ASSUME NEW n \in Entries
       PROVE  /\ dirent'[n].children \in Seq(Entries)
              /\ \A i \in 1 .. Len(dirent'[n].children), c \in Entries :
                   c = dirent'[n].children[i] => Placed(n, c)'
  <2>1. dirent[n].children \in Seq(Entries)
    BY DEF PlacesInv, KidsInv, Entries
  <2>3. CASE n # root
    <3>1. dirent'[n].children = dirent[n].children
      BY <1>12, <2>3
    <3> QED
      BY <1>16, <2>1, <3>1
  <2>4. CASE n = root
    <3>1. PICK list, kids : list = dirent[root].children /\ kids = dirent'[root].children
      OBVIOUS
    <3>2. k \in 1 .. Len(list)
      BY <1>2, <3>1 DEF Covers, IsFirst
    <3>3. /\ kids \in Seq(Entries) /\ Len(kids) = Len(list)
          /\ \A i \in 1 .. Len(list) : kids[i] = IF i = k THEN r ELSE list[i]
      <4>1. list \in Seq(Entries) /\ kids = [list EXCEPT ![k] = r]
        BY <1>12, <2>1, <2>4, <3>1
      <4> QED
        BY <1>8, <3>2, <4>1, ExceptSeq
    <3>4. ASSUME NEW i \in 1 .. Len(kids), NEW c \in Entries, c = kids[i]
          PROVE  Placed(n, c)'
      <4>1. CASE i = k
        <5>1. c = r
          BY <3>3, <3>4, <4>1
        <5>2. r = root_of'[d] /\ mounted'[d] # Unmounted
          BY <1>1, <1>3, <1>6, <1>10
        <5> QED
          BY <1>3, <1>8, <2>4, <5>1, <5>2 DEF Placed
      <4>2. CASE i # k
        <5>1. i \in 1 .. Len(dirent[n].children) /\ c = dirent[n].children[i]
          BY <2>4, <3>1, <3>3, <3>4, <4>2
        <5> QED
          BY <1>16, <5>1
      <4> QED
        BY <4>1, <4>2
    <3> QED
      BY <2>4, <3>1, <3>3, <3>4
  <2> QED
    BY <2>3, <2>4
<1>18. KidsInv'
  BY <1>12, <1>17 DEF KidsInv, Entries
<1>19. MountsInv'
  <2>1. mounted' = [e \in Devices |-> mounted'[e]]
    BY <1>3, <1>9
  <2>2. mounted'["initrd"] = <<>>
    BY <1>5, <1>7, <1>10, DevicesAre
  <2>3. root' = root_of'["initrd"]
    BY <1>3, <1>5
  <2>4. tree_stage' # "mount_dev"
    OBVIOUS
  <2>5. mounted'["udev"] = <<"dev">>
    <3>1. CASE d = "udev" /\ name = "dev"
      BY <3>1, <1>10
    <3>2. CASE tree_stage = "running"
      <4>1. mounted["udev"] = <<"dev">>
        BY <3>2 DEF PlacesInv, MountsInv
      <4>2. <<"dev">> # Unmounted
        BY DEF Unmounted
      <4>3. d # "udev"
        BY <4>1, <4>2
      <4> QED
        BY <4>1, <4>3, <1>10, DevicesAre
    <3> QED
      BY <3>1, <3>2
  <2> QED
    BY <1>4, <2>1, <2>2, <2>3, <2>4, <2>5 DEF MountsInv
<1>20. MountedInv'
  <2> SUFFICES ASSUME NEW e \in Devices \ {"initrd"}, mounted'[e] # Unmounted
               PROVE  \E x \in Names :
                        ~ BeforeRoot' /\ mounted'[e] = <<x>> /\ get_child(dirent', root', <<x>>) = root_of'[e]
    BY DEF MountedInv
  <2>0. PICK ds : ds = dirent'
    OBVIOUS
  <2>1. /\ get_child(ds, root, <<name>>) = root_of[d]
        /\ \A ident : ident # <<name>> => get_child(ds, root, ident) = get_child(dirent, root, ident)
        /\ get_child(dirent, root, <<name>>) \notin Roots
    <3>1. Covers(ds, root_of[d], name, k)
      BY <1>2, <2>0
    <3> QED
      BY <3>1, CoversFound
  <2>2. CASE e = d
    BY <1>3, <1>4, <1>10, <2>0, <2>1, <2>2
  <2>3. CASE e # d
    <3>1. PICK x \in Names : mounted[e] = <<x>> /\ get_child(dirent, root, <<x>>) = root_of[e]
      BY <1>10, <2>3 DEF PlacesInv, MountedInv
    <3>2. root_of[e] \in Roots
      BY DEF Roots
    <3>3. get_child(dirent', root, <<x>>) = get_child(dirent, root, <<x>>)
      BY <2>0, <2>1, <3>1, <3>2
    <3> QED
      BY <1>3, <1>4, <1>10, <2>3, <3>1, <3>3
  <2> QED
    BY <2>2, <2>3
<1> QED
  BY <1>13, <1>14, <1>18, <1>19, <1>20 DEF PlacesInv

\* What make_file has made of the tree.
Made(ds, r, name) ==
  LET L == Len(dirent)
  IN /\ Len(ds) = L + 1
     /\ \A n \in Entries : /\ ds[n].ident = dirent[n].ident /\ ds[n].parent = dirent[n].parent
                           /\ ds[n].dev = dirent[n].dev /\ ds[n].ino = dirent[n].ino
     /\ \A n \in Entries \ {r} : ds[n].children = dirent[n].children
     /\ ds[r].children = Append(dirent[r].children, L + 1)
     /\ ds[L + 1] = Entry(<<name>>, r, "udev", inode_counter)

LEMMA MakeFileMakes ==
  ASSUME PlacesInv, NEW name, make_file(name), root_of["udev"] \in Entries
  PROVE  Made(dirent', root_of["udev"], name)
<1>1. PICK r, e : r = root_of["udev"] /\ e = Entry(<<name>>, r, "udev", inode_counter)
  OBVIOUS
<1>2. PICK L \in Nat : L = Len(dirent)
  BY RootIs
<1>3. PICK ds : ds = Append(dirent, e)
  OBVIOUS
<1>4. dirent' = [ds EXCEPT ![r].children = Append(@, L + 1)]
  BY <1>1, <1>2, <1>3 DEF make_file, AddFile, add_child
<1>5. dirent = [n \in 1 .. L |-> dirent[n]] /\ \A n \in 1 .. L : DOMAIN dirent[n] = Fields
  BY <1>2 DEF PlacesInv, TreeInv, EntriesInv
<1>6. /\ ds = [n \in 1 .. L + 1 |-> ds[n]]
      /\ \A n \in 1 .. L : ds[n] = dirent[n]
      /\ ds[L + 1] = e
  BY <1>2, <1>3, <1>5, AppendOne
<1>7. r \in 1 .. L /\ r # L + 1 /\ L + 1 \in Nat /\ L + 1 \in 1 .. L + 1 /\ \A n \in 1 .. L : n \in 1 .. L + 1
  BY <1>1, <1>2 DEF Entries
<1>8. PICK kids : kids = Append(dirent[r].children, L + 1)
  OBVIOUS
<1>9. dirent' = [n \in 1 .. L + 1 |-> IF n = r THEN [ds[r] EXCEPT !.children = kids] ELSE ds[n]]
  <2>1. ds[r].children = dirent[r].children
    BY <1>6, <1>7
  <2> QED
    BY <1>4, <1>6, <1>8, <2>1
<1>10. Len(dirent') = L + 1
  <2>1. dirent' = [n \in 1 .. L + 1 |-> dirent'[n]]
    BY <1>9
  <2> QED
    BY <1>7, <2>1, IsSeqOfItems
<1>11. /\ [ds[r] EXCEPT !.children = kids].children = kids
       /\ [ds[r] EXCEPT !.children = kids].ident = ds[r].ident
       /\ [ds[r] EXCEPT !.children = kids].parent = ds[r].parent
       /\ [ds[r] EXCEPT !.children = kids].dev = ds[r].dev
       /\ [ds[r] EXCEPT !.children = kids].ino = ds[r].ino
  BY <1>5, <1>6, <1>7 DEF Fields
<1>12. dirent'[L + 1] = e
  BY <1>6, <1>7, <1>9
<1>13. \A n \in 1 .. L : dirent'[n] = IF n = r THEN [dirent[r] EXCEPT !.children = kids] ELSE dirent[n]
  BY <1>6, <1>7, <1>9
<1>14. dirent'[r].children = kids /\ \A n \in (1 .. L) \ {r} : dirent'[n] = dirent[n]
  BY <1>6, <1>7, <1>11, <1>13
<1>15. /\ dirent'[r].ident = dirent[r].ident /\ dirent'[r].parent = dirent[r].parent
       /\ dirent'[r].dev = dirent[r].dev /\ dirent'[r].ino = dirent[r].ino
  BY <1>6, <1>7, <1>11, <1>13
<1>16. Entries = 1 .. L
  BY <1>2 DEF Entries
<1>17. \A n \in Entries : /\ dirent'[n].ident = dirent[n].ident /\ dirent'[n].parent = dirent[n].parent
                          /\ dirent'[n].dev = dirent[n].dev /\ dirent'[n].ino = dirent[n].ino
  BY <1>14, <1>15, <1>16
<1> QED
  BY <1>1, <1>2, <1>8, <1>10, <1>12, <1>14, <1>16, <1>17 DEF Made

\* Nothing but the new name is found otherwise than before, and behind the new
\* entry nothing is found.
MadeIsFound(ds, r, name) ==
  /\ \A n \in Entries \ {r} : \A ident : get_child(ds, n, ident) = get_child(dirent, n, ident)
  /\ \A ident : ident # <<name>> => get_child(ds, r, ident) = get_child(dirent, r, ident)
  /\ get_child(dirent, r, <<name>>) # 0 => get_child(ds, r, <<name>>) = get_child(dirent, r, <<name>>)
  /\ get_child(dirent, r, <<name>>) = 0 => get_child(ds, r, <<name>>) = Len(dirent) + 1
  /\ \A ident : get_child(ds, Len(dirent) + 1, ident) = 0

LEMMA MadeFound ==
  ASSUME PlacesInv, NEW r \in Entries, NEW name, NEW ds, Made(ds, r, name)
  PROVE  MadeIsFound(ds, r, name)
<1>1. PICK L \in Nat : L = Len(dirent)
  BY RootIs
<1>2. /\ \A n \in Entries : ds[n].ident = dirent[n].ident
      /\ \A n \in Entries \ {r} : ds[n].children = dirent[n].children
      /\ ds[r].children = Append(dirent[r].children, L + 1)
      /\ ds[L + 1] = Entry(<<name>>, r, "udev", inode_counter)
  BY <1>1 DEF Made
<1>3. ds[L + 1].ident = <<name>> /\ ds[L + 1].children = <<>>
  BY <1>2 DEF Entry
<1>4. PICK list, kids : list = dirent[r].children /\ kids = ds[r].children
  OBVIOUS
<1>5. \A n \in Entries : dirent[n].children \in Seq(Entries)
  BY DEF PlacesInv, KidsInv, Entries
<1>6. list \in Seq(Entries) /\ Len(list) \in Nat /\ \A i \in 1 .. Len(list) : list[i] \in Entries
  <2>1. list \in Seq(Entries)
    BY <1>4, <1>5
  <2> QED
    BY <2>1, LenProperties, ElementOfSeq
<1>7. PICK m \in Nat : m = Len(list)
  BY <1>6
<1>8. Len(kids) = m + 1 /\ kids[m + 1] = L + 1 /\ \A i \in 1 .. m : kids[i] = list[i]
  <2>1. list \in Seq(Entries \cup {L + 1})
    BY <1>6, SeqMonotonic
  <2>2. kids = Append(list, L + 1)
    BY <1>2, <1>4
  <2>3. L + 1 \in Entries \cup {L + 1}
    OBVIOUS
  <2> QED
    BY <1>7, <2>1, <2>2, <2>3, AppendProperties
<1>9. \A i \in 1 .. m : ds[kids[i]].ident = dirent[list[i]].ident
  BY <1>2, <1>6, <1>7, <1>8
<1>10. /\ \A i \in 1 .. m + 1 : i \in 1 .. m \/ i = m + 1
       /\ \A i \in 1 .. m : i \in 1 .. m + 1
       /\ m + 1 \in 1 .. m + 1 /\ m + 1 \in Nat /\ (m + 1) - 1 = m
  OBVIOUS
<1>11. ASSUME NEW ident, NEW i, IsFirst(dirent, r, ident, i)
       PROVE  get_child(ds, r, ident) = get_child(dirent, r, ident)
  <2>1. i \in 1 .. m /\ dirent[list[i]].ident = ident /\ \A j \in 1 .. i - 1 : dirent[list[j]].ident # ident
    BY <1>4, <1>7, <1>11 DEF IsFirst
  <2>2. \A j \in 1 .. i - 1 : j \in 1 .. m
    BY <2>1
  <2>3. IsFirst(ds, r, ident, i)
    BY <1>4, <1>8, <1>9, <1>10, <2>1, <2>2 DEF IsFirst
  <2>4. get_child(ds, r, ident) = kids[i]
    BY <1>4, <1>8, <1>10, <2>3, FirstChildIs
  <2>5. get_child(dirent, r, ident) = list[i]
    BY <1>4, <1>6, <1>11, FirstChildIs
  <2> QED
    BY <1>8, <2>1, <2>4, <2>5
<1>12. ASSUME NEW ident, ident # <<name>>, HasNone(dirent, r, ident)
       PROVE  get_child(ds, r, ident) = get_child(dirent, r, ident)
  <2>1. \A i \in 1 .. m : dirent[list[i]].ident # ident
    BY <1>4, <1>7, <1>12 DEF HasNone
  <2>2. \A i \in 1 .. m + 1 : ds[kids[i]].ident # ident
    BY <1>3, <1>8, <1>9, <1>10, <1>12, <2>1
  <2>3. HasNone(ds, r, ident)
    BY <1>4, <1>8, <2>2 DEF HasNone
  <2> QED
    BY <1>4, <1>6, <1>8, <1>10, <1>12, <2>3, FirstChildIs
<1>13. ASSUME HasNone(dirent, r, <<name>>)
       PROVE  get_child(ds, r, <<name>>) = L + 1 /\ get_child(dirent, r, <<name>>) = 0
  <2>1. \A i \in 1 .. m : dirent[list[i]].ident # <<name>>
    BY <1>4, <1>7, <1>13 DEF HasNone
  <2>2. IsFirst(ds, r, <<name>>, m + 1)
    BY <1>3, <1>4, <1>8, <1>9, <1>10, <2>1 DEF IsFirst
  <2>3. get_child(ds, r, <<name>>) = kids[m + 1]
    BY <1>4, <1>8, <1>10, <2>2, FirstChildIs
  <2> QED
    BY <1>4, <1>6, <1>8, <1>13, <2>3, FirstChildIs
<1>14. ASSUME NEW i, IsFirst(dirent, r, <<name>>, i)
       PROVE  get_child(dirent, r, <<name>>) # 0
  <2>1. get_child(dirent, r, <<name>>) = list[i]
    BY <1>4, <1>6, <1>14, FirstChildIs
  <2>2. i \in 1 .. Len(list)
    BY <1>4, <1>14 DEF IsFirst
  <2> QED
    BY <1>6, <2>1, <2>2, RootIs
<1>15. ASSUME NEW ident
       PROVE  HasNone(dirent, r, ident) \/ \E i : IsFirst(dirent, r, ident, i)
  BY <1>4, <1>6, FirstChildIs
<1>16. ASSUME NEW n \in Entries \ {r}, NEW ident
       PROVE  get_child(ds, n, ident) = get_child(dirent, n, ident)
  <2>1. PICK S : S = Entries
    OBVIOUS
  <2>2. ChildrenAlike(dirent, ds, n, S)
    BY <1>2, <1>5, <2>1 DEF ChildrenAlike
  <2> QED
    BY <2>2, SameChild
<1>17. ASSUME NEW ident
       PROVE  get_child(ds, L + 1, ident) = 0
  <2>1. Len(ds[L + 1].children) = 0 /\ 1 .. 0 = {}
    BY <1>3, EmptySeq
  <2>2. HasNone(ds, L + 1, ident)
    BY <2>1 DEF HasNone
  <2> QED
    BY <2>1, <2>2, FirstChildIs
<1> QED
  BY <1>1, <1>11, <1>12, <1>13, <1>14, <1>15, <1>16, <1>17 DEF MadeIsFound

LEMMA MakeFileKeepsPlaces ==
  ASSUME PlacesInv, NEW name, make_file(name), ~ BeforeRoot, ~ BeforeRoot', tree_stage' = "running",
         tree_stage \in {"vga", "running"}, UNCHANGED <<root, mounted>>
  PROVE  PlacesInv'
<1>1. PICK r : r = root_of["udev"]
  OBVIOUS
<1>2. tree_stage # "udev" /\ tree_stage' # "udev"
  OBVIOUS
<1>3. r \in Entries /\ \A d \in Devices : root_of[d] \in Entries /\ root_of[d] # 0
  BY <1>1, <1>2, RootIs, DevicesAre DEF PlacesInv, RootsInv
<1>4. Made(dirent', r, name)
  BY <1>1, <1>3, MakeFileMakes
<1>5. PICK L \in Nat : L = Len(dirent)
  BY RootIs
<1>6. /\ Len(dirent') = L + 1
      /\ \A n \in Entries : dirent'[n].parent = dirent[n].parent
      /\ \A n \in Entries \ {r} : dirent'[n].children = dirent[n].children
      /\ dirent'[r].children = Append(dirent[r].children, L + 1)
      /\ dirent'[L + 1] = Entry(<<name>>, r, "udev", inode_counter)
  BY <1>4, <1>5 DEF Made
<1>7. /\ root_of' = root_of /\ root' = root /\ mounted' = mounted
  BY DEF make_file
<1>8. TreeInv'
  BY MakeFileKeeps DEF PlacesInv
<1>9. /\ Entries = 1 .. L /\ Entries' = 1 .. L + 1 /\ Entries' = Entries \cup {L + 1} /\ L + 1 \notin Entries
      /\ \A i \in 0 .. L : i \in 0 .. L + 1
  BY <1>5, <1>6 DEF Entries
<1>10. RootsInv'
  <2>1. root_of \in [Devices -> 0 .. Len(dirent)]
    BY DEF PlacesInv, RootsInv
  <2>2. root_of' \in [Devices -> 0 .. Len(dirent')]
    BY <1>5, <1>6, <1>7, <1>9, <2>1
  <2>3. \A d \in Devices : dirent'[root_of[d]].parent \in {NoParent, NullParent}
    BY <1>3, <1>6 DEF PlacesInv, RootsInv
  <2>4. \A d, e \in Devices : root_of[d] = root_of[e] => d = e
    BY DEF PlacesInv, RootsInv
  <2> QED
    BY <1>2, <1>3, <1>7, <2>2, <2>3, <2>4 DEF RootsInv
<1>11. Roots' = Roots /\ L + 1 \notin Roots
  <2>1. Roots \subseteq Entries
    BY <1>3 DEF Roots
  <2> QED
    BY <1>7, <1>9, <2>1 DEF Roots
<1>12. \A n \in Entries : dirent[n].children \in Seq(Entries)
  BY DEF PlacesInv, KidsInv, Entries
<1>13. ASSUME NEW n \in Entries, NEW c, NEW i \in 1 .. Len(dirent[n].children), c = dirent[n].children[i]
       PROVE  Placed(n, c)'
  <2>1. \/ c \notin Roots /\ dirent[c].parent = n
        \/ /\ n = root /\ c # root
           /\ \E e \in Devices : c = root_of[e] /\ mounted[e] # Unmounted
    BY <1>13, ChildIs
  <2>2. c \in Entries
    BY <1>12, <1>13, ElementOfSeq
  <2> QED
    BY <1>6, <1>7, <1>11, <2>1, <2>2 DEF Placed
<1>14. ASSUME NEW n \in Entries'
       PROVE  /\ dirent'[n].children \in Seq(Entries')
              /\ \A i \in 1 .. Len(dirent'[n].children), c \in Entries' :
                   c = dirent'[n].children[i] => Placed(n, c)'
  <2>1. CASE n \in Entries \ {r}
    <3>1. dirent'[n].children = dirent[n].children
      BY <1>6, <2>1
    <3>2. dirent[n].children \in Seq(Entries')
      BY <1>9, <1>12, <2>1, SeqMonotonic
    <3> QED
      BY <1>13, <2>1, <3>1, <3>2
  <2>2. CASE n = r
    <3>1. PICK list, kids : list = dirent[r].children /\ kids = dirent'[r].children
      OBVIOUS
    <3>2. list \in Seq(Entries')
      BY <1>3, <1>9, <1>12, <3>1, SeqMonotonic
    <3>3. PICK m \in Nat : m = Len(list)
      BY <3>2, LenProperties
    <3>4. /\ kids \in Seq(Entries') /\ Len(kids) = m + 1 /\ kids[m + 1] = L + 1
          /\ \A i \in 1 .. m : kids[i] = list[i]
      <4>1. kids = Append(list, L + 1) /\ L + 1 \in Entries'
        BY <1>6, <1>9, <3>1
      <4> QED
        BY <3>2, <3>3, <4>1, AppendProperties
    <3>5. ASSUME NEW i \in 1 .. m + 1, NEW c \in Entries', c = kids[i]
          PROVE  Placed(n, c)'
      <4>1. i \in 1 .. m \/ i = m + 1
        BY <3>5
      <4>2. CASE i \in 1 .. m
        BY <1>3, <1>13, <2>2, <3>1, <3>3, <3>4, <3>5, <4>2
      <4>3. CASE i = m + 1
        <5>1. c = L + 1
          BY <3>4, <3>5, <4>3
        <5>2. dirent'[c].parent = r
          BY <1>6, <5>1 DEF Entry
        <5> QED
          BY <1>11, <2>2, <5>1, <5>2 DEF Placed
      <4> QED
        BY <4>1, <4>2, <4>3
    <3> QED
      BY <2>2, <3>1, <3>4, <3>5
  <2>3. CASE n = L + 1
    <3>1. dirent'[n].children = <<>>
      BY <1>6, <2>3 DEF Entry
    <3>2. Len(<<>>) = 0 /\ 1 .. 0 = {} /\ <<>> \in Seq(Entries')
      BY EmptySeq
    <3> QED
      BY <3>1, <3>2
  <2> QED
    BY <1>9, <2>1, <2>2, <2>3
<1>15. KidsInv'
  BY <1>14 DEF KidsInv, Entries
<1>16. MountsInv'
  BY <1>7 DEF PlacesInv, MountsInv, BeforeRoot
<1>17. MountedInv'
  <2>1. root \in Entries \ {r}
    BY <1>1, RootIs, DevicesAre DEF PlacesInv, RootsInv
  <2>2. PICK ds : ds = dirent'
    OBVIOUS
  <2>3. Made(ds, r, name)
    BY <1>4, <2>2
  <2>4. \A ident : get_child(ds, root, ident) = get_child(dirent, root, ident)
    <3>1. MadeIsFound(ds, r, name)
      BY <1>3, <2>3, MadeFound
    <3> QED
      BY <2>1, <3>1 DEF MadeIsFound
  <2> QED
    BY <1>7, <2>2, <2>4 DEF PlacesInv, MountedInv
<1> QED
  BY <1>8, <1>10, <1>15, <1>16, <1>17 DEF PlacesInv

\* What the constructor of udev makes of the tree.
LEMMA NewUdevMakes ==
  ASSUME TreeInv, NewUdev, NEW L \in Nat, L = Len(dirent)
  PROVE  /\ Len(dirent') = L + 2 /\ \A n \in 1 .. L : dirent'[n] = dirent[n]
         /\ dirent'[L + 1].children = <<L + 2>> /\ dirent'[L + 1].parent = NoParent
         /\ dirent'[L + 2].children = <<>> /\ dirent'[L + 2].parent = L + 1
<1>1. PICK e1, e2 : /\ e1 = [Entry(<<"">>, NoParent, "udev", inode_counter) EXCEPT !.children = <<L + 2>>]
                    /\ e2 = Entry(<<"tty0">>, L + 1, "udev", inode_counter + 1)
  OBVIOUS
<1>2. PICK ds : ds = Append(dirent, e1)
  OBVIOUS
<1>3. dirent' = Append(ds, e2)
  <2>1. (L + 1) + 1 = L + 2
    BY SMT
  <2> QED
    BY <1>1, <1>2, <2>1 DEF NewUdev
<1>4. dirent = [n \in 1 .. L |-> dirent[n]]
  BY DEF TreeInv, EntriesInv
<1>5. /\ Len(ds) = L + 1 /\ ds = [n \in 1 .. L + 1 |-> ds[n]]
      /\ \A n \in 1 .. L : ds[n] = dirent[n]
      /\ ds[L + 1] = e1
  BY <1>2, <1>4, AppendOne
<1>6. /\ Len(dirent') = L + 2 /\ \A n \in 1 .. L + 1 : dirent'[n] = ds[n]
      /\ dirent'[L + 2] = e2
  <2>1. L + 1 \in Nat /\ (L + 1) + 1 = L + 2
    BY SMT
  <2> QED
    BY <1>3, <1>5, <2>1, AppendOne
<1>7. \A n \in 1 .. L : n \in 1 .. L + 1
  OBVIOUS
<1>8. L + 1 \in 1 .. L + 1
  OBVIOUS
<1>9. dirent'[L + 1] = e1 /\ \A n \in 1 .. L : dirent'[n] = dirent[n]
  BY <1>5, <1>6, <1>7, <1>8
<1>10. e1.children = <<L + 2>> /\ e1.parent = NoParent /\ e2.children = <<>> /\ e2.parent = L + 1
  BY <1>1 DEF Entry
<1> QED
  BY <1>6, <1>9, <1>10

LEMMA NewUdevKeepsPlaces == ASSUME PlacesInv, BootUdev PROVE PlacesInv'
<1>1. PICK L \in Nat : L = Len(dirent)
  BY RootIs
<1>2. /\ tree_stage = "udev" /\ tree_stage' = "mount_root" /\ root' = root /\ mounted' = mounted
      /\ root_of' = [root_of EXCEPT !["udev"] = L + 1]
  BY <1>1 DEF BootUdev, NewUdev
<1>3. TreeInv'
  BY NewUdevKeeps DEF PlacesInv, BootUdev
<1>4. /\ Len(dirent') = L + 2 /\ \A n \in Entries : dirent'[n] = dirent[n]
      /\ dirent'[L + 1].children = <<L + 2>> /\ dirent'[L + 1].parent = NoParent
      /\ dirent'[L + 2].children = <<>> /\ dirent'[L + 2].parent = L + 1
  BY <1>1, NewUdevMakes DEF PlacesInv, BootUdev, Entries
<1>5. /\ Entries = 1 .. L /\ Entries' = Entries \cup {L + 1, L + 2} /\ Entries' = 1 .. L + 2
      /\ L + 1 \notin Entries /\ L + 2 \notin Entries /\ L + 1 # L + 2 /\ L + 1 # 0 /\ L + 2 # 0
      /\ L + 1 \in 0 .. L + 2 /\ \A i \in 0 .. L : i \in 0 .. L + 2 /\ i # L + 1 /\ i # L + 2
  BY <1>1, <1>4 DEF Entries
<1>6. BeforeRoot /\ BeforeRoot' /\ root = 0 /\ root' = 0
  <2>1. BeforeRoot /\ BeforeRoot'
    BY <1>2 DEF BeforeRoot
  <2> QED
    BY <1>2, <2>1, RootIs
<1>7. \A d \in Devices : mounted[d] = Unmounted /\ mounted'[d] = Unmounted
  BY <1>2, <1>6 DEF PlacesInv, MountsInv
<1>8. root_of \in [Devices -> 0 .. L]
  BY <1>1 DEF PlacesInv, RootsInv
<1>9. \A d \in Devices : root_of'[d] = IF d = "udev" THEN L + 1 ELSE root_of[d]
  BY <1>2, <1>8
<1>10. RootsInv'
  <2>1. root_of' \in [Devices -> 0 .. Len(dirent')]
    BY <1>2, <1>4, <1>5, <1>8
  <2>2. \A d \in Devices : d # "udev" => root_of[d] # 0 /\ root_of[d] \in Entries
    BY RootIs DEF PlacesInv, RootsInv
  <2>3. \A d \in Devices : root_of'[d] # 0
    BY <1>5, <1>9, <2>2
  <2>4. ASSUME NEW d \in Devices, NEW e \in Devices, root_of'[d] = root_of'[e]
        PROVE  d = e
    <3>1. \A f \in Devices : root_of[f] # L + 1
      BY <1>5, <1>8
    <3> QED
      BY <1>9, <2>4, <3>1 DEF PlacesInv, RootsInv
  <2>5. ASSUME NEW d \in Devices
        PROVE  dirent'[root_of'[d]].parent \in {NoParent, NullParent}
    <3>1. CASE d = "udev"
      BY <1>4, <1>9, <3>1
    <3>2. CASE d # "udev"
      <4>1. root_of'[d] = root_of[d] /\ root_of[d] # 0 /\ root_of[d] \in Entries
        BY <1>9, <2>2, <3>2
      <4>2. dirent[root_of[d]].parent \in {NoParent, NullParent}
        BY <4>1 DEF PlacesInv, RootsInv
      <4> QED
        BY <1>4, <4>1, <4>2
    <3> QED
      BY <3>1, <3>2
  <2> QED
    BY <1>2, <2>1, <2>3, <2>4, <2>5 DEF RootsInv
<1>11. Roots' \subseteq Roots \cup {L + 1} /\ L + 2 \notin Roots'
  <2>1. Roots' \subseteq Roots \cup {L + 1}
    BY <1>9 DEF Roots
  <2>2. L + 2 \notin Roots
    BY <1>5, <1>8 DEF Roots
  <2> QED
    BY <1>5, <2>1, <2>2
<1>12. ASSUME NEW n \in Entries'
       PROVE  /\ dirent'[n].children \in Seq(Entries')
              /\ \A i \in 1 .. Len(dirent'[n].children), c \in Entries' :
                   c = dirent'[n].children[i] => Placed(n, c)'
  <2>1. CASE n \in Entries
    <3>1. dirent'[n].children = dirent[n].children /\ dirent[n].children \in Seq(Entries)
      BY <1>4, <2>1 DEF PlacesInv, KidsInv, Entries
    <3>2. dirent[n].children \in Seq(Entries')
      BY <1>5, <3>1, SeqMonotonic
    <3>3. ASSUME NEW i \in 1 .. Len(dirent[n].children), NEW c, c = dirent[n].children[i]
          PROVE  Placed(n, c)'
      <4>1. c \in Entries
        BY <3>1, <3>3, ElementOfSeq
      <4>2. c \notin Roots /\ dirent[c].parent = n
        BY <1>7, <2>1, <3>3, ChildIs
      <4>3. c \notin Roots'
        BY <1>5, <1>11, <4>1, <4>2
      <4> QED
        BY <1>4, <4>1, <4>2, <4>3 DEF Placed
    <3> QED
      BY <3>1, <3>2, <3>3
  <2>2. CASE n = L + 1
    <3>1. PICK kids : kids = dirent'[n].children
      OBVIOUS
    <3>2. kids = <<L + 2>> /\ L + 2 \in Entries'
      BY <1>4, <1>5, <2>2, <3>1
    <3>3. kids \in Seq(Entries') /\ Len(kids) = 1 /\ kids[1] = L + 2
      BY <3>2
    <3>4. Placed(n, L + 2)'
      BY <1>4, <1>11, <2>2 DEF Placed
    <3>5. \A i \in 1 .. 1 : i = 1
      OBVIOUS
    <3>6. ASSUME NEW c \in Entries', c = L + 2
          PROVE  Placed(n, c)'
      BY <3>4, <3>6
    <3> QED
      BY <3>1, <3>3, <3>5, <3>6
  <2>3. CASE n = L + 2
    <3>1. dirent'[n].children = <<>>
      BY <1>4, <2>3
    <3>2. Len(<<>>) = 0 /\ 1 .. 0 = {} /\ <<>> \in Seq(Entries')
      BY EmptySeq
    <3> QED
      BY <3>1, <3>2
  <2> QED
    BY <1>5, <2>1, <2>2, <2>3
<1>13. KidsInv'
  BY <1>12 DEF KidsInv, Entries
<1>14. MountsInv'
  BY <1>2, <1>6, <1>7 DEF PlacesInv, MountsInv
<1>15. MountedInv'
  BY <1>7 DEF MountedInv
<1> QED
  BY <1>3, <1>10, <1>13, <1>14, <1>15 DEF PlacesInv

LEMMA OneName ==
  ASSUME TopMounts, NEW path \in MountPaths \cup {<<"dev">>}
  PROVE  \E name \in Names : path = <<name>>
<1>1. path \in [1 .. 1 -> Names]
  BY DEF TopMounts
<1>2. path[1] \in Names /\ path = <<path[1]>>
  BY <1>1
<1> QED
  BY <1>2

LEMMA PlacesStep == TopMounts /\ PlacesInv /\ [TreeNext]_treeVars => PlacesInv'
<1> SUFFICES ASSUME TopMounts, PlacesInv, [TreeNext]_treeVars
             PROVE  PlacesInv'
  OBVIOUS
<1>1. CASE BootUdev
  BY <1>1, NewUdevKeepsPlaces
<1>2. CASE BootRoot
  BY <1>2, BootRootKeeps
<1>3. CASE BootDev
  <2>1. tree_stage = "mount_dev" /\ ~ BeforeRoot /\ UNCHANGED <<root_of, inode_cache, inode_counter>>
    BY <1>3 DEF BootDev, BeforeRoot
  <2>2. "udev" \in Devices /\ mounted["udev"] = Unmounted
    BY <2>1, DevicesAre DEF PlacesInv, MountsInv
  <2>3. CASE MountStops("udev", <<"dev">>)
    BY <2>1, <2>2, <2>3, StopKeeps
  <2>4. CASE MountCovers("udev", <<"dev">>) /\ tree_stage' = "vga"
    <3>1. "dev" \in Names
      BY DEF TopMounts
    <3> QED
      BY <2>1, <2>2, <2>4, <3>1, CoverKeeps
  <2> QED
    BY <1>3, <2>3, <2>4 DEF BootDev
<1>4. CASE BootVga
  <2>1. /\ make_file("vga") /\ tree_stage = "vga" /\ tree_stage' = "running" /\ UNCHANGED <<root, mounted>>
        /\ ~ BeforeRoot /\ ~ BeforeRoot'
    BY <1>4 DEF BootVga, BeforeRoot
  <2> QED
    BY <2>1, MakeFileKeepsPlaces
<1>5. CASE MakeFile
  <2>1. PICK name : make_file(name)
    BY <1>5 DEF MakeFile
  <2>2. /\ tree_stage = "running" /\ tree_stage' = "running" /\ UNCHANGED <<root, mounted>>
        /\ ~ BeforeRoot /\ ~ BeforeRoot'
    BY <1>5 DEF MakeFile, BeforeRoot
  <2> QED
    BY <2>1, <2>2, MakeFileKeepsPlaces
<1>6. CASE mount_device
  <2>1. tree_stage = "running" /\ ~ BeforeRoot /\ UNCHANGED <<root_of, inode_cache, inode_counter>>
    BY <1>6 DEF mount_device, BeforeRoot
  <2>2. PICK d \in Range(Extra), path \in MountPaths :
          /\ mounted[d] = Unmounted
          /\ MountStops(d, path) \/ (MountCovers(d, path) /\ tree_stage' = tree_stage)
    BY <1>6 DEF mount_device
  <2>3. d \in Devices
    BY DEF Devices
  <2>4. CASE MountStops(d, path)
    BY <2>1, <2>2, <2>3, <2>4, StopKeeps
  <2>5. CASE MountCovers(d, path) /\ tree_stage' = tree_stage
    <3>1. PICK name \in Names : path = <<name>>
      BY OneName
    <3>2. MountCovers(d, <<name>>) /\ tree_stage' = "running"
      BY <2>1, <2>5, <3>1
    <3> QED
      BY <2>1, <2>2, <2>3, <3>2, CoverKeeps
  <2> QED
    BY <2>2, <2>4, <2>5
<1>7. CASE UNCHANGED treeVars
  <2>0. dirent' = dirent /\ root_of' = root_of /\ root' = root /\ tree_stage' = tree_stage /\ mounted' = mounted
    BY <1>7 DEF treeVars
  <2>1. TreeInv'
    BY <1>7, TreeInvStep DEF PlacesInv
  <2>2. KidsInv'
    <3>1. \A n, c : Placed(n, c)' <=> Placed(n, c)
      BY <2>0 DEF Placed, Roots
    <3> QED
      BY <2>0, <3>1 DEF PlacesInv, KidsInv
  <2>3. RootsInv'
    BY <1>7 DEF PlacesInv, RootsInv, treeVars
  <2>4. MountsInv'
    BY <1>7 DEF PlacesInv, MountsInv, BeforeRoot, treeVars
  <2>5. MountedInv'
    BY <2>0 DEF PlacesInv, MountedInv, BeforeRoot
  <2> QED
    BY <2>1, <2>2, <2>3, <2>4, <2>5 DEF PlacesInv
<1>8. CASE LookUpOrSpin
  BY <1>7, <1>8 DEF LookUpOrSpin
<1> QED
  BY <1>1, <1>2, <1>3, <1>4, <1>5, <1>6, <1>7, <1>8 DEF TreeNext

\* The tree that the boot begins with, entry by entry.
FirstTree(image, N) ==
  LET K == Len(Extra)
  IN /\ Len(image) = N /\ Len(dirent) = N + 2 * K /\ dirent = [n \in 1 .. N + 2 * K |-> dirent[n]]
     /\ \A n \in 1 .. N : dirent[n] = InitrdEntry(image, n)
     /\ \A n \in N + 1 .. N + 2 * K : \E i \in 1 .. K :
          \/ n = N + 2 * i - 1 /\ dirent[n] = ExtraRoot(n, Extra[i])
          \/ n = N + 2 * i /\ dirent[n] = ExtraFile(n, Extra[i])
     /\ root_of = [d \in Devices |-> root_of[d]] /\ root_of["initrd"] = 1 /\ root_of["udev"] = 0
     /\ \A d \in Devices \ {"initrd", "udev"} : \E i \in 1 .. K : d = Extra[i] /\ root_of[d] = N + 2 * i - 1

LEMMA FirstTreeIs ==
  ASSUME TreeInit
  PROVE  \E image \in Images, N \in Nat \ {0} : FirstTree(image, N)
<1>1. PICK image \in Images : InitWith(image)
  BY DEF TreeInit
<1>2. PICK N, K : N = Len(image) /\ K = Len(Extra)
  OBVIOUS
<1> DEFINE RootOf(i) == N + 2 * i - 1
           Place(d) == CHOOSE i \in DOMAIN Extra : Extra[i] = d
           ItemOf(i, n) == IF n = RootOf(i) THEN ExtraRoot(n, Extra[i]) ELSE ExtraFile(n, Extra[i])
<1>3. /\ N \in Nat \ {0} /\ K \in Nat /\ DOMAIN Extra = 1 .. K
      /\ \A i, j \in 1 .. K : Extra[i] = Extra[j] => i = j
  BY <1>2, DevicesAssumption DEF IsInjective
<1>4. /\ dirent = [n \in 1 .. N + 2 * K |->
            IF n <= N THEN InitrdEntry(image, n) ELSE ItemOf((n - N + 1) \div 2, n)]
      /\ root_of = [d \in Devices |->
            CASE d = "initrd" -> 1 [] d = "udev" -> 0 [] OTHER -> RootOf(Place(d))]
  BY <1>1, <1>2 DEF InitWith
<1>5. root_of["initrd"] = 1 /\ root_of["udev"] = 0
  BY <1>4, DevicesAre
<1>6. ASSUME NEW d \in Devices \ {"initrd", "udev"}
      PROVE  \E i \in 1 .. K : d = Extra[i] /\ root_of[d] = RootOf(i)
  <2>1. PICK i \in 1 .. K : d = Extra[i]
    BY <1>3 DEF Devices, Range
  <2>2. Place(d) = i
    BY <1>3, <2>1
  <2>3. root_of[d] = RootOf(Place(d))
    BY <1>4
  <2> QED
    BY <2>1, <2>2, <2>3
<1>7. ASSUME NEW n \in N + 1 .. N + 2 * K
      PROVE  \E i \in 1 .. K : \/ n = N + 2 * i - 1 /\ dirent[n] = ExtraRoot(n, Extra[i])
                               \/ n = N + 2 * i /\ dirent[n] = ExtraFile(n, Extra[i])
  <2> DEFINE i == (n - N + 1) \div 2
  <2>1. i \in 1 .. K /\ (n = N + 2 * i - 1 \/ n = N + 2 * i)
    BY <1>3, ExtraPlace
  <2>2. n \in 1 .. N + 2 * K /\ ~ (n <= N)
    BY <1>3
  <2>3. dirent[n] = ItemOf(i, n)
    BY <2>2, <1>4
  <2> HIDE DEF i
  <2>4. n = N + 2 * i - 1 \/ (n = N + 2 * i /\ n # RootOf(i))
    BY <2>1, <1>3 DEF RootOf
  <2> QED
    BY <2>1, <2>3, <2>4
<1>8. \A n \in 1 .. N : dirent[n] = InitrdEntry(image, n)
  BY <1>3, <1>4
<1>9. root_of = [d \in Devices |-> root_of[d]]
  BY <1>4
<1>10. Len(dirent) = N + 2 * K /\ dirent = [n \in 1 .. N + 2 * K |-> dirent[n]]
  <2>1. PICK m \in Nat : m = N + 2 * K
    BY <1>3
  <2>2. dirent = [n \in 1 .. m |-> dirent[n]]
    BY <1>4, <2>1
  <2>3. Len(dirent) = m
    BY <2>2, IsSeqOfItems
  <2> QED
    BY <2>1, <2>2, <2>3
<1>11. FirstTree(image, N)
  BY <1>2, <1>5, <1>6, <1>7, <1>8, <1>9, <1>10 DEF FirstTree
<1> QED
  BY <1>3, <1>11

LEMMA PlacesInit == TreeInit => PlacesInv
<1> SUFFICES ASSUME TreeInit
             PROVE  PlacesInv
  OBVIOUS
<1>1. PICK image \in Images, N \in Nat \ {0} : FirstTree(image, N)
  BY FirstTreeIs
<1>2. PICK K \in Nat : K = Len(Extra)
  BY DevicesAssumption
<1>3. /\ Len(image) = N /\ Len(dirent) = N + 2 * K
      /\ \A n \in 1 .. N : dirent[n] = InitrdEntry(image, n)
      /\ \A n \in N + 1 .. N + 2 * K : \E i \in 1 .. K :
           \/ n = N + 2 * i - 1 /\ dirent[n] = ExtraRoot(n, Extra[i])
           \/ n = N + 2 * i /\ dirent[n] = ExtraFile(n, Extra[i])
      /\ root_of = [d \in Devices |-> root_of[d]] /\ root_of["initrd"] = 1 /\ root_of["udev"] = 0
      /\ \A d \in Devices \ {"initrd", "udev"} : \E i \in 1 .. K : d = Extra[i] /\ root_of[d] = N + 2 * i - 1
  BY <1>1, <1>2 DEF FirstTree
<1>4. /\ root = 0 /\ tree_stage = "udev" /\ mounted = [d \in Devices |-> Unmounted]
  BY DEF TreeInit
<1>5. TreeInv
  BY TreeInvInit
<1>6. PICK L \in Nat : L = Len(dirent) /\ L = N + 2 * K
  BY <1>3
<1>7. /\ \A n \in 1 .. L : n \in 1 .. N \/ n \in N + 1 .. N + 2 * K
      /\ \A n \in 1 .. N : n \in 1 .. L /\ n \notin N + 1 .. N + 2 * K
      /\ \A n \in N + 1 .. N + 2 * K : n \in 1 .. L
      /\ 1 \in 1 .. N /\ 1 \in 0 .. L /\ 0 \in 0 .. L
  BY <1>6
<1>8. ASSUME NEW i \in 1 .. K
      PROVE  /\ N + 2 * i - 1 \in N + 1 .. N + 2 * K /\ N + 2 * i \in N + 1 .. N + 2 * K
             /\ N + 2 * i - 1 \in 0 .. L /\ N + 2 * i - 1 # 1 /\ N + 2 * i - 1 # 0
             /\ N + 2 * i - 1 + 1 = N + 2 * i /\ N + 2 * i - 1 = N + 2 * i - 1
  BY <1>6
<1>9. ASSUME NEW i \in 1 .. K, NEW j \in 1 .. K
      PROVE  N + 2 * i - 1 # N + 2 * j /\ (N + 2 * i - 1 = N + 2 * j - 1 => i = j)
  BY SMT
\* The entries of the further devices.
<1>10. ASSUME NEW i \in 1 .. K
       PROVE  \E d : dirent[N + 2 * i - 1] = ExtraRoot(N + 2 * i - 1, d)
  <2>1. PICK n : n = N + 2 * i - 1 /\ n \in N + 1 .. N + 2 * K
    BY <1>8
  <2>2. PICK j \in 1 .. K :
          \/ n = N + 2 * j - 1 /\ dirent[n] = ExtraRoot(n, Extra[j])
          \/ n = N + 2 * j /\ dirent[n] = ExtraFile(n, Extra[j])
    BY <1>3, <2>1
  <2>3. n # N + 2 * j
    BY <1>9, <2>1
  <2>4. dirent[n] = ExtraRoot(n, Extra[j])
    BY <2>2, <2>3
  <2> QED
    BY <2>1, <2>4
<1>11. ASSUME NEW i \in 1 .. K
       PROVE  \E d : dirent[N + 2 * i] = ExtraFile(N + 2 * i, d)
  <2>1. PICK n : n = N + 2 * i /\ n \in N + 1 .. N + 2 * K
    BY <1>8
  <2>2. PICK j \in 1 .. K :
          \/ n = N + 2 * j - 1 /\ dirent[n] = ExtraRoot(n, Extra[j])
          \/ n = N + 2 * j /\ dirent[n] = ExtraFile(n, Extra[j])
    BY <1>3, <2>1
  <2>3. n # N + 2 * j - 1
    BY <1>9, <2>1
  <2>4. dirent[n] = ExtraFile(n, Extra[j])
    BY <2>2, <2>3
  <2> QED
    BY <2>1, <2>4
<1>12. ASSUME NEW i \in 1 .. K
       PROVE  /\ dirent[N + 2 * i - 1].parent = NoParent /\ dirent[N + 2 * i - 1].children = <<N + 2 * i>>
              /\ dirent[N + 2 * i].parent = N + 2 * i - 1 /\ dirent[N + 2 * i].children = <<>>
  <2>1. PICK n, m : n = N + 2 * i - 1 /\ m = N + 2 * i /\ n + 1 = m /\ m - 1 = n
    BY <1>8
  <2>2. PICK d, e : dirent[n] = ExtraRoot(n, d) /\ dirent[m] = ExtraFile(m, e)
    BY <2>1, <1>10, <1>11
  <2>3. dirent[n].parent = NoParent /\ dirent[n].children = <<n + 1>>
    BY <2>2 DEF ExtraRoot, Entry
  <2>4. dirent[m].parent = m - 1 /\ dirent[m].children = <<>>
    BY <2>2 DEF ExtraFile, Entry
  <2> QED
    BY <2>1, <2>3, <2>4
<1>13. ASSUME NEW n \in 1 .. N
       PROVE  /\ dirent[n].children = ChildrenOf(image, n)
              /\ dirent[n].parent = IF n = 1 THEN NullParent ELSE image[n].parent
  <2>1. dirent[n] = InitrdEntry(image, n)
    BY <1>3
  <2>2. \A ident, parent, children :
          LET e == [ident |-> ident, parent |-> parent, dev |-> "initrd", ino |-> n - 1, children |-> children]
          IN e.parent = parent /\ e.children = children
    OBVIOUS
  <2>3. /\ InitrdEntry(image, n).children = ChildrenOf(image, n)
        /\ InitrdEntry(image, n).parent = IF n = 1 THEN NullParent ELSE image[n].parent
    BY <2>2, Zenon DEF InitrdEntry
  <2> QED
    BY <2>1, <2>3
<1>14. ASSUME NEW d \in Devices
       PROVE  \/ d = "initrd" /\ root_of[d] = 1
              \/ d = "udev" /\ root_of[d] = 0
              \/ \E i \in 1 .. K : d = Extra[i] /\ root_of[d] = N + 2 * i - 1 /\ d # "initrd" /\ d # "udev"
  BY <1>3
<1>15. RootsInv
  <2>1. \A d \in Devices : root_of[d] \in 0 .. L
    BY <1>7, <1>8, <1>14
  <2>2. root_of \in [Devices -> 0 .. Len(dirent)]
    BY <1>3, <1>6, <2>1
  <2>3. \A d \in Devices : root_of[d] = 0 <=> d = "udev"
    BY <1>8, <1>14
  <2>4. ASSUME NEW d \in Devices, NEW e \in Devices, root_of[d] = root_of[e]
        PROVE  d = e
    <3>1. CASE d = "initrd" \/ d = "udev" \/ e = "initrd" \/ e = "udev"
      BY <1>8, <1>14, <2>4, <3>1
    <3>2. CASE ~ (d = "initrd" \/ d = "udev" \/ e = "initrd" \/ e = "udev")
      <4>1. PICK i \in 1 .. K : d = Extra[i] /\ root_of[d] = N + 2 * i - 1
        BY <1>3, <3>2
      <4>2. PICK j \in 1 .. K : e = Extra[j] /\ root_of[e] = N + 2 * j - 1
        BY <1>3, <3>2
      <4>3. i = j
        BY <1>9, <2>4, <4>1, <4>2
      <4> QED
        BY <4>1, <4>2, <4>3
    <3> QED
      BY <3>1, <3>2
  <2>5. ASSUME NEW d \in Devices, root_of[d] # 0
        PROVE  dirent[root_of[d]].parent \in {NoParent, NullParent}
    <3>1. CASE root_of[d] = 1
      BY <1>7, <1>13, <3>1
    <3>2. CASE \E i \in 1 .. K : root_of[d] = N + 2 * i - 1
      BY <1>12, <3>2
    <3> QED
      BY <1>14, <2>5, <3>1, <3>2
  <2> QED
    BY <1>4, <2>2, <2>3, <2>4, <2>5 DEF RootsInv
<1>16. \A c \in Roots : c = 0 \/ c = 1 \/ \E i \in 1 .. K : c = N + 2 * i - 1
  BY <1>14 DEF Roots
<1>17. ASSUME NEW n \in 1 .. L
       PROVE  /\ dirent[n].children \in Seq(1 .. L)
              /\ \A k \in 1 .. Len(dirent[n].children), c \in 1 .. L :
                   c = dirent[n].children[k] => Placed(n, c)
  <2>1. CASE n \in 1 .. N
    <3>1. PICK list : list = dirent[n].children
      OBVIOUS
    <3>2. list \in Seq(2 .. N) /\ \A k \in 1 .. Len(list) : image[list[k]].parent = n
      <4>1. /\ ChildrenOf(image, n) \in Seq(2 .. N)
            /\ \A k \in 1 .. Len(ChildrenOf(image, n)) : image[ChildrenOf(image, n)[k]].parent = n
        <5>1. N \in Nat /\ Len(image) = N
          BY <1>2, <1>3
        <5> QED
          BY <5>1, ImageChildren
      <4> QED
        BY <1>13, <2>1, <3>1, <4>1
    <3>3. (2 .. N) \subseteq 1 .. L /\ \A c \in 2 .. N : c \in 1 .. N /\ c # 1 /\ c # 0 /\ c \notin N + 1 .. N + 2 * K
      BY <1>6
    <3>4. list \in Seq(1 .. L)
      BY <3>2, <3>3, SeqMonotonic
    <3>5. ASSUME NEW k \in 1 .. Len(list), NEW c, c = list[k]
          PROVE  Placed(n, c)
      <4>1. c \in 2 .. N /\ image[c].parent = n
        BY <3>2, <3>5, ElementOfSeq
      <4>2. dirent[c].parent = n
        BY <1>13, <3>3, <4>1
      <4>3. c \notin Roots
        BY <1>8, <1>16, <3>3, <4>1
      <4> QED
        BY <4>2, <4>3 DEF Placed
    <3> QED
      BY <3>1, <3>4, <3>5
  <2>2. ASSUME NEW i \in 1 .. K, n = N + 2 * i - 1
        PROVE  /\ dirent[n].children \in Seq(1 .. L)
               /\ \A k \in 1 .. Len(dirent[n].children), c \in 1 .. L :
                    c = dirent[n].children[k] => Placed(n, c)
    <3>1. PICK kids, m : kids = dirent[n].children /\ m = N + 2 * i
      OBVIOUS
    <3>2. kids = <<m>> /\ m \in 1 .. L
      BY <1>7, <1>8, <1>12, <2>2, <3>1
    <3>3. kids \in Seq(1 .. L) /\ Len(kids) = 1 /\ kids[1] = m
      BY <3>2
    <3>4. m \notin Roots
      <4>1. m \in N + 1 .. N + 2 * K
        BY <1>8, <3>1
      <4>2. m # 0 /\ m # 1
        BY <1>7, <4>1
      <4>3. \A j \in 1 .. K : m # N + 2 * j - 1
        BY <1>9, <3>1
      <4> QED
        BY <1>16, <4>2, <4>3
    <3>5. Placed(n, m)
      BY <1>12, <2>2, <3>1, <3>4 DEF Placed
    <3>6. \A k \in 1 .. 1 : k = 1
      OBVIOUS
    <3> QED
      BY <3>1, <3>3, <3>5, <3>6
  <2>3. ASSUME NEW i \in 1 .. K, n = N + 2 * i
        PROVE  /\ dirent[n].children \in Seq(1 .. L)
               /\ \A k \in 1 .. Len(dirent[n].children), c \in 1 .. L :
                    c = dirent[n].children[k] => Placed(n, c)
    <3>1. dirent[n].children = <<>>
      BY <1>12, <2>3
    <3>2. Len(<<>>) = 0 /\ 1 .. 0 = {} /\ <<>> \in Seq(1 .. L)
      BY EmptySeq
    <3> QED
      BY <3>1, <3>2
  <2>4. CASE n \in N + 1 .. N + 2 * K
    <3>1. \E i \in 1 .. K : n = N + 2 * i - 1 \/ n = N + 2 * i
      BY <1>3, <2>4
    <3> QED
      BY <2>2, <2>3, <3>1
  <2> QED
    BY <1>7, <2>1, <2>4
<1>18. KidsInv
  BY <1>6, <1>17 DEF KidsInv
<1>19. \A d \in Devices : mounted[d] = Unmounted
  BY <1>4
<1>20. MountsInv /\ MountedInv
  BY <1>4, <1>19 DEF MountsInv, MountedInv, BeforeRoot
<1> QED
  BY <1>5, <1>15, <1>18, <1>20 DEF PlacesInv

----------------------------------------------------------------------------
(* The steps of the tree as steps of the namespace                           *)

Seen == [d \in Devices |-> [p \in Paths |-> FileIn(dirent, root_of[d], p)]]

LEMMA SeenIs ==
  /\ Seen = [d \in Devices |-> [p \in Paths |-> FileAt(d, p)]]
  /\ Seen' = [d \in Devices |-> [p \in Paths |-> FileAt(d, p)']]
<1>1. \A d, p : FileAt(d, p) = FileIn(dirent, root_of[d], p)
  BY DEF FileAt, FileIn
<1>2. \A d, p : FileAt(d, p)' = FileIn(dirent', root_of'[d], p)
  BY DEF FileAt, FileIn
<1> QED
  BY <1>1, <1>2 DEF Seen

LEMMA SeenAt ==
  /\ \A d \in Devices, p \in Paths : Seen[d][p] = FileIn(dirent, root_of[d], p)
  /\ \A d \in Devices, p \in Paths : Seen'[d][p] = FileIn(dirent', root_of'[d], p)
  /\ Seen = [d \in Devices |-> [p \in Paths |-> Seen[d][p]]]
  /\ Seen' = [d \in Devices |-> [p \in Paths |-> Seen'[d][p]]]
BY DEF Seen

\* Files that lookups find as before.
LEMMA SameSeen ==
  ASSUME \A d \in Devices, p \in Paths : FileIn(dirent', root_of'[d], p) = FileIn(dirent, root_of[d], p)
  PROVE  Seen' = Seen
BY DEF Seen

\* The constructor of udev fills a device that is not mounted.
LEMMA UdevFills ==
  ASSUME TopMounts, PlacesInv, BootUdev
  PROVE  Visible!Attach("udev")
<1>1. mounted["udev"] = Unmounted /\ mounted' = mounted /\ tree_stage = "udev"
  BY DevicesAre DEF BootUdev, PlacesInv, MountsInv, BeforeRoot
<1>2. PICK L \in Nat : L = Len(dirent)
  BY RootIs
<1>3. NewUdev /\ TreeInv
  BY DEF BootUdev, PlacesInv
<1>4. \A n \in Entries : dirent'[n] = dirent[n]
  BY <1>2, <1>3, NewUdevMakes DEF Entries
<1>5. PICK ds : ds = dirent'
  OBVIOUS
<1>6. ASSUME NEW n \in Entries, NEW name
      PROVE  get_child(ds, n, <<name>>) = get_child(dirent, n, <<name>>)
  <2>1. dirent[n].children \in Seq(Entries)
    BY DEF PlacesInv, KidsInv, Entries
  <2>2. ChildrenAlike(dirent, ds, n, Entries)
    BY <1>4, <1>5, <2>1 DEF ChildrenAlike
  <2> QED
    BY <2>2, SameChild
<1>7. SameLookups(Entries, dirent, ds)
  BY <1>6, RootIs, FoundEntry DEF SameLookups
<1>8. SameIds(Entries, dirent, ds)
  BY <1>4, <1>5 DEF SameIds
<1>9. ASSUME NEW d \in Devices \ {"udev"}, NEW p \in Paths
      PROVE  Seen'[d][p] = Seen[d][p]
  <2>1. root_of'[d] = root_of[d] /\ root_of[d] \in Entries \cup {0}
    BY <1>3, RootIs DEF NewUdev, TreeInv
  <2>2. FileIn(ds, root_of[d], p) = FileIn(dirent, root_of[d], p)
    BY <1>7, <1>8, <2>1, FilesAgree
  <2> QED
    BY <1>5, <2>1, <2>2, SeenAt
<1>10. Seen' = [Seen EXCEPT !["udev"] = Seen'["udev"]]
  BY <1>9, SeenAt
<1> QED
  BY <1>1, <1>10, SeenIs DEF Visible!Attach

\* What changes only the name and the parent of a root that is not mounted is
\* not seen.
LEMMA RootUnseen ==
  ASSUME TopMounts, PlacesInv, NEW d \in Devices, mounted[d] = Unmounted, OnlyRoot(dirent', root_of[d]),
         root_of' = root_of
  PROVE  Seen' = Seen
<1>1. PICK ds : ds = dirent'
  OBVIOUS
<1>2. SameNames(ds, root_of[d]) /\ SameIds(Entries, dirent, ds)
  BY <1>1, RootKeepsNames
<1>3. SameLookups(Entries, dirent, ds)
  BY <1>2, SameNamesLookups
<1>4. ASSUME NEW e \in Devices, NEW p \in Paths
      PROVE  FileIn(ds, root_of[e], p) = FileIn(dirent, root_of[e], p)
  <2>1. root_of[e] \in Entries \cup {0}
    BY RootIs
  <2> QED
    BY <1>2, <1>3, <2>1, FilesAgree
<1> QED
  BY <1>1, <1>4, SameSeen

LEMMA BootMountsRoot ==
  ASSUME TopMounts, PlacesInv, BootRoot
  PROVE  Visible!MountRoot("initrd")
<1>1. \A d \in Devices : mounted[d] = Unmounted
  BY DEF BootRoot, PlacesInv, MountsInv, BeforeRoot
<1>2. mounted' = [mounted EXCEPT !["initrd"] = <<>>] /\ root_of' = root_of
  BY DEF BootRoot, MountRoot
<1>3. OnlyRoot(dirent', root_of["initrd"])
  BY BootRootKeeps
<1>4. Seen' = Seen
  BY <1>1, <1>2, <1>3, DevicesAre, RootUnseen
<1> QED
  BY <1>1, <1>2, <1>4, SeenIs DEF Visible!MountRoot

LEMMA StopUnseen ==
  ASSUME TopMounts, PlacesInv, NEW d \in Devices, NEW path, mounted[d] = Unmounted, MountStops(d, path),
         ~ BeforeRoot, UNCHANGED <<root_of, inode_cache, inode_counter>>
  PROVE  Seen' = Seen /\ mounted' = mounted
<1>1. OnlyRoot(dirent', root_of[d])
  BY StopKeeps
<1>2. root_of' = root_of /\ mounted' = mounted
  BY DEF MountStops
<1> QED
  BY <1>1, <1>2, RootUnseen

LEMMA FileIsSome ==
  /\ \A dev, ino : <<dev, ino>> # Unmounted
  /\ <<>> # Unmounted
<1>1. \A dev, ino : Len(<<dev, ino>>) = 2
  OBVIOUS
<1>2. Len(Unmounted) = 1 /\ Len(<<>>) = 0
  BY DEF Unmounted
<1> QED
  BY <1>1, <1>2

LEMMA FirstOf ==
  ASSUME NEW S, NEW s, \A i \in 1 .. 1 : s[i] \in S
  PROVE  SubSeq(s, 1, 1) = <<s[1]>>
<1>1. PICK f : f = SubSeq(s, 1, 1)
  OBVIOUS
<1>2. f \in Seq(S) /\ Len(f) = (IF 1 <= 1 THEN 1 - 1 + 1 ELSE 0)
      /\ \A i \in 1 .. 1 - 1 + 1 : f[i] = s[1 + i - 1]
  BY <1>1, SubSeqProperties
<1>3. f \in Seq(S) /\ Len(f) = 1 /\ f[1] = s[1]
  BY <1>2
<1>4. f \in [1 .. 1 -> S]
  BY <1>3, LenProperties
<1>5. f = <<f[1]>>
  BY <1>4
<1> QED
  BY <1>1, <1>3, <1>5

\* The paths below one of one name begin with it; the rest is what follows.
LEMMA BelowIs ==
  ASSUME NEW m \in Nat \ {0}, NEW p \in [1 .. m -> Names], NEW x
  PROVE  (Visible!Below(p, <<x>>) <=> p[1] = x) /\ Visible!Rest(p, <<x>>) = Tail(p)
<1>1. p \in Seq(Names) /\ Len(p) = m /\ 1 \in 1 .. m /\ 1 <= m
  BY IsSeqOfItems
<1>2. Len(<<x>>) = 1
  OBVIOUS
<1>3. SubSeq(<<x>>, 1, 1) = <<x>>
  <2>1. <<x>>[1] = x /\ \A i \in 1 .. 1 : <<x>>[i] \in {x}
    OBVIOUS
  <2> QED
    BY <2>1, FirstOf
<1>4. SubSeq(p, 1, 1) = <<p[1]>>
  <2>1. \A i \in 1 .. 1 : p[i] \in Names
    BY <1>1
  <2> QED
    BY <2>1, FirstOf
<1>5. Visible!Below(p, <<x>>) <=> <<x>> = <<p[1]>>
  BY <1>1, <1>2, <1>3, <1>4 DEF Visible!Below, Visible!IsPrefix
<1>6. Visible!Rest(p, <<x>>) = SubSeq(p, 1 + 1, Len(p))
  BY <1>2 DEF Visible!Rest
<1>7. Visible!Rest(p, <<x>>) = Tail(p)
  BY <1>6, PathTail
<1>8. <<x>> = <<p[1]>> <=> x = p[1]
  OBVIOUS
<1> QED
  BY <1>5, <1>7, <1>8

LEMMA NotBelow ==
  ASSUME NEW p \in [1 .. 0 -> Names], NEW x
  PROVE  ~ Visible!Below(p, <<x>>)
<1>1. Len(p) = 0 /\ Len(<<x>>) = 1
  BY IsSeqOfItems
<1> QED
  BY <1>1 DEF Visible!Below, Visible!IsPrefix

LEMMA PathsAre ==
  ASSUME TopMounts
  PROVE  /\ \A name \in Names : <<name>> \in Paths
         /\ \A m \in 1 .. MaxDepth : \A p \in [1 .. m -> Names] : Tail(p) \in Paths
<1>1. MaxDepth \in Nat /\ 1 \in 0 .. MaxDepth
  BY DEF TopMounts
<1>2. \A name \in Names : <<name>> \in [1 .. 1 -> Names]
  OBVIOUS
<1>3. ASSUME NEW m \in 1 .. MaxDepth, NEW p \in [1 .. m -> Names]
      PROVE  Tail(p) \in Paths
  <2>1. m \in Nat \ {0} /\ m - 1 \in 0 .. MaxDepth
    BY <1>1
  <2>2. Tail(p) \in [1 .. m - 1 -> Names]
    BY <2>1, PathTail
  <2> QED
    BY <2>1, <2>2 DEF Paths
<1> QED
  BY <1>1, <1>2, <1>3 DEF Paths

\* What is found from a root with the path's first name.
LEMMA FileDown ==
  ASSUME NEW ds, NEW r, r # 0, NEW m \in Nat \ {0}, NEW p \in [1 .. m -> Names]
  PROVE  FileIn(ds, r, p) = FileIn(ds, get_child(ds, r, <<p[1]>>), Tail(p))
<1>1. Walk(ds, r, p) = Walk(ds, get_child(ds, r, <<p[1]>>), Tail(p))
  BY WalkDown
<1>2. Tail(p) \in [1 .. m - 1 -> Names] /\ m - 1 \in Nat
  BY PathTail
<1>3. Walk(ds, 0, Tail(p)) = 0
  BY <1>2, WalkNowhere
<1> QED
  BY <1>1, <1>3 DEF FileIn

LEMMA FileHere ==
  ASSUME NEW ds, NEW r, r # 0, NEW p \in [1 .. 0 -> Names]
  PROVE  FileIn(ds, r, p) = <<ds[r].dev, ds[r].ino>>
<1>1. Walk(ds, r, p) = r
  BY WalkStays
<1> QED
  BY <1>1 DEF FileIn

\* A mount covers what is behind its path, and is seen from the root.
LEMMA MountIsSeen ==
  ASSUME TopMounts, PlacesInv, ~ BeforeRoot, NEW d \in Devices, mounted[d] = Unmounted, NEW name \in Names,
         MountCovers(d, <<name>>), root_of' = root_of
  PROVE  Visible!Mount(d, <<name>>)
<1>1. PICK ds, r : ds = dirent' /\ r = root_of[d]
  OBVIOUS
<1>2. PICK k : Covers(ds, r, name, k)
  BY <1>1, CoversIs
<1>3. mounted' = [mounted EXCEPT ![d] = <<name>>]
  BY CoversIs
<1>4. /\ \A n \in Entries \ {root} : \A ident : get_child(ds, n, ident) = get_child(dirent, n, ident)
      /\ \A ident : ident # <<name>> => get_child(ds, root, ident) = get_child(dirent, root, ident)
      /\ get_child(ds, root, <<name>>) = r
      /\ get_child(dirent, root, <<name>>) \in Entries \ Roots
  <2>1. Covers(ds, root_of[d], name, k)
    BY <1>1, <1>2
  <2>2. /\ \A n \in Entries \ {root} : \A ident : get_child(ds, n, ident) = get_child(dirent, n, ident)
        /\ \A ident : ident # <<name>> => get_child(ds, root, ident) = get_child(dirent, root, ident)
        /\ get_child(ds, root, <<name>>) = root_of[d]
        /\ get_child(dirent, root, <<name>>) \in Entries \ Roots
    BY <2>1, CoversFound
  <2> QED
    BY <1>1, <2>2
<1>5. SameIds(Entries, dirent, ds)
  <2>1. CoveredFields(ds, r, name, k)
    BY <1>1, <1>2, CoversFields
  <2> QED
    BY <2>1 DEF CoveredFields, SameEntries, SameIds, Entries
<1>6. /\ root = root_of["initrd"] /\ root \in Entries /\ mounted["initrd"] = <<>> /\ 0 \notin Entries
      /\ d # "initrd" /\ \A e \in Devices : root_of[e] \in Entries
  BY RootIs, FileIsSome DEF BeforeRoot
<1>7. PICK A : A = Entries \ {root}
  OBVIOUS
<1>8. ASSUME NEW n \in Entries, NEW ident
      PROVE  get_child(dirent, n, ident) \in A \cup {0}
  <2>1. dirent[n].children \in Seq(A)
    BY <1>7, TopIsNoChild
  <2> QED
    BY <2>1, FoundChild
<1>9. SameLookups(A, dirent, ds) /\ SameIds(A, dirent, ds)
  BY <1>4, <1>5, <1>6, <1>7, <1>8 DEF SameLookups, SameIds
<1>10. ASSUME NEW e \in Devices \ {"initrd"}
       PROVE  root_of[e] \in A
  <2>1. root_of[e] # root
    BY <1>6, DevicesAre DEF PlacesInv, RootsInv
  <2> QED
    BY <1>6, <1>7, <2>1
<1>11. ASSUME NEW e \in Devices \ {"initrd"}, NEW p \in Paths
       PROVE  Seen'[e][p] = Seen[e][p]
  <2>1. FileIn(ds, root_of[e], p) = FileIn(dirent, root_of[e], p)
    BY <1>9, <1>10, FilesAgree
  <2> QED
    BY <1>1, <2>1, SeenAt
<1>12. ASSUME NEW p \in Paths
       PROVE  Seen'["initrd"][p] = IF Visible!Below(p, <<name>>) THEN Seen[d][Visible!Rest(p, <<name>>)]
                                   ELSE Seen["initrd"][p]
  <2>1. PICK m \in 0 .. MaxDepth : p \in [1 .. m -> Names]
    BY PathIs
  <2>2. m \in Nat
    BY <2>1
  <2>3. Seen'["initrd"][p] = FileIn(ds, root, p) /\ Seen["initrd"][p] = FileIn(dirent, root, p)
    BY <1>1, <1>6, SeenAt, DevicesAre
  <2>4. CASE m = 0
    <3>0. p \in [1 .. 0 -> Names]
      BY <2>1, <2>4
    <3>1. ~ Visible!Below(p, <<name>>)
      BY <3>0, NotBelow
    <3>2. \A es : FileIn(es, root, p) = <<es[root].dev, es[root].ino>>
      BY <1>6, <3>0, FileHere
    <3>3. FileIn(ds, root, p) = FileIn(dirent, root, p)
      BY <1>5, <1>6, <3>2 DEF SameIds
    <3> QED
      BY <2>3, <3>1, <3>3
  <2>5. CASE m # 0
    <3>0. PICK l \in Nat \ {0} : l = m /\ p \in [1 .. l -> Names] /\ l \in 1 .. MaxDepth
      <4>1. m \in Nat \ {0} /\ m \in 1 .. MaxDepth
        BY <2>1, <2>5
      <4> QED
        BY <2>1, <4>1
    <3>1. PICK tail : tail = Tail(p) /\ tail \in Paths /\ p[1] \in Names
      <4>1. p[1] \in Names
        BY <3>0, PathTail
      <4>2. Tail(p) \in Paths
        BY <3>0, PathsAre
      <4> QED
        BY <4>1, <4>2
    <3>5. (Visible!Below(p, <<name>>) <=> p[1] = name) /\ Visible!Rest(p, <<name>>) = tail
      BY <3>0, <3>1, BelowIs
    <3>2. /\ FileIn(ds, root, p) = FileIn(ds, get_child(ds, root, <<p[1]>>), tail)
          /\ FileIn(dirent, root, p) = FileIn(dirent, get_child(dirent, root, <<p[1]>>), tail)
      <4>1. PICK u : u = root /\ u # 0
        BY <1>6
      <4>2. \A es : FileIn(es, u, p) = FileIn(es, get_child(es, u, <<p[1]>>), Tail(p))
        BY <3>0, <4>1, FileDown
      <4> QED
        BY <3>1, <4>1, <4>2
    <3>3. CASE p[1] = name
      <4>1. Visible!Below(p, <<name>>) /\ Visible!Rest(p, <<name>>) = tail
        BY <3>3, <3>5
      <4>2. FileIn(ds, r, tail) = FileIn(dirent, r, tail)
        BY <1>1, <1>6, <1>9, <1>10, <3>1, FilesAgree
      <4>3. Seen[d][tail] = FileIn(dirent, r, tail)
        BY <1>1, <3>1, SeenAt
      <4> QED
        BY <1>4, <2>3, <3>2, <3>3, <4>1, <4>2, <4>3
    <3>4. CASE p[1] # name
      <4>1. ~ Visible!Below(p, <<name>>)
        BY <3>4, <3>5
      <4>2. <<p[1]>> # <<name>>
        BY <3>4
      <4>3. PICK c : c = get_child(dirent, root, <<p[1]>>) /\ c = get_child(ds, root, <<p[1]>>)
        BY <1>4, <4>2
      <4>4. c \in A \cup {0}
        BY <1>6, <1>8, <4>3
      <4>5. FileIn(ds, c, tail) = FileIn(dirent, c, tail)
        BY <1>9, <3>1, <4>4, FilesAgree
      <4> QED
        BY <2>3, <3>2, <4>1, <4>3, <4>5
    <3> QED
      BY <3>3, <3>4
  <2> QED
    BY <2>4, <2>5
<1>13. Seen["initrd"][<<name>>] # Unmounted
  <2>1. PICK c : c = get_child(dirent, root, <<name>>) /\ c \in Entries
    BY <1>4
  <2>2. Walk(dirent, root, <<name>>) = c
    BY <1>6, <2>1, WalkOne
  <2>3. FileIn(dirent, root, <<name>>) = <<dirent[c].dev, dirent[c].ino>>
    BY <1>6, <2>1, <2>2 DEF FileIn
  <2>4. Seen["initrd"][<<name>>] = FileIn(dirent, root, <<name>>)
    BY <1>6, PathsAre, SeenAt, DevicesAre
  <2> QED
    BY <2>3, <2>4, FileIsSome
<1>14. Seen' = [Seen EXCEPT !["initrd"] =
          [p \in Paths |-> IF Visible!Below(p, <<name>>) THEN Seen[d][Visible!Rest(p, <<name>>)]
                           ELSE Seen["initrd"][p]]]
  <2> DEFINE moved == [p \in Paths |-> IF Visible!Below(p, <<name>>) THEN Seen[d][Visible!Rest(p, <<name>>)]
                                       ELSE Seen["initrd"][p]]
  <2>1. Seen'["initrd"] = moved
    BY <1>12, SeenAt, DevicesAre
  <2>2. \A e \in Devices \ {"initrd"} : Seen'[e] = Seen[e]
    BY <1>11, SeenAt
  <2> HIDE DEF moved
  <2>3. Seen' = [Seen EXCEPT !["initrd"] = moved]
    <3>1. Seen' = [e \in Devices |-> Seen'[e]] /\ Seen = [e \in Devices |-> Seen[e]]
      BY DEF Seen
    <3> QED
      BY <2>1, <2>2, <3>1, DevicesAre
  <2> QED
    BY <2>3 DEF moved
<1>15. Visible!IsRoot("initrd")
  BY <1>6 DEF Visible!IsRoot
<1> QED
  <2>1. /\ mounted[d] = Unmounted /\ mounted' = [mounted EXCEPT ![d] = <<name>>]
        /\ "initrd" \in Devices /\ Visible!IsRoot("initrd")
    BY <1>3, <1>15, DevicesAre
  <2> DEFINE t == [e \in Devices |-> [p \in Paths |-> FileAt(e, p)]]
  <2>2. t = Seen /\ t' = Seen'
    BY SeenIs
  <2> HIDE DEF t
  <2>3. /\ t["initrd"][<<name>>] # Unmounted
        /\ t' = [t EXCEPT !["initrd"] =
             [p \in Paths |-> IF Visible!Below(p, <<name>>) THEN t[d][Visible!Rest(p, <<name>>)]
                              ELSE t["initrd"][p]]]
    BY <2>2, <1>13, <1>14
  <2> QED
    BY <2>1, <2>3 DEF Visible!Mount, t

\* A path of two names, as its users write it.
IsTwo(p, x, y) == p = <<x>> \o <<y>> <=> p[1] = x /\ Tail(p) = <<y>>

LEMMA TwoNames ==
  ASSUME NEW m \in Nat \ {0}, NEW p \in [1 .. m -> Names], NEW x \in Names, NEW y \in Names
  PROVE  IsTwo(p, x, y)
<1>1. <<x>> \o <<y>> = <<x, y>>
  <2>1. PICK a, b, s : a = <<x>> /\ b = <<y>> /\ s = a \o b
    OBVIOUS
  <2>2. a \in Seq(Names) /\ b \in Seq(Names) /\ Len(a) = 1 /\ Len(b) = 1 /\ a[1] = x /\ b[1] = y
    BY <2>1
  <2>3. /\ s \in Seq(Names) /\ Len(s) = Len(a) + Len(b)
        /\ \A i \in 1 .. Len(a) + Len(b) : s[i] = IF i <= Len(a) THEN a[i] ELSE b[i - Len(a)]
    BY <2>1, <2>2, ConcatProperties
  <2>4. Len(s) = 2 /\ s[1] = x /\ s[2] = y
    BY <2>2, <2>3
  <2>5. s \in [1 .. 2 -> Names]
    BY <2>3, <2>4, LenProperties
  <2>6. s = <<x, y>>
    BY <2>4, <2>5
  <2> QED
    BY <2>1, <2>6
<1>2. /\ Tail(p) \in [1 .. m - 1 -> Names]
      /\ \A k \in 1 .. m - 1 : Tail(p)[k] = p[k + 1]
      /\ Len(p) = m /\ p \in Seq(Names)
  BY PathTail
<1>3. ASSUME p = <<x, y>>
      PROVE  p[1] = x /\ Tail(p) = <<y>>
  BY <1>3
<1>4. ASSUME p[1] = x, Tail(p) = <<y>>
      PROVE  p = <<x, y>>
  <2>1. Len(<<y>>) = 1 /\ Len(Tail(p)) = m - 1
    BY <1>2, IsSeqOfItems
  <2>2. m = 2
    BY <1>4, <2>1
  <2>3. Tail(p)[1] = p[2]
    BY <1>2, <2>2
  <2>4. p[2] = y
    <3>1. <<y>>[1] = y
      OBVIOUS
    <3> QED
      BY <1>4, <2>3, <3>1, Zenon
  <2>5. p \in [1 .. 2 -> Names]
    BY <2>2
  <2> QED
    BY <1>4, <2>4, <2>5
<1> QED
  BY <1>1, <1>3, <1>4 DEF IsTwo

\* The number of a new file is new.
LEMMA NewFile ==
  ASSUME TopMounts, PlacesInv
  PROVE  \A d \in Devices, p \in Paths : FileIn(dirent, root_of[d], p) # <<"udev", inode_counter>>
<1> SUFFICES ASSUME NEW d \in Devices, NEW p \in Paths
             PROVE  FileIn(dirent, root_of[d], p) # <<"udev", inode_counter>>
  OBVIOUS
<1>1. SameLookups(Entries, dirent, dirent)
  BY RootIs, FoundEntry DEF SameLookups
<1>2. PICK m \in Nat : p \in [1 .. m -> Names]
  BY PathIs DEF TopMounts
<1>3. root_of[d] \in Entries \cup {0}
  BY RootIs
<1>4. PICK n : n = (IF root_of[d] = 0 THEN 0 ELSE Walk(dirent, root_of[d], p)) /\ n \in Entries \cup {0}
  <2>1. Walk(dirent, root_of[d], p) \in Entries \cup {0}
    BY <1>1, <1>2, <1>3, WalksAgree
  <2> QED
    BY <2>1
<1>5. FileIn(dirent, root_of[d], p) = IF n = 0 THEN Unmounted ELSE <<dirent[n].dev, dirent[n].ino>>
  BY <1>4 DEF FileIn
<1>6. CASE n = 0
  BY <1>5, <1>6, FileIsSome
<1>7. CASE n # 0
  <2>1. n \in Entries
    BY <1>4, <1>7
  <2>2. PICK dev, ino : dev = dirent[n].dev /\ ino = dirent[n].ino
    OBVIOUS
  <2>3. PICK i \in 1 .. Len(inode_cache[dev]) : inode_cache[dev][i] = [id |-> ino, inode |-> n]
    BY <2>1, <2>2 DEF PlacesInv, TreeInv, EntriesCached, Entries
  <2>4. dev = "udev" => ino < inode_counter
    BY <2>3 DEF PlacesInv, TreeInv, CachesInv
  <2>5. ino \in Nat /\ inode_counter \in Nat
    BY <2>1, <2>2 DEF PlacesInv, TreeInv, EntriesInv, CachesInv, Entries
  <2>6. dev = "udev" => ino # inode_counter
    BY <2>4, <2>5
  <2>7. <<dev, ino>> # <<"udev", inode_counter>>
    BY <2>6
  <2> QED
    BY <1>5, <1>7, <2>2, <2>7
<1> QED
  BY <1>6, <1>7

\* What a new file of udev changes in the tree, while udev is seen as "/dev".
NewIn(ds, r, name) ==
  /\ Made(ds, r, name) /\ MadeIsFound(ds, r, name)
  /\ r = root_of["udev"] /\ r \in Entries /\ r # root

\* A lookup that comes to neither root does not come back to one.
LEMMA InnerLookups ==
  ASSUME PlacesInv, ~ BeforeRoot, NEW ds, NEW r, NEW name, NewIn(ds, r, name)
  PROVE  /\ SameLookups(Entries \ {root, r}, dirent, ds)
         /\ SameIds(Entries, dirent, ds) /\ SameIds(Entries \ {root, r}, dirent, ds)
<1>1. root \in Roots /\ r \in Roots
  BY RootIs, DevicesAre DEF Roots, NewIn
<1>2. SameIds(Entries, dirent, ds)
  BY DEF NewIn, Made, SameIds
<1>3. SameIds(Entries \ {root, r}, dirent, ds)
  BY <1>2 DEF SameIds
<1>4. ASSUME NEW n \in Entries \ {root, r}, NEW ident
      PROVE  /\ get_child(dirent, n, ident) \in (Entries \ {root, r}) \cup {0}
             /\ get_child(ds, n, ident) = get_child(dirent, n, ident)
  <2>1. PICK S : S = Entries \ Roots
    OBVIOUS
  <2>2. dirent[n].children \in Seq(S)
    BY <2>1, InnerChildren
  <2>3. get_child(dirent, n, ident) \in S \cup {0}
    BY <2>2, FoundChild
  <2>4. get_child(ds, n, ident) = get_child(dirent, n, ident)
    BY DEF NewIn, MadeIsFound
  <2> QED
    BY <1>1, <2>1, <2>3, <2>4
<1>5. SameLookups(Entries \ {root, r}, dirent, ds)
  BY <1>4, RootIs DEF SameLookups
<1> QED
  BY <1>2, <1>3, <1>5

\* From the root of udev the new name leads to the new file, and every other
\* path where it led before.
LEMMA NewInUdev ==
  ASSUME TopMounts, PlacesInv, ~ BeforeRoot, NEW ds, NEW r, NEW name \in Names, NewIn(ds, r, name),
         get_child(dirent, r, <<name>>) = 0, NEW p \in Paths
  PROVE  FileIn(ds, r, p) = IF p = <<name>> THEN <<"udev", inode_counter>> ELSE FileIn(dirent, r, p)
<1>1. PICK A : A = Entries \ {root, r}
  OBVIOUS
<1>2. SameLookups(A, dirent, ds) /\ SameIds(A, dirent, ds) /\ SameIds(Entries, dirent, ds)
  BY <1>1, InnerLookups
<1>3. r \in Entries /\ r # 0 /\ r # root
  BY RootIs DEF NewIn
<1>4. PICK new : new = Len(dirent) + 1
  OBVIOUS
<1>5. new # 0
  BY <1>4, RootIs
<1>6. /\ \A ident : ident # <<name>> => get_child(ds, r, ident) = get_child(dirent, r, ident)
      /\ get_child(ds, r, <<name>>) = new
      /\ \A ident : get_child(ds, new, ident) = 0
  BY <1>4 DEF NewIn, MadeIsFound
<1>7. ds[new].dev = "udev" /\ ds[new].ino = inode_counter
  <2>1. ds[new] = Entry(<<name>>, r, "udev", inode_counter)
    BY <1>4 DEF NewIn, Made
  <2> QED
    BY <2>1 DEF Entry
<1>8. PICK m \in Nat : p \in [1 .. m -> Names] /\ m \in 0 .. MaxDepth
  BY PathIs DEF TopMounts
<1>9. CASE m = 0
  <2>1. p \in [1 .. 0 -> Names]
    BY <1>8, <1>9
  <2>2. \A es : FileIn(es, r, p) = <<es[r].dev, es[r].ino>>
    BY <1>3, <2>1, FileHere
  <2>3. p # <<name>>
    <3>1. Len(p) = 0 /\ Len(<<name>>) = 1
      BY <2>1, IsSeqOfItems
    <3> QED
      BY <3>1
  <2>4. ds[r].dev = dirent[r].dev /\ ds[r].ino = dirent[r].ino
    BY <1>2, <1>3 DEF SameIds
  <2> QED
    BY <2>2, <2>3, <2>4
<1>10. CASE m # 0
  <2>1. PICK l \in Nat \ {0} : l = m /\ p \in [1 .. l -> Names] /\ l \in 1 .. MaxDepth
    BY <1>8, <1>10
  <2>2. PICK tail : tail = Tail(p)
    OBVIOUS
  <2>3. tail \in [1 .. l - 1 -> Names] /\ l - 1 \in Nat /\ Len(p) = l /\ p[1] \in Names
    BY <2>1, <2>2, PathTail
  <2>4. tail \in Paths
    BY <2>1, <2>2, PathsAre
  <2>5. \A es : FileIn(es, r, p) = FileIn(es, get_child(es, r, <<p[1]>>), tail)
    BY <1>3, <2>1, <2>2, FileDown
  <2>6. CASE p[1] = name
    <3>1. FileIn(ds, r, p) = FileIn(ds, new, tail) /\ FileIn(dirent, r, p) = FileIn(dirent, 0, tail)
      BY <1>6, <2>5, <2>6
    <3>2. FileIn(dirent, 0, tail) = Unmounted
      BY DEF FileIn
    <3>3. CASE l = 1
      <4>1. tail \in [1 .. 0 -> Names]
        BY <2>3, <3>3
      <4>2. FileIn(ds, new, tail) = <<"udev", inode_counter>>
        BY <1>5, <1>7, <4>1, FileHere
      <4>3. p \in [1 .. 1 -> Names]
        BY <2>1, <3>3
      <4>4. p = <<name>>
        BY <2>6, <4>3
      <4> QED
        BY <3>1, <4>2, <4>4
    <3>4. CASE l # 1
      <4>1. PICK j \in Nat \ {0} : j = l - 1
        BY <2>1, <3>4
      <4>2. tail \in [1 .. j -> Names]
        BY <2>3, <4>1
      <4>3. FileIn(ds, new, tail) = FileIn(ds, get_child(ds, new, <<tail[1]>>), Tail(tail))
        BY <1>5, <4>2, FileDown
      <4>4. FileIn(ds, new, tail) = FileIn(ds, 0, Tail(tail))
        BY <1>6, <4>3
      <4>5. FileIn(ds, new, tail) = Unmounted
        BY <4>4 DEF FileIn
      <4>6. p # <<name>>
        <5>1. Len(<<name>>) = 1
          OBVIOUS
        <5> QED
          BY <2>3, <3>4, <5>1
      <4> QED
        BY <3>1, <3>2, <4>5, <4>6
    <3> QED
      BY <3>3, <3>4
  <2>7. CASE p[1] # name
    <3>1. <<p[1]>> # <<name>>
      BY <2>7
    <3>2. PICK c : c = get_child(dirent, r, <<p[1]>>) /\ c = get_child(ds, r, <<p[1]>>)
      BY <1>6, <3>1
    <3>3. c \in A \cup {0}
      <4>1. PICK S : S = Entries \ Roots
        OBVIOUS
      <4>2. dirent[r].children \in Seq(S)
        BY <1>3, <4>1, InnerChildren
      <4>3. c \in S \cup {0}
        <5>1. get_child(dirent, r, <<p[1]>>) \in S \cup {0}
          BY <4>2, FoundChild
        <5> QED
          BY <3>2, <5>1
      <4>4. root \in Roots /\ r \in Roots
        BY RootIs, DevicesAre DEF Roots, NewIn
      <4> QED
        BY <1>1, <4>1, <4>3, <4>4
    <3>4. FileIn(ds, c, tail) = FileIn(dirent, c, tail)
      BY <1>2, <2>4, <3>3, FilesAgree
    <3>5. p # <<name>>
      <4>1. <<name>>[1] = name
        OBVIOUS
      <4> QED
        BY <2>7, <4>1, Zenon
    <3> QED
      BY <2>5, <3>2, <3>4, <3>5
  <2> QED
    BY <2>6, <2>7
<1> QED
  BY <1>9, <1>10

\* From the root of the tree it is seen behind "/dev".
LEMMA NewInRoot ==
  ASSUME TopMounts, PlacesInv, ~ BeforeRoot, NEW ds, NEW r, NEW name \in Names, NewIn(ds, r, name),
         get_child(dirent, r, <<name>>) = 0, mounted["udev"] = <<"dev">>, NEW p \in Paths
  PROVE  FileIn(ds, root, p) = IF p = <<"dev">> \o <<name>> THEN <<"udev", inode_counter>>
                               ELSE FileIn(dirent, root, p)
<1>1. PICK A : A = Entries \ {root, r}
  OBVIOUS
<1>2. SameLookups(A, dirent, ds) /\ SameIds(A, dirent, ds) /\ SameIds(Entries, dirent, ds)
  BY <1>1, InnerLookups
<1>3. root \in Entries /\ root # 0 /\ r # root /\ r # 0
  BY RootIs DEF NewIn
<1>4. "dev" \in Names
  BY DEF TopMounts
<1>5. get_child(dirent, root, <<"dev">>) = r
  <2>1. <<"dev">> # Unmounted /\ "udev" \in Devices \ {"initrd"}
    BY DevicesAre DEF Unmounted
  <2>2. PICK x \in Names : <<"dev">> = <<x>> /\ get_child(dirent, root, <<x>>) = root_of["udev"]
    BY <2>1 DEF PlacesInv, MountedInv
  <2> QED
    BY <2>2 DEF NewIn
<1>6. \A ident : get_child(ds, root, ident) = get_child(dirent, root, ident)
  BY <1>3 DEF NewIn, MadeIsFound
<1>7. PICK m \in Nat : p \in [1 .. m -> Names] /\ m \in 0 .. MaxDepth
  BY PathIs DEF TopMounts
<1>8. CASE m = 0
  <2>1. p \in [1 .. 0 -> Names]
    BY <1>7, <1>8
  <2>2. \A es : FileIn(es, root, p) = <<es[root].dev, es[root].ino>>
    BY <1>3, <2>1, FileHere
  <2>3. p # <<"dev">> \o <<name>>
    <3>1. Len(p) = 0
      BY <2>1, IsSeqOfItems
    <3>2. Len(<<"dev">> \o <<name>>) = 2
      OBVIOUS
    <3> QED
      BY <3>1, <3>2
  <2>4. ds[root].dev = dirent[root].dev /\ ds[root].ino = dirent[root].ino
    BY <1>2, <1>3 DEF SameIds
  <2> QED
    BY <2>2, <2>3, <2>4
<1>9. CASE m # 0
  <2>1. PICK l \in Nat \ {0} : l = m /\ p \in [1 .. l -> Names] /\ l \in 1 .. MaxDepth
    BY <1>7, <1>9
  <2>2. PICK tail : tail = Tail(p)
    OBVIOUS
  <2>3. p[1] \in Names /\ tail \in Paths
    <3>1. p[1] \in Names
      BY <2>1, PathTail
    <3>2. Tail(p) \in Paths
      BY <2>1, PathsAre
    <3> QED
      BY <2>2, <3>1, <3>2
  <2>4. p = <<"dev">> \o <<name>> <=> p[1] = "dev" /\ tail = <<name>>
    <3>1. p = <<"dev">> \o <<name>> <=> p[1] = "dev" /\ Tail(p) = <<name>>
      <4>1. PICK dev \in Names : dev = "dev"
        BY <1>4
      <4>2. IsTwo(p, dev, name)
        BY <2>1, TwoNames
      <4> QED
        BY <4>1, <4>2 DEF IsTwo
    <3> QED
      BY <2>2, <3>1
  <2>5. \A es : FileIn(es, root, p) = FileIn(es, get_child(es, root, <<p[1]>>), tail)
    BY <1>3, <2>1, <2>2, FileDown
  <2>6. CASE p[1] = "dev"
    <3>1. FileIn(ds, root, p) = FileIn(ds, r, tail) /\ FileIn(dirent, root, p) = FileIn(dirent, r, tail)
      BY <1>5, <1>6, <2>5, <2>6
    <3>2. FileIn(ds, r, tail) = IF tail = <<name>> THEN <<"udev", inode_counter>> ELSE FileIn(dirent, r, tail)
      BY <2>3, NewInUdev
    <3> QED
      BY <2>4, <2>6, <3>1, <3>2
  <2>7. CASE p[1] # "dev"
    <3>1. PICK c : c = get_child(dirent, root, <<p[1]>>) /\ c = get_child(ds, root, <<p[1]>>)
      BY <1>6
    <3>2. c \in A \cup {0}
      <4>1. PICK S : S = Entries \ {root}
        OBVIOUS
      <4>2. dirent[root].children \in Seq(S)
        BY <1>3, <4>1, TopIsNoChild
      <4>3. c # 0 => c \in S /\ dirent[c].ident = <<p[1]>>
        <5>1. LET e == get_child(dirent, root, <<p[1]>>)
              IN e # 0 => e \in S /\ dirent[e].ident = <<p[1]>>
          BY <4>2, FoundChild
        <5> QED
          BY <3>1, <5>1
      <4>4. dirent[r].ident = <<"dev">>
        BY <1>3, <1>5, <4>2, FoundChild
      <4>5. <<p[1]>> # <<"dev">>
        BY <2>7
      <4> QED
        BY <1>1, <4>1, <4>3, <4>4, <4>5
    <3>3. FileIn(ds, c, tail) = FileIn(dirent, c, tail)
      BY <1>2, <2>3, <3>2, FilesAgree
    <3> QED
      BY <2>4, <2>5, <2>7, <3>1, <3>3
  <2> QED
    BY <2>6, <2>7
<1> QED
  BY <1>8, <1>9

\* A new file is created in udev, or nothing is seen of it: its name is taken,
\* or none that a path has.
LEMMA MakeFileIsSeen ==
  ASSUME TopMounts, PlacesInv, NEW name, make_file(name), ~ BeforeRoot,
         tree_stage \in {"vga", "running"}, UNCHANGED <<root, mounted>>
  PROVE  (name \in Names /\ Visible!Create("udev", <<name>>)) \/ (Seen' = Seen /\ mounted' = mounted)
<1>1. PICK ds, r : ds = dirent' /\ r = root_of["udev"]
  OBVIOUS
<1>2. /\ r \in Entries /\ r # 0 /\ r # root /\ mounted["udev"] = <<"dev">> /\ root = root_of["initrd"]
      /\ root \in Entries /\ mounted["initrd"] = <<>>
      /\ \A e \in Devices : root_of[e] \in Entries /\ (root_of[e] = r => e = "udev")
                            /\ (root_of[e] = root => e = "initrd")
  <2>1. /\ \A e \in Devices : root_of[e] \in Entries
        /\ root = root_of["initrd"] /\ root \in Entries /\ mounted["initrd"] = <<>> /\ 0 \notin Entries
    BY RootIs DEF BeforeRoot
  <2>2. mounted["udev"] = <<"dev">>
    BY DEF PlacesInv, MountsInv
  <2>3. \A d, e \in Devices : root_of[d] = root_of[e] => d = e
    BY DEF PlacesInv, RootsInv
  <2>4. "udev" # "initrd"
    OBVIOUS
  <2> QED
    BY <1>1, <2>1, <2>2, <2>3, <2>4, DevicesAre
<1>3. root_of' = root_of /\ mounted' = mounted
  BY DEF make_file
<1>4. NewIn(ds, r, name)
  <2>1. Made(dirent', root_of["udev"], name)
    BY <1>1, <1>2, MakeFileMakes
  <2>2. Made(ds, r, name)
    BY <1>1, <2>1
  <2>3. MadeIsFound(ds, r, name)
    BY <1>2, <2>2, MadeFound
  <2> QED
    BY <1>1, <1>2, <2>2, <2>3 DEF NewIn
<1>5. CASE name \notin Names \/ get_child(dirent, r, <<name>>) # 0
  <2>1. ASSUME NEW n \in Entries, NEW x \in Names
        PROVE  get_child(ds, n, <<x>>) = get_child(dirent, n, <<x>>)
    <3>1. CASE n # r \/ x # name
      <4>1. n # r \/ <<x>> # <<name>>
        BY <3>1
      <4> QED
        BY <1>4, <4>1 DEF NewIn, MadeIsFound
    <3>2. CASE n = r /\ x = name
      BY <1>4, <1>5, <3>2 DEF NewIn, MadeIsFound
    <3> QED
      BY <3>1, <3>2
  <2>2. SameLookups(Entries, dirent, ds)
    BY <2>1, RootIs, FoundEntry DEF SameLookups
  <2>3. SameIds(Entries, dirent, ds)
    BY <1>4, InnerLookups
  <2>4. ASSUME NEW e \in Devices, NEW p \in Paths
        PROVE  FileIn(dirent', root_of'[e], p) = FileIn(dirent, root_of[e], p)
    <3>1. root_of[e] \in Entries \cup {0}
      BY <1>2
    <3>2. FileIn(ds, root_of[e], p) = FileIn(dirent, root_of[e], p)
      BY <2>2, <2>3, <3>1, FilesAgree
    <3> QED
      BY <1>1, <1>3, <3>2
  <2> QED
    BY <1>3, <2>4, SameSeen
<1>6. CASE name \in Names /\ get_child(dirent, r, <<name>>) = 0
  <2>1. PICK file : file = <<"udev", inode_counter>>
    OBVIOUS
  <2>2. file # Unmounted
    BY <2>1, FileIsSome
  <2>3. \A p \in Paths : Seen'["udev"][p] = IF p = <<name>> THEN file ELSE Seen["udev"][p]
    <3> SUFFICES ASSUME NEW p \in Paths
                 PROVE  Seen'["udev"][p] = IF p = <<name>> THEN file ELSE Seen["udev"][p]
      OBVIOUS
    <3>1. FileIn(ds, r, p) = IF p = <<name>> THEN <<"udev", inode_counter>> ELSE FileIn(dirent, r, p)
      BY <1>4, <1>6, NewInUdev
    <3>2. Seen'["udev"][p] = FileIn(ds, r, p) /\ Seen["udev"][p] = FileIn(dirent, r, p)
      BY <1>1, <1>3, SeenAt, DevicesAre
    <3> QED
      BY <2>1, <3>1, <3>2
  <2>4. \A p \in Paths : Seen'["initrd"][p] =
          IF p = <<"dev">> \o <<name>> THEN file ELSE Seen["initrd"][p]
    <3> SUFFICES ASSUME NEW p \in Paths
                 PROVE  Seen'["initrd"][p] = IF p = <<"dev">> \o <<name>> THEN file ELSE Seen["initrd"][p]
      OBVIOUS
    <3>1. FileIn(ds, root, p) = IF p = <<"dev">> \o <<name>> THEN <<"udev", inode_counter>>
                                ELSE FileIn(dirent, root, p)
      BY <1>2, <1>4, <1>6, NewInRoot
    <3>2. Seen'["initrd"][p] = FileIn(ds, root, p) /\ Seen["initrd"][p] = FileIn(dirent, root, p)
      BY <1>1, <1>2, <1>3, SeenAt, DevicesAre
    <3> QED
      BY <2>1, <3>1, <3>2
  <2>5. ASSUME NEW e \in Devices \ {"initrd", "udev"}, NEW p \in Paths
        PROVE  Seen'[e][p] = Seen[e][p]
    <3>1. PICK A : A = Entries \ {root, r}
      OBVIOUS
    <3>2. SameLookups(A, dirent, ds) /\ SameIds(A, dirent, ds)
      BY <1>4, <3>1, InnerLookups
    <3>3. root_of[e] \in A \cup {0}
      BY <1>2, <3>1
    <3>4. FileIn(ds, root_of[e], p) = FileIn(dirent, root_of[e], p)
      BY <3>2, <3>3, FilesAgree
    <3> QED
      BY <1>1, <1>3, <3>4, SeenAt
  <2>6. \A e \in Devices : mounted[e] = <<>> <=> e = "initrd"
    <3>1. ASSUME NEW e \in Devices \ {"initrd"}, mounted[e] = <<>>
          PROVE  FALSE
      <4>1. \A x : <<x>> # <<>>
        OBVIOUS
      <4>2. mounted[e] # Unmounted
        BY <3>1, FileIsSome
      <4>3. PICK x \in Names : mounted[e] = <<x>>
        BY <4>2 DEF PlacesInv, MountedInv
      <4> QED
        BY <3>1, <4>1, <4>3
    <3> QED
      BY <1>2, <3>1
  <2>7. <<name>> \in Paths
    BY <1>6, PathsAre
  <2>8. Seen'["udev"][<<name>>] = file
    BY <2>3, <2>7
  <2>9. Seen["udev"][<<name>>] = Unmounted
    <3>1. Walk(dirent, r, <<name>>) = 0
      BY <1>2, <1>6, WalkOne
    <3>2. FileIn(dirent, r, <<name>>) = Unmounted
      BY <3>1 DEF FileIn
    <3> QED
      BY <1>1, <2>7, <3>2, SeenAt, DevicesAre
  <2>10. \A e \in Devices, p \in Paths : Seen[e][p] # file
    BY <2>1, NewFile, SeenAt
  <2> DEFINE After(e, p) == IF \/ e = "udev" /\ p = <<name>>
                               \/ /\ mounted[e] = <<>> /\ mounted["udev"] # Unmounted
                                  /\ p = mounted["udev"] \o <<name>>
                            THEN file ELSE Seen[e][p]
  <2>11. ASSUME NEW e \in Devices, NEW p \in Paths
         PROVE  Seen'[e][p] = After(e, p)
    <3>1. mounted["udev"] # Unmounted /\ mounted["udev"] = <<"dev">>
      BY <1>2 DEF Unmounted
    <3>2. CASE e = "udev"
      BY <2>3, <2>6, <3>2
    <3>3. CASE e = "initrd"
      BY <2>4, <2>6, <3>1, <3>3
    <3>4. CASE e \notin {"initrd", "udev"}
      BY <2>5, <2>6, <3>4
    <3> QED
      BY <3>2, <3>3, <3>4
  <2> HIDE DEF After
  <2>12. Seen' = [e \in Devices |-> [p \in Paths |-> After(e, p)]]
    BY <2>11, SeenAt
  <2> DEFINE t == [e \in Devices |-> [p \in Paths |-> FileAt(e, p)]]
  <2>13. t = Seen /\ t' = Seen'
    BY SeenIs
  <2> HIDE DEF t
  <2>14. /\ t'["udev"][<<name>>] = file /\ t["udev"][<<name>>] = Unmounted
         /\ \A e \in Devices, p \in Paths : t[e][p] # file
         /\ t' = [e \in Devices |-> [p \in Paths |->
              IF \/ e = "udev" /\ p = <<name>>
                 \/ /\ Visible!IsRoot(e) /\ mounted["udev"] # Unmounted
                    /\ p = mounted["udev"] \o <<name>>
              THEN file ELSE t[e][p]]]
    BY <2>8, <2>9, <2>10, <2>12, <2>13 DEF After, Visible!IsRoot
  <2>15. Visible!Create("udev", <<name>>)
    BY <1>3, <2>2, <2>7, <2>14, DevicesAre DEF Visible!Create, t
  <2> QED
    BY <1>6, <2>15
<1> QED
  BY <1>5, <1>6

LEMMA MountSteps ==
  ASSUME TopMounts, PlacesInv, NEW d \in Devices, NEW path \in MountPaths \cup {<<"dev">>},
         mounted[d] = Unmounted, ~ BeforeRoot, UNCHANGED <<root_of, inode_cache, inode_counter>>,
         MountStops(d, path) \/ MountCovers(d, path)
  PROVE  (\E q \in Paths : Visible!Mount(d, q)) \/ (Seen' = Seen /\ mounted' = mounted)
<1>1. CASE MountStops(d, path)
  BY <1>1, StopUnseen
<1>2. CASE MountCovers(d, path)
  <2>1. PICK name \in Names : path = <<name>>
    BY OneName
  <2>2. MountCovers(d, <<name>>) /\ root_of' = root_of
    BY <1>2, <2>1
  <2>3. Visible!Mount(d, <<name>>)
    BY <2>2, MountIsSeen
  <2>4. <<name>> \in Paths
    BY PathsAre
  <2> QED
    BY <2>3, <2>4
<1> QED
  BY <1>1, <1>2

LEMMA CreateSteps ==
  ASSUME TopMounts, PlacesInv, NEW name, make_file(name), ~ BeforeRoot,
         tree_stage \in {"vga", "running"}, UNCHANGED <<root, mounted>>
  PROVE  (\E q \in Paths : Visible!Create("udev", q)) \/ (Seen' = Seen /\ mounted' = mounted)
<1>1. name \in Names => <<name>> \in Paths
  BY PathsAre
<1>2. (name \in Names /\ Visible!Create("udev", <<name>>)) \/ (Seen' = Seen /\ mounted' = mounted)
  BY MakeFileIsSeen
<1> QED
  BY <1>1, <1>2

\* A step of the tree is a step of the namespace, or is not seen.
LEMMA TreeSteps ==
  ASSUME TopMounts, PlacesInv, [TreeNext]_treeVars
  PROVE  Visible!Next \/ (Seen' = Seen /\ mounted' = mounted)
<1>0. "initrd" \in Devices /\ "udev" \in Devices
  BY DevicesAre
<1>1. CASE BootUdev
  BY <1>0, <1>1, UdevFills DEF Visible!Next
<1>2. CASE BootRoot
  BY <1>0, <1>2, BootMountsRoot DEF Visible!Next
<1>3. CASE BootDev
  <2>1. /\ tree_stage = "mount_dev" /\ ~ BeforeRoot /\ UNCHANGED <<root_of, inode_cache, inode_counter>>
        /\ MountStops("udev", <<"dev">>) \/ MountCovers("udev", <<"dev">>)
    BY <1>3 DEF BootDev, BeforeRoot
  <2>2. mounted["udev"] = Unmounted
    BY <2>1 DEF PlacesInv, MountsInv
  <2>3. (\E q \in Paths : Visible!Mount("udev", q)) \/ (Seen' = Seen /\ mounted' = mounted)
    BY <1>0, <2>1, <2>2, MountSteps
  <2> QED
    BY <1>0, <2>3 DEF Visible!Next
<1>4. CASE BootVga \/ MakeFile
  <2>1. /\ \E name : make_file(name)
        /\ tree_stage \in {"vga", "running"} /\ ~ BeforeRoot /\ UNCHANGED <<root, mounted>>
    BY <1>4 DEF BootVga, MakeFile, BeforeRoot
  <2>2. (\E q \in Paths : Visible!Create("udev", q)) \/ (Seen' = Seen /\ mounted' = mounted)
    BY <2>1, CreateSteps
  <2> QED
    BY <1>0, <2>2 DEF Visible!Next
<1>5. CASE mount_device
  <2>1. ~ BeforeRoot /\ UNCHANGED <<root_of, inode_cache, inode_counter>>
    BY <1>5 DEF mount_device, BeforeRoot
  <2>2. PICK d \in Range(Extra), path \in MountPaths :
          mounted[d] = Unmounted /\ (MountStops(d, path) \/ MountCovers(d, path))
    BY <1>5 DEF mount_device
  <2>3. d \in Devices
    BY DEF Devices
  <2>4. (\E q \in Paths : Visible!Mount(d, q)) \/ (Seen' = Seen /\ mounted' = mounted)
    BY <2>1, <2>2, <2>3, MountSteps
  <2> QED
    BY <2>3, <2>4 DEF Visible!Next
<1>6. CASE UNCHANGED treeVars
  BY <1>6 DEF treeVars, Seen, FileIn
<1>7. CASE LookUpOrSpin
  BY <1>6, <1>7 DEF LookUpOrSpin
<1> QED
  BY <1>1, <1>2, <1>3, <1>4, <1>5, <1>6, <1>7 DEF TreeNext

\* The tree of entries implements the namespace: a mount covers its path and
\* what is behind it with the device's own tree and moves nothing else, and a
\* file made later gets a number that no file had, hides none, and is seen
\* behind the path that udev is mounted on.  Devices are mounted on paths of
\* one name, as the boot does.
THEOREM TreeIsNamespace == TopMounts => (TreeSpec => IsNamespace)
<1> SUFFICES ASSUME TopMounts
             PROVE  TreeSpec => IsNamespace
  OBVIOUS
<1>1. TreeInit => PlacesInv
  BY PlacesInit
<1>2. PlacesInv /\ [TreeNext]_treeVars => PlacesInv'
  BY PlacesStep
<1>3. TreeInit => Visible!Init
  BY DEF TreeInit, Visible!Init
<1>4. PlacesInv /\ [TreeNext]_treeVars => [Visible!Next]_Visible!vars
  <2> SUFFICES ASSUME PlacesInv, [TreeNext]_treeVars
               PROVE  [Visible!Next]_Visible!vars
    OBVIOUS
  <2>1. Visible!Next \/ (Seen' = Seen /\ mounted' = mounted)
    BY TreeSteps
  <2>2. Seen' = Seen /\ mounted' = mounted => UNCHANGED Visible!vars
    BY SeenIs DEF Visible!vars
  <2> QED
    BY <2>1, <2>2
<1> QED
  BY <1>1, <1>2, <1>3, <1>4, PTL DEF TreeSpec, IsNamespace, Visible!Spec
=============================================================================
