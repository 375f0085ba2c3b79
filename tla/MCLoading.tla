----------------------------- MODULE MCLoading ------------------------------
(* The two ways of data into the kernel: a directory tree through the       *)
(* ramdisk image into the tree of files, and a file of that tree into       *)
(* memory as a program.  The first is over when the second begins and hands *)
(* it nothing but a file's bytes, so a behaviour runs one of the two.       *)
EXTENDS InitrdImage

CONSTANTS PageSize, Space, StackSize, Images, MaxRuns

VARIABLES way, mapped, memory, image, segment, runs, progress

programVars == <<mapped, memory, image, segment, runs, progress>>

Program == INSTANCE ProgramLoad WITH stage <- progress

ASSUME SizesAssumption == Program!SizesAssumption
ASSUME ImagesAssumption == Program!ImagesAssumption

----------------------------------------------------------------------------
File(parent, kind, size) == [parent |-> parent, kind |-> kind, size |-> size]

\* Every tree of up to max files, directories among them, and files that are
\* empty.
TreesUpTo(max) ==
  UNION {{<<File(0, "dir", 1)>> \o t :
            t \in {s \in [1 .. k - 1 -> [parent : 1 .. k, kind : {"dir", "reg"}, size : {0, 2}]] :
              \A i \in DOMAIN s :
                /\ s[i].kind = "dir" => s[i].size = 2
                /\ s[i].parent <= i
                /\ s[i].parent # 1 => s[s[i].parent - 1].kind = "dir"}} : k \in 1 .. max}

Upto6 == TreesUpTo(6)

----------------------------------------------------------------------------
Seg(type, offset, vaddr, filesz, memsz) ==
  [type |-> type, offset |-> offset, vaddr |-> vaddr, filesz |-> filesz, memsz |-> memsz]
Elf(name, segments, entry) ==
  [name |-> name, size |-> 8, valid |-> "yes", entry |-> entry, segments |-> segments]

\* Pages have four bytes.  Text at or behind the stack, data on the same page, on the
\* next, behind a page's base, or over the text; a header that is not loaded
\* may stand between them.
TextSegments == {Seg("PT_LOAD", 0, v, 3, 3) : v \in {4, 8, 9, 10}} \cup {Seg("PT_LOAD", 0, 8, 4, 4)}
Data == {Seg("PT_LOAD", o, v, f, m) : o \in {3, 6}, v \in {7, 11, 12, 14}, f \in {0, 2, 4}, m \in {4, 6}}
Note == Seg("PT_NOTE", 0, 0, 8, 8)

Programs ==
  {Elf("p", <<t, d>>, 8) : t \in TextSegments, d \in Data}
  \cup {Elf("p", <<Note, t>>, 16) : t \in TextSegments}
  \cup {Elf("p", <<>>, 8), [Elf("p", <<Note>>, 0) EXCEPT !.valid = "no"]}

----------------------------------------------------------------------------
NoImage ==
  /\ tree = <<>> /\ dirents = <<>> /\ inodes = <<>> /\ out_data = <<>> /\ id = 0
  /\ open_dirs = <<>> /\ calls = <<>> /\ kernel = <<>> /\ image_stage = "none"

NoProgram ==
  /\ mapped = {} /\ memory = <<>> /\ image = <<>> /\ segment = 0 /\ runs = 0
  /\ progress = "none"

loadingVars == <<way, imageVars, programVars>>

LoadingInit ==
  \/ way = "image" /\ ImageInit /\ NoProgram
  \/ way = "program" /\ NoImage /\ Program!Init

LoadingNext ==
  \/ way = "image" /\ ImageNext /\ UNCHANGED <<way, programVars>>
  \/ way = "program" /\ Program!Next /\ UNCHANGED <<way, imageVars>>

LoadingSpec == LoadingInit /\ [][LoadingNext]_loadingVars

\* The property of ProgramLoad, stated there.
SegmentsArrive == way = "program" => Program!SegmentsArrive
=============================================================================
