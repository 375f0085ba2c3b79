----------------------------- MODULE InitrdImage -----------------------------
(* The way of a directory tree into the kernel: makefs.c walks the host's    *)
(* directories and writes tables of entries and inodes and the files' data,  *)
(* initrd::cache (initrd.cpp) makes the kernel's entries from the tables.    *)
EXTENDS Integers, SequencesExt

CONSTANTS
  Trees,       \* trees[n]: the parent, the kind and the size of file n, and
               \* file 1 is the root
  IdRange,     \* values of a uint8_t
  TableSize    \* entries in each of the two tables

\* The tables have 255 entries, and their numbers 256 values.
ASSUME TableAssumption == IdRange \in Nat /\ TableSize \in 1 .. IdRange - 1

\* The files of a tree, numbered from the root on.
IsTree(t) ==
  /\ t \in Seq([parent : Nat, kind : {"dir", "reg"}, size : Nat])
  /\ t # <<>> /\ t[1].kind = "dir"
  /\ \A n \in 2 .. Len(t) : t[n].parent \in 1 .. n - 1 /\ t[t[n].parent].kind = "dir"

ASSUME TreesAssumption == \A t \in Trees : IsTree(t)

VARIABLES
  tree,        \* the host's files
  dirents,     \* out->dirents, by number
  inodes,      \* out->inodes, by number
  out_data,    \* the files' bytes, one behind the other
  id,          \* the next number
  open_dirs,   \* the calls of traverse_dir: the directory, the number it has,
               \* its last entry so far, and what readdir has not returned
  calls,       \* the calls of initrd::cache to come: parent and number
  kernel,      \* kernel[n]: the n-th entry that initrd::cache made
  image_stage

imageVars == <<tree, dirents, inodes, out_data, id, open_dirs, calls, kernel, image_stage>>
hostVars == <<tree, dirents, inodes, out_data, id, open_dirs>>

Files(t) == DOMAIN t
In(t, dir) == {n \in Files(t) \ {1} : t[n].parent = dir}

\* A file's bytes: enough of them to be told from those of any other.
BytesOf(t, n) == [i \in 1 .. t[n].size |-> <<n, i>>]

----------------------------------------------------------------------------
(* makefs *)

\* convert_dirent and what its callers fill in.
DirentOf(n, parent, sibling) ==
  [name |-> n, parent |-> parent, first_child |-> 0, sibling |-> sibling]

InodeOf(n, offset) ==
  [mode |-> tree[n].kind,
   size |-> IF tree[n].kind = "dir" THEN 0 ELSE tree[n].size,
   data |-> IF tree[n].kind = "dir" THEN 0 ELSE offset]

Frame(n, number) == [dir |-> n, number |-> number, last |-> 0, left |-> In(tree, n)]

ImageInit ==
  /\ tree \in Trees
  /\ dirents = <<DirentOf(1, 0, 0)>>
  /\ inodes = <<InodeOf(1, 0)>>
  /\ out_data = <<>>
  /\ id = 1 % IdRange
  /\ open_dirs = <<Frame(1, 0)>>
  /\ calls = <<>> /\ kernel = <<>>
  /\ image_stage = "makefs"

Top == open_dirs[Len(open_dirs)]
Below == Front(open_dirs)

\* The new entry is linked to the one found before it in its directory.
Store(n) ==
  /\ dirents' = Append(dirents, DirentOf(n, Top.number, Top.last))
  /\ inodes' = Append(inodes, InodeOf(n, Len(out_data)))
  /\ out_data' = out_data \o (IF tree[n].kind = "dir" THEN <<>> ELSE BytesOf(tree, n))

\* readdir returns the files of a directory in no particular order.
traverse_dir ==
  /\ image_stage = "makefs"
  /\ \E n \in Top.left :
       LET here == [Top EXCEPT !.left = @ \ {n}, !.last = id]
       IN /\ id < TableSize
          /\ Store(n)
          /\ id' = (id + 1) % IdRange
          /\ open_dirs' = Below \o <<here>> \o
               (IF tree[n].kind = "dir" THEN <<Frame(n, id)>> ELSE <<>>)
  /\ UNCHANGED <<tree, calls, kernel, image_stage>>

\* The entry behind the table's last lies over the first inodes.
BehindTable ==
  /\ image_stage = "makefs"
  /\ Top.left # {} /\ id >= TableSize
  /\ image_stage' = "table overrun"
  /\ UNCHANGED <<hostVars, calls, kernel>>

\* traverse_dir returns the directory's last entry to the call for the
\* directory, or to main.
ReturnsTo(number) == [dirents EXCEPT ![number + 1].first_child = Top.last]

DirectoryRead ==
  /\ image_stage = "makefs"
  /\ Top.left = {} /\ Len(open_dirs) > 1
  /\ dirents' = ReturnsTo(Top.number)
  /\ open_dirs' = Below
  /\ UNCHANGED <<tree, inodes, out_data, id, calls, kernel, image_stage>>

\* main writes the image; the kernel is started with it and calls cache for
\* entry 0.  The root's mode is 0777, of no kind.
ImageWritten ==
  /\ image_stage = "makefs"
  /\ Top.left = {} /\ Len(open_dirs) = 1
  /\ dirents' = ReturnsTo(0)
  /\ inodes' = [inodes EXCEPT ![1].mode = "none"]
  /\ calls' = <<[parent |-> 0, number |-> 0]>>
  /\ image_stage' = "boot"
  /\ UNCHANGED <<tree, out_data, id, open_dirs, kernel>>

----------------------------------------------------------------------------
(* initrd::cache *)

KernelEntry(number, parent) ==
  LET inode == inodes[number + 1]
  IN [ident |-> dirents[number + 1].name,
      parent |-> parent,
      ino |-> number,
      kind |-> IF inode.mode = "dir" THEN "directory_like" ELSE "rdfs_inode",
      bytes |-> IF inode.mode = "dir" THEN <<>>
                ELSE SubSeq(out_data, inode.data + 1, inode.data + inode.size),
      children |-> <<>>]

\* Mutant: the siblings of an entry are cached as its children are.
SiblingsNested(entry, n, parent) ==
  (IF entry.first_child = 0 THEN <<>> ELSE <<[parent |-> n, number |-> entry.first_child]>>)
  \o (IF entry.sibling = 0 THEN <<>> ELSE <<[parent |-> n, number |-> entry.sibling]>>)

\* The calls that cache makes in its turn, the last one being made first.
Nested(entry, n, parent) ==
  (IF entry.first_child = 0 THEN <<>> ELSE <<[parent |-> n, number |-> entry.first_child]>>)
  \o (IF entry.sibling = 0 THEN <<>> ELSE <<[parent |-> parent, number |-> entry.sibling]>>)

\* add_child, unless there is no parent.
Added(entries, parent, n) ==
  IF parent = 0 THEN entries ELSE [entries EXCEPT ![parent].children = Append(@, n)]

cache ==
  /\ image_stage = "boot" /\ calls # <<>>
  /\ LET call == Last(calls)
         n == Len(kernel) + 1
         made == Append(kernel, KernelEntry(call.number, call.parent))
     IN /\ kernel' = Added(made, call.parent, n)
        /\ calls' = Front(calls) \o Nested(dirents[call.number + 1], n, call.parent)
  /\ UNCHANGED <<hostVars, image_stage>>

\* The constructor is done, and the kernel reads its tree.
Cached ==
  /\ image_stage = "boot" /\ calls = <<>>
  /\ image_stage' = "running"
  /\ UNCHANGED <<hostVars, calls, kernel>>

Running ==
  /\ image_stage \in {"running", "table overrun"}
  /\ UNCHANGED imageVars

ImageNext ==
  \/ traverse_dir \/ BehindTable \/ DirectoryRead \/ ImageWritten
  \/ cache \/ Cached \/ Running

ImageSpec == ImageInit /\ [][ImageNext]_imageVars

----------------------------------------------------------------------------
(* Properties *)

\* Where a file is: the names of the directories above it, and its own.
HostPath(n) ==
  LET up[k \in 0 .. Len(tree)] == IF k = 0 THEN n
                                  ELSE IF up[k - 1] <= 1 THEN 1 ELSE tree[up[k - 1]].parent
  IN [k \in 0 .. Len(tree) |-> up[k]]

KernelPath(m) ==
  LET up[k \in 0 .. Len(tree)] == IF k = 0 THEN m
                                  ELSE IF up[k - 1] <= 1 THEN 1 ELSE kernel[up[k - 1]].parent
  IN [k \in 0 .. Len(tree) |-> kernel[up[k]].ident]

\* The kernel has every file of the host's tree once, at the same place, of the
\* same kind and with the same bytes, in whatever order readdir returned them,
\* and the children of an entry are those that have it for their parent.
TreeArrives ==
  image_stage = "running" =>
    /\ Len(kernel) = Len(tree)
    /\ \A n \in DOMAIN kernel :
         ToSet(kernel[n].children) = {m \in DOMAIN kernel : kernel[m].parent = n}
    /\ \A n \in Files(tree) \ {1} : \E m \in DOMAIN kernel :
         /\ KernelPath(m) = HostPath(n)
         /\ kernel[m].kind = (IF tree[n].kind = "dir" THEN "directory_like" ELSE "rdfs_inode")
         /\ kernel[m].bytes = (IF tree[n].kind = "dir" THEN <<>> ELSE BytesOf(tree, n))
=============================================================================
