------------------------------- MODULE Entries -------------------------------
(* What the devices (kernel/fs/udev.cpp, includes/kernel/fs/udev.h and      *)
(* kernel/fs/initrd.cpp), open (kernel/fs/fs.cpp) and exec_process          *)
(* (kernel/process.cpp) do with rc and weak: one device, its files, opens.  *)
(*                                                                          *)
(* A call is the sequence of the constructors, assignments and destructors  *)
(* of RefCount that it runs, one step each; "todo" is what is left of the   *)
(* call.  Left out are copies that come and go inside one constructor, and  *)
(* the parent's count that each dirent adds.  Nothing deletes a device, so  *)
(* its members never end.  Freed bytes may become a counter again; what     *)
(* else the heap may have made of them is not followed.                     *)
EXTENDS Integers, Sequences

CONSTANTS
  Counters,
  MaxEntries,   \* bound: entries of a device, the root included
  MaxOpens,     \* bound: calls of open
  Wrap

ASSUME EntriesAssumption == MaxEntries \in Nat /\ MaxEntries >= 2 /\ MaxOpens \in Nat

VARIABLES
  made, count, weak_count, counter, ptr, dangling, stale,   \* of RefCount
  used,      \* the addresses that had a counter
  device,    \* "udev" or "initrd", once it is built
  entries,   \* its entries, root first
  opened,    \* the files opened
  todo

words == <<made, count, weak_count, counter, ptr, dangling, stale>>
entriesVars == <<words, used, device, entries, opened, todo>>

EntryIds == 0 .. MaxEntries - 1

\* Variables: members of each entry and its inode, of the device and of each
\* file, and locals and temporaries of the calls.
weaks == {"m_inode"} \X EntryIds \cup {"arg", "param"} \X {0}
rcs ==
  {"dir", "ino", "m_dirent", "child", "cached"} \X EntryIds
    \cup {"file"} \X (1 .. MaxOpens)
    \cup {"root_dirent", "root_inode", "parent", "program", "tmp"} \X {0}

R == INSTANCE RefCount WITH Strong <- rcs, Weak <- weaks

arg == <<"arg", 0>>
param == <<"param", 0>>
tmp == <<"tmp", 0>>
parent == <<"parent", 0>>
program == <<"program", 0>>
root_dirent == <<"root_dirent", 0>>
root_inode == <<"root_inode", 0>>
dir(k) == <<"dir", k>>
ino(k) == <<"ino", k>>
m_inode(k) == <<"m_inode", k>>
m_dirent(k) == <<"m_dirent", k>>
child(k) == <<"child", k>>
cached(k) == <<"cached", k>>
file(f) == <<"file", f>>

----------------------------------------------------------------------------
(* The calls *)

\* make_rc<dirent>(name, weak<inode>(), parent): the temporary is make_rc's
\* parameter, and the constructor's is copied from it.
NewDirent(k) ==
  << <<"weak()", arg>>, <<"weak(weak)", param, arg>>, <<"weak(weak)", m_inode(k), param>>,
     <<"~weak", param>>, <<"make_rc", dir(k)>> >>

EndArguments == << <<"~weak", arg>> >>

\* make_rc of the inode, into h
NewInode(k, d, h) == << <<"rc(rc)", m_dirent(k), d>>, <<"make_rc", h>> >>

\* Mutant: the entry's m_inode is never assigned.
WatchLeftOut(k, h) == <<>>

\* m_inode = inode
Watch(k, h) == << <<"weak=", m_inode(k), h>> >>

\* inode_cache.set(id, inode): the node keeps a copy.
Cache(k, h) == << <<"rc(rc)", cached(k), h>> >>

\* add_child: a node with an empty value, which is then assigned.
AddChild(k) == << <<"rc()", child(k)>>, <<"rc=", child(k), dir(k)>> >>

\* a = b, with b a temporary or a local that ends
Move(a, b) == << <<"rc=", a, b>>, <<"~rc", b>> >>

\* Mutant: the device does not keep the inode.
CreateUncached(k) ==
  NewDirent(k) \o EndArguments \o NewInode(k, dir(k), ino(k)) \o Watch(k, ino(k))
    \o AddChild(k)

\* udev::create_tty and udev::make_file, up to the return
Create(k) ==
  NewDirent(k) \o EndArguments \o NewInode(k, dir(k), ino(k)) \o Watch(k, ino(k))
    \o AddChild(k) \o Cache(k, ino(k))

EndLocals(k) == << <<"~rc", ino(k)>>, <<"~rc", dir(k)>> >>

\* udev::udev.  The terminal's inode is returned, and the root cached after it.
Udev ==
  << <<"rc()", root_dirent>>, <<"rc()", root_inode>> >>
    \o NewDirent(0) \o Move(root_dirent, dir(0)) \o EndArguments
    \o NewInode(0, root_dirent, ino(0)) \o Move(root_inode, ino(0))
    \o Watch(0, root_inode)
    \o Create(1) \o << <<"rc(rc)", tmp, ino(1)>> >> \o EndLocals(1)
    \o Cache(0, root_inode) \o << <<"~rc", tmp>> >>

\* initrd::cache, up to the calls for a sibling and a child
CacheEntry(k) ==
  NewDirent(k) \o EndArguments
    \o << <<"rc()", ino(k)>> >> \o NewInode(k, dir(k), tmp) \o Move(ino(k), tmp)
    \o Watch(k, ino(k)) \o Cache(k, ino(k))
    \o (IF k = 0 THEN <<>> ELSE AddChild(k))

\* The calls are nested, so the locals of the first end last.
CacheAll[n \in Nat] ==
  IF n = 0 THEN CacheEntry(0) ELSE CacheAll[n - 1] \o CacheEntry(n)

EndAll[n \in Nat] == IF n = 0 THEN <<>> ELSE EndLocals(n) \o EndAll[n - 1]

\* initrd::initrd, with entries 0 .. n
Initrd(n) ==
  << <<"rc()", root_dirent>>, <<"rc()", root_inode>>, <<"rc()", parent>> >>
    \o CacheAll[n] \o EndAll[n]
    \o << <<"~rc", ino(0)>> >> \o Move(root_dirent, dir(0)) \o << <<"~rc", parent>> >>
    \o << <<"lock", tmp, m_inode(0)>> >> \o Move(root_inode, tmp)

\* syscall_open_at: new file, and its m_inode assigned.  close ends nothing.
Open(f, k) ==
  << <<"rc()", file(f)>>, <<"lock", tmp, m_inode(k)>> >> \o Move(file(f), tmp)

----------------------------------------------------------------------------
(* Running them *)

\* Where the heap puts a new counter: at an address that was freed, or at one
\* never used.  Those are alike, so one stands for all.
Address ==
  (used \ made) \cup {CHOOSE c \in Counters \ used : TRUE}

Execute(op, x, y) ==
  \/ \E c \in Address :
       /\ \/ op = "make_rc" /\ R!MakeRc(x, c)
          \/ op = "rc()" /\ R!EmptyRc(x, c)
          \/ op = "weak()" /\ R!EmptyWeak(x, c)
       /\ used' = used \cup {c}
  \/ /\ \/ op = "rc(rc)" /\ R!CopyRc(x, y)
        \/ op = "lock" /\ R!Lock(x, y)
        \/ op = "rc=" /\ R!AssignRc(x, y)
        \/ op = "~rc" /\ R!DestroyRc(x)
        \/ op = "weak(weak)" /\ R!ShareWeak(x, y)
        \/ op = "weak=" /\ R!AssignWeak(x, y)
        \/ op = "~weak" /\ R!DestroyWeak(x)
     /\ UNCHANGED used

Step ==
  /\ todo # <<>>
  /\ LET do == Head(todo) IN Execute(do[1], do[2], do[Len(do)])
  /\ todo' = Tail(todo)
  /\ UNCHANGED <<device, entries, opened>>

Call(calls) ==
  /\ todo = <<>>
  /\ todo' = calls
  /\ UNCHANGED <<words, used>>

MountUdev ==
  /\ device = "none"
  /\ Call(Udev)
  /\ device' = "udev" /\ entries' = 2
  /\ UNCHANGED opened

MountInitrd ==
  /\ device = "none"
  /\ \E n \in EntryIds : Call(Initrd(n)) /\ entries' = n + 1
  /\ device' = "initrd"
  /\ UNCHANGED opened

AddEntry ==
  /\ device = "udev" /\ entries < MaxEntries
  /\ Call(Create(entries) \o EndLocals(entries))
  /\ entries' = entries + 1
  /\ UNCHANGED <<device, opened>>

OpenFile ==
  /\ opened < MaxOpens
  /\ \E k \in 0 .. entries - 1 : Call(Open(opened + 1, k))
  /\ opened' = opened + 1
  /\ UNCHANGED <<device, entries>>

\* exec_process keeps the inode until the program returns, which may open files.
LoadProgram ==
  /\ ~R!InScope(program)
  /\ \E k \in 0 .. entries - 1 : Call(<< <<"lock", program, m_inode(k)>> >>)
  /\ UNCHANGED <<device, entries, opened>>

ProgramReturns ==
  /\ R!InScope(program)
  /\ Call(<< <<"~rc", program>> >>)
  /\ UNCHANGED <<device, entries, opened>>

EntriesInit ==
  /\ R!Init
  /\ used = {}
  /\ device = "none" /\ entries = 0 /\ opened = 0
  /\ todo = <<>>

EntriesNext ==
  /\ ~stale
  /\ Step \/ MountUdev \/ MountInitrd \/ AddEntry \/ OpenFile \/ LoadProgram
     \/ ProgramReturns

EntriesSpec == EntriesInit /\ [][EntriesNext]_entriesVars

----------------------------------------------------------------------------
(* Properties *)

\* No call copies, locks or ends a pointer whose counter was deleted: each one
\* that dangles is assigned before anything reads through it.
NothingStale == ~stale

\* Between two calls the m_inode of every entry leads to the inode that the device
\* keeps for it, whatever was deleted, written to after its deletion, and made
\* again at the same address on the way.
InodeReached ==
  todo = <<>> =>
    \A k \in 0 .. entries - 1 :
      LET w == m_inode(k)
      IN R!InScope(w) /\ ptr[w] /\ w \notin dangling /\ counter[w] = counter[cached(k)]

\* "A reference to the raw inode" (fs.h:130): the counter of an entry's m_inode is
\* there as long as the entry.
MInodeCounted == \A k \in EntryIds : m_inode(k) \notin dangling
=============================================================================
