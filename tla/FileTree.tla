------------------------------ MODULE FileTree ------------------------------
(* The tree of directory entries (fs.h, vfs.cpp), the two devices it is made *)
(* from (initrd.cpp, udev.cpp), and how init_fs and init_vga put it together.*)
(*                                                                           *)
(* A string is the sequence of its components between the slashes: "dev" is  *)
(* <<"dev">> and "/dev" is <<"", "dev">>.  A path is the string behind its   *)
(* first slash.                                                              *)
EXTENDS Integers, SequencesExt

CONSTANTS
  Images,      \* directory trees an initrd may hold: the entries, root first,
               \* each with its name and the number of its parent
  Extra,       \* further devices in the order they were made, of one file each
  NewNames,    \* names of files made later
  Names,       \* all names a path may have
  MaxDepth,    \* bound: names in a path
  MountPaths,  \* paths that devices are mounted on
  MaxDirents   \* bound: directory entries made

\* An image has a root, and no two devices are the same.
ASSUME DevicesAssumption ==
  /\ \A image \in Images : Len(image) \in Nat \ {0}
  /\ Len(Extra) \in Nat /\ DOMAIN Extra = 1 .. Len(Extra)
  /\ IsInjective(Extra)
  /\ {"initrd", "udev"} \cap Range(Extra) = {}

Devices == {"initrd", "udev"} \cup Range(Extra)

NoParent == 0     \* parent is nullopt
NullParent == -1  \* parent is an rc that holds nothing

VARIABLES
  dirent,       \* dirent[n]: the n-th directory entry that was made
  inode_cache,  \* inode_cache[d]: the entries added to the hashmap of device d
  root_of,      \* root_of[d]: root_dirent of device d
  root,         \* root_dirent of the vfs
  inode_counter,\* of udev
  tree_stage,   \* how far the boot has come
  mounted       \* history: the path that a device was mounted on

treeVars == <<dirent, inode_cache, root_of, root, inode_counter, tree_stage, mounted>>

Unmounted == <<"none">>

----------------------------------------------------------------------------
(* Directory entries *)

Entry(ident, parent, dev, ino) ==
  [ident |-> ident, parent |-> parent, dev |-> dev, ino |-> ino, children |-> <<>>]

add_child(ds, d, child) == [ds EXCEPT ![d].children = Append(@, child)]

\* Mutant: the search goes from the end.
ChildrenFromEnd(ds, d, ident) ==
  SelectLastInSeq(ds[d].children, LAMBDA child : ds[child].ident = ident)

\* get_child_iter: the place of the first child of that name, 0 if there is none.
get_child_iter(ds, d, ident) ==
  SelectInSeq(ds[d].children, LAMBDA child : ds[child].ident = ident)

get_child(ds, d, ident) ==
  LET place == get_child_iter(ds, d, ident)
  IN IF place = 0 THEN 0 ELSE ds[d].children[place]

Walk(ds, from, path) ==
  FoldLeft(LAMBDA d, name : IF d = 0 THEN 0 ELSE get_child(ds, d, <<name>>), from, path)

\* vfs::resolve_path: every component is searched for, also an empty one.
resolve_path(ds, path) == Walk(ds, root, path)

----------------------------------------------------------------------------
(* Devices *)

\* initrd::cache follows the links of an entry's children, from the one that
\* was written last to the first.
ChildrenOf(image, n) ==
  LET Children == {c \in 2 .. Len(image) : image[c].parent = n}
  IN CHOOSE s \in [1 .. Cardinality(Children) -> Children] :
       \A i, j \in DOMAIN s : i < j => s[i] > s[j]

\* initrd::cache has read an image: entry n of it is directory entry n.
InitrdEntry(image, n) ==
  [ident |-> <<image[n].name>>,
   parent |-> IF n = 1 THEN NullParent ELSE image[n].parent,
   dev |-> "initrd",
   ino |-> n - 1,
   children |-> ChildrenOf(image, n)]

\* Entry n is the root of a further device, or the file behind it.
ExtraRoot(n, d) == [Entry(<<"">>, NoParent, d, 0) EXCEPT !.children = <<n + 1>>]
ExtraFile(n, d) == Entry(<<"file">>, n - 1, d, 1)

\* create_tty and make_file: an entry and an inode that udev's root gets.
AddFile(name, ds, cached, counter) ==
  LET n == Len(ds) + 1
  IN /\ dirent' = add_child(Append(ds, Entry(<<name>>, root_of'["udev"], "udev", counter)),
                            root_of'["udev"], n)
     /\ inode_cache' = [inode_cache EXCEPT !["udev"] =
          Append(cached, [id |-> counter, inode |-> n])]
     /\ inode_counter' = counter + 1

make_file(name) ==
  /\ Len(dirent) < MaxDirents
  /\ root_of' = root_of
  /\ AddFile(name, dirent, inode_cache["udev"], inode_counter)

\* The constructor of udev: the root takes the first inode number, and is
\* cached behind tty0.
NewUdev ==
  LET n == Len(dirent) + 1
  IN /\ root_of' = [root_of EXCEPT !["udev"] = n]
     /\ dirent' = Append(Append(dirent, [Entry(<<"">>, NoParent, "udev", inode_counter)
                                          EXCEPT !.children = <<n + 1>>]),
                         Entry(<<"tty0">>, n, "udev", inode_counter + 1))
     /\ inode_cache' = [inode_cache EXCEPT !["udev"] =
          @ \o <<[id |-> inode_counter + 1, inode |-> n + 1], [id |-> inode_counter, inode |-> n]>>]
     /\ inode_counter' = inode_counter + 2

----------------------------------------------------------------------------
(* vfs::mount_device *)

\* device->mount: the device's root takes the whole path for its name.
Named(d, string) == [dirent EXCEPT ![root_of[d]].ident = string]

MountRoot(d) ==
  /\ dirent' = [Named(d, <<"", "">>) EXCEPT ![root_of[d]].parent = NoParent]
  /\ root' = root_of[d]
  /\ mounted' = [mounted EXCEPT ![d] = <<>>]

\* The entry the path leads to before, whose place the device takes.
Covered(d, path) == resolve_path(Named(d, <<"">> \o path), path)

\* The entries whose parent a mount can put the device into.
Coverable == {n \in DOMAIN dirent : dirent[n].parent \notin {NoParent, NullParent}}

\* "Bad mount" and "VFS issue", or the page fault of a parent that is no entry.
MountStops(d, path) ==
  /\ Covered(d, path) \notin Coverable
  /\ tree_stage' = "stopped"
  /\ dirent' = Named(d, <<"">> \o path)
  /\ UNCHANGED <<root, mounted>>

MountCovers(d, path) ==
  LET covered == Covered(d, path)
      parent == dirent[covered].parent
      ds == Named(d, path)
      place == get_child_iter(ds, parent, ds[covered].ident)
  IN /\ covered \in Coverable
     /\ dirent' = [ds EXCEPT ![parent].children[place] = root_of[d]]
     /\ mounted' = [mounted EXCEPT ![d] = path]
     /\ root' = root

----------------------------------------------------------------------------
(* init_fs, init_vga, and what may come behind *)

InitWith(image) ==
  LET N == Len(image)
      RootOf(i) == N + 2 * i - 1
      Place(d) == CHOOSE i \in DOMAIN Extra : Extra[i] = d
  IN /\ dirent = [n \in 1 .. N + 2 * Len(Extra) |->
            IF n <= N THEN InitrdEntry(image, n)
            ELSE LET i == (n - N + 1) \div 2
                 IN IF n = RootOf(i) THEN ExtraRoot(n, Extra[i]) ELSE ExtraFile(n, Extra[i])]
     /\ root_of = [d \in Devices |->
            CASE d = "initrd" -> 1 [] d = "udev" -> 0 [] OTHER -> RootOf(Place(d))]
     /\ inode_cache = [d \in Devices |->
            CASE d = "initrd" -> [n \in 1 .. N |-> [id |-> n - 1, inode |-> n]]
              [] d = "udev" -> <<>>
              [] OTHER -> [k \in 1 .. 2 |-> [id |-> k - 1, inode |-> RootOf(Place(d)) + k - 1]]]

TreeInit ==
  /\ \E image \in Images : InitWith(image)
  /\ root = 0
  /\ inode_counter = 0
  /\ tree_stage = "udev"
  /\ mounted = [d \in Devices |-> Unmounted]

BootUdev ==
  /\ tree_stage = "udev"
  /\ NewUdev
  /\ tree_stage' = "mount_root"
  /\ UNCHANGED <<root, mounted>>

BootRoot ==
  /\ tree_stage = "mount_root"
  /\ MountRoot("initrd")
  /\ tree_stage' = "mount_dev"
  /\ UNCHANGED <<root_of, inode_cache, inode_counter>>

BootDev ==
  /\ tree_stage = "mount_dev"
  /\ \/ MountStops("udev", <<"dev">>)
     \/ /\ MountCovers("udev", <<"dev">>)
        /\ tree_stage' = "vga"
  /\ UNCHANGED <<root_of, inode_cache, inode_counter>>

BootVga ==
  /\ tree_stage = "vga"
  /\ make_file("vga")
  /\ tree_stage' = "running"
  /\ UNCHANGED <<root, mounted>>

MakeFile ==
  /\ tree_stage = "running"
  /\ \E name \in NewNames : make_file(name)
  /\ UNCHANGED <<root, mounted, tree_stage>>

mount_device ==
  /\ tree_stage = "running"
  /\ \E d \in Range(Extra), path \in MountPaths :
       /\ mounted[d] = Unmounted
       /\ \/ MountStops(d, path)
          \/ /\ MountCovers(d, path)
             /\ tree_stage' = tree_stage
  /\ UNCHANGED <<root_of, inode_cache, inode_counter>>

\* Paths are looked up, or the kernel spins behind a failed assertion.
LookUpOrSpin ==
  /\ tree_stage \in {"running", "stopped"}
  /\ UNCHANGED treeVars

TreeNext == BootUdev \/ BootRoot \/ BootDev \/ BootVga \/ MakeFile \/ mount_device \/ LookUpOrSpin

TreeSpec == TreeInit /\ [][TreeNext]_treeVars

----------------------------------------------------------------------------
(* Properties *)

\* A directory entry only has a weak reference to its inode: the inode that
\* its device's cache has under the entry's number is its own, so it is there
\* to be locked for as long as the entry can be found.
InodesCached ==
  \A n \in 1 .. Len(dirent) :
    \/ dirent[n].dev = "udev" /\ tree_stage = "udev"
    \/ LET cached == SelectInSeq(inode_cache[dirent[n].dev], LAMBDA c : c.id = dirent[n].ino)
       IN cached # 0 /\ inode_cache[dirent[n].dev][cached].inode = n

Paths == UNION {[1 .. k -> Names] : k \in 0 .. MaxDepth}

\* The tree as its users see it, <<>> standing for the root of the device.
FileAt(d, p) ==
  LET n == IF root_of[d] = 0 THEN 0 ELSE Walk(dirent, root_of[d], p)
  IN IF n = 0 THEN Unmounted ELSE <<dirent[n].dev, dirent[n].ino>>

Visible == INSTANCE Namespace WITH
  None <- Unmounted,
  tree <- [d \in Devices |-> [p \in Paths |-> FileAt(d, p)]],
  at <- mounted

\* Devices are mounted on paths of one name, as at "/dev"; no path is what a
\* device that is not mounted is said to be mounted on.
TopMounts ==
  /\ MaxDepth \in Nat \ {0} /\ "dev" \in Names /\ "none" \notin Names
  /\ MountPaths \subseteq [1 .. 1 -> Names]

\* The tree of entries that mount_device, make_file and create_tty change in
\* place is a namespace: a mount covers its path and what is behind it and
\* moves nothing else, and a new file never hides an old one.
IsNamespace == Visible!Spec
=============================================================================
