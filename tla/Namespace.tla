------------------------------ MODULE Namespace ------------------------------
(* What the virtual file system promises: every device has a tree of files,  *)
(* one is the root, and a device that is mounted on a path of it covers      *)
(* everything from that path on with its own tree, and nothing else.         *)
EXTENDS Integers, SequencesExt

CONSTANTS Devices, Paths, None

VARIABLES
  tree,  \* tree[d][p]: the file that path p leads to from the root of device d
  at     \* where the device is mounted, <<>> being the root

vars == <<tree, at>>

IsRoot(d) == at[d] = <<>>

Below(p, q) == IsPrefix(q, p)
Rest(p, q) == SubSeq(p, Len(q) + 1, Len(p))

\* A device that is not mounted yet is filled with files.
Attach(d) ==
  /\ at[d] = None
  /\ tree' = [tree EXCEPT ![d] = tree'[d]]
  /\ at' = at

MountRoot(d) ==
  /\ \A e \in Devices : at[e] = None
  /\ at' = [at EXCEPT ![d] = <<>>]
  /\ tree' = tree

\* The file that path q leads to is covered by the root of the device.
Mount(d, q) ==
  /\ at[d] = None
  /\ at' = [at EXCEPT ![d] = q]
  /\ \E r \in Devices :
       /\ IsRoot(r)
       /\ tree[r][q] # None
       /\ tree' = [tree EXCEPT ![r] =
            [p \in Paths |-> IF Below(p, q) THEN tree[d][Rest(p, q)] ELSE tree[r][p]]]

\* A file that was nowhere before is added to device d under a name that was
\* free, and is seen from the root where d is mounted.
Create(d, p) ==
  LET file == tree'[d][p]
      Seen(e, q) == IF \/ e = d /\ q = p
                       \/ IsRoot(e) /\ at[d] # None /\ q = at[d] \o p
                    THEN file
                    ELSE tree[e][q]
  IN /\ tree[d][p] = None /\ file # None
     /\ \A e \in Devices, q \in Paths : tree[e][q] # file
     /\ tree' = [e \in Devices |-> [q \in Paths |-> Seen(e, q)]]
     /\ at' = at

Init == at = [d \in Devices |-> None]

Next ==
  \/ \E d \in Devices : Attach(d) \/ MountRoot(d)
  \/ \E d \in Devices, q \in Paths : Mount(d, q) \/ Create(d, q)

Spec == Init /\ [][Next]_vars
=============================================================================
