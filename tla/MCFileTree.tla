----------------------------- MODULE MCFileTree -----------------------------
EXTENDS FileTree

E1(name, parent) == [name |-> name, parent |-> parent]

Top == E1("/", 0)

\* Images of up to three entries behind the root, one directory deep: with and
\* without a directory "dev", with files in it that the mount covers, and with
\* files in a directory of another name.
ImagesWithDev ==
  {<<Top>> \o s : s \in {t \in UNION {[1 .. k -> [name : {"dev", "hi", "vga"}, parent : 1 .. 3]] : k \in 1 .. 3} :
     /\ \A i \in DOMAIN t : t[i].parent <= i
     /\ \A i \in DOMAIN t : t[i].parent = 1 \/ t[t[i].parent - 1].parent = 1
     /\ \A i, j \in DOMAIN t : i # j /\ t[i].parent = t[j].parent => t[i].name # t[j].name}}

OneDisk == <<"disk">>

OnTop == {<<"dev">>, <<"hi">>, <<"vga">>}

ASSUME MountsAssumption == TopMounts
=============================================================================
