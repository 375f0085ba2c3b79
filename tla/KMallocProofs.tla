--------------------------- MODULE KMallocProofs ---------------------------
(* The block list of the kernel heap stays well linked, whatever sizes are  *)
(* asked for, until an aligned request leaves a stale link (Untangled).     *)
(* Without page-aligned requests none ever does.                            *)
EXTENDS KMalloc, TLAPS

\* A header on the list has a previous one, or is the first; a leftover has
\* its pointers cleared.
Blocks(h) == {HeapStart} \cup {b \in Addr : h[b].previous # Null}

EndOf(h, b) == b + HeaderSize + h[b].size

\* The shape of the block b in the list of h.
Linked(h, b) ==
  /\ h[b].magic # "junk"
  /\ EndOf(h, b) <= HeapEnd
  /\ h[b].next = Null => EndOf(h, b) = HeapEnd
  /\ h[b].next # Null => /\ h[b].next = EndOf(h, b)
                         /\ h[h[b].next].previous = b
  /\ b # HeapStart => /\ h[b].previous \in Blocks(h)
                      /\ h[h[b].previous].next = b

WellLinked(h) ==
  /\ h \in [Addr -> Header]
  /\ h[HeapStart].previous = Null
  /\ \A b \in Blocks(h) : Linked(h, b)
  /\ \A b, c \in Blocks(h) : b < c => EndOf(h, b) <= c
  /\ \A a \in Addr \ Blocks(h) : h[a] \in {Leftover("free"), Junk}

Requests == Sizes \cup AlignedSizes

LiveInv ==
  /\ DOMAIN live \subseteq Pointers
  /\ live \in [DOMAIN live -> Requests]
  /\ \A b \in Addr : hdr[b].magic = "used" <=> b + HeaderSize \in DOMAIN live
  /\ \A p \in DOMAIN live : live[p] <= hdr[p - HeaderSize].size

ControlInv ==
  /\ pc \in {"idle", "skip", "scan", "release", "forward", "backward"} \cup Stopped
  /\ sz \in Requests \cup {0}
  /\ align \in BOOLEAN
  /\ pc \in {"skip", "scan", "release"} => best \in Blocks(hdr) /\ sz \in Requests
  /\ pc \in {"skip", "scan"} => current \in Blocks(hdr) \cup {Null}
  /\ pc = "scan" => hdr[best].magic = "free"
  /\ pc \in {"forward", "backward"} => current \in Blocks(hdr) /\ hdr[current].magic = "free"
  /\ best \in Addr \cup {Null}
  /\ current \in Addr \cup {Null}
  /\ moving # Null =>
       /\ pc \in {"skip", "scan", "release"}
       /\ ~align
       /\ moving \in DOMAIN live
       /\ pc \in {"skip", "scan"} => hdr[moving - HeaderSize].size < sz
  /\ pc = "release" => moving # Null

IInv == WellLinked(hdr) /\ LiveInv /\ ControlInv

----------------------------------------------------------------------------
(* The list operations *)

\* The first header has room, and Null is no address of the heap.
LEMMA HeapFacts ==
  /\ HeapStart \in Addr
  /\ Null \notin Addr
  /\ Addr \subseteq Nat
  /\ HeapEnd \in Nat
  /\ HeapEnd < Word
BY HeapAssumption, SMT DEF Addr, HeapEnd, Null

\* What is known of a block of a well linked list.
LEMMA BlockFacts ==
  ASSUME NEW h, WellLinked(h), NEW b \in Blocks(h)
  PROVE  /\ b \in Addr
         /\ h[b].size \in Nat
         /\ h[b].size < Word
         /\ h[b].magic \in {"free", "used"}
         /\ EndOf(h, b) \in Nat
         /\ EndOf(h, b) <= HeapEnd
         /\ h[b].next # Null =>
              /\ h[b].next \in Blocks(h)
              /\ h[b].next = EndOf(h, b)
              /\ b < h[b].next
<1>1. b \in Addr /\ h[b] \in Header /\ Linked(h, b)
  BY HeapFacts DEF WellLinked, Blocks
<1>2. h[b].size \in Nat /\ h[b].size < Word /\ h[b].magic \in {"free", "used"}
  BY <1>1, HeapAssumption, SMT DEF Header, Linked
<1>3. EndOf(h, b) \in Nat /\ EndOf(h, b) <= HeapEnd
  BY <1>1, <1>2, HeapFacts, HeapAssumption, SMT DEF EndOf, Linked
<1>4. ASSUME h[b].next # Null
      PROVE  /\ h[b].next \in Blocks(h)
             /\ h[b].next = EndOf(h, b)
             /\ b < h[b].next
  <2>1. h[b].next \in Addr /\ h[h[b].next].previous = b /\ h[b].next = EndOf(h, b)
    BY <1>1, <1>4 DEF Header, Linked
  <2>2. h[b].next \in Blocks(h)
    BY <2>1, <1>1, HeapFacts DEF Blocks
  <2>3. b < h[b].next
    BY <2>1, <1>1, <1>2, HeapFacts, HeapAssumption, SMT DEF EndOf
  <2> QED BY <2>1, <2>2, <2>3
<1> QED BY <1>1, <1>2, <1>3, <1>4

\* Writing over words that belong to no header on the list leaves the list
\* as it is.
LEMMA Scribble ==
  ASSUME NEW h, NEW g, WellLinked(h), g \in [Addr -> Header],
         \A a \in Blocks(h) : g[a] = h[a],
         \A a \in Addr \ Blocks(h) : g[a] \in {Leftover("free"), Junk}
  PROVE  WellLinked(g) /\ Blocks(g) = Blocks(h)
<1>1. Blocks(g) = Blocks(h)
  BY HeapFacts DEF Blocks, Leftover, Junk
<1>2. ASSUME NEW b \in Blocks(g)
      PROVE  Linked(g, b)
  <2>1. Linked(h, b) /\ g[b] = h[b]
    BY <1>1, <1>2 DEF WellLinked
  <2>2. h[b].next # Null => h[b].next \in Blocks(h)
    BY <1>1, <1>2, BlockFacts
  <2> QED BY <1>1, <2>1, <2>2 DEF Linked, EndOf
<1> QED BY <1>1, <1>2, HeapFacts DEF WellLinked, EndOf, Blocks

\* The bytes of a block's payload hold no header of the list.
LEMMA PayloadFree ==
  ASSUME NEW h, WellLinked(h), NEW b \in Blocks(h), NEW a \in Nat,
         b < a, a < EndOf(h, b)
  PROVE  a \notin Blocks(h)
<1>1. b \in Nat /\ EndOf(h, b) \in Nat
  BY BlockFacts, HeapFacts
<1> QED BY <1>1, SMT DEF WellLinked

Marked(h, b, m) == [h EXCEPT ![b].magic = m]

\* Marking a block used or free leaves the list as it is.
LEMMA Remark ==
  ASSUME NEW h, WellLinked(h), NEW b \in Blocks(h), NEW m \in {"free", "used"}
  PROVE  /\ WellLinked(Marked(h, b, m))
         /\ Blocks(Marked(h, b, m)) = Blocks(h)
         /\ \A a \in Addr :
              /\ Marked(h, b, m)[a].size = h[a].size
              /\ Marked(h, b, m)[a].magic = (IF a = b THEN m ELSE h[a].magic)
<1> DEFINE g == Marked(h, b, m)
<1>0. h \in [Addr -> Header] /\ b \in Addr
  BY BlockFacts DEF WellLinked
<1>1. g \in [Addr -> Header]
  BY <1>0 DEF Header, Marked
<1>2. \A a \in Addr :
        /\ g[a].size = h[a].size
        /\ g[a].next = h[a].next
        /\ g[a].previous = h[a].previous
        /\ g[a].magic = (IF a = b THEN m ELSE h[a].magic)
        /\ a # b => g[a] = h[a]
  BY <1>0 DEF Header, Marked
<1> HIDE DEF g
<1>3. Blocks(g) = Blocks(h)
  BY <1>2 DEF Blocks
<1>4. ASSUME NEW c \in Blocks(g) PROVE Linked(g, c)
  <2>1. /\ Linked(h, c)
        /\ c \in Addr
        /\ h[c].next # Null => h[c].next \in Addr
        /\ c # HeapStart => h[c].previous \in Addr
    BY <1>3, <1>4, BlockFacts DEF WellLinked, Linked
  <2> QED BY <1>2, <1>3, <2>1 DEF Linked, EndOf
<1>5. \A c, d \in Blocks(g) : c < d => EndOf(g, c) <= d
  BY <1>2, <1>3, BlockFacts DEF WellLinked, EndOf
<1>6. \A a \in Addr \ Blocks(g) : g[a] \in {Leftover("free"), Junk}
  BY <1>2, <1>3 DEF WellLinked
<1>7. g[HeapStart].previous = Null
  BY <1>2, HeapFacts DEF WellLinked
<1>8. WellLinked(g)
  BY <1>1, <1>4, <1>5, <1>6, <1>7 DEF WellLinked
<1> QED BY <1>2, <1>3, <1>8 DEF g

\* Swallowing the next block, if it is free, leaves a well linked list without
\* it, and nothing else changes that a caller can see.
LEMMA MergeNext ==
  ASSUME NEW h, WellLinked(h), NEW b \in Blocks(h),
         h[b].next # Null, h[h[b].next].magic = "free"
  PROVE  LET c == h[b].next
             g == MergeBlocks(h, b, c)
         IN /\ WellLinked(g)
            /\ Blocks(g) = Blocks(h) \ {c}
            /\ c \in Blocks(h) /\ c # b
            /\ g[b].size = h[b].size + HeaderSize + h[c].size
            /\ \A a \in Addr \ {b, c} : g[a].size = h[a].size
            /\ \A a \in Addr : g[a].magic = h[a].magic
<1> DEFINE c == h[b].next
           d == h[c].next
           g == MergeBlocks(h, b, c)
<1>0. h \in [Addr -> Header]
  BY DEF WellLinked
<1>1. /\ b \in Addr /\ c \in Addr /\ b \in Nat /\ c \in Nat
      /\ c \in Blocks(h) /\ b < c /\ c = EndOf(h, b) /\ h[c].previous = b
      /\ h[b].next = c /\ h[c].next = d /\ h[c].magic = "free"
      /\ h[b].size \in Nat /\ h[c].size \in Nat
      /\ EndOf(h, c) \in Nat /\ EndOf(h, c) <= HeapEnd
  BY BlockFacts, HeapFacts DEF WellLinked, Linked
<1>2. d # Null => d \in Addr /\ d \in Blocks(h) /\ d = EndOf(h, c) /\ c < d
  BY <1>1, BlockFacts
<1>3. d # b /\ d # c /\ b # c /\ c # HeapStart
  BY <1>1, <1>2, HeapFacts, SMT DEF Addr
<1>4. /\ EndOf(h, c) = b + HeaderSize + h[b].size + HeaderSize + h[c].size
      /\ Plus(h[b].size, Plus(h[c].size, HeaderSize)) = h[b].size + HeaderSize + h[c].size
      /\ h[b].size + HeaderSize + h[c].size \in 0 .. Word - 1
  BY <1>1, HeapFacts, HeapAssumption, SMT DEF EndOf, Plus
<1>5. /\ g[b] = [h[b] EXCEPT !.next = d, !.size = h[b].size + HeaderSize + h[c].size]
      /\ g[c] = Leftover(h[c].magic)
      /\ d # Null => g[d] = [h[d] EXCEPT !.previous = b]
      /\ \A a \in Addr \ {b, c, d} : g[a] = h[a]
      /\ g = [a \in Addr |-> g[a]]
  BY <1>1, <1>2, <1>3, <1>4 DEF MergeBlocks
<1> HIDE DEF g, c, d
<1>6. h[b] \in Header /\ h[c] \in Header /\ (d # Null => h[d] \in Header)
  BY <1>0, <1>1, <1>2
<1>7. /\ g[b] \in Header
      /\ g[b].magic = h[b].magic /\ g[b].previous = h[b].previous
      /\ g[b].next = d
      /\ g[b].size = h[b].size + HeaderSize + h[c].size
  BY <1>5, <1>6, <1>4, <1>2 DEF Header
<1>8. /\ g[c] \in Header /\ g[c].magic = "free" /\ g[c].previous = Null
      /\ g[c] = Leftover("free")
  BY <1>1, <1>5, <1>6, HeapAssumption DEF Header, Leftover
<1>9. d # Null => /\ g[d] \in Header
                  /\ g[d].magic = h[d].magic /\ g[d].size = h[d].size
                  /\ g[d].next = h[d].next /\ g[d].previous = b
  BY <1>5, <1>6, <1>1 DEF Header
<1>10. g \in [Addr -> Header]
  <2>1. \A a \in Addr : g[a] \in Header
    BY <1>0, <1>5, <1>7, <1>8, <1>9, HeapFacts
  <2> QED BY <1>5, <2>1
<1>11. Blocks(g) = Blocks(h) \ {c}
  <2>1. \A a \in Addr \ {b, c, d} : a \in Blocks(g) <=> a \in Blocks(h)
    BY <1>5, HeapFacts DEF Blocks
  <2>2. b \in Blocks(g) /\ b \in Blocks(h) /\ c \notin Blocks(g)
    BY <1>1, <1>3, <1>7, <1>8, HeapFacts DEF Blocks
  <2>3. d # Null => d \in Blocks(g) /\ d \in Blocks(h)
    BY <1>1, <1>2, <1>9, HeapFacts DEF Blocks
  <2>4. Blocks(g) \subseteq Addr /\ Blocks(h) \subseteq Addr
    BY HeapFacts DEF Blocks
  <2> QED BY <2>1, <2>2, <2>3, <2>4, <1>3, HeapFacts
<1>12. \A a \in Blocks(g) \ {b} : EndOf(g, a) = EndOf(h, a)
  <2>1. \A a \in Blocks(g) \ {b} : a \in Addr /\ a # c
    BY <1>11, BlockFacts
  <2> QED BY <1>5, <1>9, <2>1, HeapFacts DEF EndOf
<1>13. EndOf(g, b) = EndOf(h, c)
  BY <1>4, <1>7, <1>1, HeapAssumption, SMT DEF EndOf
<1>14. ASSUME NEW x \in Blocks(g), NEW y \in Blocks(g), x < y
       PROVE  EndOf(g, x) <= y
  <2>1. x \in Blocks(h) /\ y \in Blocks(h) /\ x # c /\ y # c /\ x \in Nat /\ y \in Nat
    BY <1>11, BlockFacts, HeapFacts
  <2>2. EndOf(h, x) <= y
    BY <1>14, <2>1 DEF WellLinked
  <2>3. CASE x = b
    <3>1. c < y
      BY <2>1, <2>2, <2>3, <1>1, SMT
    <3>2. EndOf(h, c) <= y
      BY <3>1, <2>1, <1>1 DEF WellLinked
    <3> QED BY <3>2, <2>3, <1>13
  <2>4. CASE x # b
    BY <2>4, <2>2, <1>12
  <2> QED BY <2>3, <2>4
<1>15. ASSUME NEW x \in Blocks(g)
       PROVE  Linked(g, x)
  <2>1. x \in Blocks(h) /\ x # c /\ x \in Addr /\ Linked(h, x) /\ Linked(h, c) /\ Linked(h, b)
    BY <1>11, <1>1, BlockFacts DEF WellLinked
  <2>2. CASE x = b
    <3>1. g[x].magic # "junk" /\ EndOf(g, x) <= HeapEnd
      BY <2>1, <2>2, <1>7, <1>13, <1>1 DEF Linked
    <3>2. g[x].next = Null => EndOf(g, x) = HeapEnd
      BY <2>1, <2>2, <1>1, <1>7, <1>13 DEF Linked
    <3>3. g[x].next # Null => g[x].next = EndOf(g, x) /\ g[g[x].next].previous = x
      BY <2>1, <2>2, <1>7, <1>13, <1>9, <1>2
    <3>4. x # HeapStart => g[x].previous \in Blocks(g) /\ g[g[x].previous].next = x
      <4> HAVE x # HeapStart
      <4>1. h[x].previous \in Blocks(h) /\ h[h[x].previous].next = x
        BY <2>1 DEF Linked
      <4>2. h[x].previous # c /\ h[x].previous # b
        BY <4>1, <1>1, <1>2, <1>3, <2>2
      <4>3. h[x].previous # d
        <5> DEFINE y == h[x].previous
        <5>1. y < b /\ y \in Nat
          <6>1. y \in Addr
            BY <4>1, BlockFacts
          <6>2. y \in Nat
            BY <6>1, HeapFacts
          <6>3. y < h[y].next /\ h[y].next = b
            <7>1. h[y].next = b
              BY <4>1, <2>2
            <7>2. h[y].next # Null
              BY <7>1, <1>1, BlockFacts, HeapFacts
            <7> QED
              BY <7>1, <7>2, <4>1, <1>1, <6>1, <6>2, BlockFacts, HeapFacts
          <6> HIDE DEF y
          <6> QED
            BY <6>2, <6>3
        <5>2. d # Null => b < d /\ d \in Nat
          BY <1>1, <1>2, HeapFacts, SMT
        <5>3. y # Null
          BY <4>1, BlockFacts, HeapFacts
        <5> QED BY <5>1, <5>2, <5>3, <1>1, SMT
      <4>4. h[x].previous \in Addr
        BY <4>1, BlockFacts
      <4>5. g[h[x].previous] = h[h[x].previous]
        BY <4>2, <4>3, <4>4, <1>5
      <4>6. g[x].previous = h[x].previous /\ h[x].previous \in Blocks(g)
        BY <4>1, <4>2, <1>7, <1>11, <2>2
      <4> QED BY <4>1, <4>5, <4>6
    <3> QED BY <3>1, <3>2, <3>3, <3>4 DEF Linked
  <2>3. CASE x # b
    <3>1. /\ g[x].magic = h[x].magic /\ g[x].size = h[x].size /\ g[x].next = h[x].next
          /\ EndOf(g, x) = EndOf(h, x)
      BY <2>1, <2>3, <1>5, <1>9, <1>11, <1>12, HeapFacts
    <3>2. h[x].next # c
      BY <1>1, <2>1, <2>3, HeapFacts DEF Linked
    <3>3. h[x].next # Null => h[x].next \in Addr /\ h[x].next \in Blocks(h)
      BY <2>1, BlockFacts
    <3>4. h[x].next # Null /\ h[x].next # b => g[h[x].next].previous = h[h[x].next].previous
      <4>1. d # Null => h[d].previous = c
        BY <2>1, <1>1 DEF Linked
      <4>2. h[x].next # Null => h[x].next # d
        BY <4>1, <2>1 DEF Linked
      <4> QED BY <4>2, <3>2, <3>3, <1>5
    <3>5. g[x].next # Null => g[x].next = EndOf(g, x) /\ g[g[x].next].previous = x
      BY <3>1, <3>2, <3>3, <3>4, <2>1, <1>7 DEF Linked
    <3>6. x # HeapStart => g[x].previous \in Blocks(g) /\ g[g[x].previous].next = x
      <4> HAVE x # HeapStart
      <4>1. h[x].previous \in Blocks(h) /\ h[h[x].previous].next = x
        BY <2>1 DEF Linked
      <4>2. CASE x = d
        BY <4>2, <1>9, <1>7, <1>11, <1>1, <1>3, <1>2, <2>1, HeapFacts
      <4>3. CASE x # d
        <5>1. g[x].previous = h[x].previous
          BY <4>3, <2>1, <2>3, <1>5
        <5>2. h[x].previous # c
          BY <4>1, <4>3, <1>1
        <5>3. h[x].previous # b
          BY <4>1, <2>1, <1>1
        <5>4. h[x].previous \in Addr
          BY <4>1, BlockFacts
        <5>5. g[h[x].previous].next = h[h[x].previous].next
          BY <5>2, <5>3, <5>4, <1>5, <1>9, HeapFacts
        <5> QED BY <5>1, <5>2, <5>5, <4>1, <1>11
      <4> QED BY <4>2, <4>3
    <3> QED BY <3>1, <3>5, <3>6, <2>1 DEF Linked
  <2> QED BY <2>2, <2>3
<1>16. \A a \in Addr \ Blocks(g) : g[a] \in {Leftover("free"), Junk}
  BY <1>2, <1>5, <1>8, <1>11, <1>1, <1>3, HeapFacts DEF WellLinked
<1>17. g[HeapStart].previous = Null
  <2>1. HeapStart # c /\ (d # Null => HeapStart # d)
    BY <1>1, <1>2, <1>3, HeapFacts, HeapAssumption, SMT DEF Addr
  <2>2. HeapStart # d
    BY <2>1, HeapFacts
  <2> QED BY <2>1, <2>2, <1>5, <1>7, HeapFacts DEF WellLinked
<1>18. WellLinked(g)
  BY <1>10, <1>14, <1>15, <1>16, <1>17 DEF WellLinked
<1>19. \A a \in Addr \ {b, c} : g[a].size = h[a].size
  BY <1>5, <1>9, <1>2, HeapFacts
<1>20. \A a \in Addr : g[a].magic = h[a].magic
  <2>1. g[b].magic = h[b].magic /\ g[c].magic = h[c].magic
    BY <1>1, <1>7, <1>8
  <2>2. d # Null => g[d].magic = h[d].magic
    BY <1>9
  <2>3. \A a \in Addr \ {b, c, d} : g[a].magic = h[a].magic
    BY <1>5
  <2>4. \A a \in Addr : a # Null
    BY HeapFacts
  <2> QED
    BY <2>1, <2>2, <2>3, <2>4
<1> QED BY <1>1, <1>3, <1>7, <1>11, <1>18, <1>19, <1>20 DEF g, c

\* Splitting a block that is large enough leaves a well linked list with one
\* block more: the rest, free, right behind the block, which is used.
LEMMA Split ==
  ASSUME NEW h, WellLinked(h), NEW b \in Blocks(h), NEW size \in Nat,
         size <= h[b].size, SplitWorthwhile(h[b].size, size)
  PROVE  LET new == b + size + HeaderSize
             g == CreateNewBlockHeader(h, b, size)
         IN /\ WellLinked(g)
            /\ Blocks(g) = Blocks(h) \cup {new}
            /\ new \in Addr \ Blocks(h)
            /\ g[b].size = size
            /\ g[b].magic = "used"
            /\ g[new].magic = "free"
            /\ \A a \in Blocks(h) \ {b} : g[a].size = h[a].size
            /\ \A a \in Addr \ {b} : (g[a].magic = "used") <=> (h[a].magic = "used")
            /\ EndOf(g, new) = EndOf(h, b)
            /\ \A a \in Addr : \/ g[a] = h[a]
                               \/ a \in Blocks(h)
                               \/ new <= a /\ a < EndOf(h, b)
<1> DEFINE new == b + size + HeaderSize
           d == h[b].next
           rest == h[b].size - (size + HeaderSize)
           g == CreateNewBlockHeader(h, b, size)
<1>0. h \in [Addr -> Header]
  BY DEF WellLinked
<1>1. /\ b \in Addr /\ b \in Nat /\ h[b].next = d
      /\ h[b].size \in Nat /\ h[b].size < Word
      /\ EndOf(h, b) \in Nat /\ EndOf(h, b) <= HeapEnd
      /\ EndOf(h, b) = b + HeaderSize + h[b].size
  BY BlockFacts, HeapFacts DEF EndOf
<1>2. d # Null => /\ d \in Addr /\ d \in Blocks(h) /\ d \in Nat
                  /\ d = EndOf(h, b)
                  /\ h[d].previous = b
  BY <1>1, BlockFacts, HeapFacts DEF WellLinked, Linked
<1>3. /\ size + HeaderSize <= h[b].size
      /\ Minus(h[b].size, size + HeaderSize) = rest
      /\ rest \in 0 .. Word - 1
      /\ size \in 0 .. Word - 1
      /\ new \in Addr /\ new \in Nat
      /\ b < new /\ new + HeaderSize <= EndOf(h, b)
      /\ new + HeaderSize + rest = EndOf(h, b)
  BY <1>1, HeapAssumption, SMT DEF SplitWorthwhile, Minus, Addr, HeapEnd
<1>4. d # Null => /\ d # b /\ d # new
                  /\ ~(new < d /\ d < new + HeaderSize)
  BY <1>1, <1>2, <1>3, HeapAssumption, SMT
<1>5. \A a \in Addr : b < a /\ a < new + HeaderSize => a \notin Blocks(h)
  <2> SUFFICES ASSUME NEW a \in Addr, b < a, a < new + HeaderSize
               PROVE  a \notin Blocks(h)
    OBVIOUS
  <2>1. a \in Nat /\ a < EndOf(h, b)
    BY <1>1, <1>3, HeapFacts, HeapAssumption, SMT
  <2> QED BY <2>1, PayloadFree
<1>6. new \notin Blocks(h)
  BY <1>3, <1>5, HeapAssumption, SMT
<1>7. /\ g[new] = [magic |-> "free", size |-> rest, next |-> d, previous |-> b]
      /\ g[b] = [magic |-> "used", size |-> size, next |-> new, previous |-> h[b].previous]
      /\ d # Null => g[d] = [h[d] EXCEPT !.previous = new]
      /\ \A a \in Addr \ {b, d, new} :
           g[a] = IF new < a /\ a < new + HeaderSize THEN Junk ELSE h[a]
      /\ g = [a \in Addr |-> g[a]]
  <2>1. /\ ~(new < b) /\ ~(new < new) /\ b # new
    BY <1>1, <1>3, SMT
  <2> QED BY <2>1, <1>1, <1>2, <1>3, <1>4 DEF CreateNewBlockHeader, StoreHeader
<1> HIDE DEF g, d, new, rest
<1>8. h[b] \in Header /\ (d # Null => h[d] \in Header)
  BY <1>0, <1>1, <1>2
<1>9. d \in Addr \cup {Null}
  BY <1>1, <1>8 DEF Header
<1>10. /\ g[new] \in Header
       /\ g[new].magic = "free" /\ g[new].size = rest
       /\ g[new].next = d /\ g[new].previous = b
  BY <1>1, <1>3, <1>7, <1>9 DEF Header
<1>11. /\ g[b] \in Header
       /\ g[b].magic = "used" /\ g[b].size = size
       /\ g[b].next = new /\ g[b].previous = h[b].previous
  BY <1>3, <1>7, <1>8 DEF Header
<1>12. d # Null => /\ g[d] \in Header
                   /\ g[d].magic = h[d].magic /\ g[d].size = h[d].size
                   /\ g[d].next = h[d].next /\ g[d].previous = new
  BY <1>3, <1>7, <1>8 DEF Header
<1>13. Junk \in Header /\ Junk.magic = "junk" /\ Junk.previous = Null
  BY HeapAssumption DEF Junk, Leftover, Header
<1>14. g \in [Addr -> Header]
  <2>1. \A a \in Addr : g[a] \in Header
    BY <1>0, <1>7, <1>10, <1>11, <1>12, <1>13, HeapFacts
  <2> QED BY <1>7, <2>1
<1>15. \A a \in Blocks(h) \ {b, d} : a \in Addr /\ a # new /\ g[a] = h[a]
  <2> SUFFICES ASSUME NEW a \in Blocks(h) \ {b, d}
               PROVE  a \in Addr /\ a # new /\ g[a] = h[a]
    OBVIOUS
  <2>1. a \in Addr /\ a \in Nat /\ a # new
    BY BlockFacts, HeapFacts, <1>6
  <2>2. ~(new < a /\ a < new + HeaderSize)
    BY <2>1, <1>1, <1>3, <1>5, SMT
  <2> QED BY <2>1, <2>2, <1>7
<1>16. Blocks(g) = Blocks(h) \cup {new}
  <2>1. \A a \in Addr \ {b, d, new} : a \in Blocks(g) <=> a \in Blocks(h)
    <3> SUFFICES ASSUME NEW a \in Addr \ {b, d, new}
                 PROVE  a \in Blocks(g) <=> a \in Blocks(h)
      OBVIOUS
    <3>1. CASE new < a /\ a < new + HeaderSize
      <4>1. a \notin Blocks(h)
        BY <1>1, <1>3, <1>5, <3>1, HeapFacts, SMT
      <4>2. a # HeapStart
        BY <4>1 DEF Blocks
      <4> QED BY <4>1, <4>2, <3>1, <1>7, <1>13 DEF Blocks
    <3>2. CASE ~(new < a /\ a < new + HeaderSize)
      BY <3>2, <1>7 DEF Blocks
    <3> QED BY <3>1, <3>2
  <2>2. b \in Blocks(g) /\ b \in Blocks(h) /\ new \in Blocks(g)
    BY <1>1, <1>3, <1>10, <1>11, HeapFacts DEF Blocks
  <2>3. d # Null => d \in Blocks(g) /\ d \in Blocks(h)
    BY <1>2, <1>3, <1>12, HeapFacts DEF Blocks
  <2>4. Blocks(g) \subseteq Addr /\ Blocks(h) \subseteq Addr
    BY HeapFacts DEF Blocks
  <2> QED BY <2>1, <2>2, <2>3, <2>4, <1>3, HeapFacts
<1>17. /\ EndOf(g, b) = new /\ EndOf(g, new) = EndOf(h, b)
       /\ \A a \in Blocks(h) \ {b} : EndOf(g, a) = EndOf(h, a)
  <2>1. EndOf(g, b) = new
    BY <1>1, <1>3, <1>11, HeapAssumption, SMT DEF EndOf, new
  <2>2. EndOf(g, new) = EndOf(h, b)
    BY <1>3, <1>10 DEF EndOf
  <2>3. \A a \in Blocks(h) \ {b} : EndOf(g, a) = EndOf(h, a)
    BY <1>12, <1>15, BlockFacts, HeapFacts DEF EndOf
  <2> QED BY <2>1, <2>2, <2>3
<1>18. ASSUME NEW x \in Blocks(g), NEW y \in Blocks(g), x < y
       PROVE  EndOf(g, x) <= y
  <2>1. \A z \in Blocks(h) : z \in Nat /\ EndOf(h, z) \in Nat
    BY BlockFacts, HeapFacts
  <2>2. \A u, v \in Blocks(h) : u < v => EndOf(h, u) <= v
    BY DEF WellLinked
  <2>3. \A z \in Blocks(h) : b < z => new < z
    BY <2>1, <2>2, <1>1, <1>3, HeapAssumption, SMT
  <2>4. \A z \in Blocks(h) : z < new /\ z # b => EndOf(h, z) <= new
    BY <2>1, <2>2, <2>3, <1>1, <1>3, SMT
  <2>5. CASE x = b
    BY <2>5, <2>1, <2>3, <1>16, <1>17, <1>18, <1>3, SMT
  <2>6. CASE x = new
    <3>1. y \in Blocks(h) /\ b < y
      BY <2>6, <2>1, <1>16, <1>18, <1>1, <1>3, SMT
    <3> QED BY <3>1, <2>2, <2>6, <1>17
  <2>7. CASE x \notin {b, new}
    BY <2>7, <2>2, <2>4, <1>16, <1>17, <1>18
  <2> QED BY <2>5, <2>6, <2>7
<1>19. ASSUME NEW x \in Blocks(g)
       PROVE  Linked(g, x)
  <2>1. \A z \in Blocks(h) : Linked(h, z) /\ z \in Addr
    BY BlockFacts DEF WellLinked
  <2>2. CASE x = new
    BY <2>2, <1>10, <1>11, <1>12, <1>16, <1>17, <1>2, <1>1, <2>1 DEF Linked
  <2>3. CASE x = b
    <3>1. g[x].next = new /\ g[new].previous = x /\ EndOf(g, x) = new
      BY <2>3, <1>10, <1>11, <1>17
    <3>2. /\ g[x].magic # "junk"
          /\ EndOf(g, x) <= HeapEnd
          /\ new # Null
      BY <2>3, <1>11, <1>17, <1>3, <1>1, HeapFacts, HeapAssumption, SMT
    <3>3. x # HeapStart => g[x].previous \in Blocks(g) /\ g[g[x].previous].next = x
      <4> HAVE x # HeapStart
      <4>1. h[b].previous \in Blocks(h) /\ h[h[b].previous].next = b
        BY <2>1, <2>3 DEF Linked
      <4>2. h[b].previous < b /\ h[b].previous \in Nat
        BY <4>1, <1>1, BlockFacts, HeapFacts
      <4>3. h[b].previous # b /\ (d # Null => h[b].previous # d)
        BY <4>2, <1>1, <1>2, <1>3, HeapAssumption, SMT
      <4>4. g[h[b].previous] = h[h[b].previous]
        BY <4>1, <4>3, <1>15, <2>1, HeapFacts
      <4> QED BY <4>1, <4>4, <1>11, <1>16, <2>3
    <3> QED BY <3>1, <3>2, <3>3 DEF Linked
  <2>4. CASE x \notin {b, new}
    <3>0. x \in Blocks(h) /\ Linked(h, x) /\ x \in Addr
      BY <2>4, <1>16, <2>1
    <3>1. /\ g[x].magic = h[x].magic /\ g[x].size = h[x].size /\ g[x].next = h[x].next
          /\ EndOf(g, x) = EndOf(h, x)
          /\ x # d => g[x].previous = h[x].previous
      BY <3>0, <2>4, <1>12, <1>15, <1>17, HeapFacts
    <3>2. h[x].next # Null => /\ h[x].next \in Blocks(h)
                              /\ h[x].next # d
                              /\ g[h[x].next].previous = x
      <4> HAVE h[x].next # Null
      <4>1. h[x].next \in Blocks(h) /\ h[h[x].next].previous = x
        BY <3>0, BlockFacts DEF Linked
      <4>2. h[x].next # d
        BY <4>1, <1>2, <2>4, <2>1, HeapFacts
      <4>3. CASE h[x].next = b
        BY <4>1, <4>3, <4>2, <1>11
      <4>4. CASE h[x].next # b
        BY <4>1, <4>2, <4>4, <1>15
      <4> QED BY <4>1, <4>2, <4>3, <4>4
    <3>3. x # HeapStart => g[x].previous \in Blocks(g) /\ g[g[x].previous].next = x
      <4> HAVE x # HeapStart
      <4>1. CASE x = d
        BY <4>1, <3>0, <1>12, <1>10, <1>16, HeapFacts
      <4>2. CASE x # d
        <5>1. h[x].previous \in Blocks(h) /\ h[h[x].previous].next = x
          BY <3>0 DEF Linked
        <5>2. h[x].previous # b
          BY <5>1, <4>2, <1>1
        <5>3. g[h[x].previous].next = h[h[x].previous].next
          BY <5>1, <5>2, <1>15, <1>12, HeapFacts, <2>1
        <5> QED BY <5>1, <5>3, <3>1, <4>2, <1>16
      <4> QED BY <4>1, <4>2
    <3> QED BY <3>0, <3>1, <3>2, <3>3 DEF Linked
  <2> QED BY <2>2, <2>3, <2>4
<1>20. \A a \in Addr \ Blocks(g) : g[a] \in {Leftover("free"), Junk}
  <2> SUFFICES ASSUME NEW a \in Addr \ Blocks(g)
               PROVE  g[a] \in {Leftover("free"), Junk}
    OBVIOUS
  <2>1. a \notin Blocks(h) /\ a \notin {b, d, new}
    BY <1>16, <1>2, HeapFacts
  <2>2. h[a] \in {Leftover("free"), Junk}
    BY <2>1 DEF WellLinked
  <2> QED BY <2>1, <2>2, <1>7
<1>21. g[HeapStart].previous = Null
  <2>1. h[HeapStart].previous = Null /\ HeapStart \in Blocks(h)
    BY DEF WellLinked, Blocks
  <2>2. HeapStart # d
    BY <2>1, <1>2, <1>1, HeapFacts
  <2> QED BY <2>1, <2>2, <1>11, <1>15
<1>22. WellLinked(g)
  BY <1>14, <1>18, <1>19, <1>20, <1>21 DEF WellLinked
<1>23. \A a \in Blocks(h) \ {b} : g[a].size = h[a].size
  BY <1>12, <1>15, BlockFacts, HeapFacts
<1>24. \A a \in Addr \ {b} : (g[a].magic = "used") <=> (h[a].magic = "used")
  <2> SUFFICES ASSUME NEW a \in Addr \ {b}
               PROVE  (g[a].magic = "used") <=> (h[a].magic = "used")
    OBVIOUS
  <2>1. CASE a \in Blocks(h)
    BY <2>1, <1>12, <1>15, HeapFacts
  <2>2. CASE a = new
    <3>1. h[a] \in {Leftover("free"), Junk}
      BY <2>2, <1>6 DEF WellLinked
    <3> QED BY <3>1, <2>2, <1>10 DEF Leftover, Junk
  <2>3. CASE a \notin Blocks(h) /\ a # new
    <3>1. h[a] \in {Leftover("free"), Junk} /\ g[a] \in {Leftover("free"), Junk}
      BY <2>3, <1>16, <1>20 DEF WellLinked
    <3> QED BY <3>1 DEF Leftover, Junk
  <2> QED BY <2>1, <2>2, <2>3
<1>25. ASSUME NEW a \in Addr
       PROVE  g[a] = h[a] \/ a \in Blocks(h) \/ (new <= a /\ a < EndOf(h, b))
  <2>1. CASE a \in {b, d}
    BY <2>1, <1>2, HeapFacts
  <2>2. CASE a = new
    BY <2>2, <1>1, <1>3, HeapAssumption, SMT
  <2>3. CASE a \notin {b, d, new} /\ new < a /\ a < new + HeaderSize
    BY <2>3, <1>1, <1>3, HeapFacts, HeapAssumption, SMT
  <2>4. CASE a \notin {b, d, new} /\ ~(new < a /\ a < new + HeaderSize)
    BY <2>4, <1>7
  <2> QED BY <2>1, <2>2, <2>3, <2>4
<1> QED BY <1>3, <1>6, <1>10, <1>11, <1>16, <1>17, <1>22, <1>23, <1>24, <1>25 DEF g, new

\* alloc_internal's last part: the block becomes used, is not smaller than
\* what was asked, and nobody else's block changes.
LEMMA Occupied ==
  ASSUME NEW h, WellLinked(h), NEW b \in Blocks(h), NEW size \in Nat,
         size <= h[b].size
  PROVE  LET g == Occupy(h, b, size)
         IN /\ WellLinked(g)
            /\ Blocks(h) \subseteq Blocks(g)
            /\ g[b].magic = "used"
            /\ size <= g[b].size
            /\ \A a \in Blocks(h) \ {b} : g[a].size = h[a].size
            /\ \A a \in Addr \ {b} : (g[a].magic = "used") <=> (h[a].magic = "used")
            /\ \A x \in Blocks(g) \ Blocks(h) : EndOf(g, x) = EndOf(h, b)
            /\ \A a \in Addr : \/ g[a] = h[a]
                               \/ a \in Blocks(h)
                               \/ (b + size) + HeaderSize <= a /\ a < EndOf(h, b)
<1>1. CASE SplitWorthwhile(h[b].size, size)
  <2> DEFINE g == CreateNewBlockHeader(h, b, size)
             new == b + size + HeaderSize
  <2>1. /\ WellLinked(g)
        /\ Blocks(g) = Blocks(h) \cup {new}
        /\ g[b].size = size
        /\ g[b].magic = "used"
        /\ \A a \in Blocks(h) \ {b} : g[a].size = h[a].size
        /\ \A a \in Addr \ {b} : (g[a].magic = "used") <=> (h[a].magic = "used")
        /\ EndOf(g, new) = EndOf(h, b)
        /\ \A a \in Addr : g[a] = h[a] \/ a \in Blocks(h) \/ (new <= a /\ a < EndOf(h, b))
    BY <1>1, Split
  <2> HIDE DEF g, new
  <2>2. Occupy(h, b, size) = g
    BY <1>1 DEF Occupy, g
  <2>3. new = (b + size) + HeaderSize
    BY DEF new
  <2> QED BY <2>1, <2>2, <2>3
<1>2. CASE ~SplitWorthwhile(h[b].size, size)
  <2>1. Occupy(h, b, size) = Marked(h, b, "used")
    BY <1>2 DEF Occupy, Marked
  <2>2. \A a \in Blocks(h) : a \in Addr
    BY BlockFacts
  <2> DEFINE g == Marked(h, b, "used")
  <2>3. /\ WellLinked(g)
        /\ Blocks(g) = Blocks(h)
        /\ \A a \in Addr :
             /\ g[a].size = h[a].size
             /\ g[a].magic = (IF a = b THEN "used" ELSE h[a].magic)
    BY Remark
  <2> HIDE DEF g
  <2>4. g[b].magic = "used" /\ g[b].size = h[b].size
    BY <2>2, <2>3
  <2>5. \A a \in Addr : g[a] = h[a] \/ a \in Blocks(h)
    BY DEF g, Marked, WellLinked
  <2> QED BY <2>1, <2>2, <2>3, <2>4, <2>5 DEF g
<1> QED BY <1>1, <1>2

\* The header of b moved up by d bytes of its own payload, which the block
\* before it gains: what make_aligned_block makes of the list, once the block
\* behind names the new place.
Relocated(h, b, d) ==
  [a \in Addr |->
     IF a = b + d THEN [h[b] EXCEPT !.size = h[b].size - d]
     ELSE IF b + d < a /\ a < b + d + HeaderSize THEN Junk
     ELSE IF a = b THEN Leftover(h[b].magic)
     ELSE IF a = h[b].previous THEN [h[a] EXCEPT !.next = b + d, !.size = h[a].size + d]
     ELSE IF a = h[b].next THEN [h[a] EXCEPT !.previous = b + d]
     ELSE h[a]]

\* Moving the header of a free block leaves a well linked list, and the blocks
\* that are used stay used and lose no byte.
LEMMA Relocate ==
  ASSUME NEW h, WellLinked(h), NEW b \in Blocks(h), b # HeapStart, h[b].magic = "free",
         NEW d \in Nat, HeaderSize <= d, d <= h[b].size
  PROVE  LET new == b + d
             p == h[b].previous
             g == Relocated(h, b, d)
         IN /\ WellLinked(g)
            /\ Blocks(g) = (Blocks(h) \ {b}) \cup {new}
            /\ new \in Addr \ Blocks(h)
            /\ p \in Blocks(h) /\ p # b
            /\ g[new].magic = "free"
            /\ g[new].size = h[b].size - d
            /\ EndOf(g, new) = EndOf(h, b)
            /\ EndOf(h, p) = b /\ EndOf(g, p) = new
            /\ g[p].size = h[p].size + d
            /\ \A a \in Blocks(h) \ {b, p} : g[a].size = h[a].size
            /\ \A a \in Addr : (g[a].magic = "used") <=> (h[a].magic = "used")
            /\ \A a \in Blocks(h) \ {b} : g[a].magic = h[a].magic
            /\ \A a \in Addr : \/ g[a] = h[a]
                               \/ a \in Blocks(h)
                               \/ new <= a /\ a < EndOf(h, b)
<1> DEFINE new == b + d
           p == h[b].previous
           c == h[b].next
           rest == h[b].size - d
           g == Relocated(h, b, d)
<1>0. h \in [Addr -> Header]
  BY DEF WellLinked
<1>1. /\ b \in Addr /\ b \in Nat /\ h[b].next = c /\ h[b].previous = p
      /\ h[b].size \in Nat /\ h[b].size < Word
      /\ EndOf(h, b) \in Nat /\ EndOf(h, b) <= HeapEnd
      /\ EndOf(h, b) = b + HeaderSize + h[b].size
  BY BlockFacts, HeapFacts DEF EndOf
<1>2. c # Null => /\ c \in Addr /\ c \in Blocks(h) /\ c \in Nat
                  /\ c = EndOf(h, b)
                  /\ h[c].previous = b
  BY <1>1, BlockFacts, HeapFacts DEF WellLinked, Linked
<1>3. /\ p \in Blocks(h) /\ p \in Addr /\ p \in Nat /\ p # Null
      /\ h[p].next = b /\ EndOf(h, p) = b /\ p < b
      /\ h[p].size \in Nat /\ h[p].size < Word
  <2>1. p \in Blocks(h) /\ h[p].next = b
    BY <1>1 DEF WellLinked, Linked
  <2>2. b # Null
    BY <1>1, HeapFacts
  <2> QED BY <2>1, <2>2, BlockFacts, HeapFacts
<1>4. /\ rest \in 0 .. Word - 1
      /\ h[p].size + d \in 0 .. Word - 1
      /\ new \in Addr /\ new \in Nat
      /\ b < new /\ new + HeaderSize <= EndOf(h, b)
      /\ new + HeaderSize + rest = EndOf(h, b)
      /\ p + HeaderSize + (h[p].size + d) = new
      /\ p # new /\ p # b /\ b # new
      /\ ~(new < p) /\ ~(new < b) /\ ~(new < new)
  BY <1>1, <1>3, HeapAssumption, SMT DEF Addr, HeapEnd, EndOf
<1>5. c # Null => /\ c # b /\ c # new /\ c # p
                  /\ ~(new < c /\ c < new + HeaderSize)
  BY <1>1, <1>2, <1>3, <1>4, HeapAssumption, SMT
<1>6. \A a \in Addr : b < a /\ a < new + HeaderSize => a \notin Blocks(h)
  <2> SUFFICES ASSUME NEW a \in Addr, b < a, a < new + HeaderSize
               PROVE  a \notin Blocks(h)
    OBVIOUS
  <2>1. a \in Nat /\ a < EndOf(h, b)
    BY <1>1, <1>4, HeapFacts, HeapAssumption, SMT
  <2> QED BY <2>1, PayloadFree
<1>7. new \notin Blocks(h)
  BY <1>4, <1>6, HeapAssumption, SMT
<1>8. /\ g[new] = [h[b] EXCEPT !.size = rest]
      /\ g[b] = Leftover("free")
      /\ g[p] = [h[p] EXCEPT !.next = new, !.size = h[p].size + d]
      /\ c # Null => g[c] = [h[c] EXCEPT !.previous = new]
      /\ \A a \in Addr \ {b, p, c, new} :
           g[a] = IF new < a /\ a < new + HeaderSize THEN Junk ELSE h[a]
      /\ g = [a \in Addr |-> g[a]]
  BY <1>1, <1>2, <1>3, <1>4, <1>5 DEF Relocated
<1> HIDE DEF g, c, new, rest, p
<1>9. h[b] \in Header /\ h[p] \in Header /\ (c # Null => h[c] \in Header) /\ c \in Addr \cup {Null}
  <2>1. h[b] \in Header /\ h[p] \in Header /\ (c # Null => h[c] \in Header)
    BY <1>0, <1>1, <1>2, <1>3
  <2> QED BY <1>1, <2>1 DEF Header
<1>10. /\ g[new] \in Header
       /\ g[new].magic = "free" /\ g[new].size = rest
       /\ g[new].next = c /\ g[new].previous = p
  BY <1>1, <1>4, <1>8, <1>9 DEF Header
<1>11. /\ g[b] \in Header /\ g[b].magic = "free" /\ g[b].previous = Null
  BY <1>8, HeapAssumption DEF Header, Leftover
<1>12. /\ g[p] \in Header
       /\ g[p].magic = h[p].magic /\ g[p].size = h[p].size + d
       /\ g[p].next = new /\ g[p].previous = h[p].previous
  BY <1>4, <1>8, <1>9 DEF Header
<1>13. c # Null => /\ g[c] \in Header
                   /\ g[c].magic = h[c].magic /\ g[c].size = h[c].size
                   /\ g[c].next = h[c].next /\ g[c].previous = new
  BY <1>4, <1>8, <1>9 DEF Header
<1>14. Junk \in Header /\ Junk.magic = "junk" /\ Junk.previous = Null
  BY HeapAssumption DEF Junk, Leftover, Header
<1>15. g \in [Addr -> Header]
  <2>1. \A a \in Addr : g[a] \in Header
    BY <1>0, <1>8, <1>10, <1>11, <1>12, <1>13, <1>14, HeapFacts
  <2> QED BY <1>8, <2>1
<1>16. \A a \in Blocks(h) \ {b, p, c} : a \in Addr /\ a # new /\ g[a] = h[a]
  <2> SUFFICES ASSUME NEW a \in Blocks(h) \ {b, p, c}
               PROVE  a \in Addr /\ a # new /\ g[a] = h[a]
    OBVIOUS
  <2>1. a \in Addr /\ a \in Nat /\ a # new
    BY BlockFacts, HeapFacts, <1>7
  <2>2. ~(new < a /\ a < new + HeaderSize)
    BY <2>1, <1>1, <1>4, <1>6, SMT
  <2> QED BY <2>1, <2>2, <1>8
<1>17. Blocks(g) = (Blocks(h) \ {b}) \cup {new}
  <2>1. \A a \in Addr \ {b, p, c, new} : a \in Blocks(g) <=> a \in Blocks(h)
    <3> SUFFICES ASSUME NEW a \in Addr \ {b, p, c, new}
                 PROVE  a \in Blocks(g) <=> a \in Blocks(h)
      OBVIOUS
    <3>1. CASE new < a /\ a < new + HeaderSize
      <4>1. a \notin Blocks(h)
        BY <1>1, <1>4, <1>6, <3>1, HeapFacts, SMT
      <4>2. a # HeapStart
        BY <4>1 DEF Blocks
      <4> QED BY <4>1, <4>2, <3>1, <1>8, <1>14 DEF Blocks
    <3>2. CASE ~(new < a /\ a < new + HeaderSize)
      BY <3>2, <1>8 DEF Blocks
    <3> QED BY <3>1, <3>2
  <2>2. b \notin Blocks(g) /\ new \in Blocks(g)
    BY <1>3, <1>4, <1>10, <1>11 DEF Blocks
  <2>3. p \in Blocks(g) /\ p \in Blocks(h)
    BY <1>3, <1>12 DEF Blocks
  <2>4. c # Null => c \in Blocks(g) /\ c \in Blocks(h)
    BY <1>2, <1>4, <1>13, HeapFacts DEF Blocks
  <2>5. Blocks(g) \subseteq Addr /\ Blocks(h) \subseteq Addr
    BY HeapFacts DEF Blocks
  <2> QED BY <2>1, <2>2, <2>3, <2>4, <2>5, <1>4, <1>5, HeapFacts
<1>18. /\ EndOf(g, p) = new /\ EndOf(g, new) = EndOf(h, b)
       /\ \A a \in Blocks(h) \ {b, p} : EndOf(g, a) = EndOf(h, a)
  <2>1. EndOf(g, p) = new
    BY <1>4, <1>12 DEF EndOf
  <2>2. EndOf(g, new) = EndOf(h, b)
    BY <1>4, <1>10 DEF EndOf
  <2>3. \A a \in Blocks(h) \ {b, p} : EndOf(g, a) = EndOf(h, a)
    BY <1>13, <1>16, BlockFacts, HeapFacts DEF EndOf
  <2> QED BY <2>1, <2>2, <2>3
<1>19. ASSUME NEW x \in Blocks(g), NEW y \in Blocks(g), x < y
       PROVE  EndOf(g, x) <= y
  <2>1. \A z \in Blocks(h) : z \in Nat /\ EndOf(h, z) \in Nat
    BY BlockFacts, HeapFacts
  <2>2. \A u, v \in Blocks(h) : u < v => EndOf(h, u) <= v
    BY DEF WellLinked
  <2>3. \A z \in Blocks(h) : b < z => new < z
    BY <2>1, <2>2, <1>1, <1>4, HeapAssumption, SMT
  <2>4. \A z \in Blocks(h) : z < new /\ z # b => EndOf(h, z) <= new
    BY <2>1, <2>2, <2>3, <1>1, <1>4, SMT
  <2>5. CASE x = p
    <3>1. y = new \/ (y \in Blocks(h) /\ y # b /\ p < y)
      BY <2>5, <1>17, <1>19
    <3>2. CASE y = new
      BY <3>2, <2>5, <1>18, <1>4
    <3>3. CASE y \in Blocks(h) /\ y # b /\ p < y
      BY <3>3, <2>1, <2>2, <2>3, <2>5, <1>18, <1>3, <1>1, <1>4, SMT
    <3> QED BY <3>1, <3>2, <3>3
  <2>6. CASE x = new
    <3>1. y \in Blocks(h) /\ b < y
      <4>1. new < y
        BY <2>6, <1>19
      <4>2. y # new /\ y \in Blocks(h)
        BY <4>1, <1>4, <1>17
      <4>3. y \in Nat /\ b \in Nat /\ new \in Nat /\ b < new
        BY <4>2, <2>1, <1>1, <1>4
      <4> QED BY <4>1, <4>2, <4>3
    <3> QED BY <3>1, <2>2, <2>6, <1>18
  <2>7. CASE x \notin {p, new}
    BY <2>7, <2>2, <2>4, <1>17, <1>18, <1>19
  <2> QED BY <2>5, <2>6, <2>7
<1>20. ASSUME NEW x \in Blocks(g)
       PROVE  Linked(g, x)
  <2>1. \A z \in Blocks(h) : Linked(h, z) /\ z \in Addr
    BY BlockFacts DEF WellLinked
  <2>2. CASE x = new
    <3>1. Linked(h, b)
      BY <2>1
    <3>2. g[x].next # Null => g[x].next = EndOf(g, x) /\ g[g[x].next].previous = x
      BY <2>2, <1>2, <1>10, <1>13, <1>18
    <3> QED BY <2>2, <3>1, <3>2, <1>1, <1>3, <1>4, <1>10, <1>12, <1>17, <1>18 DEF Linked
  <2>3. CASE x = p
    <3>0. Linked(h, p)
      BY <2>1, <1>3
    <3>1. g[x].next = new /\ g[new].previous = x /\ EndOf(g, x) = new
      BY <2>3, <1>10, <1>12, <1>18
    <3>2. /\ g[x].magic # "junk"
          /\ EndOf(g, x) <= HeapEnd
          /\ new # Null
      <4>1. g[x].magic # "junk"
        BY <2>3, <3>0, <1>12 DEF Linked
      <4>2. EndOf(g, x) <= HeapEnd /\ new # Null
        BY <2>3, <1>18, <1>4, <1>1, HeapFacts, HeapAssumption, SMT
      <4> QED BY <4>1, <4>2
    <3>3. x # HeapStart => g[x].previous \in Blocks(g) /\ g[g[x].previous].next = x
      <4> HAVE x # HeapStart
      <4>1. h[p].previous \in Blocks(h) /\ h[h[p].previous].next = p
        BY <3>0, <2>3 DEF Linked
      <4>2. h[p].previous < p /\ h[p].previous \in Nat
        BY <4>1, <1>3, BlockFacts, HeapFacts
      <4>3. h[p].previous # p /\ h[p].previous # b /\ (c # Null => h[p].previous # c)
        BY <4>2, <1>1, <1>2, <1>3, <1>4, HeapAssumption, SMT
      <4>4. g[h[p].previous] = h[h[p].previous]
        BY <4>1, <4>3, <1>16, <2>1, HeapFacts
      <4> QED BY <4>1, <4>3, <4>4, <1>12, <1>17, <2>3
    <3> QED BY <3>1, <3>2, <3>3 DEF Linked
  <2>4. CASE x \notin {p, new}
    <3>0. x \in Blocks(h) /\ x # b /\ Linked(h, x) /\ x \in Addr
      BY <2>4, <1>17, <2>1
    <3>1. /\ g[x].magic = h[x].magic /\ g[x].size = h[x].size /\ g[x].next = h[x].next
          /\ EndOf(g, x) = EndOf(h, x)
          /\ x # c => g[x].previous = h[x].previous
      BY <3>0, <2>4, <1>13, <1>16, <1>18, HeapFacts
    <3>2. h[x].next # Null => /\ h[x].next \in Blocks(h)
                              /\ h[x].next # c
                              /\ g[h[x].next].previous = x
      <4> HAVE h[x].next # Null
      <4>1. h[x].next \in Blocks(h) /\ h[h[x].next].previous = x
        BY <3>0, BlockFacts DEF Linked
      <4>2. h[x].next # c /\ h[x].next # b
        BY <4>1, <3>0, <1>1, <1>2, <2>4, <2>1, HeapFacts
      <4>3. CASE h[x].next = p
        BY <4>1, <4>3, <4>2, <1>12
      <4>4. CASE h[x].next # p
        BY <4>1, <4>2, <4>4, <1>16
      <4> QED BY <4>1, <4>2, <4>3, <4>4
    <3>3. x # HeapStart => g[x].previous \in Blocks(g) /\ g[g[x].previous].next = x
      <4> HAVE x # HeapStart
      <4>1. CASE x = c
        BY <4>1, <3>0, <1>13, <1>10, <1>17, HeapFacts
      <4>2. CASE x # c
        <5>1. h[x].previous \in Blocks(h) /\ h[h[x].previous].next = x
          BY <3>0 DEF Linked
        <5>2. h[x].previous # b /\ h[x].previous # p
          BY <5>1, <3>0, <4>2, <1>1, <1>3
        <5>3. g[h[x].previous].next = h[h[x].previous].next
          BY <5>1, <5>2, <1>16, <1>13, HeapFacts, <2>1
        <5> QED BY <5>1, <5>2, <5>3, <3>1, <4>2, <1>17
      <4> QED BY <4>1, <4>2
    <3> QED BY <3>0, <3>1, <3>2, <3>3 DEF Linked
  <2> QED BY <2>2, <2>3, <2>4
<1>21. \A a \in Addr \ Blocks(g) : g[a] \in {Leftover("free"), Junk}
  <2> SUFFICES ASSUME NEW a \in Addr \ Blocks(g)
               PROVE  g[a] \in {Leftover("free"), Junk}
    OBVIOUS
  <2>1. CASE a = b
    BY <2>1, <1>8
  <2>2. CASE a # b
    <3>1. a \notin Blocks(h) /\ a \notin {p, c, new}
      BY <2>2, <1>17, <1>2, <1>3, HeapFacts
    <3>2. h[a] \in {Leftover("free"), Junk}
      BY <3>1 DEF WellLinked
    <3> QED BY <2>2, <3>1, <3>2, <1>8
  <2> QED BY <2>1, <2>2
<1>22. g[HeapStart].previous = Null
  <2>1. h[HeapStart].previous = Null /\ HeapStart \in Blocks(h)
    BY DEF WellLinked, Blocks
  <2>2. HeapStart # c
    BY <2>1, <1>2, <1>1, HeapFacts
  <2> QED BY <2>1, <2>2, <1>12, <1>16
<1>23. WellLinked(g)
  BY <1>15, <1>19, <1>20, <1>21, <1>22 DEF WellLinked
<1>24. \A a \in Blocks(h) \ {b, p} : g[a].size = h[a].size
  BY <1>13, <1>16, BlockFacts, HeapFacts
<1>25. \A a \in Blocks(h) \ {b} : g[a].magic = h[a].magic
  BY <1>12, <1>13, <1>16, BlockFacts, HeapFacts
<1>26. ASSUME NEW a \in Addr
       PROVE  (g[a].magic = "used") <=> (h[a].magic = "used")
  <2>1. CASE a \in Blocks(h) \ {b}
    BY <2>1, <1>25
  <2>2. CASE a = b
    BY <2>2, <1>11
  <2>3. CASE a = new
    <3>1. h[a] \in {Leftover("free"), Junk}
      BY <2>3, <1>7 DEF WellLinked
    <3> QED BY <3>1, <2>3, <1>10 DEF Leftover, Junk
  <2>4. CASE a \notin Blocks(h) /\ a # new
    <3>1. h[a] \in {Leftover("free"), Junk} /\ g[a] \in {Leftover("free"), Junk}
      BY <2>4, <1>17, <1>21 DEF WellLinked
    <3> QED BY <3>1 DEF Leftover, Junk
  <2> QED BY <2>1, <2>2, <2>3, <2>4
<1>27. ASSUME NEW a \in Addr
       PROVE  g[a] = h[a] \/ a \in Blocks(h) \/ (new <= a /\ a < EndOf(h, b))
  <2>1. CASE a \in {b, p, c}
    BY <2>1, <1>2, <1>3, HeapFacts
  <2>2. CASE a = new
    BY <2>2, <1>1, <1>4, HeapAssumption, SMT
  <2>3. CASE a \notin {b, p, c, new} /\ new < a /\ a < new + HeaderSize
    BY <2>3, <1>1, <1>4, HeapFacts, HeapAssumption, SMT
  <2>4. CASE a \notin {b, p, c, new} /\ ~(new < a /\ a < new + HeaderSize)
    BY <2>4, <1>8
  <2> QED BY <2>1, <2>2, <2>3, <2>4
<1>28. g[new].size = h[b].size - d
  BY <1>10 DEF rest
<1> QED BY <1>3, <1>4, <1>7, <1>10, <1>12, <1>17, <1>18, <1>23, <1>24, <1>25, <1>26, <1>27, <1>28
        DEF g, new, p

\* A split writes the link of the block behind anew, whatever it was.
LEMMA SplitRenews ==
  ASSUME NEW h, NEW g, NEW b \in Addr, NEW size,
         h \in [Addr -> Header], g \in [Addr -> Header],
         \A a \in Addr : a # h[b].next => g[a] = h[a],
         b # h[b].next, h[b].next \in Addr,
         \A x : [g[h[b].next] EXCEPT !.previous = x] = [h[h[b].next] EXCEPT !.previous = x]
  PROVE  CreateNewBlockHeader(g, b, size) = CreateNewBlockHeader(h, b, size)
<1>1. g[b] = h[b]
  OBVIOUS
<1>2. PICK c : c = h[b].next
  OBVIOUS
<1>3. PICK new : new = b + size + HeaderSize
  OBVIOUS
<1>4. CreateNewBlockHeader(g, b, size) = [a \in Addr |-> CreateNewBlockHeader(g, b, size)[a]]
  BY DEF CreateNewBlockHeader, StoreHeader
<1>5. CreateNewBlockHeader(h, b, size) = [a \in Addr |-> CreateNewBlockHeader(h, b, size)[a]]
  BY DEF CreateNewBlockHeader, StoreHeader
<1>6. ASSUME NEW a \in Addr
      PROVE  CreateNewBlockHeader(g, b, size)[a] = CreateNewBlockHeader(h, b, size)[a]
  <2>1. CASE a = c
    BY <1>1, <1>2, <1>6, <2>1 DEF CreateNewBlockHeader, StoreHeader
  <2>2. CASE a # c
    BY <1>1, <1>2, <1>6, <2>2 DEF CreateNewBlockHeader, StoreHeader
  <2> QED BY <2>1, <2>2
<1> QED BY <1>4, <1>5, <1>6

\* Words inside the payload of one block may be written over.
LEMMA Overwrite ==
  ASSUME NEW h, WellLinked(h), NEW b \in Blocks(h),
         NEW from \in Nat, NEW to \in Nat,
         b < from, to <= EndOf(h, b),
         NEW g \in [Addr -> Header],
         \A a \in Addr : ~(from <= a /\ a < to) => g[a] = h[a],
         \A a \in Addr : from <= a /\ a < to => g[a] \in {Leftover("free"), Junk}
  PROVE  /\ WellLinked(g)
         /\ Blocks(g) = Blocks(h)
         /\ \A a \in Blocks(h) : g[a] = h[a]
         /\ \A a \in Addr : (g[a].magic = "used") <=> (h[a].magic = "used")
<1>1. \A a \in Addr : from <= a /\ a < to => a \notin Blocks(h)
  <2> SUFFICES ASSUME NEW a \in Addr, from <= a, a < to
               PROVE  a \notin Blocks(h)
    OBVIOUS
  <2>1. a \in Nat /\ b \in Nat /\ EndOf(h, b) \in Nat
    BY BlockFacts, HeapFacts
  <2>2. b < a /\ a < EndOf(h, b)
    BY <2>1, SMT
  <2> QED BY <2>1, <2>2, PayloadFree
<1>2. \A a \in Blocks(h) : g[a] = h[a]
  BY <1>1, BlockFacts
<1>3. \A a \in Addr \ Blocks(h) : g[a] \in {Leftover("free"), Junk}
  BY DEF WellLinked
<1>4. WellLinked(g) /\ Blocks(g) = Blocks(h)
  BY <1>2, <1>3, Scribble
<1>5. \A a \in Addr : (g[a].magic = "used") <=> (h[a].magic = "used")
  <2> SUFFICES ASSUME NEW a \in Addr
               PROVE  (g[a].magic = "used") <=> (h[a].magic = "used")
    OBVIOUS
  <2>1. CASE a \in Blocks(h)
    BY <2>1, <1>2
  <2>2. CASE a \notin Blocks(h)
    BY <2>2, <1>3 DEF WellLinked, Leftover, Junk
  <2> QED BY <2>1, <2>2
<1> QED BY <1>2, <1>4, <1>5

----------------------------------------------------------------------------
(* The invariant *)

\* Whatever is asked for fits a word.
LEMMA RequestSizes ==
  ASSUME NEW size \in Requests
  PROVE  size \in Nat /\ size < Word
<1>1. size \in 0 .. Word - 1
  BY SizesAssumption DEF Requests
<1> QED BY <1>1, HeapAssumption, SMT

\* A live pointer stands behind the header of a used block of the list.
LEMMA LiveFacts ==
  ASSUME WellLinked(hdr), LiveInv, NEW p \in DOMAIN live
  PROVE  /\ p - HeaderSize \in Blocks(hdr)
         /\ p - HeaderSize \in Addr
         /\ (p - HeaderSize) + HeaderSize = p
         /\ hdr[p - HeaderSize].magic = "used"
         /\ p \in Nat
         /\ live[p] \in Nat
         /\ live[p] \in Requests
         /\ live[p] <= hdr[p - HeaderSize].size
<1>1. p \in Pointers
  BY DEF LiveInv
<1>2. p \in Nat /\ p - HeaderSize \in Addr /\ (p - HeaderSize) + HeaderSize = p
  BY <1>1, HeapAssumption, SMT DEF Pointers, Addr, HeapEnd
<1>3. hdr[p - HeaderSize].magic = "used"
  BY <1>2 DEF LiveInv
<1>4. p - HeaderSize \in Blocks(hdr)
  BY <1>2, <1>3 DEF WellLinked, Leftover, Junk
<1>5. live[p] \in Requests /\ live[p] <= hdr[p - HeaderSize].size
  BY DEF LiveInv
<1>6. live[p] \in Nat
  BY <1>5, RequestSizes
<1> QED BY <1>2, <1>3, <1>4, <1>5, <1>6

\* Used blocks are where pointers can be.
LEMMA BlockPointer ==
  ASSUME NEW h, WellLinked(h), NEW b \in Blocks(h)
  PROVE  /\ b + HeaderSize \in Pointers
         /\ (b + HeaderSize) - HeaderSize = b
<1>1. b \in Addr /\ EndOf(h, b) <= HeapEnd /\ h[b].size \in Nat
  BY BlockFacts
<1> QED BY <1>1, HeapAssumption, SMT DEF Pointers, Addr, HeapEnd, EndOf

\* A call that returns or stops leaves no local behind.
LEMMA FinishControl ==
  ASSUME NEW label \in {"idle"} \cup Stopped, Finish(label)
  PROVE  ControlInv'
BY DEF Finish, ControlInv, Stopped

\* Handing out the data of a block that has just become used, while the other
\* used blocks lose no byte.
LEMMA HoldGrown ==
  ASSUME WellLinked(hdr), LiveInv, WellLinked(hdr'),
         NEW b \in Blocks(hdr'), NEW size \in Requests,
         live' = Hold(b + HeaderSize, size),
         hdr'[b].magic = "used",
         size <= hdr'[b].size,
         \A a \in Blocks(hdr) \ {b} : hdr[a].magic = "used" => hdr[a].size <= hdr'[a].size,
         \A a \in Addr \ {b} : (hdr'[a].magic = "used") <=> (hdr[a].magic = "used")
  PROVE  LiveInv'
<1> DEFINE ptr == b + HeaderSize
<1>1. ptr \in Pointers /\ b \in Addr /\ ptr - HeaderSize = b
  BY BlockPointer, BlockFacts
<1>2. /\ DOMAIN live' = DOMAIN live \cup {ptr}
      /\ live'[ptr] = size
      /\ \A q \in DOMAIN live \ {ptr} : live'[q] = live[q]
      /\ live' = [q \in DOMAIN live' |-> live'[q]]
  BY DEF Hold
<1>3. DOMAIN live' \subseteq Pointers
  BY <1>1, <1>2 DEF LiveInv
<1>4. live' \in [DOMAIN live' -> Requests]
  BY <1>2 DEF LiveInv
<1>5. ASSUME NEW a \in Addr
      PROVE  (hdr'[a].magic = "used") <=> a + HeaderSize \in DOMAIN live'
  <2>1. CASE a = b
    BY <2>1, <1>2
  <2>2. CASE a # b
    <3>1. a + HeaderSize # ptr
      BY <2>2, <1>1, HeapFacts, HeapAssumption, SMT
    <3> QED BY <2>2, <3>1, <1>2 DEF LiveInv
  <2> QED BY <2>1, <2>2
<1>6. ASSUME NEW q \in DOMAIN live'
      PROVE  live'[q] <= hdr'[q - HeaderSize].size
  <2>1. CASE q = ptr
    BY <2>1, <1>1, <1>2
  <2>2. CASE q # ptr
    <3>1. PICK a : a = q - HeaderSize
      OBVIOUS
    <3>2. /\ a \in Blocks(hdr) /\ a # b /\ hdr[a].magic = "used"
          /\ live[q] \in Nat /\ live[q] <= hdr[a].size /\ live'[q] = live[q]
      BY <1>2, <2>2, <3>1, LiveFacts
    <3>3. hdr[a].size \in Nat /\ hdr'[a].size \in Nat
      <4>1. a \in Addr
        BY <3>2, BlockFacts
      <4> QED BY <4>1, HeapAssumption, SMT DEF WellLinked, Header
    <3>4. hdr[a].size <= hdr'[a].size
      BY <3>2
    <3> QED BY <3>1, <3>2, <3>3, <3>4
  <2> QED BY <2>1, <2>2
<1> QED BY <1>3, <1>4, <1>5, <1>6 DEF LiveInv

LEMMA HoldLive ==
  ASSUME WellLinked(hdr), LiveInv, WellLinked(hdr'),
         NEW b \in Blocks(hdr), NEW size \in Requests,
         live' = Hold(b + HeaderSize, size),
         Blocks(hdr) \subseteq Blocks(hdr'),
         hdr'[b].magic = "used",
         size <= hdr'[b].size,
         \A a \in Blocks(hdr) \ {b} : hdr'[a].size = hdr[a].size,
         \A a \in Addr \ {b} : (hdr'[a].magic = "used") <=> (hdr[a].magic = "used")
  PROVE  LiveInv'
<1>1. \A a \in Blocks(hdr) \ {b} : hdr[a].size <= hdr'[a].size
  BY BlockFacts
<1> QED BY <1>1, HoldGrown

LEMMA InitInv == Init => IInv
<1> SUFFICES ASSUME Init PROVE IInv
  OBVIOUS
<1>1. /\ hdr = CreateHeap
      /\ \A a \in Addr \ {HeapStart} : hdr[a] = Junk
      /\ hdr[HeapStart] = [magic |-> "free", size |-> HeapSize - HeaderSize,
                           next |-> Null, previous |-> Null]
  BY HeapFacts DEF Init, CreateHeap
<1>2. hdr \in [Addr -> Header]
  <2>1. HeapSize - HeaderSize \in 0 .. Word - 1
    BY HeapAssumption, SMT
  <2>2. Junk \in Header
    BY HeapAssumption DEF Junk, Leftover, Header
  <2>3. \A a \in Addr : hdr[a] \in Header
    BY <1>1, <2>1, <2>2 DEF Header
  <2> QED BY <1>1, <2>3 DEF CreateHeap
<1>3. Blocks(hdr) = {HeapStart}
  BY <1>1 DEF Blocks, Junk, Leftover
<1>4. EndOf(hdr, HeapStart) = HeapEnd
  BY <1>1, HeapAssumption, SMT DEF EndOf, HeapEnd
<1>5. HeapEnd <= HeapEnd /\ ~(HeapStart < HeapStart)
  BY HeapAssumption, SMT DEF HeapEnd
<1>6. WellLinked(hdr)
  BY <1>1, <1>2, <1>3, <1>4, <1>5 DEF WellLinked, Linked
<1>7. LiveInv
  BY <1>1 DEF Init, LiveInv, Junk, Leftover
<1>8. ControlInv
  BY DEF Init, ControlInv
<1> QED BY <1>6, <1>7, <1>8 DEF IInv

LEMMA StopInv ==
  ASSUME IInv, NEW label \in Stopped, Stop(label)
  PROVE  IInv'
<1>1. hdr' = hdr /\ live' = live /\ Finish(label)
  BY DEF Stop
<1>2. WellLinked(hdr') /\ LiveInv'
  BY <1>1 DEF IInv, LiveInv
<1>3. ControlInv'
  BY <1>1, FinishControl
<1> QED BY <1>2, <1>3 DEF IInv

LEMMA SearchInv ==
  ASSUME IInv, NEW size \in Requests, NEW aligned \in BOOLEAN, NEW old,
         StartSearch(size, aligned, old),
         old # Null => ~aligned /\ old \in DOMAIN live /\ hdr[old - HeaderSize].size < size
  PROVE  IInv'
<1>1. hdr' = hdr /\ live' = live
  BY DEF StartSearch
<1>2. WellLinked(hdr') /\ LiveInv'
  BY <1>1 DEF IInv, LiveInv
<1>3. HeapStart \in Blocks(hdr')
  BY DEF Blocks
<1>4. ControlInv'
  BY <1>1, <1>3, HeapFacts DEF StartSearch, ControlInv
<1> QED BY <1>2, <1>4 DEF IInv

LEMMA SkipUsedInv ==
  ASSUME IInv, SkipUsed
  PROVE  IInv'
<1>1. hdr' = hdr /\ live' = live /\ best \in Blocks(hdr)
  BY DEF SkipUsed, IInv, ControlInv
<1>2. WellLinked(hdr') /\ LiveInv'
  BY <1>1 DEF IInv, LiveInv
<1>3. best' \in Blocks(hdr') /\ best' \in Addr
  BY <1>1, <1>2, BlockFacts DEF SkipUsed
<1>4. ControlInv'
  BY <1>1, <1>3 DEF SkipUsed, ControlInv, IInv
<1> QED BY <1>2, <1>4 DEF IInv

LEMMA FoundUnusedInv ==
  ASSUME IInv, FoundUnused
  PROVE  IInv'
<1>1. hdr' = hdr /\ live' = live /\ best \in Blocks(hdr) /\ best' = best
  BY DEF FoundUnused, IInv, ControlInv
<1>2. WellLinked(hdr') /\ LiveInv'
  BY <1>1 DEF IInv, LiveInv
<1>3. hdr'[best'].magic = "free"
  BY <1>1, <1>2, BlockFacts DEF FoundUnused, IsUsed
<1>4. ControlInv'
  BY <1>1, <1>3 DEF FoundUnused, ControlInv, IInv
<1> QED BY <1>2, <1>4 DEF IInv

LEMMA ScanInv ==
  ASSUME IInv, Scan
  PROVE  IInv'
<1>1. /\ hdr' = hdr /\ live' = live
      /\ best \in Blocks(hdr) /\ current \in Blocks(hdr)
      /\ hdr[best].magic = "free"
  BY DEF Scan, IInv, ControlInv
<1>2. WellLinked(hdr') /\ LiveInv'
  BY <1>1 DEF IInv, LiveInv
<1>3. current' \in Blocks(hdr') \cup {Null} /\ current' \in Addr \cup {Null}
  BY <1>1, <1>2, BlockFacts DEF Scan
<1>4. best' \in Blocks(hdr') /\ best' \in Addr /\ hdr'[best'].magic = "free"
  BY <1>1, <1>2, BlockFacts DEF Scan, Better, IsUsed
<1>5. ControlInv'
  BY <1>1, <1>3, <1>4 DEF Scan, ControlInv, IInv
<1> QED BY <1>2, <1>5 DEF IInv

\* kmalloc takes the block the search settled on; inside krealloc it is
\* filled from the block it replaces.
LEMMA TakeWrites ==
  ASSUME IInv, Take
  PROVE  /\ IInv'
         /\ best \in Blocks(hdr) /\ hdr[best].magic = "free" /\ sz \in Nat /\ sz <= hdr[best].size
         /\ LET h == Occupy(hdr, best, sz)
            IN /\ Blocks(hdr') = Blocks(h)
               /\ \A a \in Blocks(h) : hdr'[a] = h[a]
               /\ \A a \in Addr : hdr'[a] = h[a] \/ (best < a /\ a < EndOf(hdr, best))
<1> DEFINE h == Occupy(hdr, best, sz)
           ptr == best + HeaderSize
           old == moving - HeaderSize
<1>1. /\ WellLinked(hdr) /\ LiveInv
      /\ best \in Blocks(hdr) /\ best \in Addr /\ hdr[best].magic = "free"
      /\ sz \in Requests /\ sz \in Nat /\ sz <= hdr[best].size
  <2>2. sz \in Requests /\ best \in Blocks(hdr) /\ hdr[best].magic = "free"
    BY DEF Take, SearchDone, IInv, ControlInv
  <2>3. sz \in Nat
    BY <2>2, RequestSizes
  <2>4. hdr[best].size \in Nat /\ best \in Addr
    BY <2>2, BlockFacts DEF IInv
  <2> QED BY <2>2, <2>3, <2>4, SMT DEF Take, IInv
<1>2. /\ WellLinked(h)
      /\ Blocks(hdr) \subseteq Blocks(h)
      /\ h[best].magic = "used"
      /\ sz <= h[best].size
      /\ \A a \in Blocks(hdr) \ {best} : h[a].size = hdr[a].size
      /\ \A a \in Addr \ {best} : (h[a].magic = "used") <=> (hdr[a].magic = "used")
  BY <1>1, Occupied
<1> HIDE DEF h
<1>3. CASE moving = Null
  <2>1. hdr' = h /\ live' = Hold(ptr, sz) /\ Finish("idle")
    BY <1>3 DEF Take, Deliver, h
  <2>2. WellLinked(hdr') /\ LiveInv'
    BY <1>1, <1>2, <2>1, HoldLive
  <2>3. ControlInv'
    BY <2>1, FinishControl
  <2> QED BY <1>1, <2>1, <2>2, <2>3 DEF IInv, h
<1>4. CASE moving # Null
  <2>1. /\ moving \in DOMAIN live
        /\ hdr[old].size < sz
    BY <1>4 DEF IInv, ControlInv, Take, SearchDone
  <2>2. /\ old \in Blocks(hdr) /\ old # best /\ old \in Addr
        /\ old + HeaderSize = moving /\ moving \in Nat
        /\ hdr[old].magic = "used"
    BY <1>1, <2>1, LiveFacts
  <2> DEFINE n == h[old].size
             g == CopyPayload(h, moving, ptr, n)
  <2>3. n \in Nat /\ n < sz /\ h[best].size \in Nat /\ n <= h[best].size
    <3>1. h[old].size = hdr[old].size /\ hdr[old].size \in Nat
      BY <1>1, <1>2, <2>2, BlockFacts
    <3>2. h[best].size \in Nat
      BY <1>1, <1>2, BlockFacts
    <3> QED BY <1>1, <1>2, <2>1, <3>1, <3>2
  <2>4. /\ hdr' = g
        /\ live' = Hold(ptr, sz)
        /\ pc' = "release"
        /\ UNCHANGED <<sz, align, best, current, moving>>
    BY <1>4 DEF Take, Deliver, h
  <2>5. ptr \in Nat /\ best < ptr /\ ptr + n \in Nat /\ ptr + n <= EndOf(h, best)
    BY <1>1, <2>3, HeapFacts, HeapAssumption, SMT DEF EndOf
  <2>6. \A a \in Addr : ptr <= a /\ a < ptr + n => g[a] \in {Leftover("free"), Junk}
    <3> SUFFICES ASSUME NEW a \in Addr, ptr <= a, a < ptr + n
                 PROVE  g[a] \in {Leftover("free"), Junk}
      OBVIOUS
    <3> DEFINE x == moving + (a - ptr)
    <3>1. old \in Blocks(h)
      BY <1>2, <2>2
    <3>2. EndOf(h, old) \in Nat /\ EndOf(h, old) <= HeapEnd /\ old \in Nat
      BY <3>1, <1>2, BlockFacts, HeapFacts
    <3>3. x \in Nat /\ old < x /\ x < EndOf(h, old) /\ x \in Addr
      BY <2>2, <2>3, <2>5, <3>2, HeapFacts, HeapAssumption, SMT DEF EndOf, Addr
    <3>4. x \notin Blocks(h)
      BY <3>1, <3>3, <1>2, PayloadFree
    <3>5. h[x] \in {Leftover("free"), Junk}
      BY <3>3, <3>4, <1>2 DEF WellLinked
    <3>6. g[a] = Leftover(h[x].magic)
      BY DEF CopyPayload
    <3> QED BY <3>5, <3>6 DEF Leftover, Junk
  <2>7. \A a \in Addr : ~(ptr <= a /\ a < ptr + n) => g[a] = h[a]
    BY DEF CopyPayload
  <2>8. g \in [Addr -> Header]
    <3>1. Leftover("free") \in Header /\ Junk \in Header
      BY HeapAssumption DEF Leftover, Junk, Header
    <3>2. \A a \in Addr : g[a] \in Header
      BY <2>6, <2>7, <3>1, <1>2 DEF WellLinked
    <3>3. g = [a \in Addr |-> g[a]]
      BY DEF CopyPayload
    <3> QED BY <3>2, <3>3
  <2> HIDE DEF g, n
  <2>9. /\ WellLinked(g)
        /\ Blocks(g) = Blocks(h)
        /\ \A a \in Blocks(h) : g[a] = h[a]
        /\ \A a \in Addr : (g[a].magic = "used") <=> (h[a].magic = "used")
    <3>1. best \in Blocks(h)
      BY <1>1, <1>2
    <3> QED BY <1>2, <2>5, <2>6, <2>7, <2>8, <3>1, Overwrite
  <2>10. WellLinked(hdr') /\ LiveInv'
    <3>1. /\ Blocks(hdr) \subseteq Blocks(hdr')
          /\ hdr'[best].magic = "used"
          /\ sz <= hdr'[best].size
          /\ \A a \in Blocks(hdr) \ {best} : hdr'[a].size = hdr[a].size
          /\ \A a \in Addr \ {best} : (hdr'[a].magic = "used") <=> (hdr[a].magic = "used")
      BY <1>1, <1>2, <2>4, <2>9
    <3> QED BY <1>1, <2>4, <2>9, <3>1, HoldLive
  <2>11. ControlInv'
    <3>1. best' \in Blocks(hdr') /\ moving' \in DOMAIN live'
      BY <1>1, <1>2, <2>1, <2>4, <2>9 DEF Hold
    <3> QED BY <1>1, <1>4, <2>4, <3>1 DEF ControlInv, IInv
  <2>12. ASSUME NEW a \in Addr
         PROVE  g[a] = h[a] \/ (best < a /\ a < EndOf(hdr, best))
    <3>1. ptr + n <= EndOf(hdr, best) /\ EndOf(hdr, best) \in Nat /\ best \in Nat /\ a \in Nat
      <4>1. hdr[best].size \in Nat /\ EndOf(hdr, best) \in Nat
        BY <1>1, BlockFacts
      <4>2. best \in Nat /\ a \in Nat
        BY <1>1, HeapFacts
      <4>3. n <= hdr[best].size
        BY <1>1, <2>3, <4>1
      <4>4. EndOf(hdr, best) = ptr + hdr[best].size
        BY DEF EndOf
      <4> QED BY <2>3, <2>5, <4>1, <4>2, <4>3, <4>4
    <3>2. CASE ptr <= a /\ a < ptr + n
      BY <3>1, <3>2, <2>5, SMT
    <3> QED BY <2>7, <3>2
  <2> QED BY <1>1, <2>4, <2>9, <2>10, <2>11, <2>12 DEF IInv, h
<1> QED BY <1>3, <1>4

LEMMA TakeInv ==
  ASSUME IInv, Take
  PROVE  IInv'
BY TakeWrites

\* make_aligned_block finds room: the move takes the header past its own old
\* words and leaves what was asked for behind it.
LEMMA AlignedRoom ==
  ASSUME IInv, TakeAligned, hdr[best].next # Null => HasRoom
  PROVE  /\ WellLinked(hdr) /\ LiveInv
         /\ best \in Blocks(hdr) /\ best \in Addr /\ best # HeapStart /\ hdr[best].magic = "free"
         /\ Distance \in Nat /\ HeaderSize <= Distance /\ Distance <= hdr[best].size
         /\ RoomLeft = hdr[best].size - Distance
         /\ sz \in Requests /\ sz \in Nat /\ sz <= RoomLeft
         /\ MemAddress % Page \in Nat /\ Distance = Page - (MemAddress % Page)
<1>1. /\ WellLinked(hdr) /\ LiveInv
      /\ best \in Blocks(hdr) /\ hdr[best].magic = "free"
      /\ sz \in Requests /\ sz \in Nat /\ sz < Word
  BY RequestSizes DEF IInv, ControlInv, TakeAligned, SearchDone
<1>2. best \in Addr /\ best # HeapStart
  BY <1>1, BlockFacts DEF TakeAligned, WellLinked
<1>3. AlignedSpaceAssert /\ HeaderSize <= Distance /\ ~Escapes
  BY DEF TakeAligned
<1>4. PICK m \in Nat : m = MemAddress % Page /\ m < Page
  <2>1. MemAddress \in Nat
    BY <1>2, HeapFacts, HeapAssumption, SMT DEF MemAddress
  <2> QED BY <2>1, PageAssumption, SMT
<1>5. Distance = Page - m /\ Distance \in Nat
  BY <1>4, PageAssumption, SMT DEF Distance
<1>6. PICK room \in Nat : room = hdr[best].size /\ room < Word
  BY <1>1, BlockFacts
<1>7. sz <= room + m
  BY <1>1, <1>3, <1>4, <1>6, HeapAssumption, SMT DEF AlignedSpaceAssert, Plus
<1>8. hdr[best].next = Null => best + HeaderSize + room = HeapEnd
  BY <1>1, <1>6 DEF WellLinked, Linked, EndOf
<1>9. hdr[best].next # Null => room >= Distance + sz
  BY <1>6 DEF HasRoom
<1>10. HeaderPos = best + Distance /\ HeaderPos + HeaderSize <= HeapEnd
  BY <1>2, <1>3, <1>5, HeapFacts, HeapAssumption, SMT DEF HeaderPos, Escapes
<1>11. Distance <= room
  <2>1. CASE hdr[best].next = Null
    BY <2>1, <1>2, <1>5, <1>6, <1>8, <1>10, HeapFacts, HeapAssumption, SMT
  <2>2. CASE hdr[best].next # Null
    BY <2>2, <1>1, <1>5, <1>6, <1>9, SMT
  <2> QED BY <2>1, <2>2
<1>12. RoomLeft = room - Distance
  BY <1>5, <1>6, <1>11, SMT DEF RoomLeft, Minus
<1>13. sz <= RoomLeft
  <2>1. CASE hdr[best].next = Null
    <3> SUFFICES ASSUME RoomLeft < sz
                 PROVE  FALSE
      BY <1>1, <1>5, <1>6, <1>11, <1>12, SMT
    <3>1. Minus(RoomLeft, sz) = (RoomLeft + Word) - sz
      BY <1>1, <1>5, <1>6, <1>11, <1>12, SMT DEF Minus
    <3>2. SplitWorthwhile(RoomLeft, sz)
      BY <3>1, <1>1, <1>4, <1>5, <1>6, <1>7, <1>11, <1>12, HeapAssumption, PageAssumption, SMT
         DEF SplitWorthwhile
    <3>3. ~(HeaderPos + sz + 2 * HeaderSize > HeapEnd)
      BY <3>2, <1>3 DEF Escapes
    <3> QED BY <2>1, <3>3, <1>1, <1>2, <1>5, <1>6, <1>8, <1>10, <1>11, <1>12, HeapFacts,
               HeapAssumption, SMT
  <2>2. CASE hdr[best].next # Null
    BY <2>2, <1>1, <1>5, <1>6, <1>9, <1>12, SMT
  <2> QED BY <2>1, <2>2
<1> QED BY <1>1, <1>2, <1>3, <1>4, <1>5, <1>6, <1>11, <1>12, <1>13

\* make_aligned_block moves the header, as far as the split behind it can tell.
LEMMA AlignedTaken ==
  ASSUME IInv, TakeAligned, LinkRenewed
  PROVE  hdr' = Occupy(Relocated(hdr, best, Distance), HeaderPos, sz)
<1>1. PICK h : h = Relocated(hdr, best, Distance)
  OBVIOUS
<1>2. PICK g : g = MakeAlignedBlock
  OBVIOUS
<1>3. PICK p : p = hdr[best].previous
  OBVIOUS
<1>4. PICK c : c = hdr[best].next
  OBVIOUS
<1>5. /\ WellLinked(hdr) /\ best \in Blocks(hdr) /\ best \in Addr /\ best # HeapStart
      /\ hdr[best].magic = "free"
      /\ Distance \in Nat /\ HeaderSize <= Distance /\ Distance <= hdr[best].size
      /\ RoomLeft = hdr[best].size - Distance /\ HeaderPos = best + Distance
  BY AlignedRoom DEF HeaderPos, LinkRenewed
<1>6. /\ WellLinked(h) /\ HeaderPos \in Addr \ Blocks(hdr)
      /\ p \in Blocks(hdr) /\ p # best /\ h[HeaderPos].size = RoomLeft
      /\ EndOf(hdr, p) = best
  BY <1>1, <1>3, <1>5, Relocate
<1>7. /\ hdr \in [Addr -> Header] /\ h \in [Addr -> Header]
      /\ p \in Addr /\ hdr[p].size \in Nat /\ p \in Nat
  BY <1>5, <1>6, BlockFacts, HeapFacts DEF WellLinked
<1>8. Plus(hdr[p].size, Distance) = hdr[p].size + Distance
  <2>1. best \in Nat /\ hdr[best].size \in Nat /\ EndOf(hdr, best) <= HeapEnd
    BY <1>5, BlockFacts, HeapFacts
  <2> QED BY <2>1, <1>5, <1>6, <1>7, HeapFacts, HeapAssumption, SMT DEF Plus, EndOf
<1>9. LinkRenewed
  OBVIOUS
<1>10. g = [a \in Addr |->
             IF a = best THEN Leftover("free")
             ELSE IF a = HeaderPos THEN [hdr[best] EXCEPT !.size = RoomLeft]
             ELSE IF HeaderPos < a /\ a < HeaderPos + HeaderSize THEN Junk
             ELSE IF a = p THEN [hdr[p] EXCEPT !.next = HeaderPos, !.size = hdr[p].size + Distance]
             ELSE hdr[a]]
  <2>1. best # HeaderPos /\ ~(HeaderPos < best /\ best < HeaderPos + HeaderSize)
    BY <1>5, HeapFacts, HeapAssumption, SMT
  <2>2. PICK shrunk : shrunk = [hdr EXCEPT ![best].size = RoomLeft,
                                           ![p].next = HeaderPos,
                                           ![p].size = Plus(@, Distance)]
    OBVIOUS
  <2>3. /\ shrunk[best] = [hdr[best] EXCEPT !.size = RoomLeft]
        /\ shrunk[p] = [hdr[p] EXCEPT !.next = HeaderPos, !.size = hdr[p].size + Distance]
        /\ \A a \in Addr \ {best, p} : shrunk[a] = hdr[a]
    <3>1. hdr[p] \in Header
      BY <1>7
    <3>2. [hdr[p] EXCEPT !.next = HeaderPos].size = hdr[p].size
      BY <3>1 DEF Header
    <3> QED BY <1>5, <1>6, <1>7, <1>8, <2>2, <3>2
  <2>4. PICK moved : moved = StoreHeader(shrunk, HeaderPos, shrunk[best])
    OBVIOUS
  <2>5. g = [moved EXCEPT ![best] = Leftover(moved[best].magic)]
    BY <1>2, <1>3, <1>9, <2>2, <2>4 DEF MakeAlignedBlock
  <2>6. moved[best].magic = "free"
    <3>1. moved[best] = shrunk[best] /\ hdr[best] \in Header
      BY <1>5, <1>7, <2>1, <2>4 DEF StoreHeader
    <3> QED BY <1>5, <2>3, <3>1 DEF Header
  <2>7. moved = [a \in Addr |->
                  IF a = HeaderPos THEN [hdr[best] EXCEPT !.size = RoomLeft]
                  ELSE IF HeaderPos < a /\ a < HeaderPos + HeaderSize THEN Junk
                  ELSE shrunk[a]]
    BY <2>3, <2>4 DEF StoreHeader
  <2> HIDE DEF HeaderPos
  <2>8. g = [a \in Addr |-> g[a]]
    BY <2>5, <2>7
  <2>9. ASSUME NEW a \in Addr
        PROVE  g[a] = IF a = best THEN Leftover("free")
                      ELSE IF a = HeaderPos THEN [hdr[best] EXCEPT !.size = RoomLeft]
                      ELSE IF HeaderPos < a /\ a < HeaderPos + HeaderSize THEN Junk
                      ELSE IF a = p
                      THEN [hdr[p] EXCEPT !.next = HeaderPos, !.size = hdr[p].size + Distance]
                      ELSE hdr[a]
    BY <2>3, <2>5, <2>6, <2>7
  <2> QED BY <2>8, <2>9
<1>11. h = [a \in Addr |->
             IF a = HeaderPos THEN [hdr[best] EXCEPT !.size = RoomLeft]
             ELSE IF HeaderPos < a /\ a < HeaderPos + HeaderSize THEN Junk
             ELSE IF a = best THEN Leftover("free")
             ELSE IF a = p THEN [hdr[p] EXCEPT !.next = HeaderPos, !.size = hdr[p].size + Distance]
             ELSE IF a = c THEN [hdr[a] EXCEPT !.previous = HeaderPos]
             ELSE hdr[a]]
  BY <1>1, <1>3, <1>4, <1>5 DEF Relocated
<1>12. best # HeaderPos /\ ~(HeaderPos < best)
  BY <1>5, HeapFacts, HeapAssumption, SMT
<1> HIDE DEF HeaderPos
<1>13. \A a \in Addr : a # c => g[a] = h[a]
  BY <1>10, <1>11, <1>12
<1>14. hdr' = Occupy(g, HeaderPos, sz)
  BY <1>2 DEF TakeAligned
<1>15. CASE c = Null
  <2>1. g = h
    BY <1>10, <1>11, <1>12, <1>15, HeapFacts
  <2> QED BY <1>1, <1>14, <2>1
<1>16. CASE c # Null
  <2>1. SplitWorthwhile(RoomLeft, sz)
    BY <1>4, <1>9, <1>16 DEF LinkRenewed
  <2>2. c \in Addr /\ c \in Blocks(hdr) /\ c # HeaderPos /\ c # best /\ c # p
    <3>1. /\ c \in Blocks(hdr) /\ c \in Addr /\ c \in Nat
          /\ best < c /\ best \in Nat
      BY <1>4, <1>5, <1>16, BlockFacts, HeapFacts
    <3>2. p < best
      BY <1>6, <1>7, <1>5, HeapFacts, HeapAssumption, SMT DEF EndOf
    <3>3. c # best /\ c # p
      BY <1>7, <3>1, <3>2, SMT
    <3> QED BY <1>6, <3>1, <3>3
  <2>3. ~(HeaderPos < c /\ c < HeaderPos + HeaderSize)
    <3>1. c = EndOf(hdr, best) /\ best \in Nat /\ hdr[best].size \in Nat
      BY <1>4, <1>5, <1>16, BlockFacts, HeapFacts
    <3> QED BY <3>1, <1>5, HeapAssumption, SMT DEF EndOf
  <2>4. g[c] = hdr[c] /\ h[c] = [hdr[c] EXCEPT !.previous = HeaderPos]
    BY <1>10, <1>11, <2>2, <2>3
  <2>5. hdr[c] \in Header /\ hdr[best] \in Header
    BY <1>5, <1>7, <2>2
  <2>6. \A x : [g[c] EXCEPT !.previous = x] = [h[c] EXCEPT !.previous = x]
    BY <2>4, <2>5 DEF Header
  <2>7. h[HeaderPos] = [hdr[best] EXCEPT !.size = RoomLeft] /\ g[HeaderPos] = h[HeaderPos]
    BY <1>6, <1>11, <1>13, <2>2
  <2>8. h[HeaderPos].next = c
    BY <1>4, <2>5, <2>7 DEF Header
  <2>9. g \in [Addr -> Header]
    <3>1. \A a \in Addr : g[a] \in Header
      BY <1>7, <1>13, <2>4, <2>5
    <3> QED BY <1>10, <3>1
  <2>10. CreateNewBlockHeader(g, HeaderPos, sz) = CreateNewBlockHeader(h, HeaderPos, sz)
    BY <1>6, <1>7, <1>13, <2>2, <2>6, <2>8, <2>9, SplitRenews
  <2>11. Occupy(g, HeaderPos, sz) = Occupy(h, HeaderPos, sz)
    BY <1>6, <2>1, <2>7, <2>10 DEF Occupy
  <2> QED BY <1>1, <1>14, <2>11
<1> QED BY <1>15, <1>16

\* A page-aligned request keeps the invariant too.
LEMMA TakeAlignedInv ==
  ASSUME IInv, TakeAligned, LinkRenewed
  PROVE  IInv'
<1>1. PICK h : h = Relocated(hdr, best, Distance)
  OBVIOUS
<1>2. PICK new : new = HeaderPos
  OBVIOUS
<1>3. PICK p : p = hdr[best].previous
  OBVIOUS
<1>4. /\ WellLinked(hdr) /\ LiveInv /\ best \in Blocks(hdr) /\ best \in Addr
      /\ hdr[best].magic = "free"
      /\ Distance \in Nat /\ new = best + Distance
      /\ sz \in Requests /\ sz \in Nat /\ sz <= RoomLeft
      /\ RoomLeft = hdr[best].size - Distance
  BY <1>2, AlignedRoom DEF HeaderPos, LinkRenewed
<1>5. /\ WellLinked(h) /\ Blocks(h) = (Blocks(hdr) \ {best}) \cup {new}
      /\ new \in Addr \ Blocks(hdr)
      /\ p \in Blocks(hdr) /\ p # best
      /\ h[new].magic = "free" /\ h[new].size = RoomLeft
      /\ h[p].size = hdr[p].size + Distance
      /\ \A a \in Blocks(hdr) \ {best, p} : h[a].size = hdr[a].size
      /\ \A a \in Addr : (h[a].magic = "used") <=> (hdr[a].magic = "used")
  <2>1. best # HeapStart /\ HeaderSize <= Distance /\ Distance <= hdr[best].size
    BY AlignedRoom DEF LinkRenewed
  <2> QED BY <1>1, <1>3, <1>4, <2>1, Relocate
<1>6. /\ WellLinked(hdr') /\ Blocks(h) \subseteq Blocks(hdr')
      /\ hdr'[new].magic = "used" /\ sz <= hdr'[new].size
      /\ \A a \in Blocks(h) \ {new} : hdr'[a].size = h[a].size
      /\ \A a \in Addr \ {new} : (hdr'[a].magic = "used") <=> (h[a].magic = "used")
  <2>1. hdr' = Occupy(h, new, sz)
    BY <1>1, <1>2, AlignedTaken
  <2>2. new \in Blocks(h) /\ sz <= h[new].size
    BY <1>4, <1>5
  <2>3. PICK g : g = Occupy(h, new, sz)
    OBVIOUS
  <2>4. /\ WellLinked(g) /\ Blocks(h) \subseteq Blocks(g)
        /\ g[new].magic = "used" /\ sz <= g[new].size
        /\ \A a \in Blocks(h) \ {new} : g[a].size = h[a].size
        /\ \A a \in Addr \ {new} : (g[a].magic = "used") <=> (h[a].magic = "used")
    BY <1>4, <1>5, <2>2, <2>3, Occupied
  <2> QED BY <2>1, <2>3, <2>4
<1>7. \A a \in Blocks(hdr) \ {new} : hdr[a].magic = "used" => hdr[a].size <= hdr'[a].size
  <2> SUFFICES ASSUME NEW a \in Blocks(hdr) \ {new}, hdr[a].magic = "used"
               PROVE  hdr[a].size <= hdr'[a].size
    OBVIOUS
  <2>1. a # best /\ a \in Blocks(h) /\ hdr[a].size \in Nat
    BY <1>4, <1>5, BlockFacts
  <2>2. hdr'[a].size = h[a].size
    BY <1>6, <2>1
  <2>3. h[a].size = hdr[a].size \/ h[a].size = hdr[a].size + Distance
    BY <1>5, <2>1
  <2> QED BY <1>4, <2>1, <2>2, <2>3, SMT
<1>8. LiveInv'
  <2>1. live' = Hold(new + HeaderSize, sz)
    BY <1>2 DEF TakeAligned
  <2>2. new \in Blocks(hdr')
    BY <1>5, <1>6
  <2>3. \A a \in Addr \ {new} : (hdr'[a].magic = "used") <=> (hdr[a].magic = "used")
    BY <1>5, <1>6
  <2> QED BY <1>4, <1>6, <1>7, <2>1, <2>2, <2>3, HoldGrown
<1>9. ControlInv'
  <2>1. PICK label : label = (IF LinkRenewed THEN "idle" ELSE "tangled") /\ Finish(label)
    BY DEF TakeAligned
  <2>2. label \in {"idle"} \cup Stopped
    BY <2>1
  <2> QED BY <2>1, <2>2, FinishControl
<1> QED BY <1>6, <1>8, <1>9 DEF IInv

\* What is handed out page-aligned was nobody's: the header is put where
\* there was none.
LEMMA AlignedVacant ==
  ASSUME IInv, TakeAligned, LinkRenewed
  PROVE  HeaderPos + HeaderSize \in Pointers \ DOMAIN live
<1>1. PICK new : new = HeaderPos
  OBVIOUS
<1>2. /\ WellLinked(hdr) /\ LiveInv /\ best \in Blocks(hdr) /\ best # HeapStart
      /\ hdr[best].magic = "free"
      /\ Distance \in Nat /\ HeaderSize <= Distance /\ Distance <= hdr[best].size
      /\ new = best + Distance
  BY <1>1, AlignedRoom DEF HeaderPos, LinkRenewed
<1>3. PICK h : h = Relocated(hdr, best, Distance)
  OBVIOUS
<1>4. WellLinked(h) /\ new \in Blocks(h) /\ new \in Addr \ Blocks(hdr)
  BY <1>2, <1>3, Relocate
<1>5. new + HeaderSize \in Pointers
  BY <1>4, BlockPointer
<1>6. hdr[new].magic # "used"
  BY <1>2, <1>4 DEF WellLinked, Leftover, Junk
<1> QED BY <1>1, <1>2, <1>4, <1>5, <1>6 DEF LiveInv

\* free() clears the used bit of a block some caller holds.
LEMMA MarkFreeInv ==
  ASSUME IInv, NEW p, p - HeaderSize \in Addr, p \in Nat, MarkFree(p)
  PROVE  IInv'
<1> DEFINE b == p - HeaderSize
<1>1. WellLinked(hdr) /\ LiveInv /\ p \in DOMAIN live
  <2>1. (p - HeaderSize) + HeaderSize = p
    BY HeapAssumption, SMT
  <2> QED BY <2>1 DEF IInv, LiveInv, MarkFree, IsUsed
<1>2. b \in Blocks(hdr) /\ b \in Addr /\ b + HeaderSize = p
  BY <1>1, LiveFacts
<1>3. /\ hdr' = [hdr EXCEPT ![b].magic = "free"]
      /\ live' = [q \in DOMAIN live \ {p} |-> live[q]]
      /\ pc' = "forward" /\ current' = b /\ sz' = 0 /\ best' = Null /\ moving' = Null
      /\ align' = align
  BY DEF MarkFree
<1> HIDE DEF b
<1>4. /\ WellLinked(hdr')
      /\ Blocks(hdr') = Blocks(hdr)
      /\ \A a \in Addr :
           /\ hdr'[a].size = hdr[a].size
           /\ hdr'[a].magic = (IF a = b THEN "free" ELSE hdr[a].magic)
  <2>1. hdr' = Marked(hdr, b, "free")
    BY <1>3 DEF Marked
  <2>2. WellLinked(hdr) /\ b \in Blocks(hdr)
    BY <1>1, <1>2
  <2> QED BY <2>1, <2>2, Remark
<1>5. LiveInv'
  <2>1. /\ DOMAIN live' = DOMAIN live \ {p}
        /\ \A q \in DOMAIN live' : live'[q] = live[q] /\ q \in DOMAIN live
        /\ live' = [q \in DOMAIN live' |-> live'[q]]
    BY <1>3
  <2>2. DOMAIN live' \subseteq Pointers /\ live' \in [DOMAIN live' -> Requests]
    BY <1>1, <2>1 DEF LiveInv
  <2>3. ASSUME NEW a \in Addr
        PROVE  (hdr'[a].magic = "used") <=> a + HeaderSize \in DOMAIN live'
    <3>1. CASE a = b
      BY <3>1, <1>4, <1>2, <2>1
    <3>2. CASE a # b
      <4>1. a + HeaderSize # p
        BY <3>2, <1>2, HeapFacts, HeapAssumption, SMT
      <4> QED BY <3>2, <4>1, <1>4, <2>1, <1>1 DEF LiveInv
    <3> QED BY <3>1, <3>2
  <2>4. \A q \in DOMAIN live' : live'[q] <= hdr'[q - HeaderSize].size
    BY <1>1, <1>4, <2>1, LiveFacts
  <2> QED BY <2>2, <2>3, <2>4 DEF LiveInv
<1>6. ControlInv'
  BY <1>2, <1>3, <1>4 DEF ControlInv, IInv
<1> QED BY <1>4, <1>5, <1>6 DEF IInv

\* A merge of two free blocks is invisible to the callers.
LEMMA MergeLive ==
  ASSUME WellLinked(hdr), LiveInv,
         NEW b \in Blocks(hdr), hdr[b].magic = "free",
         hdr[b].next # Null, hdr[hdr[b].next].magic = "free",
         hdr' = MergeBlocks(hdr, b, hdr[b].next), live' = live
  PROVE  /\ WellLinked(hdr') /\ LiveInv'
         /\ b \in Blocks(hdr') /\ b \in Addr
         /\ hdr'[b].magic = "free"
<1> DEFINE c == hdr[b].next
<1>1. /\ WellLinked(hdr')
      /\ Blocks(hdr') = Blocks(hdr) \ {c}
      /\ c \in Blocks(hdr) /\ c # b
      /\ \A a \in Addr \ {b, c} : hdr'[a].size = hdr[a].size
      /\ \A a \in Addr : hdr'[a].magic = hdr[a].magic
  BY MergeNext
<1>2. b \in Blocks(hdr') /\ b \in Addr /\ hdr'[b].magic = "free"
  BY <1>1, BlockFacts
<1>3. \A q \in DOMAIN live : hdr'[q - HeaderSize].size = hdr[q - HeaderSize].size
  <2> SUFFICES ASSUME NEW q \in DOMAIN live
               PROVE  hdr'[q - HeaderSize].size = hdr[q - HeaderSize].size
    OBVIOUS
  <2>1. q - HeaderSize \in Addr /\ hdr[q - HeaderSize].magic = "used"
    BY LiveFacts
  <2>2. q - HeaderSize # b /\ q - HeaderSize # c
    BY <2>1
  <2> QED BY <2>1, <2>2, <1>1
<1>4. LiveInv'
  BY <1>1, <1>3 DEF LiveInv
<1> QED BY <1>1, <1>2, <1>4

LEMMA MergeForwardInv ==
  ASSUME IInv, MergeForward
  PROVE  IInv'
<1>1. /\ WellLinked(hdr) /\ LiveInv
      /\ current \in Blocks(hdr) /\ hdr[current].magic = "free"
      /\ hdr[current].next # Null
  BY DEF MergeForward, IInv, ControlInv, Mergeable, NextHeader
<1>2. hdr[hdr[current].next].magic = "free"
  BY <1>1, BlockFacts DEF MergeForward, Mergeable, NextHeader, IsUsed
<1>3. hdr' = MergeBlocks(hdr, current, hdr[current].next) /\ live' = live
  BY DEF MergeForward, NextHeader
<1>4. /\ WellLinked(hdr') /\ LiveInv'
      /\ current \in Blocks(hdr') /\ hdr'[current].magic = "free"
  BY <1>1, <1>2, <1>3, MergeLive
<1>5. ControlInv'
  BY <1>4 DEF MergeForward, ControlInv, IInv
<1> QED BY <1>4, <1>5 DEF IInv

LEMMA MergeBackwardInv ==
  ASSUME IInv, MergeBackward
  PROVE  IInv'
<1> DEFINE b == hdr[current].previous
<1>1. /\ WellLinked(hdr) /\ LiveInv
      /\ current \in Blocks(hdr) /\ hdr[current].magic = "free"
      /\ b # Null
  BY DEF MergeBackward, IInv, ControlInv, Mergeable, PreviousHeader
<1>2. b \in Blocks(hdr) /\ hdr[b].next = current
  BY <1>1 DEF WellLinked, Linked
<1>3. hdr[b].magic = "free" /\ hdr[b].next # Null /\ hdr[hdr[b].next].magic = "free"
  BY <1>1, <1>2, BlockFacts, HeapFacts
     DEF MergeBackward, Mergeable, PreviousHeader, IsUsed
<1>4. /\ hdr' = MergeBlocks(hdr, b, hdr[b].next) /\ live' = live
      /\ current' = b /\ UNCHANGED <<pc, sz, align, best, moving>>
  BY <1>2 DEF MergeBackward, PreviousHeader
<1>5. /\ WellLinked(hdr') /\ LiveInv'
      /\ b \in Blocks(hdr') /\ b \in Addr /\ hdr'[b].magic = "free"
  BY <1>1, <1>2, <1>3, <1>4, MergeLive
<1>6. ControlInv'
  BY <1>4, <1>5 DEF MergeBackward, ControlInv, IInv
<1> QED BY <1>5, <1>6 DEF IInv

LEMMA EndForwardInv ==
  ASSUME IInv, EndForward
  PROVE  IInv'
<1>1. hdr' = hdr /\ live' = live /\ UNCHANGED <<sz, align, best, current, moving>>
  BY DEF EndForward
<1>2. WellLinked(hdr') /\ LiveInv'
  BY <1>1 DEF IInv, LiveInv
<1>3. pc = "forward" /\ pc' \in {"halt", "backward"}
  BY DEF EndForward
<1>4. ControlInv'
  BY <1>1, <1>3 DEF ControlInv, IInv, Stopped
<1> QED BY <1>2, <1>4 DEF IInv

LEMMA EndBackwardInv ==
  ASSUME IInv, EndBackward
  PROVE  IInv'
<1>1. hdr' = hdr /\ live' = live
  BY DEF EndBackward
<1>2. WellLinked(hdr') /\ LiveInv'
  BY <1>1 DEF IInv, LiveInv
<1>3. ControlInv'
  BY FinishControl DEF EndBackward, Stopped
<1> QED BY <1>2, <1>3 DEF IInv

LEMMA KreallocFitsInv ==
  ASSUME IInv, NEW p \in DOMAIN live, NEW size \in Sizes, KreallocFits(p, size)
  PROVE  IInv'
<1> DEFINE b == p - HeaderSize
<1>1. WellLinked(hdr) /\ LiveInv
  BY DEF IInv
<1>2. b \in Blocks(hdr) /\ b + HeaderSize = p /\ hdr[b].magic = "used"
  BY <1>1, LiveFacts
<1>3. hdr' = hdr /\ live' = Hold(b + HeaderSize, size) /\ size <= hdr'[b].size
  <2>1. size \in Nat /\ hdr[b].size \in Nat
    <3>1. \A s \in Sizes : s \in 0 .. Word - 1
      BY SizesAssumption
    <3> QED BY <3>1, <1>1, <1>2, BlockFacts, HeapAssumption
  <2> QED BY <1>2, <2>1 DEF KreallocFits
<1>4. LiveInv'
  <2>1. size \in Requests
    BY DEF Requests
  <2> QED BY <1>1, <1>2, <1>3, <2>1, HoldLive
<1>5. ControlInv'
  BY <1>3 DEF KreallocFits, ControlInv, IInv
<1> QED BY <1>1, <1>3, <1>4, <1>5 DEF IInv

LEMMA KreallocMoveInv ==
  ASSUME IInv, NEW p \in DOMAIN live, NEW size \in Sizes, KreallocMove(p, size)
  PROVE  IInv'
<1>1. size \in Requests /\ p # Null
  <2>1. p \in Pointers /\ Null \notin Pointers
    BY HeapAssumption, SMT DEF IInv, LiveInv, Pointers, Addr, HeapEnd, Null
  <2> QED BY <2>1 DEF Requests
<1> QED BY <1>1, SearchInv DEF KreallocMove

\* A block that grows has a free one behind it, and the two are large enough.
LEMMA GrowFacts ==
  ASSUME IInv, NEW p \in DOMAIN live, NEW size \in Sizes, KreallocGrow(p, size)
  PROVE  LET b == p - HeaderSize
             c == hdr[b].next
             m == MergeBlocks(hdr, b, c)
         IN /\ WellLinked(hdr) /\ LiveInv
            /\ b \in Blocks(hdr) /\ b \in Addr /\ b + HeaderSize = p /\ hdr[b].magic = "used"
            /\ c \in Blocks(hdr) /\ c # Null /\ hdr[c].magic = "free" /\ c # b
            /\ hdr' = Occupy(m, b, size)
            /\ size \in Nat /\ size <= m[b].size
<1> DEFINE b == p - HeaderSize
           c == hdr[b].next
           m == MergeBlocks(hdr, b, c)
<1>1. WellLinked(hdr) /\ LiveInv
  BY DEF IInv
<1>2. b \in Blocks(hdr) /\ b \in Addr /\ b + HeaderSize = p /\ hdr[b].magic = "used"
  BY <1>1, LiveFacts
<1>3. c # Null /\ hdr[c].magic = "free" /\ size <= MergedSize(b) /\ hdr' = Occupy(m, b, size)
  <2>1. c # Null /\ ~IsUsed(hdr, c) /\ MergedSize(b) >= size /\ hdr' = Occupy(m, b, size)
    BY DEF KreallocGrow, CanGrow
  <2>2. hdr[c].magic = "free" /\ c \in Blocks(hdr)
    BY <2>1, <1>1, <1>2, BlockFacts DEF IsUsed
  <2>3. size \in Nat
    <3>1. \A s \in Sizes : s \in 0 .. Word - 1
      BY SizesAssumption
    <3> QED BY <3>1, HeapAssumption
  <2>4. hdr[b].size \in Nat /\ hdr[c].size \in Nat
    BY <1>1, <1>2, <2>2, BlockFacts
  <2>5. MergedSize(b) \in Int
    BY <2>4, HeapAssumption, SMT DEF MergedSize, Plus
  <2> QED BY <2>1, <2>2, <2>3, <2>5
<1>4. /\ WellLinked(m)
      /\ Blocks(m) = Blocks(hdr) \ {c}
      /\ c \in Blocks(hdr) /\ c # b
      /\ m[b].size = hdr[b].size + HeaderSize + hdr[c].size
      /\ \A a \in Addr \ {b, c} : m[a].size = hdr[a].size
      /\ \A a \in Addr : m[a].magic = hdr[a].magic
  BY <1>1, <1>2, <1>3, MergeNext
<1>5. size \in Nat /\ size <= m[b].size
  <2>1. \A s \in Sizes : s \in 0 .. Word - 1
    BY SizesAssumption
  <2>2. /\ hdr[b].size \in Nat /\ hdr[c].size \in Nat /\ b \in Nat
        /\ EndOf(hdr, c) <= HeapEnd /\ c = EndOf(hdr, b)
    BY <1>1, <1>2, <1>3, <1>4, BlockFacts, HeapFacts
  <2>3. hdr[b].size + HeaderSize + hdr[c].size < Word
    BY <2>2, HeapFacts, HeapAssumption, SMT DEF EndOf
  <2>4. MergedSize(b) = hdr[b].size + HeaderSize + hdr[c].size
    BY <2>2, <2>3, HeapAssumption, SMT DEF MergedSize, Plus
  <2> QED BY <2>1, <2>4, <1>3, <1>4, HeapAssumption
<1> QED BY <1>1, <1>2, <1>3, <1>4, <1>5

\* A block grows into the free one behind it.
LEMMA KreallocGrowInv ==
  ASSUME IInv, NEW p \in DOMAIN live, NEW size \in Sizes, KreallocGrow(p, size)
  PROVE  IInv'
<1> DEFINE b == p - HeaderSize
           c == hdr[b].next
           m == MergeBlocks(hdr, b, c)
           g == Occupy(m, b, size)
<1>1. WellLinked(hdr) /\ LiveInv
  BY DEF IInv
<1>2. b \in Blocks(hdr) /\ b \in Addr /\ b + HeaderSize = p /\ hdr[b].magic = "used"
  BY GrowFacts
<1>3. c # Null /\ hdr[c].magic = "free" /\ hdr' = g
  BY GrowFacts
<1>4. /\ WellLinked(m)
      /\ Blocks(m) = Blocks(hdr) \ {c}
      /\ c \in Blocks(hdr) /\ c # b
      /\ m[b].size = hdr[b].size + HeaderSize + hdr[c].size
      /\ \A a \in Addr \ {b, c} : m[a].size = hdr[a].size
      /\ \A a \in Addr : m[a].magic = hdr[a].magic
  BY <1>1, <1>2, <1>3, MergeNext
<1>5. size \in Nat /\ size <= m[b].size
  BY GrowFacts
<1> HIDE DEF m, g, c, b
<1>6. /\ WellLinked(g)
      /\ Blocks(m) \subseteq Blocks(g)
      /\ g[b].magic = "used"
      /\ size <= g[b].size
      /\ \A a \in Blocks(m) \ {b} : g[a].size = m[a].size
      /\ \A a \in Addr \ {b} : (g[a].magic = "used") <=> (m[a].magic = "used")
  <2>1. b \in Blocks(m)
    BY <1>2, <1>4
  <2> QED BY <2>1, <1>4, <1>5, Occupied DEF g
<1>7. LiveInv'
  <2>1. live' = Hold(p, size)
    BY DEF KreallocGrow
  <2>2. /\ DOMAIN live' = DOMAIN live
        /\ live'[p] = size
        /\ \A q \in DOMAIN live \ {p} : live'[q] = live[q]
        /\ live' = [q \in DOMAIN live' |-> live'[q]]
    BY <2>1 DEF Hold
  <2>3. DOMAIN live' \subseteq Pointers /\ live' \in [DOMAIN live' -> Requests]
    <3>1. size \in Requests
      BY DEF Requests
    <3> QED BY <1>1, <2>2, <3>1 DEF LiveInv
  <2>4. ASSUME NEW a \in Addr
        PROVE  (hdr'[a].magic = "used") <=> a + HeaderSize \in DOMAIN live'
    <3>1. CASE a = b
      BY <3>1, <1>2, <1>3, <1>6, <2>2
    <3>2. CASE a # b
      BY <3>2, <1>3, <1>4, <1>6, <2>2, <1>1 DEF LiveInv
    <3> QED BY <3>1, <3>2
  <2>5. ASSUME NEW q \in DOMAIN live'
        PROVE  live'[q] <= hdr'[q - HeaderSize].size
    <3>1. CASE q = p
      BY <3>1, <1>3, <1>6, <2>2 DEF b
    <3>2. CASE q # p
      <4> DEFINE a == q - HeaderSize
      <4>1. /\ a \in Blocks(hdr) /\ a \in Addr /\ hdr[a].magic = "used"
            /\ a + HeaderSize = q /\ live[q] <= hdr[a].size
        BY <1>1, <2>2, LiveFacts
      <4> HIDE DEF a
      <4>2. a # b /\ a # c
        BY <4>1, <3>2, <1>2, <1>3
      <4>3. g[a].size = hdr[a].size
        BY <4>1, <4>2, <1>4, <1>6
      <4> QED BY <4>1, <4>3, <3>2, <2>2, <1>3 DEF a
    <3> QED BY <3>1, <3>2
  <2> QED BY <2>3, <2>4, <2>5 DEF LiveInv
<1>8. ControlInv'
  <2>1. pc = "idle" /\ UNCHANGED <<pc, sz, align, best, current, moving>>
    BY DEF KreallocGrow
  <2> QED BY <2>1 DEF ControlInv, IInv
<1> QED BY <1>3, <1>6, <1>7, <1>8 DEF IInv

\* What a holder writes into its bytes is nobody's header.
LEMMA ClientWriteKeeps ==
  ASSUME IInv, NEW p \in DOMAIN live, ClientWrite(p)
  PROVE  /\ WellLinked(hdr')
         /\ Blocks(hdr') = Blocks(hdr)
         /\ \A a \in Blocks(hdr) : hdr'[a] = hdr[a]
         /\ \A a \in Addr : (hdr'[a].magic = "used") <=> (hdr[a].magic = "used")
<1> DEFINE b == p - HeaderSize
<1>1. WellLinked(hdr) /\ LiveInv
  BY DEF IInv
<1>2. /\ b \in Blocks(hdr) /\ b \in Addr /\ b + HeaderSize = p
      /\ p \in Nat /\ live[p] \in Nat /\ live[p] <= hdr[b].size
  BY <1>1, LiveFacts
<1>3. /\ b < p /\ p + live[p] \in Nat /\ p + live[p] <= EndOf(hdr, b)
  <2>1. hdr[b].size \in Nat /\ b \in Nat
    BY <1>1, <1>2, BlockFacts, HeapFacts
  <2> QED BY <1>2, <2>1, HeapAssumption, SMT DEF EndOf
<1>4. /\ \A a \in Addr : ~(p <= a /\ a < p + live[p]) => hdr'[a] = hdr[a]
      /\ \A a \in Addr : p <= a /\ a < p + live[p] => hdr'[a] = Junk
      /\ hdr' = [a \in Addr |-> hdr'[a]]
  BY DEF ClientWrite
<1>5. hdr' \in [Addr -> Header]
  <2>1. Junk \in Header
    BY HeapAssumption DEF Junk, Leftover, Header
  <2>2. \A a \in Addr : hdr'[a] \in Header
    BY <1>1, <1>4, <2>1 DEF WellLinked
  <2> QED BY <1>4, <2>2
<1> QED BY <1>1, <1>2, <1>3, <1>4, <1>5, Overwrite

LEMMA ClientWriteInv ==
  ASSUME IInv, NEW p \in DOMAIN live, ClientWrite(p)
  PROVE  IInv'
<1>1. WellLinked(hdr) /\ LiveInv
  BY DEF IInv
<1>6. /\ WellLinked(hdr')
      /\ Blocks(hdr') = Blocks(hdr)
      /\ \A a \in Blocks(hdr) : hdr'[a] = hdr[a]
      /\ \A a \in Addr : (hdr'[a].magic = "used") <=> (hdr[a].magic = "used")
  BY ClientWriteKeeps
<1>7. live' = live /\ pc = "idle" /\ UNCHANGED <<pc, sz, align, best, current, moving>>
  BY DEF ClientWrite
<1>8. LiveInv'
  <2>1. \A q \in DOMAIN live : q - HeaderSize \in Blocks(hdr)
    BY <1>1, LiveFacts
  <2> QED BY <1>1, <1>6, <1>7, <2>1 DEF LiveInv
<1>9. ControlInv'
  BY <1>7 DEF ControlInv, IInv
<1> QED BY <1>6, <1>8, <1>9 DEF IInv

\* A step that writes no header and moves no loop keeps the invariant.
LEMMA SameInv ==
  ASSUME IInv, UNCHANGED vars
  PROVE  IInv'
<1>1. /\ hdr' = hdr /\ live' = live /\ pc' = pc /\ sz' = sz /\ align' = align
      /\ best' = best /\ current' = current /\ moving' = moving
  BY DEF vars
<1> QED BY <1>1 DEF IInv, LiveInv, ControlInv

\* The model goes no further once a link is stale.
LEMMA TangledStays ==
  ASSUME ~Untangled, [Next]_vars
  PROVE  UNCHANGED vars
BY DEF Next, Allocate, Kmalloc, KmallocA, Release, FreeInvalid, FreeUnused, Free, Reallocate,
   KreallocInvalid, KreallocFits, KreallocMove, KreallocGrow, Use, ClientWrite, Running,
   SkipUsed, NoUnusedBlocks, FoundUnused, Scan, OutOfSpace, Take, OutOfSpaceAligned,
   AlignFirstBlock, AlignSmears, AlignEscapes, TakeAligned, SearchDone, ReleaseOld,
   MergeForward, EndForward, MergeBackward, EndBackward, Halted, Untangled

\* Only a page-aligned request leaves a stale link.
LEMMA OnlyAlignedTangle ==
  ASSUME Untangled, ~Untangled', [Next]_vars
  PROVE  TakeAligned
<1>1. CASE Allocate \/ Release \/ Reallocate
  BY <1>1
     DEF Allocate, Kmalloc, KmallocA, Release, FreeInvalid, FreeUnused, Free, MarkFree, Reallocate,
         KreallocInvalid, KreallocFits, KreallocMove, KreallocGrow, StartSearch, Stop, Finish,
         Untangled, vars
<1>2. CASE Running
  BY <1>2
     DEF Running, SkipUsed, NoUnusedBlocks, FoundUnused, Scan, OutOfSpace, Take, Deliver,
         OutOfSpaceAligned, AlignFirstBlock, AlignSmears, AlignEscapes, ReleaseOld, MarkFree,
         MergeForward, EndForward, MergeBackward, EndBackward, Stop, Finish, Untangled
<1>3. CASE Use \/ Halted \/ UNCHANGED vars
  BY <1>3 DEF Use, ClientWrite, Halted, vars, Untangled
<1> QED BY <1>1, <1>2, <1>3 DEF Next

\* The invariant is inductive.
LEMMA NextInv ==
  ASSUME IInv, [Next]_vars, Untangled'
  PROVE  IInv'
<1>1. CASE Allocate
  <2>1. ASSUME NEW size \in Sizes, Kmalloc(size) PROVE IInv'
    <3>1. size \in Requests
      BY DEF Requests
    <3> QED BY <2>1, <3>1, SearchInv DEF Kmalloc
  <2>2. ASSUME NEW size \in AlignedSizes, KmallocA(size) PROVE IInv'
    <3>1. size \in Requests
      BY DEF Requests
    <3> QED BY <2>2, <3>1, SearchInv DEF KmallocA
  <2> QED BY <1>1, <2>1, <2>2 DEF Allocate
<1>2. CASE Release
  <2>1. PICK p \in Pointers : FreeInvalid(p) \/ FreeUnused(p) \/ Free(p)
    BY <1>2 DEF Release
  <2>2. p \in Nat /\ p - HeaderSize \in Addr
    BY HeapAssumption, SMT DEF Pointers, Addr, HeapEnd
  <2>3. CASE FreeInvalid(p)
    BY <2>3, StopInv DEF FreeInvalid, Stopped
  <2>4. CASE FreeUnused(p)
    BY <2>4, SameInv DEF FreeUnused
  <2>5. CASE Free(p)
    BY <2>5, <2>2, MarkFreeInv DEF Free
  <2> QED BY <2>1, <2>3, <2>4, <2>5
<1>3. CASE Reallocate
  <2>1. ASSUME NEW p \in Pointers, KreallocInvalid(p)
        PROVE  IInv'
    BY <2>1, StopInv DEF KreallocInvalid, Stopped
  <2>2. ASSUME NEW p \in DOMAIN live, NEW size \in Sizes,
               KreallocFits(p, size) \/ KreallocMove(p, size) \/ KreallocGrow(p, size)
        PROVE  IInv'
    BY <2>2, KreallocFitsInv, KreallocMoveInv, KreallocGrowInv
  <2> QED BY <1>3, <2>1, <2>2 DEF Reallocate
<1>4. CASE Use
  BY <1>4, ClientWriteInv DEF Use
<1>5. CASE Running
  <2>1. CASE SkipUsed
    BY <2>1, SkipUsedInv
  <2>2. CASE NoUnusedBlocks
    BY <2>2, StopInv DEF NoUnusedBlocks, Stopped
  <2>3. CASE FoundUnused
    BY <2>3, FoundUnusedInv
  <2>4. CASE Scan
    BY <2>4, ScanInv
  <2>5. CASE OutOfSpace
    BY <2>5, StopInv DEF OutOfSpace, Stopped
  <2>6. CASE Take
    BY <2>6, TakeInv
  <2>7. CASE OutOfSpaceAligned \/ AlignFirstBlock \/ AlignSmears \/ AlignEscapes
    BY <2>7, StopInv DEF OutOfSpaceAligned, AlignFirstBlock, AlignSmears, AlignEscapes, Stopped
  <2>13. CASE TakeAligned
    <3>1. LinkRenewed
      BY <2>13 DEF TakeAligned, Finish, Untangled
    <3> QED BY <2>13, <3>1, TakeAlignedInv
  <2>8. CASE ReleaseOld
    <3>1. moving \in DOMAIN live
      BY <2>8 DEF ReleaseOld, IInv, ControlInv
    <3>2. moving - HeaderSize \in Addr /\ moving \in Nat
      BY <3>1, LiveFacts DEF IInv
    <3> QED BY <2>8, <3>2, MarkFreeInv DEF ReleaseOld
  <2>9. CASE MergeForward
    BY <2>9, MergeForwardInv
  <2>10. CASE EndForward
    BY <2>10, EndForwardInv
  <2>11. CASE MergeBackward
    BY <2>11, MergeBackwardInv
  <2>12. CASE EndBackward
    BY <2>12, EndBackwardInv
  <2> QED BY <1>5, <2>1, <2>2, <2>3, <2>4, <2>5, <2>6, <2>7, <2>8, <2>9, <2>10, <2>11,
             <2>12, <2>13 DEF Running
<1>6. CASE Halted
  BY <1>6, SameInv DEF Halted
<1>7. CASE UNCHANGED vars
  BY <1>7, SameInv
<1> QED BY <1>1, <1>2, <1>3, <1>4, <1>5, <1>6, <1>7 DEF Next

\* The block list is well linked and the used bits are the callers' pointers, up
\* to the first stale link.
THEOREM Invariance == Spec => [](Untangled => IInv)
<1>1. Init => IInv
  BY InitInv
<1>2. (Untangled => IInv) /\ [Next]_vars => (Untangled' => IInv')
  <2>1. ASSUME ~Untangled, [Next]_vars PROVE ~Untangled'
    BY <2>1, TangledStays DEF vars, Untangled
  <2>2. ASSUME IInv, [Next]_vars, Untangled' PROVE IInv'
    BY <2>2, NextInv
  <2> QED BY <2>1, <2>2
<1> QED BY <1>1, <1>2, PTL DEF Spec

\* With no page-aligned requests nothing is left out: none of the properties
\* below is about a part of the behaviours only.
THEOREM PlainHeapUntangled ==
  ASSUME AlignedSizes = {}
  PROVE  Spec => []Untangled
<1> DEFINE Plain == ~align /\ Untangled
<1>1. Init => Plain
  BY DEF Init, Untangled
<1>2. ASSUME Plain, [Next]_vars PROVE Plain'
  <2>1. CASE Allocate
    BY <1>2, <2>1 DEF Allocate, Kmalloc, StartSearch, Untangled
  <2>2. CASE Release
    BY <1>2, <2>2 DEF Release, FreeInvalid, FreeUnused, Free, MarkFree, Stop, Finish, Untangled, vars
  <2>3. CASE Reallocate
    BY <1>2, <2>3
       DEF Reallocate, KreallocInvalid, KreallocFits, KreallocMove, KreallocGrow, StartSearch,
           Stop, Finish, Untangled
  <2>4. CASE Use
    BY <1>2, <2>4 DEF Use, ClientWrite, Untangled
  <2>5. CASE Running
    <3>1. ~align
      BY <1>2
    <3>2. CASE SkipUsed \/ NoUnusedBlocks \/ FoundUnused \/ Scan \/ OutOfSpace \/ Take
      BY <1>2, <3>2
         DEF SkipUsed, NoUnusedBlocks, FoundUnused, Scan, OutOfSpace, Take, Deliver, Stop,
             Finish, Untangled
    <3>3. CASE ReleaseOld \/ MergeForward \/ EndForward \/ MergeBackward \/ EndBackward
      BY <1>2, <3>3
         DEF ReleaseOld, MarkFree, MergeForward, EndForward, MergeBackward, EndBackward, Stop,
             Finish, Untangled
    <3> QED BY <2>5, <3>1, <3>2, <3>3
            DEF Running, OutOfSpaceAligned, AlignFirstBlock, AlignSmears, AlignEscapes, TakeAligned
  <2>6. CASE Halted \/ UNCHANGED vars
    BY <1>2, <2>6 DEF Halted, vars, Untangled
  <2> QED BY <1>2, <2>1, <2>2, <2>3, <2>4, <2>5, <2>6 DEF Next
<1>3. Plain => Untangled
  OBVIOUS
<1> HIDE DEF Plain
<1> QED BY <1>1, <1>2, <1>3, PTL DEF Spec

----------------------------------------------------------------------------
(* What the invariant gives *)

\* Splitting a block writes headers only, wherever its end comes to lie.
LEMMA SplitTypes ==
  ASSUME NEW h \in [Addr -> Header], NEW b \in Addr, NEW size \in 0 .. Word - 1,
         SplitWorthwhile(h[b].size, size) => b + size + HeaderSize \in Addr
  PROVE  Occupy(h, b, size) \in [Addr -> Header]
<1>1. \A header \in Header :
        /\ \A m \in {"free", "used", "junk"} : [header EXCEPT !.magic = m] \in Header
        /\ \A x \in Addr : [header EXCEPT !.previous = x] \in Header
  BY DEF Header
<1>2. CASE ~SplitWorthwhile(h[b].size, size)
  BY <1>1, <1>2 DEF Occupy
<1>3. CASE SplitWorthwhile(h[b].size, size)
  <2>1. PICK new \in Addr : new = b + size + HeaderSize
    BY <1>3
  <2>2. PICK rest : rest = Minus(h[b].size, size + HeaderSize) /\ rest \in 0 .. Word - 1
    <3>1. h[b].size \in 0 .. Word - 1
      BY DEF Header
    <3>2. size + HeaderSize \in 0 .. Word - 1
      <4>1. new < HeapEnd /\ b \in Nat
        BY <2>1, HeapAssumption, SMT DEF Addr, HeapEnd
      <4> QED BY <2>1, <4>1, HeapFacts, HeapAssumption, SMT
    <3>3. PICK taken : taken = size + HeaderSize
      OBVIOUS
    <3>4. Minus(h[b].size, taken) \in 0 .. Word - 1
      BY <3>1, <3>2, <3>3, HeapAssumption, SMT DEF Minus
    <3> QED BY <3>3, <3>4
  <2>3. PICK header : header = [magic |-> "free", size |-> rest, next |-> h[b].next, previous |-> b]
    OBVIOUS
  <2>4. header \in Header /\ Junk \in Header
    BY <2>2, <2>3, HeapAssumption, SMT DEF Header, Junk, Leftover
  <2>5. [magic |-> "used", size |-> size, next |-> new, previous |-> h[b].previous] \in Header
    BY <2>1 DEF Header
  <2>6. PICK linked : linked = [a \in Addr |->
           IF a = b THEN [magic |-> "used", size |-> size, next |-> new, previous |-> h[a].previous]
           ELSE IF a = h[b].next THEN [h[a] EXCEPT !.previous = new]
           ELSE h[a]]
    OBVIOUS
  <2>7. linked \in [Addr -> Header]
    BY <1>1, <2>1, <2>5, <2>6
  <2>8. StoreHeader(linked, new, header) \in [Addr -> Header]
    BY <2>4, <2>7 DEF StoreHeader
  <2>9. CreateNewBlockHeader(h, b, size) = StoreHeader(linked, new, header)
    BY <2>1, <2>2, <2>3, <2>6 DEF CreateNewBlockHeader
  <2> QED BY <1>3, <2>8, <2>9 DEF Occupy
<1> QED BY <1>2, <1>3

\* A page-aligned request writes headers only, even if it finds no room.
LEMMA AlignedTypes ==
  ASSUME IInv, TakeAligned
  PROVE  /\ hdr' \in [Addr -> Header]
         /\ HeaderPos + HeaderSize \in Pointers
         /\ sz \in Requests
         /\ MemAddress \in Nat /\ HeaderPos = best + Distance
<1>1. /\ WellLinked(hdr) /\ best \in Blocks(hdr) /\ sz \in Requests /\ sz \in Nat /\ sz < Word
  BY RequestSizes DEF IInv, ControlInv, TakeAligned, SearchDone
<1>2. /\ best \in Addr /\ hdr \in [Addr -> Header] /\ hdr[best] \in Header
      /\ hdr[best].size \in Nat /\ hdr[best].size < Word
  BY <1>1, BlockFacts DEF WellLinked
<1>3. hdr[best].previous \in Addr
  BY <1>2 DEF TakeAligned, Header
<1>4. PICK d : d = Distance
  OBVIOUS
<1>5. /\ MemAddress \in Nat
      /\ d \in Nat /\ d <= Page /\ HeaderSize <= d
  <2>1. MemAddress \in Nat
    BY <1>2, HeapFacts, HeapAssumption, SMT DEF MemAddress
  <2>2. MemAddress % Page \in Nat /\ MemAddress % Page < Page
    BY <2>1, PageAssumption, SMT
  <2>3. HeaderSize <= d
    BY <1>4 DEF TakeAligned
  <2> QED BY <1>4, <2>1, <2>2, <2>3, PageAssumption, SMT DEF Distance
<1>6. PICK new : new = HeaderPos
  OBVIOUS
<1>7. /\ new = best + d /\ new \in Addr /\ new + HeaderSize <= HeapEnd
      /\ SplitWorthwhile(RoomLeft, sz) => new + sz + 2 * HeaderSize <= HeapEnd
  <2>1. new = best + d
    BY <1>4, <1>6 DEF HeaderPos
  <2>2. new \in Nat /\ HeapStart <= new
    BY <1>2, <1>5, <2>1, HeapAssumption, SMT DEF Addr, HeapEnd
  <2>3. /\ ~(new + HeaderSize > HeapEnd)
        /\ SplitWorthwhile(RoomLeft, sz) => ~(new + sz + 2 * HeaderSize > HeapEnd)
    BY <1>6 DEF TakeAligned, Escapes
  <2> QED BY <1>1, <2>1, <2>2, <2>3, HeapFacts, HeapAssumption, SMT DEF Addr
<1>8. new + HeaderSize \in Pointers
  <2>1. (new + HeaderSize) - HeaderSize = new
    BY <1>7, HeapFacts, HeapAssumption, SMT
  <2>2. new + HeaderSize \in Addr \/ new + HeaderSize = HeapEnd
    BY <1>7, HeapFacts, HeapAssumption, SMT DEF Addr
  <2> QED BY <1>7, <2>1, <2>2 DEF Pointers
<1>9. PICK room : room = RoomLeft /\ room \in 0 .. Word - 1
  <2>1. d < Word
    BY <1>5, PageAssumption, HeapAssumption, SMT
  <2>2. Minus(hdr[best].size, d) \in 0 .. Word - 1
    BY <1>2, <1>5, <2>1, HeapAssumption, SMT DEF Minus
  <2> QED BY <1>4, <2>2 DEF RoomLeft
<1>10. PICK p : p = hdr[best].previous
  OBVIOUS
<1>11. PICK shrunk : shrunk = [hdr EXCEPT ![best].size = room, ![p].next = new,
                                          ![p].size = Plus(@, d)]
  OBVIOUS
<1>12. p # best
  <2>1. Linked(hdr, best) /\ best # HeapStart
    BY <1>1, <1>3, HeapFacts DEF WellLinked
  <2>2. hdr[p].next = best
    BY <1>10, <2>1 DEF Linked
  <2>3. p \in Blocks(hdr)
    BY <1>10, <2>1 DEF Linked
  <2>4. hdr[p].next # Null
    BY <1>2, <2>2, HeapFacts
  <2>5. p < best /\ p \in Nat
    BY <1>1, <2>2, <2>3, <2>4, BlockFacts, HeapFacts
  <2> QED BY <2>5
<1>13. shrunk \in [Addr -> Header] /\ shrunk[best].size = room
  <2>1. PICK size : size = Plus(hdr[p].size, d) /\ size \in 0 .. Word - 1
    <3>1. d < Word
      BY <1>5, PageAssumption, HeapAssumption, SMT
    <3>2. hdr[p].size \in 0 .. Word - 1
      BY <1>2, <1>3, <1>10 DEF Header
    <3>3. Plus(hdr[p].size, d) \in 0 .. Word - 1
      BY <1>5, <3>1, <3>2, HeapAssumption, SMT DEF Plus
    <3> QED BY <3>3
  <2>2. p \in Addr /\ hdr[p] \in Header /\ hdr[best] \in Header
    BY <1>2, <1>3, <1>10
  <2>3. /\ shrunk[best] = [hdr[best] EXCEPT !.size = room]
        /\ shrunk[p] = [hdr[p] EXCEPT !.next = new, !.size = size]
        /\ \A a \in Addr \ {best, p} : shrunk[a] = hdr[a]
        /\ shrunk = [a \in Addr |-> shrunk[a]]
    <3>1. [hdr[p] EXCEPT !.next = new].size = hdr[p].size
      BY <2>2 DEF Header
    <3> QED BY <1>2, <1>11, <1>12, <2>1, <2>2, <3>1
  <2>4. shrunk[best] \in Header /\ shrunk[best].size = room
    BY <1>9, <2>2, <2>3 DEF Header
  <2>5. shrunk[p] \in Header
    BY <1>7, <2>1, <2>2, <2>3 DEF Header
  <2>6. \A a \in Addr : shrunk[a] \in Header
    BY <1>2, <2>3, <2>4, <2>5
  <2> QED BY <2>3, <2>4, <2>6
<1>14. PICK moved : moved = StoreHeader(shrunk, new, shrunk[best])
  OBVIOUS
<1>15. moved \in [Addr -> Header] /\ moved[new].size = room
  BY <1>2, <1>7, <1>12, <1>13, <1>14, HeapAssumption, SMT DEF StoreHeader, Header, Junk, Leftover
<1>16. PICK g : g = MakeAlignedBlock
  OBVIOUS
<1>17. g = (IF LinkRenewed THEN [moved EXCEPT ![best] = Leftover(@.magic)] ELSE moved)
  <2> DEFINE changed == [hdr EXCEPT ![best].size = RoomLeft,
                                    ![hdr[best].previous].next = HeaderPos,
                                    ![hdr[best].previous].size = Plus(@, Distance)]
             put == StoreHeader(changed, HeaderPos, changed[best])
  <2>1. shrunk = changed
    BY <1>4, <1>6, <1>9, <1>10, <1>11
  <2>2. MakeAlignedBlock = (IF LinkRenewed THEN [put EXCEPT ![best] = Leftover(@.magic)] ELSE put)
    BY DEF MakeAlignedBlock
  <2> HIDE DEF changed
  <2>3. moved = put
    BY <1>6, <1>14, <2>1
  <2> HIDE DEF put
  <2> QED BY <1>16, <2>2, <2>3
<1>18. g \in [Addr -> Header] /\ g[new].size = room
  <2>1. \A h \in Header : Leftover(h.magic) \in Header
    BY HeapAssumption, SMT DEF Leftover, Header
  <2>2. best # new /\ best \in Addr
    BY <1>2, <1>5, <1>7, HeapFacts, HeapAssumption, SMT
  <2> QED BY <1>15, <1>17, <2>1, <2>2
<1>19. Occupy(g, new, sz) \in [Addr -> Header]
  <2>1. SplitWorthwhile(g[new].size, sz) => new + sz + HeaderSize \in Addr
    BY <1>1, <1>7, <1>9, <1>18, HeapFacts, HeapAssumption, SMT DEF Addr
  <2>2. sz \in 0 .. Word - 1
    BY <1>1, HeapAssumption, SMT
  <2> QED BY <1>7, <1>18, <2>1, <2>2, SplitTypes
<1>20. hdr' = Occupy(g, new, sz)
  BY <1>6, <1>16 DEF TakeAligned
<1> QED BY <1>1, <1>4, <1>5, <1>6, <1>7, <1>8, <1>19, <1>20

\* Every variable keeps to the values the words of the heap can hold.
THEOREM TypeCorrect == Spec => []TypeOK
<1>1. IInv => TypeOK
  <2> SUFFICES ASSUME IInv PROVE TypeOK
    OBVIOUS
  <2>1. moving # Null => moving \in Pointers
    BY DEF IInv, ControlInv, LiveInv
  <2>2. \A p \in DOMAIN live : live[p] \in Requests
    BY DEF IInv, LiveInv
  <2>3. hdr \in [Addr -> Header] /\ DOMAIN live \subseteq Pointers
    BY DEF IInv, WellLinked, LiveInv
  <2> QED BY <2>1, <2>2, <2>3 DEF TypeOK, IInv, ControlInv, Requests
<1>2. ASSUME IInv, TakeAligned PROVE TypeOK'
  <2>1. PICK p : p = HeaderPos + HeaderSize
    OBVIOUS
  <2>2. /\ hdr' \in [Addr -> Header] /\ live' = Hold(p, sz) /\ p \in Pointers /\ sz \in Requests
        /\ DOMAIN live \subseteq Pointers /\ live \in [DOMAIN live -> Requests]
    BY <1>2, <2>1, AlignedTypes DEF TakeAligned, IInv, LiveInv
  <2>3. DOMAIN live' \subseteq Pointers /\ \A q \in DOMAIN live' : live'[q] \in Requests
    BY <2>2 DEF Hold
  <2>4. /\ pc' \in {"idle"} \cup Stopped /\ sz' = 0 /\ align' = FALSE
        /\ best' = Null /\ current' = Null /\ moving' = Null
    BY <1>2 DEF TakeAligned, Finish, Stopped
  <2> QED BY <2>2, <2>3, <2>4 DEF TypeOK, Requests
<1>3. ASSUME TypeOK, UNCHANGED vars PROVE TypeOK'
  BY <1>3 DEF TypeOK, vars
<1>4. TypeOK /\ (Untangled => IInv) /\ (Untangled' => IInv') /\ [Next]_vars => TypeOK'
  <2> SUFFICES ASSUME TypeOK, Untangled => IInv, Untangled' => IInv', [Next]_vars
               PROVE  TypeOK'
    OBVIOUS
  <2>1. CASE ~Untangled
    BY <1>3, <2>1, TangledStays
  <2>2. ASSUME Untangled' PROVE TypeOK'
    <3>1. IInv'
      BY <2>2
    <3> QED BY <1>1, <3>1, PTL
  <2>3. ASSUME Untangled, ~Untangled' PROVE TypeOK'
    <3>1. TakeAligned
      BY <2>3, OnlyAlignedTangle
    <3> QED BY <1>2, <2>3, <3>1
  <2> QED BY <2>1, <2>2, <2>3
<1>5. Init => TypeOK
  BY <1>1, InitInv
<1> QED BY <1>4, <1>5, Invariance, PTL DEF Spec

\* The used bit and the callers' pointers agree at every address, so neither a
\* swallowed header nor one copied by krealloc can ever be freed, as long as no
\* page-aligned request leaves a stale link.
THEOREM UsedIsHeld == Spec => [](Untangled => UsedIffLive)
<1>1. IInv => UsedIffLive
  BY DEF IInv, LiveInv, UsedIffLive, IsUsed
<1> QED BY <1>1, Invariance, PTL

LEMMA DisjointInv == IInv => LiveDisjoint
<1> SUFFICES ASSUME IInv, NEW p \in DOMAIN live
             PROVE  /\ p + live[p] <= HeapEnd
                    /\ live[p] <= hdr[p - HeaderSize].size
                    /\ \A q \in DOMAIN live : p < q => p + live[p] <= q - HeaderSize
  BY DEF LiveDisjoint
<1> DEFINE b == p - HeaderSize
<1>1. WellLinked(hdr) /\ LiveInv
  BY DEF IInv
<1>2. /\ b \in Blocks(hdr) /\ b \in Nat /\ b + HeaderSize = p /\ p \in Nat
      /\ live[p] \in Nat /\ live[p] <= hdr[b].size
  BY <1>1, LiveFacts, HeapFacts
<1>3. hdr[b].size \in Nat /\ EndOf(hdr, b) <= HeapEnd /\ EndOf(hdr, b) \in Nat
  BY <1>1, <1>2, BlockFacts
<1>4. p + live[p] <= EndOf(hdr, b)
  BY <1>2, <1>3, HeapAssumption, SMT DEF EndOf
<1>5. p + live[p] <= HeapEnd
  BY <1>2, <1>3, <1>4, HeapFacts
<1>6. ASSUME NEW q \in DOMAIN live, p < q
      PROVE  p + live[p] <= q - HeaderSize
  <2> DEFINE c == q - HeaderSize
  <2>1. c \in Blocks(hdr) /\ c \in Nat /\ c + HeaderSize = q
    BY <1>1, LiveFacts, HeapFacts
  <2>2. b < c
    BY <1>2, <1>6, <2>1, HeapAssumption, SMT
  <2>3. EndOf(hdr, b) <= c
    BY <1>1, <1>2, <2>1, <2>2 DEF WellLinked
  <2> QED BY <1>2, <1>3, <1>4, <2>1, <2>3
<1> QED BY <1>2, <1>5, <1>6

\* No two live regions overlap, whatever the callers ask for, give back and
\* write, as long as no page-aligned request leaves a stale link.
THEOREM LiveRegionsApart == Spec => [](Untangled => LiveDisjoint)
BY DisjointInv, Invariance, PTL

\* The sanity checks of free() never stop the machine.
THEOREM FreeNeverAsserts == Spec => []FreeAssertsHold
<1>1. (Untangled => IInv) => FreeAssertsHold
  <2> SUFFICES ASSUME Untangled => IInv PROVE FreeAssertsHold
    OBVIOUS
  <2>1. ASSUME pc = "forward" PROVE ~Invalid(NextHeader)
    <3>1. WellLinked(hdr) /\ current \in Blocks(hdr)
      BY <2>1 DEF IInv, ControlInv, Untangled
    <3> QED BY <3>1, BlockFacts DEF Invalid, IsValid, NextHeader
  <2>2. ASSUME pc = "backward", PreviousHeader # Null
        PROVE  IsValid(hdr, PreviousHeader) /\ hdr[PreviousHeader].next = current
    <3>1. WellLinked(hdr) /\ current \in Blocks(hdr)
      BY <2>2 DEF IInv, ControlInv, Untangled
    <3>2. PreviousHeader \in Blocks(hdr) /\ hdr[PreviousHeader].next = current
      BY <2>2, <3>1 DEF WellLinked, Linked, PreviousHeader
    <3> QED BY <3>1, <3>2, BlockFacts DEF IsValid
  <2> QED BY <2>1, <2>2 DEF FreeAssertsHold
<1> QED BY <1>1, Invariance, PTL

\* Behind every live block comes the end of the heap or the block that links
\* back to it, as long as no page-aligned request leaves a stale link.
THEOREM LinksAgree == Spec => [](Untangled => LiveLinksAgree)
<1>1. IInv => LiveLinksAgree
  <2> SUFFICES ASSUME IInv, NEW p \in DOMAIN live
               PROVE  LET b == p - HeaderSize
                      IN /\ hdr[b].next # Null => hdr[hdr[b].next].previous = b
                         /\ p + hdr[b].size = IF hdr[b].next = Null THEN HeapEnd
                                              ELSE hdr[b].next
    BY DEF LiveLinksAgree
  <2> DEFINE b == p - HeaderSize
  <2>1. WellLinked(hdr) /\ b \in Blocks(hdr) /\ b + HeaderSize = p
    BY LiveFacts DEF IInv
  <2>2. Linked(hdr, b) /\ p + hdr[b].size = EndOf(hdr, b)
    BY <2>1 DEF WellLinked, EndOf
  <2> QED BY <2>2 DEF Linked
<1> QED BY <1>1, Invariance, PTL

----------------------------------------------------------------------------
(* The contract *)

\* Once a region is live, LiveDisjoint says that it was vacant before.
LEMMA HandsOutVacant ==
  ASSUME LiveInv', LiveDisjoint', NEW p \in Pointers, NEW size \in Requests,
         live' = Hold(p, size)
  PROVE  Contract!Hand(p, size)
<1>1. /\ DOMAIN live' = DOMAIN live \cup {p}
      /\ live'[p] = size
      /\ \A q \in DOMAIN live \ {p} : live'[q] = live[q]
  BY DEF Hold
<1>2. p \in Nat /\ HeapStart <= p - HeaderSize
  BY HeapAssumption, SMT DEF Pointers, Addr, HeapEnd
<1>3. p + size <= HeapEnd
  BY <1>1 DEF LiveDisjoint
<1>4. ASSUME NEW q \in DOMAIN live \ {p}
      PROVE  p + size <= q - HeaderSize \/ q + live[q] <= p - HeaderSize
  <2>1. q \in DOMAIN live' /\ p \in DOMAIN live' /\ live'[q] = live[q]
    BY <1>1
  <2>2. q \in Nat
    <3>1. q \in Pointers
      BY <2>1 DEF LiveInv
    <3> QED BY <3>1, HeapAssumption, SMT DEF Pointers, Addr, HeapEnd
  <2>3. CASE p < q
    BY <2>1, <2>3, <1>1 DEF LiveDisjoint
  <2>4. CASE q < p
    BY <2>1, <2>4, <1>1 DEF LiveDisjoint
  <2> QED BY <2>2, <2>3, <2>4, <1>2, SMT
<1>5. Contract!Vacant(p, size, DOMAIN live \ {p})
  BY <1>2, <1>3, <1>4
     DEF Contract!Vacant, Contract!InHeap, Contract!Before, Contract!HeapEnd, HeapEnd
<1> QED BY <1>5 DEF Contract!Hand, Hold

LEMMA PointerInContract == Pointers \subseteq HeapStart .. Contract!HeapEnd
BY HeapAssumption, SMT DEF Pointers, Addr, HeapEnd, Contract!HeapEnd

\* Every step of the heap is a step of the contract or leaves it alone.
LEMMA StepRefines ==
  ASSUME IInv, IInv', Untangled', [Next]_vars
  PROVE  [Contract!Next]_live
<1>1. LiveInv' /\ LiveDisjoint' /\ LiveInv /\ WellLinked(hdr)
  BY DisjointInv, PTL DEF IInv
<1>2. ASSUME NEW p \in DOMAIN live, MarkFree(p) PROVE Contract!Next
  <2>1. Contract!Free(p)
    BY <1>2 DEF MarkFree, Contract!Free
  <2>2. p \in Pointers
    BY <1>1 DEF LiveInv
  <2> QED BY <2>1, <2>2, PointerInContract DEF Contract!Next
<1>3. ASSUME NEW p \in DOMAIN live, NEW size \in Sizes, live' = Hold(p, size)
      PROVE  Contract!Next
  <2>1. p \in Pointers /\ size \in Requests
    BY <1>1 DEF LiveInv, Requests
  <2>2. Contract!Resize(p, size)
    BY <1>1, <1>3, <2>1, HandsOutVacant DEF Contract!Resize
  <2> QED BY <2>1, <2>2, PointerInContract DEF Contract!Next, Requests
<1>4. CASE Take
  <2> DEFINE p == best + HeaderSize
  <2>1. live' = Hold(p, sz)
    BY <1>4 DEF Take, Deliver
  <2>2. best \in Blocks(hdr) /\ hdr[best].magic = "free" /\ sz \in Requests
    BY <1>4 DEF Take, SearchDone, IInv, ControlInv
  <2>3. best \in Addr /\ p \in Pointers
    BY <1>1, <2>2, BlockFacts, BlockPointer
  <2>4. p \notin DOMAIN live
    BY <1>1, <2>2, <2>3 DEF LiveInv
  <2>5. Contract!Malloc(p, sz)
    BY <1>1, <2>1, <2>2, <2>3, <2>4, HandsOutVacant DEF Contract!Malloc
  <2> QED BY <2>2, <2>3, <2>5, PointerInContract DEF Contract!Next, Requests
<1>12. CASE TakeAligned
  <2> DEFINE p == HeaderPos + HeaderSize
  <2>4. LinkRenewed
    BY <1>12 DEF TakeAligned, Finish, Untangled
  <2>1. live' = Hold(p, sz) /\ sz \in Requests
    BY <1>12, AlignedTypes DEF TakeAligned
  <2>2. p \in Pointers /\ p \notin DOMAIN live
    BY <1>12, <2>4, AlignedVacant
  <2>3. Contract!Malloc(p, sz)
    BY <1>1, <2>1, <2>2, HandsOutVacant DEF Contract!Malloc
  <2> QED BY <2>1, <2>2, <2>3, PointerInContract DEF Contract!Next, Requests
<1>5. CASE ReleaseOld
  BY <1>2, <1>5 DEF ReleaseOld, IInv, ControlInv
<1>6. CASE Release
  <2>1. PICK p \in Pointers : FreeInvalid(p) \/ FreeUnused(p) \/ Free(p)
    BY <1>6 DEF Release
  <2>2. CASE Free(p)
    <3>1. (p - HeaderSize) + HeaderSize = p /\ p - HeaderSize \in Addr
      BY HeapAssumption, SMT DEF Pointers, Addr, HeapEnd
    <3>2. p \in DOMAIN live
      BY <2>2, <3>1, <1>1 DEF Free, MarkFree, IsUsed, LiveInv
    <3> QED BY <2>2, <3>2, <1>2 DEF Free
  <2>3. CASE FreeInvalid(p) \/ FreeUnused(p)
    BY <2>3 DEF FreeInvalid, FreeUnused, Stop, vars
  <2> QED BY <2>1, <2>2, <2>3
<1>7. CASE Reallocate
  <2>1. ASSUME NEW p \in Pointers, KreallocInvalid(p)
        PROVE  UNCHANGED live
    BY <2>1 DEF KreallocInvalid, Stop
  <2>2. ASSUME NEW p \in DOMAIN live, NEW size \in Sizes,
               KreallocFits(p, size) \/ KreallocMove(p, size) \/ KreallocGrow(p, size)
        PROVE  Contract!Next \/ UNCHANGED live
    BY <2>2, <1>3 DEF KreallocFits, KreallocMove, KreallocGrow, StartSearch
  <2> QED BY <1>7, <2>1, <2>2 DEF Reallocate
<1>8. CASE Allocate
  BY <1>8 DEF Allocate, Kmalloc, KmallocA, StartSearch
<1>9. CASE Use
  BY <1>9 DEF Use, ClientWrite
<1>10. ASSUME Running, ~Take, ~TakeAligned, ~ReleaseOld PROVE UNCHANGED live
  BY <1>10
     DEF Running, SkipUsed, NoUnusedBlocks, FoundUnused, Scan, OutOfSpace, OutOfSpaceAligned,
         AlignFirstBlock, AlignSmears, AlignEscapes, MergeForward, EndForward, MergeBackward,
         EndBackward, Stop
<1>11. CASE Halted \/ UNCHANGED vars
  BY <1>11 DEF Halted, vars
<1> QED BY <1>4, <1>5, <1>6, <1>7, <1>8, <1>9, <1>10, <1>11, <1>12 DEF Next

\* The heap implements what callers may rely on, whatever the size of the
\* heap and whatever is asked of it, as long as no page-aligned request leaves
\* a stale link; none does if there are none (PlainHeapUntangled).
THEOREM HeapKeepsContract == Spec /\ []Untangled => ImplementsContract
<1>1. Init => Contract!Init
  BY DEF Init, Contract!Init
<1>2. IInv /\ IInv' /\ Untangled' /\ [Next]_vars => [Contract!Next]_live
  BY StepRefines
<1> QED BY <1>1, <1>2, Invariance, PTL DEF Spec, ImplementsContract, Contract!Spec

----------------------------------------------------------------------------
(* The search and the merges *)

\* The blocks that get_suitable_block has seen.
Seen == {b \in Blocks(hdr) : current = Null \/ b < current}

\* best is the best of those; the first loop leaves the second one's pointer at
\* the first block.
SearchSeen ==
  /\ pc = "skip" => current = HeapStart
  /\ pc = "scan" /\ ~align =>
       \A b \in Seen : hdr[b].magic = "free" /\ hdr[b].size >= sz =>
         sz <= hdr[best].size /\ hdr[best].size <= hdr[b].size

\* Two free blocks of h, the second behind the first.
FreePair(h, b, c) ==
  /\ b \in Blocks(h) /\ c \in Blocks(h)
  /\ h[b].magic = "free" /\ h[c].magic = "free"
  /\ EndOf(h, b) = c

\* While free() is at it there may be free neighbours: those of the block it
\* is at, and only the one before it once it looks backward.
Excused(b, c) ==
  \/ pc \in {"halt", "tangled"}
  \/ pc = "forward" /\ current \in {b, c}
  \/ pc = "backward" /\ current = c

PairsInv == \A b, c : FreePair(hdr, b, c) => Excused(b, c)

\* The list as SearchSeen and PairsInv see it is that of the links.
LEMMA NextIsEnd ==
  ASSUME NEW h, WellLinked(h), NEW b \in Blocks(h)
  PROVE  /\ h[b].next = Null <=> EndOf(h, b) = HeapEnd
         /\ h[b].next # Null => h[b].next = EndOf(h, b) /\ h[h[b].next].previous = b
<1>1. Linked(h, b) /\ h[b].next \in Addr \cup {Null}
  BY BlockFacts DEF WellLinked, Header
<1>2. HeapEnd \notin Addr
  BY HeapAssumption, SMT DEF Addr, HeapEnd
<1> QED BY <1>1, <1>2 DEF Linked

LEMMA ListIsBlocks ==
  ASSUME WellLinked(hdr)
  PROVE  ListBlocks \subseteq Blocks(hdr)
BY HeapFacts DEF ListBlocks, Blocks

LEMMA SearchSeenInit == Init => SearchSeen
BY DEF Init, SearchSeen

LEMMA SearchSeenStep ==
  ASSUME IInv, SearchSeen, [Next]_vars
  PROVE  SearchSeen'
<1>0. WellLinked(hdr)
  BY DEF IInv
<1>1. CASE pc' \notin {"skip", "scan"}
  BY <1>1 DEF SearchSeen
<1>2. ASSUME NEW size, NEW aligned, NEW old, StartSearch(size, aligned, old)
      PROVE  SearchSeen'
  BY <1>2 DEF StartSearch, SearchSeen
<1>3. CASE SkipUsed
  <2>1. pc = "skip" /\ pc' = pc /\ current' = current
    BY <1>3 DEF SkipUsed
  <2> QED BY <2>1 DEF SearchSeen
<1>4. CASE FoundUnused
  <2>1. /\ pc = "skip" /\ pc' = "scan" /\ UNCHANGED <<hdr, sz, best, current>>
        /\ current = HeapStart
    BY <1>4 DEF FoundUnused, SearchSeen
  <2>2. \A b \in Blocks(hdr) : ~(b < HeapStart) /\ HeapStart # Null
    <3>1. \A b \in Addr : ~(b < HeapStart)
      BY HeapAssumption, SMT DEF Addr, HeapEnd
    <3> QED BY <1>0, <3>1, BlockFacts, HeapFacts
  <2>3. Seen' = {}
    BY <2>1, <2>2 DEF Seen
  <2> QED BY <2>1, <2>3 DEF SearchSeen
<1>5. CASE Scan
  <2> SUFFICES ASSUME ~align
               PROVE  SearchSeen'
    BY <1>5 DEF Scan, SearchSeen
  <2>1. /\ pc = "scan" /\ pc' = "scan" /\ UNCHANGED <<hdr, sz, align>>
        /\ current \in Blocks(hdr) /\ current # Null
        /\ best' = IF Better(current) THEN current ELSE best
        /\ current' = hdr[current].next
        /\ best \in Blocks(hdr) /\ sz \in Requests
    BY <1>5 DEF Scan, IInv, ControlInv
  <2>2. sz \in Nat
    BY <2>1, RequestSizes
  <2>3. RequiredSize = sz
    BY DEF RequiredSize
  <2>4. ASSUME NEW b \in Seen'
        PROVE  b \in Blocks(hdr) /\ (b \in Seen \/ b = current)
    <3>1. b \in Blocks(hdr) /\ (hdr[current].next = Null \/ b < hdr[current].next)
      BY <2>1, <2>4 DEF Seen
    <3>2. b \in Addr /\ b \in Nat /\ current \in Nat /\ b < HeapEnd /\ EndOf(hdr, current) \in Nat
      BY <1>0, <2>1, <3>1, BlockFacts, HeapFacts, SMT DEF Addr, HeapEnd
    <3>3. b < EndOf(hdr, current)
      <4>1. /\ hdr[current].next = Null => EndOf(hdr, current) = HeapEnd
            /\ hdr[current].next # Null => hdr[current].next = EndOf(hdr, current)
        BY <1>0, <2>1, NextIsEnd
      <4> QED BY <3>1, <3>2, <4>1
    <3>4. ~(current < b)
      <4> SUFFICES ASSUME current < b
                   PROVE  FALSE
        OBVIOUS
      <4>1. EndOf(hdr, current) <= b
        BY <1>0, <2>1, <3>1 DEF WellLinked
      <4> QED BY <3>2, <3>3, <4>1
    <3>5. b = current \/ b < current
      BY <3>2, <3>4
    <3> QED BY <3>1, <3>5 DEF Seen
  <2>5. \A b \in Blocks(hdr) : hdr[b].size \in Nat
    BY <1>0, BlockFacts
  <2>6. ASSUME NEW b \in Seen', hdr[b].magic = "free", hdr[b].size >= sz
        PROVE  sz <= hdr[best'].size /\ hdr[best'].size <= hdr[b].size
    <3>1. b \in Seen => sz <= hdr[best].size /\ hdr[best].size <= hdr[b].size
      BY <2>1, <2>6 DEF SearchSeen
    <3>2. hdr[b].size \in Nat /\ hdr[best].size \in Nat /\ hdr[current].size \in Nat
      BY <2>1, <2>4, <2>5
    <3>3. CASE Better(current)
      <4>1. /\ best' = current /\ hdr[current].size >= sz
            /\ hdr[current].size < hdr[best].size \/ hdr[best].size < sz
        BY <2>1, <2>3, <3>3 DEF Better
      <4> QED BY <2>2, <2>4, <3>1, <3>2, <4>1
    <3>4. CASE ~Better(current)
      <4>1. best' = best
        BY <2>1, <3>4
      <4>2. b = current => ~(hdr[b].size < hdr[best].size) /\ ~(hdr[best].size < sz)
        BY <2>3, <2>6, <3>4 DEF Better, IsUsed
      <4> QED BY <2>2, <2>4, <3>1, <3>2, <4>1, <4>2
    <3> QED BY <3>3, <3>4
  <2> QED BY <2>1, <2>6 DEF SearchSeen
<1>6. CASE UNCHANGED vars
  BY <1>6 DEF vars, SearchSeen, Seen
<1>7. CASE Allocate
  BY <1>2, <1>7 DEF Allocate, Kmalloc, KmallocA
<1>8. CASE Release
  BY <1>1, <1>6, <1>8 DEF Release, FreeInvalid, FreeUnused, Free, MarkFree, Stop, Finish
<1>9. CASE Reallocate
  BY <1>1, <1>2, <1>9 DEF Reallocate, KreallocInvalid, KreallocFits, KreallocMove, KreallocGrow,
     Stop, Finish
<1>10. CASE Use
  BY <1>1, <1>10 DEF Use, ClientWrite
<1>11. CASE Halted
  BY <1>6, <1>11 DEF Halted
<1>12. CASE Running
  BY <1>1, <1>3, <1>4, <1>5, <1>12
     DEF Running, NoUnusedBlocks, OutOfSpace, Take, Deliver, OutOfSpaceAligned, AlignFirstBlock,
         AlignSmears, AlignEscapes, TakeAligned, ReleaseOld, MarkFree, MergeForward, EndForward,
         MergeBackward, EndBackward, Stop, Finish
<1> QED BY <1>6, <1>7, <1>8, <1>9, <1>10, <1>11, <1>12 DEF Next

\* kmalloc takes a smallest free block that is large enough, and gives up only
\* if there is none: the search has seen all of the list, and what it holds is
\* the best of it.
THEOREM BestIsFound == Spec => []BestFit
<1>1. Init => SearchSeen
  BY SearchSeenInit
<1>2. (Untangled => IInv) /\ SearchSeen /\ [Next]_vars => SearchSeen'
  <2>1. ASSUME ~Untangled, [Next]_vars PROVE SearchSeen'
    BY <2>1, TangledStays DEF vars, Untangled, SearchSeen
  <2>2. ASSUME IInv, SearchSeen, [Next]_vars PROVE SearchSeen'
    BY <2>2, SearchSeenStep
  <2> QED BY <2>1, <2>2
<1>3. (Untangled => IInv) /\ SearchSeen => BestFit
  <2> SUFFICES ASSUME Untangled => IInv, SearchSeen, SearchDone, ~align
               PROVE  /\ ~IsUsed(hdr, best)
                      /\ \A b \in ListBlocks :
                           ~IsUsed(hdr, b) /\ hdr[b].size >= sz =>
                             sz <= hdr[best].size /\ hdr[best].size <= hdr[b].size
    BY DEF BestFit
  <2>1. WellLinked(hdr) /\ hdr[best].magic = "free" /\ pc = "scan" /\ Seen = Blocks(hdr)
    BY DEF IInv, ControlInv, SearchDone, Seen, Untangled
  <2>2. \A b \in ListBlocks : b \in Blocks(hdr) /\ hdr[b].magic \in {"free", "used"}
    BY <2>1, ListIsBlocks, BlockFacts
  <2> QED BY <2>1, <2>2 DEF SearchSeen, IsUsed
<1> QED BY <1>1, <1>2, <1>3, Invariance, PTL DEF Spec

\* A block that becomes used, and the free block split off behind it, have no
\* free neighbour, if the block had none behind it.
LEMMA OccupiedApart ==
  ASSUME NEW h, WellLinked(h), NEW b \in Blocks(h), NEW size \in Nat, size <= h[b].size,
         \A x, y : FreePair(h, x, y) => b \in {x, y},
         \A y \in Blocks(h) : EndOf(h, b) = y => h[y].magic # "free"
  PROVE  \A x, y : ~FreePair(Occupy(h, b, size), x, y)
<1>1. PICK g : g = Occupy(h, b, size)
  OBVIOUS
<1>2. /\ WellLinked(g)
      /\ Blocks(h) \subseteq Blocks(g)
      /\ g[b].magic = "used"
      /\ \A a \in Blocks(h) \ {b} : g[a].size = h[a].size
      /\ \A a \in Addr \ {b} : (g[a].magic = "used") <=> (h[a].magic = "used")
      /\ \A x \in Blocks(g) \ Blocks(h) : EndOf(g, x) = EndOf(h, b)
  BY <1>1, Occupied
<1>3. ASSUME NEW a \in Blocks(h) \ {b}
      PROVE  EndOf(g, a) = EndOf(h, a) /\ (g[a].magic = "free" => h[a].magic = "free")
  <2>1. a \in Addr /\ h[a].magic \in {"free", "used"}
    BY BlockFacts
  <2> QED BY <1>2, <2>1 DEF EndOf
<1>4. ASSUME NEW x, NEW y, FreePair(g, x, y)
      PROVE  FALSE
  <2>1. /\ x \in Blocks(g) /\ y \in Blocks(g) /\ EndOf(g, x) = y
        /\ x # b /\ y # b /\ g[x].magic = "free" /\ g[y].magic = "free"
    BY <1>2, <1>4 DEF FreePair
  <2>2. x \in Nat /\ y \in Nat /\ b \in Nat /\ x < y
    <3>1. x \in Addr /\ y \in Addr /\ b \in Addr
      BY <1>2, <2>1, BlockFacts
    <3>2. g[x].next = y
      <4>1. y # HeapEnd
        BY <3>1, HeapAssumption, SMT DEF Addr, HeapEnd
      <4> QED BY <1>2, <2>1, <4>1, NextIsEnd
    <3>3. y # Null
      BY <3>1, HeapFacts
    <3> QED BY <1>2, <2>1, <3>1, <3>2, <3>3, BlockFacts, HeapFacts
  <2>3. CASE x \in Blocks(h) /\ y \in Blocks(h)
    <3>1. FreePair(h, x, y)
      BY <1>3, <2>1, <2>3 DEF FreePair
    <3> QED BY <2>1, <3>1
  <2>4. CASE x \notin Blocks(h) /\ y \in Blocks(h)
    <3>1. EndOf(h, b) = y
      BY <1>2, <2>1, <2>4
    <3> QED BY <1>3, <2>1, <2>4, <3>1
  <2>5. CASE y \notin Blocks(h)
    <3>1. EndOf(h, b) \in Nat /\ EndOf(g, y) = EndOf(h, b) /\ EndOf(g, y) \in Nat /\ y < EndOf(g, y)
      <4>1. EndOf(g, y) = EndOf(h, b) /\ EndOf(h, b) \in Nat
        BY <1>2, <2>1, <2>5, BlockFacts
      <4>2. g[y].size \in Nat
        BY <1>2, <2>1, BlockFacts
      <4>3. y < EndOf(g, y)
        BY <2>2, <4>2, HeapAssumption, SMT DEF EndOf
      <4> QED BY <4>1, <4>3
    <3>2. CASE x \notin Blocks(h)
      BY <1>2, <2>1, <2>2, <3>1, <3>2
    <3>3. CASE x \in Blocks(h) /\ b < x
      <4>1. EndOf(h, b) <= x
        BY <3>3 DEF WellLinked
      <4> QED BY <2>2, <3>1, <4>1
    <3>4. CASE x \in Blocks(h) /\ x < b
      <4>1. b \in Blocks(g) /\ EndOf(g, x) <= b /\ y < b
        <5>1. b \in Blocks(g) /\ EndOf(g, x) <= b
          BY <1>2, <2>1, <3>4 DEF WellLinked
        <5>2. y # b
          BY <2>1
        <5> QED BY <2>1, <2>2, <5>1, <5>2
      <4>2. EndOf(g, y) <= b
        BY <1>2, <2>1, <4>1 DEF WellLinked
      <4>3. h[b].size \in Nat
        BY BlockFacts
      <4>4. b < EndOf(h, b)
        BY <2>2, <4>3, HeapAssumption, SMT DEF EndOf
      <4> QED BY <2>2, <3>1, <4>2, <4>4
    <3> QED BY <2>1, <2>2, <3>2, <3>3, <3>4
  <2> QED BY <2>3, <2>4, <2>5
<1> QED BY <1>1, <1>4

\* Two free blocks that are merged are a free block with the neighbours they had.
LEMMA MergedPairs ==
  ASSUME NEW h, WellLinked(h), NEW b \in Blocks(h), h[b].next # Null, h[h[b].next].magic = "free",
         NEW x, NEW y, FreePair(MergeBlocks(h, b, h[b].next), x, y)
  PROVE  /\ x # h[b].next /\ y # h[b].next
         /\ IF x = b THEN FreePair(h, h[b].next, y) ELSE FreePair(h, x, y)
<1>1. PICK c : c = h[b].next
  OBVIOUS
<1>2. PICK g : g = MergeBlocks(h, b, c)
  OBVIOUS
<1>3. /\ WellLinked(g)
      /\ Blocks(g) = Blocks(h) \ {c}
      /\ c \in Blocks(h) /\ c # b
      /\ g[b].size = h[b].size + HeaderSize + h[c].size
      /\ \A a \in Addr \ {b, c} : g[a].size = h[a].size
      /\ \A a \in Addr : g[a].magic = h[a].magic
  BY <1>1, <1>2, MergeNext
<1>4. /\ x \in Blocks(h) /\ y \in Blocks(h) /\ x # c /\ y # c
      /\ g[x].magic = "free" /\ g[y].magic = "free" /\ EndOf(g, x) = y
  BY <1>1, <1>2, <1>3 DEF FreePair
<1>5. x \in Addr /\ y \in Addr /\ h[x].magic = "free" /\ h[y].magic = "free"
  BY <1>3, <1>4, BlockFacts
<1>6. CASE x = b
  <2>1. c = EndOf(h, b) /\ h[b].size \in Nat /\ h[c].size \in Nat /\ b \in Nat
    BY <1>1, <1>3, BlockFacts, HeapFacts
  <2>2. EndOf(g, b) = EndOf(h, c)
    BY <1>3, <2>1, HeapAssumption, SMT DEF EndOf
  <2> QED BY <1>1, <1>3, <1>4, <1>5, <1>6, <2>2 DEF FreePair
<1>7. CASE x # b
  <2>1. EndOf(g, x) = EndOf(h, x)
    BY <1>3, <1>4, <1>5, <1>7 DEF EndOf
  <2> QED BY <1>1, <1>4, <1>5, <1>7, <2>1 DEF FreePair
<1> QED BY <1>6, <1>7

\* No block is its own neighbour.
LEMMA PairMoves ==
  ASSUME NEW h, WellLinked(h), NEW x, NEW y, FreePair(h, x, y)
  PROVE  x # y /\ h[x].next = y /\ y # Null /\ h[y].previous = x
<1>1. x \in Blocks(h) /\ y \in Blocks(h) /\ EndOf(h, x) = y
  BY DEF FreePair
<1>2. y \in Addr /\ y # HeapEnd /\ y # Null
  <2>1. y \in Addr
    BY <1>1, BlockFacts
  <2>2. HeapEnd \notin Addr
    BY HeapAssumption, SMT DEF Addr, HeapEnd
  <2> QED BY <2>1, <2>2, HeapFacts
<1>3. h[x].next = y /\ h[y].previous = x
  BY <1>1, <1>2, NextIsEnd
<1>4. x < y /\ x \in Nat
  BY <1>1, <1>2, <1>3, BlockFacts, HeapFacts
<1> QED BY <1>2, <1>3, <1>4

LEMMA PairsInit == Init => PairsInv
<1> SUFFICES ASSUME Init, NEW b, NEW c, FreePair(hdr, b, c)
             PROVE  FALSE
  BY DEF PairsInv
<1>1. WellLinked(hdr)
  BY InitInv DEF IInv
<1>2. \A a \in Addr \ {HeapStart} : hdr[a].magic # "free"
  BY DEF Init, CreateHeap, Junk, Leftover
<1>3. b = HeapStart /\ c = HeapStart
  BY <1>1, <1>2, BlockFacts DEF FreePair
<1> QED BY <1>1, <1>3, PairMoves

\* Only marking a block free makes a free pair.
LEMMA PairsMark ==
  ASSUME IInv, PairsInv, pc \in {"idle", "release"}, NEW p, p - HeaderSize \in Addr, p \in Nat,
         MarkFree(p)
  PROVE  PairsInv'
<1>1. PICK b : b = p - HeaderSize
  OBVIOUS
<1>2. WellLinked(hdr) /\ b \in Blocks(hdr)
  <2>1. (p - HeaderSize) + HeaderSize = p
    BY HeapAssumption, SMT
  <2>2. p \in DOMAIN live
    BY <2>1 DEF IInv, LiveInv, MarkFree, IsUsed
  <2> QED BY <1>1, <2>2, LiveFacts DEF IInv
<1>3. hdr' = Marked(hdr, b, "free") /\ pc' = "forward" /\ current' = b
  BY <1>1 DEF MarkFree, Marked
<1>4. /\ Blocks(hdr') = Blocks(hdr)
      /\ \A a \in Addr : hdr'[a].size = hdr[a].size
      /\ \A a \in Addr : a # b => hdr'[a].magic = hdr[a].magic
  <2>1. \A a \in Addr :
          /\ Marked(hdr, b, "free")[a].size = hdr[a].size
          /\ Marked(hdr, b, "free")[a].magic = (IF a = b THEN "free" ELSE hdr[a].magic)
    BY <1>2, Remark
  <2>2. Blocks(Marked(hdr, b, "free")) = Blocks(hdr)
    BY <1>2, Remark
  <2> QED BY <1>3, <2>1, <2>2
<1>5. ASSUME NEW x, NEW y, FreePair(hdr', x, y), b \notin {x, y}
      PROVE  FALSE
  <2>1. x \in Blocks(hdr) /\ y \in Blocks(hdr) /\ x \in Addr /\ y \in Addr
    BY <1>2, <1>4, <1>5, BlockFacts DEF FreePair
  <2>2. FreePair(hdr, x, y)
    BY <1>4, <1>5, <2>1 DEF FreePair, EndOf
  <2> QED BY <2>2 DEF PairsInv, Excused
<1>6. ASSUME NEW x, NEW y, FreePair(hdr', x, y)
      PROVE  Excused(x, y)'
  BY <1>3, <1>5, <1>6 DEF Excused
<1> QED BY <1>6 DEF PairsInv

\* What does not change the list's blocks makes no free pair.
LEMMA PairsStay ==
  ASSUME PairsInv, Blocks(hdr') = Blocks(hdr), \A a \in Blocks(hdr) : hdr'[a] = hdr[a],
         \A x, y : FreePair(hdr, x, y) /\ Excused(x, y) => Excused(x, y)'
  PROVE  PairsInv'
<1>1. ASSUME NEW x, NEW y, FreePair(hdr', x, y)
      PROVE  FreePair(hdr, x, y)
  BY <1>1 DEF FreePair, EndOf
<1> QED BY <1>1 DEF PairsInv

LEMMA PairsTake ==
  ASSUME IInv, PairsInv, Take
  PROVE  PairsInv'
<1>1. PICK h : h = Occupy(hdr, best, sz)
  OBVIOUS
<1>2. /\ WellLinked(hdr) /\ best \in Blocks(hdr) /\ hdr[best].magic = "free"
      /\ sz \in Nat /\ sz <= hdr[best].size
      /\ Blocks(hdr') = Blocks(h) /\ \A a \in Blocks(h) : hdr'[a] = h[a]
  BY <1>1, TakeWrites DEF IInv
<1>3. \A x, y : ~FreePair(hdr, x, y)
  BY DEF PairsInv, Excused, Take, SearchDone
<1>4. \A y \in Blocks(hdr) : EndOf(hdr, best) = y => hdr[y].magic # "free"
  BY <1>2, <1>3 DEF FreePair
<1>5. \A x, y : ~FreePair(h, x, y)
  BY <1>1, <1>2, <1>3, <1>4, OccupiedApart
<1>6. ASSUME NEW x, NEW y, FreePair(hdr', x, y)
      PROVE  FALSE
  <2>1. FreePair(h, x, y)
    BY <1>2, <1>6 DEF FreePair, EndOf
  <2> QED BY <1>5, <2>1
<1> QED BY <1>6 DEF PairsInv

LEMMA PairsTakeAligned ==
  ASSUME IInv, PairsInv, TakeAligned, LinkRenewed
  PROVE  PairsInv'
<1>1. PICK h : h = Relocated(hdr, best, Distance)
  OBVIOUS
<1>2. PICK new : new = HeaderPos
  OBVIOUS
<1>3. PICK p : p = hdr[best].previous
  OBVIOUS
<1>4. /\ WellLinked(hdr) /\ best \in Blocks(hdr) /\ best # HeapStart
      /\ hdr[best].magic = "free"
      /\ Distance \in Nat /\ HeaderSize <= Distance /\ Distance <= hdr[best].size
      /\ sz \in Nat /\ sz <= hdr[best].size - Distance /\ new = best + Distance
      /\ hdr' = Occupy(h, new, sz)
  BY <1>1, <1>2, AlignedRoom, AlignedTaken DEF HeaderPos, LinkRenewed
<1>5. /\ WellLinked(h) /\ Blocks(h) = (Blocks(hdr) \ {best}) \cup {new}
      /\ new \in Addr \ Blocks(hdr)
      /\ p \in Blocks(hdr) /\ p # best
      /\ h[new].size = hdr[best].size - Distance
      /\ EndOf(h, new) = EndOf(hdr, best) /\ EndOf(h, p) = new
      /\ \A a \in Blocks(hdr) \ {best, p} : h[a].size = hdr[a].size
      /\ \A a \in Blocks(hdr) \ {best} : h[a].magic = hdr[a].magic
  BY <1>1, <1>3, <1>4, Relocate
<1>6. \A x, y : ~FreePair(hdr, x, y)
  BY DEF PairsInv, Excused, TakeAligned, SearchDone
<1>7. ASSUME NEW x, NEW y, FreePair(h, x, y)
      PROVE  new \in {x, y}
  <2> SUFFICES ASSUME x # new, y # new
               PROVE  FALSE
    OBVIOUS
  <2>1. /\ x \in Blocks(hdr) \ {best} /\ y \in Blocks(hdr) \ {best}
        /\ hdr[x].magic = "free" /\ hdr[y].magic = "free" /\ EndOf(h, x) = y
    BY <1>5, <1>7 DEF FreePair
  <2>2. x # p
    BY <1>5, <2>1
  <2>3. EndOf(hdr, x) = y
    BY <1>5, <2>1, <2>2 DEF EndOf
  <2> QED BY <1>6, <2>1, <2>3 DEF FreePair
<1>8. \A y \in Blocks(h) : EndOf(h, new) = y => h[y].magic # "free"
  <2> SUFFICES ASSUME NEW y \in Blocks(h), EndOf(h, new) = y, h[y].magic = "free"
               PROVE  FALSE
    OBVIOUS
  <2>1. y # new
    <3>1. new \in Nat /\ h[new].size \in Nat
      BY <1>5, BlockFacts, HeapFacts
    <3>2. EndOf(h, new) # new
      BY <3>1, HeapAssumption, SMT DEF EndOf
    <3> QED BY <3>2
  <2>2. y \in Blocks(hdr) /\ hdr[y].magic = "free" /\ EndOf(hdr, best) = y
    BY <1>5, <2>1
  <2> QED BY <1>4, <1>6, <2>2 DEF FreePair
<1>9. new \in Blocks(h) /\ sz <= h[new].size
  BY <1>4, <1>5
<1>10. \A x, y : ~FreePair(hdr', x, y)
  BY <1>4, <1>5, <1>7, <1>8, <1>9, OccupiedApart
<1> QED BY <1>10 DEF PairsInv

LEMMA PairsGrow ==
  ASSUME IInv, PairsInv, NEW p \in DOMAIN live, NEW size \in Sizes, KreallocGrow(p, size)
  PROVE  PairsInv'
<1>1. PICK b : b = p - HeaderSize
  OBVIOUS
<1>2. PICK c : c = hdr[b].next
  OBVIOUS
<1>3. PICK m : m = MergeBlocks(hdr, b, c)
  OBVIOUS
<1>4. /\ WellLinked(hdr) /\ b \in Blocks(hdr) /\ hdr[b].magic = "used"
      /\ c \in Blocks(hdr) /\ hdr[c].magic = "free" /\ c # Null
      /\ hdr' = Occupy(m, b, size) /\ size \in Nat /\ size <= m[b].size
  BY <1>1, <1>2, <1>3, GrowFacts
<1>5. /\ WellLinked(m) /\ b \in Blocks(m) /\ m[b].magic = "used"
  <2>1. b \in Addr
    BY <1>4, BlockFacts
  <2> QED BY <1>2, <1>3, <1>4, <2>1, MergeNext
<1>6. \A x, y : ~FreePair(hdr, x, y)
  BY DEF PairsInv, Excused, KreallocGrow
<1>7. \A x, y : FreePair(m, x, y) => x = b
  BY <1>2, <1>3, <1>4, <1>6, MergedPairs
<1>8. \A y \in Blocks(m) : EndOf(m, b) = y => m[y].magic # "free"
  <2> SUFFICES ASSUME NEW y \in Blocks(m), EndOf(m, b) = y, m[y].magic = "free"
               PROVE  FALSE
    OBVIOUS
  <2>1. /\ Blocks(m) = Blocks(hdr) \ {c} /\ c # b
        /\ m[b].size = hdr[b].size + HeaderSize + hdr[c].size
        /\ \A a \in Addr : m[a].magic = hdr[a].magic
    BY <1>2, <1>3, <1>4, MergeNext
  <2>2. c = EndOf(hdr, b) /\ hdr[b].size \in Nat /\ hdr[c].size \in Nat /\ b \in Nat
    BY <1>2, <1>4, BlockFacts, HeapFacts
  <2>3. EndOf(m, b) = EndOf(hdr, c)
    BY <2>1, <2>2, HeapAssumption, SMT DEF EndOf
  <2>4. y \in Blocks(hdr) /\ y \in Addr
    BY <1>4, <2>1, BlockFacts
  <2>5. FreePair(hdr, c, y)
    BY <1>4, <2>1, <2>3, <2>4 DEF FreePair
  <2> QED BY <1>6, <2>5
<1>9. \A x, y : ~FreePair(hdr', x, y)
  BY <1>4, <1>5, <1>7, <1>8, OccupiedApart
<1> QED BY <1>9 DEF PairsInv

LEMMA PairsForward ==
  ASSUME IInv, PairsInv, MergeForward
  PROVE  PairsInv'
<1>1. /\ WellLinked(hdr) /\ current \in Blocks(hdr) /\ hdr[current].next # Null
      /\ pc = "forward" /\ UNCHANGED <<pc, current>>
      /\ hdr' = MergeBlocks(hdr, current, hdr[current].next)
  BY DEF MergeForward, IInv, ControlInv, Mergeable, NextHeader
<1>2. hdr[hdr[current].next].magic = "free"
  BY <1>1, BlockFacts DEF MergeForward, Mergeable, NextHeader, IsUsed
<1>3. ASSUME NEW x, NEW y, FreePair(hdr', x, y)
      PROVE  Excused(x, y)'
  <2>1. x # hdr[current].next /\ y # hdr[current].next
        /\ (x # current => FreePair(hdr, x, y))
    BY <1>1, <1>2, <1>3, MergedPairs
  <2>2. x # current => y = current
    BY <1>1, <2>1 DEF PairsInv, Excused
  <2> QED BY <1>1, <2>2 DEF Excused
<1> QED BY <1>3 DEF PairsInv

LEMMA PairsBackward ==
  ASSUME IInv, PairsInv, MergeBackward
  PROVE  PairsInv'
<1>1. PICK b : b = hdr[current].previous
  OBVIOUS
<1>2. /\ WellLinked(hdr) /\ current \in Blocks(hdr) /\ hdr[current].magic = "free"
      /\ b # Null /\ pc = "backward"
  BY <1>1 DEF MergeBackward, IInv, ControlInv, Mergeable, PreviousHeader
<1>3. b \in Blocks(hdr) /\ hdr[b].next = current /\ current # Null
  <2>1. current \in Addr
    BY <1>2, BlockFacts
  <2> QED BY <1>1, <1>2, <2>1, HeapFacts DEF WellLinked, Linked
<1>4. hdr' = MergeBlocks(hdr, b, hdr[b].next)
  BY <1>1, <1>3 DEF MergeBackward, PreviousHeader
<1>5. ASSUME NEW x, NEW y, FreePair(hdr', x, y)
      PROVE  FALSE
  <2>1. /\ y # current
        /\ IF x = b THEN FreePair(hdr, current, y) ELSE FreePair(hdr, x, y)
    BY <1>2, <1>3, <1>4, <1>5, MergedPairs
  <2> QED BY <1>2, <2>1 DEF PairsInv, Excused
<1> QED BY <1>5 DEF PairsInv

\* When a merge loop ends its neighbour is not free.
LEMMA PairsEnd ==
  ASSUME IInv, PairsInv, EndForward \/ EndBackward
  PROVE  PairsInv'
<1>1. hdr' = hdr /\ WellLinked(hdr)
  BY DEF EndForward, EndBackward, IInv
<1>2. CASE EndForward
  <2>1. ASSUME NEW x, NEW y, FreePair(hdr, x, y)
        PROVE  y = current
    <3>1. pc = "forward" /\ ~Mergeable(hdr[current].next)
      BY <1>2 DEF EndForward, NextHeader
    <3>2. hdr[x].next = y /\ y # Null /\ hdr[y].magic = "free"
      BY <1>1, <2>1, PairMoves DEF FreePair
    <3>3. x # current
      BY <3>1, <3>2 DEF Mergeable, IsValid, IsUsed
    <3> QED BY <2>1, <3>1, <3>3 DEF PairsInv, Excused
  <2>2. pc' \in {"halt", "backward"} /\ current' = current
    BY <1>2 DEF EndForward
  <2> QED BY <1>1, <2>1, <2>2 DEF PairsInv, Excused
<1>3. CASE EndBackward
  <2>1. ASSUME NEW x, NEW y, FreePair(hdr, x, y)
        PROVE  FALSE
    <3>1. pc = "backward" /\ ~Mergeable(hdr[current].previous)
      BY <1>3 DEF EndBackward, PreviousHeader
    <3>2. y = current
      BY <2>1, <3>1 DEF PairsInv, Excused
    <3>3. hdr[y].previous = x /\ hdr[x].magic = "free" /\ x \in Blocks(hdr)
      BY <1>1, <2>1, PairMoves DEF FreePair
    <3>4. x # Null
      BY <1>1, <3>3, BlockFacts, HeapFacts
    <3> QED BY <3>1, <3>2, <3>3, <3>4 DEF Mergeable, IsValid, IsUsed
  <2> QED BY <1>1, <2>1 DEF PairsInv
<1> QED BY <1>2, <1>3

LEMMA PairsWrite ==
  ASSUME IInv, PairsInv, NEW p \in DOMAIN live, ClientWrite(p)
  PROVE  PairsInv'
<1>1. /\ Blocks(hdr') = Blocks(hdr) /\ \A a \in Blocks(hdr) : hdr'[a] = hdr[a]
      /\ UNCHANGED <<pc, current>>
  BY ClientWriteKeeps DEF ClientWrite
<1> QED BY <1>1, PairsStay DEF Excused

LEMMA PairsStep ==
  ASSUME IInv, PairsInv, [Next]_vars
  PROVE  PairsInv'
<1>1. CASE hdr' = hdr /\ pc \notin {"forward", "backward"} /\ pc \notin {"halt", "tangled"}
  BY <1>1 DEF PairsInv, Excused
<1>2. CASE UNCHANGED vars
  BY <1>2 DEF vars, PairsInv, Excused
<1>3. CASE Allocate
  BY <1>1, <1>3 DEF Allocate, Kmalloc, KmallocA, StartSearch
<1>4. CASE Release
  <2>1. PICK p \in Pointers : FreeInvalid(p) \/ FreeUnused(p) \/ Free(p)
    BY <1>4 DEF Release
  <2>2. CASE FreeInvalid(p)
    BY <1>1, <2>2 DEF FreeInvalid, Stop
  <2>3. CASE FreeUnused(p)
    BY <1>2, <2>3 DEF FreeUnused
  <2>4. CASE Free(p)
    <3>1. p \in Nat /\ p - HeaderSize \in Addr
      BY HeapAssumption, SMT DEF Pointers, Addr, HeapEnd
    <3> QED BY <2>4, <3>1, PairsMark DEF Free
  <2> QED BY <2>1, <2>2, <2>3, <2>4
<1>5. CASE Reallocate
  <2>1. ASSUME NEW p \in Pointers, KreallocInvalid(p)
        PROVE  PairsInv'
    BY <1>1, <2>1 DEF KreallocInvalid, Stop
  <2>2. ASSUME NEW p \in DOMAIN live, NEW size \in Sizes,
               KreallocFits(p, size) \/ KreallocMove(p, size) \/ KreallocGrow(p, size)
        PROVE  PairsInv'
    <3>1. CASE KreallocFits(p, size) \/ KreallocMove(p, size)
      BY <1>1, <3>1 DEF KreallocFits, KreallocMove, StartSearch
    <3> QED BY <2>2, <3>1, PairsGrow
  <2> QED BY <1>5, <2>1, <2>2 DEF Reallocate
<1>6. CASE Use
  BY <1>6, PairsWrite DEF Use
<1>7. CASE Halted
  BY <1>2, <1>7 DEF Halted
<1>8. CASE Running
  <2>1. CASE SkipUsed \/ NoUnusedBlocks \/ FoundUnused \/ Scan \/ OutOfSpace
    BY <1>1, <2>1 DEF SkipUsed, NoUnusedBlocks, FoundUnused, Scan, OutOfSpace, SearchDone, Stop
  <2>2. CASE OutOfSpaceAligned \/ AlignFirstBlock \/ AlignSmears \/ AlignEscapes
    BY <1>1, <2>2 DEF OutOfSpaceAligned, AlignFirstBlock, AlignSmears, AlignEscapes, SearchDone,
       Stop
  <2>3. CASE ReleaseOld
    <3>1. moving \in DOMAIN live
      BY <2>3 DEF ReleaseOld, IInv, ControlInv
    <3>2. moving - HeaderSize \in Addr /\ moving \in Nat
      BY <3>1, LiveFacts DEF IInv
    <3> QED BY <2>3, <3>2, PairsMark DEF ReleaseOld
  <2>4. CASE TakeAligned
    <3>1. CASE LinkRenewed
      BY <2>4, <3>1, PairsTakeAligned
    <3>2. CASE ~LinkRenewed
      BY <2>4, <3>2 DEF TakeAligned, Finish, PairsInv, Excused
    <3> QED BY <3>1, <3>2
  <2> QED BY <1>8, <2>1, <2>2, <2>3, <2>4, PairsTake, PairsForward, PairsBackward,
             PairsEnd DEF Running
<1> QED BY <1>2, <1>3, <1>4, <1>5, <1>6, <1>7, <1>8 DEF Next

\* free() leaves no two free blocks side by side, in whatever order the blocks
\* are given back, and neither splitting nor growing a block makes any.
THEOREM FreeBlocksMerged == Spec => []Coalesced
<1>1. Init => PairsInv
  BY PairsInit
<1>2. (Untangled => IInv) /\ PairsInv /\ [Next]_vars => PairsInv'
  <2>1. ASSUME ~Untangled, [Next]_vars PROVE PairsInv'
    BY <2>1, TangledStays DEF vars, Untangled, PairsInv, Excused
  <2>2. ASSUME IInv, PairsInv, [Next]_vars PROVE PairsInv'
    BY <2>2, PairsStep
  <2> QED BY <2>1, <2>2
<1>3. (Untangled => IInv) /\ PairsInv => Coalesced
  <2> SUFFICES ASSUME Untangled => IInv, PairsInv, pc = "idle", NEW b \in ListBlocks,
                      ~IsUsed(hdr, b), hdr[b].next # Null
               PROVE  IsUsed(hdr, hdr[b].next)
    BY DEF Coalesced
  <2>1. WellLinked(hdr) /\ b \in Blocks(hdr)
    BY ListIsBlocks DEF IInv, Untangled
  <2>2. /\ hdr[b].next \in Blocks(hdr) /\ hdr[b].next = EndOf(hdr, b)
        /\ hdr[b].magic = "free" /\ hdr[hdr[b].next].magic \in {"free", "used"}
    BY <2>1, BlockFacts DEF IsUsed
  <2>3. ~FreePair(hdr, b, hdr[b].next)
    BY DEF PairsInv, Excused
  <2> QED BY <2>1, <2>2, <2>3 DEF FreePair, IsUsed
<1> QED BY <1>1, <1>2, <1>3, Invariance, PTL DEF Spec

----------------------------------------------------------------------------
(* Where the allocator writes *)

\* Headers of the list, and the inside of blocks p does not hold, are none of
\* p's bytes.
LEMMA OutsideLive ==
  ASSUME WellLinked(hdr), LiveInv, NEW p \in DOMAIN live, NEW a \in Addr,
         \/ a \in Blocks(hdr)
         \/ \E b \in Blocks(hdr) \ {p - HeaderSize} : b <= a /\ a < EndOf(hdr, b)
  PROVE  a < p \/ p + live[p] <= a
<1>1. PICK own : own = p - HeaderSize
  OBVIOUS
<1>2. /\ own \in Blocks(hdr) /\ own \in Nat /\ own + HeaderSize = p /\ p \in Nat
      /\ live[p] \in Nat /\ live[p] <= hdr[own].size
  BY <1>1, LiveFacts, HeapFacts
<1>3. own < p /\ p + live[p] <= EndOf(hdr, own) /\ EndOf(hdr, own) \in Nat /\ a \in Nat
  <2>1. hdr[own].size \in Nat /\ EndOf(hdr, own) \in Nat
    BY <1>2, BlockFacts
  <2> QED BY <1>2, <2>1, HeapFacts, HeapAssumption, SMT DEF EndOf
<1>4. CASE a \in Blocks(hdr)
  <2>1. ~(own < a /\ a < EndOf(hdr, own))
    BY <1>2, <1>3, <1>4, PayloadFree
  <2> QED BY <1>2, <1>3, <2>1
<1>5. ASSUME NEW b \in Blocks(hdr) \ {own}, b <= a, a < EndOf(hdr, b)
      PROVE  a < p \/ p + live[p] <= a
  <2>1. b \in Nat /\ EndOf(hdr, b) \in Nat
    BY BlockFacts, HeapFacts
  <2>2. (b < own => EndOf(hdr, b) <= own) /\ (own < b => EndOf(hdr, own) <= b)
    BY <1>2 DEF WellLinked
  <2>3. b # own
    OBVIOUS
  <2> QED BY <1>2, <1>3, <1>5, <2>1, <2>2, <2>3
<1> QED BY <1>1, <1>4, <1>5

\* A merge writes three headers.
LEMMA MergeWrites ==
  ASSUME NEW h, WellLinked(h), NEW b \in Blocks(h), h[b].next # Null,
         NEW a \in Addr, MergeBlocks(h, b, h[b].next)[a] # h[a]
  PROVE  a \in Blocks(h)
<1>1. PICK c : c = h[b].next
  OBVIOUS
<1>2. c \in Blocks(h) /\ (h[c].next # Null => h[c].next \in Blocks(h))
  BY <1>1, BlockFacts
<1>3. a \in {b, c, h[c].next}
  BY <1>1 DEF MergeBlocks
<1> QED BY <1>2, <1>3, HeapFacts

LEMMA TakeUntouched ==
  ASSUME IInv, Take, NEW p \in DOMAIN live, NEW a \in Addr, hdr'[a] # hdr[a]
  PROVE  a < p \/ p + live[p] <= a
<1>1. PICK h : h = Occupy(hdr, best, sz)
  OBVIOUS
<1>2. /\ WellLinked(hdr) /\ LiveInv
      /\ best \in Blocks(hdr) /\ hdr[best].magic = "free" /\ sz \in Nat /\ sz <= hdr[best].size
      /\ hdr'[a] = h[a] \/ (best < a /\ a < EndOf(hdr, best))
  BY <1>1, TakeWrites DEF IInv
<1>3. best # p - HeaderSize /\ best \in Nat /\ a \in Nat
  BY <1>2, LiveFacts, BlockFacts, HeapFacts
<1>4. CASE best < a /\ a < EndOf(hdr, best)
  BY <1>2, <1>3, <1>4, OutsideLive
<1>5. CASE hdr'[a] = h[a]
  <2>1. a \in Blocks(hdr) \/ ((best + sz) + HeaderSize <= a /\ a < EndOf(hdr, best))
    BY <1>1, <1>2, <1>5, Occupied
  <2>2. (best + sz) + HeaderSize <= a => best <= a
    BY <1>2, <1>3, HeapAssumption, SMT
  <2> QED BY <1>2, <1>3, <2>1, <2>2, OutsideLive
<1> QED BY <1>2, <1>4, <1>5

LEMMA TakeAlignedUntouched ==
  ASSUME IInv, TakeAligned, LinkRenewed, NEW p \in DOMAIN live, NEW a \in Addr, hdr'[a] # hdr[a]
  PROVE  a < p \/ p + live[p] <= a
<1>1. PICK h : h = Relocated(hdr, best, Distance)
  OBVIOUS
<1>2. PICK new : new = HeaderPos
  OBVIOUS
<1>3. /\ WellLinked(hdr) /\ LiveInv /\ best \in Blocks(hdr) /\ best # HeapStart
      /\ hdr[best].magic = "free"
      /\ Distance \in Nat /\ HeaderSize <= Distance /\ Distance <= hdr[best].size
      /\ sz \in Nat /\ sz <= hdr[best].size - Distance /\ new = best + Distance
      /\ hdr' = Occupy(h, new, sz)
  BY <1>1, <1>2, AlignedRoom, AlignedTaken DEF HeaderPos, LinkRenewed
<1>4. /\ WellLinked(h) /\ Blocks(h) = (Blocks(hdr) \ {best}) \cup {new}
      /\ new \in Addr \ Blocks(hdr)
      /\ h[new].size = hdr[best].size - Distance
      /\ EndOf(h, new) = EndOf(hdr, best)
      /\ h[a] = hdr[a] \/ a \in Blocks(hdr) \/ (new <= a /\ a < EndOf(hdr, best))
  BY <1>1, <1>3, Relocate
<1>5. hdr'[a] = h[a] \/ a \in Blocks(h) \/ ((new + sz) + HeaderSize <= a /\ a < EndOf(hdr, best))
  <2>1. new \in Blocks(h) /\ sz <= h[new].size
    BY <1>3, <1>4
  <2>2. \/ Occupy(h, new, sz)[a] = h[a]
        \/ a \in Blocks(h)
        \/ (new + sz) + HeaderSize <= a /\ a < EndOf(h, new)
    BY <1>3, <1>4, <2>1, Occupied
  <2> QED BY <1>3, <1>4, <2>2
<1>6. /\ best \in Nat /\ new \in Nat /\ a \in Nat /\ hdr[best].size \in Nat
      /\ best # p - HeaderSize /\ EndOf(hdr, best) = best + HeaderSize + hdr[best].size
  BY <1>3, <1>4, LiveFacts, BlockFacts, HeapFacts DEF EndOf
<1>7. CASE a \in Blocks(hdr)
  BY <1>3, <1>7, OutsideLive
<1>8. CASE best <= a /\ a < EndOf(hdr, best)
  BY <1>3, <1>6, <1>8, OutsideLive
<1>9. a \in Blocks(hdr) \/ (best <= a /\ a < EndOf(hdr, best))
  <2>1. a \in Blocks(h) => a \in Blocks(hdr) \/ a = new
    BY <1>4
  <2>2. best <= new /\ new < EndOf(hdr, best)
    BY <1>3, <1>6, HeapAssumption, SMT
  <2>3. a \in Blocks(hdr) \/ a = new \/ (new <= a /\ a < EndOf(hdr, best))
        \/ ((new + sz) + HeaderSize <= a /\ a < EndOf(hdr, best))
    BY <1>4, <1>5, <2>1
  <2>4. EndOf(hdr, best) \in Nat
    BY <1>3, BlockFacts
  <2>5. (new + sz) + HeaderSize <= a => best <= a
    BY <1>3, <1>6, HeapAssumption, SMT
  <2>6. new <= a => best <= a
    BY <1>6, <2>2
  <2> QED BY <2>2, <2>3, <2>5, <2>6
<1> QED BY <1>7, <1>8, <1>9

LEMMA GrowUntouched ==
  ASSUME IInv, NEW r \in DOMAIN live, NEW size \in Sizes, KreallocGrow(r, size),
         NEW p \in DOMAIN live, NEW a \in Addr, hdr'[a] # hdr[a]
  PROVE  a < p \/ p + live[p] <= a
<1>1. PICK b : b = r - HeaderSize
  OBVIOUS
<1>2. PICK c : c = hdr[b].next
  OBVIOUS
<1>3. PICK m : m = MergeBlocks(hdr, b, c)
  OBVIOUS
<1>4. /\ WellLinked(hdr) /\ LiveInv
      /\ b \in Blocks(hdr) /\ c \in Blocks(hdr) /\ c # Null /\ hdr[c].magic = "free" /\ c # b
      /\ hdr' = Occupy(m, b, size) /\ size \in Nat /\ size <= m[b].size
  BY <1>1, <1>2, <1>3, GrowFacts
<1>5. /\ WellLinked(m) /\ Blocks(m) = Blocks(hdr) \ {c}
      /\ m[b].size = hdr[b].size + HeaderSize + hdr[c].size
  BY <1>2, <1>3, <1>4, MergeNext
<1>6. hdr[b].size < size /\ hdr[b].size \in Nat /\ hdr[c].size \in Nat /\ b \in Nat /\ a \in Nat
      /\ c \in Nat /\ c = EndOf(hdr, b)
  BY <1>1, <1>2, <1>4, BlockFacts, HeapFacts DEF KreallocGrow
<1>7. CASE m[a] # hdr[a]
  <2>1. a \in Blocks(hdr)
    BY <1>2, <1>3, <1>4, <1>7, MergeWrites
  <2> QED BY <1>4, <2>1, OutsideLive
<1>8. CASE m[a] = hdr[a]
  <2>1. a \in Blocks(m) \/ ((b + size) + HeaderSize <= a /\ a < EndOf(m, b))
    <3>1. b \in Blocks(m)
      BY <1>4, <1>5
    <3> QED BY <1>4, <1>5, <1>8, <3>1, Occupied
  <2>2. CASE a \in Blocks(m)
    BY <1>4, <1>5, <2>2, OutsideLive
  <2>3. CASE (b + size) + HeaderSize <= a /\ a < EndOf(m, b)
    <3>1. c <= a /\ a < EndOf(hdr, c)
      BY <1>4, <1>5, <1>6, <2>3, HeapAssumption, SMT DEF EndOf
    <3>2. c # p - HeaderSize
      BY <1>4, LiveFacts
    <3> QED BY <1>4, <3>1, <3>2, OutsideLive
  <2> QED BY <2>1, <2>2, <2>3
<1> QED BY <1>7, <1>8

LEMMA MergeUntouched ==
  ASSUME IInv, MergeForward \/ MergeBackward, NEW p \in DOMAIN live, NEW a \in Addr,
         hdr'[a] # hdr[a]
  PROVE  a < p \/ p + live[p] <= a
<1>1. WellLinked(hdr) /\ LiveInv /\ current \in Blocks(hdr)
  BY DEF IInv, ControlInv, MergeForward, MergeBackward
<1>2. a \in Blocks(hdr)
  <2>1. CASE MergeForward
    BY <1>1, <2>1, MergeWrites DEF MergeForward, Mergeable, NextHeader
  <2>2. CASE MergeBackward
    <3>1. PICK b : b = hdr[current].previous
      OBVIOUS
    <3>2. b # Null /\ b \in Blocks(hdr) /\ hdr[b].next = current /\ current # Null
      <4>1. b # Null
        BY <2>2, <3>1 DEF MergeBackward, Mergeable, PreviousHeader
      <4>2. current \in Addr
        BY <1>1, BlockFacts
      <4> QED BY <1>1, <3>1, <4>1, <4>2, HeapFacts DEF WellLinked, Linked
    <3>3. hdr' = MergeBlocks(hdr, b, hdr[b].next)
      BY <2>2, <3>1, <3>2 DEF MergeBackward, PreviousHeader
    <3> QED BY <1>1, <3>2, <3>3, MergeWrites
  <2> QED BY <2>1, <2>2
<1> QED BY <1>1, <1>2, OutsideLive

\* The allocator writes into no byte that somebody holds, before and after the
\* step: every header it writes is one of the list, or within a free block, as
\* long as no page-aligned request leaves a stale link.
THEOREM OnlyHoldersWrite == Spec /\ []Untangled => PayloadsUntouched
<1>1. ASSUME IInv, Untangled', [Next]_vars, ~Use, ~UNCHANGED vars, NEW p \in DOMAIN live,
             NEW a \in Addr, hdr'[a] # hdr[a], p \in DOMAIN live'
      PROVE  a < p \/ p + live[p] <= a
  <2>0. WellLinked(hdr) /\ LiveInv
    BY <1>1 DEF IInv
  <2>1. ASSUME NEW r, MarkFree(r), r - HeaderSize \in Addr
        PROVE  a < p \/ p + live[p] <= a
    <3>1. a = r - HeaderSize /\ hdr[a].magic = "used"
      BY <1>1, <2>0, <2>1 DEF MarkFree, IsUsed, WellLinked
    <3>2. a \in Blocks(hdr)
      BY <2>0, <3>1 DEF WellLinked, Leftover, Junk
    <3> QED BY <1>1, <2>0, <3>2, OutsideLive
  <2>2. CASE Release
    <3>1. PICK r \in Pointers : FreeInvalid(r) \/ FreeUnused(r) \/ Free(r)
      BY <2>2 DEF Release
    <3>2. r - HeaderSize \in Addr
      BY HeapAssumption, SMT DEF Pointers, Addr, HeapEnd
    <3> QED BY <1>1, <2>1, <3>1, <3>2 DEF FreeInvalid, FreeUnused, Free, Stop, vars
  <2>3. CASE Reallocate
    BY <1>1, <2>3, GrowUntouched
       DEF Reallocate, KreallocInvalid, KreallocFits, KreallocMove, StartSearch, Stop
  <2>4. CASE ReleaseOld
    <3>1. moving \in DOMAIN live
      BY <1>1, <2>4 DEF ReleaseOld, IInv, ControlInv
    <3>2. moving - HeaderSize \in Addr
      BY <2>0, <3>1, LiveFacts
    <3> QED BY <2>1, <2>4, <3>2 DEF ReleaseOld
  <2>7. CASE TakeAligned
    <3>1. LinkRenewed
      BY <1>1, <2>7 DEF TakeAligned, Finish, Untangled
    <3> QED BY <1>1, <2>7, <3>1, TakeAlignedUntouched
  <2>5. CASE Running /\ ~ReleaseOld
    BY <1>1, <2>0, <2>5, <2>7, TakeUntouched, MergeUntouched
       DEF Running, SkipUsed, NoUnusedBlocks, FoundUnused, Scan, OutOfSpace, OutOfSpaceAligned,
           AlignFirstBlock, AlignSmears, AlignEscapes, EndForward, EndBackward, Stop
  <2>6. CASE Allocate \/ Halted
    BY <1>1, <2>6 DEF Allocate, Kmalloc, KmallocA, StartSearch, Halted, vars
  <2> QED BY <1>1, <2>2, <2>3, <2>4, <2>5, <2>6 DEF Next
<1>2. IInv /\ Untangled' /\ [Next]_vars =>
        [Use \/ \A p \in DOMAIN live \cap DOMAIN live' : \A a \in Addr :
           hdr'[a] # hdr[a] => a < p \/ p + live[p] <= a]_vars
  BY <1>1
<1> QED BY <1>2, Invariance, PTL DEF Spec, PayloadsUntouched

----------------------------------------------------------------------------
(* Page-aligned memory *)

\* What the provers need to know of products.
LEMMA ProductSteps ==
  ASSUME NEW n \in Nat \ {0}, NEW x \in Nat, NEW y \in Nat
  PROVE  /\ n * (x + 1) = n * x + n
         /\ n * x \in Nat
         /\ x <= y => n * x <= n * y
BY SMT

\* Adding what is missing to the next multiple of Page gives that multiple.
LEMMA NextPage ==
  ASSUME NEW m \in Nat
  PROVE  (m + (Page - (m % Page))) % Page = 0
<1>1. PICK q \in Nat : m = Page * q + (m % Page) /\ m % Page \in Nat
  <2>1. m \div Page \in Nat /\ m = Page * (m \div Page) + (m % Page) /\ m % Page \in Nat
    BY PageAssumption, SMT
  <2> QED BY <2>1
<1>2. PICK k \in Nat : k = q + 1
  BY <1>1
<1>3. PICK sum \in Nat : sum = Page * k
  BY PageAssumption, ProductSteps
<1>4. m + (Page - (m % Page)) = sum
  <2>1. Page * k = Page * q + Page /\ Page * q \in Nat
    BY <1>2, PageAssumption, ProductSteps
  <2> DEFINE low == Page * q
             rest == m % Page
  <2>2. m = low + rest /\ sum = low + Page /\ low \in Nat /\ rest \in Nat
    BY <1>1, <1>3, <2>1
  <2> HIDE DEF low, rest
  <2>3. m + (Page - rest) = sum
    BY <2>2, PageAssumption, SMT
  <2> QED BY <2>3 DEF rest
<1>5. PICK d \in Nat, r \in Nat : sum = Page * d + r /\ r < Page /\ r = sum % Page
  <2>1. /\ sum \div Page \in Nat /\ sum = Page * (sum \div Page) + (sum % Page)
        /\ sum % Page \in Nat /\ sum % Page < Page
    BY <1>3, PageAssumption, SMT
  <2> QED BY <2>1
<1>6. PICK low \in Nat : low = Page * d
  BY <1>5, PageAssumption, ProductSteps
<1>7. CASE d < k
  <2>1. Page * (d + 1) <= Page * k /\ Page * (d + 1) = low + Page
    <3>1. d + 1 \in Nat /\ d + 1 <= k
      BY <1>2, <1>5, <1>7
    <3> QED BY <1>2, <1>5, <1>6, <3>1, PageAssumption, ProductSteps
  <2>2. low + Page <= sum
    BY <1>3, <2>1
  <2>3. sum = low + r /\ r < Page
    BY <1>5, <1>6
  <2> QED BY <1>3, <1>5, <1>6, <2>2, <2>3, PageAssumption, SMT
<1>8. CASE k <= d
  <2>1. sum <= low
    BY <1>2, <1>3, <1>5, <1>6, <1>8, PageAssumption, ProductSteps
  <2>2. sum = low + r
    BY <1>5, <1>6
  <2>3. r = 0
    BY <1>3, <1>5, <1>6, <2>1, <2>2
  <2> QED BY <1>4, <1>5, <2>3
<1> QED BY <1>2, <1>5, <1>7, <1>8

\* A page-aligned request, whatever its size and whatever block is taken, is
\* answered at a page boundary; with room behind it the region is in the heap
\* and was nobody's.  The live blocks keep their links until a header is moved
\* whose block has another behind it and is not split.
THEOREM AlignedRegionsFit == Spec => PagesKept
<1>1. ASSUME IInv, TakeAligned
      PROVE  \E p \in Pointers :
               /\ p % Page = 0
               /\ live' = Hold(p, sz)
               /\ HasRoom =>
                    /\ p + sz <= HeapEnd
                    /\ \A q \in DOMAIN live :
                         p + sz <= q - HeaderSize \/ q + live[q] <= p - HeaderSize
  <2>1. PICK p : p = HeaderPos + HeaderSize
    OBVIOUS
  <2>2. p \in Pointers /\ live' = Hold(p, sz) /\ sz \in Requests
    BY <1>1, <2>1, AlignedTypes DEF TakeAligned
  <2>3. p % Page = 0
    <3>1. PICK m : m = MemAddress
      OBVIOUS
    <3>2. PICK low : low = m % Page
      OBVIOUS
    <3>3. m \in Nat /\ low \in Nat
      <4>1. m \in Nat
        BY <1>1, <3>1, AlignedTypes
      <4> QED BY <3>2, <4>1, PageAssumption, SMT
    <3>4. best \in Nat /\ HeaderPos = best + Distance
      <4>1. WellLinked(hdr) /\ best \in Blocks(hdr)
        BY <1>1 DEF IInv, ControlInv, TakeAligned, SearchDone
      <4> QED BY <1>1, <4>1, AlignedTypes, BlockFacts, HeapFacts
    <3>5. m = best + HeaderSize /\ Distance = Page - low
      BY <3>1, <3>2 DEF MemAddress, Distance
    <3>6. p = m + (Page - low)
      BY <2>1, <3>3, <3>4, <3>5, HeapAssumption, PageAssumption, SMT
    <3> QED BY <3>2, <3>3, <3>6, NextPage
  <2>4. ASSUME HasRoom
        PROVE  /\ p + sz <= HeapEnd
               /\ \A q \in DOMAIN live :
                    p + sz <= q - HeaderSize \/ q + live[q] <= p - HeaderSize
    <3>1. /\ WellLinked(hdr) /\ LiveInv /\ best \in Blocks(hdr) /\ hdr[best].magic = "free"
          /\ Distance \in Nat /\ HeaderSize <= Distance /\ Distance <= hdr[best].size
          /\ RoomLeft = hdr[best].size - Distance /\ sz <= RoomLeft /\ sz \in Nat
      BY <1>1, <2>4, AlignedRoom
    <3>2. PICK d \in Nat : d = Distance
      BY <3>1
    <3>3. /\ best \in Nat /\ hdr[best].size \in Nat /\ EndOf(hdr, best) \in Nat
          /\ EndOf(hdr, best) = best + HeaderSize + hdr[best].size
          /\ EndOf(hdr, best) <= HeapEnd
      BY <3>1, BlockFacts, HeapFacts DEF EndOf
    <3>4. p = best + d + HeaderSize /\ p + sz <= EndOf(hdr, best) /\ best <= p - HeaderSize /\ p \in Nat
      <4>1. p = best + d + HeaderSize
        BY <2>1, <3>2, <3>3, HeapAssumption, SMT DEF HeaderPos
      <4>2. d + sz <= hdr[best].size
        BY <3>1, <3>2, <3>3
      <4> QED BY <3>1, <3>3, <4>1, <4>2, HeapAssumption, SMT
    <3>5. p + sz <= HeapEnd
      BY <3>1, <3>3, <3>4, HeapFacts
    <3>6. ASSUME NEW q \in DOMAIN live
          PROVE  p + sz <= q - HeaderSize \/ q + live[q] <= p - HeaderSize
      <4>1. PICK own : own = q - HeaderSize
        OBVIOUS
      <4>2. /\ own \in Blocks(hdr) /\ own \in Nat /\ own + HeaderSize = q /\ q \in Nat
            /\ live[q] \in Nat /\ live[q] <= hdr[own].size /\ own # best
        BY <3>1, <4>1, LiveFacts, HeapFacts
      <4>3. hdr[own].size \in Nat /\ EndOf(hdr, own) = own + HeaderSize + hdr[own].size
        BY <3>1, <4>2, BlockFacts DEF EndOf
      <4>4. (own < best => EndOf(hdr, own) <= best) /\ (best < own => EndOf(hdr, best) <= own)
        BY <3>1, <4>2 DEF WellLinked
      <4>5. q + live[q] <= EndOf(hdr, own)
        BY <4>2, <4>3, HeapAssumption, SMT
      <4>6. CASE own < best
        <5>1. EndOf(hdr, own) <= best /\ EndOf(hdr, own) \in Nat
          BY <4>2, <4>3, <4>4, <4>6, HeapAssumption, SMT
        <5>2. q + live[q] <= best
          BY <3>3, <4>2, <4>5, <5>1
        <5> QED BY <3>3, <3>4, <4>2, <5>2, HeapAssumption, SMT
      <4>7. CASE best < own
        BY <3>1, <3>3, <3>4, <4>1, <4>2, <4>4, <4>7, HeapAssumption, SMT
      <4> QED BY <3>3, <4>2, <4>6, <4>7
    <3> QED BY <3>5, <3>6
  <2> QED BY <2>2, <2>3, <2>4
<1>2. TakeAligned => Untangled
  BY DEF TakeAligned, SearchDone, Untangled
<1>3. (Untangled => IInv) /\ (Untangled' => LiveLinksAgree') /\ [Next]_vars =>
        [/\ Untangled' => LiveLinksAgree'
         /\ TakeAligned => \E p \in Pointers :
              /\ p % Page = 0
              /\ live' = Hold(p, sz)
              /\ HasRoom =>
                   /\ p + sz <= HeapEnd
                   /\ \A q \in DOMAIN live :
                        p + sz <= q - HeaderSize \/ q + live[q] <= p - HeaderSize]_vars
  BY <1>1, <1>2
<1> QED BY <1>3, LinksAgree, Invariance, PTL DEF Spec, PagesKept
=============================================================================
