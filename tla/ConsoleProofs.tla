---------------------------- MODULE ConsoleProofs ----------------------------
(* Console keeps to the video memory and implements Terminal, for every      *)
(* size of the screen, and what printf prints can be read back as its        *)
(* arguments, for words of every size.                                       *)
EXTENDS Printing, SequenceTheorems, FiniteSetTheorems, NaturalsInduction, WellFoundedInduction, TLAPS

Cell == [char : Char, attr : {Dark, White}]

Screens == [cells : [Cells -> Cell], line : 0 .. Height - 1, column : 0 .. Width,
            vbuf : Nat, stray : {{}}]

\* Nothing has been written below the current line.
BelowIsClear(s) == \A a \in Cells : a >= Width * (s.line + 1) => s.cells[a] = Zero

ScreenOK(s) ==
  /\ s \in Screens
  /\ s.vbuf = Width * s.line + s.column
  /\ BelowIsClear(s)

Row == [0 .. Width - 1 -> Char \cup {"blank"}]

----------------------------------------------------------------------------
(* Addresses *)

\* Lines lie behind one another.
LEMMA LineOrder ==
  ASSUME NEW i \in Nat, NEW j \in Nat, i < j
  PROVE  Width * i + Width <= Width * j
<1>1. PICK k \in Nat : j = i + 1 + k
  BY SMT
<1>2. Width \in Nat
  BY ConsoleAssumption
<1>3. Width * j = Width * i + Width + Width * k
  BY <1>1, <1>2, SMT
<1>4. Width * k >= 0 /\ Width * i \in Nat /\ Width * j \in Nat /\ Width * k \in Nat
  BY <1>2, SMT
<1> QED
  BY <1>2, <1>3, <1>4, SMT

\* Every column of every line is a cell.
LEMMA AddressInCells ==
  ASSUME NEW r \in 0 .. Height - 1, NEW c \in 0 .. Width - 1
  PROVE  /\ Width * r + c \in Cells
         /\ Width * r \in Nat
         /\ Width * (r + 1) = Width * r + Width
<1>1. Width \in Nat \ {0} /\ Height \in Nat \ {0}
  BY ConsoleAssumption
<1>2. Width * r + Width <= Width * Height
  BY <1>1, LineOrder, SMT
<1>3. Width * r \in Nat /\ Width * Height \in Nat /\ Width * (r + 1) = Width * r + Width
  BY <1>1, SMT
<1> QED
  BY <1>1, <1>2, <1>3, SMT DEF Cells

\* The same of a line's first column, and of the line behind it.
LEMMA LineStart ==
  ASSUME NEW r \in 0 .. Height - 1
  PROVE  Width * r \in Nat /\ Width * (r + 1) = Width * r + Width
<1>1. 0 \in 0 .. Width - 1
  BY ConsoleAssumption
<1> QED
  BY <1>1, AddressInCells

\* No two columns of the screen share a cell.
LEMMA AddressesDiffer ==
  ASSUME NEW r \in Nat, NEW q \in Nat, NEW c \in 0 .. Width - 1, NEW d \in 0 .. Width - 1,
         Width * r + c = Width * q + d
  PROVE  r = q /\ c = d
<1>1. Width \in Nat \ {0} /\ Width * r \in Nat /\ Width * q \in Nat
  BY ConsoleAssumption, SMT
<1>2. ~ r < q
  BY <1>1, LineOrder, SMT
<1>3. ~ q < r
  BY <1>1, LineOrder, SMT
<1>4. r = q
  BY <1>2, <1>3, SMT
<1> QED
  BY <1>1, <1>4, SMT

----------------------------------------------------------------------------
(* Rows *)

LEMMA RowEqual ==
  ASSUME NEW x \in Row, NEW y \in Row, \A c \in 0 .. Width - 1 : x[c] = y[c]
  PROVE  x = y
<1>1. x = [c \in 0 .. Width - 1 |-> x[c]] /\ y = [c \in 0 .. Width - 1 |-> y[c]]
  BY DEF Row
<1> QED
  BY <1>1, Zenon

\* The rows of a screen are a sequence of as many lines as are in use.
LEMMA RowsAreRows ==
  ASSUME NEW s, ScreenOK(s)
  PROVE  /\ RowsOf(s) \in Seq(Row)
         /\ Len(RowsOf(s)) = s.line + 1
         /\ RowsOf(s) \in [1 .. s.line + 1 -> Row]
         /\ \A r \in 1 .. s.line + 1 :
              \A c \in 0 .. Width - 1 : RowsOf(s)[r][c] = Seen(s.cells[Width * (r - 1) + c])
<1>1. s.line \in 0 .. Height - 1 /\ Height \in Nat /\ s.cells \in [Cells -> Cell]
  BY ConsoleAssumption DEF ScreenOK, Screens
<1>2. \A r \in 1 .. s.line + 1 :
        [c \in 0 .. Width - 1 |-> Seen(s.cells[Width * (r - 1) + c])] \in Row
  <2> TAKE r \in 1 .. s.line + 1
  <2>1. \A c \in 0 .. Width - 1 : Width * (r - 1) + c \in Cells
    BY <1>1, AddressInCells
  <2> QED
    BY <1>1, <2>1 DEF Row, Seen, Cell
<1>3. RowsOf(s) \in [1 .. s.line + 1 -> Row]
  BY <1>2 DEF RowsOf
<1>4. RowsOf(s) \in Seq(Row)
  BY <1>1, <1>3, SeqDef
<1>5. DOMAIN RowsOf(s) = 1 .. Len(RowsOf(s)) /\ Len(RowsOf(s)) \in Nat
  BY <1>4, LenProperties
<1>6. Len(RowsOf(s)) = s.line + 1
  BY <1>1, <1>3, <1>5
<1> QED
  BY <1>1, <1>3, <1>4, <1>6 DEF RowsOf

----------------------------------------------------------------------------
(* The operations on the screen are those on the rows *)

LEMMA ScreenFields ==
  ASSUME NEW s, ScreenOK(s)
  PROVE  s = [cells |-> s.cells, line |-> s.line, column |-> s.column, vbuf |-> s.vbuf, stray |-> {}]
<1>1. s \in Screens
  BY DEF ScreenOK
<1>2. s.stray = {}
  BY <1>1 DEF Screens
<1>3. s = [cells |-> s.cells, line |-> s.line, column |-> s.column, vbuf |-> s.vbuf, stray |-> s.stray]
  BY <1>1 DEF Screens
<1> QED
  BY <1>2, <1>3

LEMMA ReturnKeepsRows ==
  ASSUME NEW s, ScreenOK(s), NEW t, t = place_cursor([s EXCEPT !.column = 0])
  PROVE  ScreenOK(t) /\ RowsOf(t) = RowsOf(s) /\ t.column = 0
<1>1. Width * s.line \in Nat /\ 0 \in 0 .. Width
  BY ConsoleAssumption DEF ScreenOK, Screens
<1> DEFINE u == [s EXCEPT !.column = 0]
<1>2. u = [cells |-> s.cells, line |-> s.line, column |-> 0, vbuf |-> s.vbuf, stray |-> {}]
  BY ScreenFields
<1>3. t = [u EXCEPT !.vbuf = Width * u.line + u.column]
  BY DEF place_cursor
<1>4. t = [cells |-> s.cells, line |-> s.line, column |-> 0,
           vbuf |-> Width * s.line + 0, stray |-> {}]
  BY <1>2, <1>3
<1>5. t \in Screens
  BY <1>1, <1>4 DEF ScreenOK, Screens
<1>6. BelowIsClear(t)
  BY <1>4 DEF ScreenOK, BelowIsClear
<1>7. RowsOf(t) = RowsOf(s)
  BY <1>4 DEF RowsOf
<1> QED
  BY <1>4, <1>5, <1>6, <1>7 DEF ScreenOK

\* A character goes to the column it is meant for, and to no other cell.
LEMMA KputcWrites ==
  ASSUME NEW s, ScreenOK(s), s.column < Width, NEW char \in Char, NEW t, t = kputc(s, char)
  PROVE  /\ ScreenOK(t)
         /\ RowsOf(t) = Paper!WriteAt(RowsOf(s), s.column, char)
         /\ t.column = s.column + 1
<1>1. /\ s.line \in 0 .. Height - 1 /\ s.column \in 0 .. Width - 1
      /\ Width \in Nat \ {0} /\ Height \in Nat \ {0}
      /\ s.cells \in [Cells -> Cell] /\ s.stray = {}
  BY ConsoleAssumption DEF ScreenOK, Screens
<1> DEFINE a == Width * s.line + s.column
           new == [char |-> char, attr |-> White]
<1>2. a \in Cells /\ Width * s.line \in Nat /\ Width * (s.line + 1) = Width * s.line + Width
  BY <1>1, AddressInCells
<1>3. s.vbuf = a
  BY DEF ScreenOK
<1>4. new \in Cell
  BY DEF Cell
<1>5. t = [cells |-> [s.cells EXCEPT ![a] = new], line |-> s.line, column |-> s.column + 1,
           vbuf |-> Width * s.line + (s.column + 1), stray |-> {}]
  BY <1>1, <1>2, <1>3 DEF kputc, place_cursor, ScreenOK, Screens
<1>6. [s.cells EXCEPT ![a] = new] \in [Cells -> Cell]
  BY <1>1, <1>2, <1>4
<1>7. t \in Screens
  BY <1>1, <1>2, <1>5, <1>6 DEF Screens
<1>8. BelowIsClear(t)
  <2> SUFFICES ASSUME NEW b \in Cells, b >= Width * (s.line + 1)
               PROVE  t.cells[b] = Zero
    BY <1>5 DEF BelowIsClear
  <2>1. b # a
    BY <1>1, <1>2 DEF Cells
  <2> QED
    BY <1>1, <1>5, <2>1 DEF ScreenOK, BelowIsClear
<1>9. ScreenOK(t)
  BY <1>5, <1>7, <1>8 DEF ScreenOK
<1>10. RowsOf(t) = Paper!WriteAt(RowsOf(s), s.column, char)
  <2> DEFINE p == Paper!WriteAt(RowsOf(s), s.column, char)
             n == s.line + 1
  <2>1. p = [RowsOf(s) EXCEPT ![n] = [RowsOf(s)[n] EXCEPT ![s.column] = char]]
    BY RowsAreRows DEF Paper!WriteAt
  <2>2. /\ RowsOf(s) \in [1 .. n -> Row] /\ RowsOf(t) \in [1 .. n -> Row]
    <3>1. t.line = s.line
      BY <1>5
    <3> QED
      BY <1>9, <3>1, RowsAreRows
  <2>3. ASSUME NEW r \in 1 .. n, NEW c \in 0 .. Width - 1
        PROVE  RowsOf(t)[r][c] = IF r = n /\ c = s.column THEN char ELSE RowsOf(s)[r][c]
    <3>1. r - 1 \in 0 .. Height - 1 /\ r - 1 \in Nat /\ s.line \in Nat
      BY <1>1
    <3>2. Width * (r - 1) + c \in Cells
      BY <3>1, AddressInCells
    <3>3. Width * (r - 1) + c = Width * s.line + s.column => r - 1 = s.line /\ c = s.column
      BY <1>1, <3>1, AddressesDiffer
    <3>33. Width * (r - 1) + c = a <=> r = n /\ c = s.column
      <4>1. r = n => r - 1 = s.line
        BY <3>1
      <4>2. r - 1 = s.line => r = n
        BY <3>1
      <4> QED
        BY <3>3, <4>1, <4>2
    <3>44. t.line + 1 = n
      BY <1>5
    <3>4. RowsOf(t)[r][c] = Seen(t.cells[Width * (r - 1) + c])
      BY <1>9, <3>44, RowsAreRows
    <3>5. RowsOf(s)[r][c] = Seen(s.cells[Width * (r - 1) + c])
      BY RowsAreRows
    <3>6. t.cells[Width * (r - 1) + c]
            = IF Width * (r - 1) + c = a THEN new ELSE s.cells[Width * (r - 1) + c]
      BY <1>1, <1>5, <3>2
    <3>7. Seen(new) = char
      BY DEF Seen, Dark, White
    <3> QED
      BY <3>33, <3>4, <3>5, <3>6, <3>7
  <2>4. n \in 1 .. n
    BY <1>1
  <2>5. p \in [1 .. n -> Row]
    <3>1. [RowsOf(s)[n] EXCEPT ![s.column] = char] \in Row
      BY <1>1, <2>2, <2>4 DEF Row
    <3> QED
      BY <2>1, <2>2, <2>4, <3>1
  <2>6. ASSUME NEW r \in 1 .. n
        PROVE  RowsOf(t)[r] = p[r]
    <3>1. RowsOf(t)[r] \in Row /\ p[r] \in Row
      BY <2>2, <2>5
    <3>2. \A c \in 0 .. Width - 1 : RowsOf(t)[r][c] = p[r][c]
      BY <1>1, <2>1, <2>2, <2>3 DEF Row
    <3> QED
      BY <3>1, <3>2, RowEqual
  <2>7. p = [r \in 1 .. n |-> p[r]] /\ RowsOf(t) = [r \in 1 .. n |-> RowsOf(t)[r]]
    BY <2>2, <2>5
  <2> QED
    BY <2>6, <2>7, Zenon
<1> QED
  BY <1>5, <1>9, <1>10

\* Going to the next line takes a fresh line, or the first one away.
LEMMA NextLineFeeds ==
  ASSUME NEW s, ScreenOK(s), NEW t, t = next_line(s)
  PROVE  /\ ScreenOK(t)
         /\ RowsOf(t) = Paper!Feed(RowsOf(s))
         /\ t.column = 0
<1>1. /\ s.line \in 0 .. Height - 1
      /\ Width \in Nat \ {0} /\ Height \in Nat \ {0}
      /\ s.cells \in [Cells -> Cell] /\ s.stray = {}
  BY ConsoleAssumption DEF ScreenOK, Screens
<1>2. Len(RowsOf(s)) = s.line + 1 /\ RowsOf(s) \in Seq(Row)
  BY RowsAreRows
<1> DEFINE fresh == Paper!BlankLine
<1>3. fresh \in Row /\ \A c \in 0 .. Width - 1 : fresh[c] = "blank"
  BY DEF Paper!BlankLine, Paper!Columns, Row
<1>4. Seen(Zero) = "blank" /\ Zero \in Cell
  BY DEF Seen, Zero, Cell, Char
<1>5. CASE s.line + 1 < Height
  <2>1. t = [cells |-> s.cells, line |-> s.line + 1, column |-> 0,
             vbuf |-> Width * (s.line + 1) + 0, stray |-> {}]
    <3> DEFINE u == [s EXCEPT !.line = @ + 1, !.column = 0]
    <3>1. u = [cells |-> s.cells, line |-> s.line + 1, column |-> 0, vbuf |-> s.vbuf, stray |-> {}]
      <4> DEFINE v == [s EXCEPT !.line = @ + 1]
      <4>1. v = [cells |-> s.cells, line |-> s.line + 1, column |-> s.column, vbuf |-> s.vbuf,
                 stray |-> {}]
        BY ScreenFields
      <4>2. u = [v EXCEPT !.column = 0]
        BY Zenon
      <4> HIDE DEF v
      <4> QED
        BY <4>1, <4>2
    <3>2. t = place_cursor(u)
      <4>1. ~ (s.line + 1 >= Height)
        BY <1>1, <1>5
      <4> QED
        BY <4>1, Zenon DEF next_line
    <3>3. t = [u EXCEPT !.vbuf = Width * u.line + u.column]
      BY <3>2, Zenon DEF place_cursor
    <3> HIDE DEF u
    <3> QED
      BY <3>1, <3>3
  <2>2. Width * (s.line + 1) \in Nat /\ Width * (s.line + 2) \in Nat
        /\ Width * (s.line + 1) <= Width * (s.line + 2)
    BY <1>1, <1>5, AddressInCells
  <2>3. t \in Screens
    BY <1>1, <1>5, <2>1, <2>2 DEF Screens
  <2>4. BelowIsClear(t)
    <3> SUFFICES ASSUME NEW b \in Cells, b >= Width * (s.line + 1 + 1)
                 PROVE  s.cells[b] = Zero
      BY <2>1 DEF BelowIsClear
    <3>1. s.line + 1 + 1 = s.line + 2
      BY <1>1
    <3>2. b \in Nat /\ b >= Width * (s.line + 1)
      BY <2>2, <3>1 DEF Cells
    <3> QED
      BY <3>2 DEF ScreenOK, BelowIsClear
  <2>5. ScreenOK(t)
    BY <2>1, <2>3, <2>4 DEF ScreenOK
  <2>6. Paper!Feed(RowsOf(s)) = Append(RowsOf(s), fresh)
    BY <1>1, <1>2, <1>5 DEF Paper!Feed
  <2>7. /\ Append(RowsOf(s), fresh) \in Seq(Row)
        /\ Len(Append(RowsOf(s), fresh)) = s.line + 2
        /\ \A r \in 1 .. s.line + 1 : Append(RowsOf(s), fresh)[r] = RowsOf(s)[r]
        /\ Append(RowsOf(s), fresh)[s.line + 2] = fresh
    BY <1>1, <1>2, <1>3, AppendProperties
  <2>8. RowsOf(t) \in Seq(Row) /\ Len(RowsOf(t)) = s.line + 2
    BY <1>1, <2>1, <2>5, RowsAreRows
  <2>9. ASSUME NEW r \in 1 .. s.line + 2
        PROVE  RowsOf(t)[r] = Append(RowsOf(s), fresh)[r]
    <3>1. t.line + 1 = s.line + 2
      BY <1>1, <2>1
    <3>2. \A c \in 0 .. Width - 1 : RowsOf(t)[r][c] = Seen(s.cells[Width * (r - 1) + c])
      BY <2>1, <2>5, <3>1, RowsAreRows
    <3>3. RowsOf(t)[r] \in Row
      BY <2>5, <3>1, <1>1, RowsAreRows
    <3>4. CASE r \in 1 .. s.line + 1
      <4>1. RowsOf(s)[r] \in Row
            /\ \A c \in 0 .. Width - 1 : RowsOf(s)[r][c] = Seen(s.cells[Width * (r - 1) + c])
        BY <1>1, <3>4, RowsAreRows
      <4>2. RowsOf(t)[r] = RowsOf(s)[r]
        BY <3>2, <3>3, <4>1, RowEqual
      <4> QED
        BY <2>7, <3>4, <4>2
    <3>5. CASE r = s.line + 2
      <4>1. ASSUME NEW c \in 0 .. Width - 1
            PROVE  RowsOf(t)[r][c] = "blank"
        <5>1. s.line + 1 \in 0 .. Height - 1 /\ r - 1 = s.line + 1
          BY <1>1, <1>5, <3>5
        <5>2. Width * (s.line + 1) + c \in Cells
          BY <5>1, AddressInCells
        <5>3. Width * (s.line + 1) + c >= Width * (s.line + 1)
          BY <2>2
        <5>4. s.cells[Width * (s.line + 1) + c] = Zero
          BY <5>2, <5>3 DEF ScreenOK, BelowIsClear
        <5> QED
          BY <1>4, <3>2, <5>1, <5>4
      <4>2. RowsOf(t)[r] = fresh
        BY <1>3, <3>3, <4>1, RowEqual
      <4> QED
        BY <2>7, <3>5, <4>2
    <3>6. r \in 1 .. s.line + 1 \/ r = s.line + 2
      BY <1>1
    <3> QED
      BY <3>4, <3>5, <3>6
  <2>10. RowsOf(t) = Append(RowsOf(s), fresh)
    BY <2>7, <2>8, <2>9, SeqEqual
  <2>11. t.column = 0
    BY <2>1
  <2> QED
    BY <2>5, <2>6, <2>10, <2>11, Zenon
<1>6. CASE s.line + 1 = Height
  <2> DEFINE moved == scroll_lines(s.cells, 1)
  <2>1. Width * (Height - 1) \in Nat /\ Width * Height = Width * (Height - 1) + Width
    <3>1. Height - 1 \in 0 .. Height - 1 /\ Height - 1 + 1 = Height
      BY <1>1
    <3>2. Width * (Height - 1 + 1) = Width * (Height - 1) + Width /\ Width * (Height - 1) \in Nat
      BY <3>1, LineStart
    <3> QED
      BY <3>1, <3>2
  <2>2. ASSUME NEW b \in Cells
        PROVE  moved[b] = IF b >= Width * (Height - 1) THEN Zero ELSE s.cells[b + Width]
    <3>1. Width * (1 - 1) = 0 /\ b >= 0
      BY <1>1 DEF Cells
    <3> QED
      BY <3>1 DEF scroll_lines
  <2>3. moved \in [Cells -> Cell]
    <3>1. ASSUME NEW b \in Cells
          PROVE  moved[b] \in Cell
      <4>1. b < Width * (Height - 1) => b + Width \in Cells
        BY <1>1, <2>1 DEF Cells
      <4>2. b \in Nat
        BY <1>1, <2>1 DEF Cells
      <4> QED
        BY <1>1, <1>4, <2>1, <2>2, <4>1, <4>2
    <3>2. moved = [b \in Cells |-> moved[b]]
      BY DEF scroll_lines
    <3> QED
      BY <3>1, <3>2
  <2>4. t = [cells |-> moved, line |-> Height - 1, column |-> 0,
             vbuf |-> Width * (Height - 1) + 0, stray |-> {}]
    <3> DEFINE u == [s EXCEPT !.cells = scroll_lines(@, 1), !.line = Height - 1, !.column = 0]
    <3>1. u = [cells |-> moved, line |-> Height - 1, column |-> 0, vbuf |-> s.vbuf, stray |-> {}]
      <4> DEFINE v == [s EXCEPT !.cells = scroll_lines(@, 1)]
                 w == [v EXCEPT !.line = Height - 1]
      <4>1. v = [cells |-> moved, line |-> s.line, column |-> s.column, vbuf |-> s.vbuf,
                 stray |-> {}]
        BY ScreenFields
      <4>2. u = [w EXCEPT !.column = 0]
        BY Zenon
      <4> HIDE DEF v
      <4>3. w = [cells |-> moved, line |-> Height - 1, column |-> s.column, vbuf |-> s.vbuf,
                 stray |-> {}]
        BY <4>1
      <4> HIDE DEF w
      <4> QED
        BY <4>2, <4>3
    <3>2. t = place_cursor(u)
      <4>1. s.line + 1 >= Height
        BY <1>1, <1>6
      <4> QED
        BY <4>1, Zenon DEF next_line
    <3>3. t = [u EXCEPT !.vbuf = Width * u.line + u.column]
      BY <3>2, Zenon DEF place_cursor
    <3> HIDE DEF u
    <3> QED
      BY <3>1, <3>3
  <2>5. t \in Screens
    BY <1>1, <2>1, <2>3, <2>4 DEF Screens
  <2>6. BelowIsClear(t)
    <3> SUFFICES ASSUME NEW b \in Cells, b >= Width * (Height - 1 + 1)
                 PROVE  moved[b] = Zero
      BY <2>4 DEF BelowIsClear
    <3>1. Height - 1 + 1 = Height
      BY <1>1
    <3>2. b >= Width * (Height - 1)
      BY <1>1, <2>1, <3>1 DEF Cells
    <3> QED
      BY <2>2, <3>2
  <2>7. ScreenOK(t)
    BY <2>4, <2>5, <2>6 DEF ScreenOK
  <2>8. Paper!Feed(RowsOf(s)) = Append(Tail(RowsOf(s)), fresh)
    BY <1>1, <1>2, <1>6 DEF Paper!Feed
  <2>9. /\ Tail(RowsOf(s)) \in Seq(Row) /\ Len(Tail(RowsOf(s))) = Height - 1
        /\ \A r \in 1 .. Height - 1 : Tail(RowsOf(s))[r] = RowsOf(s)[r + 1]
    <3>1. RowsOf(s) # <<>>
      BY <1>1, <1>2, EmptySeq
    <3> QED
      BY <1>1, <1>2, <1>6, <3>1, HeadTailProperties
  <2>10. /\ Append(Tail(RowsOf(s)), fresh) \in Seq(Row)
         /\ Len(Append(Tail(RowsOf(s)), fresh)) = Height
         /\ \A r \in 1 .. Height - 1 : Append(Tail(RowsOf(s)), fresh)[r] = RowsOf(s)[r + 1]
         /\ Append(Tail(RowsOf(s)), fresh)[Height] = fresh
    BY <1>1, <1>3, <2>9, AppendProperties
  <2>11. RowsOf(t) \in Seq(Row) /\ Len(RowsOf(t)) = Height
    BY <1>1, <2>4, <2>7, RowsAreRows
  <2>12. ASSUME NEW r \in 1 .. Height
         PROVE  RowsOf(t)[r] = Append(Tail(RowsOf(s)), fresh)[r]
    <3>1. t.line + 1 = Height /\ t.cells = moved
      BY <1>1, <2>4
    <3>2. /\ RowsOf(t)[r] \in Row
          /\ \A c \in 0 .. Width - 1 : RowsOf(t)[r][c] = Seen(moved[Width * (r - 1) + c])
      <4>1. PICK rows : rows = RowsOf(t)
        OBVIOUS
      <4>2. /\ rows \in [1 .. t.line + 1 -> Row]
            /\ \A q \in 1 .. t.line + 1 :
                 \A c \in 0 .. Width - 1 : rows[q][c] = Seen(t.cells[Width * (q - 1) + c])
        BY <2>7, <4>1, RowsAreRows
      <4>3. r \in 1 .. t.line + 1
        BY <3>1
      <4>4. rows[r] \in Row /\ \A c \in 0 .. Width - 1 : rows[r][c] = Seen(t.cells[Width * (r - 1) + c])
        BY <4>2, <4>3
      <4> QED
        BY <3>1, <4>1, <4>4
    <3>3. CASE r \in 1 .. Height - 1
      <4>1. RowsOf(s)[r + 1] \in Row
            /\ \A c \in 0 .. Width - 1 : RowsOf(s)[r + 1][c] = Seen(s.cells[Width * (r + 1 - 1) + c])
        <5>1. r + 1 \in 1 .. s.line + 1
          BY <1>1, <1>6, <3>3
        <5> QED
          BY <5>1, RowsAreRows
      <4>2. ASSUME NEW c \in 0 .. Width - 1
            PROVE  RowsOf(t)[r][c] = RowsOf(s)[r + 1][c]
        <5>1. r - 1 \in 0 .. Height - 1 /\ r - 1 \in Nat /\ Height - 1 \in Nat /\ r - 1 < Height - 1
              /\ r - 1 + 1 = r /\ r + 1 - 1 = r
          BY <1>1, <3>3
        <5>2. Width * (r - 1) + c \in Cells /\ Width * (r - 1) \in Nat
              /\ Width * r = Width * (r - 1) + Width
          BY <5>1, AddressInCells
        <5>3. Width * (r - 1) + Width <= Width * (Height - 1)
          BY <5>1, LineOrder
        <5>4. ~ Width * (r - 1) + c >= Width * (Height - 1)
          BY <1>1, <2>1, <5>2, <5>3
        <5>5. moved[Width * (r - 1) + c] = s.cells[Width * (r - 1) + c + Width]
          BY <2>2, <5>2, <5>4
        <5>6. Width * (r - 1) + c + Width = Width * (r + 1 - 1) + c
          BY <1>1, <5>1, <5>2
        <5> QED
          BY <3>2, <4>1, <5>5, <5>6
      <4>3. RowsOf(t)[r] = RowsOf(s)[r + 1]
        BY <3>2, <4>1, <4>2, RowEqual
      <4> QED
        BY <2>10, <3>3, <4>3
    <3>4. CASE r = Height
      <4>1. ASSUME NEW c \in 0 .. Width - 1
            PROVE  RowsOf(t)[r][c] = "blank"
        <5>1. Height - 1 \in 0 .. Height - 1
          BY <1>1
        <5>2. Width * (Height - 1) + c \in Cells
          BY <5>1, AddressInCells
        <5>3. Width * (Height - 1) + c >= Width * (Height - 1)
          BY <2>1
        <5> QED
          BY <1>4, <2>2, <3>2, <3>4, <5>2, <5>3
      <4>2. RowsOf(t)[r] = fresh
        BY <1>3, <3>2, <4>1, RowEqual
      <4> QED
        BY <2>10, <3>4, <4>2
    <3>5. r \in 1 .. Height - 1 \/ r = Height
      BY <1>1
    <3> QED
      BY <3>3, <3>4, <3>5
  <2>13. RowsOf(t) = Append(Tail(RowsOf(s)), fresh)
    BY <2>10, <2>11, <2>12, SeqEqual
  <2>14. t.column = 0
    BY <2>4
  <2> QED
    BY <2>7, <2>8, <2>13, <2>14, Zenon
<1> QED
  BY <1>1, <1>5, <1>6

\* A cleared screen is one empty line.
LEMMA ClearIsBlank ==
  ASSUME NEW t, t = ClearScreen({})
  PROVE  ScreenOK(t) /\ RowsOf(t) = <<Paper!BlankLine>> /\ t.column = 0
<1>1. Width \in Nat \ {0} /\ Height \in Nat \ {0} /\ Zero \in Cell /\ Seen(Zero) = "blank"
  BY ConsoleAssumption DEF Zero, Cell, Char, Seen
<1>2. t = [cells |-> [a \in Cells |-> Zero], line |-> 0, column |-> 0, vbuf |-> 0, stray |-> {}]
  BY DEF ClearScreen
<1>3. [a \in Cells |-> Zero] \in [Cells -> Cell]
  BY <1>1
<1>4. t \in Screens
  BY <1>1, <1>2, <1>3 DEF Screens
<1>5. Width * 0 + 0 = 0
  BY <1>1
<1>6. BelowIsClear(t)
  BY <1>2 DEF BelowIsClear
<1>7. ScreenOK(t)
  BY <1>2, <1>4, <1>5, <1>6 DEF ScreenOK
<1>8. RowsOf(t) \in Seq(Row) /\ Len(RowsOf(t)) = 1
      /\ RowsOf(t) \in [1 .. 1 -> Row]
  <2>1. t.line + 1 = 1
    BY <1>2
  <2> QED
    BY <1>7, <2>1, RowsAreRows
<1>9. Paper!BlankLine \in Row /\ \A c \in 0 .. Width - 1 : Paper!BlankLine[c] = "blank"
  BY DEF Paper!BlankLine, Paper!Columns, Row
<1>10. RowsOf(t)[1] = Paper!BlankLine
  <2>1. RowsOf(t)[1] \in Row
    BY <1>8
  <2>2. ASSUME NEW c \in 0 .. Width - 1
        PROVE  RowsOf(t)[1][c] = "blank"
    <3>1. 1 \in 1 .. t.line + 1 /\ 1 - 1 = 0 /\ 0 \in 0 .. Height - 1
      BY <1>1, <1>2
    <3>2. RowsOf(t)[1][c] = Seen(t.cells[Width * (1 - 1) + c])
      BY <1>7, <3>1, RowsAreRows
    <3>3. Width * (1 - 1) + c \in Cells
      BY <3>1, AddressInCells
    <3>4. t.cells[Width * (1 - 1) + c] = Zero
      BY <1>2, <3>3
    <3> QED
      BY <1>1, <3>2, <3>4
  <2> QED
    BY <1>9, <2>1, <2>2, RowEqual
<1>11. <<Paper!BlankLine>> \in Seq(Row) /\ Len(<<Paper!BlankLine>>) = 1
       /\ <<Paper!BlankLine>>[1] = Paper!BlankLine
  BY <1>9
<1>12. RowsOf(t) = <<Paper!BlankLine>>
  <2>1. \A i \in 1 .. Len(RowsOf(t)) : RowsOf(t)[i] = <<Paper!BlankLine>>[i]
    BY <1>8, <1>10, <1>11
  <2> QED
    BY <1>8, <1>11, <2>1, SeqEqual
<1> QED
  BY <1>2, <1>7, <1>12

\* kputchar does to the rows what Terminal's Put does.
LEMMA KputcharPuts ==
  ASSUME NEW s, ScreenOK(s), NEW char \in Char, NEW t, t = kputchar(s, char)
  PROVE  /\ ScreenOK(t)
         /\ CASE char = NewLine -> RowsOf(t) = Paper!Feed(RowsOf(s)) /\ t.column = 0
              [] char = Return -> RowsOf(t) = RowsOf(s) /\ t.column = 0
              [] OTHER ->
                   IF s.column < Width
                   THEN /\ RowsOf(t) = Paper!WriteAt(RowsOf(s), s.column, char)
                        /\ t.column = s.column + 1
                   ELSE /\ RowsOf(t) = Paper!WriteAt(Paper!Feed(RowsOf(s)), 0, char)
                        /\ t.column = 1
<1>1. s.column \in 0 .. Width /\ Width \in Nat \ {0} /\ NewLine # Return
  BY ConsoleAssumption DEF ScreenOK, Screens
<1>2. CASE char = NewLine
  <2>1. t = next_line(s)
    BY <1>1, <1>2 DEF kputchar
  <2> QED
    BY <1>1, <1>2, <2>1, NextLineFeeds
<1>3. CASE char = Return
  <2>1. t = place_cursor([s EXCEPT !.column = 0])
    BY <1>1, <1>3 DEF kputchar
  <2> QED
    BY <1>1, <1>3, <2>1, ReturnKeepsRows
<1>4. CASE char # NewLine /\ char # Return /\ s.column < Width
  <2>1. t = kputc(s, char)
    BY <1>1, <1>4 DEF kputchar
  <2>2. /\ ScreenOK(t)
        /\ RowsOf(t) = Paper!WriteAt(RowsOf(s), s.column, char)
        /\ t.column = s.column + 1
    BY <1>4, <2>1, KputcWrites
  <2> QED
    BY <1>4, <2>2
<1>5. CASE char # NewLine /\ char # Return /\ ~ s.column < Width
  <2> DEFINE u == next_line(s)
  <2>1. t = kputc(u, char)
    BY <1>1, <1>5 DEF kputchar
  <2>2. ScreenOK(u) /\ RowsOf(u) = Paper!Feed(RowsOf(s)) /\ u.column = 0
    BY NextLineFeeds
  <2> HIDE DEF u
  <2>3. u.column < Width
    BY <1>1, <2>2
  <2>4. /\ ScreenOK(t)
        /\ RowsOf(t) = Paper!WriteAt(RowsOf(u), u.column, char)
        /\ t.column = u.column + 1
    BY <2>1, <2>2, <2>3, KputcWrites
  <2> QED
    BY <1>5, <2>2, <2>4
<1> QED
  BY <1>2, <1>3, <1>4, <1>5

----------------------------------------------------------------------------
(* The invariant *)

\* stdout's buffer holds at most the character that is being flushed.
StreamOK ==
  /\ out_buffer \in [0 .. OutSize - 1 -> Char]
  /\ \A k \in 1 .. OutSize - 1 : out_buffer[k] = Nul
  /\ flush \in {NotFlushing, 0, 1}

JobOK ==
  /\ job \in [by : {"idle", "printk", "write", "fault"}, rest : Seq(Char)]
  /\ job.by = "write" => flush = NotFlushing

IInv ==
  /\ ScreenOK(screen)
  /\ StreamOK
  /\ NothingHeldBack
  /\ JobOK

LEMMA InitIInv == Init => IInv
<1> SUFFICES ASSUME Init PROVE IInv
  OBVIOUS
<1>1. ScreenOK(screen)
  BY ClearIsBlank DEF Init
<1>2. StreamOK
  BY ConsoleAssumption DEF Init, StreamOK, EmptyBuffer, Char, NotFlushing
<1>3. NothingHeldBack
  BY DEF Init, NothingHeldBack
<1>4. JobOK
  BY EmptySeq DEF Init, JobOK
<1> QED
  BY <1>1, <1>2, <1>3, <1>4 DEF IInv

\* What is left of a text is a text.
LEMMA RestIsText ==
  ASSUME JobOK, job.rest # <<>>
  PROVE  Head(job.rest) \in Char /\ Tail(job.rest) \in Seq(Char)
<1>1. job.rest \in Seq(Char)
  BY DEF JobOK
<1> QED
  BY <1>1, HeadTailProperties

LEMMA NextIInv == IInv /\ [Next]_vars => IInv'
<1> SUFFICES ASSUME IInv, [Next]_vars PROVE IInv'
  OBVIOUS
<1> USE DEF NotFlushing
<1>1. CASE cleark
  <2>1. ScreenOK(screen')
    BY <1>1, ClearIsBlank DEF cleark, IInv, ScreenOK, Screens
  <2> QED
    BY <1>1, <2>1 DEF cleark, stdout, IInv, StreamOK, NothingHeldBack, JobOK
<1>2. ASSUME NEW by \in {"printk", "write"}, NEW text \in Texts, Begin(by, text)
      PROVE  IInv'
  <2>1. text \in Seq(Char)
    BY ConsoleAssumption
  <2>2. JobOK'
    BY <1>2, <2>1 DEF Begin, Idle, stdout, JobOK
  <2> QED
    BY <1>2, <2>2 DEF Begin, stdout, IInv, StreamOK, NothingHeldBack
<1>3. CASE PutsCharacter
  <2>1. Head(job.rest) \in Char /\ Tail(job.rest) \in Seq(Char)
    BY <1>3, RestIsText DEF PutsCharacter, IInv
  <2>2. flush = NotFlushing /\ write_ptr = 0
    BY <1>3 DEF PutsCharacter, IInv, NothingHeldBack
  <2>3. /\ out_buffer' = [out_buffer EXCEPT ![0] = Head(job.rest)]
        /\ write_ptr' = 1 /\ flush' = 0 /\ screen' = screen
    BY <1>3, <2>2 DEF PutsCharacter, fputc
  <2>4. StreamOK'
    BY <2>1, <2>3, ConsoleAssumption DEF IInv, StreamOK
  <2>5. NothingHeldBack'
    BY <2>3 DEF NothingHeldBack
  <2>6. JobOK'
    BY <1>3, <2>1 DEF PutsCharacter, Left, IInv, JobOK
  <2> QED
    BY <2>3, <2>4, <2>5, <2>6 DEF IInv
<1>4. CASE FlushCharacter
  <2>1. flush = 0 /\ out_buffer[0] \in Char
    BY <1>4, ConsoleAssumption DEF FlushCharacter, IInv, StreamOK
  <2>2. ScreenOK(screen')
    BY <1>4, <2>1, KputcharPuts DEF FlushCharacter, IInv
  <2>3. flush' = 1 /\ out_buffer' = out_buffer /\ write_ptr' = write_ptr /\ job' = job
    BY <1>4, <2>1 DEF FlushCharacter
  <2> QED
    BY <2>1, <2>2, <2>3 DEF IInv, StreamOK, NothingHeldBack, JobOK
<1>5. CASE FlushReturns
  <2>1. StreamOK'
    BY <1>5, ConsoleAssumption DEF FlushReturns, StreamOK, EmptyBuffer, Char
  <2>2. NothingHeldBack'
    BY <1>5 DEF FlushReturns, NothingHeldBack, EmptyBuffer
  <2> QED
    BY <1>5, <2>1, <2>2 DEF FlushReturns, IInv, JobOK
<1>6. CASE WriteCharacter
  <2>1. Head(job.rest) \in Char /\ Tail(job.rest) \in Seq(Char)
    BY <1>6, RestIsText DEF WriteCharacter, IInv
  <2>2. ScreenOK(screen')
    BY <1>6, <2>1, KputcharPuts DEF WriteCharacter, IInv
  <2>3. JobOK'
    BY <1>6, <2>1 DEF WriteCharacter, Left, stdout, IInv, JobOK
  <2> QED
    BY <1>6, <2>2, <2>3 DEF WriteCharacter, stdout, IInv, StreamOK, NothingHeldBack
<1>7. CASE WriteFaults
  <2>1. JobOK'
    BY <1>7, ConsoleAssumption DEF WriteFaults, stdout, JobOK
  <2> QED
    BY <1>7, <2>1 DEF WriteFaults, stdout, IInv, StreamOK, NothingHeldBack
<1>8. CASE Finish
  <2>1. JobOK'
    BY <1>8, EmptySeq DEF Finish, stdout, JobOK
  <2> QED
    BY <1>8, <2>1 DEF Finish, stdout, IInv, StreamOK, NothingHeldBack
<1>9. CASE UNCHANGED vars
  BY <1>9 DEF vars, IInv, StreamOK, NothingHeldBack, JobOK
<1>10. CASE Halt
  BY <1>9, <1>10 DEF Halt
<1> QED
  BY <1>1, <1>2, <1>3, <1>4, <1>5, <1>6, <1>7, <1>8, <1>9, <1>10 DEF Next

LEMMA IInvTypeOK == IInv => TypeOK
<1> SUFFICES ASSUME IInv PROVE TypeOK
  OBVIOUS
<1>1. screen \in Screens
  BY DEF IInv, ScreenOK
<1>2. /\ DOMAIN screen.cells = Cells
      /\ screen.line \in 0 .. Height - 1 /\ screen.column \in 0 .. Width
      /\ \A a \in Cells : screen.cells[a].char \in Char /\ screen.cells[a].attr \in {Dark, White}
  BY <1>1 DEF Screens, Cell
<1>3. /\ DOMAIN out_buffer = 0 .. OutSize - 1
      /\ write_ptr \in 0 .. OutSize
      /\ flush \in {NotFlushing} \cup DOMAIN out_buffer
  BY ConsoleAssumption DEF IInv, StreamOK, NothingHeldBack
<1>4. job.by \in {"idle", "printk", "write", "fault"}
  BY DEF IInv, JobOK
<1> QED
  BY <1>2, <1>3, <1>4 DEF TypeOK

----------------------------------------------------------------------------
(* The theorems *)

\* The screen, stdout and what is being printed fit together at every step.
THEOREM ConsoleInvariance == Spec => []IInv
<1> QED
  BY InitIInv, NextIInv, PTL DEF Spec

\* The cursor keeps to the screen and stdout to its buffer (vga.cpp, stdio.cpp),
\* for every size of both.
THEOREM ConsoleTypeCorrect == Spec => []TypeOK
<1> QED
  BY ConsoleInvariance, IInvTypeOK, PTL

\* kputc never stores outside of the video memory.
THEOREM StaysInVideoMemory == Spec => []NoStray
<1>1. IInv => NoStray
  BY DEF IInv, ScreenOK, Screens, NoStray
<1> QED
  BY <1>1, ConsoleInvariance, PTL

\* fputc leaves nothing in out_buffer behind.
THEOREM StdoutIsFlushed == Spec => []NothingHeldBack
<1>1. IInv => NothingHeldBack
  BY DEF IInv
<1> QED
  BY <1>1, ConsoleInvariance, PTL

\* The console is a terminal, whoever prints and however many lines go by.
THEOREM ConsoleIsTerminal == Spec => IsTerminal
<1>1. Init => Paper!Init
  BY ClearIsBlank DEF Init, Paper!Init, Rows
<1>2. IInv /\ [Next]_vars => [Paper!Next]_(Paper!vars)
  <2> SUFFICES ASSUME IInv, [Next]_vars PROVE [Paper!Next]_(Paper!vars)
    OBVIOUS
  <2>1. ASSUME NEW char \in Char, screen' = kputchar(screen, char)
        PROVE  Paper!Put(char)
    <3>1. ScreenOK(screen)
      BY DEF IInv
    <3> QED
      BY <2>1, <3>1, KputcharPuts DEF Paper!Put, Rows
  <2>2. ASSUME screen' = screen
        PROVE  UNCHANGED Paper!vars
    BY <2>2 DEF Paper!vars, Rows
  <2>3. CASE cleark
    <3>1. screen' = ClearScreen({})
      BY <2>3 DEF cleark, IInv, ScreenOK, Screens
    <3> QED
      BY <3>1, ClearIsBlank DEF Paper!Next, Paper!Clear, Rows
  <2>4. CASE FlushCharacter
    <3>1. out_buffer[flush] \in Char
      BY <2>4, ConsoleAssumption DEF FlushCharacter, IInv, StreamOK, NotFlushing
    <3> QED
      BY <2>1, <2>4, <3>1 DEF FlushCharacter, Paper!Next
  <2>5. CASE WriteCharacter
    <3>1. Head(job.rest) \in Char
      BY <2>5, RestIsText DEF WriteCharacter, IInv
    <3> QED
      BY <2>1, <2>5, <3>1 DEF WriteCharacter, Paper!Next
  <2>6. CASE \E by \in {"printk", "write"}, text \in Texts : Begin(by, text)
    BY <2>2, <2>6 DEF Begin
  <2>7. CASE PutsCharacter \/ FlushReturns \/ WriteFaults \/ Finish \/ Halt \/ UNCHANGED vars
    BY <2>2, <2>7 DEF PutsCharacter, fputc, FlushReturns, WriteFaults, Finish, Halt, vars
  <2> QED
    BY <2>3, <2>4, <2>5, <2>6, <2>7 DEF Next
<1> QED
  BY <1>1, <1>2, ConsoleInvariance, PTL DEF Spec, IsTerminal, Paper!Spec

----------------------------------------------------------------------------
(* Numbers: the text that a number is printed as is read back as the number. *)

\* A set of numbers has a least one.
LEMMA LeastExists ==
  ASSUME NEW S, S \subseteq Nat, S # {}
  PROVE  \E x \in S : \A y \in S : x <= y
<1> DEFINE R == OpToRel(<, Nat)
<1>1. \A x, y \in Nat : y < x => <<y, x>> \in R
  BY DEF OpToRel
<1>2. IsWellFoundedOn(R, Nat)
  BY NatLessThanWellFounded
<1> HIDE DEF R
<1>3. PICK x \in S : \A y \in S : ~ (<<y, x>> \in R)
  BY <1>2, WFMin
<1>4. \A y \in S : ~ (y < x)
  BY <1>1, <1>3
<1>5. \A y \in S : x <= y
  BY <1>4, SMT
<1> QED
  BY <1>5

LEMMA Upward ==
  ASSUME NEW m \in Nat, NEW B, 0 \in B, \A k \in 1 .. m : k - 1 \in B => k \in B
  PROVE  \A k \in 0 .. m : k \in B
<1> DEFINE bad == {k \in 0 .. m : k \notin B}
<1> SUFFICES ASSUME bad # {}
             PROVE  FALSE
  OBVIOUS
<1>1. PICK k \in bad : \A j \in bad : k <= j
  <2>1. bad \subseteq Nat
    OBVIOUS
  <2> HIDE DEF bad
  <2> QED
    BY <2>1, LeastExists
<1>2. k \in 0 .. m /\ k \notin B
  OBVIOUS
<1>3. k \in 1 .. m /\ k - 1 \in 0 .. m /\ ~ (k <= k - 1)
  <2>1. k # 0
    BY <1>2
  <2> QED
    BY <1>2, <2>1, SMT
<1>4. k - 1 \in B
  BY <1>1, <1>3
<1> QED
  BY <1>2, <1>3, <1>4

\* The number read after each of the first m characters.
Reading(text, base, m, f) ==
  f[0] = 0 /\ \A k \in 1 .. m : f[k] = f[k - 1] * base + Printf!Digit(text[k])

\* The fold that reads a text, over the places read so far.
IsFold(text, base, m, f) ==
  f = [s \in SUBSET (1 .. m) |->
         IF s = {} THEN 0
         ELSE f[s \ {Printf!Max(s)}] * base + Printf!Digit(text[Printf!Max(s)])]

LEMMA GreatestOf ==
  ASSUME NEW n \in Nat, NEW s \in SUBSET (1 .. n), n \in s
  PROVE  Printf!Max(s) = n
<1>1. n \in s /\ \A y \in s : n >= y
  OBVIOUS
<1>2. \A x \in s : (\A y \in s : x >= y) => x = n
  BY <1>1
<1> QED
  BY <1>1, <1>2 DEF Printf!Max

LEMMA FoldExists ==
  ASSUME NEW text, NEW base, NEW L \in Nat
  PROVE  \E f : IsFold(text, base, L, f)
<1> DEFINE bad == {n \in Nat : ~\E f : IsFold(text, base, n, f)}
           Next1(d, n) == d * base + Printf!Digit(text[n])
<1> SUFFICES ASSUME bad # {}
             PROVE  FALSE
  OBVIOUS
<1>1. PICK n \in bad : \A m \in bad : n <= m
  <2>1. bad \subseteq Nat
    OBVIOUS
  <2> HIDE DEF bad
  <2> QED
    BY <2>1, LeastExists
<1>2. n \in Nat /\ ~\E f : IsFold(text, base, n, f)
  OBVIOUS
<1>3. CASE n = 0
  <2>1. 1 .. 0 = {}
    BY SMT
  <2> DEFINE f == [s \in SUBSET (1 .. 0) |-> 0]
  <2>2. \A s \in SUBSET (1 .. 0) : s = {} /\ f[s] = 0
    BY <2>1
  <2>3. f = [s \in SUBSET (1 .. 0) |-> f[s]]
    OBVIOUS
  <2> HIDE DEF f
  <2>4. IsFold(text, base, 0, f)
    BY <2>2, <2>3 DEF IsFold
  <2> QED
    BY <1>2, <1>3, <2>4
<1>4. CASE n # 0
  <2>1. n - 1 \in Nat /\ ~(n <= n - 1) /\ n \in 1 .. n
        /\ (\A i \in 1 .. n : i = n \/ i \in 1 .. n - 1)
        /\ n \notin 1 .. n - 1 /\ \A i \in 1 .. n - 1 : i \in 1 .. n
    BY <1>2, <1>4, SMT
  <2>2. PICK f : IsFold(text, base, n - 1, f)
    <3>1. n - 1 \notin bad
      BY <1>1, <2>1
    <3> QED
      BY <2>1, <3>1
  <2>3. \A s \in SUBSET (1 .. n - 1) :
          f[s] = IF s = {} THEN 0 ELSE Next1(f[s \ {Printf!Max(s)}], Printf!Max(s))
    BY <2>2 DEF IsFold
  <2> HIDE DEF Next1
  <2> DEFINE g == [s \in SUBSET (1 .. n) |->
                     IF n \in s THEN Next1(f[s \ {n}], n) ELSE f[s]]
  <2>4. /\ \A s \in SUBSET (1 .. n) : g[s] = IF n \in s THEN Next1(f[s \ {n}], n) ELSE f[s]
        /\ g = [s \in SUBSET (1 .. n) |-> g[s]]
    OBVIOUS
  <2> HIDE DEF g
  <2>5. ASSUME NEW s \in SUBSET (1 .. n)
        PROVE  g[s] = IF s = {} THEN 0 ELSE Next1(g[s \ {Printf!Max(s)}], Printf!Max(s))
    <3>1. CASE n \in s
      <4>1. Printf!Max(s) = n
        BY <1>2, <3>1, GreatestOf
      <4>2. s \ {n} \in SUBSET (1 .. n) /\ n \notin s \ {n} /\ s # {}
        BY <3>1
      <4>3. g[s \ {n}] = f[s \ {n}]
        BY <2>4, <4>2
      <4> QED
        BY <2>4, <3>1, <4>1, <4>2, <4>3
    <3>2. CASE n \notin s
      <4>1. s \in SUBSET (1 .. n - 1)
        BY <2>1, <3>2
      <4> DEFINE t == s \ {Printf!Max(s)}
      <4>2. t \in SUBSET (1 .. n) /\ n \notin t
        BY <3>2
      <4>3. g[t] = f[t] /\ g[s] = f[s]
        <5> HIDE DEF t
        <5> QED
          BY <2>4, <3>2, <4>2
      <4> QED
        BY <2>3, <4>1, <4>3
    <3> QED
      BY <3>1, <3>2
  <2>6. IsFold(text, base, n, g)
    BY <2>4, <2>5 DEF IsFold, Next1
  <2> QED
    BY <1>2, <2>6
<1> QED
  BY <1>3, <1>4

LEMMA SizeReads ==
  ASSUME NEW text, NEW base, NEW m \in Nat, DOMAIN text = 1 .. m
  PROVE  \E f : Reading(text, base, m, f) /\ Printf!Size(text, base) = f[m]
<1> DEFINE w == CHOOSE f : IsFold(text, base, m, f)
<1>1. Printf!Size(text, base) = w[1 .. m]
  <2>1. Printf!Size(text, base) =
          (CHOOSE f : f = [s \in SUBSET (DOMAIN text) |->
             IF s = {} THEN 0
             ELSE f[s \ {Printf!Max(s)}] * base + Printf!Digit(text[Printf!Max(s)])])[DOMAIN text]
    BY DEF Printf!Size, Printf!FoldLeft, Printf!MapThenFoldSet
  <2> QED
    BY <2>1 DEF IsFold
<1>2. IsFold(text, base, m, w)
  BY FoldExists
<1> HIDE DEF w
<1>3. \A s \in SUBSET (1 .. m) :
        w[s] = IF s = {} THEN 0
               ELSE w[s \ {Printf!Max(s)}] * base + Printf!Digit(text[Printf!Max(s)])
  BY <1>2 DEF IsFold
<1> DEFINE f == [k \in 0 .. m |-> w[1 .. k]]
<1>4. f[0] = 0
  <2>1. 1 .. 0 = {} /\ 0 \in 0 .. m
    BY SMT
  <2>2. w[{}] = 0
    BY <1>3
  <2> QED
    BY <2>1, <2>2
<1>5. ASSUME NEW k \in 1 .. m
      PROVE  f[k] = f[k - 1] * base + Printf!Digit(text[k])
  <2>1. /\ k \in Nat /\ k \in 1 .. k /\ 1 .. k \in SUBSET (1 .. m) /\ (1 .. k) \ {k} = 1 .. k - 1
        /\ k \in 0 .. m /\ k - 1 \in 0 .. m
    BY SMT
  <2>2. Printf!Max(1 .. k) = k
    BY <2>1, GreatestOf
  <2>3. w[1 .. k] = w[1 .. k - 1] * base + Printf!Digit(text[k])
    BY <1>3, <2>1, <2>2
  <2>4. f[k] = w[1 .. k] /\ f[k - 1] = w[1 .. k - 1]
    BY <2>1
  <2> QED
    BY <2>3, <2>4
<1>6. f[m] = w[1 .. m]
  BY SMT
<1> HIDE DEF f
<1> QED
  BY <1>1, <1>4, <1>5, <1>6 DEF Reading

\* What is done to a number again and again has a value for every time.
Iterates(F, a, m, f) == f \in [0 .. m -> Nat] /\ f[0] = a /\ \A k \in 1 .. m : f[k] = F[f[k - 1]]

LEMMA IterExists ==
  ASSUME NEW F \in [Nat -> Nat], NEW a \in Nat, NEW m \in Nat
  PROVE  \E f : Iterates(F, a, m, f)
<1> DEFINE B == {n \in Nat : \E f : Iterates(F, a, n, f)}
<1>1. 0 \in B
  <2> DEFINE f == [k \in 0 .. 0 |-> a]
  <2>1. f \in [0 .. 0 -> Nat] /\ f[0] = a
    BY SMT
  <2>2. \A k \in 1 .. 0 : FALSE
    BY SMT
  <2>3. Iterates(F, a, 0, f)
    <3> HIDE DEF f
    <3> QED
      BY <2>1, <2>2 DEF Iterates
  <2> QED
    BY <2>3
<1>2. ASSUME NEW n \in 1 .. m, n - 1 \in B
      PROVE  n \in B
  <2>1. PICK f : Iterates(F, a, n - 1, f)
    BY <1>2
  <2>2. /\ n \in Nat /\ n - 1 \in 0 .. n - 1 /\ n \notin 0 .. n - 1 /\ 0 \in 0 .. n - 1 /\ 0 \in 0 .. n
        /\ \A k \in 0 .. n : k = n \/ k \in 0 .. n - 1
        /\ \A k \in 1 .. n - 1 : k \in 0 .. n - 1 /\ k - 1 \in 0 .. n - 1 /\ k # n /\ k \in 0 .. n /\ k - 1 \in 0 .. n /\ k - 1 # n
        /\ \A k \in 1 .. n : k = n \/ k \in 1 .. n - 1
        /\ n \in 0 .. n /\ n - 1 \in 0 .. n /\ n - 1 # n /\ 0 # n
    BY SMT
  <2>3. f \in [0 .. n - 1 -> Nat] /\ f[0] = a /\ \A k \in 1 .. n - 1 : f[k] = F[f[k - 1]]
    BY <2>1 DEF Iterates
  <2> DEFINE g == [k \in 0 .. n |-> IF k = n THEN F[f[n - 1]] ELSE f[k]]
  <2>4. g \in [0 .. n -> Nat]
    BY <2>2, <2>3
  <2>5. /\ g[n] = F[f[n - 1]] /\ g[n - 1] = f[n - 1] /\ g[0] = f[0]
        /\ \A k \in 1 .. n - 1 : g[k] = f[k] /\ g[k - 1] = f[k - 1]
    BY <2>2
  <2> HIDE DEF g
  <2>6. \A k \in 1 .. n : g[k] = F[g[k - 1]]
    BY <2>2, <2>3, <2>5
  <2>7. Iterates(F, a, n, g)
    BY <2>3, <2>4, <2>5, <2>6 DEF Iterates
  <2> QED
    BY <2>2, <2>7
<1>3. m \in B
  <2> HIDE DEF B
  <2>1. \A k \in 0 .. m : k \in B
    BY <1>1, <1>2, Upward
  <2> QED
    BY <2>1
<1> QED
  BY <1>3

\* The size of a word: sixteen for each of its half bytes.
Powers(p) ==
  /\ p \in [0 .. Nibbles -> Nat] /\ p[0] = 1
  /\ \A k \in 1 .. Nibbles : p[k] = 16 * p[k - 1]

LEMMA PowerIs == \E p : Powers(p) /\ Printf!WordSize = p[Nibbles]
<1> DEFINE IsPower(f) == f = [k \in 0 .. Nibbles |-> IF k = 0 THEN 1 ELSE 16 * f[k - 1]]
           p == CHOOSE f : IsPower(f)
           F == [n \in Nat |-> 16 * n]
<1>1. Printf!WordSize = p[Nibbles]
  BY DEF Printf!WordSize
<1>2. Nibbles \in Nat
  BY FormatAssumption
<1>3. F \in [Nat -> Nat] /\ \A n \in Nat : F[n] = 16 * n
  BY SMT
<1>4. PICK f : Iterates(F, 1, Nibbles, f)
  <2> HIDE DEF F
  <2> QED
    BY <1>2, <1>3, IterExists
<1>5. f \in [0 .. Nibbles -> Nat] /\ f[0] = 1 /\ \A k \in 1 .. Nibbles : f[k] = F[f[k - 1]]
  BY <1>4 DEF Iterates
<1> HIDE DEF F
<1>6. \A k \in 1 .. Nibbles : f[k] = 16 * f[k - 1]
  <2>1. \A k \in 1 .. Nibbles : k - 1 \in 0 .. Nibbles
    BY <1>2
  <2> QED
    BY <1>3, <1>5, <2>1
<1>7. IsPower(f)
  <2>1. \A k \in 0 .. Nibbles : k = 0 \/ k \in 1 .. Nibbles
    BY <1>2
  <2>2. \A k \in 0 .. Nibbles : f[k] = IF k = 0 THEN 1 ELSE 16 * f[k - 1]
    BY <1>5, <1>6, <2>1
  <2>3. f = [k \in 0 .. Nibbles |-> f[k]]
    BY <1>5
  <2> QED
    BY <2>2, <2>3
<1>8. IsPower(p)
  BY <1>7
<1> HIDE DEF p
<1>9. \A k \in 0 .. Nibbles : p[k] = IF k = 0 THEN 1 ELSE 16 * p[k - 1]
  BY <1>8
<1>10. p[0] = 1 /\ \A k \in 1 .. Nibbles : p[k] = 16 * p[k - 1]
  <2>1. 0 \in 0 .. Nibbles /\ \A k \in 1 .. Nibbles : k \in 0 .. Nibbles /\ k # 0
    BY <1>2
  <2> QED
    BY <1>9, <2>1
<1>11. \A k \in 0 .. Nibbles : p[k] \in Nat
  <2> DEFINE B == {k \in Nat : p[k] \in Nat}
  <2>1. 0 \in B
    BY <1>10
  <2>2. \A k \in 1 .. Nibbles : k - 1 \in B => k \in B
    BY <1>10
  <2> HIDE DEF B
  <2>3. \A k \in 0 .. Nibbles : k \in B
    BY <1>2, <2>1, <2>2, Upward
  <2> USE DEF B
  <2> QED
    BY <2>3
<1>12. p = [k \in 0 .. Nibbles |-> p[k]]
  <2> DEFINE e == [k \in 0 .. Nibbles |-> IF k = 0 THEN 1 ELSE 16 * p[k - 1]]
  <2>1. p = e
    BY <1>8
  <2> QED
    BY <2>1
<1>13. Powers(p)
  BY <1>10, <1>11, <1>12 DEF Powers
<1> QED
  BY <1>1, <1>13

LEMMA WordSizeIs == Printf!WordSize \in Nat /\ Printf!WordSize > 0
<1>1. PICK p : Powers(p) /\ Printf!WordSize = p[Nibbles]
  BY PowerIs
<1>2. Nibbles \in Nat
  BY FormatAssumption
<1> DEFINE B == {k \in Nat : p[k] \in Nat /\ p[k] > 0}
<1>3. 0 \in B
  BY <1>1 DEF Powers
<1>4. \A k \in 1 .. Nibbles : k - 1 \in B => k \in B
  BY <1>1 DEF Powers
<1>5. Nibbles \in B
  <2> HIDE DEF B
  <2>1. \A k \in 0 .. Nibbles : k \in B
    BY <1>2, <1>3, <1>4, Upward
  <2> QED
    BY <1>2, <2>1
<1> QED
  BY <1>1, <1>5

\* The word behind k half bytes.
Halved(v, s) ==
  /\ s \in [0 .. Nibbles -> Nat] /\ s[0] = v
  /\ \A k \in 1 .. Nibbles : s[k] = s[k - 1] \div 16

LEMMA ShiftedIs ==
  ASSUME NEW v \in Nat
  PROVE  Halved(v, Printf!Shifted(v))
<1> DEFINE IsShifted(f) == f = [k \in 0 .. Nibbles |-> IF k = 0 THEN v ELSE f[k - 1] \div 16]
           s == CHOOSE f : IsShifted(f)
           F == [n \in Nat |-> n \div 16]
<1>1. Printf!Shifted(v) = s
  BY DEF Printf!Shifted
<1>2. Nibbles \in Nat
  BY FormatAssumption
<1>3. F \in [Nat -> Nat] /\ \A n \in Nat : F[n] = n \div 16
  BY SMT
<1>4. PICK f : Iterates(F, v, Nibbles, f)
  <2> HIDE DEF F
  <2> QED
    BY <1>2, <1>3, IterExists
<1>5. f \in [0 .. Nibbles -> Nat] /\ f[0] = v /\ \A k \in 1 .. Nibbles : f[k] = F[f[k - 1]]
  BY <1>4 DEF Iterates
<1> HIDE DEF F
<1>6. \A k \in 1 .. Nibbles : f[k] = f[k - 1] \div 16
  <2>1. \A k \in 1 .. Nibbles : k - 1 \in 0 .. Nibbles
    BY <1>2
  <2> QED
    BY <1>3, <1>5, <2>1
<1>7. IsShifted(f)
  <2>1. \A k \in 0 .. Nibbles : k = 0 \/ k \in 1 .. Nibbles
    BY <1>2
  <2>2. \A k \in 0 .. Nibbles : f[k] = IF k = 0 THEN v ELSE f[k - 1] \div 16
    BY <1>5, <1>6, <2>1
  <2>3. f = [k \in 0 .. Nibbles |-> f[k]]
    BY <1>5
  <2> QED
    BY <2>2, <2>3
<1>8. IsShifted(s)
  BY <1>7
<1> HIDE DEF s
<1>9. \A k \in 0 .. Nibbles : s[k] = IF k = 0 THEN v ELSE s[k - 1] \div 16
  BY <1>8
<1>10. s[0] = v /\ \A k \in 1 .. Nibbles : s[k] = s[k - 1] \div 16
  <2>1. 0 \in 0 .. Nibbles /\ \A k \in 1 .. Nibbles : k \in 0 .. Nibbles /\ k # 0
    BY <1>2
  <2> QED
    BY <1>9, <2>1
<1>11. \A k \in 0 .. Nibbles : s[k] \in Nat
  <2> DEFINE B == {k \in Nat : s[k] \in Nat}
  <2>1. 0 \in B
    BY <1>10
  <2>2. \A k \in 1 .. Nibbles : k - 1 \in B => k \in B
    <3>1. \A n \in Nat : n \div 16 \in Nat
      BY SMT
    <3> QED
      BY <1>10, <3>1
  <2> HIDE DEF B
  <2>3. \A k \in 0 .. Nibbles : k \in B
    BY <1>2, <2>1, <2>2, Upward
  <2> USE DEF B
  <2> QED
    BY <2>3
<1>12. s = [k \in 0 .. Nibbles |-> s[k]]
  <2> DEFINE e == [k \in 0 .. Nibbles |-> IF k = 0 THEN v ELSE s[k - 1] \div 16]
  <2>1. s = e
    BY <1>8
  <2> QED
    BY <2>1
<1>13. Halved(v, s)
  BY <1>10, <1>11, <1>12 DEF Halved
<1> QED
  BY <1>1, <1>13

\* Of a number that fits into a word nothing is left behind all half bytes.
LEMMA NothingLeft ==
  ASSUME NEW v \in Nat, v < Printf!WordSize, NEW s, Halved(v, s)
  PROVE  s[Nibbles] = 0
<1>1. PICK p : Powers(p) /\ Printf!WordSize = p[Nibbles]
  BY PowerIs
<1>2. Nibbles \in Nat
  BY FormatAssumption
<1> DEFINE B == {k \in Nat : s[k] < p[Nibbles - k]}
<1>3. 0 \in B
  <2>1. Nibbles - 0 = Nibbles
    BY <1>2
  <2> QED
    BY <1>1, <2>1 DEF Halved
<1>4. ASSUME NEW k \in 1 .. Nibbles, k - 1 \in B
      PROVE  k \in B
  <2>1. PICK j : j = Nibbles - k
    OBVIOUS
  <2>2. /\ j \in 0 .. Nibbles /\ j + 1 \in 1 .. Nibbles /\ Nibbles - (k - 1) = j + 1 /\ (j + 1) - 1 = j
        /\ k \in Nat /\ k - 1 \in 0 .. Nibbles
    BY <1>2, <2>1
  <2>3. p[j + 1] = 16 * p[j] /\ p[j] \in Nat
    BY <1>1, <2>2 DEF Powers
  <2>4. s[k] = s[k - 1] \div 16 /\ s[k - 1] \in Nat
    BY <2>2 DEF Halved
  <2>5. s[k - 1] < p[j + 1]
    BY <1>4, <2>2
  <2>6. \A a, b \in Nat : a < 16 * b => a \div 16 < b
    BY SMT
  <2>7. s[k] < p[j]
    BY <2>3, <2>4, <2>5, <2>6
  <2> QED
    BY <2>1, <2>2, <2>7
<1>5. Nibbles \in B
  <2> HIDE DEF B
  <2>1. \A k \in 0 .. Nibbles : k \in B
    BY <1>2, <1>3, <1>4, Upward
  <2> QED
    BY <1>2, <2>1
<1>6. Nibbles - Nibbles = 0 /\ Nibbles \in 0 .. Nibbles
  BY <1>2
<1>7. s[Nibbles] < 1 /\ s[Nibbles] \in Nat
  BY <1>1, <1>5, <1>6 DEF Powers, Halved
<1> QED
  BY <1>7

LEMMA HexDigitIs ==
  ASSUME NEW n \in 0 .. 15
  PROVE  Printf!HexDigit(n) \in Int /\ Printf!HexDigit(n) # 45 /\ Printf!Digit(Printf!HexDigit(n)) = n
<1>1. Printf!Code.zero = 48 /\ Printf!Code.a = 97
  BY DEF Printf!Code
<1>2. PICK c : c = Printf!HexDigit(n)
  OBVIOUS
<1>3. c = n + (IF n < 10 THEN 48 ELSE 97 - 10)
  BY <1>1, <1>2 DEF Printf!HexDigit
<1>4. Printf!Digit(c) = IF c >= 97 THEN c - 97 + 10 ELSE c - 48
  BY <1>1 DEF Printf!Digit
<1>5. c \in Int /\ c # 45 /\ Printf!Digit(c) = n
  BY <1>3, <1>4
<1> QED
  BY <1>2, <1>5

LEMMA TextIs ==
  ASSUME NEW m \in Nat, NEW s, NEW S, s \in [1 .. m -> S]
  PROVE  s \in Seq(S) /\ Len(s) = m
<1>1. s \in Seq(S)
  OBVIOUS
<1>2. Len(s) \in Nat /\ DOMAIN s = 1 .. Len(s)
  BY <1>1, LenProperties
<1>3. 1 .. Len(s) = 1 .. m
  BY <1>2
<1> QED
  BY <1>1, <1>2, <1>3

LEMMA HexReads ==
  ASSUME NEW word \in Int
  PROVE  LET text == Printf!Hex(word)
         IN /\ text \in Seq(Int) /\ Len(text) = Nibbles
            /\ Printf!NumberOf(text, 16) = Printf!Unsigned(word)
<1>1. PICK text, v, s : text = Printf!Hex(word) /\ v = Printf!Unsigned(word) /\ s = Printf!Shifted(v)
  OBVIOUS
<1>2. Nibbles \in Nat \ {0}
  BY FormatAssumption
<1>3. v \in Nat /\ v < Printf!WordSize
  <2>1. \A a \in Int, b \in Nat : b > 0 => a % b \in Nat /\ a % b < b
    BY SMT
  <2> QED
    BY <1>1, <2>1, WordSizeIs DEF Printf!Unsigned
<1>4. Halved(v, s)
  BY <1>1, <1>3, ShiftedIs
<1>5. text = [k \in 1 .. Nibbles |-> Printf!HexDigit(s[Nibbles - k] % 16)]
  BY <1>1 DEF Printf!Hex
<1>6. ASSUME NEW k \in 1 .. Nibbles
      PROVE  text[k] \in Int /\ text[k] # 45 /\ Printf!Digit(text[k]) = s[Nibbles - k] % 16
  <2>1. Nibbles - k \in 0 .. Nibbles
    BY <1>2
  <2>2. s[Nibbles - k] \in Nat
    BY <1>4, <2>1 DEF Halved
  <2>3. PICK n \in 0 .. 15 : n = s[Nibbles - k] % 16
    BY <2>2
  <2>4. text[k] = Printf!HexDigit(n)
    BY <1>5, <2>3
  <2> QED
    BY <2>3, <2>4, HexDigitIs
<1>7. text \in [1 .. Nibbles -> Int]
  BY <1>5, <1>6
<1>8. text \in Seq(Int) /\ Len(text) = Nibbles
  BY <1>2, <1>7, TextIs
<1>9. PICK h : Reading(text, 16, Nibbles, h) /\ Printf!Size(text, 16) = h[Nibbles]
  BY <1>2, <1>7, SizeReads
<1> DEFINE B == {k \in Nat : h[k] = s[Nibbles - k]}
<1>10. 0 \in B
  <2>1. Nibbles - 0 = Nibbles
    BY <1>2
  <2>2. s[Nibbles] = 0
    BY <1>3, <1>4, NothingLeft
  <2> QED
    BY <1>9, <2>1, <2>2 DEF Reading
<1>11. ASSUME NEW k \in 1 .. Nibbles, k - 1 \in B
       PROVE  k \in B
  <2>1. PICK j : j = Nibbles - k
    OBVIOUS
  <2>2. /\ j \in 0 .. Nibbles /\ j + 1 \in 1 .. Nibbles /\ Nibbles - (k - 1) = j + 1 /\ (j + 1) - 1 = j /\ k \in Nat
    BY <1>2, <2>1
  <2>3. s[j + 1] = s[j] \div 16 /\ s[j] \in Nat
    BY <1>4, <2>2 DEF Halved
  <2>4. h[k] = h[k - 1] * 16 + Printf!Digit(text[k])
    BY <1>9 DEF Reading
  <2>5. h[k - 1] = s[j] \div 16 /\ Printf!Digit(text[k]) = s[j] % 16
    BY <1>6, <1>11, <2>1, <2>2, <2>3
  <2>6. \A a \in Nat : (a \div 16) * 16 + (a % 16) = a
    BY SMT
  <2> QED
    BY <2>1, <2>2, <2>3, <2>4, <2>5, <2>6
<1>12. h[Nibbles] = v
  <2> HIDE DEF B
  <2>1. \A k \in 0 .. Nibbles : k \in B
    BY <1>2, <1>10, <1>11, Upward
  <2>2. Nibbles \in B /\ Nibbles - Nibbles = 0
    BY <1>2, <2>1
  <2> USE DEF B
  <2>3. h[Nibbles] = s[0]
    BY <2>2
  <2> QED
    BY <1>4, <2>3 DEF Halved
<1>13. text[1] # 45
  <2>1. 1 \in 1 .. Nibbles
    BY <1>2
  <2> QED
    BY <1>6, <2>1
<1>14. Printf!NumberOf(text, 16) = v
  <2>1. Printf!Code.minus = 45
    BY DEF Printf!Code
  <2> QED
    BY <1>9, <1>12, <1>13, <2>1 DEF Printf!NumberOf
<1> QED
  BY <1>1, <1>8, <1>14

\* The digits of all numbers up to v, as itoa finds them.
IsDigits(v, f) ==
  f = [n \in 0 .. v |-> IF n = 0 THEN <<>> ELSE Append(f[n \div 10], n % 10)]

LEMMA TenthIs ==
  ASSUME NEW n \in Nat \ {0}
  PROVE  n \div 10 \in 0 .. n - 1 /\ n % 10 \in 0 .. 9 /\ (n \div 10) * 10 + (n % 10) = n
BY SMT

LEMMA DigitsExist ==
  ASSUME NEW v \in Nat
  PROVE  \E f : IsDigits(v, f)
<1> DEFINE B == {n \in Nat : \E f : IsDigits(n, f)}
<1>1. 0 \in B
  <2> DEFINE f == [n \in 0 .. 0 |-> <<>>]
  <2>1. \A n \in 0 .. 0 : n = 0 /\ f[n] = <<>>
    BY SMT
  <2>2. f = [n \in 0 .. 0 |-> f[n]]
    OBVIOUS
  <2> HIDE DEF f
  <2>3. f = [n \in 0 .. 0 |-> IF n = 0 THEN <<>> ELSE Append(f[n \div 10], n % 10)]
    BY <2>1, <2>2
  <2> QED
    BY <2>3 DEF IsDigits
<1>2. ASSUME NEW m \in 1 .. v, m - 1 \in B
      PROVE  m \in B
  <2>1. PICK f : IsDigits(m - 1, f)
    BY <1>2
  <2>2. /\ m \in Nat \ {0}
        /\ \A n \in 0 .. m : n = m \/ n \in 0 .. m - 1
        /\ \A n \in 0 .. m - 1 : n \in 0 .. m /\ n # m
    BY SMT
  <2>3. \A n \in 0 .. m - 1 : f[n] = IF n = 0 THEN <<>> ELSE Append(f[n \div 10], n % 10)
    BY <2>1 DEF IsDigits
  <2> DEFINE g == [n \in 0 .. m |-> IF n = m THEN Append(f[m \div 10], m % 10) ELSE f[n]]
  <2>4. /\ \A n \in 0 .. m - 1 : g[n] = f[n]
        /\ g[m] = Append(f[m \div 10], m % 10)
        /\ g = [n \in 0 .. m |-> g[n]]
    BY <2>2
  <2> HIDE DEF g
  <2>5. ASSUME NEW n \in 0 .. m
        PROVE  g[n] = IF n = 0 THEN <<>> ELSE Append(g[n \div 10], n % 10)
    <3>1. CASE n = 0
      <4>1. 0 \in 0 .. m - 1
        BY <2>2
      <4> QED
        BY <2>3, <2>4, <3>1, <4>1
    <3>2. CASE n # 0
      <4>1. n \in Nat \ {0}
        BY <3>2
      <4>2. n \div 10 \in 0 .. n - 1
        BY <4>1, TenthIs
      <4>3. n \div 10 \in 0 .. m - 1
        <5>1. \A q \in 0 .. n - 1 : q \in 0 .. m - 1
          BY <2>2
        <5> QED
          BY <4>2, <5>1
      <4>4. g[n \div 10] = f[n \div 10]
        BY <2>4, <4>3
      <4>5. g[n] = Append(f[n \div 10], n % 10)
        BY <2>2, <2>3, <2>4, <3>2
      <4> QED
        BY <3>2, <4>4, <4>5
    <3> QED
      BY <3>1, <3>2
  <2>6. g = [n \in 0 .. m |-> IF n = 0 THEN <<>> ELSE Append(g[n \div 10], n % 10)]
    BY <2>4, <2>5
  <2>7. IsDigits(m, g)
    BY <2>6 DEF IsDigits
  <2> QED
    BY <2>2, <2>7
<1>3. v \in B
  <2> HIDE DEF B
  <2>1. \A m \in 0 .. v : m \in B
    BY <1>1, <1>2, Upward
  <2> QED
    BY <2>1
<1> QED
  BY <1>3

\* Digits that n is read from.
DigitsRead(d, n) ==
  /\ d \in Seq(0 .. 9) /\ (n = 0 <=> d = <<>>)
  /\ \E g : /\ g[0] = 0 /\ g[Len(d)] = n
            /\ \A k \in 1 .. Len(d) : g[k] = g[k - 1] * 10 + d[k]

LEMMA NextDigit ==
  ASSUME NEW n \in Nat \ {0}, NEW d, DigitsRead(d, n \div 10)
  PROVE  DigitsRead(Append(d, n % 10), n)
<1>1. PICK g : g[0] = 0 /\ g[Len(d)] = n \div 10 /\ \A k \in 1 .. Len(d) : g[k] = g[k - 1] * 10 + d[k]
  BY DEF DigitsRead
<1>2. d \in Seq(0 .. 9)
  BY DEF DigitsRead
<1>3. PICK m \in Nat : m = Len(d)
  BY <1>2, LenProperties
<1>4. PICK r \in 0 .. 9 : r = n % 10 /\ (n \div 10) * 10 + r = n
  BY TenthIs
<1>5. PICK e : e = Append(d, r)
  OBVIOUS
<1>6. /\ e \in Seq(0 .. 9) /\ Len(e) = m + 1 /\ e[m + 1] = r
      /\ \A k \in 1 .. m : e[k] = d[k]
  BY <1>2, <1>3, <1>5, AppendProperties
<1>7. e # <<>>
  <2>1. Len(<<>>) = 0
    OBVIOUS
  <2> QED
    BY <1>3, <1>6, <2>1
<1> DEFINE h == [k \in 0 .. m + 1 |-> IF k = m + 1 THEN n ELSE g[k]]
<1>8. /\ \A k \in 0 .. m : h[k] = g[k]
      /\ h[m + 1] = n /\ 0 \in 0 .. m /\ m \in 0 .. m /\ (m + 1) - 1 = m
      /\ \A k \in 1 .. m : k \in 0 .. m /\ k - 1 \in 0 .. m
      /\ \A k \in 1 .. m + 1 : k = m + 1 \/ k \in 1 .. m
  BY <1>3, SMT
<1> HIDE DEF h
<1>9. ASSUME NEW k \in 1 .. m + 1
      PROVE  h[k] = h[k - 1] * 10 + e[k]
  <2>1. CASE k = m + 1
    <3>1. h[k - 1] = n \div 10
      BY <1>1, <1>3, <1>8, <2>1
    <3> QED
      BY <1>4, <1>6, <1>8, <2>1, <3>1
  <2>2. CASE k \in 1 .. m
    BY <1>1, <1>3, <1>6, <1>8, <2>2
  <2> QED
    BY <1>8, <2>1, <2>2
<1>10. h[0] = 0 /\ h[Len(e)] = n /\ \A k \in 1 .. Len(e) : h[k] = h[k - 1] * 10 + e[k]
  BY <1>1, <1>6, <1>8, <1>9
<1>11. DigitsRead(e, n)
  BY <1>6, <1>7, <1>10 DEF DigitsRead
<1> QED
  BY <1>4, <1>5, <1>11

LEMMA DigitsAre ==
  ASSUME NEW v \in Nat
  PROVE  DigitsRead(Printf!DigitsOf(v, 10), v)
<1> DEFINE f == CHOOSE f : IsDigits(v, f)
<1>1. Printf!DigitsOf(v, 10) = f[v]
  BY DEF Printf!DigitsOf, IsDigits
<1>2. IsDigits(v, f)
  BY DigitsExist
<1> HIDE DEF f
<1>3. \A n \in 0 .. v : f[n] = IF n = 0 THEN <<>> ELSE Append(f[n \div 10], n % 10)
  BY <1>2 DEF IsDigits
<1> DEFINE bad == {n \in 0 .. v : ~ DigitsRead(f[n], n)}
<1>4. ASSUME bad # {}
      PROVE  FALSE
  <2>1. PICK n \in bad : \A m \in bad : n <= m
    <3>1. bad \subseteq Nat
      OBVIOUS
    <3> HIDE DEF bad
    <3> QED
      BY <1>4, <3>1, LeastExists
  <2>2. n \in 0 .. v /\ ~ DigitsRead(f[n], n)
    OBVIOUS
  <2>3. CASE n = 0
    <3>1. f[0] = <<>>
      BY <1>3, <2>2, <2>3
    <3> DEFINE g == [k \in 0 .. 0 |-> 0]
    <3>2. g[0] = 0 /\ Len(<<>>) = 0 /\ \A k \in 1 .. 0 : FALSE
      BY SMT
    <3> HIDE DEF g
    <3>3. \A k \in 1 .. 0 : g[k] = g[k - 1] * 10 + <<>>[k]
      BY <3>2
    <3>4. <<>> \in Seq(0 .. 9)
      BY EmptySeq
    <3>5. DigitsRead(<<>>, 0)
      BY <3>2, <3>3, <3>4 DEF DigitsRead
    <3> QED
      BY <2>2, <2>3, <3>1, <3>5
  <2>4. CASE n # 0
    <3>1. n \in Nat \ {0}
      BY <2>2, <2>4
    <3>2. n \div 10 \in 0 .. n - 1
      BY <3>1, TenthIs
    <3>3. PICK q : q = n \div 10 /\ q \in 0 .. v /\ ~ (n <= q)
      <4>1. \A q \in 0 .. n - 1 : q \in 0 .. v /\ ~ (n <= q)
        BY <2>2
      <4> QED
        BY <3>2, <4>1
    <3>4. DigitsRead(f[q], q)
      <4>1. q \notin bad
        BY <2>1, <3>3
      <4> QED
        BY <3>3, <4>1
    <3>5. DigitsRead(f[q], n \div 10)
      BY <3>3, <3>4
    <3>6. DigitsRead(Append(f[q], n % 10), n)
      BY <3>1, <3>5, NextDigit
    <3>7. f[n] = Append(f[q], n % 10)
      BY <1>3, <2>2, <2>4, <3>3
    <3> QED
      BY <2>2, <3>6, <3>7
  <2> QED
    BY <2>3, <2>4
<1>5. v \in 0 .. v
  OBVIOUS
<1> QED
  BY <1>1, <1>4, <1>5

LEMMA ItoaDigitIs ==
  ASSUME NEW n \in 0 .. 9
  PROVE  Printf!ItoaDigit(n) \in Int /\ Printf!ItoaDigit(n) # 45 /\ Printf!Digit(Printf!ItoaDigit(n)) = n
<1>1. Printf!Code.zero = 48 /\ Printf!Code.a = 97
  BY DEF Printf!Code
<1>2. PICK c : c = Printf!ItoaDigit(n)
  OBVIOUS
<1>3. c = n + 48
  BY <1>1, <1>2 DEF Printf!ItoaDigit
<1>4. Printf!Digit(c) = IF c >= 97 THEN c - 97 + 10 ELSE c - 48
  BY <1>1 DEF Printf!Digit
<1>5. c \in Int /\ c # 45 /\ Printf!Digit(c) = n
  BY <1>3, <1>4
<1> QED
  BY <1>2, <1>5

\* The characters for digits.
Spelt(text, d) ==
  text \in Seq(Int) /\ Len(text) = Len(d) /\ \A k \in 1 .. Len(d) : text[k] = Printf!ItoaDigit(d[k])

LEMMA SpeltReads ==
  ASSUME NEW n \in Nat \ {0}, NEW d, DigitsRead(d, n), NEW text, Spelt(text, d)
  PROVE  text # <<>> /\ text[1] # 45 /\ Printf!Size(text, 10) = n
<1>1. PICK g : g[0] = 0 /\ g[Len(d)] = n /\ \A k \in 1 .. Len(d) : g[k] = g[k - 1] * 10 + d[k]
  BY DEF DigitsRead
<1>2. d \in Seq(0 .. 9) /\ d # <<>>
  BY DEF DigitsRead
<1>3. PICK m \in Nat : m = Len(d)
  BY <1>2, LenProperties
<1>4. m # 0
  BY <1>2, <1>3, EmptySeq
<1>5. \A k \in 1 .. m : d[k] \in 0 .. 9
  BY <1>2, <1>3, ElementOfSeq
<1>6. text \in Seq(Int) /\ Len(text) = m /\ \A k \in 1 .. m : text[k] = Printf!ItoaDigit(d[k])
  BY <1>3 DEF Spelt
<1>7. DOMAIN text = 1 .. m
  BY <1>6, LenProperties
<1>8. \A k \in 1 .. m : text[k] # 45 /\ Printf!Digit(text[k]) = d[k]
  <2>1. ASSUME NEW k \in 1 .. m
        PROVE  text[k] # 45 /\ Printf!Digit(text[k]) = d[k]
    <3>1. PICK digit \in 0 .. 9 : digit = d[k]
      BY <1>5
    <3>2. text[k] = Printf!ItoaDigit(digit)
      BY <1>6, <3>1
    <3>3. Printf!ItoaDigit(digit) # 45 /\ Printf!Digit(Printf!ItoaDigit(digit)) = digit
      BY ItoaDigitIs
    <3> QED
      BY <3>1, <3>2, <3>3
  <2> QED
    BY <2>1
<1>9. PICK h : Reading(text, 10, m, h) /\ Printf!Size(text, 10) = h[m]
  BY <1>7, SizeReads
<1> DEFINE B == {k \in Nat : h[k] = g[k]}
<1>10. 0 \in B
  BY <1>1, <1>9 DEF Reading
<1>11. ASSUME NEW k \in 1 .. m, k - 1 \in B
       PROVE  k \in B
  <2>1. h[k] = h[k - 1] * 10 + Printf!Digit(text[k]) /\ g[k] = g[k - 1] * 10 + d[k]
    BY <1>1, <1>3, <1>9 DEF Reading
  <2>2. h[k - 1] = g[k - 1] /\ Printf!Digit(text[k]) = d[k]
    BY <1>8, <1>11
  <2>3. h[k] = g[k]
    BY <2>1, <2>2
  <2> QED
    BY <2>3
<1>12. h[m] = n
  <2> HIDE DEF B
  <2>1. \A k \in 0 .. m : k \in B
    BY <1>10, <1>11, Upward
  <2>2. m \in B
    BY <2>1
  <2> USE DEF B
  <2>3. h[m] = g[m]
    BY <2>2
  <2> QED
    BY <1>1, <1>3, <2>3
<1>13. 1 \in 1 .. m
  BY <1>4
<1>14. text # <<>>
  <2>1. Len(<<>>) = 0
    OBVIOUS
  <2> QED
    BY <1>4, <1>6, <2>1
<1> QED
  BY <1>8, <1>9, <1>12, <1>13, <1>14

LEMMA DigitsSpelt ==
  ASSUME NEW d \in Seq(0 .. 9)
  PROVE  Spelt([k \in DOMAIN d |-> Printf!ItoaDigit(d[k])], d)
<1>1. PICK m \in Nat : m = Len(d) /\ DOMAIN d = 1 .. m
  BY LenProperties
<1>2. PICK text : text = [k \in DOMAIN d |-> Printf!ItoaDigit(d[k])]
  OBVIOUS
<1>3. \A k \in 1 .. m : d[k] \in 0 .. 9
  BY <1>1, ElementOfSeq
<1>4. \A k \in 1 .. m : Printf!ItoaDigit(d[k]) \in Int
  BY <1>3, ItoaDigitIs
<1>5. text \in [1 .. m -> Int] /\ \A k \in 1 .. m : text[k] = Printf!ItoaDigit(d[k])
  BY <1>1, <1>2, <1>4
<1>6. text \in Seq(Int) /\ Len(text) = m
  BY <1>5, TextIs
<1>7. Spelt(text, d)
  BY <1>1, <1>5, <1>6 DEF Spelt
<1> QED
  BY <1>2, <1>7

\* A text that is read as a number.
ReadsAs(text, word) == text \in Seq(Int) /\ text # <<>> /\ Printf!NumberOf(text, 10) = word

LEMMA ItoaReads ==
  ASSUME NEW word \in Words
  PROVE  ReadsAs(Printf!itoa(word, 10), word)
<1>1. PICK W : W = Printf!WordSize
  OBVIOUS
<1>2. W \in Nat /\ W > 0
  BY <1>1, WordSizeIs
<1>3. word \in Int /\ word < W /\ -word < W
  <2>1. word \in -(W \div 2) .. W \div 2 - 1
    BY <1>1 DEF Words
  <2>2. \A w \in Nat : w > 0 => w \div 2 \in Nat /\ w \div 2 < w
    BY SMT
  <2>3. PICK h \in Nat : h = W \div 2 /\ h < W
    BY <1>2, <2>2
  <2> QED
    BY <1>2, <2>1, <2>3
<1>4. \A v \in Nat : v < W => Printf!Unsigned(v) = v
  <2>1. \A v \in Nat : Printf!Unsigned(v) = v % W
    BY <1>1 DEF Printf!Unsigned
  <2>2. \A v, w \in Nat : v < w => v % w = v
    BY SMT
  <2> QED
    BY <1>2, <2>1, <2>2
<1>5. Printf!Code.zero = 48 /\ Printf!Code.minus = 45 /\ Printf!Code.a = 97
  BY DEF Printf!Code
<1> DEFINE Shape(d) == [k \in DOMAIN d |-> Printf!ItoaDigit(d[k])]
<1>6. CASE word = 0
  <2>1. Printf!itoa(word, 10) = <<48>>
    BY <1>5, <1>6 DEF Printf!itoa
  <2>2. PICK text : text = <<48>>
    OBVIOUS
  <2>3. text \in Seq(Int) /\ Len(text) = 1 /\ text[1] = 48 /\ text # <<>>
    BY <2>2
  <2>4. DOMAIN text = 1 .. 1
    BY <2>3, LenProperties
  <2>5. PICK h : Reading(text, 10, 1, h) /\ Printf!Size(text, 10) = h[1]
    <3>1. PICK m \in Nat : m = 1
      OBVIOUS
    <3>2. DOMAIN text = 1 .. m
      BY <2>4, <3>1
    <3>3. \E h : Reading(text, 10, m, h) /\ Printf!Size(text, 10) = h[m]
      BY <3>2, SizeReads
    <3> QED
      BY <3>1, <3>3
  <2>6. h[1] = h[0] * 10 + Printf!Digit(text[1]) /\ h[0] = 0
    <3>1. 1 \in 1 .. 1 /\ 1 - 1 = 0
      BY SMT
    <3>2. h[1] = h[1 - 1] * 10 + Printf!Digit(text[1]) /\ h[0] = 0
      BY <2>5, <3>1 DEF Reading
    <3> QED
      BY <3>1, <3>2
  <2>7. Printf!Digit(48) = 0
    BY <1>5 DEF Printf!Digit
  <2>8. Printf!Size(text, 10) = 0
    BY <2>3, <2>5, <2>6, <2>7
  <2>9. Printf!NumberOf(text, 10) = 0
    BY <1>5, <2>3, <2>8 DEF Printf!NumberOf
  <2> QED
    BY <1>6, <2>1, <2>2, <2>3, <2>9 DEF ReadsAs
<1>7. CASE word > 0
  <2>1. word \in Nat \ {0} /\ ~ (word < 0)
    BY <1>3, <1>7
  <2>2. PICK d : d = Printf!DigitsOf(word, 10)
    OBVIOUS
  <2>3. DigitsRead(d, word)
    BY <2>1, <2>2, DigitsAre
  <2>4. d \in Seq(0 .. 9)
    BY <2>3 DEF DigitsRead
  <2>5. PICK text : text = Shape(d)
    OBVIOUS
  <2>6. Printf!itoa(word, 10) = <<>> \o text
    BY <1>3, <1>4, <2>1, <2>2, <2>5 DEF Printf!itoa
  <2>7. Spelt(text, d)
    BY <2>4, <2>5, DigitsSpelt
  <2>8. text # <<>> /\ text[1] # 45 /\ Printf!Size(text, 10) = word
    BY <2>1, <2>3, <2>7, SpeltReads
  <2>9. text \in Seq(Int)
    BY <2>7 DEF Spelt
  <2>10. Printf!itoa(word, 10) = text
    BY <2>6, <2>9, ConcatEmptySeq
  <2>11. Printf!NumberOf(text, 10) = word
    BY <1>5, <2>8 DEF Printf!NumberOf
  <2> QED
    BY <2>8, <2>9, <2>10, <2>11 DEF ReadsAs
<1>8. CASE word < 0
  <2>1. PICK n : n = -word
    OBVIOUS
  <2>2. n \in Nat \ {0} /\ n < W /\ word # 0
    BY <1>3, <1>8, <2>1
  <2>3. PICK d : d = Printf!DigitsOf(n, 10)
    OBVIOUS
  <2>4. DigitsRead(d, n)
    BY <2>2, <2>3, DigitsAre
  <2>5. d \in Seq(0 .. 9)
    BY <2>4 DEF DigitsRead
  <2>6. PICK digits : digits = Shape(d)
    OBVIOUS
  <2>7. Spelt(digits, d)
    BY <2>5, <2>6, DigitsSpelt
  <2>8. Printf!Size(digits, 10) = n
    BY <2>2, <2>4, <2>7, SpeltReads
  <2>9. digits \in Seq(Int)
    BY <2>7 DEF Spelt
  <2>10. PICK text : text = <<45>> \o digits
    OBVIOUS
  <2>11. Printf!itoa(word, 10) = text
    <3>1. Printf!Unsigned(-word) = n
      BY <1>4, <2>1, <2>2
    <3> QED
      BY <1>5, <1>8, <2>2, <2>3, <2>6, <2>10, <3>1 DEF Printf!itoa
  <2>12. PICK sign : sign = <<45>>
    OBVIOUS
  <2>13. sign \in Seq(Int) /\ sign # <<>> /\ Head(sign) = 45 /\ Tail(sign) = <<>> /\ Len(sign) = 1 /\ sign[1] = 45
    BY <2>12
  <2>14. text \in Seq(Int) /\ Len(text) = 1 + Len(digits) /\ text[1] = 45
    BY <2>9, <2>10, <2>12, <2>13, ConcatProperties
  <2>15. text # <<>>
    BY <2>9, <2>14, EmptySeq, LenProperties
  <2>16. Tail(text) = digits
    BY <2>9, <2>10, <2>12, <2>13
  <2>17. Printf!NumberOf(text, 10) = -n
    BY <1>5, <2>8, <2>14, <2>16 DEF Printf!NumberOf
  <2> QED
    BY <1>3, <2>1, <2>11, <2>14, <2>15, <2>17 DEF ReadsAs
<1> QED
  BY <1>3, <1>6, <1>7, <1>8

----------------------------------------------------------------------------
(* printf prints its arguments *)

\* The letters of conversions that take an argument.
Letters(f) ==
  {k \in DOMAIN f \ {1} : f[k] \in {Printf!Code.d, Printf!Code.s, Printf!Code.x} /\ f[k - 1] = Printf!Code.percent}

\* Those behind which the format has been read.
Behind(f, k) == {j \in Letters(f) : j < k}

\* No more arguments are taken than there are conversions behind the place.
PrintfOK ==
  half = "printf" =>
    /\ format \in DOMAIN Arguments
    /\ args \in [1 .. Printf!Conversions(format) -> Arguments[format]]
    /\ place \in Nat \ {0} /\ out \in Seq(Int)
    /\ taken \in Nat /\ taken <= Cardinality(Behind(format, place))

LEMMA ConversionsAre ==
  ASSUME NEW f \in Seq(Int)
  PROVE  Printf!Conversions(f) = Cardinality(Letters(f)) /\ IsFiniteSet(Letters(f))
<1>1. Printf!Conversions(f) = Cardinality(Letters(f))
  BY DEF Printf!Conversions, Letters, Printf!Cardinality, Cardinality
<1>2. DOMAIN f = 1 .. Len(f) /\ Len(f) \in Nat
  BY LenProperties
<1>3. IsFiniteSet(1 .. Len(f))
  BY <1>2, FS_Interval
<1>4. Letters(f) \in SUBSET (1 .. Len(f))
  BY <1>2 DEF Letters
<1> QED
  BY <1>1, <1>3, <1>4, FS_Subset

LEMMA BehindGrows ==
  ASSUME NEW f \in Seq(Int), NEW k \in Nat, NEW l \in Nat, k <= l
  PROVE  /\ Cardinality(Behind(f, k)) \in Nat /\ Cardinality(Behind(f, l)) \in Nat
         /\ Cardinality(Behind(f, k)) <= Cardinality(Behind(f, l))
<1>1. Letters(f) \subseteq Nat
  <2>1. DOMAIN f \subseteq Nat
    BY LenProperties
  <2> QED
    BY <2>1 DEF Letters
<1>2. Behind(f, k) \in SUBSET Behind(f, l) /\ Behind(f, l) \in SUBSET Letters(f)
  BY <1>1 DEF Behind
<1>3. IsFiniteSet(Behind(f, l))
  BY <1>2, ConversionsAre, FS_Subset
<1>4. IsFiniteSet(Behind(f, k)) /\ Cardinality(Behind(f, k)) <= Cardinality(Behind(f, l))
  BY <1>2, <1>3, FS_Subset
<1> QED
  BY <1>3, <1>4, FS_CardinalityType

\* The argument for a conversion is there, and the next one's lies behind it.
LEMMA OneMoreBehind ==
  ASSUME NEW f \in Seq(Int), NEW k \in Nat \ {0}, k + 1 <= Len(f),
         f[k] = Printf!Code.percent, f[k + 1] \in {Printf!Code.d, Printf!Code.s, Printf!Code.x}
  PROVE  /\ Cardinality(Behind(f, k)) \in Nat /\ Cardinality(Behind(f, k + 2)) \in Nat
         /\ Cardinality(Behind(f, k)) + 1 <= Cardinality(Behind(f, k + 2))
         /\ Cardinality(Behind(f, k)) + 1 <= Printf!Conversions(f)
         /\ Printf!Conversions(f) \in Nat
<1>1. DOMAIN f = 1 .. Len(f) /\ Len(f) \in Nat
  BY LenProperties
<1>2. Letters(f) \subseteq Nat
  BY <1>1 DEF Letters
<1>3. k + 1 \in Letters(f)
  <2>1. k + 1 \in DOMAIN f \ {1} /\ (k + 1) - 1 = k
    BY <1>1
  <2> QED
    BY <2>1 DEF Letters
<1>4. k + 1 \notin Behind(f, k)
  BY DEF Behind
<1>5. Behind(f, k) \cup {k + 1} \in SUBSET Behind(f, k + 2)
  BY <1>2, <1>3 DEF Behind
<1>6. Behind(f, k) \in SUBSET Letters(f) /\ Behind(f, k + 2) \in SUBSET Letters(f)
  BY DEF Behind
<1>7. IsFiniteSet(Letters(f)) /\ Printf!Conversions(f) = Cardinality(Letters(f))
  BY ConversionsAre
<1>8. IsFiniteSet(Behind(f, k)) /\ IsFiniteSet(Behind(f, k + 2))
      /\ Cardinality(Behind(f, k + 2)) <= Cardinality(Letters(f))
  BY <1>6, <1>7, FS_Subset
<1>9. Cardinality(Behind(f, k) \cup {k + 1}) = Cardinality(Behind(f, k)) + 1
  BY <1>4, <1>8, FS_AddElement
<1>10. Cardinality(Behind(f, k) \cup {k + 1}) <= Cardinality(Behind(f, k + 2))
  BY <1>5, <1>8, FS_Subset
<1>11. Cardinality(Behind(f, k)) \in Nat /\ Cardinality(Behind(f, k + 2)) \in Nat /\ Cardinality(Letters(f)) \in Nat
  BY <1>7, <1>8, FS_CardinalityType
<1> QED
  BY <1>7, <1>8, <1>9, <1>10, <1>11

\* What has been put behind a text.
LEMMA PutBehind ==
  ASSUME NEW s \in Seq(Int), NEW t \in Seq(Int)
  PROVE  s \o t \in Seq(Int) /\ SubSeq(s \o t, Len(s) + 1, Len(s \o t)) = t
<1>1. s \o t \in Seq(Int) /\ Len(s \o t) = Len(s) + Len(t)
  BY ConcatProperties
<1>2. PICK m \in Nat, n \in Nat : m = Len(s) /\ n = Len(t)
  BY LenProperties
<1>3. CASE n = 0
  <2>1. t = <<>>
    BY <1>2, <1>3, EmptySeq
  <2>2. SubSeq(s \o t, m + 1, m + n) = <<>>
    BY <1>3, SubSeqEmpty
  <2> QED
    BY <1>1, <1>2, <2>1, <2>2
<1>4. CASE n # 0
  <2>1. m + 1 \in Len(s) + 1 .. Len(s) + Len(t) /\ m + n \in Len(s) + 1 .. Len(s) + Len(t)
    BY <1>2, <1>4
  <2>2. SubSeq(s \o t, m + 1, m + n) = SubSeq(t, (m + 1) - Len(s), (m + n) - Len(s))
    BY <2>1, SubSeqOfConcat2
  <2>3. (m + 1) - Len(s) = 1 /\ (m + n) - Len(s) = Len(t)
    BY <1>2
  <2>4. SubSeq(t, 1, Len(t)) = t
    BY SubSeqFull
  <2> QED
    BY <1>1, <1>2, <2>2, <2>3, <2>4
<1> QED
  BY <1>3, <1>4

Taking == {Printf!Code.d, Printf!Code.s, Printf!Code.x}

LEMMA CodesDiffer ==
  /\ Printf!Code.d # Printf!Code.s /\ Printf!Code.d # Printf!Code.x /\ Printf!Code.s # Printf!Code.x
  /\ Printf!Code.percent \notin Taking
BY DEF Printf!Code, Taking

\* The word for the next conversion.
LEMMA TheNextWord ==
  ASSUME PrintfOK, half = "printf", NEW c \in Taking, Printf!Conversion(c)
  PROVE  /\ args[taken + 1] \in Words
         /\ format \in Seq(Int) /\ place + 1 <= Len(format) /\ format[place] = Printf!Code.percent
         /\ format[place + 1] = c
         /\ Cardinality(Behind(format, place + 2)) \in Nat
         /\ taken + 1 <= Cardinality(Behind(format, place + 2))
<1>1. /\ format \in DOMAIN Arguments
      /\ args \in [1 .. Printf!Conversions(format) -> Arguments[format]]
      /\ place \in Nat \ {0} /\ taken \in Nat /\ taken <= Cardinality(Behind(format, place))
  BY DEF PrintfOK
<1>2. format \in Seq(Int) /\ Arguments[format] \subseteq Words
  BY <1>1, FormatAssumption
<1>3. place + 1 <= Len(format) /\ format[place] = Printf!Code.percent /\ format[place + 1] = c
  BY DEF Printf!Conversion, Printf!At
<1>4. /\ Cardinality(Behind(format, place)) \in Nat /\ Cardinality(Behind(format, place + 2)) \in Nat
      /\ Cardinality(Behind(format, place)) + 1 <= Cardinality(Behind(format, place + 2))
      /\ Cardinality(Behind(format, place)) + 1 <= Printf!Conversions(format)
      /\ Printf!Conversions(format) \in Nat
  <2>1. format[place + 1] \in {Printf!Code.d, Printf!Code.s, Printf!Code.x}
    BY <1>3 DEF Taking
  <2> QED
    BY <1>1, <1>2, <1>3, <2>1, OneMoreBehind
<1>5. taken + 1 \in 1 .. Printf!Conversions(format) /\ taken + 1 <= Cardinality(Behind(format, place + 2))
  BY <1>1, <1>4
<1> QED
  BY <1>1, <1>2, <1>3, <1>4, <1>5

\* What a step that prints an argument must do.
Printed ==
  /\ taken' = taken + 1
  /\ Printf!Stands(SubSeq(out', Len(out) + 1, Len(out')), format[place + 1], args[taken'])

\* A conversion that puts a text for its word.
LEMMA ConversionStep ==
  ASSUME PrintfOK, half = "printf", half' = half, NEW c \in Taking, Printf!Conversion(c),
         NEW text \in Seq(Int), Printf!Put(text, 2, 1), Printf!Stands(text, c, args[taken + 1])
  PROVE  PrintfOK' /\ Printed
<1>1. /\ format \in DOMAIN Arguments
      /\ args \in [1 .. Printf!Conversions(format) -> Arguments[format]]
      /\ place \in Nat \ {0} /\ out \in Seq(Int) /\ taken \in Nat
  BY DEF PrintfOK
<1>2. /\ format[place + 1] = c
      /\ taken + 1 <= Cardinality(Behind(format, place + 2))
  BY TheNextWord
<1>3. out' = out \o text /\ place' = place + 2 /\ taken' = taken + 1 /\ format' = format /\ args' = args
  BY DEF Printf!Put
<1>4. out \o text \in Seq(Int) /\ SubSeq(out \o text, Len(out) + 1, Len(out \o text)) = text
  BY <1>1, PutBehind
<1>5. Printed
  BY <1>2, <1>3, <1>4 DEF Printed
<1>6. /\ format' \in DOMAIN Arguments
      /\ args' \in [1 .. Printf!Conversions(format') -> Arguments[format']]
      /\ place' \in Nat \ {0} /\ out' \in Seq(Int)
      /\ taken' \in Nat /\ taken' <= Cardinality(Behind(format', place'))
  <2>1. place' \in Nat \ {0} /\ taken' \in Nat
    BY <1>1, <1>3
  <2> QED
    BY <1>1, <1>2, <1>3, <1>4, <2>1
<1>7. PrintfOK'
  BY <1>6 DEF PrintfOK
<1> QED
  BY <1>5, <1>7

\* A step that takes no argument.
LEMMA NothingTaken ==
  ASSUME PrintfOK, half = "printf", half' = half, NEW text \in Seq(Int),
         NEW n \in 1 .. 2, Printf!Put(text, n, 0)
  PROVE  PrintfOK'
<1>1. /\ format \in DOMAIN Arguments
      /\ args \in [1 .. Printf!Conversions(format) -> Arguments[format]]
      /\ place \in Nat \ {0} /\ out \in Seq(Int)
      /\ taken \in Nat /\ taken <= Cardinality(Behind(format, place))
  BY DEF PrintfOK
<1>2. out' = out \o text /\ place' = place + n /\ taken' = taken + 0 /\ format' = format /\ args' = args
  BY DEF Printf!Put
<1>3. format \in Seq(Int)
  BY <1>1, FormatAssumption
<1>4. place + n \in Nat \ {0} /\ place <= place + n /\ place \in Nat
  BY <1>1
<1>5. /\ Cardinality(Behind(format, place)) \in Nat /\ Cardinality(Behind(format, place + n)) \in Nat
      /\ Cardinality(Behind(format, place)) <= Cardinality(Behind(format, place + n))
  BY <1>3, <1>4, BehindGrows
<1>6. taken' = taken /\ taken <= Cardinality(Behind(format, place + n))
  BY <1>1, <1>2, <1>5
<1>7. out' \in Seq(Int)
  BY <1>1, <1>2, PutBehind
<1>8. /\ format' \in DOMAIN Arguments
      /\ args' \in [1 .. Printf!Conversions(format') -> Arguments[format']]
      /\ place' \in Nat \ {0} /\ out' \in Seq(Int)
      /\ taken' \in Nat /\ taken' <= Cardinality(Behind(format', place'))
  BY <1>1, <1>2, <1>4, <1>6, <1>7
<1> QED
  BY <1>8 DEF PrintfOK

Asked == out' # out /\ format[place] = Printf!Code.percent /\ format[place + 1] # Printf!Code.percent

LEMMA PrintfStep ==
  ASSUME PrintfOK, half = "printf", half' = half, Printf!Next
  PROVE  PrintfOK' /\ (Asked => Printed)
<1>1. format \in DOMAIN Arguments /\ out \in Seq(Int) /\ place \in Nat \ {0}
  BY DEF PrintfOK
<1>2. format \in Seq(Int)
  BY <1>1, FormatAssumption
<1>3. CASE Printf!Plain
  <2>1. PICK text : text = <<format[place]>>
    OBVIOUS
  <2>2. Printf!Put(text, 1, 0) /\ format[place] # Printf!Code.percent /\ place <= Len(format)
    BY <1>3, <2>1 DEF Printf!Plain
  <2>3. format[place] \in Int
    BY <1>1, <1>2, <2>2, ElementOfSeq, LenProperties
  <2>4. text \in Seq(Int)
    BY <2>1, <2>3
  <2> QED
    BY <2>2, <2>4, NothingTaken DEF Asked
<1>4. CASE Printf!Percent
  <2>1. PICK text : text = <<Printf!Code.percent>>
    OBVIOUS
  <2>2. text \in Seq(Int)
    <3>1. Printf!Code.percent = 37
      BY DEF Printf!Code
    <3> QED
      BY <2>1, <3>1
  <2>3. Printf!Put(text, 2, 0) /\ format[place + 1] = Printf!Code.percent
    BY <1>4, <2>1 DEF Printf!Percent, Printf!Conversion, Printf!At
  <2> QED
    BY <2>2, <2>3, NothingTaken DEF Asked
<1>5. CASE Printf!Decimal
  <2>1. Printf!Code.d \in Taking
    BY DEF Taking
  <2>2. PICK word, text : word = args[taken + 1] /\ text = Printf!itoa(word, 10)
    OBVIOUS
  <2>3. Printf!Conversion(Printf!Code.d) /\ Printf!Put(text, 2, 1)
    BY <1>5, <2>2 DEF Printf!Decimal
  <2>4. word \in Words
    BY <2>1, <2>2, <2>3, TheNextWord
  <2>5. ReadsAs(text, word)
    BY <2>2, <2>4, ItoaReads
  <2>6. text \in Seq(Int) /\ text # <<>> /\ Printf!NumberOf(text, 10) = word
    BY <2>5 DEF ReadsAs
  <2>7. Printf!Stands(text, Printf!Code.d, word)
    BY <2>6, CodesDiffer DEF Printf!Stands
  <2> QED
    BY <2>1, <2>2, <2>3, <2>6, <2>7, ConversionStep
<1>6. CASE Printf!Hexadecimal
  <2>1. Printf!Code.x \in Taking
    BY DEF Taking
  <2>2. PICK word, text : word = args[taken + 1] /\ text = Printf!Hex(word)
    OBVIOUS
  <2>3. Printf!Conversion(Printf!Code.x) /\ Printf!Put(text, 2, 1)
    BY <1>6, <2>2 DEF Printf!Hexadecimal
  <2>4. word \in Words
    BY <2>1, <2>2, <2>3, TheNextWord
  <2>5. word \in Int
    <3>1. PICK h : h = Printf!WordSize \div 2
      OBVIOUS
    <3>2. h \in Int
      <4>1. \A w \in Nat : w \div 2 \in Int
        BY SMT
      <4> QED
        BY <3>1, <4>1, WordSizeIs
    <3>3. word \in -h .. h - 1
      BY <2>4, <3>1 DEF Words
    <3> QED
      BY <3>2, <3>3
  <2>6. text \in Seq(Int) /\ Len(text) = Nibbles /\ Printf!NumberOf(text, 16) = Printf!Unsigned(word)
    BY <2>2, <2>5, HexReads
  <2>7. Printf!Stands(text, Printf!Code.x, word)
    BY <2>6, CodesDiffer DEF Printf!Stands
  <2> QED
    BY <2>1, <2>2, <2>3, <2>6, <2>7, ConversionStep
<1>7. CASE Printf!String
  <2>1. Printf!Code.s \in Taking
    BY DEF Taking
  <2>2. PICK word, text : word = args[taken + 1] /\ text = TextAt[word]
    OBVIOUS
  <2>3. Printf!Conversion(Printf!Code.s) /\ Printf!Put(text, 2, 1)
    BY <1>7, <2>2 DEF Printf!String
  <2>4. word \in Words
    BY <2>1, <2>2, <2>3, TheNextWord
  <2>5. text \in Seq(Int)
    BY <2>2, <2>4, FormatAssumption
  <2>6. Printf!Stands(text, Printf!Code.s, word)
    BY <2>2, CodesDiffer DEF Printf!Stands
  <2> QED
    BY <2>1, <2>2, <2>3, <2>5, <2>6, ConversionStep
<1>8. CASE Printf!Other
  <2>1. PICK text : text = <<>>
    OBVIOUS
  <2>2. Printf!Put(text, 2, 0) /\ text \in Seq(Int)
    BY <1>8, <2>1 DEF Printf!Other
  <2>3. out' = out
    <3>1. out' = out \o text
      BY <2>2 DEF Printf!Put
    <3> QED
      BY <1>1, <2>1, <3>1, ConcatEmptySeq
  <2> QED
    BY <2>2, <2>3, NothingTaken DEF Asked
<1>9. ASSUME UNCHANGED <<format, args, place, taken, out>>
      PROVE  PrintfOK' /\ (Asked => Printed)
  BY <1>9 DEF PrintfOK, Asked, Behind, Letters
<1> QED
  BY <1>3, <1>4, <1>5, <1>6, <1>7, <1>8, <1>9
  DEF Printf!Next, Printf!PercentAtEnd, Printf!Returns, Printf!Over, Printf!vars

\* What printf gives its file for a conversion is read back as the argument
\* behind the last conversion's, for words of every size, every argument down
\* to the least number, and every format (vfprintf and itoa).
THEOREM PrintingIsRead == PrintingSpec => PrintsItsArgument
<1>1. PrintingInit => PrintfOK
  <2> SUFFICES ASSUME PrintingInit, half = "printf"
               PROVE  PrintfOK
    BY DEF PrintfOK
  <2>1. Printf!Init
    BY DEF PrintingInit
  <2>2. /\ format \in DOMAIN Arguments
        /\ args \in [1 .. Printf!Conversions(format) -> Arguments[format]]
        /\ place = 1 /\ taken = 0 /\ out = <<>>
    BY <2>1 DEF Printf!Init
  <2>3. format \in Seq(Int)
    BY <2>2, FormatAssumption
  <2>4. Cardinality(Behind(format, 1)) \in Nat
    BY <2>3, BehindGrows
  <2>5. out \in Seq(Int)
    BY <2>2, EmptySeq
  <2> QED
    BY <2>2, <2>4, <2>5 DEF PrintfOK
<1>2. PrintfOK /\ [PrintingNext]_printingVars => PrintfOK' /\ [Asked => Printed]_Printf!vars
  <2> SUFFICES ASSUME PrintfOK, [PrintingNext]_printingVars
               PROVE  PrintfOK' /\ [Asked => Printed]_Printf!vars
    OBVIOUS
  <2>1. CASE half = "printf" /\ Printf!Next /\ UNCHANGED <<half, vars>>
    BY <2>1, PrintfStep
  <2>2. CASE UNCHANGED formatVars /\ half' = half
    <3>1. UNCHANGED Printf!vars
      BY <2>2 DEF formatVars, Printf!vars
    <3>2. PrintfOK'
      BY <2>2 DEF PrintfOK, formatVars, Behind, Letters
    <3> QED
      BY <3>1, <3>2
  <2> QED
    BY <2>1, <2>2 DEF PrintingNext, printingVars, formatVars
<1>3. [Asked => Printed]_Printf!vars =>
        [out' # out /\ format[place] = Printf!Code.percent /\ format[place + 1] # Printf!Code.percent =>
           /\ taken' = taken + 1
           /\ Printf!Stands(SubSeq(out', Len(out) + 1, Len(out')), format[place + 1], args[taken'])]_Printf!vars
  BY DEF Asked, Printed
<1> QED
  BY <1>1, <1>2, <1>3, PTL DEF PrintingSpec, PrintsItsArgument, Printf!PrintsItsArgument
=============================================================================
