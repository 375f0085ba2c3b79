------------------------------ MODULE Terminal ------------------------------
(* What the console promises to those who write to it: paper of Width       *)
(* columns that shows its last Height lines.  Characters go to the end of   *)
(* the last line, a full line is continued on the next one.                 *)
EXTENDS Integers, Sequences

CONSTANTS Width, Height, Char, NewLine, Return, Blank

VARIABLES
  lines,  \* the lines that are shown, from the top one
  col     \* where the next character of the last one goes

vars == <<lines, col>>

Columns == 0 .. Width - 1
BlankLine == [c \in Columns |-> Blank]

Feed(ls) == IF Len(ls) < Height THEN Append(ls, BlankLine) ELSE Append(Tail(ls), BlankLine)

WriteAt(ls, c, char) == [ls EXCEPT ![Len(ls)] = [@ EXCEPT ![c] = char]]

Put(char) ==
  CASE char = NewLine -> lines' = Feed(lines) /\ col' = 0
    [] char = Return -> lines' = lines /\ col' = 0
    [] OTHER -> IF col < Width
                THEN lines' = WriteAt(lines, col, char) /\ col' = col + 1
                ELSE lines' = WriteAt(Feed(lines), 0, char) /\ col' = 1

Clear == lines' = <<BlankLine>> /\ col' = 0

Init == lines = <<BlankLine>> /\ col = 0

Next == Clear \/ \E char \in Char : Put(char)

Spec == Init /\ [][Next]_vars
=============================================================================
