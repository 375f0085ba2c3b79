------------------------------- MODULE Console -------------------------------
(* The text console (vga.cpp) and the stream the kernel prints to it with    *)
(* (stdio.cpp).  Two ways lead to the screen: printk sends every character   *)
(* through the buffer of stdout, write on /dev/vga sends them directly.      *)
(* A write reads its caller's memory, so a page fault may end it between     *)
(* two characters: its handler prints a message of its own and stops.        *)
EXTENDS Integers, Sequences

CONSTANTS
  Width, Height,    \* SCREEN_WIDTH and SCREEN_HEIGHT
  Glyph,            \* characters that are shown
  NewLine, Return, Nul,
  OutSize,          \* 100, the size of out_buffer
  Texts,            \* what is printed and written
  FaultText         \* what cpu_fault_handler prints

Char == Glyph \cup {NewLine, Return, Nul}

ASSUME ConsoleAssumption ==
  /\ Width \in Nat \ {0} /\ Height \in Nat \ {0} /\ OutSize \in Nat /\ OutSize > 1
  /\ {NewLine, Return, Nul} \cap Glyph = {}
  /\ NewLine # Return /\ NewLine # Nul /\ Return # Nul
  /\ Texts \subseteq Seq(Char) /\ FaultText \in Seq(Char)

Cells == 0 .. Width * Height - 1
Dark == 0
White == 15
Zero == [char |-> Nul, attr |-> Dark]

VARIABLES
  screen,      \* the video memory, the position in it, and the stores that missed it
  out_buffer,  \* the characters put into stdout's buffer, and
  write_ptr,   \* stdout->_IO_write_ptr, as an index of it
  flush,       \* io_flush_handler's loop counter, if it is running
  job          \* what is being printed: by whom, and the rest of it

vars == <<screen, out_buffer, write_ptr, flush, job>>
stdout == <<out_buffer, write_ptr, flush>>

----------------------------------------------------------------------------
(* The screen: s is [cells, line, column, vbuf, stray] *)

place_cursor(s) == [s EXCEPT !.vbuf = Width * s.line + s.column]

\* Mutant: the line that becomes free is not cleared.
ScrollKeeps(cells, l) ==
  [a \in Cells |-> IF a >= Width * (l - 1) /\ a < Width * (Height - l) THEN cells[a + Width]
                   ELSE cells[a]]

\* Line i goes to line i - 1 from line l on, and the last l lines are cleared.
scroll_lines(cells, l) ==
  [a \in Cells |-> IF a >= Width * (Height - l) THEN Zero
                   ELSE IF a >= Width * (l - 1) THEN cells[a + Width]
                   ELSE cells[a]]

next_line(s) ==
  IF s.line + 1 >= Height
  THEN place_cursor([s EXCEPT !.cells = scroll_lines(@, 1), !.line = Height - 1, !.column = 0])
  ELSE place_cursor([s EXCEPT !.line = @ + 1, !.column = 0])

kputc(s, c) ==
  place_cursor([s EXCEPT
    !.cells = IF s.vbuf \in Cells THEN [@ EXCEPT ![s.vbuf] = [char |-> c, attr |-> White]] ELSE @,
    !.stray = @ \cup ({s.vbuf} \ Cells),
    !.column = @ + 1])

kputchar(s, c) ==
  CASE c = NewLine -> next_line(s)
    [] c = Return -> place_cursor([s EXCEPT !.column = 0])
    [] OTHER -> kputc(IF s.column >= Width THEN next_line(s) ELSE s, c)

ClearScreen(stray) ==
  [cells |-> [a \in Cells |-> Zero], line |-> 0, column |-> 0, vbuf |-> 0, stray |-> stray]

----------------------------------------------------------------------------
(* stdout *)

NotFlushing == -1
EmptyBuffer == [k \in 0 .. OutSize - 1 |-> Nul]

\* putc, putchar and puts come down to this: the character is stored, and
\* fflush calls io_flush_handler.
fputc(c) ==
  /\ out_buffer' = [out_buffer EXCEPT ![write_ptr] = c]
  /\ write_ptr' = write_ptr + 1
  /\ flush' = 0
  /\ UNCHANGED screen

\* The loop of io_flush_handler, which ends at the first NUL.
FlushCharacter ==
  /\ flush # NotFlushing
  /\ out_buffer[flush] # Nul
  /\ screen' = kputchar(screen, out_buffer[flush])
  /\ flush' = flush + 1
  /\ UNCHANGED <<out_buffer, write_ptr, job>>

\* Mutant: the pointer is not set back.
FlushKeepsPointer ==
  /\ flush # NotFlushing
  /\ out_buffer[flush] = Nul
  /\ out_buffer' = EmptyBuffer
  /\ flush' = NotFlushing
  /\ UNCHANGED <<screen, write_ptr, job>>

FlushReturns ==
  /\ flush # NotFlushing
  /\ out_buffer[flush] = Nul
  /\ out_buffer' = EmptyBuffer
  /\ write_ptr' = 0
  /\ flush' = NotFlushing
  /\ UNCHANGED <<screen, job>>

----------------------------------------------------------------------------
(* Those who print *)

\* k_init_printk and cleark have run: start.cpp calls them first.
Init ==
  /\ screen = ClearScreen({})
  /\ out_buffer = EmptyBuffer /\ write_ptr = 0 /\ flush = NotFlushing
  /\ job = [by |-> "idle", rest |-> <<>>]

Idle == job.by = "idle" /\ flush = NotFlushing

cleark ==
  /\ Idle
  /\ screen' = ClearScreen(screen.stray)
  /\ UNCHANGED <<stdout, job>>

Begin(by, text) ==
  /\ Idle
  /\ job' = [by |-> by, rest |-> text]
  /\ UNCHANGED <<screen, stdout>>

Left(rest) == [job EXCEPT !.rest = rest]

\* One turn of the loop of fputs.
PutsCharacter ==
  /\ job.by \in {"printk", "fault"} /\ flush = NotFlushing
  /\ job.rest # <<>> /\ Head(job.rest) # Nul
  /\ fputc(Head(job.rest))
  /\ job' = Left(Tail(job.rest))

\* One turn of the loop of vga_dev::write: a NUL is a character like another.
WriteCharacter ==
  /\ job.by = "write"
  /\ job.rest # <<>>
  /\ screen' = kputchar(screen, Head(job.rest))
  /\ job' = Left(Tail(job.rest))
  /\ UNCHANGED stdout

\* The next character of the buffer lies in a page that is not there.
WriteFaults ==
  /\ job.by = "write"
  /\ job.rest # <<>>
  /\ job' = [by |-> "fault", rest |-> FaultText]
  /\ UNCHANGED <<screen, stdout>>

Finish ==
  /\ job.by \in {"printk", "write"} /\ flush = NotFlushing
  /\ job.rest # <<>> => job.by = "printk" /\ Head(job.rest) = Nul
  /\ job' = [by |-> "idle", rest |-> <<>>]
  /\ UNCHANGED <<screen, stdout>>

\* cpu_fault_handler's loop around hlt.
Halt ==
  /\ job = [by |-> "fault", rest |-> <<>>] /\ flush = NotFlushing
  /\ UNCHANGED vars

Next ==
  \/ cleark
  \/ \E by \in {"printk", "write"}, text \in Texts : Begin(by, text)
  \/ PutsCharacter
  \/ FlushCharacter
  \/ FlushReturns
  \/ WriteCharacter
  \/ WriteFaults
  \/ Finish
  \/ Halt

Spec == Init /\ [][Next]_vars

----------------------------------------------------------------------------
(* Properties *)

\* The position keeps to the screen, with one column more for a full line.
TypeOK ==
  /\ DOMAIN screen.cells = Cells
  /\ \A a \in Cells : screen.cells[a].char \in Char /\ screen.cells[a].attr \in {Dark, White}
  /\ screen.line \in 0 .. Height - 1
  /\ screen.column \in 0 .. Width
  /\ DOMAIN out_buffer = 0 .. OutSize - 1
  /\ write_ptr \in 0 .. OutSize
  /\ flush \in {NotFlushing} \cup DOMAIN out_buffer
  /\ job.by \in {"idle", "printk", "write", "fault"}

\* No character is ever stored outside of the video memory, although the
\* pointer itself leaves it whenever the last line is full.
NoStray == screen.stray = {}

\* What is buffered is on the screen before fputc returns: nothing is left for
\* the next printk, or the page fault handler, to print late, and the buffer
\* never comes near its end.
NothingHeldBack ==
  /\ flush = NotFlushing => out_buffer = EmptyBuffer
  /\ write_ptr = IF flush = NotFlushing THEN 0 ELSE 1

\* The lines of the screen down to the current one, as a reader sees them.
Seen(cell) == IF cell.attr = Dark THEN "blank" ELSE cell.char
RowsOf(s) == [r \in 1 .. s.line + 1 |->
                [c \in 0 .. Width - 1 |-> Seen(s.cells[Width * (r - 1) + c])]]
Rows == RowsOf(screen)

Paper == INSTANCE Terminal WITH Blank <- "blank", lines <- Rows, col <- screen.column

\* printk and write, whichever prints, behave as one terminal: the flat video
\* memory, its pointer and its scrolling are those of Terminal's lines.
IsTerminal == Paper!Spec
=============================================================================
