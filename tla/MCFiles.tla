------------------------------ MODULE MCFiles -------------------------------
(* Files and what they are shown on: how a tree of them and a program get   *)
(* into the kernel, the counted pointers that entries and open files are    *)
(* made of, the calls of a program, and printing.  None of the models reads *)
(* the state of another, so a behaviour runs one of them.                   *)
EXTENDS MCLoading, Entries, OpenFiles, Printing, FiniteSets

VARIABLE part

\* %, d, s, x, a letter that is no conversion, and a line feed.
Characters == {37, 100, 115, 120, 113, 10}

\* The words of two half bytes.
ByteWords == -128 .. 127

\* Every format of up to four of them, with the least number, 0 and 10 for
\* arguments, and the formats of a number alone with all numbers.
ShortFormats == UNION {[1 .. n -> Characters] : n \in 0 .. 4}
Numbers == {<<37, c>> : c \in {100, 120}}
ArgumentsOf ==
  [f \in ShortFormats |-> IF f \in Numbers THEN ByteWords ELSE {-128, 0, 10}]

\* The texts the arguments may point to: none, a percent sign, two characters.
TextOf == [w \in ByteWords |-> IF w = 0 THEN <<>> ELSE IF w = 10 THEN <<37>> ELSE <<100, 10>>]

\* Lines that just fit, go over the end, end with a control character, return
\* to their start, and contain a NUL.
ShortTexts == {<<"a">>, <<"b", "nl">>, <<"a", "b", "a", "b">>, <<"b", "cr", "a">>, <<"a", "nul", "b">>}
Fault == <<"nl", "b">>

\* A file of two bytes in front of another one.
TextAndNext == <<"t", "u", "v">>

----------------------------------------------------------------------------
\* A program spins in the assertion of a bad path; the other ends are those of
\* the model, once memory that it does not have was overwritten.
ProgramStops ==
  /\ file_stage \in {"bad open syscall", "table overwritten", "fifo overrun", "null file"}
  /\ UNCHANGED openVars

everything == <<loadingVars, entriesVars, openVars, printingVars>>

\* A part that does not run stays in one of its initial states.
FilesInit ==
  /\ part \in {"loading", "pointers", "program", "printing"}
  /\ LoadingInit /\ (part # "loading" => way = "image" /\ Len(tree) = 1)
  /\ EntriesInit
  /\ OpenInit /\ (part # "program" => buffer_index = 0)
  /\ PrintingInit /\ (part # "printing" => half = "console")

Runs(name, others) == part = name /\ UNCHANGED <<part, others>>

FilesNext ==
  \/ Runs("loading", <<entriesVars, openVars, printingVars>>) /\ LoadingNext
  \/ Runs("pointers", <<loadingVars, openVars, printingVars>>) /\ EntriesNext
  \/ Runs("program", <<loadingVars, entriesVars, printingVars>>) /\ (OpenNext \/ ProgramStops)
  \/ Runs("printing", <<loadingVars, entriesVars, openVars>>) /\ PrintingNext

FilesSpec == FilesInit /\ [][FilesNext]_<<part, everything>>
=============================================================================
