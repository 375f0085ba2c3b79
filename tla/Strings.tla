------------------------------ MODULE Strings ------------------------------
(* util::string (string.h): a length and a pointer to a buffer of the heap. *)
(* A string that is copied shares its buffer with the copy, every other     *)
(* operation makes a buffer of its own, and a destructor frees the buffer,   *)
(* shared or not.  A buffer that nothing points to any more is lost for      *)
(* good; its name is used again.                                            *)
EXTENDS Integers, Sequences, SequencesExt

CONSTANTS
  StringVars, \* variables of type string
  Buffers,    \* addresses of the heap
  Literals,   \* the arguments of type const char *
  MaxLength   \* bound: of a string

Nul == "0"
Slash == "/"
None == [data |-> "none", length |-> 0]

StringsAssumption ==
  /\ None.data \notin Buffers
  /\ \A cstr \in Literals : cstr \in Seq(ToSet(cstr))
  /\ MaxLength \in Nat

VARIABLES
  string,     \* the strings that exist: pointer and length
  block,      \* what a buffer holds; nothing is said of one that is not live
  live,       \* buffers that kmalloc has given out and free has not taken
  text,       \* history: what a string ought to read
  kin,        \* history: pairs of strings of which one was copied from the other
  disturbed,  \* history: strings whose buffer another one has freed or written
  parts       \* what the last call, of split, has returned

vars == <<string, block, live, text, kin, disturbed, parts>>

Init ==
  /\ string = [s \in StringVars |-> None]
  /\ block = [b \in Buffers |-> <<>>]
  /\ live = {}
  /\ text = [s \in StringVars |-> <<>>]
  /\ kin = {} /\ disturbed = {} /\ parts = <<>>

Exists(s) == string[s] # None

\* What reads a disturbed string reads junk, and is not modelled.
Readable(s) == Exists(s) /\ s \notin disturbed

\* The bytes of a string, of whatever its buffer holds now.
Bytes(s) ==
  LET held == block[string[s].data]
  IN [k \in 1 .. string[s].length |-> IF k <= Len(held) THEN held[k] ELSE "junk"]

Forget(blocks, kept) == [b \in Buffers |-> IF b \in kept THEN blocks[b] ELSE <<>>]
Junk(n) == [k \in 1 .. n |-> "junk"]

----------------------------------------------------------------------------
\* s is given a new buffer, whichever the heap has free.
Give(s, length, content, means) ==
  /\ \E b \in Buffers \ live :
       /\ string' = [string EXCEPT ![s] = [data |-> b, length |-> length]]
       /\ live' = {string'[o].data : o \in StringVars} \cap (live \cup {b})
       /\ block' = Forget([block EXCEPT ![b] = content], live')
  /\ text' = [text EXCEPT ![s] = means]
  /\ kin' = {pair \in kin : s \notin pair}
  /\ parts' = <<>>

\* string(): five bytes, none of them set.
Default(s) == ~Exists(s) /\ Give(s, 0, Junk(5), <<>>) /\ UNCHANGED disturbed

\* string(cstr)
FromLiteral(s, cstr) ==
  ~Exists(s) /\ Give(s, Len(cstr), Append(cstr, Nul), cstr) /\ UNCHANGED disturbed

\* string(other)
Copy(s, other) ==
  /\ ~Exists(s) /\ Readable(other)
  /\ string' = [string EXCEPT ![s] = string[other]]
  /\ text' = [text EXCEPT ![s] = text[other]]
  /\ kin' = kin \cup {{s, o} : o \in {other} \cup {p \in StringVars : {p, other} \in kin}}
  /\ parts' = <<>>
  /\ UNCHANGED <<block, live, disturbed>>

\* Mutant: assignment shares the buffer, like the copy constructor.
AssignShares(s, other) ==
  /\ Exists(s) /\ Exists(other)
  /\ string' = [string EXCEPT ![s] = string[other]]
  /\ text' = [text EXCEPT ![s] = text[other]]
  /\ parts' = <<>>
  /\ UNCHANGED <<block, live, kin, disturbed>>

\* s = other.  The old buffer is not freed.  Assigned to itself, a string
\* copies the new buffer, not the old one.
Assign(s, other) ==
  /\ Exists(s) /\ Readable(other)
  /\ Give(s, string[other].length,
          Append(IF s = other THEN Junk(string[s].length) ELSE Bytes(other), Nul), text[other])
  /\ disturbed' = IF s = other THEN disturbed \cup {s} ELSE disturbed \ {s}

\* s = left + right, of two strings.
Plus(s, left, right) ==
  /\ ~Exists(s) /\ Readable(left) /\ Readable(right)
  /\ string[left].length + string[right].length <= MaxLength
  /\ Give(s, string[left].length + string[right].length,
          Bytes(left) \o Bytes(right) \o <<Nul>>, text[left] \o text[right])
  /\ UNCHANGED disturbed

\* s = from.slice(start, end), or from.substr(start, end - start).
Slice(s, from, start, end) ==
  /\ ~Exists(s) /\ Readable(from)
  /\ 0 <= start /\ start <= end /\ end <= string[from].length
  /\ Give(s, end - start, Append(SubSeq(Bytes(from), start + 1, end), Nul),
          SubSeq(text[from], start + 1, end))
  /\ UNCHANGED disturbed

\* s += other: krealloc lets the buffer grow where it is, or moves it.
AppendString(s, other) ==
  /\ Readable(s) /\ Readable(other)
  /\ string[s].length + string[other].length <= MaxLength
  /\ \E b \in {string[s].data} \cup (Buffers \ live) :
       /\ string' = [string EXCEPT ![s] = [data |-> b, length |-> @.length + string[other].length]]
       /\ live' = (live \ {string[s].data}) \cup {b}
       /\ block' = Forget([block EXCEPT ![b] = Bytes(s) \o Bytes(other) \o <<Nul>>], live')
  /\ text' = [text EXCEPT ![s] = @ \o text[other]]
  /\ disturbed' = disturbed
       \cup {o \in StringVars : {s, o} \in kin}
       \cup (IF {s, other} \in kin THEN {s} ELSE {})
  /\ kin' = {pair \in kin : s \notin pair}
  /\ parts' = <<>>

\* ~string(): what another string has freed already, free() ignores; if it
\* was given out again since, its new owner loses it.
Destroy(s) ==
  /\ Exists(s)
  /\ string' = [string EXCEPT ![s] = None]
  /\ live' = live \ {string[s].data}
  /\ text' = [text EXCEPT ![s] = <<>>]
  /\ kin' = {pair \in kin : s \notin pair}
  /\ disturbed' = (disturbed \ {s}) \cup
       {o \in StringVars \ {s} :
          {s, o} \in kin \/ (s \in disturbed /\ string[o].data = string[s].data)}
  /\ block' = Forget(block, live')
  /\ parts' = <<>>

----------------------------------------------------------------------------
\* Mutant: the start of a section is not moved behind the separator.
SectionFromSeparator(i) == i - 1

SectionAfter(i) == i

\* The second loop of split: sections so far, and where the next one starts.
Sections(bytes) ==
  LET loop[i \in 0 .. Len(bytes)] ==
        IF i = 0 THEN [out |-> <<>>, start |-> 0, size |-> 0]
        ELSE IF bytes[i] = Slash
             THEN [out |-> Append(loop[i - 1].out,
                                  SubSeq(bytes, loop[i - 1].start + 1, loop[i - 1].start + loop[i - 1].size)),
                   start |-> SectionAfter(i), size |-> 0]
             ELSE [loop[i - 1] EXCEPT !.size = @ + 1]
  IN loop[Len(bytes)]

\* s.split('/'): every part is assigned to the string of a new list node.
split(s) ==
  LET end == Sections(Bytes(s))
  IN /\ Readable(s)
     /\ parts' = Append(end.out, SubSeq(Bytes(s), end.start + 1, end.start + end.size))
     /\ UNCHANGED <<string, block, live, text, kin, disturbed>>

\* s == other
Equal(s, other) ==
  \/ string[s].data = string[other].data
  \/ string[s].length = string[other].length /\ Bytes(s) = Bytes(other)

Next ==
  \E s \in StringVars :
    \/ Default(s) \/ \E cstr \in Literals : FromLiteral(s, cstr)
    \/ \E other \in StringVars : Copy(s, other) \/ Assign(s, other) \/ AppendString(s, other)
    \/ \E left, right \in StringVars : Plus(s, left, right)
    \/ \E from \in StringVars, start, end \in 0 .. MaxLength : Slice(s, from, start, end)
    \/ Destroy(s) \/ split(s)

Spec == Init /\ [][Next]_vars

----------------------------------------------------------------------------
(* Properties *)

\* As long as no copy of it frees or writes the buffer they share, nor it is
\* assigned to itself, a string reads what was put into it, its end is marked behind
\* that, its buffer is still its own, and == tells it from others, whatever is done
\* with strings that are no copies of it and with the parts it was split into.
TextKept ==
  \A s \in {r \in StringVars : Exists(r)} \ disturbed :
    /\ Bytes(s) = text[s] /\ string[s].data \in live
    /\ text[s] # <<>> => block[string[s].data][string[s].length + 1] = Nul
    /\ \A o \in {r \in StringVars : Exists(r)} \ disturbed : Equal(s, o) <=> text[s] = text[o]

\* What split returns are the sections between the separators, empty ones at
\* both ends and between two separators included: put together again with
\* separators they are the string, and no section holds one.
SplitSections ==
  [][parts' # <<>> =>
       /\ \A k \in DOMAIN parts' : Slash \notin ToSet(parts'[k])
       /\ \E s \in StringVars \ disturbed :
            text[s] = FoldLeft(LAMBDA joined, part : joined \o <<Slash>> \o part,
                               Head(parts'), Tail(parts'))]_vars
=============================================================================
