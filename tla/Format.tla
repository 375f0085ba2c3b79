------------------------------- MODULE Format -------------------------------
(* printf and sprintf (clib/stdio.cpp) with the conversion of numbers        *)
(* (clib/string.cpp).  A character is its code, a format a sequence of       *)
(* characters, and an argument a machine word: a number, or the address of   *)
(* a text.                                                                   *)
EXTENDS Integers, SequencesExt

CONSTANTS
  Nibbles,   \* half bytes in a word
  Arguments, \* Arguments[f]: what format f is printed with, as the numbers that
             \* %d takes the words for
  TextAt     \* the text at an address

Code == [percent |-> 37, minus |-> 45, zero |-> 48, a |-> 97, d |-> 100, s |-> 115, x |-> 120]

VARIABLES
  format, args,
  i,          \* the next character of the format
  taken,      \* arguments that va_arg has given
  out,        \* characters given to the file
  stage       \* "printing", "returned", "assertion failed"

vars == <<format, args, i, taken, out, stage>>

----------------------------------------------------------------------------
(* Numbers *)

WordSize ==
  LET power[k \in 0 .. Nibbles] == IF k = 0 THEN 1 ELSE 16 * power[k - 1]
  IN power[Nibbles]

Unsigned(v) == v % WordSize

\* The digits of v, highest first.
DigitsOf(v, base) ==
  LET digits[n \in 0 .. v] == IF n = 0 THEN <<>> ELSE Append(digits[n \div base], n % base)
  IN digits[v]

\* i + (i < 10 ? '0' : 'a')
ItoaDigit(n) == n + (IF n < 10 THEN Code.zero ELSE Code.a)

HexDigit(n) == n + (IF n < 10 THEN Code.zero ELSE Code.a - 10)

\* Mutant: the sign is left out.
ItoaUnsigned(value, base) ==
  [k \in 1 .. Len(DigitsOf(Unsigned(value), base)) |-> ItoaDigit(DigitsOf(Unsigned(value), base)[k])]

itoa(value, base) ==
  LET sign == base = 10 /\ value < 0
      digits == DigitsOf(Unsigned(IF sign THEN -value ELSE value), base)
  IN IF value = 0 THEN <<Code.zero>>
     ELSE (IF sign THEN <<Code.minus>> ELSE <<>>) \o [k \in DOMAIN digits |-> ItoaDigit(digits[k])]

\* tmp_value >>= 4, k times.
Shifted(v) ==
  LET shifted[k \in 0 .. Nibbles] == IF k = 0 THEN v ELSE shifted[k - 1] \div 16
  IN shifted

\* All digits of the word, the lowest bits last.
Hex(value) ==
  [k \in 1 .. Nibbles |-> HexDigit(Shifted(Unsigned(value))[Nibbles - k] % 16)]

----------------------------------------------------------------------------
(* vfprintf *)

Conversions(f) ==
  Cardinality({k \in DOMAIN f \ {1} : f[k] \in {Code.d, Code.s, Code.x} /\ f[k - 1] = Code.percent})

Init ==
  /\ format \in DOMAIN Arguments
  /\ args \in [1 .. Conversions(format) -> Arguments[format]]
  /\ i = 1 /\ taken = 0 /\ out = <<>>
  /\ stage = "printing"

\* printf("") has run.
Empty ==
  /\ format = <<>> /\ args = <<>>
  /\ i = 1 /\ taken = 0 /\ out = <<>>
  /\ stage = "returned"

Put(text, characters, words) ==
  /\ out' = out \o text
  /\ i' = i + characters
  /\ taken' = taken + words
  /\ UNCHANGED <<format, args, stage>>

At(k, c) == stage = "printing" /\ k <= Len(format) /\ format[k] = c
Conversion(c) == At(i, Code.percent) /\ At(i + 1, c)

Plain ==
  /\ stage = "printing" /\ i <= Len(format) /\ format[i] # Code.percent
  /\ Put(<<format[i]>>, 1, 0)

Percent == Conversion(Code.percent) /\ Put(<<Code.percent>>, 2, 0)
Decimal == Conversion(Code.d) /\ Put(itoa(args[taken + 1], 10), 2, 1)

Hexadecimal == Conversion(Code.x) /\ Put(Hex(args[taken + 1]), 2, 1)
String == Conversion(Code.s) /\ Put(TextAt[args[taken + 1]], 2, 1)

\* A character that is no conversion is left out with its percent sign.
Other ==
  /\ At(i, Code.percent) /\ i < Len(format)
  /\ format[i + 1] \notin {Code.percent, Code.d, Code.x, Code.s}
  /\ Put(<<>>, 2, 0)

\* "Invalid printf argument"
PercentAtEnd ==
  /\ At(i, Code.percent) /\ i = Len(format)
  /\ stage' = "assertion failed"
  /\ UNCHANGED <<format, args, i, taken, out>>

Returns ==
  /\ stage = "printing" /\ i > Len(format)
  /\ stage' = "returned"
  /\ UNCHANGED <<format, args, i, taken, out>>

Over == stage # "printing" /\ UNCHANGED vars

Next ==
  \/ Plain \/ Percent \/ Decimal \/ Hexadecimal \/ String \/ Other
  \/ PercentAtEnd \/ Returns \/ Over

Spec == Init /\ [][Next]_vars

----------------------------------------------------------------------------
(* Properties *)

\* The number that a text stands for in a base.
Digit(c) == IF c >= Code.a THEN c - Code.a + 10 ELSE c - Code.zero
Size(digits, base) == FoldLeft(LAMBDA n, c : n * base + Digit(c), 0, digits)
NumberOf(text, base) ==
  IF text[1] = Code.minus THEN -Size(Tail(text), base) ELSE Size(text, base)

\* A text that stands for a word under a conversion.
Stands(text, c, word) ==
  CASE c = Code.d -> text # <<>> /\ NumberOf(text, 10) = word
    [] c = Code.x -> Len(text) = Nibbles /\ NumberOf(text, 16) = Unsigned(word)
    [] c = Code.s -> text = TextAt[word]

\* Every conversion takes the argument behind the last one's, and what it
\* prints can be read back as that argument, down to the least number.
PrintsItsArgument ==
  [][out' # out /\ format[i] = Code.percent /\ format[i + 1] # Code.percent =>
       /\ taken' = taken + 1
       /\ Stands(SubSeq(out', Len(out) + 1, Len(out')), format[i + 1], args[taken'])]_vars
=============================================================================
