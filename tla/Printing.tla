------------------------------ MODULE Printing ------------------------------
(* The two halves of printing: printf makes a text of a format and its      *)
(* arguments, a character at a time, and the console shows texts.  vfprintf *)
(* never looks at what its file does with a character, so a behaviour runs  *)
(* one of the two.                                                          *)
EXTENDS Console

CONSTANTS Nibbles, Arguments, TextAt

VARIABLES half, format, args, place, taken, out, stage

formatVars == <<format, args, place, taken, out, stage>>

Printf == INSTANCE Format WITH i <- place

\* The numbers an int can be.
Words == -(Printf!WordSize \div 2) .. Printf!WordSize \div 2 - 1

ASSUME FormatAssumption ==
  /\ Nibbles \in Nat \ {0}
  /\ \A f \in DOMAIN Arguments : f \in Seq(Int) /\ Arguments[f] \subseteq Words
  /\ \A word \in Words : TextAt[word] \in Seq(Int)

printingVars == <<half, vars, formatVars>>

PrintingInit ==
  /\ Init
  /\ \/ half = "printf" /\ Printf!Init
     \/ half = "console" /\ Printf!Empty

PrintingNext ==
  \/ half = "printf" /\ Printf!Next /\ UNCHANGED <<half, vars>>
  \/ half = "console" /\ Next /\ UNCHANGED <<half, formatVars>>

PrintingSpec == PrintingInit /\ [][PrintingNext]_printingVars

\* The property of Format, stated there.
PrintsItsArgument == Printf!PrintsItsArgument
=============================================================================
