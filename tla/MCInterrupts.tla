---------------------------- MODULE MCInterrupts ----------------------------
EXTENDS Interrupts

\* A letter, and a key without a character.
LetterAndF1 ==
  [shift \in {0, 1} |-> [code \in {"a", "F1"} |->
     IF code = "F1" THEN 0 ELSE IF shift = 1 THEN 65 ELSE 97]]
=============================================================================
