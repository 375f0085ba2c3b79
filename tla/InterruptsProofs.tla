--------------------------- MODULE InterruptsProofs ---------------------------
(* The keyboard's stack, getc and sleep, for every keyboard, size of the     *)
(* buffer and width of the tick count.                                       *)
EXTENDS Interrupts, WellFoundedInduction, TLAPS

Scancodes == Codes \cup {ShiftDown, ShiftUp, Release}

Chars == {0} \cup {Ascii[shift][code] : shift \in {0, 1}, code \in Codes}

Key == [char : Chars, press : Nat]

Places == {"idle", "getc_test", "getc_test_char", "getc_hlt", "sleep_test", "sleep_hlt",
           "sleep_return"} \cup Popping

\* The places where getc has a pointer in a register.
Pointing == {"getc_test_char", "getc_take_char", "getc_clear_char", "getc_pop_store"}

Devices ==
  /\ request \subseteq {Timer, Keyboard}
  /\ typed \in Seq(Scancodes) /\ Len(typed) <= MaxTyped
  /\ handled \in 0 .. Len(typed)
  /\ Keyboard \in request => handled < Len(typed)

Types ==
  /\ shift_down \in {0, 1}
  /\ key_buffer \in [Cells -> Key]
  /\ pc \in Places
  /\ tmp \in Key /\ got \in Seq(Key)
  /\ raced \in BOOLEAN

\* A pointer that getc has loaded is never behind the stack's top, because
\* only getc itself moves the top down.
Pointers ==
  /\ read_ptr \in 0 .. handled
  /\ reg \in Nat
  /\ pc \in Popping => read_ptr >= 1
  /\ pc \in Pointing => reg <= read_ptr
  /\ pc \in Pointing \cap Popping => reg >= 1
  /\ key_buffer[0] = Nul

StackInv == Devices /\ Types /\ Pointers

----------------------------------------------------------------------------
(* The devices and the two handlers *)

USE DEF Timer, Keyboard

\* A handler leaves the thread where it is, or behind its hlt.
LEMMA HltPlaces ==
  ASSUME pc \in Places, NEW irq
  PROVE  /\ AfterHlt(irq) \in Places
         /\ AfterHlt(irq) \in Popping <=> pc \in Popping
         /\ AfterHlt(irq) \in Pointing <=> pc \in Pointing
         /\ AfterHlt(irq) \in Pointing \cup Popping => AfterHlt(irq) = pc
  BY DEF AfterHlt, Places, Popping, Pointing

\* What the keyboard's handler does: it reads the next scancode, which is one
\* of shift, a key that is let go, or a key that is pushed.
LEMMA KeyboardCases ==
  ASSUME Devices, irq_handler(Keyboard)
  PROVE  /\ handled + 1 \in 1 .. Len(typed)
         /\ Scancode \in Scancodes
         /\ handled' = handled + 1
         /\ UNCHANGED <<typed, reg, tmp, period, timer_start, got, timer_ticks, elapsed>>
         /\ pc' = AfterHlt(Keyboard)
         /\ raced' = (raced \/ pc \in Popping)
         /\ request' \subseteq request
         /\ Keyboard \in request' => handled' < Len(typed)
         /\ \/ Scancode \in {ShiftUp, Release} /\ KeyUp
            \/ /\ Scancode = ShiftDown
               /\ shift_down' = 1 /\ UNCHANGED <<key_buffer, read_ptr>>
            \/ /\ Scancode \in Codes
               /\ UNCHANGED shift_down
               /\ read_ptr' = read_ptr + 1
               /\ key_buffer' = [key_buffer EXCEPT ![read_ptr + 1] =
                    [char |-> Ascii[shift_down][Scancode], press |-> handled + 1]]
<1>1. Keyboard \in request /\ Keyboard # Timer
  BY DEF irq_handler
<1>2. handled + 1 \in 1 .. Len(typed)
  BY <1>1, SMT DEF Devices
<1>3. Scancode \in Scancodes
  BY <1>2, SMT DEF Devices, Scancode
<1>4. keyboard_handler
  BY <1>1 DEF irq_handler
<1>5. request' \subseteq request /\ (Keyboard \in request' => handled' < Len(typed))
  BY SMT DEF irq_handler
<1>6. CASE Scancode \in {ShiftUp, Release}
  BY <1>1, <1>2, <1>3, <1>4, <1>5, <1>6 DEF irq_handler, keyboard_handler
<1>7. CASE Scancode \notin {ShiftUp, Release}
  BY <1>1, <1>2, <1>3, <1>4, <1>5, <1>7 DEF irq_handler, keyboard_handler, KeyDown, Scancodes
<1> QED
  BY <1>6, <1>7


\* The first cell is a cell, and so is the one behind the top while the
\* keyboard has something to say.
LEMMA TopInCells ==
  ASSUME Devices, read_ptr \in 0 .. handled
  PROVE  /\ 0 \in Cells
         /\ read_ptr \in Cells
         /\ \A k \in 0 .. read_ptr : k \in Cells
         /\ handled + 1 <= Len(typed) => read_ptr + 1 \in Cells
<1>1. Len(typed) \in Nat /\ Len(typed) <= BufferSize - 1 /\ BufferSize \in Nat /\ MaxTyped \in Nat
  BY InterruptsAssumption, SMT DEF Devices
<1> QED
  BY <1>1, SMT DEF Devices, Cells

LEMMA StackInit == Init => StackInv
<1>1. 0 \in Cells /\ Cells \subseteq Int
  BY InterruptsAssumption, SMT DEF Cells
<1>2. Nul \in Key
  BY DEF Nul, Key, Chars
<1> SUFFICES ASSUME Init
             PROVE  StackInv
  OBVIOUS
<1>3. Devices
  BY InterruptsAssumption, SMT DEF Init, Devices
<1>4. Types
  <2>1. key_buffer \in [Cells -> Key] /\ tmp \in Key /\ got \in Seq(Key)
    BY <1>2 DEF Init
  <2> QED
    BY <2>1 DEF Init, Types, Places
<1>5. Pointers
  BY <1>1, SMT DEF Init, Pointers, Popping, Pointing
<1> QED
  BY <1>3, <1>4, <1>5 DEF StackInv

----------------------------------------------------------------------------
(* Every key that getc pops is on the stack *)

\* The places where getc loads the pointer, each with the place behind it.
Loads == {<<"getc_test", "getc_test_char">>, <<"getc_take", "getc_take_char">>,
          <<"getc_clear", "getc_clear_char">>, <<"getc_pop", "getc_pop_store">>}

\* What a step of the thread leaves alone.
Alone == UNCHANGED <<devices, timer_ticks, raced>>

\* A step is one of a device, a handler or the thread.
LEMMA StepCases ==
  ASSUME [Next]_vars
  PROVE  \/ UNCHANGED vars
         \/ RaiseTimer
         \/ \E code \in Scancodes : PressKey(code)
         \/ irq_handler(Timer)
         \/ irq_handler(Keyboard)
         \/ CallGetc /\ UNCHANGED <<keys, elapsed>> /\ Alone
         \/ (\E ms \in Periods : CallSleep(ms)) /\ UNCHANGED keys /\ Alone
         \/ (\E l \in Loads : LoadPointer(l[1], l[2])) /\ UNCHANGED <<keys, elapsed>> /\ Alone
         \/ TestCharacter /\ UNCHANGED <<keys, elapsed>> /\ Alone
         \/ TakeCharacter /\ UNCHANGED <<keys, elapsed>> /\ Alone
         \/ ClearCharacter /\ UNCHANGED elapsed /\ Alone
         \/ PopCharacter /\ UNCHANGED elapsed /\ Alone
         \/ SleepTest /\ UNCHANGED <<keys, elapsed>> /\ Alone
         \/ SleepReturn /\ UNCHANGED keys /\ Alone
<1>1. CASE Call /\ UNCHANGED <<devices, keys, timer_ticks, raced>>
  BY <1>1 DEF Call, Alone, devices, keys
<1>2. CASE Thread /\ UNCHANGED <<devices, timer_ticks, raced>>
  <2>1. CASE GetcStep /\ UNCHANGED elapsed
    <3>1. <<"getc_test", "getc_test_char">> \in Loads /\ <<"getc_take", "getc_take_char">> \in Loads
          /\ <<"getc_clear", "getc_clear_char">> \in Loads /\ <<"getc_pop", "getc_pop_store">> \in Loads
      BY DEF Loads
    <3>2. \A a, b : <<a, b>>[1] = a /\ <<a, b>>[2] = b
      OBVIOUS
    <3>3. ASSUME NEW from, NEW to, <<from, to>> \in Loads, LoadPointer(from, to)
          PROVE  \E l \in Loads : LoadPointer(l[1], l[2])
      <4> DEFINE l == <<from, to>>
      <4>1. l[1] = from /\ l[2] = to
        OBVIOUS
      <4>2. l \in Loads /\ LoadPointer(l[1], l[2])
        BY <3>3, <4>1 DEF LoadPointer
      <4> QED
        BY <4>2
    <3> QED
      BY <1>2, <2>1, <3>1, <3>3 DEF GetcStep, Alone, devices, keys
  <2> QED
    BY <1>2, <2>1 DEF Thread, Alone, devices, keys
<1> QED
  BY <1>1, <1>2 DEF Next, Scancodes

LEMMA StackStep == StackInv /\ [Next]_vars => StackInv'
<1> SUFFICES ASSUME StackInv, [Next]_vars
             PROVE  StackInv'
  OBVIOUS
<1> USE DEF StackInv
<1>1. read_ptr \in Nat /\ handled \in Nat /\ read_ptr <= handled
  BY SMT DEF Devices, Pointers
<1>2. /\ 0 \in Cells
      /\ \A k \in 0 .. read_ptr : k \in Cells
      /\ handled + 1 <= Len(typed) => read_ptr + 1 \in Cells
  BY TopInCells DEF Pointers
<1>3. CASE UNCHANGED vars
  BY <1>3 DEF vars, thread, Devices, Types, Pointers
<1>4. CASE RaiseTimer
  BY <1>4 DEF RaiseTimer, thread, keys, Devices, Types, Pointers
<1>5. ASSUME NEW code \in Scancodes, PressKey(code)
      PROVE  StackInv'
  <2>1. /\ typed' \in Seq(Scancodes) /\ Len(typed') = Len(typed) + 1
        /\ Len(typed) \in Nat /\ MaxTyped \in Nat
    BY <1>5, InterruptsAssumption, SMT DEF PressKey, Devices
  <2>2. Devices'
    BY <1>5, <2>1, SMT DEF PressKey, Devices
  <2> QED
    BY <1>5, <2>2 DEF PressKey, thread, keys, Types, Pointers
<1>6. CASE irq_handler(Timer)
  <2>1. Devices'
    BY <1>6, SMT DEF irq_handler, timer_handler, Devices
  <2>2. raced' = raced /\ pc' = AfterHlt(Timer)
    BY <1>6 DEF irq_handler, Types
  <2>3. UNCHANGED <<keys, reg, tmp, got>>
    BY <1>6 DEF irq_handler, timer_handler
  <2> QED
    BY <1>6, <2>1, <2>2, <2>3, HltPlaces DEF irq_handler, timer_handler, keys, Types, Pointers
<1>7. CASE irq_handler(Keyboard)
  <2>1. Devices'
    <3>1. /\ handled + 1 \in 1 .. Len(typed) /\ handled' = handled + 1 /\ typed' = typed
          /\ request' \subseteq request
          /\ Keyboard \in request' => handled' < Len(typed)
      BY <1>7, KeyboardCases
    <3> QED
      BY <3>1, SMT DEF Devices
  <2>2. pc' \in Places /\ raced' \in BOOLEAN /\ UNCHANGED <<reg, tmp, got>> /\ handled' = handled + 1
    BY <1>7, KeyboardCases, HltPlaces DEF Types
  <2>3. /\ pc' \in Popping <=> pc \in Popping
        /\ pc' \in Pointing <=> pc \in Pointing
    BY <1>7, KeyboardCases, HltPlaces DEF Types
  <2>4. CASE UNCHANGED <<key_buffer, read_ptr>> /\ shift_down' \in {0, 1}
    BY <1>1, <2>1, <2>2, <2>3, <2>4, SMT DEF Types, Pointers
  <2>5. CASE /\ Scancode \in Codes
             /\ UNCHANGED shift_down
             /\ read_ptr' = read_ptr + 1
             /\ key_buffer' = [key_buffer EXCEPT ![read_ptr + 1] =
                  [char |-> Ascii[shift_down][Scancode], press |-> handled + 1]]
    <3>1. [char |-> Ascii[shift_down][Scancode], press |-> handled + 1] \in Key
      BY <1>1, <2>5, SMT DEF Key, Chars, Types
    <3>2. key_buffer' \in [Cells -> Key]
      BY <2>5, <3>1 DEF Types
    <3>3. read_ptr + 1 # 0
      BY <1>1
    <3>4. key_buffer'[0] = key_buffer[0]
      BY <1>2, <2>5, <3>3 DEF Types
    <3> QED
      BY <1>1, <2>1, <2>2, <2>3, <2>5, <3>2, <3>4, SMT DEF Types, Pointers
  <2> QED
    BY <1>7, <2>4, <2>5, KeyboardCases DEF KeyUp, Types
<1>8. CASE CallGetc /\ UNCHANGED <<keys, elapsed>> /\ Alone
  BY <1>8 DEF CallGetc, Alone, keys, devices, Devices, Types, Pointers, Places, Popping, Pointing
<1>9. CASE (\E ms \in Periods : CallSleep(ms)) /\ UNCHANGED keys /\ Alone
  BY <1>9 DEF CallSleep, Alone, keys, devices, Devices, Types, Pointers, Places, Popping, Pointing
<1>10. ASSUME NEW l \in Loads, LoadPointer(l[1], l[2]), UNCHANGED <<keys, elapsed>>, Alone
       PROVE  StackInv'
  <2>1. /\ pc = l[1] /\ pc' = l[2] /\ reg' = read_ptr
        /\ UNCHANGED <<typed, request, handled, raced, tmp, got, shift_down, key_buffer, read_ptr>>
    BY <1>10 DEF LoadPointer, Alone, keys, devices
  <2>2. /\ pc' \in Places
        /\ pc' \in Popping <=> pc \in Popping
        /\ pc' \in Pointing \cap Popping => pc \in Popping
    BY <2>1 DEF Loads, Places, Popping, Pointing
  <2> QED
    BY <1>1, <2>1, <2>2 DEF Devices, Types, Pointers
<1>11. CASE TestCharacter /\ UNCHANGED <<keys, elapsed>> /\ Alone
  <2>1. pc' # "getc_hlt" => reg # 0
    BY <1>11 DEF TestCharacter, Pointers, Nul
  <2>2. reg \in 0 .. read_ptr
    BY <1>1, <1>11, SMT DEF TestCharacter, Pointers, Pointing
  <2>3. /\ pc' \in Places /\ pc' \notin Pointing
        /\ pc' \in Popping => pc' # "getc_hlt"
    BY <1>11 DEF TestCharacter, Places, Popping, Pointing
  <2> QED
    BY <1>1, <1>11, <2>1, <2>2, <2>3, SMT DEF TestCharacter, Alone, keys, devices, Devices, Types, Pointers
<1>12. CASE TakeCharacter /\ UNCHANGED <<keys, elapsed>> /\ Alone
  <2>1. reg \in Cells
    BY <1>1, <1>2, <1>12, SMT DEF TakeCharacter, Pointers, Pointing
  <2> QED
    BY <1>12, <2>1 DEF TakeCharacter, Alone, keys, devices, Devices, Types, Pointers, Places, Popping, Pointing
<1>13. CASE ClearCharacter /\ UNCHANGED elapsed /\ Alone
  <2>1. Nul \in Key
    BY DEF Nul, Key, Chars
  <2>2. key_buffer' \in [Cells -> Key] /\ key_buffer'[0] = Nul
    BY <1>2, <1>13, <2>1 DEF ClearCharacter, Types, Pointers
  <2> QED
    BY <1>13, <2>2 DEF ClearCharacter, Alone, devices, Devices, Types, Pointers, Places, Popping, Pointing
<1>14. CASE PopCharacter /\ UNCHANGED elapsed /\ Alone
  <2>1. reg \in 1 .. read_ptr
    BY <1>1, <1>14, SMT DEF PopCharacter, Pointers, Pointing, Popping
  <2>2. got' \in Seq(Key) /\ tmp' \in Key
    BY <1>14 DEF PopCharacter, Types, Nul, Key, Chars
  <2>3. read_ptr' \in 0 .. handled /\ reg' = 0
    BY <1>1, <1>14, <2>1, SMT DEF PopCharacter
  <2> QED
    BY <1>14, <2>2, <2>3 DEF PopCharacter, Alone, devices, Devices, Types, Pointers, Places, Popping, Pointing
<1>15. CASE SleepTest /\ UNCHANGED <<keys, elapsed>> /\ Alone
  BY <1>15 DEF SleepTest, Alone, keys, devices, Devices, Types, Pointers, Places, Popping, Pointing
<1>16. CASE SleepReturn /\ UNCHANGED keys /\ Alone
  BY <1>16 DEF SleepReturn, Alone, keys, devices, Devices, Types, Pointers, Places, Popping, Pointing
<1> QED
  BY <1>3, <1>4, <1>5, <1>6, <1>7, <1>8, <1>9, <1>10, <1>11, <1>12, <1>13, <1>14, <1>15, <1>16,
     StepCases

\* The keys and the places of getc stay what they are meant to be, and every
\* pointer that getc has loaded is one into the stack.
THEOREM StackKept == Spec => []StackInv
<1>1. Init => StackInv
  BY StackInit
<1>2. StackInv /\ [Next]_vars => StackInv'
  BY StackStep
<1> QED
  BY <1>1, <1>2, PTL DEF Spec

\* The keyboard's handler runs between any two steps of getc, and still getc
\* does not go below the bottom of the stack, nor does anything come into the
\* cell there, which is what getc stops at.
THEOREM BottomIsKept == Spec => []BottomKept
<1>1. StackInv => BottomKept
  BY SMT DEF StackInv, Devices, Pointers, BottomKept
<1> QED
  BY <1>1, StackKept, PTL

----------------------------------------------------------------------------
(* The characters *)

\* What is known of a key wherever it is kept: the scancode that sent it is one
\* that the handler has read, and its character is the one of that time.
Rightly(c) ==
  /\ c.press <= handled
  /\ c.press # 0 =>
       /\ typed[c.press] \in Codes
       /\ c.char = Ascii[Shifted(c.press)][typed[c.press]]

CharactersInv ==
  /\ shift_down = Shifted(handled + 1)
  /\ \A k \in Cells : Rightly(key_buffer[k])
  /\ Rightly(tmp)
  /\ \A n \in DOMAIN got : Rightly(got[n])

\* Numbers below a bound have a last one.
LEMMA LastExists ==
  ASSUME NEW n \in Nat, NEW S, S \subseteq 1 .. n, S # {}
  PROVE  \E k \in S : \A l \in S : l <= k
<1> DEFINE R == OpToRel(<, Nat)
           T == {n - k : k \in S}
<1>2. \A f, g \in Nat : g < f => <<g, f>> \in R
  BY DEF OpToRel
<1> HIDE DEF R, T
<1>1. T \subseteq Nat /\ T # {}
  <2>1. \A k \in S : n - k \in Nat
    BY SMT
  <2> QED
    BY <2>1 DEF T
<1>3. IsWellFoundedOn(R, Nat)
  BY NatLessThanWellFounded DEF R
<1>4. PICK f \in T : \A g \in T : ~ (<<g, f>> \in R)
  BY <1>1, <1>3, WFMin
<1>5. \A g \in T : ~ (g < f)
  BY <1>1, <1>2, <1>4
<1>6. PICK k \in S : f = n - k
  BY DEF T
<1>7. \A l \in S : n - l \in T
  BY DEF T
<1>8. \A l \in S : l <= k
  BY <1>5, <1>6, <1>7, SMT
<1> QED
  BY <1>8

\* Shifted looks only at scancodes before the one it is asked for.
LEMMA ShiftedKept ==
  ASSUME NEW n \in Nat, UNCHANGED typed \/ \E code : typed' = Append(typed, code),
         typed \in Seq(Scancodes), n <= Len(typed) + 1
  PROVE  Shifted(n)' = Shifted(n)
<1>1. \A k \in 1 .. n - 1 : typed'[k] = typed[k]
  BY SMT
<1> DEFINE shifts == {k \in 1 .. n - 1 : typed[k] \in {ShiftDown, ShiftUp}}
<1>2. shifts' = shifts
  BY <1>1
<1>3. CASE shifts = {}
  BY <1>2, <1>3 DEF Shifted
<1>4. CASE shifts # {}
  <2> DEFINE last == CHOOSE k \in shifts : \A l \in shifts : l <= k
  <2>1. last' = last
    BY <1>2
  <2>2. \E k \in shifts : \A l \in shifts : l <= k
    <3> DEFINE bound == n - 1
    <3>1. CASE n = 0
      BY <1>4, <3>1, SMT
    <3>2. CASE n # 0
      <4>1. bound \in Nat /\ shifts \subseteq 1 .. bound
        BY <3>2, SMT
      <4> HIDE DEF bound, shifts
      <4> QED
        BY <4>1, <1>4, LastExists
    <3> QED
      BY <3>1, <3>2
  <2>3. last \in shifts
    BY <2>2
  <2>4. typed'[last] = typed[last]
    BY <1>1, <2>3
  <2> QED
    BY <1>2, <1>4, <2>1, <2>4 DEF Shifted
<1> QED
  BY <1>3, <1>4

\* What the next scancode does to it.
LEMMA ShiftedNext ==
  ASSUME NEW n \in 1 .. Len(typed), typed \in Seq(Scancodes)
  PROVE  /\ typed[n] = ShiftDown => Shifted(n + 1) = 1
         /\ typed[n] = ShiftUp => Shifted(n + 1) = 0
         /\ typed[n] \notin {ShiftDown, ShiftUp} => Shifted(n + 1) = Shifted(n)
<1> DEFINE before == {k \in 1 .. n - 1 : typed[k] \in {ShiftDown, ShiftUp}}
           shifts == {k \in 1 .. (n + 1) - 1 : typed[k] \in {ShiftDown, ShiftUp}}
<1>1. n \in Nat \ {0}
  BY SMT
<1>2. CASE typed[n] \notin {ShiftDown, ShiftUp}
  <2>1. shifts = before
    BY <1>1, <1>2, SMT
  <2>2. Shifted(n + 1) = Shifted(n)
    BY <2>1 DEF Shifted
  <2> QED
    BY <1>2, <2>2
<1>3. CASE typed[n] \in {ShiftDown, ShiftUp}
  <2>1. n \in shifts /\ \A l \in shifts : l <= n /\ l \in Nat
    BY <1>1, <1>3, SMT
  <2> DEFINE last == CHOOSE k \in shifts : \A l \in shifts : l <= k
  <2>2. last \in shifts /\ \A l \in shifts : l <= last
    BY <2>1
  <2>3. last = n
    BY <1>1, <2>1, <2>2, SMT
  <2>4. Shifted(n + 1) = IF typed[n] = ShiftDown THEN 1 ELSE 0
    BY <2>1, <2>3 DEF Shifted
  <2> QED
    BY <1>3, <2>4, InterruptsAssumption
<1> QED
  BY <1>2, <1>3

\* A scancode more, or one handled more, does not change what a key was.
LEMMA RightlyKept ==
  ASSUME Devices, NEW c \in Key, Rightly(c),
         UNCHANGED typed \/ \E code : typed' = Append(typed, code),
         handled' \in {handled, handled + 1}
  PROVE  Rightly(c)'
<1> USE DEF Devices
<1>1. c.press \in Nat /\ c.press <= handled
  BY DEF Key, Rightly
<1>2. c.press <= handled'
  BY <1>1, SMT
<1>3. CASE c.press # 0
  <2>1. typed'[c.press] = typed[c.press]
    BY <1>1, <1>3, SMT
  <2>2. Shifted(c.press)' = Shifted(c.press)
    BY <1>1, <1>3, ShiftedKept, SMT
  <2> QED
    BY <1>2, <1>3, <2>1, <2>2 DEF Rightly
<1>4. CASE c.press = 0
  BY <1>2, <1>4 DEF Rightly
<1> QED
  BY <1>3, <1>4

LEMMA RightlySame ==
  ASSUME UNCHANGED <<typed, handled>>
  PROVE  /\ \A c : Rightly(c) => Rightly(c)'
         /\ Shifted(handled + 1)' = Shifted(handled + 1)
  BY DEF Rightly, Shifted

LEMMA RightlyNul ==
  ASSUME Devices
  PROVE  Rightly(Nul) /\ Nul \in Key
  BY SMT DEF Devices, Rightly, Nul, Key, Chars

\* All the steps that neither read a scancode nor move a key.
LEMMA CharactersKept ==
  ASSUME StackInv, CharactersInv, UNCHANGED <<keys, handled, tmp, got>>,
         UNCHANGED typed \/ \E code : typed' = Append(typed, code)
  PROVE  CharactersInv'
<1> USE DEF StackInv, CharactersInv
<1>1. shift_down' = Shifted(handled + 1)'
  <2>1. handled + 1 \in Nat /\ handled + 1 <= Len(typed) + 1
    BY SMT DEF Devices
  <2>2. Shifted(handled + 1)' = Shifted(handled + 1)
    BY <2>1, ShiftedKept DEF Devices
  <2> QED
    BY <2>2 DEF keys
<1>2. \A c \in Key : Rightly(c) => Rightly(c)'
  BY RightlyKept
<1>3. \A k \in Cells : key_buffer[k] \in Key
  BY DEF Types
<1>4. tmp \in Key /\ \A n \in DOMAIN got : got[n] \in Key
  BY SMT DEF Types
<1> QED
  BY <1>1, <1>2, <1>3, <1>4 DEF keys

LEMMA CharactersStep == StackInv /\ CharactersInv /\ [Next]_vars => CharactersInv'
<1> SUFFICES ASSUME StackInv, CharactersInv, [Next]_vars
             PROVE  CharactersInv'
  OBVIOUS
<1> USE DEF StackInv
<1>1. CASE UNCHANGED vars
  BY <1>1, CharactersKept DEF vars, thread, keys
<1>2. CASE RaiseTimer
  BY <1>2, CharactersKept DEF RaiseTimer, thread
<1>3. ASSUME NEW code \in Scancodes, PressKey(code)
      PROVE  CharactersInv'
  BY <1>3, CharactersKept DEF PressKey, thread
<1>4. CASE irq_handler(Timer)
  BY <1>4, CharactersKept DEF irq_handler, timer_handler
<1>5. CASE irq_handler(Keyboard)
  <2>0. PICK n : n = handled + 1
    OBVIOUS
  <2>1. n \in 1 .. Len(typed) /\ typed \in Seq(Scancodes) /\ Scancode = typed[n] /\ n \in Nat
    BY <2>0, <1>5, KeyboardCases, SMT DEF Devices, Scancode
  <2>2. UNCHANGED <<typed, tmp, got>> /\ handled' = n
    BY <2>0, <1>5, KeyboardCases
  <2>3. Shifted(handled + 1)' = Shifted(n + 1)
    BY <2>2 DEF Shifted
  <2>4. \A c \in Key : Rightly(c) => Rightly(c)'
    BY <2>0, <2>2, RightlyKept
  <2>5. \A k \in Cells : key_buffer[k] \in Key /\ Rightly(key_buffer[k])
    BY DEF Types, CharactersInv
  <2>6. Rightly(tmp)' /\ \A k \in DOMAIN got' : Rightly(got[k])'
    <3>1. tmp \in Key /\ \A k \in DOMAIN got : got[k] \in Key
      BY SMT DEF Types
    <3> QED
      BY <2>2, <2>4, <3>1 DEF CharactersInv
  <2>7. /\ typed[n] = ShiftDown => Shifted(n + 1) = 1
        /\ typed[n] = ShiftUp => Shifted(n + 1) = 0
        /\ typed[n] \notin {ShiftDown, ShiftUp} => Shifted(n + 1) = Shifted(n)
    BY <2>1, ShiftedNext
  <2>8. shift_down = Shifted(n)
    BY <2>0 DEF CharactersInv
  <2>9. CASE Scancode \in {ShiftUp, Release} /\ KeyUp
    <3>1. shift_down' = Shifted(n + 1) /\ key_buffer' = key_buffer
      BY <2>1, <2>7, <2>8, <2>9, InterruptsAssumption DEF KeyUp
    <3> QED
      BY <2>2, <2>3, <2>4, <2>5, <2>6, <3>1 DEF CharactersInv
  <2>10. CASE /\ Scancode = ShiftDown
              /\ shift_down' = 1 /\ UNCHANGED <<key_buffer, read_ptr>>
    BY <2>1, <2>2, <2>3, <2>4, <2>5, <2>6, <2>7, <2>10 DEF CharactersInv
  <2>11. CASE /\ Scancode \in Codes
              /\ UNCHANGED shift_down
              /\ read_ptr' = read_ptr + 1
              /\ key_buffer' = [key_buffer EXCEPT ![read_ptr + 1] =
                   [char |-> Ascii[shift_down][Scancode], press |-> n]]
    <3>0. PICK key : key = [char |-> Ascii[shift_down][Scancode], press |-> n]
      OBVIOUS
    <3>1. shift_down' = Shifted(n + 1)
      BY <2>1, <2>7, <2>8, <2>11, InterruptsAssumption
    <3>2. Shifted(n)' = Shifted(n)
      BY <2>1, <2>2 DEF Shifted
    <3>3. key.press = n /\ key.char = Ascii[shift_down][Scancode]
      BY <3>0
    <3>4. Rightly(key)'
      BY <2>1, <2>2, <2>8, <2>11, <3>2, <3>3 DEF Rightly
    <3>5. \A k \in Cells : key_buffer'[k] \in {key_buffer[k], key}
      BY <2>11, <3>0 DEF Types
    <3>6. \A k \in Cells : Rightly(key_buffer[k])'
      BY <2>4, <2>5, <3>4, <3>5
    <3> QED
      BY <2>3, <2>6, <3>1, <3>6 DEF CharactersInv
  <2> QED
    BY <1>5, <2>0, <2>9, <2>10, <2>11, KeyboardCases
<1>6. CASE CallGetc /\ UNCHANGED <<keys, elapsed>> /\ Alone
  BY <1>6, CharactersKept DEF CallGetc, Alone, devices
<1>7. CASE (\E ms \in Periods : CallSleep(ms)) /\ UNCHANGED keys /\ Alone
  BY <1>7, CharactersKept DEF CallSleep, Alone, devices
<1>8. CASE (\E l \in Loads : LoadPointer(l[1], l[2])) /\ UNCHANGED <<keys, elapsed>> /\ Alone
  BY <1>8, CharactersKept DEF LoadPointer, Alone, devices
<1>9. CASE TestCharacter /\ UNCHANGED <<keys, elapsed>> /\ Alone
  BY <1>9, CharactersKept DEF TestCharacter, Alone, devices
<1>10. CASE TakeCharacter /\ UNCHANGED <<keys, elapsed>> /\ Alone
  <2>1. reg \in Cells
    <3>1. reg \in 0 .. read_ptr
      BY <1>10, SMT DEF TakeCharacter, Devices, Pointers, Pointing
    <3> QED
      BY <3>1, TopInCells DEF Pointers
  <2>2. UNCHANGED <<typed, handled, shift_down, key_buffer, got>> /\ tmp' = key_buffer[reg]
    BY <1>10 DEF TakeCharacter, Alone, devices, keys
  <2> QED
    BY <2>1, <2>2, RightlySame DEF CharactersInv
<1>11. CASE ClearCharacter /\ UNCHANGED elapsed /\ Alone
  <2>1. UNCHANGED <<typed, handled, shift_down, tmp, got>>
        /\ key_buffer' = [key_buffer EXCEPT ![reg] = Nul]
    BY <1>11 DEF ClearCharacter, Alone, devices
  <2>2. \A k \in Cells : key_buffer'[k] \in {key_buffer[k], Nul}
    BY <2>1 DEF Types
  <2> QED
    BY <2>1, <2>2, RightlyNul, RightlySame DEF CharactersInv
<1>12. CASE PopCharacter /\ UNCHANGED elapsed /\ Alone
  <2>1. UNCHANGED <<typed, handled, shift_down, key_buffer>>
        /\ got' = Append(got, tmp) /\ tmp' = Nul
    BY <1>12 DEF PopCharacter, Alone, devices
  <2>2. \A n \in DOMAIN got' : got'[n] = tmp \/ (n \in DOMAIN got /\ got'[n] = got[n])
    BY <2>1, SMT DEF Types
  <2> QED
    BY <2>1, <2>2, RightlyNul, RightlySame DEF CharactersInv
<1>13. CASE SleepTest /\ UNCHANGED <<keys, elapsed>> /\ Alone
  BY <1>13, CharactersKept DEF SleepTest, Alone, devices
<1>14. CASE SleepReturn /\ UNCHANGED keys /\ Alone
  BY <1>14, CharactersKept DEF SleepReturn, Alone, devices
<1> QED
  BY <1>1, <1>2, <1>3, <1>4, <1>5, <1>6, <1>7, <1>8, <1>9, <1>10, <1>11, <1>12, <1>13, <1>14,
     StepCases

LEMMA CharactersInit == Init => CharactersInv
<1> SUFFICES ASSUME Init
             PROVE  CharactersInv
  OBVIOUS
<1>1. Shifted(handled + 1) = 0
  <2>1. {k \in 1 .. (handled + 1) - 1 : typed[k] \in {ShiftDown, ShiftUp}} = {}
    BY SMT DEF Init
  <2> QED
    BY <2>1 DEF Shifted
<1>2. Rightly(Nul)
  BY StackInit, RightlyNul DEF StackInv
<1>3. DOMAIN got = {}
  BY SMT DEF Init
<1> QED
  BY <1>1, <1>2, <1>3 DEF Init, CharactersInv

\* What a key's press has left, on the stack, in getc's hands and in what it has
\* returned, has the shift of its own scancode.
THEOREM CharactersAreKept == Spec => []CharactersInv
<1>1. Init => CharactersInv
  BY CharactersInit
<1>2. StackInv /\ CharactersInv /\ [Next]_vars => CharactersInv'
  BY CharactersStep
<1> QED
  BY <1>1, <1>2, StackKept, PTL DEF Spec

\* Every character that is in the buffer or that getc has returned is the one
\* of its key, with shift as it was when that key's scancode was read: neither
\* a later shift nor the other keys on the stack change it.
THEOREM CharacterIsRight == Spec => []RightCharacter
<1>1. StackInv /\ CharactersInv => RightCharacter
  BY DEF CharactersInv, RightCharacter, Rightly, ToSet
<1> QED
  BY <1>1, StackKept, CharactersAreKept, PTL

----------------------------------------------------------------------------
(* sleep *)

Sleeping == {"sleep_test", "sleep_hlt"}

\* The tick count is as far behind the one that sleep started from as ticks
\* have passed, unless more have than it can tell.
SleepInv ==
  /\ timer_ticks \in 0 .. TickWrap - 1
  /\ timer_start \in 0 .. TickWrap - 1
  /\ period \in 0 .. TickWrap - 1
  /\ elapsed \in 0 .. TickWrap
  /\ pc \in Sleeping /\ elapsed < TickWrap =>
       timer_ticks \in {timer_start + elapsed, timer_start + elapsed - TickWrap}
  /\ pc = "sleep_return" => elapsed >= period

\* Arithmetic modulo TickWrap with numbers next to 0 .. TickWrap - 1.
LEMMA WrapFacts ==
  /\ \A t \in 0 .. TickWrap - 1 : t % TickWrap = t
  /\ \A t \in 0 .. TickWrap - 1 : (t - TickWrap) % TickWrap = t
  /\ TickWrap % TickWrap = 0
<1>1. TickWrap \in Nat \ {0}
  BY InterruptsAssumption
<1> QED
  BY <1>1, SMT

\* The timer's tick.
LEMMA TickFacts ==
  ASSUME NEW t \in 0 .. TickWrap - 1
  PROVE  (t + 1) % TickWrap = IF t + 1 = TickWrap THEN 0 ELSE t + 1
<1>1. TickWrap \in Nat \ {0}
  BY InterruptsAssumption
<1> QED
  BY <1>1, WrapFacts, SMT

\* The unsigned difference of two tick counts.
LEMMA DifferenceFacts ==
  ASSUME NEW a \in 0 .. TickWrap - 1, NEW b \in 0 .. TickWrap - 1
  PROVE  (a - b) % TickWrap = IF b <= a THEN a - b ELSE a - b + TickWrap
<1>1. TickWrap \in Nat \ {0}
  BY InterruptsAssumption
<1>2. CASE b <= a
  <2>1. a - b \in 0 .. TickWrap - 1
    BY <1>1, <1>2, SMT
  <2> QED
    BY <1>2, <2>1, WrapFacts
<1>3. CASE ~(b <= a)
  <2>1. PICK t \in 0 .. TickWrap - 1 : t = a - b + TickWrap
    BY <1>1, <1>3, SMT
  <2>2. a - b = t - TickWrap
    BY <1>1, <2>1, SMT
  <2> QED
    BY <1>3, <2>1, <2>2, WrapFacts
<1> QED
  BY <1>2, <1>3

LEMMA SleepInit == Init => SleepInv
  BY InterruptsAssumption, SMT DEF Init, SleepInv, Sleeping

LEMMA SleepStep == StackInv /\ SleepInv /\ [Next]_vars => SleepInv'
<1> SUFFICES ASSUME StackInv, SleepInv, [Next]_vars
             PROVE  SleepInv'
  OBVIOUS
<1>0. TickWrap \in Nat \ {0}
  BY InterruptsAssumption
<1> USE DEF SleepInv
<1>1. CASE UNCHANGED vars
  BY <1>1 DEF vars, thread
<1>2. CASE RaiseTimer
  BY <1>2 DEF RaiseTimer, thread
<1>3. ASSUME NEW code \in Scancodes, PressKey(code)
      PROVE  SleepInv'
  BY <1>3 DEF PressKey, thread
<1>4. CASE irq_handler(Timer)
  <2>1. /\ timer_ticks' = (timer_ticks + 1) % TickWrap
        /\ elapsed' = IF pc \in Sleeping /\ elapsed < TickWrap THEN elapsed + 1 ELSE elapsed
        /\ pc' = AfterHlt(Timer)
        /\ UNCHANGED <<timer_start, period>>
    BY <1>4 DEF irq_handler, timer_handler, Sleeping
  <2>2. /\ pc' \in Sleeping <=> pc \in Sleeping
        /\ pc' = "sleep_return" <=> pc = "sleep_return"
        /\ pc = "sleep_return" => pc \notin Sleeping
    BY <2>1 DEF AfterHlt, Sleeping
  <2>3. timer_ticks' = IF timer_ticks + 1 = TickWrap THEN 0 ELSE timer_ticks + 1
    BY <2>1, TickFacts
  <2> QED
    BY <1>0, <2>1, <2>2, <2>3, SMT
<1>5. CASE irq_handler(Keyboard)
  <2>1. UNCHANGED <<period, timer_start, timer_ticks, elapsed>> /\ pc' = AfterHlt(Keyboard)
    BY <1>5, KeyboardCases DEF StackInv
  <2>2. /\ pc' \in Sleeping <=> pc \in Sleeping
        /\ pc' = "sleep_return" <=> pc = "sleep_return"
    BY <2>1 DEF AfterHlt, Sleeping
  <2> QED
    BY <2>1, <2>2
<1>6. CASE CallGetc /\ UNCHANGED <<keys, elapsed>> /\ Alone
  BY <1>6 DEF CallGetc, Alone, Sleeping
<1>7. CASE (\E ms \in Periods : CallSleep(ms)) /\ UNCHANGED keys /\ Alone
  <2>1. PICK ms \in Periods : CallSleep(ms)
    BY <1>7
  <2>2. ms \in 0 .. TickWrap - 1
    BY InterruptsAssumption
  <2>3. /\ period' = ms /\ timer_start' = timer_ticks /\ elapsed' = 0
        /\ pc' = "sleep_test" /\ timer_ticks' = timer_ticks
    BY <1>7, <2>1 DEF CallSleep, Alone
  <2> QED
    BY <1>0, <2>2, <2>3, SMT
<1>8. CASE (\E l \in Loads : LoadPointer(l[1], l[2])) /\ UNCHANGED <<keys, elapsed>> /\ Alone
  <2>1. PICK l \in Loads : LoadPointer(l[1], l[2])
    BY <1>8
  <2>2. pc' = l[2] /\ UNCHANGED <<timer_ticks, timer_start, period, elapsed>>
    BY <1>8, <2>1 DEF LoadPointer, Alone
  <2>3. l[2] \notin Sleeping \cup {"sleep_return"}
    BY DEF Loads, Sleeping
  <2> QED
    BY <2>2, <2>3
<1>9. CASE TestCharacter /\ UNCHANGED <<keys, elapsed>> /\ Alone
  BY <1>9 DEF TestCharacter, Alone, Sleeping
<1>10. CASE TakeCharacter /\ UNCHANGED <<keys, elapsed>> /\ Alone
  BY <1>10 DEF TakeCharacter, Alone, Sleeping
<1>11. CASE ClearCharacter /\ UNCHANGED elapsed /\ Alone
  BY <1>11 DEF ClearCharacter, Alone, Sleeping
<1>12. CASE PopCharacter /\ UNCHANGED elapsed /\ Alone
  BY <1>12 DEF PopCharacter, Alone, Sleeping
<1>13. CASE SleepTest /\ UNCHANGED <<keys, elapsed>> /\ Alone
  <2>1. /\ pc = "sleep_test"
        /\ pc' = IF TicksLeft(timer_ticks) THEN "sleep_hlt" ELSE "sleep_return"
        /\ UNCHANGED <<timer_ticks, timer_start, period, elapsed>>
    BY <1>13 DEF SleepTest, Alone
  <2>2. TicksLeft(timer_ticks) <=>
          (IF timer_start <= timer_ticks THEN timer_ticks - timer_start
           ELSE timer_ticks - timer_start + TickWrap) < period
    BY DifferenceFacts DEF TicksLeft
  <2>3. ~TicksLeft(timer_ticks) => elapsed >= period
    BY <1>0, <2>1, <2>2, SMT DEF Sleeping
  <2> QED
    BY <2>1, <2>3 DEF Sleeping
<1>14. CASE SleepReturn /\ UNCHANGED keys /\ Alone
  BY <1>0, <1>14, SMT DEF SleepReturn, Alone, Sleeping
<1> QED
  BY <1>1, <1>2, <1>3, <1>4, <1>5, <1>6, <1>7, <1>8, <1>9, <1>10, <1>11, <1>12, <1>13, <1>14,
     StepCases

\* sleep returns only when at least its number of ticks has passed, wherever
\* the tick count is when it is called and though it wraps around: the
\* difference of the two counts is one modulo the width of the count.
THEOREM SleepIsLongEnough == Spec => []SleepsLongEnough
<1>1. Init => SleepInv
  BY SleepInit
<1>2. StackInv /\ SleepInv /\ [Next]_vars => SleepInv'
  BY SleepStep
<1>3. SleepInv => SleepsLongEnough
  BY DEF SleepInv, SleepsLongEnough
<1> QED
  BY <1>1, <1>2, <1>3, StackKept, PTL DEF Spec

----------------------------------------------------------------------------
(* No key is lost and none is returned twice *)

\* The place where getc has emptied the top cell and not moved the pointer.
Emptied == pc \in {"getc_pop", "getc_pop_store"}

\* The cell of the last key that was not read.
Top == IF Emptied THEN read_ptr - 1 ELSE read_ptr

Held(n) == Emptied /\ tmp.press = n

\* As long as no key has come while getc took one: the keys on the stack are in
\* the order they were pressed, what getc has in hand is the top, and each
\* character that was typed is in one place.
KeysInv ==
  raced \/
    /\ \A k \in 1 .. Top : key_buffer[k].press \in 1 .. handled \ Returned
    /\ \A k \in 1 .. Top, l \in 1 .. Top : k < l => key_buffer[k].press < key_buffer[l].press
    /\ pc \in Pointing \cap Popping => reg = read_ptr
    /\ pc \in {"getc_clear", "getc_clear_char"} => tmp = key_buffer[read_ptr]
    /\ Emptied =>
         /\ key_buffer[read_ptr] = Nul
         /\ tmp.press \in 1 .. handled \ Returned
         /\ \A k \in 1 .. Top : key_buffer[k].press # tmp.press
    /\ \A n \in 1 .. handled :
         /\ typed[n] \in Codes
         /\ Ascii[Shifted(n)][typed[n]] # 0
         => \/ \E k \in 1 .. Top : key_buffer[k].press = n
            \/ n \in Returned \/ Held(n)

LEMMA KeysInit == Init => KeysInv
  BY SMT DEF Init, KeysInv, Top, Emptied, Popping, Pointing, Returned, Held

\* The facts about numbers that the steps below need.
LEMMA StackFacts ==
  ASSUME StackInv
  PROVE  /\ read_ptr \in Nat /\ handled \in Nat /\ read_ptr <= handled
         /\ Top \in Int /\ Top <= read_ptr
         /\ \A k \in 1 .. read_ptr : k \in Cells
         /\ pc \in Popping => read_ptr >= 1
         /\ Emptied => Top = read_ptr - 1
         /\ ~Emptied => Top = read_ptr
         /\ \A c \in Key : c.press \in Nat
<1>1. read_ptr \in Nat /\ handled \in Nat /\ read_ptr <= handled
  BY SMT DEF StackInv, Devices, Pointers
<1>2. \A k \in 1 .. read_ptr : k \in Cells
  BY TopInCells, <1>1 DEF StackInv, Pointers
<1> QED
  BY <1>1, <1>2, SMT DEF StackInv, Pointers, Top, Key

\* All the steps that touch no key and neither enter nor leave the places where
\* getc has one in hand.
LEMMA KeysAlone ==
  ASSUME StackInv, KeysInv, UNCHANGED <<keys, handled, got, tmp, raced>>,
         UNCHANGED typed \/ \E code : typed' = Append(typed, code),
         Emptied' <=> Emptied,
         ~raced /\ pc' \in Pointing \cap Popping => reg' = read_ptr,
         pc' \in {"getc_clear", "getc_clear_char"} => pc \in {"getc_clear", "getc_clear_char"}
  PROVE  KeysInv'
<1>1. CASE raced
  BY <1>1 DEF KeysInv
<1>2. CASE ~raced
  <2>1. Top' = Top /\ Returned' = Returned
    BY DEF Top, keys, Returned, ToSet
  <2>2. \A n \in 1 .. handled : typed'[n] = typed[n] /\ Shifted(n)' = Shifted(n)
    <3>1. \A n \in 1 .. handled : n \in Nat /\ n <= Len(typed)
      BY SMT DEF StackInv, Devices
    <3>2. \A n \in 1 .. handled : typed'[n] = typed[n]
      BY <3>1, SMT DEF StackInv, Devices
    <3>3. \A n \in 1 .. handled : n <= Len(typed) + 1
      BY <3>1, SMT DEF StackInv, Devices
    <3> QED
      BY <3>1, <3>2, <3>3, ShiftedKept DEF StackInv, Devices
  <2>3. \A n : Held(n)' <=> Held(n)
    BY DEF Held
  <2> QED
    BY <1>2, <2>1, <2>2, <2>3 DEF KeysInv, keys
<1> QED
  BY <1>1, <1>2

\* What getc returns is added to what it has returned.
LEMMA ReturnedAppend ==
  ASSUME StackInv, PopCharacter
  PROVE  Returned' = Returned \cup {tmp.press}
<1>1. got \in Seq(Key) /\ got' = Append(got, tmp)
  BY DEF StackInv, Types, PopCharacter
<1>2. /\ \A n \in DOMAIN got : n \in DOMAIN got' /\ got'[n] = got[n]
      /\ \A n \in DOMAIN got' : n \in DOMAIN got \/ got'[n] = tmp
      /\ Len(got) + 1 \in DOMAIN got' /\ got'[Len(got) + 1] = tmp
  BY <1>1, SMT
<1>3. ASSUME NEW c
      PROVE  c \in Returned' <=> c \in Returned \cup {tmp.press}
  BY <1>2 DEF Returned, ToSet
<1> QED
  BY <1>3

LEMMA KeysStep == StackInv /\ CharactersInv /\ KeysInv /\ [Next]_vars => KeysInv'
<1> SUFFICES ASSUME StackInv, CharactersInv, KeysInv, [Next]_vars
             PROVE  KeysInv'
  OBVIOUS
<1>0. ~raced /\ pc \in Pointing \cap Popping => reg = read_ptr
  BY DEF KeysInv
<1>1. CASE UNCHANGED vars
  BY <1>0, <1>1, KeysAlone DEF vars, thread, keys, Emptied
<1>2. CASE RaiseTimer
  BY <1>0, <1>2, KeysAlone DEF RaiseTimer, thread, Emptied
<1>3. ASSUME NEW code \in Scancodes, PressKey(code)
      PROVE  KeysInv'
  BY <1>0, <1>3, KeysAlone DEF PressKey, thread, Emptied
<1>4. CASE irq_handler(Timer)
  <2>1. /\ UNCHANGED <<keys, handled, got, tmp, typed, reg>>
        /\ raced' = raced
        /\ pc' = AfterHlt(Timer)
    BY <1>4 DEF irq_handler, timer_handler, StackInv, Types
  <2>2. /\ pc' \in Popping <=> pc \in Popping
        /\ pc' \in Popping => pc' = pc
    BY <2>1, HltPlaces DEF StackInv, Types
  <2> QED
    BY <1>0, <2>1, <2>2, KeysAlone DEF Emptied, Popping
<1>5. CASE irq_handler(Keyboard)
  <2>1. CASE raced'
    BY <2>1 DEF KeysInv
  <2>2. CASE ~raced'
    <3>1. ~raced /\ pc \notin Popping /\ pc' \notin Popping
      BY <1>5, <2>2, KeyboardCases, HltPlaces DEF StackInv, Types
    <3>2. ~Emptied /\ ~Emptied' /\ pc' \notin Popping
      BY <3>1 DEF Emptied, Popping
    <3>3. Top = read_ptr /\ Top' = read_ptr' /\ read_ptr \in Nat /\ handled \in Nat
      BY <3>2, StackFacts DEF Top
    <3>4. PICK n : n = handled + 1
      OBVIOUS
    <3>5. /\ UNCHANGED <<typed, got>> /\ handled' = n /\ n \in Nat
          /\ Scancode = typed[n] /\ Scancode \in Scancodes
      BY <1>5, <3>3, <3>4, KeyboardCases DEF StackInv, Scancode
    <3>6. Returned' = Returned /\ \A k : Shifted(k)' = Shifted(k)
      BY <3>5 DEF Returned, ToSet, Shifted
    <3>7. \A k \in 1 .. n : k \in 1 .. handled \/ k = n
      BY <3>3, <3>4, SMT
    <3>8. Returned \subseteq 0 .. handled
      <4>1. \A k \in DOMAIN got : got[k] \in Key /\ Rightly(got[k])
        BY SMT DEF StackInv, Types, CharactersInv
      <4>2. \A c \in Key : Rightly(c) => c.press \in 0 .. handled
        BY <3>3, SMT DEF Rightly, Key
      <4> QED
        BY <4>1, <4>2 DEF Returned, ToSet
    <3>9. CASE Scancode \notin Codes /\ UNCHANGED <<key_buffer, read_ptr>>
      <4>1. Top' = Top
        BY <3>3, <3>9
      <4>2. \A k \in 1 .. Top' : key_buffer'[k].press \in 1 .. handled' \ Returned'
        BY <3>1, <3>3, <3>4, <3>5, <3>6, <3>9, <4>1, SMT DEF KeysInv
      <4>3. \A m \in 1 .. handled' :
              /\ typed'[m] \in Codes
              /\ Ascii[Shifted(m)'][typed'[m]] # 0
              => (\E k \in 1 .. Top' : key_buffer'[k].press = m) \/ m \in Returned'
        BY <3>1, <3>2, <3>5, <3>6, <3>7, <3>9, <4>1 DEF KeysInv, Held
      <4>4. \A k \in 1 .. Top', l \in 1 .. Top' : k < l => key_buffer'[k].press < key_buffer'[l].press
        BY <3>1, <3>9, <4>1 DEF KeysInv
      <4> QED
        BY <3>2, <4>2, <4>3, <4>4 DEF KeysInv, Popping, Emptied
    <3>10. CASE /\ Scancode \in Codes
                /\ read_ptr' = read_ptr + 1
                /\ key_buffer' = [key_buffer EXCEPT ![read_ptr + 1] =
                     [char |-> Ascii[shift_down][Scancode], press |-> n]]
      <4>1. read_ptr + 1 \in Cells
        BY <1>5, <3>3, <3>4, KeyboardCases, TopInCells DEF StackInv, Pointers
      <4>2. key_buffer'[read_ptr + 1].press = n
        BY <3>10, <4>1 DEF StackInv, Types
      <4>3. \A k \in 1 .. Top : key_buffer'[k] = key_buffer[k]
        <5>1. \A k \in 1 .. Top : k \in Cells /\ k # read_ptr + 1
          BY <3>3, StackFacts
        <5> QED
          BY <3>10, <5>1 DEF StackInv, Types
      <4>4. \A k \in 1 .. Top' : k \in 1 .. Top \/ k = read_ptr + 1
        BY <3>3, <3>10, SMT
      <4>5. \A k \in 1 .. Top : key_buffer'[k].press \in 1 .. handled \ Returned
        BY <3>1, <4>3 DEF KeysInv
      <4>6. n \in 1 .. handled' \ Returned'
        BY <3>3, <3>4, <3>5, <3>6, <3>8, SMT
      <4>7. \A k \in 1 .. Top' : key_buffer'[k].press \in 1 .. handled' \ Returned'
        <5>1. 1 .. handled \subseteq 1 .. handled'
          BY <3>3, <3>4, <3>5, SMT
        <5> QED
          BY <3>6, <4>2, <4>4, <4>5, <4>6, <5>1
      <4>8. \A k \in 1 .. Top', l \in 1 .. Top' : k < l => key_buffer'[k].press < key_buffer'[l].press
        <5>1. \A k \in 1 .. Top, l \in 1 .. Top : k < l => key_buffer'[k].press < key_buffer'[l].press
          BY <3>1, <4>3 DEF KeysInv
        <5>2. \A k \in 1 .. Top : key_buffer'[k].press < n
          BY <3>3, <3>4, <4>5, SMT
        <5>3. \A k \in 1 .. Top', l \in 1 .. Top' : k < l => k \in 1 .. Top
          BY <3>3, <3>10, SMT
        <5> QED
          BY <4>2, <4>4, <5>1, <5>2, <5>3
      <4>9. read_ptr + 1 \in 1 .. Top' /\ \A k \in 1 .. Top : k \in 1 .. Top'
        BY <3>3, <3>10, SMT
      <4>10. \A m \in 1 .. handled' :
               /\ typed'[m] \in Codes
               /\ Ascii[Shifted(m)'][typed'[m]] # 0
               => (\E k \in 1 .. Top' : key_buffer'[k].press = m) \/ m \in Returned'
        <5> SUFFICES ASSUME NEW m \in 1 .. handled', typed'[m] \in Codes,
                            Ascii[Shifted(m)'][typed'[m]] # 0, m \notin Returned'
                     PROVE  \E k \in 1 .. Top' : key_buffer'[k].press = m
          OBVIOUS
        <5>1. CASE m = n
          BY <4>2, <4>9, <5>1
        <5>2. CASE m \in 1 .. handled
          <6>1. PICK k \in 1 .. Top : key_buffer[k].press = m
            BY <3>1, <3>2, <3>5, <3>6, <5>2 DEF KeysInv, Held
          <6> QED
            BY <4>3, <4>9, <6>1
        <5> QED
          BY <3>5, <3>7, <5>1, <5>2
      <4> QED
        BY <3>2, <4>7, <4>8, <4>10 DEF KeysInv, Popping, Emptied
    <3>11. {ShiftUp, Release, ShiftDown} \cap Codes = {}
      BY InterruptsAssumption
    <3> QED
      BY <1>5, <3>4, <3>9, <3>10, <3>11, KeyboardCases DEF StackInv, KeyUp
  <2> QED
    BY <2>1, <2>2
<1>6. CASE CallGetc /\ UNCHANGED <<keys, elapsed>> /\ Alone
  BY <1>6, KeysAlone DEF CallGetc, Alone, devices, Emptied, Popping
<1>7. CASE (\E ms \in Periods : CallSleep(ms)) /\ UNCHANGED keys /\ Alone
  BY <1>7, KeysAlone DEF CallSleep, Alone, devices, Emptied, Popping
<1>8. ASSUME NEW l \in Loads, LoadPointer(l[1], l[2]), UNCHANGED <<keys, elapsed>>, Alone
      PROVE  KeysInv'
  <2>1. pc = l[1] /\ pc' = l[2] /\ reg' = read_ptr
        /\ UNCHANGED <<keys, handled, got, tmp, raced, typed>>
    BY <1>8 DEF LoadPointer, Alone, devices
  <2>2. /\ Emptied' <=> Emptied
        /\ pc' \in {"getc_clear", "getc_clear_char"} => pc \in {"getc_clear", "getc_clear_char"}
    BY <2>1 DEF Loads, Emptied
  <2> QED
    BY <2>1, <2>2, KeysAlone
<1>9. CASE TestCharacter /\ UNCHANGED <<keys, elapsed>> /\ Alone
  BY <1>9, KeysAlone DEF TestCharacter, Alone, devices, Emptied, Pointing
<1>10. CASE TakeCharacter /\ UNCHANGED <<keys, elapsed>> /\ Alone
  <2>1. /\ UNCHANGED <<typed, handled, key_buffer, read_ptr, got, raced>>
        /\ tmp' = key_buffer[reg] /\ pc = "getc_take_char" /\ pc' = "getc_clear"
    BY <1>10 DEF TakeCharacter, Alone, devices, keys
  <2>2. ~raced => reg = read_ptr
    BY <2>1 DEF KeysInv, Pointing, Popping
  <2>3. ~Emptied /\ ~Emptied' /\ Top' = Top
    BY <2>1 DEF Emptied, Top
  <2>4. Returned' = Returned /\ \A n : Shifted(n)' = Shifted(n)
    BY <2>1 DEF Returned, ToSet, Shifted
  <2>5. \A n : ~Held(n)
    BY <2>3 DEF Held
  <2> QED
    BY <2>1, <2>2, <2>3, <2>4, <2>5 DEF KeysInv, Pointing
<1>11. CASE ClearCharacter /\ UNCHANGED elapsed /\ Alone
  <2>1. /\ UNCHANGED <<typed, handled, read_ptr, tmp, got, raced>>
        /\ key_buffer' = [key_buffer EXCEPT ![reg] = Nul]
        /\ pc = "getc_clear_char" /\ pc' = "getc_pop"
    BY <1>11 DEF ClearCharacter, Alone, devices
  <2>2. CASE raced
    BY <2>1, <2>2 DEF KeysInv
  <2>3. CASE ~raced
    <3>1. reg = read_ptr /\ tmp = key_buffer[read_ptr]
      BY <2>1, <2>3 DEF KeysInv, Pointing, Popping
    <3>2. /\ ~Emptied /\ Emptied' /\ Top = read_ptr /\ Top' = read_ptr - 1
          /\ read_ptr \in Nat \ {0} /\ read_ptr \in Cells
      BY <2>1, StackFacts, SMT DEF Emptied, Popping, Top
    <3>3. Returned' = Returned /\ \A n : Shifted(n)' = Shifted(n)
      BY <2>1 DEF Returned, ToSet, Shifted
    <3>4. key_buffer'[read_ptr] = Nul
      BY <2>1, <3>1, <3>2 DEF StackInv, Types
    <3>5. \A k \in 1 .. Top' : k \in 1 .. Top /\ k < read_ptr /\ k \in Cells
      BY <3>2, StackFacts
    <3>6. \A k \in 1 .. Top' : key_buffer'[k] = key_buffer[k]
      BY <2>1, <3>1, <3>2, <3>5, SMT DEF StackInv, Types
    <3>7. read_ptr \in 1 .. Top
      BY <3>2
    <3>8. tmp.press \in 1 .. handled \ Returned
      BY <2>3, <3>1, <3>7 DEF KeysInv
    <3>9. \A k \in 1 .. Top' : key_buffer'[k].press \in 1 .. handled \ Returned
      BY <2>3, <3>5, <3>6 DEF KeysInv
    <3>10. \A k \in 1 .. Top', l \in 1 .. Top' : k < l => key_buffer'[k].press < key_buffer'[l].press
      BY <2>3, <3>5, <3>6 DEF KeysInv
    <3>11. \A k \in 1 .. Top' : key_buffer'[k].press # tmp.press
      <4>1. \A k \in 1 .. Top' : key_buffer'[k].press < tmp.press
        BY <2>3, <3>1, <3>5, <3>6, <3>7 DEF KeysInv
      <4> QED
        BY <3>8, <3>9, <4>1, StackFacts, SMT
    <3>12. \A n : (\E k \in 1 .. Top : key_buffer[k].press = n)
                   => (\E k \in 1 .. Top' : key_buffer'[k].press = n) \/ Held(n)'
      <4>1. \A k \in 1 .. Top : k \in 1 .. Top' \/ k = read_ptr
        BY <3>2, SMT
      <4>2. \A n : Held(n)' <=> tmp.press = n
        BY <2>1, <3>2 DEF Held
      <4> QED
        BY <3>1, <3>6, <4>1, <4>2
    <3>13. \A n : ~Held(n)
      BY <3>2 DEF Held
    <3> QED
      BY <2>1, <2>3, <3>2, <3>3, <3>4, <3>8, <3>9, <3>10, <3>11, <3>12, <3>13
         DEF KeysInv, Pointing
  <2> QED
    BY <2>2, <2>3
<1>12. CASE PopCharacter /\ UNCHANGED elapsed /\ Alone
  <2>1. /\ UNCHANGED <<typed, handled, key_buffer, raced>>
        /\ read_ptr' = reg - 1 /\ pc = "getc_pop_store" /\ pc' = "idle"
    BY <1>12 DEF PopCharacter, Alone, devices
  <2>2. CASE raced
    BY <2>1, <2>2 DEF KeysInv
  <2>3. CASE ~raced
    <3>1. reg = read_ptr /\ Emptied /\ ~Emptied' /\ Top' = read_ptr' /\ Top = read_ptr - 1
      BY <2>1, <2>3 DEF KeysInv, Pointing, Popping, Emptied, Top
    <3>2. Top' = Top
      BY <2>1, <3>1
    <3>3. Returned' = Returned \cup {tmp.press} /\ \A n : Shifted(n)' = Shifted(n)
      BY <1>12, <2>1, ReturnedAppend DEF Shifted
    <3> QED
      BY <2>1, <2>3, <3>1, <3>2, <3>3 DEF KeysInv, Popping, Held
  <2> QED
    BY <2>2, <2>3
<1>13. CASE SleepTest /\ UNCHANGED <<keys, elapsed>> /\ Alone
  BY <1>13, KeysAlone DEF SleepTest, Alone, devices, Emptied, Popping
<1>14. CASE SleepReturn /\ UNCHANGED keys /\ Alone
  BY <1>14, KeysAlone DEF SleepReturn, Alone, devices, Emptied, Popping
<1> QED
  BY <1>1, <1>2, <1>3, <1>4, <1>5, <1>6, <1>7, <1>8, <1>9, <1>10, <1>11, <1>12, <1>13, <1>14,
     StepCases

\* Every press is in one place, and the presses on the stack lie in the order
\* they were made in, but for those that came while getc took a key.
THEOREM KeysInOrder == Spec => []KeysInv
<1>1. Init => KeysInv
  BY KeysInit
<1>2. StackInv /\ CharactersInv /\ KeysInv /\ [Next]_vars => KeysInv'
  BY KeysStep
<1> QED
  BY <1>1, <1>2, StackKept, CharactersAreKept, PTL DEF Spec

\* What a key on the stack is while getc has none in hand.
LEMMA OnTheStack ==
  ASSUME StackInv, CharactersInv, KeysInv, ~raced, ~Emptied, NEW k \in 1 .. read_ptr
  PROVE  LET n == key_buffer[k].press
         IN /\ n \in 1 .. handled \ Returned
            /\ typed[n] \in Codes
            /\ key_buffer[k].char = Ascii[Shifted(n)][typed[n]]
<1>1. k \in 1 .. Top /\ k \in Cells
  BY StackFacts
<1>2. key_buffer[k].press \in 1 .. handled \ Returned
  BY <1>1 DEF KeysInv
<1>3. key_buffer[k].press # 0
  BY <1>2, StackFacts, SMT
<1> QED
  BY <1>1, <1>2, <1>3 DEF CharactersInv, Rightly

\* Though keys arrive between any two steps of getc, as long as none came while
\* it took one: a character that was typed is on the stack or was returned, and
\* not both.
THEOREM KeysAreKept == Spec => []KeysKept
<1>1. StackInv /\ CharactersInv /\ KeysInv => KeysKept
  <2> SUFFICES ASSUME StackInv, CharactersInv, KeysInv, pc = "idle", ~raced
               PROVE  /\ Unread \cap Returned = {}
                      /\ \A n \in 1 .. handled :
                           /\ typed[n] \in Codes
                           /\ Ascii[Shifted(n)][typed[n]] # 0
                           => n \in Unread \cup Returned
    BY DEF KeysKept
  <2>1. ~Emptied /\ Top = read_ptr
    BY DEF Emptied, Top
  <2>2. Unread \cap Returned = {}
    BY <2>1, OnTheStack DEF Unread
  <2>3. ASSUME NEW n \in 1 .. handled, typed[n] \in Codes, Ascii[Shifted(n)][typed[n]] # 0,
               n \notin Returned
        PROVE  n \in Unread
    <3>1. PICK k \in 1 .. read_ptr : key_buffer[k].press = n
      BY <2>1, <2>3 DEF KeysInv, Held
    <3>2. key_buffer[k].char # 0
      BY <2>1, <2>3, <3>1, OnTheStack
    <3> QED
      BY <3>1, <3>2 DEF Unread
  <2> QED
    BY <2>2, <2>3
<1> QED
  BY <1>1, StackKept, CharactersAreKept, KeysInOrder, PTL

\* getc waits with a character on the stack only if a key without one has come
\* on top of it, or a key came while getc took another.
THEOREM WaitsOnlyWhenEmpty == Spec => []WaitsWhenEmpty
<1>1. StackInv /\ CharactersInv /\ KeysInv => WaitsWhenEmpty
  <2> SUFFICES ASSUME StackInv, CharactersInv, KeysInv, ~raced,
                      pc = "getc_hlt", key_buffer[read_ptr].char = 0
               PROVE  \/ Unread = {}
                      \/ \E n \in 1 .. handled :
                           typed[n] \in Codes /\ Ascii[Shifted(n)][typed[n]] = 0
    BY DEF WaitsWhenEmpty
  <2>1. ~Emptied
    BY DEF Emptied
  <2>2. CASE read_ptr = 0
    <3>1. {k \in 1 .. read_ptr : key_buffer[k].char # 0} = {}
      BY <2>2, SMT
    <3>2. Unread = {key_buffer[k].press : k \in {l \in 1 .. read_ptr : key_buffer[l].char # 0}}
      BY DEF Unread
    <3> QED
      BY <3>1, <3>2
  <2>3. CASE read_ptr # 0
    <3>1. read_ptr \in 1 .. read_ptr
      BY <2>3, StackFacts
    <3> QED
      BY <2>1, <3>1, OnTheStack
  <2> QED
    BY <2>2, <2>3
<1> QED
  BY <1>1, StackKept, CharactersAreKept, KeysInOrder, PTL

==============================================================================
