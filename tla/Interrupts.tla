----------------------------- MODULE Interrupts -----------------------------
(* The keyboard and timer interrupts (ps2.cpp, timer.cpp, irq.cpp) and the  *)
(* two functions that wait for them with hlt: getc and sleep.               *)
(*                                                                          *)
(* A handler runs with interrupts off, in one step; getc and sleep are      *)
(* interrupted between any two of their accesses to memory.  The unread     *)
(* characters are a stack: the handler pushes, getc pops.                   *)
EXTENDS Integers, Sequences, SequencesExt

CONSTANTS
  Codes,       \* scancodes of the keys but left shift
  Ascii,       \* kbdus: Ascii[shift_down][code], 0 for a key without a character
  ShiftDown,   \* scancode 42
  ShiftUp,     \* scancode 42 with bit 7 set
  Release,     \* any other scancode with bit 7 set
  BufferSize,  \* 100
  MaxTyped,    \* bound: scancodes the keyboard sends
  TickWrap,    \* 2^32
  Periods      \* arguments of sleep

ASSUME InterruptsAssumption ==
  /\ {ShiftDown, ShiftUp, Release} \cap Codes = {}
  /\ ShiftDown \notin {ShiftUp, Release}
  /\ DOMAIN Ascii = {0, 1} /\ \A shift \in {0, 1} : DOMAIN Ascii[shift] = Codes
  /\ BufferSize \in Nat \ {0}
  /\ MaxTyped \in 0 .. BufferSize - 1
  /\ TickWrap \in Nat \ {0}
  /\ Periods \subseteq 0 .. TickWrap - 1

Timer == 0
Keyboard == 1
Nul == [char |-> 0, press |-> 0]
Cells == 0 .. BufferSize - 1

VARIABLES
  request,       \* interrupt lines the devices have raised
  typed,         \* history: the scancodes the keyboard has sent
  handled,       \* how many of them the handler has read from port 0x60
  shift_down,
  key_buffer,    \* key_buffer[k]: a character, and which scancode sent it
  read_ptr,      \* stdin->_IO_read_ptr
  timer_ticks,
  pc,            \* where the one thread of the kernel is
  reg,           \* a pointer or tick count it has loaded
  tmp,           \* getc's tmp
  period,        \* sleep's ms and timer_start
  timer_start,
  got,           \* history: what getc has returned
  elapsed,       \* history: ticks since sleep was called
  raced          \* history: a key has arrived while getc took another

thread == <<pc, reg, tmp, period, timer_start, got>>
devices == <<request, typed, handled>>
keys == <<shift_down, key_buffer, read_ptr>>
vars == <<request, typed, handled, shift_down, key_buffer, read_ptr,
          timer_ticks, thread, elapsed, raced>>

----------------------------------------------------------------------------
(* The devices *)

RaiseTimer ==
  /\ Timer \notin request
  /\ request' = request \cup {Timer}
  /\ UNCHANGED <<typed, handled, keys, timer_ticks, thread, elapsed, raced>>

PressKey(code) ==
  /\ Len(typed) < MaxTyped
  /\ typed' = Append(typed, code)
  /\ request' = request \cup {Keyboard}
  /\ UNCHANGED <<handled, keys, timer_ticks, thread, elapsed, raced>>

----------------------------------------------------------------------------
(* The handlers *)

timer_handler ==
  /\ timer_ticks' = (timer_ticks + 1) % TickWrap
  /\ elapsed' = IF pc \in {"sleep_test", "sleep_hlt"} /\ elapsed < TickWrap
                THEN elapsed + 1 ELSE elapsed
  /\ UNCHANGED <<keys, handled>>

Scancode == typed[handled + 1]

\* Mutant: letting shift go does not reset shift_down.
KeyUpIgnored == UNCHANGED keys

\* A key is let go: only left shift matters.
KeyUp ==
  /\ shift_down' = IF Scancode = ShiftUp THEN 0 ELSE shift_down
  /\ UNCHANGED <<key_buffer, read_ptr>>

\* Mutant: the pointer is not advanced before the store.
KeyDownOverwrites ==
  IF Scancode = ShiftDown
  THEN /\ shift_down' = 1
       /\ UNCHANGED <<key_buffer, read_ptr>>
  ELSE /\ key_buffer' = [key_buffer EXCEPT ![read_ptr] =
            [char |-> Ascii[shift_down][Scancode], press |-> handled + 1]]
       /\ UNCHANGED <<shift_down, read_ptr>>

\* A key is pushed behind the last one that was not read, with or without a
\* character.  The scancode's number is what tells it from others.
KeyDown ==
  IF Scancode = ShiftDown
  THEN /\ shift_down' = 1
       /\ UNCHANGED <<key_buffer, read_ptr>>
  ELSE /\ read_ptr' = read_ptr + 1
       /\ key_buffer' = [key_buffer EXCEPT ![read_ptr + 1] =
            [char |-> Ascii[shift_down][Scancode], press |-> handled + 1]]
       /\ UNCHANGED shift_down

keyboard_handler ==
  /\ handled' = handled + 1
  /\ IF Scancode \in {ShiftUp, Release} THEN KeyUp ELSE KeyDown
  /\ UNCHANGED <<timer_ticks, elapsed>>

\* Mutant: only the keyboard wakes a thread that waits.
AfterHltKeyboard(irq) ==
  IF irq = Timer THEN pc
  ELSE CASE pc = "getc_hlt" -> "getc_test" [] OTHER -> pc

\* Every interrupt returns behind the hlt that it ended.
AfterHlt(irq) ==
  CASE pc = "getc_hlt" -> "getc_test"
    [] pc = "sleep_hlt" -> "sleep_test"
    [] OTHER -> pc

\* getc has seen a character and has not taken it from the stack yet.
Popping == {"getc_take", "getc_take_char", "getc_clear", "getc_clear_char",
            "getc_pop", "getc_pop_store"}

\* irq_handler of an interrupt, from the gate to the end-of-interrupt and iret.
irq_handler(irq) ==
  /\ irq \in request
  /\ IF irq = Timer THEN timer_handler ELSE keyboard_handler
  /\ request' = IF irq = Keyboard /\ handled' < Len(typed) THEN request ELSE request \ {irq}
  /\ pc' = AfterHlt(irq)
  /\ raced' = (raced \/ (irq = Keyboard /\ pc \in Popping))
  /\ UNCHANGED <<typed, reg, tmp, period, timer_start, got>>

----------------------------------------------------------------------------
(* getc(stdin): each step is one access to the FILE or to the buffer *)

CallGetc ==
  /\ pc = "idle"
  /\ pc' = "getc_test"
  /\ UNCHANGED <<reg, tmp, period, timer_start, got>>

LoadPointer(from, to) ==
  /\ pc = from
  /\ reg' = read_ptr
  /\ pc' = to
  /\ UNCHANGED <<tmp, period, timer_start, got>>

\* Mutant: getc does not wait.
TestNothing ==
  /\ pc = "getc_test_char"
  /\ pc' = "getc_take"
  /\ UNCHANGED <<reg, tmp, period, timer_start, got>>

TestCharacter ==
  /\ pc = "getc_test_char"
  /\ pc' = IF key_buffer[reg].char = 0 THEN "getc_hlt" ELSE "getc_take"
  /\ UNCHANGED <<reg, tmp, period, timer_start, got>>

TakeCharacter ==
  /\ pc = "getc_take_char"
  /\ tmp' = key_buffer[reg]
  /\ pc' = "getc_clear"
  /\ UNCHANGED <<reg, period, timer_start, got>>

ClearCharacter ==
  /\ pc = "getc_clear_char"
  /\ key_buffer' = [key_buffer EXCEPT ![reg] = Nul]
  /\ pc' = "getc_pop"
  /\ UNCHANGED <<shift_down, read_ptr, reg, tmp, period, timer_start, got>>

\* Mutant: the pointer stays at the cell getc has emptied.
PopKeepsPointer ==
  /\ pc = "getc_pop_store"
  /\ got' = Append(got, tmp)
  /\ tmp' = Nul
  /\ reg' = 0
  /\ pc' = "idle"
  /\ UNCHANGED <<keys, period, timer_start>>

PopCharacter ==
  /\ pc = "getc_pop_store"
  /\ read_ptr' = reg - 1
  /\ got' = Append(got, tmp)
  /\ tmp' = Nul
  /\ reg' = 0
  /\ pc' = "idle"
  /\ UNCHANGED <<shift_down, key_buffer, period, timer_start>>

GetcStep ==
  \/ UNCHANGED keys /\ LoadPointer("getc_test", "getc_test_char")
  \/ UNCHANGED keys /\ TestCharacter
  \/ UNCHANGED keys /\ LoadPointer("getc_take", "getc_take_char")
  \/ UNCHANGED keys /\ TakeCharacter
  \/ UNCHANGED keys /\ LoadPointer("getc_clear", "getc_clear_char")
  \/ ClearCharacter
  \/ UNCHANGED keys /\ LoadPointer("getc_pop", "getc_pop_store")
  \/ PopCharacter

----------------------------------------------------------------------------
(* sleep(ms) *)

CallSleep(ms) ==
  /\ pc = "idle"
  /\ period' = ms
  /\ timer_start' = timer_ticks
  /\ elapsed' = 0
  /\ pc' = "sleep_test"
  /\ UNCHANGED <<reg, tmp, got>>

\* Mutant: the end of the period is computed once.
TicksLeftAbsolute(ticks) == ticks < (timer_start + period) % TickWrap

\* The subtraction is one of uint32_t.
TicksLeft(ticks) == (ticks - timer_start) % TickWrap < period

SleepTest ==
  /\ pc = "sleep_test"
  /\ pc' = IF TicksLeft(timer_ticks) THEN "sleep_hlt" ELSE "sleep_return"
  /\ UNCHANGED <<reg, tmp, period, timer_start, got>>

SleepReturn ==
  /\ pc = "sleep_return"
  /\ pc' = "idle"
  /\ period' = 0
  /\ timer_start' = 0
  /\ elapsed' = 0
  /\ UNCHANGED <<reg, tmp, got>>

----------------------------------------------------------------------------
Init ==
  /\ request = {} /\ typed = <<>> /\ handled = 0
  /\ shift_down = 0
  /\ key_buffer = [k \in Cells |-> Nul]
  /\ read_ptr = 0
  /\ timer_ticks = 0 /\ elapsed = 0 /\ raced = FALSE
  /\ pc = "idle" /\ reg = 0 /\ tmp = Nul /\ period = 0 /\ timer_start = 0
  /\ got = <<>>

Call ==
  \/ CallGetc /\ UNCHANGED elapsed
  \/ \E ms \in Periods : CallSleep(ms)

Thread ==
  \/ GetcStep /\ UNCHANGED elapsed
  \/ SleepTest /\ UNCHANGED <<keys, elapsed>>
  \/ SleepReturn /\ UNCHANGED keys

Next ==
  \/ RaiseTimer
  \/ \E code \in Codes \cup {ShiftDown, ShiftUp, Release} : PressKey(code)
  \/ \E irq \in {Timer, Keyboard} : irq_handler(irq)
  \/ Call /\ UNCHANGED <<devices, keys, timer_ticks, raced>>
  \/ Thread /\ UNCHANGED <<devices, timer_ticks, raced>>

Spec == Init /\ [][Next]_vars

\* The timer goes on ticking, the controller delivers what is raised, and the
\* thread runs between two interrupts.
FairSpec ==
  /\ Spec
  /\ WF_vars(RaiseTimer)
  /\ \A irq \in {Timer, Keyboard} : WF_vars(irq_handler(irq))
  /\ WF_vars(Thread /\ UNCHANGED <<devices, timer_ticks, raced>>)

----------------------------------------------------------------------------
(* Properties *)

\* At whatever instant of getc the keyboard interrupts, there is a key on the
\* stack for getc to pop, nothing is ever put into the buffer's first cell, and
\* the pointer never comes below it: the bottom of the stack is never passed.
BottomKept ==
  /\ read_ptr >= (IF pc \in Popping THEN 1 ELSE 0)
  /\ key_buffer[0] = Nul

\* The shift key's state when scancode n is handled.
Shifted(n) ==
  LET shifts == {k \in 1 .. n - 1 : typed[k] \in {ShiftDown, ShiftUp}}
  IN IF shifts # {} /\ typed[CHOOSE k \in shifts : \A l \in shifts : l <= k] = ShiftDown
     THEN 1 ELSE 0

\* A character is the one its key has with shift as it was when that key went
\* down, however late it is read.
RightCharacter ==
  \A c \in {key_buffer[k] : k \in Cells} \cup ToSet(got) :
    c.press # 0 => c.char = Ascii[Shifted(c.press)][typed[c.press]]

\* sleep does not return before its milliseconds have passed, also when
\* timer_ticks wraps around meanwhile or ticks while sleep looks at it.
SleepsLongEnough == pc = "sleep_return" => elapsed >= period

\* A key that arrives between getc's look at the buffer and its hlt is not
\* slept through: the next tick wakes getc, and it looks again.
GetcWakes == pc = "getc_hlt" ~> pc # "getc_hlt"

Unread == {key_buffer[k].press : k \in {l \in 1 .. read_ptr : key_buffer[l].char # 0}}
Returned == {c.press : c \in ToSet(got)}

\* Between two calls of getc, a character that was typed is either in the
\* buffer or has been returned, never both and never neither, however many
\* arrived while getc waited or between its calls; a key that arrives while
\* getc takes another breaks this.
KeysKept ==
  pc = "idle" /\ ~raced =>
    /\ Unread \cap Returned = {}
    /\ \A n \in 1 .. handled :
         /\ typed[n] \in Codes
         /\ Ascii[Shifted(n)][typed[n]] # 0
         => n \in Unread \cup Returned

\* getc does not wait while there is a character to read, as long as every key
\* that was pressed has a character; one without buries those before it.
WaitsWhenEmpty ==
  pc = "getc_hlt" /\ key_buffer[read_ptr].char = 0 =>
    \/ raced \/ Unread = {}
    \/ \E n \in 1 .. handled : typed[n] \in Codes /\ Ascii[Shifted(n)][typed[n]] = 0
=============================================================================
