\* Boot with two devices on each controller, spurious interrupts, faults and
\* system calls.
SPECIFICATION FairSpec
CONSTANTS
  Lines = {0, 1, 8, 15}
  Traps = {0, 13}
  Nibble = 4
  TssAddress = 52345
  FirstStub = 49500
  ImageBlocks = {1, 2, 3, 5, 9}
INVARIANTS LedToItsStub SyscallsUndisturbed MemoryKept
PROPERTIES HaltIsFinal LinesServed
