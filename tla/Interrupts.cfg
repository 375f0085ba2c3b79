SPECIFICATION FairSpec
CONSTANTS
  Codes = {"a", "F1"}
  Ascii <- LetterAndF1
  ShiftDown = "shift"
  ShiftUp = "shift up"
  Release = "release"
  BufferSize = 5
  MaxTyped = 3
  TickWrap = 4
  Periods = {0, 2}
INVARIANTS BottomKept RightCharacter SleepsLongEnough KeysKept WaitsWhenEmpty
PROPERTIES GetcWakes
