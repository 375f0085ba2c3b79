SPECIFICATION FilesSpec
CONSTANTS
  Trees <- Upto6
  IdRange = 6
  TableSize = 5
  PageSize = 4
  Space = 24
  StackSize = 8
  MaxRuns = 2
  Images <- Programs
  Width = 3
  Height = 3
  Glyph = {"a", "b"}
  NewLine = "nl"
  Return = "cr"
  Nul = "nul"
  OutSize = 3
  Texts <- ShortTexts
  FaultText <- Fault
  Nibbles = 2
  Arguments <- ArgumentsOf
  TextAt <- TextOf
  FD_MAX = 3
  Capacity = 4
  Word = 8
  Bytes = {"a", "b"}
  MaxBytes = 3
  Text <- TextAndNext
  TextSize = 2
  Counters = {c1, c2, c3, c4, c5, c6, c7, c8, c9, c10, c11, c12, c13, c14, c15, c16, c17, c18, c19, c20}
  MaxEntries = 3
  MaxOpens = 2
  Wrap = 64
INVARIANTS TreeArrives SegmentsArrive NothingHeldBack NothingStale InodeReached
PROPERTIES IsTerminal PrintsItsArgument DescriptorsKept IsPipe
