SPECIFICATION Spec
CONSTANTS
  Dirs = {kernel_directory, d1}
  KernelDir = kernel_directory
  PageSize = 4
  PageCount = 4
  TablePages = 2
  BigTables = {1}
  NFrames = 5
  LockedFrames = 2
  ClearedFrames = 4
  Ranges <- RequestedRanges
  Rights <- RequestedRights
INVARIANTS FramesExclusive PresentIsReachable
PROPERTIES RequestMapped TranslationStable
CHECK_DEADLOCK FALSE
