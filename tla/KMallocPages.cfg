\* Page-aligned requests among plain ones, with free and krealloc.
\* An aligned request that leaves a stale link is carried out and ends a behaviour.
SPECIFICATION Spec
CONSTANTS
  HeapStart = 8
  HeapSize = 20
  HeaderSize = 2
  MinBlock = 1
  Page = 4
  Word = 64
  Sizes = {1}
  AlignedSizes = {1, 3}
PROPERTIES
  PagesKept
CHECK_DEADLOCK FALSE
