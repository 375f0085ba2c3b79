\* Violated: a page-aligned request leaves the block behind a stale link.
SPECIFICATION Spec
CONSTANTS
  HeapStart = 8
  HeapSize = 20
  HeaderSize = 2
  MinBlock = 1
  Page = 4
  Word = 64
  Sizes = {1}
  AlignedSizes = {1, 3}
INVARIANT LiveLinksAgree
CHECK_DEADLOCK FALSE
