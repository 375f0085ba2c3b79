\* The heap without page-aligned requests: every interleaving of kmalloc,
\* krealloc, free (of live and of stale pointers) and client writes.
SPECIFICATION FairSpec
CONSTANTS
  HeapStart = 8
  HeapSize = 14
  HeaderSize = 2
  MinBlock = 1
  Page = 8
  Word = 64
  Sizes = {0, 2, 5}
  AlignedSizes = {}
INVARIANTS
  TypeOK
  UsedIffLive
  LiveLinksAgree
  Coalesced
  BestFit
PROPERTIES
  PayloadsUntouched
  HeapCallsReturn
  ImplementsContract
