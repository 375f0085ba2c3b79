\* Violated: an entry's m_inode points to a deleted counter while it is made.
SPECIFICATION EntriesSpec
CONSTANTS
  Counters = {c1, c2, c3, c4, c5, c6, c7, c8, c9, c10, c11, c12, c13, c14, c15, c16, c17, c18, c19, c20}
  MaxEntries = 3
  MaxOpens = 2
  Wrap = 64
INVARIANTS MInodeCounted
