SPECIFICATION UtilSpec
CONSTANTS
  Counters = {c1, c2}
  Strong = {h1, h2, h3}
  Weak = {w1, w2}
  Wrap = 4
  Nodes = {n1, n2, n3, n4}
  ListValues = {1, 2}
  Keys = {0, 96, 1, 352}
  MapValues = {"v1234", "v4568"}
  MaxMapNodes = 3
  StringVars = {s1, s2}
  Buffers = {b1, b2, b3}
  Literals <- ShortLiterals
  MaxLength = 3
INVARIANTS CountExact HeldIsLive TextKept
PROPERTIES IsDeque IsDictionary SplitSections
SYMMETRY RcSymmetry
CHECK_DEADLOCK FALSE
