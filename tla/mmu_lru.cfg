\* Two slots in each level and one page more than L1 can hold.
CONSTANTS
  Pages = {p1, p2, p3}
  NoPage = NoPage
  L1_SIZE = 2
  L2_SIZE = 2
  RAM_SIZE = 2
  Modes = {1}
SPECIFICATION LruSpec
PROPERTIES
  LeastRecentLeaves
CHECK_DEADLOCK FALSE
