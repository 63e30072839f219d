\* Lists of up to four nodes, where NULL is one of the two data; two slots in L1 and in
\* L2, three in RAM, and as many pages.
CONSTANTS
  Nodes = {1, 2, 3, 4}
  Data = {0, 12}
  Pages = {p1, p2, p3, p4, p5, p6, p7}
  Alike = {p1, p2, p3, p4, p5}
  NoPage = NoPage
  L1_SIZE = 2
  L2_SIZE = 2
  RAM_SIZE = 3
  Modes = {0, 1, 2, 3, 4}
SPECIFICATION LibrarySpec
SYMMETRY Symmetry
INVARIANTS
  TwoWay
  Loaded
  Exclusive
PROPERTIES
  IsIttrList
  OldestIsLost
  FollowsPolicy
