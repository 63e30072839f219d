\* RAM has a slot more than L2, and there is a page for every slot.
CONSTANTS
  Pages = {p1, p2, p3, p4}
  NoPage = NoPage
  L1_SIZE = 1
  L2_SIZE = 1
  RAM_SIZE = 2
  Modes = {0}
SPECIFICATION MmuSpec
PROPERTIES
  DroppedOnlyWhenFull
CHECK_DEADLOCK FALSE
