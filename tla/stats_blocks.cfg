\* Arrays of up to three elements in blocks of one to four.
CONSTANTS
  MaxSize = 3
  MaxBlock = 4
  Byte = 3
SPECIFICATION StatsSpec
INVARIANT MaxIsRight
CHECK_DEADLOCK FALSE
