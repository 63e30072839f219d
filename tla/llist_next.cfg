\* Insertions before and after the iterator.
CONSTANTS
  Nodes = {1, 2, 3}
  Data = {12, 13}
SPECIFICATION Spec
PROPERTIES
  InsertedIsNext
CHECK_DEADLOCK FALSE
