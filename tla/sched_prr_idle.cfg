\* prr with no task ready: get_next_task pops the list an uninitialised index names.
CONSTANTS
  NumTasks = 2
  NumPriorities = 2
  Quantum = 2
  MaxLength = 2
  MaxGap = 2
  Args <- PrrArgs
SPECIFICATION MainSpec
INVARIANTS
  NoFault
CHECK_DEADLOCK FALSE
