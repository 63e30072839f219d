\* Every algorithm in turn, as main runs them; fcfs, the first, implements a server.
CONSTANTS
  NumTasks = 3
  NumPriorities = 2
  Quantum = 2
  MaxLength = 3
  MaxGap = 2
  Args <- AllArgs
SPECIFICATION FairMainSpec
INVARIANTS
  TypeOK
  Conservation
  Agreement
  WorkConserving
  SliceBound
  ShortestRuns
  FaultOnlyInPrr
  CodeOutlivesUse
  ChartIsTrue
PROPERTIES
  NoBypass
  HighestFirst
  Termination
  FcfsIsFifo
CHECK_DEADLOCK FALSE
