\* An algorithm is selected while a task runs.
CONSTANTS
  NumTasks = 2
  NumPriorities = 1
  Quantum = 2
  MaxTicks = 1
  Available = {"fcfs", "srtn"}
SPECIFICATION ApiSpec
PROPERTIES
  NoTaskForgotten
CHECK_DEADLOCK FALSE
