\* A job read and printed once.
CONSTANTS
  main = main
  q1 = q1
  q2 = q2
  N1 = {a1}
  N2 = {b1}
  Threads = {main, a1, b1}
  Queues = {q1, q2}
  Nodes = {1, 2}
  Data = {1, 2}
  Nobody = Nobody
  Inputs = {"pdf1", "pdf2"}
  MaxJobs = 2
  LogFile = TRUE
  ForkMayFail = FALSE
SPECIFICATION Spec
INVARIANTS
  NoUseAfterFree
CHECK_DEADLOCK FALSE
