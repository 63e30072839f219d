\* Two spoolers on the first queue, none on the second; fork may fail and any input
\* may come.  Arrays of up to four elements in blocks of one to five; matrices of up to
\* nine cells in batches that divide them and that do not; three threads for seven values.
CONSTANTS
  main = main
  q1 = q1
  q2 = q2
  N1 = {a1, a2}
  N2 = {}
  Threads = {main, a1, a2}
  Queues = {q1, q2}
  Nodes = {1, 2}
  Data = {1, 2}
  Nobody = Nobody
  Inputs = {"pdf1", "pdf2", "other", "no_driver", "unreadable"}
  MaxJobs = 2
  LogFile = TRUE
  ForkMayFail = TRUE
  MaxSize = 4
  MaxBlock = 5
  Byte = 3
  Sizes = {1, 2, 3}
  Limits = {4, 5, 6, 7}
  NumThreads = 3
  NumVals = 7
SPECIFICATION ProgramSpec
INVARIANTS
  DrainedBeforeReturn
  FifoDelivery
  QuietDestroy
  MergesApart
  SortsAll
  
  SlotsPrivate
  BatchesCopied
  EachOnce
PROPERTIES
  ServerEnds
  ThreadsEnd
CHECK_DEADLOCK FALSE
