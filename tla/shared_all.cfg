\* Three tasks and the algorithms that order or split them; three callers of one queue,
\* at both ends; two clients, and a server that may be killed twice.
CONSTANTS
  NumTasks = 3
  NumPriorities = 2
  Quantum = 2
  MaxTicks = 2
  Available = {"fcfs", "srtn", "prr"}
  Threads = {t1, t2, t3}
  Queues = {q1}
  Nodes = {1, 2}
  Data = {1, 2}
  Nobody = Nobody
  MaxPushes = 2
  MaxReleases = 1
  Clients = {c1, c2}
  Nothing = Nothing
  MaxRestarts = 2
SPECIFICATION SharedSpec
INVARIANTS
  ListsFit
  NoDangling
  WellLinked
  TokensCovered
  NothingBlank
  WakeupsMatch
  WholeWhenSerial
PROPERTIES
  SwitchKeepsReady
  IsAtomicQueue
  
CHECK_DEADLOCK FALSE
