--------------------------- MODULE Threads_proofs ---------------------------
(***************************************************************************)
(* What the threads of the matrix product, of the standard deviation and   *)
(* of the statistics are correct for, whatever the sizes and the number of *)
(* threads: nobody works on another's record, every copied cell is right,  *)
(* every value is added once, blocks that are sorted or merged at the same *)
(* time have no cell in common, what the merges leave is the array in      *)
(* order, and what a search answers is an element, the right one if it was *)
(* one block.                                                              *)
(***************************************************************************)
EXTENDS MatrixThreads, StdDevThreads, Stats,
        FiniteSetTheorems, FunctionTheorems, SequenceTheorems, WellFoundedInduction, TLAPS

-----------------------------------------------------------------------------
(* Quotient and remainder. *)

\* Quotient and remainder exist.
LEMMA DivMod ==
  ASSUME NEW n \in Nat \ {0}, NEW a \in Nat
  PROVE  \E q \in Nat, r \in 0 .. n - 1 : a = n * q + r /\ a \div n = q /\ a % n = r
<1>1. a % n \in 0 .. n - 1
  OBVIOUS
<1>2. a \div n \in Nat
  OBVIOUS
<1>3. a = n * (a \div n) + (a % n)
  OBVIOUS
<1> QED
  BY <1>1, <1>2, <1>3, Zenon

\* A number below n is the remainder it leaves.
LEMMA ModUnique ==
  ASSUME NEW n \in Nat \ {0}, NEW q \in Nat, NEW r \in 0 .. n - 1
  PROVE  (n * q + r) % n = r
OBVIOUS

\* Adding n does not change the remainder.
LEMMA ModAdd ==
  ASSUME NEW n \in Nat \ {0}, NEW a \in Nat
  PROVE  (a + n) % n = a % n
<1>1. PICK q \in Nat, r \in 0 .. n - 1 : a = n * q + r /\ a % n = r
  BY DivMod
<1>2. a + n = n * (q + 1) + r
  BY <1>1
<1>3. (n * (q + 1) + r) % n = r
  BY ModUnique
<1> QED
  BY <1>1, <1>2, <1>3

\* A number below n is its own remainder.
LEMMA ModSmall ==
  ASSUME NEW n \in Nat \ {0}, NEW a \in 0 .. n - 1
  PROVE  a % n = a
OBVIOUS

\* Multiples of n that are less than n apart are in order.
LEMMA FactorBound ==
  ASSUME NEW n \in Nat \ {0}, NEW p \in Nat, NEW q \in Nat, n * p < n * q + n
  PROVE  p <= q
<1>1. SUFFICES ASSUME p >= q + 1 PROVE FALSE
  OBVIOUS
<1>2. n * p >= n * (q + 1)
  BY <1>1
<1> QED
  BY <1>2

\* Of the numbers from a to before a + n only a has the remainder of a.
LEMMA ModEqual ==
  ASSUME NEW n \in Nat \ {0}, NEW a \in Nat, NEW b \in Nat,
         a % n = b % n, a <= b, b < a + n
  PROVE  a = b
<1>1. PICK p \in Nat, r \in 0 .. n - 1 : a = n * p + r /\ a % n = r
  BY DivMod
<1>2. PICK q \in Nat, s \in 0 .. n - 1 : b = n * q + s /\ b % n = s
  BY DivMod
<1>3. r = s
  BY <1>1, <1>2
<1>4. n * p \in Nat /\ n * q \in Nat
  OBVIOUS
<1>5. n * p < n * q + n /\ n * q < n * p + n
  BY <1>1, <1>2, <1>3, <1>4
<1>6. p = q
  BY <1>5, FactorBound
<1> QED
  BY <1>1, <1>2, <1>3, <1>6

\* The quotient rounds down.
LEMMA Quotient ==
  ASSUME NEW n \in Nat \ {0}, NEW a \in Nat
  PROVE  a \div n \in Nat /\ a \div n <= a /\ (a \div n) * n <= a
<1>1. PICK q \in Nat, r \in 0 .. n - 1 : a = n * q + r /\ a \div n = q
  BY DivMod
<1>2. q <= n * q /\ n * q \in Nat /\ n * q = q * n
  BY <1>1
<1> QED
  BY <1>1, <1>2

\* The blocks whose number is no greater than the quotient start within the array.
LEMMA BlockWithin ==
  ASSUME NEW n \in Nat \ {0}, NEW a \in Nat, NEW i \in Nat, i <= a \div n
  PROVE  i * n \in Nat /\ i * n <= a /\ (i + 1) * n = i * n + n
<1>1. PICK q \in Nat : q = a \div n /\ q * n <= a
  BY Quotient
<1>2. i * n <= q * n
  BY <1>1
<1> QED
  BY <1>1, <1>2

\* A power of two is a number.
LEMMA Power ==
  ASSUME NEW n \in Nat
  PROVE  2 ^ n \in Nat
<1>1. IsFiniteSet(1 .. n) /\ Cardinality(1 .. n) = n
  BY FS_Interval
<1>2. IsFiniteSet(SUBSET (1 .. n)) /\ Cardinality(SUBSET (1 .. n)) = 2 ^ n
  BY <1>1, FS_SUBSET
<1> QED
  BY <1>2, FS_CardinalityType

\* Every nonempty set of numbers has a least one.
LEMMA LeastElement ==
  ASSUME NEW S \in SUBSET Nat, S # {}
  PROVE  \E m \in S : \A k \in S : m <= k
<1>0. S \subseteq Nat
  OBVIOUS
<1>1. PICK m \in S : \A k \in S : <<k, m>> \notin OpToRel(<, Nat)
  BY <1>0, WFMin, NatLessThanWellFounded, Zenon
<1>2. \A k \in S : ~(k < m)
  BY <1>0, <1>1 DEF OpToRel
<1> QED
  BY <1>0, <1>2

-----------------------------------------------------------------------------
(* The standard deviation. *)

Sums == [Vals -> Nat]

\* The thread that adds v: its values are the numbers with one remainder.
Adder(v) == v % NumThreads

\* v has been added in this phase.
Added(v) == Adder(v) < started /\ v < tid[Adder(v)]

StdDevTypes ==
  /\ StdDevTypeOK
  /\ loaded \in [Workers -> Sums]
  /\ sum \in Sums
  /\ avg \in Sums

\* The main thread creates all threads and then joins all of them.
KeeperInv ==
  /\ keeper = "create" => joined = 0 /\ started < NumThreads
  /\ keeper # "create" => started = NumThreads
  /\ keeper = "done" => joined = NumThreads
  /\ phase = "deviation" => avg = [v \in Vals |-> 1]

\* What a thread may rely on where it is: who holds the mutex has a sum that is
\* still the current one.
WorkerInv(t) ==
  /\ Adder(tid[t]) = t
  /\ t >= started => at[t] \in {"none", "ended"}
  /\ t < started => at[t] # "none"
  /\ t < started /\ at[t] = "ended" => tid[t] >= NumVals
  /\ t < joined => at[t] = "ended"
  /\ at[t] = "lock" => tid[t] = t
  /\ at[t] \in {"load", "store"} <=> mutex = t
  /\ at[t] = "store" => loaded[t] = sum /\ tid[t] < NumVals

\* The sum is that of the values below the next value of their thread.
SumInv == \A v \in Vals : sum[v] = IF Added(v) THEN 1 ELSE 0

StdDevInv ==
  /\ StdDevTypes
  /\ KeeperInv
  /\ \A t \in Workers : WorkerInv(t)
  /\ SumInv

\* Each value has one thread that adds it.
LEMMA AdderWorker ==
  ASSUME NEW a \in Nat
  PROVE  Adder(a) \in Workers
  BY StdDevAssumption DEF Adder, Workers

\* The thread that adds a value adds the one NumThreads further on.
LEMMA AdderNext ==
  ASSUME NEW a \in Nat
  PROVE  Adder(a + NumThreads) = Adder(a)
  BY StdDevAssumption, ModAdd DEF Adder

\* A thread begins with the value of its own number.
LEMMA AdderFirst ==
  ASSUME NEW t \in Workers
  PROVE  Adder(t) = t
  BY StdDevAssumption, ModSmall DEF Adder, Workers

\* Of NumThreads values in a row each belongs to another thread.
LEMMA AdderApart ==
  ASSUME NEW a \in Nat, NEW b \in Nat, Adder(a) = Adder(b), a <= b, b < a + NumThreads
  PROVE  a = b
  BY StdDevAssumption, ModEqual DEF Adder

\* No thread has been created.
LEMMA StdDevInvInit == StdDevInit => StdDevInv
<1> SUFFICES ASSUME StdDevInit PROVE StdDevInv
  OBVIOUS
<1> USE StdDevAssumption DEF StdDevInit
<1>1. StdDevTypes
  BY DEF StdDevTypes, StdDevTypeOK, Sums, Nothing, Workers, Free
<1>2. KeeperInv
  BY DEF KeeperInv
<1>3. ASSUME NEW t \in Workers PROVE WorkerInv(t)
  BY AdderFirst DEF WorkerInv, Free, Workers
<1>4. SumInv
  BY AdderWorker DEF SumInv, Added, Nothing, Workers, Vals
<1> QED
  BY <1>1, <1>2, <1>3, <1>4 DEF StdDevInv

\* Everybody has added all of his values when all have been joined.
LEMMA AllAdded ==
  ASSUME StdDevInv, joined = NumThreads
  PROVE  sum = [v \in Vals |-> 1]
<1>1. ASSUME NEW v \in Vals PROVE sum[v] = 1
  <2>1. v \in Nat /\ v < NumVals
    BY StdDevAssumption DEF Vals
  <2>2. PICK t \in Workers : t = Adder(v)
    BY <2>1, AdderWorker
  <2>3. started = NumThreads
    BY StdDevAssumption DEF StdDevInv, KeeperInv
  <2>4. WorkerInv(t) /\ t < NumThreads
    BY StdDevAssumption DEF StdDevInv, Workers
  <2>5. at[t] = "ended" /\ tid[t] >= NumVals /\ tid[t] \in Int
    BY <2>3, <2>4 DEF WorkerInv, StdDevInv, StdDevTypes, StdDevTypeOK
  <2> QED
    BY <2>1, <2>2, <2>3, <2>4, <2>5, StdDevAssumption DEF StdDevInv, SumInv, Added
<1> QED
  BY <1>1 DEF StdDevInv, StdDevTypes, Sums

\* main creates a thread.
LEMMA ForkKeeps == StdDevInv /\ Fork => StdDevInv'
<1> SUFFICES ASSUME StdDevInv, Fork PROVE StdDevInv'
  OBVIOUS
<1> USE StdDevAssumption DEF Fork, StdDevInv
<1>0. started \in Workers /\ started \in Nat
  BY DEF StdDevTypes, StdDevTypeOK, Workers
<1>1. StdDevTypes'
  BY <1>0 DEF StdDevTypes, StdDevTypeOK, Workers
<1>2. KeeperInv'
  BY <1>0 DEF KeeperInv, Vals
<1>3. ASSUME NEW t \in Workers PROVE WorkerInv(t)'
  <2>1. CASE t = started
    <3>1. at[t] \in {"none", "ended"} /\ mutex # t
      BY <1>0, <2>1 DEF WorkerInv
    <3>2. at'[t] = "lock" /\ tid'[t] = t /\ Adder(t) = t
      BY <1>0, <2>1, AdderFirst DEF StdDevTypes, StdDevTypeOK
    <3> QED
      BY <1>0, <2>1, <3>1, <3>2 DEF WorkerInv, KeeperInv, Adder
  <2>2. CASE t # started
    <3>1. at'[t] = at[t] /\ tid'[t] = tid[t]
      BY <2>2 DEF StdDevTypes, StdDevTypeOK
    <3>2. t < started' <=> t < started
      BY <1>0, <2>2 DEF Workers
    <3> QED
      BY <1>0, <3>1, <3>2 DEF WorkerInv, Adder, Workers
  <2> QED
    BY <2>1, <2>2
<1>4. SumInv'
  <2>1. ASSUME NEW v \in Vals PROVE Added(v)' = Added(v)
    <3>1. v \in Nat
      BY DEF Vals
    <3>2. Adder(v) \in Workers /\ Adder(v)' = Adder(v) /\ Adder(v) <= v
      BY <3>1, AdderWorker DEF Adder
    <3>3. CASE Adder(v) = started
      BY <1>0, <3>1, <3>2, <3>3 DEF Added, StdDevTypes, StdDevTypeOK
    <3>4. CASE Adder(v) # started
      BY <1>0, <3>1, <3>2, <3>4 DEF Added, StdDevTypes, StdDevTypeOK, Workers
    <3> QED
      BY <3>3, <3>4
  <2> QED
    BY <2>1 DEF SumInv, Vals
<1> QED
  BY <1>1, <1>2, <1>3, <1>4 DEF Workers

\* main joins a thread.
LEMMA JoinNextKeeps == StdDevInv /\ JoinNext => StdDevInv'
<1> SUFFICES ASSUME StdDevInv, JoinNext PROVE StdDevInv'
  OBVIOUS
<1> USE StdDevAssumption DEF JoinNext, StdDevInv
<1>1. StdDevTypes'
  BY DEF StdDevTypes, StdDevTypeOK
<1>2. KeeperInv'
  BY DEF KeeperInv
<1>3. ASSUME NEW t \in Workers PROVE WorkerInv(t)'
  BY DEF WorkerInv, StdDevTypes, StdDevTypeOK, Workers, Adder
<1>4. SumInv'
  BY DEF SumInv, Added, Adder
<1> QED
  BY <1>1, <1>2, <1>3, <1>4 DEF Workers

\* main divides the sum and begins the second phase.
LEMMA NextPhaseKeeps == StdDevInv /\ NextPhase => StdDevInv'
<1> SUFFICES ASSUME StdDevInv, NextPhase PROVE StdDevInv'
  OBVIOUS
<1>0. sum = [v \in Vals |-> 1]
  BY AllAdded DEF NextPhase
<1> USE StdDevAssumption DEF NextPhase, StdDevInv
<1>1. StdDevTypes'
  BY DEF StdDevTypes, StdDevTypeOK, Sums, Nothing
<1>2. KeeperInv'
  BY <1>0 DEF KeeperInv, Vals
<1>3. ASSUME NEW t \in Workers PROVE WorkerInv(t)'
  <2>1. at[t] = "ended" /\ mutex # t
    BY DEF WorkerInv, Workers
  <2> QED
    BY <2>1 DEF WorkerInv, Workers, Adder, KeeperInv
<1>4. SumInv'
  <2>1. CASE phase = "average"
    BY <2>1, AdderWorker DEF SumInv, Added, Nothing, Vals, Workers
  <2>2. CASE phase # "average"
    BY <2>2 DEF SumInv, Added, Adder
  <2> QED
    BY <2>1, <2>2
<1> QED
  BY <1>1, <1>2, <1>3, <1>4 DEF Workers

\* What the main thread relies on is not disturbed by another.
LEMMA WorkerKeepsKeeper ==
  ASSUME StdDevInv, NEW t \in Workers, NEW from, NEW to, Moves(t, from, to)
  PROVE  KeeperInv'
  BY DEF StdDevInv, Moves, KeeperInv, Vals

\* A thread locks the mutex.
LEMMA AcquireKeeps ==
  ASSUME StdDevInv, NEW t \in Workers, Acquire(t)
  PROVE  StdDevInv'
<1> USE StdDevAssumption DEF Acquire, StdDevInv, Moves
<1>1. StdDevTypes'
  BY DEF StdDevTypes, StdDevTypeOK
<1>2. KeeperInv'
  BY WorkerKeepsKeeper
<1>3. ASSUME NEW u \in Workers PROVE WorkerInv(u)'
  <2>1. CASE u = t
    BY <2>1 DEF WorkerInv, StdDevTypes, StdDevTypeOK, Adder
  <2>2. CASE u # t
    <3>1. mutex # u /\ mutex' # u
      BY <2>2 DEF Free, Workers
    <3> QED
      BY <2>2, <3>1 DEF WorkerInv, StdDevTypes, StdDevTypeOK, Adder
  <2> QED
    BY <2>1, <2>2
<1>4. SumInv'
  BY DEF SumInv, Added, Adder
<1> QED
  BY <1>1, <1>2, <1>3, <1>4 DEF Workers

\* A thread reads the shared sum.
LEMMA LoadKeeps ==
  ASSUME StdDevInv, NEW t \in Workers, Load(t)
  PROVE  StdDevInv'
<1> USE StdDevAssumption DEF Load, StdDevInv, Moves
<1>1. StdDevTypes'
  BY DEF StdDevTypes, StdDevTypeOK
<1>2. KeeperInv'
  BY WorkerKeepsKeeper
<1>3. ASSUME NEW u \in Workers PROVE WorkerInv(u)'
  BY DEF WorkerInv, StdDevTypes, StdDevTypeOK, Workers, Adder
<1>4. SumInv'
  BY DEF SumInv, Added, Adder
<1> QED
  BY <1>1, <1>2, <1>3, <1>4 DEF Workers

\* A thread writes the sum with its value added.
LEMMA StoreKeeps ==
  ASSUME StdDevInv, NEW t \in Workers, Store(t)
  PROVE  StdDevInv'
<1> USE StdDevAssumption DEF Store, StdDevInv, Moves
<1>a. WorkerInv(t) /\ at[t] = "store" /\ tid[t] \in Nat
  BY DEF StdDevTypes, StdDevTypeOK
<1>b. tid[t] \in Vals /\ Adder(tid[t]) = t /\ loaded[t] = sum
  BY <1>a DEF WorkerInv, Vals
<1>c. t < started
  BY <1>a DEF WorkerInv, StdDevTypes, StdDevTypeOK, Workers
<1>d. tid' = [tid EXCEPT ![t] = tid[t] + NumThreads]
  OBVIOUS
<1>e. sum' = [sum EXCEPT ![tid[t]] = sum[tid[t]] + 1]
  BY <1>b
<1>0. /\ tid[t] \in Vals /\ tid[t] \in Nat /\ Adder(tid[t]) = t /\ t < started
      /\ tid' = [tid EXCEPT ![t] = tid[t] + NumThreads]
      /\ sum' = [sum EXCEPT ![tid[t]] = sum[tid[t]] + 1]
  BY <1>a, <1>b, <1>c, <1>d, <1>e
<1>1. StdDevTypes'
  <2>1. sum' \in [Vals -> Nat]
    BY <1>0 DEF StdDevTypes, Sums
  <2>2. tid' \in [Workers -> 0 .. NumVals + NumThreads - 1]
    BY <1>0 DEF StdDevTypes, StdDevTypeOK, Vals
  <2> QED
    BY <2>1, <2>2 DEF StdDevTypes, StdDevTypeOK, Workers, Sums, Vals
<1>2. KeeperInv'
  BY WorkerKeepsKeeper
<1>3. ASSUME NEW u \in Workers PROVE WorkerInv(u)'
  <2>1. Adder(tid'[u]) = u
    BY <1>0, AdderNext DEF WorkerInv, StdDevTypes, StdDevTypeOK
  <2>2. CASE u = t
    BY <1>0, <2>1, <2>2 DEF WorkerInv, StdDevTypes, StdDevTypeOK, Adder
  <2>3. CASE u # t
    BY <1>0, <2>1, <2>3 DEF WorkerInv, StdDevTypes, StdDevTypeOK, Adder
  <2> QED
    BY <2>2, <2>3
<1>4. ASSUME NEW v \in Vals PROVE sum'[v] = IF Added(v)' THEN 1 ELSE 0
  <2>0. v \in Nat /\ Adder(v) \in Workers /\ Adder(v)' = Adder(v)
    BY AdderWorker DEF Vals, Adder
  <2>1. sum[v] = IF Added(v) THEN 1 ELSE 0
    BY DEF SumInv
  <2>2. CASE v = tid[t]
    BY <1>0, <2>0, <2>1, <2>2 DEF StdDevTypes, StdDevTypeOK, Sums, Added
  <2>3. CASE v # tid[t]
    <3>1. sum'[v] = sum[v]
      BY <1>0, <2>3 DEF StdDevTypes, Sums
    <3>2. CASE Adder(v) = t
      <4>1. v < tid[t] + NumThreads <=> v < tid[t]
        BY <1>0, <2>0, <2>3, <3>2, AdderApart
      <4> QED
        BY <1>0, <2>0, <2>1, <3>1, <3>2, <4>1 DEF StdDevTypes, StdDevTypeOK, Added
    <3>3. CASE Adder(v) # t
      BY <1>0, <2>0, <2>1, <3>1, <3>3 DEF StdDevTypes, StdDevTypeOK, Added
    <3> QED
      BY <3>2, <3>3
  <2> QED
    BY <2>2, <2>3
<1> QED
  BY <1>1, <1>2, <1>3, <1>4 DEF Workers, SumInv, Vals

\* A thread unlocks the mutex and goes on to its next value.
LEMMA UnlockMutexKeeps ==
  ASSUME StdDevInv, NEW t \in Workers, UnlockMutex(t)
  PROVE  StdDevInv'
<1> USE StdDevAssumption DEF UnlockMutex, StdDevInv, Moves
<1>1. StdDevTypes'
  BY DEF StdDevTypes, StdDevTypeOK
<1>2. KeeperInv'
  BY WorkerKeepsKeeper
<1>3. ASSUME NEW u \in Workers PROVE WorkerInv(u)'
  BY DEF WorkerInv, StdDevTypes, StdDevTypeOK, Workers, Adder, Free
<1>4. SumInv'
  BY DEF SumInv, Added, Adder
<1> QED
  BY <1>1, <1>2, <1>3, <1>4 DEF Workers

\* Every step of main or of a thread preserves the invariant.
LEMMA StdDevInvStep == StdDevInv /\ [StdDevNext]_stddev_vars => StdDevInv'
<1> SUFFICES ASSUME StdDevInv, [StdDevNext]_stddev_vars PROVE StdDevInv'
  OBVIOUS
<1>1. CASE \E t \in Workers : Acquire(t) \/ Load(t) \/ Store(t) \/ UnlockMutex(t)
  BY <1>1, AcquireKeeps, LoadKeeps, StoreKeeps, UnlockMutexKeeps
<1>2. CASE UNCHANGED stddev_vars
  BY <1>2 DEF stddev_vars, StdDevInv, StdDevTypes, StdDevTypeOK, KeeperInv, WorkerInv, SumInv,
              Added, Adder, Sums, Workers, Vals
<1> QED
  BY <1>1, <1>2, ForkKeeps, JoinNextKeeps, NextPhaseKeeps DEF StdDevNext

\* Whatever the number of threads and of values, and in whatever order the threads
\* take the mutex, the average and the deviation are of every value once.
THEOREM EveryValueOnce == StdDevSpec => []EachOnce
<1>1. StdDevInv => EachOnce
  BY AllAdded DEF StdDevInv, StdDevTypes, KeeperInv, EachOnce
<1> QED
  BY <1>1, StdDevInvInit, StdDevInvStep, PTL DEF StdDevSpec

-----------------------------------------------------------------------------
(* The matrix product. *)

Indices == Int \X Int
States == {"none", "zero", "column", "row", "sum", "ended"}

\* The number of the first thread of the batch that is created or joined.
Base == IF creator = "join" THEN created - BatchSize ELSE created - t_C

\* Thread k was joined: it is of an earlier batch, or after those left of this one.
IsJoined(k) == k < Base \/ (creator = "join" /\ k >= Base + t_C /\ k < created)

\* The state before the files are read.
StartInv ==
  /\ A_Size = 1 /\ limit = 1 /\ t_C = 0 /\ created = 0
  /\ worker = <<>> /\ threads = <<>> /\ Matrix_C = <<>>

MatrixTypes ==
  /\ creator \in {"create", "join", "written"}
  /\ A_Size \in Nat \ {0} /\ limit \in Nat \ {0}
  /\ t_C \in 0 .. limit
  /\ created \in 0 .. final_Val
  /\ md \in [Slots -> [x : Int, y : Int, output : Indices]]
  /\ threads \in [Slots -> Int]
  /\ worker \in [Numbers -> States]
  /\ slot \in [Numbers -> Slots \cup {-1}]
  /\ row \in [Numbers -> Int]
  /\ column \in [Numbers -> Int]
  /\ Matrix_C \in [Product -> Indices]

\* The cells are cut into batches of BatchSize, the last of which may be smaller and
\* is then not joined.
BatchInv ==
  /\ Base \in Nat /\ Base % BatchSize = 0
  /\ creator = "create" => t_C < BatchSize
  /\ creator = "join" => t_C <= BatchSize
  /\ creator = "written" => created = final_Val /\ t_C < BatchSize

\* Slot s is that of thread Base + s, which finds its cell there, and keeps it until
\* it is joined.
SlotInv(s) ==
  /\ threads[s] = Base + s
  /\ slot[Base + s] = s
  /\ <<md[s].x, md[s].y>> = Cell(Base + s)
  /\ worker[Base + s] = "ended" => md[s].output = Cell(Base + s)

\* A thread that still runs is one of those that are to be joined.
ThreadInv(k) ==
  /\ worker[k] = "none" <=> k >= created
  /\ worker[k] \notin {"none", "ended"} => k \in Base .. Base + t_C - 1
  /\ worker[k] \in {"row", "sum"} => column[k] = Cell(k)[2]
  /\ worker[k] = "sum" => row[k] = Cell(k)[1]

\* Of the product there are the cells of the threads that were joined.
CopyInv == \A k \in Numbers : Matrix_C[Cell(k)] = IF IsJoined(k) THEN Cell(k) ELSE Blank

RunInv ==
  /\ MatrixTypes
  /\ BatchInv
  /\ \A s \in 0 .. t_C - 1 : SlotInv(s)
  /\ \A k \in Numbers : ThreadInv(k)
  /\ CopyInv

MatrixInv == IF creator = "start" THEN StartInv ELSE RunInv

-----------------------------------------------------------------------------
(* Cells and batches. *)

\* A matrix that is not empty has cells.
LEMMA Square ==
  ASSUME NEW a \in Nat \ {0}
  PROVE  a * a \in Nat \ {0}
OBVIOUS

\* There are threads to create.
LEMMA FinalVal ==
  ASSUME A_Size \in Nat \ {0}
  PROVE  final_Val \in Nat \ {0} /\ Numbers \subseteq Nat
  BY DEF final_Val, Numbers

\* The k-th thread computes a cell, and its arguments are known.
LEMMA CellType ==
  ASSUME A_Size \in Nat \ {0}, NEW k \in Nat
  PROVE  Cell(k) \in Indices /\ Cell(k) # Blank /\ Cell(k) = <<Cell(k)[1], Cell(k)[2]>>
<1>1. k \div A_Size \in Nat /\ k % A_Size \in Nat
  BY DivMod
<1> QED
  BY <1>1 DEF Cell, Indices, Blank

\* No two threads are created for one cell.
LEMMA CellOnce ==
  ASSUME A_Size \in Nat \ {0}, NEW j \in Nat, NEW k \in Nat, Cell(j) = Cell(k)
  PROVE  j = k
<1>1. j = A_Size * (j \div A_Size) + (j % A_Size)
  BY DivMod
<1>2. k = A_Size * (k \div A_Size) + (k % A_Size)
  BY DivMod
<1>3. j \div A_Size = k \div A_Size /\ j % A_Size = k % A_Size
  BY DEF Cell
<1> QED
  BY <1>1, <1>2, <1>3

\* A batch is of 1 to limit threads.
LEMMA BatchSizeType ==
  ASSUME MatrixTypes
  PROVE  BatchSize \in 1 .. limit
<1>1. final_Val % limit \in 0 .. limit - 1
  BY FinalVal, DivMod DEF MatrixTypes
<1> QED
  BY <1>1 DEF BatchSize, MatrixTypes

\* The counter meets the size of a batch before any other reason to join.
LEMMA BatchFullFirst ==
  ASSUME MatrixTypes, NEW n \in 1 .. BatchSize
  PROVE  BatchFull(n) <=> n = BatchSize
<1>1. final_Val % limit \in 0 .. limit - 1
  BY FinalVal, DivMod DEF MatrixTypes
<1> QED
  BY <1>1 DEF BatchFull, BatchSize, MatrixTypes

\* All that the sizes decide stays as it is.
LEMMA SameSizes ==
  ASSUME A_Size' = A_Size, limit' = limit
  PROVE  /\ final_Val' = final_Val /\ BatchSize' = BatchSize
         /\ Numbers' = Numbers /\ Slots' = Slots /\ Product' = Product
         /\ \A k : Cell(k)' = Cell(k)
  BY DEF final_Val, BatchSize, Numbers, Slots, Product, Cell

\* What every proof of a step needs of a state.
LEMMA RunFacts ==
  ASSUME RunInv
  PROVE  /\ final_Val \in Nat /\ Numbers \subseteq Nat /\ \A k \in Nat : k < final_Val => k \in Numbers
         /\ BatchSize \in Nat \ {0} /\ BatchSize <= limit
         /\ created \in Nat /\ t_C \in Nat /\ limit \in Nat
         /\ Base \in Nat /\ Base + t_C <= created
         /\ \A s \in 0 .. t_C - 1 : s \in Slots /\ Base + s \in Numbers
         /\ \A k \in Nat : /\ Cell(k) \in Indices /\ Cell(k) # Blank
                           /\ Cell(k) = <<Cell(k)[1], Cell(k)[2]>>
                           /\ k \in Numbers => Cell(k) \in Product
         /\ \A j, k \in Nat : Cell(j) = Cell(k) => j = k
<1> USE DEF RunInv, MatrixTypes
<1>1. /\ final_Val \in Nat /\ Numbers \subseteq Nat /\ \A k \in Nat : k < final_Val => k \in Numbers
  BY FinalVal DEF Numbers
<1>2. BatchSize \in Nat \ {0} /\ BatchSize <= limit
  BY BatchSizeType
<1>3. created \in Nat /\ t_C \in Nat /\ limit \in Nat /\ created <= final_Val
  BY <1>1
<1>4. Base \in Nat /\ Base + t_C <= created
  BY <1>2, <1>3 DEF BatchInv, Base
<1>5. \A s \in 0 .. t_C - 1 : s \in Slots /\ Base + s \in Numbers
  BY <1>1, <1>3, <1>4 DEF Slots
<1>6. \A k \in Nat : /\ Cell(k) \in Indices /\ Cell(k) # Blank
                     /\ Cell(k) = <<Cell(k)[1], Cell(k)[2]>>
                     /\ k \in Numbers => Cell(k) \in Product
  BY CellType DEF Product
<1>7. \A j, k \in Nat : Cell(j) = Cell(k) => j = k
  BY CellOnce
<1> QED
  BY <1>1, <1>2, <1>3, <1>4, <1>5, <1>6, <1>7

-----------------------------------------------------------------------------
(* Every step keeps the invariant. *)

\* main reads the files.
LEMMA ReadFilesKeeps == MatrixInv /\ ReadFiles => RunInv'
<1> SUFFICES ASSUME MatrixInv, ReadFiles PROVE RunInv'
  OBVIOUS
<1> USE DEF ReadFiles
<1>1. t_C' = 0 /\ created' = 0 /\ creator' = "create"
  BY DEF MatrixInv, StartInv
<1>2. A_Size' \in Nat \ {0} /\ limit' \in Nat \ {0}
  BY MatrixAssumption
<1>3. final_Val' \in Nat \ {0}
  BY <1>2, Square DEF final_Val
<1>4. (final_Val % limit)' \in 0 .. limit' - 1
  BY <1>2, <1>3, DivMod
<1>5. PICK n \in Nat \ {0} : BatchSize' = n
  BY <1>2, <1>4 DEF BatchSize
<1>6. Base' = 0 /\ Base' % BatchSize' = 0
  <2>1. Base' = 0
    BY <1>1 DEF Base
  <2>2. 0 % BatchSize' = 0
    BY <1>5, ModSmall
  <2> QED
    BY <2>1, <2>2
<1>7. MatrixTypes'
  <2>1. /\ md' \in [Slots -> [x : Int, y : Int, output : Indices]]'
        /\ threads' \in [Slots' -> Int]
    BY DEF Indices, Blank
  <2>2. /\ worker' \in [Numbers' -> States]
        /\ slot' \in [Numbers' -> Slots' \cup {-1}]
        /\ row' \in [Numbers' -> Int] /\ column' \in [Numbers' -> Int]
        /\ Matrix_C' \in [Product' -> Indices]
    BY DEF Indices, Blank, States
  <2> QED
    BY <1>1, <1>2, <1>3, <2>1, <2>2 DEF MatrixTypes
<1>8. BatchInv'
  BY ONLY <1>1, <1>5, <1>6 DEF BatchInv
<1>9. ASSUME NEW k \in Numbers' PROVE ThreadInv(k)'
  BY <1>1, <1>3 DEF ThreadInv, Numbers
<1>10. CopyInv'
  <2>1. ASSUME NEW k \in Numbers' PROVE ~IsJoined(k)' /\ Cell(k)' \in Product'
    BY <1>1, <1>3, <1>6 DEF IsJoined, Numbers, Product
  <2> QED
    BY <2>1 DEF CopyInv
<1> QED
  BY <1>1, <1>7, <1>8, <1>9, <1>10 DEF RunInv

\* main fills a record and creates a thread on it.
LEMMA CreateThreadKeeps == RunInv /\ CreateThread => RunInv'
<1> SUFFICES ASSUME RunInv, CreateThread PROVE RunInv'
  OBVIOUS
<1> USE RunFacts, SameSizes DEF CreateThread
<1>1. creator = "create" /\ t_C < BatchSize /\ created = Base + t_C /\ created < final_Val
  BY DEF RunInv, BatchInv, Base
<1>2. t_C \in Slots /\ created \in Numbers
  BY <1>1 DEF Slots
<1>3. creator' = IF t_C + 1 = BatchSize THEN "join" ELSE "create"
  BY <1>1, BatchFullFirst DEF RunInv
<1>4. Base' = Base
  BY <1>1, <1>3 DEF Base
<1>5. MatrixTypes'
  <2>1. md' \in [Slots -> [x : Int, y : Int, output : Indices]]
    BY <1>2 DEF RunInv, MatrixTypes, Indices, Blank
  <2>2. threads' \in [Slots -> Int] /\ slot' \in [Numbers -> Slots \cup {-1}]
    BY <1>2 DEF RunInv, MatrixTypes
  <2>3. worker' \in [Numbers -> States]
    BY <1>2 DEF RunInv, MatrixTypes, States
  <2> QED
    BY <1>1, <1>3, <2>1, <2>2, <2>3 DEF RunInv, MatrixTypes
<1>6. BatchInv'
  BY <1>1, <1>3, <1>4 DEF RunInv, BatchInv
<1>7. ASSUME NEW s \in 0 .. t_C' - 1 PROVE SlotInv(s)'
  <2>1. CASE s = t_C
    BY <1>1, <1>2, <1>4, <2>1 DEF SlotInv, RunInv, MatrixTypes
  <2>2. CASE s # t_C
    <3>1. s \in 0 .. t_C - 1 /\ s \in Slots /\ Base + s \in Numbers /\ Base + s # created
      BY <1>1, <2>2
    <3>2. SlotInv(s)
      BY <3>1 DEF RunInv
    <3>3. /\ md'[s] = md[s] /\ threads'[s] = threads[s]
          /\ slot'[Base + s] = slot[Base + s] /\ worker'[Base + s] = worker[Base + s]
      BY <2>2, <3>1 DEF RunInv, MatrixTypes
    <3> QED
      BY <1>4, <3>2, <3>3 DEF SlotInv
  <2> QED
    BY <2>1, <2>2
<1>8. ASSUME NEW k \in Numbers PROVE ThreadInv(k)'
  <2>1. ThreadInv(k) /\ k \in Nat
    BY DEF RunInv
  <2>2. CASE k = created
    BY <1>1, <1>4, <2>1, <2>2 DEF ThreadInv, RunInv, MatrixTypes
  <2>3. CASE k # created
    <3>1. worker'[k] = worker[k]
      BY <2>3 DEF RunInv, MatrixTypes
    <3>2. k >= created' <=> k >= created
      BY <1>1, <2>1, <2>3
    <3>3. k \in Base .. Base + t_C - 1 => k \in Base' .. Base' + t_C' - 1
      BY <1>4
    <3> QED
      BY <2>1, <3>1, <3>2, <3>3 DEF ThreadInv
  <2> QED
    BY <2>2, <2>3
<1>9. CopyInv'
  <2>1. ASSUME NEW k \in Numbers PROVE IsJoined(k)' <=> IsJoined(k)
    BY <1>1, <1>4 DEF IsJoined
  <2> QED
    BY <2>1 DEF CopyInv, RunInv
<1> QED
  BY <1>1, <1>3, <1>5, <1>6, <1>7, <1>8, <1>9 DEF RunInv

\* main joins a thread.
LEMMA JoinThreadKeeps == RunInv /\ JoinThread => RunInv'
<1> SUFFICES ASSUME RunInv, JoinThread PROVE RunInv'
  OBVIOUS
<1> USE RunFacts, SameSizes DEF JoinThread, thread_vars
<1> DEFINE s0 == t_C - 1
           j  == Base + s0
<1>1. s0 \in 0 .. t_C - 1 /\ j \in Numbers /\ j \in Nat /\ s0 \in Slots
  OBVIOUS
<1>2. SlotInv(s0)
  BY <1>1 DEF RunInv
<1>3. worker[j] = "ended" /\ Matrix_C' = [Matrix_C EXCEPT ![Cell(j)] = Cell(j)]
  BY <1>1, <1>2 DEF SlotInv
<1>4. Base' = Base /\ creator = "join"
  BY DEF Base
<1>5. created = Base + BatchSize
  BY <1>4 DEF Base, RunInv, MatrixTypes
<1> HIDE DEF j
<1>6. MatrixTypes'
  <2>1. Matrix_C' \in [Product -> Indices]
    <3>1. Cell(j) \in Indices /\ Matrix_C \in [Product -> Indices]
      BY <1>1 DEF RunInv, MatrixTypes
    <3> QED
      BY ONLY <1>3, <3>1
  <2>2. t_C' \in 0 .. limit
    BY DEF RunInv, MatrixTypes
  <2> QED
    BY <2>1, <2>2 DEF RunInv, MatrixTypes
<1>7. BatchInv'
  BY <1>4 DEF RunInv, BatchInv
<1>8. ASSUME NEW s \in 0 .. t_C' - 1 PROVE SlotInv(s)'
  BY <1>4 DEF SlotInv, RunInv
<1>9. ASSUME NEW k \in Numbers PROVE ThreadInv(k)'
  BY <1>3, <1>4 DEF ThreadInv, RunInv, j
<1>10. ASSUME NEW k \in Numbers
       PROVE  Matrix_C'[Cell(k)] = IF IsJoined(k)' THEN Cell(k) ELSE Blank
  <2>1. IsJoined(k)' <=> IsJoined(k) \/ k = j
    BY <1>4, <1>5 DEF IsJoined, j
  <2>2. Matrix_C[Cell(k)] = IF IsJoined(k) THEN Cell(k) ELSE Blank
    BY DEF RunInv, CopyInv
  <2>3. CASE k = j
    BY <1>1, <1>3, <2>1, <2>3 DEF RunInv, MatrixTypes
  <2>4. CASE k # j
    <3>1. Cell(k) # Cell(j)
      BY <1>1, <2>4
    <3> QED
      BY <1>3, <2>1, <2>2, <2>4, <3>1 DEF RunInv, MatrixTypes
  <2> QED
    BY <2>3, <2>4
<1> QED
  BY <1>4, <1>6, <1>7, <1>8, <1>9, <1>10 DEF RunInv, CopyInv

\* main copies the cells of a batch, and the records are free.
LEMMA BatchJoinedKeeps == RunInv /\ BatchJoined => RunInv'
<1> SUFFICES ASSUME RunInv, BatchJoined PROVE RunInv'
  OBVIOUS
<1> USE RunFacts, SameSizes DEF BatchJoined, thread_vars
<1>1. t_C = 0 /\ t_C' = 0 /\ created = Base + BatchSize /\ Base' = created
  BY DEF Base
<1>2. MatrixTypes'
  BY DEF RunInv, MatrixTypes
<1>3. BatchInv'
  <2>1. created % BatchSize = 0
    BY <1>1, ModAdd DEF RunInv, BatchInv
  <2> QED
    BY <1>1, <2>1 DEF BatchInv
<1>4. ASSUME NEW k \in Numbers PROVE ThreadInv(k)'
  BY <1>1 DEF ThreadInv, RunInv
<1>5. CopyInv'
  <2>1. ASSUME NEW k \in Numbers PROVE IsJoined(k)' <=> IsJoined(k)
    BY <1>1 DEF IsJoined
  <2> QED
    BY <2>1 DEF CopyInv, RunInv
<1> QED
  BY <1>1, <1>2, <1>3, <1>4, <1>5 DEF RunInv

\* main writes the product.
LEMMA WriteFileKeeps == RunInv /\ WriteFile => RunInv'
<1> SUFFICES ASSUME RunInv, WriteFile PROVE RunInv'
  OBVIOUS
<1> USE RunFacts, SameSizes DEF WriteFile, thread_vars
<1>1. Base' = Base
  BY DEF Base
<1>2. MatrixTypes'
  BY DEF RunInv, MatrixTypes
<1>3. BatchInv'
  BY <1>1 DEF RunInv, BatchInv
<1>4. ASSUME NEW s \in 0 .. t_C - 1 PROVE SlotInv(s)'
  BY <1>1 DEF SlotInv, RunInv
<1>5. ASSUME NEW k \in Numbers PROVE ThreadInv(k)'
  BY <1>1 DEF ThreadInv, RunInv
<1>6. CopyInv'
  BY <1>1 DEF CopyInv, RunInv, IsJoined
<1> QED
  BY <1>2, <1>3, <1>4, <1>5, <1>6 DEF RunInv

\* A running thread has the slot that is its own.
LEMMA OwnSlot ==
  ASSUME RunInv, NEW k \in Numbers, worker[k] \notin {"none", "ended"}
  PROVE  \E s \in 0 .. t_C - 1 : s \in Slots /\ k = Base + s /\ slot[k] = s /\ SlotInv(s)
<1>1. k \in Base .. Base + t_C - 1
  BY DEF RunInv, ThreadInv
<1>2. k - Base \in 0 .. t_C - 1 /\ k = Base + (k - Base)
  BY <1>1, RunFacts
<1>3. SlotInv(k - Base) /\ k - Base \in Slots
  BY <1>2, RunFacts DEF RunInv
<1> QED
  BY <1>2, <1>3, Zenon DEF SlotInv

\* A thread that only goes on disturbs nobody: the slots are as they were, but for the
\* output of its own.
LEMMA GoesKeeps ==
  ASSUME RunInv, NEW k \in Numbers, NEW from \in States, NEW to \in States, Goes(k, from, to),
         from \notin {"none", "ended"}, to # "none",
         md' = md \/ \E o \in Indices : md' = [md EXCEPT ![slot[k]].output = o],
         to = "ended" => md' = [md EXCEPT ![slot[k]].output = Cell(k)],
         row' \in [Numbers -> Int], column' \in [Numbers -> Int],
         \A i \in Numbers : i # k => row'[i] = row[i] /\ column'[i] = column[i],
         to \in {"row", "sum"} => column'[k] = Cell(k)[2],
         to = "sum" => row'[k] = Cell(k)[1]
  PROVE  RunInv'
<1> USE SameSizes DEF Goes
<1>1. PICK s0 \in 0 .. t_C - 1 : s0 \in Slots /\ k = Base + s0 /\ slot[k] = s0 /\ SlotInv(s0)
  BY OwnSlot
<1>2. Base' = Base
  BY DEF Base
<1>3. worker' = [worker EXCEPT ![k] = to] /\ worker \in [Numbers -> States]
  BY DEF RunInv, MatrixTypes
<1>4. /\ md' \in [Slots -> [x : Int, y : Int, output : Indices]]
      /\ \A s \in Slots : md'[s].x = md[s].x /\ md'[s].y = md[s].y
      /\ \A s \in Slots : s # s0 => md'[s].output = md[s].output
      /\ to = "ended" => md'[s0].output = Cell(k)
  <2>1. md \in [Slots -> [x : Int, y : Int, output : Indices]]
    BY DEF RunInv, MatrixTypes
  <2>2. CASE md' = md
    BY <1>1, <2>1, <2>2
  <2>3. ASSUME NEW o \in Indices, md' = [md EXCEPT ![s0].output = o], to = "ended" => o = Cell(k)
        PROVE  /\ md' \in [Slots -> [x : Int, y : Int, output : Indices]]
               /\ \A s \in Slots : md'[s].x = md[s].x /\ md'[s].y = md[s].y
               /\ \A s \in Slots : s # s0 => md'[s].output = md[s].output
               /\ to = "ended" => md'[s0].output = Cell(k)
    BY <1>1, <2>1, <2>3
  <2>4. CASE to = "ended"
    <3>1. Cell(k) \in Indices
      BY RunFacts
    <3> QED
      BY <1>1, <2>3, <2>4, <3>1
  <2>5. CASE to # "ended"
    BY <1>1, <2>2, <2>3, <2>5
  <2> QED
    BY <2>4, <2>5
<1>5. MatrixTypes'
  BY <1>3, <1>4 DEF RunInv, MatrixTypes
<1>6. BatchInv'
  BY <1>2 DEF RunInv, BatchInv
<1>7. ASSUME NEW s \in 0 .. t_C - 1 PROVE SlotInv(s)'
  <2>1. SlotInv(s) /\ s \in Slots /\ Base + s \in Numbers
    BY RunFacts DEF RunInv
  <2>2. md'[s].x = md[s].x /\ md'[s].y = md[s].y
    BY <1>4, <2>1
  <2>3. CASE s = s0
    BY <1>1, <1>2, <1>3, <1>4, <2>1, <2>2, <2>3 DEF SlotInv
  <2>4. CASE s # s0
    <3>1. Base \in Nat
      BY RunFacts
    <3>2. Base + s # k
      BY <1>1, <2>4, <3>1
    <3> QED
      BY <1>2, <1>3, <1>4, <2>1, <2>2, <2>4, <3>2 DEF SlotInv
  <2> QED
    BY <2>3, <2>4
<1>8. ASSUME NEW i \in Numbers PROVE ThreadInv(i)'
  <2>1. ThreadInv(i)
    BY DEF RunInv
  <2>2. CASE i = k
    BY <1>2, <1>3, <2>1, <2>2 DEF ThreadInv
  <2>3. CASE i # k
    BY <1>2, <1>3, <2>1, <2>3 DEF ThreadInv
  <2> QED
    BY <2>2, <2>3
<1>9. CopyInv'
  BY <1>2 DEF RunInv, CopyInv, IsJoined
<1> QED
  BY <1>5, <1>6, <1>7, <1>8, <1>9 DEF RunInv

\* A thread computes the cell its record names.
LEMMA CalculateCellKeeps ==
  ASSUME RunInv, NEW k \in Numbers, calculate_Cell(k)
  PROVE  RunInv'
<1> USE DEF States
<1>1. row \in [Numbers -> Int] /\ column \in [Numbers -> Int]
  BY DEF RunInv, MatrixTypes
<1>2. Blank \in Indices
  BY DEF Blank, Indices
<1>3. /\ Cell(k) = <<Cell(k)[1], Cell(k)[2]>> /\ Cell(k) \in Indices
      /\ Cell(k)[1] \in Int /\ Cell(k)[2] \in Int
  BY RunFacts DEF Indices
<1>4. worker[k] \notin {"none", "ended"}
  BY DEF calculate_Cell, Zero, ReadColumn, ReadRow, Sum_Cell, Goes
<1>5. md[slot[k]].x = Cell(k)[1] /\ md[slot[k]].y = Cell(k)[2]
  <2>1. PICK s0 \in 0 .. t_C - 1 : k = Base + s0 /\ slot[k] = s0 /\ SlotInv(s0)
    BY <1>4, OwnSlot
  <2>2. <<md[s0].x, md[s0].y>> = <<Cell(k)[1], Cell(k)[2]>>
    BY <1>3, <2>1 DEF SlotInv
  <2> QED
    BY <2>1, <2>2
<1>6. ThreadInv(k)
  BY DEF RunInv
<1>7. CASE Zero(k)
  BY <1>1, <1>2, <1>7, GoesKeeps DEF Zero
<1>8. CASE ReadColumn(k)
  <2>1. column' = [column EXCEPT ![k] = Cell(k)[2]]
    BY <1>5, <1>8 DEF ReadColumn
  <2>2. /\ column' \in [Numbers -> Int] /\ column'[k] = Cell(k)[2]
        /\ \A i \in Numbers : i # k => column'[i] = column[i]
    BY <1>1, <1>3, <2>1
  <2> QED
    BY <1>1, <1>8, <2>2, GoesKeeps DEF ReadColumn
<1>9. CASE ReadRow(k)
  <2>1. row' = [row EXCEPT ![k] = Cell(k)[1]] /\ column[k] = Cell(k)[2]
    BY <1>5, <1>6, <1>9 DEF ReadRow, Goes, ThreadInv
  <2>2. /\ row' \in [Numbers -> Int] /\ row'[k] = Cell(k)[1]
        /\ \A i \in Numbers : i # k => row'[i] = row[i]
    BY <1>1, <1>3, <2>1
  <2> QED
    BY <1>1, <1>9, <2>1, <2>2, GoesKeeps DEF ReadRow
<1>10. CASE Sum_Cell(k)
  <2>1. <<row[k], column[k]>> = Cell(k)
    BY <1>3, <1>6, <1>10 DEF Sum_Cell, Goes, ThreadInv
  <2> QED
    BY <1>1, <1>3, <1>10, <2>1, GoesKeeps DEF Sum_Cell
<1> QED
  BY <1>7, <1>8, <1>9, <1>10 DEF calculate_Cell

-----------------------------------------------------------------------------

\* Every step of main or of a thread preserves the invariant.
LEMMA MatrixInvStep == MatrixInv /\ [MatrixNext]_matrix_vars => MatrixInv'
<1> SUFFICES ASSUME MatrixInv, [MatrixNext]_matrix_vars PROVE MatrixInv'
  OBVIOUS
<1>1. CASE UNCHANGED matrix_vars
  BY <1>1, SameSizes DEF matrix_vars, thread_vars, MatrixInv, StartInv, RunInv, MatrixTypes, BatchInv,
     SlotInv, ThreadInv, CopyInv, IsJoined, Base
<1>2. CASE ReadFiles
  <2>1. creator' # "start"
    BY <1>2 DEF ReadFiles
  <2> QED
    BY <1>2, <2>1, ReadFilesKeeps DEF MatrixInv
<1>3. CASE CreateThread \/ JoinThread \/ BatchJoined \/ WriteFile
  <2>1. creator # "start"
    BY <1>3 DEF CreateThread, JoinThread, BatchJoined, WriteFile
  <2>2. RunInv'
    BY <1>3, <2>1, CreateThreadKeeps, JoinThreadKeeps, BatchJoinedKeeps, WriteFileKeeps DEF MatrixInv
  <2> QED
    BY <2>2 DEF MatrixInv, RunInv, MatrixTypes
<1>4. CASE \E k \in DOMAIN worker : calculate_Cell(k)
  <2>1. PICK k \in DOMAIN worker : calculate_Cell(k)
    BY <1>4
  <2>2. creator # "start"
    BY <2>1 DEF calculate_Cell, Zero, ReadColumn, ReadRow, Sum_Cell, Goes
  <2>3. RunInv /\ k \in Numbers
    BY <2>1, <2>2 DEF MatrixInv, RunInv, MatrixTypes
  <2>4. RunInv'
    BY <2>1, <2>3, CalculateCellKeeps
  <2> QED
    BY <2>4 DEF MatrixInv, RunInv, MatrixTypes
<1> QED
  BY <1>1, <1>2, <1>3, <1>4 DEF MatrixNext

\* Nothing has been read.
LEMMA MatrixInvInit == MatrixInit => MatrixInv
  BY DEF MatrixInit, MatrixInv, StartInv

\* In every state of the program the invariant holds.
THEOREM MatrixInvariant == MatrixSpec => []MatrixInv
  BY MatrixInvInit, MatrixInvStep, PTL DEF MatrixSpec

\* The invariant keeps the records private.
LEMMA PrivateSlots == MatrixInv => SlotsPrivate
<1> SUFFICES ASSUME MatrixInv PROVE SlotsPrivate
  OBVIOUS
<1>1. CASE creator = "start"
  BY <1>1 DEF MatrixInv, StartInv, SlotsPrivate, MatrixTypeOK, final_Val
<1>2. CASE creator # "start"
  <2> USE <1>2 DEF MatrixInv
  <2>1. MatrixTypeOK
    BY DEF RunInv, MatrixTypes, MatrixTypeOK, States
  <2>2. ASSUME NEW k \in DOMAIN worker, worker[k] \notin {"none", "ended"}
        PROVE  <<md[slot[k]].x, md[slot[k]].y>> = Cell(k)
    <3>1. k \in Numbers
      BY DEF RunInv, MatrixTypes
    <3> QED
      BY <2>2, <3>1, OwnSlot DEF SlotInv
  <2>3. ASSUME NEW s \in 0 .. t_C - 1, worker[threads[s]] = "ended"
        PROVE  md[s].output = Cell(threads[s])
    BY <2>3 DEF RunInv, SlotInv
  <2> QED
    BY <2>1, <2>2, <2>3 DEF SlotsPrivate
<1> QED
  BY <1>1, <1>2

\* The invariant makes the cells of whole batches right.
LEMMA CopiedBatches == MatrixInv => BatchesCopied
<1> SUFFICES ASSUME MatrixInv PROVE BatchesCopied
  OBVIOUS
<1>1. CASE creator = "start"
  BY <1>1 DEF MatrixInv, StartInv, BatchesCopied
<1>2. CASE creator # "start"
  <2> USE <1>2, RunFacts DEF MatrixInv
  <2>1. ASSUME NEW c \in DOMAIN Matrix_C PROVE Matrix_C[c] \in {c, Blank}
    <3>1. PICK k \in Numbers : c = Cell(k)
      BY DEF RunInv, MatrixTypes, Product
    <3> QED
      BY <3>1 DEF RunInv, CopyInv
  <2>2. ASSUME creator = "written", NEW k \in Numbers
        PROVE  k < final_Val - (final_Val % BatchSize) => Matrix_C[Cell(k)] = Cell(k)
    <3>1. final_Val = Base + t_C /\ t_C \in 0 .. BatchSize - 1 /\ Base % BatchSize = 0
      BY <2>2 DEF RunInv, BatchInv, Base
    <3>2. PICK q \in Nat, r \in 0 .. BatchSize - 1 : Base = BatchSize * q + r /\ r = 0
      BY <3>1, DivMod
    <3>3. (BatchSize * q + t_C) % BatchSize = t_C
      BY <3>1, ModUnique
    <3>4. final_Val % BatchSize = t_C
      BY <3>1, <3>2, <3>3
    <3>5. IsJoined(k) <=> k < Base
      BY <2>2 DEF IsJoined
    <3>6. Matrix_C[Cell(k)] = Blank <=> ~(k < Base)
      BY <3>5 DEF RunInv, CopyInv
    <3>7. k \in Nat /\ Base \in Nat /\ final_Val \in Nat /\ t_C \in Nat
      OBVIOUS
    <3>8. k < final_Val - (final_Val % BatchSize) <=> k < Base
      BY ONLY <3>1, <3>4, <3>7
    <3>9. Cell(k) \in DOMAIN Matrix_C
      BY <2>2 DEF RunInv, MatrixTypes, Product
    <3>10. Matrix_C[Cell(k)] \in {Cell(k), Blank}
      BY <2>1, <3>9
    <3> QED
      BY <3>6, <3>8, <3>10
  <2> QED
    BY <2>1, <2>2 DEF BatchesCopied
<1> QED
  BY <1>1, <1>2

\* Whatever the size of the matrices and the number of records, no record is given away
\* while its thread runs or its output waits.
THEOREM RecordsPrivate == MatrixSpec => []SlotsPrivate
  BY MatrixInvariant, PrivateSlots, PTL

\* Every cell that is copied has the output of its own thread, and no cell of a whole
\* batch is missing in the file, whatever the sizes.
THEOREM WholeBatchesCopied == MatrixSpec => []BatchesCopied
  BY MatrixInvariant, CopiedBatches, PTL
-----------------------------------------------------------------------------
(* The steps of the threads that sort. *)

\* The steps on the cells lo .. hi - 1.
StepsIn(lo, hi) ==
  {w \in [do : {"merge", "copy"}, begin : Int, mid : Int, end : Int] : lo <= w.begin /\ w.end <= hi}

\* The pairs of cells subsort recurs on.
Spans(begin, end) == (begin .. end) \X (begin .. end)

\* What subsort makes of a span, if f is what it makes of shorter ones.
Merges(f, s) ==
  IF s[2] - s[1] < 2 THEN <<>>
  ELSE f[<<s[1], (s[1] + s[2]) \div 2>>] \o f[<<(s[1] + s[2]) \div 2, s[2]>>]
       \o MergeAndCopy(s[1], (s[1] + s[2]) \div 2, s[2])

\* The halves of a span are shorter spans.
LEMMA Halves ==
  ASSUME NEW begin \in Nat, NEW end \in Nat, NEW s \in Spans(begin, end), s[2] - s[1] >= 2
  PROVE  LET mid == (s[1] + s[2]) \div 2
         IN  /\ mid \in Nat /\ s[1] < mid /\ mid < s[2]
             /\ <<s[1], mid>> \in Spans(begin, end) /\ <<mid, s[2]>> \in Spans(begin, end)
<1> DEFINE mid == (s[1] + s[2]) \div 2
<1>1. s[1] \in begin .. end /\ s[2] \in begin .. end
  BY DEF Spans
<1>2. mid \in Nat /\ s[1] < mid /\ mid < s[2]
  BY <1>1
<1> HIDE DEF mid
<1>3. mid \in begin .. end
  BY <1>1, <1>2
<1> QED
  BY <1>1, <1>2, <1>3 DEF Spans, mid

\* The recursion of subsort ends: there is a function that is as its definition says.
LEMMA MergesExist ==
  ASSUME NEW begin \in Nat, NEW end \in Nat
  PROVE  \E f : f = [s \in Spans(begin, end) |-> Merges(f, s)]
<1> DEFINE S == Spans(begin, end)
           Upto(f, n) == \A s \in S : s[2] - s[1] <= n => f[s] = Merges(f, s)
           Fails == {n \in Nat : ~ \E f : f = [s \in S |-> f[s]] /\ Upto(f, n)}
<1>0. ASSUME NEW s \in S PROVE s[2] - s[1] \in Int /\ s[2] - s[1] <= end
  BY DEF Spans
<1>1. 0 \notin Fails
  <2> DEFINE f == [s \in S |-> <<>>]
  <2>1. f = [s \in S |-> f[s]]
    OBVIOUS
  <2>2. ASSUME NEW s \in S, s[2] - s[1] <= 0 PROVE f[s] = Merges(f, s)
    <3>1. s[2] - s[1] < 2
      BY <1>0, <2>2
    <3> QED
      BY <3>1 DEF Merges
  <2> QED
    BY <2>1, <2>2
<1>2. ASSUME NEW n \in Nat, n \notin Fails PROVE n + 1 \notin Fails
  <2>1. PICK f : f = [s \in S |-> f[s]] /\ Upto(f, n)
    BY <1>2
  <2> DEFINE g == [s \in S |-> Merges(f, s)]
  <2>2. ASSUME NEW s \in S, s[2] - s[1] <= n PROVE g[s] = f[s]
    BY <2>1, <2>2
  <2>3. ASSUME NEW s \in S, s[2] - s[1] <= n + 1 PROVE g[s] = Merges(g, s)
    <3>1. CASE s[2] - s[1] < 2
      BY <3>1 DEF Merges
    <3>2. CASE s[2] - s[1] >= 2
      <4> DEFINE mid == (s[1] + s[2]) \div 2
                 l == <<s[1], mid>>
                 r == <<mid, s[2]>>
      <4>1. s[1] \in Nat /\ s[2] \in Nat
        BY DEF Spans
      <4>2. mid \in Nat /\ s[1] < mid /\ mid < s[2] /\ l \in S /\ r \in S
        BY <3>2, Halves
      <4> HIDE DEF mid, g
      <4>3. l[2] - l[1] <= n /\ r[2] - r[1] <= n
        BY <2>3, <4>1, <4>2
      <4>4. g[l] = f[l] /\ g[r] = f[r]
        BY <2>2, <4>2, <4>3
      <4>5. Merges(g, s) = Merges(f, s)
        BY <4>4 DEF Merges, mid
      <4> QED
        BY <4>5 DEF g
    <3> QED
      BY <1>0, <3>1, <3>2
  <2>4. g = [s \in S |-> g[s]] /\ Upto(g, n + 1)
    BY <2>3
  <2> QED
    BY <2>4
<1> HIDE DEF Fails
<1>3. Fails = {}
  <2>1. Fails \in SUBSET Nat
    BY DEF Fails
  <2>2. SUFFICES ASSUME Fails # {} PROVE FALSE
    OBVIOUS
  <2>3. PICK n \in Fails : \A m \in Fails : n <= m
    BY <2>1, <2>2, LeastElement
  <2>4. n # 0 /\ n \in Nat
    BY <1>1, <2>1
  <2>5. n - 1 \in Nat /\ n - 1 \notin Fails /\ (n - 1) + 1 = n
    BY <2>1, <2>3, <2>4
  <2> QED
    BY <1>2, <2>3, <2>5
<1>4. PICK f : f = [s \in S |-> f[s]] /\ Upto(f, end)
  BY <1>3 DEF Fails
<1>5. \A s \in S : f[s] = Merges(f, s)
  BY <1>0, <1>4
<1>6. f = [s \in S |-> Merges(f, s)]
  BY <1>4, <1>5
<1> QED
  BY <1>6

\* A sequence of steps on some cells is one of steps on more cells.
LEMMA StepsWiden ==
  ASSUME NEW lo \in Int, NEW hi \in Int, NEW lo2 \in Int, NEW hi2 \in Int,
         lo2 <= lo, hi <= hi2
  PROVE  Seq(StepsIn(lo, hi)) \subseteq Seq(StepsIn(lo2, hi2))
<1>1. StepsIn(lo, hi) \subseteq StepsIn(lo2, hi2)
  BY DEF StepsIn
<1> QED
  BY <1>1

\* A merge and the copy after it are steps on the cells merged.
LEMMA MergeAndCopyIs ==
  ASSUME NEW begin \in Int, NEW mid \in Int, NEW end \in Int
  PROVE  MergeAndCopy(begin, mid, end) \in Seq(StepsIn(begin, end))
<1>1. Do("merge", begin, mid, end) \in StepsIn(begin, end)
  BY DEF Do, StepsIn
<1>2. Do("copy", begin, mid, end) \in StepsIn(begin, end)
  BY DEF Do, StepsIn
<1> QED
  BY <1>1, <1>2 DEF MergeAndCopy

\* Whatever it is cut into, subsort works on the cells it is given.
LEMMA SubsortIs ==
  ASSUME NEW begin \in Nat, NEW end \in Nat, begin <= end
  PROVE  subsort(begin, end) \in Seq(StepsIn(begin, end))
<1> DEFINE S == Spans(begin, end)
           merges == CHOOSE f : f = [s \in S |-> Merges(f, s)]
           Fails == {n \in Nat : ~ \A s \in S : s[2] - s[1] <= n => merges[s] \in Seq(StepsIn(s[1], s[2]))}
<1>1. merges = [s \in S |-> Merges(merges, s)]
  BY MergesExist
<1>2. subsort(begin, end) = merges[<<begin, end>>]
  BY DEF subsort, Merges, Spans
<1> HIDE DEF merges
<1>3. ASSUME NEW s \in S
      PROVE  s[1] \in Nat /\ s[2] \in Nat /\ s[2] - s[1] <= end /\ merges[s] = Merges(merges, s)
  BY <1>1 DEF Spans
<1>4. Fails \in SUBSET Nat
  OBVIOUS
<1>5. ASSUME NEW n \in Nat, \A m \in Nat : m < n => m \notin Fails PROVE n \notin Fails
  <2>1. SUFFICES ASSUME NEW s \in S, s[2] - s[1] <= n
                 PROVE  merges[s] \in Seq(StepsIn(s[1], s[2]))
    OBVIOUS
  <2>2. CASE s[2] - s[1] < 2
    <3>1. merges[s] = <<>>
      BY <1>3, <2>2 DEF Merges
    <3> QED
      BY <3>1
  <2>3. CASE s[2] - s[1] >= 2
    <3> DEFINE mid == (s[1] + s[2]) \div 2
               l == <<s[1], mid>>
               r == <<mid, s[2]>>
    <3>1. s[1] \in Nat /\ s[2] \in Nat
      BY <1>3
    <3>2. mid \in Nat /\ s[1] < mid /\ mid < s[2] /\ l \in S /\ r \in S
      BY <2>3, Halves
    <3>3. merges[s] = merges[l] \o merges[r] \o MergeAndCopy(s[1], mid, s[2])
      <4>1. ~(s[2] - s[1] < 2) /\ merges[s] = Merges(merges, s)
        BY <1>3, <2>3
      <4> QED
        BY <4>1, Zenon DEF Merges
    <3> HIDE DEF mid
    <3>4. n - 1 \in Nat /\ n - 1 < n /\ n - 1 \notin Fails
      BY <1>5, <2>1, <2>3, <3>1
    <3>5. l[2] - l[1] <= n - 1 /\ r[2] - r[1] <= n - 1
      BY <2>1, <3>1, <3>2
    <3>6. merges[l] \in Seq(StepsIn(s[1], mid)) /\ merges[r] \in Seq(StepsIn(mid, s[2]))
      BY <3>2, <3>4, <3>5
    <3> DEFINE A == StepsIn(s[1], s[2])
    <3>7. s[1] \in Int /\ s[2] \in Int /\ mid \in Int /\ s[1] <= mid /\ mid <= s[2]
      BY <3>1, <3>2
    <3>8. s[1] <= s[1] /\ s[2] <= s[2]
      BY <3>7
    <3>9. merges[l] \in Seq(A) /\ merges[r] \in Seq(A)
      <4>1. Seq(StepsIn(s[1], mid)) \subseteq Seq(A)
        BY <3>7, <3>8, StepsWiden
      <4>2. Seq(StepsIn(mid, s[2])) \subseteq Seq(A)
        BY <3>7, <3>8, StepsWiden
      <4> QED
        BY <3>6, <4>1, <4>2
    <3>10. MergeAndCopy(s[1], mid, s[2]) \in Seq(A)
      BY <3>7, MergeAndCopyIs
    <3> HIDE DEF A, l, r
    <3>11. merges[s] \in Seq(A)
      BY <3>3, <3>9, <3>10, ConcatProperties
    <3> QED
      BY <3>11 DEF A
  <2> QED
    BY <1>3, <2>2, <2>3
<1>6. Fails = {}
  <2>1. SUFFICES ASSUME Fails # {} PROVE FALSE
    OBVIOUS
  <2>2. PICK n \in Fails : \A m \in Fails : n <= m
    BY <1>4, <2>1, LeastElement
  <2> QED
    BY <1>4, <1>5, <2>2
<1>7. <<begin, end>> \in S /\ end - begin \in Nat
  BY DEF Spans
<1>8. merges[<<begin, end>>] \in Seq(StepsIn(begin, end))
  BY <1>6, <1>7
<1> QED
  BY <1>2, <1>8

-----------------------------------------------------------------------------
(* The invariant of the statistics. *)

Sorting == our_main = "join" /\ stat = "sort"

\* Every thread that sorts keeps to the cells of its block.
StatsInv ==
  /\ StatsTypeOK
  /\ our_main = "join" /\ stat # "sort" => DOMAIN found = Blocks
  /\ Sorting => \A i \in Blocks : work[i] \in Seq(StepsIn(Start(i), End(i) + 1))

\* Where the blocks are.
LEMMA BlockType ==
  StatsTypeOK => /\ Width \in Nat /\ size \in Nat /\ running \in Nat
                 /\ \A i \in Nat : Start(i) \in Nat /\ End(i) \in Int /\ Mid(i) \in Int
<1> SUFFICES ASSUME StatsTypeOK
             PROVE  /\ Width \in Nat /\ size \in Nat /\ running \in Nat
                    /\ \A i \in Nat : Start(i) \in Nat /\ End(i) \in Int /\ Mid(i) \in Int
  OBVIOUS
<1>1. block \in Nat /\ size \in Nat /\ running \in Nat
  BY StatsAssumption DEF StatsTypeOK, findMinBlocksize
<1>2. 2 ^ level \in Nat
  BY Power DEF StatsTypeOK
<1>3. Width \in Nat
  BY <1>1, <1>2 DEF Width
<1> QED
  BY <1>1, <1>3 DEF Start, End, Mid

\* Where they are after a step.
LEMMA BlockTypeNext ==
  StatsTypeOK' => (/\ Width \in Nat /\ size \in Nat /\ running \in Nat
                   /\ \A i \in Nat : Start(i) \in Nat /\ End(i) \in Int /\ Mid(i) \in Int)'
BY BlockType, PTL

\* No program runs yet.
LEMMA StatsInvInit == StatsInit => StatsInv
<1> SUFFICES ASSUME StatsInit PROVE StatsInv
  OBVIOUS
<1>1. 0 \in Values /\ size \in 0 .. MaxSize /\ block \in findMinBlocksize
  BY StatsAssumption DEF StatsInit, Values, findMinBlocksize
<1>2. running \in 0 .. MaxSize + 1 /\ level \in Nat
  BY StatsAssumption DEF StatsInit
<1> QED
  BY <1>1, <1>2 DEF StatsInit, StatsInv, StatsTypeOK, Operations, Sorting

\* main starts the threads that sort their blocks or search them.
LEMMA InitStatsKeeps == StatsInv /\ InitStats => StatsInv'
<1> SUFFICES ASSUME StatsInv, InitStats PROVE StatsInv'
  OBVIOUS
<1>1. PICK b \in Nat \ {0} : b = block'
  BY StatsAssumption DEF InitStats, findMinBlocksize
<1>2. /\ size \in Nat /\ size <= MaxSize /\ size' = size /\ MaxSize \in Nat
      /\ level' = 0 /\ b \in findMinBlocksize
  BY <1>1, StatsAssumption DEF InitStats, StatsInv, StatsTypeOK
<1>3. PICK q \in Nat : q = size \div b /\ q <= size
  BY <1>2, Quotient
<1>4. running' = q + 1
  BY <1>1, <1>3, Zenon DEF InitStats
<1>5. running' \in 0 .. MaxSize + 1
  BY <1>2, <1>3, <1>4
<1>6. StatsTypeOK'
  <2>1. /\ our_main' = "join" /\ op' = op /\ stat' = stat /\ target' = target
        /\ DOMAIN work' = 0 .. running' - 1
    BY Zenon DEF InitStats
  <2> QED
    BY <1>1, <1>2, <1>5, <2>1 DEF StatsInv, StatsTypeOK, Blocks
<1>7. ASSUME stat = "sort", NEW i \in Blocks'
      PROVE  work'[i] \in Seq(StepsIn(Start(i), End(i) + 1))'
  <2>1. i \in Nat /\ i <= q
    BY <1>3, <1>4 DEF Blocks
  <2>2. i * b \in Nat /\ i * b <= size /\ (i + 1) * b = i * b + b
    BY <1>2, <1>3, <2>1, BlockWithin
  <2>3. Width' = b
    <3>1. 2 ^ level' = 1
      BY <1>2
    <3>2. b * 2 ^ level' = b * 1
      BY <3>1, Zenon
    <3>3. b * 1 = b
      OBVIOUS
    <3> QED
      BY <1>1, <3>2, <3>3, Zenon DEF Width
  <2>4. Start(i)' \in Nat /\ End(i)' + 1 \in Nat /\ Start(i)' <= End(i)' + 1
    <3>1. Start(i)' = i * b
      BY <2>3, Zenon DEF Start
    <3>2. End(i)' = IF (i + 1) * b - 1 > size THEN size ELSE (i + 1) * b - 1
      BY <1>2, <2>3, Zenon DEF End
    <3> QED
      BY <1>2, <2>2, <3>1, <3>2
  <2>5. work'[i] = subsort(Start(i)', End(i)' + 1)
    BY <1>7 DEF InitStats, Blocks
  <2>6. subsort(Start(i)', End(i)' + 1) \in Seq(StepsIn(Start(i)', End(i)' + 1))
    BY <2>4, SubsortIs
  <2> QED
    BY <2>5, <2>6 DEF StepsIn
<1> QED
  BY <1>6, <1>7 DEF InitStats, StatsInv, Sorting, Blocks

\* A thread has searched its block.
LEMMA SearchKeeps == ASSUME StatsInv, NEW i \in Blocks, Search(i) PROVE StatsInv'
BY DEF StatsInv, StatsTypeOK, Search, Sorting, Blocks

\* A thread has made a step of its own.
LEMMA SortKeeps == ASSUME StatsInv, NEW i \in Blocks, Sort(i) PROVE StatsInv'
<1>1. /\ our_main' = our_main /\ stat' = stat /\ size' = size /\ running' = running /\ found' = found
      /\ level' = level /\ block' = block /\ work' = [work EXCEPT ![i] = Tail(@)]
      /\ op' = op /\ target' = target
      /\ Sorting /\ work[i] # <<>>
  BY DEF Sort, Sorting
<1>2. StatsTypeOK'
  BY <1>1 DEF StatsInv, StatsTypeOK, Blocks
<1>3. ASSUME NEW k \in Blocks
      PROVE  work'[k] \in Seq(StepsIn(Start(k), End(k) + 1))
  <2>1. PICK A : A = StepsIn(Start(k), End(k) + 1)
    OBVIOUS
  <2>2. SUFFICES work'[k] \in Seq(A)
    BY <2>1
  <2>3. work[k] \in Seq(A) /\ k \in DOMAIN work
    BY <1>1, <2>1 DEF StatsInv, StatsTypeOK, Sorting
  <2>4. CASE k = i
    <3>1. work'[k] = Tail(work[k]) /\ work[k] # <<>>
      BY <1>1, <2>3, <2>4
    <3> QED
      BY <2>3, <3>1, HeadTailProperties
  <2>5. CASE k # i
    BY <1>1, <2>3, <2>5
  <2> QED
    BY <2>4, <2>5
<1>4. \A k : Start(k)' = Start(k) /\ End(k)' = End(k)
  BY <1>1 DEF Start, End, Width
<1> QED
  BY <1>1, <1>2, <1>3, <1>4 DEF StatsInv, Sorting, Blocks, StepsIn

\* The threads of the next round merge two blocks each.
LEMMA NextRoundKeeps == StatsInv /\ NextRound => StatsInv'
<1> SUFFICES ASSUME StatsInv, NextRound PROVE StatsInv'
  OBVIOUS
<1>1. running \in Nat /\ running <= MaxSize + 1 /\ MaxSize \in Nat
  BY StatsAssumption DEF StatsInv, StatsTypeOK
<1>2. running' \in 0 .. MaxSize + 1
  BY <1>1 DEF NextRound
<1>3. StatsTypeOK'
  BY <1>2 DEF NextRound, StatsInv, StatsTypeOK, Blocks, Joined
<1>4. ASSUME NEW i \in Blocks'
      PROVE  work'[i] \in Seq(StepsIn(Start(i), End(i) + 1))'
  <2>1. i \in Nat
    BY <1>2 DEF Blocks
  <2>2. Start(i)' \in Nat /\ End(i)' \in Int /\ Mid(i)' \in Int
    BY <1>3, <2>1, BlockTypeNext
  <2>3. work'[i] = MergeAndCopy(Start(i)', Mid(i)', End(i)' + 1)
    BY DEF NextRound, Blocks
  <2>4. work'[i] \in Seq(StepsIn(Start(i)', End(i)' + 1))
    BY <2>2, <2>3, MergeAndCopyIs
  <2> QED
    BY <2>4 DEF StepsIn
<1> QED
  BY <1>3, <1>4 DEF NextRound, StatsInv, Sorting, Blocks, Joined

\* Every step of main or of a thread preserves the invariant.
LEMMA StatsInvStep == StatsInv /\ [StatsNext]_stats_vars => StatsInv'
<1> SUFFICES ASSUME StatsInv, [StatsNext]_stats_vars PROVE StatsInv'
  OBVIOUS
<1>1. CASE UNCHANGED stats_vars
  <2>1. \A k : Start(k)' = Start(k) /\ End(k)' = End(k)
    BY <1>1 DEF stats_vars, Start, End, Width
  <2> QED
    BY <1>1, <2>1 DEF stats_vars, StatsInv, StatsTypeOK, Sorting, Blocks, StepsIn
<1>2. CASE FinalMain
  <2>1. 0 \in Values
    BY StatsAssumption DEF Values
  <2>2. op' \in Operations /\ target' \in Values /\ stat' \in Operations \ {"med"}
    BY <1>2, <2>1 DEF FinalMain, Operations
  <2> QED
    BY <1>2, <2>2 DEF FinalMain, StatsInv, StatsTypeOK, Sorting
<1>3. CASE InitStats
  BY <1>3, InitStatsKeeps
<1>4. CASE Combine
  BY <1>4 DEF Combine, Joined, StatsInv, StatsTypeOK, Sorting, Blocks
<1>5. CASE NextRound
  BY <1>5, NextRoundKeeps
<1>6. CASE Sorted
  BY <1>6 DEF Sorted, Joined, StatsInv, StatsTypeOK, Sorting, Blocks
<1>7. CASE \E i \in Blocks : Search(i) \/ Sort(i)
  BY <1>7, SearchKeeps, SortKeeps
<1> QED
  BY <1>1, <1>2, <1>3, <1>4, <1>5, <1>6, <1>7 DEF StatsNext

\* In every state of the program the invariant holds.
THEOREM StatsInvariant == StatsSpec => []StatsInv
  BY StatsInvInit, StatsInvStep, PTL DEF StatsSpec

\* Blocks have no cell in common, and so neither have the steps on them.
LEMMA ApartBlocks == StatsInv => MergesApart
<1> SUFFICES ASSUME StatsInv PROVE MergesApart
  OBVIOUS
<1>1. StatsTypeOK
  BY DEF StatsInv
<1>2. Width \in Nat /\ size \in Nat /\ running \in Nat
  BY <1>1, BlockType
<1>3. SUFFICES ASSUME Sorting, NEW i \in Blocks, NEW j \in Blocks,
                      NEW v \in ToSet(work[i]), NEW w \in ToSet(work[j])
               PROVE  /\ 0 <= v.begin /\ v.end <= size + 1
                      /\ i # j => v.end <= w.begin \/ w.end <= v.begin
  BY <1>1 DEF MergesApart, Sorting
<1>4. i \in Nat /\ j \in Nat
  BY <1>2 DEF Blocks
<1>5. ASSUME NEW k \in Blocks, NEW s \in ToSet(work[k])
      PROVE  s.begin \in Int /\ s.end \in Int /\ Start(k) <= s.begin /\ s.end <= End(k) + 1
  <2> DEFINE A == StepsIn(Start(k), End(k) + 1)
  <2>1. work[k] \in Seq(A)
    BY <1>3 DEF StatsInv
  <2> HIDE DEF A
  <2>2. s \in A
    BY <2>1 DEF ToSet
  <2> QED
    BY <2>2 DEF A, StepsIn
<1>6. ASSUME NEW k \in Nat
      PROVE  /\ Start(k) \in Nat /\ End(k) \in Int
             /\ End(k) + 1 <= size + 1 /\ End(k) + 1 <= Start(k + 1)
  BY <1>2 DEF Start, End
<1>7. ASSUME NEW k \in Nat, NEW l \in Nat, k < l PROVE End(k) + 1 <= Start(l)
  <2>1. (k + 1) * Width <= l * Width
    BY <1>2, <1>7
  <2> QED
    BY <1>2, <1>6, <2>1 DEF Start
<1>8. 0 <= v.begin /\ v.end <= size + 1
  BY <1>2, <1>4, <1>5, <1>6
<1>9. ASSUME i # j PROVE v.end <= w.begin \/ w.end <= v.begin
  <2>1. CASE i < j
    <3>1. v.end <= End(i) + 1 /\ End(i) + 1 <= Start(j) /\ Start(j) <= w.begin
      BY <1>4, <1>5, <1>7, <2>1
    <3> QED
      BY <1>4, <1>5, <1>6, <3>1
  <2>2. CASE j < i
    <3>1. w.end <= End(j) + 1 /\ End(j) + 1 <= Start(i) /\ Start(i) <= v.begin
      BY <1>4, <1>5, <1>7, <2>2
    <3> QED
      BY <1>4, <1>5, <1>6, <3>1
  <2> QED
    BY <1>4, <1>9, <2>1, <2>2
<1> QED
  BY <1>8, <1>9

\* Whatever the size of the array and of the blocks, threads that run at the same time
\* sort and merge cells of their own, and none past the cell size.
THEOREM BlocksAreApart == StatsSpec => []MergesApart
  BY StatsInvariant, ApartBlocks, PTL

-----------------------------------------------------------------------------
(* What sorting is. *)

\* The cells lo .. hi - 1 are in order.
InOrder(a, lo, hi) == \A c, d \in lo .. hi - 1 : c <= d => a[c] <= a[d]

\* They hold what the same cells of y hold, in another order.
Shuffled(x, y, lo, hi) ==
  \E p \in Bijection(lo .. hi - 1, lo .. hi - 1) : \A c \in lo .. hi - 1 : x[c] = y[p[c]]

-----------------------------------------------------------------------------
(* What a thread has still to do. *)

Least(x, y) == IF x <= y THEN x ELSE y

\* The two blocks a step merges; the right one may be empty, and the left one cut.
HalvesOf(w) == {<<w.begin, Least(w.mid, w.end)>>, <<w.mid, w.end>>}

\* The step does not touch the cells of h.
Apart(w, h) == w.end <= h[1] \/ h[2] <= w.begin

Copies(w, h) == w.do = "copy" /\ w.begin = h[1] /\ w.end = h[2]

\* The cells of h will be in order before step k: they are left alone once a step has
\* copied them.
MadeReady(w, k, h) ==
  \/ h[2] - h[1] < 2
  \/ \E j \in 1 .. k - 1 : Copies(w[j], h) /\ \A l \in j + 1 .. k - 1 : Apart(w[l], h)

\* Or they are in order now, and are left alone from now on.
IsReady(w, a, k, h) == InOrder(a, h[1], h[2]) /\ \A l \in 1 .. k - 1 : Apart(w[l], h)

\* Each merge finds its halves in order.
Prepared(w, a) ==
  \A k \in 1 .. Len(w) : w[k].do = "merge" =>
    \A h \in HalvesOf(w[k]) : MadeReady(w, k, h) \/ IsReady(w, a, k, h)

\* arr2 holds the cells that are to be copied.
Pending(s, a, a2) == InOrder(a2, s.begin, s.end) /\ Shuffled(a2, a, s.begin, s.end)

SameSpan(v, w) == v.begin = w.begin /\ v.end = w.end

\* Each copy comes after its merge, or its merge has been made.
Paired(w, a, a2) ==
  \A k \in 1 .. Len(w) : w[k].do = "copy" =>
    IF k = 1 THEN Pending(w[1], a, a2) ELSE w[k - 1].do = "merge" /\ SameSpan(w[k - 1], w[k])

\* The last step leaves the cells lo .. hi - 1 in order, or they are.
Ends(w, lo, hi, a) ==
  IF w = <<>> THEN InOrder(a, lo, hi) ELSE Copies(w[Len(w)], <<lo, hi>>)

\* The steps on the cells lo .. hi - 1.
PlanSteps(lo, hi) ==
  {w \in [do : {"merge", "copy"}, begin : Int, mid : Int, end : Int] :
     lo <= w.begin /\ w.begin <= w.mid /\ w.begin <= w.end /\ w.end <= hi}

Plan(w, lo, hi, a, a2) ==
  /\ w \in Seq(PlanSteps(lo, hi))
  /\ Prepared(w, a)
  /\ Paired(w, a, a2)
  /\ Ends(w, lo, hi, a)

\* The steps are so from the beginning, whatever the cells hold.
Planned(w, lo, hi) ==
  /\ w \in Seq(PlanSteps(lo, hi))
  /\ \A k \in 1 .. Len(w) : w[k].do = "merge" => \A h \in HalvesOf(w[k]) : MadeReady(w, k, h)
  /\ \A k \in 1 .. Len(w) : w[k].do = "copy" =>
       k > 1 /\ w[k - 1].do = "merge" /\ SameSpan(w[k - 1], w[k])
  /\ IF hi - lo < 2 THEN w = <<>> ELSE w # <<>> /\ Copies(w[Len(w)], <<lo, hi>>)

\* r blocks of w cells make up the cells 0 .. n.
CoverOf(w, n, r) == w \in Nat /\ n \in Nat /\ r \in Nat /\ r >= 1 /\ (r - 1) * w <= n /\ n < r * w

\* The array holds what was given, in some order; the blocks make it up, and each thread
\* has a plan for its own.
SortInv ==
  /\ StatsInv
  /\ our_main # "start" => /\ arr \in [0 .. size -> Values] /\ given \in [0 .. size -> Values]
                       /\ Shuffled(arr, given, 0, size + 1)
  /\ Sorting => /\ DOMAIN arr2 = 0 .. size
                /\ CoverOf(Width, size, running)
                /\ \A i \in Blocks : Plan(work[i], Start(i), End(i) + 1, arr, arr2)
  /\ stat = "sort" /\ our_main \in {"done", "aborted"} => InOrder(arr, 0, size + 1)

\* What holds at 0 and of every number if it holds of the one before.
LEMMA UpTo ==
  ASSUME NEW n \in Nat, NEW S, 0 \in S, \A k \in 1 .. n : k - 1 \in S => k \in S
  PROVE  n \in S
<1>. DEFINE Fails == {k \in 0 .. n : k \notin S}
<1>1. SUFFICES ASSUME n \notin S  PROVE FALSE  OBVIOUS
<1>2. Fails \in SUBSET Nat /\ Fails # {}  BY <1>1
<1>3. PICK m \in Fails : \A k \in Fails : m <= k
  <2>. HIDE DEF Fails
  <2>. QED  BY <1>2, LeastElement
<1>4. m \in 1 .. n /\ m - 1 \in 0 .. n  OBVIOUS
<1>5. m - 1 \in S  BY <1>3, <1>4
<1>. QED  BY <1>4, <1>5

-----------------------------------------------------------------------------
(* merge *)

\* The two places after a cell is written.
Pick(a, p, mid, end) == IF TakesLeft(a, p, mid, end) THEN <<p[1] + 1, p[2]>> ELSE <<p[1], p[2] + 1>>

\* f has the two places before each cell.
Picked(f, a, begin, mid, end) ==
  /\ f[begin] = <<begin, mid>>
  /\ \A i \in begin + 1 .. end : f[i] = Pick(a, f[i - 1], mid, end)

\* Where the cell i comes from.
Source(f, a, mid, end, i) == IF TakesLeft(a, f[i], mid, end) THEN f[i][1] ELSE f[i][2]

PickLoop(f, a, b, m, e) ==
  f = [i \in b .. e |-> IF i = b THEN <<b, m>> ELSE Pick(a, f[i - 1], m, e)]

\* The loop of merge has a result, from each cell to the next.
LEMMA PicksExist ==
  ASSUME NEW a, NEW b \in Int, NEW m, NEW e \in Int, b <= e
  PROVE  \E f : PickLoop(f, a, b, m, e)
<1>. DEFINE At(f, i) == IF i = b THEN <<b, m>> ELSE Pick(a, f[i - 1], m, e)
            Done == {n \in Nat : \E f : f = [i \in b .. b + n |-> At(f, i)]}
<1>1. 0 \in Done
  <2>. DEFINE f == [i \in b .. b + 0 |-> <<b, m>>]
  <2>1. f = [i \in b .. b + 0 |-> At(f, i)]  OBVIOUS
  <2>. HIDE DEF f
  <2>. QED  BY <2>1
<1>2. ASSUME NEW n \in 1 .. e - b, n - 1 \in Done  PROVE n \in Done
  <2>1. PICK f : f = [i \in b .. b + (n - 1) |-> At(f, i)]  BY <1>2
  <2>. DEFINE h == [i \in b .. b + n |-> IF i = b + n THEN Pick(a, f[i - 1], m, e) ELSE f[i]]
  <2>2. ASSUME NEW i \in b .. b + n  PROVE h[i] = At(h, i)
    <3>0. n \in Nat /\ i \in Int /\ b + n # b  OBVIOUS
    <3>1. CASE i = b
      <4>1. i \in b .. b + (n - 1) /\ i # b + n  BY <3>0, <3>1
      <4>2. h[i] = f[i]  BY <4>1
      <4>3. f[i] = <<b, m>>  BY <2>1, <3>1, <4>1
      <4>. HIDE DEF h
      <4>. QED  BY <3>1, <4>2, <4>3
    <3>2. CASE i # b
      <4>1. i - 1 \in b .. b + n /\ i - 1 \in b .. b + (n - 1) /\ i - 1 # b + n  BY <3>0, <3>2
      <4>2. h[i - 1] = f[i - 1]  BY <4>1
      <4>3. h[i] = Pick(a, f[i - 1], m, e)
        <5>1. CASE i = b + n  BY <5>1
        <5>2. CASE i # b + n
          <6>1. i \in b .. b + (n - 1)  BY <3>0, <5>2
          <6>2. f[i] = Pick(a, f[i - 1], m, e)  BY <2>1, <3>2, <6>1
          <6>. QED  BY <5>2, <6>2
        <5>. QED  BY <5>1, <5>2
      <4>. HIDE DEF h
      <4>. QED  BY <3>2, <4>2, <4>3
    <3>. QED  BY <3>1, <3>2
  <2>3. h = [i \in b .. b + n |-> h[i]]  OBVIOUS
  <2>. HIDE DEF h
  <2>4. h = [i \in b .. b + n |-> At(h, i)]
    <3>. HIDE DEF At
    <3>. QED  BY <2>2, <2>3
  <2>5. n \in Nat  OBVIOUS
  <2>. QED  BY <2>4, <2>5
<1>3. e - b \in Nat /\ b + (e - b) = e  OBVIOUS
<1>4. e - b \in Done
  <2>. HIDE DEF Done
  <2>. QED  BY <1>1, <1>2, <1>3, UpTo
<1>5. PICK f : f = [i \in b .. b + (e - b) |-> At(f, i)]  BY <1>4
<1>6. PickLoop(f, a, b, m, e)  BY <1>3, <1>5 DEF PickLoop
<1>. QED  BY <1>6

\* The cells r, and the places f they come from.
Taken(f, r, a, b, m, e) ==
  Picked(f, a, b, m, e) /\ r = [i \in b .. e - 1 |-> a[Source(f, a, m, e, i)]]

\* Each cell of merge comes from one of the two places.
LEMMA MergePicks ==
  ASSUME NEW a, NEW b \in Int, NEW m, NEW e \in Int, b <= e
  PROVE  \E f : Taken(f, merge(a, b, m, e), a, b, m, e)
<1>. DEFINE Is(f) == PickLoop(f, a, b, m, e)
            from == CHOOSE f : Is(f)
<1>1. \E f : Is(f)  BY PicksExist
<1>2. Is(from)  BY <1>1
<1>3. merge(a, b, m, e) = [i \in b .. e - 1 |-> IF TakesLeft(a, from[i], m, e) THEN a[from[i][1]]
                                                ELSE a[from[i][2]]]
  BY DEF merge, PickLoop, Pick
<1>. HIDE DEF from
<1>4. from[b] = <<b, m>>
  <2>1. b \in b .. e  OBVIOUS
  <2>. QED  BY <1>2, <2>1 DEF PickLoop
<1>5. ASSUME NEW i \in b + 1 .. e  PROVE from[i] = Pick(a, from[i - 1], m, e)
  <2>1. i \in b .. e /\ i # b  OBVIOUS
  <2>. QED  BY <1>2, <2>1 DEF PickLoop
<1>6. Picked(from, a, b, m, e)  BY <1>4, <1>5 DEF Picked
<1>7. merge(a, b, m, e) = [i \in b .. e - 1 |-> a[Source(from, a, m, e, i)]]
  BY <1>3 DEF Source
<1>. QED  BY <1>6, <1>7 DEF Taken

\* The two places before cell i.
PlacesAt(p, b, m, e, i) ==
  /\ p[1] \in Int /\ p[2] \in Int /\ b <= p[1] /\ m <= p[2]
  /\ (p[1] - b) + (p[2] - m) = i - b
  /\ m <= e => p[1] <= m /\ p[2] <= e
  /\ m > e => p[2] = m

\* A step keeps the places within the halves.
LEMMA PickStays ==
  ASSUME NEW a, NEW b \in Int, NEW m \in Int, NEW e \in Int, b <= m,
         NEW i \in Int, i < e, NEW p, PlacesAt(p, b, m, e, i)
  PROVE  /\ PlacesAt(Pick(a, p, m, e), b, m, e, i + 1)
         /\ TakesLeft(a, p, m, e) => p[1] < m /\ p[1] < e
         /\ ~TakesLeft(a, p, m, e) => m <= p[2] /\ p[2] < e
<1>. DEFINE x == p[1]  y == p[2]
<1>1. /\ x \in Int /\ y \in Int /\ b <= x /\ m <= y /\ (x - b) + (y - m) = i - b
      /\ m <= e => x <= m /\ y <= e
      /\ m > e => y = m
  BY DEF PlacesAt
<1>2. TakesLeft(a, p, m, e) <=> x < m /\ (y >= e \/ a[x] <= a[y])  BY DEF TakesLeft
<1>. DEFINE q == Pick(a, p, m, e)
<1>3. CASE TakesLeft(a, p, m, e)
  <2>1. q = <<x + 1, y>>  BY <1>3 DEF Pick
  <2>2. x < m /\ x < e  BY <1>1, <1>2, <1>3
  <2>. HIDE DEF x, y
  <2>3. q[1] = x + 1 /\ q[2] = y  BY <2>1
  <2>. HIDE DEF q
  <2>4. PlacesAt(q, b, m, e, i + 1)  BY <1>1, <2>2, <2>3 DEF PlacesAt
  <2>. QED  BY <1>3, <2>2, <2>4 DEF q, x, y
<1>4. CASE ~TakesLeft(a, p, m, e)
  <2>1. q = <<x, y + 1>>  BY <1>4 DEF Pick
  <2>2. ~(x < m) \/ ~(y >= e)  BY <1>2, <1>4
  <2>. HIDE DEF x, y
  <2>3. y < e  BY <1>1, <2>2
  <2>4. q[1] = x /\ q[2] = y + 1  BY <2>1
  <2>. HIDE DEF q
  <2>5. PlacesAt(q, b, m, e, i + 1)  BY <1>1, <2>3, <2>4 DEF PlacesAt
  <2>. QED  BY <1>1, <1>4, <2>3, <2>5 DEF q, x, y
<1>. QED  BY <1>3, <1>4

\* So every pair of places is within the halves.
LEMMA PickRange ==
  ASSUME NEW a, NEW b \in Int, NEW m \in Int, NEW e \in Int, b <= m,
         NEW f, Picked(f, a, b, m, e), NEW i \in b .. e
  PROVE  PlacesAt(f[i], b, m, e, i)
<1>. DEFINE Done == {n \in Nat : PlacesAt(f[b + n], b, m, e, b + n)}
<1>1. 0 \in Done
  <2>1. f[b] = <<b, m>> /\ b + 0 = b /\ b <= e  BY DEF Picked
  <2>2. PlacesAt(f[b], b, m, e, b)  BY <2>1 DEF PlacesAt
  <2>. QED  BY <2>1, <2>2
<1>2. ASSUME NEW n \in 1 .. i - b, n - 1 \in Done  PROVE n \in Done
  <2>. DEFINE j == b + (n - 1)
  <2>1. j \in Int /\ j < e /\ j + 1 = b + n /\ j + 1 \in b + 1 .. e /\ (j + 1) - 1 = j /\ n \in Nat
    OBVIOUS
  <2>2. PlacesAt(f[j], b, m, e, j)  BY <1>2
  <2>. HIDE DEF j
  <2>3. f[j + 1] = Pick(a, f[j], m, e)  BY <2>1 DEF Picked
  <2>4. PlacesAt(Pick(a, f[j], m, e), b, m, e, j + 1)  BY <2>1, <2>2, PickStays
  <2>5. PlacesAt(f[b + n], b, m, e, b + n)  BY <2>1, <2>3, <2>4
  <2>. QED  BY <2>1, <2>5
<1>3. i - b \in Nat /\ b + (i - b) = i  OBVIOUS
<1>4. i - b \in Done
  <2>. HIDE DEF Done
  <2>. QED  BY <1>1, <1>2, <1>3, UpTo
<1>. QED  BY <1>3, <1>4

\* Neither place goes back.
LEMMA PickRises ==
  ASSUME NEW a, NEW b \in Int, NEW m \in Int, NEW e \in Int, b <= m,
         NEW f, Picked(f, a, b, m, e), NEW i \in b .. e, NEW j \in b .. e, i <= j
  PROVE  f[i][1] <= f[j][1] /\ f[i][2] <= f[j][2]
<1>. DEFINE Le(k) == f[i][1] <= f[k][1] /\ f[i][2] <= f[k][2]
            Done == {n \in Nat : Le(i + n)}
<1>0. \A k \in b .. e : f[k][1] \in Int /\ f[k][2] \in Int  BY PickRange DEF PlacesAt
<1>1. 0 \in Done
  <2>1. i + 0 = i  OBVIOUS
  <2>. QED  BY <1>0, <2>1
<1>2. ASSUME NEW n \in 1 .. j - i, n - 1 \in Done  PROVE n \in Done
  <2>. DEFINE k == i + (n - 1)
  <2>1. k \in b .. e /\ k + 1 = i + n /\ k + 1 \in b + 1 .. e /\ (k + 1) - 1 = k /\ n \in Nat  OBVIOUS
  <2>2. Le(k)  BY <1>2
  <2>. HIDE DEF k
  <2>3. f[k + 1] = Pick(a, f[k], m, e)  BY <2>1 DEF Picked
  <2>4. f[k][1] \in Int /\ f[k][2] \in Int /\ f[i][1] \in Int /\ f[i][2] \in Int  BY <1>0, <2>1
  <2>5. f[k + 1] = <<f[k][1] + 1, f[k][2]>> \/ f[k + 1] = <<f[k][1], f[k][2] + 1>>  BY <2>3 DEF Pick
  <2>6. Le(k + 1)
    <3>1. CASE f[k + 1] = <<f[k][1] + 1, f[k][2]>>
      <4>1. f[k + 1][1] = f[k][1] + 1 /\ f[k + 1][2] = f[k][2]  BY <3>1
      <4>. QED  BY <2>2, <2>4, <4>1
    <3>2. CASE f[k + 1] = <<f[k][1], f[k][2] + 1>>
      <4>1. f[k + 1][1] = f[k][1] /\ f[k + 1][2] = f[k][2] + 1  BY <3>2
      <4>. QED  BY <2>2, <2>4, <4>1
    <3>. QED  BY <2>5, <3>1, <3>2
  <2>7. Le(i + n)
    <3>. HIDE DEF Le
    <3>. QED  BY <2>1, <2>6
  <2>. QED  BY <2>1, <2>7
<1>3. j - i \in Nat /\ i + (j - i) = j  OBVIOUS
<1>4. j - i \in Done
  <2>. HIDE DEF Done
  <2>. QED  BY <1>1, <1>2, <1>3, UpTo
<1>. QED  BY <1>3, <1>4

\* The places are in the two blocks, and a place that is taken is left behind.
Places(f, a, b, m, e) ==
  /\ \A i \in b .. e - 1 :
       /\ f[i][1] \in Int /\ f[i][2] \in Int /\ b <= f[i][1] /\ m <= f[i][2]
       /\ TakesLeft(a, f[i], m, e) => f[i][1] < m /\ f[i][1] < e
       /\ ~TakesLeft(a, f[i], m, e) => f[i][2] < e
  /\ \A i, j \in b .. e - 1 : i < j =>
       /\ f[i][1] <= f[j][1] /\ f[i][2] <= f[j][2]
       /\ TakesLeft(a, f[i], m, e) => f[i][1] < f[j][1]
       /\ ~TakesLeft(a, f[i], m, e) => f[i][2] < f[j][2]

\* The loop of merge goes through such places.
LEMMA PickedPlaces ==
  ASSUME NEW a, NEW b \in Int, NEW m \in Int, NEW e \in Int, b <= m,
         NEW f, Picked(f, a, b, m, e)
  PROVE  Places(f, a, b, m, e)
<1>1. ASSUME NEW i \in b .. e - 1
      PROVE  /\ f[i][1] \in Int /\ f[i][2] \in Int /\ b <= f[i][1] /\ m <= f[i][2]
             /\ TakesLeft(a, f[i], m, e) => f[i][1] < m /\ f[i][1] < e
             /\ ~TakesLeft(a, f[i], m, e) => f[i][2] < e
  <2>1. i \in b .. e /\ i \in Int /\ i < e  OBVIOUS
  <2>2. PlacesAt(f[i], b, m, e, i)  BY <2>1, PickRange
  <2>3. /\ TakesLeft(a, f[i], m, e) => f[i][1] < m /\ f[i][1] < e
        /\ ~TakesLeft(a, f[i], m, e) => f[i][2] < e
    BY <2>1, <2>2, PickStays
  <2>. QED  BY <2>2, <2>3 DEF PlacesAt
<1>2. ASSUME NEW i \in b .. e - 1, NEW j \in b .. e - 1, i < j
      PROVE  /\ f[i][1] <= f[j][1] /\ f[i][2] <= f[j][2]
             /\ TakesLeft(a, f[i], m, e) => f[i][1] < f[j][1]
             /\ ~TakesLeft(a, f[i], m, e) => f[i][2] < f[j][2]
  <2>1. i \in b .. e /\ j \in b .. e /\ i <= j /\ i + 1 \in b .. e /\ i + 1 <= j
        /\ i + 1 \in b + 1 .. e /\ (i + 1) - 1 = i
    BY <1>2
  <2>2. f[i][1] <= f[j][1] /\ f[i][2] <= f[j][2]  BY <2>1, PickRises
  <2>3. f[i + 1][1] <= f[j][1] /\ f[i + 1][2] <= f[j][2]  BY <2>1, PickRises
  <2>4. f[i + 1] = Pick(a, f[i], m, e)  BY <2>1 DEF Picked
  <2>5. f[i][1] \in Int /\ f[i][2] \in Int /\ f[j][1] \in Int /\ f[j][2] \in Int  BY <1>1
  <2>6. TakesLeft(a, f[i], m, e) => f[i][1] < f[j][1]
    <3>1. SUFFICES ASSUME TakesLeft(a, f[i], m, e)  PROVE f[i][1] < f[j][1]  OBVIOUS
    <3>2. f[i + 1] = <<f[i][1] + 1, f[i][2]>>  BY <2>4, <3>1 DEF Pick
    <3>3. f[i + 1][1] = f[i][1] + 1  BY <3>2
    <3>. QED  BY <2>3, <2>5, <3>3
  <2>7. ~TakesLeft(a, f[i], m, e) => f[i][2] < f[j][2]
    <3>1. SUFFICES ASSUME ~TakesLeft(a, f[i], m, e)  PROVE f[i][2] < f[j][2]  OBVIOUS
    <3>2. f[i + 1] = <<f[i][1], f[i][2] + 1>>  BY <2>4, <3>1 DEF Pick
    <3>3. f[i + 1][2] = f[i][2] + 1  BY <3>2
    <3>. QED  BY <2>3, <2>5, <3>3
  <2>. QED  BY <2>2, <2>6, <2>7
<1>. QED  BY <1>1, <1>2 DEF Places

\* merge gives its cells in order, if its halves are.
LEMMA PlacesInOrder ==
  ASSUME NEW a, NEW b \in Int, NEW m \in Int, NEW e \in Int,
         \A c \in b .. e - 1 : a[c] \in Int, b <= m,
         InOrder(a, b, Least(m, e)), InOrder(a, m, e),
         NEW f, Places(f, a, b, m, e),
         NEW r, r = [i \in b .. e - 1 |-> a[Source(f, a, m, e, i)]]
  PROVE  InOrder(r, b, e)
<1>0. \A c, d \in Int : b <= c /\ c <= d /\ d < m /\ d < e => a[c] <= a[d]
  <2>1. SUFFICES ASSUME NEW c \in Int, NEW d \in Int, b <= c, c <= d, d < m, d < e
                 PROVE  a[c] <= a[d]
    OBVIOUS
  <2>2. d < Least(m, e) /\ Least(m, e) \in Int  BY <2>1 DEF Least
  <2>3. c \in b .. Least(m, e) - 1 /\ d \in b .. Least(m, e) - 1  BY <2>1, <2>2
  <2>. QED  BY <2>1, <2>3 DEF InOrder
<1>1. \A c, d \in Int : m <= c /\ c <= d /\ d < e => a[c] <= a[d]
  <2>1. SUFFICES ASSUME NEW c \in Int, NEW d \in Int, m <= c, c <= d, d < e
                 PROVE  a[c] <= a[d]
    OBVIOUS
  <2>3. c \in m .. e - 1 /\ d \in m .. e - 1  BY <2>1
  <2>. QED  BY <2>1, <2>3 DEF InOrder
<1>2. ASSUME NEW i \in b .. e - 1, NEW j \in b .. e - 1, i < j  PROVE r[i] <= r[j]
  <2>. DEFINE x == f[i][1]  y == f[i][2]  u == f[j][1]  v == f[j][2]
  <2>1. /\ x \in Int /\ y \in Int /\ b <= x /\ m <= y /\ u \in Int /\ v \in Int /\ b <= u /\ m <= v
        /\ TakesLeft(a, f[i], m, e) => x < m /\ x < e
        /\ ~TakesLeft(a, f[i], m, e) => y < e
        /\ TakesLeft(a, f[j], m, e) => u < m /\ u < e
        /\ ~TakesLeft(a, f[j], m, e) => v < e
    BY DEF Places
  <2>2. /\ x <= u /\ y <= v
        /\ TakesLeft(a, f[i], m, e) => x < u
        /\ ~TakesLeft(a, f[i], m, e) => y < v
    BY <1>2 DEF Places
  <2>3. r[i] = a[Source(f, a, m, e, i)] /\ r[j] = a[Source(f, a, m, e, j)]  OBVIOUS
  <2>4. TakesLeft(a, f[i], m, e) <=> x < m /\ (y >= e \/ a[x] <= a[y])  BY DEF TakesLeft
  <2>5. CASE TakesLeft(a, f[i], m, e) /\ TakesLeft(a, f[j], m, e)
    <3>1. r[i] = a[x] /\ r[j] = a[u]  BY <2>3, <2>5 DEF Source
    <3>. HIDE DEF x, y, u, v
    <3>. QED  BY <1>0, <2>1, <2>2, <2>5, <3>1
  <2>6. CASE TakesLeft(a, f[i], m, e) /\ ~TakesLeft(a, f[j], m, e)
    <3>1. r[i] = a[x] /\ r[j] = a[v]  BY <2>3, <2>6 DEF Source
    <3>. HIDE DEF x, y, u, v
    <3>2. y < e /\ a[x] <= a[y]  BY <2>1, <2>2, <2>4, <2>6
    <3>3. a[y] <= a[v]  BY <1>1, <2>1, <2>2, <2>6
    <3>4. x \in b .. e - 1 /\ y \in b .. e - 1 /\ v \in b .. e - 1  BY <2>1, <2>6, <3>2
    <3>5. a[x] \in Int /\ a[y] \in Int /\ a[v] \in Int  BY <3>4
    <3>. QED  BY <3>1, <3>2, <3>3, <3>5
  <2>7. CASE ~TakesLeft(a, f[i], m, e) /\ ~TakesLeft(a, f[j], m, e)
    <3>1. r[i] = a[y] /\ r[j] = a[v]  BY <2>3, <2>7 DEF Source
    <3>. HIDE DEF x, y, u, v
    <3>. QED  BY <1>1, <2>1, <2>2, <2>7, <3>1
  <2>8. CASE ~TakesLeft(a, f[i], m, e) /\ TakesLeft(a, f[j], m, e)
    <3>1. r[i] = a[y] /\ r[j] = a[u]  BY <2>3, <2>8 DEF Source
    <3>. HIDE DEF x, y, u, v
    <3>2. x < m /\ y < e  BY <2>1, <2>2, <2>8
    <3>3. ~(a[x] <= a[y])  BY <2>4, <2>8, <3>2
    <3>4. x \in b .. e - 1 /\ y \in b .. e - 1 /\ u \in b .. e - 1  BY <2>1, <2>2, <2>8, <3>2
    <3>5. a[x] \in Int /\ a[y] \in Int /\ a[u] \in Int  BY <3>4
    <3>6. a[x] <= a[u]  BY <1>0, <2>1, <2>2, <2>8
    <3>. QED  BY <3>1, <3>3, <3>5, <3>6
  <2>. QED  BY <2>5, <2>6, <2>7, <2>8
<1>3. ASSUME NEW i \in b .. e - 1  PROVE r[i] <= r[i]
  <2>1. Source(f, a, m, e, i) \in b .. e - 1
    <3>1. /\ f[i][1] \in Int /\ f[i][2] \in Int /\ b <= f[i][1] /\ m <= f[i][2]
          /\ TakesLeft(a, f[i], m, e) => f[i][1] < e
          /\ ~TakesLeft(a, f[i], m, e) => f[i][2] < e
      BY DEF Places
    <3>. QED  BY <3>1 DEF Source
  <2>2. r[i] \in Int  BY <2>1
  <2>. QED  BY <2>2
<1>4. ASSUME NEW i \in b .. e - 1, NEW j \in b .. e - 1, i <= j  PROVE r[i] <= r[j]
  <2>1. i < j \/ i = j  BY <1>4
  <2>. QED  BY <1>2, <1>3, <2>1
<1>. QED  BY <1>4 DEF InOrder

\* A function into its own finite domain that takes no value twice takes each.
LEMMA OwnBijection ==
  ASSUME NEW S, IsFiniteSet(S), NEW p \in [S -> S], \A i, j \in S : p[i] = p[j] => i = j
  PROVE  p \in Bijection(S, S)
<1>1. p \in Injection(S, S)  BY Fun_IsInj
<1>2. p \in Surjection(S, S)  BY <1>1, FS_Injection
<1>. QED  BY <1>1, <1>2 DEF Bijection

\* merge gives each of its cells once.
LEMMA PlacesShuffle ==
  ASSUME NEW a, NEW b \in Int, NEW m \in Int, NEW e \in Int, b <= m,
         NEW f, Places(f, a, b, m, e),
         NEW r, r = [i \in b .. e - 1 |-> a[Source(f, a, m, e, i)]]
  PROVE  Shuffled(r, a, b, e)
<1>. DEFINE S == b .. e - 1  p == [i \in S |-> Source(f, a, m, e, i)]
<1>1. ASSUME NEW i \in S  PROVE Source(f, a, m, e, i) \in S
  <2>1. /\ f[i][1] \in Int /\ f[i][2] \in Int /\ b <= f[i][1] /\ m <= f[i][2]
        /\ TakesLeft(a, f[i], m, e) => f[i][1] < e
        /\ ~TakesLeft(a, f[i], m, e) => f[i][2] < e
    BY DEF Places
  <2>. QED  BY <2>1 DEF Source
<1>2. ASSUME NEW i \in S, NEW j \in S, i < j
      PROVE  Source(f, a, m, e, i) # Source(f, a, m, e, j)
  <2>. DEFINE x == f[i][1]  y == f[i][2]  u == f[j][1]  v == f[j][2]
  <2>1. /\ x \in Int /\ y \in Int /\ m <= y /\ u \in Int /\ v \in Int /\ m <= v
        /\ TakesLeft(a, f[i], m, e) => x < m
        /\ TakesLeft(a, f[j], m, e) => u < m
    BY DEF Places
  <2>2. /\ TakesLeft(a, f[i], m, e) => x < u
        /\ ~TakesLeft(a, f[i], m, e) => y < v
    BY <1>2 DEF Places
  <2>3. /\ Source(f, a, m, e, i) = IF TakesLeft(a, f[i], m, e) THEN x ELSE y
        /\ Source(f, a, m, e, j) = IF TakesLeft(a, f[j], m, e) THEN u ELSE v
    BY DEF Source
  <2>. HIDE DEF x, y, u, v
  <2>. QED  BY <2>1, <2>2, <2>3
<1>3. p \in [S -> S]  BY <1>1
<1>4. ASSUME NEW i \in S, NEW j \in S, p[i] = p[j]  PROVE i = j
  <2>1. i \in Int /\ j \in Int  OBVIOUS
  <2>2. ~(i < j) /\ ~(j < i)
    <3>1. p[i] = Source(f, a, m, e, i) /\ p[j] = Source(f, a, m, e, j)  OBVIOUS
    <3>. HIDE DEF p
    <3>. QED  BY <1>2, <1>4, <3>1
  <2>. QED  BY <2>1, <2>2
<1>5. \A c \in S : r[c] = a[p[c]]  OBVIOUS
<1>6. IsFiniteSet(S)  BY FS_Interval
<1>. HIDE DEF p, S
<1>7. p \in Bijection(S, S)  BY <1>3, <1>4, <1>6, OwnBijection
<1>. QED  BY <1>5, <1>7 DEF Shuffled, S

\* Two ordered halves are merged: what Pending says.
Merged(r, a, b, e) == InOrder(r, b, e) /\ Shuffled(r, a, b, e)

\* What merge makes of two ordered halves.
LEMMA MergeSorts ==
  ASSUME NEW a, NEW b \in Int, NEW m \in Int, NEW e \in Int,
         \A c \in b .. e - 1 : a[c] \in Int, b <= m, b <= e,
         InOrder(a, b, Least(m, e)), InOrder(a, m, e)
  PROVE  Merged(merge(a, b, m, e), a, b, e)
<1>. DEFINE r == merge(a, b, m, e)
<1>0. PICK f : Taken(f, r, a, b, m, e)  BY MergePicks
<1>. HIDE DEF r
<1>1. Picked(f, a, b, m, e) /\ r = [i \in b .. e - 1 |-> a[Source(f, a, m, e, i)]]
  BY <1>0 DEF Taken
<1>2. Places(f, a, b, m, e)  BY <1>1, PickedPlaces
<1>3. InOrder(r, b, e)  BY <1>1, <1>2, PlacesInOrder
<1>4. Shuffled(r, a, b, e)  BY <1>1, <1>2, PlacesShuffle
<1>5. Merged(r, a, b, e)  BY <1>3, <1>4 DEF Merged
<1>. QED  BY <1>5 DEF r

-----------------------------------------------------------------------------
(* The steps of subsort. *)

\* w is the steps of two halves, L and R, and then those that merge them.
Joins(w, L, R, lo, mid, hi) ==
  /\ Len(w) = Len(L) + Len(R) + 2
  /\ \A k \in 1 .. Len(L) : w[k] = L[k]
  /\ \A k \in 1 .. Len(R) : w[Len(L) + k] = R[k]
  /\ w[Len(L) + Len(R) + 1] = Do("merge", lo, mid, hi)
  /\ w[Len(L) + Len(R) + 2] = Do("copy", lo, mid, hi)

IsConcat(w, s, u) ==
  /\ Len(w) = Len(s) + Len(u)
  /\ \A i \in 1 .. Len(s) + Len(u) : w[i] = IF i <= Len(s) THEN s[i] ELSE u[i - Len(s)]

\* What a concatenation holds.
LEMMA ConcatIs ==
  ASSUME NEW T, NEW s \in Seq(T), NEW u \in Seq(T), NEW w, w = s \o u
  PROVE  w \in Seq(T) /\ IsConcat(w, s, u)
<1>1. /\ w \in Seq(T) /\ Len(w) = Len(s) + Len(u)
      /\ \A i \in 1 .. Len(s) + Len(u) : w[i] = IF i <= Len(s) THEN s[i] ELSE u[i - Len(s)]
  BY ConcatProperties
<1>. QED  BY <1>1 DEF IsConcat

\* The steps of subsort are those of the halves, a merge and a copy.
LEMMA StepsJoined ==
  ASSUME NEW T, NEW L \in Seq(T), NEW R \in Seq(T), NEW lo, NEW mid, NEW hi,
         MergeAndCopy(lo, mid, hi) \in Seq(T)
  PROVE  /\ L \o R \o MergeAndCopy(lo, mid, hi) \in Seq(T)
         /\ Joins(L \o R \o MergeAndCopy(lo, mid, hi), L, R, lo, mid, hi)
<1>. DEFINE M == MergeAndCopy(lo, mid, hi)  LR == L \o R  w == LR \o M
<1>1. Len(M) = 2 /\ M[1] = Do("merge", lo, mid, hi) /\ M[2] = Do("copy", lo, mid, hi)
  BY DEF MergeAndCopy
<1>. HIDE DEF M
<1>0. M \in Seq(T)  BY DEF M
<1>2. /\ LR \in Seq(T) /\ Len(LR) = Len(L) + Len(R)
      /\ \A i \in 1 .. Len(L) + Len(R) : LR[i] = IF i <= Len(L) THEN L[i] ELSE R[i - Len(L)]
  BY ConcatIs DEF IsConcat
<1>3. Len(L) \in Nat /\ Len(R) \in Nat  BY LenProperties
<1>. HIDE DEF LR
<1>4. /\ w \in Seq(T) /\ Len(w) = Len(LR) + 2
      /\ \A i \in 1 .. Len(LR) + 2 : w[i] = IF i <= Len(LR) THEN LR[i] ELSE M[i - Len(LR)]
  <2>1. /\ w \in Seq(T) /\ Len(w) = Len(LR) + Len(M)
        /\ \A i \in 1 .. Len(LR) + Len(M) : w[i] = IF i <= Len(LR) THEN LR[i] ELSE M[i - Len(LR)]
    <3>1. w \in Seq(T) /\ IsConcat(w, LR, M)  BY <1>0, <1>2, ConcatIs
    <3>. QED  BY <3>1 DEF IsConcat
  <2>. QED  BY <1>1, <2>1
<1>. HIDE DEF w
<1>5. \A k \in 1 .. Len(L) : w[k] = L[k]
  <2>. TAKE k \in 1 .. Len(L)
  <2>1. k <= Len(LR) /\ k \in 1 .. Len(LR) + 2 /\ k \in 1 .. Len(L) + Len(R)  BY <1>2, <1>3
  <2>. QED  BY <1>2, <1>4, <2>1
<1>6. \A k \in 1 .. Len(R) : w[Len(L) + k] = R[k]
  <2>. TAKE k \in 1 .. Len(R)
  <2>. DEFINE i == Len(L) + k
  <2>1. i <= Len(LR) /\ i \in 1 .. Len(LR) + 2 /\ i \in 1 .. Len(L) + Len(R)
        /\ ~(i <= Len(L)) /\ i - Len(L) = k
    BY <1>2, <1>3
  <2>. HIDE DEF i
  <2>2. w[i] = R[k]  BY <1>2, <1>4, <2>1
  <2>. QED  BY <2>2 DEF i
<1>7. w[Len(L) + Len(R) + 1] = Do("merge", lo, mid, hi)
  <2>. DEFINE i == Len(L) + Len(R) + 1
  <2>1. i \in 1 .. Len(LR) + 2 /\ ~(i <= Len(LR)) /\ i - Len(LR) = 1  BY <1>2, <1>3
  <2>. HIDE DEF i
  <2>2. w[i] = M[1]  BY <1>4, <2>1
  <2>. QED  BY <1>1, <2>2 DEF i
<1>8. w[Len(L) + Len(R) + 2] = Do("copy", lo, mid, hi)
  <2>. DEFINE i == Len(L) + Len(R) + 2
  <2>1. i \in 1 .. Len(LR) + 2 /\ ~(i <= Len(LR)) /\ i - Len(LR) = 2  BY <1>2, <1>3
  <2>. HIDE DEF i
  <2>2. w[i] = M[2]  BY <1>4, <2>1
  <2>. QED  BY <1>1, <2>2 DEF i
<1>9. Joins(w, L, R, lo, mid, hi)  BY <1>2, <1>4, <1>5, <1>6, <1>7, <1>8 DEF Joins
<1>. QED  BY <1>4, <1>9 DEF w, LR, M

\* Steps on some cells are steps on more cells.
LEMMA PlanStepsWiden ==
  ASSUME NEW lo \in Int, NEW hi \in Int, NEW lo2 \in Int, NEW hi2 \in Int,
         lo2 <= lo, hi <= hi2
  PROVE  Seq(PlanSteps(lo, hi)) \subseteq Seq(PlanSteps(lo2, hi2))
<1>1. PlanSteps(lo, hi) \subseteq PlanSteps(lo2, hi2)  BY DEF PlanSteps
<1>. QED  BY <1>1

\* A merge and its copy are such steps.
LEMMA MergeAndCopyPlan ==
  ASSUME NEW lo \in Int, NEW mid \in Int, NEW hi \in Int, lo <= mid, lo <= hi
  PROVE  MergeAndCopy(lo, mid, hi) \in Seq(PlanSteps(lo, hi))
<1>1. Do("merge", lo, mid, hi) \in PlanSteps(lo, hi)  BY DEF Do, PlanSteps
<1>2. Do("copy", lo, mid, hi) \in PlanSteps(lo, hi)  BY DEF Do, PlanSteps
<1>. QED  BY <1>1, <1>2 DEF MergeAndCopy

\* What is made ready in L is made ready in w, and so for R.
LEMMA ReadyInLeft ==
  ASSUME NEW L, NEW w, NEW n \in Nat, \A i \in 1 .. n : w[i] = L[i], NEW k \in 1 .. n, NEW h,
         MadeReady(L, k, h)
  PROVE  MadeReady(w, k, h)
<1>1. CASE h[2] - h[1] < 2  BY <1>1 DEF MadeReady
<1>2. CASE ~(h[2] - h[1] < 2)
  <2>1. PICK j \in 1 .. k - 1 : Copies(L[j], h) /\ \A l \in j + 1 .. k - 1 : Apart(L[l], h)
    BY <1>2 DEF MadeReady
  <2>2. w[j] = L[j] /\ \A l \in j + 1 .. k - 1 : w[l] = L[l]  OBVIOUS
  <2>. QED  BY <2>1, <2>2 DEF MadeReady
<1>. QED  BY <1>1, <1>2

\* What is made ready in R is made ready in w.
LEMMA ReadyInRight ==
  ASSUME NEW R, NEW w, NEW n \in Nat, NEW q \in Nat, \A i \in 1 .. q : w[n + i] = R[i],
         NEW k \in 1 .. q, NEW h, MadeReady(R, k, h)
  PROVE  MadeReady(w, n + k, h)
<1>1. CASE h[2] - h[1] < 2  BY <1>1 DEF MadeReady
<1>2. CASE ~(h[2] - h[1] < 2)
  <2>1. PICK j \in 1 .. k - 1 : Copies(R[j], h) /\ \A l \in j + 1 .. k - 1 : Apart(R[l], h)
    BY <1>2 DEF MadeReady
  <2>2. n + j \in 1 .. n + k - 1 /\ w[n + j] = R[j]  OBVIOUS
  <2>3. ASSUME NEW l \in n + j + 1 .. n + k - 1  PROVE Apart(w[l], h)
    <3>1. l - n \in j + 1 .. k - 1 /\ l - n \in 1 .. q /\ n + (l - n) = l  OBVIOUS
    <3>. QED  BY <2>1, <3>1
  <2>4. Copies(w[n + j], h)  BY <2>1, <2>2
  <2>. QED  BY <2>2, <2>3, <2>4 DEF MadeReady
<1>. QED  BY <1>1, <1>2

\* The steps of two halves, and a merge of both.
LEMMA JoinPlans ==
  ASSUME NEW lo \in Int, NEW mid \in Int, NEW hi \in Int, lo < mid, mid < hi,
         NEW L, Planned(L, lo, mid), NEW R, Planned(R, mid, hi)
  PROVE  Planned(L \o R \o MergeAndCopy(lo, mid, hi), lo, hi)
<1>. DEFINE T == PlanSteps(lo, hi)  w == L \o R \o MergeAndCopy(lo, mid, hi)  n == Len(L)  q == Len(R)
<1>1. L \in Seq(T) /\ R \in Seq(T) /\ MergeAndCopy(lo, mid, hi) \in Seq(T)
  <2>1. Seq(PlanSteps(lo, mid)) \subseteq Seq(T)  BY PlanStepsWiden
  <2>2. Seq(PlanSteps(mid, hi)) \subseteq Seq(T)  BY PlanStepsWiden
  <2>3. MergeAndCopy(lo, mid, hi) \in Seq(T)  BY MergeAndCopyPlan
  <2>. QED  BY <2>1, <2>2, <2>3 DEF Planned
<1>2. w \in Seq(T) /\ Joins(w, L, R, lo, mid, hi)
  <2>. HIDE DEF T
  <2>. QED  BY <1>1, StepsJoined
<1>3. n \in Nat /\ q \in Nat  BY <1>1, LenProperties
<1>4. /\ \A k \in 1 .. n : L[k] \in PlanSteps(lo, mid)
      /\ \A k \in 1 .. q : R[k] \in PlanSteps(mid, hi)
  BY ElementOfSeq DEF Planned
<1>. HIDE DEF w, T, n, q
<1>5. /\ Len(w) = n + q + 2
      /\ \A k \in 1 .. n : w[k] = L[k]
      /\ \A k \in 1 .. q : w[n + k] = R[k]
      /\ w[n + q + 1] = Do("merge", lo, mid, hi)
      /\ w[n + q + 2] = Do("copy", lo, mid, hi)
  BY <1>2 DEF Joins, n, q
<1>6. ASSUME NEW k \in 1 .. n + q + 2
      PROVE  k \in 1 .. n \/ (k - n \in 1 .. q /\ n + (k - n) = k) \/ k = n + q + 1 \/ k = n + q + 2
  BY <1>3
<1>7. MadeReady(w, n + q + 1, <<lo, mid>>)
  <2>. DEFINE h == <<lo, mid>>
  <2>0. h[1] = lo /\ h[2] = mid  OBVIOUS
  <2>1. CASE mid - lo < 2  BY <2>1 DEF MadeReady
  <2>2. CASE ~(mid - lo < 2)
    <3>1. L # <<>> /\ Copies(L[n], h)  BY <2>2 DEF Planned, n
    <3>2. n \in 1 .. n /\ n \in 1 .. n + q + 1 - 1
      <4>1. n # 0  BY <1>1, <3>1, EmptySeq DEF n
      <4>. QED  BY <1>3, <4>1
    <3>3. Copies(w[n], h)  BY <1>5, <3>1, <3>2
    <3>. DEFINE k == n + q + 1
    <3>a. k - 1 = n + q /\ n \in 1 .. k - 1  BY <1>3, <3>2
    <3>. HIDE DEF k
    <3>4. ASSUME NEW l \in n + 1 .. k - 1  PROVE Apart(w[l], h)
      <4>1. l - n \in 1 .. q /\ n + (l - n) = l  BY <1>3, <3>a
      <4>2. w[l] \in PlanSteps(mid, hi)  BY <1>4, <1>5, <4>1
      <4>. QED  BY <2>0, <4>2 DEF Apart, PlanSteps
    <3>5. MadeReady(w, k, h)  BY <3>3, <3>4, <3>a DEF MadeReady
    <3>. QED  BY <3>5 DEF k
  <2>. QED  BY <2>1, <2>2
<1>8. MadeReady(w, n + q + 1, <<mid, hi>>)
  <2>. DEFINE h == <<mid, hi>>
  <2>0. h[1] = mid /\ h[2] = hi  OBVIOUS
  <2>1. CASE hi - mid < 2  BY <2>1 DEF MadeReady
  <2>2. CASE ~(hi - mid < 2)
    <3>1. R # <<>> /\ Copies(R[q], h)  BY <2>2 DEF Planned, q
    <3>2. q \in 1 .. q /\ n + q \in 1 .. n + q + 1 - 1
      <4>1. q # 0  BY <1>1, <3>1, EmptySeq DEF q
      <4>. QED  BY <1>3, <4>1
    <3>3. Copies(w[n + q], h)  BY <1>5, <3>1, <3>2
    <3>4. n + q + 1 .. n + q + 1 - 1 = {}  BY <1>3
    <3>. QED  BY <3>2, <3>3, <3>4 DEF MadeReady
  <2>. QED  BY <2>1, <2>2
<1>9. ASSUME NEW k \in 1 .. n + q + 2, w[k].do = "merge", NEW h \in HalvesOf(w[k])
      PROVE  MadeReady(w, k, h)
  <2>1. CASE k \in 1 .. n
    <3>1. w[k] = L[k]  BY <1>5, <2>1
    <3>2. MadeReady(L, k, h)  BY <1>9, <2>1, <3>1 DEF Planned, n
    <3>. QED  BY <1>3, <1>5, <2>1, <3>2, ReadyInLeft
  <2>2. CASE k - n \in 1 .. q /\ n + (k - n) = k
    <3>. DEFINE i == k - n
    <3>0. i \in 1 .. q /\ n + i = k  BY <2>2
    <3>. HIDE DEF i
    <3>1. w[k] = R[i]  BY <1>5, <3>0
    <3>2. MadeReady(R, i, h)  BY <1>9, <3>0, <3>1 DEF Planned, q
    <3>3. MadeReady(w, n + i, h)  BY <1>3, <1>5, <3>0, <3>2, ReadyInRight
    <3>. QED  BY <3>0, <3>3
  <2>3. CASE k = n + q + 1
    <3>1. w[k] = Do("merge", lo, mid, hi)  BY <1>5, <2>3
    <3>2. h = <<lo, Least(mid, hi)>> \/ h = <<mid, hi>>  BY <1>9, <3>1 DEF HalvesOf, Do
    <3>3. Least(mid, hi) = mid  BY DEF Least
    <3>. QED  BY <1>7, <1>8, <2>3, <3>2, <3>3
  <2>4. CASE k = n + q + 2
    BY <1>5, <1>9, <2>4 DEF Do
  <2>. QED  BY <1>6, <2>1, <2>2, <2>3, <2>4
<1>10. ASSUME NEW k \in 1 .. n + q + 2, w[k].do = "copy"
       PROVE  k > 1 /\ w[k - 1].do = "merge" /\ SameSpan(w[k - 1], w[k])
  <2>1. CASE k \in 1 .. n
    <3>1. w[k] = L[k]  BY <1>5, <2>1
    <3>2. k > 1 /\ L[k - 1].do = "merge" /\ SameSpan(L[k - 1], L[k])
      BY <1>10, <2>1, <3>1 DEF Planned, n
    <3>3. k - 1 \in 1 .. n  BY <1>3, <2>1, <3>2
    <3>. QED  BY <1>5, <3>1, <3>2, <3>3
  <2>2. CASE k - n \in 1 .. q /\ n + (k - n) = k
    <3>. DEFINE i == k - n
    <3>0. i \in 1 .. q /\ n + i = k  BY <2>2
    <3>. HIDE DEF i
    <3>1. w[k] = R[i]  BY <1>5, <3>0
    <3>2. i > 1 /\ R[i - 1].do = "merge" /\ SameSpan(R[i - 1], R[i])
      BY <1>10, <3>0, <3>1 DEF Planned, q
    <3>3. i - 1 \in 1 .. q /\ n + (i - 1) = k - 1 /\ k > 1  BY <1>3, <3>0, <3>2
    <3>4. w[k - 1] = R[i - 1]  BY <1>5, <3>3
    <3>. QED  BY <3>1, <3>2, <3>3, <3>4
  <2>3. CASE k = n + q + 1
    BY <1>5, <1>10, <2>3 DEF Do
  <2>4. CASE k = n + q + 2
    <3>1. k > 1 /\ k - 1 = n + q + 1  BY <1>3, <2>4
    <3>2. w[k - 1] = Do("merge", lo, mid, hi) /\ w[k] = Do("copy", lo, mid, hi)  BY <1>5, <2>4, <3>1
    <3>. QED  BY <3>1, <3>2 DEF Do, SameSpan
  <2>. QED  BY <1>6, <2>1, <2>2, <2>3, <2>4
<1>11. ~(hi - lo < 2) /\ w # <<>> /\ Copies(w[Len(w)], <<lo, hi>>)
  <2>1. ~(hi - lo < 2)  OBVIOUS
  <2>2. w # <<>>
    <3>1. Len(w) # 0  BY <1>3, <1>5
    <3>. QED  BY <3>1, EmptySeq
  <2>3. w[Len(w)] = Do("copy", lo, mid, hi)  BY <1>5
  <2>. QED  BY <2>1, <2>2, <2>3 DEF Do, Copies
<1>12. Planned(w, lo, hi)  BY <1>2, <1>5, <1>9, <1>10, <1>11 DEF Planned, T
<1>. QED  BY <1>12 DEF w

\* Whatever it is cut into, subsort makes its halves ready for each merge.
LEMMA SubsortPlanned ==
  ASSUME NEW begin \in Nat, NEW end \in Nat, begin <= end
  PROVE  Planned(subsort(begin, end), begin, end)
<1> DEFINE S == Spans(begin, end)
           merges == CHOOSE f : f = [s \in S |-> Merges(f, s)]
           Fails == {n \in Nat : ~ \A s \in S : s[1] <= s[2] /\ s[2] - s[1] <= n =>
                                                  Planned(merges[s], s[1], s[2])}
<1>1. merges = [s \in S |-> Merges(merges, s)]
  BY MergesExist
<1>2. subsort(begin, end) = merges[<<begin, end>>]
  BY DEF subsort, Merges, Spans
<1> HIDE DEF merges
<1>3. ASSUME NEW s \in S
      PROVE  s[1] \in Nat /\ s[2] \in Nat /\ s[2] - s[1] <= end /\ merges[s] = Merges(merges, s)
  BY <1>1 DEF Spans
<1>4. Fails \in SUBSET Nat
  OBVIOUS
<1>5. ASSUME NEW n \in Nat, \A m \in Nat : m < n => m \notin Fails PROVE n \notin Fails
  <2>1. SUFFICES ASSUME NEW s \in S, s[1] <= s[2], s[2] - s[1] <= n
                 PROVE  Planned(merges[s], s[1], s[2])
    OBVIOUS
  <2>2. CASE s[2] - s[1] < 2
    <3>1. merges[s] = <<>>
      BY <1>3, <2>2 DEF Merges
    <3>2. <<>> \in Seq(PlanSteps(s[1], s[2])) /\ Len(<<>>) = 0 /\ 1 .. 0 = {}
      BY EmptySeq
    <3> QED
      BY <2>2, <3>1, <3>2 DEF Planned
  <2>3. CASE s[2] - s[1] >= 2
    <3> DEFINE mid == (s[1] + s[2]) \div 2
               l == <<s[1], mid>>
               r == <<mid, s[2]>>
    <3>1. s[1] \in Nat /\ s[2] \in Nat
      BY <1>3
    <3>2. mid \in Nat /\ s[1] < mid /\ mid < s[2] /\ l \in S /\ r \in S
      BY <2>3, Halves
    <3>3. merges[s] = merges[l] \o merges[r] \o MergeAndCopy(s[1], mid, s[2])
      <4>1. ~(s[2] - s[1] < 2) /\ merges[s] = Merges(merges, s)
        BY <1>3, <2>3
      <4> QED
        BY <4>1, Zenon DEF Merges
    <3> HIDE DEF mid
    <3>4. n - 1 \in Nat /\ n - 1 < n /\ n - 1 \notin Fails
      BY <1>5, <2>1, <2>3, <3>1
    <3>5. l[1] <= l[2] /\ r[1] <= r[2] /\ l[2] - l[1] <= n - 1 /\ r[2] - r[1] <= n - 1
      BY <2>1, <3>1, <3>2
    <3>6. Planned(merges[l], s[1], mid) /\ Planned(merges[r], mid, s[2])
      BY <3>2, <3>4, <3>5
    <3>7. s[1] \in Int /\ s[2] \in Int /\ mid \in Int
      BY <3>1, <3>2
    <3> HIDE DEF l, r
    <3>8. Planned(merges[l] \o merges[r] \o MergeAndCopy(s[1], mid, s[2]), s[1], s[2])
      BY <3>2, <3>6, <3>7, JoinPlans
    <3> QED
      BY <3>3, <3>8
  <2> QED
    BY <1>3, <2>2, <2>3
<1>6. Fails = {}
  <2>1. SUFFICES ASSUME Fails # {} PROVE FALSE
    OBVIOUS
  <2>2. PICK n \in Fails : \A m \in Fails : n <= m
    BY <1>4, <2>1, LeastElement
  <2> QED
    BY <1>4, <1>5, <2>2
<1>7. <<begin, end>> \in S /\ end - begin \in Nat
  BY DEF Spans
<1>8. Planned(merges[<<begin, end>>], begin, end)
  BY <1>6, <1>7
<1> QED
  BY <1>2, <1>8

-----------------------------------------------------------------------------
(* The steps that are left. *)

\* v is what is left of w after its first step.
IsTail(v, w) ==
  /\ Len(w) \in Nat /\ Len(v) \in Nat /\ Len(w) = Len(v) + 1
  /\ \A k \in 1 .. Len(v) : v[k] = w[k + 1]
  /\ v = <<>> <=> Len(v) = 0

\* The tail of a sequence of steps.
LEMMA TailIs ==
  ASSUME NEW T, NEW w \in Seq(T), w # <<>>
  PROVE  Tail(w) \in Seq(T) /\ Head(w) = w[1] /\ IsTail(Tail(w), w)
<1>. DEFINE v == Tail(w)
<1>1. v \in Seq(T) /\ Len(w) \in Nat /\ Len(v) \in Nat /\ Len(w) = Len(v) + 1
      /\ \A k \in 1 .. Len(v) : v[k] = w[k + 1]
  <2>1. Len(w) \in Nat /\ Len(w) # 0  BY EmptySeq, LenProperties
  <2>2. v \in Seq(T) /\ Len(v) = Len(w) - 1  BY HeadTailProperties
  <2>3. \A k \in 1 .. Len(v) : v[k] = w[k + 1]  BY <2>1, <2>2, HeadTailProperties
  <2>. QED  BY <2>1, <2>2, <2>3
<1>2. v = <<>> <=> Len(v) = 0  BY <1>1, EmptySeq
<1>3. IsTail(v, w)  BY <1>1, <1>2 DEF IsTail
<1>. QED  BY <1>1, <1>3

\* Fewer than two cells are in order.
LEMMA FewInOrder ==
  ASSUME NEW a, NEW b \in Int, NEW e \in Int, e - b < 2, \A c \in b .. e - 1 : a[c] \in Int
  PROVE  InOrder(a, b, e)
<1>1. ASSUME NEW c \in b .. e - 1, NEW d \in b .. e - 1  PROVE a[c] <= a[d]
  <2>1. c = d  OBVIOUS
  <2>. QED  BY <2>1
<1>. QED  BY <1>1 DEF InOrder

\* The steps of subsort are a plan, whatever the cells hold.
LEMMA PlannedIsPlan ==
  ASSUME NEW lo \in Int, NEW hi \in Int, NEW a, NEW a2, \A c \in lo .. hi - 1 : a[c] \in Int,
         NEW w, Planned(w, lo, hi)
  PROVE  Plan(w, lo, hi, a, a2)
<1>1. w \in Seq(PlanSteps(lo, hi))  BY DEF Planned
<1>2. Prepared(w, a)  BY DEF Planned, Prepared
<1>3. Paired(w, a, a2)  BY DEF Planned, Paired
<1>4. Ends(w, lo, hi, a)
  <2>1. CASE hi - lo < 2
    <3>1. w = <<>>  BY <2>1 DEF Planned
    <3>2. InOrder(a, lo, hi)  BY <2>1, FewInOrder
    <3>. QED  BY <3>1, <3>2 DEF Ends
  <2>2. CASE ~(hi - lo < 2)
    BY <2>2 DEF Planned, Ends
  <2>. QED  BY <2>1, <2>2
<1>. QED  BY <1>1, <1>2, <1>3, <1>4 DEF Plan

\* What is ready for a step is so when the first step has been made.
LEMMA MadeReadyTail ==
  ASSUME NEW w, NEW v, IsTail(v, w), NEW k \in 1 .. Len(v), NEW h, MadeReady(w, k + 1, h)
  PROVE  MadeReady(v, k, h) \/ (Copies(w[1], h) /\ \A l \in 1 .. k - 1 : Apart(v[l], h))
<1>0. Len(v) \in Nat /\ \A i \in 1 .. Len(v) : v[i] = w[i + 1]  BY DEF IsTail
<1>1. CASE h[2] - h[1] < 2  BY <1>1 DEF MadeReady
<1>2. CASE ~(h[2] - h[1] < 2)
  <2>0. (k + 1) - 1 = k  OBVIOUS
  <2>1. PICK j \in 1 .. k : Copies(w[j], h) /\ \A l \in j + 1 .. k : Apart(w[l], h)
    BY <1>2, <2>0 DEF MadeReady
  <2>2. ASSUME NEW l \in j .. k - 1  PROVE Apart(v[l], h)
    <3>1. l \in 1 .. Len(v) /\ l + 1 \in j + 1 .. k  BY <1>0
    <3>. QED  BY <1>0, <2>1, <3>1
  <2>3. CASE j = 1  BY <2>1, <2>2, <2>3
  <2>4. CASE j # 1
    <3>. DEFINE i == j - 1
    <3>1. i \in 1 .. k - 1 /\ i \in 1 .. Len(v) /\ i + 1 = j  BY <1>0, <2>4
    <3>. HIDE DEF i
    <3>2. Copies(v[i], h)  BY <1>0, <2>1, <3>1
    <3>3. \A l \in i + 1 .. k - 1 : Apart(v[l], h)  BY <2>2, <3>1
    <3>. QED  BY <3>1, <3>2, <3>3 DEF MadeReady
  <2>. QED  BY <2>3, <2>4
<1>. QED  BY <1>1, <1>2

\* What is ready now stays so, and the first step does not touch it.
LEMMA IsReadyTail ==
  ASSUME NEW w, NEW v, IsTail(v, w), NEW k \in 1 .. Len(v), NEW h, NEW a, IsReady(w, a, k + 1, h)
  PROVE  IsReady(v, a, k, h) /\ Apart(w[1], h)
<1>0. Len(v) \in Nat /\ \A i \in 1 .. Len(v) : v[i] = w[i + 1]  BY DEF IsTail
<1>1. (k + 1) - 1 = k  OBVIOUS
<1>2. InOrder(a, h[1], h[2]) /\ \A l \in 1 .. k : Apart(w[l], h)  BY <1>1 DEF IsReady
<1>3. ASSUME NEW l \in 1 .. k - 1  PROVE Apart(v[l], h)
  <2>1. l \in 1 .. Len(v) /\ l + 1 \in 1 .. k  BY <1>0
  <2>. QED  BY <1>0, <1>2, <2>1
<1>4. 1 \in 1 .. k  OBVIOUS
<1>. QED  BY <1>2, <1>3, <1>4 DEF IsReady

\* The halves of a step lie where its cells do.
LEMMA HalfWithin ==
  ASSUME NEW lo \in Int, NEW hi \in Int, NEW s \in PlanSteps(lo, hi), NEW h \in HalvesOf(s)
  PROVE  /\ h[1] \in Int /\ h[2] \in Int /\ lo <= h[1] /\ h[2] <= hi
         /\ s.begin \in Int /\ s.end \in Int /\ s.begin <= h[1] /\ h[2] <= s.end
<1>1. s.begin \in Int /\ s.mid \in Int /\ s.end \in Int
      /\ lo <= s.begin /\ s.begin <= s.mid /\ s.begin <= s.end /\ s.end <= hi
  BY DEF PlanSteps
<1>2. CASE h = <<s.begin, Least(s.mid, s.end)>>
  <2>1. h[1] = s.begin /\ h[2] = Least(s.mid, s.end)  BY <1>2
  <2>2. Least(s.mid, s.end) \in Int /\ Least(s.mid, s.end) <= s.end  BY <1>1 DEF Least
  <2>. QED  BY <1>1, <2>1, <2>2
<1>3. CASE h = <<s.mid, s.end>>
  <2>1. h[1] = s.mid /\ h[2] = s.end  BY <1>3
  <2>. QED  BY <1>1, <2>1
<1>. QED  BY <1>2, <1>3 DEF HalvesOf

\* The last step stays the last.
LEMMA EndsTail ==
  ASSUME NEW w, NEW v, IsTail(v, w), NEW lo, NEW hi, NEW a, NEW b, w # <<>>, Ends(w, lo, hi, a),
         v = <<>> => (Copies(w[1], <<lo, hi>>) => InOrder(b, lo, hi))
  PROVE  Ends(v, lo, hi, b)
<1>1. Len(v) \in Nat /\ Len(w) = Len(v) + 1 /\ (v = <<>> <=> Len(v) = 0)
      /\ \A k \in 1 .. Len(v) : v[k] = w[k + 1]
  BY DEF IsTail
<1>2. Copies(w[Len(w)], <<lo, hi>>)  BY DEF Ends
<1>3. CASE v = <<>>
  <2>1. Len(w) = 1  BY <1>1, <1>3
  <2>. QED  BY <1>2, <1>3, <2>1 DEF Ends
<1>4. CASE v # <<>>
  <2>1. Len(v) \in 1 .. Len(v)  BY <1>1, <1>4
  <2>2. v[Len(v)] = w[Len(w)]  BY <1>1, <2>1
  <2>. QED  BY <1>2, <1>4, <2>2 DEF Ends
<1>. QED  BY <1>3, <1>4

\* Every copy after the first step comes after its merge.
LEMMA PairedTail ==
  ASSUME NEW w, NEW v, IsTail(v, w), NEW a, NEW a2, NEW b, NEW b2, Paired(w, a, a2),
         Len(v) >= 1 /\ v[1].do = "copy" /\ w[1].do = "merge" /\ SameSpan(w[1], v[1])
           => Pending(v[1], b, b2)
  PROVE  Paired(v, b, b2)
<1>1. Len(v) \in Nat /\ Len(w) = Len(v) + 1 /\ \A k \in 1 .. Len(v) : v[k] = w[k + 1]
  BY DEF IsTail
<1>2. ASSUME NEW k \in 1 .. Len(v), v[k].do = "copy"
      PROVE  IF k = 1 THEN Pending(v[1], b, b2) ELSE v[k - 1].do = "merge" /\ SameSpan(v[k - 1], v[k])
  <2>1. k + 1 \in 1 .. Len(w) /\ k + 1 # 1 /\ (k + 1) - 1 = k /\ v[k] = w[k + 1]  BY <1>1
  <2>2. w[k].do = "merge" /\ SameSpan(w[k], v[k])
    <3>1. w[(k + 1) - 1].do = "merge" /\ SameSpan(w[(k + 1) - 1], w[k + 1])
      BY <1>2, <2>1 DEF Paired
    <3>. QED  BY <2>1, <3>1
  <2>3. CASE k = 1
    <3>1. Len(v) >= 1  BY <1>1
    <3>. QED  BY <1>2, <2>2, <2>3, <3>1
  <2>4. CASE k # 1
    <3>1. k - 1 \in 1 .. Len(v) /\ (k - 1) + 1 = k  BY <1>1, <2>4
    <3>2. v[k - 1] = w[k]  BY <1>1, <3>1
    <3>. QED  BY <2>2, <2>4, <3>2
  <2>. QED  BY <2>3, <2>4
<1>. QED  BY <1>2 DEF Paired

\* A merge leaves in arr2 what the next step copies.
LEMMA PlanMerge ==
  ASSUME NEW lo \in Int, NEW hi \in Int, NEW a, NEW a2, \A c \in lo .. hi - 1 : a[c] \in Int,
         NEW w, Plan(w, lo, hi, a, a2), w # <<>>, w[1].do = "merge", NEW b2,
         \A c \in w[1].begin .. w[1].end - 1 :
           b2[c] = merge(a, w[1].begin, w[1].mid, w[1].end)[c]
  PROVE  Plan(Tail(w), lo, hi, a, b2)
<1>. DEFINE v == Tail(w)  b == w[1].begin  m == w[1].mid  e == w[1].end
<1>1. v \in Seq(PlanSteps(lo, hi)) /\ IsTail(v, w)  BY TailIs DEF Plan
<1>2. Len(v) \in Nat /\ Len(w) = Len(v) + 1 /\ \A k \in 1 .. Len(v) : v[k] = w[k + 1]
  BY <1>1 DEF IsTail
<1>. HIDE DEF v
<1>3. w[1] \in PlanSteps(lo, hi) /\ 1 \in 1 .. Len(w)
  <2>1. 1 \in 1 .. Len(w)  BY <1>2
  <2>. QED  BY <2>1, ElementOfSeq DEF Plan
<1>4. b \in Int /\ m \in Int /\ e \in Int /\ lo <= b /\ b <= m /\ b <= e /\ e <= hi
  BY <1>3 DEF PlanSteps
<1>5. ASSUME NEW h \in HalvesOf(w[1])  PROVE InOrder(a, h[1], h[2])
  <2>1. h[1] \in Int /\ h[2] \in Int /\ lo <= h[1] /\ h[2] <= hi  BY <1>3, HalfWithin
  <2>2. CASE MadeReady(w, 1, h)
    <3>1. h[2] - h[1] < 2  BY <2>2 DEF MadeReady
    <3>2. \A c \in h[1] .. h[2] - 1 : a[c] \in Int  BY <2>1
    <3>. QED  BY <2>1, <3>1, <3>2, FewInOrder
  <2>3. CASE IsReady(w, a, 1, h)  BY <2>3 DEF IsReady
  <2>. QED  BY <1>3, <2>2, <2>3 DEF Plan, Prepared
<1>6. InOrder(a, b, Least(m, e)) /\ InOrder(a, m, e)
  <2>. DEFINE h == <<b, Least(m, e)>>  g == <<m, e>>
  <2>1. h \in HalvesOf(w[1]) /\ g \in HalvesOf(w[1])  BY DEF HalvesOf
  <2>2. InOrder(a, h[1], h[2])  BY <1>5, <2>1
  <2>3. InOrder(a, g[1], g[2])  BY <1>5, <2>1
  <2>. QED  BY <2>2, <2>3
<1>7. Merged(merge(a, b, m, e), a, b, e)
  <2>1. \A c \in b .. e - 1 : a[c] \in Int  BY <1>4
  <2>. HIDE DEF b, m, e
  <2>. QED  BY <1>4, <1>6, <2>1, MergeSorts
<1>8. ASSUME SameSpan(w[1], v[1])  PROVE Pending(v[1], a, b2)
  <2>. DEFINE r == merge(a, b, m, e)
  <2>1. \A c \in b .. e - 1 : b2[c] = r[c]  OBVIOUS
  <2>2. InOrder(r, b, e) /\ Shuffled(r, a, b, e)  BY <1>7 DEF Merged
  <2>. HIDE DEF r
  <2>3. InOrder(b2, b, e)  BY <2>1, <2>2 DEF InOrder
  <2>4. Shuffled(b2, a, b, e)  BY <2>1, <2>2 DEF Shuffled
  <2>5. v[1].begin = b /\ v[1].end = e  BY <1>8 DEF SameSpan
  <2>. QED  BY <2>3, <2>4, <2>5 DEF Pending
<1>9. Prepared(v, a)
  <2>1. SUFFICES ASSUME NEW k \in 1 .. Len(v), v[k].do = "merge", NEW h \in HalvesOf(v[k])
                 PROVE  MadeReady(v, k, h) \/ IsReady(v, a, k, h)
    BY DEF Prepared
  <2>2. k + 1 \in 1 .. Len(w) /\ v[k] = w[k + 1]  BY <1>2
  <2>3. MadeReady(w, k + 1, h) \/ IsReady(w, a, k + 1, h)
    BY <2>1, <2>2 DEF Plan, Prepared
  <2>4. CASE MadeReady(w, k + 1, h)
    <3>1. ~Copies(w[1], h)  BY DEF Copies
    <3>. QED  BY <1>1, <2>4, <3>1, MadeReadyTail
  <2>5. CASE IsReady(w, a, k + 1, h)  BY <1>1, <2>5, IsReadyTail
  <2>. QED  BY <2>3, <2>4, <2>5
<1>10. Paired(v, a, b2)
  <2>1. Paired(w, a, a2)  BY DEF Plan
  <2>. QED  BY <1>1, <1>8, <2>1, PairedTail
<1>11. Ends(v, lo, hi, a)
  <2>1. Ends(w, lo, hi, a)  BY DEF Plan
  <2>2. ~Copies(w[1], <<lo, hi>>)  BY DEF Copies
  <2>. QED  BY <1>1, <2>1, <2>2, EndsTail
<1>12. Plan(v, lo, hi, a, b2)  BY <1>1, <1>9, <1>10, <1>11 DEF Plan
<1>. QED  BY <1>12 DEF v

\* A copy leaves its cells in order, and the others as they were.
LEMMA PlanCopy ==
  ASSUME NEW lo \in Int, NEW hi \in Int, NEW a, NEW a2,
         NEW w, Plan(w, lo, hi, a, a2), w # <<>>, w[1].do = "copy", NEW b,
         \A c \in w[1].begin .. w[1].end - 1 : b[c] = a2[c],
         \A c \in lo .. hi - 1 : c \notin w[1].begin .. w[1].end - 1 => b[c] = a[c]
  PROVE  Plan(Tail(w), lo, hi, b, a2) /\ Pending(w[1], a, a2)
<1>. DEFINE v == Tail(w)
<1>1. v \in Seq(PlanSteps(lo, hi)) /\ IsTail(v, w)  BY TailIs DEF Plan
<1>2. Len(v) \in Nat /\ Len(w) = Len(v) + 1 /\ \A k \in 1 .. Len(v) : v[k] = w[k + 1]
  BY <1>1 DEF IsTail
<1>. HIDE DEF v
<1>3. w[1] \in PlanSteps(lo, hi) /\ 1 \in 1 .. Len(w)
  <2>1. 1 \in 1 .. Len(w)  BY <1>2
  <2>. QED  BY <2>1, ElementOfSeq DEF Plan
<1>4. Pending(w[1], a, a2)  BY <1>3 DEF Plan, Paired
<1>5. InOrder(b, w[1].begin, w[1].end)
  BY <1>4 DEF Pending, InOrder
<1>6. Prepared(v, b)
  <2>1. SUFFICES ASSUME NEW k \in 1 .. Len(v), v[k].do = "merge", NEW h \in HalvesOf(v[k])
                 PROVE  MadeReady(v, k, h) \/ IsReady(v, b, k, h)
    BY DEF Prepared
  <2>2. k + 1 \in 1 .. Len(w) /\ v[k] = w[k + 1]  BY <1>2
  <2>3. MadeReady(w, k + 1, h) \/ IsReady(w, a, k + 1, h)
    BY <2>1, <2>2 DEF Plan, Prepared
  <2>4. CASE MadeReady(w, k + 1, h)
    <3>1. CASE MadeReady(v, k, h)  BY <3>1
    <3>2. CASE Copies(w[1], h) /\ \A l \in 1 .. k - 1 : Apart(v[l], h)
      <4>1. InOrder(b, h[1], h[2])  BY <1>5, <3>2 DEF Copies
      <4>. QED  BY <3>2, <4>1 DEF IsReady
    <3>. QED  BY <1>1, <2>4, <3>1, <3>2, MadeReadyTail
  <2>5. CASE IsReady(w, a, k + 1, h)
    <3>1. IsReady(v, a, k, h) /\ Apart(w[1], h)  BY <1>1, <2>5, IsReadyTail
    <3>2. v[k] \in PlanSteps(lo, hi)  BY <1>1, ElementOfSeq
    <3>3. h[1] \in Int /\ h[2] \in Int /\ lo <= h[1] /\ h[2] <= hi  BY <2>1, <3>2, HalfWithin
    <3>4. w[1].begin \in Int /\ w[1].end \in Int  BY <1>3 DEF PlanSteps
    <3>5. ASSUME NEW c \in h[1] .. h[2] - 1  PROVE b[c] = a[c]
      <4>1. c \in lo .. hi - 1  BY <3>3
      <4>2. c \notin w[1].begin .. w[1].end - 1  BY <3>1, <3>3, <3>4 DEF Apart
      <4>. QED  BY <4>1, <4>2
    <3>6. InOrder(b, h[1], h[2])  BY <3>1, <3>5 DEF IsReady, InOrder
    <3>. QED  BY <3>1, <3>6 DEF IsReady
  <2>. QED  BY <2>3, <2>4, <2>5
<1>7. Paired(v, b, a2)
  <2>1. Paired(w, a, a2)  BY DEF Plan
  <2>. QED  BY <1>1, <2>1, PairedTail
<1>8. Ends(v, lo, hi, b)
  <2>1. Ends(w, lo, hi, a)  BY DEF Plan
  <2>2. Copies(w[1], <<lo, hi>>) => InOrder(b, lo, hi)  BY <1>5 DEF Copies
  <2>. QED  BY <1>1, <2>1, <2>2, EndsTail
<1>9. Plan(v, lo, hi, b, a2)  BY <1>1, <1>6, <1>7, <1>8 DEF Plan
<1>. QED  BY <1>4, <1>9 DEF v

\* A plan is one for whatever holds the same in its cells.
LEMMA PlanKeeps ==
  ASSUME NEW lo \in Int, NEW hi \in Int, NEW a, NEW a2, NEW w, Plan(w, lo, hi, a, a2),
         NEW b, NEW b2, \A c \in lo .. hi - 1 : b[c] = a[c] /\ b2[c] = a2[c]
  PROVE  Plan(w, lo, hi, b, b2)
<1>0. \A k \in 1 .. Len(w) : w[k] \in PlanSteps(lo, hi)  BY ElementOfSeq DEF Plan
<1>1. Prepared(w, b)
  <2>1. SUFFICES ASSUME NEW k \in 1 .. Len(w), w[k].do = "merge", NEW h \in HalvesOf(w[k])
                 PROVE  MadeReady(w, k, h) \/ IsReady(w, b, k, h)
    BY DEF Prepared
  <2>2. CASE MadeReady(w, k, h)  BY <2>2
  <2>3. CASE IsReady(w, a, k, h)
    <3>1. h[1] \in Int /\ h[2] \in Int /\ lo <= h[1] /\ h[2] <= hi  BY <1>0, <2>1, HalfWithin
    <3>2. \A c \in h[1] .. h[2] - 1 : b[c] = a[c]  BY <3>1
    <3>3. InOrder(b, h[1], h[2])  BY <2>3, <3>2 DEF IsReady, InOrder
    <3>. QED  BY <2>3, <3>3 DEF IsReady
  <2>. QED  BY <2>1, <2>2, <2>3 DEF Plan, Prepared
<1>2. Paired(w, b, b2)
  <2>1. SUFFICES ASSUME NEW k \in 1 .. Len(w), w[k].do = "copy"
                 PROVE  IF k = 1 THEN Pending(w[1], b, b2)
                        ELSE w[k - 1].do = "merge" /\ SameSpan(w[k - 1], w[k])
    BY DEF Paired
  <2>2. CASE k = 1
    <3>. DEFINE s == w[1]
    <3>1. Pending(s, a, a2) /\ s \in PlanSteps(lo, hi)  BY <1>0, <2>1, <2>2 DEF Plan, Paired
    <3>. HIDE DEF s
    <3>2. s.begin \in Int /\ s.end \in Int /\ lo <= s.begin /\ s.end <= hi  BY <3>1 DEF PlanSteps
    <3>3. \A c \in s.begin .. s.end - 1 : b[c] = a[c] /\ b2[c] = a2[c]  BY <3>2
    <3>4. InOrder(b2, s.begin, s.end)  BY <3>1, <3>3 DEF Pending, InOrder
    <3>5. Shuffled(b2, b, s.begin, s.end)
      <4>. DEFINE S == s.begin .. s.end - 1
      <4>1. PICK p \in Bijection(S, S) : \A c \in S : a2[c] = a[p[c]]
        BY <3>1 DEF Pending, Shuffled
      <4>2. \A c \in S : p[c] \in S  BY DEF Bijection, Injection
      <4>3. \A c \in S : b2[c] = b[p[c]]  BY <3>3, <4>1, <4>2
      <4>. QED  BY <4>3 DEF Shuffled
    <3>6. Pending(s, b, b2)  BY <3>4, <3>5 DEF Pending
    <3>. QED  BY <2>2, <3>6 DEF s
  <2>3. CASE k # 1  BY <2>1, <2>3 DEF Plan, Paired
  <2>. QED  BY <2>2, <2>3
<1>3. Ends(w, lo, hi, b)
  BY DEF Plan, Ends, InOrder
<1>. QED  BY <1>1, <1>2, <1>3 DEF Plan

-----------------------------------------------------------------------------
(* Cells in another order. *)

\* Cells that hold the same are shuffled.
LEMMA ShuffledSelf ==
  ASSUME NEW lo, NEW hi, NEW x, NEW y, \A c \in lo .. hi - 1 : x[c] = y[c]
  PROVE  Shuffled(x, y, lo, hi)
<1>. DEFINE S == lo .. hi - 1  p == [c \in S |-> c]
<1>1. p \in Bijection(S, S)  BY DEF Bijection, Injection, Surjection, IsInjective
<1>2. \A c \in S : x[c] = y[p[c]]  OBVIOUS
<1>. QED  BY <1>1, <1>2 DEF Shuffled

\* Cells that are in another order within a span are so within more cells.
LEMMA ShuffledWider ==
  ASSUME NEW lo \in Int, NEW hi \in Int, NEW b \in Int, NEW e \in Int, lo <= b, e <= hi,
         NEW x, NEW y, NEW z, Shuffled(z, y, b, e), \A c \in b .. e - 1 : x[c] = z[c],
         \A c \in lo .. hi - 1 : c \notin b .. e - 1 => x[c] = y[c]
  PROVE  Shuffled(x, y, lo, hi)
<1>. DEFINE S == lo .. hi - 1  T == b .. e - 1
<1>1. PICK p \in Bijection(T, T) : \A c \in T : z[c] = y[p[c]]  BY DEF Shuffled
<1>2. /\ \A c \in T : p[c] \in T
      /\ \A c, d \in T : p[c] = p[d] => c = d
  BY Fun_IsBij, Fun_IsInj DEF Bijection, Injection, IsInjective
<1>3. T \subseteq S  OBVIOUS
<1>. HIDE DEF S, T
<1>. DEFINE q == [c \in S |-> IF c \in T THEN p[c] ELSE c]
<1>4. q \in [S -> S]  BY <1>2, <1>3
<1>5. \A c, d \in S : q[c] = q[d] => c = d  BY <1>2
<1>6. IsFiniteSet(S)
  <2>1. lo \in Int /\ hi - 1 \in Int  OBVIOUS
  <2>. QED  BY <2>1, FS_Interval DEF S
<1>7. q \in Bijection(S, S)  BY <1>4, <1>5, <1>6, OwnBijection
<1>8. \A c \in S : x[c] = y[q[c]]
  BY <1>1 DEF S, T
<1>. HIDE DEF q
<1>9. Shuffled(x, y, lo, hi)  BY <1>7, <1>8 DEF Shuffled, S
<1>. QED  BY <1>9

\* Cells that are shuffled twice are shuffled.
LEMMA ShuffledTwice ==
  ASSUME NEW lo \in Int, NEW hi \in Int, NEW x, NEW y, NEW z, Shuffled(x, y, lo, hi), Shuffled(y, z, lo, hi)
  PROVE  Shuffled(x, z, lo, hi)
<1>. DEFINE S == lo .. hi - 1
<1>1. PICK p \in Bijection(S, S) : \A c \in S : x[c] = y[p[c]]  BY DEF Shuffled
<1>2. PICK q \in Bijection(S, S) : \A c \in S : y[c] = z[q[c]]  BY DEF Shuffled
<1>. HIDE DEF S
<1>3. p \in [S -> S] /\ q \in [S -> S]  BY DEF Bijection, Injection
<1>4. (\A c, d \in S : p[c] = p[d] => c = d) /\ (\A c, d \in S : q[c] = q[d] => c = d)
  BY Fun_IsInj DEF Bijection, Injection, IsInjective
<1>. DEFINE r == [c \in S |-> q[p[c]]]
<1>5. r \in [S -> S]  BY <1>3
<1>6. \A c, d \in S : r[c] = r[d] => c = d  BY <1>3, <1>4
<1>7. IsFiniteSet(S)
  <2>1. lo \in Int /\ hi - 1 \in Int  OBVIOUS
  <2>. QED  BY <2>1, FS_Interval DEF S
<1>8. r \in Bijection(S, S)  BY <1>5, <1>6, <1>7, OwnBijection
<1>9. \A c \in S : x[c] = z[r[c]]
  BY <1>1, <1>2, <1>3
<1>. HIDE DEF r
<1>. QED  BY <1>8, <1>9 DEF Shuffled, S

-----------------------------------------------------------------------------
(* Where the blocks are. *)

\* Powers of two double: so do the sets of some numbers with one number more.
LEMMA PowerDoubles ==
  ASSUME NEW n \in Nat
  PROVE  2 ^ (n + 1) = 2 * 2 ^ n
<1>. DEFINE S == 1 .. n  A == SUBSET S  U == 1 .. n + 1  B == {s \cup {n + 1} : s \in A}
<1>1. /\ IsFiniteSet(S) /\ Cardinality(S) = n
      /\ IsFiniteSet(U) /\ Cardinality(U) = n + 1
  <2>1. 1 \in Int /\ n \in Int /\ n + 1 \in Int  OBVIOUS
  <2>2. IsFiniteSet(S) /\ Cardinality(S) = n  BY <2>1, FS_Interval
  <2>3. IsFiniteSet(U) /\ Cardinality(U) = n + 1  BY <2>1, FS_Interval
  <2>. QED  BY <2>2, <2>3
<1>2. n + 1 \notin S /\ U = S \cup {n + 1}  OBVIOUS
<1>3. IsFiniteSet(A) /\ Cardinality(A) = 2 ^ n
  <2>1. IsFiniteSet(SUBSET S) /\ Cardinality(SUBSET S) = 2 ^ Cardinality(S)  BY <1>1, FS_SUBSET
  <2>. QED  BY <1>1, <2>1
<1>4. IsFiniteSet(SUBSET U) /\ Cardinality(SUBSET U) = 2 ^ (n + 1)
  <2>1. IsFiniteSet(SUBSET U) /\ Cardinality(SUBSET U) = 2 ^ Cardinality(U)  BY <1>1, FS_SUBSET
  <2>. QED  BY <1>1, <2>1
<1>. HIDE DEF S, U
<1>5. ExistsBijection(A, B)
  <2>. DEFINE f == [s \in A |-> s \cup {n + 1}]
  <2>1. f \in [A -> B]  OBVIOUS
  <2>2. \A s, t \in A : f[s] = f[t] => s = t
    <3>1. SUFFICES ASSUME NEW s \in A, NEW t \in A, s \cup {n + 1} = t \cup {n + 1}
                   PROVE  s = t
      OBVIOUS
    <3>2. n + 1 \notin s /\ n + 1 \notin t  BY <1>2
    <3>. QED  BY <3>1, <3>2
  <2>3. \A t \in B : \E s \in A : f[s] = t  OBVIOUS
  <2>4. f \in Bijection(A, B)
    BY <2>1, <2>2, <2>3 DEF Bijection, Injection, Surjection, IsInjective
  <2>. QED  BY <2>4 DEF ExistsBijection
<1>6. IsFiniteSet(B) /\ Cardinality(B) = 2 ^ n
  <2>. HIDE DEF A, B
  <2>1. IsFiniteSet(B) /\ Cardinality(B) = Cardinality(A)  BY <1>3, <1>5, FS_Bijection
  <2>. QED  BY <1>3, <2>1
<1>7. SUBSET U = A \cup B
  <2>1. ASSUME NEW s \in SUBSET U  PROVE s \in A \cup B
    <3>1. CASE n + 1 \notin s  BY <1>2, <3>1
    <3>2. CASE n + 1 \in s
      <4>1. s \ {n + 1} \in A /\ s = (s \ {n + 1}) \cup {n + 1}  BY <1>2, <3>2
      <4>. QED  BY <4>1
    <3>. QED  BY <3>1, <3>2
  <2>2. ASSUME NEW s \in A \cup B  PROVE s \in SUBSET U
    BY <1>2
  <2>. QED  BY <2>1, <2>2
<1>8. A \cap B = {}
  <2>1. \A s \in A : n + 1 \notin s  BY <1>2
  <2>2. \A s \in B : n + 1 \in s  OBVIOUS
  <2>. QED  BY <2>1, <2>2
<1>. HIDE DEF A, B
<1>9. Cardinality(A \cup B) = Cardinality(A) + Cardinality(B) - Cardinality({})
  <2>1. Cardinality(A \cup B) = Cardinality(A) + Cardinality(B) - Cardinality(A \cap B)
    BY <1>3, <1>6, FS_Union
  <2>. QED  BY <1>8, <2>1
<1>10. Cardinality({}) = 0  BY FS_EmptySet
<1>11. 2 ^ n \in Nat /\ 2 ^ (n + 1) \in Nat  BY Power
<1>12. 2 ^ (n + 1) = 2 ^ n + 2 ^ n - 0  BY <1>3, <1>4, <1>6, <1>7, <1>9, <1>10
<1>. QED  BY <1>11, <1>12

\* Where block i ends, the end not included.
EndOf(w, n, i) == (IF (i + 1) * w - 1 > n THEN n ELSE (i + 1) * w - 1) + 1

\* Blocks are not empty.
LEMMA CoverWidth ==
  ASSUME NEW w, NEW n, NEW r, CoverOf(w, n, r)
  PROVE  w >= 1
<1>1. w \in Nat /\ n \in Nat /\ r \in Nat /\ n < r * w  BY DEF CoverOf
<1>2. ASSUME w = 0 PROVE FALSE
  <2>1. r * w = 0  BY <1>1, <1>2
  <2>. QED  BY <1>1, <2>1
<1>. QED  BY <1>1, <1>2

\* It ends at x, unless there are no more than n + 1 cells.
EndsAt(w, n, i, x) == EndOf(w, n, i) = (IF x - 1 > n THEN n ELSE x - 1) + 1

\* Where a block ends follows from where the next one starts.
LEMMA EndIs ==
  ASSUME NEW w, NEW n, NEW i, NEW x, (i + 1) * w = x
  PROVE  EndsAt(w, n, i, x)
BY DEF EndOf, EndsAt

\* A block is not empty, and lies within the cells 0 .. n.
LEMMA CoverCells ==
  ASSUME NEW w, NEW n, NEW r, CoverOf(w, n, r), NEW i \in 0 .. r - 1
  PROVE  /\ i * w \in Nat /\ EndOf(w, n, i) \in Nat
         /\ i * w < EndOf(w, n, i) /\ i * w <= n /\ EndOf(w, n, i) <= n + 1
         /\ EndOf(w, n, i) <= i * w + w
<1>1. w \in Nat /\ n \in Nat /\ r \in Nat /\ r >= 1 /\ (r - 1) * w <= n  BY DEF CoverOf
<1>2. w >= 1  BY CoverWidth
<1>3. i \in Nat /\ i <= r - 1  BY <1>1
<1>4. i * w <= (r - 1) * w  BY <1>1, <1>3
<1>. DEFINE p == i * w  q == (r - 1) * w
<1>5. p \in Nat /\ q \in Nat /\ (i + 1) * w = p + w  BY <1>1, <1>3
<1>. HIDE DEF p, q
<1>6. p <= n  BY <1>1, <1>4, <1>5 DEF p, q
<1>7. EndOf(w, n, i) = (IF (p + w) - 1 > n THEN n ELSE (p + w) - 1) + 1
  <2>1. EndsAt(w, n, i, p + w)  BY <1>5, EndIs
  <2>. QED  BY <2>1 DEF EndsAt
<1>8. p \in Nat /\ EndOf(w, n, i) \in Nat /\ p < EndOf(w, n, i) /\ EndOf(w, n, i) <= n + 1
      /\ EndOf(w, n, i) <= p + w
  BY <1>1, <1>2, <1>5, <1>6, <1>7
<1>. QED  BY <1>6, <1>8 DEF p

\* Two blocks have no cell in common.
LEMMA CoverApart ==
  ASSUME NEW w, NEW n, NEW r, CoverOf(w, n, r), NEW i \in 0 .. r - 1, NEW j \in 0 .. r - 1, i # j
  PROVE  EndOf(w, n, i) <= j * w \/ EndOf(w, n, j) <= i * w
<1>1. w \in Nat /\ n \in Nat /\ r \in Nat  BY DEF CoverOf
<1>2. ASSUME NEW k \in 0 .. r - 1, NEW l \in 0 .. r - 1, k < l  PROVE EndOf(w, n, k) <= l * w
  <2>1. k \in Nat /\ l \in Nat /\ k + 1 <= l  BY <1>1, <1>2
  <2>2. (k + 1) * w <= l * w  BY <1>1, <2>1
  <2>. DEFINE p == k * w  q == l * w
  <2>3. p \in Nat /\ q \in Nat /\ (k + 1) * w = p + w  BY <1>1, <2>1
  <2>4. EndOf(w, n, k) \in Nat /\ EndOf(w, n, k) <= p + w  BY CoverCells
  <2>. HIDE DEF p, q
  <2>5. EndOf(w, n, k) <= q  BY <1>1, <2>2, <2>3, <2>4 DEF q
  <2>. QED  BY <2>5 DEF q
<1>3. i \in Nat /\ j \in Nat  BY <1>1
<1>4. CASE i < j  BY <1>2, <1>4
<1>5. CASE j < i  BY <1>2, <1>5
<1>. QED  BY <1>3, <1>4, <1>5

\* One block is all cells.
LEMMA CoverOne ==
  ASSUME NEW w, NEW n, CoverOf(w, n, 1)
  PROVE  EndOf(w, n, 0) = n + 1
<1>1. w \in Nat /\ n \in Nat /\ n < 1 * w  BY DEF CoverOf
<1>2. (0 + 1) * w = w /\ 1 * w = w  BY <1>1
<1>. QED  BY <1>1, <1>2 DEF EndOf

\* What the blocks of the next round are made of.
LEMMA CoverNext ==
  ASSUME NEW w, NEW n, NEW r, CoverOf(w, n, r)
  PROVE  CoverOf(2 * w, n, (r + 1) \div 2)
<1>1. w \in Nat /\ n \in Nat /\ r \in Nat /\ r >= 1 /\ (r - 1) * w <= n /\ n < r * w  BY DEF CoverOf
<1>2. w >= 1  BY CoverWidth
<1>3. PICK k \in Nat : r = 2 * k \/ r = 2 * k + 1
  <2>1. r \div 2 \in Nat /\ (r = 2 * (r \div 2) \/ r = 2 * (r \div 2) + 1)  BY <1>1
  <2>. QED  BY <2>1
<1>. DEFINE p == k * w
<1>4. p \in Nat /\ 2 * w \in Nat  BY <1>1
<1>5. CASE r = 2 * k
  <2>1. (r + 1) \div 2 = k /\ k >= 1  BY <1>1, <1>5
  <2>2. (r - 1) * w = 2 * p - w  BY <1>1, <1>5
  <2>3. r * w = 2 * p  BY <1>1, <1>5
  <2>4. (k - 1) * (2 * w) = 2 * p - 2 * w /\ k * (2 * w) = 2 * p  BY <1>1
  <2>. HIDE DEF p
  <2>. QED  BY <1>1, <1>2, <1>4, <2>1, <2>2, <2>3, <2>4 DEF CoverOf
<1>6. CASE r = 2 * k + 1
  <2>1. (r + 1) \div 2 = k + 1  BY <1>1, <1>6
  <2>2. (r - 1) * w = 2 * p  BY <1>1, <1>6
  <2>3. r * w = 2 * p + w  BY <1>1, <1>6
  <2>4. (k + 1 - 1) * (2 * w) = 2 * p /\ (k + 1) * (2 * w) = 2 * p + 2 * w  BY <1>1
  <2>. HIDE DEF p
  <2>. QED  BY <1>1, <1>2, <1>4, <2>1, <2>2, <2>3, <2>4 DEF CoverOf
<1>. QED  BY <1>3, <1>5, <1>6

\* The blocks l and l + 1 are the halves of the new block i, or there is no block l + 1.
HalvesNext(w, n, r, i, l) ==
  /\ l \in 0 .. r - 1 /\ l * w = i * (2 * w)
  /\ EndOf(w, n, l) = Least(l * w + w, EndOf(2 * w, n, i))
  /\ \/ l + 1 \in 0 .. r - 1 /\ (l + 1) * w = l * w + w /\ EndOf(w, n, l + 1) = EndOf(2 * w, n, i)
     \/ EndOf(2 * w, n, i) <= l * w + w

\* The new blocks are made of two old ones.
LEMMA CoverHalves ==
  ASSUME NEW w, NEW n, NEW r, CoverOf(w, n, r), NEW i \in 0 .. (r + 1) \div 2 - 1
  PROVE  HalvesNext(w, n, r, i, 2 * i)
<1>1. w \in Nat /\ n \in Nat /\ r \in Nat /\ r >= 1 /\ (r - 1) * w <= n /\ n < r * w  BY DEF CoverOf
<1>2. w >= 1  BY CoverWidth
<1>3. i \in Nat /\ 2 * i + 1 <= r
  <2>1. (r + 1) \div 2 \in Nat /\ 2 * ((r + 1) \div 2) <= r + 1  BY <1>1
  <2>. QED  BY <1>1, <2>1
<1>. DEFINE l == 2 * i  p == i * w
<1>4. p \in Nat /\ l \in 0 .. r - 1  BY <1>1, <1>3
<1>a. l * w = 2 * p  BY <1>1, <1>3
<1>b. i * (2 * w) = 2 * p  BY <1>1, <1>3
<1>c. (l + 1) * w = 2 * p + w  BY <1>1, <1>3
<1>d. (i + 1) * (2 * w) = 2 * p + 2 * w  BY <1>1, <1>3
<1>e. (l + 1 + 1) * w = 2 * p + 2 * w  BY <1>1, <1>3
<1>6. EndOf(w, n, l) = (IF (2 * p + w) - 1 > n THEN n ELSE (2 * p + w) - 1) + 1
  <2>1. EndsAt(w, n, l, 2 * p + w)  BY <1>c, EndIs
  <2>. QED  BY <2>1 DEF EndsAt
<1>7. EndOf(2 * w, n, i) = (IF (2 * p + 2 * w) - 1 > n THEN n ELSE (2 * p + 2 * w) - 1) + 1
  <2>1. EndsAt(2 * w, n, i, 2 * p + 2 * w)  BY <1>d, EndIs
  <2>. QED  BY <2>1 DEF EndsAt
<1>8. EndOf(w, n, l + 1) = (IF (2 * p + 2 * w) - 1 > n THEN n ELSE (2 * p + 2 * w) - 1) + 1
  <2>1. EndsAt(w, n, l + 1, 2 * p + 2 * w)  BY <1>e, EndIs
  <2>. QED  BY <2>1 DEF EndsAt
<1>. HIDE DEF p
<1>5. l * w = 2 * p /\ i * (2 * w) = 2 * p /\ (l + 1) * w = 2 * p + w
  BY <1>a, <1>b, <1>c
<1>9. EndOf(w, n, l) = Least(2 * p + w, EndOf(2 * w, n, i))
  BY <1>1, <1>2, <1>4, <1>6, <1>7 DEF Least
<1>10. CASE l + 1 \in 0 .. r - 1
  <2>1. (l + 1) * w = l * w + w  BY <1>5
  <2>2. EndOf(w, n, l + 1) = EndOf(2 * w, n, i)  BY <1>7, <1>8
  <2>3. HalvesNext(w, n, r, i, l)
    <3>. HIDE DEF l
    <3>. QED  BY <1>4, <1>5, <1>9, <1>10, <2>1, <2>2, Zenon DEF HalvesNext
  <2>. QED  BY <2>3
<1>11. CASE l + 1 \notin 0 .. r - 1
  <2>1. r = l + 1  BY <1>1, <1>3, <1>11
  <2>2. n < 2 * p + w  BY <1>1, <1>5, <2>1
  <2>3. EndOf(2 * w, n, i) <= 2 * p + w  BY <1>1, <1>2, <1>4, <1>7, <2>2
  <2>4. HalvesNext(w, n, r, i, l)
    <3>. HIDE DEF l
    <3>. QED  BY <1>4, <1>5, <1>9, <2>3, Zenon DEF HalvesNext
  <2>. QED  BY <2>4
<1>. QED  BY <1>10, <1>11

\* The first blocks.
LEMMA CoverFirst ==
  ASSUME NEW b \in Nat \ {0}, NEW n \in Nat
  PROVE  CoverOf(b, n, n \div b + 1)
<1>1. PICK q \in Nat, r \in 0 .. b - 1 : n = b * q + r /\ n \div b = q  BY DivMod
<1>2. (q + 1 - 1) * b = b * q /\ (q + 1) * b = b * q + b  BY <1>1
<1>. DEFINE p == b * q
<1>3. p \in Nat  BY <1>1
<1>4. p <= n /\ n < p + b  BY <1>1, <1>3
<1>. HIDE DEF p
<1>5. (q + 1 - 1) * b = p /\ (q + 1) * b = p + b  BY <1>2 DEF p
<1>6. q + 1 \in Nat /\ q + 1 >= 1 /\ b \in Nat  OBVIOUS
<1>7. CoverOf(b, n, q + 1)  BY <1>3, <1>4, <1>5, <1>6 DEF CoverOf
<1>. QED  BY <1>1, <1>7

\* The step of a round merges two blocks that are in order.
LEMMA RoundPlan ==
  ASSUME NEW lo \in Int, NEW mid \in Int, NEW hi \in Int, lo <= mid, lo <= hi, NEW a, NEW a2,
         InOrder(a, lo, Least(mid, hi)), InOrder(a, mid, hi)
  PROVE  Plan(MergeAndCopy(lo, mid, hi), lo, hi, a, a2)
<1>. DEFINE w == MergeAndCopy(lo, mid, hi)
<1>1. w \in Seq(PlanSteps(lo, hi))  BY MergeAndCopyPlan
<1>2. Len(w) = 2 /\ w[1] = Do("merge", lo, mid, hi) /\ w[2] = Do("copy", lo, mid, hi) /\ w # <<>>
  BY DEF MergeAndCopy
<1>. HIDE DEF w
<1>3. w[1].do = "merge" /\ w[2].do = "copy" /\ SameSpan(w[1], w[2]) /\ Copies(w[2], <<lo, hi>>)
      /\ HalvesOf(w[1]) = {<<lo, Least(mid, hi)>>, <<mid, hi>>}
  BY <1>2 DEF Do, SameSpan, Copies, HalvesOf
<1>4. 1 .. Len(w) = {1, 2}  BY <1>2
<1>5. Prepared(w, a)
  <2>1. SUFFICES ASSUME NEW h \in HalvesOf(w[1])  PROVE IsReady(w, a, 1, h)
    BY <1>3, <1>4 DEF Prepared
  <2>2. InOrder(a, h[1], h[2])  BY <1>3
  <2>3. 1 .. 1 - 1 = {}  OBVIOUS
  <2>. QED  BY <2>2, <2>3 DEF IsReady
<1>6. Paired(w, a, a2)
  <2>1. 2 # 1 /\ 2 - 1 = 1  OBVIOUS
  <2>. QED  BY <1>3, <1>4, <2>1 DEF Paired
<1>7. Ends(w, lo, hi, a)  BY <1>2, <1>3 DEF Ends
<1>8. Plan(w, lo, hi, a, a2)  BY <1>1, <1>5, <1>6, <1>7 DEF Plan
<1>. QED  BY <1>8 DEF w

-----------------------------------------------------------------------------
(* The invariant of sorting. *)

\* Where block i is.
BlockAt(i) ==
  /\ Start(i) \in Int /\ End(i) + 1 \in Int /\ 0 <= Start(i)
  /\ Start(i) < End(i) + 1 /\ End(i) + 1 <= size + 1

\* Every block is within the array.
LEMMA BlocksAt ==
  ASSUME CoverOf(Width, size, running), NEW i \in Blocks
  PROVE  BlockAt(i)
<1>1. /\ i * Width \in Nat /\ EndOf(Width, size, i) \in Nat
      /\ i * Width < EndOf(Width, size, i) /\ EndOf(Width, size, i) <= size + 1
  BY CoverCells DEF Blocks
<1>2. Start(i) = i * Width  BY DEF Start
<1>3. End(i) + 1 = EndOf(Width, size, i)  BY DEF End, EndOf
<1>. QED  BY <1>1, <1>2, <1>3 DEF BlockAt

\* Blocks have no cell in common.
LEMMA BlocksApart ==
  ASSUME CoverOf(Width, size, running), NEW i \in Blocks, NEW j \in Blocks, i # j
  PROVE  End(i) + 1 <= Start(j) \/ End(j) + 1 <= Start(i)
<1>1. EndOf(Width, size, i) <= j * Width \/ EndOf(Width, size, j) <= i * Width
  BY CoverApart DEF Blocks
<1>2. Start(i) = i * Width /\ Start(j) = j * Width  BY DEF Start
<1>3. End(i) + 1 = EndOf(Width, size, i) /\ End(j) + 1 = EndOf(Width, size, j)  BY DEF End, EndOf
<1>. QED  BY <1>1, <1>2, <1>3

\* What the array holds are numbers.
LEMMA CellsAreNumbers ==
  ASSUME NEW a, NEW n, a \in [0 .. n -> Values], NEW c \in 0 .. n
  PROVE  a[c] \in Int
BY StatsAssumption DEF Values

\* Nothing is sorted yet.
LEMMA SortInvInit == StatsInit => SortInv
<1>. SUFFICES ASSUME StatsInit PROVE SortInv  OBVIOUS
<1>1. StatsInv  BY StatsInvInit
<1>2. our_main = "start"  BY DEF StatsInit
<1>. QED  BY <1>1, <1>2 DEF SortInv, Sorting

\* main fills the array.
LEMMA FinalMainSorts == SortInv /\ FinalMain => SortInv'
<1>. SUFFICES ASSUME SortInv, FinalMain PROVE SortInv'  OBVIOUS
<1>1. StatsInv'  BY StatsInvStep DEF SortInv, StatsNext
<1>2. our_main' = "init" /\ arr' \in [0 .. size' -> Values] /\ given' = arr'  BY DEF FinalMain
<1>3. Shuffled(arr', given', 0, size' + 1)
  <2>1. \A c \in 0 .. (size' + 1) - 1 : arr'[c] = given'[c]  BY <1>2
  <2>. QED  BY <2>1, ShuffledSelf
<1>. QED  BY <1>1, <1>2, <1>3 DEF SortInv, Sorting

\* Each thread that main starts has the plan of subsort.
LEMMA InitStatsSorts == SortInv /\ InitStats => SortInv'
<1>. SUFFICES ASSUME SortInv, InitStats PROVE SortInv'  OBVIOUS
<1>1. StatsInv'  BY StatsInvStep DEF SortInv, StatsNext
<1>2. our_main = "init" /\ our_main' = "join" /\ stat' = stat /\ arr' = arr /\ given' = given /\ size' = size
      /\ arr2' = [c \in 0 .. size |-> Unset] /\ level' = 0
  BY DEF InitStats
<1>3. arr \in [0 .. size -> Values] /\ given \in [0 .. size -> Values]
      /\ Shuffled(arr, given, 0, size + 1)
  BY <1>2 DEF SortInv
<1>4. PICK b \in Nat \ {0} : b = block'
  BY StatsAssumption DEF InitStats, findMinBlocksize
<1>5. size \in Nat
  BY StatsAssumption DEF SortInv, StatsInv, StatsTypeOK
<1>6. Width' = b
  <2>1. 2 ^ level' = 1  BY <1>2
  <2>2. b * 2 ^ level' = b * 1  BY <2>1, Zenon
  <2>3. b * 1 = b  OBVIOUS
  <2>. QED  BY <1>4, <2>2, <2>3, Zenon DEF Width
<1>7. CoverOf(Width', size', running')
  <2>1. running' = size \div b + 1  BY <1>4, Zenon DEF InitStats
  <2>2. CoverOf(b, size, size \div b + 1)  BY <1>5, CoverFirst
  <2>. QED  BY <1>2, <1>6, <2>1, <2>2
<1>8. ASSUME stat = "sort", NEW i \in Blocks'
      PROVE  Plan(work'[i], Start(i)', End(i)' + 1, arr', arr2')
  <2>. DEFINE lo == Start(i)'  hi == End(i)' + 1
  <2>1. lo \in Int /\ hi \in Int /\ 0 <= lo /\ lo < hi /\ hi <= size + 1
    <3>1. BlockAt(i)'
      <4>1. i \in 0 .. running' - 1  BY DEF Blocks
      <4>2. /\ i * Width' \in Nat /\ EndOf(Width', size', i) \in Nat
            /\ i * Width' < EndOf(Width', size', i) /\ EndOf(Width', size', i) <= size' + 1
        BY <1>7, <4>1, CoverCells
      <4>3. Start(i)' = i * Width'  BY DEF Start
      <4>4. End(i)' + 1 = EndOf(Width', size', i)  BY DEF End, EndOf
      <4>. QED  BY <4>2, <4>3, <4>4 DEF BlockAt
    <3>. QED  BY <1>2, <3>1 DEF BlockAt
  <2>2. work'[i] = subsort(lo, hi)
    BY <1>8 DEF InitStats, Blocks
  <2>. HIDE DEF lo, hi
  <2>3. Planned(subsort(lo, hi), lo, hi)
    <3>1. lo \in Nat /\ hi \in Nat /\ lo <= hi  BY <2>1
    <3>. QED  BY <3>1, SubsortPlanned
  <2>4. \A c \in lo .. hi - 1 : arr[c] \in Int
    <3>1. \A c \in lo .. hi - 1 : c \in 0 .. size  BY <1>5, <2>1
    <3>. QED  BY <1>3, <3>1, CellsAreNumbers
  <2>5. Plan(subsort(lo, hi), lo, hi, arr, arr2')  BY <2>1, <2>3, <2>4, PlannedIsPlan
  <2>. QED  BY <1>2, <2>2, <2>5 DEF lo, hi
<1>9. DOMAIN arr2' = 0 .. size'  BY <1>2
<1>. QED  BY <1>1, <1>2, <1>3, <1>7, <1>8, <1>9 DEF SortInv, Sorting

\* A thread makes the first step of its plan.
LEMMA SortSorts == ASSUME SortInv, NEW i \in Blocks, Sort(i) PROVE SortInv'
<1>1. StatsInv'
  <2>1. StatsNext  BY DEF StatsNext
  <2>. QED  BY <2>1, StatsInvStep DEF SortInv
<1>2. /\ our_main = "join" /\ stat = "sort" /\ Sorting /\ work[i] # <<>>
      /\ our_main' = our_main /\ stat' = stat /\ size' = size /\ running' = running /\ given' = given
      /\ level' = level /\ block' = block /\ work' = [work EXCEPT ![i] = Tail(@)]
  BY DEF Sort, Sorting
<1>3. /\ arr \in [0 .. size -> Values] /\ given \in [0 .. size -> Values]
      /\ Shuffled(arr, given, 0, size + 1)
      /\ DOMAIN arr2 = 0 .. size /\ CoverOf(Width, size, running)
      /\ \A k \in Blocks : Plan(work[k], Start(k), End(k) + 1, arr, arr2)
  BY <1>2 DEF SortInv
<1>4. size \in Nat /\ DOMAIN work = Blocks
  BY <1>2, StatsAssumption DEF SortInv, StatsInv, StatsTypeOK
<1>. DEFINE w == work[i]  lo == Start(i)  hi == End(i) + 1  s == w[1]  cells == s.begin .. s.end - 1
<1>5. lo \in Int /\ hi \in Int /\ 0 <= lo /\ hi <= size + 1
  <2>1. BlockAt(i)  BY <1>3, BlocksAt
  <2>. QED  BY <2>1 DEF BlockAt
<1>6. Plan(w, lo, hi, arr, arr2) /\ w # <<>>  BY <1>2, <1>3
<1>7. /\ work'[i] = Tail(w) /\ Head(w) = s
      /\ \A k \in Blocks : k # i => work'[k] = work[k]
  <2>1. w \in Seq(PlanSteps(lo, hi))  BY <1>6 DEF Plan
  <2>2. Head(w) = w[1]
    <3>. HIDE DEF w, lo, hi
    <3>. QED  BY <1>6, <2>1, TailIs
  <2>. QED  BY <1>2, <1>4, <2>2
<1>8. s \in PlanSteps(lo, hi)
  <2>1. w \in Seq(PlanSteps(lo, hi))  BY <1>6 DEF Plan
  <2>. HIDE DEF w, lo, hi
  <2>2. IsTail(Tail(w), w)  BY <1>6, <2>1, TailIs
  <2>3. 1 \in 1 .. Len(w)  BY <2>2 DEF IsTail
  <2>. QED  BY <2>1, <2>3, ElementOfSeq
<1>9. /\ s.do \in {"merge", "copy"} /\ s.begin \in Int /\ s.end \in Int /\ lo <= s.begin /\ s.end <= hi
  BY <1>8 DEF PlanSteps
<1>10. \A k : Start(k)' = Start(k) /\ End(k)' = End(k)
  BY <1>2 DEF Start, End, Width
<1>11. CoverOf(Width', size', running') /\ Blocks' = Blocks
  <2>1. Width' = Width  BY <1>2 DEF Width
  <2>. QED  BY <1>2, <1>3, <2>1 DEF Blocks
<1>12. ASSUME NEW k \in Blocks, k # i, NEW c \in Start(k) .. (End(k) + 1) - 1
       PROVE  c \in 0 .. size /\ c \notin cells
  <2>1. BlockAt(k)  BY <1>3, BlocksAt
  <2>2. hi <= Start(k) \/ End(k) + 1 <= lo  BY <1>3, <1>12, BlocksApart
  <2>. HIDE DEF lo, hi, s
  <2>. QED  BY <1>4, <1>5, <1>9, <2>1, <2>2 DEF BlockAt
<1>13. CASE s.do = "merge"
  <2>. DEFINE r == merge(arr, s.begin, s.mid, s.end)
  <2>1. arr' = arr /\ arr2' = [c \in 0 .. size |-> IF c \in cells THEN r[c] ELSE arr2[c]]
    BY <1>3, <1>7, <1>13 DEF Sort
  <2>2. \A c \in cells : arr2'[c] = r[c]
    <3>1. \A c \in cells : c \in 0 .. size
      <4>. HIDE DEF lo, hi, s
      <4>. QED  BY <1>4, <1>5, <1>9
    <3>. HIDE DEF cells, r
    <3>. QED  BY <2>1, <3>1
  <2>3. Plan(Tail(w), lo, hi, arr, arr2')
    <3>1. \A c \in lo .. hi - 1 : arr[c] \in Int
      <4>1. \A c \in lo .. hi - 1 : c \in 0 .. size
        <5>. HIDE DEF lo, hi
        <5>. QED  BY <1>4, <1>5
      <4>. QED  BY <1>3, <4>1, CellsAreNumbers
    <3>. HIDE DEF lo, hi, w
    <3>. QED  BY <1>5, <1>6, <1>13, <2>2, <3>1, PlanMerge
  <2>4. ASSUME NEW k \in Blocks  PROVE Plan(work'[k], Start(k), End(k) + 1, arr', arr2')
    <3>1. CASE k = i  BY <1>7, <2>1, <2>3, <3>1
    <3>2. CASE k # i
      <4>. DEFINE b == Start(k)  e == End(k) + 1
      <4>1. Plan(work[k], b, e, arr, arr2)  BY <1>3
      <4>2. b \in Int /\ e \in Int
        <5>1. BlockAt(k)  BY <1>3, BlocksAt
        <5>. QED  BY <5>1 DEF BlockAt
      <4>3. \A c \in b .. e - 1 : arr[c] = arr[c] /\ arr2'[c] = arr2[c]
        <5>1. \A c \in b .. e - 1 : c \in 0 .. size /\ c \notin cells  BY <1>12, <3>2
        <5>. HIDE DEF b, e, cells, r
        <5>. QED  BY <2>1, <5>1
      <4>. HIDE DEF b, e
      <4>4. Plan(work[k], b, e, arr, arr2')  BY <4>1, <4>2, <4>3, PlanKeeps
      <4>. QED  BY <1>7, <2>1, <3>2, <4>4 DEF b, e
    <3>. QED  BY <3>1, <3>2
  <2>5. DOMAIN arr2' = 0 .. size  BY <2>1
  <2>. HIDE DEF r, w, lo, hi, s, cells
  <2>. QED  BY <1>1, <1>2, <1>3, <1>10, <1>11, <2>1, <2>4, <2>5 DEF SortInv, Sorting
<1>14. CASE s.do = "copy"
  <2>1. arr2' = arr2 /\ arr' = [c \in 0 .. size |-> IF c \in cells THEN arr2[c] ELSE arr[c]]
    BY <1>3, <1>7, <1>14 DEF Sort
  <2>2. \A c \in cells : c \in 0 .. size /\ arr'[c] = arr2[c]
    <3>1. \A c \in cells : c \in 0 .. size
      <4>. HIDE DEF lo, hi, s
      <4>. QED  BY <1>4, <1>5, <1>9
    <3>. HIDE DEF cells
    <3>. QED  BY <2>1, <3>1
  <2>3. \A c \in 0 .. size : c \notin cells => arr'[c] = arr[c]
    <3>. HIDE DEF cells
    <3>. QED  BY <2>1
  <2>4. Plan(Tail(w), lo, hi, arr', arr2) /\ Pending(s, arr, arr2)
    <3>1. \A c \in lo .. hi - 1 : c \notin cells => arr'[c] = arr[c]
      <4>1. \A c \in lo .. hi - 1 : c \in 0 .. size
        <5>. HIDE DEF lo, hi
        <5>. QED  BY <1>4, <1>5
      <4>. QED  BY <2>3, <4>1
    <3>. HIDE DEF lo, hi, w
    <3>. QED  BY <1>5, <1>6, <1>14, <2>2, <3>1, PlanCopy
  <2>5. ASSUME NEW k \in Blocks  PROVE Plan(work'[k], Start(k), End(k) + 1, arr', arr2')
    <3>1. CASE k = i  BY <1>7, <2>1, <2>4, <3>1
    <3>2. CASE k # i
      <4>. DEFINE b == Start(k)  e == End(k) + 1
      <4>1. Plan(work[k], b, e, arr, arr2)  BY <1>3
      <4>2. b \in Int /\ e \in Int
        <5>1. BlockAt(k)  BY <1>3, BlocksAt
        <5>. QED  BY <5>1 DEF BlockAt
      <4>3. \A c \in b .. e - 1 : arr'[c] = arr[c] /\ arr2[c] = arr2[c]
        <5>1. \A c \in b .. e - 1 : c \in 0 .. size /\ c \notin cells  BY <1>12, <3>2
        <5>. HIDE DEF b, e, cells
        <5>. QED  BY <2>3, <5>1
      <4>. HIDE DEF b, e
      <4>4. Plan(work[k], b, e, arr', arr2)  BY <4>1, <4>2, <4>3, PlanKeeps
      <4>. QED  BY <1>7, <2>1, <3>2, <4>4 DEF b, e
    <3>. QED  BY <3>1, <3>2
  <2>6. arr' \in [0 .. size -> Values]
    <3>1. PICK p \in Bijection(cells, cells) : \A c \in cells : arr2[c] = arr[p[c]]
      BY <2>4 DEF Pending, Shuffled
    <3>2. \A c \in cells : p[c] \in cells  BY DEF Bijection, Injection
    <3>. HIDE DEF cells
    <3>3. \A c \in cells : arr2[c] \in Values  BY <1>3, <2>2, <3>1, <3>2
    <3>. QED  BY <1>3, <2>1, <3>3
  <2>7. Shuffled(arr', given, 0, size + 1)
    <3>1. Shuffled(arr2, arr, s.begin, s.end)  BY <2>4 DEF Pending
    <3>2. 0 <= s.begin /\ s.end <= size + 1 /\ 0 \in Int /\ size + 1 \in Int
      <4>. HIDE DEF lo, hi, s
      <4>. QED  BY <1>4, <1>5, <1>9
    <3>3. \A c \in 0 .. (size + 1) - 1 : c \notin cells => arr'[c] = arr[c]
      <4>1. (size + 1) - 1 = size  BY <1>4
      <4>. QED  BY <2>3, <4>1
    <3>. HIDE DEF s
    <3>4. Shuffled(arr', arr, 0, size + 1)  BY <1>9, <2>2, <3>1, <3>2, <3>3, ShuffledWider
    <3>. QED  BY <1>3, <3>2, <3>4, ShuffledTwice
  <2>. HIDE DEF w, lo, hi, s, cells
  <2>. QED  BY <1>1, <1>2, <1>3, <1>10, <1>11, <2>1, <2>5, <2>6, <2>7 DEF SortInv, Sorting
<1>. QED  BY <1>9, <1>13, <1>14

\* Each block is in order when its thread has ended; the next round pairs them.
LEMMA NextRoundSorts == SortInv /\ NextRound => SortInv'
<1>. SUFFICES ASSUME SortInv, NextRound PROVE SortInv'  OBVIOUS
<1>1. StatsInv'  BY StatsInvStep DEF SortInv, StatsNext
<1>2. /\ Sorting /\ our_main' = our_main /\ stat' = stat /\ our_main = "join" /\ stat = "sort"
      /\ arr' = arr /\ arr2' = arr2 /\ given' = given
      /\ size' = size /\ level' = level + 1 /\ block' = block /\ running' = (running + 1) \div 2
      /\ \A i \in Blocks : work[i] = <<>>
  BY DEF NextRound, Joined, Sorting
<1>3. /\ arr \in [0 .. size -> Values] /\ given \in [0 .. size -> Values]
      /\ Shuffled(arr, given, 0, size + 1)
      /\ DOMAIN arr2 = 0 .. size /\ CoverOf(Width, size, running)
      /\ \A k \in Blocks : Plan(work[k], Start(k), End(k) + 1, arr, arr2)
  BY <1>2 DEF SortInv
<1>4. \A k \in Blocks : InOrder(arr, Start(k), End(k) + 1)
  BY <1>2, <1>3 DEF Plan, Ends
<1>5. Width' = 2 * Width /\ Width \in Nat
  <2>1. level \in Nat /\ block \in Nat
    BY StatsAssumption DEF SortInv, StatsInv, StatsTypeOK, findMinBlocksize
  <2>2. 2 ^ (level + 1) = 2 * 2 ^ level  BY <2>1, PowerDoubles
  <2>. DEFINE p == 2 ^ level
  <2>3. p \in Nat  BY <2>1, Power
  <2>4. Width = block * p  BY DEF Width
  <2>5. Width' = block * (2 * p)  BY <1>2, <2>2 DEF Width
  <2>. HIDE DEF p
  <2>. QED  BY <2>1, <2>3, <2>4, <2>5
<1>. DEFINE W == Width  n == size  r == running
<1>6. CoverOf(2 * W, n, (r + 1) \div 2)
  <2>1. CoverOf(W, n, r)  BY <1>3
  <2>. HIDE DEF W, n, r
  <2>. QED  BY <2>1, CoverNext
<1>7. CoverOf(Width', size', running')  BY <1>2, <1>5, <1>6
<1>8. ASSUME NEW i \in Blocks'
      PROVE  Plan(work'[i], Start(i)', End(i)' + 1, arr', arr2')
  <2>1. i \in 0 .. (r + 1) \div 2 - 1  BY <1>2 DEF Blocks
  <2>2. HalvesNext(W, n, r, i, 2 * i)
    <3>1. CoverOf(W, n, r)  BY <1>3
    <3>. HIDE DEF W, n, r
    <3>. QED  BY <2>1, <3>1, CoverHalves
  <2>. DEFINE l == 2 * i  lo == l * W  mid == l * W + W  hi == EndOf(2 * W, n, i)
  <2>3. Start(i)' = lo
    <3>1. l * W = i * (2 * W)  BY <2>2 DEF HalvesNext
    <3>2. Start(i)' = i * (2 * W)  BY <1>5 DEF Start
    <3>. QED  BY <3>1, <3>2
  <2>4. End(i)' + 1 = hi  BY <1>2, <1>5 DEF End, EndOf
  <2>5. Mid(i)' = mid
    <3>1. (2 * Width) \div 2 = Width  BY <1>5
    <3>2. Mid(i)' = (2 * i + 1) * Width  BY <1>5, <3>1 DEF Mid
    <3>3. i \in Int  BY <2>1
    <3>4. (2 * i + 1) * Width = 2 * i * Width + Width  BY <1>5, <3>3
    <3>. QED  BY <3>2, <3>4
  <2>6. work'[i] = MergeAndCopy(lo, mid, hi)
    <3>1. work'[i] = MergeAndCopy(Start(i)', Mid(i)', End(i)' + 1)  BY DEF NextRound, Blocks
    <3>. QED  BY <2>3, <2>4, <2>5, <3>1
  <2>7. lo \in Int /\ mid \in Int /\ hi \in Int /\ lo <= mid /\ lo <= hi
    <3>1. /\ i * (2 * W) \in Nat /\ EndOf(2 * W, n, i) \in Nat /\ i * (2 * W) < EndOf(2 * W, n, i)
      <4>1. 2 * W \in Nat  BY <1>5
      <4>. HIDE DEF W, n, r
      <4>. QED  BY <1>6, <2>1, CoverCells
    <3>2. l * W = i * (2 * W)  BY <2>2 DEF HalvesNext
    <3>3. W \in Nat  BY <1>5
    <3>. HIDE DEF W, n, l
    <3>. QED  BY <3>1, <3>2, <3>3
  <2>8. InOrder(arr, lo, Least(mid, hi))
    <3>1. l \in Blocks /\ EndOf(W, n, l) = Least(mid, hi)  BY <2>2 DEF HalvesNext, Blocks
    <3>2. Start(l) = lo  BY DEF Start
    <3>3. End(l) + 1 = EndOf(W, n, l)  BY DEF End, EndOf
    <3>. HIDE DEF lo, mid, hi, l
    <3>. QED  BY <1>4, <3>1, <3>2, <3>3
  <2>9. InOrder(arr, mid, hi)
    <3>1. CASE l + 1 \in 0 .. r - 1 /\ (l + 1) * W = l * W + W /\ EndOf(W, n, l + 1) = hi
      <4>. DEFINE j == l + 1
      <4>1. j \in Blocks  BY <3>1 DEF Blocks
      <4>2. Start(j) = mid  BY <3>1 DEF Start
      <4>3. End(j) + 1 = hi
        <5>1. End(j) + 1 = EndOf(W, n, j)  BY DEF End, EndOf
        <5>. QED  BY <3>1, <5>1
      <4>. HIDE DEF j, mid, hi
      <4>. QED  BY <1>4, <4>1, <4>2, <4>3
    <3>2. CASE hi <= mid
      <4>. HIDE DEF mid, hi, lo
      <4>1. mid .. hi - 1 = {}  BY <2>7, <3>2
      <4>. QED  BY <4>1 DEF InOrder
    <3>. QED  BY <2>2, <3>1, <3>2 DEF HalvesNext
  <2>. HIDE DEF lo, mid, hi, l
  <2>10. Plan(MergeAndCopy(lo, mid, hi), lo, hi, arr, arr2)  BY <2>7, <2>8, <2>9, RoundPlan
  <2>. QED  BY <1>2, <2>3, <2>4, <2>6, <2>10
<1>. HIDE DEF W, n, r
<1>. QED  BY <1>1, <1>2, <1>3, <1>7, <1>8 DEF SortInv, Sorting

\* One block is left when main goes on: all cells.
LEMMA SortedSorts == SortInv /\ Sorted => SortInv'
<1>. SUFFICES ASSUME SortInv, Sorted PROVE SortInv'  OBVIOUS
<1>1. StatsInv'  BY StatsInvStep DEF SortInv, StatsNext
<1>2. /\ Sorting /\ our_main' \in {"done", "aborted"} /\ our_main = "join" /\ stat' = stat
      /\ arr' = arr /\ given' = given /\ size' = size
      /\ running \div 2 = 0 /\ \A i \in Blocks : work[i] = <<>>
  BY DEF Sorted, Joined, Sorting
<1>3. /\ arr \in [0 .. size -> Values] /\ given \in [0 .. size -> Values]
      /\ Shuffled(arr, given, 0, size + 1)
      /\ CoverOf(Width, size, running)
      /\ \A k \in Blocks : Plan(work[k], Start(k), End(k) + 1, arr, arr2)
  BY <1>2 DEF SortInv
<1>4. running = 1 /\ Width \in Nat  BY <1>2, <1>3 DEF CoverOf
<1>5. 0 \in Blocks  BY <1>4 DEF Blocks
<1>6. InOrder(arr, Start(0), End(0) + 1)  BY <1>2, <1>3, <1>5 DEF Plan, Ends
<1>7. Start(0) = 0  BY <1>4 DEF Start
<1>8. End(0) + 1 = size + 1
  <2>1. EndOf(Width, size, 0) = size + 1  BY <1>3, <1>4, CoverOne
  <2>. QED  BY <2>1 DEF End, EndOf
<1>9. InOrder(arr, 0, size + 1)  BY <1>6, <1>7, <1>8
<1>. QED  BY <1>1, <1>2, <1>3, <1>9 DEF SortInv, Sorting

\* Every step of main or of a thread preserves the invariant.
LEMMA SortInvStep == SortInv /\ [StatsNext]_stats_vars => SortInv'
<1>. SUFFICES ASSUME SortInv, [StatsNext]_stats_vars PROVE SortInv'  OBVIOUS
<1>0. StatsInv'  BY StatsInvStep DEF SortInv
<1>1. CASE UNCHANGED stats_vars
  <2>1. (\A k : Start(k)' = Start(k) /\ End(k)' = End(k)) /\ Width' = Width /\ Blocks' = Blocks
    BY <1>1 DEF stats_vars, Start, End, Width, Blocks
  <2>2. our_main' = our_main /\ stat' = stat /\ arr' = arr /\ arr2' = arr2 /\ given' = given /\ size' = size
        /\ running' = running /\ work' = work
    BY <1>1 DEF stats_vars
  <2>. QED  BY <1>0, <2>1, <2>2 DEF SortInv, Sorting
<1>2. CASE FinalMain  BY <1>2, FinalMainSorts
<1>3. CASE InitStats  BY <1>3, InitStatsSorts
<1>4. CASE Combine
  <2>1. stat # "sort" /\ our_main = "join" /\ our_main' \in {"init", "done"} /\ stat' # "sort"
        /\ arr' = arr /\ given' = given /\ size' = size
    BY <1>4 DEF Combine, Joined
  <2>. QED  BY <1>0, <2>1 DEF SortInv, Sorting
<1>5. CASE NextRound  BY <1>5, NextRoundSorts
<1>6. CASE Sorted  BY <1>6, SortedSorts
<1>7. ASSUME NEW i \in Blocks, Search(i)  PROVE SortInv'
  <2>1. stat # "sort" /\ our_main = "join" /\ our_main' = our_main /\ stat' = stat
        /\ arr' = arr /\ given' = given /\ size' = size
    BY <1>7 DEF Search
  <2>. QED  BY <1>0, <2>1 DEF SortInv, Sorting
<1>8. CASE \E i \in Blocks : Search(i) \/ Sort(i)
  BY <1>7, <1>8, SortSorts
<1>. QED  BY <1>1, <1>2, <1>3, <1>4, <1>5, <1>6, <1>8 DEF StatsNext

\* In order and shuffled: every value is there as often as it was.
LEMMA SortsCells == SortInv => SortsAll
<1>. SUFFICES ASSUME SortInv, stat = "sort", our_main \in {"done", "aborted"}
              PROVE  /\ \A c \in 1 .. size : arr[c - 1] <= arr[c]
                     /\ \A v \in Values : Cardinality({c \in 0 .. size : arr[c] = v})
                                          = Cardinality({c \in 0 .. size : given[c] = v})
  BY DEF SortsAll
<1>1. InOrder(arr, 0, size + 1) /\ Shuffled(arr, given, 0, size + 1)  BY DEF SortInv
<1>2. size \in Nat  BY StatsAssumption DEF SortInv, StatsInv, StatsTypeOK
<1>3. 0 .. (size + 1) - 1 = 0 .. size  BY <1>2
<1>4. ASSUME NEW c \in 1 .. size  PROVE arr[c - 1] <= arr[c]
  <2>1. c - 1 \in 0 .. size /\ c \in 0 .. size /\ c - 1 <= c  BY <1>2
  <2>. QED  BY <1>1, <1>3, <2>1 DEF InOrder
<1>5. ASSUME NEW v \in Values
      PROVE  Cardinality({c \in 0 .. size : arr[c] = v}) = Cardinality({c \in 0 .. size : given[c] = v})
  <2>. DEFINE S == 0 .. size  A == {c \in S : arr[c] = v}  G == {c \in S : given[c] = v}
  <2>1. PICK p \in Bijection(S, S) : \A c \in S : arr[c] = given[p[c]]  BY <1>1, <1>3 DEF Shuffled
  <2>2. IsFiniteSet(S)  BY <1>2, FS_Interval
  <2>3. IsFiniteSet(A)  BY <2>2, FS_Subset
  <2>. HIDE DEF S
  <2>4. /\ p \in [S -> S] /\ \A c, d \in S : p[c] = p[d] => c = d
        /\ \A d \in S : \E c \in S : p[c] = d
    BY DEF Bijection, Injection, Surjection, IsInjective
  <2>. DEFINE f == [c \in A |-> p[c]]
  <2>5. f \in [A -> G]  BY <2>1, <2>4
  <2>6. \A c, d \in A : f[c] = f[d] => c = d  BY <2>4
  <2>7. \A d \in G : \E c \in A : f[c] = d
    <3>. TAKE d \in G
    <3>1. PICK c \in S : p[c] = d  BY <2>4
    <3>2. c \in A  BY <2>1, <3>1
    <3>. QED  BY <3>1, <3>2
  <2>. HIDE DEF A, G
  <2>8. f \in Bijection(A, G)
    BY <2>5, <2>6, <2>7 DEF Bijection, Injection, Surjection, IsInjective
  <2>9. ExistsBijection(A, G)  BY <2>8 DEF ExistsBijection
  <2>10. Cardinality(A) = Cardinality(G)  BY <2>3, <2>9, FS_Bijection
  <2>. QED  BY <2>10 DEF A, G, S
<1>. QED  BY <1>4, <1>5

\* Whatever the size of the array and of the blocks, and in whatever order the threads run,
\* the merges sort: no cell is lost or taken twice.
THEOREM ArraysAreSorted == StatsSpec => []SortsAll
<1>1. StatsInit => SortInv  BY SortInvInit
<1>2. SortInv /\ [StatsNext]_stats_vars => SortInv'  BY SortInvStep
<1>3. SortInv => SortsAll  BY SortsCells
<1>. QED  BY <1>1, <1>2, <1>3, PTL DEF StatsSpec

-----------------------------------------------------------------------------
(* The invariant of the answers. *)

\* The thread of block i has found what it searched for.
FoundIs(i) ==
  /\ stat = "max" => found[i] = maxFind(i)
  /\ stat = "min" => found[i] = minFind(i)
  /\ stat = "pre" => found[i] = preFind(i)
  /\ stat = "suc" => found[i] = sucFind(i)
  /\ stat = "mean" => found[i] = meanFind(i)

\* The first blocks are searched, and a thread that has ended has found its answer.
Searched ==
  /\ level = 0 /\ running = size \div block + 1
  /\ whole => block > size
  /\ \A i \in Blocks : work[i] = <<>> => FoundIs(i)

AnswerInv ==
  /\ SortInv
  /\ our_main # "start" /\ stat # "sort" => arr = given
  /\ our_main # "start" /\ op \in {"max", "min", "pre", "suc", "mean"} => stat = op
  /\ our_main = "join" /\ stat # "sort" => Searched
  /\ AnswersRight

-----------------------------------------------------------------------------
(* The greatest and the least of some numbers. *)

\* The greatest of some numbers.
LEMMA MaxIs ==
  ASSUME NEW S \in SUBSET Int, NEW m \in S, \A k \in S : k <= m
  PROVE  Max(S) = m
<1>1. \A x \in S : (\A y \in S : x >= y) => x = m  OBVIOUS
<1>2. \A y \in S : m >= y  OBVIOUS
<1>. QED  BY <1>1, <1>2 DEF Max

\* The least of some numbers.
LEMMA MinIs ==
  ASSUME NEW S \in SUBSET Int, NEW m \in S, \A k \in S : m <= k
  PROVE  Min(S) = m
<1>1. \A x \in S : (\A y \in S : x <= y) => x = m  OBVIOUS
<1>2. \A y \in S : m <= y  OBVIOUS
<1>. QED  BY <1>1, <1>2 DEF Min

\* The greatest of some numbers up to n is one of them.
LEMMA MaxIn ==
  ASSUME NEW n \in Nat, NEW S \in SUBSET (0 .. n), S # {}
  PROVE  Max(S) \in S /\ \A k \in S : k <= Max(S)
<1>. DEFINE Below == {n - k : k \in S}
<1>1. Below \in SUBSET Nat /\ Below # {}
  <2>1. \A k \in S : k \in 0 .. n  OBVIOUS
  <2>2. \A k \in 0 .. n : n - k \in Nat  OBVIOUS
  <2>. QED  BY <2>1, <2>2
<1>2. PICK l \in Below : \A k \in Below : l <= k
  <2>. HIDE DEF Below
  <2>. QED  BY <1>1, LeastElement
<1>3. PICK m \in S : l = n - m  OBVIOUS
<1>4. \A k \in S : k <= m
  <2>. TAKE k \in S
  <2>1. l <= n - k  BY <1>2
  <2>. QED  BY <1>3, <2>1
<1>5. Max(S) = m  BY <1>4, MaxIs
<1>. QED  BY <1>4, <1>5

\* The least of some numbers up to n is one of them.
LEMMA MinIn ==
  ASSUME NEW n \in Nat, NEW S \in SUBSET (0 .. n), S # {}
  PROVE  Min(S) \in S /\ \A k \in S : Min(S) <= k
<1>1. S \in SUBSET Nat  OBVIOUS
<1>2. PICK m \in S : \A k \in S : m <= k  BY <1>1, LeastElement
<1>3. Min(S) = m  BY <1>2, MinIs
<1>. QED  BY <1>2, <1>3

-----------------------------------------------------------------------------
(* What a fold comes to, from its first element to its last. *)

\* f is what the recursion of FoldLeft says, for a step given as a function.
Folds(f, X, base, s, g) ==
  /\ f \in [SUBSET DOMAIN s -> X]
  /\ \A u \in SUBSET DOMAIN s : f[u] = IF u = {} THEN base ELSE g[<<f[u \ {Max(u)}], s[Max(u)]>>]

\* Such a function exists.
LEMMA FoldExists ==
  ASSUME NEW X, NEW T, NEW base \in X, NEW s \in Seq(T), NEW g \in [X \X T -> X]
  PROVE  \E f : Folds(f, X, base, s, g)
<1>. DEFINE Is(f, u) == f[u] = IF u = {} THEN base ELSE g[<<f[u \ {Max(u)}], s[Max(u)]>>]
            Done == {k \in Nat : \E f \in [SUBSET (1 .. k) -> X] : \A u \in SUBSET (1 .. k) : Is(f, u)}
<1>0. DOMAIN s = 1 .. Len(s) /\ Len(s) \in Nat /\ \A i \in 1 .. Len(s) : s[i] \in T
  BY LenProperties, ElementOfSeq
<1>1. 0 \in Done
  <2>. DEFINE f == [u \in SUBSET (1 .. 0) |-> base]
  <2>1. f \in [SUBSET (1 .. 0) -> X]  OBVIOUS
  <2>2. \A u \in SUBSET (1 .. 0) : u = {}  OBVIOUS
  <2>3. \A u \in SUBSET (1 .. 0) : Is(f, u)  BY <2>2
  <2>. QED  BY <2>1, <2>3
<1>2. ASSUME NEW k \in 1 .. Len(s), k - 1 \in Done  PROVE k \in Done
  <2>1. PICK f \in [SUBSET (1 .. k - 1) -> X] : \A u \in SUBSET (1 .. k - 1) : Is(f, u)
    BY <1>2
  <2>2. s[k] \in T  BY <1>0
  <2>. DEFINE h == [u \in SUBSET (1 .. k) |-> IF k \in u THEN g[<<f[u \ {k}], s[k]>>] ELSE f[u]]
  <2>3. ASSUME NEW u \in SUBSET (1 .. k)  PROVE u \ {k} \in SUBSET (1 .. k - 1)
    BY <1>0
  <2>4. ASSUME NEW u \in SUBSET (1 .. k), k \in u  PROVE Max(u) = k /\ u # {}
    <3>1. u \in SUBSET Int /\ \A x \in u : x <= k  BY <1>0
    <3>. QED  BY <2>4, <3>1, MaxIs
  <2>5. ASSUME NEW u \in SUBSET (1 .. k), k \notin u  PROVE u \in SUBSET (1 .. k - 1)
    BY <2>3, <2>5
  <2>6. h \in [SUBSET (1 .. k) -> X]
    <3>1. ASSUME NEW u \in SUBSET (1 .. k)
          PROVE  (IF k \in u THEN g[<<f[u \ {k}], s[k]>>] ELSE f[u]) \in X
      <4>1. f[u \ {k}] \in X  BY <2>3
      <4>2. k \notin u => f[u] \in X  BY <2>5
      <4>. QED  BY <2>2, <4>1, <4>2
    <3>. QED  BY <3>1
  <2>7. ASSUME NEW u \in SUBSET (1 .. k)  PROVE Is(h, u)
    <3>1. CASE k \in u
      <4>1. h[u] = g[<<f[u \ {k}], s[k]>>]  BY <3>1
      <4>2. u \ {k} \in SUBSET (1 .. k) /\ h[u \ {k}] = f[u \ {k}]  OBVIOUS
      <4>. HIDE DEF h
      <4>. QED  BY <3>1, <2>4, <4>1, <4>2
    <3>2. CASE k \notin u
      <4>1. h[u] = f[u]  BY <3>2
      <4>2. u \ {Max(u)} \in SUBSET (1 .. k) /\ h[u \ {Max(u)}] = f[u \ {Max(u)}]  BY <3>2
      <4>3. Is(f, u)  BY <2>1, <2>5, <3>2
      <4>. HIDE DEF h
      <4>. QED  BY <4>1, <4>2, <4>3
    <3>. QED  BY <3>1, <3>2
  <2>8. \E f2 \in [SUBSET (1 .. k) -> X] : \A u \in SUBSET (1 .. k) : Is(f2, u)
    <3>. HIDE DEF h
    <3>. QED  BY <2>6, <2>7, Zenon
  <2>9. k \in Nat  BY <1>0
  <2>. QED  BY <2>8, <2>9
<1>3. Len(s) \in Done
  <2>. HIDE DEF Done
  <2>. QED  BY <1>0, <1>1, <1>2, UpTo
<1>4. PICK f \in [SUBSET (1 .. Len(s)) -> X] : \A u \in SUBSET (1 .. Len(s)) : Is(f, u)
  BY <1>3
<1>. QED  BY <1>0, <1>4 DEF Folds

\* The largest index of some elements of a sequence is one of them.
LEMMA LastIn ==
  ASSUME NEW n \in Nat, NEW u \in SUBSET (1 .. n), u # {}
  PROVE  Max(u) \in u
<1>1. u \in SUBSET (0 .. n)  OBVIOUS
<1>. QED  BY <1>1, MaxIn

\* The elements FoldLeft has folded so far.
LEMMA Prefix ==
  ASSUME NEW k \in Nat \ {0}
  PROVE  1 .. k # {} /\ Max(1 .. k) = k /\ (1 .. k) \ {k} = 1 .. k - 1
<1>1. k \in 1 .. k /\ 1 .. k \in SUBSET Int /\ \A i \in 1 .. k : i <= k  OBVIOUS
<1>2. Max(1 .. k) = k  BY <1>1, MaxIs
<1>. QED  BY <1>2

Sum(s) == FoldLeft(LAMBDA x, y : x + y, 0, s)

\* Numbers add up to a number.
LEMMA SumIsInt ==
  ASSUME NEW s \in Seq(Int)
  PROVE  Sum(s) \in Int
<1>. DEFINE X == Int
            g == [p \in X \X Int |-> p[1] + p[2]]
            D == SUBSET DOMAIN s
            iter == CHOOSE f : f = [u \in D |-> IF u = {} THEN 0
                                                ELSE f[u \ {Max(u)}] + s[Max(u)]]
<1>0. DOMAIN s = 1 .. Len(s) /\ Len(s) \in Nat /\ \A i \in 1 .. Len(s) : s[i] \in Int
  BY LenProperties, ElementOfSeq
<1>1. g \in [X \X Int -> X]  OBVIOUS
<1>2. PICK f : Folds(f, X, 0, s, g)
  <2>1. 0 \in X  OBVIOUS
  <2>. HIDE DEF g, X
  <2>. QED  BY <1>1, <2>1, FoldExists
<1>3. ASSUME NEW u \in D
      PROVE  f[u] = IF u = {} THEN 0 ELSE f[u \ {Max(u)}] + s[Max(u)]
  <2>1. u # {} => s[Max(u)] \in Int  BY <1>0, LastIn
  <2>2. u \ {Max(u)} \in D /\ f[u \ {Max(u)}] \in X  BY <1>2 DEF Folds
  <2>. QED  BY <1>2, <2>1, <2>2 DEF Folds
<1>4. f = [u \in D |-> IF u = {} THEN 0 ELSE f[u \ {Max(u)}] + s[Max(u)]]
  BY <1>2, <1>3 DEF Folds
<1>5. iter = [u \in D |-> IF u = {} THEN 0 ELSE iter[u \ {Max(u)}] + s[Max(u)]]
  BY <1>4
<1>6. Sum(s) = iter[DOMAIN s]
  BY DEF Sum, FoldLeft, MapThenFoldSet
<1>. HIDE DEF iter
<1>. DEFINE In == {k \in 0 .. Len(s) : iter[1 .. k] \in Int}
<1>7. 0 \in In
  <2>1. 1 .. 0 = {} /\ {} \in D  OBVIOUS
  <2>2. iter[{}] = 0  BY <1>5, <2>1
  <2>. QED  BY <1>0, <2>1, <2>2
<1>8. ASSUME NEW k \in 1 .. Len(s), k - 1 \in In  PROVE k \in In
  <2>1. 1 .. k \in D /\ k - 1 \in 0 .. Len(s) /\ k \in 0 .. Len(s)
    <3>1. k \in 0 .. Len(s) /\ k - 1 \in 0 .. Len(s) /\ 1 .. k \subseteq 1 .. Len(s)  BY <1>0
    <3>. QED  BY <1>0, <3>1
  <2>2. 1 .. k # {} /\ Max(1 .. k) = k /\ (1 .. k) \ {k} = 1 .. k - 1
    <3>1. k \in Nat \ {0}  BY <1>0
    <3>. QED  BY <3>1, Prefix
  <2>3. iter[1 .. k] = iter[1 .. k - 1] + s[k]  BY <1>5, <2>1, <2>2
  <2>. QED  BY <1>0, <1>8, <2>1, <2>3
<1>9. Len(s) \in In
  <2>. HIDE DEF In
  <2>. QED  BY <1>0, <1>7, <1>8, UpTo
<1>. QED  BY <1>0, <1>6, <1>9

\* What ourPre takes from a block, and ourSuc.
Nearer(p, g) == IF target - p # 0 /\ target - p < target - g THEN p ELSE g
Closer(s, g) == IF s - target # 0 /\ s - target < g - target THEN s ELSE g

\* They take what some block has found.
LEMMA PreIsFound ==
  ASSUME NEW F, found[0] \in F, Tail(Results) \in Seq(F)
  PROVE  ourPre \in F
<1>. DEFINE base == found[0]  s == Tail(Results)
<1>a. base \in F /\ s \in Seq(F)  OBVIOUS
<1>b. ourPre = FoldLeft(LAMBDA g, p : Nearer(p, g), base, s)
  BY DEF ourPre, Nearer, FoldLeft, MapThenFoldSet
<1>. HIDE DEF base, s
<1>. DEFINE g == [p \in F \X F |-> Nearer(p[2], p[1])]
            D == SUBSET DOMAIN s
            iter == CHOOSE f : f = [u \in D |-> IF u = {} THEN base
                                                ELSE Nearer(s[Max(u)], f[u \ {Max(u)}])]
<1>0. DOMAIN s = 1 .. Len(s) /\ Len(s) \in Nat /\ \A i \in 1 .. Len(s) : s[i] \in F
  BY <1>a, LenProperties, ElementOfSeq
<1>1. g \in [F \X F -> F]  BY DEF Nearer
<1>2. PICK f : Folds(f, F, base, s, g)
  <2>. HIDE DEF g
  <2>. QED  BY <1>a, <1>1, FoldExists
<1>3. ASSUME NEW u \in D
      PROVE  f[u] = IF u = {} THEN base ELSE Nearer(s[Max(u)], f[u \ {Max(u)}])
  <2>1. u # {} => s[Max(u)] \in F  BY <1>0, LastIn
  <2>2. u \ {Max(u)} \in D /\ f[u \ {Max(u)}] \in F  BY <1>2 DEF Folds
  <2>. QED  BY <1>2, <2>1, <2>2 DEF Folds
<1>4. f = [u \in D |-> IF u = {} THEN base ELSE Nearer(s[Max(u)], f[u \ {Max(u)}])]
  BY <1>2, <1>3 DEF Folds
<1>5. iter = [u \in D |-> IF u = {} THEN base ELSE Nearer(s[Max(u)], iter[u \ {Max(u)}])]
  BY <1>4
<1>6. ourPre = iter[DOMAIN s]
  BY <1>b DEF FoldLeft, MapThenFoldSet
<1>. HIDE DEF iter
<1>. DEFINE In == {k \in 0 .. Len(s) : iter[1 .. k] \in F}
<1>7. 0 \in In
  <2>1. 1 .. 0 = {} /\ {} \in D  OBVIOUS
  <2>2. iter[{}] = base  BY <1>5, <2>1
  <2>. QED  BY <1>0, <1>a, <2>1, <2>2
<1>8. ASSUME NEW k \in 1 .. Len(s), k - 1 \in In  PROVE k \in In
  <2>1. 1 .. k \in D /\ k - 1 \in 0 .. Len(s) /\ k \in 0 .. Len(s)
    <3>1. k \in 0 .. Len(s) /\ k - 1 \in 0 .. Len(s) /\ 1 .. k \subseteq 1 .. Len(s)  BY <1>0
    <3>. QED  BY <1>0, <3>1
  <2>2. 1 .. k # {} /\ Max(1 .. k) = k /\ (1 .. k) \ {k} = 1 .. k - 1
    <3>1. k \in Nat \ {0}  BY <1>0
    <3>. QED  BY <3>1, Prefix
  <2>3. iter[1 .. k] = Nearer(s[k], iter[1 .. k - 1])  BY <1>5, <2>1, <2>2
  <2>. QED  BY <1>0, <1>8, <2>1, <2>3 DEF Nearer
<1>9. Len(s) \in In
  <2>. HIDE DEF In
  <2>. QED  BY <1>0, <1>7, <1>8, UpTo
<1>. QED  BY <1>0, <1>6, <1>9

\* The same of the loop of ourSuc.
LEMMA SucIsFound ==
  ASSUME NEW F, found[0] \in F, Tail(Results) \in Seq(F)
  PROVE  ourSuc \in F
<1>. DEFINE base == found[0]  s == Tail(Results)
<1>a. base \in F /\ s \in Seq(F)  OBVIOUS
<1>b. ourSuc = FoldLeft(LAMBDA g, p : Closer(p, g), base, s)
  BY DEF ourSuc, Closer, FoldLeft, MapThenFoldSet
<1>. HIDE DEF base, s
<1>. DEFINE g == [p \in F \X F |-> Closer(p[2], p[1])]
            D == SUBSET DOMAIN s
            iter == CHOOSE f : f = [u \in D |-> IF u = {} THEN base
                                                ELSE Closer(s[Max(u)], f[u \ {Max(u)}])]
<1>0. DOMAIN s = 1 .. Len(s) /\ Len(s) \in Nat /\ \A i \in 1 .. Len(s) : s[i] \in F
  BY <1>a, LenProperties, ElementOfSeq
<1>1. g \in [F \X F -> F]  BY DEF Closer
<1>2. PICK f : Folds(f, F, base, s, g)
  <2>. HIDE DEF g
  <2>. QED  BY <1>a, <1>1, FoldExists
<1>3. ASSUME NEW u \in D
      PROVE  f[u] = IF u = {} THEN base ELSE Closer(s[Max(u)], f[u \ {Max(u)}])
  <2>1. u # {} => s[Max(u)] \in F  BY <1>0, LastIn
  <2>2. u \ {Max(u)} \in D /\ f[u \ {Max(u)}] \in F  BY <1>2 DEF Folds
  <2>. QED  BY <1>2, <2>1, <2>2 DEF Folds
<1>4. f = [u \in D |-> IF u = {} THEN base ELSE Closer(s[Max(u)], f[u \ {Max(u)}])]
  BY <1>2, <1>3 DEF Folds
<1>5. iter = [u \in D |-> IF u = {} THEN base ELSE Closer(s[Max(u)], iter[u \ {Max(u)}])]
  BY <1>4
<1>6. ourSuc = iter[DOMAIN s]
  BY <1>b DEF FoldLeft, MapThenFoldSet
<1>. HIDE DEF iter
<1>. DEFINE In == {k \in 0 .. Len(s) : iter[1 .. k] \in F}
<1>7. 0 \in In
  <2>1. 1 .. 0 = {} /\ {} \in D  OBVIOUS
  <2>2. iter[{}] = base  BY <1>5, <2>1
  <2>. QED  BY <1>0, <1>a, <2>1, <2>2
<1>8. ASSUME NEW k \in 1 .. Len(s), k - 1 \in In  PROVE k \in In
  <2>1. 1 .. k \in D /\ k - 1 \in 0 .. Len(s) /\ k \in 0 .. Len(s)
    <3>1. k \in 0 .. Len(s) /\ k - 1 \in 0 .. Len(s) /\ 1 .. k \subseteq 1 .. Len(s)  BY <1>0
    <3>. QED  BY <1>0, <3>1
  <2>2. 1 .. k # {} /\ Max(1 .. k) = k /\ (1 .. k) \ {k} = 1 .. k - 1
    <3>1. k \in Nat \ {0}  BY <1>0
    <3>. QED  BY <3>1, Prefix
  <2>3. iter[1 .. k] = Closer(s[k], iter[1 .. k - 1])  BY <1>5, <2>1, <2>2
  <2>. QED  BY <1>0, <1>8, <2>1, <2>3 DEF Closer
<1>9. Len(s) \in In
  <2>. HIDE DEF In
  <2>. QED  BY <1>0, <1>7, <1>8, UpTo
<1>. QED  BY <1>0, <1>6, <1>9

-----------------------------------------------------------------------------
(* What the threads of a search read. *)

\* All threads of a search have ended.
Answering ==
  /\ AnswerInv
  /\ Joined /\ stat # "sort"

\* Where the blocks of a search are.
LEMMA SearchedBlocks ==
  ASSUME Answering
  PROVE  /\ CoverOf(Width, size, running) /\ Width = block
         /\ size \in Nat /\ block \in Nat \ {0} /\ running \in Nat /\ running = size \div block + 1
<1>1. Searched /\ StatsTypeOK
  BY DEF Answering, AnswerInv, Joined, SortInv, StatsInv
<1>2. size \in Nat /\ block \in Nat \ {0}
  BY <1>1, StatsAssumption DEF StatsTypeOK, findMinBlocksize
<1>3. Width = block
  <2>1. 2 ^ level = 1  BY <1>1 DEF Searched
  <2>2. block * 2 ^ level = block * 1  BY <2>1, Zenon
  <2>3. block * 1 = block  BY <1>2
  <2>. QED  BY <2>2, <2>3, Zenon DEF Width
<1>4. running = size \div block + 1  BY <1>1 DEF Searched
<1>5. CoverOf(block, size, size \div block + 1)  BY <1>2, CoverFirst
<1>6. CoverOf(Width, size, running)  BY <1>3, <1>4, <1>5
<1>7. running \in Nat  BY <1>6 DEF CoverOf
<1>. QED  BY <1>2, <1>3, <1>4, <1>6, <1>7

\* What is known of the array when the threads have ended.
Known ==
  /\ arr = given /\ arr \in [0 .. size -> Values]
  /\ \A i \in Blocks : FoundIs(i)
  /\ whole => block > size
  /\ target \in Values

\* It is known then.
LEMMA KnownIs ==
  ASSUME Answering
  PROVE  Known
<1>1. our_main = "join" /\ \A i \in Blocks : work[i] = <<>>  BY DEF Answering, Joined
<1>2. arr = given  BY <1>1 DEF Answering, AnswerInv
<1>3. arr \in [0 .. size -> Values]  BY <1>1 DEF Answering, AnswerInv, SortInv
<1>4. Searched  BY <1>1 DEF Answering, AnswerInv
<1>5. target \in Values  BY DEF Answering, AnswerInv, SortInv, StatsInv, StatsTypeOK
<1>. QED  BY <1>1, <1>2, <1>3, <1>4, <1>5 DEF Searched, Known

\* A thread reads elements, but for its first cell, which may be the cell size.
LEMMA CellsRead ==
  ASSUME Answering, NEW i \in Blocks
  PROVE  /\ Start(i) \in 0 .. size /\ arr[Start(i)] \in Values
         /\ Cells(i) \subseteq Elements /\ Cells(i) \subseteq Values
<1>1. BlockAt(i)  BY SearchedBlocks, BlocksAt
<1>2. size \in Nat  BY SearchedBlocks
<1>3. Start(i) \in 0 .. size /\ End(i) \in Int /\ End(i) <= size
  <2>1. i \in Nat
    <3>1. running \in Nat  BY SearchedBlocks
    <3>. QED  BY <3>1 DEF Blocks
  <2>2. StatsTypeOK  BY DEF Answering, AnswerInv, SortInv, StatsInv
  <2>3. Start(i) \in Nat /\ End(i) \in Int  BY <2>1, <2>2, BlockType
  <2>. QED  BY <1>1, <1>2, <2>3 DEF BlockAt
<1>4. arr = given /\ arr \in [0 .. size -> Values]  BY KnownIs DEF Known
<1>5. ASSUME NEW j \in Start(i) .. End(i) - 1  PROVE j \in 0 .. size - 1 /\ j \in 0 .. size
  BY <1>2, <1>3
<1>6. Cells(i) \subseteq Elements  BY <1>4, <1>5 DEF Cells, Elements
<1>7. Cells(i) \subseteq Values  BY <1>4, <1>5 DEF Cells
<1>. QED  BY <1>3, <1>4, <1>6, <1>7

\* It does not read the cell size if the last block starts before it.
LEMMA FirstIsElement ==
  ASSUME Answering, size % block # 0, NEW i \in Blocks
  PROVE  arr[Start(i)] \in Elements
<1>1. size \in Nat /\ block \in Nat \ {0} /\ Width = block  BY SearchedBlocks
<1>2. i \in Int /\ i >= 0
  <2>1. running \in Nat  BY SearchedBlocks
  <2>. QED  BY <2>1 DEF Blocks
<1>3. Start(i) # size
  <2>1. SUFFICES ASSUME Start(i) = size PROVE FALSE  OBVIOUS
  <2>2. size = block * i + 0  BY <1>1, <1>2, <2>1 DEF Start
  <2>3. (block * i + 0) % block = 0
    <3>1. 0 \in 0 .. block - 1  BY <1>1
    <3>2. i \in Nat  BY <1>2
    <3>. QED  BY <1>1, <3>1, <3>2, ModUnique
  <2>. QED  BY <2>2, <2>3
<1>4. Start(i) \in 0 .. size - 1
  <2>1. Start(i) \in 0 .. size  BY CellsRead
  <2>. QED  BY <1>1, <1>3, <2>1
<1>5. arr = given  BY KnownIs DEF Known
<1>. QED  BY <1>4, <1>5 DEF Elements

\* One block has all elements.
LEMMA OneBlock ==
  ASSUME Answering, whole
  PROVE  /\ running = 1 /\ Blocks = {0} /\ Start(0) = 0 /\ End(0) = size
         /\ Cells(0) = Elements /\ (size > 0 => arr[Start(0)] \in Elements)
<1>1. size \in Nat /\ block \in Nat \ {0} /\ Width = block /\ running = size \div block + 1
      /\ CoverOf(Width, size, running)
  BY SearchedBlocks
<1>2. block > size /\ arr = given  BY KnownIs DEF Known
<1>3. running = 1
  <2>1. PICK q \in Nat, r \in 0 .. block - 1 : size = block * q + r /\ size \div block = q
    BY <1>1, DivMod
  <2>2. ASSUME q >= 1  PROVE FALSE
    <3>1. block * q >= block  BY <1>1, <2>1, <2>2
    <3>2. block * q \in Nat  BY <1>1, <2>1
    <3>. DEFINE p == block * q
    <3>. HIDE DEF p
    <3>3. p >= block /\ p \in Nat /\ size = p + r  BY <2>1, <3>1, <3>2 DEF p
    <3>. QED  BY <1>1, <1>2, <3>3
  <2>3. q = 0  BY <2>1, <2>2
  <2>. QED  BY <1>1, <2>1, <2>3
<1>4. Blocks = {0}  BY <1>3 DEF Blocks
<1>5. Start(0) = 0  BY <1>1 DEF Start
<1>6. End(0) = size
  <2>1. EndOf(Width, size, 0) = size + 1
    <3>1. CoverOf(Width, size, 1)  BY <1>1, <1>3
    <3>. QED  BY <3>1, CoverOne
  <2>2. End(0) + 1 = size + 1 /\ End(0) \in Int
    <3>1. End(0) + 1 = EndOf(Width, size, 0)  BY DEF End, EndOf
    <3>2. End(0) \in Int  BY <1>1 DEF End
    <3>. QED  BY <2>1, <3>1, <3>2
  <2>. QED  BY <1>1, <2>2
<1>7. Cells(0) = Elements  BY <1>2, <1>5, <1>6 DEF Cells, Elements
<1>8. size > 0 => arr[Start(0)] \in Elements
  <2>1. size > 0 => 0 \in 0 .. size - 1  BY <1>1
  <2>. QED  BY <1>2, <1>5, <2>1 DEF Elements
<1>. QED  BY <1>3, <1>4, <1>5, <1>6, <1>7, <1>8

-----------------------------------------------------------------------------
(* What the answers are. *)

\* The results are those of the blocks.
LEMMA ResultSet ==
  ASSUME Answering
  PROVE  ToSet(Results) = {found[i] : i \in Blocks}
<1>1. running \in Nat  BY SearchedBlocks
<1>2. \A k \in 1 .. running : k - 1 \in Blocks  BY <1>1 DEF Blocks
<1>3. \A i \in Blocks : i + 1 \in 1 .. running /\ (i + 1) - 1 = i  BY <1>1 DEF Blocks
<1>4. \A v \in ToSet(Results) : v \in {found[i] : i \in Blocks}
  BY <1>2 DEF ToSet, Results
<1>5. \A v \in {found[i] : i \in Blocks} : v \in ToSet(Results)
  <2>. TAKE v \in {found[i] : i \in Blocks}
  <2>1. PICK i \in Blocks : v = found[i]  OBVIOUS
  <2>2. i + 1 \in 1 .. running /\ (i + 1) - 1 = i  BY <1>3
  <2>3. i + 1 \in DOMAIN Results /\ Results[i + 1] = found[i]  BY <2>2 DEF Results
  <2>. QED  BY <2>1, <2>3 DEF ToSet
<1>. QED  BY <1>4, <1>5

\* There is a first block.
LEMMA SomeBlock ==
  ASSUME Answering
  PROVE  0 \in Blocks
<1>1. running \in Nat /\ running >= 1  BY SearchedBlocks DEF CoverOf
<1>. QED  BY <1>1 DEF Blocks

\* What a thread finds is one of the cells it reads.
LEMMA MaxFound ==
  ASSUME Answering, stat = "max", NEW i \in Blocks
  PROVE  found[i] \in {arr[Start(i)]} \cup Cells(i) /\ found[i] \in Values
         /\ found[i] = Max({arr[Start(i)]} \cup Cells(i))
<1>1. found[i] = Max({arr[Start(i)]} \cup Cells(i))
  BY KnownIs DEF Known, FoundIs, maxFind
<1>. DEFINE S == {arr[Start(i)]} \cup Cells(i)
<1>2. S \in SUBSET Values /\ S # {}  BY CellsRead
<1>3. Max(S) \in S
  <2>1. Byte - 1 \in Nat /\ S \in SUBSET (0 .. Byte - 1)  BY <1>2, StatsAssumption DEF Values
  <2>. HIDE DEF S
  <2>. QED  BY <1>2, <2>1, MaxIn
<1>. QED  BY <1>1, <1>2, <1>3

\* What a thread finds is one of the cells it reads.
LEMMA MinFound ==
  ASSUME Answering, stat = "min", NEW i \in Blocks
  PROVE  found[i] \in {arr[Start(i)]} \cup Cells(i) /\ found[i] \in Values
         /\ found[i] = Min({arr[Start(i)]} \cup Cells(i))
<1>1. found[i] = Min({arr[Start(i)]} \cup Cells(i))
  BY KnownIs DEF Known, FoundIs, minFind
<1>. DEFINE S == {arr[Start(i)]} \cup Cells(i)
<1>2. S \in SUBSET Values /\ S # {}  BY CellsRead
<1>3. Min(S) \in S
  <2>1. Byte - 1 \in Nat /\ S \in SUBSET (0 .. Byte - 1)  BY <1>2, StatsAssumption DEF Values
  <2>. HIDE DEF S
  <2>. QED  BY <1>2, <2>1, MinIn
<1>. QED  BY <1>1, <1>2, <1>3

\* ourMax: the greatest of what is found.
LEMMA MaxAnswers ==
  ASSUME Answering, stat = "max", NEW v \in Returned
  PROVE  /\ size % block # 0 => v \in Elements
         /\ whole /\ size > 0 => v = Max(Elements)
<1>. DEFINE F == {found[i] : i \in Blocks}
<1>1. v = Max(F)  BY ResultSet DEF Returned
<1>2. F \in SUBSET Values /\ F # {}  BY MaxFound, SomeBlock
<1>3. Max(F) \in F
  <2>1. Byte - 1 \in Nat /\ F \in SUBSET (0 .. Byte - 1)  BY <1>2, StatsAssumption DEF Values
  <2>. HIDE DEF F
  <2>. QED  BY <1>2, <2>1, MaxIn
<1>4. ASSUME size % block # 0  PROVE v \in Elements
  <2>1. PICK i \in Blocks : v = found[i]  BY <1>1, <1>3
  <2>2. found[i] \in {arr[Start(i)]} \cup Cells(i)  BY MaxFound
  <2>. QED  BY <1>4, <2>1, <2>2, CellsRead, FirstIsElement
<1>5. ASSUME whole, size > 0  PROVE v = Max(Elements)
  <2>1. Blocks = {0} /\ Cells(0) = Elements /\ arr[Start(0)] \in Elements  BY <1>5, OneBlock
  <2>2. v = found[0]  BY <1>1, <1>3, <2>1
  <2>3. found[0] = Max({arr[Start(0)]} \cup Cells(0))  BY <2>1, MaxFound
  <2>4. {arr[Start(0)]} \cup Cells(0) = Elements  BY <2>1
  <2>. QED  BY <2>2, <2>3, <2>4
<1>. QED  BY <1>4, <1>5

\* ourMin: the least of what is found.
LEMMA MinAnswers ==
  ASSUME Answering, stat = "min", NEW v \in Returned
  PROVE  /\ size % block # 0 => v \in Elements
         /\ whole /\ size > 0 => v = Min(Elements)
<1>. DEFINE F == {found[i] : i \in Blocks}
<1>1. v = Min(F)  BY ResultSet DEF Returned
<1>2. F \in SUBSET Values /\ F # {}  BY MinFound, SomeBlock
<1>3. Min(F) \in F
  <2>1. Byte - 1 \in Nat /\ F \in SUBSET (0 .. Byte - 1)  BY <1>2, StatsAssumption DEF Values
  <2>. HIDE DEF F
  <2>. QED  BY <1>2, <2>1, MinIn
<1>4. ASSUME size % block # 0  PROVE v \in Elements
  <2>1. PICK i \in Blocks : v = found[i]  BY <1>1, <1>3
  <2>2. found[i] \in {arr[Start(i)]} \cup Cells(i)  BY MinFound
  <2>. QED  BY <1>4, <2>1, <2>2, CellsRead, FirstIsElement
<1>5. ASSUME whole, size > 0  PROVE v = Min(Elements)
  <2>1. Blocks = {0} /\ Cells(0) = Elements /\ arr[Start(0)] \in Elements  BY <1>5, OneBlock
  <2>2. v = found[0]  BY <1>1, <1>3, <2>1
  <2>3. found[0] = Min({arr[Start(0)]} \cup Cells(0))  BY <2>1, MinFound
  <2>4. {arr[Start(0)]} \cup Cells(0) = Elements  BY <2>1
  <2>. QED  BY <2>2, <2>3, <2>4
<1>. QED  BY <1>4, <1>5

\* The blocks after the first one.
LEMMA OtherResults ==
  ASSUME Answering, NEW F, \A i \in Blocks : found[i] \in F
  PROVE  found[0] \in F /\ Tail(Results) \in Seq(F)
<1>1. running \in Nat /\ running >= 1  BY SearchedBlocks DEF CoverOf
<1>2. \A k \in 1 .. running : k - 1 \in Blocks  BY <1>1 DEF Blocks
<1>3. Results \in Seq(F) /\ Len(Results) = running
  <2>1. \A k \in 1 .. running : found[k - 1] \in F  BY <1>2
  <2>. QED  BY <1>1, <2>1 DEF Results
<1>4. Results # <<>>  BY <1>1, <1>3, EmptySeq
<1>5. Tail(Results) \in Seq(F)
  <2>. HIDE DEF Results
  <2>. QED  BY <1>3, <1>4, HeadTailProperties
<1>. QED  BY <1>5, SomeBlock

\* ourPre: what it returns some thread has found.
LEMMA PreAnswers ==
  ASSUME Answering, stat = "pre", NEW v \in Returned
  PROVE  /\ v # target => v \in Elements /\ v < target
         /\ whole => IsPre([value |-> v, error |-> v = target])
<1>. DEFINE F == {found[i] : i \in Blocks}
<1>1. v \in F
  <2>1. v = ourPre  BY DEF Returned
  <2>2. found[0] \in F /\ Tail(Results) \in Seq(F)
    <3>1. \A i \in Blocks : found[i] \in F  OBVIOUS
    <3>. HIDE DEF F
    <3>. QED  BY <3>1, OtherResults
  <2>. HIDE DEF F
  <2>. QED  BY <2>1, <2>2, PreIsFound
<1>2. PICK i \in Blocks : v = found[i]  BY <1>1
<1>. DEFINE B == {u \in Cells(i) : u < target}
<1>3. v = IF B = {} THEN target ELSE Max(B)
  BY <1>2, KnownIs DEF Known, FoundIs, preFind
<1>4. B \in SUBSET Values /\ B \subseteq Elements /\ \A u \in B : u < target  BY CellsRead
<1>5. B # {} => Max(B) \in B
  <2>1. Byte - 1 \in Nat /\ B \in SUBSET (0 .. Byte - 1)  BY <1>4, StatsAssumption DEF Values
  <2>. HIDE DEF B
  <2>. QED  BY <2>1, MaxIn
<1>6. target \in Int  BY KnownIs, StatsAssumption DEF Known, Values
<1>7. v # target => v \in Elements /\ v < target
  <2>. HIDE DEF B
  <2>. QED  BY <1>3, <1>4, <1>5
<1>8. ASSUME whole  PROVE IsPre([value |-> v, error |-> v = target])
  <2>. DEFINE a == [value |-> v, error |-> v = target]
  <2>1. Cells(i) = Elements  BY <1>8, OneBlock
  <2>2. B = {u \in Elements : u < target}  BY <2>1
  <2>3. a.value = v /\ a.error = (v = target)  OBVIOUS
  <2>4. B = {} => a.error  BY <1>3, <2>3
  <2>5. B # {} => ~a.error /\ a.value = Max(B)
    <3>. HIDE DEF B
    <3>1. B # {} => Max(B) < target  BY <1>4, <1>5
    <3>2. B # {} => Max(B) # target
      <4>1. ~(target < target)  BY <1>6
      <4>. QED  BY <3>1, <4>1
    <3>. QED  BY <1>3, <2>3, <3>2
  <2>. HIDE DEF a, B
  <2>6. IsPre(a)
    <3>. DEFINE below == {u \in Elements : u < target}
    <3>1. IF below = {} THEN a.error ELSE ~a.error /\ a.value = Max(below)
      BY <2>2, <2>4, <2>5
    <3>. QED  BY <3>1 DEF IsPre
  <2>. QED  BY <2>6 DEF a
<1>. QED  BY <1>7, <1>8

\* ourSuc: what it returns some thread has found.
LEMMA SucAnswers ==
  ASSUME Answering, stat = "suc", NEW v \in Returned
  PROVE  /\ v # target => v \in Elements /\ v > target
         /\ whole => IsSuc([value |-> v, error |-> v = target])
<1>. DEFINE F == {found[i] : i \in Blocks}
<1>1. v \in F
  <2>1. v = ourSuc  BY DEF Returned
  <2>2. found[0] \in F /\ Tail(Results) \in Seq(F)
    <3>1. \A i \in Blocks : found[i] \in F  OBVIOUS
    <3>. HIDE DEF F
    <3>. QED  BY <3>1, OtherResults
  <2>. HIDE DEF F
  <2>. QED  BY <2>1, <2>2, SucIsFound
<1>2. PICK i \in Blocks : v = found[i]  BY <1>1
<1>. DEFINE B == {u \in Cells(i) : u > target}
<1>3. v = IF B = {} THEN target ELSE Min(B)
  BY <1>2, KnownIs DEF Known, FoundIs, sucFind
<1>4. B \in SUBSET Values /\ B \subseteq Elements /\ \A u \in B : u > target  BY CellsRead
<1>5. B # {} => Min(B) \in B
  <2>1. Byte - 1 \in Nat /\ B \in SUBSET (0 .. Byte - 1)  BY <1>4, StatsAssumption DEF Values
  <2>. HIDE DEF B
  <2>. QED  BY <2>1, MinIn
<1>6. target \in Int  BY KnownIs, StatsAssumption DEF Known, Values
<1>7. v # target => v \in Elements /\ v > target
  <2>. HIDE DEF B
  <2>. QED  BY <1>3, <1>4, <1>5
<1>8. ASSUME whole  PROVE IsSuc([value |-> v, error |-> v = target])
  <2>. DEFINE a == [value |-> v, error |-> v = target]
  <2>1. Cells(i) = Elements  BY <1>8, OneBlock
  <2>2. B = {u \in Elements : u > target}  BY <2>1
  <2>3. a.value = v /\ a.error = (v = target)  OBVIOUS
  <2>4. B = {} => a.error  BY <1>3, <2>3
  <2>5. B # {} => ~a.error /\ a.value = Min(B)
    <3>. HIDE DEF B
    <3>1. B # {} => Min(B) > target  BY <1>4, <1>5
    <3>2. B # {} => Min(B) # target
      <4>1. ~(target > target)  BY <1>6
      <4>. QED  BY <3>1, <4>1
    <3>. QED  BY <1>3, <2>3, <3>2
  <2>. HIDE DEF a, B
  <2>6. IsSuc(a)
    <3>. DEFINE above == {u \in Elements : u > target}
    <3>1. IF above = {} THEN a.error ELSE ~a.error /\ a.value = Min(above)
      BY <2>2, <2>4, <2>5
    <3>. QED  BY <3>1 DEF IsSuc
  <2>. QED  BY <2>6 DEF a
<1>. QED  BY <1>7, <1>8

SizeProduct(s) == FoldLeft(LAMBDA x, y : x * y, 1, s)

\* The product of one number.
LEMMA ProductOfOne ==
  ASSUME NEW a \in Int
  PROVE  SizeProduct([k \in 1 .. 1 |-> a]) = a
<1>. DEFINE s == [k \in 1 .. 1 |-> a]
            D == SUBSET DOMAIN s
            Eq(f) == f = [u \in D |-> IF u = {} THEN 1 ELSE f[u \ {Max(u)}] * s[Max(u)]]
            iter == CHOOSE f : Eq(f)
<1>1. DOMAIN s = {1} /\ s[1] = a  OBVIOUS
<1>2. Max({1}) = 1
  <2>1. {1} \in SUBSET Int /\ 1 \in {1} /\ \A k \in {1} : k <= 1  OBVIOUS
  <2>. QED  BY <2>1, MaxIs
<1>. HIDE DEF s
<1>3. \E f : Eq(f)
  <2>. DEFINE f == [u \in D |-> IF u = {} THEN 1 ELSE a]
  <2>1. ASSUME NEW u \in D, u # {}  PROVE f[u] = f[u \ {Max(u)}] * s[Max(u)]
    <3>1. u = {1} /\ u \ {Max(u)} = {} /\ Max(u) = 1  BY <1>1, <1>2, <2>1
    <3>2. f[u] = a /\ f[{}] = 1  BY <2>1
    <3>. HIDE DEF f
    <3>. QED  BY <1>1, <3>1, <3>2
  <2>2. ASSUME NEW u \in D, u = {}  PROVE f[u] = 1  BY <2>2
  <2>3. f = [u \in D |-> f[u]]  OBVIOUS
  <2>. HIDE DEF f
  <2>4. ASSUME NEW u \in D
        PROVE  f[u] = IF u = {} THEN 1 ELSE f[u \ {Max(u)}] * s[Max(u)]
    BY <2>1, <2>2
  <2>5. Eq(f)  BY <2>3, <2>4
  <2>. QED  BY <2>5
<1>4. Eq(iter)  BY <1>3
<1>5. SizeProduct(s) = iter[DOMAIN s]  BY DEF SizeProduct, FoldLeft, MapThenFoldSet
<1>. HIDE DEF iter
<1>6. iter[{}] = 1 /\ iter[{1}] = iter[{1} \ {Max({1})}] * s[Max({1})]
  <2>1. {} \in D /\ {1} \in D  BY <1>1
  <2>2. {1} # {}  OBVIOUS
  <2>. QED  BY <1>4, <2>1, <2>2
<1>7. iter[{1}] = 1 * a
  <2>1. {1} \ {Max({1})} = {}  BY <1>2
  <2>. QED  BY <1>1, <1>2, <1>6, <2>1
<1>. QED  BY <1>1, <1>5, <1>7 DEF s

\* The sum of ourMean.
MeanSum(R, p, L, n) == FoldLeft(LAMBDA x, k : x + R[k] * (p \div L[k]), 0, [k \in 1 .. n |-> k])

\* With one block it is what its thread has found, times the length over itself.
LEMMA MeanSumOfOne ==
  ASSUME NEW R, NEW p, NEW L, R[1] * (p \div L[1]) \in Int
  PROVE  MeanSum(R, p, L, 1) = R[1] * (p \div L[1])
<1>. DEFINE s == [k \in 1 .. 1 |-> k]
            D == SUBSET DOMAIN s
            a == R[1] * (p \div L[1])
            Eq(f) == f = [u \in D |-> IF u = {} THEN 0
                                      ELSE f[u \ {Max(u)}] + R[s[Max(u)]] * (p \div L[s[Max(u)]])]
            iter == CHOOSE f : Eq(f)
<1>1. DOMAIN s = {1} /\ s[1] = 1  OBVIOUS
<1>2. Max({1}) = 1
  <2>1. {1} \in SUBSET Int /\ 1 \in {1} /\ \A k \in {1} : k <= 1  OBVIOUS
  <2>. QED  BY <2>1, MaxIs
<1>3. MeanSum(R, p, L, 1) = iter[DOMAIN s]  BY DEF MeanSum, FoldLeft, MapThenFoldSet
<1>. HIDE DEF s
<1>4. \E f : Eq(f)
  <2>. DEFINE f == [u \in D |-> IF u = {} THEN 0 ELSE a]
  <2>1. ASSUME NEW u \in D, u # {}
        PROVE  f[u] = f[u \ {Max(u)}] + R[s[Max(u)]] * (p \div L[s[Max(u)]])
    <3>1. u = {1} /\ u \ {Max(u)} = {} /\ Max(u) = 1  BY <1>1, <1>2, <2>1
    <3>2. f[u] = a /\ f[u \ {Max(u)}] = 0  BY <2>1, <3>1
    <3>3. R[s[Max(u)]] * (p \div L[s[Max(u)]]) = a  BY <1>1, <3>1
    <3>4. a \in Int  OBVIOUS
    <3>. HIDE DEF f, a
    <3>5. 0 + a = a  BY <3>4
    <3>. QED  BY <3>2, <3>3, <3>5, Zenon
  <2>2. ASSUME NEW u \in D, u = {}  PROVE f[u] = 0  BY <2>2
  <2>3. f = [u \in D |-> f[u]]  OBVIOUS
  <2>. HIDE DEF f
  <2>. QED  BY <2>1, <2>2, <2>3
<1>5. Eq(iter)  BY <1>4
<1>. HIDE DEF iter
<1>6. iter[{}] = 0
      /\ iter[{1}] = iter[{1} \ {Max({1})}] + R[s[Max({1})]] * (p \div L[s[Max({1})]])
  <2>1. {} \in D /\ {1} \in D  BY <1>1
  <2>2. {1} # {}  OBVIOUS
  <2>. QED  BY <1>5, <2>1, <2>2
<1>7. iter[{1}] = 0 + a
  <2>1. {1} \ {Max({1})} = {}  BY <1>2
  <2>. QED  BY <1>1, <1>2, <1>6, <2>1
<1>8. a \in Int  OBVIOUS
<1>. HIDE DEF a
<1>9. iter[{1}] = a  BY <1>7, <1>8
<1>. QED  BY <1>1, <1>3, <1>9 DEF a

\* A number goes into itself once.
LEMMA DivSelf ==
  ASSUME NEW n \in Nat \ {0}
  PROVE  n \div n = 1
<1>1. PICK q \in Nat, r \in 0 .. n - 1 : n = n * q + r /\ n \div n = q  BY DivMod
<1>2. q # 0  BY <1>1
<1>3. ASSUME q >= 2  PROVE FALSE
  <2>1. n * q >= n * 2  BY <1>1, <1>3
  <2>. DEFINE p == n * q
  <2>2. p \in Nat  BY <1>1
  <2>. HIDE DEF p
  <2>3. p >= n * 2 /\ n = p + r  BY <1>1, <2>1 DEF p
  <2>. QED  BY <2>2, <2>3
<1>. QED  BY <1>1, <1>2, <1>3

\* ourMean, of one block.
LEMMA MeanAnswers ==
  ASSUME Answering, stat = "mean", NEW v \in Returned, whole, size > 0
  PROVE  v = SumOf(given, size) \div size
<1>1. /\ running = 1 /\ Blocks = {0} /\ Start(0) = 0 /\ End(0) = size
  BY OneBlock
<1>2. size \in Nat \ {0}  BY SearchedBlocks
<1>3. arr = given /\ arr \in [0 .. size -> Values] /\ FoundIs(0)  BY <1>1, KnownIs DEF Known
<1>4. \A c \in 0 .. size : arr[c] \in Int  BY <1>3, CellsAreNumbers
<1>. DEFINE T == [k \in 1 .. size |-> given[k - 1]]
<1>5. Sum(T) \in Int
  <2>1. \A k \in 1 .. size : k - 1 \in 0 .. size  BY <1>2
  <2>2. T \in Seq(Int)  BY <1>2, <1>3, <1>4, <2>1
  <2>. HIDE DEF T
  <2>. QED  BY <2>2, SumIsInt
<1>6. SumOf(given, size) = Sum(T)  BY DEF SumOf, Sum, FoldLeft, MapThenFoldSet
<1>7. found[0] = Sum(T)
  <2>. DEFINE term == [u \in Values |-> u]
              U == [k \in 1 .. End(0) - Start(0) |-> term[arr[Start(0) + k - 1]]]
  <2>1. found[0] = SumOver(0, term)  BY <1>3 DEF FoundIs, meanFind
  <2>2. U = T
    <3>1. End(0) - Start(0) = size  BY <1>1, <1>2
    <3>2. ASSUME NEW k \in 1 .. size  PROVE term[arr[Start(0) + k - 1]] = given[k - 1]
      <4>1. Start(0) + k - 1 = k - 1 /\ k - 1 \in 0 .. size  BY <1>1, <1>2
      <4>2. arr[k - 1] \in Values  BY <1>3, <4>1
      <4>. QED  BY <1>3, <4>1, <4>2
    <3>. HIDE DEF term
    <3>. QED  BY <3>1, <3>2
  <2>3. SumOver(0, term) = Sum(U)  BY DEF SumOver, Sum, FoldLeft, MapThenFoldSet
  <2>. HIDE DEF U, T, term
  <2>. QED  BY <2>1, <2>2, <2>3
<1>. DEFINE L == [k \in 1 .. running |-> End(k - 1) - Start(k - 1)]  P == SizeProduct(L)
            M == MeanSum(Results, P, L, running)
<1>8. ourMean = IF P = 0 THEN Values ELSE {M \div (P * running)}
  BY DEF ourMean, SizeProduct, MeanSum, FoldLeft, MapThenFoldSet
<1>9. P = size /\ L[1] = size
  <2>1. \A k \in 1 .. 1 : k - 1 = 0  OBVIOUS
  <2>2. size - 0 = size  BY <1>2
  <2>3. L = [k \in 1 .. 1 |-> size]  BY <1>1, <2>1, <2>2
  <2>4. size \in Int  BY <1>2
  <2>5. SizeProduct([k \in 1 .. 1 |-> size]) = size  BY <2>4, ProductOfOne
  <2>. HIDE DEF L
  <2>6. L[1] = size  BY <2>3
  <2>. QED  BY <2>3, <2>5, <2>6
<1>10. M = Sum(T)
  <2>1. Results[1] = found[0]
    <3>1. 1 \in 1 .. running /\ 1 - 1 = 0  BY <1>1
    <3>. QED  BY <3>1 DEF Results
  <2>. HIDE DEF L, P, T
  <2>2. P \div L[1] = 1  BY <1>2, <1>9, DivSelf
  <2>3. Results[1] * (P \div L[1]) = Sum(T)  BY <1>5, <1>7, <2>1, <2>2
  <2>4. Results[1] * (P \div L[1]) \in Int  BY <1>5, <2>3
  <2>5. MeanSum(Results, P, L, 1) = Results[1] * (P \div L[1])  BY <2>4, MeanSumOfOne
  <2>. QED  BY <1>1, <2>3, <2>5
<1>. HIDE DEF L, P, M, T
<1>11. v \in ourMean  BY DEF Returned
<1>12. P * running = size  BY <1>1, <1>2, <1>9
<1>. QED  BY <1>2, <1>6, <1>8, <1>9, <1>10, <1>11, <1>12

-----------------------------------------------------------------------------
(* Every step keeps the invariant of the answers. *)

\* What meanFind adds up.
Terms(i) == [k \in 1 .. End(i) - Start(i) |-> [v \in Values |-> v][arr[Start(i) + k - 1]]]

\* The sum of a block is as it was if its cells are.
LEMMA MeanKept ==
  ASSUME NEW i, Start(i)' = Start(i), End(i)' = End(i), arr' = arr
  PROVE  meanFind(i)' = meanFind(i)
<1>1. Terms(i)' = Terms(i)  BY DEF Terms
<1>2. meanFind(i) = Sum(Terms(i))
  BY DEF meanFind, SumOver, Terms, Sum, FoldLeft, MapThenFoldSet
<1>3. meanFind(i)' = Sum(Terms(i)')
  BY DEF meanFind, SumOver, Terms, Sum, FoldLeft, MapThenFoldSet
<1>4. PICK t : t = Terms(i)  OBVIOUS
<1>5. meanFind(i) = Sum(t) /\ meanFind(i)' = Sum(t)  BY <1>1, <1>2, <1>3, <1>4
<1>. QED  BY <1>5

\* Nothing has been answered yet.
LEMMA AnswerInvInit == StatsInit => AnswerInv
<1>. SUFFICES ASSUME StatsInit PROVE AnswerInv  OBVIOUS
<1>1. SortInv  BY SortInvInit
<1>2. our_main = "start"  BY DEF StatsInit
<1>3. AnswersRight  BY <1>2 DEF AnswersRight, OneBlockRight, AnswersFromArray
<1>. QED  BY <1>1, <1>2, <1>3 DEF AnswerInv

\* What main makes of the blocks is right.
LEMMA CombineAnswers == AnswerInv /\ Combine => AnswersRight'
<1>. SUFFICES ASSUME AnswerInv, Combine PROVE AnswersRight'  OBVIOUS
<1>1. Answering  BY DEF Answering, Combine
<1>2. /\ op' = op /\ target' = target /\ size' = size /\ block' = block /\ whole' = whole /\ given' = given
      /\ our_main = "join"
  BY DEF Combine, Joined
<1>3. Elements' = Elements  BY <1>2 DEF Elements
<1>4. PICK v \in Returned :
        \/ our_main' = "init"
        \/ /\ answer' = [value |-> v, error |-> stat \in {"pre", "suc"} /\ v = target]
           /\ our_main' = "done"
  BY DEF Combine
<1>5. CASE our_main' = "init"
  BY <1>5 DEF AnswersRight, OneBlockRight, AnswersFromArray
<1>6. CASE our_main' = "done" /\ answer' = [value |-> v, error |-> stat \in {"pre", "suc"} /\ v = target]
  <2>1. answer'.value = v  BY <1>6
  <2>2. answer'.error <=> stat \in {"pre", "suc"} /\ v = target  BY <1>6
  <2>3. op \in {"max", "min", "pre", "suc", "mean"} => stat = op  BY <1>2 DEF AnswerInv
  <2>4. CASE op = "max"
    <3>1. /\ size % block # 0 => v \in Elements
          /\ whole /\ size > 0 => v = Max(Elements)
      BY <1>1, <2>3, <2>4, MaxAnswers
    <3>2. OneBlockRight'  BY <1>2, <1>3, <2>1, <2>4, <3>1 DEF OneBlockRight, Right
    <3>3. AnswersFromArray'  BY <1>2, <1>3, <2>1, <2>4, <3>1 DEF AnswersFromArray
    <3>. QED  BY <3>2, <3>3 DEF AnswersRight
  <2>5. CASE op = "min"
    <3>1. /\ size % block # 0 => v \in Elements
          /\ whole /\ size > 0 => v = Min(Elements)
      BY <1>1, <2>3, <2>5, MinAnswers
    <3>2. OneBlockRight'  BY <1>2, <1>3, <2>1, <2>5, <3>1 DEF OneBlockRight, Right
    <3>3. AnswersFromArray'  BY <1>2, <1>3, <2>1, <2>5, <3>1 DEF AnswersFromArray
    <3>. QED  BY <3>2, <3>3 DEF AnswersRight
  <2>6. CASE op = "pre"
    <3>. DEFINE a == [value |-> v, error |-> v = target]
    <3>1. /\ v # target => v \in Elements /\ v < target
          /\ whole => IsPre(a)
      BY <1>1, <2>3, <2>6, PreAnswers
    <3>2. a.value = v /\ (a.error <=> v = target)  OBVIOUS
    <3>3. answer'.error <=> v = target  BY <2>2, <2>3, <2>6
    <3>4. whole => IsPre(answer)'
      <4>. HIDE DEF a
      <4>. QED  BY <1>2, <1>3, <2>1, <3>1, <3>2, <3>3 DEF IsPre
    <3>5. OneBlockRight'  BY <1>2, <2>6, <3>4 DEF OneBlockRight, Right
    <3>6. AnswersFromArray'  BY <1>2, <1>3, <2>1, <2>6, <3>1, <3>3 DEF AnswersFromArray
    <3>. QED  BY <3>5, <3>6 DEF AnswersRight
  <2>7. CASE op = "suc"
    <3>. DEFINE a == [value |-> v, error |-> v = target]
    <3>1. /\ v # target => v \in Elements /\ v > target
          /\ whole => IsSuc(a)
      BY <1>1, <2>3, <2>7, SucAnswers
    <3>2. a.value = v /\ (a.error <=> v = target)  OBVIOUS
    <3>3. answer'.error <=> v = target  BY <2>2, <2>3, <2>7
    <3>4. whole => IsSuc(answer)'
      <4>. HIDE DEF a
      <4>. QED  BY <1>2, <1>3, <2>1, <3>1, <3>2, <3>3 DEF IsSuc
    <3>5. OneBlockRight'  BY <1>2, <2>7, <3>4 DEF OneBlockRight, Right
    <3>6. AnswersFromArray'  BY <1>2, <1>3, <2>1, <2>7, <3>1, <3>3 DEF AnswersFromArray
    <3>. QED  BY <3>5, <3>6 DEF AnswersRight
  <2>8. CASE op = "mean"
    <3>1. whole /\ size > 0 => v = SumOf(given, size) \div size
      BY <1>1, <2>3, <2>8, MeanAnswers
    <3>2. SumOf(given, size)' = SumOf(given, size)
      BY <1>2 DEF SumOf, FoldLeft, MapThenFoldSet
    <3>3. OneBlockRight'
      BY <1>2, <2>1, <2>8, <3>1, <3>2 DEF OneBlockRight, Right
    <3>4. AnswersFromArray'  BY <1>2, <2>8 DEF AnswersFromArray
    <3>. QED  BY <3>3, <3>4 DEF AnswersRight
  <2>9. CASE op \notin {"max", "min", "pre", "suc", "mean"}
    <3>1. OneBlockRight'  BY <1>2, <2>9 DEF OneBlockRight, Right
    <3>2. AnswersFromArray'  BY <1>2, <2>9 DEF AnswersFromArray
    <3>. QED  BY <3>1, <3>2 DEF AnswersRight
  <2>. QED  BY <2>4, <2>5, <2>6, <2>7, <2>8, <2>9
<1>. QED  BY <1>4, <1>5, <1>6

\* A thread that has searched its block has found what is in it.
LEMMA SearchAnswers == ASSUME AnswerInv, NEW i \in Blocks, Search(i) PROVE AnswerInv'
<1>1. SortInv'
  <2>1. StatsNext  BY DEF StatsNext
  <2>. QED  BY <2>1, SortInvStep DEF AnswerInv
<1>2. /\ our_main = "join" /\ our_main' = "join" /\ stat # "sort" /\ stat' = stat /\ op' = op /\ target' = target
      /\ size' = size /\ arr' = arr /\ given' = given /\ block' = block /\ level' = level
      /\ running' = running /\ whole' = whole
      /\ work' = [work EXCEPT ![i] = <<>>]
  BY DEF Search
<1>3. AnswersRight'  BY <1>2 DEF AnswersRight, OneBlockRight, AnswersFromArray
<1>4. DOMAIN found = Blocks /\ DOMAIN work = Blocks
  BY <1>2 DEF AnswerInv, SortInv, StatsInv, StatsTypeOK
<1>5. Searched  BY <1>2 DEF AnswerInv
<1>6. Blocks' = Blocks  BY <1>2 DEF Blocks
<1>7. \A k : Start(k)' = Start(k) /\ End(k)' = End(k)
  BY <1>2 DEF Start, End, Width
<1>8. \A k : Cells(k)' = Cells(k)  BY <1>2, <1>7 DEF Cells
<1>9. \A k : /\ maxFind(k)' = maxFind(k) /\ minFind(k)' = minFind(k)
             /\ preFind(k)' = preFind(k) /\ sucFind(k)' = sucFind(k)
  BY <1>2, <1>7, <1>8 DEF maxFind, minFind, preFind, sucFind
<1>10. \A k : meanFind(k)' = meanFind(k)  BY <1>2, <1>7, MeanKept
<1>11. ASSUME NEW k \in Blocks, work'[k] = <<>>  PROVE FoundIs(k)'
  <2>1. CASE k = i
    <3>1. /\ stat = "max" => found'[i] = maxFind(i)
          /\ stat = "min" => found'[i] = minFind(i)
          /\ stat = "pre" => found'[i] = preFind(i)
          /\ stat = "suc" => found'[i] = sucFind(i)
          /\ stat = "mean" => found'[i] = meanFind(i)
      BY <1>4 DEF Search
    <3>. QED  BY <1>2, <1>9, <1>10, <2>1, <3>1 DEF FoundIs
  <2>2. CASE k # i
    <3>1. work[k] = <<>>  BY <1>2, <1>4, <1>11, <2>2
    <3>2. FoundIs(k)  BY <1>5, <3>1 DEF Searched
    <3>3. found'[k] = found[k]  BY <1>4, <2>2 DEF Search
    <3>. QED  BY <1>2, <1>9, <1>10, <3>2, <3>3 DEF FoundIs
  <2>. QED  BY <2>1, <2>2
<1>12. Searched'  BY <1>2, <1>5, <1>6, <1>11 DEF Searched
<1>. QED  BY <1>1, <1>2, <1>3, <1>12 DEF AnswerInv

\* The threads that main starts have found nothing yet.
LEMMA InitStatsAnswers == AnswerInv /\ InitStats => AnswerInv'
<1>. SUFFICES ASSUME AnswerInv, InitStats PROVE AnswerInv'  OBVIOUS
<1>1. SortInv'  BY SortInvStep DEF AnswerInv, StatsNext
<1>2. /\ our_main = "init" /\ our_main' = "join" /\ stat' = stat /\ op' = op
      /\ size' = size /\ arr' = arr /\ given' = given /\ level' = 0
      /\ running' = size \div block' + 1 /\ whole' = (whole /\ block' > size)
  BY DEF InitStats
<1>3. AnswersRight'  BY <1>2 DEF AnswersRight, OneBlockRight, AnswersFromArray
<1>4. ASSUME stat # "sort"  PROVE Searched'
  <2>1. ASSUME NEW k \in Blocks'  PROVE work'[k] # <<>>
    <3>1. work'[k] = <<Do("search", Start(k)', Start(k)', End(k)')>>
      BY <1>4 DEF InitStats, Blocks
    <3>. QED  BY <3>1
  <2>. QED  BY <1>2, <2>1 DEF Searched
<1>. QED  BY <1>1, <1>2, <1>3, <1>4 DEF AnswerInv

\* Every step of main or of a thread preserves the invariant.
LEMMA AnswerInvStep == AnswerInv /\ [StatsNext]_stats_vars => AnswerInv'
<1>. SUFFICES ASSUME AnswerInv, [StatsNext]_stats_vars PROVE AnswerInv'  OBVIOUS
<1>0. SortInv'  BY SortInvStep DEF AnswerInv
<1>1. CASE UNCHANGED stats_vars
  <2>1. (\A k : Start(k)' = Start(k) /\ End(k)' = End(k)) /\ Blocks' = Blocks
    BY <1>1 DEF stats_vars, Start, End, Width, Blocks
  <2>2. \A k : Cells(k)' = Cells(k)  BY <1>1, <2>1 DEF stats_vars, Cells
  <2>3. \A k : /\ maxFind(k)' = maxFind(k) /\ minFind(k)' = minFind(k)
               /\ preFind(k)' = preFind(k) /\ sucFind(k)' = sucFind(k)
    BY <1>1, <2>1, <2>2 DEF stats_vars, maxFind, minFind, preFind, sucFind
  <2>4. \A k : meanFind(k)' = meanFind(k)  BY <1>1, <2>1, MeanKept DEF stats_vars
  <2>5. \A k : FoundIs(k)' <=> FoundIs(k)  BY <1>1, <2>3, <2>4 DEF stats_vars, FoundIs
  <2>6. Searched' <=> Searched  BY <1>1, <2>1, <2>5 DEF stats_vars, Searched
  <2>7. AnswersRight' <=> AnswersRight
    <3>1. Elements' = Elements  BY <1>1 DEF stats_vars, Elements
    <3>2. SumOf(given, size)' = SumOf(given, size)
      BY <1>1 DEF stats_vars, SumOf, FoldLeft, MapThenFoldSet
    <3>3. Right' <=> Right  BY <1>1, <3>1, <3>2 DEF stats_vars, Right, IsPre, IsSuc
    <3>4. OneBlockRight' <=> OneBlockRight  BY <1>1, <3>3 DEF stats_vars, OneBlockRight
    <3>5. AnswersFromArray' <=> AnswersFromArray  BY <1>1, <3>1 DEF stats_vars, AnswersFromArray
    <3>. QED  BY <3>4, <3>5 DEF AnswersRight
  <2>8. our_main' = our_main /\ stat' = stat /\ op' = op /\ arr' = arr /\ given' = given
    BY <1>1 DEF stats_vars
  <2>. QED  BY <1>0, <2>6, <2>7, <2>8 DEF AnswerInv
<1>2. CASE FinalMain
  <2>1. our_main' = "init" /\ arr' = given'
        /\ (op' \in {"max", "min", "pre", "suc", "mean"} => stat' = op')
    BY <1>2 DEF FinalMain
  <2>2. AnswersRight'  BY <2>1 DEF AnswersRight, OneBlockRight, AnswersFromArray
  <2>. QED  BY <1>0, <2>1, <2>2 DEF AnswerInv
<1>3. CASE InitStats  BY <1>3, InitStatsAnswers
<1>4. CASE Combine
  <2>1. AnswersRight'  BY <1>4, CombineAnswers
  <2>2. our_main = "join" /\ our_main' \in {"init", "done"} /\ stat # "sort" /\ stat' # "sort"
        /\ op' = op /\ arr' = arr /\ given' = given /\ (stat' = stat \/ op = "stddev")
    BY <1>4 DEF Combine, Joined
  <2>. QED  BY <1>0, <2>1, <2>2 DEF AnswerInv
<1>5. CASE NextRound
  <2>1. our_main' = "join" /\ our_main = "join" /\ stat = "sort" /\ stat' = stat /\ op' = op
    BY <1>5 DEF NextRound, Joined
  <2>2. AnswersRight'  BY <2>1 DEF AnswersRight, OneBlockRight, AnswersFromArray
  <2>. QED  BY <1>0, <2>1, <2>2 DEF AnswerInv
<1>6. CASE Sorted
  <2>1. our_main' \in {"done", "aborted"} /\ our_main = "join" /\ stat = "sort" /\ stat' = stat /\ op' = op
    BY <1>6 DEF Sorted, Joined
  <2>2. op \notin {"max", "min", "pre", "suc", "mean"}  BY <2>1 DEF AnswerInv
  <2>3. AnswersRight'  BY <2>1, <2>2 DEF AnswersRight, OneBlockRight, AnswersFromArray, Right
  <2>. QED  BY <1>0, <2>1, <2>2, <2>3 DEF AnswerInv
<1>7. ASSUME NEW i \in Blocks, Sort(i)  PROVE AnswerInv'
  <2>1. our_main' = "join" /\ our_main = "join" /\ stat = "sort" /\ stat' = stat /\ op' = op
    BY <1>7 DEF Sort
  <2>2. AnswersRight'  BY <2>1 DEF AnswersRight, OneBlockRight, AnswersFromArray
  <2>. QED  BY <1>0, <2>1, <2>2 DEF AnswerInv
<1>8. CASE \E i \in Blocks : Search(i) \/ Sort(i)
  BY <1>7, <1>8, SearchAnswers
<1>. QED  BY <1>1, <1>2, <1>3, <1>4, <1>5, <1>6, <1>8 DEF StatsNext

\* Whatever the array and its size: one block answers rightly, and several answer with an
\* element that is on its side of target.
THEOREM AnswersAreRight == StatsSpec => []AnswersRight
<1>1. StatsInit => AnswerInv  BY AnswerInvInit
<1>2. AnswerInv /\ [StatsNext]_stats_vars => AnswerInv'  BY AnswerInvStep
<1>3. AnswerInv => AnswersRight  BY DEF AnswerInv
<1>. QED  BY <1>1, <1>2, <1>3, PTL DEF StatsSpec
=============================================================================
