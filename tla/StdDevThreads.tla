--------------------------- MODULE StdDevThreads ---------------------------
(***************************************************************************)
(* The standard deviation of labs/labs-bww1/Lab5/std_dev_calc.c: threads   *)
(* add every eighth value to one sum under a mutex, once for the average   *)
(* and once for the squares of what is left of it.                         *)
(*                                                                         *)
(* A float sum is how often each value was added to it; rounding is left   *)
(* out.  Memory and threads are always granted.                            *)
(***************************************************************************)
EXTENDS Integers

CONSTANTS
  NumThreads, \* 8
  NumVals     \* 1000

ASSUME StdDevAssumption == NumThreads \in Nat \ {0} /\ NumVals \in Nat \ {0}

Workers == 0 .. NumThreads - 1
Vals == 0 .. NumVals - 1
Nothing == [v \in Vals |-> 0]
Free == -1

VARIABLES
  keeper, \* where the main thread is: "create", "join", "done"
  phase,  \* "average", then "deviation": the routine of the threads
  started, \* how many threads it has created
  joined, \* how many it has joined
  at,     \* where each thread is
  tid,    \* args->tid: the next value of each thread
  loaded, \* the sum each thread has read and not written back
  mutex,   \* who holds the mutex
  sum,    \* sum[0]
  avg     \* the sum the average was made of

stddev_vars == <<keeper, phase, started, joined, at, tid, loaded, mutex, sum, avg>>

StdDevInit ==
  /\ keeper = "create"
  /\ phase = "average"
  /\ started = 0 /\ joined = 0
  /\ at = [t \in Workers |-> "none"]
  /\ tid = [t \in Workers |-> t]
  /\ loaded = [t \in Workers |-> Nothing]
  /\ mutex = Free
  /\ sum = Nothing /\ avg = Nothing

-----------------------------------------------------------------------------
(* main *)

Fork ==
  /\ keeper = "create" /\ started < NumThreads
  /\ at' = [at EXCEPT ![started] = "lock"]
  /\ tid' = [tid EXCEPT ![started] = started]
  /\ started' = started + 1
  /\ keeper' = IF started' = NumThreads THEN "join" ELSE "create"
  /\ UNCHANGED <<phase, joined, loaded, mutex, sum, avg>>

JoinNext ==
  /\ keeper = "join" /\ joined < NumThreads
  /\ at[joined] = "ended"
  /\ joined' = joined + 1
  /\ UNCHANGED <<keeper, phase, started, at, tid, loaded, mutex, sum, avg>>

\* The average is taken of the sum, which starts again; then the deviation.
NextPhase ==
  /\ keeper = "join" /\ joined = NumThreads
  /\ IF phase = "average"
       THEN /\ phase' = "deviation" /\ keeper' = "create"
            /\ avg' = sum
            /\ started' = 0 /\ joined' = 0
            /\ sum' = Nothing
       ELSE keeper' = "done" /\ UNCHANGED <<phase, avg, sum, started, joined>>
  /\ UNCHANGED <<at, tid, loaded, mutex>>

-----------------------------------------------------------------------------
(* calcAverage, and calcStandardDev, which adds another term of each value *)

Moves(t, from, to) ==
  /\ at[t] = from
  /\ at' = [at EXCEPT ![t] = to]
  /\ UNCHANGED <<keeper, phase, started, joined, avg>>

\* Mutant of Acquire: the mutex is not looked at.
AcquireAlways(t) ==
  /\ Moves(t, "lock", "load")
  /\ mutex' = t
  /\ UNCHANGED <<tid, loaded, sum>>

Acquire(t) ==
  /\ Moves(t, "lock", "load")
  /\ mutex = Free
  /\ mutex' = t
  /\ UNCHANGED <<tid, loaded, sum>>

\* The two halves of s[0][0] += ...
Load(t) ==
  /\ tid[t] < NumVals
  /\ Moves(t, "load", "store")
  /\ loaded' = [loaded EXCEPT ![t] = sum]
  /\ UNCHANGED <<tid, mutex, sum>>

Store(t) ==
  /\ Moves(t, "store", "load")
  /\ sum' = [loaded[t] EXCEPT ![tid[t]] = @ + 1]
  /\ tid' = [tid EXCEPT ![t] = @ + NumThreads]
  /\ UNCHANGED <<loaded, mutex>>

\* Mutant of UnlockMutex: the mutex is kept.
KeepMutex(t) ==
  /\ tid[t] >= NumVals
  /\ Moves(t, "load", "ended")
  /\ UNCHANGED <<tid, loaded, mutex, sum>>

UnlockMutex(t) ==
  /\ tid[t] >= NumVals
  /\ Moves(t, "load", "ended")
  /\ mutex' = Free
  /\ UNCHANGED <<tid, loaded, sum>>

StdDevNext ==
  \/ Fork \/ JoinNext \/ NextPhase
  \/ \E t \in Workers : Acquire(t) \/ Load(t) \/ Store(t) \/ UnlockMutex(t)

StdDevSpec == StdDevInit /\ [][StdDevNext]_stddev_vars /\ WF_stddev_vars(StdDevNext)

-----------------------------------------------------------------------------
(* Properties. *)

StdDevTypeOK ==
  /\ keeper \in {"create", "join", "done"}
  /\ phase \in {"average", "deviation"}
  /\ started \in 0 .. NumThreads /\ joined \in 0 .. NumThreads
  /\ at \in [Workers -> {"none", "lock", "load", "store", "ended"}]
  /\ tid \in [Workers -> 0 .. NumVals + NumThreads - 1]
  /\ mutex \in Workers \cup {Free}
  /\ \A v \in Vals : sum[v] \in Nat /\ avg[v] \in Nat

\* The threads' shares overlap nowhere and leave nothing out, and none is written over
\* by a sum read before it: average and deviation are of every value once.
EachOnce ==
  /\ StdDevTypeOK
  /\ keeper = "join" /\ joined = NumThreads => sum = [v \in Vals |-> 1]
  /\ phase = "deviation" => avg = [v \in Vals |-> 1]
=============================================================================
