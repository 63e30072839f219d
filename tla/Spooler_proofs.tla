--------------------------- MODULE Spooler_proofs ---------------------------
(***************************************************************************)
(* The print server for every number of spoolers and of jobs, whatever the *)
(* input is and however often fork fails: jobs leave in the order they     *)
(* came, a spooler returns on NULL only when its queue is drained, and     *)
(* nobody is in a queue that is destroyed.                                 *)
(***************************************************************************)
EXTENDS Spooler, PrintQueue_proofs

-----------------------------------------------------------------------------
(* Jobs in order: sequences. *)

\* u was pushed: o has been popped, c is in the list, newest first, and d, if one is
\* pending, is about to be linked.
InOrder(u, o, c, pending, d) ==
  /\ Len(u) = Len(o) + Len(c) + (IF pending THEN 1 ELSE 0)
  /\ \A i \in 1 .. Len(o) : o[i] = u[i]
  /\ \A i \in 1 .. Len(c) : c[i] = u[(Len(o) + Len(c) + 1) - i]
  /\ pending => d = u[Len(u)]

\* The node is linked at the head.
LEMMA OrderLink ==
  ASSUME NEW u \in Seq(Data), NEW o \in Seq(Data), NEW c \in Seq(Data), NEW d \in Data, NEW x,
         InOrder(u, o, c, TRUE, d)
  PROVE  InOrder(u, o, <<d>> \o c, FALSE, x)
<1>1. PICK k \in Nat, l \in Nat, n \in Nat : k = Len(o) /\ l = Len(c) /\ n = Len(u) /\ n = k + l + 1
  BY DEF InOrder
<1>0. <<d>> \in Seq(Data) /\ Len(<<d>>) = 1 /\ <<d>>[1] = d
  OBVIOUS
<1>2. PICK v \in Seq(Data) : v = <<d>> \o c
  BY <1>0, ConcatProperties
<1>3. Len(v) = l + 1 /\ v[1] = d /\ \A i \in 2 .. l + 1 : v[i] = c[i - 1]
  BY <1>0, <1>1, <1>2, ConcatProperties
<1>4. ASSUME NEW i \in 1 .. l + 1 PROVE v[i] = u[(k + (l + 1) + 1) - i]
  <2>1. CASE i = 1
    BY <1>1, <1>3, <2>1 DEF InOrder
  <2>2. CASE i # 1
    <3>1. i - 1 \in 1 .. l /\ (k + l + 1) - (i - 1) = (k + (l + 1) + 1) - i
      BY <2>2
    <3>2. c[i - 1] = u[(k + l + 1) - (i - 1)]
      BY <1>1, <3>1 DEF InOrder
    <3> QED
      BY <1>3, <2>2, <3>1, <3>2
  <2> QED
    BY <2>1, <2>2
<1>5. \A i \in 1 .. k : o[i] = u[i]
  BY <1>1 DEF InOrder
<1> QED
  BY <1>1, <1>2, <1>3, <1>4, <1>5 DEF InOrder

\* The oldest is popped at the tail.
LEMMA OrderPop ==
  ASSUME NEW u \in Seq(Data), NEW o \in Seq(Data), NEW c \in Seq(Data), c # <<>>,
         NEW pending \in BOOLEAN, NEW d, InOrder(u, o, c, pending, d)
  PROVE  /\ Append(o, c[Len(c)]) \in Seq(Data)
         /\ InOrder(u, Append(o, c[Len(c)]), SubSeq(c, 1, Len(c) - 1), pending, d)
<1>1. PICK k \in Nat, l \in Nat \ {0}, n \in Nat : k = Len(o) /\ l = Len(c) /\ n = Len(u)
  BY EmptySeq, LenProperties
<1>2. c[l] \in Data /\ c[l] = u[k + 1]
  BY <1>1 DEF InOrder
<1>3. PICK p \in Seq(Data) : p = Append(o, c[l])
  BY <1>2, AppendProperties
<1>4. Len(p) = k + 1 /\ p[k + 1] = c[l] /\ \A i \in 1 .. k : p[i] = o[i]
  BY <1>1, <1>2, <1>3, AppendProperties
<1>5. PICK r : r = SubSeq(c, 1, l - 1)
  OBVIOUS
<1>6. Len(r) = l - 1 /\ \A i \in 1 .. l - 1 : r[i] = c[i]
  <2>1. \A i \in 1 .. l - 1 : c[i] \in Data
    BY <1>1, LenProperties
  <2> QED
    BY <1>1, <1>5, <2>1, SubSeqProperties
<1>7. ASSUME NEW i \in 1 .. k + 1 PROVE p[i] = u[i]
  <2>1. CASE i = k + 1
    BY <1>2, <1>4, <2>1
  <2>2. CASE i # k + 1
    <3>1. i \in 1 .. k
      BY <2>2
    <3> QED
      BY <1>1, <1>4, <3>1 DEF InOrder
  <2> QED
    BY <2>1, <2>2
<1>8. ASSUME NEW i \in 1 .. l - 1 PROVE r[i] = u[((k + 1) + (l - 1) + 1) - i]
  <2>1. i \in 1 .. l /\ (k + l + 1) - i = ((k + 1) + (l - 1) + 1) - i
    OBVIOUS
  <2>2. c[i] = u[(k + l + 1) - i]
    BY <1>1, <2>1 DEF InOrder
  <2> QED
    BY <1>6, <2>1, <2>2
<1>9. n = (k + 1) + (l - 1) + (IF pending THEN 1 ELSE 0) /\ (pending => d = u[n])
  BY <1>1 DEF InOrder
<1> QED
  BY <1>1, <1>3, <1>4, <1>5, <1>6, <1>7, <1>8, <1>9 DEF InOrder
-----------------------------------------------------------------------------
(* The invariant. *)

Types ==
  /\ main_pc \in {"read", "free", "release1", "release2", "join", "destroy", "done"}
  /\ jobs \in 0 .. MaxJobs
  /\ new_job \in Data \cup {Null}
  /\ alive \in SUBSET Data
  /\ pc \in [Spoolers -> {"pop", "got", "log", "print", "wait", "destroy", "returned"}]
  /\ job \in [Spoolers -> Data \cup {Null}]
  /\ child \in [Spoolers -> {"none", "running", "exited"}]
  /\ forked \in [Spoolers -> BOOLEAN]
  /\ pushed \in [Queues -> Seq(Data)]
  /\ popped \in [Queues -> Seq(Data)]
  /\ faults \in SUBSET {"freed", "closed", "null_stream", "input", "crash"}

\* Where main may be in a call.
MainInv ==
  /\ main_pc \in {"read", "release1", "destroy"} => At(main, "none")
  /\ main_pc = "free" => call[main].at \in {"none", "push_lock", "push_link", "push_post", "push_unlock"}
  /\ main_pc = "free" /\ ~At(main, "none") => call[main].end = "head"
  /\ main_pc = "release2" => call[main].at \in {"none", "release"} /\ (At(main, "release") => call[main].q = q1)
  /\ main_pc = "join" => call[main].at \in {"none", "release"} /\ (At(main, "release") => call[main].q = q2)

\* Where spooler s may be in a call, and when it has a job.
SpoolerInv(s) ==
  /\ pc[s] # "got" => At(s, "none")
  /\ call[s].at \in {"none", "pop_wait", "pop_lock", "pop_unlink", "pop_unlock", "pop_return"}
  /\ ~At(s, "none") => call[s].q = QueueOf(s) /\ call[s].end = "tail"
  /\ pc[s] \in {"pop", "got"} => job[s] = Null
  /\ pc[s] \in {"log", "print", "wait", "destroy"} => job[s] # Null

\* A job main has counted and not yet linked.
Pending(q) == call[main].at \in {"push_lock", "push_link"} /\ call[main].q = q

FifoInv(q) ==
  /\ InOrder(pushed[q], popped[q], Contents(q), Pending(q), data[call[main].node])
  /\ Len(pushed[q]) <= jobs

\* Spooler s was given NULL.
GivenNull(s) ==
  \/ pc[s] = "got" /\ call[s].at \in {"pop_unlock", "pop_return"} /\ call[s].node = Null
  \/ pc[s] = "got" /\ At(s, "none") /\ result[s] = Null
  \/ pc[s] = "returned" /\ job[s] = Null
Nulls(q) == {s \in Spoolers : QueueOf(s) = q /\ GivenNull(s)}

\* The posts main has still to make, and the releases it has asked for.
Left(q) == IF At(main, "release") /\ call[main].q = q THEN call[main].left ELSE 0
Granted(q) ==
  IF q = q1 THEN IF main_pc \in {"release2", "join", "destroy"} THEN Cardinality(N1) ELSE 0
            ELSE IF main_pc \in {"join", "destroy"} THEN Cardinality(N2) ELSE 0

\* Every release is waiting, to be posted, or was given to a spooler.
GrantInv(q) == Releases(q) + Cardinality(Nulls(q)) + Left(q) = Granted(q)

\* NULL is given when the list is empty, and then it stays so.
DrainInv(q) == Nulls(q) # {} => Contents(q) = <<>>

Serving ==
  /\ QueueInv /\ Types /\ MainInv
  /\ \A s \in Spoolers : SpoolerInv(s)
  /\ \A q \in Queues : FifoInv(q) /\ GrantInv(q) /\ DrainInv(q)

\* main destroys the queues when every spooler has returned.
Joined == main_pc = "destroy" => \A s \in Spoolers : pc[s] = "returned"

\* After queue_destroy the lists are gone, and the program does nothing more.
SpoolInv ==
  /\ main_pc # "done" => Serving /\ Joined
  /\ TypeOK /\ DrainedBeforeReturn /\ FifoDelivery

-----------------------------------------------------------------------------
(* What is seen of the constants and of a step. *)

\* main and the spoolers are the threads, q1 and q2 the queues.
LEMMA ThreadsAre ==
  /\ main \in Threads /\ main \notin Spoolers /\ Spoolers \subseteq Threads
  /\ Queues = {q1, q2} /\ q1 # q2
  /\ \A s \in Spoolers : QueueOf(s) \in Queues
  /\ IsFiniteSet(Spoolers) /\ IsFiniteSet(N1) /\ IsFiniteSet(N2)
  /\ Cardinality(N1) \in Nat /\ Cardinality(N2) \in Nat /\ Cardinality(Spoolers) \in Nat
  /\ Cardinality(N1) <= Cardinality(Spoolers) /\ Cardinality(N2) <= Cardinality(Spoolers)
<1>1. /\ main \in Threads /\ main \notin Spoolers /\ Spoolers \subseteq Threads
      /\ Queues = {q1, q2} /\ q1 # q2
  BY ThreadsAssumption, QueuesAssumption
<1>2. \A s \in Spoolers : QueueOf(s) \in Queues
  BY <1>1 DEF QueueOf
<1>3. IsFiniteSet(Spoolers) /\ N1 \subseteq Spoolers /\ N2 \subseteq Spoolers
  BY <1>1, FiniteThreads, FS_Subset DEF Spoolers
<1>4. IsFiniteSet(N1) /\ IsFiniteSet(N2)
  BY <1>3, FS_Subset
<1> QED
  BY <1>1, <1>2, <1>3, <1>4, FS_CardinalityType, FS_Subset

\* The spoolers of a queue.
LEMMA ServersAre ==
  /\ {s \in Spoolers : QueueOf(s) = q1} = N1
  /\ {s \in Spoolers : QueueOf(s) = q2} = N2
BY ThreadsAssumption, QueuesAssumption DEF QueueOf, Spoolers

\* Spoolers that were given NULL are counted.
LEMMA NullsType ==
  ASSUME NEW q \in Queues
  PROVE  /\ IsFiniteSet(Nulls(q)) /\ Cardinality(Nulls(q)) \in Nat
         /\ Nulls(q) # {} => Cardinality(Nulls(q)) > 0
         /\ Granted(q) \in Nat /\ Granted(q) <= Cardinality(Spoolers)
<1>1. Nulls(q) \subseteq Spoolers
  BY DEF Nulls
<1>2. IsFiniteSet(Nulls(q)) /\ Cardinality(Nulls(q)) \in Nat
  BY <1>1, ThreadsAre, FS_Subset, FS_CardinalityType
<1>3. Nulls(q) # {} => Cardinality(Nulls(q)) > 0
  BY <1>2, FS_EmptySet
<1>4. Granted(q) \in Nat /\ Granted(q) <= Cardinality(Spoolers)
  BY ThreadsAre DEF Granted
<1> QED
  BY <1>2, <1>3, <1>4

\* The invariant of the queue is about its variables.
LEMMA QueueFrame ==
  ASSUME QueueInv, UNCHANGED queue_vars
  PROVE  QueueInv' /\ \A q : Contents(q)' = Contents(q) /\ Releases(q)' = Releases(q)
<1>1. \A q : Contents(q)' = Contents(q)
  BY DEF queue_vars, list_vars, Contents, Walk
<1>2. \A q : Releases(q)' = Releases(q)
  BY <1>1 DEF queue_vars, Releases, Taken, Unposted, At
<1>3. QTypes' /\ (\A t \in Threads : CallInv(t)') /\ LockInv' /\ DataInv' /\ Placed(Lists)'
  <2>1. Lists' = Lists
    BY DEF queue_vars, list_vars, Lists, Walk
  <2> QED
    BY <2>1 DEF QueueInv, StateInv, queue_vars, list_vars, QTypes, CallInv, InHand, At, LockInv, DataInv, Placed
<1>4. StateInv'
  BY <1>3 DEF StateInv
<1>5. TokenInv'
  BY <1>2 DEF QueueInv, TokenInv
<1> QED
  BY <1>1, <1>2, <1>4, <1>5 DEF QueueInv

\* Nothing was pushed or popped.
LEMMA FifoSame ==
  ASSUME NEW q, FifoInv(q), pushed'[q] = pushed[q], popped'[q] = popped[q],
         Contents(q)' = Contents(q), Pending(q)' <=> Pending(q),
         Pending(q) => data'[call'[main].node] = data[call[main].node],
         jobs' \in Nat, jobs \in Nat, jobs <= jobs', pushed[q] \in Seq(Data)
  PROVE  FifoInv(q)'
<1>1. Len(pushed[q]) \in Nat
  BY LenProperties
<1>2. Len(pushed'[q]) <= jobs'
  BY <1>1 DEF FifoInv
<1>3. InOrder(pushed[q], popped[q], Contents(q), Pending(q), data[call[main].node])'
  BY DEF FifoInv, InOrder
<1> QED
  BY <1>2, <1>3 DEF FifoInv

\* Nobody new was given NULL, and no release was asked for or posted.
LEMMA GrantSame ==
  ASSUME NEW q, GrantInv(q), DrainInv(q), \A s \in Spoolers : GivenNull(s)' <=> GivenNull(s),
         Releases(q)' = Releases(q), Left(q)' = Left(q), Granted(q)' = Granted(q),
         Contents(q)' = Contents(q)
  PROVE  GrantInv(q)' /\ DrainInv(q)'
<1>1. Nulls(q)' = Nulls(q)
  BY DEF Nulls
<1> QED
  BY <1>1 DEF GrantInv, DrainInv

-----------------------------------------------------------------------------
(* Steps that leave the queues alone. *)

\* What a step that moves nothing in the queues has to show.
LEMMA FramedStep ==
  ASSUME Serving, UNCHANGED <<queue_vars, pushed, popped>>, Types', MainInv',
         \A s \in Spoolers : SpoolerInv(s)', jobs <= jobs',
         \A s \in Spoolers : GivenNull(s)' <=> GivenNull(s),
         \A q \in Queues : Granted(q)' = Granted(q)
  PROVE  Serving'
<1>1. /\ QueueInv' /\ \A q : Contents(q)' = Contents(q) /\ Releases(q)' = Releases(q)
  BY QueueFrame DEF Serving
<1>2. ASSUME NEW q \in Queues PROVE FifoInv(q)'
  <2>1. Pending(q)' <=> Pending(q)
    BY DEF Pending, queue_vars
  <2>2. data'[call'[main].node] = data[call[main].node]
    BY DEF queue_vars, list_vars
  <2>3. jobs \in Nat /\ jobs' \in Nat /\ pushed[q] \in Seq(Data)
    BY MaxJobsAssumption DEF Serving, Types
  <2> QED
    BY <1>1, <2>1, <2>2, <2>3, FifoSame DEF Serving
<1>3. ASSUME NEW q \in Queues PROVE GrantInv(q)' /\ DrainInv(q)'
  <2>1. Left(q)' = Left(q)
    BY DEF Left, At, queue_vars
  <2> QED
    BY <1>1, <2>1, GrantSame DEF Serving
<1> QED
  BY <1>1, <1>2, <1>3 DEF Serving

\* Main is where it was.
LEMMA MainStays ==
  ASSUME MainInv, main_pc' = main_pc, call'[main] = call[main]
  PROVE  MainInv'
BY DEF MainInv, At

\* And so is every other spooler.
LEMMA SpoolerStays ==
  ASSUME NEW s, SpoolerInv(s), pc'[s] = pc[s], job'[s] = job[s], call'[s] = call[s]
  PROVE  SpoolerInv(s)'
BY DEF SpoolerInv, At

\* A spooler that neither calls nor was given NULL before or after.
LEMMA NotGivenNull ==
  ASSUME NEW s, pc[s] \notin {"got", "returned"} \/ (pc[s] = "returned" /\ job[s] # Null)
  PROVE  ~GivenNull(s)
BY DEF GivenNull

\* What a spooler does with its job.
LEMMA SpoolerWorks ==
  ASSUME Serving, NEW s \in Spoolers, UNCHANGED <<queue_vars, main_vars, pushed, popped>>, Types',
         \A u \in Spoolers : u # s => pc'[u] = pc[u] /\ job'[u] = job[u],
         SpoolerInv(s)', GivenNull(s)' <=> GivenNull(s)
  PROVE  Serving'
<1>1. call' = call /\ result' = result /\ main_pc' = main_pc /\ jobs' = jobs
  BY DEF queue_vars, main_vars
<1>2. MainInv'
  BY <1>1, MainStays DEF Serving
<1>3. \A u \in Spoolers : SpoolerInv(u)'
  BY <1>1, SpoolerStays DEF Serving
<1>4. \A u \in Spoolers : GivenNull(u)' <=> GivenNull(u)
  BY <1>1 DEF GivenNull, At
<1>5. \A q \in Queues : Granted(q)' = Granted(q)
  BY <1>1 DEF Granted
<1>6. jobs <= jobs'
  BY <1>1 DEF Serving, Types
<1> QED
  BY <1>2, <1>3, <1>4, <1>5, <1>6, FramedStep

\* A fault keeps the type of the faults.
LEMMA FaultsType ==
  ASSUME Types
  PROVE  /\ \A kind \in {"freed", "closed"} : Fault(kind) => faults' \in SUBSET {"freed", "closed", "null_stream", "input", "crash"}
         /\ \A kind \in {"null_stream", "input"} : Crash(kind) => faults' \in SUBSET {"freed", "closed", "null_stream", "input", "crash"}
         /\ \A a : Deref(a) => faults' \in SUBSET {"freed", "closed", "null_stream", "input", "crash"}
BY DEF Types, Fault, Crash, Deref

\* The result of queue_pop is taken: NULL ends the spooler.
LEMMA GotKeeps ==
  ASSUME Serving, NEW s \in Spoolers, SpoolerGot(s)
  PROVE  Serving'
<1>1. result[s] \in Data \cup {Null} /\ Types /\ SpoolerInv(s)
  BY ThreadsAre DEF Serving, QueueInv, StateInv, QTypes
<1>2. Types'
  BY <1>1 DEF SpoolerGot, Types, main_vars, print_vars
<1>3. UNCHANGED <<queue_vars, main_vars, pushed, popped, call, result>>
  BY DEF SpoolerGot, queue_vars
<1>4. /\ pc[s] = "got" /\ At(s, "none") /\ job'[s] = result[s]
      /\ pc'[s] = IF result[s] = Null THEN "returned" ELSE "log"
      /\ \A u \in Spoolers : u # s => pc'[u] = pc[u] /\ job'[u] = job[u]
  BY <1>1 DEF SpoolerGot, Types
<1>5. SpoolerInv(s)'
  BY <1>1, <1>3, <1>4 DEF SpoolerInv, At
<1>6. GivenNull(s)' <=> GivenNull(s)
  BY <1>3, <1>4 DEF GivenNull, At
<1> QED
  BY <1>2, <1>3, <1>4, <1>5, <1>6, SpoolerWorks

\* The job is logged, printed, waited for and destroyed, and a child ends.
LEMMA WorkKeeps ==
  ASSUME Serving, NEW s \in Spoolers,
         SpoolerLog(s) \/ SpoolerFork(s) \/ SpoolerWait(s) \/ SpoolerNoChild(s) \/ SpoolerDestroy(s)
  PROVE  Serving'
<1>1. Types /\ SpoolerInv(s)
  BY DEF Serving
<1>2. UNCHANGED <<queue_vars, main_vars, pushed, popped, call, result>>
  BY DEF SpoolerLog, SpoolerFork, SpoolerWait, SpoolerNoChild, SpoolerDestroy, queue_vars
<1>3. UNCHANGED <<main_pc, jobs, new_job>>
  BY <1>2 DEF main_vars
<1>4. Types'
  <2>1. CASE SpoolerLog(s)
    <3>1. faults' \in SUBSET {"freed", "closed", "null_stream", "input", "crash"}
      BY <1>1, <2>1, FaultsType DEF SpoolerLog
    <3> QED
      BY <1>1, <1>2, <1>3, <2>1, <3>1 DEF SpoolerLog, Types, print_vars
  <2>2. CASE SpoolerFork(s)
    <3>1. faults' \in SUBSET {"freed", "closed", "null_stream", "input", "crash"}
      BY <1>1, <2>2, FaultsType DEF SpoolerFork
    <3>2. PICK ok \in BOOLEAN : /\ forked' = [forked EXCEPT ![s] = ok]
                                /\ child' = [child EXCEPT ![s] = IF ok THEN "running" ELSE "none"]
      BY <2>2 DEF SpoolerFork
    <3> QED
      BY <1>1, <1>2, <1>3, <2>2, <3>1, <3>2 DEF SpoolerFork, Types
  <2>3. CASE SpoolerWait(s)
    BY <1>1, <1>2, <1>3, <2>3 DEF SpoolerWait, Types
  <2>4. CASE SpoolerNoChild(s)
    BY <1>1, <1>2, <1>3, <2>4 DEF SpoolerNoChild, Types
  <2>5. CASE SpoolerDestroy(s)
    <3>1. faults' \in SUBSET {"freed", "closed", "null_stream", "input", "crash"}
      BY <1>1, <2>5, FaultsType DEF SpoolerDestroy
    <3> QED
      BY <1>1, <1>2, <1>3, <2>5, <3>1 DEF SpoolerDestroy, Types
  <2> QED
    BY <2>1, <2>2, <2>3, <2>4, <2>5
<1>5. /\ pc[s] \in {"log", "print", "wait", "destroy"}
      /\ \A u \in Spoolers : u # s => pc'[u] = pc[u] /\ job'[u] = job[u]
      /\ \/ pc'[s] \in {"print", "wait", "destroy", "returned"} /\ job'[s] = job[s]
         \/ pc'[s] = "pop" /\ job'[s] = Null
  BY <1>1 DEF SpoolerLog, SpoolerFork, SpoolerWait, SpoolerNoChild, SpoolerDestroy, Types
<1>6. SpoolerInv(s)'
  BY <1>1, <1>2, <1>5 DEF SpoolerInv, At
<1>7. ~GivenNull(s) /\ ~GivenNull(s)'
  BY <1>1, <1>5 DEF GivenNull, SpoolerInv
<1> QED
  BY <1>2, <1>4, <1>5, <1>6, <1>7, SpoolerWorks

\* A child ends.
LEMMA ChildKeeps ==
  ASSUME Serving, NEW s \in Spoolers, ChildExit(s)
  PROVE  Serving'
<1>1. UNCHANGED <<queue_vars, main_vars, pushed, popped, pc, job, call, result>>
  BY DEF ChildExit, queue_vars
<1>2. Types'
  BY DEF ChildExit, Serving, Types, main_vars
<1>3. SpoolerInv(s)' /\ (GivenNull(s)' <=> GivenNull(s))
  BY <1>1 DEF Serving, SpoolerInv, GivenNull, At
<1> QED
  BY <1>1, <1>2, <1>3, SpoolerWorks

\* What main does without its queues: it frees a job, reads one that is not pushed,
\* meets #exit, and joins the spoolers.
LEMMA MainWorks ==
  ASSUME Serving, UNCHANGED <<queue_vars, pc, job, pushed, popped>>, Types', MainInv',
         jobs <= jobs', \A q \in Queues : Granted(q)' = Granted(q)
  PROVE  Serving'
<1>1. call' = call /\ result' = result
  BY DEF queue_vars
<1>2. \A u \in Spoolers : SpoolerInv(u)' /\ (GivenNull(u)' <=> GivenNull(u))
  BY <1>1 DEF Serving, SpoolerInv, GivenNull, At
<1> QED
  BY <1>2, FramedStep

\* The job main has pushed is freed, whoever has it.
LEMMA FreeKeeps == ASSUME Serving, FreeJob PROVE Serving'
<1>1. Types /\ faults' \in SUBSET {"freed", "closed", "null_stream", "input", "crash"}
  BY FaultsType DEF Serving, FreeJob
<1>2. Types'
  BY <1>1 DEF FreeJob, Types, print_vars
<1>3. MainInv' /\ \A q \in Queues : Granted(q)' = Granted(q)
  BY DEF FreeJob, MainInv, Granted, At, queue_vars
<1> QED
  BY <1>1, <1>2, <1>3, MainWorks DEF FreeJob, Types

\* main meets #exit.
LEMMA ExitKeeps == ASSUME Serving, ReadExit PROVE Serving'
<1>1. Types'
  BY DEF ReadExit, Serving, Types, print_vars
<1>2. MainInv' /\ \A q \in Queues : Granted(q)' = Granted(q)
  BY DEF ReadExit, Serving, MainInv, Granted, At, queue_vars
<1> QED
  BY <1>1, <1>2, MainWorks DEF ReadExit, Serving, Types

\* main has joined every spooler.
LEMMA JoinKeeps == ASSUME Serving, Join PROVE Serving'
<1>1. Types'
  BY DEF Join, Serving, Types, print_vars
<1>2. MainInv' /\ \A q \in Queues : Granted(q)' = Granted(q)
  BY DEF Join, Serving, MainInv, Granted, At, queue_vars
<1> QED
  BY <1>1, <1>2, MainWorks DEF Join, Serving, Types

-----------------------------------------------------------------------------
(* Steps of the queues. *)

\* Where a quiet step leaves its call.
LEMMA QuietCall ==
  ASSUME call \in [Threads -> Calls], NEW t \in Threads, Quiet(t)
  PROVE  /\ Moves(t)
         /\ \/ At(t, "push_unlock") /\ call'[t] = NoCall
            \/ /\ call'[t].q = call[t].q /\ call'[t].end = call[t].end
               /\ call'[t].node = call[t].node
               /\ \/ At(t, "push_lock") /\ At(t, "push_link")'
                  \/ At(t, "push_post") /\ At(t, "push_unlock")'
                  \/ At(t, "pop_wait") /\ At(t, "pop_lock")'
                  \/ At(t, "pop_lock") /\ At(t, "pop_unlink")'
                  \/ At(t, "pop_unlock") /\ At(t, "pop_return")'
<1>1. CASE PushLock(t)
  BY <1>1, GotoIs DEF PushLock, At, Steps
<1>2. CASE PushPost(t)
  BY <1>2, GotoIs DEF PushPost, At, Steps
<1>3. CASE PushUnlock(t)
  BY <1>3, ReturnIs DEF PushUnlock, At
<1>4. CASE PopWait(t)
  BY <1>4, GotoIs DEF PopWait, At, Steps
<1>5. CASE PopLock(t)
  BY <1>5, GotoIs DEF PopLock, At, Steps
<1>6. CASE PopUnlock(t)
  BY <1>6, GotoIs DEF PopUnlock, At, Steps
<1> QED
  BY <1>1, <1>2, <1>3, <1>4, <1>5, <1>6 DEF Quiet

\* A call of main alone concerns no spooler.
LEMMA MainMoves ==
  ASSUME Serving, Moves(main), UNCHANGED <<pc, job, result>>
  PROVE  \A s \in Spoolers : SpoolerInv(s)' /\ (GivenNull(s)' <=> GivenNull(s))
<1>1. \A s \in Spoolers : call'[s] = call[s]
  BY ThreadsAre DEF Moves
<1> QED
  BY <1>1 DEF Serving, SpoolerInv, GivenNull, At

\* What main grants is granted or waits to be.
LEMMA Balance ==
  ASSUME NEW r \in Int, NEW rr \in Int, NEW k \in Nat, NEW l \in Nat, NEW ll \in Nat, NEW g \in Nat,
         NEW gg \in Nat, r + k + l = g, (rr + ll) - gg = (r + l) - g, rr >= 0
  PROVE  rr + k + ll = gg /\ (k > 0 => gg # 0)
OBVIOUS

\* The calls main makes.
LEMMA MainKeeps ==
  ASSUME Serving, QueueInv', Types', MainInv', Moves(main), UNCHANGED <<pc, job, result>>,
         \A q \in Queues : FifoInv(q)',
         \A q \in Queues : Contents(q) = <<>> => Contents(q)' = <<>> \/ Granted(q)' = 0,
         \A q \in Queues : (Releases(q)' + Left(q)') - Granted(q)' = (Releases(q) + Left(q)) - Granted(q),
         \A q \in Queues : Releases(q)' \in {Releases(q), Releases(q) + 1},
         \A q \in Queues : Left(q) \in Nat /\ Left(q)' \in Nat /\ Granted(q)' \in Nat
  PROVE  Serving'
<1>1. \A s \in Spoolers : SpoolerInv(s)' /\ (GivenNull(s)' <=> GivenNull(s))
  BY MainMoves
<1>2. ASSUME NEW q \in Queues PROVE GrantInv(q)' /\ DrainInv(q)'
  <2>1. Nulls(q)' = Nulls(q)
    BY <1>1 DEF Nulls
  <2>2. PICK r \in Int, rr \in Int : r = Releases(q) /\ rr = Releases(q)' /\ rr >= 0
    <3>1. Releases(q) \in Int
      BY ReleasesType DEF Serving, QueueInv
    <3>2. Releases(q)' \in Int /\ Releases(q)' >= 0
      BY <3>1 DEF QueueInv, TokenInv
    <3> QED
      BY <3>1, <3>2
  <2>3. PICK k \in Nat, l \in Nat, ll \in Nat, g \in Nat, gg \in Nat :
          /\ k = Cardinality(Nulls(q)) /\ l = Left(q) /\ ll = Left(q)' /\ g = Granted(q) /\ gg = Granted(q)'
          /\ (Nulls(q) # {} => k > 0)
    BY NullsType
  <2>4. r + k + l = g /\ (rr + ll) - gg = (r + l) - g
    BY <2>2, <2>3 DEF Serving, GrantInv
  <2>5. rr + k + ll = gg /\ (Nulls(q) # {} => gg # 0)
    <3>1. rr + k + ll = gg /\ (k > 0 => gg # 0)
      <4>1. r \in Int /\ rr \in Int /\ k \in Nat /\ l \in Nat /\ ll \in Nat /\ g \in Nat /\ gg \in Nat /\ rr >= 0
        BY <2>2, <2>3
      <4> QED
        BY <2>4, <4>1, Balance
    <3> QED
      BY <2>3, <3>1
  <2>6. GrantInv(q)'
    BY <2>1, <2>2, <2>3, <2>5 DEF GrantInv
  <2>7. DrainInv(q)'
    <3>1. CASE Nulls(q) = {}
      BY <2>1, <3>1 DEF DrainInv
    <3>2. CASE Nulls(q) # {}
      <4>1. Contents(q) = <<>>
        BY <3>2 DEF Serving, DrainInv
      <4>2. gg # 0
        BY <2>5, <3>2
      <4> QED
        BY <2>3, <4>1, <4>2 DEF DrainInv
    <3> QED
      BY <3>1, <3>2
  <2> QED
    BY <2>6, <2>7
<1> QED
  BY <1>1, <1>2 DEF Serving

\* A call of main that moves no content and no token.
LEMMA MainQuiet ==
  ASSUME Serving, QueueInv', Types', MainInv', Moves(main), UNCHANGED <<pc, job, result, pushed, popped>>,
         jobs <= jobs', main_pc' = main_pc,
         \A q \in Queues : Contents(q)' = Contents(q) /\ Releases(q)' = Releases(q),
         \A q \in Queues : Pending(q)' <=> Pending(q),
         \A q \in Queues : Pending(q) => data'[call'[main].node] = data[call[main].node],
         ~At(main, "release"), ~At(main, "release")'
  PROVE  Serving'
<1>1. ASSUME NEW q \in Queues PROVE FifoInv(q)'
  BY FifoSame, MaxJobsAssumption DEF Serving, Types
<1>2. ASSUME NEW q \in Queues PROVE Left(q) = 0 /\ Left(q)' = 0
  BY DEF Left
<1>3. \A q \in Queues : Granted(q)' = Granted(q) /\ Granted(q) \in Nat
  BY NullsType DEF Granted
<1>4. \A q \in Queues : Releases(q) \in Int
  BY ReleasesType DEF Serving, QueueInv
<1> QED
  BY <1>1, <1>2, <1>3, <1>4, MainKeeps

\* The locks and the post of a push.
LEMMA MainQuietKeeps ==
  ASSUME Serving, Quiet(main), UNCHANGED <<main_vars, alive, pc, job, print_vars, pushed, popped, faults>>,
         main_pc # "done"
  PROVE  Serving'
<1>1. QueueInv' /\ Unseen /\ call \in [Threads -> Calls] /\ main \in Threads
  BY QuietStep, ThreadsAre DEF Serving, QueueInv, StateInv, QTypes
<1>2. main_pc' = main_pc /\ jobs' = jobs /\ Types' /\ jobs <= jobs' /\ MainInv
  BY MaxJobsAssumption DEF Serving, Types, main_vars, print_vars
<1>3. main_pc = "free"
  BY <1>1, <1>2, QuietCall DEF Serving, Types, MainInv, At
<1>4. /\ Moves(main)
      /\ \/ At(main, "push_unlock") /\ call'[main] = NoCall
         \/ /\ call'[main].q = call[main].q /\ call'[main].end = call[main].end
            /\ call'[main].node = call[main].node
            /\ \/ At(main, "push_lock") /\ At(main, "push_link")'
               \/ At(main, "push_post") /\ At(main, "push_unlock")'
  BY <1>1, <1>2, <1>3, QuietCall DEF MainInv, At
<1>5. MainInv'
  BY <1>2, <1>3, <1>4, NoCallIs DEF MainInv, At
<1>6. ~At(main, "release") /\ ~At(main, "release")'
  BY <1>4, NoCallIs DEF At
<1>7. \A q \in Queues : Pending(q)' <=> Pending(q)
  BY <1>4, NoCallIs DEF Pending, At
<1>8. \A q \in Queues : Pending(q) => data'[call'[main].node] = data[call[main].node]
  BY <1>1, <1>4 DEF Pending, At, Unseen
<1> QED
  BY <1>1, <1>2, <1>4, <1>5, <1>6, <1>7, <1>8, MainQuiet DEF Unseen

\* The job that was pushed is linked.
LEMMA MainLinkKeeps ==
  ASSUME Serving, PushLink(main), UNCHANGED <<main_vars, alive, pc, job, print_vars, pushed, popped, faults>>,
         main_pc # "done"
  PROVE  Serving'
<1>0. PICK p : p = call[main].q
  OBVIOUS
<1>1. /\ QueueInv' /\ Moves(main) /\ At(main, "push_link") /\ p \in Queues
      /\ call'[main].at = "push_post" /\ call'[main].q = p /\ call'[main].node = call[main].node
      /\ UNCHANGED <<data, allocated, result>>
      /\ data[call[main].node] \in Data
      /\ Contents(p)' = With(p, call[main].end, data[call[main].node])
      /\ \A q \in Queues : q # p => Contents(q)' = Contents(q)
      /\ \A q \in Queues : Releases(q)' = Releases(q)
  BY <1>0, ThreadsAre, PushLinkStep DEF Serving
<1>2. main_pc' = main_pc /\ jobs' = jobs /\ Types' /\ MainInv /\ Types
  BY DEF Serving, Types, main_vars, print_vars
<1>3. main_pc = "free" /\ call[main].end = "head"
  BY <1>1, <1>2 DEF Types, MainInv, At
<1>4. call'[main].end = "head"
  BY <1>3, ThreadsAre, GotoIs DEF PushLink, Steps, Serving, QueueInv, StateInv, QTypes
<1>5. MainInv'
  BY <1>1, <1>2, <1>3, <1>4 DEF MainInv, At
<1>6. ASSUME NEW q \in Queues PROVE FifoInv(q)'
  <2>1. FifoInv(q)
    BY DEF Serving
  <2>2. CASE q # p
    <3>1. ~Pending(q) /\ ~Pending(q)'
      BY <1>0, <1>1, <2>2 DEF Pending, At
    <3> QED
      BY <1>1, <1>2, <2>1, <2>2, <3>1, FifoSame, MaxJobsAssumption DEF Types
  <2>3. CASE q = p
    <3>1. Pending(q) /\ ~Pending(q)'
      BY <1>0, <1>1, <2>3 DEF Pending, At
    <3>2. PICK d \in Data : d = data[call[main].node]
      BY <1>1
    <3>3. InOrder(pushed[q], popped[q], Contents(q), TRUE, d)
      BY <2>1, <3>1, <3>2 DEF FifoInv, InOrder
    <3>4. Contents(q) \in Seq(Data) /\ pushed[q] \in Seq(Data) /\ popped[q] \in Seq(Data)
      BY <1>2, ContentsType DEF Serving, QueueInv, Types
    <3>5. InOrder(pushed[q], popped[q], <<d>> \o Contents(q), FALSE, data'[call'[main].node])
      BY <3>3, <3>4, OrderLink
    <3>6. Contents(q)' = <<d>> \o Contents(q)
      BY <1>1, <1>3, <2>3, <3>2 DEF With
    <3> QED
      BY <1>2, <2>1, <3>1, <3>5, <3>6 DEF FifoInv, InOrder
  <2> QED
    BY <2>2, <2>3
<1>7. ASSUME NEW q \in Queues
      PROVE  /\ Left(q) = 0 /\ Left(q)' = 0 /\ Granted(q)' = 0 /\ Granted(q) = 0 /\ Releases(q) \in Int
  BY <1>1, <1>2, <1>3, ReleasesType DEF Left, At, Granted, Serving, QueueInv
<1> QED
  BY <1>1, <1>2, <1>5, <1>6, <1>7, MainKeeps

\* One post of queue_release_threads.
LEMMA MainPostKeeps ==
  ASSUME Serving, ReleasePost(main), UNCHANGED <<main_vars, alive, pc, job, print_vars, pushed, popped, faults>>,
         main_pc # "done"
  PROVE  Serving'
<1>0. PICK p : p = call[main].q
  OBVIOUS
<1>1. /\ QueueInv' /\ Moves(main) /\ At(main, "release") /\ p \in Queues /\ call[main].left \in Nat \ {0}
      /\ IF call[main].left = 1 THEN call'[main] = NoCall
         ELSE At(main, "release")' /\ call'[main].q = p /\ call'[main].left = call[main].left - 1
      /\ UNCHANGED <<data, allocated, result>>
      /\ \A q \in Queues : Contents(q)' = Contents(q)
      /\ Releases(p) \in Int /\ Releases(p)' = Releases(p) + 1
      /\ \A q \in Queues : q # p => Releases(q)' = Releases(q)
  BY <1>0, ThreadsAre, ReleasePostStep DEF Serving
<1>2. main_pc' = main_pc /\ jobs' = jobs /\ Types' /\ MainInv /\ Types
  BY DEF Serving, Types, main_vars, print_vars
<1>3. main_pc \in {"release2", "join"}
  BY <1>1, <1>2 DEF Types, MainInv, At
<1>4. MainInv'
  BY <1>0, <1>1, <1>2, <1>3, NoCallIs DEF MainInv, At
<1>5. ASSUME NEW q \in Queues PROVE FifoInv(q)'
  <2>1. ~Pending(q) /\ ~Pending(q)'
    BY <1>1, NoCallIs DEF Pending, At
  <2> QED
    BY <1>1, <1>2, <2>1, FifoSame, MaxJobsAssumption DEF Types, Serving
<1>6. ASSUME NEW q \in Queues
      PROVE  /\ Left(q) \in Nat /\ Left(q)' = IF q = p THEN Left(q) - 1 ELSE Left(q)
             /\ Left(q)' \in Nat
             /\ Granted(q)' = Granted(q) /\ Granted(q) \in Nat /\ Releases(q) \in Int
             /\ Releases(q)' = IF q = p THEN Releases(q) + 1 ELSE Releases(q)
  <2>1. Left(q) \in Nat /\ Left(q)' = (IF q = p THEN Left(q) - 1 ELSE Left(q)) /\ Left(q)' \in Nat
    BY <1>0, <1>1, NoCallIs DEF Left, At
  <2>2. Granted(q)' = Granted(q) /\ Granted(q) \in Nat
    BY <1>2, NullsType DEF Granted
  <2>3. Releases(q) \in Int
    BY ReleasesType DEF Serving, QueueInv
  <2> QED
    BY <1>1, <2>1, <2>2, <2>3
<1>7. \A q \in Queues : (Releases(q)' + Left(q)') - Granted(q)' = (Releases(q) + Left(q)) - Granted(q)
  BY <1>6
<1>8. \A q \in Queues : Releases(q)' \in {Releases(q), Releases(q) + 1}
  BY <1>6
<1> QED
  BY <1>1, <1>2, <1>4, <1>5, <1>6, <1>7, <1>8, MainKeeps

\* The next step of the call main is in.
LEMMA MainStepKeeps == ASSUME Serving, MainStep, main_pc # "done" PROVE Serving'
<1>1. call[main].at \notin {"pop_unlink", "pop_return"}
  BY DEF Serving, Types, MainInv, At
<1>2. ~PopUnlink(main) /\ ~PopReturn(main)
  BY <1>1 DEF PopUnlink, PopReturn, At
<1>3. Quiet(main) \/ PushLink(main) \/ ReleasePost(main)
  BY <1>2 DEF MainStep, QueueStep, Quiet
<1> QED
  BY <1>3, MainQuietKeeps, MainLinkKeeps, MainPostKeeps DEF MainStep

\* main asks for the release of the threads of one queue.
LEMMA ReleaseKeeps ==
  ASSUME Serving, NEW p \in Queues, NEW number \in Nat, CallRelease(main, p, number),
         UNCHANGED <<jobs, new_job, alive, pc, job, print_vars, pushed, popped, faults>>,
         \/ main_pc = "release1" /\ main_pc' = "release2" /\ p = q1 /\ number = Cardinality(N1)
         \/ main_pc = "release2" /\ main_pc' = "join" /\ p = q2 /\ number = Cardinality(N2)
  PROVE  Serving'
<1>1. /\ QueueInv' /\ Moves(main) /\ At(main, "none")
      /\ call'[main] = IF number = 0 THEN NoCall
           ELSE [at |-> "release", q |-> p, end |-> "head", node |-> Null, left |-> number]
      /\ UNCHANGED <<data, allocated, result>>
      /\ \A q \in Queues : Contents(q)' = Contents(q) /\ Releases(q)' = Releases(q)
  BY ThreadsAre, CallReleaseStep DEF Serving
<1>2. Types' /\ Types
  BY DEF Serving, Types, print_vars
<1>3. MainInv'
  BY <1>1, NoCallIs DEF MainInv, At
<1>4. ASSUME NEW q \in Queues PROVE FifoInv(q)'
  <2>1. ~Pending(q) /\ ~Pending(q)'
    BY <1>1, NoCallIs DEF Pending, At
  <2> QED
    BY <1>1, <1>2, <2>1, FifoSame, MaxJobsAssumption DEF Types, Serving
<1>5. ASSUME NEW q \in Queues
      PROVE  /\ Left(q) = 0 /\ Left(q)' \in Nat /\ Granted(q) \in Nat /\ Granted(q)' \in Nat
             /\ Granted(q)' = Granted(q) + Left(q)' /\ Releases(q) \in Int
  <2>1. Left(q) = 0 /\ Left(q)' = (IF q = p THEN number ELSE 0)
    BY <1>1, NoCallIs DEF Left, At
  <2>2. Granted(q)' = Granted(q) + (IF q = p THEN number ELSE 0) /\ Granted(q) \in Nat
    BY ThreadsAre DEF Granted
  <2>3. Releases(q) \in Int
    BY ReleasesType DEF Serving, QueueInv
  <2> QED
    BY <2>1, <2>2, <2>3
<1>6. \A q \in Queues : (Releases(q)' + Left(q)') - Granted(q)' = (Releases(q) + Left(q)) - Granted(q)
  BY <1>1, <1>5
<1> QED
  BY <1>1, <1>2, <1>3, <1>4, <1>5, <1>6, MainKeeps

\* main reads a job, and pushes it if there are printers for it.
LEMMA ReadKeeps ==
  ASSUME Serving, NEW a \in Data, NEW input \in Inputs, ReadJob(a, input)
  PROVE  Serving'
<1>1. /\ main_pc = "read" /\ main_pc' = "free" /\ jobs' = jobs + 1 /\ jobs' \in 0 .. MaxJobs /\ jobs \in Nat
      /\ jobs <= jobs' /\ new_job' = a /\ alive' \in SUBSET Data /\ Types
      /\ UNCHANGED <<pc, job, child, forked, popped>>
  BY MaxJobsAssumption DEF ReadJob, Create, Serving, Types, print_vars
<1>2. faults' \in SUBSET {"freed", "closed", "null_stream", "input", "crash"}
  BY <1>1, FaultsType DEF ReadJob, Types
<1>3. At(main, "none") /\ main \in Threads
  BY <1>1, ThreadsAre DEF Serving, MainInv
<1>4. \A q \in Queues : Granted(q) = 0 /\ Granted(q)' = 0
  BY <1>1 DEF Granted
<1>5. CASE input \in {"pdf1", "pdf2"}
  <2>0. PICK p \in Queues : p = IF input = "pdf1" THEN q1 ELSE q2
    BY ThreadsAre
  <2>1. CallPush(main, p, a, "head") /\ pushed' = [pushed EXCEPT ![p] = Append(@, a)]
    BY <1>5, <2>0 DEF ReadJob
  <2>2. /\ QueueInv' /\ Moves(main)
        /\ call'[main].at = "push_lock" /\ call'[main].q = p /\ call'[main].end = "head"
        /\ data'[call'[main].node] = a
        /\ UNCHANGED result
        /\ \A q \in Queues : Contents(q)' = Contents(q) /\ Releases(q)' = Releases(q)
    BY <1>3, <2>1, CallPushStep DEF Serving, Ends
  <2>3. MainInv'
    BY <1>1, <2>2 DEF MainInv, At
  <2>4. pushed' \in [Queues -> Seq(Data)]
    BY <1>1, <2>1, AppendProperties DEF Types
  <2>5. Types'
    BY <1>1, <1>2, <2>4 DEF Types
  <2>6. ASSUME NEW q \in Queues PROVE FifoInv(q)'
    <3>1. FifoInv(q) /\ ~Pending(q) /\ (Pending(q)' <=> q = p)
      BY <1>3, <2>2 DEF Serving, Pending, At
    <3>2. CASE q # p
      BY <1>1, <2>1, <2>2, <3>1, <3>2, FifoSame DEF Types
    <3>3. CASE q = p
      <4>1. Contents(q) \in Seq(Data) /\ pushed[q] \in Seq(Data) /\ popped[q] \in Seq(Data)
        BY <1>1, ContentsType DEF Serving, QueueInv, Types
      <4>2. InOrder(pushed[q], popped[q], Contents(q), FALSE, data[call[main].node])
        BY <3>1 DEF FifoInv, InOrder
      <4>3. PICK v : v = Append(pushed[q], a)
        OBVIOUS
      <4>4. Len(v) = Len(pushed[q]) + 1 /\ InOrder(v, popped[q], Contents(q), TRUE, a)
        <5>0. PICK d : d = data[call[main].node]
          OBVIOUS
        <5>1. PICK u \in Seq(Data), o \in Seq(Data), c \in Seq(Data) :
                u = pushed[q] /\ o = popped[q] /\ c = Contents(q)
          BY <4>1
        <5>2. InOrder(u, o, c, FALSE, d) /\ v = Append(u, a)
          BY <4>2, <4>3, <5>0, <5>1
        <5>3. Len(v) = Len(u) + 1
          BY <5>1, <5>2, AppendProperties
        <5>4. \A i \in 1 .. Len(u) : v[i] = u[i]
          BY <5>1, <5>2, AppendProperties
        <5>5. v[Len(v)] = a
          BY <5>1, <5>2, <5>3, AppendProperties
        <5>6. Len(u) = Len(o) + Len(c) /\ Len(u) \in Nat /\ Len(o) \in Nat /\ Len(c) \in Nat
          BY <5>1, <5>2, LenProperties DEF InOrder
        <5>7. (\A i \in 1 .. Len(o) : o[i] = v[i]) /\ \A i \in 1 .. Len(c) : c[i] = v[(Len(o) + Len(c) + 1) - i]
          BY <5>2, <5>4, <5>6 DEF InOrder
        <5>8. InOrder(v, o, c, TRUE, a)
          BY <5>3, <5>5, <5>6, <5>7 DEF InOrder
        <5> QED
          BY <5>1, <5>3, <5>8
      <4>5. pushed'[q] = v /\ popped'[q] = popped[q] /\ Contents(q)' = Contents(q)
        BY <1>1, <2>1, <2>2, <3>3, <4>3 DEF Types
      <4>6. Len(pushed[q]) \in Nat /\ Len(pushed[q]) <= jobs
        BY <3>1, <4>1, LenProperties DEF FifoInv
      <4> QED
        BY <1>1, <2>2, <3>1, <3>3, <4>4, <4>5, <4>6 DEF FifoInv, InOrder
    <3> QED
      BY <3>2, <3>3
  <2>7. ASSUME NEW q \in Queues PROVE Left(q) = 0 /\ Left(q)' = 0 /\ Releases(q) \in Int
    BY <1>3, <2>2, ReleasesType DEF Left, At, Serving, QueueInv
  <2> QED
    BY <1>1, <1>4, <2>2, <2>3, <2>5, <2>6, <2>7, MainKeeps
<1>6. CASE input \notin {"pdf1", "pdf2"}
  <2>1. UNCHANGED <<queue_vars, pushed, popped, pc, job>>
    BY <1>1, <1>6 DEF ReadJob
  <2>2. Types'
    BY <1>1, <1>2, <2>1 DEF Types
  <2>3. MainInv'
    BY <1>1, <1>3, <2>1 DEF MainInv, At, queue_vars
  <2> QED
    BY <1>1, <1>4, <2>1, <2>2, <2>3, MainWorks
<1> QED
  BY <1>5, <1>6

\* A call of one spooler concerns neither main nor another spooler.
LEMMA SpoolerMoves ==
  ASSUME Serving, NEW s \in Spoolers, Moves(s), UNCHANGED main_vars,
         \A u \in Spoolers : u # s => pc'[u] = pc[u] /\ job'[u] = job[u] /\ result'[u] = result[u]
  PROVE  /\ MainInv' /\ call'[main] = call[main]
         /\ \A u \in Spoolers : u # s => SpoolerInv(u)' /\ (GivenNull(u)' <=> GivenNull(u))
         /\ \A q \in Queues : /\ Pending(q)' <=> Pending(q)
                              /\ Left(q)' = Left(q) /\ Granted(q)' = Granted(q)
<1>1. call'[main] = call[main] /\ \A u \in Spoolers : u # s => call'[u] = call[u]
  BY ThreadsAre DEF Moves
<1>2. main_pc' = main_pc
  BY DEF main_vars
<1>3. MainInv'
  BY <1>1, <1>2, MainStays DEF Serving
<1>4. ASSUME NEW u \in Spoolers, u # s PROVE SpoolerInv(u)' /\ (GivenNull(u)' <=> GivenNull(u))
  BY <1>1, <1>4 DEF Serving, SpoolerInv, GivenNull, At
<1>5. \A q \in Queues : /\ Pending(q)' <=> Pending(q)
                        /\ Left(q)' = Left(q) /\ Granted(q)' = Granted(q)
  BY <1>1, <1>2 DEF Pending, Left, Granted, At
<1> QED
  BY <1>1, <1>3, <1>4, <1>5

\* A step of a spooler's call by which it is not given NULL.
LEMMA SpoolerCalls ==
  ASSUME Serving, NEW s \in Spoolers, Moves(s), UNCHANGED main_vars,
         \A u \in Spoolers : u # s => pc'[u] = pc[u] /\ job'[u] = job[u] /\ result'[u] = result[u],
         QueueInv', Types', SpoolerInv(s)', GivenNull(s)' <=> GivenNull(s),
         \A q \in Queues : FifoInv(q)', \A q \in Queues : Releases(q)' = Releases(q),
         \A q \in Queues : Contents(q) = <<>> => Contents(q)' = <<>>
  PROVE  Serving'
<1>1. /\ MainInv' /\ \A u \in Spoolers : SpoolerInv(u)' /\ (GivenNull(u)' <=> GivenNull(u))
      /\ \A q \in Queues : Left(q)' = Left(q) /\ Granted(q)' = Granted(q)
  BY SpoolerMoves
<1>2. ASSUME NEW q \in Queues PROVE GrantInv(q)' /\ DrainInv(q)'
  <2>1. Nulls(q)' = Nulls(q)
    BY <1>1 DEF Nulls
  <2> QED
    BY <1>1, <2>1 DEF Serving, GrantInv, DrainInv
<1> QED
  BY <1>1, <1>2 DEF Serving

\* A step that moves no content either.
LEMMA SpoolerQuiet ==
  ASSUME Serving, NEW s \in Spoolers, Moves(s), UNCHANGED <<main_vars, pushed, popped>>,
         \A u \in Spoolers : u # s => pc'[u] = pc[u] /\ job'[u] = job[u] /\ result'[u] = result[u],
         QueueInv', Types', SpoolerInv(s)', GivenNull(s)' <=> GivenNull(s),
         \A q \in Queues : Contents(q)' = Contents(q) /\ Releases(q)' = Releases(q),
         UNCHANGED data
  PROVE  Serving'
<1>1. /\ call'[main] = call[main] /\ \A q \in Queues : Pending(q)' <=> Pending(q)
  BY SpoolerMoves
<1>2. jobs' = jobs /\ jobs \in Nat
  BY MaxJobsAssumption DEF main_vars, Serving, Types
<1>3. ASSUME NEW q \in Queues PROVE FifoInv(q)'
  BY <1>1, <1>2, FifoSame DEF Serving, Types
<1> QED
  BY <1>3, SpoolerCalls

\* The spooler calls queue_pop.
LEMMA PopKeeps ==
  ASSUME Serving, NEW s \in Spoolers, SpoolerPop(s)
  PROVE  Serving'
<1>1. /\ QueueInv' /\ Moves(s) /\ At(s, "none")
      /\ call'[s] = [at |-> "pop_wait", q |-> QueueOf(s), end |-> "tail", node |-> Null, left |-> 0]
      /\ result' = [result EXCEPT ![s] = Null] /\ UNCHANGED <<data, allocated>>
      /\ \A q \in Queues : Contents(q)' = Contents(q) /\ Releases(q)' = Releases(q)
  BY ThreadsAre, CallPopStep DEF Serving, SpoolerPop, Ends
<1>2. /\ pc[s] = "pop" /\ pc'[s] = "got" /\ job' = job
      /\ \A u \in Spoolers : u # s => pc'[u] = pc[u] /\ job'[u] = job[u]
      /\ UNCHANGED <<main_vars, alive, job, print_vars, pushed, popped, faults>>
  BY DEF SpoolerPop, Serving, Types
<1>3. Types'
  BY DEF SpoolerPop, Serving, Types, main_vars, print_vars
<1>4. \A u \in Spoolers : u # s => result'[u] = result[u]
  BY <1>1, ThreadsAre DEF Serving, QueueInv, StateInv, QTypes
<1>5. SpoolerInv(s)'
  BY <1>1, <1>2 DEF SpoolerInv, Serving, At
<1>6. ~GivenNull(s) /\ ~GivenNull(s)'
  BY <1>1, <1>2 DEF GivenNull, At
<1> QED
  BY <1>1, <1>2, <1>3, <1>4, <1>5, <1>6, SpoolerQuiet

\* Only unlinking is seen in the history.
LEMMA StepTypes ==
  ASSUME Serving, NEW s \in Spoolers, SpoolerStep(s)
  PROVE  /\ UNCHANGED <<main_vars, alive, pc, job, print_vars, pushed, faults>>
         /\ call \in [Threads -> Calls] /\ result \in [Threads -> Data \cup {Null}] /\ s \in Threads
         /\ pc[s] = "got" /\ call[s].q = QueueOf(s) /\ call[s].end = "tail" /\ QueueInv /\ SpoolerInv(s)
         /\ QueueOf(s) \in Queues /\ ~At(s, "none")
         /\ popped' \in [Queues -> Seq(Data)] => Types'
<1>1. ~At(s, "none")
  BY DEF SpoolerStep, QueueStep, PushLock, PushLink, PushPost, PushUnlock, PopWait, PopLock, PopUnlink,
         PopUnlock, PopReturn, ReleasePost, At
<1>2. UNCHANGED <<main_vars, alive, pc, job, print_vars, pushed, faults>>
  BY DEF SpoolerStep
<1>3. pc[s] = "got" /\ call[s].q = QueueOf(s) /\ call[s].end = "tail"
  BY <1>1 DEF Serving, SpoolerInv
<1>4. popped' \in [Queues -> Seq(Data)] => Types'
  BY <1>2 DEF Serving, Types, main_vars, print_vars
<1> QED
  BY <1>1, <1>2, <1>3, <1>4, ThreadsAre DEF Serving, QueueInv, StateInv, QTypes

\* The locks and the wait of a pop.
LEMMA SpoolerQuietKeeps ==
  ASSUME Serving, NEW s \in Spoolers, SpoolerStep(s), Quiet(s)
  PROVE  Serving'
<1>1. /\ UNCHANGED <<main_vars, alive, pc, job, print_vars, pushed, faults>>
      /\ call \in [Threads -> Calls] /\ s \in Threads /\ pc[s] = "got"
      /\ call[s].q = QueueOf(s) /\ call[s].end = "tail" /\ QueueInv /\ SpoolerInv(s)
      /\ popped' \in [Queues -> Seq(Data)] => Types'
  BY StepTypes
<1>2. QueueInv' /\ Unseen
  BY <1>1, QuietStep
<1>3. /\ Moves(s) /\ call'[s].q = call[s].q /\ call'[s].end = call[s].end /\ call'[s].node = call[s].node
      /\ \/ At(s, "pop_wait") /\ At(s, "pop_lock")'
         \/ At(s, "pop_lock") /\ At(s, "pop_unlink")'
         \/ At(s, "pop_unlock") /\ At(s, "pop_return")'
  BY <1>1, QuietCall DEF SpoolerInv, At
<1>4. popped' = popped
  BY <1>3 DEF SpoolerStep, At
<1>5. Types'
  BY <1>1, <1>4 DEF Serving, Types
<1>6. SpoolerInv(s)'
  BY <1>1, <1>3 DEF SpoolerInv, At
<1>7. GivenNull(s)' <=> GivenNull(s)
  BY <1>1, <1>3 DEF GivenNull, At
<1> QED
  BY <1>1, <1>2, <1>3, <1>4, <1>5, <1>6, <1>7, SpoolerQuiet DEF Unseen

\* The pop returns the job, or NULL.
LEMMA ReturnKeeps ==
  ASSUME Serving, NEW s \in Spoolers, SpoolerStep(s), PopReturn(s)
  PROVE  Serving'
<1>1. /\ UNCHANGED <<main_vars, alive, pc, job, print_vars, pushed, faults>>
      /\ s \in Threads /\ pc[s] = "got" /\ QueueInv /\ SpoolerInv(s)
      /\ result \in [Threads -> Data \cup {Null}]
      /\ popped' \in [Queues -> Seq(Data)] => Types'
  BY StepTypes
<1>2. /\ QueueInv' /\ Moves(s) /\ At(s, "pop_return") /\ call'[s] = NoCall
      /\ call[s].node # Null => data[call[s].node] \in Data
      /\ UNCHANGED data
      /\ result' = [result EXCEPT ![s] = IF call[s].node = Null THEN Null ELSE data[call[s].node]]
      /\ \A p \in Queues : Contents(p)' = Contents(p) /\ Releases(p)' = Releases(p)
  BY <1>1, PopReturnStep
<1>3. popped' = popped
  BY <1>2 DEF SpoolerStep, At
<1>4. Types'
  BY <1>1, <1>3 DEF Serving, Types
<1>5. SpoolerInv(s)'
  BY <1>1, <1>2, NoCallIs DEF SpoolerInv, At
<1>6. (result'[s] = Null <=> call[s].node = Null) /\ \A u \in Spoolers : u # s => result'[u] = result[u]
  BY <1>1, <1>2, DataAssumption DEF Null
<1>7. GivenNull(s)' <=> GivenNull(s)
  BY <1>1, <1>2, <1>6, NoCallIs DEF GivenNull, At
<1> QED
  BY <1>1, <1>2, <1>3, <1>4, <1>5, <1>6, <1>7, SpoolerQuiet

\* The oldest job is taken out of the list.
LEMMA TakeKeeps ==
  ASSUME Serving, NEW s \in Spoolers, SpoolerStep(s), PopUnlink(s), Contents(QueueOf(s)) # <<>>
  PROVE  Serving'
<1>0. PICK p, d : p = QueueOf(s) /\ d = data[call[main].node]
  OBVIOUS
<1>1. /\ UNCHANGED <<main_vars, alive, pc, job, print_vars, pushed, faults>>
      /\ s \in Threads /\ pc[s] = "got" /\ QueueInv /\ SpoolerInv(s) /\ p \in Queues
      /\ call[s].q = p /\ call[s].end = "tail"
      /\ popped' \in [Queues -> Seq(Data)] => Types'
  BY <1>0, StepTypes
<1>2. /\ QueueInv' /\ Moves(s) /\ At(s, "pop_unlink")
      /\ call'[s].at = "pop_unlock" /\ call'[s].q = p /\ call'[s].node # Null /\ call'[s].node = tail[p]
      /\ UNCHANGED <<data, allocated, result>>
      /\ Contents(p)' = Rest(p, "tail") /\ data[tail[p]] = EndOf(p, "tail")
      /\ \A q \in Queues : q # p => Contents(q)' = Contents(q)
      /\ \A q \in Queues : Releases(q)' = Releases(q)
  BY <1>0, <1>1, PopNodeStep
<1>3. call'[s].end = "tail"
  BY <1>1, ThreadsAre DEF PopUnlink, Serving, QueueInv, StateInv, QTypes, Calls
<1>4. popped' = [popped EXCEPT ![p] = Append(@, data[tail[p]])]
  BY <1>0, <1>1, <1>2 DEF SpoolerStep, At
<1>5. PICK u \in Seq(Data), o \in Seq(Data), c \in Seq(Data), w \in BOOLEAN :
        u = pushed[p] /\ o = popped[p] /\ c = Contents(p) /\ w = Pending(p)
  BY <1>1, ContentsType DEF Serving, QueueInv, Types, Pending
<1>6. c # <<>> /\ InOrder(u, o, c, w, d) /\ Len(u) <= jobs
  BY <1>0, <1>1, <1>5 DEF Serving, FifoInv
<1>7. /\ Append(o, c[Len(c)]) \in Seq(Data)
      /\ InOrder(u, Append(o, c[Len(c)]), SubSeq(c, 1, Len(c) - 1), w, d)
  BY <1>5, <1>6, OrderPop
<1>8. popped'[p] = Append(o, c[Len(c)]) /\ Contents(p)' = SubSeq(c, 1, Len(c) - 1)
  BY <1>1, <1>2, <1>4, <1>5 DEF EndOf, Rest, Without, Serving, Types
<1>9. popped' \in [Queues -> Seq(Data)]
  BY <1>1, <1>4, <1>7, <1>8 DEF Serving, Types
<1>10. SpoolerInv(s)' /\ ~GivenNull(s) /\ ~GivenNull(s)'
  BY <1>0, <1>1, <1>2, <1>3 DEF SpoolerInv, GivenNull, At
<1>11. call'[main] = call[main] /\ \A q \in Queues : Pending(q)' <=> Pending(q)
  BY <1>1, <1>2, SpoolerMoves
<1>12. jobs' = jobs /\ jobs \in Nat
  BY <1>1, MaxJobsAssumption DEF main_vars, Serving, Types
<1>13. ASSUME NEW q \in Queues PROVE FifoInv(q)'
  <2>1. CASE q = p
    <3>1. /\ pushed'[q] = u /\ popped'[q] = Append(o, c[Len(c)]) /\ Contents(q)' = SubSeq(c, 1, Len(c) - 1)
          /\ data'[call'[main].node] = d
      BY <1>0, <1>1, <1>2, <1>5, <1>8, <1>11, <2>1
    <3>2. Pending(q)' <=> w
      BY <1>5, <1>11, <2>1
    <3> QED
      BY <1>6, <1>7, <1>12, <3>1, <3>2 DEF FifoInv, InOrder
  <2>2. CASE q # p
    <3>1. popped'[q] = popped[q] /\ Contents(q)' = Contents(q)
      BY <1>2, <1>4, <2>2 DEF Serving, Types
    <3> QED
      BY <1>1, <1>2, <1>11, <1>12, <3>1, FifoSame DEF Serving, Types
  <2> QED
    BY <2>1, <2>2
<1>14. \A q \in Queues : Contents(q) = <<>> => Contents(q)' = <<>>
  BY <1>0, <1>2
<1> QED
  BY <1>1, <1>2, <1>9, <1>10, <1>13, <1>14, SpoolerCalls

\* One release less is waiting, and one more spooler was given NULL.
LEMMA NullCounted ==
  ASSUME NEW A \in SUBSET Spoolers, NEW B \in SUBSET Spoolers, NEW s \in Spoolers,
         A \ {s} = B \ {s}, s \notin A, s \in B
  PROVE  Cardinality(A) \in Nat /\ Cardinality(B) = Cardinality(A) + 1
BY ThreadsAre, CountChange

\* A spooler that was released finds the list empty.
LEMMA NothingKeeps ==
  ASSUME Serving, NEW s \in Spoolers, SpoolerStep(s), PopUnlink(s), Contents(QueueOf(s)) = <<>>
  PROVE  Serving'
<1>0. PICK p : p = QueueOf(s)
  OBVIOUS
<1>1. /\ UNCHANGED <<main_vars, alive, pc, job, print_vars, pushed, faults>>
      /\ s \in Threads /\ pc[s] = "got" /\ QueueInv /\ SpoolerInv(s) /\ p \in Queues
      /\ call[s].q = p /\ call[s].end = "tail"
      /\ popped' \in [Queues -> Seq(Data)] => Types'
  BY <1>0, StepTypes
<1>2. /\ QueueInv' /\ Moves(s) /\ At(s, "pop_unlink")
      /\ call'[s].at = "pop_unlock" /\ call'[s].q = p /\ call'[s].node = Null
      /\ UNCHANGED <<data, allocated, result>>
      /\ \A q \in Queues : Contents(q)' = Contents(q)
      /\ Releases(p) > 0 /\ Releases(p)' = Releases(p) - 1
      /\ \A q \in Queues : q # p => Releases(q)' = Releases(q)
  BY <1>0, <1>1, PopNothingStep
<1>3. call'[s].end = "tail" /\ call'[s].node = tail[p]
  BY <1>1, ThreadsAre DEF PopUnlink, Serving, QueueInv, StateInv, QTypes, Calls
<1>4. popped' = popped
  BY <1>0, <1>1, <1>2, <1>3 DEF SpoolerStep
<1>5. Types'
  BY <1>1, <1>4 DEF Serving, Types
<1>6. SpoolerInv(s)' /\ ~GivenNull(s) /\ GivenNull(s)'
  BY <1>0, <1>1, <1>2, <1>3 DEF SpoolerInv, GivenNull, At
<1>7. /\ MainInv' /\ call'[main] = call[main]
      /\ \A u \in Spoolers : u # s => SpoolerInv(u)' /\ (GivenNull(u)' <=> GivenNull(u))
      /\ \A q \in Queues : /\ Pending(q)' <=> Pending(q)
                           /\ Left(q)' = Left(q) /\ Granted(q)' = Granted(q)
  BY <1>1, <1>2, SpoolerMoves
<1>8. ASSUME NEW q \in Queues PROVE FifoInv(q)'
  <2>1. jobs' = jobs /\ jobs \in Nat
    BY <1>1, MaxJobsAssumption DEF main_vars, Serving, Types
  <2> QED
    BY <1>1, <1>2, <1>4, <1>7, <2>1, FifoSame DEF Serving, Types
<1>9. ASSUME NEW q \in Queues PROVE GrantInv(q)' /\ DrainInv(q)'
  <2>1. CASE q # p
    <3>1. Nulls(q)' = Nulls(q)
      BY <1>0, <1>6, <1>7, <2>1 DEF Nulls
    <3> QED
      BY <1>2, <1>7, <2>1, <3>1 DEF Serving, GrantInv, DrainInv
  <2>2. CASE q = p
    <3>1. PICK A \in SUBSET Spoolers, B \in SUBSET Spoolers : A = Nulls(q) /\ B = Nulls(q)'
      BY DEF Nulls
    <3>2. A \ {s} = B \ {s} /\ s \notin A /\ s \in B
      BY <1>0, <1>6, <1>7, <2>2, <3>1 DEF Nulls
    <3>3. Cardinality(A) \in Nat /\ Cardinality(B) = Cardinality(A) + 1
      BY <3>2, NullCounted
    <3>4. Releases(q) \in Int /\ Left(q) \in Nat
      <4>1. call[main].left \in Nat
        BY ThreadsAre, CallFacts DEF Serving, QueueInv
      <4> QED
        BY <4>1, ReleasesType DEF Serving, QueueInv, Left
    <3>5. GrantInv(q)'
      BY <1>2, <1>7, <2>2, <3>1, <3>3, <3>4 DEF Serving, GrantInv
    <3> QED
      BY <1>0, <1>2, <2>2, <3>5 DEF DrainInv
  <2> QED
    BY <2>1, <2>2
<1> QED
  BY <1>2, <1>5, <1>6, <1>7, <1>8, <1>9 DEF Serving

\* The next step of the call a spooler is in.
LEMMA SpoolerStepKeeps ==
  ASSUME Serving, NEW s \in Spoolers, SpoolerStep(s)
  PROVE  Serving'
<1>1. call[s].at \notin {"push_link", "release"}
  BY DEF Serving, SpoolerInv
<1>2. ~PushLink(s) /\ ~ReleasePost(s)
  BY <1>1 DEF PushLink, ReleasePost, At
<1>3. Quiet(s) \/ PopUnlink(s) \/ PopReturn(s)
  BY <1>2 DEF SpoolerStep, QueueStep, Quiet
<1> QED
  BY <1>3, SpoolerQuietKeeps, ReturnKeeps, TakeKeeps, NothingKeeps

\* A step of the program before its queues are destroyed.
LEMMA StepKeeps ==
  ASSUME Serving, main_pc # "done", Main \/ \E s \in Spoolers : SpoolerNext(s) \/ ChildExit(s), ~Destroy
  PROVE  Serving'
<1>1. CASE Release1
  <2>1. Cardinality(N1) \in Nat /\ q1 \in Queues
    BY ThreadsAre
  <2> QED
    BY <1>1, <2>1, ReleaseKeeps DEF Release1
<1>2. CASE Release2
  <2>1. Cardinality(N2) \in Nat /\ q2 \in Queues
    BY ThreadsAre
  <2> QED
    BY <1>2, <2>1, ReleaseKeeps DEF Release2
<1>3. ASSUME NEW s \in Spoolers, SpoolerNext(s) PROVE Serving'
  BY <1>3, PopKeeps, SpoolerStepKeeps, GotKeeps, WorkKeeps DEF SpoolerNext
<1> QED
  BY <1>1, <1>2, <1>3, ReadKeeps, FreeKeeps, ExitKeeps, JoinKeeps, MainStepKeeps, ChildKeeps DEF Main

\* A spooler that has returned does nothing more.
LEMMA JoinedKeeps ==
  ASSUME Serving, Joined, main_pc # "done",
         Main \/ \E s \in Spoolers : SpoolerNext(s) \/ ChildExit(s), ~Destroy
  PROVE  Joined'
<1>1. CASE \E s \in Spoolers : ChildExit(s)
  BY <1>1 DEF ChildExit, Joined, main_vars
<1>2. ASSUME NEW s \in Spoolers, SpoolerNext(s) PROVE Joined'
  <2>1. SpoolerStep(s) => pc[s] = "got"
    BY StepTypes
  <2>2. pc[s] # "returned" /\ main_pc' = main_pc
    BY <1>2, <2>1 DEF SpoolerNext, SpoolerPop, SpoolerStep, SpoolerGot, SpoolerLog, SpoolerFork, SpoolerWait,
                      SpoolerNoChild, SpoolerDestroy, main_vars
  <2> QED
    BY <2>2 DEF Joined
<1>3. CASE Main
  <2>1. CASE Join
    BY <2>1 DEF Join, Joined
  <2>2. CASE MainStep
    BY <2>2 DEF MainStep, Joined, main_vars
  <2>3. CASE (\E a \in Data, input \in Inputs : ReadJob(a, input)) \/ FreeJob \/ ReadExit \/ Release1 \/ Release2
    BY <2>3 DEF ReadJob, FreeJob, ReadExit, Release1, Release2, Joined
  <2> QED
    BY <1>3, <2>1, <2>2, <2>3 DEF Main
<1> QED
  BY <1>1, <1>2, <1>3

-----------------------------------------------------------------------------
(* What the invariant says. *)

\* The releases that wait for a spooler.
LEMMA ReleasesAre ==
  ASSUME Serving, NEW q \in Queues
  PROVE  /\ Releases(q) \in Nat /\ Cardinality(Nulls(q)) \in Nat /\ Left(q) \in Nat /\ Granted(q) \in Nat
         /\ Releases(q) + Cardinality(Nulls(q)) + Left(q) = Granted(q)
         /\ Granted(q) <= Cardinality(Spoolers) /\ Cardinality(Spoolers) \in Nat
         /\ Nulls(q) # {} => main_pc \in {"release2", "join", "destroy"} /\ ~Pending(q) /\ Contents(q) = <<>>
<1>1. Releases(q) \in Nat
  BY ReleasesType DEF Serving, QueueInv, TokenInv
<1>2. Left(q) \in Nat
  <2>1. call[main].left \in Nat
    BY ThreadsAre, CallFacts DEF Serving, QueueInv
  <2> QED
    BY <2>1 DEF Left
<1>3. /\ Cardinality(Nulls(q)) \in Nat /\ Granted(q) \in Nat
      /\ Granted(q) <= Cardinality(Spoolers) /\ Cardinality(Spoolers) \in Nat
      /\ Nulls(q) # {} => Cardinality(Nulls(q)) > 0
  BY NullsType, ThreadsAre
<1>4. Releases(q) + Cardinality(Nulls(q)) + Left(q) = Granted(q)
  BY DEF Serving, GrantInv
<1>5. Nulls(q) # {} => Granted(q) # 0
  <2>1. PICK r \in Nat, k \in Nat, l \in Nat, g \in Nat :
          r = Releases(q) /\ k = Cardinality(Nulls(q)) /\ l = Left(q) /\ g = Granted(q)
    BY <1>1, <1>2, <1>3
  <2>2. r + k + l = g
    BY <1>4, <2>1
  <2>3. k > 0 => g # 0
    BY <2>2
  <2> QED
    BY <1>3, <2>1, <2>3
<1>6. Granted(q) # 0 => main_pc \in {"release2", "join", "destroy"}
  BY DEF Granted
<1>7. main_pc \in {"release2", "join", "destroy"} => ~Pending(q)
  BY DEF Serving, MainInv, Pending, At
<1> QED
  BY <1>1, <1>2, <1>3, <1>4, <1>5, <1>6, <1>7 DEF Serving, DrainInv

\* What was popped is the beginning of what was pushed, and all of it when the list is
\* empty and nothing is pending.
LEMMA PoppedIsPrefix ==
  ASSUME NEW u \in Seq(Data), NEW o \in Seq(Data), NEW c \in Seq(Data), NEW w \in BOOLEAN, NEW d,
         InOrder(u, o, c, w, d)
  PROVE  IsPrefix(o, u) /\ (c = <<>> /\ ~w => o = u)
<1>1. Len(o) \in Nat /\ Len(c) \in Nat /\ Len(u) \in Nat /\ Len(o) <= Len(u) /\ (c = <<>> => Len(c) = 0)
  BY LenProperties, EmptySeq DEF InOrder
<1>2. \A i \in 1 .. Len(o) : o[i] \in Data /\ o[i] = u[i]
  BY <1>1, LenProperties DEF InOrder
<1>3. /\ SubSeq(o, 1, Len(o)) \in Seq(Data) /\ Len(SubSeq(o, 1, Len(o))) = Len(o)
      /\ \A i \in 1 .. Len(o) : SubSeq(o, 1, Len(o))[i] = o[i]
  BY <1>1, <1>2, SubSeqProperties
<1>4. /\ SubSeq(u, 1, Len(o)) \in Seq(Data) /\ Len(SubSeq(u, 1, Len(o))) = Len(o)
      /\ \A i \in 1 .. Len(o) : SubSeq(u, 1, Len(o))[i] = u[i]
  BY <1>1, <1>2, SubSeqProperties
<1>5. SubSeq(o, 1, Len(o)) = SubSeq(u, 1, Len(o))
  BY <1>2, <1>3, <1>4, SeqEqual
<1>6. IsPrefix(o, u)
  BY <1>1, <1>5 DEF IsPrefix
<1>7. c = <<>> /\ ~w => Len(o) = Len(u)
  BY <1>1 DEF InOrder
<1>8. c = <<>> /\ ~w => o = u
  BY <1>2, <1>7, SeqEqual
<1> QED
  BY <1>6, <1>8

\* The invariant gives the properties.
LEMMA ServingGives == ASSUME Serving PROVE TypeOK /\ DrainedBeforeReturn /\ FifoDelivery
<1>1. ASSUME NEW q \in Queues
      PROVE  /\ IsPrefix(popped[q], pushed[q]) /\ (Contents(q) = <<>> /\ ~Pending(q) => popped[q] = pushed[q])
             /\ count[q] \in 0 .. MaxJobs + Cardinality(Spoolers)
  <2>0. PICK d : d = data[call[main].node]
    OBVIOUS
  <2>1. PICK u \in Seq(Data), o \in Seq(Data), c \in Seq(Data), w \in BOOLEAN :
          u = pushed[q] /\ o = popped[q] /\ c = Contents(q) /\ w = Pending(q)
    BY ContentsType DEF Serving, QueueInv, Types, Pending
  <2>2. InOrder(u, o, c, w, d) /\ Len(u) <= jobs
    BY <2>0, <2>1 DEF Serving, FifoInv
  <2>3. IsPrefix(o, u) /\ (c = <<>> /\ ~w => o = u)
    BY <2>2, PoppedIsPrefix
  <2>4. Len(c) \in Nat /\ Len(c) <= Len(u) /\ Len(u) \in Nat /\ jobs \in Nat /\ jobs <= MaxJobs /\ MaxJobs \in Nat
    BY <2>2, LenProperties, MaxJobsAssumption DEF InOrder, Serving, Types
  <2>5. Releases(q) \in Nat /\ Releases(q) <= Cardinality(Spoolers) /\ Cardinality(Spoolers) \in Nat
    BY ReleasesAre
  <2>6. count[q] \in Nat /\ count[q] <= Releases(q) + Len(c)
    BY <2>1, ReleasesType DEF Serving, QueueInv
  <2>7. count[q] \in 0 .. MaxJobs + Cardinality(Spoolers)
    BY <2>2, <2>4, <2>5, <2>6
  <2> QED
    BY <2>1, <2>3, <2>7
<1>2. TypeOK
  <2>1. count \in [Queues -> 0 .. MaxJobs + Cardinality(Spoolers)]
    BY <1>1 DEF Serving, QueueInv, StateInv, QTypes
  <2> QED
    BY <2>1 DEF Serving, Types, TypeOK
<1>3. DrainedBeforeReturn
  <2>1. ASSUME NEW s \in Spoolers, pc[s] = "returned", job[s] = Null
        PROVE  /\ main_pc \in {"release1", "release2", "join", "destroy", "done"}
               /\ popped[QueueOf(s)] = pushed[QueueOf(s)]
    <3>1. s \in Nulls(QueueOf(s)) /\ QueueOf(s) \in Queues
      BY <2>1, ThreadsAre DEF Nulls, GivenNull
    <3> QED
      BY <1>1, <3>1, ReleasesAre
  <2> QED
    BY <2>1 DEF DrainedBeforeReturn
<1> QED
  BY <1>1, <1>2, <1>3 DEF FifoDelivery

\* When main destroys the queues nothing is left in them.
LEMMA QuietAtDestroy ==
  ASSUME Serving, Joined, main_pc = "destroy"
  PROVE  /\ \A t \in Threads : At(t, "none")
         /\ \A q \in Queues : lock[q] = Nobody
         /\ (\A s \in Spoolers : job[s] = Null) =>
              \A s \in Spoolers : count[QueueOf(s)] = 0 /\ head[QueueOf(s)] = Null
<1>1. ASSUME NEW t \in Threads PROVE At(t, "none")
  BY ThreadsAssumption DEF Serving, MainInv, SpoolerInv, Joined
<1>2. ASSUME NEW q \in Queues PROVE lock[q] = Nobody
  <2>1. lock[q] \in Threads \cup {Nobody}
    BY DEF Serving, QueueInv, StateInv, QTypes
  <2>2. ASSUME NEW t \in Threads PROVE lock[q] # t
    BY <1>1 DEF Serving, QueueInv, StateInv, LockInv, Critical, At
  <2> QED
    BY <2>1, <2>2
<1>3. ASSUME \A s \in Spoolers : job[s] = Null, NEW s \in Spoolers
      PROVE  count[QueueOf(s)] = 0 /\ head[QueueOf(s)] = Null
  <2>1. PICK q \in Queues : q = QueueOf(s)
    BY ThreadsAre
  <2>2. Nulls(q) = {u \in Spoolers : QueueOf(u) = q}
    BY <1>3 DEF Nulls, GivenNull, Joined
  <2>3. Granted(q) = Cardinality(Nulls(q))
    BY <2>1, <2>2, ServersAre, ThreadsAre DEF Granted
  <2>4. Releases(q) = 0 /\ Contents(q) = <<>>
    <3>1. s \in Nulls(q)
      BY <2>1, <2>2
    <3> QED
      BY <2>3, <3>1, ReleasesAre
  <2>5. Len(Contents(q)) = 0
    BY <2>4
  <2>6. count[q] = 0
    <3>1. count[q] \in Nat /\ count[q] <= Releases(q) + Len(Contents(q))
      BY ReleasesType DEF Serving, QueueInv
    <3>2. Releases(q) + Len(Contents(q)) = 0
      BY <2>4, <2>5
    <3> QED
      BY <3>1, <3>2
  <2>7. Lists[q] = <<>>
    BY <2>5, ContentsType, NodesOfList DEF Serving, QueueInv
  <2>8. head[q] = Null
    BY <2>7 DEF Serving, QueueInv, StateInv, Placed, IsList
  <2> QED
    BY <2>1, <2>6, <2>8
<1> QED
  BY <1>1, <1>2, <1>3

\* The server is created.
LEMMA CreatedServing == ASSUME Init PROVE Serving /\ Joined
<1>1. QueueInv /\ \A q \in Queues : Contents(q) = <<>> /\ Releases(q) = 0
  BY CreatedIs DEF Init
<1>2. Types
  BY MaxJobsAssumption DEF Init, Types
<1>3. \A t \in Threads : At(t, "none")
  BY NoCallIs DEF Init, QueueInit, At
<1>4. MainInv /\ (\A s \in Spoolers : SpoolerInv(s)) /\ Joined
  BY <1>3, ThreadsAre DEF Init, MainInv, SpoolerInv, Joined, At
<1>5. ASSUME NEW q \in Queues PROVE FifoInv(q) /\ GrantInv(q) /\ DrainInv(q)
  <2>1. ~Pending(q) /\ Left(q) = 0 /\ Granted(q) = 0
    BY <1>3, ThreadsAre DEF Init, Pending, Left, Granted, At
  <2>2. Nulls(q) = {}
    BY DEF Init, Nulls, GivenNull
  <2>3. Cardinality(Nulls(q)) = 0
    BY <2>2, FS_EmptySet
  <2>4. pushed[q] = <<>> /\ popped[q] = <<>> /\ jobs = 0
    BY DEF Init
  <2> QED
    BY <1>1, <2>1, <2>2, <2>3, <2>4 DEF FifoInv, InOrder, GrantInv, DrainInv
<1> QED
  BY <1>1, <1>2, <1>4, <1>5 DEF Serving

\* The queues are destroyed.
LEMMA DestroyKeeps ==
  ASSUME TypeOK, DrainedBeforeReturn, FifoDelivery, Destroy
  PROVE  TypeOK' /\ DrainedBeforeReturn' /\ FifoDelivery'
<1>1. faults' \in SUBSET {"freed", "closed", "null_stream", "input", "crash"}
  BY DEF Destroy, Fault, Crash, TypeOK
<1>2. /\ main_pc' = "done" /\ alive' \in SUBSET Data
      /\ UNCHANGED <<jobs, new_job, pc, job, child, forked, pushed, popped, count>>
  BY DEF Destroy, TypeOK, print_vars
<1>3. TypeOK'
  BY <1>1, <1>2 DEF TypeOK
<1> QED
  BY <1>2, <1>3 DEF DrainedBeforeReturn, FifoDelivery

\* A step in which no variable changes.
LEMMA StutterKeeps ==
  ASSUME Serving, Joined, UNCHANGED vars
  PROVE  Serving' /\ Joined'
<1>1. UNCHANGED <<queue_vars, main_vars, main_pc, jobs, new_job, alive, pc, job, print_vars, child, forked,
                  pushed, popped, faults>>
  BY DEF vars, main_vars, print_vars
<1>2. Types' /\ MainInv' /\ jobs <= jobs' /\ (\A q \in Queues : Granted(q)' = Granted(q)) /\ Joined'
  BY <1>1, MaxJobsAssumption DEF Serving, Types, MainInv, Granted, Joined, At, queue_vars
<1> QED
  BY <1>1, <1>2, MainWorks

\* The inductive invariant of the print server.
THEOREM SpoolInvariant == Spec => []SpoolInv
<1>1. Init => SpoolInv
  BY CreatedServing, ServingGives DEF SpoolInv
<1>2. Serving => TypeOK /\ DrainedBeforeReturn /\ FifoDelivery
  BY ServingGives
<1>3. Serving' => TypeOK' /\ DrainedBeforeReturn' /\ FifoDelivery'
  BY <1>2, PTL
<1>4. SpoolInv /\ [Next]_vars => SpoolInv'
  <2> SUFFICES ASSUME SpoolInv, [Next]_vars PROVE SpoolInv'
    OBVIOUS
  <2>1. CASE main_pc = "done"
    <3>1. UNCHANGED vars
      BY <2>1 DEF Next
    <3>2. main_pc' = "done" /\ TypeOK' /\ DrainedBeforeReturn' /\ FifoDelivery'
      BY <2>1, <3>1 DEF SpoolInv, vars, main_vars, print_vars, queue_vars, TypeOK, DrainedBeforeReturn, FifoDelivery
    <3> QED
      BY <3>2 DEF SpoolInv
  <2>2. CASE main_pc # "done" /\ Destroy
    <3>1. main_pc' = "done"
      BY <2>2 DEF Destroy
    <3> QED
      BY <2>2, <3>1, DestroyKeeps DEF SpoolInv
  <2>3. CASE main_pc # "done" /\ ~Destroy
    <3>1. Serving' /\ Joined'
      BY <2>3, StepKeeps, JoinedKeeps, StutterKeeps DEF SpoolInv, Next
    <3> QED
      BY <1>3, <3>1 DEF SpoolInv
  <2> QED
    BY <2>1, <2>2, <2>3
<1> QED
  BY <1>1, <1>4, PTL DEF Spec

\* Whichever spooler takes it, a job is taken in the order the jobs were read.
THEOREM JobsInOrder == Spec => []FifoDelivery
<1>1. SpoolInv => FifoDelivery
  BY DEF SpoolInv
<1> QED
  BY <1>1, SpoolInvariant, PTL

\* A spooler that returns on NULL leaves no job behind.
THEOREM DrainedOnReturn == Spec => []DrainedBeforeReturn
<1>1. SpoolInv => DrainedBeforeReturn
  BY DEF SpoolInv
<1> QED
  BY <1>1, SpoolInvariant, PTL

\* Nobody is in a queue when it is destroyed, and if no spooler gave up, no job and no
\* wakeup is left in a queue that has spoolers.
THEOREM DestroyIsQuiet == Spec => []QuietDestroy
<1>1. SpoolInv => QuietDestroy
  BY QuietAtDestroy DEF SpoolInv, QuietDestroy
<1> QED
  BY <1>1, SpoolInvariant, PTL

=============================================================================
