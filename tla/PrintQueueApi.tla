--------------------------- MODULE PrintQueueApi ---------------------------
(***************************************************************************)
(* queue.c under any callers: every thread may push and pop at either end  *)
(* and release, in any order.  The calls are bounded, the threads are not  *)
(* told apart.                                                             *)
(***************************************************************************)
EXTENDS PrintQueue

CONSTANTS
  MaxPushes,  \* pushes the callers make; the i-th pushes the value i
  MaxReleases \* releases they make

ASSUME ApiAssumption ==
  MaxPushes \in Nat /\ MaxReleases \in Nat /\ 1 .. MaxPushes \subseteq Data

VARIABLES pushes, released
vars == <<queue_vars, pushes, released>>

Init == QueueInit /\ pushes = 0 /\ released = 0

Push(t, q, e) ==
  /\ pushes < MaxPushes
  /\ CallPush(t, q, pushes + 1, e)
  /\ pushes' = pushes + 1
  /\ UNCHANGED released

Pop(t, q, e) == CallPop(t, q, e) /\ UNCHANGED <<pushes, released>>

Release(t, q, number) ==
  /\ released + number <= MaxReleases
  /\ CallRelease(t, q, number)
  /\ released' = released + number
  /\ UNCHANGED pushes

Step(t) == QueueStep(t) /\ UNCHANGED <<pushes, released>>

Next == \E t \in Threads :
  \/ \E q \in Queues, e \in Ends : Push(t, q, e) \/ Pop(t, q, e)
  \/ \E q \in Queues, number \in 1 .. MaxReleases : Release(t, q, number)
  \/ Step(t)

\* A thread in a call that can go on does; nothing makes a caller call.
Spec == Init /\ [][Next]_vars /\ \A t \in Threads : WF_vars(Step(t))

-----------------------------------------------------------------------------
(* Properties. *)

TypeOK ==
  /\ head \in [Queues -> Nodes \cup {Null}]
  /\ tail \in [Queues -> Nodes \cup {Null}]
  /\ next \in [Nodes -> Nodes \cup {Null}]
  /\ prev \in [Nodes -> Nodes \cup {Null}]
  /\ data \in [Nodes -> Data \cup {Null}]
  /\ allocated \in SUBSET Nodes
  /\ count \in [Queues -> 0 .. MaxPushes + MaxReleases]
  /\ lock \in [Queues -> Threads \cup {Nobody}]
  /\ call \in [Threads -> Calls]
  /\ result \in [Threads -> Data \cup {Null}]
  /\ pushes \in 0 .. MaxPushes
  /\ released \in 0 .. MaxReleases

\* Between two critical sections the links of each list are those of a doubly
\* linked list: walked back from the tail it is the list walked from the head,
\* reversed; it holds every node that is allocated and not in a caller's hands,
\* and no other, so no freed node is reachable.
WellLinked ==
  /\ TypeOK
  /\ (\A q \in Queues : lock[q] = Nobody) =>
       /\ \A q \in Queues : Walk(prev, tail[q]) = Reverse(Walk(next, head[q]))
       /\ {n \in allocated : \A t \in Threads : call[t].node # n}
            \subseteq UNION {ToSet(Walk(next, head[q])) : q \in Queues}
       /\ UNION {ToSet(Walk(next, head[q])) : q \in Queues} \subseteq allocated
       /\ \A p, q \in Queues : p # q =>
            ToSet(Walk(next, head[p])) \cap ToSet(Walk(next, head[q])) = {}

\* The semaphore never promises more than the list and the releases can give,
\* although the list changes under the mutex and the semaphore outside it.
TokensCovered == \A q \in Queues : Releases(q) \in 0 .. released

\* A value is in one place: one node of one list, or in the hands of one caller.
Abstract == INSTANCE AtomicQueue WITH
  Callers  <- Threads,
  Names    <- Queues,
  Values   <- Data,
  Nothing  <- Null,
  contents <- [q \in Queues |-> Contents(q)],
  releases <- [q \in Queues |-> Releases(q)],
  wants    <- [t \in Threads |-> IF call[t].at \in {"pop_wait", "pop_lock", "pop_unlink"}
                                   THEN call[t].q ELSE Null],
  got      <- [t \in Threads |-> IF call[t].at \in {"pop_unlock", "pop_return"}
                                   THEN IF call[t].node = Null THEN Null ELSE data[call[t].node]
                                   ELSE result[t]]

\* queue.c is the atomic blocking queue of queue.h: a push takes effect when the
\* node is linked, a pop when it is unlinked, a release when it is posted; and a
\* caller that waits while the queue has something for it is served.
IsAtomicQueue == Abstract!AtomicSpec
=============================================================================
