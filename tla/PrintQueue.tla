----------------------------- MODULE PrintQueue -----------------------------
(***************************************************************************)
(* The blocking queue of the print server: labs/labs-bww1/Lab5/src/queue.c *)
(* (Lab6/src/print-server/queue.c is the same file).  A doubly linked list *)
(* under a mutex, with a semaphore that counts its elements and the        *)
(* releases of queue_release_threads.                                      *)
(*                                                                         *)
(* A call is made by a Call action and runs in steps, one per library call *)
(* or critical section; call[t] is the step thread t is about to take.     *)
(***************************************************************************)
EXTENDS Integers, SequencesExt

CONSTANTS
  Threads, \* the threads of the process
  Queues,  \* its queues
  Nodes,   \* the nodes malloc can return: positive integers
  Data,    \* what is pushed: the pointers, NULL not among them
  Nobody   \* the holder of a free mutex

ASSUME NodesAssumption == Nodes \subseteq Nat \ {0} /\ IsFiniteSet(Nodes)
ASSUME QueuesArePointers == Queues # {} /\ 0 \notin Queues
ASSUME FiniteThreads == IsFiniteSet(Threads)
ASSUME DataAssumption == 0 \notin Data
ASSUME NobodyAssumption == Nobody \notin Threads

Null == 0
Ends == {"head", "tail"}

VARIABLES
  head, tail, \* the ends of each queue's list
  next, prev, \* the links of each node
  data,       \* the data of each node
  allocated,  \* the nodes malloc returned and nothing freed
  count,      \* the semaphore of each queue
  lock,       \* the thread that holds the mutex of each queue
  call,       \* the call each thread is in
  result      \* what the last queue_pop of each thread returned

list_vars == <<head, tail, next, prev, data, allocated>>
queue_vars == <<list_vars, count, lock, call, result>>

\* The steps of the three functions; "none" outside them.
Steps == {"none", "push_lock", "push_link", "push_post", "push_unlock",
          "pop_wait", "pop_lock", "pop_unlink", "pop_unlock", "pop_return", "release"}

Calls == [at : Steps, q : Queues, end : Ends, node : Nodes \cup {Null}, left : Nat]

NoCall == [at |-> "none", q |-> CHOOSE q \in Queues : TRUE, end |-> "head",
           node |-> Null, left |-> 0]

QueueInit ==
  /\ head = [q \in Queues |-> Null]
  /\ tail = [q \in Queues |-> Null]
  /\ next = [n \in Nodes |-> Null]
  /\ prev = [n \in Nodes |-> Null]
  /\ data = [n \in Nodes |-> Null]
  /\ allocated = {}
  /\ count = [q \in Queues |-> 0]
  /\ lock = [q \in Queues |-> Nobody]
  /\ call = [t \in Threads |-> NoCall]
  /\ result = [t \in Threads |-> Null]

At(t, step) == call[t].at = step
Goto(t, step) == call' = [call EXCEPT ![t].at = step]
Return(t) == call' = [call EXCEPT ![t] = NoCall]

Lock(q, t) == lock[q] = Nobody /\ lock' = [lock EXCEPT ![q] = t]
Unlock(q) == lock' = [lock EXCEPT ![q] = Nobody]
Post(q) == count' = [count EXCEPT ![q] = @ + 1]

-----------------------------------------------------------------------------
(* queue_push. *)

\* The node is allocated and filled before the lock is taken.
CallPush(t, q, d, e) ==
  /\ At(t, "none")
  /\ \E n \in Nodes \ allocated :
       /\ \A m \in Nodes \ allocated : n <= m
       /\ allocated' = allocated \cup {n}
       /\ data' = [data EXCEPT ![n] = d]
       /\ next' = [next EXCEPT ![n] = Null]
       /\ prev' = [prev EXCEPT ![n] = Null]
       /\ call' = [call EXCEPT ![t] = [at |-> "push_lock", q |-> q, end |-> e,
                                       node |-> n, left |-> 0]]
  /\ UNCHANGED <<head, tail, count, lock, result>>

PushLock(t) ==
  /\ At(t, "push_lock")
  /\ Lock(call[t].q, t)
  /\ Goto(t, "push_link")
  /\ UNCHANGED <<list_vars, count, result>>

\* Mutant of Link: the old end is not linked back to the new node.
LinkOneWay(q, n, e) ==
  IF head[q] = Null
    THEN head' = [head EXCEPT ![q] = n] /\ tail' = [tail EXCEPT ![q] = n]
         /\ UNCHANGED <<next, prev>>
  ELSE IF e = "head"
    THEN /\ next' = [next EXCEPT ![n] = head[q]]
         /\ head' = [head EXCEPT ![q] = n]
         /\ UNCHANGED <<tail, prev>>
    ELSE /\ prev' = [prev EXCEPT ![n] = tail[q]]
         /\ tail' = [tail EXCEPT ![q] = n]
         /\ UNCHANGED <<head, next>>

\* The new node becomes the end asked for, or both ends of an empty list.
Link(q, n, e) ==
  IF head[q] = Null
    THEN head' = [head EXCEPT ![q] = n] /\ tail' = [tail EXCEPT ![q] = n]
         /\ UNCHANGED <<next, prev>>
  ELSE IF e = "head"
    THEN /\ next' = [next EXCEPT ![n] = head[q]]
         /\ prev' = [prev EXCEPT ![head[q]] = n]
         /\ head' = [head EXCEPT ![q] = n]
         /\ UNCHANGED tail
    ELSE /\ prev' = [prev EXCEPT ![n] = tail[q]]
         /\ next' = [next EXCEPT ![tail[q]] = n]
         /\ tail' = [tail EXCEPT ![q] = n]
         /\ UNCHANGED head

PushLink(t) ==
  /\ At(t, "push_link")
  /\ Link(call[t].q, call[t].node, call[t].end)
  /\ Goto(t, "push_post")
  /\ UNCHANGED <<data, allocated, count, lock, result>>

\* Mutant of PushPost: the element is not counted.
PushNoPost(t) ==
  /\ At(t, "push_post")
  /\ Goto(t, "push_unlock")
  /\ UNCHANGED <<list_vars, count, lock, result>>

PushPost(t) ==
  /\ At(t, "push_post")
  /\ Post(call[t].q)
  /\ Goto(t, "push_unlock")
  /\ UNCHANGED <<list_vars, lock, result>>

PushUnlock(t) ==
  /\ At(t, "push_unlock")
  /\ Unlock(call[t].q)
  /\ Return(t)
  /\ UNCHANGED <<list_vars, count, result>>

-----------------------------------------------------------------------------
(* queue_pop. *)

CallPop(t, q, e) ==
  /\ At(t, "none")
  /\ call' = [call EXCEPT ![t] = [at |-> "pop_wait", q |-> q, end |-> e,
                                  node |-> Null, left |-> 0]]
  /\ result' = [result EXCEPT ![t] = Null]
  /\ UNCHANGED <<list_vars, count, lock>>

\* Mutant of PopWait: the semaphore is tested but not decremented.
PopPeek(t) ==
  /\ At(t, "pop_wait")
  /\ count[call[t].q] > 0
  /\ Goto(t, "pop_lock")
  /\ UNCHANGED <<list_vars, count, lock, result>>

\* Mutant of PopWait: it does not wait.
PopNoWait(t) ==
  /\ At(t, "pop_wait")
  /\ count' = [count EXCEPT ![call[t].q] = @ - 1]
  /\ Goto(t, "pop_lock")
  /\ UNCHANGED <<list_vars, lock, result>>

PopWait(t) ==
  /\ At(t, "pop_wait")
  /\ count[call[t].q] > 0
  /\ count' = [count EXCEPT ![call[t].q] = @ - 1]
  /\ Goto(t, "pop_lock")
  /\ UNCHANGED <<list_vars, lock, result>>

PopLock(t) ==
  /\ At(t, "pop_lock")
  /\ Lock(call[t].q, t)
  /\ Goto(t, "pop_unlink")
  /\ UNCHANGED <<list_vars, count, result>>

\* Take the node at the end asked for out of the list.
Unlink(q, e) ==
  IF e = "head"
    THEN LET h == next[head[q]]
         IN  /\ head' = [head EXCEPT ![q] = h]
             /\ IF h = Null
                  THEN tail' = [tail EXCEPT ![q] = Null] /\ UNCHANGED prev
                  ELSE prev' = [prev EXCEPT ![h] = Null] /\ UNCHANGED tail
             /\ UNCHANGED next
    ELSE LET b == prev[tail[q]]
         IN  /\ tail' = [tail EXCEPT ![q] = b]
             /\ IF b = Null
                  THEN head' = [head EXCEPT ![q] = Null] /\ UNCHANGED next
                  ELSE next' = [next EXCEPT ![b] = Null] /\ UNCHANGED head
             /\ UNCHANGED prev

PopUnlink(t) ==
  /\ At(t, "pop_unlink")
  /\ LET q == call[t].q
         n == IF call[t].end = "head" THEN head[q] ELSE tail[q]
     IN  /\ IF n = Null THEN UNCHANGED <<head, tail, next, prev>>
                        ELSE Unlink(q, call[t].end)
         /\ call' = [call EXCEPT ![t].at = "pop_unlock", ![t].node = n]
  /\ UNCHANGED <<data, allocated, count, lock, result>>

PopUnlock(t) ==
  /\ At(t, "pop_unlock")
  /\ Unlock(call[t].q)
  /\ Goto(t, "pop_return")
  /\ UNCHANGED <<list_vars, count, result>>

\* The data is read and the node freed outside the critical section.
PopReturn(t) ==
  /\ At(t, "pop_return")
  /\ LET n == call[t].node
     IN  /\ result' = [result EXCEPT ![t] = IF n = Null THEN Null ELSE data[n]]
         /\ allocated' = allocated \ {n}
  /\ Return(t)
  /\ UNCHANGED <<head, tail, next, prev, data, count, lock>>

-----------------------------------------------------------------------------
(* queue_release_threads: the mutex is not taken. *)

CallRelease(t, q, number) ==
  /\ At(t, "none")
  /\ call' = [call EXCEPT ![t] = IF number = 0 THEN NoCall
                 ELSE [at |-> "release", q |-> q, end |-> "head", node |-> Null, left |-> number]]
  /\ UNCHANGED <<list_vars, count, lock, result>>

ReleasePost(t) ==
  /\ At(t, "release")
  /\ Post(call[t].q)
  /\ IF call[t].left = 1 THEN Return(t) ELSE call' = [call EXCEPT ![t].left = @ - 1]
  /\ UNCHANGED <<list_vars, lock, result>>

\* The next step of the call thread t is in.
QueueStep(t) ==
  \/ PushLock(t) \/ PushLink(t) \/ PushPost(t) \/ PushUnlock(t)
  \/ PopWait(t) \/ PopLock(t) \/ PopUnlink(t) \/ PopUnlock(t) \/ PopReturn(t)
  \/ ReleasePost(t)

-----------------------------------------------------------------------------
(* What the list means. *)

\* The nodes from n on along the links f; a cycle is cut off.
Walk(f, n) ==
  LET step == [m \in Nodes \cup {Null} |-> IF m = Null THEN Null ELSE f[m]]
      nth[i \in 1 .. Cardinality(Nodes) + 1] == IF i = 1 THEN n ELSE step[nth[i - 1]]
  IN  SubSeq(nth, 1, Cardinality({i \in DOMAIN nth : nth[i] # Null}))

\* The data of queue q from its head to its tail.
Contents(q) ==
  LET nodes == Walk(next, head[q]) IN [i \in DOMAIN nodes |-> data[nodes[i]]]

\* Posts a push has still to make, and tokens a pop has taken from the semaphore
\* and not yet used.
Unposted(q) == Cardinality({t \in Threads : At(t, "push_post") /\ call[t].q = q})
Taken(q) == Cardinality({t \in Threads : call[t].at \in {"pop_lock", "pop_unlink"}
                                         /\ call[t].q = q})

\* Releases nobody has been woken by.
Releases(q) == count[q] + Taken(q) + Unposted(q) - Len(Contents(q))
=============================================================================
