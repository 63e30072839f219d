------------------------ MODULE PrintQueueApi_proofs ------------------------
(***************************************************************************)
(* Any callers of queue.c: the list is well linked, the semaphore promises *)
(* what is there, and the atomic queue of queue.h is implemented.          *)
(***************************************************************************)
EXTENDS PrintQueueApi, PrintQueue_proofs

\* The i-th value was pushed in one node.
ValuesInv ==
  /\ \A n \in allocated : data[n] \in 1 .. pushes
  /\ \A m, n \in allocated : data[m] = data[n] => m = n

\* The posts the releases of queue q have still to make.
Posts(q) == {x \in Threads \X (1 .. MaxReleases) :
               At(x[1], "release") /\ call[x[1]].q = q /\ x[2] <= call[x[1]].left}

ReleaseInv ==
  /\ \A t \in Threads : At(t, "release") => call[t].left <= MaxReleases
  /\ \A q \in Queues : Releases(q) + Cardinality(Posts(q)) <= released

ApiInv ==
  /\ QueueInv
  /\ pushes \in 0 .. MaxPushes /\ released \in 0 .. MaxReleases
  /\ ValuesInv
  /\ ReleaseInv

-----------------------------------------------------------------------------
(* Counting posts. *)

\* A release has a number of posts to make.
LEMMA PostsFinite ==
  ASSUME NEW q
  PROVE  IsFiniteSet(Posts(q)) /\ Cardinality(Posts(q)) \in Nat
<1>1. IsFiniteSet(Threads \X (1 .. MaxReleases))
  BY FiniteThreads, ApiAssumption, IntervalSize, FS_Product
<1>2. Posts(q) \subseteq Threads \X (1 .. MaxReleases)
  BY DEF Posts
<1> QED
  BY <1>1, <1>2, FS_Subset, FS_CardinalityType

\* Nobody but t changes its call, and t has no posts to make before or after.
LEMMA PostsSame ==
  ASSUME NEW t \in Threads, \A u \in Threads : u # t => call'[u] = call[u],
         ~At(t, "release"), ~At(t, "release")', NEW q
  PROVE  Posts(q)' = Posts(q)
<1>1. ASSUME NEW x \in Threads \X (1 .. MaxReleases)
      PROVE  (At(x[1], "release")' /\ call'[x[1]].q = q /\ x[2] <= call'[x[1]].left)
               <=> (At(x[1], "release") /\ call[x[1]].q = q /\ x[2] <= call[x[1]].left)
  <2>1. x[1] \in Threads
    OBVIOUS
  <2>2. CASE x[1] = t
    BY <2>2 DEF At
  <2>3. CASE x[1] # t
    BY <2>1, <2>3 DEF At
  <2> QED
    BY <2>2, <2>3
<1> QED
  BY <1>1 DEF Posts

\* A release of number adds that many posts to its queue.
LEMMA PostsAdded ==
  ASSUME NEW t \in Threads, \A u \in Threads : u # t => call'[u] = call[u], ~At(t, "release"),
         NEW q, NEW number \in 1 .. MaxReleases,
         call'[t] = [at |-> "release", q |-> q, end |-> "head", node |-> Null, left |-> number]
  PROVE  /\ Cardinality(Posts(q)') = Cardinality(Posts(q)) + number
         /\ \A p : p # q => Posts(p)' = Posts(p)
<1> DEFINE New == {t} \X (1 .. number)
<1>0. number \in Nat /\ number <= MaxReleases
  BY ApiAssumption
<1>1. call'[t].at = "release" /\ call'[t].q = q /\ call'[t].left = number
  OBVIOUS
<1>2. Posts(q)' = Posts(q) \cup New
  <2>1. ASSUME NEW x \in Threads \X (1 .. MaxReleases)
        PROVE  (At(x[1], "release")' /\ call'[x[1]].q = q /\ x[2] <= call'[x[1]].left)
                 <=> (At(x[1], "release") /\ call[x[1]].q = q /\ x[2] <= call[x[1]].left) \/ x \in New
    <3>1. x[1] \in Threads /\ x[2] \in 1 .. MaxReleases /\ x = <<x[1], x[2]>>
      OBVIOUS
    <3>2. CASE x[1] = t
      BY <1>0, <1>1, <3>1, <3>2, ApiAssumption DEF At
    <3>3. CASE x[1] # t
      BY <3>1, <3>3 DEF At
    <3> QED
      BY <3>2, <3>3
  <2>2. New \subseteq Threads \X (1 .. MaxReleases)
    BY <1>0, ApiAssumption
  <2> HIDE DEF New
  <2> QED
    BY <2>1, <2>2 DEF Posts
<1>3. Posts(q) \cap New = {}
  BY DEF Posts
<1>4. IsFiniteSet(New) /\ Cardinality(New) = number
  <2>1. IsFiniteSet({t}) /\ Cardinality({t}) = 1
    BY FS_Singleton
  <2>2. IsFiniteSet(1 .. number) /\ Cardinality(1 .. number) = number
    BY <1>0, IntervalSize
  <2>3. IsFiniteSet(New) /\ Cardinality(New) = 1 * number
    BY <2>1, <2>2, FS_Product
  <2> QED
    BY <1>0, <2>3
<1> HIDE DEF New
<1>5. Cardinality(Posts(q) \cup New) = Cardinality(Posts(q)) + Cardinality(New) - Cardinality(Posts(q) \cap New)
  BY <1>4, PostsFinite, FS_Union
<1>6. Cardinality(Posts(q)') = Cardinality(Posts(q)) + number
  BY <1>0, <1>2, <1>3, <1>4, <1>5, FS_EmptySet, PostsFinite
<1>7. ASSUME NEW p, p # q PROVE Posts(p)' = Posts(p)
  <2>1. ASSUME NEW x \in Threads \X (1 .. MaxReleases)
        PROVE  (At(x[1], "release")' /\ call'[x[1]].q = p /\ x[2] <= call'[x[1]].left)
                 <=> (At(x[1], "release") /\ call[x[1]].q = p /\ x[2] <= call[x[1]].left)
    <3>1. x[1] \in Threads
      OBVIOUS
    <3>2. CASE x[1] = t
      BY <1>1, <1>7, <3>2 DEF At
    <3>3. CASE x[1] # t
      BY <3>1, <3>3 DEF At
    <3> QED
      BY <3>2, <3>3
  <2> QED
    BY <2>1 DEF Posts
<1> QED
  BY <1>6, <1>7

\* A post made is one less to make.
LEMMA PostsMade ==
  ASSUME NEW t \in Threads, \A u \in Threads : u # t => call'[u] = call[u], At(t, "release"),
         NEW q, q = call[t].q, call[t].left \in 1 .. MaxReleases,
         IF call[t].left = 1 THEN call'[t] = NoCall
           ELSE At(t, "release")' /\ call'[t].q = q /\ call'[t].left = call[t].left - 1
  PROVE  /\ Cardinality(Posts(q)') = Cardinality(Posts(q)) - 1
         /\ \A p : p # q => Posts(p)' = Posts(p)
<1>0. PICK k \in 1 .. MaxReleases : k = call[t].left
  OBVIOUS
<1>1. k \in Nat
  BY ApiAssumption
<1>2. Posts(q)' = Posts(q) \ {<<t, k>>}
  <2>1. ASSUME NEW x \in Threads \X (1 .. MaxReleases)
        PROVE  (At(x[1], "release")' /\ call'[x[1]].q = q /\ x[2] <= call'[x[1]].left)
                 <=> (At(x[1], "release") /\ call[x[1]].q = q /\ x[2] <= call[x[1]].left) /\ x # <<t, k>>
    <3>1. x[1] \in Threads /\ x[2] \in 1 .. MaxReleases /\ x = <<x[1], x[2]>> /\ x[2] \in Nat \ {0}
      BY ApiAssumption
    <3>2. CASE x[1] = t
      <4>1. At(x[1], "release") /\ call[x[1]].q = q /\ call[x[1]].left = k
        BY <1>0, <3>2
      <4>2. x # <<t, k>> <=> x[2] # k
        BY <3>1, <3>2
      <4>3. CASE k = 1
        BY <1>0, <3>1, <3>2, <4>1, <4>2, <4>3, NoCallIs DEF At
      <4>4. CASE k # 1
        BY <1>0, <1>1, <3>1, <3>2, <4>1, <4>2, <4>4
      <4> QED
        BY <4>3, <4>4
    <3>3. CASE x[1] # t
      BY <3>1, <3>3 DEF At
    <3> QED
      BY <3>2, <3>3
  <2> QED
    BY <2>1 DEF Posts
<1>3. <<t, k>> \in Posts(q)
  BY <1>0, <1>1 DEF Posts
<1>4. Cardinality(Posts(q) \ {<<t, k>>}) = Cardinality(Posts(q)) - 1
  BY <1>3, PostsFinite, FS_RemoveElement
<1>5. ASSUME NEW p, p # q PROVE Posts(p)' = Posts(p)
  <2>1. ASSUME NEW x \in Threads \X (1 .. MaxReleases)
        PROVE  (At(x[1], "release")' /\ call'[x[1]].q = p /\ x[2] <= call'[x[1]].left)
                 <=> (At(x[1], "release") /\ call[x[1]].q = p /\ x[2] <= call[x[1]].left)
    <3>1. x[1] \in Threads
      OBVIOUS
    <3>2. CASE x[1] = t
      BY <1>5, <3>2, NoCallIs DEF At
    <3>3. CASE x[1] # t
      BY <3>1, <3>3 DEF At
    <3> QED
      BY <3>2, <3>3
  <2> QED
    BY <2>1 DEF Posts
<1> QED
  BY <1>2, <1>4, <1>5

-----------------------------------------------------------------------------
(* The steps. *)

\* Where a quiet step comes from and leads.
LEMMA QuietMoves ==
  ASSUME call \in [Threads -> Calls], NEW t \in Threads, Quiet(t)
  PROVE  /\ Moves(t)
         /\ \/ call[t].at = "push_lock" /\ call'[t].at = "push_link"
            \/ call[t].at = "push_post" /\ call'[t].at = "push_unlock"
            \/ call[t].at = "push_unlock" /\ call'[t].at = "none"
            \/ call[t].at = "pop_wait" /\ call'[t].at = "pop_lock"
            \/ call[t].at = "pop_lock" /\ call'[t].at = "pop_unlink"
            \/ call[t].at = "pop_unlock" /\ call'[t].at = "pop_return"
         /\ call[t].at # "push_unlock" => call'[t].q = call[t].q /\ call'[t].node = call[t].node
<1>1. CASE PushUnlock(t)
  BY <1>1, ReturnIs, NoCallIs DEF PushUnlock, At
<1>2. ASSUME ~PushUnlock(t)
      PROVE  \E from, to \in Steps :
               /\ call[t].at = from /\ Goto(t, to)
               /\ \/ from = "push_lock" /\ to = "push_link"
                  \/ from = "push_post" /\ to = "push_unlock"
                  \/ from = "pop_wait" /\ to = "pop_lock"
                  \/ from = "pop_lock" /\ to = "pop_unlink"
                  \/ from = "pop_unlock" /\ to = "pop_return"
  BY <1>2 DEF Quiet, PushLock, PushPost, PopWait, PopLock, PopUnlock, At, Steps
<1>3. CASE ~PushUnlock(t)
  <2>1. PICK from \in Steps, to \in Steps :
               /\ call[t].at = from /\ Goto(t, to)
               /\ \/ from = "push_lock" /\ to = "push_link"
                  \/ from = "push_post" /\ to = "push_unlock"
                  \/ from = "pop_wait" /\ to = "pop_lock"
                  \/ from = "pop_lock" /\ to = "pop_unlink"
                  \/ from = "pop_unlock" /\ to = "pop_return"
    BY <1>2, <1>3
  <2>2. Moves(t) /\ call'[t].at = to /\ call'[t].q = call[t].q /\ call'[t].node = call[t].node
    BY <2>1, GotoIs
  <2> QED
    BY <2>1, <2>2
<1> QED
  BY <1>1, <1>3

\* A step by which no post is owed or made.
LEMMA OtherStep ==
  ASSUME ApiInv, QueueInv', NEW t \in Threads, Moves(t), ~At(t, "release"), ~At(t, "release")',
         ValuesInv', UNCHANGED released, pushes' \in 0 .. MaxPushes,
         \A q \in Queues : Releases(q)' = Releases(q) \/ (Releases(q) \in Int /\ Releases(q)' = Releases(q) - 1)
  PROVE  ApiInv'
<1>1. \A q : Posts(q)' = Posts(q)
  BY PostsSame DEF Moves
<1>2. \A u \in Threads : At(u, "release")' => call'[u].left <= MaxReleases
  BY DEF ApiInv, ReleaseInv, Moves, At
<1>3. ASSUME NEW q \in Queues PROVE Releases(q)' + Cardinality(Posts(q)') <= released'
  <2>1. PICK k \in Nat : k = Cardinality(Posts(q)) /\ k = Cardinality(Posts(q)')
    BY <1>1, PostsFinite
  <2>0. released \in Nat /\ Releases(q) \in Int
    BY ApiAssumption, ReleasesType DEF ApiInv, QueueInv
  <2>2. Releases(q) + k <= released
    BY <2>1 DEF ApiInv, ReleaseInv
  <2>3. CASE Releases(q)' = Releases(q)
    BY <2>0, <2>1, <2>2, <2>3
  <2>4. CASE Releases(q) \in Int /\ Releases(q)' = Releases(q) - 1
    BY <2>0, <2>1, <2>2, <2>4
  <2> QED
    BY <2>3, <2>4
<1> QED
  BY <1>2, <1>3 DEF ApiInv, ReleaseInv

\* A step that allocates no node keeps each value in its node.
LEMMA ValuesSame ==
  ASSUME ValuesInv, UNCHANGED <<data, pushes>>, allocated' \subseteq allocated
  PROVE  ValuesInv'
BY DEF ValuesInv

\* The queue is created empty.
LEMMA ApiInvInit == ASSUME Init PROVE ApiInv
<1>1. QueueInv /\ \A q \in Queues : Releases(q) = 0
  BY CreatedIs DEF Init
<1>2. \A t \in Threads : call[t].at = "none"
  BY NoCallIs DEF Init, QueueInit
<1>3. \A q \in Queues : Cardinality(Posts(q)) = 0
  <2>1. \A q \in Queues : Posts(q) = {}
    <3>1. \A x \in Threads \X (1 .. MaxReleases) : ~At(x[1], "release")
      BY <1>2 DEF At
    <3> QED
      BY <3>1 DEF Posts
  <2> QED
    BY <2>1, FS_EmptySet
<1>4. ReleaseInv
  BY <1>1, <1>2, <1>3 DEF ReleaseInv, At, Init
<1>5. ValuesInv
  BY DEF ValuesInv, Init, QueueInit
<1>6. pushes \in 0 .. MaxPushes /\ released \in 0 .. MaxReleases
  BY ApiAssumption DEF Init
<1> QED
  BY <1>1, <1>4, <1>5, <1>6 DEF ApiInv

\* A thread calls queue_push with a new value.
LEMMA PushKeeps ==
  ASSUME ApiInv, NEW t \in Threads, NEW q \in Queues, NEW e \in Ends, Push(t, q, e)
  PROVE  ApiInv'
<1>1. CallPush(t, q, pushes + 1, e) /\ pushes < MaxPushes /\ pushes' = pushes + 1 /\ UNCHANGED released
  BY DEF Push
<1>2. pushes \in Nat /\ pushes + 1 \in 1 .. MaxPushes /\ QueueInv /\ ValuesInv
  BY <1>1, ApiAssumption DEF ApiInv
<1>3. PICK d \in Data : d = pushes + 1
  BY <1>2, ApiAssumption
<1>4. CallPush(t, q, d, e)
  BY <1>1, <1>3
<1>5. /\ QueueInv' /\ Moves(t) /\ At(t, "none")
      /\ call'[t].at = "push_lock"
      /\ call'[t].node \in Nodes \ allocated
      /\ allocated' = allocated \cup {call'[t].node}
      /\ data'[call'[t].node] = d /\ \A m \in Nodes : m # call'[t].node => data'[m] = data[m]
      /\ \A p \in Queues : Contents(p)' = Contents(p) /\ Releases(p)' = Releases(p)
  BY <1>2, <1>4, CallPushStep
<1>6. PICK n \in Nodes \ allocated : n = call'[t].node
  BY <1>5
<1>7. \A m \in allocated : m \in Nodes /\ m # n /\ data'[m] = data[m] /\ data[m] \in 1 .. pushes
  BY <1>2, <1>5, <1>6 DEF QueueInv, StateInv, QTypes, ValuesInv
<1>8. ValuesInv'
  <2>1. \A m \in allocated' : data'[m] \in 1 .. pushes'
    BY <1>1, <1>2, <1>3, <1>5, <1>6, <1>7
  <2>2. \A m \in allocated : data'[m] # data'[n]
    BY <1>2, <1>3, <1>5, <1>6, <1>7
  <2>3. \A m, k \in allocated : data'[m] = data'[k] => m = k
    BY <1>2, <1>7 DEF ValuesInv
  <2> QED
    BY <1>5, <1>6, <2>1, <2>2, <2>3 DEF ValuesInv
<1>9. ~At(t, "release") /\ ~At(t, "release")' /\ pushes' \in 0 .. MaxPushes
  BY <1>1, <1>2, <1>5, ApiAssumption DEF At
<1> QED
  BY <1>1, <1>5, <1>8, <1>9, OtherStep

\* A thread calls queue_pop.
LEMMA PopKeeps ==
  ASSUME ApiInv, NEW t \in Threads, NEW q \in Queues, NEW e \in Ends, Pop(t, q, e)
  PROVE  ApiInv'
<1>1. CallPop(t, q, e) /\ UNCHANGED <<pushes, released>> /\ QueueInv /\ ValuesInv /\ pushes \in 0 .. MaxPushes
  BY DEF Pop, ApiInv
<1>2. /\ QueueInv' /\ Moves(t) /\ At(t, "none") /\ UNCHANGED <<data, allocated>>
      /\ call'[t] = [at |-> "pop_wait", q |-> q, end |-> e, node |-> Null, left |-> 0]
      /\ \A p \in Queues : Contents(p)' = Contents(p) /\ Releases(p)' = Releases(p)
  BY <1>1, CallPopStep
<1>3. ValuesInv' /\ ~At(t, "release") /\ ~At(t, "release")'
  BY <1>1, <1>2, ValuesSame DEF At
<1> QED
  BY <1>1, <1>2, <1>3, OtherStep

\* A thread calls queue_release_threads.
LEMMA ReleaseKeeps ==
  ASSUME ApiInv, NEW t \in Threads, NEW q \in Queues, NEW number \in 1 .. MaxReleases, Release(t, q, number)
  PROVE  ApiInv'
<1>1. /\ CallRelease(t, q, number) /\ UNCHANGED pushes /\ QueueInv /\ ValuesInv /\ pushes \in 0 .. MaxPushes
      /\ released + number <= MaxReleases /\ released' = released + number /\ number \in Nat \ {0}
      /\ released \in Nat
  BY ApiAssumption DEF Release, ApiInv
<1>2. /\ QueueInv' /\ Moves(t) /\ At(t, "none")
      /\ call'[t] = [at |-> "release", q |-> q, end |-> "head", node |-> Null, left |-> number]
      /\ UNCHANGED <<data, allocated>>
      /\ \A p \in Queues : Contents(p)' = Contents(p) /\ Releases(p)' = Releases(p)
  BY <1>1, CallReleaseStep
<1>3. ~At(t, "release")
  BY <1>2 DEF At
<1>4. /\ Cardinality(Posts(q)') = Cardinality(Posts(q)) + number
      /\ \A p : p # q => Posts(p)' = Posts(p)
  BY <1>2, <1>3, PostsAdded DEF Moves
<1>5. \A u \in Threads : At(u, "release")' => call'[u].left <= MaxReleases
  <2>1. call'[t].left <= MaxReleases
    BY <1>2, ApiAssumption
  <2> QED
    BY <1>2, <2>1 DEF ApiInv, ReleaseInv, Moves, At
<1>6. ASSUME NEW p \in Queues PROVE Releases(p)' + Cardinality(Posts(p)') <= released'
  <2>1. PICK k \in Nat : k = Cardinality(Posts(p))
    BY PostsFinite
  <2>2. Releases(p) + k <= released /\ Releases(p)' = Releases(p) /\ Releases(p) \in Int
    BY <1>1, <1>2, <2>1, ReleasesType DEF ApiInv, ReleaseInv, QueueInv
  <2>3. CASE p = q
    BY <1>1, <1>4, <2>1, <2>2, <2>3
  <2>4. CASE p # q
    BY <1>1, <1>4, <2>1, <2>2, <2>4
  <2> QED
    BY <2>3, <2>4
<1>7. ValuesInv'
  BY <1>1, <1>2, ValuesSame
<1>8. released' \in 0 .. MaxReleases /\ pushes' \in 0 .. MaxPushes
  BY <1>1, ApiAssumption
<1> QED
  BY <1>2, <1>5, <1>6, <1>7, <1>8 DEF ApiInv, ReleaseInv

\* A post of a release was granted when the release was called.
LEMMA PostKeeps ==
  ASSUME ApiInv, NEW t \in Threads, ReleasePost(t), UNCHANGED <<pushes, released>>
  PROVE  ApiInv'
<1>0. PICK q : q = call[t].q
  OBVIOUS
<1>1. /\ QueueInv /\ ValuesInv /\ pushes' \in 0 .. MaxPushes /\ released' \in 0 .. MaxReleases /\ released \in Nat
  BY ApiAssumption DEF ApiInv
<1>2. /\ QueueInv' /\ Moves(t) /\ At(t, "release") /\ q \in Queues /\ call[t].left \in Nat \ {0}
      /\ IF call[t].left = 1 THEN call'[t] = NoCall
         ELSE At(t, "release")' /\ call'[t].q = q /\ call'[t].left = call[t].left - 1
      /\ UNCHANGED <<data, allocated, result>>
      /\ Releases(q) \in Int /\ Releases(q)' = Releases(q) + 1
      /\ \A p \in Queues : p # q => Releases(p)' = Releases(p)
  BY <1>0, <1>1, ReleasePostStep
<1>3. call[t].left <= MaxReleases /\ call[t].left \in 1 .. MaxReleases
  BY <1>2, ApiAssumption DEF ApiInv, ReleaseInv
<1>4. /\ Cardinality(Posts(q)') = Cardinality(Posts(q)) - 1
      /\ \A p : p # q => Posts(p)' = Posts(p)
  BY <1>0, <1>2, <1>3, PostsMade DEF Moves
<1>5. \A u \in Threads : At(u, "release")' => call'[u].left <= MaxReleases
  <2>1. At(t, "release")' => call'[t].left <= MaxReleases
    BY <1>2, <1>3, NoCallIs, ApiAssumption DEF At
  <2> QED
    BY <1>2, <2>1 DEF ApiInv, ReleaseInv, Moves, At
<1>6. ASSUME NEW p \in Queues PROVE Releases(p)' + Cardinality(Posts(p)') <= released'
  <2>1. PICK k \in Nat : k = Cardinality(Posts(p))
    BY PostsFinite
  <2>2. Releases(p) + k <= released /\ Releases(p) \in Int
    BY <1>1, <1>2, <2>1, ReleasesType DEF ApiInv, ReleaseInv, QueueInv
  <2>3. CASE p = q
    BY <1>1, <1>2, <1>4, <2>1, <2>2, <2>3
  <2>4. CASE p # q
    BY <1>1, <1>2, <1>4, <2>1, <2>2, <2>4
  <2> QED
    BY <2>3, <2>4
<1>7. ValuesInv'
  BY <1>1, <1>2, ValuesSame
<1> QED
  BY <1>1, <1>2, <1>5, <1>6, <1>7 DEF ApiInv, ReleaseInv

\* Every step of a call preserves the invariant.
LEMMA StepKeeps ==
  ASSUME ApiInv, NEW t \in Threads, Step(t)
  PROVE  ApiInv'
<1>0. QueueInv /\ ValuesInv /\ UNCHANGED <<pushes, released>> /\ pushes' \in 0 .. MaxPushes /\ QueueStep(t)
      /\ call \in [Threads -> Calls]
  BY DEF ApiInv, Step, QueueInv, StateInv, QTypes
<1>1. CASE Quiet(t)
  <2>1. QueueInv' /\ Unseen
    BY <1>0, <1>1, QuietStep
  <2>2. Moves(t) /\ ~At(t, "release") /\ ~At(t, "release")'
    BY <1>0, <1>1, QuietMoves DEF At
  <2>3. ValuesInv' /\ \A q \in Queues : Releases(q)' = Releases(q)
    BY <1>0, <2>1, ValuesSame DEF Unseen
  <2> QED
    BY <1>0, <2>1, <2>2, <2>3, OtherStep
<1>2. CASE PushLink(t)
  <2>1. /\ QueueInv' /\ Moves(t) /\ At(t, "push_link") /\ call'[t].at = "push_post"
        /\ UNCHANGED <<data, allocated>> /\ \A p \in Queues : Releases(p)' = Releases(p)
    BY <1>0, <1>2, PushLinkStep
  <2>2. ValuesInv' /\ ~At(t, "release") /\ ~At(t, "release")'
    BY <1>0, <2>1, ValuesSame DEF At
  <2> QED
    BY <1>0, <2>1, <2>2, OtherStep
<1>3. CASE PopUnlink(t)
  <2>0. PICK q : q = call[t].q
    OBVIOUS
  <2>1. /\ QueueInv' /\ Moves(t) /\ At(t, "pop_unlink") /\ call'[t].at = "pop_unlock" /\ UNCHANGED <<data, allocated>>
        /\ \A p \in Queues : Releases(p)' = Releases(p) \/ (Releases(p) \in Int /\ Releases(p)' = Releases(p) - 1)
    <3>1. CASE Contents(q) = <<>>
      BY <1>0, <1>3, <2>0, <3>1, PopNothingStep, ReleasesType DEF QueueInv
    <3>2. CASE Contents(q) # <<>>
      BY <1>0, <1>3, <2>0, <3>2, PopNodeStep
    <3> QED
      BY <3>1, <3>2
  <2>2. ValuesInv' /\ ~At(t, "release") /\ ~At(t, "release")'
    BY <1>0, <2>1, ValuesSame DEF At
  <2> QED
    BY <1>0, <2>1, <2>2, OtherStep
<1>4. CASE PopReturn(t)
  <2>1. /\ QueueInv' /\ Moves(t) /\ At(t, "pop_return") /\ call'[t] = NoCall /\ UNCHANGED data
        /\ allocated' = allocated \ {call[t].node} /\ \A p \in Queues : Releases(p)' = Releases(p)
    BY <1>0, <1>4, PopReturnStep
  <2>2. ValuesInv' /\ ~At(t, "release") /\ ~At(t, "release")'
    BY <1>0, <2>1, ValuesSame, NoCallIs DEF At
  <2> QED
    BY <1>0, <2>1, <2>2, OtherStep
<1>5. CASE ReleasePost(t)
  BY <1>0, <1>5, PostKeeps
<1> QED
  BY <1>0, <1>1, <1>2, <1>3, <1>4, <1>5 DEF QueueStep, Quiet

\* The invariant is about the variables of the queue and its callers.
LEMMA ApiStutter == ASSUME ApiInv, UNCHANGED vars PROVE ApiInv'
<1>1. UNCHANGED <<head, tail, next, prev, data, allocated, count, lock, call, result, pushes, released>>
  BY DEF vars, queue_vars, list_vars
<1>2. QueueInv'
  <2>1. \A q \in Queues : Contents(q)' = Contents(q) /\ Releases(q)' = Releases(q)
    BY <1>1 DEF Contents, Releases, Taken, Unposted, At
  <2>2. Lists' = Lists
    BY <1>1 DEF Lists
  <2>3. PICK c : c = Lists
    OBVIOUS
  <2>4. Placed(c)'
    BY <1>1, <2>3 DEF ApiInv, QueueInv, StateInv, Placed, InHand
  <2>5. Placed(Lists)'
    BY <2>2, <2>3, <2>4
  <2> QED
    BY <1>1, <2>1, <2>5 DEF ApiInv, QueueInv, StateInv, QTypes, CallInv, LockInv, DataInv, TokenInv, Critical
<1>3. \A q \in Queues : Posts(q)' = Posts(q) /\ Releases(q)' = Releases(q)
  BY <1>1 DEF Posts, At, Releases, Contents, Taken, Unposted
<1> QED
  BY <1>1, <1>2, <1>3 DEF ApiInv, ValuesInv, ReleaseInv, At

\* The invariant of the module holds.
THEOREM ApiInvariant == Spec => []ApiInv
<1>1. ApiInv /\ [Next]_vars => ApiInv'
  <2>1. SUFFICES ASSUME ApiInv, [Next]_vars PROVE ApiInv'
    OBVIOUS
  <2>2. ASSUME NEW t \in Threads, NEW q \in Queues, NEW e \in Ends, Push(t, q, e) \/ Pop(t, q, e) PROVE ApiInv'
    BY <2>1, <2>2, PushKeeps, PopKeeps
  <2>3. ASSUME NEW t \in Threads, NEW q \in Queues, NEW number \in 1 .. MaxReleases, Release(t, q, number) PROVE ApiInv'
    BY <2>1, <2>3, ReleaseKeeps
  <2>4. ASSUME NEW t \in Threads, Step(t) PROVE ApiInv'
    BY <2>1, <2>4, StepKeeps
  <2>5. CASE UNCHANGED vars
    BY <2>1, <2>5, ApiStutter
  <2> QED
    BY <2>1, <2>2, <2>3, <2>4, <2>5 DEF Next
<1> QED
  BY <1>1, ApiInvInit, PTL DEF Spec

-----------------------------------------------------------------------------
(* The properties. *)

\* A list holds no more nodes than were pushed.
LEMMA FewValues ==
  ASSUME ApiInv, NEW q \in Queues
  PROVE  Len(Contents(q)) <= pushes
<1>1. PICK s \in Seq(Nodes) : s = Lists[q] /\ Len(Contents(q)) = Len(s)
  BY ContentsType DEF ApiInv, QueueInv
<1>2. PICK k \in Nat, p \in Nat : k = Len(s) /\ p = pushes
  BY NodesOfList, ApiAssumption DEF ApiInv
<1>3. ToSet(s) \subseteq allocated /\ \A i, j \in 1 .. k : s[i] = s[j] => i = j
  BY <1>1, <1>2 DEF ApiInv, QueueInv, StateInv, Placed, IsList
<1>4. \A i \in 1 .. k : s[i] \in allocated /\ data[s[i]] \in 1 .. p
  BY <1>2, <1>3, NodesOfList DEF ApiInv, ValuesInv
<1> DEFINE f == [i \in 1 .. k |-> data[s[i]]]
<1>5. f \in Injection(1 .. k, 1 .. p)
  <2>1. f \in [1 .. k -> 1 .. p]
    BY <1>4
  <2>2. \A i, j \in 1 .. k : f[i] = f[j] => i = j
    BY <1>3, <1>4 DEF ApiInv, ValuesInv
  <2> QED
    BY <2>1, <2>2 DEF Injection, IsInjective
<1> HIDE DEF f
<1>6. Cardinality(1 .. k) <= Cardinality(1 .. p)
  BY <1>2, <1>5, IntervalSize, FS_Injection
<1>7. Cardinality(1 .. k) = k /\ Cardinality(1 .. p) = p
  BY <1>2, IntervalSize
<1> QED
  BY <1>1, <1>2, <1>6, <1>7

\* What the semaphore promises is in the list or was released.
LEMMA Covered ==
  ASSUME ApiInv, NEW q \in Queues
  PROVE  Releases(q) \in 0 .. released /\ count[q] \in 0 .. MaxPushes + MaxReleases
<1>1. PICK r \in Int, c \in Nat, l \in Nat : r = Releases(q) /\ c = count[q] /\ l = Len(Contents(q)) /\ c <= r + l
  BY ReleasesType DEF ApiInv, QueueInv
<1>2. PICK k \in Nat : k = Cardinality(Posts(q))
  BY PostsFinite
<1>3. PICK p \in 0 .. MaxPushes, n \in 0 .. MaxReleases : p = pushes /\ n = released
  BY DEF ApiInv
<1>4. r >= 0 /\ r + k <= n
  BY <1>1, <1>2, <1>3 DEF ApiInv, ReleaseInv, QueueInv, TokenInv
<1>5. l <= p
  BY <1>1, <1>3, FewValues
<1>6. r \in 0 .. n /\ c \in 0 .. MaxPushes + MaxReleases
  BY <1>1, <1>2, <1>3, <1>4, <1>5, ApiAssumption
<1> QED
  BY <1>1, <1>3, <1>6

\* Outside critical sections both ways along the list see the same nodes.
LEMMA Linked == ASSUME ApiInv PROVE WellLinked
<1>1. QTypes /\ Placed(Lists)
  BY DEF ApiInv, QueueInv, StateInv
<1>2. TypeOK
  <2>1. count \in [Queues -> 0 .. MaxPushes + MaxReleases]
    BY <1>1, Covered DEF QTypes
  <2> QED
    BY <1>1, <2>1 DEF ApiInv, QTypes, TypeOK, Links
<1>3. PICK c : c = Lists
  OBVIOUS
<1>4. /\ c \in [Queues -> Seq(Nodes)] /\ next \in Links /\ prev \in Links
      /\ \A q \in Queues : IsList(c[q], head[q], tail[q], next, prev)
  BY <1>1, <1>3 DEF Placed, QTypes
<1>5. ASSUME NEW q \in Queues PROVE Walk(next, head[q]) = c[q] /\ Walk(prev, tail[q]) = Reverse(c[q])
  <2>1. c[q] \in Seq(Nodes) /\ IsList(c[q], head[q], tail[q], next, prev)
    BY <1>4
  <2> QED
    BY <1>4, <2>1, WalkBoth
<1>6. \A q \in Queues : Walk(prev, tail[q]) = Reverse(Walk(next, head[q]))
  BY <1>5
<1>7. ASSUME NEW n \in allocated, \A t \in Threads : call[t].node # n
      PROVE  \E q \in Queues : n \in ToSet(Walk(next, head[q]))
  BY <1>1, <1>3, <1>5, <1>7 DEF Placed
<1>8. \A q \in Queues : ToSet(Walk(next, head[q])) \subseteq allocated
  BY <1>1, <1>3, <1>5 DEF Placed
<1>9. \A p, q \in Queues : p # q => ToSet(Walk(next, head[p])) \cap ToSet(Walk(next, head[q])) = {}
  BY <1>1, <1>3, <1>5 DEF Placed
<1>10. {n \in allocated : \A t \in Threads : call[t].node # n}
            \subseteq UNION {ToSet(Walk(next, head[q])) : q \in Queues}
  BY <1>7
<1>11. UNION {ToSet(Walk(next, head[q])) : q \in Queues} \subseteq allocated
  BY <1>8
<1> QED
  BY <1>2, <1>6, <1>9, <1>10, <1>11 DEF WellLinked

\* Whoever calls, at either end, the list stays a doubly linked list of the nodes
\* that are allocated and in nobody's hands.
THEOREM ListsWellLinked == Spec => []WellLinked
BY ApiInvariant, Linked, PTL

\* Whoever calls, the semaphore never promises more than is there, nor less.
THEOREM TokensAreCovered == Spec => []TokensCovered
<1>1. ApiInv => TokensCovered
  BY Covered DEF TokensCovered
<1> QED
  BY <1>1, ApiInvariant, PTL

-----------------------------------------------------------------------------
(* The atomic queue. *)

Waiting == {"pop_wait", "pop_lock", "pop_unlink"}
Leaving == {"pop_unlock", "pop_return"}

\* What the atomic queue sees.
Held == [q \in Queues |-> Contents(q)]
Granted == [q \in Queues |-> Releases(q)]
WantOf(t) == IF call[t].at \in Waiting THEN call[t].q ELSE Null
GotOf(t) == IF call[t].at \in Leaving
              THEN IF call[t].node = Null THEN Null ELSE data[call[t].node]
              ELSE result[t]
Wants == [t \in Threads |-> WantOf(t)]
Got == [t \in Threads |-> GotOf(t)]

\* The actions of the atomic queue in terms of what is seen of queue.c.
LEMMA ViewIs ==
  /\ Abstract!atomic_vars = <<Held, Granted, Wants, Got>>
  /\ Abstract!AtomicInit <=>
       /\ Held = [q \in Queues |-> <<>>] /\ Granted = [q \in Queues |-> 0]
       /\ Wants = [t \in Threads |-> Null] /\ Got = [t \in Threads |-> Null]
  /\ Abstract!Push <=> \E q \in Queues, v \in Data :
       /\ \/ Held' = [Held EXCEPT ![q] = <<v>> \o @]
          \/ Held' = [Held EXCEPT ![q] = Append(@, v)]
       /\ UNCHANGED <<Granted, Wants, Got>>
  /\ Abstract!StartPop <=> \E t \in Threads, q \in Queues :
       /\ Wants[t] = Null /\ Wants' = [Wants EXCEPT ![t] = q] /\ Got' = [Got EXCEPT ![t] = Null]
       /\ UNCHANGED <<Held, Granted>>
  /\ Abstract!Release <=> \E q \in Queues :
       Granted' = [Granted EXCEPT ![q] = @ + 1] /\ UNCHANGED <<Held, Wants, Got>>
  /\ \A t : Abstract!Take(t) <=>
       /\ Wants[t] # Null
       /\ Held[Wants[t]] # <<>>
       /\ \/ /\ Held' = [Held EXCEPT ![Wants[t]] = Tail(Held[Wants[t]])]
             /\ Got' = [Got EXCEPT ![t] = Head(Held[Wants[t]])]
          \/ /\ Held' = [Held EXCEPT ![Wants[t]] = SubSeq(Held[Wants[t]], 1, Len(Held[Wants[t]]) - 1)]
             /\ Got' = [Got EXCEPT ![t] = Held[Wants[t]][Len(Held[Wants[t]])]]
       /\ Wants' = [Wants EXCEPT ![t] = Null]
       /\ UNCHANGED Granted
  /\ \A t : Abstract!TakeNothing(t) <=>
       /\ Wants[t] # Null /\ Held[Wants[t]] = <<>> /\ Granted[Wants[t]] > 0
       /\ Granted' = [Granted EXCEPT ![Wants[t]] = @ - 1]
       /\ Got' = [Got EXCEPT ![t] = Null] /\ Wants' = [Wants EXCEPT ![t] = Null]
       /\ UNCHANGED Held
<1>1. /\ Held = [q \in Queues |-> Contents(q)] /\ Granted = [q \in Queues |-> Releases(q)]
      /\ Wants = [t \in Threads |-> IF call[t].at \in {"pop_wait", "pop_lock", "pop_unlink"}
                                      THEN call[t].q ELSE Null]
      /\ Got = [t \in Threads |-> IF call[t].at \in {"pop_unlock", "pop_return"}
                                    THEN IF call[t].node = Null THEN Null ELSE data[call[t].node]
                                    ELSE result[t]]
  BY DEF Held, Granted, Wants, Got, WantOf, GotOf, Waiting, Leaving
<1> QED
  BY DEF Held, Granted, Wants, Got, WantOf, GotOf, Waiting, Leaving, Abstract!atomic_vars,
    Abstract!AtomicInit, Abstract!Push, Abstract!PushHead, Abstract!PushTail, Abstract!StartPop,
    Abstract!Release, Abstract!Take, Abstract!TakeNothing

\* A step of t changes what the others see of theirs only through the data.
LEMMA OthersSee ==
  ASSUME ApiInv, NEW t \in Threads, Moves(t), \A n \in allocated : data'[n] = data[n],
         \A u \in Threads : u # t => result'[u] = result[u]
  PROVE  \A u \in Threads : u # t => WantOf(u)' = WantOf(u) /\ GotOf(u)' = GotOf(u)
<1>1. SUFFICES ASSUME NEW u \in Threads, u # t PROVE WantOf(u)' = WantOf(u) /\ GotOf(u)' = GotOf(u)
  OBVIOUS
<1>2. call'[u] = call[u] /\ result'[u] = result[u]
  BY <1>1 DEF Moves
<1>3. call[u].at \in Leaving /\ call[u].node # Null => call[u].node \in allocated
  BY DEF ApiInv, QueueInv, StateInv, Placed, InHand, Leaving
<1> QED
  BY <1>2, <1>3 DEF WantOf, GotOf

\* The list seen depends on the contents only.
LEMMA SeenSame ==
  ASSUME \A q \in Queues : Contents(q)' = Contents(q)
  PROVE  Held' = Held
BY DEF Held

\* The releases seen depend on the tokens only.
LEMMA GrantedSame ==
  ASSUME \A q \in Queues : Releases(q)' = Releases(q)
  PROVE  Granted' = Granted
BY DEF Granted

\* Who is waiting is seen of the calls.
LEMMA WantsSame ==
  ASSUME \A u \in Threads : WantOf(u)' = WantOf(u)
  PROVE  Wants' = Wants
BY DEF Wants

\* What was got is seen of the calls and their results.
LEMMA GotSame ==
  ASSUME \A u \in Threads : GotOf(u)' = GotOf(u)
  PROVE  Got' = Got
BY DEF Got

\* A step that moves no content and no token is not seen.
LEMMA SeesNothing ==
  ASSUME ApiInv, NEW t \in Threads, Moves(t), \A n \in allocated : data'[n] = data[n],
         \A u \in Threads : u # t => result'[u] = result[u],
         WantOf(t)' = WantOf(t), GotOf(t)' = GotOf(t),
         \A q \in Queues : Contents(q)' = Contents(q) /\ Releases(q)' = Releases(q)
  PROVE  UNCHANGED Abstract!atomic_vars
<1>1. \A u \in Threads : WantOf(u)' = WantOf(u) /\ GotOf(u)' = GotOf(u)
  BY OthersSee
<1>2. Held' = Held /\ Granted' = Granted /\ Wants' = Wants /\ Got' = Got
  BY <1>1, SeenSame, GrantedSame, WantsSame, GotSame
<1> QED
  BY <1>2, ViewIs DEF Held, Granted, Wants, Got, WantOf, GotOf, Waiting, Leaving, Abstract!atomic_vars

\* Calling queue_push is not seen.
LEMMA PushSeen ==
  ASSUME ApiInv, NEW t \in Threads, NEW q \in Queues, NEW e \in Ends, Push(t, q, e)
  PROVE  UNCHANGED Abstract!atomic_vars
<1>1. CallPush(t, q, pushes + 1, e) /\ pushes + 1 \in Data /\ QueueInv
  BY ApiAssumption DEF Push, ApiInv
<1>2. /\ Moves(t) /\ At(t, "none") /\ call'[t].at = "push_lock"
      /\ call'[t].node \in Nodes \ allocated
      /\ \A m \in Nodes : m # call'[t].node => data'[m] = data[m]
      /\ UNCHANGED result
      /\ \A p \in Queues : Contents(p)' = Contents(p) /\ Releases(p)' = Releases(p)
  BY <1>1, CallPushStep
<1>3. \A n \in allocated : data'[n] = data[n]
  BY <1>1, <1>2 DEF QueueInv, StateInv, QTypes
<1>4. WantOf(t)' = WantOf(t) /\ GotOf(t)' = GotOf(t)
  BY <1>2 DEF WantOf, GotOf, Waiting, Leaving, At
<1> QED
  BY <1>2, <1>3, <1>4, SeesNothing

\* Calling queue_pop makes the caller a waiter.
LEMMA PopSeen ==
  ASSUME ApiInv, NEW t \in Threads, NEW q \in Queues, NEW e \in Ends, Pop(t, q, e)
  PROVE  Abstract!StartPop
<1>1. CallPop(t, q, e) /\ QueueInv /\ result \in [Threads -> Data \cup {Null}]
  BY DEF Pop, ApiInv, QueueInv, StateInv, QTypes
<1>2. /\ Moves(t) /\ At(t, "none") /\ UNCHANGED <<data, allocated>>
      /\ call'[t] = [at |-> "pop_wait", q |-> q, end |-> e, node |-> Null, left |-> 0]
      /\ result' = [result EXCEPT ![t] = Null]
      /\ \A p \in Queues : Contents(p)' = Contents(p) /\ Releases(p)' = Releases(p)
  BY <1>1, CallPopStep
<1>3. WantOf(t) = Null /\ WantOf(t)' = q /\ GotOf(t)' = Null
  BY <1>1, <1>2 DEF WantOf, GotOf, Waiting, Leaving, At
<1>4. \A u \in Threads : u # t => WantOf(u)' = WantOf(u) /\ GotOf(u)' = GotOf(u)
  BY <1>1, <1>2, OthersSee
<1>5. Wants[t] = Null /\ Wants' = [Wants EXCEPT ![t] = q] /\ Got' = [Got EXCEPT ![t] = Null]
  BY <1>3, <1>4 DEF Wants, Got
<1>6. UNCHANGED <<Held, Granted>>
  BY <1>2, SeenSame, GrantedSame
<1> QED
  BY <1>5, <1>6, ViewIs

\* Calling queue_release_threads is not seen.
LEMMA ReleaseSeen ==
  ASSUME ApiInv, NEW t \in Threads, NEW q \in Queues, NEW number \in 1 .. MaxReleases, Release(t, q, number)
  PROVE  UNCHANGED Abstract!atomic_vars
<1>1. CallRelease(t, q, number) /\ QueueInv /\ number \in Nat /\ number # 0
  BY ApiAssumption DEF Release, ApiInv
<1>2. /\ Moves(t) /\ At(t, "none")
      /\ call'[t] = [at |-> "release", q |-> q, end |-> "head", node |-> Null, left |-> number]
      /\ UNCHANGED <<data, allocated, result>>
      /\ \A p \in Queues : Contents(p)' = Contents(p) /\ Releases(p)' = Releases(p)
  BY <1>1, CallReleaseStep
<1>3. WantOf(t)' = WantOf(t) /\ GotOf(t)' = GotOf(t)
  BY <1>2 DEF WantOf, GotOf, Waiting, Leaving, At
<1> QED
  BY <1>2, <1>3, SeesNothing

\* Locks, posts of pushes and the wait for a token are not seen.
LEMMA QuietSeen ==
  ASSUME ApiInv, NEW t \in Threads, Quiet(t)
  PROVE  UNCHANGED Abstract!atomic_vars
<1>1. QueueInv /\ call \in [Threads -> Calls]
  BY DEF ApiInv, QueueInv, StateInv, QTypes
<1>2. Unseen /\ Moves(t)
  BY <1>1, QuietStep, QuietMoves
<1>3. WantOf(t)' = WantOf(t) /\ GotOf(t)' = GotOf(t)
  BY <1>1, <1>2, QuietMoves DEF WantOf, GotOf, Waiting, Leaving, Unseen
<1> QED
  BY <1>2, <1>3, SeesNothing DEF Unseen

\* A push takes effect when its node is linked.
LEMMA LinkSeen ==
  ASSUME ApiInv, NEW t \in Threads, PushLink(t)
  PROVE  Abstract!Push
<1>0. PICK q : q = call[t].q
  OBVIOUS
<1>1. /\ QueueInv' /\ Moves(t) /\ At(t, "push_link") /\ q \in Queues
      /\ call'[t].at = "push_post"
      /\ UNCHANGED <<data, allocated, result>>
      /\ data[call[t].node] \in Data
      /\ Contents(q)' = With(q, call[t].end, data[call[t].node])
      /\ \A p \in Queues : p # q => Contents(p)' = Contents(p)
      /\ \A p \in Queues : Releases(p)' = Releases(p)
  BY <1>0, PushLinkStep DEF ApiInv
<1>2. PICK v \in Data : v = data[call[t].node]
  BY <1>1
<1>3. Contents(q)' = <<v>> \o Contents(q) \/ Contents(q)' = Append(Contents(q), v)
  BY <1>1, <1>2 DEF With
<1>4. Held[q] = Contents(q)
  BY <1>1 DEF Held
<1>5. Held' = [Held EXCEPT ![q] = <<v>> \o @] \/ Held' = [Held EXCEPT ![q] = Append(@, v)]
  <2>1. CASE Contents(q)' = <<v>> \o Contents(q)
    BY <1>1, <2>1 DEF Held
  <2>2. CASE Contents(q)' = Append(Contents(q), v)
    BY <1>1, <2>2 DEF Held
  <2> QED
    BY <1>3, <2>1, <2>2
<1>6. WantOf(t)' = WantOf(t) /\ GotOf(t)' = GotOf(t)
  BY <1>1 DEF WantOf, GotOf, Waiting, Leaving, At
<1>7. \A u \in Threads : WantOf(u)' = WantOf(u) /\ GotOf(u)' = GotOf(u)
  BY <1>1, <1>6, OthersSee
<1>8. Granted' = Granted /\ Wants' = Wants /\ Got' = Got
  BY <1>1, <1>7, GrantedSame, WantsSame, GotSame
<1> QED
  BY <1>1, <1>5, <1>8, ViewIs

\* A pop takes effect when its node is unlinked, or the list is found empty.
LEMMA UnlinkSeen ==
  ASSUME ApiInv, NEW t \in Threads, PopUnlink(t)
  PROVE  Abstract!Take(t) \/ Abstract!TakeNothing(t)
<1>0. PICK q : q = call[t].q
  OBVIOUS
<1>1. CASE Contents(q) = <<>>
  <2>1. /\ Moves(t) /\ At(t, "pop_unlink") /\ q \in Queues
        /\ call'[t].at = "pop_unlock" /\ call'[t].node = Null
        /\ UNCHANGED <<data, allocated, result>>
        /\ \A p \in Queues : Contents(p)' = Contents(p)
        /\ Releases(q) > 0 /\ Releases(q)' = Releases(q) - 1
        /\ \A p \in Queues : p # q => Releases(p)' = Releases(p)
    BY <1>0, <1>1, PopNothingStep DEF ApiInv
  <2>2. WantOf(t) = q /\ WantOf(t)' = Null /\ GotOf(t)' = Null /\ q # Null
    BY <1>0, <2>1, QueuesArePointers DEF WantOf, GotOf, Waiting, Leaving, At, Null
  <2>3. \A u \in Threads : u # t => WantOf(u)' = WantOf(u) /\ GotOf(u)' = GotOf(u)
    BY <2>1, OthersSee
  <2>4. Wants[t] = q /\ Wants' = [Wants EXCEPT ![t] = Null] /\ Got' = [Got EXCEPT ![t] = Null]
    BY <2>2, <2>3 DEF Wants, Got
  <2>5. Held[q] = <<>> /\ Held' = Held
    BY <1>1, <2>1, SeenSame DEF Held
  <2>6. Granted[q] > 0 /\ Granted' = [Granted EXCEPT ![q] = @ - 1]
    BY <2>1 DEF Granted
  <2>7. Abstract!TakeNothing(t)
    BY <2>2, <2>4, <2>5, <2>6, ViewIs
  <2> QED
    BY <2>7
<1>2. CASE Contents(q) # <<>>
  <2>1. /\ Moves(t) /\ At(t, "pop_unlink") /\ q \in Queues
        /\ call'[t].at = "pop_unlock" /\ call'[t].node # Null
        /\ UNCHANGED <<data, allocated, result>>
        /\ Contents(q)' = Rest(q, call[t].end) /\ data[call'[t].node] = EndOf(q, call[t].end)
        /\ \A p \in Queues : p # q => Contents(p)' = Contents(p)
        /\ \A p \in Queues : Releases(p)' = Releases(p)
    BY <1>0, <1>2, PopNodeStep DEF ApiInv
  <2>2. WantOf(t) = q /\ WantOf(t)' = Null /\ GotOf(t)' = EndOf(q, call[t].end) /\ q # Null
    BY <1>0, <2>1, QueuesArePointers DEF WantOf, GotOf, Waiting, Leaving, At, Null
  <2>3. \A u \in Threads : u # t => WantOf(u)' = WantOf(u) /\ GotOf(u)' = GotOf(u)
    BY <2>1, OthersSee
  <2>4. /\ Wants[t] = q /\ Wants' = [Wants EXCEPT ![t] = Null]
        /\ Got' = [Got EXCEPT ![t] = EndOf(q, call[t].end)]
    BY <2>2, <2>3 DEF Wants, Got
  <2>5. Held[q] = Contents(q) /\ Held' = [Held EXCEPT ![q] = Rest(q, call[t].end)]
    BY <2>1 DEF Held
  <2>6. Granted' = Granted
    BY <2>1, GrantedSame
  <2>7. \/ Rest(q, call[t].end) = Tail(Held[q]) /\ EndOf(q, call[t].end) = Head(Held[q])
        \/ /\ Rest(q, call[t].end) = SubSeq(Held[q], 1, Len(Held[q]) - 1)
           /\ EndOf(q, call[t].end) = Held[q][Len(Held[q])]
    BY <2>5 DEF Rest, Without, EndOf
  <2>8. Abstract!Take(t)
    <3>1. \/ /\ Held' = [Held EXCEPT ![q] = Tail(Held[q])] /\ Got' = [Got EXCEPT ![t] = Head(Held[q])]
          \/ /\ Held' = [Held EXCEPT ![q] = SubSeq(Held[q], 1, Len(Held[q]) - 1)]
             /\ Got' = [Got EXCEPT ![t] = Held[q][Len(Held[q])]]
      BY <2>4, <2>5, <2>7
    <3>2. Held[q] # <<>>
      BY <1>2, <2>5
    <3> QED
      BY <2>2, <2>4, <2>6, <3>1, <3>2, ViewIs
  <2> QED
    BY <2>8
<1> QED
  BY <1>1, <1>2

\* Returning what was unlinked is not seen.
LEMMA ReturnSeen ==
  ASSUME ApiInv, NEW t \in Threads, PopReturn(t)
  PROVE  UNCHANGED Abstract!atomic_vars
<1>1. QueueInv /\ result \in [Threads -> Data \cup {Null}]
  BY DEF ApiInv, QueueInv, StateInv, QTypes
<1>2. /\ Moves(t) /\ At(t, "pop_return") /\ call'[t] = NoCall /\ UNCHANGED data
      /\ result' = [result EXCEPT ![t] = IF call[t].node = Null THEN Null ELSE data[call[t].node]]
      /\ \A p \in Queues : Contents(p)' = Contents(p) /\ Releases(p)' = Releases(p)
  BY <1>1, PopReturnStep
<1>3. WantOf(t)' = WantOf(t) /\ GotOf(t)' = GotOf(t)
  BY <1>1, <1>2, NoCallIs DEF WantOf, GotOf, Waiting, Leaving, At
<1> QED
  BY <1>1, <1>2, <1>3, SeesNothing

\* A release takes effect post by post.
LEMMA PostSeen ==
  ASSUME ApiInv, NEW t \in Threads, ReleasePost(t)
  PROVE  Abstract!Release
<1>0. PICK q : q = call[t].q
  OBVIOUS
<1>1. /\ Moves(t) /\ At(t, "release") /\ q \in Queues
      /\ IF call[t].left = 1 THEN call'[t] = NoCall ELSE At(t, "release")'
      /\ UNCHANGED <<data, allocated, result>>
      /\ \A p \in Queues : Contents(p)' = Contents(p)
      /\ Releases(q)' = Releases(q) + 1
      /\ \A p \in Queues : p # q => Releases(p)' = Releases(p)
  BY <1>0, ReleasePostStep DEF ApiInv
<1>2. WantOf(t)' = WantOf(t) /\ GotOf(t)' = GotOf(t)
  BY <1>1, NoCallIs DEF WantOf, GotOf, Waiting, Leaving, At
<1>3. \A u \in Threads : WantOf(u)' = WantOf(u) /\ GotOf(u)' = GotOf(u)
  BY <1>1, <1>2, OthersSee
<1>4. Granted' = [Granted EXCEPT ![q] = @ + 1]
  BY <1>1 DEF Granted
<1>5. UNCHANGED <<Held, Wants, Got>>
  BY <1>1, <1>3, SeenSame, WantsSame, GotSame
<1> QED
  BY <1>1, <1>4, <1>5, ViewIs

\* Nothing changes, nothing is seen.
LEMMA StutterSeen ==
  ASSUME UNCHANGED vars
  PROVE  UNCHANGED Abstract!atomic_vars
<1>1. UNCHANGED <<head, tail, next, prev, data, allocated, count, lock, call, result>>
  BY DEF vars, queue_vars, list_vars
<1>2. \A q \in Queues : Contents(q)' = Contents(q) /\ Releases(q)' = Releases(q)
  BY <1>1 DEF Contents, Releases, Taken, Unposted, At
<1>3. \A u \in Threads : WantOf(u)' = WantOf(u) /\ GotOf(u)' = GotOf(u)
  BY <1>1 DEF WantOf, GotOf
<1>4. Held' = Held /\ Granted' = Granted /\ Wants' = Wants /\ Got' = Got
  BY <1>2, <1>3, SeenSame, GrantedSame, WantsSame, GotSame
<1> QED
  BY <1>4 DEF Held, Granted, Wants, Got, WantOf, GotOf, Waiting, Leaving, Abstract!atomic_vars

\* queue.c implements the atomic blocking deque of queue.h: a push takes effect when
\* the node is linked, a pop when it is unlinked, a release when it is posted, and
\* every other step is invisible.  (That a served caller is served is left to TLC.)
THEOREM QueueIsAtomic == Spec => Abstract!AtomicSafety
<1>1. Init => Abstract!AtomicInit
  <2>1. SUFFICES ASSUME Init PROVE Abstract!AtomicInit
    OBVIOUS
  <2>2. \A q \in Queues : Contents(q) = <<>> /\ Releases(q) = 0
    BY <2>1, CreatedIs DEF Init
  <2>3. \A t \in Threads : WantOf(t) = Null /\ GotOf(t) = Null
    BY <2>1, NoCallIs DEF Init, QueueInit, WantOf, GotOf, Waiting, Leaving
  <2>4. /\ Held = [q \in Queues |-> <<>>] /\ Granted = [q \in Queues |-> 0]
        /\ Wants = [t \in Threads |-> Null] /\ Got = [t \in Threads |-> Null]
    BY <2>2, <2>3 DEF Held, Granted, Wants, Got
  <2> QED
    BY <2>4, ViewIs
<1>2. ApiInv /\ [Next]_vars => [Abstract!AtomicNext]_(Abstract!atomic_vars)
  <2>1. SUFFICES ASSUME ApiInv, [Next]_vars PROVE [Abstract!AtomicNext]_(Abstract!atomic_vars)
    OBVIOUS
  <2>2. ASSUME NEW t \in Threads, NEW q \in Queues, NEW e \in Ends, Push(t, q, e) \/ Pop(t, q, e)
        PROVE  Abstract!StartPop \/ UNCHANGED Abstract!atomic_vars
    BY <2>1, <2>2, PushSeen, PopSeen
  <2>3. ASSUME NEW t \in Threads, NEW q \in Queues, NEW number \in 1 .. MaxReleases, Release(t, q, number)
        PROVE  UNCHANGED Abstract!atomic_vars
    BY <2>1, <2>3, ReleaseSeen
  <2>4. ASSUME NEW t \in Threads, Step(t)
        PROVE  \/ Abstract!Push \/ Abstract!Release \/ UNCHANGED Abstract!atomic_vars
               \/ \E c \in Threads : Abstract!Take(c) \/ Abstract!TakeNothing(c)
    <3>1. QueueStep(t)
      BY <2>4 DEF Step
    <3>2. CASE Quiet(t)
      BY <2>1, <3>2, QuietSeen
    <3>3. CASE PushLink(t)
      BY <2>1, <3>3, LinkSeen
    <3>4. CASE PopUnlink(t)
      BY <2>1, <3>4, UnlinkSeen
    <3>5. CASE PopReturn(t)
      BY <2>1, <3>5, ReturnSeen
    <3>6. CASE ReleasePost(t)
      BY <2>1, <3>6, PostSeen
    <3> QED
      BY <3>1, <3>2, <3>3, <3>4, <3>5, <3>6 DEF QueueStep, Quiet
  <2>5. CASE UNCHANGED vars
    BY <2>5, StutterSeen
  <2> QED
    BY <2>1, <2>2, <2>3, <2>4, <2>5 DEF Next, Abstract!AtomicNext
<1> QED
  BY <1>1, <1>2, ApiInvariant, PTL DEF Spec, Abstract!AtomicSafety
=============================================================================
