---------------------------- MODULE Sched_proofs ----------------------------
(***************************************************************************)
(* The scheduler, for any number of tasks, priorities and algorithms and   *)
(* any quantum.                                                            *)
(*                                                                         *)
(* No task is lost: under every algorithm the simulation of sched_test.c   *)
(* keeps every task that has arrived and not finished in exactly one       *)
(* place.  This rests on what each class method does to the set of tasks   *)
(* an object holds.                                                        *)
(*                                                                         *)
(* The promise of each algorithm: the processor is never idle while a task *)
(* is ready, srtn runs the shortest task, rr and prr keep their slices,    *)
(* prr serves the best level first, and only prr, with nothing ready, can  *)
(* fault.                                                                  *)
(*                                                                         *)
(* sched_test.c as a whole implements the simulation of SchedTest, and so  *)
(* has what is proved of it; its modules outlive their use, for every      *)
(* command line; and fcfs, when it is named first, implements a server     *)
(* with one line.                                                          *)
(*                                                                         *)
(* Under any caller of the framework, which may change the algorithm with  *)
(* tasks ready, the lists fit the algorithm and no freed task is held.     *)
(*                                                                         *)
(* What the run prints: the chart drawn of each task shows it running in   *)
(* just the ticks it was charged for.                                      *)
(***************************************************************************)
EXTENDS SchedMain, SchedFifo, SchedApi, WellFoundedInduction, SequenceTheorems, FiniteSetTheorems,
        TLAPS

Elems(s) == {s[i] : i \in DOMAIN s}
Injective(s) == \A i, j \in DOMAIN s : s[i] = s[j] => i = j

TaskFields ==
  /\ remaining_time \in [Tasks -> Int]
  /\ run_time \in [Tasks -> Int]
  /\ priority \in [Tasks -> Levels]

-----------------------------------------------------------------------------
(* The ready lists. *)

\* A task is held if one of the lists has it.
LEMMA HeldIff ==
  ASSUME NEW o \in AlgObjects, NEW t
  PROVE  t \in Held(o) <=> \E l \in Levels : t \in Elems(o.lists[l])
BY DEF Held, Elems

\* The object isu_llist_create and a constructor make holds nothing.
LEMMA EmptyObjHolds ==
  /\ EmptyObj \in AlgObjects
  /\ Held(EmptyObj) = {}
  /\ Running(EmptyObj) = {}
  /\ Unique(EmptyObj)
  /\ ~EmptyObj.fault
<1>1. EmptyObj \in AlgObjects  BY EmptySeq DEF EmptyObj, AlgObjects, Idle
<1>2. \A l \in Levels : EmptyObj.lists[l] = <<>>  BY DEF EmptyObj
<1>3. Held(EmptyObj) = {}  BY <1>2 DEF Held
<1>4. HeldOnce(EmptyObj)  BY <1>2 DEF HeldOnce
<1>. QED  BY <1>1, <1>3, <1>4 DEF EmptyObj, Unique, Running, Idle

\* Replacing one list.
LEMMA SetList ==
  ASSUME NEW o \in AlgObjects, NEW l \in Levels, NEW s \in Seq(Tasks)
  PROVE  LET n == [o EXCEPT !.lists[l] = s]
         IN  /\ n \in AlgObjects
             /\ n.lists[l] = s
             /\ \A k \in Levels \ {l} : n.lists[k] = o.lists[k]
             /\ n.running = o.running
             /\ n.fault = o.fault
BY DEF AlgObjects

\* An object that differs from another in one list, which has gained a task.
LEMMA Inserted ==
  ASSUME NEW o \in AlgObjects, NEW n \in AlgObjects, NEW l \in Levels, NEW t,
         \A k \in Levels \ {l} : n.lists[k] = o.lists[k],
         Elems(n.lists[l]) = Elems(o.lists[l]) \cup {t}
  PROVE  /\ Held(n) = Held(o) \cup {t}
         /\ HeldOnce(o) /\ t \notin Held(o) /\ Injective(n.lists[l]) => HeldOnce(n)
<1>1. Held(n) = Held(o) \cup {t}
  <2>1. ASSUME NEW x \in Held(n)  PROVE x \in Held(o) \cup {t}
    BY <2>1, HeldIff
  <2>2. ASSUME NEW x \in Held(o)  PROVE x \in Held(n)
    BY <2>2, HeldIff
  <2>3. t \in Held(n)  BY HeldIff
  <2>. QED  BY <2>1, <2>2, <2>3
<1>2. ASSUME HeldOnce(o), t \notin Held(o), Injective(n.lists[l])
      PROVE  HeldOnce(n)
  <2>. SUFFICES ASSUME NEW k \in Levels, NEW m \in Levels,
                       NEW i \in DOMAIN n.lists[k], NEW j \in DOMAIN n.lists[m],
                       n.lists[k][i] = n.lists[m][j]
                PROVE  k = m /\ i = j
    BY DEF HeldOnce
  <2>0. ASSUME NEW y \in Levels \ {l}, NEW u \in DOMAIN n.lists[y], NEW v \in DOMAIN n.lists[l],
               n.lists[y][u] = n.lists[l][v]
        PROVE  FALSE
    <3>1. n.lists[y][u] \in Elems(o.lists[y])  BY <2>0 DEF Elems
    <3>2. n.lists[y][u] # t  BY <3>1, <1>2, HeldIff
    <3>3. n.lists[l][v] \in Elems(o.lists[l])  BY <3>2, <2>0 DEF Elems
    <3>4. PICK w \in DOMAIN o.lists[l] : o.lists[l][w] = n.lists[l][v]  BY <3>3 DEF Elems
    <3>. QED  BY <3>4, <2>0, <1>2 DEF HeldOnce
  <2>1. CASE k = l /\ m = l  BY <2>1, <1>2 DEF Injective
  <2>2. CASE k # l /\ m # l  BY <2>2, <1>2 DEF HeldOnce
  <2>3. CASE k # l /\ m = l  BY <2>3, <2>0
  <2>4. CASE k = l /\ m # l  BY <2>4, <2>0
  <2>. QED  BY <2>1, <2>2, <2>3, <2>4
<1>. QED  BY <1>1, <1>2

\* One list of a duplicate-free object is duplicate-free.
LEMMA OneList ==
  ASSUME NEW o \in AlgObjects, NEW l \in Levels, NEW t
  PROVE  /\ HeldOnce(o) => Injective(o.lists[l])
         /\ t \notin Held(o) => t \notin Elems(o.lists[l])
BY HeldIff DEF HeldOnce, Injective

\* isu_llist_push(list, task, ISU_LLIST_TAIL).
LEMMA AppendElems ==
  ASSUME NEW s \in Seq(Tasks), NEW t \in Tasks
  PROVE  /\ Append(s, t) \in Seq(Tasks)
         /\ Elems(Append(s, t)) = Elems(s) \cup {t}
         /\ Injective(s) /\ t \notin Elems(s) => Injective(Append(s, t))
<1>. DEFINE n == Append(s, t)
<1>1. /\ n \in Seq(Tasks)
      /\ DOMAIN n = 1 .. Len(s) + 1
      /\ DOMAIN s = 1 .. Len(s)
      /\ Len(s) \in Nat
      /\ \A i \in 1 .. Len(s) : n[i] = s[i]
      /\ n[Len(s) + 1] = t
  BY AppendProperties, LenProperties
<1>2. Elems(n) = Elems(s) \cup {t}
  <2>1. ASSUME NEW i \in DOMAIN n  PROVE n[i] \in Elems(s) \cup {t}
    BY <1>1, i \in 1 .. Len(s) \/ i = Len(s) + 1 DEF Elems
  <2>2. ASSUME NEW i \in DOMAIN s  PROVE s[i] \in Elems(n)
    BY <1>1, i \in DOMAIN n, n[i] = s[i] DEF Elems
  <2>3. t \in Elems(n)
    BY <1>1, Len(s) + 1 \in DOMAIN n DEF Elems
  <2>. QED  BY <2>1, <2>2, <2>3 DEF Elems
<1>3. ASSUME Injective(s), t \notin Elems(s)  PROVE Injective(n)
  BY <1>1, <1>3 DEF Injective, Elems
<1>. QED  BY <1>1, <1>2, <1>3

\* PushTail adds one task and nothing else.
LEMMA PushTailHolds ==
  ASSUME NEW o \in AlgObjects, NEW l \in Levels, NEW t \in Tasks
  PROVE  LET n == PushTail(o, l, t)
         IN  /\ n \in AlgObjects
             /\ Held(n) = Held(o) \cup {t}
             /\ HeldOnce(o) /\ t \notin Held(o) => HeldOnce(n)
             /\ n.running = o.running
             /\ n.fault = o.fault
<1>. DEFINE n == PushTail(o, l, t)
            s == Append(o.lists[l], t)
<1>1. o.lists[l] \in Seq(Tasks)  BY DEF AlgObjects
<1>2. /\ s \in Seq(Tasks)
      /\ Elems(s) = Elems(o.lists[l]) \cup {t}
      /\ Injective(o.lists[l]) /\ t \notin Elems(o.lists[l]) => Injective(s)
  BY <1>1, AppendElems
<1>3. n = [o EXCEPT !.lists[l] = s]  BY DEF PushTail
<1>. HIDE DEF n, s
<1>4. /\ n \in AlgObjects
      /\ n.lists[l] = s
      /\ \A k \in Levels \ {l} : n.lists[k] = o.lists[k]
      /\ n.running = o.running
      /\ n.fault = o.fault
  BY <1>2, <1>3, SetList
<1>5. /\ Held(n) = Held(o) \cup {t}
      /\ HeldOnce(o) /\ t \notin Held(o) /\ Injective(n.lists[l]) => HeldOnce(n)
  BY <1>2, <1>4, Inserted
<1>. QED  BY <1>2, <1>4, <1>5, OneList DEF n

\* Every held task is one.
LEMMA HeldAreTasks ==
  ASSUME NEW o \in AlgObjects
  PROVE  Held(o) \subseteq Tasks
<1>. SUFFICES ASSUME NEW l \in Levels, NEW i \in DOMAIN o.lists[l]
              PROVE  o.lists[l][i] \in Tasks
  BY DEF Held
<1>1. o.lists[l] \in Seq(Tasks)  BY DEF AlgObjects
<1>. QED  BY <1>1, ElementOfSeq, LenProperties

\* isu_llist_pop(list, ISU_LLIST_HEAD).
LEMMA TailElems ==
  ASSUME NEW s \in Seq(Tasks), s # <<>>
  PROVE  /\ Tail(s) \in Seq(Tasks)
         /\ Head(s) \in Tasks
         /\ Elems(s) = Elems(Tail(s)) \cup {Head(s)}
         /\ Injective(s) => Injective(Tail(s)) /\ Head(s) \notin Elems(Tail(s))
<1>. DEFINE n == Tail(s)
<1>1. /\ n \in Seq(Tasks)
      /\ Len(s) \in Nat \ {0}
      /\ DOMAIN n = 1 .. Len(s) - 1
      /\ DOMAIN s = 1 .. Len(s)
      /\ \A i \in 1 .. Len(s) - 1 : n[i] = s[i + 1]
      /\ Head(s) = s[1]
      /\ Head(s) \in Tasks
  BY HeadTailProperties, LenProperties, EmptySeq
<1>2. ASSUME NEW i \in DOMAIN n  PROVE n[i] \in Elems(s)
  BY <1>1, i + 1 \in DOMAIN s DEF Elems
<1>3. ASSUME NEW i \in DOMAIN s  PROVE s[i] \in Elems(n) \cup {Head(s)}
  <2>1. CASE i = 1  BY <2>1, <1>1
  <2>2. CASE i # 1
    <3>1. i - 1 \in 1 .. Len(s) - 1 /\ (i - 1) + 1 = i  BY <2>2, <1>1
    <3>. QED  BY <3>1, <1>1 DEF Elems
  <2>. QED  BY <2>1, <2>2
<1>4. Head(s) \in Elems(s)  BY <1>1, 1 \in DOMAIN s DEF Elems
<1>5. Elems(s) = Elems(n) \cup {Head(s)}  BY <1>2, <1>3, <1>4 DEF Elems
<1>6. ASSUME Injective(s)  PROVE Injective(n) /\ Head(s) \notin Elems(n)
  <2>1. ASSUME NEW i \in DOMAIN n, NEW j \in DOMAIN n, n[i] = n[j]  PROVE i = j
    <3>1. i + 1 \in DOMAIN s /\ j + 1 \in DOMAIN s /\ s[i + 1] = s[j + 1]  BY <1>1, <2>1
    <3>2. i + 1 = j + 1  BY <3>1, <1>6 DEF Injective
    <3>. QED  BY <3>2, <1>1
  <2>2. ASSUME NEW i \in DOMAIN n, n[i] = Head(s)  PROVE FALSE
    <3>1. i + 1 \in DOMAIN s /\ 1 \in DOMAIN s /\ s[i + 1] = s[1]  BY <1>1, <2>2
    <3>2. i + 1 = 1  BY <3>1, <1>6 DEF Injective
    <3>. QED  BY <3>2, <1>1
  <2>. QED  BY <2>1, <2>2 DEF Injective, Elems
<1>. QED  BY <1>1, <1>5, <1>6

\* Popping the head to run it: the tasks held or running afterwards are those
\* held before.
LEMMA RunHeadHolds ==
  ASSUME NEW o \in AlgObjects, NEW l \in Levels
  PROVE  LET n == RunHead(o, l)
         IN  /\ n \in AlgObjects
             /\ n.fault = o.fault
             /\ HeldOnce(o) => Unique(n) /\ Held(n) \cup Running(n) = Held(o)
<1>. DEFINE n == RunHead(o, l)
            s == o.lists[l]
<1>0. s \in Seq(Tasks)  BY DEF AlgObjects
<1>1. CASE s = <<>>
  <2>1. n = [o EXCEPT !.running = Idle]  BY <1>1 DEF RunHead
  <2>. HIDE DEF n
  <2>2. n \in AlgObjects /\ n.fault = o.fault /\ n.running = Idle /\ n.lists = o.lists
    BY <2>1 DEF AlgObjects
  <2>3. Held(n) = Held(o) /\ (HeldOnce(o) => HeldOnce(n))  BY <2>2 DEF Held, HeldOnce
  <2>4. Idle \notin Held(n)  BY <2>2, HeldAreTasks DEF Tasks, Idle
  <2>5. Running(n) = {}  BY <2>2 DEF Running
  <2>6. n \in AlgObjects /\ n.fault = o.fault
        /\ (HeldOnce(o) => Unique(n) /\ Held(n) \cup Running(n) = Held(o))
    BY <2>2, <2>3, <2>4, <2>5 DEF Unique
  <2>. QED  BY <2>6 DEF n
<1>2. CASE s # <<>>
  <2>. DEFINE h == Head(s)  r == Tail(s)  m == [o EXCEPT !.lists[l] = r]
  <2>1. /\ r \in Seq(Tasks)
        /\ h \in Tasks
        /\ Elems(s) = Elems(r) \cup {h}
        /\ Injective(s) => Injective(r) /\ h \notin Elems(r)
    BY <1>0, <1>2, TailElems
  <2>2. n = [m EXCEPT !.running = h]  BY <1>2 DEF RunHead, AlgObjects
  <2>. HIDE DEF n, h, r
  <2>3. /\ m \in AlgObjects
        /\ m.lists[l] = r
        /\ \A k \in Levels \ {l} : m.lists[k] = o.lists[k]
        /\ m.fault = o.fault
    BY <2>1, SetList
  <2>. HIDE DEF m
  <2>4. n \in AlgObjects /\ n.lists = m.lists /\ n.running = h /\ n.fault = o.fault
    BY <2>1, <2>2, <2>3 DEF AlgObjects
  <2>5. Held(o) = Held(n) \cup {h}
    <3>1. /\ \A k \in Levels \ {l} : o.lists[k] = n.lists[k]
          /\ Elems(o.lists[l]) = Elems(n.lists[l]) \cup {h}
      BY <2>1, <2>3, <2>4
    <3>. QED  BY <3>1, <2>4, Inserted
  <2>6. Running(n) = {h}  BY <2>1, <2>4 DEF Running, Tasks, Idle
  <2>7. ASSUME HeldOnce(o)  PROVE Unique(n)
    <3>1. Injective(r) /\ h \notin Elems(r)  BY <2>7, <2>1, OneList
    <3>2. h \notin Held(n)
      <4>. SUFFICES ASSUME NEW k \in Levels, h \in Elems(n.lists[k])  PROVE FALSE
        BY <2>4, HeldIff
      <4>1. k # l  BY <3>1, <2>3, <2>4
      <4>2. PICK j \in DOMAIN o.lists[k] : o.lists[k][j] = h  BY <4>1, <2>3, <2>4 DEF Elems
      <4>3. PICK i \in DOMAIN s : s[i] = h
        <5>1. h \in Elems(s)  BY <2>1
        <5>. QED  BY <5>1 DEF Elems
      <4>. QED  BY <4>1, <4>2, <4>3, <2>7 DEF HeldOnce
    <3>3. HeldOnce(n)
      <4>. SUFFICES ASSUME NEW k \in Levels, NEW p \in Levels,
                           NEW i \in DOMAIN n.lists[k], NEW j \in DOMAIN n.lists[p],
                           n.lists[k][i] = n.lists[p][j]
                    PROVE  k = p /\ i = j
        BY DEF HeldOnce
      <4>1. ASSUME NEW x \in Levels, NEW u \in DOMAIN n.lists[x]
            PROVE  \E w \in DOMAIN o.lists[x] : o.lists[x][w] = n.lists[x][u]
        <5>1. CASE x = l
          <6>1. n.lists[x][u] \in Elems(r)  BY <5>1, <4>1, <2>3, <2>4 DEF Elems
          <6>2. n.lists[x][u] \in Elems(s)  BY <6>1, <2>1
          <6>. QED  BY <6>2, <5>1 DEF Elems
        <5>2. CASE x # l  BY <5>2, <4>1, <2>3, <2>4
        <5>. QED  BY <5>1, <5>2
      <4>2. k = p  BY <4>1, <2>7 DEF HeldOnce
      <4>3. i = j
        <5>1. CASE k = l  BY <5>1, <4>2, <3>1, <2>3, <2>4 DEF Injective
        <5>2. CASE k # l  BY <5>2, <4>2, <2>3, <2>4, <2>7 DEF HeldOnce
        <5>. QED  BY <5>1, <5>2
      <4>. QED  BY <4>2, <4>3
    <3>. QED  BY <3>2, <3>3, <2>4 DEF Unique
  <2>8. n \in AlgObjects /\ n.fault = o.fault
        /\ (HeldOnce(o) => Unique(n) /\ Held(n) \cup Running(n) = Held(o))
    BY <2>4, <2>5, <2>6, <2>7
  <2>. QED  BY <2>8 DEF n
<1>. QED  BY <1>1, <1>2

-----------------------------------------------------------------------------
(* srtn keeps its list sorted. *)

\* A non-empty set of naturals has a least element: the search for the place of
\* a task in a sorted list stops at the first place that fits.
LEMMA LeastElement ==
  ASSUME NEW S \in SUBSET Nat, S # {}
  PROVE  \E m \in S : \A k \in S : m <= k
<1>0. S \subseteq Nat  OBVIOUS
<1>1. PICK m \in S : \A k \in S : <<k, m>> \notin OpToRel(<, Nat)
  BY <1>0, WFMin, NatLessThanWellFounded, Zenon
<1>2. \A k \in S : ~(k < m)  BY <1>1, Zenon DEF OpToRel
<1>. QED  BY <1>2

\* isu_llist_insert_before puts the new task at one place, wherever it is.
LEMMA InsertedAt ==
  ASSUME NEW s \in Seq(Tasks), NEW t \in Tasks, NEW k \in 1 .. Len(s) + 1
  PROVE  LET n == SubSeq(s, 1, k - 1) \o <<t>> \o SubSeq(s, k, Len(s))
         IN  /\ n \in Seq(Tasks)
             /\ Len(n) = Len(s) + 1
             /\ \A i \in 1 .. k - 1 : n[i] = s[i]
             /\ n[k] = t
             /\ \A i \in k .. Len(s) : n[i + 1] = s[i]
<1>. DEFINE a == SubSeq(s, 1, k - 1)
            b == SubSeq(s, k, Len(s))
            c == a \o <<t>>
            n == c \o b
<1>1. Len(s) \in Nat /\ \A i \in 1 .. Len(s) : s[i] \in Tasks
  BY ElementOfSeq, LenProperties
<1>2. /\ a \in Seq(Tasks)
      /\ Len(a) = k - 1
      /\ \A i \in 1 .. k - 1 : a[i] = s[i]
  <2>1. \A i \in 1 .. k - 1 : s[i] \in Tasks  BY <1>1
  <2>. QED  BY <2>1, <1>1, SubSeqProperties
<1>3. /\ b \in Seq(Tasks)
      /\ Len(b) = Len(s) - k + 1
      /\ \A i \in 1 .. Len(s) - k + 1 : b[i] = s[k + i - 1]
  <2>1. \A i \in k .. Len(s) : s[i] \in Tasks  BY <1>1
  <2>. QED  BY <2>1, <1>1, SubSeqProperties
<1>. HIDE DEF a, b
<1>4. /\ c \in Seq(Tasks)
      /\ Len(c) = k
      /\ \A i \in 1 .. k - 1 : c[i] = s[i]
      /\ c[k] = t
  <2>1. c = Append(a, t)  BY <1>2, AppendIsConcat
  <2>. QED  BY <2>1, <1>1, <1>2, AppendProperties
<1>. HIDE DEF c
<1>5. /\ n \in Seq(Tasks)
      /\ Len(n) = Len(c) + Len(b)
      /\ \A i \in 1 .. Len(c) + Len(b) :
           n[i] = IF i <= Len(c) THEN c[i] ELSE b[i - Len(c)]
  BY <1>3, <1>4, ConcatProperties
<1>. HIDE DEF n
<1>6. \A i \in 1 .. k - 1 : n[i] = s[i]  BY <1>1, <1>3, <1>4, <1>5
<1>7. n[k] = t  BY <1>1, <1>3, <1>4, <1>5
<1>8. ASSUME NEW i \in k .. Len(s)  PROVE n[i + 1] = s[i]
  <2>1. i + 1 \in 1 .. Len(c) + Len(b) /\ ~(i + 1 <= Len(c))  BY <1>1, <1>3, <1>4
  <2>2. n[i + 1] = b[(i + 1) - k]  BY <2>1, <1>4, <1>5
  <2>3. (i + 1) - k \in 1 .. Len(s) - k + 1 /\ k + ((i + 1) - k) - 1 = i  BY <1>1
  <2>. QED  BY <2>2, <2>3, <1>3
<1>9. Len(n) = Len(s) + 1  BY <1>1, <1>3, <1>4, <1>5
<1>. QED  BY <1>5, <1>6, <1>7, <1>8, <1>9 DEF n, a, b, c

\* The place srtn_add_task finds: nothing before it needs more time, and what
\* is there needs strictly more.
LEMMA InsertPosIs ==
  ASSUME NEW s \in Seq(Tasks), NEW t \in Tasks, TaskFields
  PROVE  LET k == InsertPos(s, t)
         IN  /\ k \in 1 .. Len(s) + 1
             /\ \A i \in 1 .. k - 1 : remaining_time[s[i]] <= remaining_time[t]
             /\ k <= Len(s) => remaining_time[t] < remaining_time[s[k]]
<1>. DEFINE P(k) == /\ \A i \in 1 .. k - 1 : remaining_time[s[i]] <= remaining_time[t]
                    /\ k <= Len(s) => remaining_time[t] < remaining_time[s[k]]
            S == {k \in 1 .. Len(s) : remaining_time[t] < remaining_time[s[k]]}
<1>1. /\ Len(s) \in Nat
      /\ \A i \in 1 .. Len(s) : remaining_time[s[i]] \in Int
      /\ remaining_time[t] \in Int
  BY ElementOfSeq, LenProperties DEF TaskFields
<1>2. \E k \in 1 .. Len(s) + 1 : P(k)
  <2>1. CASE S = {}
    <3>1. P(Len(s) + 1)  BY <2>1, <1>1
    <3>. QED  BY <3>1, <1>1
  <2>2. CASE S # {}
    <3>1. PICK m \in S : \A k \in S : m <= k
      <4>1. S \in SUBSET Nat  BY <1>1
      <4>. HIDE DEF S
      <4>. QED  BY <4>1, <2>2, LeastElement
    <3>2. P(m)
      <4>1. ASSUME NEW i \in 1 .. m - 1  PROVE remaining_time[s[i]] <= remaining_time[t]
        <5>1. i \in 1 .. Len(s) /\ ~(m <= i)  BY <3>1, <1>1
        <5>2. i \notin S  BY <5>1, <3>1
        <5>. QED  BY <5>1, <5>2, <1>1
      <4>. QED  BY <4>1, <3>1
    <3>. QED  BY <3>1, <3>2, <1>1
  <2>. QED  BY <2>1, <2>2
<1>. QED  BY <1>2 DEF InsertPos

\* srtn's sorted insertion adds the task and loses none.
LEMMA InsertSortedElems ==
  ASSUME NEW s \in Seq(Tasks), NEW t \in Tasks, TaskFields
  PROVE  /\ InsertSorted(s, t) \in Seq(Tasks)
         /\ Elems(InsertSorted(s, t)) = Elems(s) \cup {t}
         /\ Injective(s) /\ t \notin Elems(s) => Injective(InsertSorted(s, t))
<1>. DEFINE k == InsertPos(s, t)
            n == SubSeq(s, 1, k - 1) \o <<t>> \o SubSeq(s, k, Len(s))
<1>1. k \in 1 .. Len(s) + 1  BY InsertPosIs
<1>2. n = InsertSorted(s, t)  BY DEF InsertSorted
<1>. HIDE DEF k
<1>3. /\ n \in Seq(Tasks)
      /\ Len(n) = Len(s) + 1
      /\ \A i \in 1 .. k - 1 : n[i] = s[i]
      /\ n[k] = t
      /\ \A i \in k .. Len(s) : n[i + 1] = s[i]
  BY <1>1, InsertedAt
<1>4. DOMAIN n = 1 .. Len(s) + 1 /\ DOMAIN s = 1 .. Len(s) /\ Len(s) \in Nat
  BY <1>3, LenProperties
<1>. HIDE DEF n
<1>5. \A i \in DOMAIN n : \/ i \in 1 .. k - 1 /\ n[i] = s[i]
                          \/ i = k /\ n[i] = t
                          \/ i - 1 \in k .. Len(s) /\ n[i] = s[i - 1]
  <2>. TAKE i \in DOMAIN n
  <2>1. CASE i < k  BY <2>1, <1>1, <1>3, <1>4
  <2>2. CASE i = k  BY <2>2, <1>3
  <2>3. CASE i > k
    <3>1. i - 1 \in k .. Len(s) /\ (i - 1) + 1 = i  BY <2>3, <1>1, <1>4
    <3>. QED  BY <3>1, <1>3
  <2>. QED  BY <2>1, <2>2, <2>3, <1>1, <1>4
<1>6. Elems(n) = Elems(s) \cup {t}
  <2>1. ASSUME NEW i \in DOMAIN n  PROVE n[i] \in Elems(s) \cup {t}
    BY <1>1, <1>4, <1>5 DEF Elems
  <2>2. ASSUME NEW i \in DOMAIN s  PROVE s[i] \in Elems(n)
    <3>1. CASE i < k  BY <3>1, <1>1, <1>3, <1>4, i \in DOMAIN n DEF Elems
    <3>2. CASE i >= k  BY <3>2, <1>1, <1>3, <1>4, i + 1 \in DOMAIN n DEF Elems
    <3>. QED  BY <3>1, <3>2, <1>1, <1>4
  <2>3. t \in Elems(n)  BY <1>1, <1>3, <1>4, k \in DOMAIN n DEF Elems
  <2>. QED  BY <2>1, <2>2, <2>3 DEF Elems
<1>7. ASSUME Injective(s), t \notin Elems(s)  PROVE Injective(n)
  <2>. SUFFICES ASSUME NEW i \in DOMAIN n, NEW j \in DOMAIN n, n[i] = n[j]  PROVE i = j
    BY DEF Injective
  <2>1. \A u, v \in DOMAIN s : s[u] = s[v] => u = v  BY <1>7 DEF Injective
  <2>2. \A u \in DOMAIN s : s[u] # t  BY <1>7 DEF Elems
  <2>. QED  BY <1>1, <1>4, <1>5, <2>1, <2>2
<1>. QED  BY <1>2, <1>3, <1>6, <1>7

\* srtn_add_task adds one task and nothing else.
LEMMA SrtnAddHolds ==
  ASSUME NEW o \in AlgObjects, NEW t \in Tasks, TaskFields
  PROVE  LET n == srtn_add_task(o, t)
         IN  /\ n \in AlgObjects
             /\ Held(n) = Held(o) \cup {t}
             /\ HeldOnce(o) /\ t \notin Held(o) => HeldOnce(n)
             /\ n.running = o.running
             /\ n.fault = o.fault
<1>. DEFINE n == srtn_add_task(o, t)
            s == InsertSorted(o.lists[0], t)
<1>0. 0 \in Levels  BY PrioritiesAssumption DEF Levels
<1>1. o.lists[0] \in Seq(Tasks)  BY <1>0 DEF AlgObjects
<1>2. /\ s \in Seq(Tasks)
      /\ Elems(s) = Elems(o.lists[0]) \cup {t}
      /\ Injective(o.lists[0]) /\ t \notin Elems(o.lists[0]) => Injective(s)
  BY <1>1, InsertSortedElems
<1>3. n = [o EXCEPT !.lists[0] = s]  BY DEF srtn_add_task
<1>. HIDE DEF n, s
<1>4. /\ n \in AlgObjects
      /\ n.lists[0] = s
      /\ \A k \in Levels \ {0} : n.lists[k] = o.lists[k]
      /\ n.running = o.running
      /\ n.fault = o.fault
  BY <1>0, <1>2, <1>3, SetList
<1>5. /\ Held(n) = Held(o) \cup {t}
      /\ HeldOnce(o) /\ t \notin Held(o) /\ Injective(n.lists[0]) => HeldOnce(n)
  BY <1>0, <1>2, <1>4, Inserted
<1>. QED  BY <1>0, <1>2, <1>4, <1>5, OneList DEF n

-----------------------------------------------------------------------------
(* The class methods. *)

\* What get_next_task owes its caller: the tasks held or running afterwards are
\* the ones held before and, unless it is removed, the running one, each in one
\* place.
NextHolds(o, remove, n) ==
  Unique(o) => /\ Unique(n)
               /\ Held(n) \cup Running(n) = Held(o) \cup (IF remove THEN {} ELSE Running(o))

\* A method that runs the head of a list takes it out of the list.
LEMMA RunHeadNext ==
  ASSUME NEW o \in AlgObjects, NEW l \in Levels, NEW remove \in BOOLEAN,
         remove \/ o.running = Idle
  PROVE  RunHead(o, l) \in AlgObjects /\ NextHolds(o, remove, RunHead(o, l))
<1>1. remove \/ Running(o) = {}  BY DEF Running
<1>. QED  BY <1>1, RunHeadHolds DEF NextHolds, Unique

\* The running task is put back first.
LEMMA RunHeadAfterAdd ==
  ASSUME NEW o \in AlgObjects, NEW m \in AlgObjects, NEW l \in Levels, o.running # Idle,
         Held(m) = Held(o) \cup {o.running},
         HeldOnce(o) /\ o.running \notin Held(o) => HeldOnce(m)
  PROVE  RunHead(m, l) \in AlgObjects /\ NextHolds(o, FALSE, RunHead(m, l))
<1>1. Running(o) = {o.running}  BY DEF Running
<1>. QED  BY <1>1, RunHeadHolds DEF NextHolds, Unique

\* A method that goes on with the running task changes nothing.
LEMMA KeepNext ==
  ASSUME NEW o \in AlgObjects
  PROVE  NextHolds(o, FALSE, o)
BY DEF NextHolds

\* A processor that is not idle runs a task.
LEMMA RunningIsTask ==
  ASSUME NEW o \in AlgObjects, o.running # Idle
  PROVE  o.running \in Tasks
BY DEF AlgObjects

\* fcfs_get_next_task keeps the tasks it holds.
LEMMA FcfsNextHolds ==
  ASSUME NEW o \in AlgObjects, NEW remove \in BOOLEAN, NEW n \in fcfs_get_next_task(o, remove)
  PROVE  n \in AlgObjects /\ NextHolds(o, remove, n)
<1>0. 0 \in Levels  BY PrioritiesAssumption DEF Levels
<1>1. CASE ~remove /\ o.running # Idle
  BY <1>1, remove = FALSE, n = o, KeepNext DEF fcfs_get_next_task
<1>2. CASE remove \/ o.running = Idle
  <2>1. n = RunHead(o, 0)  BY <1>2 DEF fcfs_get_next_task
  <2>. QED  BY <2>1, <1>0, <1>2, RunHeadNext
<1>. QED  BY <1>1, <1>2

\* rr_get_next_task keeps the tasks it holds.
LEMMA RrNextHolds ==
  ASSUME NEW o \in AlgObjects, NEW remove \in BOOLEAN, NEW n \in rr_get_next_task(o, remove)
  PROVE  n \in AlgObjects /\ NextHolds(o, remove, n)
<1>0. 0 \in Levels  BY PrioritiesAssumption DEF Levels
<1>1. CASE remove \/ o.running = Idle
  <2>1. n = RunHead(o, 0)  BY <1>1 DEF rr_get_next_task
  <2>. QED  BY <2>1, <1>0, <1>1, RunHeadNext
<1>2. CASE ~remove /\ o.running # Idle
  <2>1. remove = FALSE  BY <1>2
  <2>2. CASE run_time[o.running] < Quantum
    BY <1>2, <2>1, <2>2, n = o, KeepNext DEF rr_get_next_task
  <2>3. CASE ~(run_time[o.running] < Quantum)
    <3>. DEFINE m == PushTail(o, 0, o.running)
    <3>1. n = RunHead(m, 0)  BY <1>2, <2>3 DEF rr_get_next_task
    <3>2. /\ m \in AlgObjects
          /\ Held(m) = Held(o) \cup {o.running}
          /\ HeldOnce(o) /\ o.running \notin Held(o) => HeldOnce(m)
      BY <1>0, <1>2, RunningIsTask, PushTailHolds
    <3>. HIDE DEF m
    <3>. QED  BY <3>1, <3>2, <2>1, <1>0, <1>2, RunHeadAfterAdd
  <2>. QED  BY <2>2, <2>3
<1>. QED  BY <1>1, <1>2

\* srtn_get_next_task keeps the tasks it holds.
LEMMA SrtnNextHolds ==
  ASSUME NEW o \in AlgObjects, NEW remove \in BOOLEAN, NEW n \in srtn_get_next_task(o, remove),
         TaskFields
  PROVE  n \in AlgObjects /\ (~n.fault => NextHolds(o, remove, n))
<1>0. 0 \in Levels  BY PrioritiesAssumption DEF Levels
<1>1. CASE remove \/ o.running = Idle
  <2>1. n = RunHead(o, 0)  BY <1>1 DEF srtn_get_next_task
  <2>. QED  BY <2>1, <1>0, <1>1, RunHeadNext
<1>2. CASE ~remove /\ o.running # Idle
  <2>1. remove = FALSE  BY <1>2
  <2>2. CASE o.lists[0] = <<>>
    <3>1. n = [o EXCEPT !.fault = TRUE]  BY <1>2, <2>2 DEF srtn_get_next_task
    <3>. QED  BY <3>1 DEF AlgObjects
  <2>3. CASE n = o  BY <2>1, <2>3, KeepNext
  <2>4. CASE o.lists[0] # <<>> /\ n # o
    <3>. DEFINE m == RunHead(o, 0)  r == o.running
    <3>1. n = srtn_add_task(m, r)  BY <1>2, <2>4 DEF srtn_get_next_task
    <3>2. m \in AlgObjects /\ (HeldOnce(o) => Unique(m) /\ Held(m) \cup Running(m) = Held(o))
      BY <1>0, RunHeadHolds
    <3>3. r \in Tasks /\ Running(o) = {r}  BY <1>2, RunningIsTask DEF Running
    <3>. HIDE DEF m
    <3>4. /\ n \in AlgObjects
          /\ Held(n) = Held(m) \cup {r}
          /\ HeldOnce(m) /\ r \notin Held(m) => HeldOnce(n)
          /\ n.running = m.running
      BY <3>1, <3>2, <3>3, SrtnAddHolds
    <3>5. ASSUME Unique(o)
          PROVE  Unique(n) /\ Held(n) \cup Running(n) = Held(o) \cup Running(o)
      <4>1. /\ HeldOnce(m)
            /\ m.running \notin Held(m)
            /\ Held(m) \cup Running(m) = Held(o)
            /\ r \notin Held(o)
        BY <3>2, <3>5 DEF Unique
      <4>2. HeldOnce(n)  BY <3>4, <4>1
      <4>3. Running(n) = Running(m)  BY <3>4 DEF Running
      <4>4. m.running # r  BY <4>1, <1>2 DEF Running
      <4>. QED  BY <4>1, <4>2, <4>3, <4>4, <3>3, <3>4 DEF Unique
    <3>. QED  BY <2>1, <3>4, <3>5 DEF NextHolds
  <2>. QED  BY <2>2, <2>3, <2>4
<1>. QED  BY <1>1, <1>2

\* prr pops the list the search names, or faults.
LEMMA RunHighestIs ==
  ASSUME NEW o, NEW n \in RunHighest(o)
  PROVE  n = [o EXCEPT !.fault = TRUE] \/ \E l \in Levels : n = RunHead(o, l)
BY DEF RunHighest

\* prr_add_task holds the new task as well.
LEMMA PrrAddHolds ==
  ASSUME NEW o \in AlgObjects, NEW t \in Tasks, TaskFields
  PROVE  LET n == prr_add_task(o, t)
         IN  /\ n \in AlgObjects
             /\ Held(n) = Held(o) \cup {t}
             /\ HeldOnce(o) /\ t \notin Held(o) => HeldOnce(n)
             /\ n.running = o.running
             /\ n.fault = o.fault
<1>1. priority[t] \in Levels  BY DEF TaskFields
<1>. QED  BY <1>1, PushTailHolds DEF prr_add_task

\* prr_get_next_task keeps the tasks it holds, unless it faults.
LEMMA PrrNextHolds ==
  ASSUME NEW o \in AlgObjects, NEW remove \in BOOLEAN, NEW n \in prr_get_next_task(o, remove),
         TaskFields
  PROVE  n \in AlgObjects /\ (~n.fault => NextHolds(o, remove, n))
<1>1. CASE remove \/ o.running = Idle
  <2>1. n \in RunHighest(o)  BY <1>1 DEF prr_get_next_task
  <2>2. CASE n = [o EXCEPT !.fault = TRUE]  BY <2>2 DEF AlgObjects
  <2>3. CASE \E l \in Levels : n = RunHead(o, l)  BY <2>3, <1>1, RunHeadNext
  <2>. QED  BY <2>1, <2>2, <2>3, RunHighestIs
<1>2. CASE ~remove /\ o.running # Idle
  <2>1. remove = FALSE  BY <1>2
  <2>2. CASE run_time[o.running] < Quantum
    BY <1>2, <2>1, <2>2, n = o, KeepNext DEF prr_get_next_task
  <2>3. CASE ~(run_time[o.running] < Quantum)
    <3>. DEFINE m == prr_add_task(o, o.running)
    <3>1. n \in RunHighest(m)  BY <1>2, <2>3 DEF prr_get_next_task
    <3>2. /\ m \in AlgObjects
          /\ Held(m) = Held(o) \cup {o.running}
          /\ HeldOnce(o) /\ o.running \notin Held(o) => HeldOnce(m)
      BY <1>2, RunningIsTask, PrrAddHolds
    <3>. HIDE DEF m
    <3>3. CASE n = [m EXCEPT !.fault = TRUE]  BY <3>2, <3>3 DEF AlgObjects
    <3>4. CASE \E l \in Levels : n = RunHead(m, l)
      BY <3>2, <3>4, <2>1, <1>2, RunHeadAfterAdd
    <3>. QED  BY <3>1, <3>3, <3>4, RunHighestIs
  <2>. QED  BY <2>2, <2>3
<1>. QED  BY <1>1, <1>2

\* current_algorithm->get_next_task.
LEMMA GetNextHolds ==
  ASSUME NEW a \in Algorithms, NEW o \in AlgObjects, NEW remove \in BOOLEAN,
         NEW n \in get_next_task(a, o, remove), TaskFields
  PROVE  n \in AlgObjects /\ (~n.fault => NextHolds(o, remove, n))
<1>1. CASE a = "fcfs"  BY <1>1, FcfsNextHolds DEF get_next_task
<1>2. CASE a = "rr"    BY <1>2, RrNextHolds DEF get_next_task
<1>3. CASE a = "srtn"  BY <1>3, SrtnNextHolds DEF get_next_task
<1>4. CASE a = "prr"   BY <1>4, PrrNextHolds DEF get_next_task
<1>. QED  BY <1>1, <1>2, <1>3, <1>4 DEF Algorithms

\* current_algorithm->add_task.
LEMMA AddHolds ==
  ASSUME NEW a \in Algorithms, NEW o \in AlgObjects, NEW t \in Tasks, TaskFields
  PROVE  LET n == add_task(a, o, t)
         IN  /\ n \in AlgObjects
             /\ Held(n) = Held(o) \cup {t}
             /\ HeldOnce(o) /\ t \notin Held(o) => HeldOnce(n)
             /\ n.running = o.running
             /\ n.fault = o.fault
<1>0. 0 \in Levels  BY PrioritiesAssumption DEF Levels
<1>1. CASE a = "fcfs"  BY <1>0, <1>1, PushTailHolds DEF add_task, fcfs_add_task
<1>2. CASE a = "rr"    BY <1>0, <1>2, PushTailHolds DEF add_task, rr_add_task
<1>3. CASE a = "srtn"  BY <1>3, SrtnAddHolds DEF add_task
<1>4. CASE a = "prr"   BY <1>4, PrrAddHolds DEF add_task
<1>. QED  BY <1>1, <1>2, <1>3, <1>4 DEF Algorithms

-----------------------------------------------------------------------------
(* What a fold comes to, from its first element to its last. *)

\* What holds at 0 and of every number if it holds of the one before.
LEMMA UpTo ==
  ASSUME NEW n \in Nat, NEW S, 0 \in S, \A k \in 1 .. n : k - 1 \in S => k \in S
  PROVE  n \in S
<1>. DEFINE Fails == {k \in 0 .. n : k \notin S}
<1>1. SUFFICES ASSUME n \notin S  PROVE FALSE  OBVIOUS
<1>2. Fails \in SUBSET Nat /\ Fails # {}  BY <1>1
<1>3. PICK m \in Fails : \A k \in Fails : m <= k
  <2>. HIDE DEF Fails
  <2>. QED  BY <1>2, LeastElement
<1>4. m \in 1 .. n /\ m - 1 \in 0 .. n  OBVIOUS
<1>5. m - 1 \in S  BY <1>3, <1>4
<1>. QED  BY <1>4, <1>5

\* The greatest of some numbers.
LEMMA MaxIs ==
  ASSUME NEW S \in SUBSET Int, NEW m \in S, \A k \in S : k <= m
  PROVE  Max(S) = m
<1>1. \A x \in S : (\A y \in S : x >= y) => x = m  OBVIOUS
<1>2. \A y \in S : m >= y  OBVIOUS
<1>. QED  BY <1>1, <1>2 DEF Max

\* The largest index of a set is in it, and no other is larger.
LEMMA MaxIn ==
  ASSUME NEW n \in Nat, NEW S \in SUBSET (1 .. n), S # {}
  PROVE  Max(S) \in S /\ \A k \in S : k <= Max(S)
<1>. DEFINE Below == {n - k : k \in S}
<1>1. Below \in SUBSET Nat /\ Below # {}
  <2>1. \A k \in S : k \in 1 .. n  OBVIOUS
  <2>2. \A k \in 1 .. n : n - k \in Nat  OBVIOUS
  <2>. QED  BY <2>1, <2>2
<1>2. PICK l \in Below : \A k \in Below : l <= k
  <2>. HIDE DEF Below
  <2>. QED  BY <1>1, LeastElement
<1>3. PICK m \in S : l = n - m  OBVIOUS
<1>4. \A k \in S : k <= m
  <2>. TAKE k \in S
  <2>1. l <= n - k  BY <1>2
  <2>. QED  BY <1>3, <2>1
<1>5. Max(S) = m  BY <1>4, MaxIs
<1>. QED  BY <1>4, <1>5

\* f is what the recursion of FoldLeft says, for a step given as a function.
Folds(f, X, base, s, g) ==
  /\ f \in [SUBSET DOMAIN s -> X]
  /\ \A u \in SUBSET DOMAIN s : f[u] = IF u = {} THEN base ELSE g[<<f[u \ {Max(u)}], s[Max(u)]>>]

\* Such a function exists.
LEMMA FoldExists ==
  ASSUME NEW X, NEW T, NEW base \in X, NEW s \in Seq(T), NEW g \in [X \X T -> X]
  PROVE  \E f : Folds(f, X, base, s, g)
<1>. DEFINE Is(f, u) == f[u] = IF u = {} THEN base ELSE g[<<f[u \ {Max(u)}], s[Max(u)]>>]
            Done == {k \in Nat : \E f \in [SUBSET (1 .. k) -> X] : \A u \in SUBSET (1 .. k) : Is(f, u)}
<1>0. DOMAIN s = 1 .. Len(s) /\ Len(s) \in Nat /\ \A i \in 1 .. Len(s) : s[i] \in T
  BY LenProperties, ElementOfSeq
<1>1. 0 \in Done
  <2>. DEFINE f == [u \in SUBSET (1 .. 0) |-> base]
  <2>1. f \in [SUBSET (1 .. 0) -> X]  OBVIOUS
  <2>2. \A u \in SUBSET (1 .. 0) : u = {}  OBVIOUS
  <2>3. \A u \in SUBSET (1 .. 0) : Is(f, u)  BY <2>2
  <2>. QED  BY <2>1, <2>3
<1>2. ASSUME NEW k \in 1 .. Len(s), k - 1 \in Done  PROVE k \in Done
  <2>1. PICK f \in [SUBSET (1 .. k - 1) -> X] : \A u \in SUBSET (1 .. k - 1) : Is(f, u)
    BY <1>2
  <2>2. s[k] \in T  BY <1>0
  <2>. DEFINE h == [u \in SUBSET (1 .. k) |-> IF k \in u THEN g[<<f[u \ {k}], s[k]>>] ELSE f[u]]
  <2>3. ASSUME NEW u \in SUBSET (1 .. k)  PROVE u \ {k} \in SUBSET (1 .. k - 1)
    BY <1>0
  <2>4. ASSUME NEW u \in SUBSET (1 .. k), k \in u  PROVE Max(u) = k /\ u # {}
    <3>1. u \in SUBSET Int /\ \A x \in u : x <= k  BY <1>0
    <3>. QED  BY <2>4, <3>1, MaxIs
  <2>5. ASSUME NEW u \in SUBSET (1 .. k), k \notin u  PROVE u \in SUBSET (1 .. k - 1)
    BY <2>3, <2>5
  <2>6. h \in [SUBSET (1 .. k) -> X]
    <3>1. ASSUME NEW u \in SUBSET (1 .. k)
          PROVE  (IF k \in u THEN g[<<f[u \ {k}], s[k]>>] ELSE f[u]) \in X
      <4>1. f[u \ {k}] \in X  BY <2>3
      <4>2. k \notin u => f[u] \in X  BY <2>5
      <4>. QED  BY <2>2, <4>1, <4>2
    <3>. QED  BY <3>1
  <2>7. ASSUME NEW u \in SUBSET (1 .. k)  PROVE Is(h, u)
    <3>1. CASE k \in u
      <4>1. h[u] = g[<<f[u \ {k}], s[k]>>]  BY <3>1
      <4>2. u \ {k} \in SUBSET (1 .. k) /\ h[u \ {k}] = f[u \ {k}]  OBVIOUS
      <4>. HIDE DEF h
      <4>. QED  BY <3>1, <2>4, <4>1, <4>2
    <3>2. CASE k \notin u
      <4>1. h[u] = f[u]  BY <3>2
      <4>2. u \ {Max(u)} \in SUBSET (1 .. k) /\ h[u \ {Max(u)}] = f[u \ {Max(u)}]  BY <3>2
      <4>3. Is(f, u)  BY <2>1, <2>5, <3>2
      <4>. HIDE DEF h
      <4>. QED  BY <4>1, <4>2, <4>3
    <3>. QED  BY <3>1, <3>2
  <2>8. \E f2 \in [SUBSET (1 .. k) -> X] : \A u \in SUBSET (1 .. k) : Is(f2, u)
    <3>. HIDE DEF h
    <3>. QED  BY <2>6, <2>7, Zenon
  <2>9. k \in Nat  BY <1>0
  <2>. QED  BY <2>8, <2>9
<1>3. Len(s) \in Done
  <2>. HIDE DEF Done
  <2>. QED  BY <1>0, <1>1, <1>2, UpTo
<1>4. PICK f \in [SUBSET (1 .. Len(s)) -> X] : \A u \in SUBSET (1 .. Len(s)) : Is(f, u)
  BY <1>3
<1>. QED  BY <1>0, <1>4 DEF Folds

\* The elements FoldLeft has folded so far.
LEMMA Prefix ==
  ASSUME NEW k \in Nat \ {0}
  PROVE  1 .. k # {} /\ Max(1 .. k) = k /\ (1 .. k) \ {k} = 1 .. k - 1
<1>1. k \in 1 .. k /\ 1 .. k \in SUBSET Int /\ \A i \in 1 .. k : i <= k  OBVIOUS
<1>2. Max(1 .. k) = k  BY <1>1, MaxIs
<1>. QED  BY <1>2

\* srtn_start inserts one task after another.
LEMMA SortSteps ==
  ASSUME NEW s \in Seq(Tasks), TaskFields
  PROVE  \E v : /\ v[0] = <<>>
                /\ \A k \in 1 .. Len(s) : v[k] = InsertSorted(v[k - 1], s[k])
                /\ v[Len(s)] = FoldLeft(InsertSorted, <<>>, s)
<1>. DEFINE X == Seq(Tasks)
            g == [p \in X \X Tasks |-> InsertSorted(p[1], p[2])]
            D == SUBSET DOMAIN s
            iter == CHOOSE f : f = [u \in D |-> IF u = {} THEN <<>>
                                                ELSE InsertSorted(f[u \ {Max(u)}], s[Max(u)])]
<1>0. DOMAIN s = 1 .. Len(s) /\ Len(s) \in Nat /\ \A i \in 1 .. Len(s) : s[i] \in Tasks
  BY LenProperties, ElementOfSeq
<1>1. g \in [X \X Tasks -> X]  BY InsertSortedElems
<1>2. PICK f : Folds(f, X, <<>>, s, g)
  <2>1. <<>> \in X  BY EmptySeq
  <2>. HIDE DEF g, X
  <2>. QED  BY <1>1, <2>1, FoldExists
<1>3. ASSUME NEW u \in D
      PROVE  f[u] = IF u = {} THEN <<>> ELSE InsertSorted(f[u \ {Max(u)}], s[Max(u)])
  <2>1. u # {} => s[Max(u)] \in Tasks  BY <1>0, MaxIn
  <2>2. u \ {Max(u)} \in D /\ f[u \ {Max(u)}] \in X  BY <1>2 DEF Folds
  <2>. QED  BY <1>2, <2>1, <2>2 DEF Folds
<1>4. f = [u \in D |-> IF u = {} THEN <<>> ELSE InsertSorted(f[u \ {Max(u)}], s[Max(u)])]
  BY <1>2, <1>3 DEF Folds
<1>5. iter = [u \in D |-> IF u = {} THEN <<>> ELSE InsertSorted(iter[u \ {Max(u)}], s[Max(u)])]
  BY <1>4
<1>6. FoldLeft(InsertSorted, <<>>, s) = iter[DOMAIN s]
  BY DEF FoldLeft, MapThenFoldSet
<1>. HIDE DEF iter
<1>. DEFINE v == [k \in 0 .. Len(s) |-> iter[1 .. k]]
<1>7. v[0] = <<>>
  <2>1. 1 .. 0 = {} /\ {} \in D  OBVIOUS
  <2>2. v[0] = iter[{}]  BY <1>0, <2>1
  <2>. QED  BY <1>5, <2>1, <2>2
<1>8. ASSUME NEW k \in 1 .. Len(s)  PROVE v[k] = InsertSorted(v[k - 1], s[k])
  <2>1. 1 .. k \in D /\ k - 1 \in 0 .. Len(s)  BY <1>0
  <2>2. 1 .. k # {} /\ Max(1 .. k) = k /\ (1 .. k) \ {k} = 1 .. k - 1  BY <1>0, Prefix
  <2>3. iter[1 .. k] = InsertSorted(iter[1 .. k - 1], s[k])  BY <1>5, <2>1, <2>2
  <2>. QED  BY <1>0, <2>1, <2>3
<1>9. v[Len(s)] = FoldLeft(InsertSorted, <<>>, s)  BY <1>0, <1>6
<1>. QED  BY <1>7, <1>8, <1>9

\* prr_start adds one task after another.
LEMMA PrrStartSteps ==
  ASSUME NEW s \in Seq(Tasks), TaskFields
  PROVE  \E v : /\ v[0] = EmptyObj
                /\ \A k \in 1 .. Len(s) : v[k] = prr_add_task(v[k - 1], s[k])
                /\ v[Len(s)] = prr_start(s)
<1>. DEFINE X == AlgObjects
            g == [p \in X \X Tasks |-> prr_add_task(p[1], p[2])]
            D == SUBSET DOMAIN s
            iter == CHOOSE f : f = [u \in D |-> IF u = {} THEN EmptyObj
                                                ELSE prr_add_task(f[u \ {Max(u)}], s[Max(u)])]
<1>0. DOMAIN s = 1 .. Len(s) /\ Len(s) \in Nat /\ \A i \in 1 .. Len(s) : s[i] \in Tasks
  BY LenProperties, ElementOfSeq
<1>1. g \in [X \X Tasks -> X]  BY PrrAddHolds
<1>2. PICK f : Folds(f, X, EmptyObj, s, g)
  <2>1. EmptyObj \in X  BY EmptyObjHolds
  <2>. HIDE DEF g, X
  <2>. QED  BY <1>1, <2>1, FoldExists
<1>3. ASSUME NEW u \in D
      PROVE  f[u] = IF u = {} THEN EmptyObj ELSE prr_add_task(f[u \ {Max(u)}], s[Max(u)])
  <2>1. u # {} => s[Max(u)] \in Tasks  BY <1>0, MaxIn
  <2>2. u \ {Max(u)} \in D /\ f[u \ {Max(u)}] \in X  BY <1>2 DEF Folds
  <2>. QED  BY <1>2, <2>1, <2>2 DEF Folds
<1>4. f = [u \in D |-> IF u = {} THEN EmptyObj ELSE prr_add_task(f[u \ {Max(u)}], s[Max(u)])]
  BY <1>2, <1>3 DEF Folds
<1>5. iter = [u \in D |-> IF u = {} THEN EmptyObj ELSE prr_add_task(iter[u \ {Max(u)}], s[Max(u)])]
  BY <1>4
<1>6. prr_start(s) = iter[DOMAIN s]
  BY DEF prr_start, FoldLeft, MapThenFoldSet
<1>. HIDE DEF iter
<1>. DEFINE v == [k \in 0 .. Len(s) |-> iter[1 .. k]]
<1>7. v[0] = EmptyObj
  <2>1. 1 .. 0 = {} /\ {} \in D  OBVIOUS
  <2>2. v[0] = iter[{}]  BY <1>0, <2>1
  <2>. QED  BY <1>5, <2>1, <2>2
<1>8. ASSUME NEW k \in 1 .. Len(s)  PROVE v[k] = prr_add_task(v[k - 1], s[k])
  <2>1. 1 .. k \in D /\ k - 1 \in 0 .. Len(s)  BY <1>0
  <2>2. 1 .. k # {} /\ Max(1 .. k) = k /\ (1 .. k) \ {k} = 1 .. k - 1  BY <1>0, Prefix
  <2>3. iter[1 .. k] = prr_add_task(iter[1 .. k - 1], s[k])  BY <1>5, <2>1, <2>2
  <2>. QED  BY <1>0, <2>1, <2>3
<1>9. v[Len(s)] = prr_start(s)  BY <1>0, <1>6
<1>. QED  BY <1>7, <1>8, <1>9

-----------------------------------------------------------------------------
(* Starting and stopping with no task. *)

\* Stopping an object that holds nothing gives NULL back.
LEMMA StopEmpty ==
  ASSUME NEW a \in Algorithms, NEW o \in AlgObjects, Held(o) = {}
  PROVE  stop(a, o) = <<>>
<1>0. 0 \in Levels  BY PrioritiesAssumption DEF Levels
<1>1. ASSUME NEW l \in Levels  PROVE o.lists[l] = <<>>
  <2>1. o.lists[l] \in Seq(Tasks)  BY DEF AlgObjects
  <2>2. SUFFICES ASSUME o.lists[l] # <<>>  PROVE FALSE  OBVIOUS
  <2>3. 1 \in DOMAIN o.lists[l]  BY <2>1, <2>2, LenProperties, EmptySeq
  <2>4. o.lists[l][1] \in Elems(o.lists[l])  BY <2>3 DEF Elems
  <2>. QED  BY <2>4, HeldIff
<1>2. CASE a = "fcfs"  BY <1>0, <1>1, <1>2 DEF stop, fcfs_stop
<1>3. CASE a = "rr"    BY <1>0, <1>1, <1>3 DEF stop, rr_stop
<1>4. CASE a = "srtn"  BY <1>0, <1>1, <1>4 DEF stop, srtn_stop
<1>5. CASE a = "prr"   BY <1>1, <1>5 DEF stop, prr_stop
<1>. QED  BY <1>2, <1>3, <1>4, <1>5 DEF Algorithms

\* Starting with NULL makes an object that holds nothing.
LEMMA StartEmpty ==
  ASSUME NEW a \in Algorithms, TaskFields
  PROVE  /\ start(a, <<>>) \in AlgObjects
         /\ Held(start(a, <<>>)) = {}
         /\ start(a, <<>>).running = Idle
         /\ ~start(a, <<>>).fault
<1>. DEFINE n == start(a, <<>>)
<1>1. /\ n.running = Idle
      /\ n.fault = FALSE
      /\ \A l \in Levels : n.lists[l] = <<>>
      /\ n \in AlgObjects
  <2>0. 0 \in Levels  BY PrioritiesAssumption DEF Levels
  <2>1. CASE a = "fcfs"  BY <2>0, <2>1, EmptyObjHolds DEF start, fcfs_start, EmptyObj, AlgObjects
  <2>2. CASE a = "rr"    BY <2>0, <2>2, EmptyObjHolds DEF start, rr_start, EmptyObj, AlgObjects
  <2>3. CASE a = "srtn"  BY <2>3, EmptyObjHolds DEF start, srtn_start, EmptyObj
  <2>4. CASE a = "prr"
    <3>1. <<>> \in Seq(Tasks) /\ Len(<<>>) = 0  BY EmptySeq
    <3>2. PICK v : v[0] = EmptyObj /\ v[Len(<<>>)] = prr_start(<<>>)  BY <3>1, PrrStartSteps
    <3>3. n = EmptyObj  BY <2>4, <3>1, <3>2 DEF start
    <3>4. EmptyObj.running = Idle /\ EmptyObj.fault = FALSE  BY DEF EmptyObj
    <3>5. EmptyObj \in AlgObjects /\ \A l \in Levels : EmptyObj.lists[l] = <<>>
      BY EmptyObjHolds DEF EmptyObj
    <3>. QED  BY <3>3, <3>4, <3>5
  <2>. QED  BY <2>1, <2>2, <2>3, <2>4 DEF Algorithms
<1>2. Held(n) = {}  BY <1>1 DEF Held
<1>. QED  BY <1>1, <1>2

-----------------------------------------------------------------------------
(* The simulation. *)

Loop == {"charge", "arrive", "notify", "switch"}

\* Only a get_next_task faults, and the program does not survive it.
FaultPhase == obj.fault => pc \in {"arrive", "switch"}

LoopPhase == pc \in Loop => current_algorithm \in Algorithms /\ alg_index <= Len(Args)

\* Between two runs the algorithm object holds nothing.
RestPhase == pc \notin Loop => Held(obj) = {} /\ obj.running = Idle

Count == remaining_tasks = NumTasks - Cardinality(finished)

\* A task has run what it no longer needs, and one that needs nothing is
\* finished, or about to be.
Times ==
  \A t \in Tasks :
    /\ remaining_time[t] + run_time[t] = length[t]
    /\ t \in finished => remaining_time[t] = 0
    /\ remaining_time[t] = 0 /\ t \notin finished => pc \in {"arrive", "notify"} /\ t = current_task

\* No arrival takes the processor from a task that has just ended.
Ended == pc \in {"arrive", "notify"} /\ TaskDone /\ ~obj.fault => running_task = current_task

Asked == pc = "switch" /\ ~obj.fault => new_task = running_task

Slice ==
  /\ current_task = Idle => contended = 0
  /\ current_task # Idle => contended <= run_time[current_task]
  /\ current_task # Idle /\ pc \in Loop \ {"charge"} => contended < run_time[current_task]

IInv ==
  /\ TypeOK /\ Conservation /\ Agreement
  /\ FaultPhase /\ LoopPhase /\ RestPhase /\ Count /\ Times /\ Ended /\ Asked /\ Slice
  /\ finished \subseteq Arrived

-----------------------------------------------------------------------------
\* There are NumTasks tasks.
LEMMA TasksFinite ==
  /\ \A S \in SUBSET Tasks : IsFiniteSet(S) /\ Cardinality(S) \in 0 .. NumTasks
  /\ \A S \in SUBSET Tasks : Cardinality(S) = NumTasks => S = Tasks
<1>1. IsFiniteSet(Tasks) /\ Cardinality(Tasks) = NumTasks
  BY TasksAssumption, FS_Interval DEF Tasks
<1>2. ASSUME NEW S \in SUBSET Tasks
      PROVE  /\ IsFiniteSet(S)
             /\ Cardinality(S) \in 0 .. NumTasks
             /\ Cardinality(S) = NumTasks => S = Tasks
  BY <1>1, FS_Subset, FS_CardinalityType, TasksAssumption
<1>. QED  BY <1>2

\* What the lemmas on the algorithms assume of the task fields.
LEMMA FieldsOK ==
  ASSUME TypeOK
  PROVE  /\ TaskFields
         /\ \A t \in Tasks : /\ remaining_time[t] \in 0 .. MaxLength
                           /\ run_time[t] \in 0 .. MaxLength
                           /\ length[t] \in 1 .. MaxLength
<1>1. /\ remaining_time \in [Tasks -> 0 .. MaxLength]
      /\ run_time \in [Tasks -> 0 .. MaxLength]
      /\ length \in [Tasks -> 1 .. MaxLength]
      /\ priority \in [Tasks -> Levels]
  BY DEF TypeOK
<1>2. remaining_time \in [Tasks -> Int]  BY <1>1
<1>3. run_time \in [Tasks -> Int]  BY <1>1
<1>. QED  BY <1>1, <1>2, <1>3 DEF TaskFields

\* The object is left alone.
LEMMA SameObj ==
  ASSUME obj' = obj
  PROVE  /\ Held(obj)' = Held(obj)
         /\ Unique(obj)' <=> Unique(obj)
         /\ Running(obj)' = Running(obj)
BY DEF Held, HeldOnce, Unique, Running

\* Nothing has been installed.
LEMMA InitInv == Init => IInv
<1>. SUFFICES ASSUME Init  PROVE IInv
  OBVIOUS
<1>. USE DEF Init, isu_sched_Init
<1>0. Args \in Seq(Algorithms) /\ Len(Args) \in Nat  BY ArgsAssumption, LenProperties
<1>1. TypeOK
  <2>1. <<>> \in Seq(Algorithms)  BY EmptySeq
  <2>. QED
    BY <1>0, <2>1, EmptyObjHolds, TasksAssumption, QuantumAssumption, MaxLengthAssumption,
       MaxGapAssumption DEF TypeOK, Tasks, Idle
<1>2. Conservation
  BY EmptyObjHolds DEF Conservation, Arrived
<1>3. Agreement /\ FaultPhase /\ RestPhase
  BY EmptyObjHolds DEF Agreement, FaultPhase, RestPhase, EmptyObj, Loop
<1>4. LoopPhase /\ Ended /\ Asked /\ finished \subseteq Arrived
  BY DEF LoopPhase, Ended, Asked, Loop
<1>5. Count  BY FS_EmptySet, TasksAssumption DEF Count
<1>6. Times  BY <1>1 DEF Times, TypeOK
<1>7. Slice  BY DEF Slice
<1>. QED  BY <1>1, <1>2, <1>3, <1>4, <1>5, <1>6, <1>7 DEF IInv

\* main installs the algorithms.
LEMMA InstallInv == IInv /\ Install => IInv'
<1>. SUFFICES ASSUME IInv, Install  PROVE IInv'
  OBVIOUS
<1>. USE DEF Install, sched_vars, task_vars, isu_sched_InstallAlgorithm
<1>0. Args \in Seq(Algorithms) /\ Len(Args) \in Nat  BY ArgsAssumption, LenProperties
<1>1. algorithm_list' \in Seq(Algorithms)
  <2>1. algorithm_list \in Seq(Algorithms) /\ Len(algorithm_list) \in Nat
    BY LenProperties DEF IInv, TypeOK
  <2>2. CASE Len(algorithm_list) < Len(Args)
    <3>1. Len(algorithm_list) + 1 \in 1 .. Len(Args)  BY <1>0, <2>1, <2>2
    <3>2. Args[Len(algorithm_list) + 1] \in Algorithms  BY <1>0, <3>1, ElementOfSeq
    <3>. QED  BY <2>1, <2>2, <3>2, AppendProperties
  <2>. QED  BY <2>1, <2>2
<1>2. pc' \in {"install", "main"}  OBVIOUS
<1>3. TypeOK'  BY <1>1, <1>2 DEF IInv, TypeOK
<1>4. /\ UNCHANGED <<obj, running_task, current_algorithm, task_vars, next_task, current_task,
                     new_task, remaining_tasks, finished, contended>>
      /\ pc \notin Loop /\ pc' \notin Loop
  BY <1>2 DEF Loop
<1>5. Conservation'
  BY <1>4, SameObj DEF IInv, Conservation, Arrived
<1>6. RestPhase' /\ FaultPhase'
  BY <1>4, SameObj DEF IInv, RestPhase, FaultPhase, Loop
<1>7. Agreement' /\ LoopPhase' /\ Ended' /\ Asked' /\ Slice' /\ Count'
  BY <1>4 DEF IInv, Agreement, LoopPhase, Ended, Asked, Slice, Count, Loop
<1>8. Times' /\ (finished \subseteq Arrived)'
  BY <1>4 DEF IInv, Times, Arrived, Loop
<1>. QED  BY <1>3, <1>5, <1>6, <1>7, <1>8 DEF IInv

\* main selects an algorithm and makes the tasks anew.
LEMMA StartRunInv == IInv /\ StartRun => IInv'
<1>. SUFFICES ASSUME IInv, StartRun  PROVE IInv'
  OBVIOUS
<1>. DEFINE a == Args[alg_index]
            old == IF current_algorithm = NoAlgorithm THEN <<>> ELSE stop(current_algorithm, obj)
<1>1. /\ current_algorithm' = a
      /\ obj' = start(a, old)
      /\ UNCHANGED <<algorithm_list, running_task, quantum_time>>
  BY DEF StartRun, isu_sched_SetAlgorithm
<1>2. a \in Algorithms /\ alg_index <= Len(Args)
  <2>1. Args \in Seq(Algorithms) /\ alg_index \in 1 .. Len(Args)
    BY ArgsAssumption, LenProperties DEF StartRun, IInv, TypeOK
  <2>. QED  BY <2>1, ElementOfSeq
<1>3. old = <<>>
  <2>1. Held(obj) = {} /\ obj \in AlgObjects /\ current_algorithm \in Algorithms \cup {NoAlgorithm}
    BY DEF IInv, RestPhase, TypeOK, StartRun, Loop
  <2>. QED  BY <2>1, StopEmpty
<1>. HIDE DEF a, old
<1>4. /\ obj' \in AlgObjects
      /\ Held(obj') = {}
      /\ obj'.running = Idle
      /\ ~obj'.fault
  <2>1. TaskFields  BY FieldsOK DEF IInv
  <2>. QED  BY <1>1, <1>2, <1>3, <2>1, StartEmpty
<1>5. Unique(obj') /\ Running(obj') = {}
  <2>1. HeldOnce(obj')
    <3>1. \A l \in Levels : \A i \in DOMAIN obj'.lists[l] : FALSE
      BY <1>4, HeldIff DEF Elems
    <3>. QED  BY <3>1 DEF HeldOnce
  <2>. QED  BY <2>1, <1>4 DEF Unique, Running
<1>6. running_task' = Idle
  BY <1>1 DEF IInv, RestPhase, Agreement, FaultPhase, StartRun, Loop
<1>7. /\ pc' = "charge"
      /\ remaining_time' = length
      /\ run_time' = [t \in Tasks |-> 0]
      /\ next_task' = 1
      /\ gap' = 0
      /\ current_task' = Idle
      /\ new_task' = Idle
      /\ remaining_tasks' = NumTasks
      /\ finished' = {}
      /\ contended' = 0
      /\ UNCHANGED <<priority, length, alg_index>>
  BY DEF StartRun
<1>8. TypeOK'
  <2>0. TypeOK  BY DEF IInv
  <2>1. remaining_time' \in [Tasks -> 0 .. MaxLength]
    <3>1. length \in [Tasks -> 1 .. MaxLength]  BY <2>0 DEF TypeOK
    <3>. QED  BY <3>1, <1>7
  <2>2. run_time' \in [Tasks -> 0 .. MaxLength]  BY <1>7, MaxLengthAssumption
  <2>3. /\ remaining_tasks' \in 0 .. NumTasks
        /\ next_task' \in 1 .. NumTasks + 1
        /\ gap' \in 0 .. MaxGap
        /\ contended' \in 0 .. MaxLength
    BY <1>7, TasksAssumption, MaxLengthAssumption, MaxGapAssumption
  <2>. QED  BY <1>1, <1>2, <1>4, <1>6, <1>7, <2>0, <2>1, <2>2, <2>3 DEF TypeOK
<1>9. Conservation'
  <2>1. Arrived' = {}  BY <1>7 DEF Arrived
  <2>. QED  BY <2>1, <1>4, <1>5, <1>7 DEF Conservation, Unique, HeldOnce, Held, Running
<1>10. /\ Agreement' /\ FaultPhase' /\ LoopPhase' /\ RestPhase' /\ Ended' /\ Asked' /\ Slice'
       /\ (finished \subseteq Arrived)'
  BY <1>1, <1>2, <1>4, <1>6, <1>7
  DEF Agreement, FaultPhase, LoopPhase, RestPhase, Ended, Asked, Slice, Loop, TaskDone
<1>11. Count'  BY <1>7, FS_EmptySet, TasksAssumption DEF Count
<1>12. Times'
  <2>1. \A t \in Tasks : length[t] \in 1 .. MaxLength  BY FieldsOK DEF IInv
  <2>2. \A t \in Tasks : run_time'[t] = 0  BY <1>7
  <2>. QED  BY <1>7, <2>1, <2>2 DEF Times
<1>. QED  BY <1>8, <1>9, <1>10, <1>11, <1>12 DEF IInv

\* A tick is charged to the task on the processor.
LEMMA ChargeInv == IInv /\ Charge => IInv'
<1>. SUFFICES ASSUME IInv, Charge  PROVE IInv'
  OBVIOUS
<1>. DEFINE c == current_task
<1>1. TypeOK /\ Times /\ Conservation /\ Agreement /\ ~obj.fault /\ pc = "charge" /\ pc' = "arrive"
  BY DEF IInv, FaultPhase, Charge
<1>2. /\ UNCHANGED <<priority, length, algorithm_list, current_algorithm, obj, running_task,
                     quantum_time, alg_index, next_task, gap, current_task, new_task,
                     remaining_tasks, finished, contended>>
  BY DEF Charge, sched_vars
<1>3. c = running_task /\ c = obj.running  BY <1>1 DEF Agreement
<1>4. ASSUME c # Idle
      PROVE  /\ c \in Tasks
             /\ c \notin finished
             /\ remaining_time[c] \in 1 .. MaxLength
             /\ run_time[c] + 1 \in 1 .. MaxLength
  <2>1. c \in Tasks  BY <1>1, <1>4 DEF TypeOK
  <2>2. c \notin finished  BY <1>1, <1>3, <1>4 DEF Conservation, Running
  <2>3. remaining_time[c] # 0  BY <1>1, <2>1, <2>2 DEF Times
  <2>4. remaining_time[c] + run_time[c] = length[c]  BY <1>1, <2>1 DEF Times
  <2>. QED  BY <1>1, <2>1, <2>2, <2>3, <2>4, FieldsOK, MaxLengthAssumption
<1>5. ASSUME NEW t \in Tasks
      PROVE  /\ remaining_time'[t] = IF t = c THEN remaining_time[t] - 1 ELSE remaining_time[t]
             /\ run_time'[t] = IF t = c THEN run_time[t] + 1 ELSE run_time[t]
  <2>0. DOMAIN remaining_time = Tasks /\ DOMAIN run_time = Tasks  BY <1>1 DEF TypeOK
  <2>1. CASE c = Idle  BY <2>1 DEF Charge, Tasks, Idle
  <2>2. CASE c # Idle  BY <2>0, <2>2, <1>4 DEF Charge
  <2>. QED  BY <2>1, <2>2
<1>6. remaining_time' \in [Tasks -> 0 .. MaxLength] /\ run_time' \in [Tasks -> 0 .. MaxLength]
  <2>1. CASE c = Idle  BY <1>1, <2>1 DEF Charge, TypeOK
  <2>2. CASE c # Idle
    <3>1. /\ remaining_time \in [Tasks -> 0 .. MaxLength]
          /\ run_time \in [Tasks -> 0 .. MaxLength]
      BY <1>1 DEF TypeOK
    <3>3. remaining_time[c] - 1 \in 0 .. MaxLength /\ run_time[c] + 1 \in 0 .. MaxLength
      BY <1>4, <2>2, MaxLengthAssumption
    <3>2. /\ remaining_time' = [remaining_time EXCEPT ![c] = remaining_time[c] - 1]
          /\ run_time' = [run_time EXCEPT ![c] = run_time[c] + 1]
      BY <2>2 DEF Charge
    <3>. QED  BY <3>1, <3>2, <3>3
  <2>. QED  BY <2>1, <2>2
<1>7. TypeOK'
  BY <1>1, <1>2, <1>6 DEF TypeOK
<1>8. Times'
  <2>. SUFFICES ASSUME NEW t \in Tasks
                PROVE  /\ remaining_time'[t] + run_time'[t] = length[t]
                       /\ t \in finished => remaining_time'[t] = 0
                       /\ remaining_time'[t] = 0 /\ t \notin finished => t = c
    BY <1>1, <1>2 DEF Times
  <2>1. /\ remaining_time[t] + run_time[t] = length[t]
        /\ t \in finished => remaining_time[t] = 0
        /\ t \notin finished => remaining_time[t] # 0
        /\ remaining_time[t] \in Int /\ run_time[t] \in Int /\ length[t] \in Int
    BY <1>1, FieldsOK DEF Times
  <2>2. CASE t = c
    BY <2>1, <2>2, <1>4, <1>5 DEF Tasks, Idle
  <2>3. CASE t # c  BY <2>1, <2>3, <1>5
  <2>. QED  BY <2>2, <2>3
<1>9. Conservation' /\ RestPhase' /\ FaultPhase'
  BY <1>1, <1>2, SameObj DEF Conservation, Arrived, RestPhase, FaultPhase, Loop
<1>10. Agreement' /\ Ended' /\ Asked'
  BY <1>1, <1>2, <1>3 DEF Agreement, Ended, Asked
<1>11. LoopPhase' /\ Count' /\ (finished \subseteq Arrived)'
  BY <1>1, <1>2 DEF IInv, LoopPhase, Count, Arrived, Loop
<1>12. Slice'
  <2>1. CASE c = Idle  BY <2>1, <1>2 DEF IInv, Slice
  <2>2. CASE c # Idle
    <3>1. contended <= run_time[c] /\ run_time'[c] = run_time[c] + 1
      BY <2>2, <1>4, <1>5 DEF IInv, Slice
    <3>2. contended \in Nat /\ run_time[c] \in Nat
      BY <1>1, <2>2, <1>4, FieldsOK DEF TypeOK
    <3>. QED  BY <3>1, <3>2, <2>2, <1>2 DEF Slice
  <2>. QED  BY <2>1, <2>2
<1>. QED  BY <1>7, <1>8, <1>9, <1>10, <1>11, <1>12 DEF IInv

\* No more tasks arrive in this tick.
LEMMA EndArrivalsInv == IInv /\ EndArrivals => IInv'
<1>. SUFFICES ASSUME IInv, EndArrivals  PROVE IInv'
  OBVIOUS
<1>1. /\ UNCHANGED <<remaining_time, run_time, priority, length, algorithm_list,
                     current_algorithm, obj, running_task, quantum_time, alg_index, next_task,
                     current_task, new_task, remaining_tasks, finished, contended>>
      /\ pc = "arrive" /\ pc' = "notify" /\ ~obj.fault
  BY DEF EndArrivals, task_vars, sched_vars
<1>2. gap' \in 0 .. MaxGap
  BY MaxGapAssumption DEF EndArrivals, IInv, TypeOK
<1>3. TypeOK'  BY <1>1, <1>2 DEF IInv, TypeOK
<1>4. Conservation' /\ RestPhase' /\ FaultPhase'
  BY <1>1, SameObj DEF IInv, Conservation, Arrived, RestPhase, FaultPhase, Loop
<1>5. Agreement' /\ Ended' /\ Asked'
  BY <1>1 DEF IInv, Agreement, Ended, Asked, TaskDone
<1>6. LoopPhase' /\ Count' /\ Slice' /\ (finished \subseteq Arrived)'
  BY <1>1 DEF IInv, LoopPhase, Count, Slice, Arrived, Loop
<1>7. Times'  BY <1>1 DEF IInv, Times
<1>. QED  BY <1>3, <1>4, <1>5, <1>6, <1>7 DEF IInv

\* The driver switches to the task the framework runs.
LEMMA SwitchInv == IInv /\ Switch => IInv'
<1>. SUFFICES ASSUME IInv, Switch  PROVE IInv'
  OBVIOUS
<1>1. /\ UNCHANGED <<remaining_time, run_time, priority, length, algorithm_list,
                     current_algorithm, obj, running_task, quantum_time, alg_index, next_task,
                     gap, new_task, remaining_tasks, finished>>
      /\ pc = "switch" /\ pc' = "charge" /\ ~obj.fault
      /\ current_task' = new_task
  BY DEF Switch, task_vars, sched_vars
<1>2. new_task = running_task /\ running_task = obj.running
  BY <1>1 DEF IInv, Asked, Agreement
<1>3. /\ current_task' = Idle => contended' = 0
      /\ current_task' # Idle => contended' \in 0 .. run_time[current_task']
  <2>1. /\ contended \in Nat
        /\ current_task # Idle => contended < run_time[current_task]
        /\ new_task # Idle => run_time[new_task] \in Nat
    BY <1>1, FieldsOK DEF IInv, TypeOK, Slice, Loop
  <2>2. CASE contended' = 0  BY <2>1, <2>2, <1>1
  <2>3. CASE contended' # 0
    <3>1. contended' = contended + 1 /\ new_task = current_task /\ current_task # Idle
      BY <2>3 DEF Switch
    <3>. QED  BY <3>1, <2>1, <1>1
  <2>. QED  BY <2>2, <2>3
<1>4. TypeOK'
  <2>1. contended' \in 0 .. MaxLength
    <3>1. current_task' # Idle => run_time[current_task'] \in 0 .. MaxLength
      BY <1>1, FieldsOK DEF IInv, TypeOK
    <3>. QED  BY <3>1, <1>3, MaxLengthAssumption
  <2>. QED  BY <1>1, <2>1 DEF IInv, TypeOK
<1>5. Conservation' /\ RestPhase' /\ FaultPhase'
  BY <1>1, SameObj DEF IInv, Conservation, Arrived, RestPhase, FaultPhase, Loop
<1>6. Agreement' /\ Ended' /\ Asked'
  BY <1>1, <1>2 DEF Agreement, Ended, Asked
<1>7. LoopPhase' /\ Count' /\ (finished \subseteq Arrived)'
  BY <1>1 DEF IInv, LoopPhase, Count, Arrived, Loop
<1>8. Slice'  BY <1>1, <1>3 DEF Slice
<1>9. Times'  BY <1>1 DEF IInv, Times
<1>. QED  BY <1>4, <1>5, <1>6, <1>7, <1>8, <1>9 DEF IInv

\* Every task has ended.
LEMMA EndRunInv == IInv /\ EndRun => IInv'
<1>. SUFFICES ASSUME IInv, EndRun  PROVE IInv'
  OBVIOUS
<1>1. /\ UNCHANGED <<remaining_time, run_time, priority, length, algorithm_list,
                     current_algorithm, obj, running_task, quantum_time, next_task, gap,
                     current_task, new_task, remaining_tasks, finished, contended>>
      /\ pc = "charge" /\ pc' = "main" /\ ~obj.fault
      /\ remaining_tasks = 0
      /\ alg_index' = alg_index + 1
  BY DEF EndRun, task_vars, sched_vars, IInv, FaultPhase
<1>2. finished = Tasks
  <2>0. finished \in SUBSET Tasks  BY DEF IInv, TypeOK
  <2>1. /\ finished \in SUBSET Tasks
        /\ Cardinality(finished) \in 0 .. NumTasks
        /\ remaining_tasks = NumTasks - Cardinality(finished)
    BY <2>0, TasksFinite DEF IInv, Count
  <2>2. Cardinality(finished) = NumTasks  BY <2>1, <1>1, TasksAssumption
  <2>. QED  BY <2>1, <2>2, TasksFinite
<1>3. Held(obj) = {} /\ obj.running = Idle
  <2>1. Arrived \subseteq Tasks  BY TasksAssumption DEF IInv, TypeOK, Arrived, Tasks
  <2>2. Held(obj) \cup Running(obj) = {}
    BY <2>1, <1>1, <1>2 DEF IInv, Conservation
  <2>. QED  BY <2>2 DEF Running
<1>4. TypeOK'
  <2>1. alg_index' \in 1 .. Len(Args) + 1
    BY <1>1, ArgsAssumption, LenProperties DEF IInv, LoopPhase, TypeOK, Loop
  <2>. QED  BY <1>1, <2>1 DEF IInv, TypeOK
<1>5. Conservation' /\ RestPhase' /\ FaultPhase'
  BY <1>1, <1>3, SameObj DEF IInv, Conservation, Arrived, RestPhase, FaultPhase
<1>6. Agreement' /\ Ended' /\ Asked' /\ LoopPhase' /\ Count' /\ Slice'
      /\ (finished \subseteq Arrived)'
  BY <1>1 DEF IInv, Agreement, Ended, Asked, LoopPhase, Count, Slice, Arrived, Loop
<1>7. Times'  BY <1>1 DEF IInv, Times
<1>. QED  BY <1>4, <1>5, <1>6, <1>7 DEF IInv

\* isu_sched_Destroy stops the last algorithm.
LEMMA DestroyInv == IInv /\ Destroy => IInv'
<1>. SUFFICES ASSUME IInv, Destroy  PROVE IInv'
  OBVIOUS
<1>1. /\ UNCHANGED <<remaining_time, run_time, priority, length, algorithm_list,
                     current_algorithm, running_task, quantum_time, alg_index, next_task, gap,
                     current_task, new_task, remaining_tasks, finished, contended>>
      /\ pc = "main" /\ pc' = "done" /\ obj' = EmptyObj
  BY DEF Destroy, task_vars
<1>2. Held(obj) = {} /\ obj.running = Idle /\ ~obj.fault /\ running_task = Idle
  BY <1>1 DEF IInv, RestPhase, FaultPhase, Agreement, Loop
<1>3. /\ Held(obj)' = {} /\ Running(obj)' = {} /\ Unique(obj)' /\ ~obj'.fault
      /\ obj'.running = Idle
  <2>1. Held(obj)' = Held(EmptyObj) /\ Running(obj)' = Running(EmptyObj)
        /\ (Unique(obj)' <=> Unique(EmptyObj))
    BY <1>1 DEF Held, Running, Unique, HeldOnce
  <2>. QED  BY <2>1, <1>1, EmptyObjHolds DEF EmptyObj
<1>4. TypeOK'  BY <1>1, EmptyObjHolds DEF IInv, TypeOK
<1>5. Conservation' /\ RestPhase' /\ FaultPhase'
  <2>1. Arrived \ finished = {}  BY <1>2 DEF IInv, Conservation, Running
  <2>. QED  BY <2>1, <1>1, <1>3 DEF Conservation, Arrived, RestPhase, FaultPhase
<1>6. Agreement' /\ Ended' /\ Asked' /\ LoopPhase' /\ Count' /\ Slice'
      /\ (finished \subseteq Arrived)'
  BY <1>1, <1>2, <1>3 DEF IInv, Agreement, Ended, Asked, LoopPhase, Count, Slice, Arrived, Loop
<1>7. Times'  BY <1>1 DEF IInv, Times
<1>. QED  BY <1>4, <1>5, <1>6, <1>7 DEF IInv

-----------------------------------------------------------------------------
(* The steps in which the scheduler chooses. *)

\* What the object of the next state holds.
LEMMA PrimeObj ==
  /\ Held(obj)' = Held(obj')
  /\ Unique(obj)' <=> Unique(obj')
  /\ Running(obj)' = Running(obj')
BY DEF Held, HeldOnce, Unique, Running

\* running_task = current_algorithm->get_next_task(obj, remove).
LEMMA GetNextStep ==
  ASSUME TypeOK, current_algorithm \in Algorithms,
         NEW o \in AlgObjects, NEW remove \in BOOLEAN, Unique(o), GetNext(o, remove)
  PROVE  /\ obj' \in AlgObjects
         /\ running_task' = obj'.running
         /\ running_task' \in Tasks \cup {Idle}
         /\ ~obj'.fault =>
              /\ Unique(obj')
              /\ Held(obj') \cup Running(obj')
                   = Held(o) \cup (IF remove THEN {} ELSE Running(o))
<1>1. PICK n \in get_next_task(current_algorithm, o, remove) :
        obj' = n /\ running_task' = n.running
  BY DEF GetNext
<1>2. n \in AlgObjects /\ (~n.fault => NextHolds(o, remove, n))
  BY FieldsOK, GetNextHolds
<1>3. n.running \in Tasks \cup {Idle}  BY <1>2 DEF AlgObjects
<1>. QED  BY <1>1, <1>2, <1>3 DEF NextHolds

\* A task that needs no more time is not preempted by an arrival.
LEMMA EndedKeepsRunning ==
  ASSUME TypeOK, NEW o \in AlgObjects, o.running # Idle, remaining_time[o.running] = 0,
         current_algorithm = "srtn", GetNext(o, FALSE), ~obj'.fault
  PROVE  running_task' = o.running
<1>1. PICK n \in srtn_get_next_task(o, FALSE) : obj' = n /\ running_task' = n.running
  BY DEF GetNext, get_next_task
<1>2. o.lists[0] # <<>>
  <2>1. SUFFICES ASSUME o.lists[0] = <<>>  PROVE FALSE  OBVIOUS
  <2>2. n = [o EXCEPT !.fault = TRUE]  BY <2>1 DEF srtn_get_next_task
  <2>. QED  BY <2>2, <1>1 DEF AlgObjects
<1>3. remaining_time[Head(o.lists[0])] \in Nat
  <2>1. 0 \in Levels  BY PrioritiesAssumption DEF Levels
  <2>2. o.lists[0] \in Seq(Tasks)  BY <2>1 DEF AlgObjects
  <2>3. Head(o.lists[0]) \in Tasks  BY <2>2, <1>2, HeadTailProperties
  <2>. QED  BY <2>3, FieldsOK
<1>4. n = o  BY <1>2, <1>3 DEF srtn_get_next_task
<1>. QED  BY <1>1, <1>4

\* A task arrives, and the algorithm may preempt for it.
LEMMA ArriveInv == IInv /\ Arrive => IInv'
<1>. SUFFICES ASSUME IInv, Arrive  PROVE IInv'
  OBVIOUS
<1>. DEFINE t == next_task
            added == add_task(current_algorithm, obj, t)
            wake == is_premptive(current_algorithm) \/ running_task = Idle
<1>1. /\ TypeOK /\ Conservation /\ Agreement /\ ~obj.fault
      /\ pc = "arrive" /\ pc' = "arrive"
      /\ current_algorithm \in Algorithms /\ obj \in AlgObjects
  BY DEF Arrive, IInv, LoopPhase, Loop, TypeOK
<1>2. /\ UNCHANGED <<remaining_time, run_time, priority, length, algorithm_list,
                     current_algorithm, alg_index, current_task, remaining_tasks, finished,
                     contended>>
      /\ new_task' = running_task' /\ next_task' = t + 1 /\ gap' = 0
  BY DEF Arrive, isu_sched_OnTaskArrive, task_vars
<1>3. t \in Tasks /\ t \notin Arrived /\ Arrived' = Arrived \cup {t} /\ t \notin finished
  <2>1. t \in 1 .. NumTasks
    <3>1. t \in 1 .. NumTasks + 1 /\ t <= NumTasks  BY <1>1 DEF Arrive, TypeOK
    <3>. QED  BY <3>1, TasksAssumption
  <2>. QED  BY <2>1, <1>2, TasksAssumption DEF IInv, Arrived, Tasks
<1>4. /\ added \in AlgObjects
      /\ Held(added) = Held(obj) \cup {t}
      /\ HeldOnce(obj) /\ t \notin Held(obj) => HeldOnce(added)
      /\ added.running = obj.running
      /\ added.fault = obj.fault
  BY <1>1, <1>3, FieldsOK, AddHolds
<1>5. /\ wake => GetNext(added, FALSE) /\ quantum_time' \in {-1, quantum_time}
      /\ ~wake => obj' = added /\ UNCHANGED <<running_task, quantum_time>>
  BY DEF Arrive, isu_sched_OnTaskArrive
<1>. HIDE DEF added
<1>6. /\ Unique(added)
      /\ Held(added) \cup Running(added) = Arrived' \ finished
  <2>1. Unique(obj) /\ Held(obj) \cup Running(obj) = Arrived \ finished
    BY <1>1 DEF Conservation
  <2>2. Running(added) = Running(obj)  BY <1>4 DEF Running
  <2>3. t \notin Held(obj) /\ t # obj.running
    BY <2>1, <1>3 DEF Running, Tasks, Idle
  <2>. QED  BY <2>1, <2>2, <2>3, <1>3, <1>4 DEF Unique
<1>7. /\ obj' \in AlgObjects
      /\ running_task' \in Tasks \cup {Idle}
      /\ running_task' = obj'.running
      /\ ~obj'.fault => Unique(obj') /\ Held(obj') \cup Running(obj') = Arrived' \ finished
  <2>1. CASE wake
    <3>1. /\ obj' \in AlgObjects
          /\ running_task' = obj'.running
          /\ running_task' \in Tasks \cup {Idle}
          /\ ~obj'.fault => /\ Unique(obj')
                            /\ Held(obj') \cup Running(obj') = Held(added) \cup Running(added)
      BY <2>1, <1>1, <1>4, <1>5, <1>6, GetNextStep
    <3>. QED  BY <3>1, <1>6
  <2>2. CASE ~wake
    BY <2>2, <1>1, <1>4, <1>5, <1>6 DEF Agreement, TypeOK
  <2>. QED  BY <2>1, <2>2
<1>8. TypeOK'
  <2>1. quantum_time' \in -1 .. Quantum - 1
    <3>1. quantum_time' \in {-1, quantum_time}  BY <1>5
    <3>2. quantum_time \in -1 .. Quantum - 1  BY <1>1 DEF TypeOK
    <3>. QED  BY <3>1, <3>2, QuantumAssumption
  <2>2. next_task' \in 1 .. NumTasks + 1 /\ gap' \in 0 .. MaxGap
    BY <1>2, <1>3, TasksAssumption, MaxGapAssumption DEF Tasks
  <2>. QED  BY <1>1, <1>2, <1>7, <2>1, <2>2 DEF TypeOK
<1>9. Conservation'  BY <1>2, <1>7, PrimeObj DEF Conservation
<1>10. Agreement' /\ FaultPhase' /\ RestPhase' /\ Asked' /\ LoopPhase' /\ Count' /\ Slice'
       /\ (finished \subseteq Arrived)'
  BY <1>1, <1>2, <1>3, <1>7
  DEF IInv, Agreement, FaultPhase, RestPhase, Asked, LoopPhase, Count, Slice, Loop
<1>11. Times'  BY <1>1, <1>2 DEF IInv, Times
<1>12. Ended'
  <2>. SUFFICES ASSUME TaskDone, ~obj'.fault  PROVE running_task' = current_task
    BY <1>2 DEF Ended, TaskDone
  <2>1. /\ running_task = current_task /\ running_task = obj.running
        /\ running_task # Idle /\ remaining_time[running_task] = 0
    BY <1>1 DEF IInv, Ended, Agreement, TaskDone
  <2>2. CASE wake
    <3>1. current_algorithm = "srtn"  BY <2>1, <2>2 DEF is_premptive
    <3>. QED  BY <3>1, <2>1, <2>2, <1>1, <1>4, <1>5, EndedKeepsRunning
  <2>3. CASE ~wake  BY <2>1, <2>3, <1>5
  <2>. QED  BY <2>2, <2>3
<1>. QED  BY <1>8, <1>9, <1>10, <1>11, <1>12 DEF IInv

\* The framework is told that the task ended.
LEMMA NotifyEndInv == IInv /\ NotifyEnd => IInv'
<1>. SUFFICES ASSUME IInv, NotifyEnd  PROVE IInv'
  OBVIOUS
<1>. DEFINE c == current_task
<1>1. /\ TypeOK /\ Conservation /\ Agreement /\ ~obj.fault
      /\ pc = "notify" /\ pc' = "switch" /\ TaskDone
      /\ current_algorithm \in Algorithms /\ obj \in AlgObjects
      /\ Unique(obj) /\ Held(obj) \cup Running(obj) = Arrived \ finished
  BY DEF NotifyEnd, IInv, LoopPhase, FaultPhase, Loop, TypeOK, Conservation
<1>2. /\ UNCHANGED <<remaining_time, run_time, priority, length, algorithm_list,
                     current_algorithm, alg_index, next_task, gap, current_task, contended>>
      /\ GetNext(obj, TRUE)
      /\ quantum_time' \in {0, quantum_time}
      /\ new_task' = running_task'
      /\ finished' = finished \cup {c}
      /\ remaining_tasks' = remaining_tasks - 1
  BY DEF NotifyEnd, isu_sched_OnTaskEnd, task_vars
<1>3. c = obj.running /\ c \in Tasks /\ remaining_time[c] = 0 /\ Running(obj) = {c}
  BY <1>1 DEF Agreement, TaskDone, TypeOK, Running
<1>4. c \notin finished /\ c \in Arrived /\ Held(obj) = Arrived \ finished'
  BY <1>1, <1>2, <1>3 DEF Unique
<1>5. /\ obj' \in AlgObjects
      /\ running_task' = obj'.running
      /\ running_task' \in Tasks \cup {Idle}
      /\ ~obj'.fault => Unique(obj') /\ Held(obj') \cup Running(obj') = Arrived \ finished'
  <2>1. /\ obj' \in AlgObjects
        /\ running_task' = obj'.running
        /\ running_task' \in Tasks \cup {Idle}
        /\ ~obj'.fault => Unique(obj') /\ Held(obj') \cup Running(obj') = Held(obj) \cup {}
    BY <1>1, <1>2, GetNextStep
  <2>. QED  BY <2>1, <1>4
<1>6. Count' /\ remaining_tasks' \in 0 .. NumTasks
  <2>0. finished \in SUBSET Tasks /\ finished' \in SUBSET Tasks  BY <1>1, <1>2, <1>3 DEF TypeOK
  <2>1. IsFiniteSet(finished) /\ Cardinality(finished) \in 0 .. NumTasks
        /\ Cardinality(finished') \in 0 .. NumTasks
    BY <2>0, TasksFinite
  <2>2. Cardinality(finished') = Cardinality(finished) + 1
    BY <2>1, <1>2, <1>4, FS_AddElement
  <2>. QED  BY <2>1, <2>2, <1>2, TasksAssumption DEF IInv, Count
<1>7. TypeOK'
  <2>1. quantum_time' \in -1 .. Quantum - 1
    BY <1>1, <1>2, QuantumAssumption DEF TypeOK
  <2>. QED  BY <1>1, <1>2, <1>3, <1>5, <1>6, <2>1 DEF TypeOK
<1>8. Conservation'  BY <1>2, <1>5, PrimeObj DEF Conservation, Arrived
<1>9. Agreement' /\ FaultPhase' /\ RestPhase' /\ Asked' /\ LoopPhase' /\ Slice' /\ Ended'
  BY <1>1, <1>2, <1>5
  DEF IInv, Agreement, FaultPhase, RestPhase, Asked, LoopPhase, Slice, Ended, Loop
<1>10. Times' /\ (finished \subseteq Arrived)'
  BY <1>1, <1>2, <1>3, <1>4 DEF IInv, Times, Arrived
<1>. QED  BY <1>6, <1>7, <1>8, <1>9, <1>10 DEF IInv

\* The framework is told of the tick, and its timer may expire.
LEMMA NotifyTickInv == IInv /\ NotifyTick => IInv'
<1>. SUFFICES ASSUME IInv, NotifyTick  PROVE IInv'
  OBVIOUS
<1>1. /\ TypeOK /\ Conservation /\ Agreement /\ ~obj.fault
      /\ pc = "notify" /\ pc' = "switch" /\ ~TaskDone
      /\ current_algorithm \in Algorithms /\ obj \in AlgObjects
      /\ Unique(obj) /\ Held(obj) \cup Running(obj) = Arrived \ finished
  BY DEF NotifyTick, IInv, LoopPhase, FaultPhase, Loop, TypeOK, Conservation
<1>2. /\ UNCHANGED <<remaining_time, run_time, priority, length, algorithm_list,
                     current_algorithm, alg_index, next_task, gap, current_task,
                     remaining_tasks, finished, contended>>
      /\ new_task' = running_task'
  BY DEF NotifyTick, isu_sched_OnTick, task_vars
<1>3. /\ GetNext(obj, FALSE) \/ UNCHANGED <<obj, running_task>>
      /\ quantum_time' = quantum_time \/ quantum_time' = (quantum_time + 1) % Quantum
  BY DEF NotifyTick, isu_sched_OnTick
<1>4. /\ obj' \in AlgObjects
      /\ running_task' = obj'.running
      /\ running_task' \in Tasks \cup {Idle}
      /\ ~obj'.fault => Unique(obj') /\ Held(obj') \cup Running(obj') = Arrived \ finished
  <2>1. CASE GetNext(obj, FALSE)
    <3>1. /\ obj' \in AlgObjects
          /\ running_task' = obj'.running
          /\ running_task' \in Tasks \cup {Idle}
          /\ ~obj'.fault => /\ Unique(obj')
                            /\ Held(obj') \cup Running(obj') = Held(obj) \cup Running(obj)
      BY <2>1, <1>1, GetNextStep
    <3>. QED  BY <3>1, <1>1
  <2>2. CASE UNCHANGED <<obj, running_task>>
    BY <2>2, <1>1 DEF Agreement, TypeOK
  <2>. QED  BY <2>1, <2>2, <1>3
<1>5. TypeOK'
  <2>1. quantum_time' \in -1 .. Quantum - 1
    <3>1. quantum_time \in -1 .. Quantum - 1 /\ quantum_time + 1 \in Nat
      BY <1>1, QuantumAssumption DEF TypeOK
    <3>2. (quantum_time + 1) % Quantum \in 0 .. Quantum - 1
      BY <3>1, QuantumAssumption
    <3>. QED  BY <3>1, <3>2, <1>3, QuantumAssumption
  <2>. QED  BY <1>1, <1>2, <1>4, <2>1 DEF TypeOK
<1>6. Conservation'  BY <1>2, <1>4, PrimeObj DEF Conservation, Arrived
<1>7. Agreement' /\ FaultPhase' /\ RestPhase' /\ Asked' /\ LoopPhase' /\ Slice' /\ Ended'
      /\ Count' /\ (finished \subseteq Arrived)'
  BY <1>1, <1>2, <1>4
  DEF IInv, Agreement, FaultPhase, RestPhase, Asked, LoopPhase, Slice, Ended, Loop, Count, Arrived
<1>8. Times'
  <2>1. \A t \in Tasks : t # Idle  BY DEF Tasks, Idle
  <2>. QED  BY <2>1, <1>1, <1>2 DEF IInv, Times, TaskDone
<1>. QED  BY <1>5, <1>6, <1>7, <1>8 DEF IInv

-----------------------------------------------------------------------------
\* The invariant is inductive.
LEMMA NextInv == IInv /\ [Next]_vars => IInv'
<1>. SUFFICES ASSUME IInv, [Next]_vars  PROVE IInv'
  OBVIOUS
<1>1. CASE UNCHANGED vars
  <2>1. UNCHANGED <<remaining_time, run_time, priority, length, algorithm_list,
                    current_algorithm, obj, running_task, quantum_time, pc, alg_index,
                    next_task, gap, current_task, new_task, remaining_tasks, finished,
                    contended>>
    BY <1>1 DEF vars, sched_vars
  <2>2. TypeOK'  BY <2>1 DEF IInv, TypeOK
  <2>3. Conservation' /\ RestPhase' /\ FaultPhase'
    BY <2>1, SameObj DEF IInv, Conservation, Arrived, RestPhase, FaultPhase
  <2>4. Agreement' /\ Ended' /\ Asked' /\ LoopPhase' /\ Count' /\ Slice'
        /\ (finished \subseteq Arrived)'
    BY <2>1 DEF IInv, Agreement, Ended, Asked, LoopPhase, Count, Slice, Arrived, TaskDone
  <2>5. Times'  BY <2>1 DEF IInv, Times
  <2>. QED  BY <2>2, <2>3, <2>4, <2>5 DEF IInv
<1>2. CASE Next
  BY <1>2, InstallInv, StartRunInv, ChargeInv, ArriveInv, EndArrivalsInv, NotifyEndInv,
     NotifyTickInv, SwitchInv, EndRunInv, DestroyInv DEF Next
<1>. QED  BY <1>1, <1>2

\* The inductive invariant holds in every state of the simulation.
THEOREM Invariant == Spec => []IInv
BY InitInv, NextInv, PTL DEF Spec

\* Every variable keeps its type: a task never runs past its length, and the
\* count of remaining tasks reaches zero exactly when all have finished.
THEOREM TypeCorrect == Spec => []TypeOK
<1>1. IInv => TypeOK  BY DEF IInv
<1>. QED  BY <1>1, Invariant, PTL

\* No algorithm, and no step of the framework or the driver, loses or doubles a
\* task.
THEOREM NoTaskLost == Spec => []Conservation
<1>1. IInv => Conservation  BY DEF IInv
<1>. QED  BY <1>1, Invariant, PTL

\* The framework, the algorithm and the driver agree on the running task, and
\* OnTaskEnd is called for the task that ended.
THEOREM RunningTaskAgrees == Spec => []Agreement
<1>1. IInv => Agreement  BY DEF IInv
<1>. QED  BY <1>1, Invariant, PTL

-----------------------------------------------------------------------------
(* What the policies rest on. *)

\* srtn's list is in order of remaining time.
Sorted(s) == \A i, j \in DOMAIN s : i <= j => remaining_time[s[i]] <= remaining_time[s[j]]

\* fcfs, rr and srtn use the first list only.
OneLevel(o) == \A l \in Levels \ {0} : o.lists[l] = <<>>

\* prr files each task under its priority.
OwnLevel(o) == \A l \in Levels : \A t \in Elems(o.lists[l]) : priority[t] = l

\* The ready tasks are filed where the methods of algorithm a look for them.
Filed(a, o) ==
  /\ a # "prr" => OneLevel(o)
  /\ a = "prr" => OwnLevel(o)
  /\ a = "srtn" => Sorted(o.lists[0])

-----------------------------------------------------------------------------
(* The ready lists. *)

\* An object that holds nothing has empty lists.
LEMMA NoneHeld ==
  ASSUME NEW o \in AlgObjects
  PROVE  Held(o) = {} <=> \A l \in Levels : o.lists[l] = <<>>
<1>1. ASSUME Held(o) = {}, NEW l \in Levels  PROVE o.lists[l] = <<>>
  <2>1. o.lists[l] \in Seq(Tasks)  BY DEF AlgObjects
  <2>2. SUFFICES ASSUME o.lists[l] # <<>>  PROVE FALSE  OBVIOUS
  <2>3. 1 \in DOMAIN o.lists[l]  BY <2>1, <2>2, LenProperties, EmptySeq
  <2>4. o.lists[l][1] \in Elems(o.lists[l])  BY <2>3 DEF Elems
  <2>. QED  BY <2>4, <1>1, HeldIff
<1>2. ASSUME \A l \in Levels : o.lists[l] = <<>>  PROVE Held(o) = {}
  BY <1>2 DEF Held
<1>. QED  BY <1>1, <1>2

\* With one list in use a held task is in it.
LEMMA HeldInFirst ==
  ASSUME NEW o \in AlgObjects, OneLevel(o)
  PROVE  /\ o.lists[0] \in Seq(Tasks)
         /\ Held(o) = Elems(o.lists[0])
<1>0. 0 \in Levels  BY PrioritiesAssumption DEF Levels
<1>1. \A l \in Levels \ {0} : Elems(o.lists[l]) = {}  BY DEF OneLevel, Elems
<1>2. Held(o) = Elems(o.lists[0])
  <2>1. ASSUME NEW t \in Held(o)  PROVE t \in Elems(o.lists[0])
    <3>1. PICK l \in Levels : t \in Elems(o.lists[l])  BY HeldIff
    <3>. QED  BY <3>1, <1>1
  <2>2. ASSUME NEW t \in Elems(o.lists[0])  PROVE t \in Held(o)
    BY <1>0, HeldIff
  <2>. QED  BY <2>1, <2>2
<1>. QED  BY <1>0, <1>2 DEF AlgObjects

\* What RunHead does to the lists and to the running task.
LEMMA RunHeadIs ==
  ASSUME NEW o \in AlgObjects, NEW l \in Levels
  PROVE  LET n == RunHead(o, l)
         IN  /\ \A k \in Levels \ {l} : n.lists[k] = o.lists[k]
             /\ o.lists[l] = <<>> => n.lists[l] = <<>> /\ n.running = Idle
             /\ o.lists[l] # <<>> => /\ n.lists[l] = Tail(o.lists[l])
                                     /\ n.running = Head(o.lists[l])
                                     /\ n.running \in Tasks
<1>. DEFINE s == o.lists[l]
<1>0. s \in Seq(Tasks)  BY DEF AlgObjects
<1>1. CASE s = <<>>  BY <1>1 DEF RunHead, AlgObjects
<1>2. CASE s # <<>>
  <2>1. Head(s) \in Tasks  BY <1>0, <1>2, TailElems
  <2>. QED  BY <1>2, <2>1 DEF RunHead, AlgObjects
<1>. QED  BY <1>1, <1>2

\* What PushTail does to the lists.
LEMMA PushTailIs ==
  ASSUME NEW o \in AlgObjects, NEW l \in Levels, NEW t \in Tasks
  PROVE  LET n == PushTail(o, l, t)
         IN  /\ \A k \in Levels \ {l} : n.lists[k] = o.lists[k]
             /\ n.lists[l] = Append(o.lists[l], t)
             /\ n.lists[l] # <<>>
             /\ Elems(n.lists[l]) = Elems(o.lists[l]) \cup {t}
<1>0. o.lists[l] \in Seq(Tasks)  BY DEF AlgObjects
<1>. DEFINE s == Append(o.lists[l], t)
<1>1. /\ \A k \in Levels \ {l} : PushTail(o, l, t).lists[k] = o.lists[k]
      /\ PushTail(o, l, t).lists[l] = s
  BY DEF PushTail, AlgObjects
<1>2. Elems(s) = Elems(o.lists[l]) \cup {t}  BY <1>0, AppendElems
<1>3. s # <<>>  BY <1>0, AppendProperties
<1>. QED  BY <1>1, <1>2, <1>3

-----------------------------------------------------------------------------
(* Sorted lists. *)

\* srtn_add_task keeps the list sorted.
LEMMA InsertKeepsSorted ==
  ASSUME NEW s \in Seq(Tasks), NEW t \in Tasks, TaskFields, Sorted(s)
  PROVE  Sorted(InsertSorted(s, t)) /\ InsertSorted(s, t) # <<>>
<1>. DEFINE k == InsertPos(s, t)
            n == SubSeq(s, 1, k - 1) \o <<t>> \o SubSeq(s, k, Len(s))
<1>1. /\ k \in 1 .. Len(s) + 1
      /\ \A i \in 1 .. k - 1 : remaining_time[s[i]] <= remaining_time[t]
      /\ k <= Len(s) => remaining_time[t] < remaining_time[s[k]]
  BY InsertPosIs
<1>2. n = InsertSorted(s, t)  BY DEF InsertSorted
<1>. HIDE DEF k
<1>3. /\ n \in Seq(Tasks)
      /\ Len(n) = Len(s) + 1
      /\ \A i \in 1 .. k - 1 : n[i] = s[i]
      /\ n[k] = t
      /\ \A i \in k .. Len(s) : n[i + 1] = s[i]
  BY <1>1, InsertedAt
<1>4. DOMAIN n = 1 .. Len(s) + 1 /\ DOMAIN s = 1 .. Len(s) /\ Len(s) \in Nat
  BY <1>3, LenProperties
<1>. HIDE DEF n
<1>5. /\ \A i \in 1 .. Len(s) : remaining_time[s[i]] \in Int
      /\ remaining_time[t] \in Int
  BY ElementOfSeq, LenProperties DEF TaskFields
<1>6. \A i, j \in 1 .. Len(s) : i <= j => remaining_time[s[i]] <= remaining_time[s[j]]
  BY <1>4 DEF Sorted
<1>7. \A i \in k .. Len(s) : remaining_time[t] <= remaining_time[s[i]]
  <2>. TAKE i \in k .. Len(s)
  <2>1. k \in 1 .. Len(s) /\ i \in 1 .. Len(s) /\ k <= i  BY <1>1, <1>4
  <2>2. remaining_time[s[k]] <= remaining_time[s[i]]  BY <2>1, <1>6
  <2>. QED  BY <2>1, <2>2, <1>1, <1>5
<1>8. ASSUME NEW i \in 1 .. Len(s) + 1, NEW j \in 1 .. Len(s) + 1, i <= j
      PROVE  remaining_time[n[i]] <= remaining_time[n[j]]
  <2>0. \A x \in 1 .. Len(s) + 1 : \/ x < k /\ x \in 1 .. k - 1 /\ x \in 1 .. Len(s)
                                     /\ n[x] = s[x]
                                   \/ x = k /\ n[x] = t
                                   \/ x > k /\ x - 1 \in k .. Len(s) /\ x - 1 \in 1 .. Len(s)
                                      /\ n[x] = s[x - 1]
    <3>. TAKE x \in 1 .. Len(s) + 1
    <3>1. CASE x < k  BY <3>1, <1>1, <1>3, <1>4
    <3>2. CASE x = k  BY <3>2, <1>3
    <3>3. CASE x > k
      <4>1. x - 1 \in k .. Len(s) /\ (x - 1) + 1 = x /\ x - 1 \in 1 .. Len(s)
        BY <3>3, <1>1, <1>4
      <4>. QED  BY <4>1, <3>3, <1>3
    <3>. QED  BY <3>1, <3>2, <3>3, <1>1, <1>4
  <2>1. CASE i < k /\ j < k
    <3>1. i \in 1 .. Len(s) /\ n[i] = s[i]  BY <2>0, <2>1, <1>1, <1>4
    <3>2. j \in 1 .. Len(s) /\ n[j] = s[j]  BY <2>0, <2>1, <1>1, <1>4
    <3>. QED  BY <3>1, <3>2, <1>6, <1>8
  <2>2. CASE i < k /\ j = k  BY <2>2, <2>0, <1>1
  <2>3. CASE i < k /\ j > k
    <3>1. i <= j - 1  BY <2>3, <1>1, <1>4
    <3>2. i \in 1 .. Len(s) /\ n[i] = s[i]  BY <2>0, <2>3, <1>1, <1>4
    <3>3. j - 1 \in 1 .. Len(s) /\ n[j] = s[j - 1]  BY <2>0, <2>3, <1>1, <1>4
    <3>. QED  BY <3>1, <3>2, <3>3, <1>6
  <2>4. CASE i = k /\ j = k  BY <2>4, <1>3, <1>5
  <2>5. CASE i = k /\ j > k  BY <2>5, <2>0, <1>7
  <2>6. CASE i > k /\ j > k
    <3>1. i - 1 <= j - 1  BY <1>8
    <3>. QED  BY <3>1, <2>0, <2>6, <1>6
  <2>7. /\ i < k \/ i = k \/ i > k
        /\ j < k \/ j = k \/ j > k
        /\ i = k => j >= k
        /\ i > k => j > k
    BY <1>1, <1>4, <1>8
  <2>. QED  BY <2>1, <2>2, <2>3, <2>4, <2>5, <2>6, <2>7, <1>1
<1>9. n # <<>>  BY <1>3, <1>4, LenProperties
<1>. QED  BY <1>2, <1>4, <1>8, <1>9 DEF Sorted

\* The head of a sorted list needs no more time than the rest, and the rest is
\* sorted.
LEMMA TailSorted ==
  ASSUME NEW s \in Seq(Tasks), s # <<>>, Sorted(s)
  PROVE  /\ Sorted(Tail(s))
         /\ \A t \in Elems(s) : remaining_time[Head(s)] <= remaining_time[t]
<1>. DEFINE n == Tail(s)
<1>1. /\ Len(s) \in Nat \ {0}
      /\ DOMAIN n = 1 .. Len(s) - 1
      /\ DOMAIN s = 1 .. Len(s)
      /\ \A i \in 1 .. Len(s) - 1 : n[i] = s[i + 1]
      /\ Head(s) = s[1]
  BY HeadTailProperties, LenProperties, EmptySeq
<1>2. ASSUME NEW i \in DOMAIN n, NEW j \in DOMAIN n, i <= j
      PROVE  remaining_time[n[i]] <= remaining_time[n[j]]
  <2>1. i + 1 \in DOMAIN s /\ j + 1 \in DOMAIN s /\ i + 1 <= j + 1  BY <1>1, <1>2
  <2>. QED  BY <2>1, <1>1 DEF Sorted
<1>3. ASSUME NEW i \in DOMAIN s  PROVE remaining_time[s[1]] <= remaining_time[s[i]]
  BY <1>1, 1 \in DOMAIN s, 1 <= i DEF Sorted
<1>. QED  BY <1>1, <1>2, <1>3 DEF Sorted, Elems

-----------------------------------------------------------------------------
(* The class methods file the tasks where they look for them. *)

\* current_algorithm->add_task: the new task is filed, and the first list of the
\* algorithms that use one has it.
LEMMA AddFiled ==
  ASSUME NEW a \in Algorithms, NEW o \in AlgObjects, NEW t \in Tasks, TaskFields, Filed(a, o)
  PROVE  LET n == add_task(a, o, t)
         IN  Filed(a, n) /\ (a # "prr" => n.lists[0] # <<>>)
<1>0. 0 \in Levels  BY PrioritiesAssumption DEF Levels
<1>1. CASE a \in {"fcfs", "rr"}
  <2>. DEFINE n == PushTail(o, 0, t)
  <2>1. add_task(a, o, t) = n  BY <1>1 DEF add_task, fcfs_add_task, rr_add_task
  <2>2. (\A k \in Levels \ {0} : n.lists[k] = o.lists[k]) /\ n.lists[0] # <<>>
    BY <1>0, PushTailIs
  <2>. HIDE DEF n
  <2>. QED  BY <1>1, <2>1, <2>2 DEF Filed, OneLevel
<1>2. CASE a = "srtn"
  <2>. DEFINE n == srtn_add_task(o, t)
              s == o.lists[0]
  <2>1. add_task(a, o, t) = n  BY <1>2 DEF add_task
  <2>2. /\ n.lists[0] = InsertSorted(s, t)
        /\ \A k \in Levels \ {0} : n.lists[k] = o.lists[k]
    BY <1>0 DEF srtn_add_task, AlgObjects
  <2>3. s \in Seq(Tasks) /\ Sorted(s)  BY <1>0, <1>2 DEF AlgObjects, Filed
  <2>4. Sorted(n.lists[0]) /\ n.lists[0] # <<>>  BY <2>2, <2>3, InsertKeepsSorted
  <2>. HIDE DEF n
  <2>. QED  BY <1>2, <2>1, <2>2, <2>4 DEF Filed, OneLevel
<1>3. CASE a = "prr"
  <2>2. PICK l \in Levels : l = priority[t]  BY DEF TaskFields
  <2>. DEFINE n == PushTail(o, l, t)
  <2>1. add_task(a, o, t) = n  BY <1>3, <2>2 DEF add_task, prr_add_task
  <2>3. /\ \A k \in Levels \ {l} : n.lists[k] = o.lists[k]
        /\ Elems(n.lists[l]) = Elems(o.lists[l]) \cup {t}
    BY PushTailIs
  <2>. HIDE DEF n
  <2>4. OwnLevel(n)  BY <1>3, <2>2, <2>3 DEF Filed, OwnLevel
  <2>. QED  BY <1>3, <2>1, <2>4 DEF Filed
<1>. QED  BY <1>1, <1>2, <1>3 DEF Algorithms

\* Popping the head of a list.
LEMMA RunHeadFiled ==
  ASSUME NEW a \in Algorithms, NEW o \in AlgObjects, NEW l \in Levels, Filed(a, o)
  PROVE  Filed(a, RunHead(o, l))
<1>. DEFINE n == RunHead(o, l)
            s == o.lists[l]
<1>0. s \in Seq(Tasks)  BY DEF AlgObjects
<1>1. CASE s = <<>>
  <2>1. \A k \in Levels : n.lists[k] = o.lists[k]  BY <1>1, RunHeadIs
  <2>2. 0 \in Levels  BY PrioritiesAssumption DEF Levels
  <2>. HIDE DEF n
  <2>3. n.lists[0] = o.lists[0]  BY <2>1, <2>2
  <2>4. Filed(a, n)  BY <2>1, <2>3 DEF Filed, OneLevel, OwnLevel
  <2>. QED  BY <2>4 DEF n
<1>2. CASE s # <<>>
  <2>1. /\ \A k \in Levels \ {l} : n.lists[k] = o.lists[k]
        /\ n.lists[l] = Tail(s)
    BY <1>2, RunHeadIs
  <2>2. Elems(Tail(s)) \subseteq Elems(s)  BY <1>0, <1>2, TailElems
  <2>3. 0 \in Levels  BY PrioritiesAssumption DEF Levels
  <2>. HIDE DEF n
  <2>4. ASSUME a # "prr"  PROVE OneLevel(n) /\ l = 0
    <3>1. OneLevel(o)  BY <2>4 DEF Filed
    <3>2. l = 0  BY <3>1, <1>2 DEF OneLevel
    <3>. QED  BY <3>1, <3>2, <2>1 DEF OneLevel
  <2>5. ASSUME a = "prr"  PROVE OwnLevel(n)
    <3>1. OwnLevel(o)  BY <2>5 DEF Filed
    <3>. QED  BY <3>1, <2>1, <2>2 DEF OwnLevel
  <2>6. ASSUME a = "srtn"  PROVE Sorted(n.lists[0])
    <3>1. l = 0 /\ Sorted(s)  BY <2>6, <2>4 DEF Filed
    <3>. QED  BY <3>1, <1>0, <1>2, <2>1, TailSorted
  <2>7. Filed(a, n)  BY <2>4, <2>5, <2>6 DEF Filed
  <2>. QED  BY <2>7 DEF n
<1>. QED  BY <1>1, <1>2

\* The running task may change, or the fault be recorded: the lists do not.
LEMMA SameLists ==
  ASSUME NEW a, NEW o, NEW n, n.lists = o.lists, Filed(a, o)
  PROVE  Filed(a, n)
BY DEF Filed, OneLevel, OwnLevel

\* How prr chooses: it faults with all lists empty, or serves the first list
\* that has a task.
LEMMA RunHighestServes ==
  ASSUME NEW o \in AlgObjects, NEW n \in RunHighest(o)
  PROVE  \/ n = [o EXCEPT !.fault = TRUE] /\ Held(o) = {}
         \/ \E l \in Levels : n = RunHead(o, l) /\ Held(o) = {}
         \/ \E l \in Levels : /\ n = RunHead(o, l)
                              /\ o.lists[l] # <<>>
                              /\ \A k \in Levels : k < l => o.lists[k] = <<>>
<1>1. PICK h \in HighestPrio(o) :
        n = IF h \in Levels THEN RunHead(o, h) ELSE [o EXCEPT !.fault = TRUE]
  BY DEF RunHighest
<1>2. CASE \A l \in Levels : o.lists[l] = <<>>
  <2>1. Held(o) = {}  BY <1>2, NoneHeld
  <2>. QED  BY <1>1, <2>1
<1>3. CASE ~ \A l \in Levels : o.lists[l] = <<>>
  <2>1. h \in Levels /\ o.lists[h] # <<>> /\ \A k \in Levels : k < h => o.lists[k] = <<>>
    BY <1>1, <1>3 DEF HighestPrio
  <2>. QED  BY <1>1, <2>1
<1>. QED  BY <1>2, <1>3

-----------------------------------------------------------------------------
(* get_next_task. *)

\* The head of the list algorithm a serves next is popped from m to run.
Serves(a, m, n) ==
  IF a = "prr" THEN n \in RunHighest(m) ELSE n = RunHead(m, 0)

\* The running task stays: nothing asks for another.
Keeps(a, o) ==
  /\ a \in {"rr", "prr"} => run_time[o.running] < Quantum
  /\ a = "srtn" => /\ o.lists[0] # <<>>
                   /\ ~(remaining_time[Head(o.lists[0])] < remaining_time[o.running])

\* The outcomes of get_next_task, whatever the algorithm.
LEMMA NextIs ==
  ASSUME NEW a \in Algorithms, NEW o, NEW remove \in BOOLEAN, NEW n \in get_next_task(a, o, remove)
  PROVE  \/ (remove \/ o.running = Idle) /\ Serves(a, o, n)
         \/ ~remove /\ o.running # Idle /\ Keeps(a, o) /\ n = o
         \/ /\ ~remove /\ o.running # Idle /\ a \in {"rr", "prr"}
            /\ ~(run_time[o.running] < Quantum)
            /\ Serves(a, add_task(a, o, o.running), n)
         \/ /\ ~remove /\ o.running # Idle /\ a = "srtn" /\ o.lists[0] # <<>>
            /\ n = srtn_add_task(RunHead(o, 0), o.running)
            /\ remaining_time[Head(o.lists[0])] < remaining_time[o.running]
         \/ /\ ~remove /\ o.running # Idle /\ a = "srtn" /\ o.lists[0] = <<>>
            /\ n = [o EXCEPT !.fault = TRUE]
<1>1. CASE a = "fcfs"
  BY <1>1 DEF get_next_task, fcfs_get_next_task, Serves, Keeps
<1>2. CASE a = "rr"
  BY <1>2 DEF get_next_task, rr_get_next_task, Serves, Keeps, add_task, rr_add_task
<1>3. CASE a = "srtn"
  BY <1>3 DEF get_next_task, srtn_get_next_task, Serves, Keeps
<1>4. CASE a = "prr"
  BY <1>4 DEF get_next_task, prr_get_next_task, Serves, Keeps, add_task
<1>. QED  BY <1>1, <1>2, <1>3, <1>4 DEF Algorithms

\* srtn: the running task needs no more time than any ready one.
Shortest(o) ==
  o.running # Idle => \A t \in Held(o) : remaining_time[o.running] <= remaining_time[t]

\* prr: no ready task is of a better level than the running one.
Best(o) ==
  o.running # Idle => \A t \in Held(o) : priority[o.running] <= priority[t]

\* The processor is left idle only with nothing to run.
Busy(o) == o.running # Idle \/ Held(o) = {}

\* What the task a list is popped for has to be.
LEMMA ServesWell ==
  ASSUME NEW a \in Algorithms, NEW m \in AlgObjects, NEW n, Serves(a, m, n),
         Filed(a, m), TaskFields
  PROVE  /\ n \in AlgObjects
         /\ Filed(a, n)
         /\ Busy(n)
         /\ a = "srtn" => Shortest(n)
         /\ a = "prr" => Best(n)
         /\ n.fault => m.fault \/ (a = "prr" /\ Held(n) = {})
<1>0. 0 \in Levels  BY PrioritiesAssumption DEF Levels
<1>1. CASE a = "prr" /\ n = [m EXCEPT !.fault = TRUE] /\ Held(m) = {}
  <2>1. n \in AlgObjects /\ n.lists = m.lists  BY <1>1 DEF AlgObjects
  <2>2. Held(n) = {}  BY <1>1, <2>1, NoneHeld
  <2>3. Filed(a, n)  BY <2>1, SameLists
  <2>. QED  BY <1>1, <2>1, <2>2, <2>3 DEF Busy, Best
<1>2. ASSUME NEW l \in Levels, n = RunHead(m, l), a # "prr" => l = 0,
             a = "prr" => Held(m) = {} \/ (/\ m.lists[l] # <<>>
                                           /\ \A k \in Levels : k < l => m.lists[k] = <<>>)
      PROVE  /\ n \in AlgObjects
             /\ n.fault = m.fault
             /\ Filed(a, n)
             /\ Busy(n)
             /\ a = "srtn" => Shortest(n)
             /\ a = "prr" => Best(n)
  <2>. DEFINE s == m.lists[l]
  <2>1. n \in AlgObjects /\ n.fault = m.fault  BY <1>2, RunHeadHolds
  <2>2. Filed(a, n)  BY <1>2, RunHeadFiled
  <2>3. s \in Seq(Tasks)  BY DEF AlgObjects
  <2>4. /\ \A k \in Levels \ {l} : n.lists[k] = m.lists[k]
        /\ s = <<>> => n.lists[l] = <<>> /\ n.running = Idle
        /\ s # <<>> => n.lists[l] = Tail(s) /\ n.running = Head(s) /\ n.running \in Tasks
    BY <1>2, RunHeadIs
  <2>5. ASSUME s = <<>>  PROVE n.running = Idle /\ Held(n) = {}
    <3>1. \A k \in Levels : m.lists[k] = <<>>
      <4>1. CASE a = "prr"  BY <4>1, <1>2, <2>5, NoneHeld
      <4>2. CASE a # "prr"  BY <4>2, <1>2, <2>5 DEF Filed, OneLevel
      <4>. QED  BY <4>1, <4>2
    <3>2. \A k \in Levels : n.lists[k] = <<>>  BY <3>1, <2>4, <2>5
    <3>. QED  BY <3>2, <2>1, <2>4, <2>5, NoneHeld
  <2>6. Busy(n)
    <3>1. CASE s = <<>>  BY <3>1, <2>5 DEF Busy
    <3>2. CASE s # <<>>  BY <3>2, <2>4 DEF Busy, Tasks, Idle
    <3>. QED  BY <3>1, <3>2
  <2>7. ASSUME a = "srtn", s # <<>>  PROVE Shortest(n)
    <3>1. l = 0 /\ Sorted(s)  BY <1>2, <2>7 DEF Filed
    <3>2. OneLevel(n)  BY <2>2, <2>7 DEF Filed
    <3>3. Held(n) = Elems(Tail(s))  BY <2>1, <2>4, <2>7, <3>1, <3>2, HeldInFirst
    <3>4. Elems(Tail(s)) \subseteq Elems(s)  BY <2>3, <2>7, TailElems
    <3>5. \A t \in Elems(s) : remaining_time[Head(s)] <= remaining_time[t]
      BY <2>3, <2>7, <3>1, TailSorted
    <3>. QED  BY <2>4, <2>7, <3>3, <3>4, <3>5 DEF Shortest
  <2>8. ASSUME a = "prr", s # <<>>  PROVE Best(n)
    <3>. SUFFICES ASSUME NEW t \in Held(n)  PROVE priority[n.running] <= priority[t]
      BY DEF Best
    <3>1. OwnLevel(m) /\ OwnLevel(n)  BY <2>2, <2>8 DEF Filed
    <3>2. priority[n.running] = l
      <4>1. Head(s) \in Elems(s)  BY <2>3, <2>8, TailElems
      <4>. QED  BY <4>1, <3>1, <2>4, <2>8 DEF OwnLevel
    <3>3. PICK k \in Levels : t \in Elems(n.lists[k])  BY <2>1, HeldIff
    <3>4. priority[t] = k  BY <3>1, <3>3 DEF OwnLevel
    <3>5. m.lists[k] # <<>>
      <4>1. CASE k = l  BY <4>1, <2>8
      <4>2. CASE k # l  BY <4>2, <3>3, <2>4 DEF Elems
      <4>. QED  BY <4>1, <4>2
    <3>6. ~(k < l)  BY <3>5, <1>2, <2>8, NoneHeld
    <3>. QED  BY <3>2, <3>4, <3>6, PrioritiesAssumption DEF Levels
  <2>9. s = <<>> => Shortest(n) /\ Best(n)  BY <2>5 DEF Shortest, Best
  <2>. QED  BY <2>1, <2>2, <2>6, <2>7, <2>8, <2>9
<1>3. CASE a # "prr"
  <2>1. n = RunHead(m, 0)  BY <1>3 DEF Serves
  <2>. QED  BY <1>0, <1>2, <1>3, <2>1
<1>4. CASE a = "prr"
  <2>1. n \in RunHighest(m)  BY <1>4 DEF Serves
  <2>. QED  BY <1>1, <1>2, <1>4, <2>1, RunHighestServes
<1>. QED  BY <1>3, <1>4

\* current_algorithm->get_next_task.
LEMMA NextWell ==
  ASSUME NEW a \in Algorithms, NEW o \in AlgObjects, NEW remove \in BOOLEAN,
         NEW n \in get_next_task(a, o, remove), Filed(a, o), TaskFields, ~o.fault
  PROVE  /\ Filed(a, n)
         /\ Busy(n)
         /\ a = "srtn" /\ ~n.fault => Shortest(n)
         /\ a = "prr" /\ n.running # o.running => Best(n)
         /\ n.fault /\ a # "prr" => a = "srtn" /\ ~remove /\ o.running # Idle /\ o.lists[0] = <<>>
         /\ n.fault /\ a = "prr" => Held(n) = {}
<1>0. 0 \in Levels  BY PrioritiesAssumption DEF Levels
<1>1. CASE (remove \/ o.running = Idle) /\ Serves(a, o, n)
  BY <1>1, ServesWell
<1>2. CASE ~remove /\ o.running # Idle /\ Keeps(a, o) /\ n = o
  <2>1. ASSUME a = "srtn"  PROVE Shortest(o)
    <3>1. /\ o.lists[0] # <<>> /\ Sorted(o.lists[0])
          /\ ~(remaining_time[Head(o.lists[0])] < remaining_time[o.running])
      BY <2>1, <1>2 DEF Keeps, Filed
    <3>2. o.lists[0] \in Seq(Tasks) /\ Held(o) = Elems(o.lists[0])
      BY <2>1, HeldInFirst DEF Filed
    <3>3. \A t \in Held(o) : remaining_time[Head(o.lists[0])] <= remaining_time[t]
      BY <3>1, <3>2, TailSorted
    <3>4. Head(o.lists[0]) \in Tasks /\ o.running \in Tasks /\ Held(o) \subseteq Tasks
      BY <3>1, <3>2, <1>2, TailElems, RunningIsTask, HeldAreTasks
    <3>5. \A t \in Tasks : remaining_time[t] \in Int  BY DEF TaskFields
    <3>. QED  BY <3>1, <3>3, <3>4, <3>5 DEF Shortest
  <2>. QED  BY <2>1, <1>2 DEF Busy
<1>3. CASE /\ ~remove /\ o.running # Idle /\ a \in {"rr", "prr"}
           /\ Serves(a, add_task(a, o, o.running), n)
  <2>. DEFINE m == add_task(a, o, o.running)
  <2>1. o.running \in Tasks  BY <1>3, RunningIsTask
  <2>2. m \in AlgObjects /\ Filed(a, m) /\ m.fault = o.fault  BY <2>1, AddHolds, AddFiled
  <2>3. Serves(a, m, n)  BY <1>3
  <2>. HIDE DEF m
  <2>. QED  BY <1>3, <2>2, <2>3, ServesWell
<1>4. CASE /\ ~remove /\ o.running # Idle /\ a = "srtn" /\ o.lists[0] # <<>>
           /\ n = srtn_add_task(RunHead(o, 0), o.running)
           /\ remaining_time[Head(o.lists[0])] < remaining_time[o.running]
  <2>. DEFINE m == RunHead(o, 0)  r == o.running
  <2>1. /\ m \in AlgObjects /\ Filed(a, m) /\ Shortest(m)
        /\ m.fault = o.fault
    BY <1>0, <1>4, ServesWell, RunHeadHolds DEF Serves
  <2>2. m.running = Head(o.lists[0]) /\ m.running \in Tasks  BY <1>0, <1>4, RunHeadIs
  <2>3. r \in Tasks  BY <1>4, RunningIsTask
  <2>. HIDE DEF m
  <2>4. /\ n \in AlgObjects
        /\ Held(n) = Held(m) \cup {r}
        /\ n.running = m.running
        /\ n.fault = m.fault
    BY <1>4, <2>1, <2>3, SrtnAddHolds DEF m
  <2>5. Filed(a, n)
    <3>1. n = add_task(a, m, r)  BY <1>4 DEF add_task, m
    <3>. QED  BY <3>1, <2>1, <2>3, AddFiled
  <2>6. remaining_time[m.running] <= remaining_time[r]
    <3>1. remaining_time[m.running] \in Int /\ remaining_time[r] \in Int
      BY <2>2, <2>3 DEF TaskFields
    <3>. QED  BY <3>1, <2>2, <1>4
  <2>7. Shortest(n)
    <3>1. m.running # Idle  BY <2>2 DEF Tasks, Idle
    <3>. QED  BY <3>1, <2>1, <2>4, <2>6 DEF Shortest
  <2>. QED  BY <1>4, <2>2, <2>1, <2>4, <2>5, <2>7 DEF Busy, Tasks, Idle
<1>5. CASE /\ ~remove /\ o.running # Idle /\ a = "srtn" /\ o.lists[0] = <<>>
           /\ n = [o EXCEPT !.fault = TRUE]
  <2>1. n.lists = o.lists /\ n.running = o.running /\ n.fault  BY <1>5 DEF AlgObjects
  <2>. QED  BY <2>1, <1>5, SameLists DEF Busy
<1>. QED  BY <1>1, <1>2, <1>3, <1>4, <1>5, NextIs

-----------------------------------------------------------------------------
(* The choice of the scheduler, through every step of the driver. *)

\* What a choice owes: the tasks are filed, the processor is busy if it can be,
\* and under srtn with the shortest task.
Served(a, o) == Filed(a, o) /\ Busy(o) /\ (a = "srtn" => Shortest(o))

ServedInv == pc \in Loop => Served(current_algorithm, obj)

PolicyInv == IInv /\ ServedInv /\ FaultOnlyInPrr

\* The task fields these predicates read change only when the processor is
\* charged, so after any other step they speak of the new object.
LEMMA PrimeServed ==
  ASSUME UNCHANGED <<remaining_time, priority, current_algorithm>>
  PROVE  Served(current_algorithm, obj)' <=> Served(current_algorithm, obj')
<1>1. OneLevel(obj)' <=> OneLevel(obj')  BY DEF OneLevel
<1>2. OwnLevel(obj)' <=> OwnLevel(obj')
  <2>1. \A l \in Levels : Elems(obj.lists[l])' = Elems(obj'.lists[l])  BY DEF Elems
  <2>2. \A t : priority'[t] = priority[t]  OBVIOUS
  <2>. QED  BY <2>1, <2>2 DEF OwnLevel
<1>3. Sorted(obj.lists[0])' <=> Sorted(obj'.lists[0])
  <2>1. \A t : remaining_time'[t] = remaining_time[t]  OBVIOUS
  <2>. QED  BY <2>1 DEF Sorted
<1>4. Busy(obj)' <=> Busy(obj')  BY PrimeObj DEF Busy
<1>5. Shortest(obj)' <=> Shortest(obj')
  <2>1. \A t : remaining_time'[t] = remaining_time[t]  OBVIOUS
  <2>. QED  BY <2>1, PrimeObj DEF Shortest
<1>6. Filed(current_algorithm, obj)' <=> Filed(current_algorithm, obj')
  BY <1>1, <1>2, <1>3 DEF Filed
<1>. QED  BY <1>4, <1>5, <1>6 DEF Served

\* A step that chooses: running_task = current_algorithm->get_next_task(o, remove).
LEMMA ChooseStep ==
  ASSUME TypeOK, current_algorithm \in Algorithms,
         NEW o \in AlgObjects, NEW remove \in BOOLEAN, ~o.fault,
         Filed(current_algorithm, o), GetNext(o, remove),
         current_algorithm = "srtn" /\ ~remove => o.lists[0] # <<>>,
         UNCHANGED <<remaining_time, priority, current_algorithm>>
  PROVE  /\ Served(current_algorithm, obj)'
         /\ FaultOnlyInPrr'
         /\ current_algorithm = "prr" /\ obj'.running # o.running => Best(obj')
<1>. DEFINE a == current_algorithm
<1>1. PICK n \in get_next_task(a, o, remove) : obj' = n
  BY DEF GetNext
<1>2. /\ Filed(a, n)
      /\ Busy(n)
      /\ a = "srtn" /\ ~n.fault => Shortest(n)
      /\ a = "prr" /\ n.running # o.running => Best(n)
      /\ n.fault /\ a # "prr" => a = "srtn" /\ ~remove /\ o.running # Idle /\ o.lists[0] = <<>>
      /\ n.fault /\ a = "prr" => Held(n) = {}
  BY FieldsOK, NextWell
<1>3. n.fault => a = "prr" /\ Held(n) = {}  BY <1>2
<1>4. Served(a, n)  BY <1>2, <1>3 DEF Served
<1>5. Served(current_algorithm, obj)'
  BY <1>1, <1>4, PrimeServed
<1>6. FaultOnlyInPrr'  BY <1>1, <1>3, PrimeObj DEF FaultOnlyInPrr
<1>. QED  BY <1>1, <1>2, <1>5, <1>6

\* A step that leaves the object and the task fields alone.
LEMMA KeepServed ==
  ASSUME UNCHANGED <<remaining_time, priority, current_algorithm, obj>>
  PROVE  /\ Served(current_algorithm, obj) => Served(current_algorithm, obj)'
         /\ FaultOnlyInPrr => FaultOnlyInPrr'
<1>1. Served(current_algorithm, obj)' <=> Served(current_algorithm, obj')  BY PrimeServed
<1>2. Served(current_algorithm, obj') <=> Served(current_algorithm, obj)  OBVIOUS
<1>. QED  BY <1>1, <1>2, PrimeObj DEF FaultOnlyInPrr

\* The task on the processor is charged: it is in no list, so srtn's stays
\* sorted, and what it still needs only shrinks.
LEMMA ChargeServed ==
  PolicyInv /\ Charge => ServedInv' /\ FaultOnlyInPrr'
<1>. SUFFICES ASSUME PolicyInv, Charge  PROVE ServedInv' /\ FaultOnlyInPrr'
  OBVIOUS
<1>. DEFINE a == current_algorithm  c == current_task
<1>1. /\ IInv /\ TypeOK /\ ~obj.fault /\ Served(a, obj) /\ obj \in AlgObjects
      /\ UNCHANGED <<priority, current_algorithm, obj>>
      /\ c = obj.running
      /\ Unique(obj) /\ a \in Algorithms
  BY DEF PolicyInv, IInv, FaultPhase, ServedInv, Loop, Charge, sched_vars, Agreement,
         Conservation, LoopPhase, TypeOK
<1>2. FaultOnlyInPrr'  BY <1>1 DEF FaultOnlyInPrr
<1>3. c \notin Held(obj)  BY <1>1 DEF Unique
<1>4. \A t \in Held(obj) : remaining_time'[t] = remaining_time[t]
  <2>1. Held(obj) \subseteq Tasks /\ DOMAIN remaining_time = Tasks
    BY <1>1, HeldAreTasks DEF TypeOK
  <2>. QED  BY <2>1, <1>3 DEF Charge
<1>5. ASSUME a = "srtn"  PROVE Sorted(obj.lists[0])'
  <2>1. OneLevel(obj) /\ Sorted(obj.lists[0])  BY <1>1, <1>5 DEF Served, Filed
  <2>2. Held(obj) = Elems(obj.lists[0])  BY <2>1, <1>1, HeldInFirst
  <2>3. \A i \in DOMAIN obj.lists[0] :
          remaining_time'[obj.lists[0][i]] = remaining_time[obj.lists[0][i]]
    BY <2>2, <1>4 DEF Elems
  <2>. QED  BY <2>1, <2>3, <1>1 DEF Sorted
<1>6. ASSUME a = "srtn"  PROVE Shortest(obj)'
  <2>. SUFFICES ASSUME c # Idle, NEW t \in Held(obj)
                PROVE  remaining_time'[c] <= remaining_time'[t]
    BY <1>1, PrimeObj DEF Shortest
  <2>1. remaining_time[c] <= remaining_time[t]  BY <1>1, <1>6 DEF Served, Shortest
  <2>2. c \in Tasks /\ t \in Tasks  BY <1>1, HeldAreTasks DEF TypeOK
  <2>3. remaining_time[c] \in Int /\ remaining_time[t] \in Int /\ DOMAIN remaining_time = Tasks
    BY <2>2, <1>1, FieldsOK DEF TypeOK
  <2>4. remaining_time'[c] = remaining_time[c] - 1  BY <2>2, <2>3 DEF Charge
  <2>. QED  BY <2>1, <2>3, <2>4, <1>4
<1>7. Served(current_algorithm, obj)'
  <2>1. OneLevel(obj)' <=> OneLevel(obj)  BY <1>1 DEF OneLevel
  <2>2. OwnLevel(obj)' <=> OwnLevel(obj)  BY <1>1 DEF OwnLevel, Elems
  <2>3. Busy(obj)' <=> Busy(obj)  BY <1>1, PrimeObj DEF Busy
  <2>. QED  BY <2>1, <2>2, <2>3, <1>1, <1>5, <1>6 DEF Served, Filed
<1>. QED  BY <1>2, <1>7 DEF ServedInv

\* A task arrives: it is filed first, so srtn's unchecked pop finds one.
LEMMA ArriveServed ==
  PolicyInv /\ Arrive =>
    /\ ServedInv' /\ FaultOnlyInPrr'
    /\ current_algorithm = "prr" /\ obj'.running # obj.running => Best(obj')
<1>. SUFFICES ASSUME PolicyInv, Arrive
              PROVE  /\ ServedInv' /\ FaultOnlyInPrr'
                     /\ current_algorithm = "prr" /\ obj'.running # obj.running => Best(obj')
  OBVIOUS
<1>. DEFINE a == current_algorithm  t == next_task  added == add_task(a, obj, t)
<1>1. /\ TypeOK /\ ~obj.fault /\ Served(a, obj) /\ obj \in AlgObjects /\ a \in Algorithms
      /\ pc' \in Loop /\ running_task = obj.running
      /\ UNCHANGED <<remaining_time, priority, current_algorithm>>
  BY DEF PolicyInv, IInv, ServedInv, Loop, Arrive, LoopPhase, TypeOK, Agreement,
         isu_sched_OnTaskArrive, task_vars
<1>0. t \in Tasks
  <2>1. t \in 1 .. NumTasks + 1 /\ t <= NumTasks  BY <1>1 DEF Arrive, TypeOK
  <2>. QED  BY <2>1, TasksAssumption DEF Tasks
<1>2. /\ added \in AlgObjects
      /\ added.running = obj.running
      /\ ~added.fault
  BY <1>0, <1>1, FieldsOK, AddHolds
<1>3. Filed(a, added) /\ (a # "prr" => added.lists[0] # <<>>)
  BY <1>0, <1>1, FieldsOK, AddFiled DEF Served
<1>4. /\ a = "srtn" \/ running_task = Idle => GetNext(added, FALSE)
      /\ ~(a = "srtn" \/ running_task = Idle) => obj' = added
  BY DEF Arrive, isu_sched_OnTaskArrive, is_premptive
<1>. HIDE DEF added
<1>5. CASE a = "srtn" \/ running_task = Idle
  <2>1. GetNext(added, FALSE)  BY <1>4, <1>5
  <2>2. a = "srtn" => added.lists[0] # <<>>  BY <1>3
  <2>3. /\ Served(current_algorithm, obj)'
        /\ FaultOnlyInPrr'
        /\ a = "prr" /\ obj'.running # added.running => Best(obj')
    BY <1>1, <1>2, <1>3, <2>1, <2>2, ChooseStep
  <2>. QED  BY <2>3, <1>1, <1>2 DEF ServedInv
<1>6. CASE ~(a = "srtn" \/ running_task = Idle)
  <2>1. obj' = added  BY <1>4, <1>6
  <2>2. Served(a, added)  BY <1>1, <1>2, <1>3, <1>6 DEF Served, Busy
  <2>3. Served(current_algorithm, obj)'
    BY <2>1, <2>2, <1>1, PrimeServed
  <2>. QED  BY <2>1, <2>3, <1>2 DEF ServedInv, FaultOnlyInPrr
<1>. QED  BY <1>5, <1>6

\* The task that ended is not put back, so no pop is unchecked but prr's.
LEMMA NotifyEndServed ==
  PolicyInv /\ NotifyEnd =>
    /\ ServedInv' /\ FaultOnlyInPrr'
    /\ current_algorithm = "prr" /\ obj'.running # obj.running => Best(obj')
<1>. SUFFICES ASSUME PolicyInv, NotifyEnd
              PROVE  /\ ServedInv' /\ FaultOnlyInPrr'
                     /\ current_algorithm = "prr" /\ obj'.running # obj.running => Best(obj')
  OBVIOUS
<1>. DEFINE a == current_algorithm
<1>1. /\ TypeOK /\ ~obj.fault /\ Filed(a, obj) /\ obj \in AlgObjects /\ a \in Algorithms
      /\ GetNext(obj, TRUE)
      /\ UNCHANGED <<remaining_time, priority, current_algorithm>>
  BY DEF PolicyInv, IInv, ServedInv, Served, Loop, NotifyEnd, LoopPhase, FaultPhase, TypeOK,
         isu_sched_OnTaskEnd, task_vars
<1>2. /\ Served(current_algorithm, obj)'
      /\ FaultOnlyInPrr'
      /\ a = "prr" /\ obj'.running # obj.running => Best(obj')
  BY <1>1, ChooseStep
<1>. QED  BY <1>2 DEF ServedInv

\* Only rr and prr are told of a tick.
LEMMA NotifyTickServed ==
  PolicyInv /\ NotifyTick =>
    /\ ServedInv' /\ FaultOnlyInPrr'
    /\ current_algorithm = "prr" /\ obj'.running # obj.running => Best(obj')
<1>. SUFFICES ASSUME PolicyInv, NotifyTick
              PROVE  /\ ServedInv' /\ FaultOnlyInPrr'
                     /\ current_algorithm = "prr" /\ obj'.running # obj.running => Best(obj')
  OBVIOUS
<1>. DEFINE a == current_algorithm
<1>1. /\ TypeOK /\ ~obj.fault /\ Served(a, obj) /\ obj \in AlgObjects /\ a \in Algorithms
      /\ (GetNext(obj, FALSE) /\ a \in {"rr", "prr"}) \/ UNCHANGED obj
      /\ UNCHANGED <<remaining_time, priority, current_algorithm>>
  BY DEF PolicyInv, IInv, ServedInv, Loop, NotifyTick, LoopPhase, FaultPhase, TypeOK,
         isu_sched_OnTick, quantum, task_vars
<1>2. CASE GetNext(obj, FALSE) /\ a \in {"rr", "prr"}
  <2>1. /\ Served(current_algorithm, obj)'
        /\ FaultOnlyInPrr'
        /\ a = "prr" /\ obj'.running # obj.running => Best(obj')
    BY <1>1, <1>2, ChooseStep DEF Served
  <2>. QED  BY <2>1 DEF ServedInv
<1>3. CASE UNCHANGED obj
  <2>1. Served(current_algorithm, obj)'  BY <1>1, <1>3, KeepServed
  <2>. QED  BY <2>1, <1>1, <1>3 DEF ServedInv, FaultOnlyInPrr
<1>. QED  BY <1>1, <1>2, <1>3

\* A new run starts with nothing held.
LEMMA StartRunServed ==
  PolicyInv /\ StartRun => ServedInv' /\ FaultOnlyInPrr' /\ obj'.running = Idle
<1>. SUFFICES ASSUME PolicyInv, StartRun
              PROVE  ServedInv' /\ FaultOnlyInPrr' /\ obj'.running = Idle
  OBVIOUS
<1>1. IInv'  BY StartRunInv DEF PolicyInv
<1>2. /\ ~obj'.fault /\ obj' \in AlgObjects
      /\ Held(obj') \cup Running(obj') = {}
  <2>1. pc' = "charge" /\ next_task' = 1  BY DEF StartRun
  <2>2. ~obj'.fault /\ obj' \in AlgObjects  BY <1>1, <2>1 DEF IInv, FaultPhase, TypeOK
  <2>3. Arrived' = {}  BY <2>1 DEF Arrived
  <2>. QED  BY <1>1, <2>2, <2>3, PrimeObj DEF IInv, Conservation
<1>3. obj'.running = Idle /\ Held(obj') = {} /\ \A l \in Levels : obj'.lists[l] = <<>>
  BY <1>2, NoneHeld DEF Running
<1>4. Served(current_algorithm, obj)'
  <2>1. 0 \in Levels  BY PrioritiesAssumption DEF Levels
  <2>2. Sorted(obj.lists[0])'  BY <2>1, <1>3 DEF Sorted
  <2>3. OneLevel(obj)' /\ OwnLevel(obj)'  BY <1>3 DEF OneLevel, OwnLevel, Elems
  <2>4. Busy(obj)' /\ Shortest(obj)'  BY <1>3, PrimeObj DEF Busy, Shortest
  <2>. QED  BY <2>2, <2>3, <2>4 DEF Served, Filed
<1>. QED  BY <1>2, <1>3, <1>4 DEF ServedInv, FaultOnlyInPrr

\* The other steps leave the object alone, or end with nothing held.
LEMMA PolicyNext == PolicyInv /\ [Next]_vars => PolicyInv'
<1>. SUFFICES ASSUME PolicyInv, [Next]_vars  PROVE ServedInv' /\ FaultOnlyInPrr'
  BY NextInv DEF PolicyInv
<1>1. IInv /\ ServedInv /\ FaultOnlyInPrr /\ IInv'  BY NextInv DEF PolicyInv
<1>2. CASE UNCHANGED vars \/ EndArrivals \/ Switch
  <2>1. /\ UNCHANGED <<remaining_time, priority, current_algorithm, obj>>
        /\ pc' \in Loop => pc \in Loop
    BY <1>2 DEF vars, sched_vars, task_vars, EndArrivals, Switch, Loop
  <2>. QED  BY <2>1, <1>1, KeepServed DEF ServedInv
<1>3. CASE Install \/ EndRun \/ Destroy
  <2>1. pc' \notin Loop  BY <1>3 DEF Install, EndRun, Destroy, Loop
  <2>2. ~obj'.fault  BY <1>1, <2>1 DEF IInv, FaultPhase, Loop
  <2>. QED  BY <2>1, <2>2 DEF ServedInv, FaultOnlyInPrr
<1>. QED
  BY <1>2, <1>3, StartRunServed, ChargeServed, ArriveServed, NotifyEndServed, NotifyTickServed
  DEF Next

\* No algorithm has been selected.
LEMMA PolicyInit == Init => PolicyInv
BY InitInv, EmptyObjHolds DEF PolicyInv, ServedInv, FaultOnlyInPrr, Init, isu_sched_Init, Loop

\* What the algorithms promise holds in every state of the simulation.
THEOREM PolicyInvariant == Spec => []PolicyInv
BY PolicyInit, PolicyNext, PTL DEF Spec

\* The processor is never idle through a tick while a task is ready, whatever
\* the algorithm: each get_next_task that leaves running_task NULL has found
\* every list empty, and an arrival wakes an idle processor.
THEOREM NeverIdleInVain == Spec => []WorkConserving
<1>1. PolicyInv => WorkConserving
  <2>. SUFFICES ASSUME PolicyInv, pc = "charge", Held(obj) # {}  PROVE current_task # Idle
    BY DEF WorkConserving
  <2>1. Busy(obj) /\ ~obj.fault
    BY DEF PolicyInv, ServedInv, Served, Loop, IInv, FaultPhase
  <2>. QED  BY <2>1 DEF Busy, PolicyInv, IInv, Agreement
<1>. QED  BY <1>1, PolicyInvariant, PTL

\* srtn: whenever a tick begins no ready task needs less time than the running
\* one.
THEOREM ShortestIsRunning == Spec => []ShortestRuns
<1>1. PolicyInv => ShortestRuns
  <2>. SUFFICES ASSUME PolicyInv, pc = "charge", current_algorithm = "srtn", NEW t \in Held(obj)
                PROVE  remaining_time[current_task] <= remaining_time[t]
    BY DEF ShortestRuns
  <2>1. Busy(obj) /\ Shortest(obj) /\ ~obj.fault
    BY DEF PolicyInv, ServedInv, Served, Loop, IInv, FaultPhase
  <2>2. current_task = obj.running  BY <2>1 DEF PolicyInv, IInv, Agreement
  <2>. QED  BY <2>1, <2>2 DEF Busy, Shortest
<1>. QED  BY <1>1, PolicyInvariant, PTL

\* Only prr with nothing ready pops a list that an uninitialised index names:
\* srtn's unchecked pop always follows an add_task.
THEOREM FaultIsPrrIdle == Spec => []FaultOnlyInPrr
<1>1. PolicyInv => FaultOnlyInPrr  BY DEF PolicyInv
<1>. QED  BY <1>1, PolicyInvariant, PTL

\* prr: the task that is given the processor is of the best level with a ready
\* task; only prr's get_next_task changes the running task.
THEOREM BestLevelFirst == Spec => HighestFirst
<1>. DEFINE A == current_algorithm = "prr" /\ obj'.running \notin {obj.running, Idle} =>
                   \A t \in Held(obj') : priority[obj'.running] <= priority[t]
<1>1. PolicyInv /\ [Next]_vars => [A]_vars
  <2>. SUFFICES ASSUME PolicyInv, Next  PROVE A
    OBVIOUS
  <2>1. CASE Arrive \/ NotifyEnd \/ NotifyTick
    <3>1. current_algorithm = "prr" /\ obj'.running # obj.running => Best(obj')
      BY <2>1, ArriveServed, NotifyEndServed, NotifyTickServed
    <3>. QED  BY <3>1 DEF Best
  <2>2. CASE StartRun \/ Destroy
    BY <2>2, StartRunServed DEF Destroy, EmptyObj
  <2>3. CASE Install \/ Charge \/ EndArrivals \/ Switch \/ EndRun
    BY <2>3 DEF Install, Charge, EndArrivals, Switch, EndRun, sched_vars, isu_sched_InstallAlgorithm
  <2>. QED  BY <2>1, <2>2, <2>3 DEF Next
<1>. QED  BY <1>1, PolicyInvariant, PTL DEF Spec, HighestFirst

-----------------------------------------------------------------------------
(* The slices of rr and prr. *)

\* Quotient and remainder exist.
LEMMA DivMod ==
  ASSUME NEW n \in Nat \ {0}, NEW a \in Nat
  PROVE  \E q \in Nat, r \in 0 .. n - 1 : a = n * q + r /\ a % n = r
<1>1. a % n \in 0 .. n - 1
  OBVIOUS
<1>2. a \div n \in Nat
  OBVIOUS
<1>3. a = n * (a \div n) + (a % n)
  OBVIOUS
<1>. QED  BY <1>1, <1>2, <1>3, Zenon

\* A number below n is the remainder it leaves.
LEMMA ModUnique ==
  ASSUME NEW n \in Nat \ {0}, NEW q \in Nat, NEW r \in 0 .. n - 1
  PROVE  (n * q + r) % n = r
OBVIOUS

\* A remainder goes up by one, or back to zero.
LEMMA ModNext ==
  ASSUME NEW n \in Nat \ {0}, NEW a \in Nat
  PROVE  /\ (a % n) \in 0 .. n - 1
         /\ ((a + 1) % n) = IF (a % n) = n - 1 THEN 0 ELSE (a % n) + 1
         /\ a < n => (a % n) = a
<1>1. PICK q \in Nat, r \in 0 .. n - 1 : a = n * q + r /\ a % n = r
  BY DivMod
<1>2. CASE r = n - 1
  <2>1. a + 1 = n * (q + 1) + 0  BY <1>1, <1>2
  <2>2. (n * (q + 1) + 0) % n = 0  BY ModUnique
  <2>. QED  BY <1>1, <1>2, <2>1, <2>2
<1>3. CASE r # n - 1
  <2>1. a + 1 = n * q + (r + 1) /\ r + 1 \in 0 .. n - 1  BY <1>1, <1>3
  <2>2. (n * q + (r + 1)) % n = r + 1  BY <2>1, ModUnique
  <2>. QED  BY <1>1, <1>3, <2>1, <2>2
<1>4. ASSUME a < n  PROVE a % n = a
  <2>1. a = n * 0 + a /\ a \in 0 .. n - 1  BY <1>4
  <2>2. (n * 0 + a) % n = a  BY <2>1, ModUnique
  <2>. QED  BY <2>1, <2>2
<1>. QED  BY <1>1, <1>2, <1>3, <1>4

\* How far task t is into a slice.
Phase(t) == run_time[t] % Quantum

\* The algorithms that ask for ticks.
Sliced == current_algorithm \in {"rr", "prr"}

\* What the timer reads once the coming tick is told.
NextTick == (quantum_time + 1) % Quantum

\* A task that has not arrived has not run.
FreshInv == pc \in Loop => \A t \in Tasks \ Arrived : run_time[t] = 0

\* Every ready task has run whole slices, and the timer agrees with the running
\* one, although neither OnTaskEnd nor OnTaskArrive looks at run_time when it
\* restarts the timer.
TimerInv ==
  Sliced /\ pc \in Loop /\ ~obj.fault =>
    /\ \A t \in Held(obj) : Phase(t) = 0
    /\ obj.running # Idle =>
         Phase(obj.running) = IF pc \in {"charge", "switch"} THEN quantum_time ELSE NextTick

\* The timer is at -1 only between the arrival that wakes the processor and the
\* end of that tick.
RestartInv == quantum_time = -1 => pc \in {"arrive", "notify"} /\ Sliced

\* Contended ticks are ticks of the current slice, and a task that goes on as a
\* slice ends has no rival left.
ContendedInv ==
  Sliced /\ pc \in Loop /\ ~obj.fault /\ current_task # Idle =>
    /\ pc = "charge" => contended <= Phase(current_task)
    /\ pc \in {"arrive", "notify"} =>
         /\ running_task = current_task
         /\ contended <= ((run_time[current_task] - 1) % Quantum)
    /\ pc = "switch" /\ new_task = current_task =>
         IF quantum_time = 0 THEN \A t \in Held(obj) : ~(Rank(t) <= Rank(current_task))
                             ELSE contended < quantum_time

SliceInv == FreshInv /\ TimerInv /\ RestartInv /\ ContendedInv /\ SliceBound

\* A task that is put back at the end of its slice and chosen again has no ready
\* task of its level or a better one beside it.
LEMMA ChosenAgain ==
  ASSUME NEW a \in {"rr", "prr"}, NEW o \in AlgObjects, NEW c \in Tasks, NEW n,
         TaskFields, Filed(a, o), c \notin Held(o),
         Serves(a, add_task(a, o, c), n), n.running = c, ~o.fault, ~n.fault
  PROVE  \A t \in Held(n) : a = "prr" /\ priority[c] < priority[t]
<1>. DEFINE m == add_task(a, o, c)
<1>1. m \in AlgObjects /\ Filed(a, m)
  BY AddHolds, AddFiled DEF Algorithms
<1>2. n \in AlgObjects /\ Filed(a, n)
  BY <1>1, ServesWell DEF Algorithms
<1>3. PICK l \in Levels : l = (IF a = "prr" THEN priority[c] ELSE 0)
  BY PrioritiesAssumption DEF TaskFields, Levels
<1>4. m = PushTail(o, l, c)  BY <1>3 DEF add_task, rr_add_task, prr_add_task
<1>5. /\ \A k \in Levels \ {l} : m.lists[k] = o.lists[k]
      /\ m.lists[l] = Append(o.lists[l], c)
  BY <1>4, PushTailIs
<1>6. Serves(a, m, n)  OBVIOUS
<1>. HIDE DEF m
<1>7. PICK h \in Levels :
        /\ n = RunHead(m, h)
        /\ a = "rr" => h = 0
        /\ a = "prr" => Held(m) = {} \/ \A k \in Levels : k < h => m.lists[k] = <<>>
  <2>1. CASE a = "rr"
    BY <1>6, <2>1, PrioritiesAssumption DEF Serves, Levels
  <2>2. CASE a = "prr"
    <3>1. n \in RunHighest(m)  BY <1>6, <2>2 DEF Serves
    <3>2. n # [m EXCEPT !.fault = TRUE]  BY <1>1 DEF AlgObjects
    <3>. QED  BY <1>1, <2>2, <3>1, <3>2, RunHighestServes
  <2>. QED  BY <2>1, <2>2
<1>8. /\ m.lists[h] # <<>>
      /\ c = Head(m.lists[h])
      /\ n.lists[h] = Tail(m.lists[h])
      /\ \A k \in Levels \ {h} : n.lists[k] = m.lists[k]
  BY <1>1, <1>7, RunHeadIs DEF Tasks, Idle
<1>9. h = l
  <2>1. CASE a = "rr"  BY <2>1, <1>3, <1>7
  <2>2. CASE a = "prr"
    <3>1. m.lists[h] \in Seq(Tasks)  BY <1>1 DEF AlgObjects
    <3>2. c \in Elems(m.lists[h])  BY <3>1, <1>8, TailElems
    <3>. QED  BY <3>2, <1>1, <1>3, <2>2 DEF Filed, OwnLevel
  <2>. QED  BY <2>1, <2>2
<1>10. o.lists[l] = <<>> /\ n.lists[l] = <<>>
  <2>. DEFINE s == o.lists[l]
  <2>1. s \in Seq(Tasks)  BY DEF AlgObjects
  <2>2. s = <<>>
    <3>. SUFFICES ASSUME s # <<>>  PROVE FALSE  OBVIOUS
    <3>1. Head(Append(s, c)) = Head(s)
      BY <2>1, AppendProperties, HeadTailProperties, LenProperties, EmptySeq
    <3>2. Head(s) \in Elems(s)  BY <2>1, TailElems
    <3>. QED  BY <3>1, <3>2, <1>5, <1>8, <1>9, HeldIff
  <2>3. Tail(Append(<<>>, c)) = <<>>  OBVIOUS
  <2>. QED  BY <2>2, <2>3, <1>5, <1>8, <1>9
<1>. SUFFICES ASSUME NEW t \in Held(n)  PROVE a = "prr" /\ priority[c] < priority[t]
  OBVIOUS
<1>11. PICK k \in Levels : t \in Elems(n.lists[k])  BY <1>2, HeldIff
<1>12. k # l /\ n.lists[k] # <<>> /\ m.lists[k] # <<>>
  BY <1>8, <1>9, <1>10, <1>11 DEF Elems
<1>13. a = "prr"
  <2>. SUFFICES ASSUME a = "rr"  PROVE FALSE  OBVIOUS
  <2>1. OneLevel(n) /\ l = 0  BY <1>2, <1>3 DEF Filed
  <2>. QED  BY <2>1, <1>12 DEF OneLevel
<1>14. ~(k < l)
  BY <1>1, <1>7, <1>9, <1>12, <1>13, NoneHeld
<1>15. priority[t] = k /\ priority[c] = l
  BY <1>2, <1>3, <1>11, <1>13 DEF Filed, OwnLevel
<1>. QED  BY <1>12, <1>13, <1>14, <1>15, PrioritiesAssumption DEF Levels

\* What the steps below read of the invariants.
LEMMA SliceFacts ==
  ASSUME PolicyInv, SliceInv
  PROVE  /\ TypeOK /\ obj \in AlgObjects /\ Quantum \in Nat \ {0}
         /\ quantum_time \in Int /\ contended \in Nat
         /\ quantum_time >= -1 /\ quantum_time < Quantum
         /\ \A t \in Tasks : run_time[t] \in Nat
         /\ Held(obj) \subseteq Tasks
         /\ Idle \notin Tasks
<1>1. TypeOK /\ obj \in AlgObjects /\ quantum_time \in -1 .. Quantum - 1 /\ contended \in 0 .. MaxLength
  BY DEF PolicyInv, IInv, TypeOK
<1>2. \A t \in Tasks : run_time[t] \in Nat  BY <1>1, FieldsOK
<1>. QED  BY <1>1, <1>2, QuantumAssumption, MaxLengthAssumption, HeldAreTasks DEF Tasks, Idle

\* The timer, seen from its values.
LEMMA NextTickIs ==
  ASSUME PolicyInv, SliceInv
  PROVE  NextTick \in 0 .. Quantum - 1
         /\ (quantum_time = -1 => NextTick = 0)
         /\ (quantum_time # -1 => NextTick = IF quantum_time = Quantum - 1 THEN 0 ELSE quantum_time + 1)
<1>1. quantum_time \in Int /\ quantum_time >= -1 /\ quantum_time < Quantum /\ Quantum \in Nat \ {0}
  BY SliceFacts
<1>2. CASE quantum_time = -1
  <2>1. quantum_time + 1 = 0 /\ 0 < Quantum  BY <1>1, <1>2
  <2>2. 0 % Quantum = 0  BY <1>1, <2>1, ModNext
  <2>. QED  BY <1>1, <1>2, <2>1, <2>2 DEF NextTick
<1>3. CASE quantum_time # -1
  <2>1. quantum_time \in Nat  BY <1>1, <1>3
  <2>2. quantum_time % Quantum = quantum_time  BY <1>1, <2>1, ModNext
  <2>3. NextTick = IF (quantum_time % Quantum) = Quantum - 1 THEN 0 ELSE (quantum_time % Quantum) + 1
    BY <1>1, <2>1, ModNext DEF NextTick
  <2>. QED  BY <1>1, <1>3, <2>1, <2>2, <2>3
<1>. QED  BY <1>2, <1>3

\* No task has run.
LEMMA SliceInit == Init => SliceInv
BY EmptyObjHolds, QuantumAssumption
DEF Init, isu_sched_Init, SliceInv, FreshInv, TimerInv, RestartInv, ContendedInv, SliceBound,
    Sliced, Loop, NoAlgorithm

\* A step outside the loop of run_test_framework, or into it with nothing held.
LEMMA OutsideSlice ==
  ASSUME PolicyInv, SliceInv, Install \/ StartRun \/ EndRun \/ Destroy
  PROVE  SliceInv'
<1>1. quantum_time # -1 /\ quantum_time' = quantum_time
  BY DEF SliceInv, RestartInv, Install, StartRun, EndRun, Destroy, isu_sched_InstallAlgorithm,
         isu_sched_SetAlgorithm, sched_vars
<1>2. CASE Install \/ EndRun \/ Destroy
  <2>1. pc' \notin Loop /\ UNCHANGED <<contended, current_algorithm>>
    BY <1>2 DEF Install, EndRun, Destroy, isu_sched_InstallAlgorithm, sched_vars, Loop
  <2>2. FreshInv' /\ TimerInv' /\ ContendedInv' /\ RestartInv'
    BY <1>1, <2>1 DEF FreshInv, TimerInv, ContendedInv, RestartInv, Loop
  <2>. QED  BY <2>1, <2>2 DEF SliceInv, SliceBound
<1>3. CASE StartRun
  <2>1. /\ Served(current_algorithm, obj)' /\ obj'.running = Idle
        /\ contended' = 0 /\ current_task' = Idle
        /\ \A t \in Tasks : run_time'[t] = 0
    BY <1>3, StartRunServed DEF StartRun, ServedInv, Loop
  <2>2. Held(obj)' = {}  BY <2>1, PrimeObj DEF Served, Busy
  <2>3. FreshInv' /\ TimerInv'  BY <2>1, <2>2 DEF FreshInv, TimerInv
  <2>4. ContendedInv' /\ RestartInv' /\ SliceBound'
    BY <1>1, <2>1, QuantumAssumption DEF ContendedInv, RestartInv, SliceBound
  <2>. QED  BY <2>3, <2>4 DEF SliceInv
<1>. QED  BY <1>2, <1>3

\* The tick charged counts against the slice of the task on the processor.
LEMMA ChargeSlice == ASSUME PolicyInv, SliceInv, Charge  PROVE SliceInv'
<1>. DEFINE c == current_task
<1>1. /\ pc = "charge" /\ pc' = "arrive" /\ ~obj.fault
      /\ c = running_task /\ c = obj.running
      /\ c \notin Held(obj) /\ (c # Idle => c \in Tasks /\ c \in Arrived)
      /\ UNCHANGED <<priority, current_algorithm, obj, running_task, quantum_time, next_task,
                     current_task, new_task, contended>>
  BY DEF Charge, PolicyInv, IInv, FaultPhase, Agreement, Conservation, Unique, Running, TypeOK,
         sched_vars
<1>2. TypeOK /\ obj \in AlgObjects /\ Held(obj) \subseteq Tasks /\ Idle \notin Tasks
      /\ Quantum \in Nat \ {0} /\ \A t \in Tasks : run_time[t] \in Nat
  BY SliceFacts
<1>3. /\ \A t \in Tasks : t # c => run_time'[t] = run_time[t]
      /\ c # Idle => run_time'[c] = run_time[c] + 1
  <2>1. DOMAIN run_time = Tasks  BY <1>2 DEF TypeOK
  <2>. QED  BY <2>1, <1>1, <1>2 DEF Charge
<1>4. FreshInv'
  <2>1. Arrived' = Arrived  BY <1>1 DEF Arrived
  <2>2. \A t \in Tasks \ Arrived : t # c /\ run_time[t] = 0
    BY <1>1, <1>2 DEF SliceInv, FreshInv, Loop
  <2>. QED  BY <2>1, <2>2, <1>3 DEF FreshInv
<1>5. RestartInv' /\ SliceBound'
  BY <1>1 DEF SliceInv, RestartInv, SliceBound, Sliced
<1>. SUFFICES ASSUME Sliced  PROVE TimerInv' /\ ContendedInv'
  BY <1>1, <1>4, <1>5 DEF SliceInv, TimerInv, ContendedInv, Sliced
<1>6. /\ \A t \in Held(obj) : Phase(t) = 0
      /\ c # Idle => Phase(c) = quantum_time /\ contended <= Phase(c)
      /\ quantum_time # -1
  BY <1>1 DEF SliceInv, TimerInv, ContendedInv, RestartInv, Loop
<1>7. NextTick' = NextTick  BY <1>1 DEF NextTick
<1>8. ASSUME c # Idle  PROVE (run_time'[c] % Quantum) = NextTick
  <2>1. (run_time[c] % Quantum) = quantum_time  BY <1>6, <1>8 DEF Phase
  <2>2. ((run_time[c] + 1) % Quantum) = IF quantum_time = Quantum - 1 THEN 0 ELSE quantum_time + 1
    BY <2>1, <1>1, <1>2, <1>8, ModNext
  <2>. QED  BY <2>2, <1>3, <1>6, <1>8, NextTickIs
<1>9. TimerInv'
  <2>1. \A t \in Held(obj) : (run_time'[t] % Quantum) = 0
    BY <1>1, <1>2, <1>3, <1>6 DEF Phase
  <2>. QED  BY <2>1, <1>1, <1>7, <1>8, PrimeObj DEF TimerInv, Phase
<1>10. ContendedInv'
  <2>. SUFFICES ASSUME c # Idle  PROVE contended <= ((run_time'[c] - 1) % Quantum)
    BY <1>1 DEF ContendedInv
  <2>1. run_time'[c] - 1 = run_time[c]  BY <1>1, <1>2, <1>3
  <2>. QED  BY <2>1, <1>6 DEF Phase
<1>. QED  BY <1>9, <1>10

\* No more arrivals: the slice is as it was.
LEMMA EndArrivalsSlice == ASSUME PolicyInv, SliceInv, EndArrivals  PROVE SliceInv'
<1>1. /\ pc = "arrive" /\ pc' = "notify"
      /\ UNCHANGED <<run_time, priority, current_algorithm, obj, running_task, quantum_time,
                     next_task, current_task, new_task, contended>>
  BY DEF EndArrivals, task_vars, sched_vars
<1>2. FreshInv' /\ RestartInv' /\ SliceBound'
  BY <1>1 DEF SliceInv, FreshInv, RestartInv, SliceBound, Sliced, Arrived, Loop
<1>3. TimerInv'
  <2>1. NextTick' = NextTick /\ \A t : Phase(t)' = (run_time[t] % Quantum)
    BY <1>1 DEF NextTick, Phase
  <2>. QED  BY <1>1, PrimeObj DEF SliceInv, TimerInv, Sliced, Loop, NextTick, Phase
<1>4. ContendedInv'  BY <1>1 DEF SliceInv, ContendedInv, Sliced, Loop
<1>. QED  BY <1>2, <1>3, <1>4 DEF SliceInv

\* A task that wakes the processor is fresh, and the timer starts again with it.
LEMMA ArriveSlice == ASSUME PolicyInv, SliceInv, Arrive  PROVE SliceInv'
<1>. DEFINE a == current_algorithm  t == next_task  added == add_task(a, obj, t)
<1>1. /\ pc = "arrive" /\ pc' = "arrive" /\ ~obj.fault /\ TypeOK /\ obj \in AlgObjects
      /\ a \in Algorithms /\ Busy(obj) /\ running_task = obj.running
      /\ Unique(obj) /\ Held(obj) \cup Running(obj) = Arrived \ finished
      /\ UNCHANGED <<run_time, priority, current_algorithm, current_task, contended>>
      /\ next_task' = t + 1
  BY DEF Arrive, PolicyInv, ServedInv, Served, IInv, LoopPhase, Loop, TypeOK, Agreement,
         Conservation, isu_sched_OnTaskArrive, task_vars
<1>2. t \in Tasks /\ t \notin Arrived /\ Arrived' = Arrived \cup {t}
  <2>1. t \in 1 .. NumTasks + 1 /\ t <= NumTasks  BY <1>1 DEF Arrive, TypeOK
  <2>2. t \in 1 .. NumTasks  BY <2>1, TasksAssumption
  <2>. QED  BY <2>2, <1>1, TasksAssumption DEF Arrived, Tasks
<1>3. /\ added \in AlgObjects
      /\ Held(added) = Held(obj) \cup {t}
      /\ HeldOnce(obj) /\ t \notin Held(obj) => HeldOnce(added)
      /\ added.running = obj.running
      /\ ~added.fault
  BY <1>1, <1>2, FieldsOK, AddHolds
<1>4. /\ a = "srtn" \/ running_task = Idle =>
           /\ GetNext(added, FALSE)
           /\ quantum_time' = IF reset_quantum(a) THEN -1 ELSE quantum_time
      /\ ~(a = "srtn" \/ running_task = Idle) => obj' = added /\ UNCHANGED <<running_task, quantum_time>>
  BY DEF Arrive, isu_sched_OnTaskArrive, is_premptive
<1>. HIDE DEF added
<1>5. FreshInv'
  BY <1>1, <1>2 DEF SliceInv, FreshInv, Loop
<1>6. RestartInv' /\ SliceBound'
  BY <1>1, <1>4 DEF SliceInv, RestartInv, SliceBound, Sliced, reset_quantum
<1>. SUFFICES ASSUME Sliced, ~obj'.fault  PROVE TimerInv' /\ ContendedInv'
  BY <1>1, <1>5, <1>6 DEF SliceInv, TimerInv, ContendedInv, Sliced
<1>7. a # "srtn"  BY DEF Sliced
<1>8. Phase(t) = 0 /\ \A u \in Held(obj) : Phase(u) = 0
  <2>1. run_time[t] = 0  BY <1>1, <1>2 DEF SliceInv, FreshInv, Loop
  <2>2. 0 % Quantum = 0  BY QuantumAssumption, ModNext
  <2>. QED  BY <2>1, <2>2, <1>1 DEF Phase, SliceInv, TimerInv, Loop
<1>9. \A u : Phase(u)' = Phase(u)  BY <1>1 DEF Phase
<1>10. CASE running_task = Idle
  <2>1. Unique(added)
    <3>1. t \notin Held(obj) /\ t # Idle  BY <1>1, <1>2 DEF Tasks, Idle
    <3>. QED  BY <3>1, <1>1, <1>2, <1>3, <1>10 DEF Unique
  <2>2. /\ Unique(obj')
        /\ Held(obj') \cup Running(obj') = Held(added) \cup Running(added)
        /\ running_task' = obj'.running
    BY <2>1, <1>1, <1>3, <1>4, <1>10, GetNextStep
  <2>3. Running(added) = {}  BY <1>1, <1>3, <1>10 DEF Running
  <2>4. \A u \in Held(obj') \cup Running(obj') : Phase(u) = 0
    BY <2>2, <2>3, <1>3, <1>8
  <2>5. quantum_time' = -1  BY <1>4, <1>10 DEF Sliced, reset_quantum
  <2>6. NextTick' = 0
    <3>1. -1 + 1 = 0 /\ 0 % Quantum = 0  BY QuantumAssumption, ModNext
    <3>. QED  BY <2>5, <3>1 DEF NextTick
  <2>7. TimerInv'
    BY <2>4, <2>6, <1>1, <1>9, PrimeObj DEF TimerInv, Running
  <2>8. current_task = Idle
    BY <1>1, <1>10 DEF SliceInv, ContendedInv, Loop
  <2>. QED  BY <2>7, <2>8, <1>1 DEF ContendedInv
<1>11. CASE running_task # Idle
  <2>1. obj' = added /\ UNCHANGED <<running_task, quantum_time>>  BY <1>4, <1>7, <1>11
  <2>2. NextTick' = NextTick  BY <2>1 DEF NextTick
  <2>3. TimerInv'
    BY <2>1, <2>2, <1>1, <1>3, <1>8, <1>9, PrimeObj DEF SliceInv, TimerInv, Loop
  <2>4. ContendedInv'
    BY <2>1, <1>1 DEF SliceInv, ContendedInv, Sliced, Loop
  <2>. QED  BY <2>3, <2>4
<1>. QED  BY <1>10, <1>11

\* The task that ended is gone; the next one starts a slice, and the timer with it.
LEMMA NotifyEndSlice == ASSUME PolicyInv, SliceInv, NotifyEnd  PROVE SliceInv'
<1>. DEFINE a == current_algorithm  c == current_task
<1>1. /\ pc = "notify" /\ pc' = "switch" /\ ~obj.fault /\ TypeOK /\ obj \in AlgObjects
      /\ a \in Algorithms /\ c = obj.running
      /\ Unique(obj)
      /\ UNCHANGED <<run_time, priority, current_algorithm, current_task, contended, next_task>>
      /\ GetNext(obj, TRUE) /\ new_task' = running_task'
      /\ quantum_time' = IF reset_quantum(a) THEN 0 ELSE quantum_time
  BY DEF NotifyEnd, PolicyInv, IInv, LoopPhase, FaultPhase, Loop, TypeOK, Agreement,
         Conservation, isu_sched_OnTaskEnd, task_vars
<1>2. FreshInv'  BY <1>1 DEF SliceInv, FreshInv, Arrived, Loop
<1>3. RestartInv' /\ SliceBound'
  BY <1>1 DEF SliceInv, RestartInv, SliceBound, Sliced, reset_quantum
<1>. SUFFICES ASSUME Sliced, ~obj'.fault  PROVE TimerInv' /\ ContendedInv'
  BY <1>1, <1>2, <1>3 DEF SliceInv, TimerInv, ContendedInv, Sliced
<1>4. Held(obj') \cup Running(obj') = Held(obj) /\ running_task' = obj'.running
  <2>1. Held(obj') \cup Running(obj') = Held(obj) \cup {}
    BY <1>1, GetNextStep
  <2>2. running_task' = obj'.running  BY <1>1, GetNextStep
  <2>. QED  BY <2>1, <2>2
<1>5. \A u \in Held(obj) : Phase(u) = 0  BY <1>1 DEF SliceInv, TimerInv, Loop
<1>6. \A u : Phase(u)' = Phase(u)  BY <1>1 DEF Phase
<1>7. quantum_time' = 0  BY <1>1 DEF Sliced, reset_quantum
<1>8. TimerInv'  BY <1>1, <1>4, <1>5, <1>6, <1>7, PrimeObj DEF TimerInv, Running
<1>9. new_task' # c \/ c = Idle  BY <1>1, <1>4 DEF Unique, Running
<1>10. ContendedInv'  BY <1>1, <1>9 DEF ContendedInv
<1>. QED  BY <1>8, <1>10

\* A tick is told.  The timer reaches 0 exactly when the running task has run
\* whole slices, and then it is put back.
LEMMA NotifyTickSlice == ASSUME PolicyInv, SliceInv, NotifyTick  PROVE SliceInv'
<1>. DEFINE a == current_algorithm  c == current_task
<1>1. /\ pc = "notify" /\ pc' = "switch" /\ ~obj.fault /\ TypeOK /\ obj \in AlgObjects
      /\ a \in Algorithms /\ running_task = obj.running
      /\ Unique(obj) /\ Filed(a, obj)
      /\ UNCHANGED <<run_time, priority, current_algorithm, current_task, contended, next_task>>
      /\ new_task' = running_task'
      /\ IF a \in {"rr", "prr"}
           THEN quantum_time' = NextTick /\ IF NextTick = 0 THEN GetNext(obj, FALSE)
                                                            ELSE UNCHANGED <<obj, running_task>>
           ELSE UNCHANGED quantum_time
  BY QuantumAssumption
  DEF NotifyTick, PolicyInv, ServedInv, Served, IInv, LoopPhase, FaultPhase, Loop, TypeOK,
      Agreement, Conservation, isu_sched_OnTick, quantum, task_vars, NextTick
<1>2. FreshInv'  BY <1>1 DEF SliceInv, FreshInv, Arrived, Loop
<1>3. RestartInv' /\ SliceBound'
  <2>1. NextTick # -1  BY NextTickIs
  <2>. QED  BY <2>1, <1>1 DEF SliceInv, RestartInv, SliceBound, Sliced
<1>. SUFFICES ASSUME Sliced, ~obj'.fault  PROVE TimerInv' /\ ContendedInv'
  BY <1>1, <1>2, <1>3 DEF SliceInv, TimerInv, ContendedInv, Sliced
<1>4. /\ \A u \in Held(obj) : Phase(u) = 0
      /\ obj.running # Idle => Phase(obj.running) = NextTick
      /\ c # Idle => running_task = c /\ contended <= ((run_time[c] - 1) % Quantum)
  BY <1>1 DEF SliceInv, TimerInv, ContendedInv, Loop
<1>5. \A u : Phase(u)' = Phase(u)  BY <1>1 DEF Phase
<1>6. ASSUME c # Idle
      PROVE  c \in Tasks /\ run_time[c] \in Nat \ {0} /\ contended \in Nat
  <2>1. contended < run_time[c] /\ c \in Tasks
    BY <1>1, <1>6 DEF PolicyInv, IInv, Slice, Loop, TypeOK
  <2>. QED  BY <2>1, SliceFacts
<1>7. CASE NextTick = 0
  <2>1. /\ Held(obj') \cup Running(obj') = Held(obj) \cup Running(obj)
        /\ running_task' = obj'.running
    <3>1. GetNext(obj, FALSE)  BY <1>1, <1>7 DEF Sliced
    <3>2. Held(obj') \cup Running(obj') = Held(obj) \cup (IF FALSE THEN {} ELSE Running(obj))
      BY <3>1, <1>1, GetNextStep
    <3>3. running_task' = obj'.running  BY <3>1, <1>1, GetNextStep
    <3>. QED  BY <3>2, <3>3
  <2>2. \A u \in Held(obj') \cup Running(obj') : Phase(u) = 0
    BY <2>1, <1>4, <1>7 DEF Running
  <2>3. quantum_time' = 0  BY <1>1, <1>7 DEF Sliced
  <2>4. TimerInv'  BY <2>2, <2>3, <1>1, <1>5, PrimeObj DEF TimerInv, Running
  <2>5. ASSUME c # Idle, running_task' = c, NEW t \in Held(obj')
        PROVE  a = "prr" /\ priority[c] < priority[t]
    <3>1. PICK n \in get_next_task(a, obj, FALSE) : obj' = n /\ running_task' = n.running
      BY <1>1, <1>7 DEF GetNext, Sliced
    <3>2. c = obj.running /\ c \in Tasks /\ c \notin Held(obj)
      BY <2>5, <1>1, <1>4, <1>6 DEF Unique
    <3>3. ~(run_time[c] < Quantum)
      <4>1. (run_time[c] % Quantum) = 0  BY <1>1, <1>4, <1>7, <2>5, <3>2 DEF Phase
      <4>. QED  BY <4>1, <2>5, <1>6, QuantumAssumption, ModNext
    <3>4. Serves(a, add_task(a, obj, c), n)
      <4>1. ~Keeps(a, obj)  BY <3>2, <3>3 DEF Keeps, Sliced
      <4>. QED  BY <3>1, <3>2, <4>1, <2>5, <1>1, NextIs DEF Sliced
    <3>. QED  BY <3>1, <3>2, <3>4, <2>5, <1>1, FieldsOK, ChosenAgain DEF Sliced
  <2>6. \A t \in Held(obj') : c # Idle /\ new_task' = c => ~(Rank(t)' <= Rank(c)')
    <3>. SUFFICES ASSUME NEW t \in Held(obj'), c # Idle, new_task' = c
                  PROVE  ~(Rank(t)' <= Rank(c)')
      OBVIOUS
    <3>1. a = "prr" /\ priority[c] < priority[t]  BY <2>5, <1>1
    <3>2. Rank(t)' = priority[t] /\ Rank(c)' = priority[c]  BY <3>1, <1>1 DEF Rank
    <3>3. priority[t] \in Int /\ priority[c] \in Int
      <4>1. obj' \in AlgObjects  BY <1>1, <1>7, GetNextStep DEF Sliced
      <4>2. t \in Tasks /\ c \in Tasks  BY <4>1, <1>6, HeldAreTasks
      <4>. QED  BY <4>2, <1>1, PrioritiesAssumption DEF TypeOK, Levels
    <3>. QED  BY <3>1, <3>2, <3>3
  <2>7. ContendedInv'
    BY <2>3, <2>6, <1>1, PrimeObj DEF ContendedInv
  <2>. QED  BY <2>4, <2>7
<1>8. CASE NextTick # 0
  <2>1. UNCHANGED <<obj, running_task>> /\ quantum_time' = NextTick
    BY <1>1, <1>8 DEF Sliced
  <2>2. TimerInv'  BY <2>1, <1>1, <1>4, <1>5, PrimeObj DEF TimerInv
  <2>3. ASSUME c # Idle, new_task' = c  PROVE contended < NextTick
    <3>. DEFINE p == run_time[c] - 1
    <3>1. p \in Nat /\ p + 1 = run_time[c]  BY <1>6, <2>3
    <3>2. (run_time[c] % Quantum) = NextTick  BY <1>1, <1>4, <2>3 DEF Phase
    <3>3. ((p + 1) % Quantum) = (IF (p % Quantum) = Quantum - 1 THEN 0 ELSE (p % Quantum) + 1)
          /\ (p % Quantum) \in 0 .. Quantum - 1
      BY <3>1, QuantumAssumption, ModNext
    <3>4. (p % Quantum) + 1 = NextTick  BY <3>1, <3>2, <3>3, <1>8
    <3>. QED  BY <3>3, <3>4, <1>4, <1>6, <2>3, QuantumAssumption
  <2>4. ContendedInv'  BY <2>1, <2>3, <1>1, <1>8 DEF ContendedInv
  <2>. QED  BY <2>2, <2>4
<1>. QED  BY <1>7, <1>8

\* The task that goes on is charged with one more contended tick of its slice.
LEMMA SwitchSlice == ASSUME PolicyInv, SliceInv, Switch  PROVE SliceInv'
<1>. DEFINE c == current_task
<1>1. /\ pc = "switch" /\ pc' = "charge" /\ ~obj.fault
      /\ UNCHANGED <<run_time, priority, current_algorithm, obj, running_task, quantum_time,
                     next_task, new_task>>
      /\ current_task' = new_task /\ new_task = obj.running
  BY DEF Switch, PolicyInv, IInv, Asked, Agreement, task_vars, sched_vars
<1>2. FreshInv' /\ RestartInv'
  BY <1>1 DEF SliceInv, FreshInv, RestartInv, Sliced, Arrived, Loop
<1>. SUFFICES ASSUME Sliced  PROVE TimerInv' /\ ContendedInv' /\ SliceBound'
  BY <1>1, <1>2 DEF SliceInv, TimerInv, ContendedInv, SliceBound, Sliced
<1>3. \A u : Phase(u)' = Phase(u)  BY <1>1 DEF Phase
<1>4. TimerInv'
  BY <1>1, <1>3, PrimeObj DEF SliceInv, TimerInv, Loop
<1>5. contended' = 0 \/ (/\ contended' = contended + 1 /\ new_task = c /\ c # Idle
                         /\ contended < quantum_time)
  <2>1. contended' = 0 \/ (/\ contended' = contended + 1 /\ new_task = c /\ c # Idle
                           /\ \E t \in Held(obj) : Rank(t) <= Rank(c))
    BY DEF Switch
  <2>. QED  BY <2>1, <1>1 DEF SliceInv, ContendedInv, Loop
<1>6. /\ quantum_time \in Int /\ contended \in Nat /\ quantum_time < Quantum /\ Quantum \in Nat \ {0}
      /\ quantum_time >= 0
  <2>1. quantum_time # -1  BY <1>1 DEF SliceInv, RestartInv
  <2>. QED  BY <2>1, SliceFacts
<1>7. contended' <= quantum_time /\ contended' < Quantum  BY <1>5, <1>6
<1>8. SliceBound'  BY <1>7 DEF SliceBound
<1>9. ContendedInv'
  <2>1. obj.running # Idle => Phase(obj.running) = quantum_time
    BY <1>1 DEF SliceInv, TimerInv, Loop
  <2>. QED  BY <2>1, <1>1, <1>3, <1>7 DEF ContendedInv
<1>. QED  BY <1>4, <1>8, <1>9

\* Every step keeps the slices of rr and prr.
LEMMA SliceNext == PolicyInv /\ SliceInv /\ [Next]_vars => SliceInv'
<1>. SUFFICES ASSUME PolicyInv, SliceInv, [Next]_vars  PROVE SliceInv'
  OBVIOUS
<1>1. CASE UNCHANGED vars
  <2>1. UNCHANGED <<run_time, priority, current_algorithm, obj, running_task, quantum_time, pc,
                    next_task, current_task, new_task, contended>>
    BY <1>1 DEF vars, sched_vars
  <2>2. FreshInv' /\ RestartInv' /\ SliceBound'
    BY <2>1 DEF SliceInv, FreshInv, RestartInv, SliceBound, Sliced, Arrived
  <2>3. NextTick' = NextTick /\ \A u : Phase(u)' = Phase(u) /\ Rank(u)' = Rank(u)
    BY <2>1 DEF NextTick, Phase, Rank
  <2>4. TimerInv'
    BY <2>1, <2>3, PrimeObj DEF SliceInv, TimerInv, Sliced
  <2>5. ContendedInv'
    BY <2>1, <2>3, PrimeObj DEF SliceInv, ContendedInv, Sliced
  <2>. QED  BY <2>2, <2>4, <2>5 DEF SliceInv
<1>2. CASE Next
  BY <1>2, OutsideSlice, ChargeSlice, ArriveSlice, EndArrivalsSlice, NotifyEndSlice,
     NotifyTickSlice, SwitchSlice DEF Next
<1>. QED  BY <1>1, <1>2

\* rr, prr: no task keeps the processor for more than Quantum ticks while a task
\* of its level, or of a better one, is ready: the quantum timer and the
\* cumulative run_time the expiry test reads never drift apart.
THEOREM SliceKept == Spec => []SliceBound
<1>1. Spec => []SliceInv
  BY PolicyInvariant, SliceInit, SliceNext, PTL DEF Spec
<1>2. SliceInv => SliceBound  BY DEF SliceInv
<1>. QED  BY <1>1, <1>2, PTL

-----------------------------------------------------------------------------
(* fcfs, rr and prr keep the order of their lists. *)

\* A ready list is never longer than the number of tasks.
LEMMA ListFits ==
  ASSUME NEW s \in Seq(Tasks), Injective(s)
  PROVE  Len(s) \in 0 .. NumTasks
<1>1. /\ Len(s) \in Nat /\ DOMAIN s = 1 .. Len(s)
      /\ \A i \in 1 .. Len(s) : s[i] \in Tasks
      /\ s \in [1 .. Len(s) -> Tasks]
  BY ElementOfSeq, LenProperties
<1>2. /\ IsFiniteSet(1 .. Len(s)) /\ Cardinality(1 .. Len(s)) = Len(s)
      /\ IsFiniteSet(Tasks) /\ Cardinality(Tasks) = NumTasks
  <2>0. PICK k \in Nat : k = Len(s)  BY <1>1
  <2>1. IsFiniteSet(1 .. k) /\ Cardinality(1 .. k) = k
    BY FS_Interval
  <2>2. IsFiniteSet(Tasks) /\ Cardinality(Tasks) = NumTasks
    BY TasksAssumption, FS_Interval DEF Tasks
  <2>. QED  BY <2>0, <2>1, <2>2
<1>3. s \in Injection(1 .. Len(s), Tasks)
  BY <1>1 DEF Injective, Injection, IsInjective
<1>4. Len(s) <= NumTasks  BY <1>2, <1>3, FS_Injection
<1>. QED  BY <1>1, <1>4, TasksAssumption

\* The position of a ready task is its index in the list that has it.
LEMMA PositionIs ==
  ASSUME NEW o \in AlgObjects, HeldOnce(o), NEW l \in Levels, NEW i \in DOMAIN o.lists[l]
  PROVE  Position(o, o.lists[l][i]) = i /\ i \in Nat
<1>. DEFINE t == o.lists[l][i]
            P(j) == \E k \in Levels : j \in DOMAIN o.lists[k] /\ o.lists[k][j] = t
<1>1. i \in 1 .. NumTasks
  <2>1. o.lists[l] \in Seq(Tasks)  BY DEF AlgObjects
  <2>2. Len(o.lists[l]) \in 0 .. NumTasks  BY <2>1, OneList, ListFits
  <2>. QED  BY <2>1, <2>2, LenProperties, TasksAssumption
<1>2. P(i)  OBVIOUS
<1>3. \A j \in 1 .. NumTasks : P(j) => j = i  BY DEF HeldOnce
<1>4. Position(o, t) = CHOOSE j \in 1 .. NumTasks : P(j)  BY DEF Position
<1>. HIDE DEF P
<1>5. (CHOOSE j \in 1 .. NumTasks : P(j)) = i  BY <1>1, <1>2, <1>3
<1>. QED  BY <1>1, <1>4, <1>5

\* From o to n a task that stays ready keeps its list and does not move back.
KeepsOrder(o, n) ==
  \A l \in Levels : \A i \in DOMAIN o.lists[l] :
    o.lists[l][i] \in Held(n) =>
      \E j \in DOMAIN n.lists[l] : j <= i /\ n.lists[l][j] = o.lists[l][i]

\* A list that keeps its order brings no task further from its head.
LEMMA OrderPositions ==
  ASSUME NEW o \in AlgObjects, NEW n \in AlgObjects, HeldOnce(o), HeldOnce(n), KeepsOrder(o, n),
         NEW t \in Held(o) \cap Held(n)
  PROVE  Position(n, t) <= Position(o, t)
<1>1. PICK l \in Levels : \E i \in DOMAIN o.lists[l] : o.lists[l][i] = t
  BY HeldIff DEF Elems
<1>2. PICK i \in DOMAIN o.lists[l] : o.lists[l][i] = t  BY <1>1
<1>3. PICK j \in DOMAIN n.lists[l] : j <= i /\ n.lists[l][j] = t  BY <1>2 DEF KeepsOrder
<1>. QED  BY <1>2, <1>3, PositionIs

\* Pushing to the tail moves nobody.
LEMMA PushKeepsOrder ==
  ASSUME NEW a \in {"fcfs", "rr", "prr"}, NEW o \in AlgObjects, NEW t \in Tasks, TaskFields
  PROVE  KeepsOrder(o, add_task(a, o, t))
<1>. DEFINE n == add_task(a, o, t)
<1>1. PICK l \in Levels : n = PushTail(o, l, t)
  BY PrioritiesAssumption
  DEF TaskFields, Levels, add_task, fcfs_add_task, rr_add_task, prr_add_task
<1>2. /\ \A k \in Levels \ {l} : n.lists[k] = o.lists[k]
      /\ n.lists[l] = Append(o.lists[l], t)
  BY <1>1, PushTailIs
<1>. SUFFICES KeepsOrder(o, n)  OBVIOUS
<1>. HIDE DEF n
<1>. SUFFICES ASSUME NEW k \in Levels, NEW i \in DOMAIN o.lists[k]
              PROVE  \E j \in DOMAIN n.lists[k] : j <= i /\ n.lists[k][j] = o.lists[k][i]
  BY DEF KeepsOrder
<1>3. o.lists[k] \in Seq(Tasks)  BY DEF AlgObjects
<1>4. i \in DOMAIN n.lists[k] /\ n.lists[k][i] = o.lists[k][i] /\ i \in Nat
  BY <1>2, <1>3, AppendProperties, LenProperties
<1>. QED  BY <1>4

\* Popping a head to run it moves everyone behind it one place on.
LEMMA PopKeepsOrder ==
  ASSUME NEW o \in AlgObjects, HeldOnce(o), NEW h \in Levels
  PROVE  KeepsOrder(o, RunHead(o, h))
<1>. DEFINE n == RunHead(o, h)
<1>1. Unique(n)  BY RunHeadHolds
<1>2. /\ \A k \in Levels \ {h} : n.lists[k] = o.lists[k]
      /\ o.lists[h] = <<>> => n.lists[h] = <<>>
      /\ o.lists[h] # <<>> => n.lists[h] = Tail(o.lists[h]) /\ n.running = Head(o.lists[h])
  BY RunHeadIs
<1>. SUFFICES KeepsOrder(o, n)  OBVIOUS
<1>. HIDE DEF n
<1>. SUFFICES ASSUME NEW k \in Levels, NEW i \in DOMAIN o.lists[k], o.lists[k][i] \in Held(n)
              PROVE  \E j \in DOMAIN n.lists[k] : j <= i /\ n.lists[k][j] = o.lists[k][i]
  BY DEF KeepsOrder
<1>3. o.lists[k] \in Seq(Tasks) /\ i \in 1 .. Len(o.lists[k]) /\ Len(o.lists[k]) \in Nat
  BY LenProperties DEF AlgObjects
<1>4. CASE k # h  BY <1>2, <1>3, <1>4
<1>5. CASE k = h
  <2>. DEFINE s == o.lists[k]
  <2>1. s # <<>>  BY <1>3
  <2>2. n.lists[k] = Tail(s) /\ n.running = Head(s)  BY <1>2, <1>5, <2>1
  <2>3. /\ DOMAIN Tail(s) = 1 .. Len(s) - 1
        /\ \A j \in 1 .. Len(s) - 1 : Tail(s)[j] = s[j + 1]
        /\ Head(s) = s[1]
    BY <1>3, <2>1, HeadTailProperties, LenProperties
  <2>4. i # 1  BY <1>1, <2>2, <2>3 DEF Unique
  <2>5. i - 1 \in 1 .. Len(s) - 1 /\ (i - 1) + 1 = i /\ i - 1 <= i  BY <1>3, <2>4
  <2>. QED  BY <2>2, <2>3, <2>5
<1>. QED  BY <1>4, <1>5

\* Taking the head of a list keeps the order of the rest.
LEMMA ServesKeepsOrder ==
  ASSUME NEW a \in Algorithms, NEW m \in AlgObjects, HeldOnce(m), NEW n, Serves(a, m, n), ~n.fault
  PROVE  KeepsOrder(m, n)
<1>1. CASE a # "prr"
  BY <1>1, PopKeepsOrder, PrioritiesAssumption DEF Serves, Levels
<1>2. CASE a = "prr"
  <2>1. n \in RunHighest(m)  BY <1>2 DEF Serves
  <2>2. n # [m EXCEPT !.fault = TRUE]  BY DEF AlgObjects
  <2>. QED  BY <2>1, <2>2, RunHighestIs, PopKeepsOrder
<1>. QED  BY <1>1, <1>2

\* get_next_task of fcfs, rr and prr keeps the order of the tasks that stay.
LEMMA NextKeepsOrder ==
  ASSUME NEW a \in {"fcfs", "rr", "prr"}, NEW o \in AlgObjects, Unique(o),
         NEW remove \in BOOLEAN, NEW n \in get_next_task(a, o, remove), TaskFields, ~n.fault
  PROVE  KeepsOrder(o, n)
<1>0. a \in Algorithms /\ HeldOnce(o) /\ a # "srtn"  BY DEF Algorithms, Unique
<1>1. CASE Serves(a, o, n)  BY <1>0, <1>1, ServesKeepsOrder
<1>2. CASE n = o
  <2>1. \A l \in Levels : \A i \in DOMAIN o.lists[l] : i <= i
    <3>1. \A l \in Levels : \A i \in DOMAIN o.lists[l] : i \in Nat
      <4>. TAKE l \in Levels
      <4>1. o.lists[l] \in Seq(Tasks)  BY DEF AlgObjects
      <4>. QED  BY <4>1, LenProperties
    <3>. QED  BY <3>1
  <2>. QED  BY <1>2, <2>1 DEF KeepsOrder
<1>3. CASE o.running # Idle /\ Serves(a, add_task(a, o, o.running), n)
  <2>. DEFINE m == add_task(a, o, o.running)
  <2>1. o.running \in Tasks  BY <1>3, RunningIsTask
  <2>2. /\ m \in AlgObjects /\ HeldOnce(m)
        /\ Held(m) = Held(o) \cup {o.running}
    BY <1>0, <2>1, AddHolds DEF Unique
  <2>3. KeepsOrder(o, m)  BY <2>1, PushKeepsOrder
  <2>4. Serves(a, m, n)  BY <1>3
  <2>. HIDE DEF m
  <2>5. KeepsOrder(m, n)  BY <1>0, <2>2, <2>4, ServesKeepsOrder
  <2>. SUFFICES ASSUME NEW l \in Levels, NEW i \in DOMAIN o.lists[l], o.lists[l][i] \in Held(n)
                PROVE  \E k \in DOMAIN n.lists[l] : k <= i /\ n.lists[l][k] = o.lists[l][i]
    BY DEF KeepsOrder
  <2>6. o.lists[l][i] \in Held(m)
    <3>1. o.lists[l][i] \in Held(o)  BY HeldIff DEF Elems
    <3>. QED  BY <3>1, <2>2
  <2>7. PICK j \in DOMAIN m.lists[l] : j <= i /\ m.lists[l][j] = o.lists[l][i]
    BY <2>3, <2>6 DEF KeepsOrder
  <2>8. PICK k \in DOMAIN n.lists[l] : k <= j /\ n.lists[l][k] = m.lists[l][j]
    BY <2>5, <2>7 DEF KeepsOrder
  <2>9. i \in Nat /\ j \in Nat /\ k \in Nat
    <3>1. n \in AlgObjects
      BY <1>0, GetNextHolds
    <3>2. o.lists[l] \in Seq(Tasks) /\ m.lists[l] \in Seq(Tasks) /\ n.lists[l] \in Seq(Tasks)
      BY <2>2, <3>1 DEF AlgObjects
    <3>. QED  BY <3>2, LenProperties
  <2>. QED  BY <2>7, <2>8, <2>9
<1>. QED  BY <1>0, <1>1, <1>2, <1>3, NextIs

\* A step that changes the object through get_next_task or add_task.
LEMMA StepKeepsOrder ==
  ASSUME PolicyInv, Arrive \/ NotifyEnd \/ NotifyTick, current_algorithm # "srtn", ~obj'.fault
  PROVE  KeepsOrder(obj, obj')
<1>. DEFINE a == current_algorithm
<1>1. /\ TypeOK /\ ~obj.fault /\ obj \in AlgObjects /\ Unique(obj)
      /\ running_task = obj.running /\ a \in {"fcfs", "rr", "prr"} /\ a \in Algorithms
      /\ Held(obj) \cup Running(obj) = Arrived \ finished
  BY DEF PolicyInv, IInv, LoopPhase, Loop, TypeOK, Conservation, Agreement, FaultPhase,
         Arrive, NotifyEnd, NotifyTick, Algorithms
<1>2. ASSUME NEW o \in AlgObjects, Unique(o), NEW remove \in BOOLEAN, GetNext(o, remove)
      PROVE  KeepsOrder(o, obj')
  <2>1. PICK n \in get_next_task(a, o, remove) : obj' = n  BY <1>2 DEF GetNext
  <2>. QED  BY <2>1, <1>1, <1>2, FieldsOK, NextKeepsOrder
<1>3. KeepsOrder(obj, obj)
  <2>1. \A l \in Levels : \A i \in DOMAIN obj.lists[l] : i \in Nat
    <3>. TAKE l \in Levels
    <3>1. obj.lists[l] \in Seq(Tasks)  BY <1>1 DEF AlgObjects
    <3>. QED  BY <3>1, LenProperties
  <2>2. \A i \in Nat : i <= i  OBVIOUS
  <2>. QED  BY <2>1, <2>2 DEF KeepsOrder
<1>4. CASE NotifyEnd
  BY <1>1, <1>2, <1>4 DEF NotifyEnd, isu_sched_OnTaskEnd
<1>5. CASE NotifyTick
  <2>1. GetNext(obj, FALSE) \/ UNCHANGED obj  BY <1>5 DEF NotifyTick, isu_sched_OnTick
  <2>. QED  BY <2>1, <1>1, <1>2, <1>3
<1>6. CASE Arrive
  <2>. DEFINE t == next_task  m == add_task(a, obj, t)
  <2>1. t \in Tasks /\ t \notin Arrived
    <3>1. t \in 1 .. NumTasks + 1 /\ t <= NumTasks  BY <1>1, <1>6 DEF Arrive, TypeOK
    <3>. QED  BY <3>1, TasksAssumption DEF Tasks, Arrived
  <2>2. KeepsOrder(obj, m)  BY <1>1, <2>1, FieldsOK, PushKeepsOrder
  <2>3. /\ m \in AlgObjects /\ m.running = obj.running
        /\ Held(m) = Held(obj) \cup {t}
        /\ HeldOnce(obj) /\ t \notin Held(obj) => HeldOnce(m)
    BY <1>1, <2>1, FieldsOK, AddHolds
  <2>4. (running_task = Idle /\ GetNext(m, FALSE)) \/ obj' = m
    BY <1>1, <1>6 DEF Arrive, isu_sched_OnTaskArrive, is_premptive
  <2>. HIDE DEF m
  <2>5. CASE running_task = Idle /\ GetNext(m, FALSE)
    <3>1. Busy(obj)
      BY <1>6 DEF PolicyInv, ServedInv, Served, Loop, Arrive
    <3>2. Held(obj) = {}  BY <3>1, <2>5, <1>1 DEF Busy
    <3>3. \A l \in Levels : \A i \in DOMAIN obj.lists[l] : FALSE
      BY <3>2, <1>1, NoneHeld
    <3>. QED  BY <3>3 DEF KeepsOrder
  <2>6. CASE obj' = m  BY <2>2, <2>6
  <2>. QED  BY <2>4, <2>5, <2>6
<1>. QED  BY <1>4, <1>5, <1>6

\* fcfs, rr, prr: a ready task never moves back in its list, whatever arrives,
\* ends or is put back.
THEOREM NoTaskIsBypassed == Spec => NoBypass
<1>. DEFINE A == current_algorithm # "srtn" =>
                   \A t \in Held(obj) \cap Held(obj') : Position(obj', t) <= Position(obj, t)
<1>1. PolicyInv /\ [Next]_vars => [A]_vars
  <2>. SUFFICES ASSUME PolicyInv, Next, current_algorithm # "srtn",
                       NEW t \in Held(obj) \cap Held(obj')
                PROVE  Position(obj', t) <= Position(obj, t)
    OBVIOUS
  <2>1. PolicyInv'  BY PolicyNext
  <2>2. obj \in AlgObjects /\ obj' \in AlgObjects
    BY <2>1 DEF PolicyInv, IInv, TypeOK
  <2>3. CASE StartRun \/ Destroy
    <3>1. Held(obj) = {}
      BY <2>3 DEF StartRun, Destroy, PolicyInv, IInv, RestPhase, Loop
    <3>. QED  BY <3>1
  <2>4. CASE Install \/ Charge \/ EndArrivals \/ Switch \/ EndRun
    <3>1. obj' = obj /\ ~obj.fault
      BY <2>4 DEF Install, Charge, EndArrivals, Switch, EndRun, sched_vars,
                  isu_sched_InstallAlgorithm, PolicyInv, IInv, FaultPhase
    <3>2. HeldOnce(obj)  BY <3>1 DEF PolicyInv, IInv, Conservation, Unique
    <3>3. PICK l \in Levels : \E i \in DOMAIN obj.lists[l] : obj.lists[l][i] = t
      BY <2>2, HeldIff DEF Elems
    <3>4. Position(obj, t) \in Nat  BY <2>2, <3>2, <3>3, PositionIs
    <3>. QED  BY <3>1, <3>4
  <2>5. CASE Arrive \/ NotifyEnd \/ NotifyTick
    <3>1. ~obj.fault /\ Unique(obj)
      BY <2>5 DEF Arrive, NotifyEnd, NotifyTick, PolicyInv, IInv, FaultPhase, Conservation
    <3>2. ~obj'.fault
      BY <2>1, PrimeObj DEF PolicyInv, FaultOnlyInPrr
    <3>3. Unique(obj')  BY <2>1, <3>2, PrimeObj DEF PolicyInv, IInv, Conservation
    <3>. QED  BY <2>2, <2>5, <3>1, <3>2, <3>3, StepKeepsOrder, OrderPositions DEF Unique
  <2>. QED  BY <2>3, <2>4, <2>5 DEF Next
<1>. QED  BY <1>1, PolicyInvariant, PTL DEF Spec, NoBypass

-----------------------------------------------------------------------------
(* The program as a whole. *)

\* Every step of main is a step of the simulation, or opens or closes a module and
\* leaves the simulation alone.
LEMMA MainStep == MainNext => [Next]_vars
<1>1. ASSUME MainInstall PROVE Next
  BY <1>1 DEF MainInstall, Next
<1>2. ASSUME MainRun PROVE Next
  BY <1>2 DEF MainRun, LogRun, LogStartRun, LogCharge, LogArrive, LogNotifyEnd, LogSwitch, Next
<1>3. ASSUME MainUninstall PROVE UNCHANGED vars
  BY <1>3 DEF MainUninstall
<1> QED
  BY <1>1, <1>2, <1>3 DEF MainNext

\* Neither the loader nor the logs change what the simulation does.
THEOREM MainImplements == MainSpec => Spec
<1>1. MainInit => Init
  BY DEF MainInit
<1>2. [MainNext]_main_vars => [Next]_vars
  BY MainStep DEF main_vars
<1> QED
  BY <1>1, <1>2, PTL DEF MainSpec, Spec

\* With modules and logs, no task is lost and the three running tasks agree.
THEOREM MainCorrect == MainSpec => [](TypeOK /\ Conservation /\ Agreement)
  BY MainImplements, TypeCorrect, NoTaskLost, RunningTaskAgrees, PTL

-----------------------------------------------------------------------------
(* The modules. *)

\* The places among the arguments lo .. hi that name f.
Named(f, lo, hi) == {i \in lo .. hi : Args[i] = f}

Hi == Len(algorithm_list)

\* The scheduler has the first arguments, the loader those of them that main has not
\* uninstalled, and each file is open once for each of these.
LoaderInv ==
  /\ algorithm_list \in Seq(Algorithms) /\ Hi <= Len(Args)
  /\ pc # "install" => Hi = Len(Args)
  /\ \A i \in 1 .. Hi : algorithm_list[i] = Args[i]
  /\ unloaded \in 0 .. Hi
  /\ pc # "done" => unloaded = 0
  /\ mod_list = [i \in 1 .. Hi - unloaded |-> Args[unloaded + i]]
  /\ opened = [f \in Algorithms |-> Cardinality(Named(f, unloaded + 1, Hi))]
  /\ ~crashed

\* An argument names a file some number of times.
LEMMA NamedFinite ==
  ASSUME NEW f, NEW lo \in Int, NEW hi \in Int
  PROVE  IsFiniteSet(Named(f, lo, hi)) /\ Cardinality(Named(f, lo, hi)) \in Nat
<1>1. IsFiniteSet(lo .. hi)
  BY FS_Interval
<1>2. IsFiniteSet(Named(f, lo, hi))
  BY <1>1, FS_Subset DEF Named
<1> QED
  BY <1>2, FS_CardinalityType

\* No argument is left to name a file.
LEMMA NamedNone ==
  ASSUME NEW f, NEW lo \in Int, NEW hi \in Int, lo > hi
  PROVE  Cardinality(Named(f, lo, hi)) = 0
<1>1. Named(f, lo, hi) = {}
  BY DEF Named
<1> QED
  BY <1>1, FS_EmptySet

\* An argument names its file at least once.
LEMMA NamedSome ==
  ASSUME NEW f, NEW lo \in Int, NEW hi \in Int, NEW i \in lo .. hi, Args[i] = f
  PROVE  Cardinality(Named(f, lo, hi)) > 0
<1>1. i \in Named(f, lo, hi)
  BY DEF Named
<1> QED
  BY <1>1, NamedFinite, FS_EmptySet

\* One more argument is installed.
LEMMA NamedAdd ==
  ASSUME NEW f, NEW lo \in Int, NEW hi \in Int, lo <= hi + 1
  PROVE  Cardinality(Named(f, lo, hi + 1)) =
           IF Args[hi + 1] = f THEN Cardinality(Named(f, lo, hi)) + 1
                               ELSE Cardinality(Named(f, lo, hi))
<1>1. CASE Args[hi + 1] = f
  <2>1. Named(f, lo, hi + 1) = Named(f, lo, hi) \cup {hi + 1}
    BY <1>1 DEF Named
  <2>2. hi + 1 \notin Named(f, lo, hi)
    BY DEF Named
  <2> QED
    BY <1>1, <2>1, <2>2, NamedFinite, FS_AddElement
<1>2. CASE Args[hi + 1] # f
  <2>1. Named(f, lo, hi + 1) = Named(f, lo, hi)
    BY <1>2 DEF Named
  <2> QED
    BY <1>2, <2>1
<1> QED
  BY <1>1, <1>2

\* The first argument is uninstalled.
LEMMA NamedDrop ==
  ASSUME NEW f, NEW lo \in Int, NEW hi \in Int, lo <= hi
  PROVE  Cardinality(Named(f, lo + 1, hi)) =
           IF Args[lo] = f THEN Cardinality(Named(f, lo, hi)) - 1
                           ELSE Cardinality(Named(f, lo, hi))
<1>1. CASE Args[lo] = f
  <2>1. Named(f, lo + 1, hi) = Named(f, lo, hi) \ {lo}
    BY DEF Named
  <2>2. lo \in Named(f, lo, hi)
    BY <1>1 DEF Named
  <2> QED
    BY <1>1, <2>1, <2>2, NamedFinite, FS_RemoveElement
<1>2. CASE Args[lo] # f
  <2>1. Named(f, lo + 1, hi) = Named(f, lo, hi)
    BY <1>2 DEF Named
  <2> QED
    BY <1>2, <2>1
<1> QED
  BY <1>1, <1>2

\* What the loader removes for the file at its head is the head.
LEMMA RemoveFirstHead ==
  ASSUME NEW S, NEW s \in Seq(S), s # <<>>
  PROVE  Loader!Contains(s, s[1]) /\ Loader!RemoveFirst(s, s[1]) = Tail(s)
<1> DEFINE I == {i \in 1 .. Len(s) : s[i] = s[1]}
<1>1. 1 \in I /\ I \subseteq Nat /\ \A i \in I : 1 <= i
  OBVIOUS
<1>2. Loader!Min(I) = 1
  BY <1>1 DEF Loader!Min
<1>3. Loader!SelectInSeq(s, LAMBDA v : v = s[1]) = 1
  BY <1>1, <1>2 DEF Loader!SelectInSeq
<1>4. Loader!RemoveAt(s, 1) = Tail(s)
  BY DEF Loader!RemoveAt
<1>5. Loader!Contains(s, s[1])
  BY <1>1 DEF Loader!Contains
<1> QED
  BY <1>1, <1>3, <1>4, <1>5 DEF Loader!RemoveFirst

\* main has opened no module.
LEMMA LoaderInit == MainInit => LoaderInv
<1> SUFFICES ASSUME MainInit PROVE LoaderInv
  OBVIOUS
<1> USE DEF MainInit, Init, isu_sched_Init, Loader!LoaderInit
<1>1. Hi = 0 /\ pc = "install" /\ unloaded = 0 /\ ~crashed
  BY DEF Hi
<1>2. mod_list = [i \in 1 .. Hi - unloaded |-> Args[unloaded + i]]
  BY <1>1
<1>3. opened = [f \in Algorithms |-> Cardinality(Named(f, unloaded + 1, Hi))]
  BY <1>1, NamedNone
<1> QED
  BY <1>1, <1>2, <1>3, ArgsAssumption DEF LoaderInv

\* An argument is opened and installed, or the last one has been.
LEMMA InstallLoader == TypeOK /\ LoaderInv /\ MainInstall => LoaderInv'
<1> SUFFICES ASSUME TypeOK, LoaderInv, MainInstall PROVE LoaderInv'
  OBVIOUS
<1> USE ArgsAssumption
<1>1. pc = "install" /\ unloaded = 0 /\ unloaded' = 0 /\ Hi \in Nat /\ algorithm_list \in Seq(Algorithms)
  BY DEF LoaderInv, MainInstall, Install, TypeOK, Hi
<1>2. CASE Hi < Len(Args)
  <2> DEFINE f == Args[Hi + 1]
  <2>1. /\ algorithm_list' = Append(algorithm_list, f)
        /\ pc' = "install"
        /\ f \in Algorithms
    BY <1>1, <1>2 DEF MainInstall, Install, isu_sched_InstallAlgorithm, Hi
  <2>2. Hi' = Hi + 1 /\ algorithm_list' # algorithm_list
    BY <1>1, <2>1 DEF Hi
  <2>3. /\ mod_list' = Append(mod_list, f)
        /\ opened' = [opened EXCEPT ![f] = @ + 1]
        /\ ~crashed'
    BY <2>2 DEF MainInstall, Loader!isu_module_install, Loader!dlopen, LoaderInv, Hi
  <2>4. \A i \in 1 .. Hi' : algorithm_list'[i] = Args[i]
    BY <1>1, <2>1, <2>2 DEF LoaderInv, Hi
  <2>5. mod_list' = [i \in 1 .. Hi' - 0 |-> Args[0 + i]]
    BY <1>1, <2>2, <2>3 DEF LoaderInv
  <2>6. \A g \in Algorithms : opened'[g] = Cardinality(Named(g, 0 + 1, Hi'))
    <3> TAKE g \in Algorithms
    <3>1. opened[g] = Cardinality(Named(g, 1, Hi)) /\ Cardinality(Named(g, 1, Hi)) \in Nat
      BY <1>1, NamedFinite DEF LoaderInv
    <3>2. opened'[g] = IF g = f THEN opened[g] + 1 ELSE opened[g]
      BY <2>1, <2>3 DEF LoaderInv
    <3> QED
      BY <1>1, <2>2, <3>1, <3>2, NamedAdd
  <2>7. opened' = [g \in Algorithms |-> opened'[g]]
    BY <2>3 DEF LoaderInv
  <2>8. (opened = [g \in Algorithms |-> Cardinality(Named(g, unloaded + 1, Hi))])'
    BY <1>1, <2>6, <2>7 DEF Named
  <2>9. (mod_list = [i \in 1 .. Hi - unloaded |-> Args[unloaded + i]])'
    BY <1>1, <2>5
  <2>10. (algorithm_list \in Seq(Algorithms) /\ Hi <= Len(Args))'
    BY <1>1, <1>2, <2>1, <2>2
  <2>11. (unloaded \in 0 .. Hi /\ (pc # "install" => Hi = Len(Args)) /\ (pc # "done" => unloaded = 0))'
    BY <1>1, <2>1, <2>2
  <2>12. (\A i \in 1 .. Hi : algorithm_list[i] = Args[i])' /\ ~crashed'
    BY <2>3, <2>4
  <2> QED
    BY <2>8, <2>9, <2>10, <2>11, <2>12 DEF LoaderInv
<1>3. CASE ~(Hi < Len(Args))
  <2>1. UNCHANGED <<algorithm_list, mod_list, opened, crashed>> /\ pc' = "main"
    BY <1>3 DEF MainInstall, Install, sched_vars, Hi
  <2> QED
    BY <1>1, <1>3, <2>1 DEF LoaderInv, Hi, Named
<1> QED
  BY <1>2, <1>3

\* A run leaves the loader and the list of algorithms alone.
LEMMA RunLoader == LoaderInv /\ MainRun => LoaderInv'
<1> SUFFICES ASSUME LoaderInv, MainRun PROVE LoaderInv'
  OBVIOUS
<1>1. UNCHANGED <<algorithm_list, mod_list, opened, crashed, unloaded>>
  BY DEF MainRun, LogRun, LogStartRun, LogCharge, LogArrive, LogNotifyEnd, LogSwitch, StartRun, Charge,
         Arrive, NotifyEnd, Switch, EndArrivals, NotifyTick, EndRun, Destroy, sched_vars,
         isu_sched_SetAlgorithm, isu_sched_OnTaskArrive, isu_sched_OnTaskEnd, isu_sched_OnTick
<1>2. pc \notin {"install", "done"}
  BY DEF MainRun, LogRun, LogStartRun, LogCharge, LogArrive, LogNotifyEnd, LogSwitch, StartRun, Charge,
         Arrive, NotifyEnd, Switch, EndArrivals, NotifyTick, EndRun, Destroy
<1> QED
  BY <1>1, <1>2 DEF LoaderInv, Hi, Named

\* The argument that is uninstalled is at the head of the list of modules.
LEMMA UninstallLoader == LoaderInv /\ MainUninstall => LoaderInv'
<1> SUFFICES ASSUME LoaderInv, MainUninstall PROVE LoaderInv'
  OBVIOUS
<1> DEFINE f == Args[unloaded + 1]
<1>1. /\ pc = "done" /\ Hi = Len(Args) /\ Hi \in Nat
      /\ unloaded \in 0 .. Hi /\ unloaded < Hi /\ unloaded' = unloaded + 1
      /\ f \in Algorithms
  BY ArgsAssumption DEF LoaderInv, MainUninstall
<1>2. /\ mod_list \in Seq(Algorithms) /\ Len(mod_list) = Hi - unloaded
      /\ mod_list # <<>> /\ mod_list[1] = f
  <2>1. \A i \in 1 .. Hi - unloaded : Args[unloaded + i] \in Algorithms
    BY <1>1, ArgsAssumption
  <2>2. mod_list = [i \in 1 .. Hi - unloaded |-> Args[unloaded + i]]
    BY DEF LoaderInv
  <2>3. Hi - unloaded \in Nat /\ 1 \in 1 .. Hi - unloaded
    BY <1>1
  <2>4. mod_list \in [1 .. Hi - unloaded -> Algorithms]
    BY <2>1, <2>2
  <2>5. mod_list \in Seq(Algorithms) /\ Len(mod_list) = Hi - unloaded
    BY <2>3, <2>4
  <2> QED
    BY <2>2, <2>3, <2>5
<1>3. UNCHANGED <<pc, algorithm_list>>
  BY DEF MainUninstall, vars, sched_vars
<1>4. /\ mod_list' = Tail(mod_list)
      /\ opened' = [opened EXCEPT ![f] = @ - 1]
      /\ ~crashed'
  BY <1>2, RemoveFirstHead DEF MainUninstall, Loader!isu_module_uninstall, Loader!isu_module_uninstall_mod,
                               Loader!dlclose, LoaderInv
<1>5. mod_list' = [i \in 1 .. Hi - unloaded' |-> Args[unloaded' + i]]
  <2>1. Tail(mod_list) = [i \in 1 .. Len(mod_list) - 1 |-> mod_list[i + 1]]
    <3> DEFINE tail == Tail(mod_list)
    <3>1. tail \in Seq(Algorithms) /\ Len(tail) = Len(mod_list) - 1
      BY <1>2
    <3>2. tail \in [1 .. Len(tail) -> Algorithms]
      BY <3>1, LenProperties
    <3>3. \A i \in 1 .. Len(tail) : tail[i] = mod_list[i + 1]
      BY <1>2, <3>1
    <3> QED
      BY <3>1, <3>2, <3>3
  <2>2. Len(mod_list) - 1 = Hi - unloaded'
    BY <1>1, <1>2
  <2>3. ASSUME NEW i \in 1 .. Hi - unloaded' PROVE mod_list[i + 1] = Args[unloaded' + i]
    <3>1. mod_list = [j \in 1 .. Hi - unloaded |-> Args[unloaded + j]]
      BY <1>1 DEF LoaderInv
    <3>2. i + 1 \in 1 .. Hi - unloaded /\ unloaded + (i + 1) = unloaded' + i
      BY <1>1
    <3> QED
      BY <3>1, <3>2
  <2> QED
    BY <1>4, <2>1, <2>2, <2>3
<1>6. \A g \in Algorithms : opened'[g] = Cardinality(Named(g, unloaded' + 1, Hi))
  <2> TAKE g \in Algorithms
  <2>1. /\ opened[g] = Cardinality(Named(g, unloaded + 1, Hi))
        /\ opened'[g] = IF g = f THEN opened[g] - 1 ELSE opened[g]
    BY <1>1, <1>4 DEF LoaderInv
  <2> QED
    BY <1>1, <2>1, NamedDrop
<1>7. opened' = [g \in Algorithms |-> opened'[g]]
  BY <1>4 DEF LoaderInv
<1>8. Hi' = Hi
  BY <1>3 DEF Hi
<1>9. (opened = [g \in Algorithms |-> Cardinality(Named(g, unloaded + 1, Hi))])'
  BY <1>6, <1>7, <1>8 DEF Named
<1>10. (mod_list = [i \in 1 .. Hi - unloaded |-> Args[unloaded + i]])'
  BY <1>5, <1>8
<1>11. (unloaded \in 0 .. Hi)'
  BY <1>1, <1>8
<1> QED
  BY <1>1, <1>3, <1>4, <1>8, <1>9, <1>10, <1>11 DEF LoaderInv

\* Every algorithm in the list is among the arguments that are open.
LEMMA LoaderEnough == LoaderInv => CodeOutlivesUse
<1> SUFFICES ASSUME LoaderInv PROVE CodeOutlivesUse
  OBVIOUS
<1>1. Hi \in Nat /\ unloaded \in 0 .. Hi
  BY ArgsAssumption DEF LoaderInv, Hi
<1>2. ASSUME pc # "done", NEW i \in 1 .. Hi PROVE opened[algorithm_list[i]] > 0
  <2>1. unloaded = 0 /\ algorithm_list[i] = Args[i] /\ Args[i] \in Algorithms
    BY <1>1, <1>2, ArgsAssumption DEF LoaderInv
  <2> QED
    BY <1>1, <1>2, <2>1, NamedSome DEF LoaderInv
<1>3. ASSUME unloaded = Len(Args) PROVE mod_list = <<>> /\ \A f \in Algorithms : opened[f] = 0
  <2>1. Hi = unloaded
    BY <1>1, <1>3, ArgsAssumption DEF LoaderInv
  <2> QED
    BY <1>1, <2>1, NamedNone DEF LoaderInv
<1> QED
  BY <1>2, <1>3 DEF CodeOutlivesUse, LoaderInv, Hi

\* Whatever the command line, a file named twice included: no call of the scheduler
\* goes into code that was unmapped, and main closes every file it opened.
THEOREM ModulesOutliveUse == MainSpec => []CodeOutlivesUse
<1>1. MainInit => LoaderInv
  BY LoaderInit
<1>2. TypeOK /\ LoaderInv /\ [MainNext]_main_vars => LoaderInv'
  <2> SUFFICES ASSUME TypeOK, LoaderInv, [MainNext]_main_vars PROVE LoaderInv'
    OBVIOUS
  <2>1. CASE MainNext
    BY <2>1, InstallLoader, RunLoader, UninstallLoader DEF MainNext
  <2>2. CASE UNCHANGED main_vars
    BY <2>2 DEF main_vars, vars, sched_vars, LoaderInv, Hi, Named
  <2> QED
    BY <2>1, <2>2
<1>3. MainSpec => []TypeOK
  BY MainImplements, TypeCorrect, PTL
<1> QED
  BY <1>1, <1>2, <1>3, LoaderEnough, PTL DEF MainSpec

-----------------------------------------------------------------------------
(* fcfs is a server with one line. *)

FcfsFirst == Len(Args) > 0 /\ Args[1] = "fcfs"

\* Each run is made with the algorithm of its argument, and the first one begins
\* with the tasks as they were created.
RunInv ==
  /\ pc \in Loop => current_algorithm = Args[alg_index]
  /\ pc \in {"install", "main"} /\ alg_index = 1 => next_task = 1 /\ remaining_time = length

\* No run has begun.
LEMMA RunInvInit == Init => RunInv
BY DEF Init, RunInv, Loop

\* Every step keeps what is known of the runs of fcfs.
LEMMA RunInvStep == IInv /\ RunInv /\ [Next]_vars => RunInv'
<1> SUFFICES ASSUME IInv, RunInv, [Next]_vars PROVE RunInv'
  OBVIOUS
<1>1. CASE Install \/ UNCHANGED vars
  BY <1>1 DEF Install, vars, sched_vars, task_vars, isu_sched_InstallAlgorithm, RunInv, Loop
<1>2. CASE StartRun
  BY <1>2 DEF StartRun, isu_sched_SetAlgorithm, RunInv, Loop
<1>3. CASE Charge \/ Arrive \/ EndArrivals \/ NotifyEnd \/ NotifyTick \/ Switch
  <2>1. /\ pc \in Loop /\ pc' \in Loop
        /\ UNCHANGED <<current_algorithm, alg_index>>
    BY <1>3 DEF Charge, Arrive, EndArrivals, NotifyEnd, NotifyTick, Switch, Loop, sched_vars,
                isu_sched_OnTaskArrive, isu_sched_OnTaskEnd, isu_sched_OnTick
  <2> QED
    BY <2>1 DEF RunInv, Loop
<1>4. CASE EndRun
  <2>1. alg_index' # 1 /\ pc' \notin Loop
    BY <1>4 DEF EndRun, IInv, TypeOK, Loop
  <2> QED
    BY <2>1 DEF RunInv
<1>5. CASE Destroy
  BY <1>5 DEF Destroy, RunInv, Loop
<1> QED
  BY <1>1, <1>2, <1>3, <1>4, <1>5 DEF Next

\* While fcfs runs, one list is in use.
LEMMA FcfsRuns ==
  ASSUME FcfsFirst, PolicyInv, RunInv, ~Over
  PROVE  /\ alg_index = 1
         /\ obj \in AlgObjects /\ obj.lists[0] \in Seq(Tasks) /\ Line \in Seq(Tasks)
         /\ pc \in Loop => current_algorithm = "fcfs" /\ OneLevel(obj) /\ Busy(obj) /\ ~obj.fault
         /\ pc \notin Loop => Line = <<>>
<1>1. alg_index = 1
  BY DEF PolicyInv, IInv, TypeOK, Over
<1>2. obj \in AlgObjects /\ obj.lists[0] \in Seq(Tasks) /\ 0 \in Levels
  <2>1. obj \in AlgObjects
    BY DEF PolicyInv, IInv, TypeOK
  <2>2. 0 \in Levels
    BY PrioritiesAssumption DEF Levels
  <2> QED
    BY <2>1, <2>2 DEF AlgObjects
<1>3. Line \in Seq(Tasks)
  <2>1. (IF obj.running = Idle THEN <<>> ELSE <<obj.running>>) \in Seq(Tasks)
    BY <1>2, RunningIsTask
  <2> QED
    BY <1>2, <2>1, ConcatProperties DEF Line
<1>4. pc \in Loop => current_algorithm = "fcfs" /\ OneLevel(obj) /\ Busy(obj) /\ ~obj.fault
  BY <1>1 DEF FcfsFirst, RunInv, PolicyInv, ServedInv, Served, Filed, FaultOnlyInPrr
<1>5. ASSUME pc \notin Loop PROVE Line = <<>>
  <2>1. Held(obj) = {} /\ obj.running = Idle
    BY <1>5 DEF PolicyInv, IInv, RestPhase
  <2>2. obj.lists[0] = <<>>
    BY <1>2, <2>1, NoneHeld
  <2> QED
    BY <2>1, <2>2 DEF Line
<1> QED
  BY <1>1, <1>2, <1>3, <1>4, <1>5

\* A step of main that the server does not see.
LEMMA FifoStutter ==
  ASSUME ~Over, UNCHANGED <<obj, alg_index, next_task, remaining_time>>
  PROVE  UNCHANGED Fifo!server_vars
BY DEF Fifo!server_vars, Over, Line

\* The server's view of a step of the first run.
LEMMA FifoView ==
  ASSUME ~Over, ~Over'
  PROVE  /\ Fifo!Join <=> /\ next_task - 1 < NumTasks
                          /\ next_task' - 1 = next_task - 1 + 1
                          /\ Line' = Append(Line, next_task - 1 + 1)
                          /\ remaining_time' = remaining_time
         /\ Fifo!Work <=> /\ Line # <<>> /\ remaining_time[Head(Line)] > 0
                          /\ remaining_time' = [remaining_time EXCEPT ![Head(Line)] = @ - 1]
                          /\ Line' = Line /\ next_task' - 1 = next_task - 1
         /\ Fifo!Leave <=> /\ Line # <<>> /\ remaining_time[Head(Line)] = 0
                           /\ Line' = Tail(Line)
                           /\ next_task' - 1 = next_task - 1 /\ remaining_time' = remaining_time
BY DEF Fifo!Join, Fifo!Work, Fifo!Leave

\* Joining behind the first in a line is joining the line.
LEMMA ConsAppend ==
  ASSUME NEW r \in Tasks, NEW s \in Seq(Tasks), NEW t \in Tasks
  PROVE  <<r>> \o Append(s, t) = Append(<<r>> \o s, t)
<1>1. PICK a \in Seq(Tasks), z \in Seq(Tasks) : a = <<r>> /\ z = <<t>>
  <2>1. <<r>> \in Seq(Tasks) /\ <<t>> \in Seq(Tasks)
    OBVIOUS
  <2> QED
    BY <2>1, Zenon
<1>2. Append(s, t) = s \o z
  BY <1>1, AppendIsConcat
<1>3. a \o s \in Seq(Tasks)
  BY ConcatProperties
<1>4. Append(a \o s, t) = (a \o s) \o z
  BY <1>1, <1>3, AppendIsConcat
<1>5. (a \o s) \o z = a \o (s \o z)
  BY ConcatAssociative
<1> QED
  BY <1>1, <1>2, <1>4, <1>5

\* A task arrives and joins the line, whether it waits or is run at once.
LEMMA ArriveJoins ==
  ASSUME FcfsFirst, PolicyInv, RunInv, ~Over, Arrive
  PROVE  Fifo!Join
<1> DEFINE t == next_task
           r == obj.running
           L == obj.lists[0]
           added == PushTail(obj, 0, t)
<1>1. /\ pc \in Loop /\ TypeOK /\ running_task = r /\ current_algorithm = "fcfs"
      /\ OneLevel(obj) /\ Busy(obj) /\ obj \in AlgObjects /\ L \in Seq(Tasks) /\ 0 \in Levels
  <2>1. pc \in Loop
    BY DEF Arrive, Loop
  <2>2. TypeOK /\ running_task = r
    BY <2>1 DEF PolicyInv, IInv, Agreement, Arrive, Loop
  <2>3. 0 \in Levels
    BY PrioritiesAssumption DEF Levels
  <2> QED
    BY <2>1, <2>2, <2>3, FcfsRuns
<1>2. /\ UNCHANGED <<alg_index, remaining_time>> /\ t' = t + 1
      /\ IF running_task = Idle THEN GetNext(added, FALSE) ELSE obj' = added
  BY <1>1 DEF Arrive, task_vars, isu_sched_OnTaskArrive, is_premptive, add_task, fcfs_add_task
<1>3. t \in Tasks /\ t \in Nat /\ t <= NumTasks
  <2>1. t \in 1 .. NumTasks + 1 /\ t <= NumTasks
    BY <1>1 DEF Arrive, TypeOK
  <2> QED
    BY <2>1, TasksAssumption DEF Tasks
<1>4. added.lists[0] = Append(L, t) /\ added.running = r
  <2>1. added.lists[0] = Append(L, t)
    BY <1>1, <1>3, PushTailIs
  <2>2. added.running = r
    BY <1>1, <1>3, PushTailHolds
  <2> QED
    BY <2>1, <2>2
<1>5. added \in AlgObjects
  BY <1>1, <1>3, PushTailHolds
<1> HIDE DEF added
<1>6. Line' = Append(Line, t)
  <2>1. CASE r = Idle
    <3>1. L = <<>>
      BY <1>1, <2>1, NoneHeld DEF Busy
    <3>2. Line = <<>>
      BY <2>1, <3>1 DEF Line
    <3>3. obj' = RunHead(added, 0)
      BY <1>1, <1>2, <1>4, <2>1 DEF GetNext, get_next_task, fcfs_get_next_task
    <3>4. added.lists[0] = <<t>>
      BY <1>4, <3>1
    <3>5. obj'.lists[0] = <<>> /\ obj'.running = t
      <4>1. added.lists[0] # <<>> /\ Tail(added.lists[0]) = <<>> /\ Head(added.lists[0]) = t
        BY <3>4
      <4> QED
        BY <1>1, <1>5, <3>3, <4>1, RunHeadIs
    <3>6. Line' = <<t>>
      <4>1. t # Idle
        BY <1>3, TasksAssumption DEF Tasks, Idle
      <4>2. Line' = <<t>> \o <<>>
        BY <3>5, <4>1 DEF Line
      <4> QED
        BY <1>3, <4>2
    <3> QED
      BY <3>2, <3>6
  <2>2. CASE r # Idle
    <3>1. obj'.lists[0] = Append(L, t) /\ obj'.running = r
      BY <1>1, <1>2, <1>4, <2>2
    <3>2. Line = <<r>> \o L /\ Line' = <<r>> \o Append(L, t)
      BY <2>2, <3>1 DEF Line
    <3>3. r \in Tasks
      BY <1>1, <2>2, RunningIsTask
    <3>4. <<r>> \o Append(L, t) = Append(<<r>> \o L, t)
      BY <1>1, <1>3, <3>3, ConsAppend
    <3> QED
      BY <3>2, <3>4
  <2> QED
    BY <2>1, <2>2
<1>7. ~Over'
  BY <1>2 DEF Over
<1> QED
  BY <1>2, <1>3, <1>6, <1>7, TasksAssumption, FifoView

\* The processor works for the head of the line, or is idle.
LEMMA ChargeWorks ==
  ASSUME FcfsFirst, PolicyInv, RunInv, ~Over, Charge
  PROVE  Fifo!Work \/ UNCHANGED Fifo!server_vars
<1> DEFINE c == current_task
<1>1. /\ pc = "charge" /\ TypeOK /\ ~obj.fault /\ c = obj.running
      /\ UNCHANGED <<obj, alg_index, next_task>>
  BY DEF Charge, PolicyInv, IInv, Agreement, FaultPhase, sched_vars
<1>2. CASE c = Idle
  BY <1>1, <1>2, FifoStutter DEF Charge
<1>3. CASE c # Idle
  <2>1. c \in Tasks /\ c \notin finished
    BY <1>1, <1>3 DEF PolicyInv, IInv, Conservation, Running, TypeOK
  <2>2. remaining_time[c] \in Nat /\ remaining_time[c] # 0
    BY <1>1, <2>1, FieldsOK DEF PolicyInv, IInv, Times
  <2>3. obj.lists[0] \in Seq(Tasks)
    BY FcfsRuns
  <2>4. Line # <<>> /\ Head(Line) = c
    BY <1>1, <1>3, <2>1, <2>3 DEF Line
  <2>5. Line' = Line /\ ~Over'
    BY <1>1 DEF Line, Over
  <2>6. remaining_time' = [remaining_time EXCEPT ![c] = @ - 1]
    BY <1>3 DEF Charge
  <2>7. remaining_time[c] > 0 /\ next_task' - 1 = next_task - 1
    BY <1>1, <2>2
  <2>8. /\ remaining_time[Head(Line)] > 0
        /\ remaining_time' = [remaining_time EXCEPT ![Head(Line)] = @ - 1]
    BY <2>4, <2>6, <2>7
  <2> QED
    BY <2>4, <2>5, <2>7, <2>8, FifoView
<1> QED
  BY <1>2, <1>3

\* The head of the line has had its work, and leaves.
LEMMA NotifyEndLeaves ==
  ASSUME FcfsFirst, PolicyInv, RunInv, ~Over, NotifyEnd
  PROVE  Fifo!Leave
<1> DEFINE c == current_task
           L == obj.lists[0]
<1>1. /\ pc = "notify" /\ TaskDone /\ TypeOK /\ ~obj.fault /\ c = obj.running /\ c # Idle
      /\ remaining_time[c] = 0
      /\ UNCHANGED <<alg_index, next_task, remaining_time>>
      /\ GetNext(obj, TRUE)
  BY DEF NotifyEnd, PolicyInv, IInv, Agreement, FaultPhase, TaskDone, task_vars,
         isu_sched_OnTaskEnd
<1>2. obj \in AlgObjects /\ L \in Seq(Tasks) /\ current_algorithm = "fcfs" /\ 0 \in Levels
  BY <1>1, FcfsRuns, PrioritiesAssumption DEF Loop, Levels
<1>3. obj' = RunHead(obj, 0)
  BY <1>1, <1>2 DEF GetNext, get_next_task, fcfs_get_next_task
<1>4. c \in Tasks
  BY <1>1 DEF TypeOK
<1>5. Line = <<c>> \o L
  BY <1>1 DEF Line
<1>6. Line # <<>> /\ Head(Line) = c /\ Tail(Line) = L
  BY <1>2, <1>4, <1>5
<1>7. Line' = L
  <2>1. CASE L = <<>>
    <3>1. obj'.lists[0] = <<>> /\ obj'.running = Idle
      BY <1>2, <1>3, <2>1, RunHeadIs
    <3> QED
      BY <2>1, <3>1 DEF Line
  <2>2. CASE L # <<>>
    <3>1. obj'.lists[0] = Tail(L) /\ obj'.running = Head(L) /\ obj'.running # Idle
      BY <1>2, <1>3, <2>2, RunHeadIs DEF Tasks, Idle
    <3>2. <<Head(L)>> \o Tail(L) = L
      BY <1>2, <2>2
    <3> QED
      BY <3>1, <3>2 DEF Line
  <2> QED
    BY <2>1, <2>2
<1>8. ~Over'
  BY <1>1 DEF Over
<1> QED
  BY <1>1, <1>6, <1>7, <1>8, FifoView

\* When the run ends the line is empty, everyone has joined and needs nothing.
LEMMA EndRunCloses ==
  ASSUME FcfsFirst, PolicyInv, RunInv, ~Over, EndRun
  PROVE  UNCHANGED Fifo!server_vars
<1>1. /\ IInv' /\ IInv /\ TypeOK /\ alg_index = 1
      /\ UNCHANGED <<obj, next_task, remaining_time, finished>>
      /\ remaining_tasks = 0 /\ alg_index' = 2 /\ pc' \notin Loop
  BY EndRunInv, FcfsRuns DEF PolicyInv, IInv, EndRun, sched_vars, task_vars, Loop
<1>2. Line = <<>>
  <2>1. Held(obj) = {} /\ obj.running = Idle
    BY <1>1, PrimeObj DEF IInv, RestPhase
  <2>2. obj \in AlgObjects /\ 0 \in Levels
    BY <1>1, PrioritiesAssumption DEF TypeOK, Levels
  <2>3. obj.lists[0] = <<>>
    BY <2>1, <2>2, NoneHeld
  <2> QED
    BY <2>1, <2>3 DEF Line
<1>3. finished = Tasks
  <2>1. finished \in SUBSET Tasks
    BY <1>1 DEF TypeOK
  <2>2. Cardinality(finished) \in 0 .. NumTasks
    BY <2>1, TasksFinite
  <2>3. Cardinality(finished) = NumTasks
    BY <1>1, <2>2, TasksAssumption DEF IInv, Count
  <2> QED
    BY <2>1, <2>3, TasksFinite
<1>4. next_task - 1 = NumTasks
  <2>1. NumTasks \in Tasks /\ Tasks \subseteq Arrived
    BY <1>1, <1>3, TasksAssumption DEF IInv, Tasks
  <2>2. next_task \in 1 .. NumTasks + 1
    BY <1>1 DEF TypeOK
  <2> QED
    BY <2>1, <2>2, TasksAssumption DEF Arrived
<1>5. remaining_time = [t \in Tasks |-> 0]
  <2>1. \A t \in Tasks : remaining_time[t] = 0
    BY <1>1, <1>3 DEF IInv, Times
  <2>2. remaining_time \in [Tasks -> 0 .. MaxLength]
    BY <1>1 DEF TypeOK
  <2> QED
    BY <2>1, <2>2
<1>6. Over' /\ ~Over
  BY <1>1 DEF Over
<1> QED
  BY <1>2, <1>4, <1>5, <1>6 DEF Fifo!server_vars, Tasks

\* Every step of main is a step of the server, or one it does not see.
LEMMA FifoStep ==
  ASSUME FcfsFirst, PolicyInv, RunInv, [Next]_vars
  PROVE  [Fifo!ServerNext]_(Fifo!server_vars)
<1>1. CASE Over
  <2>1. Over'
    BY <1>1 DEF PolicyInv, IInv, TypeOK, Over, Next, Install, StartRun, Charge, Arrive,
                EndArrivals, NotifyEnd, NotifyTick, Switch, EndRun, Destroy, vars
  <2> QED
    BY <1>1, <2>1 DEF Fifo!server_vars
<1>2. CASE ~Over
  <2>1. CASE UNCHANGED vars \/ Install \/ EndArrivals \/ Switch
    <3>1. UNCHANGED <<obj, alg_index, next_task, remaining_time>>
      BY <2>1 DEF vars, sched_vars, task_vars, Install, EndArrivals, Switch,
                  isu_sched_InstallAlgorithm
    <3> QED
      BY <1>2, <3>1, FifoStutter
  <2>2. CASE NotifyTick
    <3>1. current_algorithm = "fcfs"
      BY <1>2, <2>2, FcfsRuns DEF NotifyTick, Loop
    <3>2. UNCHANGED <<obj, alg_index, next_task, remaining_time>>
      BY <2>2, <3>1 DEF NotifyTick, isu_sched_OnTick, quantum, task_vars
    <3> QED
      BY <1>2, <3>2, FifoStutter
  <2>3. CASE StartRun
    <3>1. Line = <<>> /\ next_task = 1 /\ remaining_time = length
      BY <1>2, <2>3, FcfsRuns DEF StartRun, RunInv, Loop
    <3>2. PolicyInv' /\ obj'.running = Idle
      BY <2>3, StartRunServed, PolicyNext DEF Next
    <3>3. obj'.lists[0] = <<>>
      <4>1. obj' \in AlgObjects /\ Busy(obj)' /\ 0 \in Levels
        BY <2>3, <3>2, PrioritiesAssumption
        DEF StartRun, PolicyInv, IInv, TypeOK, ServedInv, Served, Loop, Levels
      <4>2. Held(obj') = {}
        BY <3>2, <4>1, PrimeObj DEF Busy
      <4> QED
        BY <4>1, <4>2, NoneHeld
    <3>4. Line' = <<>>
      BY <3>2, <3>3 DEF Line
    <3>5. next_task' = 1 /\ remaining_time' = length /\ ~Over'
      BY <1>2, <2>3 DEF StartRun, Over
    <3> QED
      BY <1>2, <3>1, <3>4, <3>5 DEF Fifo!server_vars
  <2>4. ~Destroy
    BY <1>2, FcfsRuns, ArgsAssumption, LenProperties DEF Destroy, FcfsFirst
  <2> QED
    BY <1>2, <2>1, <2>2, <2>3, <2>4, ChargeWorks, ArriveJoins, NotifyEndLeaves, EndRunCloses
    DEF Next, Fifo!ServerNext
<1> QED
  BY <1>1, <1>2

\* Before the first run the server has no customers.
LEMMA FifoInit == ASSUME Init, FcfsFirst PROVE Fifo!ServerInit
<1>1. obj.lists[0] = <<>> /\ obj.running = Idle
  BY PrioritiesAssumption DEF Init, isu_sched_Init, EmptyObj, Levels
<1>2. ~Over /\ Line = <<>> /\ next_task - 1 = 0
  BY <1>1 DEF Init, Over, Line
<1>3. remaining_time \in [1 .. NumTasks -> 1 .. MaxLength]
  BY DEF Init, Tasks
<1> QED
  BY <1>2, <1>3 DEF Fifo!ServerInit

\* With fcfs first on the command line the simulation is a server with one line:
\* tasks are served in the order in which they arrived, each to its end.  (What the
\* server must eventually do is checked by TLC: the fairness part of FcfsIsFifo.)
THEOREM FcfsImplementsServer ==
  ASSUME FcfsFirst
  PROVE  MainSpec => Fifo!ServerSafety
<1>1. Init => Fifo!ServerInit
  BY FifoInit
<1>2. PolicyInv /\ RunInv /\ [Next]_vars => [Fifo!ServerNext]_(Fifo!server_vars)
  BY FifoStep
<1>3. IInv /\ RunInv /\ [Next]_vars => RunInv'
  BY RunInvStep
<1>4. PolicyInv => IInv
  BY DEF PolicyInv
<1>5. Spec => Fifo!ServerSafety
  BY <1>1, <1>2, <1>3, <1>4, RunInvInit, PolicyInvariant, PTL DEF Spec, Fifo!ServerSafety
<1> QED
  BY <1>5, MainImplements, PTL

-----------------------------------------------------------------------------
(* Starting and stopping with tasks: what start is given and stop gives back. *)

\* An object with one list in use.
LEMMA OneListObject ==
  ASSUME NEW s \in Seq(Tasks), Injective(s)
  PROVE  LET n == [EmptyObj EXCEPT !.lists[0] = s]
         IN  /\ n \in AlgObjects
             /\ Held(n) = Elems(s)
             /\ HeldOnce(n)
             /\ n.running = Idle
             /\ ~n.fault
             /\ OneLevel(n)
             /\ n.lists[0] = s
<1>. DEFINE n == [EmptyObj EXCEPT !.lists[0] = s]
<1>0. 0 \in Levels  BY PrioritiesAssumption DEF Levels
<1>1. \A l \in Levels : EmptyObj.lists[l] = <<>>  BY DEF EmptyObj
<1>2. /\ n \in AlgObjects
      /\ n.lists[0] = s
      /\ \A k \in Levels \ {0} : n.lists[k] = <<>>
      /\ n.running = Idle
      /\ ~n.fault
  BY <1>0, <1>1, EmptyObjHolds, SetList DEF EmptyObj
<1>. HIDE DEF n
<1>3. OneLevel(n)  BY <1>2 DEF OneLevel
<1>4. Held(n) = Elems(s)  BY <1>2, <1>3, HeldInFirst
<1>5. HeldOnce(n)
  <2>1. \A l \in Levels : \A i \in DOMAIN n.lists[l] : l = 0  BY <1>2
  <2>. QED  BY <1>2, <2>1 DEF HeldOnce, Injective
<1>. QED  BY <1>2, <1>3, <1>4, <1>5 DEF n

\* What srtn_start makes of the old list: the same tasks, in order.
LEMMA SortIs ==
  ASSUME NEW s \in Seq(Tasks), Injective(s), TaskFields
  PROVE  LET n == FoldLeft(InsertSorted, <<>>, s)
         IN  n \in Seq(Tasks) /\ Elems(n) = Elems(s) /\ Injective(n) /\ Sorted(n)
<1>0. DOMAIN s = 1 .. Len(s) /\ Len(s) \in Nat /\ \A i \in 1 .. Len(s) : s[i] \in Tasks
  BY LenProperties, ElementOfSeq
<1>1. PICK v : /\ v[0] = <<>>
               /\ \A k \in 1 .. Len(s) : v[k] = InsertSorted(v[k - 1], s[k])
               /\ v[Len(s)] = FoldLeft(InsertSorted, <<>>, s)
  BY SortSteps
<1>. DEFINE Good(k) == /\ v[k] \in Seq(Tasks)
                       /\ Elems(v[k]) = {s[i] : i \in 1 .. k}
                       /\ Injective(v[k])
                       /\ Sorted(v[k])
            S == {k \in 0 .. Len(s) : Good(k)}
<1>2. Good(0)
  <2>1. <<>> \in Seq(Tasks) /\ DOMAIN <<>> = {}  BY EmptySeq
  <2>. QED  BY <1>1, <2>1 DEF Elems, Injective, Sorted
<1>3. ASSUME NEW k \in 1 .. Len(s), Good(k - 1)  PROVE Good(k)
  <2>. DEFINE u == v[k - 1]  t == s[k]
  <2>1. u \in Seq(Tasks) /\ Injective(u) /\ Sorted(u) /\ Elems(u) = {s[i] : i \in 1 .. k - 1}
    BY <1>3
  <2>2. t \in Tasks /\ t \notin Elems(u)
    <3>1. \A i \in 1 .. k - 1 : s[i] # s[k]  BY <1>0 DEF Injective
    <3>. QED  BY <1>0, <2>1, <3>1
  <2>3. v[k] = InsertSorted(u, t)  BY <1>1
  <2>. HIDE DEF u
  <2>4. /\ InsertSorted(u, t) \in Seq(Tasks)
        /\ Elems(InsertSorted(u, t)) = Elems(u) \cup {t}
        /\ Injective(InsertSorted(u, t))
        /\ Sorted(InsertSorted(u, t))
    BY <2>1, <2>2, InsertSortedElems, InsertKeepsSorted
  <2>5. {s[i] : i \in 1 .. k} = {s[i] : i \in 1 .. k - 1} \cup {s[k]}
    <3>1. 1 .. k = (1 .. k - 1) \cup {k}  BY <1>0
    <3>. QED  BY <3>1
  <2>. QED  BY <2>1, <2>3, <2>4, <2>5
<1>4. Len(s) \in S
  <2>1. 0 \in S  BY <1>0, <1>2
  <2>2. \A k \in 1 .. Len(s) : k - 1 \in S => k \in S
    <3>. HIDE DEF Good
    <3>. QED  BY <1>0, <1>3
  <2>. HIDE DEF S
  <2>. QED  BY <1>0, <2>1, <2>2, UpTo
<1>. QED  BY <1>0, <1>1, <1>4 DEF Elems

\* What prr_start makes of the old list: the same tasks, each under its priority.
LEMMA PrrStartIs ==
  ASSUME NEW s \in Seq(Tasks), Injective(s), TaskFields
  PROVE  LET n == prr_start(s)
         IN  /\ n \in AlgObjects /\ Held(n) = Elems(s) /\ HeldOnce(n)
             /\ n.running = Idle /\ ~n.fault /\ Filed("prr", n)
<1>0. DOMAIN s = 1 .. Len(s) /\ Len(s) \in Nat /\ \A i \in 1 .. Len(s) : s[i] \in Tasks
  BY LenProperties, ElementOfSeq
<1>1. PICK v : /\ v[0] = EmptyObj
               /\ \A k \in 1 .. Len(s) : v[k] = prr_add_task(v[k - 1], s[k])
               /\ v[Len(s)] = prr_start(s)
  BY PrrStartSteps
<1>. DEFINE Good(k) == /\ v[k] \in AlgObjects
                       /\ Held(v[k]) = {s[i] : i \in 1 .. k}
                       /\ HeldOnce(v[k])
                       /\ v[k].running = Idle /\ v[k].fault = FALSE
                       /\ Filed("prr", v[k])
            S == {k \in 0 .. Len(s) : Good(k)}
<1>2. Good(0)
  <2>1. \A l \in Levels : EmptyObj.lists[l] = <<>>  BY DEF EmptyObj
  <2>2. Filed("prr", EmptyObj)  BY <2>1 DEF Filed, OwnLevel, Elems
  <2>3. EmptyObj.running = Idle /\ EmptyObj.fault = FALSE  BY DEF EmptyObj
  <2>. QED  BY <1>1, <2>2, <2>3, EmptyObjHolds DEF Unique
<1>3. ASSUME NEW k \in 1 .. Len(s), Good(k - 1)  PROVE Good(k)
  <2>. DEFINE u == v[k - 1]  t == s[k]
  <2>1. /\ u \in AlgObjects /\ Held(u) = {s[i] : i \in 1 .. k - 1} /\ HeldOnce(u)
        /\ u.running = Idle /\ u.fault = FALSE /\ Filed("prr", u)
    BY <1>3
  <2>2. t \in Tasks /\ t \notin Held(u)
    <3>1. \A i \in 1 .. k - 1 : s[i] # s[k]  BY <1>0 DEF Injective
    <3>. QED  BY <1>0, <2>1, <3>1
  <2>3. v[k] = prr_add_task(u, t)  BY <1>1
  <2>. HIDE DEF u
  <2>4. /\ v[k] \in AlgObjects
        /\ Held(v[k]) = Held(u) \cup {t}
        /\ HeldOnce(v[k])
        /\ v[k].running = u.running
        /\ v[k].fault = u.fault
    BY <2>1, <2>2, <2>3, PrrAddHolds
  <2>5. Filed("prr", v[k])
    <3>1. v[k] = add_task("prr", u, t)  BY <2>3 DEF add_task
    <3>. QED  BY <2>1, <2>2, <3>1, AddFiled DEF Algorithms
  <2>6. {s[i] : i \in 1 .. k} = {s[i] : i \in 1 .. k - 1} \cup {s[k]}
    <3>1. 1 .. k = (1 .. k - 1) \cup {k}  BY <1>0
    <3>. QED  BY <3>1
  <2>. QED  BY <2>1, <2>4, <2>5, <2>6
<1>4. Len(s) \in S
  <2>1. 0 \in S  BY <1>0, <1>2
  <2>2. \A k \in 1 .. Len(s) : k - 1 \in S => k \in S
    <3>. HIDE DEF Good
    <3>. QED  BY <1>0, <1>3
  <2>. HIDE DEF S
  <2>. QED  BY <1>0, <2>1, <2>2, UpTo
<1>. QED  BY <1>0, <1>1, <1>4 DEF Elems

\* current_algorithm->start: the tasks it is given are ready, filed where the new
\* algorithm looks for them.
LEMMA StartHolds ==
  ASSUME NEW a \in Algorithms, NEW s \in Seq(Tasks), Injective(s), TaskFields
  PROVE  LET n == start(a, s)
         IN  /\ n \in AlgObjects /\ Held(n) = Elems(s) /\ HeldOnce(n)
             /\ n.running = Idle /\ ~n.fault /\ Filed(a, n)
<1>1. CASE a \in {"fcfs", "rr"}
  <2>1. start(a, s) = [EmptyObj EXCEPT !.lists[0] = s]
    BY <1>1 DEF start, fcfs_start, rr_start
  <2>. QED  BY <1>1, <2>1, OneListObject DEF Filed
<1>2. CASE a = "srtn" /\ s # <<>>
  <2>. DEFINE q == FoldLeft(InsertSorted, <<>>, s)
  <2>1. start(a, s) = [EmptyObj EXCEPT !.lists[0] = q]
    BY <1>2 DEF start, srtn_start
  <2>2. q \in Seq(Tasks) /\ Elems(q) = Elems(s) /\ Injective(q) /\ Sorted(q)  BY SortIs
  <2>. HIDE DEF q
  <2>. QED  BY <1>2, <2>1, <2>2, OneListObject DEF Filed
<1>3. CASE a = "srtn" /\ s = <<>>
  <2>1. start(a, s) = EmptyObj  BY <1>3 DEF start, srtn_start
  <2>2. \A l \in Levels : EmptyObj.lists[l] = <<>>  BY DEF EmptyObj
  <2>3. 0 \in Levels  BY PrioritiesAssumption DEF Levels
  <2>4. Filed(a, EmptyObj)  BY <1>3, <2>2, <2>3 DEF Filed, OneLevel, Sorted
  <2>5. Elems(s) = {}  BY <1>3 DEF Elems
  <2>6. EmptyObj.running = Idle  BY DEF EmptyObj
  <2>. QED  BY <2>1, <2>4, <2>5, <2>6, EmptyObjHolds DEF Unique
<1>4. CASE a = "prr"
  BY <1>4, PrrStartIs DEF start
<1>. QED  BY <1>1, <1>2, <1>3, <1>4 DEF Algorithms

\* A list after another.
LEMMA ConcatElems ==
  ASSUME NEW s \in Seq(Tasks), NEW t \in Seq(Tasks)
  PROVE  /\ s \o t \in Seq(Tasks)
         /\ Elems(s \o t) = Elems(s) \cup Elems(t)
         /\ Injective(s) /\ Injective(t) /\ Elems(s) \cap Elems(t) = {} => Injective(s \o t)
<1>. DEFINE n == s \o t
<1>1. /\ n \in Seq(Tasks)
      /\ DOMAIN n = 1 .. Len(s) + Len(t)
      /\ DOMAIN s = 1 .. Len(s)
      /\ DOMAIN t = 1 .. Len(t)
      /\ Len(s) \in Nat /\ Len(t) \in Nat
      /\ \A i \in 1 .. Len(s) + Len(t) : n[i] = IF i <= Len(s) THEN s[i] ELSE t[i - Len(s)]
  BY ConcatProperties, LenProperties
<1>. HIDE DEF n
<1>2. ASSUME NEW i \in DOMAIN n
      PROVE  \/ i \in DOMAIN s /\ n[i] = s[i] /\ n[i] \in Elems(s)
             \/ i - Len(s) \in DOMAIN t /\ n[i] = t[i - Len(s)] /\ n[i] \in Elems(t)
  <2>1. CASE i <= Len(s)
    <3>1. i \in DOMAIN s /\ n[i] = s[i]  BY <1>1, <2>1
    <3>. QED  BY <3>1 DEF Elems
  <2>2. CASE ~(i <= Len(s))
    <3>1. i - Len(s) \in DOMAIN t /\ n[i] = t[i - Len(s)]  BY <1>1, <2>2
    <3>. QED  BY <3>1 DEF Elems
  <2>. QED  BY <2>1, <2>2
<1>3. Elems(n) = Elems(s) \cup Elems(t)
  <2>1. Elems(n) \subseteq Elems(s) \cup Elems(t)  BY <1>2 DEF Elems
  <2>2. ASSUME NEW x \in Elems(s)  PROVE x \in Elems(n)
    <3>1. PICK i \in 1 .. Len(s) : s[i] = x  BY <1>1 DEF Elems
    <3>2. i \in DOMAIN n /\ n[i] = x  BY <1>1, <3>1
    <3>. QED  BY <3>2 DEF Elems
  <2>3. ASSUME NEW x \in Elems(t)  PROVE x \in Elems(n)
    <3>1. PICK i \in 1 .. Len(t) : t[i] = x  BY <1>1 DEF Elems
    <3>2. i + Len(s) \in 1 .. Len(s) + Len(t) /\ ~(i + Len(s) <= Len(s)) /\ (i + Len(s)) - Len(s) = i
      BY <1>1
    <3>3. n[i + Len(s)] = x  BY <1>1, <3>1, <3>2
    <3>. QED  BY <1>1, <3>2, <3>3 DEF Elems
  <2>. QED  BY <2>1, <2>2, <2>3
<1>4. ASSUME Injective(s), Injective(t), Elems(s) \cap Elems(t) = {}
      PROVE  Injective(n)
  <2>. SUFFICES ASSUME NEW i \in DOMAIN n, NEW j \in DOMAIN n, n[i] = n[j]  PROVE i = j
    BY DEF Injective
  <2>1. CASE i \in DOMAIN s /\ n[i] = s[i] /\ n[i] \in Elems(s)
    <3>1. j \in DOMAIN s /\ n[j] = s[j]  BY <1>2, <1>4, <2>1
    <3>. QED  BY <1>4, <2>1, <3>1 DEF Injective
  <2>2. CASE i - Len(s) \in DOMAIN t /\ n[i] = t[i - Len(s)] /\ n[i] \in Elems(t)
    <3>1. j - Len(s) \in DOMAIN t /\ n[j] = t[j - Len(s)]  BY <1>2, <1>4, <2>2
    <3>2. i - Len(s) = j - Len(s)  BY <1>4, <2>2, <3>1 DEF Injective
    <3>. QED  BY <1>1, <3>2
  <2>. QED  BY <1>2, <2>1, <2>2
<1>. QED  BY <1>1, <1>3, <1>4 DEF n

\* FlattenSeq puts one list after another.
LEMMA FlattenSteps ==
  ASSUME NEW q \in Seq(Seq(Tasks)), Len(q) # 0
  PROVE  \E v : /\ v[1] = q[1]
                /\ \A k \in 2 .. Len(q) : v[k] = v[k - 1] \o q[k]
                /\ v[Len(q)] = FlattenSeq(q)
<1>0. Len(q) \in Nat /\ \A k \in 1 .. Len(q) : q[k] \in Seq(Tasks)
  BY LenProperties, ElementOfSeq
<1>. DEFINE X == Seq(Tasks)
            Is(f, k) == f[k] = IF k = 1 THEN q[k] ELSE f[k - 1] \o q[k]
            Done == {n \in Nat : \E f \in [1 .. n -> X] : \A k \in 1 .. n : Is(f, k)}
            flatten == CHOOSE f : f = [k \in 1 .. Len(q) |-> IF k = 1 THEN q[k] ELSE f[k - 1] \o q[k]]
<1>1. 0 \in Done
  <2>1. [k \in 1 .. 0 |-> <<>>] \in [1 .. 0 -> X]  OBVIOUS
  <2>2. \A k \in 1 .. 0 : FALSE  OBVIOUS
  <2>. QED  BY <2>1, <2>2
<1>2. ASSUME NEW n \in 1 .. Len(q), n - 1 \in Done  PROVE n \in Done
  <2>1. PICK f \in [1 .. n - 1 -> X] : \A k \in 1 .. n - 1 : Is(f, k)  BY <1>2
  <2>. DEFINE last == IF n = 1 THEN q[n] ELSE f[n - 1] \o q[n]
              h == [k \in 1 .. n |-> IF k = n THEN last ELSE f[k]]
  <2>2. last \in X
    <3>1. CASE n = 1  BY <1>0, <3>1
    <3>2. CASE n # 1
      <4>1. f[n - 1] \in Seq(Tasks) /\ q[n] \in Seq(Tasks)  BY <1>0, <3>2
      <4>. QED  BY <3>2, <4>1, ConcatElems
    <3>. QED  BY <3>1, <3>2
  <2>. HIDE DEF last
  <2>3. \A k \in 1 .. n : k # n => k \in 1 .. n - 1  BY <1>0
  <2>4. h \in [1 .. n -> X]  BY <2>2, <2>3
  <2>5. ASSUME NEW k \in 1 .. n  PROVE Is(h, k)
    <3>1. k # 1 => k - 1 \in 1 .. n - 1 /\ h[k - 1] = f[k - 1]  BY <1>0
    <3>2. CASE k = n
      <4>1. h[k] = last  BY <3>2
      <4>. HIDE DEF h
      <4>. QED  BY <3>1, <3>2, <4>1 DEF last
    <3>3. CASE k # n
      <4>1. h[k] = f[k] /\ Is(f, k)  BY <2>1, <2>3, <3>3
      <4>. HIDE DEF h
      <4>. QED  BY <3>1, <4>1
    <3>. QED  BY <3>2, <3>3
  <2>6. \E f2 \in [1 .. n -> X] : \A k \in 1 .. n : Is(f2, k)
    <3>. HIDE DEF h
    <3>. QED  BY <2>4, <2>5, Zenon
  <2>7. n \in Nat  BY <1>0
  <2>. QED  BY <2>6, <2>7
<1>3. Len(q) \in Done
  <2>. HIDE DEF Done
  <2>. QED  BY <1>0, <1>1, <1>2, UpTo
<1>4. PICK f \in [1 .. Len(q) -> X] : \A k \in 1 .. Len(q) : Is(f, k)
  BY <1>3
<1>5. f = [k \in 1 .. Len(q) |-> IF k = 1 THEN q[k] ELSE f[k - 1] \o q[k]]
  BY <1>4
<1>6. flatten = [k \in 1 .. Len(q) |-> IF k = 1 THEN q[k] ELSE flatten[k - 1] \o q[k]]
  BY <1>5
<1>7. FlattenSeq(q) = flatten[Len(q)]
  BY DEF FlattenSeq
<1>. HIDE DEF flatten
<1>8. flatten[1] = q[1]  BY <1>0, <1>6
<1>9. ASSUME NEW k \in 2 .. Len(q)  PROVE flatten[k] = flatten[k - 1] \o q[k]
  <2>1. k \in 1 .. Len(q) /\ k # 1  BY <1>0
  <2>. QED  BY <1>6, <2>1
<1>. QED  BY <1>7, <1>8, <1>9

\* What prr_stop gives back: the tasks of all lists.
LEMMA PrrStopIs ==
  ASSUME NEW o \in AlgObjects, HeldOnce(o)
  PROVE  prr_stop(o) \in Seq(Tasks) /\ Elems(prr_stop(o)) = Held(o) /\ Injective(prr_stop(o))
<1>1. CASE \A l \in Levels : o.lists[l] = <<>>
  <2>1. prr_stop(o) = <<>> /\ Held(o) = {}  BY <1>1, NoneHeld DEF prr_stop
  <2>2. <<>> \in Seq(Tasks) /\ DOMAIN <<>> = {}  BY EmptySeq
  <2>. QED  BY <2>1, <2>2 DEF Elems, Injective
<1>2. CASE ~ \A l \in Levels : o.lists[l] = <<>>
  <2>. DEFINE N == NumPriorities
              q == [i \in 1 .. N |-> o.lists[i - 1]]
              r == prr_stop(o)
  <2>1. N \in Nat \ {0}  BY PrioritiesAssumption
  <2>2. \A i \in 1 .. N : i - 1 \in Levels /\ o.lists[i - 1] \in Seq(Tasks)
    BY <2>1 DEF Levels, AlgObjects
  <2>3. q \in Seq(Seq(Tasks)) /\ Len(q) = N /\ \A i \in 1 .. N : q[i] = o.lists[i - 1]
    <3>1. q \in [1 .. N -> Seq(Tasks)]  BY <2>2
    <3>. QED  BY <2>1, <3>1, SeqDef, LenProperties
  <2>4. r = FlattenSeq(q)  BY <1>2 DEF prr_stop
  <2>. HIDE DEF q, r, N
  <2>5. PICK v : v[1] = q[1] /\ (\A k \in 2 .. N : v[k] = v[k - 1] \o q[k]) /\ v[N] = r
    BY <2>1, <2>3, <2>4, FlattenSteps
  <2>. DEFINE Good(k) == /\ v[k] \in Seq(Tasks)
                         /\ \A t : t \in Elems(v[k]) <=> \E i \in 1 .. k : t \in Elems(q[i])
                         /\ Injective(v[k])
              S == {k \in 0 .. N : k = 0 \/ Good(k)}
  <2>6. ASSUME NEW i \in 1 .. N  PROVE q[i] \in Seq(Tasks) /\ Injective(q[i])
    BY <2>2, <2>3, OneList
  <2>7. ASSUME NEW i \in 1 .. N, NEW j \in 1 .. N, i # j  PROVE Elems(q[i]) \cap Elems(q[j]) = {}
    <3>. SUFFICES ASSUME NEW t \in Elems(q[i]), t \in Elems(q[j])  PROVE FALSE  OBVIOUS
    <3>1. PICK x \in DOMAIN q[i], y \in DOMAIN q[j] : q[i][x] = t /\ q[j][y] = t  BY DEF Elems
    <3>2. /\ i - 1 \in Levels /\ j - 1 \in Levels
          /\ x \in DOMAIN o.lists[i - 1] /\ y \in DOMAIN o.lists[j - 1]
          /\ o.lists[i - 1][x] = o.lists[j - 1][y]
      BY <2>2, <2>3, <3>1
    <3>3. i - 1 = j - 1  BY <3>2 DEF HeldOnce
    <3>. QED  BY <2>1, <2>7, <3>3
  <2>8. Good(1)
    <3>1. 1 \in 1 .. N /\ \A i \in 1 .. 1 : i = 1  BY <2>1
    <3>. QED  BY <2>5, <2>6, <3>1
  <2>9. ASSUME NEW k \in 2 .. N, Good(k - 1)  PROVE Good(k)
    <3>. DEFINE u == v[k - 1]
    <3>1. k \in 1 .. N /\ \A i \in 1 .. k : i \in 1 .. N /\ (i = k \/ i \in 1 .. k - 1)  BY <2>1
    <3>2. v[k] = u \o q[k]  BY <2>5
    <3>3. /\ u \in Seq(Tasks) /\ Injective(u)
          /\ \A t : t \in Elems(u) <=> \E i \in 1 .. k - 1 : t \in Elems(q[i])
      BY <2>9
    <3>. HIDE DEF u
    <3>4. Elems(u) \cap Elems(q[k]) = {}
      <4>1. \A i \in 1 .. k - 1 : i \in 1 .. N /\ i # k  BY <2>1
      <4>2. \A i \in 1 .. k - 1 : Elems(q[i]) \cap Elems(q[k]) = {}  BY <2>7, <3>1, <4>1
      <4>. QED  BY <3>3, <4>2
    <3>5. v[k] \in Seq(Tasks) /\ Injective(v[k]) /\ Elems(v[k]) = Elems(u) \cup Elems(q[k])
      BY <2>6, <3>1, <3>2, <3>3, <3>4, ConcatElems
    <3>6. 1 .. k = (1 .. k - 1) \cup {k}  BY <3>1
    <3>. QED  BY <3>3, <3>5, <3>6
  <2>10. N \in S
    <3>1. 0 \in S  BY <2>1
    <3>2. ASSUME NEW k \in 1 .. N, k - 1 \in S  PROVE k \in S
      <4>1. CASE k = 1
        <5>. HIDE DEF Good
        <5>. QED  BY <2>1, <2>8, <4>1
      <4>2. CASE k # 1
        <5>1. k \in 2 .. N /\ k - 1 # 0  BY <2>1, <4>2
        <5>. HIDE DEF Good
        <5>2. Good(k - 1)  BY <3>2, <5>1
        <5>. QED  BY <2>1, <2>9, <5>1, <5>2
      <4>. QED  BY <4>1, <4>2
    <3>. HIDE DEF S
    <3>. QED  BY <2>1, <3>1, <3>2, UpTo
  <2>11. Good(N)  BY <2>1, <2>10
  <2>12. Elems(r) = Held(o)
    <3>1. \A t : t \in Elems(r) <=> \E i \in 1 .. N : t \in Elems(o.lists[i - 1])
      BY <2>3, <2>5, <2>11
    <3>2. \A l \in Levels : l + 1 \in 1 .. N /\ (l + 1) - 1 = l  BY <2>1 DEF Levels, N
    <3>3. \A t : t \in Held(o) <=> \E l \in Levels : t \in Elems(o.lists[l])  BY HeldIff
    <3>. QED  BY <2>2, <3>1, <3>2, <3>3
  <2>. QED  BY <2>5, <2>11, <2>12 DEF r
<1>. QED  BY <1>1, <1>2

\* current_algorithm->stop gives back the ready tasks, each once.
LEMMA StopHolds ==
  ASSUME NEW a \in Algorithms, NEW o \in AlgObjects, HeldOnce(o), Filed(a, o)
  PROVE  stop(a, o) \in Seq(Tasks) /\ Elems(stop(a, o)) = Held(o) /\ Injective(stop(a, o))
<1>1. CASE a # "prr"
  <2>1. stop(a, o) = o.lists[0]  BY <1>1 DEF stop, fcfs_stop, rr_stop, srtn_stop, Algorithms
  <2>2. 0 \in Levels  BY PrioritiesAssumption DEF Levels
  <2>. QED  BY <1>1, <2>1, <2>2, HeldInFirst, OneList DEF Filed
<1>2. CASE a = "prr"  BY <1>2, PrrStopIs DEF stop
<1>. QED  BY <1>1, <1>2

-----------------------------------------------------------------------------
(* The framework under any caller that respects its interface. *)

\* The tasks the framework may still dereference.
Owned == Held(obj) \cup ({running_task} \ {Idle})

\* The inductive invariant of the framework: the tasks it holds or runs have arrived and are
\* not destroyed, and the object of the algorithm in use is one its methods can take.
ApiInv ==
  /\ ApiTypeOK
  /\ \A t \in Tasks : remaining_time[t] + run_time[t] <= MaxTicks
  /\ HeldOnce(obj)
  /\ running_task \notin Held(obj)
  /\ obj.running \in {Idle, running_task}
  /\ Selected => Filed(current_algorithm, obj)
  /\ ~Selected => Held(obj) = {}
  /\ destroyed \cap Owned = {}
  /\ Owned \cup destroyed \subseteq 1 .. next_arrival - 1

\* What the lemmas on the algorithms assume of the task fields.
LEMMA ApiFields == ApiTypeOK => TaskFields
BY MaxTicksAssumption DEF ApiTypeOK, TaskFields

\* get_next_task, also when it faults: it holds and runs no task it did not have.
LEMMA NextSafe ==
  ASSUME NEW a \in Algorithms, NEW o \in AlgObjects, NEW remove \in BOOLEAN,
         NEW n \in get_next_task(a, o, remove), TaskFields, Filed(a, o), ~o.fault, Unique(o)
  PROVE  /\ n \in AlgObjects
         /\ Unique(n)
         /\ Held(n) \cup Running(n) \subseteq Held(o) \cup Running(o)
         /\ Filed(a, n)
<1>1. n \in AlgObjects /\ Filed(a, n)  BY GetNextHolds, NextWell
<1>2. CASE ~n.fault
  <2>1. NextHolds(o, remove, n)  BY <1>2, GetNextHolds
  <2>. QED  BY <1>1, <2>1 DEF NextHolds
<1>3. CASE n.fault /\ a # "prr"
  <2>1. a = "srtn" /\ ~remove /\ o.running # Idle /\ o.lists[0] = <<>>
    BY <1>3, NextWell
  <2>2. n = [o EXCEPT !.fault = TRUE]
    BY <2>1 DEF get_next_task, srtn_get_next_task
  <2>3. n.lists = o.lists /\ n.running = o.running  BY <2>2 DEF AlgObjects
  <2>. QED  BY <1>1, <2>3 DEF Unique, HeldOnce, Held, Running
<1>4. CASE n.fault /\ a = "prr"
  <2>1. Held(n) = {}  BY <1>4, NextWell
  <2>2. n.running = o.running
    <3>1. CASE n \in RunHighest(o)
      <4>1. n # RunHead(o, 0) /\ \A l \in Levels : n # RunHead(o, l)
        BY <1>4, RunHeadHolds, PrioritiesAssumption DEF Levels
      <4>. QED  BY <3>1, <4>1, RunHighestIs DEF AlgObjects
    <3>2. CASE o.running # Idle /\ n \in RunHighest(prr_add_task(o, o.running))
      <4>. DEFINE m == prr_add_task(o, o.running)
      <4>1. m \in AlgObjects /\ m.running = o.running /\ ~m.fault
        BY <3>2, RunningIsTask, PrrAddHolds
      <4>. HIDE DEF m
      <4>2. \A l \in Levels : n # RunHead(m, l)  BY <4>1, <1>4, RunHeadHolds
      <4>3. n = [m EXCEPT !.fault = TRUE]  BY <3>2, <4>2, RunHighestIs DEF m
      <4>. QED  BY <4>1, <4>3 DEF AlgObjects
    <3>3. CASE n = o  BY <3>3
    <3>. QED  BY <1>4, <3>1, <3>2, <3>3 DEF get_next_task, prr_get_next_task
  <2>3. \A l \in Levels : n.lists[l] = <<>>  BY <1>1, <2>1, NoneHeld
  <2>4. HeldOnce(n)  BY <2>3 DEF HeldOnce
  <2>. QED  BY <1>1, <2>1, <2>2, <2>4 DEF Unique, Running
<1>. QED  BY <1>2, <1>3, <1>4

\* Nothing is selected or held at first.
LEMMA ApiInitInv == ApiInit => ApiInv
<1>. SUFFICES ASSUME ApiInit  PROVE ApiInv  OBVIOUS
<1>1. ApiTypeOK
  <2>1. 1 .. MaxTicks \subseteq 0 .. MaxTicks /\ 0 \in 0 .. MaxTicks  BY MaxTicksAssumption
  <2>2. 0 \in -1 .. Quantum - 1 /\ 1 \in 1 .. NumTasks + 1
    BY QuantumAssumption, TasksAssumption
  <2>3. remaining_time \in [Tasks -> 0 .. MaxTicks] /\ run_time \in [Tasks -> 0 .. MaxTicks]
    BY <2>1 DEF ApiInit
  <2>. QED
    BY <2>2, <2>3, EmptyObjHolds, EmptySeq DEF ApiInit, isu_sched_Init, ApiTypeOK
<1>2. ~Selected  BY DEF ApiInit, isu_sched_Init, Selected
<1>3. Held(obj) = {} /\ HeldOnce(obj) /\ Owned = {} /\ obj.running = Idle
  BY EmptyObjHolds DEF ApiInit, isu_sched_Init, Owned, Unique, EmptyObj
<1>4. \A t \in Tasks : remaining_time[t] + run_time[t] <= MaxTicks
  BY MaxTicksAssumption DEF ApiInit
<1>. QED  BY <1>1, <1>2, <1>3, <1>4 DEF ApiInv, ApiInit

\* The task fields of a filed list change only when the running task is charged.
LEMMA PrimeFiled ==
  ASSUME UNCHANGED <<remaining_time, priority>>
  PROVE  Filed(current_algorithm, obj)' <=> Filed(current_algorithm', obj')
<1>1. OneLevel(obj)' <=> OneLevel(obj')  BY DEF OneLevel
<1>2. OwnLevel(obj)' <=> OwnLevel(obj')
  <2>1. \A l \in Levels : Elems(obj.lists[l])' = Elems(obj'.lists[l])  BY DEF Elems
  <2>2. \A t : priority'[t] = priority[t]  OBVIOUS
  <2>. QED  BY <2>1, <2>2 DEF OwnLevel
<1>3. Sorted(obj.lists[0])' <=> Sorted(obj'.lists[0])
  <2>1. \A t : remaining_time'[t] = remaining_time[t]  OBVIOUS
  <2>. QED  BY <2>1 DEF Sorted
<1>. QED  BY <1>1, <1>2, <1>3 DEF Filed

\* What the framework holds after a step is what the object then holds.
LEMMA PrimeHeld == /\ Held(obj)' = Held(obj')
                   /\ HeldOnce(obj)' <=> HeldOnce(obj')
                   /\ Owned' = Held(obj') \cup ({running_task'} \ {Idle})
BY DEF Held, HeldOnce, Owned

\* A step that leaves the task fields alone keeps the invariant if the new object
\* and the new running task are of tasks owned before, or just arrived.
LEMMA ApiStep ==
  ASSUME ApiInv,
         UNCHANGED <<remaining_time, run_time, priority>>,
         ApiTypeOK',
         HeldOnce(obj'),
         running_task' \notin Held(obj'),
         obj'.running \in {Idle, running_task'},
         Selected' => Filed(current_algorithm', obj'),
         ~Selected' => Held(obj') = {},
         NEW O, O = Held(obj') \cup ({running_task'} \ {Idle}),
         destroyed' \cap O = {},
         O \cup destroyed' \subseteq 1 .. next_arrival' - 1
  PROVE  ApiInv'
<1>1. Selected' => Filed(current_algorithm, obj)'  BY PrimeFiled
<1>2. (\A t \in Tasks : remaining_time[t] + run_time[t] <= MaxTicks)'
  BY DEF ApiInv
<1>3. Owned' = O  BY PrimeHeld
<1>. QED  BY <1>1, <1>2, <1>3, PrimeHeld DEF ApiInv

\* What every step of the framework starts from.
LEMMA ApiFacts ==
  ASSUME ApiInv, ~obj.fault
  PROVE  /\ ApiTypeOK /\ TaskFields /\ obj \in AlgObjects /\ Unique(obj)
         /\ Running(obj) \subseteq {running_task} \ {Idle}
         /\ Held(obj) \subseteq Tasks
         /\ Selected => current_algorithm \in Algorithms /\ Filed(current_algorithm, obj)
<1>1. ApiTypeOK /\ obj \in AlgObjects /\ HeldOnce(obj)  BY DEF ApiInv, ApiTypeOK
<1>2. Held(obj) \subseteq Tasks  BY <1>1, HeldAreTasks
<1>3. obj.running \notin Held(obj)  BY <1>2 DEF ApiInv, Tasks, Idle
<1>4. Selected => current_algorithm \in Algorithms
  BY <1>1 DEF ApiTypeOK, Selected
<1>. QED  BY <1>1, <1>2, <1>3, <1>4, ApiFields DEF ApiInv, Unique, Running

\* Installing an algorithm: no task is concerned.
LEMMA ApiInstallInv ==
  ASSUME ApiInv, ~obj.fault, NEW a \in Algorithms, ApiInstall(a)
  PROVE  ApiInv'
<1>1. UNCHANGED <<remaining_time, run_time, priority, current_algorithm, obj, running_task,
                  quantum_time, next_arrival, destroyed, killed>>
  BY DEF ApiInstall, isu_sched_InstallAlgorithm
<1>2. ApiTypeOK'
  <2>1. algorithm_list' \in Seq(Algorithms)
    <3>1. algorithm_list \in Seq(Algorithms)  BY DEF ApiInv, ApiTypeOK
    <3>. QED  BY <3>1, AppendProperties DEF ApiInstall, isu_sched_InstallAlgorithm
  <2>. QED  BY <1>1, <2>1 DEF ApiInv, ApiTypeOK
<1>3. Selected' <=> Selected  BY <1>1 DEF Selected
<1>. QED  BY <1>1, <1>2, <1>3, ApiStep DEF ApiInv, Owned

\* Selecting an algorithm hands over the tasks the lists held.
LEMMA SetHands ==
  ASSUME ApiInv, NEW a \in Algorithms, isu_sched_SetAlgorithm(a)
  PROVE  /\ obj' \in AlgObjects /\ HeldOnce(obj') /\ Filed(a, obj')
         /\ Held(obj') = Held(obj)
         /\ obj'.running = Idle
<1>. DEFINE c == current_algorithm
            s == IF c = NoAlgorithm THEN <<>> ELSE stop(c, obj)
<1>1. ApiTypeOK /\ TaskFields /\ obj \in AlgObjects /\ HeldOnce(obj)
  BY ApiFields DEF ApiInv, ApiTypeOK
<1>2. s \in Seq(Tasks) /\ Elems(s) = Held(obj) /\ Injective(s)
  <2>1. CASE c = NoAlgorithm
    <3>1. <<>> \in Seq(Tasks) /\ DOMAIN <<>> = {}  BY EmptySeq
    <3>2. Held(obj) = {}  BY <2>1 DEF ApiInv, Selected
    <3>. QED  BY <2>1, <3>1, <3>2 DEF Elems, Injective
  <2>2. CASE c # NoAlgorithm
    <3>1. c \in Algorithms /\ Filed(c, obj)
      BY <1>1, <2>2 DEF ApiInv, ApiTypeOK, Selected
    <3>. QED  BY <1>1, <2>2, <3>1, StopHolds
  <2>. QED  BY <2>1, <2>2
<1>3. obj' = start(a, s)  BY DEF isu_sched_SetAlgorithm
<1>. HIDE DEF s
<1>. QED  BY <1>1, <1>2, <1>3, StartHolds

\* isu_sched_SetAlgorithm: stop hands every held task over, and start files it again.
LEMMA ApiSetInv ==
  ASSUME ApiInv, ~obj.fault, NEW a \in Algorithms, ApiSet(a)
  PROVE  ApiInv'
<1>1. UNCHANGED <<remaining_time, run_time, priority, algorithm_list, running_task,
                  quantum_time, next_arrival, destroyed, killed>>
  BY DEF ApiSet, isu_sched_SetAlgorithm
<1>2. /\ obj' \in AlgObjects /\ HeldOnce(obj') /\ Filed(a, obj')
      /\ Held(obj') = Held(obj) /\ obj'.running = Idle /\ current_algorithm' = a
  BY SetHands DEF ApiSet, isu_sched_SetAlgorithm
<1>3. ApiTypeOK'  BY <1>1, <1>2 DEF ApiInv, ApiTypeOK
<1>4. Selected'  BY <1>2 DEF Selected, Algorithms, NoAlgorithm
<1>. QED  BY <1>1, <1>2, <1>3, <1>4, ApiStep DEF ApiInv, Owned

\* Uninstalling the current algorithm frees what stop gave back, and nothing else.
LEMMA ApiUninstallInv ==
  ASSUME ApiInv, ~obj.fault, NEW a \in Algorithms, ApiUninstallCurrent(a)
  PROVE  ApiInv'
<1>. DEFINE s == stop(a, obj)
<1>0. a = current_algorithm /\ Selected
  BY DEF ApiUninstallCurrent, Selected, Algorithms, NoAlgorithm
<1>1. s \in Seq(Tasks) /\ Elems(s) = Held(obj)
  BY <1>0, ApiFacts, StopHolds DEF Unique
<1>2. /\ UNCHANGED <<remaining_time, run_time, priority, algorithm_list, running_task,
                     quantum_time, next_arrival, killed>>
      /\ obj' = [EmptyObj EXCEPT !.fault = s = <<>>]
      /\ destroyed' = destroyed \cup Elems(s)
      /\ current_algorithm' = NoAlgorithm
  BY DEF ApiUninstallCurrent, Elems
<1>. HIDE DEF s
<1>3. /\ obj' \in AlgObjects /\ obj'.lists = EmptyObj.lists /\ obj'.running = Idle
  BY <1>2, EmptyObjHolds DEF EmptyObj, AlgObjects
<1>4. Held(obj') = {} /\ HeldOnce(obj')
  BY <1>3, EmptyObjHolds DEF Held, HeldOnce, Unique
<1>5. ApiTypeOK'
  BY <1>1, <1>2, <1>3, ApiFacts DEF ApiTypeOK
<1>6. ~Selected'  BY <1>2 DEF Selected
<1>. QED  BY <1>1, <1>2, <1>3, <1>4, <1>5, <1>6, ApiStep DEF ApiInv, Owned

\* A step that asks the current algorithm for the next task.
LEMMA ApiChoose ==
  ASSUME ApiInv, ~obj.fault, Selected, NEW o \in AlgObjects, NEW remove \in BOOLEAN,
         NEW O \in SUBSET Tasks,
         Unique(o), ~o.fault, Filed(current_algorithm, o), Held(o) \cup Running(o) \subseteq O,
         GetNext(o, remove)
  PROVE  /\ obj' \in AlgObjects /\ running_task' \in Tasks \cup {Idle}
         /\ HeldOnce(obj') /\ running_task' \notin Held(obj')
         /\ obj'.running = running_task'
         /\ Filed(current_algorithm, obj')
         /\ Held(obj') \cup ({running_task'} \ {Idle}) \subseteq O
<1>1. PICK n \in get_next_task(current_algorithm, o, remove) : obj' = n /\ running_task' = n.running
  BY DEF GetNext
<1>2. TaskFields /\ current_algorithm \in Algorithms  BY ApiFacts
<1>3. /\ n \in AlgObjects
      /\ Unique(n)
      /\ Held(n) \cup Running(n) \subseteq Held(o) \cup Running(o)
      /\ Filed(current_algorithm, n)
  BY <1>1, <1>2, NextSafe
<1>4. n.running \in Tasks \cup {Idle}  BY <1>3 DEF AlgObjects
<1>. QED  BY <1>1, <1>3, <1>4 DEF Unique, Running

\* A new task is added behind the others, and the scheduler may choose again.
LEMMA ApiArriveInv ==
  ASSUME ApiInv, ~obj.fault, ApiArrive
  PROVE  ApiInv'
<1>. DEFINE a == current_algorithm  t == next_arrival  m == add_task(a, obj, t)
            O == Owned \cup {t}
<1>1. /\ ApiTypeOK /\ TaskFields /\ obj \in AlgObjects /\ Unique(obj)
      /\ Running(obj) \subseteq {running_task} \ {Idle} /\ Held(obj) \subseteq Tasks
      /\ a \in Algorithms /\ Filed(a, obj) /\ Selected
  BY ApiFacts DEF ApiArrive
<1>2. /\ UNCHANGED <<remaining_time, run_time, priority, algorithm_list, current_algorithm,
                     destroyed, killed>>
      /\ next_arrival' = t + 1 /\ t \in Tasks /\ t \in Nat
      /\ t + 1 \in 1 .. NumTasks + 1
  BY <1>1, TasksAssumption DEF ApiArrive, isu_sched_OnTaskArrive, ApiTypeOK, Tasks
<1>3. running_task \in Tasks \cup {Idle} /\ O \subseteq Tasks /\ t \notin Owned
  BY <1>1, <1>2 DEF ApiInv, ApiTypeOK, Owned
<1>4. /\ m \in AlgObjects /\ Held(m) = Held(obj) \cup {t} /\ HeldOnce(m)
      /\ m.running = obj.running /\ ~m.fault /\ Filed(a, m)
  BY <1>1, <1>2, <1>3, AddHolds, AddFiled DEF Unique, Owned
<1>5. running_task \notin Held(m) /\ m.running \notin Held(m)
  <2>1. running_task \notin Held(obj) /\ obj.running \notin Held(obj)
        /\ obj.running \in {Idle, running_task}
    BY <1>1 DEF ApiInv, Unique
  <2>2. t # Idle  BY <1>2 DEF Tasks, Idle
  <2>3. running_task = t => running_task \in Owned  BY <2>2 DEF Owned
  <2>. QED  BY <1>3, <1>4, <2>1, <2>2, <2>3
<1>. HIDE DEF m
<1>6. /\ obj' \in AlgObjects /\ running_task' \in Tasks \cup {Idle}
      /\ HeldOnce(obj') /\ running_task' \notin Held(obj')
      /\ obj'.running \in {Idle, running_task'}
      /\ Filed(a, obj')
      /\ Held(obj') \cup ({running_task'} \ {Idle}) \subseteq O
  <2>1. CASE is_premptive(a) \/ running_task = Idle
    <3>1. GetNext(m, FALSE)  BY <2>1 DEF ApiArrive, isu_sched_OnTaskArrive, m
    <3>2. Held(m) \cup Running(m) \subseteq O
      BY <1>1, <1>4 DEF Owned, Running
    <3>3. Unique(m)  BY <1>4, <1>5 DEF Unique
    <3>. HIDE DEF O
    <3>. QED  BY <1>1, <1>3, <1>4, <3>1, <3>2, <3>3, ApiChoose
  <2>2. CASE ~(is_premptive(a) \/ running_task = Idle)
    <3>1. obj' = m /\ running_task' = running_task
      BY <2>2 DEF ApiArrive, isu_sched_OnTaskArrive, m
    <3>. QED  BY <1>3, <1>4, <1>5, <3>1 DEF ApiInv, Owned
  <2>. QED  BY <2>1, <2>2
<1>7. quantum_time' \in -1 .. Quantum - 1
  <2>1. quantum_time \in -1 .. Quantum - 1 /\ -1 \in -1 .. Quantum - 1
    BY <1>1, QuantumAssumption DEF ApiTypeOK
  <2>2. quantum_time' \in {-1, quantum_time}  BY DEF ApiArrive, isu_sched_OnTaskArrive
  <2>. QED  BY <2>1, <2>2
<1>8. ApiTypeOK'  BY <1>1, <1>2, <1>6, <1>7 DEF ApiTypeOK
<1>9. destroyed' \cap O = {} /\ O \cup destroyed' \subseteq 1 .. next_arrival' - 1
  <2>1. /\ destroyed \cap Owned = {} /\ Owned \cup destroyed \subseteq 1 .. t - 1
        /\ 1 .. t - 1 \subseteq 1 .. next_arrival' - 1 /\ t \in 1 .. next_arrival' - 1
        /\ t \notin 1 .. t - 1
    BY <1>1, <1>2 DEF ApiInv, ApiTypeOK
  <2>. QED  BY <1>2, <2>1
<1>10. Selected'  BY <1>1, <1>2 DEF Selected
<1>. HIDE DEF O
<1>. QED  BY <1>2, <1>6, <1>8, <1>9, <1>10, ApiStep

\* A tick or the end of a task: the scheduler chooses among the tasks it has.
LEMMA ApiChoiceInv ==
  ASSUME ApiInv, ~obj.fault, Selected,
         UNCHANGED <<remaining_time, run_time, priority, algorithm_list, current_algorithm,
                     next_arrival, destroyed, killed>>,
         NEW remove \in BOOLEAN, GetNext(obj, remove) \/ UNCHANGED <<obj, running_task>>,
         quantum_time' \in -1 .. Quantum - 1
  PROVE  ApiInv'
<1>1. /\ ApiTypeOK /\ TaskFields /\ obj \in AlgObjects /\ Unique(obj)
      /\ Running(obj) \subseteq {running_task} \ {Idle} /\ Held(obj) \subseteq Tasks
      /\ current_algorithm \in Algorithms /\ Filed(current_algorithm, obj)
  BY ApiFacts
<1>2. Owned \subseteq Tasks /\ Held(obj) \cup Running(obj) \subseteq Owned
  BY <1>1 DEF ApiTypeOK, Owned
<1>3. /\ obj' \in AlgObjects /\ running_task' \in Tasks \cup {Idle}
      /\ HeldOnce(obj') /\ running_task' \notin Held(obj')
      /\ obj'.running \in {Idle, running_task'}
      /\ Filed(current_algorithm, obj')
      /\ Held(obj') \cup ({running_task'} \ {Idle}) \subseteq Owned
  <2>1. CASE GetNext(obj, remove)  BY <1>1, <1>2, <2>1, ApiChoose
  <2>2. CASE UNCHANGED <<obj, running_task>>
    BY <1>1, <2>2 DEF ApiInv, ApiTypeOK, Owned
  <2>. QED  BY <2>1, <2>2
<1>4. ApiTypeOK'  BY <1>1, <1>3 DEF ApiTypeOK
<1>5. Selected'  BY DEF Selected
<1>6. destroyed \cap Owned = {} /\ Owned \cup destroyed \subseteq 1 .. next_arrival - 1
  BY DEF ApiInv
<1>. QED  BY <1>3, <1>4, <1>5, <1>6, ApiStep

\* isu_sched_OnTick.
LEMMA ApiTickInv ==
  ASSUME ApiInv, ~obj.fault, ApiTick
  PROVE  ApiInv'
<1>1. Selected /\ (GetNext(obj, FALSE) \/ UNCHANGED <<obj, running_task>>)
  BY DEF ApiTick, isu_sched_OnTick
<1>2. quantum_time' \in -1 .. Quantum - 1
  <2>1. quantum_time \in -1 .. Quantum - 1  BY DEF ApiInv, ApiTypeOK
  <2>. DEFINE q == (quantum_time + 1) % Quantum
  <2>2. q \in 0 .. Quantum - 1  BY <2>1, QuantumAssumption
  <2>3. quantum_time' \in {q, quantum_time}  BY DEF ApiTick, isu_sched_OnTick
  <2>. HIDE DEF q
  <2>4. q \in -1 .. Quantum - 1  BY <2>2, QuantumAssumption
  <2>. QED  BY <2>1, <2>3, <2>4
<1>3. UNCHANGED <<remaining_time, run_time, priority, algorithm_list, current_algorithm,
                  next_arrival, destroyed, killed>>
  BY DEF ApiTick, isu_sched_OnTick
<1>. QED  BY <1>1, <1>2, <1>3, ApiChoiceInv

\* isu_sched_OnTaskEnd.
LEMMA ApiTaskEndInv ==
  ASSUME ApiInv, ~obj.fault, ApiTaskEnd
  PROVE  ApiInv'
<1>1. Selected /\ GetNext(obj, TRUE)
  BY DEF ApiTaskEnd, isu_sched_OnTaskEnd
<1>2. quantum_time' \in -1 .. Quantum - 1
  BY QuantumAssumption DEF ApiTaskEnd, isu_sched_OnTaskEnd, ApiInv, ApiTypeOK
<1>3. UNCHANGED <<remaining_time, run_time, priority, algorithm_list, current_algorithm,
                  next_arrival, destroyed, killed>>
  BY DEF ApiTaskEnd, isu_sched_OnTaskEnd
<1>. QED  BY <1>1, <1>2, <1>3, ApiChoiceInv

\* The running task is in no list, so its ticks unsort none.
LEMMA ApiChargeInv ==
  ASSUME ApiInv, ~obj.fault, ApiCharge
  PROVE  ApiInv'
<1>. DEFINE c == running_task
<1>1. /\ ApiTypeOK /\ obj \in AlgObjects /\ Held(obj) \subseteq Tasks /\ c \notin Held(obj)
      /\ c \in Tasks /\ UNCHANGED <<priority, sched_vars, next_arrival, destroyed, killed>>
  BY ApiFacts DEF ApiCharge, ApiInv, ApiTypeOK
<1>2. /\ remaining_time[c] \in 1 .. MaxTicks /\ run_time[c] \in 0 .. MaxTicks
      /\ remaining_time[c] + run_time[c] <= MaxTicks
  BY <1>1, MaxTicksAssumption DEF ApiInv, ApiTypeOK, ApiCharge
<1>3. /\ remaining_time' = [remaining_time EXCEPT ![c] = remaining_time[c] - 1]
      /\ run_time' = [run_time EXCEPT ![c] = run_time[c] + 1]
  BY DEF ApiCharge
<1>4. remaining_time[c] - 1 \in 0 .. MaxTicks /\ run_time[c] + 1 \in 0 .. MaxTicks
  BY <1>2, MaxTicksAssumption
<1>5. /\ remaining_time' \in [Tasks -> 0 .. MaxTicks] /\ run_time' \in [Tasks -> 0 .. MaxTicks]
      /\ remaining_time'[c] = remaining_time[c] - 1 /\ run_time'[c] = run_time[c] + 1
      /\ \A t \in Tasks \ {c} : /\ remaining_time'[t] = remaining_time[t]
                               /\ run_time'[t] = run_time[t]
  BY <1>1, <1>3, <1>4 DEF ApiTypeOK
<1>6. ApiTypeOK'  BY <1>1, <1>5 DEF ApiTypeOK, sched_vars
<1>7. (\A t \in Tasks : remaining_time[t] + run_time[t] <= MaxTicks)'
  <2>1. remaining_time'[c] + run_time'[c] <= MaxTicks  BY <1>2, <1>5, MaxTicksAssumption
  <2>. QED  BY <1>1, <1>5, <2>1 DEF ApiInv
<1>8. Selected => Filed(current_algorithm, obj)'
  <2>. SUFFICES ASSUME Selected  PROVE Filed(current_algorithm, obj)'  OBVIOUS
  <2>1. Filed(current_algorithm, obj)  BY DEF ApiInv
  <2>2. current_algorithm' = current_algorithm /\ obj' = obj  BY <1>1 DEF sched_vars
  <2>3. OneLevel(obj)' <=> OneLevel(obj)  BY <2>2 DEF OneLevel
  <2>4. OwnLevel(obj)' <=> OwnLevel(obj)  BY <1>1, <2>2 DEF OwnLevel, Elems
  <2>5. ASSUME current_algorithm = "srtn"  PROVE Sorted(obj.lists[0])'
    <3>1. OneLevel(obj) /\ Sorted(obj.lists[0])  BY <2>1, <2>5 DEF Filed
    <3>2. Held(obj) = Elems(obj.lists[0])  BY <1>1, <3>1, HeldInFirst
    <3>3. \A i \in DOMAIN obj.lists[0] :
            remaining_time'[obj.lists[0][i]] = remaining_time[obj.lists[0][i]]
      BY <1>1, <1>5, <3>2 DEF Elems
    <3>. QED  BY <2>2, <3>1, <3>3 DEF Sorted
  <2>. QED  BY <2>1, <2>2, <2>3, <2>4, <2>5 DEF Filed
<1>9. /\ current_algorithm' = current_algorithm /\ obj' = obj /\ running_task' = running_task
      /\ next_arrival' = next_arrival /\ destroyed' = destroyed
  BY <1>1 DEF sched_vars
<1>10. HeldOnce(obj)' /\ Held(obj)' = Held(obj) /\ Owned' = Owned
  <2>1. HeldOnce(obj') /\ Held(obj') = Held(obj)  BY <1>9 DEF ApiInv
  <2>. QED  BY <2>1, <1>9, PrimeHeld DEF Owned
<1>11. Selected' <=> Selected  BY <1>9 DEF Selected
<1>. QED  BY <1>6, <1>7, <1>8, <1>9, <1>10, <1>11 DEF ApiInv

\* isu_sched_Destroy frees the ready tasks; the running one is left.
LEMMA ApiDestroyInv ==
  ASSUME ApiInv, ~obj.fault, ApiDestroy
  PROVE  ApiInv'
<1>1. /\ UNCHANGED <<remaining_time, run_time, priority, algorithm_list, current_algorithm,
                     running_task, quantum_time, next_arrival>>
      /\ obj' = EmptyObj
      /\ killed' = TRUE
      /\ destroyed' \subseteq destroyed \cup Held(obj)
  BY DEF ApiDestroy
<1>2. ApiTypeOK'
  BY <1>1, ApiFacts, EmptyObjHolds DEF ApiTypeOK
<1>3. Filed(current_algorithm', obj')
  <2>1. 0 \in Levels  BY PrioritiesAssumption DEF Levels
  <2>2. \A l \in Levels : obj'.lists[l] = <<>>  BY <1>1 DEF EmptyObj
  <2>. QED  BY <2>1, <2>2, EmptySeq DEF Filed, OneLevel, OwnLevel, Sorted, Elems
<1>4. Held(obj') = {} /\ HeldOnce(obj') /\ obj'.running = Idle
  BY <1>1, EmptyObjHolds DEF Unique, EmptyObj
<1>5. /\ destroyed' \cap ({running_task'} \ {Idle}) = {}
      /\ ({running_task'} \ {Idle}) \cup destroyed' \subseteq 1 .. next_arrival' - 1
  BY <1>1 DEF ApiInv, Owned
<1>. QED  BY <1>1, <1>2, <1>3, <1>4, <1>5, ApiStep

\* Every call of the interface keeps the invariant.
LEMMA ApiNextInv == ApiInv /\ [ApiNext]_api_vars => ApiInv'
<1>. SUFFICES ASSUME ApiInv, [ApiNext]_api_vars  PROVE ApiInv'  OBVIOUS
<1>1. CASE ApiNext
  <2>1. ~obj.fault  BY <1>1 DEF ApiNext
  <2>2. ASSUME NEW a \in Available, ApiInstall(a) \/ ApiSet(a) \/ ApiUninstallCurrent(a)
        PROVE  ApiInv'
    <3>1. a \in Algorithms  BY AvailableAssumption
    <3>. QED  BY <2>1, <2>2, <3>1, ApiInstallInv, ApiSetInv, ApiUninstallInv
  <2>. QED
    BY <1>1, <2>1, <2>2, ApiArriveInv, ApiChargeInv, ApiTickInv, ApiTaskEndInv, ApiDestroyInv
    DEF ApiNext
<1>2. CASE UNCHANGED api_vars
  <2>1. /\ UNCHANGED <<remaining_time, run_time, priority, algorithm_list, current_algorithm,
                       obj, running_task, quantum_time, next_arrival, destroyed, killed>>
    BY <1>2 DEF api_vars, sched_vars
  <2>2. ApiTypeOK' /\ Selected' = Selected  BY <2>1 DEF ApiInv, ApiTypeOK, Selected
  <2>. QED  BY <2>1, <2>2, ApiStep DEF ApiInv, Owned
<1>. QED  BY <1>1, <1>2

\* Whatever a caller calls, in whatever order, each ready task is held once, apart from
\* the running one, filed as the algorithm in use looks for it, and not destroyed.
THEOREM ApiInvariant == ApiSpec => []ApiInv
BY ApiInitInv, ApiNextInv, PTL DEF ApiSpec

\* The invariant implies the properties sched_api checks.
LEMMA ApiEnough == ApiInv => ListsFit /\ NoDangling
<1>. SUFFICES ASSUME ApiInv  PROVE ListsFit /\ NoDangling  OBVIOUS
<1>1. ApiTypeOK /\ HeldOnce(obj) /\ obj \in AlgObjects  BY DEF ApiInv, ApiTypeOK
<1>2. 0 \in Levels  BY PrioritiesAssumption DEF Levels
<1>3. ~Selected => \A l \in Levels : obj.lists[l] = <<>>
  BY <1>1, NoneHeld DEF ApiInv
<1>4. current_algorithm # "prr" => \A l \in Levels \ {0} : obj.lists[l] = <<>>
  BY <1>3 DEF ApiInv, Filed, OneLevel
<1>5. current_algorithm = "prr" =>
        \A l \in Levels : \A i \in DOMAIN obj.lists[l] : priority[obj.lists[l][i]] = l
  BY DEF ApiInv, Filed, OwnLevel, Elems, Selected, NoAlgorithm
<1>6. current_algorithm = "srtn" =>
        \A i, j \in DOMAIN obj.lists[0] :
          i < j => remaining_time[obj.lists[0][i]] <= remaining_time[obj.lists[0][j]]
  <2>. SUFFICES ASSUME current_algorithm = "srtn",
                       NEW i \in DOMAIN obj.lists[0], NEW j \in DOMAIN obj.lists[0], i < j
                PROVE  remaining_time[obj.lists[0][i]] <= remaining_time[obj.lists[0][j]]
    OBVIOUS
  <2>1. Sorted(obj.lists[0])  BY DEF ApiInv, Filed, Selected, NoAlgorithm
  <2>2. obj.lists[0] \in Seq(Tasks)  BY <1>1, <1>2 DEF AlgObjects
  <2>3. i <= j  BY <2>2, LenProperties
  <2>. QED  BY <2>1, <2>3 DEF Sorted
<1>7. ListsFit  BY <1>1, <1>4, <1>5, <1>6 DEF ListsFit
<1>8. NoDangling
  <2>1. Idle \notin destroyed  BY <1>1 DEF ApiTypeOK, Tasks, Idle
  <2>. QED  BY <2>1 DEF NoDangling, ApiInv, Owned
<1>. QED  BY <1>7, <1>8

\* The lists have the shape the algorithm in use relies on, whichever algorithms the
\* ready tasks came through: start files what stop gave back (isu_sched.c:228-255).
THEOREM AnyCallerListsFit == ApiSpec => []ListsFit
BY ApiInvariant, ApiEnough, PTL

\* No task that UninstallAlgorithm or Destroy freed is still in a list, in the
\* algorithm's running or in running_task.
THEOREM AnyCallerNoDangling == ApiSpec => []NoDangling
BY ApiInvariant, ApiEnough, PTL

\* isu_sched_SetAlgorithm hands over every ready task, and none that was neither ready
\* nor running, between any two of the four algorithms.
THEOREM SwitchesKeepReady == ApiSpec => SwitchKeepsReady
<1>1. ApiInv => [\A a \in Algorithms : ApiSet(a) =>
                   /\ Held(obj) \subseteq Held(obj')
                   /\ Held(obj') \subseteq Held(obj) \cup Running(obj)]_api_vars
  BY SetHands DEF ApiSet
<1>. QED  BY <1>1, ApiInvariant, PTL DEF SwitchKeepsReady

-----------------------------------------------------------------------------
(* The chart. *)

Symbols == {"z", "2", "x", "."}

Starts(l) == {l.start_times[i] : i \in 1 .. Len(l.start_times)}
Stops(l) == {l.stop_times[i] : i \in 1 .. Len(l.stop_times)}

\* The log of a task, at time now: each start but the last has its stop before the
\* next start, and open says whether the last one has no stop yet.
Noted(l, open, now) ==
  /\ l.arrive_time \in Nat
  /\ l.start_times \in Seq(Nat) /\ l.stop_times \in Seq(Nat)
  /\ Len(l.start_times) = Len(l.stop_times) + (IF open THEN 1 ELSE 0)
  /\ \A i \in 1 .. Len(l.start_times) : l.arrive_time <= l.start_times[i] /\ l.start_times[i] < now
  /\ \A i \in 1 .. Len(l.stop_times) : l.start_times[i] < l.stop_times[i] /\ l.stop_times[i] < now
  /\ \A i \in 1 .. Len(l.stop_times), j \in 1 .. Len(l.start_times) :
       i < j => l.stop_times[i] < l.start_times[j]

\* The ticks before till in which a task ran, as it noted them.
RunIn(l, till) ==
  {n \in Nat : \E i \in 1 .. Len(l.start_times) :
     l.start_times[i] <= n /\ n < IF i <= Len(l.stop_times) THEN l.stop_times[i] ELSE till}

\* The log of a task that has ended.
Closed(l, now) ==
  /\ now \in Nat /\ Noted(l, FALSE, now)
  /\ l.stop_times # <<>> /\ l.finish_time = l.stop_times[Len(l.stop_times)]

\* The symbol of a time, if none hides another.
Mark(l, m) ==
  IF m \in Starts(l) THEN "2" ELSE IF m = l.arrive_time \/ m \in Stops(l) THEN "x" ELSE "."

\* f gives for each number what g makes of its predecessor.
Loops(f, X, base, g, n) ==
  /\ f \in [0 .. n -> X]
  /\ \A k \in 0 .. n : f[k] = IF k = 0 THEN base ELSE g[<<k, f[k - 1]>>]

\* Such a function exists.
LEMMA LoopExists ==
  ASSUME NEW X, NEW base \in X, NEW g \in [Nat \X X -> X], NEW n \in Nat
  PROVE  \E f : Loops(f, X, base, g, n)
<1>. DEFINE Is(f, k) == f[k] = IF k = 0 THEN base ELSE g[<<k, f[k - 1]>>]
            Done == {m \in Nat : \E f \in [0 .. m -> X] : \A k \in 0 .. m : Is(f, k)}
<1>1. 0 \in Done
  <2>. DEFINE f == [k \in 0 .. 0 |-> base]
  <2>1. f \in [0 .. 0 -> X] /\ \A k \in 0 .. 0 : Is(f, k)  OBVIOUS
  <2>. HIDE DEF f
  <2>. QED  BY <2>1
<1>2. ASSUME NEW m \in 1 .. n, m - 1 \in Done  PROVE m \in Done
  <2>1. PICK f \in [0 .. m - 1 -> X] : \A k \in 0 .. m - 1 : Is(f, k)  BY <1>2
  <2>. DEFINE h == [k \in 0 .. m |-> IF k = m THEN g[<<m, f[m - 1]>>] ELSE f[k]]
  <2>2. m \in Nat /\ m # 0 /\ m - 1 \in 0 .. m - 1 /\ \A k \in 0 .. m : k # m => k \in 0 .. m - 1  OBVIOUS
  <2>3. f[m - 1] \in X  BY <2>2
  <2>4. g[<<m, f[m - 1]>>] \in X  BY <2>2, <2>3
  <2>5. h \in [0 .. m -> X]  BY <2>2, <2>4
  <2>6. ASSUME NEW k \in 0 .. m  PROVE Is(h, k)
    <3>1. CASE k = m
      <4>1. h[m] = g[<<m, f[m - 1]>>] /\ h[m - 1] = f[m - 1]  BY <2>2
      <4>. HIDE DEF h
      <4>. QED  BY <2>2, <3>1, <4>1
    <3>2. CASE k # m
      <4>1. k \in 0 .. m - 1 /\ h[k] = f[k]  BY <2>2, <3>2
      <4>2. CASE k = 0
        <5>. HIDE DEF h
        <5>. QED  BY <2>1, <4>1, <4>2
      <4>3. CASE k # 0
        <5>1. k - 1 \in 0 .. m - 1 /\ k - 1 # m  BY <4>1, <4>3
        <5>2. h[k - 1] = f[k - 1]  BY <5>1
        <5>. HIDE DEF h
        <5>. QED  BY <2>1, <4>1, <4>3, <5>2
      <4>. QED  BY <4>2, <4>3
    <3>. QED  BY <3>1, <3>2
  <2>. HIDE DEF h
  <2>7. \E f2 \in [0 .. m -> X] : \A k \in 0 .. m : Is(f2, k)  BY <2>5, <2>6
  <2>. QED  BY <2>2, <2>7
<1>3. n \in Done
  <2>. HIDE DEF Done
  <2>. QED  BY <1>1, <1>2, UpTo
<1>. QED  BY <1>3 DEF Loops

\* What the loop of isu_task_to_json has before it and makes of a time.
ChartStart(l) == [wave |-> <<"z">>, starts |-> l.start_times, stops |-> l.stop_times]
ChartStep(l, c, n) ==
  LET starts == n - 1 = IttrData(c.starts)
      arrives == n - 1 = l.arrive_time
      stops == ~starts /\ ~arrives /\ n - 1 = IttrData(c.stops)
  IN  [wave   |-> Append(c.wave, IF starts THEN "2"
                                 ELSE IF arrives \/ stops THEN "x" ELSE "."),
       starts |-> IF starts THEN IttrNext(c.starts) ELSE c.starts,
       stops  |-> IF stops THEN IttrNext(c.stops) ELSE c.stops]
Charts == [wave : Seq(Symbols), starts : Seq(Nat), stops : Seq(Nat)]

LEMMA IttrNextType == ASSUME NEW s \in Seq(Nat)  PROVE IttrNext(s) \in Seq(Nat)
<1>1. Len(s) \in Nat /\ \A i \in 2 .. Len(s) : s[i] \in Nat  BY LenProperties, ElementOfSeq
<1>. QED  BY <1>1, SubSeqProperties DEF IttrNext

IsTail(z, s) == Len(z) = Len(s) - 1 /\ \A k \in 1 .. Len(z) : z[k] = s[k + 1]

LEMMA IttrNextElems == ASSUME NEW s \in Seq(Nat), Len(s) >= 1  PROVE IsTail(IttrNext(s), s)
<1>. DEFINE L == Len(s)  z == SubSeq(s, 2, L)
<1>1. L \in Nat /\ L >= 1 /\ \A i \in 2 .. L : s[i] \in Nat  BY LenProperties, ElementOfSeq
<1>. HIDE DEF L
<1>2. Len(z) = IF 2 <= L THEN L - 2 + 1 ELSE 0  BY <1>1, SubSeqProperties
<1>3. \A i \in 1 .. L - 2 + 1 : z[i] = s[2 + i - 1]  BY <1>1, SubSeqProperties
<1>. HIDE DEF z
<1>4. Len(z) = L - 1  BY <1>1, <1>2
<1>5. ASSUME NEW k \in 1 .. Len(z)  PROVE z[k] = s[k + 1]
  <2>1. k \in 1 .. L - 2 + 1 /\ 2 + k - 1 = k + 1  BY <1>1, <1>4
  <2>. QED  BY <1>3, <2>1
<1>6. IsTail(z, s)  BY <1>4, <1>5 DEF IsTail, L
<1>. QED  BY <1>6 DEF IttrNext, L, z

LEMMA ChartStepType ==
  ASSUME NEW l, NEW c \in Charts, NEW n
  PROVE  ChartStep(l, c, n) \in Charts
<1>. DEFINE y == ChartStep(l, c, n)
<1>1. c.wave \in Seq(Symbols) /\ c.starts \in Seq(Nat) /\ c.stops \in Seq(Nat)  BY DEF Charts
<1>2. /\ Append(c.wave, "2") \in Seq(Symbols) /\ Append(c.wave, "x") \in Seq(Symbols)
      /\ Append(c.wave, ".") \in Seq(Symbols)
  BY <1>1, AppendProperties DEF Symbols
<1>3. IttrNext(c.starts) \in Seq(Nat) /\ IttrNext(c.stops) \in Seq(Nat)  BY <1>1, IttrNextType
<1>. QED  BY <1>1, <1>2, <1>3 DEF ChartStep, Charts

\* The loop of isu_task_to_json, one time after another.
LEMMA ChartLoop ==
  ASSUME NEW l, l.start_times \in Seq(Nat), l.stop_times \in Seq(Nat), l.finish_time \in Nat
  PROVE  \E h : /\ h[0] = ChartStart(l)
                /\ \A n \in 1 .. l.finish_time : h[n] = ChartStep(l, h[n - 1], n)
                /\ isu_task_to_json(l) = h[l.finish_time].wave
<1>. DEFINE F == l.finish_time
            g == [p \in Nat \X Charts |-> ChartStep(l, p[2], p[1])]
            Is(f) == f = [n \in 0 .. F |-> IF n = 0 THEN ChartStart(l) ELSE ChartStep(l, f[n - 1], n)]
            loop == CHOOSE f : Is(f)
<1>1. ChartStart(l) \in Charts
  <2>1. <<"z">> \in Seq(Symbols)  BY DEF Symbols
  <2>. QED  BY <2>1 DEF Charts, ChartStart
<1>2. g \in [Nat \X Charts -> Charts]  BY ChartStepType
<1>3. PICK f : Loops(f, Charts, ChartStart(l), g, F)
  <2>. HIDE DEF g
  <2>. QED  BY <1>1, <1>2, LoopExists
<1>4. ASSUME NEW k \in 0 .. F  PROVE f[k] = IF k = 0 THEN ChartStart(l) ELSE ChartStep(l, f[k - 1], k)
  <2>0. f \in [0 .. F -> Charts] /\ f[k] = IF k = 0 THEN ChartStart(l) ELSE g[<<k, f[k - 1]>>]
    BY <1>3 DEF Loops
  <2>1. CASE k = 0  BY <2>0, <2>1
  <2>2. CASE k # 0
    <3>1. k \in Nat /\ k - 1 \in 0 .. F  BY <2>2
    <3>2. f[k - 1] \in Charts  BY <2>0, <3>1
    <3>. QED  BY <2>0, <2>2, <3>1, <3>2
  <2>. QED  BY <2>1, <2>2
<1>5. Is(f)  BY <1>3, <1>4 DEF Loops
<1>. HIDE DEF Is
<1>6. Is(loop)  BY <1>5
<1>7. isu_task_to_json(l) = loop[F].wave  BY DEF isu_task_to_json, ChartStart, ChartStep, Is
<1>. HIDE DEF loop
<1>8. loop[0] = ChartStart(l)  BY <1>6 DEF Is
<1>9. \A n \in 1 .. F : loop[n] = ChartStep(l, loop[n - 1], n)
  <2>. TAKE n \in 1 .. F
  <2>1. n \in 0 .. F /\ n # 0  OBVIOUS
  <2>. QED  BY <1>6, <2>1 DEF Is
<1>. QED  BY <1>7, <1>8, <1>9

\* What an iterator has left, when it has passed the times before n.
Passed(s, all, d, n) ==
  /\ Len(s) = Len(all) - d
  /\ \A i \in 1 .. Len(s) : s[i] = all[d + i]
  /\ \A i \in 1 .. Len(all) : i <= d <=> all[i] < n
Left(s, all, n) ==
  /\ s \in Seq(Nat)
  /\ \E d \in 0 .. Len(all) : Passed(s, all, d, n)

Rising(s) == \A i, j \in 1 .. Len(s) : i < j => s[i] < s[j]

HeadTells(s, all, n) == n = IttrData(s) <=> \E i \in 1 .. Len(all) : all[i] = n

\* The iterator gives n just when n is in the list, unless the list is empty and n is 0.
LEMMA LeftHead ==
  ASSUME NEW all \in Seq(Nat), Rising(all), NEW n \in Nat, n > 0 \/ all # <<>>,
         NEW s, Left(s, all, n)
  PROVE  HeadTells(s, all, n)
<1>0. Len(all) \in Nat /\ \A i \in 1 .. Len(all) : all[i] \in Nat  BY LenProperties, ElementOfSeq
<1>a. PICK d \in 0 .. Len(all) : Passed(s, all, d, n)  BY DEF Left
<1>1. /\ Len(s) = Len(all) - d
      /\ \A i \in 1 .. Len(s) : s[i] = all[d + i]
      /\ \A i \in 1 .. Len(all) : i <= d <=> all[i] < n
  BY <1>a DEF Passed
<1>2. s \in Seq(Nat)  BY DEF Left
<1>3. CASE s = <<>>
  <2>1. Len(s) = 0  BY <1>3
  <2>2. d = Len(all)  BY <1>0, <1>1, <2>1
  <2>3. IttrData(s) = 0  BY <1>3 DEF IttrData
  <2>4. \A i \in 1 .. Len(all) : all[i] < n  BY <1>0, <1>1, <2>2
  <2>5. n > 0
    <3>1. SUFFICES ASSUME all # <<>>  PROVE n > 0  OBVIOUS
    <3>2. 1 \in 1 .. Len(all)  BY <1>0, <3>1, EmptySeq
    <3>3. all[1] < n /\ all[1] \in Nat  BY <1>0, <2>4, <3>2
    <3>. QED  BY <3>3
  <2>. QED  BY <1>0, <2>3, <2>4, <2>5 DEF HeadTells
<1>4. CASE s # <<>>
  <2>1. Len(s) \in Nat /\ Len(s) > 0  BY <1>2, <1>4, EmptySeq, LenProperties
  <2>2. d + 1 \in 1 .. Len(all) /\ 1 \in 1 .. Len(s)  BY <1>0, <1>1, <2>1
  <2>3. IttrData(s) = all[d + 1]
    <3>1. IttrData(s) = s[1]  BY <1>2, <1>4, HeadTailProperties DEF IttrData
    <3>. QED  BY <1>1, <2>2, <3>1
  <2>4. all[d + 1] \in Nat /\ n <= all[d + 1]  BY <1>0, <1>1, <2>2
  <2>5. ASSUME NEW i \in 1 .. Len(all), all[i] = n  PROVE n = all[d + 1]
    <3>1. i > d  BY <1>0, <1>1, <2>5
    <3>2. CASE i = d + 1  BY <2>5, <3>2
    <3>3. CASE d + 1 < i
      <4>1. all[d + 1] < all[i]  BY <2>2, <3>3 DEF Rising
      <4>. QED  BY <2>4, <2>5, <4>1
    <3>. QED  BY <1>0, <1>1, <3>1, <3>2, <3>3
  <2>. QED  BY <2>2, <2>3, <2>5 DEF HeadTells
<1>. QED  BY <1>3, <1>4

\* The time after n.
LEMMA LeftNext ==
  ASSUME NEW all \in Seq(Nat), Rising(all), NEW n \in Nat, NEW s, Left(s, all, n),
         NEW z, z = IF \E i \in 1 .. Len(all) : all[i] = n THEN IttrNext(s) ELSE s
  PROVE  Left(z, all, n + 1)
<1>0. Len(all) \in Nat /\ \A i \in 1 .. Len(all) : all[i] \in Nat  BY LenProperties, ElementOfSeq
<1>a. PICK d \in 0 .. Len(all) : Passed(s, all, d, n)  BY DEF Left
<1>1. /\ Len(s) = Len(all) - d
      /\ \A i \in 1 .. Len(s) : s[i] = all[d + i]
      /\ \A i \in 1 .. Len(all) : i <= d <=> all[i] < n
  BY <1>a DEF Passed
<1>2. s \in Seq(Nat) /\ Len(s) \in Nat  BY LenProperties DEF Left
<1>3. CASE \E i \in 1 .. Len(all) : all[i] = n
  <2>1. PICK i \in 1 .. Len(all) : all[i] = n  BY <1>3
  <2>2. i > d /\ i \in Nat  BY <1>0, <1>1, <2>1
  <2>3. d + 1 \in 1 .. Len(all)  BY <1>0, <1>1, <2>2
  <2>4. all[d + 1] = n
    <3>1. all[d + 1] >= n  BY <1>0, <1>1, <2>3
    <3>2. i = d + 1 \/ d + 1 < i  BY <1>1, <2>2
    <3>3. CASE d + 1 < i
      <4>1. all[d + 1] < all[i]  BY <2>3, <3>3 DEF Rising
      <4>. QED  BY <1>0, <2>1, <2>3, <3>1, <4>1
    <3>. QED  BY <2>1, <3>2, <3>3
  <2>5. z = IttrNext(s)  BY <1>3
  <2>6. z \in Seq(Nat)  BY <1>2, <2>5, IttrNextType
  <2>7. Len(z) = Len(s) - 1 /\ \A k \in 1 .. Len(z) : z[k] = s[k + 1]
    <3>1. Len(s) >= 1  BY <1>0, <1>1, <2>3
    <3>. QED  BY <1>2, <2>5, <3>1, IttrNextElems DEF IsTail
  <2>8. Len(z) = Len(all) - (d + 1)  BY <1>0, <1>1, <2>7
  <2>9. ASSUME NEW k \in 1 .. Len(z)  PROVE z[k] = all[(d + 1) + k]
    <3>1. k + 1 \in 1 .. Len(s) /\ d + (k + 1) = (d + 1) + k  BY <1>2, <2>7
    <3>. QED  BY <1>1, <2>7, <3>1
  <2>10. ASSUME NEW k \in 1 .. Len(all)  PROVE k <= d + 1 <=> all[k] < n + 1
    <3>1. CASE k = d + 1  BY <2>4, <3>1
    <3>2. CASE k <= d
      <4>1. all[k] < n  BY <1>1, <3>2
      <4>. QED  BY <1>0, <1>1, <3>2, <4>1
    <3>3. CASE d + 1 < k
      <4>1. all[d + 1] < all[k]  BY <2>3, <3>3 DEF Rising
      <4>. QED  BY <1>0, <1>1, <2>4, <3>3, <4>1
    <3>. QED  BY <1>1, <3>1, <3>2, <3>3
  <2>11. d + 1 \in 0 .. Len(all)  BY <2>3
  <2>. QED  BY <2>6, <2>8, <2>9, <2>10, <2>11 DEF Left, Passed
<1>4. CASE ~ \E i \in 1 .. Len(all) : all[i] = n
  <2>1. \A k \in 1 .. Len(all) : all[k] < n + 1 <=> all[k] < n  BY <1>0, <1>4
  <2>2. \A k \in 1 .. Len(all) : k <= d <=> all[k] < n + 1  BY <1>1, <2>1
  <2>3. z = s  BY <1>4
  <2>. QED  BY <1>1, <1>2, <2>2, <2>3 DEF Left, Passed
<1>. QED  BY <1>3, <1>4

\* Starts and stops of a closed log rise, and no stop is a start or the arrival.
LEMMA ClosedIs ==
  ASSUME NEW l, NEW now, Closed(l, now)
  PROVE  /\ l.start_times \in Seq(Nat) /\ l.stop_times \in Seq(Nat) /\ l.finish_time \in Nat
         /\ Rising(l.start_times) /\ Rising(l.stop_times)
         /\ Len(l.start_times) = Len(l.stop_times) /\ Len(l.stop_times) \in Nat \ {0}
         /\ l.start_times # <<>> /\ l.arrive_time \in Nat
         /\ \A m \in Stops(l) : m \notin Starts(l) /\ m # l.arrive_time /\ m <= l.finish_time /\ m > 0
         /\ Starts(l) \subseteq Nat /\ Stops(l) \subseteq Nat
<1>. DEFINE S == l.start_times  P == l.stop_times  k == Len(P)
<1>1. /\ S \in Seq(Nat) /\ P \in Seq(Nat) /\ Len(S) = k /\ l.arrive_time \in Nat /\ k \in Nat
      /\ \A i \in 1 .. k : /\ S[i] \in Nat /\ P[i] \in Nat
                          /\ l.arrive_time <= S[i] /\ S[i] < P[i]
      /\ \A i, j \in 1 .. k : i < j => P[i] < S[j]
  <2>1. S \in Seq(Nat) /\ P \in Seq(Nat) /\ k \in Nat /\ Len(S) = k + 0 /\ l.arrive_time \in Nat
    BY LenProperties DEF Closed, Noted
  <2>2. \A i \in 1 .. k : S[i] \in Nat /\ P[i] \in Nat  BY <2>1, ElementOfSeq
  <2>. QED  BY <2>1, <2>2 DEF Closed, Noted
<1>2. k # 0  BY <1>1, EmptySeq DEF Closed
<1>3. l.finish_time = P[k]  BY DEF Closed
<1>. HIDE DEF S, P, k
<1>4. Rising(S) /\ Rising(P)
  <2>1. ASSUME NEW i \in 1 .. k, NEW j \in 1 .. k, i < j  PROVE S[i] < S[j] /\ P[i] < P[j]
    <3>1. /\ S[i] < P[i] /\ P[i] < S[j] /\ S[j] < P[j]
          /\ S[i] \in Nat /\ P[i] \in Nat /\ S[j] \in Nat /\ P[j] \in Nat
      BY <1>1, <2>1
    <3>. QED  BY <3>1
  <2>. QED  BY <1>1, <2>1 DEF Rising, k
<1>5. ASSUME NEW i \in 1 .. k
      PROVE  P[i] # l.arrive_time /\ P[i] > 0 /\ P[i] <= P[k] /\ \A j \in 1 .. k : S[j] # P[i]
  <2>1. S[i] \in Nat /\ P[i] \in Nat /\ l.arrive_time <= S[i] /\ S[i] < P[i]  BY <1>1
  <2>2. P[i] # l.arrive_time /\ P[i] > 0  BY <1>1, <2>1
  <2>3. P[i] <= P[k]
    <3>1. CASE i = k  BY <2>1, <3>1
    <3>2. CASE i < k
      <4>1. k \in 1 .. k  BY <1>1, <1>2
      <4>2. P[i] < P[k] /\ P[k] \in Nat  BY <1>1, <1>4, <3>2, <4>1 DEF Rising, k
      <4>. QED  BY <2>1, <4>2
    <3>. QED  BY <1>1, <3>1, <3>2
  <2>4. ASSUME NEW j \in 1 .. k  PROVE S[j] # P[i]
    <3>1. S[j] \in Nat /\ P[j] \in Nat  BY <1>1
    <3>2. CASE i < j
      <4>1. P[i] < S[j]  BY <1>1, <3>2
      <4>. QED  BY <2>1, <3>1, <4>1
    <3>3. CASE j = i  BY <2>1, <3>3
    <3>4. CASE j < i
      <4>1. S[j] < P[j] /\ P[j] < S[i]  BY <1>1, <3>4
      <4>. QED  BY <2>1, <3>1, <4>1
    <3>. QED  BY <3>2, <3>3, <3>4
  <2>. QED  BY <2>2, <2>3, <2>4
<1>6. Starts(l) = {S[i] : i \in 1 .. k} /\ Stops(l) = {P[i] : i \in 1 .. k}
  BY <1>1 DEF Starts, Stops, S, P, k
<1>7. k \in 1 .. k /\ P[k] \in Nat  BY <1>1, <1>2
<1>8. \A m \in Stops(l) : m \notin Starts(l) /\ m # l.arrive_time /\ m <= l.finish_time /\ m > 0
  BY <1>3, <1>5, <1>6
<1>9. Starts(l) \subseteq Nat /\ Stops(l) \subseteq Nat  BY <1>1, <1>6
<1>10. S # <<>>  BY <1>1, <1>2, EmptySeq
<1>. QED  BY <1>1, <1>2, <1>3, <1>4, <1>7, <1>8, <1>9, <1>10 DEF S, P, k

\* The chart before time n.
Drawn(l, c, n) ==
  /\ c \in Charts
  /\ Len(c.wave) = n + 1 /\ c.wave[1] = "z"
  /\ \A m \in 0 .. n - 1 : c.wave[m + 2] = Mark(l, m)
  /\ Left(c.starts, l.start_times, n) /\ Left(c.stops, l.stop_times, n)

LEMMA LeftAll ==
  ASSUME NEW s \in Seq(Nat)
  PROVE  Left(s, s, 0)
<1>1. Len(s) \in Nat /\ \A i \in 1 .. Len(s) : s[i] \in Nat  BY LenProperties, ElementOfSeq
<1>2. Len(s) = Len(s) - 0 /\ \A i \in 1 .. Len(s) : s[i] = s[0 + i]  BY <1>1
<1>3. \A i \in 1 .. Len(s) : i <= 0 <=> s[i] < 0  BY <1>1
<1>4. Passed(s, s, 0, 0) /\ 0 \in 0 .. Len(s)  BY <1>1, <1>2, <1>3 DEF Passed
<1>. QED  BY <1>4 DEF Left

LEMMA DrawsOn ==
  ASSUME NEW l, NEW now, Closed(l, now), NEW n \in 1 .. l.finish_time,
         NEW c, Drawn(l, c, n - 1), NEW y, y = ChartStep(l, c, n)
  PROVE  Drawn(l, y, n)
<1>. DEFINE m == n - 1
            S == l.start_times
            P == l.stop_times
<1>0. m \in Nat /\ m + 1 = n /\ n \in Nat /\ m < l.finish_time  BY ClosedIs
<1>1. Drawn(l, c, m)  OBVIOUS
<1>2. S \in Seq(Nat) /\ P \in Seq(Nat) /\ Rising(S) /\ Rising(P) /\ S # <<>> /\ P # <<>>
  BY ClosedIs DEF Closed
<1>3. (m = IttrData(c.starts)) <=> (\E i \in 1 .. Len(S) : S[i] = m)
  <2>1. Left(c.starts, S, m)  BY <1>1 DEF Drawn
  <2>. HIDE DEF m, S
  <2>2. HeadTells(c.starts, S, m)  BY <1>0, <1>2, <2>1, LeftHead
  <2>. QED  BY <2>2 DEF HeadTells
<1>4. (m = IttrData(c.stops)) <=> (\E i \in 1 .. Len(P) : P[i] = m)
  <2>1. Left(c.stops, P, m)  BY <1>1 DEF Drawn
  <2>. HIDE DEF m, P
  <2>2. HeadTells(c.stops, P, m)  BY <1>0, <1>2, <2>1, LeftHead
  <2>. QED  BY <2>2 DEF HeadTells
<1>5. (m = IttrData(c.starts)) <=> m \in Starts(l)  BY <1>3 DEF Starts
<1>6. (m = IttrData(c.stops)) <=> m \in Stops(l)  BY <1>4 DEF Stops
<1>7. m \in Stops(l) => m \notin Starts(l) /\ m # l.arrive_time  BY ClosedIs
<1>. HIDE DEF m
<1>8. /\ y.starts = IF m = IttrData(c.starts) THEN IttrNext(c.starts) ELSE c.starts
      /\ y.stops = IF m \in Stops(l) THEN IttrNext(c.stops) ELSE c.stops
      /\ y.wave = Append(c.wave, Mark(l, m))
  <2>1. y.starts = IF m = IttrData(c.starts) THEN IttrNext(c.starts) ELSE c.starts
    BY DEF ChartStep, m
  <2>2. y.stops = IF m # IttrData(c.starts) /\ m # l.arrive_time /\ m = IttrData(c.stops)
                  THEN IttrNext(c.stops) ELSE c.stops
    BY DEF ChartStep, m
  <2>3. y.wave = Append(c.wave, IF m = IttrData(c.starts) THEN "2"
                   ELSE IF m = l.arrive_time
                          \/ (m # IttrData(c.starts) /\ m # l.arrive_time /\ m = IttrData(c.stops))
                        THEN "x" ELSE ".")
    BY DEF ChartStep, m
  <2>4. Mark(l, m) = IF m = IttrData(c.starts) THEN "2"
                   ELSE IF m = l.arrive_time
                          \/ (m # IttrData(c.starts) /\ m # l.arrive_time /\ m = IttrData(c.stops))
                        THEN "x" ELSE "."
    BY <1>5, <1>6, <1>7 DEF Mark
  <2>5. y.stops = IF m \in Stops(l) THEN IttrNext(c.stops) ELSE c.stops  BY <2>2, <1>5, <1>6, <1>7
  <2>. QED  BY <2>1, <2>3, <2>4, <2>5
<1>9. Left(y.starts, S, n)
  <2>1. y.starts = IF \E i \in 1 .. Len(S) : S[i] = m THEN IttrNext(c.starts) ELSE c.starts
    BY <1>3, <1>8 DEF m
  <2>2. Left(c.starts, S, m)  BY <1>1 DEF Drawn
  <2>. HIDE DEF S
  <2>3. Left(y.starts, S, m + 1)  BY <1>0, <1>2, <2>1, <2>2, LeftNext
  <2>. QED  BY <1>0, <2>3
<1>10. Left(y.stops, P, n)
  <2>1. y.stops = IF \E i \in 1 .. Len(P) : P[i] = m THEN IttrNext(c.stops) ELSE c.stops
    BY <1>8 DEF Stops
  <2>2. Left(c.stops, P, m)  BY <1>1 DEF Drawn
  <2>. HIDE DEF P
  <2>3. Left(y.stops, P, m + 1)  BY <1>0, <1>2, <2>1, <2>2, LeftNext
  <2>. QED  BY <1>0, <2>3
<1>11. c \in Charts /\ c.wave \in Seq(Symbols) /\ Len(c.wave) = m + 1 /\ c.wave[1] = "z"
       /\ \A i \in 0 .. m - 1 : c.wave[i + 2] = Mark(l, i)
  BY <1>1 DEF Drawn, Charts
<1>12. y \in Charts  BY <1>11, ChartStepType
<1>13. /\ Len(y.wave) = n + 1
       /\ \A i \in 1 .. m + 1 : y.wave[i] = c.wave[i]
       /\ y.wave[m + 2] = Mark(l, m)
  <2>1. Mark(l, m) \in Symbols  BY DEF Mark, Symbols
  <2>. DEFINE w == c.wave  e == Mark(l, m)
  <2>2. y.wave = Append(w, e) /\ w \in Seq(Symbols) /\ e \in Symbols /\ Len(w) = m + 1
    BY <1>8, <1>11, <2>1
  <2>. HIDE DEF w, e
  <2>3. /\ Len(y.wave) = Len(w) + 1 /\ y.wave[Len(w) + 1] = e
        /\ \A i \in 1 .. Len(w) : y.wave[i] = w[i]
    BY <2>2, AppendProperties
  <2>4. (m + 1) + 1 = m + 2 /\ (m + 1) + 1 = n + 1  BY <1>0
  <2>. QED  BY <2>2, <2>3, <2>4 DEF w, e
<1>14. y.wave[1] = "z"
  <2>1. 1 \in 1 .. m + 1  BY <1>0
  <2>. QED  BY <1>11, <1>13, <2>1
<1>15. ASSUME NEW i \in 0 .. n - 1  PROVE y.wave[i + 2] = Mark(l, i)
  <2>1. CASE i = m  BY <1>13, <2>1
  <2>2. CASE i # m
    <3>1. i \in 0 .. m - 1 /\ i + 2 \in 1 .. m + 1  BY <1>0, <2>2
    <3>. QED  BY <1>11, <1>13, <3>1
  <2>. QED  BY <2>1, <2>2
<1>. QED  BY <1>9, <1>10, <1>12, <1>13, <1>14, <1>15 DEF Drawn, S, P

\* Every time before the last has its own symbol: no event hides another.
LEMMA ChartDrawn ==
  ASSUME NEW l, NEW now, Closed(l, now)
  PROVE  \E w \in Seq(Symbols) :
           /\ isu_task_to_json(l) = w /\ Len(w) = l.finish_time + 1 /\ w[1] = "z"
           /\ \A m \in 0 .. l.finish_time - 1 : w[m + 2] = Mark(l, m)
<1>1. l.start_times \in Seq(Nat) /\ l.stop_times \in Seq(Nat) /\ l.finish_time \in Nat  BY ClosedIs
<1>2. PICK h : /\ h[0] = ChartStart(l)
               /\ \A n \in 1 .. l.finish_time : h[n] = ChartStep(l, h[n - 1], n)
               /\ isu_task_to_json(l) = h[l.finish_time].wave
  BY <1>1, ChartLoop
<1>. DEFINE Done == {n \in Nat : Drawn(l, h[n], n)}
<1>3. 0 \in Done
  <2>. DEFINE c == ChartStart(l)
  <2>1. c.wave = <<"z">> /\ c.starts = l.start_times /\ c.stops = l.stop_times  BY DEF ChartStart
  <2>2. <<"z">> \in Seq(Symbols) /\ Len(<<"z">>) = 0 + 1 /\ <<"z">>[1] = "z"  BY DEF Symbols
  <2>3. c \in Charts  BY <1>1, <2>1, <2>2 DEF Charts, ChartStart
  <2>. HIDE DEF c
  <2>4. Left(c.starts, l.start_times, 0) /\ Left(c.stops, l.stop_times, 0)  BY <1>1, <2>1, LeftAll
  <2>5. \A m \in 0 .. 0 - 1 : c.wave[m + 2] = Mark(l, m)  OBVIOUS
  <2>6. Drawn(l, c, 0)  BY <2>1, <2>2, <2>3, <2>4, <2>5 DEF Drawn
  <2>. QED  BY <1>2, <2>6 DEF c
<1>4. ASSUME NEW n \in 1 .. l.finish_time, n - 1 \in Done  PROVE n \in Done
  <2>1. Drawn(l, h[n - 1], n - 1) /\ n \in Nat  BY <1>4
  <2>2. h[n] = ChartStep(l, h[n - 1], n)  BY <1>2
  <2>3. Drawn(l, h[n], n)  BY <2>1, <2>2, DrawsOn
  <2>. QED  BY <2>1, <2>3
<1>5. l.finish_time \in Done
  <2>. HIDE DEF Done
  <2>. QED  BY <1>1, <1>3, <1>4, UpTo
<1>. QED  BY <1>2, <1>5 DEF Drawn, Charts

\* A reader sees the last symbol that is not a dot.
LEMMA ChartShows ==
  ASSUME NEW l, NEW now, Closed(l, now), NEW n \in 0 .. l.finish_time - 1, NEW till
  PROVE  Shown(isu_task_to_json(l), n) = IF n \in RunIn(l, till) THEN "2"
                                         ELSE IF n >= l.arrive_time THEN "x" ELSE "z"
<1>. DEFINE S == l.start_times
            P == l.stop_times
            k == Len(P)
            a == l.arrive_time
<1>1. /\ S \in Seq(Nat) /\ P \in Seq(Nat) /\ Len(S) = k /\ k \in Nat /\ a \in Nat
      /\ Starts(l) \subseteq Nat /\ Stops(l) \subseteq Nat /\ l.finish_time \in Nat /\ n \in Nat
  BY ClosedIs
<1>2. \A i \in 1 .. k : /\ S[i] \in Nat /\ P[i] \in Nat /\ a <= S[i] /\ S[i] < P[i]
                        /\ \A j \in 1 .. k : i < j => P[i] < S[j]
  <2>1. \A i \in 1 .. k : S[i] \in Nat /\ P[i] \in Nat  BY <1>1, ElementOfSeq
  <2>. QED  BY <1>1, <2>1 DEF Closed, Noted
<1>3. Starts(l) = {S[i] : i \in 1 .. k} /\ Stops(l) = {P[i] : i \in 1 .. k}
  BY <1>1 DEF Starts, Stops
<1>4. n \in RunIn(l, till) <=> \E i \in 1 .. k : S[i] <= n /\ n < P[i]
  <2>1. \A i \in 1 .. k : i <= k  BY <1>1
  <2>. QED  BY <1>1, <2>1 DEF RunIn
<1>5. PICK w \in Seq(Symbols) :
        /\ isu_task_to_json(l) = w /\ Len(w) = l.finish_time + 1 /\ w[1] = "z"
        /\ \A m \in 0 .. l.finish_time - 1 : w[m + 2] = Mark(l, m)
  BY ChartDrawn
<1>. DEFINE E == {i \in 1 .. n + 2 : w[i] # "."}  e == Max(E)
<1>6. e \in E /\ \A i \in E : i <= e
  <2>1. 1 \in E /\ E \in SUBSET (1 .. n + 2) /\ n + 2 \in Nat  BY <1>1, <1>5
  <2>2. E # {}  BY <2>1
  <2>. HIDE DEF E
  <2>3. e \in E  BY <2>1, <2>2, MaxIn
  <2>4. \A i \in E : i <= e  BY <2>1, <2>2, MaxIn
  <2>. QED  BY <2>3, <2>4
<1>7. Shown(isu_task_to_json(l), n) = w[e]
  <2>1. Shown(w, n) = w[e]  BY DEF Shown
  <2>2. isu_task_to_json(l) = w  BY <1>5
  <2>. QED  BY <2>1, <2>2
<1>8. ASSUME NEW m \in 0 .. n  PROVE w[m + 2] = Mark(l, m) /\ m + 2 \in 1 .. n + 2
  <2>1. m \in 0 .. l.finish_time - 1 /\ m + 2 \in 1 .. n + 2  BY <1>1
  <2>. HIDE DEF E, e, S, P, k, a
  <2>2. w[m + 2] = Mark(l, m)  BY <1>5, <2>1
  <2>. QED  BY <2>1, <2>2
<1>9. e \in 1 .. n + 2 /\ w[e] # "."  BY <1>6
<1>10. ASSUME NEW m \in 0 .. n, Mark(l, m) # "."  PROVE m + 2 <= e
  BY <1>6, <1>8, <1>10
<1>. HIDE DEF E, e, S, P, k, a
<1>11. \A i \in 1 .. k : Mark(l, S[i]) = "2" /\ Mark(l, P[i]) # "."  BY <1>3 DEF Mark
<1>12. Mark(l, a) # "."  BY DEF Mark, a
<1>13. CASE e = 1
  <2>1. ~ (n >= a)
    <3>1. SUFFICES ASSUME n >= a  PROVE FALSE  OBVIOUS
    <3>2. a \in 0 .. n  BY <1>1, <3>1
    <3>. QED  BY <1>1, <1>10, <1>12, <1>13, <3>2
  <2>2. n \notin RunIn(l, till)
    <3>1. SUFFICES ASSUME NEW i \in 1 .. k, S[i] <= n  PROVE FALSE  BY <1>4
    <3>2. a <= S[i] /\ S[i] \in Nat  BY <1>2
    <3>. QED  BY <1>1, <2>1, <3>1, <3>2
  <2>. QED  BY <1>5, <1>7, <1>13, <2>1, <2>2 DEF a
<1>14. CASE e # 1
  <2>. DEFINE m == e - 2
  <2>1. m \in 0 .. n /\ e = m + 2  BY <1>1, <1>9, <1>14
  <2>2. w[e] = Mark(l, m) /\ Mark(l, m) # "." /\ m \in Nat /\ m <= n  BY <1>1, <1>8, <1>9, <2>1
  <2>. HIDE DEF m
  <2>3. \A d \in 0 .. n : Mark(l, d) # "." => d <= m  BY <1>1, <1>10, <2>1
  <2>4. CASE m \in Starts(l)
    <3>1. PICK i \in 1 .. k : S[i] = m  BY <1>3, <2>4
    <3>2. n < P[i]
      <4>1. SUFFICES ASSUME P[i] <= n  PROVE FALSE  BY <1>1, <1>2
      <4>2. P[i] \in 0 .. n /\ m < P[i] /\ P[i] \in Nat  BY <1>1, <1>2, <3>1, <4>1
      <4>3. P[i] <= m  BY <1>11, <2>3, <4>2
      <4>. QED  BY <2>2, <4>2, <4>3
    <3>3. n \in RunIn(l, till)  BY <1>4, <2>2, <3>1, <3>2
    <3>4. Mark(l, m) = "2"  BY <2>4 DEF Mark
    <3>. QED  BY <1>7, <2>2, <3>3, <3>4
  <2>5. CASE m \notin Starts(l)
    <3>1. Mark(l, m) = "x" /\ (m = a \/ m \in Stops(l))  BY <2>2, <2>5 DEF Mark, a
    <3>2. n >= a
      <4>1. CASE m = a  BY <1>1, <2>2, <4>1
      <4>2. CASE m \in Stops(l)
        <5>1. PICK i \in 1 .. k : P[i] = m  BY <1>3, <4>2
        <5>2. a <= S[i] /\ S[i] < P[i] /\ S[i] \in Nat  BY <1>2
        <5>. QED  BY <1>1, <2>2, <5>1, <5>2
      <4>. QED  BY <3>1, <4>1, <4>2
    <3>3. n \notin RunIn(l, till)
      <4>1. SUFFICES ASSUME NEW i \in 1 .. k, S[i] <= n, n < P[i]  PROVE FALSE  BY <1>4
      <4>2. S[i] \in Nat /\ P[i] \in Nat /\ a <= S[i]  BY <1>2
      <4>3. S[i] \in 0 .. n  BY <1>1, <4>1, <4>2
      <4>4. S[i] <= m  BY <1>11, <2>3, <4>3
      <4>5. S[i] # m  BY <1>3, <2>5
      <4>6. CASE m = a  BY <1>1, <2>2, <4>2, <4>4, <4>5, <4>6
      <4>7. CASE m \in Stops(l)
        <5>1. PICK j \in 1 .. k : P[j] = m  BY <1>3, <4>7
        <5>2. S[j] \in Nat /\ P[j] \in Nat /\ S[j] < P[j]  BY <1>2
        <5>3. CASE j < i
          <6>1. P[j] < S[i]  BY <1>2, <5>3
          <6>. QED  BY <4>2, <4>4, <5>1, <5>2, <6>1
        <5>4. CASE j = i  BY <1>1, <2>2, <4>1, <4>2, <5>1, <5>4
        <5>5. CASE i < j
          <6>1. P[i] < S[j]  BY <1>2, <5>5
          <6>. QED  BY <1>1, <2>2, <4>1, <4>2, <5>1, <5>2, <6>1
        <5>. QED  BY <5>3, <5>4, <5>5
      <4>. QED  BY <3>1, <4>6, <4>7
    <3>. QED  BY <1>7, <2>2, <3>1, <3>2, <3>3 DEF a
  <2>. QED  BY <2>4, <2>5
<1>. QED  BY <1>13, <1>14

-----------------------------------------------------------------------------
(* The logs. *)

Logs == [arrive_time : Nat, finish_time : Nat, start_times : Seq(Nat), stop_times : Seq(Nat)]

\* While a run goes on each task has noted what it did; one that has ended, all of it.
LogOf(t) ==
  /\ Noted(log[t], t = current_task, time)
  /\ log[t].arrive_time <= time
  /\ ran[t] = RunIn(log[t], IF pc = "charge" THEN time - 1 ELSE time)
  /\ t \notin Arrived => log[t].start_times = <<>>
  /\ t \in finished =>
       IF pc = "switch" /\ t = current_task THEN log[t].finish_time = time
       ELSE /\ log[t].stop_times # <<>>
            /\ log[t].finish_time = log[t].stop_times[Len(log[t].stop_times)]

LogInv ==
  /\ time \in Nat /\ log \in [Tasks -> Logs] /\ ran \in [Tasks -> SUBSET Nat]
  /\ pc \in Loop => \A t \in Tasks : LogOf(t)

\* What a log that is noted is made of.
LEMMA NotedIs ==
  ASSUME NEW l, NEW open \in BOOLEAN, NEW now, Noted(l, open, now)
  PROVE  /\ l.start_times \in Seq(Nat) /\ Len(l.start_times) \in Nat
         /\ l.stop_times \in Seq(Nat) /\ Len(l.stop_times) \in Nat
         /\ \A i \in 1 .. Len(l.start_times) : l.start_times[i] \in Nat
         /\ \A i \in 1 .. Len(l.stop_times) : l.stop_times[i] \in Nat
         /\ l.arrive_time \in Nat
BY LenProperties, ElementOfSeq DEF Noted

LEMMA NotedLater ==
  ASSUME NEW l, NEW open \in BOOLEAN, NEW now \in Nat, Noted(l, open, now)
  PROVE  Noted(l, open, now + 1)
<1>1. /\ \A i \in 1 .. Len(l.start_times) : l.start_times[i] \in Nat
      /\ \A i \in 1 .. Len(l.stop_times) : l.stop_times[i] \in Nat
  BY NotedIs
<1>2. /\ \A i \in 1 .. Len(l.start_times) : l.start_times[i] < now
      /\ \A i \in 1 .. Len(l.stop_times) : l.stop_times[i] < now
  BY DEF Noted
<1>3. /\ \A i \in 1 .. Len(l.start_times) : l.start_times[i] < now + 1
      /\ \A i \in 1 .. Len(l.stop_times) : l.stop_times[i] < now + 1
  BY <1>1, <1>2
<1>. QED  BY <1>3 DEF Noted

\* What is noted, said of a log that differs in other fields.
LEMMA NotedSame ==
  ASSUME NEW l, NEW n, n.start_times = l.start_times, n.stop_times = l.stop_times, NEW till
  PROVE  RunIn(n, till) = RunIn(l, till)
BY DEF RunIn

\* A task that does not run: it is not asked until when.
LEMMA ClosedRuns ==
  ASSUME NEW l, NEW now, Noted(l, FALSE, now), NEW x, NEW y
  PROVE  RunIn(l, x) = RunIn(l, y)
<1>1. \A i \in 1 .. Len(l.start_times) : i <= Len(l.stop_times)  BY NotedIs DEF Noted
<1>. QED  BY <1>1 DEF RunIn

\* A task that runs has begun, and runs for a tick more.
LEMMA OpenRuns ==
  ASSUME NEW l, NEW now \in Nat, Noted(l, TRUE, now)
  PROVE  now - 1 \in Nat /\ RunIn(l, now) = RunIn(l, now - 1) \cup {now - 1}
<1>. DEFINE S == l.start_times  P == l.stop_times  k == Len(S)
            Till(i, x) == IF i <= Len(P) THEN P[i] ELSE x
<1>1. /\ k \in Nat \ {0} /\ Len(P) = k - 1 /\ Len(P) \in Nat
      /\ \A i \in 1 .. k : S[i] \in Nat /\ S[i] < now
      /\ \A i \in 1 .. Len(P) : P[i] \in Nat /\ P[i] < now
  <2>1. /\ S \in Seq(Nat) /\ Len(S) \in Nat /\ P \in Seq(Nat) /\ Len(P) \in Nat
        /\ \A i \in 1 .. Len(S) : S[i] \in Nat
        /\ \A i \in 1 .. Len(P) : P[i] \in Nat
        /\ l.arrive_time \in Nat
    BY NotedIs
  <2>2. Len(S) = Len(P) + 1  BY DEF Noted
  <2>3. /\ \A i \in 1 .. Len(S) : S[i] < now
        /\ \A i \in 1 .. Len(P) : P[i] < now
    BY DEF Noted
  <2>4. k \in Nat \ {0} /\ Len(P) = k - 1  BY <2>1, <2>2
  <2>. QED  BY <2>1, <2>3, <2>4
<1>2. \A x : RunIn(l, x) = {n \in Nat : \E i \in 1 .. k : S[i] <= n /\ n < Till(i, x)}
  BY DEF RunIn
<1>3. k \in 1 .. k /\ S[k] \in Nat /\ S[k] < now  BY <1>1
<1>4. now - 1 \in Nat  BY <1>3
<1>. HIDE DEF S, P, k
<1>5. ASSUME NEW n \in RunIn(l, now)  PROVE n \in RunIn(l, now - 1) \cup {now - 1}
  <2>1. PICK i \in 1 .. k : n \in Nat /\ S[i] <= n /\ n < Till(i, now)  BY <1>2
  <2>2. SUFFICES ASSUME n # now - 1  PROVE n < Till(i, now - 1)  BY <1>2, <2>1
  <2>3. CASE i <= Len(P)  BY <2>1, <2>3
  <2>4. CASE ~(i <= Len(P))
    <3>1. n < now  BY <2>1, <2>4
    <3>2. n < now - 1  BY <2>1, <2>2, <3>1
    <3>. QED  BY <2>4, <3>2
  <2>. QED  BY <2>3, <2>4
<1>6. ASSUME NEW n \in RunIn(l, now - 1)  PROVE n \in RunIn(l, now)
  <2>1. PICK i \in 1 .. k : n \in Nat /\ S[i] <= n /\ n < Till(i, now - 1)  BY <1>2
  <2>2. n < Till(i, now)
    <3>1. CASE i <= Len(P)  BY <2>1, <3>1
    <3>2. CASE ~(i <= Len(P))
      <4>1. n < now - 1  BY <2>1, <3>2
      <4>2. n < now  BY <2>1, <4>1
      <4>. QED  BY <3>2, <4>2
    <3>. QED  BY <3>1, <3>2
  <2>. QED  BY <1>2, <2>1, <2>2
<1>7. now - 1 \in RunIn(l, now)
  <2>1. ~(k <= Len(P))  BY <1>1
  <2>2. S[k] <= now - 1 /\ now - 1 < Till(k, now)  BY <1>3, <2>1
  <2>. QED  BY <1>2, <1>3, <1>4, <2>2
<1>. QED  BY <1>4, <1>5, <1>6, <1>7

\* Something is added at the end.
LEMMA AddTime ==
  ASSUME NEW s \in Seq(Nat), NEW e \in Nat, NEW r, r = Append(s, e)
  PROVE  /\ r \in Seq(Nat) /\ Len(r) = Len(s) + 1 /\ Len(s) \in Nat /\ r # <<>>
         /\ \A i \in 1 .. Len(s) : r[i] = s[i] /\ s[i] \in Nat
         /\ r[Len(s) + 1] = e
<1>1. /\ r \in Seq(Nat) /\ Len(r) = Len(s) + 1 /\ r[Len(s) + 1] = e
      /\ \A i \in 1 .. Len(s) : r[i] = s[i]
  BY AppendProperties
<1>2. Len(s) \in Nat /\ \A i \in 1 .. Len(s) : s[i] \in Nat  BY LenProperties, ElementOfSeq
<1>3. r # <<>>
  <2>1. Len(r) # 0  BY <1>1, <1>2
  <2>. QED  BY <2>1, EmptySeq
<1>. QED  BY <1>1, <1>2, <1>3

\* n is l with a start, or a stop, at this time, and what that keeps.
Started(l, n, now) ==
  /\ n.start_times = Append(l.start_times, now) /\ n.stop_times = l.stop_times
  /\ n.arrive_time = l.arrive_time /\ n.finish_time = l.finish_time
Stopped(l, n, now) ==
  /\ n.stop_times = Append(l.stop_times, now) /\ n.start_times = l.start_times
  /\ n.arrive_time = l.arrive_time /\ n.finish_time = l.finish_time
StopKeeps(l, n, now) == Noted(n, FALSE, now + 1) /\ RunIn(n, now) = RunIn(l, now)
StartKeeps(l, n, now) == Noted(n, TRUE, now + 1) /\ RunIn(n, now) = RunIn(l, now)

\* A stop is noted.
LEMMA NotedStop ==
  ASSUME NEW l, NEW now \in Nat, Noted(l, TRUE, now), NEW n, Stopped(l, n, now)
  PROVE  StopKeeps(l, n, now)
<1>. DEFINE x == now
<1>0. /\ n.start_times = l.start_times /\ n.arrive_time = l.arrive_time
      /\ n.stop_times = Append(l.stop_times, now)
  BY DEF Stopped
<1>. HIDE DEF x
<1>. DEFINE S == l.start_times  P == l.stop_times  k == Len(P)  Q == n.stop_times
<1>1. /\ Len(S) = k + 1 /\ k \in Nat /\ l.arrive_time \in Nat /\ S \in Seq(Nat) /\ P \in Seq(Nat)
      /\ \A i \in 1 .. k + 1 : S[i] \in Nat /\ l.arrive_time <= S[i] /\ S[i] < now
      /\ \A i \in 1 .. k : P[i] \in Nat /\ S[i] < P[i] /\ P[i] < now
      /\ \A i \in 1 .. k, j \in 1 .. k + 1 : i < j => P[i] < S[j]
  <2>1. /\ S \in Seq(Nat) /\ Len(S) \in Nat /\ P \in Seq(Nat) /\ Len(P) \in Nat
        /\ \A i \in 1 .. Len(S) : S[i] \in Nat
        /\ \A i \in 1 .. Len(P) : P[i] \in Nat
        /\ l.arrive_time \in Nat
    BY NotedIs
  <2>2. Len(S) = Len(P) + 1  BY <2>1 DEF Noted
  <2>3. /\ \A i \in 1 .. Len(S) : l.arrive_time <= S[i] /\ S[i] < now
        /\ \A i \in 1 .. Len(P) : S[i] < P[i] /\ P[i] < now
        /\ \A i \in 1 .. Len(P), j \in 1 .. Len(S) : i < j => P[i] < S[j]
    BY DEF Noted
  <2>. QED  BY <2>1, <2>2, <2>3
<1>2. /\ Q \in Seq(Nat) /\ Len(Q) = k + 1
      /\ \A i \in 1 .. k : Q[i] = P[i]
      /\ Q[k + 1] = now
  <2>1. Q = Append(P, now)  BY <1>0
  <2>. HIDE DEF Q, P
  <2>. QED  BY <1>1, <2>1, AddTime
<1>. HIDE DEF S, P, Q, k
<1>3. ASSUME NEW i \in 1 .. k + 1
      PROVE  /\ S[i] < now + 1 /\ S[i] < Q[i] /\ Q[i] < now + 1
             /\ \A j \in 1 .. k + 1 : i < j => Q[i] < S[j]
  <2>1. S[i] \in Nat /\ S[i] < now  BY <1>1
  <2>2. CASE i = k + 1  BY <1>1, <1>2, <2>1, <2>2
  <2>3. CASE i # k + 1
    <3>1. i \in 1 .. k  BY <1>1, <2>3
    <3>2. Q[i] = P[i] /\ P[i] \in Nat /\ S[i] < P[i] /\ P[i] < now  BY <1>1, <1>2, <3>1
    <3>. QED  BY <1>1, <2>1, <3>1, <3>2
  <2>. QED  BY <2>2, <2>3
<1>4. Noted(n, FALSE, now + 1)
  <2>1. n.start_times = S /\ n.stop_times = Q /\ n.arrive_time = l.arrive_time  BY <1>0 DEF S, Q
  <2>2. Len(S) = Len(Q) + 0  BY <1>1, <1>2
  <2>. QED  BY <1>1, <1>2, <1>3, <2>1, <2>2 DEF Noted
<1>5. RunIn(n, x) = RunIn(l, now)
  <2>1. \A i \in 1 .. k + 1 : (IF i <= k + 1 THEN Q[i] ELSE x) = (IF i <= k THEN P[i] ELSE now)
    <3>. SUFFICES ASSUME NEW i \in 1 .. k + 1  PROVE Q[i] = IF i <= k THEN P[i] ELSE now
      BY <1>1
    <3>1. CASE i = k + 1  BY <1>1, <1>2, <3>1
    <3>2. CASE i # k + 1
      <4>1. i \in 1 .. k  BY <1>1, <3>2
      <4>. QED  BY <1>1, <1>2, <4>1
    <3>. QED  BY <3>1, <3>2
  <2>2. RunIn(n, x) = {m \in Nat : \E i \in 1 .. k + 1 :
                         S[i] <= m /\ m < IF i <= k + 1 THEN Q[i] ELSE x}
    BY <1>0, <1>1, <1>2 DEF RunIn, S, Q
  <2>3. RunIn(l, now) = {m \in Nat : \E i \in 1 .. k + 1 : S[i] <= m /\ m < IF i <= k THEN P[i] ELSE now}
    BY <1>1 DEF RunIn, S, P, k
  <2>. QED  BY <2>1, <2>2, <2>3
<1>. QED  BY <1>4, <1>5 DEF StopKeeps, x

\* A start is noted.
LEMMA NotedStart ==
  ASSUME NEW l, NEW now \in Nat, Noted(l, FALSE, now), l.arrive_time <= now,
         NEW n, Started(l, n, now)
  PROVE  StartKeeps(l, n, now)
<1>. DEFINE x == now
<1>0. /\ n.stop_times = l.stop_times /\ n.arrive_time = l.arrive_time
      /\ n.start_times = Append(l.start_times, now)
  BY DEF Started
<1>. HIDE DEF x
<1>. DEFINE S == l.start_times  P == l.stop_times  k == Len(P)  Q == n.start_times
<1>1. /\ Len(S) = k /\ k \in Nat /\ l.arrive_time \in Nat /\ S \in Seq(Nat) /\ P \in Seq(Nat)
      /\ \A i \in 1 .. k : S[i] \in Nat /\ l.arrive_time <= S[i] /\ S[i] < now
      /\ \A i \in 1 .. k : P[i] \in Nat /\ S[i] < P[i] /\ P[i] < now
      /\ \A i \in 1 .. k, j \in 1 .. k : i < j => P[i] < S[j]
  <2>1. /\ S \in Seq(Nat) /\ Len(S) \in Nat /\ P \in Seq(Nat) /\ Len(P) \in Nat
        /\ \A i \in 1 .. Len(S) : S[i] \in Nat
        /\ \A i \in 1 .. Len(P) : P[i] \in Nat
        /\ l.arrive_time \in Nat
    BY NotedIs
  <2>2. Len(S) = Len(P)  BY <2>1 DEF Noted
  <2>3. /\ \A i \in 1 .. Len(S) : l.arrive_time <= S[i] /\ S[i] < now
        /\ \A i \in 1 .. Len(P) : S[i] < P[i] /\ P[i] < now
        /\ \A i \in 1 .. Len(P), j \in 1 .. Len(S) : i < j => P[i] < S[j]
    BY DEF Noted
  <2>. QED  BY <2>1, <2>2, <2>3
<1>2. /\ Q \in Seq(Nat) /\ Len(Q) = k + 1
      /\ \A i \in 1 .. k : Q[i] = S[i]
      /\ Q[k + 1] = now
  <2>1. Q = Append(S, now)  BY <1>0
  <2>. HIDE DEF Q, S
  <2>. QED  BY <1>1, <2>1, AddTime
<1>. HIDE DEF S, P, Q, k
<1>3. ASSUME NEW i \in 1 .. k + 1  PROVE l.arrive_time <= Q[i] /\ Q[i] < now + 1
  <2>1. CASE i = k + 1  BY <1>1, <1>2, <2>1
  <2>2. CASE i # k + 1
    <3>1. i \in 1 .. k  BY <1>1, <2>2
    <3>2. Q[i] = S[i] /\ S[i] \in Nat /\ l.arrive_time <= S[i] /\ S[i] < now  BY <1>1, <1>2, <3>1
    <3>. QED  BY <3>2
  <2>. QED  BY <2>1, <2>2
<1>4. ASSUME NEW i \in 1 .. k
      PROVE  Q[i] < P[i] /\ P[i] < now + 1 /\ \A j \in 1 .. k + 1 : i < j => P[i] < Q[j]
  <2>1. Q[i] = S[i] /\ P[i] \in Nat /\ S[i] < P[i] /\ P[i] < now  BY <1>1, <1>2
  <2>2. ASSUME NEW j \in 1 .. k + 1, i < j  PROVE P[i] < Q[j]
    <3>1. CASE j = k + 1  BY <1>2, <2>1, <3>1
    <3>2. CASE j # k + 1
      <4>0. k \in Nat  BY <1>1
      <4>1. j \in 1 .. k  BY <3>2, <4>0
      <4>. QED  BY <1>1, <1>2, <2>2, <4>1
    <3>. QED  BY <3>1, <3>2
  <2>. QED  BY <2>1, <2>2
<1>5. Noted(n, TRUE, now + 1)
  <2>1. n.start_times = Q /\ n.stop_times = P /\ n.arrive_time = l.arrive_time /\ Len(P) = k
    BY <1>0 DEF P, Q, k
  <2>. QED  BY <1>1, <1>2, <1>3, <1>4, <2>1 DEF Noted
<1>6. RunIn(n, now) = RunIn(l, x)
  <2>1. RunIn(n, now) = {m \in Nat : \E i \in 1 .. k + 1 : Q[i] <= m /\ m < IF i <= k THEN P[i] ELSE now}
    BY <1>0, <1>2 DEF RunIn, P, Q, k
  <2>2. RunIn(l, x) = {m \in Nat : \E i \in 1 .. k : S[i] <= m /\ m < IF i <= k THEN P[i] ELSE x}
    BY <1>1 DEF RunIn, S, P, k
  <2>3. ASSUME NEW m \in Nat, NEW i \in 1 .. k + 1, Q[i] <= m, m < IF i <= k THEN P[i] ELSE now
        PROVE  i \in 1 .. k /\ S[i] <= m /\ m < P[i]
    <3>1. i # k + 1
      <4>1. SUFFICES ASSUME i = k + 1  PROVE FALSE  OBVIOUS
      <4>2. ~(i <= k) /\ Q[i] = now  BY <1>1, <1>2, <4>1
      <4>. QED  BY <2>3, <4>2
    <3>2. i \in 1 .. k /\ i <= k  BY <1>1, <3>1
    <3>. QED  BY <1>2, <2>3, <3>2
  <2>4. ASSUME NEW m \in Nat, NEW i \in 1 .. k, S[i] <= m, m < IF i <= k THEN P[i] ELSE x
        PROVE  i \in 1 .. k + 1 /\ Q[i] <= m /\ m < IF i <= k THEN P[i] ELSE now
    BY <1>1, <1>2, <2>4
  <2>5. \A m \in Nat : m \in RunIn(n, now) <=> m \in RunIn(l, x)
    <3>. TAKE m \in Nat
    <3>1. ASSUME m \in RunIn(n, now)  PROVE m \in RunIn(l, x)
      <4>1. PICK i \in 1 .. k + 1 : Q[i] <= m /\ m < IF i <= k THEN P[i] ELSE now  BY <2>1, <3>1
      <4>2. i \in 1 .. k /\ S[i] <= m /\ m < P[i]  BY <2>3, <4>1
      <4>3. m < IF i <= k THEN P[i] ELSE x  BY <1>1, <4>2
      <4>. QED  BY <2>2, <4>2, <4>3
    <3>2. ASSUME m \in RunIn(l, x)  PROVE m \in RunIn(n, now)
      <4>1. PICK i \in 1 .. k : S[i] <= m /\ m < IF i <= k THEN P[i] ELSE x  BY <2>2, <3>2
      <4>. QED  BY <2>1, <2>4, <4>1
    <3>. QED  BY <3>1, <3>2
  <2>6. RunIn(n, now) \subseteq Nat /\ RunIn(l, x) \subseteq Nat  BY DEF RunIn
  <2>. QED  BY <2>5, <2>6
<1>. QED  BY <1>5, <1>6 DEF StartKeeps, x

-----------------------------------------------------------------------------
(* Every step keeps the logs. *)

LEMMA LogFields ==
  ASSUME LogInv
  PROVE  /\ time \in Nat
         /\ \A t \in Tasks : /\ log[t] \in Logs
                           /\ log[t].start_times \in Seq(Nat) /\ log[t].stop_times \in Seq(Nat)
                           /\ log[t].arrive_time \in Nat /\ log[t].finish_time \in Nat
BY DEF LogInv, Logs

\* A step that touches no log, no clock and not the task on the processor, and that
\* is not a charge, a notification of an end or a switch.
LEMMA LogStays ==
  ASSUME LogInv, pc \in Loop, pc' \in Loop \ {"charge"}, pc \notin {"charge", "switch"},
         NEW t \in Tasks, UNCHANGED <<time, ran, current_task>>,
         pc' = "switch" /\ t = current_task => t \notin finished',
         log'[t] = log[t], t \in finished' => t \in finished,
         t \notin Arrived' => t \notin Arrived
  PROVE  LogOf(t)'
<1>1. LogOf(t)  BY DEF LogInv
<1>2. Noted(log'[t], t = current_task', time')  BY <1>1 DEF LogOf
<1>3. ran'[t] = RunIn(log'[t], IF pc' = "charge" THEN time' - 1 ELSE time')  BY <1>1 DEF LogOf
<1>4. t \in finished' =>
        IF pc' = "switch" /\ t = current_task' THEN log'[t].finish_time = time'
        ELSE /\ log'[t].stop_times # <<>>
             /\ log'[t].finish_time = log'[t].stop_times[Len(log'[t].stop_times)]
  BY <1>1 DEF LogOf
<1>. QED  BY <1>1, <1>2, <1>3, <1>4 DEF LogOf

\* The logs are made anew.
LEMMA LogNew ==
  ASSUME time' = 0, log' = [t \in Tasks |-> NewLog], ran' = [t \in Tasks |-> {}],
         pc' = "charge" \/ pc' \notin Loop, current_task' = Idle, finished' = {}
  PROVE  LogInv'
<1>1. NewLog \in Logs  BY EmptySeq DEF NewLog, Logs
<1>2. time' \in Nat /\ log' \in [Tasks -> Logs] /\ ran' \in [Tasks -> SUBSET Nat]  BY <1>1
<1>3. ASSUME NEW t \in Tasks, pc' = "charge"  PROVE LogOf(t)'
  <2>1. log'[t] = NewLog /\ ran'[t] = {} /\ t # current_task' /\ t \notin finished'
    BY DEF Tasks, Idle
  <2>2. NewLog.start_times = <<>> /\ NewLog.stop_times = <<>> /\ NewLog.arrive_time = 0  BY DEF NewLog
  <2>3. <<>> \in Seq(Nat) /\ Len(<<>>) = 0 /\ 1 .. 0 = {}  BY EmptySeq
  <2>4. Noted(NewLog, FALSE, 0)  BY <2>2, <2>3 DEF Noted
  <2>5. RunIn(NewLog, time' - 1) = {}  BY <2>2, <2>3 DEF RunIn
  <2>6. Noted(log'[t], t = current_task', time')  BY <2>1, <2>4
  <2>. QED  BY <1>3, <2>1, <2>2, <2>5, <2>6 DEF LogOf
<1>4. pc' \in Loop => \A t \in Tasks : LogOf(t)'  BY <1>3 DEF Loop
<1>. QED  BY <1>2, <1>4 DEF LogInv

LEMMA LogInitInv == MainInit => LogInv
<1>. SUFFICES ASSUME MainInit  PROVE LogInv  OBVIOUS
<1>1. /\ time = 0 /\ log = [t \in Tasks |-> NewLog] /\ ran = [t \in Tasks |-> {}] /\ pc \notin Loop
  BY DEF MainInit, LogInit, Init, Loop
<1>2. NewLog \in Logs  BY EmptySeq DEF NewLog, Logs
<1>. QED  BY <1>1, <1>2 DEF LogInv

LEMMA LogStartRunInv == LogInv /\ LogStartRun => LogInv'
BY LogNew DEF LogStartRun, StartRun

\* A tick is charged, and is in the history.
LEMMA LogChargeInv == LogInv /\ TypeOK /\ LogCharge => LogInv'
<1>. SUFFICES ASSUME LogInv, TypeOK, LogCharge  PROVE LogInv'  OBVIOUS
<1>1. /\ pc = "charge" /\ pc' = "arrive" /\ pc \in Loop /\ UNCHANGED <<time, log, current_task, finished, next_task>>
      /\ ran' = IF current_task = Idle THEN ran
                ELSE [ran EXCEPT ![current_task] = @ \cup {time - 1}]
      /\ current_task \in Tasks \cup {Idle} /\ Idle \notin Tasks
  BY DEF LogCharge, Charge, Loop, TypeOK, Tasks, Idle
<1>2. time \in Nat /\ log \in [Tasks -> Logs] /\ ran \in [Tasks -> SUBSET Nat]  BY DEF LogInv
<1>3. ASSUME NEW t \in Tasks
      PROVE  ran'[t] = RunIn(log[t], time) /\ ran'[t] \in SUBSET Nat
  <2>1. LogOf(t)  BY <1>1 DEF LogInv
  <2>2. Noted(log[t], t = current_task, time) /\ ran[t] = RunIn(log[t], time - 1)
    BY <1>1, <2>1 DEF LogOf
  <2>3. CASE t = current_task
    <3>1. Noted(log[t], TRUE, time)  BY <2>2, <2>3
    <3>2. time - 1 \in Nat /\ RunIn(log[t], time) = RunIn(log[t], time - 1) \cup {time - 1}
      BY <1>2, <3>1, OpenRuns
    <3>3. ran'[t] = ran[t] \cup {time - 1}  BY <1>1, <1>2, <2>3
    <3>4. ran[t] \in SUBSET Nat  BY <1>2
    <3>. QED  BY <2>2, <3>2, <3>3, <3>4
  <2>4. CASE t # current_task
    <3>1. Noted(log[t], FALSE, time)  BY <2>2, <2>4
    <3>2. RunIn(log[t], time) = RunIn(log[t], time - 1)  BY <3>1, ClosedRuns
    <3>3. ran'[t] = ran[t] /\ ran[t] \in SUBSET Nat  BY <1>1, <1>2, <2>4
    <3>. QED  BY <2>2, <3>2, <3>3
  <2>. QED  BY <2>3, <2>4
<1>4. ran' \in [Tasks -> SUBSET Nat]
  <2>1. DOMAIN ran' = Tasks /\ ran' = [t \in DOMAIN ran' |-> ran'[t]]  BY <1>1, <1>2
  <2>. QED  BY <1>3, <2>1
<1>5. ASSUME NEW t \in Tasks  PROVE LogOf(t)'
  <2>1. LogOf(t)  BY <1>1 DEF LogInv
  <2>2. Noted(log'[t], t = current_task', time')  BY <1>1, <2>1 DEF LogOf
  <2>3. ran'[t] = RunIn(log'[t], IF pc' = "charge" THEN time' - 1 ELSE time')  BY <1>1, <1>3
  <2>4. t \in finished' =>
          IF pc' = "switch" /\ t = current_task' THEN log'[t].finish_time = time'
          ELSE /\ log'[t].stop_times # <<>>
               /\ log'[t].finish_time = log'[t].stop_times[Len(log'[t].stop_times)]
    BY <1>1, <2>1 DEF LogOf
  <2>. QED  BY <1>1, <2>1, <2>2, <2>3, <2>4 DEF LogOf, Arrived
<1>. QED  BY <1>1, <1>2, <1>4, <1>5 DEF LogInv

\* A task arrives: it has noted nothing.
LEMMA LogArriveInv == LogInv /\ TypeOK /\ LogArrive => LogInv'
<1>. SUFFICES ASSUME LogInv, TypeOK, LogArrive  PROVE LogInv'  OBVIOUS
<1>. DEFINE u == next_task
<1>1. /\ pc = "arrive" /\ pc' = "arrive" /\ pc \in Loop /\ pc' \in Loop \ {"charge"}
      /\ UNCHANGED <<time, ran, current_task, finished>>
      /\ log' = [log EXCEPT ![u].arrive_time = time]
      /\ u \in Tasks /\ next_task' = u + 1
      /\ u \notin Arrived /\ Arrived' = Arrived \cup {u}
  <2>1. u \in 1 .. NumTasks + 1 /\ u <= NumTasks /\ next_task' = u + 1
    BY DEF LogArrive, Arrive, TypeOK
  <2>2. u \in Tasks /\ u \notin Arrived /\ Arrived' = Arrived \cup {u}
    BY <2>1, TasksAssumption DEF Tasks, Arrived
  <2>. QED  BY <2>1, <2>2 DEF LogArrive, Arrive, Loop
<1>2. time \in Nat /\ log \in [Tasks -> Logs] /\ ran \in [Tasks -> SUBSET Nat]  BY DEF LogInv
<1>3. log[u] \in Logs /\ log'[u] = [log[u] EXCEPT !.arrive_time = time]  BY <1>1, <1>2
<1>4. /\ log'[u].arrive_time = time /\ log'[u].start_times = log[u].start_times
      /\ log'[u].stop_times = log[u].stop_times /\ log'[u].finish_time = log[u].finish_time
      /\ log'[u] \in Logs
  BY <1>2, <1>3 DEF Logs
<1>5. log' \in [Tasks -> Logs] /\ \A t \in Tasks : t # u => log'[t] = log[t]
  <2>1. DOMAIN log' = Tasks /\ log' = [t \in DOMAIN log' |-> log'[t]]  BY <1>1, <1>2
  <2>2. \A t \in Tasks : t # u => log'[t] = log[t]  BY <1>1, <1>2
  <2>. QED  BY <1>2, <1>4, <2>1, <2>2
<1>. HIDE DEF u
<1>6. ASSUME NEW t \in Tasks  PROVE LogOf(t)'
  <2>0. LogOf(t)  BY <1>1 DEF LogInv
  <2>1. CASE t # u
    <3>1. log'[t] = log[t]  BY <1>5, <2>1
    <3>2. t \notin Arrived' => t \notin Arrived  BY <1>1
    <3>. QED  BY <1>1, <3>1, <3>2, LogStays
  <2>2. CASE t = u
    <3>1. log[u].start_times = <<>> /\ Noted(log[u], u = current_task, time)
          /\ ran[u] = RunIn(log[u], time)
      BY <1>1, <2>0, <2>2 DEF LogOf
    <3>2. log[u].stop_times = <<>> /\ u # current_task
      <4>1. Len(log[u].start_times) = 0  BY <3>1
      <4>2. Len(log[u].stop_times) \in Nat /\ log[u].stop_times \in Seq(Nat)
        BY <1>1, LogFields, LenProperties
      <4>3. Len(log[u].start_times) = Len(log[u].stop_times) + (IF u = current_task THEN 1 ELSE 0)
        BY <3>1 DEF Noted
      <4>. DEFINE k == Len(log[u].stop_times)
      <4>a. k \in Nat /\ 0 = k + (IF u = current_task THEN 1 ELSE 0)  BY <4>1, <4>2, <4>3
      <4>. HIDE DEF k
      <4>b. u # current_task /\ k = 0
        <5>1. CASE u = current_task  BY <4>a, <5>1
        <5>2. CASE u # current_task  BY <4>a, <5>2
        <5>. QED  BY <5>1, <5>2
      <4>4. Len(log[u].stop_times) = 0 /\ u # current_task  BY <4>b DEF k
      <4>. QED  BY <4>2, <4>4, EmptySeq
    <3>3. Noted(log'[u], u = current_task', time')
      <4>1. <<>> \in Seq(Nat) /\ Len(<<>>) = 0 /\ 1 .. 0 = {}  BY EmptySeq
      <4>2. Noted(log'[u], FALSE, time)  BY <1>2, <1>4, <3>1, <3>2, <4>1 DEF Noted
      <4>. QED  BY <1>1, <3>2, <4>2
    <3>4. ran'[u] = RunIn(log'[u], IF pc' = "charge" THEN time' - 1 ELSE time')
      <4>1. RunIn(log'[u], time) = RunIn(log[u], time)  BY <1>4, NotedSame
      <4>. QED  BY <1>1, <3>1, <4>1
    <3>5. u \in finished' =>
            IF pc' = "switch" /\ u = current_task' THEN log'[u].finish_time = time'
            ELSE /\ log'[u].stop_times # <<>>
                 /\ log'[u].finish_time = log'[u].stop_times[Len(log'[u].stop_times)]
      BY <1>1, <1>4, <2>0, <2>2 DEF LogOf
    <3>6. log'[u].arrive_time <= time'  BY <1>1, <1>2, <1>4
    <3>. QED  BY <1>1, <2>2, <3>3, <3>4, <3>5, <3>6 DEF LogOf
  <2>. QED  BY <2>1, <2>2
<1>. QED  BY <1>1, <1>2, <1>5, <1>6 DEF LogInv

\* The end of a task is noted.
LEMMA LogNotifyEndInv == LogInv /\ TypeOK /\ LogNotifyEnd => LogInv'
<1>. SUFFICES ASSUME LogInv, TypeOK, LogNotifyEnd  PROVE LogInv'  OBVIOUS
<1>. DEFINE u == current_task
<1>1. /\ pc = "notify" /\ pc' = "switch" /\ pc \in Loop /\ pc' \in Loop \ {"charge"}
      /\ UNCHANGED <<time, ran, current_task, next_task>> /\ finished' = finished \cup {u}
      /\ log' = [log EXCEPT ![u].finish_time = time]
      /\ u \in Tasks /\ Arrived' = Arrived
  BY DEF LogNotifyEnd, NotifyEnd, TaskDone, TypeOK, Loop, Arrived
<1>2. time \in Nat /\ log \in [Tasks -> Logs] /\ ran \in [Tasks -> SUBSET Nat]  BY DEF LogInv
<1>3. log[u] \in Logs /\ log'[u] = [log[u] EXCEPT !.finish_time = time]  BY <1>1, <1>2
<1>4. /\ log'[u].finish_time = time /\ log'[u].start_times = log[u].start_times
      /\ log'[u].stop_times = log[u].stop_times /\ log'[u].arrive_time = log[u].arrive_time
      /\ log'[u] \in Logs
  BY <1>2, <1>3 DEF Logs
<1>5. log' \in [Tasks -> Logs] /\ \A t \in Tasks : t # u => log'[t] = log[t]
  <2>1. DOMAIN log' = Tasks /\ log' = [t \in DOMAIN log' |-> log'[t]]  BY <1>1, <1>2
  <2>2. \A t \in Tasks : t # u => log'[t] = log[t]  BY <1>1, <1>2
  <2>. QED  BY <1>2, <1>4, <2>1, <2>2
<1>. HIDE DEF u
<1>6. ASSUME NEW t \in Tasks  PROVE LogOf(t)'
  <2>0. LogOf(t)  BY <1>1 DEF LogInv
  <2>1. CASE t # u
    <3>1. log'[t] = log[t] /\ t # current_task  BY <1>5, <2>1 DEF u
    <3>2. t \notin Arrived' => t \notin Arrived  BY <1>1
    <3>3. t \in finished' => t \in finished  BY <1>1, <2>1
    <3>. QED  BY <1>1, <3>1, <3>2, <3>3, LogStays
  <2>2. CASE t = u
    <3>1. Noted(log[u], TRUE, time) /\ ran[u] = RunIn(log[u], time) /\ log[u].arrive_time <= time
          /\ (u \notin Arrived => log[u].start_times = <<>>)
      BY <1>1, <2>0, <2>2 DEF LogOf, u
    <3>2. Noted(log'[u], u = current_task', time')
      <4>1. Noted(log'[u], TRUE, time)  BY <1>4, <3>1 DEF Noted
      <4>. QED  BY <1>1, <4>1 DEF u
    <3>3. ran'[u] = RunIn(log'[u], IF pc' = "charge" THEN time' - 1 ELSE time')
      <4>1. RunIn(log'[u], time) = RunIn(log[u], time)  BY <1>4, NotedSame
      <4>. QED  BY <1>1, <3>1, <4>1
    <3>. QED  BY <1>1, <1>4, <2>2, <3>1, <3>2, <3>3 DEF LogOf, u
  <2>. QED  BY <2>1, <2>2
<1>. QED  BY <1>1, <1>2, <1>5, <1>6 DEF LogInv

\* No task arrives, or none has ended.
LEMMA LogQuietInv ==
  ASSUME LogInv, IInv, EndArrivals \/ NotifyTick, UNCHANGED log_vars
  PROVE  LogInv'
<1>1. /\ pc \in {"arrive", "notify"} /\ pc' \in {"notify", "switch"}
      /\ UNCHANGED <<time, log, ran, current_task, finished, next_task>> /\ Arrived' = Arrived
  BY DEF EndArrivals, NotifyTick, Arrived, log_vars
<1>2. ASSUME NEW t \in Tasks, pc' = "switch", t = current_task  PROVE t \notin finished'
  <2>1. ~TaskDone  BY <1>2 DEF EndArrivals, NotifyTick
  <2>2. t # Idle  BY DEF Tasks, Idle
  <2>3. remaining_time[t] # 0  BY <1>2, <2>1, <2>2 DEF TaskDone
  <2>. QED  BY <1>1, <2>3 DEF IInv, Times
<1>3. ASSUME NEW t \in Tasks  PROVE LogOf(t)'
  <2>1. pc \in Loop /\ pc' \in Loop \ {"charge"} /\ pc \notin {"charge", "switch"}  BY <1>1 DEF Loop
  <2>2. log'[t] = log[t] /\ (t \in finished' => t \in finished) /\ (t \notin Arrived' => t \notin Arrived)
    BY <1>1
  <2>. QED  BY <1>1, <1>2, <2>1, <2>2, LogStays
<1>. QED  BY <1>1, <1>3 DEF LogInv

\* How a log is changed by a start and by a stop.
LEMMA StartAdded ==
  ASSUME time \in Nat, NEW L \in [Tasks -> Logs], NEW u \in Tasks \cup {Idle},
         NEW r, r = isu_task_add_start_time(L, u)
  PROVE  /\ r \in [Tasks -> Logs] /\ \A t \in Tasks : t # u => r[t] = L[t]
         /\ u \in Tasks => Started(L[u], r[u], time)
<1>1. CASE u = Idle
  <2>1. r = L /\ u \notin Tasks  BY <1>1 DEF isu_task_add_start_time, Tasks, Idle
  <2>. QED  BY <2>1
<1>2. CASE u # Idle
  <2>0. u \in Tasks  BY <1>2
  <2>1. r = [L EXCEPT ![u].start_times = Append(@, time)]  BY <1>2 DEF isu_task_add_start_time
  <2>2. L[u] \in Logs /\ DOMAIN r = Tasks /\ \A t \in Tasks : t # u => r[t] = L[t]  BY <2>0, <2>1
  <2>3. r[u] = [L[u] EXCEPT !.start_times = Append(L[u].start_times, time)]  BY <2>0, <2>1
  <2>4. L[u].start_times \in Seq(Nat)  BY <2>2 DEF Logs
  <2>5. Append(L[u].start_times, time) \in Seq(Nat)  BY <2>4, AddTime
  <2>6. r[u] \in Logs /\ Started(L[u], r[u], time)  BY <2>2, <2>3, <2>5 DEF Logs, Started
  <2>7. \A t \in Tasks : r[t] \in Logs  BY <2>2, <2>6
  <2>8. r = [t \in Tasks |-> r[t]]  BY <2>1
  <2>. QED  BY <2>2, <2>6, <2>7, <2>8
<1>. QED  BY <1>1, <1>2

LEMMA StopAdded ==
  ASSUME time \in Nat, NEW L \in [Tasks -> Logs], NEW u \in Tasks \cup {Idle},
         NEW r, r = isu_task_add_stop_time(L, u)
  PROVE  /\ r \in [Tasks -> Logs] /\ \A t \in Tasks : t # u => r[t] = L[t]
         /\ u \in Tasks => Stopped(L[u], r[u], time)
<1>1. CASE u = Idle
  <2>1. r = L /\ u \notin Tasks  BY <1>1 DEF isu_task_add_stop_time, Tasks, Idle
  <2>. QED  BY <2>1
<1>2. CASE u # Idle
  <2>0. u \in Tasks  BY <1>2
  <2>1. r = [L EXCEPT ![u].stop_times = Append(@, time)]  BY <1>2 DEF isu_task_add_stop_time
  <2>2. L[u] \in Logs /\ DOMAIN r = Tasks /\ \A t \in Tasks : t # u => r[t] = L[t]  BY <2>0, <2>1
  <2>3. r[u] = [L[u] EXCEPT !.stop_times = Append(L[u].stop_times, time)]  BY <2>0, <2>1
  <2>4. L[u].stop_times \in Seq(Nat)  BY <2>2 DEF Logs
  <2>5. Append(L[u].stop_times, time) \in Seq(Nat)  BY <2>4, AddTime
  <2>6. r[u] \in Logs /\ Stopped(L[u], r[u], time)  BY <2>2, <2>3, <2>5 DEF Logs, Stopped
  <2>7. \A t \in Tasks : r[t] \in Logs  BY <2>2, <2>6
  <2>8. r = [t \in Tasks |-> r[t]]  BY <2>1
  <2>. QED  BY <2>2, <2>6, <2>7, <2>8
<1>. QED  BY <1>1, <1>2

\* Each switch notes the stop of one task and the start of the other.
LEMMA LogSwitchInv == LogInv /\ IInv /\ LogSwitch => LogInv'
<1>. SUFFICES ASSUME LogInv, IInv, LogSwitch  PROVE LogInv'  OBVIOUS
<1>. DEFINE o == current_task  n == new_task
<1>1. /\ pc = "switch" /\ pc' = "charge" /\ ~obj.fault /\ pc \in Loop /\ time' = time + 1 /\ ran' = ran
      /\ current_task' = n /\ UNCHANGED <<finished, next_task, new_task>> /\ Arrived' = Arrived
      /\ log' = IF n = o THEN log ELSE isu_task_add_start_time(isu_task_add_stop_time(log, o), n)
      /\ o \in Tasks \cup {Idle} /\ n \in Tasks \cup {Idle} /\ Idle \notin Tasks
  BY DEF LogSwitch, Switch, Loop, Arrived, IInv, TypeOK, Tasks, Idle
<1>2. time \in Nat /\ log \in [Tasks -> Logs] /\ ran \in [Tasks -> SUBSET Nat]
      /\ \A t \in Tasks : LogOf(t)
  BY <1>1 DEF LogInv
<1>3. n \in Tasks => n \in Arrived /\ n \notin finished
  <2>1. n = obj.running  BY <1>1 DEF IInv, Asked, Agreement
  <2>2. Running(obj) \subseteq Arrived \ finished  BY <1>1 DEF IInv, Conservation
  <2>. QED  BY <1>1, <2>1, <2>2 DEF Running
<1>4. /\ log' \in [Tasks -> Logs]
      /\ \A t \in Tasks : o = n \/ t \notin {o, n} => log'[t] = log[t]
      /\ o # n /\ o \in Tasks => Stopped(log[o], log'[o], time)
      /\ o # n /\ n \in Tasks => Started(log[n], log'[n], time)
  <2>1. CASE n = o  BY <1>1, <1>2, <2>1
  <2>2. CASE n # o
    <3>. DEFINE L == isu_task_add_stop_time(log, o)
    <3>1. /\ L \in [Tasks -> Logs] /\ \A t \in Tasks : t # o => L[t] = log[t]
          /\ o \in Tasks => Stopped(log[o], L[o], time)
      BY <1>1, <1>2, StopAdded
    <3>2. log' = isu_task_add_start_time(L, n)  BY <1>1, <2>2
    <3>. HIDE DEF L
    <3>3. /\ log' \in [Tasks -> Logs] /\ \A t \in Tasks : t # n => log'[t] = L[t]
          /\ n \in Tasks => Started(L[n], log'[n], time)
      BY <1>1, <1>2, <3>1, <3>2, StartAdded
    <3>4. n \in Tasks => L[n] = log[n]  BY <2>2, <3>1
    <3>5. o \in Tasks => log'[o] = L[o]  BY <2>2, <3>3
    <3>. QED  BY <2>2, <3>1, <3>3, <3>4, <3>5
  <2>. QED  BY <2>1, <2>2
<1>. HIDE DEF o, n
<1>5. ASSUME NEW t \in Tasks  PROVE LogOf(t)'
  <2>0. /\ Noted(log[t], t = o, time) /\ log[t].arrive_time <= time /\ ran[t] = RunIn(log[t], time)
        /\ t \notin Arrived => log[t].start_times = <<>>
        /\ t \in finished => IF t = o THEN log[t].finish_time = time
                             ELSE /\ log[t].stop_times # <<>>
                                  /\ log[t].finish_time = log[t].stop_times[Len(log[t].stop_times)]
    BY <1>1, <1>2 DEF LogOf, o
  <2>a. log[t].arrive_time \in Nat /\ log[t].stop_times \in Seq(Nat) /\ log[t].start_times \in Seq(Nat)
    BY <1>2 DEF Logs
  <2>b. /\ (t = current_task') <=> (t = n)
        /\ time' - 1 = time
    BY <1>1, <1>2 DEF n
  <2>. SUFFICES /\ Noted(log'[t], t = n, time + 1) /\ log'[t].arrive_time <= time + 1
                /\ ran[t] = RunIn(log'[t], time)
                /\ t \notin Arrived => log'[t].start_times = <<>>
                /\ t \in finished => /\ log'[t].stop_times # <<>>
                                     /\ log'[t].finish_time = log'[t].stop_times[Len(log'[t].stop_times)]
    BY <1>1, <2>b DEF LogOf, n
  <2>1. CASE o = n \/ t \notin {o, n}
    <3>1. log'[t] = log[t] /\ (t = o <=> t = n)  BY <1>4, <2>1
    <3>2. Noted(log[t], t = n, time)  BY <2>0, <3>1
    <3>3. Noted(log[t], t = n, time + 1)  BY <1>2, <3>2, NotedLater
    <3>4. t \in finished => t # o
      <4>1. SUFFICES ASSUME t \in finished, t = o  PROVE FALSE  OBVIOUS
      <4>. QED  BY <1>3, <2>1, <4>1
    <3>5. log[t].arrive_time <= time + 1  BY <1>2, <2>0, <2>a
    <3>. QED  BY <2>0, <3>1, <3>3, <3>4, <3>5
  <2>2. CASE o # n /\ t = o
    <3>1. Stopped(log[t], log'[t], time)  BY <1>4, <2>2
    <3>2. Noted(log[t], TRUE, time)  BY <2>0, <2>2
    <3>3. Noted(log'[t], FALSE, time + 1) /\ RunIn(log'[t], time) = RunIn(log[t], time)
      BY <1>2, <3>1, <3>2, NotedStop DEF StopKeeps
    <3>4. Noted(log'[t], t = n, time + 1)  BY <2>2, <3>3
    <3>5. log'[t].stop_times # <<>> /\ log'[t].stop_times[Len(log'[t].stop_times)] = time
      <4>. DEFINE P == log[t].stop_times  Q == log'[t].stop_times
      <4>1. Q = Append(P, time) /\ P \in Seq(Nat)  BY <2>a, <3>1 DEF Stopped
      <4>. HIDE DEF P, Q
      <4>2. Len(Q) = Len(P) + 1 /\ Q # <<>> /\ Q[Len(P) + 1] = time  BY <1>2, <4>1, AddTime
      <4>. QED  BY <4>2 DEF Q
    <3>6. t \in finished => log'[t].finish_time = time  BY <2>0, <2>2, <3>1 DEF Stopped
    <3>7. log'[t].arrive_time <= time + 1  BY <1>2, <2>0, <2>a, <3>1 DEF Stopped
    <3>8. t \notin Arrived => log'[t].start_times = <<>>  BY <2>0, <3>1 DEF Stopped
    <3>. QED  BY <2>0, <3>3, <3>4, <3>5, <3>6, <3>7, <3>8
  <2>3. CASE o # n /\ t = n
    <3>1. Started(log[t], log'[t], time)  BY <1>4, <2>3
    <3>2. Noted(log[t], FALSE, time)  BY <2>0, <2>3
    <3>3. Noted(log'[t], TRUE, time + 1) /\ RunIn(log'[t], time) = RunIn(log[t], time)
      BY <1>2, <2>0, <3>1, <3>2, NotedStart DEF StartKeeps
    <3>4. Noted(log'[t], t = n, time + 1)  BY <2>3, <3>3
    <3>5. t \in Arrived /\ t \notin finished  BY <1>3, <2>3
    <3>6. log'[t].arrive_time <= time + 1  BY <1>2, <2>0, <2>a, <3>1 DEF Started
    <3>. QED  BY <2>0, <3>3, <3>4, <3>5, <3>6
  <2>. QED  BY <2>1, <2>2, <2>3
<1>6. time' \in Nat  BY <1>1, <1>2
<1>. QED  BY <1>1, <1>2, <1>4, <1>5, <1>6 DEF LogInv

LEMMA LogNextInv == IInv /\ LogInv /\ [MainNext]_main_vars => LogInv'
<1>. SUFFICES ASSUME IInv, LogInv, [MainNext]_main_vars  PROVE LogInv'  OBVIOUS
<1>0. TypeOK  BY DEF IInv
<1>1. CASE UNCHANGED <<vars, log_vars>>
  BY <1>1 DEF vars, log_vars, LogInv, LogOf, Arrived
<1>2. CASE pc' \notin Loop /\ UNCHANGED log_vars
  BY <1>2 DEF LogInv, log_vars
<1>3. CASE MainInstall
  <2>1. pc' \in {"install", "main"} /\ UNCHANGED log_vars  BY <1>3 DEF MainInstall, Install
  <2>. QED  BY <1>2, <2>1 DEF Loop
<1>4. CASE MainRun
  <2>1. CASE LogStartRun  BY <2>1, LogStartRunInv
  <2>2. CASE LogCharge  BY <1>0, <2>2, LogChargeInv
  <2>3. CASE LogArrive  BY <1>0, <2>3, LogArriveInv
  <2>4. CASE LogNotifyEnd  BY <1>0, <2>4, LogNotifyEndInv
  <2>5. CASE LogSwitch  BY <2>5, LogSwitchInv
  <2>6. CASE (EndArrivals \/ NotifyTick) /\ UNCHANGED log_vars  BY <2>6, LogQuietInv
  <2>7. CASE EndRun /\ UNCHANGED log_vars
    <3>1. pc' = "main"  BY <2>7 DEF EndRun
    <3>. QED  BY <1>2, <2>7, <3>1 DEF Loop
  <2>8. CASE Destroy /\ UNCHANGED log_vars
    <3>1. pc' = "done"  BY <2>8 DEF Destroy
    <3>. QED  BY <1>2, <2>8, <3>1 DEF Loop
  <2>. QED  BY <1>4, <2>1, <2>2, <2>3, <2>4, <2>5, <2>6, <2>7, <2>8 DEF MainRun, LogRun
<1>5. CASE MainUninstall  BY <1>1, <1>5 DEF MainUninstall
<1>6. CASE UNCHANGED main_vars  BY <1>1, <1>6 DEF main_vars
<1>. QED  BY <1>3, <1>4, <1>5, <1>6 DEF MainNext

\* When a run ends no task is on the processor, and all have ended.
LEMMA LogEnough == IInv /\ LogInv => ChartIsTrue
<1>. SUFFICES ASSUME IInv, LogInv, pc = "charge", remaining_tasks = 0,
                     NEW t \in Tasks, NEW n \in 0 .. log[t].finish_time - 1
              PROVE  Shown(isu_task_to_json(log[t]), n)
                       = IF n \in ran[t] THEN "2" ELSE IF n >= log[t].arrive_time THEN "x" ELSE "z"
  BY DEF ChartIsTrue
<1>1. finished = Tasks
  <2>1. finished \in SUBSET Tasks /\ remaining_tasks = NumTasks - Cardinality(finished)
    BY DEF IInv, TypeOK, Count
  <2>2. Cardinality(finished) \in 0 .. NumTasks  BY <2>1, TasksFinite
  <2>3. Cardinality(finished) = NumTasks  BY <2>1, <2>2, TasksAssumption
  <2>. QED  BY <2>1, <2>3, TasksFinite
<1>2. current_task = Idle
  <2>1. ~obj.fault /\ current_task = obj.running  BY DEF IInv, FaultPhase, Agreement
  <2>2. Running(obj) \subseteq Arrived \ finished  BY <2>1 DEF IInv, Conservation
  <2>3. current_task \in Tasks \cup {Idle}  BY DEF IInv, TypeOK
  <2>. QED  BY <1>1, <2>1, <2>2, <2>3 DEF Running
<1>3. LogOf(t) /\ t # current_task /\ time \in Nat  BY <1>2 DEF LogInv, Loop, Tasks, Idle
<1>4. Closed(log[t], time) /\ ran[t] = RunIn(log[t], time - 1)  BY <1>1, <1>3 DEF LogOf, Closed
<1>5. Shown(isu_task_to_json(log[t]), n) = IF n \in RunIn(log[t], time - 1) THEN "2"
                                           ELSE IF n >= log[t].arrive_time THEN "x" ELSE "z"
  BY <1>4, ChartShows
<1>. QED  BY <1>4, <1>5

\* Whatever the tasks and the algorithms: at the end of a run the chart of each task
\* shows it running in just the ticks it was charged for.
THEOREM ChartsAreTrue == MainSpec => []ChartIsTrue
<1>1. MainSpec => []IInv
  BY MainImplements, Invariant, PTL
<1>. QED
  BY <1>1, LogInitInv, LogNextInv, LogEnough, PTL DEF MainSpec
=============================================================================
