------------------------- MODULE PrintQueue_proofs -------------------------
(***************************************************************************)
(* Lemmas about queue.c, for every number of threads, queues and nodes.    *)
(*                                                                         *)
(* The first part is about linked lists: Walk finds the list the links     *)
(* make, and the list after a node is linked or unlinked at either end.    *)
(* The second counts threads, and states the invariant of the queue:       *)
(* nodes are in one list or in the hands of one call, the mutex admits     *)
(* one thread, and the semaphore with the tokens in flight covers the      *)
(* list.  The third has one lemma per step: the invariant is preserved,    *)
(* and what the step does to the contents and the tokens of each queue.    *)
(* What they preserve holds whoever the callers are.                       *)
(***************************************************************************)
EXTENDS PrintQueue, FiniteSetTheorems, SequenceTheorems, WellFoundedInduction, TLAPS

\* Every nonempty set of numbers has a least one.
LEMMA LeastElement ==
  ASSUME NEW S \in SUBSET Nat, S # {}
  PROVE  \E m \in S : \A k \in S : m <= k
<1>0. S \subseteq Nat
  OBVIOUS
<1>1. PICK m \in S : \A k \in S : <<k, m>> \notin OpToRel(<, Nat)
  BY <1>0, WFMin, NatLessThanWellFounded, Zenon
<1>2. \A k \in S : ~(k < m)
  BY <1>0, <1>1 DEF OpToRel
<1> QED
  BY <1>0, <1>2

\* The size of an interval.
LEMMA IntervalSize ==
  ASSUME NEW n \in Nat
  PROVE  IsFiniteSet(1 .. n) /\ Cardinality(1 .. n) = n
BY FS_Interval

\* A list without repetitions is no longer than there are nodes.
LEMMA FewNodes ==
  ASSUME NEW s \in Seq(Nodes), \A i, j \in 1 .. Len(s) : s[i] = s[j] => i = j
  PROVE  Len(s) \in Nat /\ Cardinality(Nodes) \in Nat /\ Len(s) <= Cardinality(Nodes)
<1>1. s \in [1 .. Len(s) -> Nodes] /\ Len(s) \in Nat
  BY LenProperties
<1>2. s \in Injection(1 .. Len(s), Nodes)
  BY <1>1 DEF Injection, IsInjective
<1>3. Cardinality(1 .. Len(s)) <= Cardinality(Nodes)
  BY <1>2, FS_Injection, NodesAssumption
<1>4. Cardinality(1 .. Len(s)) = Len(s)
  BY <1>1, IntervalSize
<1> QED
  BY <1>1, <1>3, <1>4, FS_CardinalityType, NodesAssumption

\* Walk finds the list that the links make.
LEMMA WalkIs ==
  ASSUME NEW f \in [Nodes -> Nodes \cup {Null}], NEW s \in Seq(Nodes), NEW n,
         n = IF s = <<>> THEN Null ELSE s[1],
         \A i \in 1 .. Len(s) : f[s[i]] = IF i = Len(s) THEN Null ELSE s[i + 1],
         \A i, j \in 1 .. Len(s) : s[i] = s[j] => i = j
  PROVE  Walk(f, n) = s
<1> DEFINE K == Cardinality(Nodes) + 1
           step == [m \in Nodes \cup {Null} |-> IF m = Null THEN Null ELSE f[m]]
           nth == CHOOSE nth : nth = [i \in 1 .. K |-> IF i = 1 THEN n ELSE step[nth[i - 1]]]
           g == [i \in 1 .. K |-> IF i <= Len(s) THEN s[i] ELSE Null]
<1>0. K \in Nat /\ Len(s) \in Nat /\ Len(s) + 1 <= K
  BY FewNodes
<1>1. \A i \in 1 .. Len(s) : s[i] \in Nodes /\ s[i] # Null
  BY ElementOfSeq, NodesAssumption DEF Null
<1>2. s = <<>> <=> Len(s) = 0
  BY EmptySeq
<1>3. g = [i \in 1 .. K |-> IF i = 1 THEN n ELSE step[g[i - 1]]]
  <2>1. ASSUME NEW i \in 1 .. K PROVE g[i] = IF i = 1 THEN n ELSE step[g[i - 1]]
    BY <1>0, <1>1, <1>2
  <2> HIDE DEF g
  <2> QED
    BY <2>1 DEF g
<1>4. nth = [i \in 1 .. K |-> IF i = 1 THEN n ELSE step[nth[i - 1]]]
  BY <1>3
<1> HIDE DEF nth, K
<1>5. \A i \in 1 .. K : nth[i] = g[i]
  <2> DEFINE Bad == {i \in 1 .. K : nth[i] # g[i]}
  <2> SUFFICES ASSUME Bad # {} PROVE FALSE
    OBVIOUS
  <2>0. Bad \in SUBSET Nat
    BY <1>0
  <2>1. PICK m \in Bad : \A k \in Bad : m <= k
    <3> HIDE DEF Bad
    <3> QED
      BY <2>0, LeastElement
  <2>2. m \in 1 .. K /\ nth[m] # g[m]
    OBVIOUS
  <2>3. nth[m] = (IF m = 1 THEN n ELSE step[nth[m - 1]]) /\ g[m] = IF m = 1 THEN n ELSE step[g[m - 1]]
    BY <1>3, <1>4, <2>2
  <2>4. m # 1 /\ m - 1 \in 1 .. K /\ nth[m - 1] # g[m - 1]
    BY <1>0, <2>2, <2>3
  <2> QED
    BY <1>0, <2>1, <2>4
<1>6. nth = g
  BY <1>4, <1>5
<1>7. {i \in DOMAIN nth : nth[i] # Null} = 1 .. Len(s)
  BY <1>0, <1>1, <1>6
<1>8. Cardinality({i \in DOMAIN nth : nth[i] # Null}) = Len(s)
  BY <1>0, <1>7, IntervalSize
<1>9. SubSeq(nth, 1, Len(s)) = s
  <2>1. \A i \in 1 .. Len(s) : nth[i] = s[i]
    BY <1>0, <1>6
  <2>2. /\ SubSeq(nth, 1, Len(s)) \in Seq(Nodes)
        /\ Len(SubSeq(nth, 1, Len(s))) = Len(s)
        /\ \A i \in 1 .. Len(s) : SubSeq(nth, 1, Len(s))[i] = s[i]
    <3>1. \A i \in 1 .. Len(s) : nth[i] \in Nodes
      BY <1>1, <2>1
    <3> QED
      BY <1>0, <2>1, <3>1, SubSeqProperties
  <2> QED
    BY <2>2, SeqEqual
<1> QED
  BY <1>8, <1>9 DEF Walk, nth, K

-----------------------------------------------------------------------------
(* Doubly linked lists. *)

\* The nodes of s, each once, are linked both ways between head h and tail b.
IsList(s, h, b, nx, pv) ==
  /\ h = IF s = <<>> THEN Null ELSE s[1]
  /\ b = IF s = <<>> THEN Null ELSE s[Len(s)]
  /\ \A i \in 1 .. Len(s) : /\ nx[s[i]] = IF i = Len(s) THEN Null ELSE s[i + 1]
                            /\ pv[s[i]] = IF i = 1 THEN Null ELSE s[i - 1]
  /\ \A i, j \in 1 .. Len(s) : s[i] = s[j] => i = j

Links == [Nodes -> Nodes \cup {Null}]

\* The elements of a list are nodes, and none is NULL.
LEMMA NodesOfList ==
  ASSUME NEW s \in Seq(Nodes)
  PROVE  /\ Len(s) \in Nat /\ DOMAIN s = 1 .. Len(s)
         /\ s = <<>> <=> Len(s) = 0
         /\ \A i \in 1 .. Len(s) : s[i] \in Nodes /\ s[i] # Null
         /\ \A n : n \in ToSet(s) <=> \E i \in 1 .. Len(s) : s[i] = n
BY LenProperties, EmptySeq, ElementOfSeq, NodesAssumption DEF ToSet, Null

\* The reverse of a list.
LEMMA ReverseIs ==
  ASSUME NEW s \in Seq(Nodes)
  PROVE  /\ Reverse(s) \in Seq(Nodes) /\ Len(Reverse(s)) = Len(s)
         /\ \A i \in 1 .. Len(s) : Reverse(s)[i] = s[(Len(s) - i) + 1]
<1>1. PICK k \in Nat : k = Len(s)
  BY NodesOfList
<1>2. \A i \in 1 .. k : s[(k - i) + 1] \in Nodes
  BY <1>1, NodesOfList
<1>3. Reverse(s) = [i \in 1 .. k |-> s[(k - i) + 1]]
  BY <1>1 DEF Reverse
<1>4. Reverse(s) \in Seq(Nodes) /\ Len(Reverse(s)) = k
  BY <1>2, <1>3
<1> QED
  BY <1>1, <1>3, <1>4

\* Walked from either end a list is what it is.
LEMMA WalkBoth ==
  ASSUME NEW s \in Seq(Nodes), NEW h, NEW b, NEW nx \in Links, NEW pv \in Links,
         IsList(s, h, b, nx, pv)
  PROVE  Walk(nx, h) = s /\ Walk(pv, b) = Reverse(s)
<1>1. Walk(nx, h) = s
  BY WalkIs DEF IsList, Links
<1>2. Walk(pv, b) = Reverse(s)
  <2> DEFINE r == Reverse(s)
  <2>1. r \in Seq(Nodes) /\ Len(r) = Len(s) /\ \A i \in 1 .. Len(s) : r[i] = s[(Len(s) - i) + 1]
    BY ReverseIs
  <2> HIDE DEF r
  <2>2. b = IF r = <<>> THEN Null ELSE r[1]
    BY <2>1, NodesOfList DEF IsList
  <2>3. \A i \in 1 .. Len(r) : pv[r[i]] = IF i = Len(r) THEN Null ELSE r[i + 1]
    <3>1. SUFFICES ASSUME NEW i \in 1 .. Len(r) PROVE pv[r[i]] = IF i = Len(r) THEN Null ELSE r[i + 1]
      OBVIOUS
    <3>2. PICK j \in 1 .. Len(s) : j = (Len(s) - i) + 1
      BY <2>1, NodesOfList
    <3>3. r[i] = s[j] /\ (i # Len(r) => r[i + 1] = s[j - 1])
      <4>1. r[i] = s[j]
        BY <2>1, <3>2
      <4>2. ASSUME i # Len(r) PROVE i + 1 \in 1 .. Len(s) /\ (Len(s) - (i + 1)) + 1 = j - 1
        BY <2>1, <3>2, <4>2, NodesOfList
      <4> QED
        BY <2>1, <4>1, <4>2
    <3>4. pv[s[j]] = IF j = 1 THEN Null ELSE s[j - 1]
      BY DEF IsList
    <3>5. j = 1 <=> i = Len(r)
      BY <2>1, <3>2, NodesOfList
    <3> QED
      BY <3>3, <3>4, <3>5
  <2>4. \A i, j \in 1 .. Len(r) : r[i] = r[j] => i = j
    <3>1. SUFFICES ASSUME NEW i \in 1 .. Len(r), NEW j \in 1 .. Len(r), r[i] = r[j] PROVE i = j
      OBVIOUS
    <3>2. (Len(s) - i) + 1 \in 1 .. Len(s) /\ (Len(s) - j) + 1 \in 1 .. Len(s)
      BY <2>1, NodesOfList
    <3>3. (Len(s) - i) + 1 = (Len(s) - j) + 1
      BY <2>1, <3>1, <3>2 DEF IsList
    <3> QED
      BY <2>1, <3>3, NodesOfList
  <2>5. Walk(pv, b) = r
    BY <2>1, <2>2, <2>3, <2>4, WalkIs DEF Links
  <2> QED
    BY <2>5 DEF r
<1> QED
  BY <1>1, <1>2

\* Links of other nodes do not matter.
LEMMA ListFrame ==
  ASSUME NEW s \in Seq(Nodes), NEW h, NEW b, NEW nx, NEW pv, NEW nx2, NEW pv2,
         IsList(s, h, b, nx, pv),
         \A m \in ToSet(s) : nx2[m] = nx[m] /\ pv2[m] = pv[m]
  PROVE  IsList(s, h, b, nx2, pv2)
<1>1. \A i \in 1 .. Len(s) : s[i] \in ToSet(s)
  BY NodesOfList
<1> QED
  BY <1>1 DEF IsList

\* A node alone.
LEMMA ListOfOne ==
  ASSUME NEW n \in Nodes, NEW nx, NEW pv, nx[n] = Null, pv[n] = Null
  PROVE  <<n>> \in Seq(Nodes) /\ IsList(<<n>>, n, n, nx, pv)
BY DEF IsList

\* A list with a node more at its head.
LEMMA ConsIs ==
  ASSUME NEW s \in Seq(Nodes), NEW n \in Nodes
  PROVE  /\ <<n>> \o s \in Seq(Nodes) /\ Len(<<n>> \o s) = Len(s) + 1
         /\ (<<n>> \o s)[1] = n
         /\ \A i \in 1 .. Len(s) : (<<n>> \o s)[i + 1] = s[i]
         /\ \A i \in 2 .. Len(s) + 1 : (<<n>> \o s)[i] = s[i - 1]
         /\ ToSet(<<n>> \o s) = ToSet(s) \cup {n}
<1>1. <<n>> \in Seq(Nodes) /\ Len(<<n>>) = 1
  OBVIOUS
<1>2. PICK r \in Seq(Nodes) : r = <<n>> \o s
  BY <1>1, ConcatProperties
<1>3. Len(r) = Len(s) + 1 /\ \A i \in 1 .. Len(s) + 1 : r[i] = IF i <= 1 THEN n ELSE s[i - 1]
  BY <1>1, <1>2, ConcatProperties
<1>4. r[1] = n /\ (\A i \in 1 .. Len(s) : r[i + 1] = s[i]) /\ \A i \in 2 .. Len(s) + 1 : r[i] = s[i - 1]
  BY <1>3, NodesOfList
<1>5. ToSet(r) = ToSet(s) \cup {n}
  <2>1. ASSUME NEW m PROVE m \in ToSet(r) <=> m \in ToSet(s) \cup {n}
    <3>1. m \in ToSet(r) <=> \E i \in 1 .. Len(s) + 1 : r[i] = m
      BY <1>3, NodesOfList
    <3>2. (\E i \in 1 .. Len(s) + 1 : r[i] = m) <=> m = n \/ \E i \in 1 .. Len(s) : s[i] = m
      <4>1. ASSUME NEW i \in 1 .. Len(s) + 1, r[i] = m PROVE m = n \/ \E j \in 1 .. Len(s) : s[j] = m
        <5>1. CASE i = 1
          BY <1>4, <4>1, <5>1
        <5>2. CASE i # 1
          <6>1. i - 1 \in 1 .. Len(s) /\ s[i - 1] = m
            BY <1>4, <4>1, <5>2, NodesOfList
          <6> QED
            BY <6>1
        <5> QED
          BY <5>1, <5>2
      <4>2. ASSUME NEW i \in 1 .. Len(s), s[i] = m PROVE \E j \in 1 .. Len(s) + 1 : r[j] = m
        <5>1. i + 1 \in 1 .. Len(s) + 1 /\ r[i + 1] = m
          BY <1>4, <4>2, NodesOfList
        <5> QED
          BY <5>1
      <4>3. 1 \in 1 .. Len(s) + 1
        BY NodesOfList
      <4> QED
        BY <1>4, <4>1, <4>2, <4>3
    <3> QED
      BY <3>1, <3>2, NodesOfList
  <2> QED
    BY <2>1
<1> QED
  BY <1>2, <1>3, <1>4, <1>5

\* A list with a node more at its tail.
LEMMA AppendIs ==
  ASSUME NEW s \in Seq(Nodes), NEW n \in Nodes
  PROVE  /\ Append(s, n) \in Seq(Nodes) /\ Len(Append(s, n)) = Len(s) + 1
         /\ Append(s, n)[Len(s) + 1] = n
         /\ \A i \in 1 .. Len(s) : Append(s, n)[i] = s[i]
         /\ ToSet(Append(s, n)) = ToSet(s) \cup {n}
<1>1. PICK r \in Seq(Nodes) : r = Append(s, n)
  BY AppendProperties
<1>2. Len(r) = Len(s) + 1 /\ r[Len(s) + 1] = n /\ \A i \in 1 .. Len(s) : r[i] = s[i]
  BY <1>1, NodesOfList
<1>3. ASSUME NEW m PROVE m \in ToSet(r) <=> m \in ToSet(s) \cup {n}
  <2>1. (\E i \in 1 .. Len(s) + 1 : r[i] = m) <=> m = n \/ \E i \in 1 .. Len(s) : s[i] = m
    <3>1. 1 .. Len(s) + 1 = (1 .. Len(s)) \cup {Len(s) + 1}
      BY NodesOfList
    <3> QED
      BY <1>2, <3>1
  <2> QED
    BY <1>2, <2>1, NodesOfList
<1> QED
  BY <1>1, <1>2, <1>3

\* The first and the last node of a list are links to others.
LEMMA EndsOfList ==
  ASSUME NEW s \in Seq(Nodes), NEW h, NEW b, NEW nx, NEW pv, IsList(s, h, b, nx, pv)
  PROVE  /\ h = Null <=> s = <<>>
         /\ b = Null <=> s = <<>>
         /\ s # <<>> => /\ h = s[1] /\ b = s[Len(s)] /\ h \in ToSet(s) /\ b \in ToSet(s)
                        /\ h \in Nodes /\ b \in Nodes
                        /\ nx[h] = (IF Len(s) = 1 THEN Null ELSE s[2])
                        /\ pv[b] = (IF Len(s) = 1 THEN Null ELSE s[Len(s) - 1])
<1>1. CASE s = <<>>
  BY <1>1 DEF IsList
<1>2. CASE s # <<>>
  <2>1. 1 \in 1 .. Len(s) /\ Len(s) \in 1 .. Len(s)
    BY <1>2, NodesOfList
  <2>2. h = s[1] /\ b = s[Len(s)]
    BY <1>2 DEF IsList
  <2>3. nx[s[1]] = (IF 1 = Len(s) THEN Null ELSE s[1 + 1])
    BY <2>1 DEF IsList
  <2>4. pv[s[Len(s)]] = (IF Len(s) = 1 THEN Null ELSE s[Len(s) - 1])
    BY <2>1 DEF IsList
  <2> QED
    BY <1>2, <2>1, <2>2, <2>3, <2>4, NodesOfList
<1> QED
  BY <1>1, <1>2

\* queue_push at the head of a list that is not empty.
LEMMA LinkFront ==
  ASSUME NEW s \in Seq(Nodes), NEW h, NEW b, NEW nx \in Links, NEW pv \in Links,
         IsList(s, h, b, nx, pv), s # <<>>, NEW n \in Nodes, n \notin ToSet(s), pv[n] = Null
  PROVE  IsList(<<n>> \o s, n, b, [nx EXCEPT ![n] = h], [pv EXCEPT ![h] = n])
<1> DEFINE x == [nx EXCEPT ![n] = h]
           y == [pv EXCEPT ![h] = n]
<1>1. PICK r \in Seq(Nodes) : r = <<n>> \o s
  BY ConsIs
<1>2. /\ Len(r) = Len(s) + 1 /\ r[1] = n
      /\ \A i \in 1 .. Len(s) : r[i + 1] = s[i]
      /\ \A i \in 2 .. Len(s) + 1 : r[i] = s[i - 1]
  BY <1>1, ConsIs
<1>3. h = s[1] /\ b = s[Len(s)] /\ h \in ToSet(s) /\ h \in Nodes /\ Len(s) \in Nat \ {0}
  BY EndsOfList, NodesOfList
<1>4. x[n] = h /\ y[h] = n /\ y[n] = Null
  BY <1>3 DEF Links
<1>5. \A m \in Nodes : (m # n => x[m] = nx[m]) /\ (m # h => y[m] = pv[m])
  BY DEF Links
<1> HIDE DEF x, y
<1>6. \A i \in 1 .. Len(s) : s[i] \in Nodes /\ s[i] # n
  BY NodesOfList
<1>7. ASSUME NEW i \in 1 .. Len(r)
      PROVE  /\ x[r[i]] = IF i = Len(r) THEN Null ELSE r[i + 1]
             /\ y[r[i]] = IF i = 1 THEN Null ELSE r[i - 1]
  <2>1. CASE i = 1
    <3>1. r[i + 1] = s[1]
      BY <1>2, <1>3, <2>1
    <3> QED
      BY <1>2, <1>3, <1>4, <2>1, <3>1
  <2>2. CASE i # 1
    <3>1. PICK j \in 1 .. Len(s) : i = j + 1
      <4>1. i - 1 \in 1 .. Len(s) /\ i = (i - 1) + 1
        BY <1>2, <1>3, <2>2
      <4> QED
        BY <4>1
    <3>2. r[i] = s[j] /\ (j # Len(s) => r[i + 1] = s[j + 1]) /\ (j # 1 => r[i - 1] = s[j - 1])
      BY <1>2, <1>3, <3>1
    <3>3. nx[s[j]] = (IF j = Len(s) THEN Null ELSE s[j + 1]) /\ pv[s[j]] = IF j = 1 THEN Null ELSE s[j - 1]
      BY DEF IsList
    <3>4. x[s[j]] = nx[s[j]]
      BY <1>5, <1>6
    <3>5. j # 1 => y[s[j]] = pv[s[j]]
      <4>1. 1 \in 1 .. Len(s)
        BY <1>3
      <4>2. j # 1 => s[j] # s[1]
        BY <4>1 DEF IsList
      <4> QED
        BY <1>3, <1>5, <1>6, <4>2
    <3>6. j = 1 => y[s[j]] = n /\ r[i - 1] = n
      BY <1>2, <1>3, <1>4, <3>1
    <3>7. i = Len(r) <=> j = Len(s)
      BY <1>2, <1>3, <3>1
    <3> QED
      BY <2>2, <3>2, <3>3, <3>4, <3>5, <3>6, <3>7
  <2> QED
    BY <2>1, <2>2
<1>8. ASSUME NEW i \in 1 .. Len(r), NEW j \in 1 .. Len(r), r[i] = r[j]  PROVE i = j
  <2>1. ASSUME NEW k \in 1 .. Len(r) PROVE k = 1 \/ (k - 1 \in 1 .. Len(s) /\ r[k] = s[k - 1])
    BY <1>2, <1>3
  <2>2. (i = 1 /\ j = 1) \/ (i # 1 /\ j # 1)
    BY <1>2, <1>6, <1>8, <2>1
  <2>3. CASE i # 1 /\ j # 1
    <3>1. i - 1 = j - 1
      BY <1>8, <2>1, <2>3 DEF IsList
    <3> QED
      BY <1>2, <1>3, <3>1
  <2> QED
    BY <2>2, <2>3
<1>9. r # <<>> /\ r[Len(r)] = b
  <2>1. Len(r) # 0 /\ Len(s) \in 1 .. Len(s)
    BY <1>2, <1>3
  <2> QED
    BY <1>2, <1>3, <2>1, NodesOfList
<1>10. IsList(r, n, b, x, y)
  BY <1>2, <1>7, <1>8, <1>9 DEF IsList
<1> QED
  BY <1>1, <1>10 DEF x, y

\* queue_push at the tail of a list that is not empty.
LEMMA LinkBack ==
  ASSUME NEW s \in Seq(Nodes), NEW h, NEW b, NEW nx \in Links, NEW pv \in Links,
         IsList(s, h, b, nx, pv), s # <<>>, NEW n \in Nodes, n \notin ToSet(s), nx[n] = Null
  PROVE  IsList(Append(s, n), h, n, [nx EXCEPT ![b] = n], [pv EXCEPT ![n] = b])
<1> DEFINE x == [nx EXCEPT ![b] = n]
           y == [pv EXCEPT ![n] = b]
<1>1. PICK r \in Seq(Nodes) : r = Append(s, n)
  BY AppendIs
<1>2. /\ Len(r) = Len(s) + 1 /\ r[Len(s) + 1] = n
      /\ \A i \in 1 .. Len(s) : r[i] = s[i]
  BY <1>1, AppendIs
<1>3. h = s[1] /\ b = s[Len(s)] /\ b \in ToSet(s) /\ b \in Nodes /\ Len(s) \in Nat \ {0}
  BY EndsOfList, NodesOfList
<1>4. x[b] = n /\ y[n] = b /\ x[n] = Null
  BY <1>3 DEF Links
<1>5. \A m \in Nodes : (m # b => x[m] = nx[m]) /\ (m # n => y[m] = pv[m])
  BY DEF Links
<1> HIDE DEF x, y
<1>6. \A i \in 1 .. Len(s) : s[i] \in Nodes /\ s[i] # n
  BY NodesOfList
<1>7. ASSUME NEW i \in 1 .. Len(r)
      PROVE  /\ x[r[i]] = IF i = Len(r) THEN Null ELSE r[i + 1]
             /\ y[r[i]] = IF i = 1 THEN Null ELSE r[i - 1]
  <2>1. CASE i = Len(r)
    <3>1. r[i - 1] = s[Len(s)] /\ i # 1
      BY <1>2, <1>3, <2>1
    <3> QED
      BY <1>2, <1>3, <1>4, <2>1, <3>1
  <2>2. CASE i # Len(r)
    <3>1. i \in 1 .. Len(s)
      BY <1>2, <1>3, <2>2
    <3>2. r[i] = s[i] /\ (i # Len(s) => r[i + 1] = s[i + 1]) /\ (i # 1 => r[i - 1] = s[i - 1])
      BY <1>2, <1>3, <3>1
    <3>3. nx[s[i]] = (IF i = Len(s) THEN Null ELSE s[i + 1]) /\ pv[s[i]] = IF i = 1 THEN Null ELSE s[i - 1]
      BY <3>1 DEF IsList
    <3>4. y[s[i]] = pv[s[i]]
      BY <1>5, <1>6, <3>1
    <3>5. i # Len(s) => x[s[i]] = nx[s[i]]
      <4>1. Len(s) \in 1 .. Len(s)
        BY <1>3
      <4>2. i # Len(s) => s[i] # s[Len(s)]
        BY <3>1, <4>1 DEF IsList
      <4> QED
        BY <1>3, <1>5, <1>6, <3>1, <4>2
    <3>6. i = Len(s) => x[s[i]] = n /\ r[i + 1] = n
      BY <1>2, <1>3, <1>4
    <3> QED
      BY <2>2, <3>2, <3>3, <3>4, <3>5, <3>6
  <2> QED
    BY <2>1, <2>2
<1>8. ASSUME NEW i \in 1 .. Len(r), NEW j \in 1 .. Len(r), r[i] = r[j]  PROVE i = j
  <2>1. ASSUME NEW k \in 1 .. Len(r) PROVE k = Len(r) \/ (k \in 1 .. Len(s) /\ r[k] = s[k])
    BY <1>2, <1>3
  <2> QED
    BY <1>2, <1>6, <1>8, <2>1 DEF IsList
<1>9. r # <<>> /\ r[1] = h
  <2>1. Len(r) # 0 /\ 1 \in 1 .. Len(s)
    BY <1>2, <1>3
  <2> QED
    BY <1>2, <1>3, <2>1, NodesOfList
<1>10. IsList(r, h, n, x, y)
  BY <1>2, <1>7, <1>8, <1>9 DEF IsList
<1> QED
  BY <1>1, <1>10 DEF x, y

\* A list without its first node.
LEMMA TailIs ==
  ASSUME NEW s \in Seq(Nodes), s # <<>>,  \A i, j \in 1 .. Len(s) : s[i] = s[j] => i = j
  PROVE  /\ Tail(s) \in Seq(Nodes) /\ Len(Tail(s)) = Len(s) - 1
         /\ \A i \in 1 .. Len(s) - 1 : Tail(s)[i] = s[i + 1]
         /\ ToSet(Tail(s)) = ToSet(s) \ {s[1]}
<1>1. PICK r \in Seq(Nodes) : r = Tail(s)
  BY HeadTailProperties
<1>2. Len(r) = Len(s) - 1 /\ \A i \in 1 .. Len(s) - 1 : r[i] = s[i + 1]
  BY <1>1, HeadTailProperties
<1>3. Len(s) \in Nat \ {0} /\ 1 \in 1 .. Len(s)
  BY NodesOfList
<1>4. ASSUME NEW m PROVE m \in ToSet(r) <=> m \in ToSet(s) \ {s[1]}
  <2>1. ASSUME NEW i \in 1 .. Len(r), r[i] = m PROVE m \in ToSet(s) \ {s[1]}
    <3>1. i + 1 \in 1 .. Len(s) /\ s[i + 1] = m /\ i + 1 # 1
      BY <1>2, <1>3, <2>1
    <3> QED
      BY <1>3, <3>1, NodesOfList
  <2>2. ASSUME NEW i \in 1 .. Len(s), s[i] = m, m # s[1] PROVE \E j \in 1 .. Len(r) : r[j] = m
    <3>1. i - 1 \in 1 .. Len(r) /\ (i - 1) + 1 = i
      BY <1>2, <1>3, <2>2
    <3>2. r[i - 1] = m
      BY <1>2, <2>2, <3>1
    <3> QED
      BY <3>1, <3>2
  <2> QED
    BY <2>1, <2>2, NodesOfList
<1> QED
  BY <1>1, <1>2, <1>4

\* A list without its last node.
LEMMA FrontIs ==
  ASSUME NEW s \in Seq(Nodes), s # <<>>,  \A i, j \in 1 .. Len(s) : s[i] = s[j] => i = j
  PROVE  /\ SubSeq(s, 1, Len(s) - 1) \in Seq(Nodes) /\ Len(SubSeq(s, 1, Len(s) - 1)) = Len(s) - 1
         /\ \A i \in 1 .. Len(s) - 1 : SubSeq(s, 1, Len(s) - 1)[i] = s[i]
         /\ ToSet(SubSeq(s, 1, Len(s) - 1)) = ToSet(s) \ {s[Len(s)]}
<1>3. Len(s) \in Nat \ {0} /\ Len(s) \in 1 .. Len(s)
  BY NodesOfList
<1>1. PICK k \in Nat : k = Len(s) - 1
  BY <1>3
<1>2. PICK r \in Seq(Nodes) : r = SubSeq(s, 1, k) /\ Len(r) = k /\ \A i \in 1 .. k : r[i] = s[i]
  <2>1. \A i \in 1 .. k : s[i] \in Nodes
    BY <1>1, <1>3, NodesOfList
  <2>2. /\ SubSeq(s, 1, k) \in Seq(Nodes)
        /\ Len(SubSeq(s, 1, k)) = IF 1 <= k THEN k - 1 + 1 ELSE 0
        /\ \A i \in 1 .. k - 1 + 1 : SubSeq(s, 1, k)[i] = s[1 + i - 1]
    BY <2>1, SubSeqProperties
  <2>3. 1 .. k - 1 + 1 = 1 .. k /\ (IF 1 <= k THEN k - 1 + 1 ELSE 0) = k
    OBVIOUS
  <2>4. \A i \in 1 .. k : SubSeq(s, 1, k)[i] = s[i]
    <3>1. \A i \in 1 .. k : 1 + i - 1 = i
      OBVIOUS
    <3> QED
      BY <2>2, <2>3, <3>1
  <2> QED
    BY <2>2, <2>3, <2>4
<1>4. ASSUME NEW m PROVE m \in ToSet(r) <=> m \in ToSet(s) \ {s[Len(s)]}
  <2>1. ASSUME NEW i \in 1 .. k, r[i] = m PROVE m \in ToSet(s) \ {s[Len(s)]}
    <3>1. i \in 1 .. Len(s) /\ s[i] = m /\ i # Len(s)
      BY <1>1, <1>2, <1>3, <2>1
    <3> QED
      BY <1>3, <3>1, NodesOfList
  <2>2. ASSUME NEW i \in 1 .. Len(s), s[i] = m, m # s[Len(s)] PROVE \E j \in 1 .. k : r[j] = m
    <3>1. i \in 1 .. k
      BY <1>1, <1>3, <2>2
    <3> QED
      BY <1>2, <2>2, <3>1
  <2>3. m \in ToSet(r) <=> \E i \in 1 .. k : r[i] = m
    <3>1. m \in ToSet(r) <=> \E i \in 1 .. Len(r) : r[i] = m
      BY NodesOfList
    <3> QED
      BY <1>2, <3>1
  <2>4. m \in ToSet(s) <=> \E i \in 1 .. Len(s) : s[i] = m
    BY NodesOfList
  <2> QED
    BY <2>1, <2>2, <2>3, <2>4
<1> QED
  BY <1>1, <1>2, <1>4

\* What is left of a list without its first node; nothing if it was the last.
LEMMA UnlinkFront ==
  ASSUME NEW s \in Seq(Nodes), NEW h, NEW b, NEW nx \in Links, NEW pv \in Links,
         IsList(s, h, b, nx, pv), s # <<>>
  PROVE  IF nx[h] = Null THEN IsList(Tail(s), Null, Null, nx, pv)
                         ELSE IsList(Tail(s), nx[h], b, nx, [pv EXCEPT ![nx[h]] = Null])
<1>1. PICK r \in Seq(Nodes) : r = Tail(s)
  BY TailIs DEF IsList
<1>2. Len(r) = Len(s) - 1 /\ \A i \in 1 .. Len(s) - 1 : r[i] = s[i + 1]
  BY <1>1, TailIs DEF IsList
<1>0. Len(s) \in Nat \ {0} /\ (Len(s) # 1 => 2 \in 1 .. Len(s) /\ Len(s) - 1 \in 1 .. Len(s))
  <2>1. PICK k \in Nat : k = Len(s)
    BY NodesOfList
  <2>2. k # 0
    BY <2>1, NodesOfList
  <2> QED
    BY <2>1, <2>2
<1>3. /\ h = s[1] /\ b = s[Len(s)] /\ h \in Nodes /\ Len(s) \in Nat \ {0} /\ 1 \in 1 .. Len(s)
      /\ nx[h] = IF Len(s) = 1 THEN Null ELSE s[2]
  BY EndsOfList, NodesOfList
<1>4. nx[h] = Null <=> Len(s) = 1
  BY <1>0, <1>3, NodesOfList
<1>5. CASE Len(s) = 1
  <2>1. r = <<>>
    BY <1>2, <1>5, NodesOfList
  <2>2. IsList(r, Null, Null, nx, pv)
    BY <2>1 DEF IsList
  <2> QED
    BY <1>1, <1>4, <1>5, <2>2
<1>6. CASE Len(s) # 1
  <2> DEFINE y == [pv EXCEPT ![nx[h]] = Null]
  <2>0. nx[h] = s[2] /\ s[2] \in Nodes /\ 2 \in 1 .. Len(s)
    BY <1>0, <1>3, <1>6, NodesOfList
  <2>1. y[s[2]] = Null /\ \A m \in Nodes : m # s[2] => y[m] = pv[m]
    BY <2>0 DEF Links
  <2> HIDE DEF y
  <2>2. ASSUME NEW i \in 1 .. Len(r)
        PROVE  /\ nx[r[i]] = IF i = Len(r) THEN Null ELSE r[i + 1]
               /\ y[r[i]] = IF i = 1 THEN Null ELSE r[i - 1]
    <3>1. PICK j \in 2 .. Len(s) : j = i + 1
      BY <1>2, <1>3
    <3>2. r[i] = s[j] /\ (j # Len(s) => r[i + 1] = s[j + 1]) /\ (j # 2 => r[i - 1] = s[j - 1])
      <4>1. i \in 1 .. Len(s) - 1 /\ (j # Len(s) => i + 1 \in 1 .. Len(s) - 1 /\ (i + 1) + 1 = j + 1)
            /\ (j # 2 => i - 1 \in 1 .. Len(s) - 1 /\ (i - 1) + 1 = j - 1)
        BY <1>0, <1>2, <3>1
      <4> QED
        BY <1>2, <3>1, <4>1
    <3>3. nx[s[j]] = (IF j = Len(s) THEN Null ELSE s[j + 1]) /\ pv[s[j]] = (IF j = 1 THEN Null ELSE s[j - 1])
          /\ s[j] \in Nodes
      BY NodesOfList DEF IsList
    <3>4. j # 2 => s[j] # s[2]
      BY <2>0 DEF IsList
    <3>5. (i = Len(r) <=> j = Len(s)) /\ (i = 1 <=> j = 2) /\ j # 1
      BY <1>2, <1>3, <3>1
    <3> QED
      BY <2>1, <3>2, <3>3, <3>4, <3>5
  <2>3. ASSUME NEW i \in 1 .. Len(r), NEW j \in 1 .. Len(r), r[i] = r[j] PROVE i = j
    <3>1. i + 1 \in 1 .. Len(s) /\ j + 1 \in 1 .. Len(s) /\ s[i + 1] = s[j + 1]
      BY <1>2, <1>3, <2>3
    <3>2. i + 1 = j + 1
      BY <3>1 DEF IsList
    <3> QED
      BY <1>2, <1>3, <3>2
  <2>4. r # <<>> /\ r[1] = s[2] /\ r[Len(r)] = b
    <3>1. Len(r) # 0 /\ 1 \in 1 .. Len(s) - 1 /\ Len(s) - 1 \in 1 .. Len(s) - 1
      BY <1>2, <1>3, <1>6
    <3> QED
      BY <1>2, <1>3, <3>1, NodesOfList
  <2>5. IsList(r, nx[h], b, nx, y)
    BY <2>0, <2>2, <2>3, <2>4 DEF IsList
  <2> QED
    BY <1>1, <1>4, <1>6, <2>5 DEF y
<1> QED
  BY <1>5, <1>6

\* The same from the other end.
LEMMA UnlinkBack ==
  ASSUME NEW s \in Seq(Nodes), NEW h, NEW b, NEW nx \in Links, NEW pv \in Links,
         IsList(s, h, b, nx, pv), s # <<>>
  PROVE  IF pv[b] = Null THEN IsList(SubSeq(s, 1, Len(s) - 1), Null, Null, nx, pv)
                         ELSE IsList(SubSeq(s, 1, Len(s) - 1), h, pv[b], [nx EXCEPT ![pv[b]] = Null], pv)
<1>1. PICK r \in Seq(Nodes) : r = SubSeq(s, 1, Len(s) - 1)
  BY FrontIs DEF IsList
<1>2. Len(r) = Len(s) - 1 /\ \A i \in 1 .. Len(s) - 1 : r[i] = s[i]
  BY <1>1, FrontIs DEF IsList
<1>0. Len(s) \in Nat \ {0} /\ (Len(s) # 1 => 2 \in 1 .. Len(s) /\ Len(s) - 1 \in 1 .. Len(s))
  <2>1. PICK k \in Nat : k = Len(s)
    BY NodesOfList
  <2>2. k # 0
    BY <2>1, NodesOfList
  <2> QED
    BY <2>1, <2>2
<1>3. /\ h = s[1] /\ b = s[Len(s)] /\ b \in Nodes /\ Len(s) \in Nat \ {0} /\ 1 \in 1 .. Len(s)
      /\ pv[b] = IF Len(s) = 1 THEN Null ELSE s[Len(s) - 1]
  BY EndsOfList, NodesOfList
<1>4. pv[b] = Null <=> Len(s) = 1
  BY <1>0, <1>3, NodesOfList
<1>5. CASE Len(s) = 1
  <2>1. r = <<>>
    BY <1>2, <1>5, NodesOfList
  <2>2. IsList(r, Null, Null, nx, pv)
    BY <2>1 DEF IsList
  <2> QED
    BY <1>1, <1>4, <1>5, <2>2
<1>6. CASE Len(s) # 1
  <2>k. PICK k \in 1 .. Len(s) : k = Len(s) - 1
    BY <1>0, <1>6
  <2> DEFINE x == [nx EXCEPT ![pv[b]] = Null]
  <2>0. pv[b] = s[k] /\ s[k] \in Nodes
    BY <1>3, <1>6, <2>k, NodesOfList
  <2>1. x[s[k]] = Null /\ \A m \in Nodes : m # s[k] => x[m] = nx[m]
    BY <2>0 DEF Links
  <2> HIDE DEF x
  <2>2. ASSUME NEW i \in 1 .. Len(r)
        PROVE  /\ x[r[i]] = IF i = Len(r) THEN Null ELSE r[i + 1]
               /\ pv[r[i]] = IF i = 1 THEN Null ELSE r[i - 1]
    <3>1. i \in 1 .. Len(s) /\ i # Len(s) /\ Len(r) = k
      BY <1>2, <1>3, <2>k
    <3>2. r[i] = s[i] /\ (i # k => r[i + 1] = s[i + 1]) /\ (i # 1 => r[i - 1] = s[i - 1])
      BY <1>2, <1>3, <2>k, <3>1
    <3>3. nx[s[i]] = s[i + 1] /\ pv[s[i]] = (IF i = 1 THEN Null ELSE s[i - 1]) /\ s[i] \in Nodes
      BY <3>1, NodesOfList DEF IsList
    <3>4. i # k => s[i] # s[k]
      BY <3>1 DEF IsList
    <3> QED
      BY <2>1, <3>1, <3>2, <3>3, <3>4
  <2>3. ASSUME NEW i \in 1 .. Len(r), NEW j \in 1 .. Len(r), r[i] = r[j] PROVE i = j
    <3>1. i \in 1 .. Len(s) /\ j \in 1 .. Len(s) /\ s[i] = s[j]
      BY <1>2, <1>3, <2>3
    <3> QED
      BY <3>1 DEF IsList
  <2>4. r # <<>> /\ r[1] = h /\ r[Len(r)] = s[k]
    <3>1. Len(r) # 0 /\ 1 \in 1 .. Len(s) - 1 /\ k \in 1 .. Len(s) - 1
      BY <1>2, <1>3, <1>6, <2>k
    <3> QED
      BY <1>2, <1>3, <2>k, <3>1, NodesOfList
  <2>5. IsList(r, h, pv[b], x, pv)
    BY <2>0, <2>2, <2>3, <2>4 DEF IsList
  <2> QED
    BY <1>1, <1>4, <1>6, <2>5 DEF x
<1> QED
  BY <1>5, <1>6

-----------------------------------------------------------------------------
(* The invariant of the queue. *)

Critical == {"push_link", "push_post", "push_unlock", "pop_unlink", "pop_unlock"}

QTypes ==
  /\ head \in [Queues -> Nodes \cup {Null}] /\ tail \in [Queues -> Nodes \cup {Null}]
  /\ next \in Links /\ prev \in Links
  /\ data \in [Nodes -> Data \cup {Null}]
  /\ allocated \in SUBSET Nodes
  /\ count \in [Queues -> Nat]
  /\ lock \in [Queues -> Threads \cup {Nobody}]
  /\ call \in [Threads -> Calls]
  /\ result \in [Threads -> Data \cup {Null}]

\* A node is with its caller before it is linked and after it is unlinked.
InHand(t) ==
  call[t].at \in {"push_lock", "push_link", "pop_unlock", "pop_return"} /\ call[t].node # Null

CallInv(t) ==
  /\ call[t].at \in {"push_lock", "push_link", "push_post", "push_unlock"} => call[t].node # Null
  /\ call[t].at \in {"none", "pop_wait", "pop_lock", "pop_unlink", "release"} => call[t].node = Null
  /\ call[t].at \in {"push_lock", "push_link"} =>
       next[call[t].node] = Null /\ prev[call[t].node] = Null
  /\ call[t].at = "release" <=> call[t].left > 0

\* A mutex is held by the one thread that is in its critical section.
LockInv == \A q \in Queues, t \in Threads :
  lock[q] = t <=> call[t].at \in Critical /\ call[t].q = q

\* The lists c hold every node that is allocated and not in a hand, each once.
Placed(c) ==
  /\ c \in [Queues -> Seq(Nodes)]
  /\ \A q \in Queues : IsList(c[q], head[q], tail[q], next, prev)
  /\ \A q \in Queues : ToSet(c[q]) \subseteq allocated
  /\ \A p, q \in Queues : p # q => ToSet(c[p]) \cap ToSet(c[q]) = {}
  /\ \A t \in Threads : InHand(t) => /\ call[t].node \in allocated
                                     /\ \A q \in Queues : call[t].node \notin ToSet(c[q])
  /\ \A t, u \in Threads : InHand(t) /\ InHand(u) /\ call[t].node = call[u].node => t = u
  /\ \A n \in allocated : \/ \E q \in Queues : n \in ToSet(c[q])
                          \/ \E t \in Threads : InHand(t) /\ call[t].node = n

Lists == [q \in Queues |-> Walk(next, head[q])]

\* What was allocated was filled.
DataInv == \A n \in allocated : data[n] \in Data

\* There are tokens for all elements.
TokenInv == \A q \in Queues : Releases(q) >= 0

StateInv == QTypes /\ (\A t \in Threads : CallInv(t)) /\ LockInv /\ DataInv /\ Placed(Lists)
QueueInv == StateInv /\ TokenInv

\* Linked lists are the lists that Walk finds.
LEMMA ListsAre ==
  ASSUME NEW c \in [Queues -> Seq(Nodes)], NEW h, NEW b, NEW nx \in Links, NEW pv \in Links,
         \A q \in Queues : IsList(c[q], h[q], b[q], nx, pv)
  PROVE  /\ c = [q \in Queues |-> Walk(nx, h[q])]
         /\ \A q \in Queues : Walk(nx, h[q]) = c[q] /\ Walk(pv, b[q]) = Reverse(c[q])
<1>1. ASSUME NEW q \in Queues PROVE Walk(nx, h[q]) = c[q] /\ Walk(pv, b[q]) = Reverse(c[q])
  <2>1. c[q] \in Seq(Nodes) /\ IsList(c[q], h[q], b[q], nx, pv)
    OBVIOUS
  <2> QED
    BY <2>1, WalkBoth
<1> QED
  BY <1>1

\* Lists linked in the next state are those that Walk finds there.
LEMMA ListsPrime ==
  ASSUME NEW c, Placed(c)', QTypes'
  PROVE  Lists' = c /\ Placed(Lists)'
<1>0. /\ c \in [Queues -> Seq(Nodes)] /\ next' \in Links /\ prev' \in Links
      /\ \A q \in Queues : IsList(c[q], head'[q], tail'[q], next', prev')
  BY DEF Placed, QTypes
<1>1. Lists' = c
  <2>1. c = [q \in Queues |-> Walk(next', head'[q])]
    BY <1>0, ListsAre
  <2> QED
    BY <2>1 DEF Lists
<1> QED
  BY <1>1 DEF Placed

\* The data along a list.
Along(d, s) == [i \in 1 .. Len(s) |-> d[s[i]]]

\* The contents of a queue are the data along its list.
LEMMA ContentsAre ==
  ASSUME NEW c, Placed(c), QTypes, NEW q \in Queues
  PROVE  Contents(q) = Along(data, c[q])
<1>0. /\ c \in [Queues -> Seq(Nodes)] /\ next \in Links /\ prev \in Links
      /\ \A p \in Queues : IsList(c[p], head[p], tail[p], next, prev)
  BY DEF Placed, QTypes
<1>1. Walk(next, head[q]) = c[q] /\ DOMAIN c[q] = 1 .. Len(c[q])
  <2>1. Walk(next, head[q]) = c[q]
    <3>1. c[q] \in Seq(Nodes) /\ IsList(c[q], head[q], tail[q], next, prev)
      BY <1>0
    <3> QED
      BY <1>0, <3>1, WalkBoth
  <2> QED
    BY <1>0, <2>1, NodesOfList
<1> QED
  BY <1>1 DEF Contents, Along

\* The same in the next state.
LEMMA ContentsPrime ==
  ASSUME NEW c, Placed(c)', QTypes', NEW q \in Queues
  PROVE  Contents(q)' = Along(data', c[q])
<1>0. /\ c \in [Queues -> Seq(Nodes)] /\ next' \in Links /\ prev' \in Links
      /\ \A p \in Queues : IsList(c[p], head'[p], tail'[p], next', prev')
  BY DEF Placed, QTypes
<1>1. Walk(next', head'[q]) = c[q] /\ DOMAIN c[q] = 1 .. Len(c[q])
  <2>1. Walk(next', head'[q]) = c[q]
    <3>1. c[q] \in Seq(Nodes) /\ IsList(c[q], head'[q], tail'[q], next', prev')
      BY <1>0
    <3> QED
      BY <1>0, <3>1, WalkBoth
  <2> QED
    BY <1>0, <2>1, NodesOfList
<1> QED
  BY <1>1 DEF Contents, Along

\* The data along a list.
LEMMA AlongIs ==
  ASSUME NEW d \in [Nodes -> Data \cup {Null}], NEW s \in Seq(Nodes), \A n \in ToSet(s) : d[n] \in Data
  PROVE  /\ Along(d, s) \in Seq(Data) /\ Len(Along(d, s)) = Len(s)
         /\ \A i \in 1 .. Len(s) : Along(d, s)[i] = d[s[i]]
<1>1. PICK k \in Nat : k = Len(s)
  BY NodesOfList
<1>2. \A i \in 1 .. k : d[s[i]] \in Data
  BY <1>1, NodesOfList
<1>3. Along(d, s) = [i \in 1 .. k |-> d[s[i]]]
  BY <1>1 DEF Along
<1>4. Along(d, s) \in Seq(Data) /\ Len(Along(d, s)) = k
  BY <1>2, <1>3
<1> QED
  BY <1>1, <1>3, <1>4

\* The data of other nodes do not matter.
LEMMA AlongFrame ==
  ASSUME NEW d, NEW f, NEW s \in Seq(Nodes), \A n \in ToSet(s) : d[n] = f[n]
  PROVE  Along(d, s) = Along(f, s)
<1>1. \A i \in 1 .. Len(s) : d[s[i]] = f[s[i]]
  BY NodesOfList
<1> QED
  BY <1>1 DEF Along

-----------------------------------------------------------------------------
(* Counting threads. *)

\* Sets of threads that differ in t alone differ in size by at most one.
LEMMA CountChange ==
  ASSUME NEW A \in SUBSET Threads, NEW B \in SUBSET Threads, NEW t \in Threads, A \ {t} = B \ {t}
  PROVE  /\ Cardinality(A) \in Nat /\ Cardinality(B) \in Nat
         /\ Cardinality(B) = Cardinality(A) - (IF t \in A THEN 1 ELSE 0) + (IF t \in B THEN 1 ELSE 0)
<1>1. IsFiniteSet(A) /\ IsFiniteSet(B)
  BY FiniteThreads, FS_Subset
<1>2. Cardinality(A) \in Nat /\ Cardinality(B) \in Nat
  BY <1>1, FS_CardinalityType
<1>3. Cardinality(A \ {t}) = IF t \in A THEN Cardinality(A) - 1 ELSE Cardinality(A)
  BY <1>1, FS_RemoveElement
<1>4. Cardinality(B \ {t}) = IF t \in B THEN Cardinality(B) - 1 ELSE Cardinality(B)
  BY <1>1, FS_RemoveElement
<1> QED
  BY <1>2, <1>3, <1>4

Posting(t, q) == IF At(t, "push_post") /\ call[t].q = q THEN 1 ELSE 0
Taking(t, q) == IF call[t].at \in {"pop_lock", "pop_unlink"} /\ call[t].q = q THEN 1 ELSE 0

\* A step of t changes the counts by what t contributes.
LEMMA CountsChange ==
  ASSUME NEW t \in Threads, \A u \in Threads : u # t => call'[u] = call[u], NEW q
  PROVE  /\ Unposted(q) \in Nat /\ Unposted(q)' \in Nat /\ Taken(q) \in Nat /\ Taken(q)' \in Nat
         /\ Unposted(q)' = Unposted(q) - Posting(t, q) + Posting(t, q)'
         /\ Taken(q)' = Taken(q) - Taking(t, q) + Taking(t, q)'
         /\ Posting(t, q) <= Unposted(q) /\ Taking(t, q) <= Taken(q)
<1>1. /\ Unposted(q) \in Nat /\ Unposted(q)' \in Nat /\ Posting(t, q) <= Unposted(q)
      /\ Unposted(q)' = Unposted(q) - Posting(t, q) + Posting(t, q)'
  <2> DEFINE A == {u \in Threads : At(u, "push_post") /\ call[u].q = q}
             B == {u \in Threads : call'[u].at = "push_post" /\ call'[u].q = q}
  <2>1. Unposted(q) = Cardinality(A) /\ Unposted(q)' = Cardinality(B)
    BY DEF Unposted, At
  <2>2. A \ {t} = B \ {t}
    BY DEF At
  <2>3. Posting(t, q) = (IF t \in A THEN 1 ELSE 0) /\ Posting(t, q)' = IF t \in B THEN 1 ELSE 0
    BY DEF Posting, At
  <2>4. t \in A => Cardinality(A) # 0
    BY FiniteThreads, FS_Subset, FS_EmptySet
  <2> HIDE DEF A, B
  <2>5. A \in SUBSET Threads /\ B \in SUBSET Threads
    BY DEF A, B
  <2>6. /\ Cardinality(A) \in Nat /\ Cardinality(B) \in Nat
        /\ Cardinality(B) = Cardinality(A) - (IF t \in A THEN 1 ELSE 0) + (IF t \in B THEN 1 ELSE 0)
    BY <2>2, <2>5, CountChange
  <2> QED
    BY <2>1, <2>3, <2>4, <2>6
<1>2. /\ Taken(q) \in Nat /\ Taken(q)' \in Nat /\ Taking(t, q) <= Taken(q)
      /\ Taken(q)' = Taken(q) - Taking(t, q) + Taking(t, q)'
  <2> DEFINE A == {u \in Threads : call[u].at \in {"pop_lock", "pop_unlink"} /\ call[u].q = q}
             B == {u \in Threads : call'[u].at \in {"pop_lock", "pop_unlink"} /\ call'[u].q = q}
  <2>1. Taken(q) = Cardinality(A) /\ Taken(q)' = Cardinality(B)
    BY DEF Taken
  <2>2. A \ {t} = B \ {t}
    OBVIOUS
  <2>3. Taking(t, q) = (IF t \in A THEN 1 ELSE 0) /\ Taking(t, q)' = IF t \in B THEN 1 ELSE 0
    BY DEF Taking
  <2>4. t \in A => Cardinality(A) # 0
    BY FiniteThreads, FS_Subset, FS_EmptySet
  <2> HIDE DEF A, B
  <2>5. A \in SUBSET Threads /\ B \in SUBSET Threads
    BY DEF A, B
  <2>6. /\ Cardinality(A) \in Nat /\ Cardinality(B) \in Nat
        /\ Cardinality(B) = Cardinality(A) - (IF t \in A THEN 1 ELSE 0) + (IF t \in B THEN 1 ELSE 0)
    BY <2>2, <2>5, CountChange
  <2> QED
    BY <2>1, <2>3, <2>4, <2>6
<1> QED
  BY <1>1, <1>2

-----------------------------------------------------------------------------
(* Steps that leave the lists alone. *)

\* Only thread t changes its call.
Moves(t) == call' \in [Threads -> Calls] /\ \A u \in Threads : u # t => call'[u] = call[u]

\* The call of t is at step s afterwards, and otherwise what it was.
LEMMA GotoIs ==
  ASSUME call \in [Threads -> Calls], NEW t \in Threads, NEW s \in Steps, Goto(t, s)
  PROVE  /\ Moves(t)
         /\ call'[t].at = s /\ call'[t].q = call[t].q /\ call'[t].end = call[t].end
         /\ call'[t].node = call[t].node /\ call'[t].left = call[t].left
<1>1. call[t] \in Calls
  OBVIOUS
<1>2. [call[t] EXCEPT !.at = s] \in Calls
  BY <1>1 DEF Calls
<1>3. call' = [call EXCEPT ![t] = [call[t] EXCEPT !.at = s]]
  BY DEF Goto
<1>4. call'[t] = [call[t] EXCEPT !.at = s]
  BY <1>3
<1> QED
  BY <1>1, <1>2, <1>3, <1>4 DEF Moves, Calls

\* A thread outside any call has no node.
LEMMA NoCallIs ==
  /\ NoCall \in Calls /\ NoCall.at = "none" /\ NoCall.node = Null /\ NoCall.left = 0
  /\ NoCall.q \in Queues
<1>1. (CHOOSE q \in Queues : TRUE) \in Queues
  BY QueuesArePointers
<1> QED
  BY <1>1 DEF NoCall, Calls, Steps, Ends

\* A thread returns, the others stay where they are.
LEMMA ReturnIs ==
  ASSUME call \in [Threads -> Calls], NEW t \in Threads, Return(t)
  PROVE  Moves(t) /\ call'[t] = NoCall
BY NoCallIs DEF Return, Moves

\* A thread begins a call, the others stay where they are.
LEMMA BeginIs ==
  ASSUME call \in [Threads -> Calls], NEW t \in Threads, NEW x \in Calls, call' = [call EXCEPT ![t] = x]
  PROVE  Moves(t) /\ call'[t] = x
BY DEF Moves

\* A step that neither enters nor leaves a critical section.
LEMMA LockFrame ==
  ASSUME LockInv, NEW t \in Threads, Moves(t), UNCHANGED lock,
         call'[t].at \in Critical <=> call[t].at \in Critical,
         call[t].at \in Critical => call'[t].q = call[t].q
  PROVE  LockInv'
<1>1. ASSUME NEW q \in Queues, NEW u \in Threads
      PROVE  lock'[q] = u <=> call'[u].at \in Critical /\ call'[u].q = q
  <2>1. lock[q] = u <=> call[u].at \in Critical /\ call[u].q = q
    BY DEF LockInv
  <2> QED
    BY <2>1 DEF Moves
<1> QED
  BY <1>1 DEF LockInv, Critical

\* pthread_mutex_lock admits one thread to the critical section.
LEMMA LockTaken ==
  ASSUME LockInv, lock \in [Queues -> Threads \cup {Nobody}], call \in [Threads -> Calls],
         NEW t \in Threads, Moves(t), Lock(call[t].q, t),
         call[t].at \notin Critical, call'[t].at \in Critical, call'[t].q = call[t].q
  PROVE  LockInv' /\ lock' \in [Queues -> Threads \cup {Nobody}]
<1>0. call[t].q \in Queues
  BY DEF Calls
<1>1. ASSUME NEW q \in Queues, NEW u \in Threads
      PROVE  lock'[q] = u <=> call'[u].at \in Critical /\ call'[u].q = q
  <2>1. lock[q] = u <=> call[u].at \in Critical /\ call[u].q = q
    BY DEF LockInv
  <2>2. CASE q = call[t].q
    <3>1. lock'[q] = t /\ lock[q] # u
      BY <1>0, <2>2, NobodyAssumption DEF Lock
    <3> QED
      BY <2>1, <2>2, <3>1 DEF Moves
  <2>3. CASE q # call[t].q
    <3>1. lock'[q] = lock[q]
      BY <2>3 DEF Lock
    <3> QED
      BY <2>1, <2>3, <3>1 DEF Moves
  <2> QED
    BY <2>2, <2>3
<1> QED
  BY <1>1 DEF LockInv, Critical, Lock

\* pthread_mutex_unlock leaves nobody in the critical section.
LEMMA LockFreed ==
  ASSUME LockInv, lock \in [Queues -> Threads \cup {Nobody}], call \in [Threads -> Calls],
         NEW t \in Threads, Moves(t), Unlock(call[t].q),
         call[t].at \in Critical, call'[t].at \notin Critical
  PROVE  LockInv' /\ lock' \in [Queues -> Threads \cup {Nobody}]
<1>0. call[t].q \in Queues
  BY DEF Calls
<1>1. ASSUME NEW q \in Queues, NEW u \in Threads
      PROVE  lock'[q] = u <=> call'[u].at \in Critical /\ call'[u].q = q
  <2>1. lock[q] = u <=> call[u].at \in Critical /\ call[u].q = q
    BY DEF LockInv
  <2>2. CASE q = call[t].q
    <3>1. lock'[q] # u
      BY <1>0, <2>2, NobodyAssumption DEF Unlock
    <3>2. lock[q] = t
      BY <1>0, <2>2 DEF LockInv
    <3> QED
      BY <2>1, <2>2, <3>1, <3>2 DEF Moves
  <2>3. CASE q # call[t].q
    <3>1. lock'[q] = lock[q]
      BY <2>3 DEF Unlock
    <3> QED
      BY <2>1, <2>3, <3>1 DEF Moves
  <2> QED
    BY <2>2, <2>3
<1> QED
  BY <1>1 DEF LockInv, Critical, Unlock

\* With the list untouched and no node changing hands the lists are in place.
LEMMA SameLists ==
  ASSUME StateInv, NEW t \in Threads, Moves(t), UNCHANGED list_vars,
         InHand(t)' <=> InHand(t), InHand(t) => call'[t].node = call[t].node, CallInv(t)'
  PROVE  /\ Placed(Lists)' /\ DataInv' /\ \A u \in Threads : CallInv(u)'
         /\ \A q : Contents(q)' = Contents(q)
         /\ Lists' = Lists
<1>1. UNCHANGED <<head, tail, next, prev, data, allocated>>
  BY DEF list_vars
<1>2. Lists' = Lists /\ DataInv' /\ \A q : Contents(q)' = Contents(q)
  BY <1>1 DEF StateInv, DataInv, Lists, Contents
<1>3. \A u \in Threads : (InHand(u)' <=> InHand(u)) /\ (InHand(u) => call'[u].node = call[u].node)
  BY DEF Moves, InHand
<1>4. Placed(Lists)'
  <2>0. PICK c : c = Lists
    OBVIOUS
  <2>1. Placed(c)
    BY <2>0 DEF StateInv
  <2>2. /\ c \in [Queues -> Seq(Nodes)]
        /\ \A q \in Queues : IsList(c[q], head'[q], tail'[q], next', prev')
        /\ \A q \in Queues : ToSet(c[q]) \subseteq allocated'
        /\ \A p, q \in Queues : p # q => ToSet(c[p]) \cap ToSet(c[q]) = {}
    BY <1>1, <2>1 DEF Placed
  <2>3. \A u \in Threads : InHand(u)' => /\ call'[u].node \in allocated'
                                       /\ \A q \in Queues : call'[u].node \notin ToSet(c[q])
    BY <1>1, <1>3, <2>1 DEF Placed
  <2>4. \A u, v \in Threads : InHand(u)' /\ InHand(v)' /\ call'[u].node = call'[v].node => u = v
    BY <1>3, <2>1 DEF Placed
  <2>5. \A n \in allocated' : \/ \E q \in Queues : n \in ToSet(c[q])
                             \/ \E u \in Threads : InHand(u)' /\ call'[u].node = n
    BY <1>1, <1>3, <2>1 DEF Placed
  <2>6. Placed(c)'
    BY <2>2, <2>3, <2>4, <2>5 DEF Placed
  <2> QED
    BY <1>2, <2>0, <2>6 DEF Placed
<1>5. \A u \in Threads : CallInv(u)'
  <2> TAKE u \in Threads
  <2>1. CASE u # t
    BY <1>1, <2>1 DEF StateInv, CallInv, Moves
  <2> QED
    BY <2>1
<1> QED
  BY <1>2, <1>4, <1>5

\* The contents are data, and as many as the list has nodes.
LEMMA ContentsType ==
  ASSUME StateInv, NEW q \in Queues
  PROVE  /\ Lists[q] \in Seq(Nodes) /\ Contents(q) = Along(data, Lists[q])
         /\ Contents(q) \in Seq(Data) /\ Len(Contents(q)) = Len(Lists[q]) /\ Len(Lists[q]) \in Nat
         /\ \A i \in 1 .. Len(Lists[q]) : Contents(q)[i] = data[Lists[q][i]]
<1>1. PICK c : c = Lists
  OBVIOUS
<1>2. Placed(c) /\ c \in [Queues -> Seq(Nodes)] /\ ToSet(c[q]) \subseteq allocated
  BY <1>1 DEF StateInv, Placed
<1>3. data \in [Nodes -> Data \cup {Null}] /\ \A n \in ToSet(c[q]) : data[n] \in Data
  BY <1>2 DEF StateInv, QTypes, DataInv
<1>4. Contents(q) = Along(data, c[q])
  BY <1>2, ContentsAre DEF StateInv
<1>5. c[q] \in Seq(Nodes) /\ Len(c[q]) \in Nat
  BY <1>2, NodesOfList
<1> QED
  BY <1>1, <1>3, <1>4, <1>5, AlongIs

\* The contents stay and tokens move: PushLock, PushPost, PushUnlock, PopWait, PopLock,
\* PopUnlock and the Call of a pop or a release.
LEMMA TokensMove ==
  ASSUME StateInv, NEW t \in Threads, Moves(t), \A q \in Queues : Contents(q)' = Contents(q),
         count' \in [Queues -> Nat],
         \A q \in Queues : count'[q] + Taking(t, q)' + Posting(t, q)'
                             = count[q] + Taking(t, q) + Posting(t, q)
  PROVE  \A q \in Queues : Releases(q)' = Releases(q)
<1> TAKE q \in Queues
<1>1. /\ Unposted(q) \in Nat /\ Unposted(q)' \in Nat /\ Taken(q) \in Nat /\ Taken(q)' \in Nat
      /\ Unposted(q)' = Unposted(q) - Posting(t, q) + Posting(t, q)'
      /\ Taken(q)' = Taken(q) - Taking(t, q) + Taking(t, q)'
  BY CountsChange DEF Moves
<1>2. count[q] \in Nat /\ count'[q] \in Nat
  BY DEF StateInv, QTypes
<1>3. Len(Contents(q)) \in Nat /\ Len(Contents(q)') = Len(Contents(q))
  BY ContentsType
<1>4. Posting(t, q) \in 0 .. 1 /\ Taking(t, q) \in 0 .. 1
      /\ Posting(t, q)' \in 0 .. 1 /\ Taking(t, q)' \in 0 .. 1
  BY DEF Posting, Taking
<1>5. count'[q] + Taking(t, q)' + Posting(t, q)' = count[q] + Taking(t, q) + Posting(t, q)
  OBVIOUS
<1>6. /\ Releases(q) = count[q] + Taken(q) + Unposted(q) - Len(Contents(q))
      /\ Releases(q)' = count'[q] + Taken(q)' + Unposted(q)' - Len(Contents(q)')
  BY DEF Releases
<1>7. PICK u \in Nat, u2 \in Nat, k \in Nat, k2 \in Nat, c \in Nat, c2 \in Nat, l \in Nat :
        /\ u = Unposted(q) /\ u2 = Unposted(q)' /\ k = Taken(q) /\ k2 = Taken(q)'
        /\ c = count[q] /\ c2 = count'[q] /\ l = Len(Contents(q))
  BY <1>1, <1>2, <1>3
<1>8. PICK p \in 0 .. 1, p2 \in 0 .. 1, x \in 0 .. 1, x2 \in 0 .. 1 :
        p = Posting(t, q) /\ p2 = Posting(t, q)' /\ x = Taking(t, q) /\ x2 = Taking(t, q)'
  BY <1>4
<1>9. u2 = u - p + p2 /\ k2 = k - x + x2 /\ c2 + x2 + p2 = c + x + p
  BY <1>1, <1>5, <1>7, <1>8
<1>10. c + k + u - l = c2 + k2 + u2 - l
  BY <1>9
<1>11. Releases(q) = c + k + u - l /\ Releases(q)' = c2 + k2 + u2 - l
  BY <1>3, <1>6, <1>7
<1> QED
  BY <1>10, <1>11

Quiet(t) == PushLock(t) \/ PushPost(t) \/ PushUnlock(t) \/ PopWait(t) \/ PopLock(t) \/ PopUnlock(t)

\* What a caller sees of a step: nothing.
Unseen == /\ \A q \in Queues : Contents(q)' = Contents(q) /\ Releases(q)' = Releases(q)
          /\ UNCHANGED <<data, allocated, result>>

\* What is known of the call a thread is in.
LEMMA CallFacts ==
  ASSUME StateInv, NEW t \in Threads
  PROVE  /\ call \in [Threads -> Calls] /\ CallInv(t)
         /\ call[t].at \in Steps /\ call[t].q \in Queues /\ call[t].end \in Ends
         /\ call[t].node \in Nodes \cup {Null} /\ call[t].left \in Nat
         /\ lock \in [Queues -> Threads \cup {Nobody}] /\ count \in [Queues -> Nat]
BY DEF StateInv, QTypes, Calls

\* A quiet step moves the lock or a token and leaves the list alone.
LEMMA QuietTypes ==
  ASSUME StateInv, NEW t \in Threads, Quiet(t)
  PROVE  /\ Moves(t) /\ QTypes' /\ LockInv'
         /\ InHand(t)' <=> InHand(t)
         /\ InHand(t) => call'[t].node = call[t].node
         /\ CallInv(t)' /\ UNCHANGED <<list_vars, result>>
         /\ \A q \in Queues : count'[q] + Taking(t, q)' + Posting(t, q)'
                                = count[q] + Taking(t, q) + Posting(t, q)
<1>0. /\ call \in [Threads -> Calls] /\ CallInv(t) /\ call[t].q \in Queues
      /\ lock \in [Queues -> Threads \cup {Nobody}] /\ count \in [Queues -> Nat] /\ LockInv
  BY CallFacts DEF StateInv
<1>1. UNCHANGED <<list_vars, result>>
  BY DEF Quiet, PushLock, PushPost, PushUnlock, PopWait, PopLock, PopUnlock
<1>s. \A s \in Steps : Goto(t, s) =>
         /\ Moves(t)
         /\ call'[t].at = s /\ call'[t].q = call[t].q /\ call'[t].end = call[t].end
         /\ call'[t].node = call[t].node /\ call'[t].left = call[t].left
  BY <1>0, GotoIs
<1>2. CASE PushLock(t)
  <2>1. call[t].at = "push_lock" /\ call'[t].at = "push_link" /\ Lock(call[t].q, t) /\ UNCHANGED count
        /\ Goto(t, "push_link")
    BY <1>2, <1>s DEF PushLock, At, Steps
  <2>2. Moves(t) /\ call'[t].q = call[t].q /\ call'[t].node = call[t].node /\ call'[t].left = call[t].left
    BY <1>s, <2>1 DEF Steps
  <2>3. LockInv' /\ lock' \in [Queues -> Threads \cup {Nobody}]
    BY <1>0, <2>1, <2>2, LockTaken DEF Critical
  <2>4. QTypes'
    BY <1>1, <2>1, <2>2, <2>3 DEF StateInv, QTypes, list_vars, Moves
  <2>5. CallInv(t)'
    BY <1>0, <1>1, <2>1, <2>2 DEF CallInv, list_vars
  <2> QED
    BY <1>1, <2>1, <2>2, <2>3, <2>4, <2>5 DEF InHand, Taking, Posting, At
<1>3. CASE PushPost(t)
  <2>1. call[t].at = "push_post" /\ call'[t].at = "push_unlock" /\ UNCHANGED lock /\ Post(call[t].q)
        /\ Goto(t, "push_unlock")
    BY <1>3, <1>s DEF PushPost, At, Steps
  <2>2. Moves(t) /\ call'[t].q = call[t].q /\ call'[t].node = call[t].node /\ call'[t].left = call[t].left
    BY <1>s, <2>1 DEF Steps
  <2>3. LockInv'
    BY <1>0, <2>1, <2>2, LockFrame DEF Critical
  <2>4. count' \in [Queues -> Nat] /\ \A q \in Queues : count'[q] = IF q = call[t].q THEN count[q] + 1 ELSE count[q]
    BY <1>0, <2>1 DEF Post
  <2>5. QTypes'
    BY <1>1, <2>1, <2>2, <2>4 DEF StateInv, QTypes, list_vars, Moves
  <2>6. CallInv(t)'
    BY <1>0, <1>1, <2>1, <2>2 DEF CallInv, list_vars
  <2>7. \A q \in Queues : count'[q] + Taking(t, q)' + Posting(t, q)' = count[q] + Taking(t, q) + Posting(t, q)
    BY <1>0, <2>1, <2>2, <2>4 DEF Taking, Posting, At
  <2> QED
    BY <1>1, <2>1, <2>2, <2>3, <2>5, <2>6, <2>7 DEF InHand
<1>4. CASE PushUnlock(t)
  <2>1. call[t].at = "push_unlock" /\ Unlock(call[t].q) /\ UNCHANGED count /\ Return(t)
    BY <1>4 DEF PushUnlock, At
  <2>2. Moves(t) /\ call'[t] = NoCall
    BY <1>0, <2>1, ReturnIs
  <2>3. LockInv' /\ lock' \in [Queues -> Threads \cup {Nobody}]
    BY <1>0, <2>1, <2>2, LockFreed, NoCallIs DEF Critical
  <2>4. QTypes'
    BY <1>1, <2>1, <2>2, <2>3 DEF StateInv, QTypes, list_vars, Moves
  <2>5. CallInv(t)'
    BY <2>2, NoCallIs DEF CallInv
  <2> QED
    BY <1>1, <2>1, <2>2, <2>3, <2>4, <2>5, NoCallIs DEF InHand, Taking, Posting, At
<1>5. CASE PopWait(t)
  <2>1. /\ call[t].at = "pop_wait" /\ call'[t].at = "pop_lock" /\ UNCHANGED lock /\ Goto(t, "pop_lock")
        /\ count[call[t].q] > 0 /\ count' = [count EXCEPT ![call[t].q] = @ - 1]
    BY <1>5, <1>s DEF PopWait, At, Steps
  <2>2. Moves(t) /\ call'[t].q = call[t].q /\ call'[t].node = call[t].node /\ call'[t].left = call[t].left
    BY <1>s, <2>1 DEF Steps
  <2>3. LockInv'
    BY <1>0, <2>1, <2>2, LockFrame DEF Critical
  <2>4. count' \in [Queues -> Nat] /\ \A q \in Queues : count'[q] = IF q = call[t].q THEN count[q] - 1 ELSE count[q]
    BY <1>0, <2>1
  <2>5. QTypes'
    BY <1>1, <2>1, <2>2, <2>4 DEF StateInv, QTypes, list_vars, Moves
  <2>6. CallInv(t)'
    BY <1>0, <1>1, <2>1, <2>2 DEF CallInv, list_vars
  <2>7. \A q \in Queues : count'[q] + Taking(t, q)' + Posting(t, q)' = count[q] + Taking(t, q) + Posting(t, q)
    BY <1>0, <2>1, <2>2, <2>4 DEF Taking, Posting, At
  <2> QED
    BY <1>1, <2>1, <2>2, <2>3, <2>5, <2>6, <2>7 DEF InHand
<1>6. CASE PopLock(t)
  <2>1. call[t].at = "pop_lock" /\ call'[t].at = "pop_unlink" /\ Lock(call[t].q, t) /\ UNCHANGED count
        /\ Goto(t, "pop_unlink")
    BY <1>6, <1>s DEF PopLock, At, Steps
  <2>2. Moves(t) /\ call'[t].q = call[t].q /\ call'[t].node = call[t].node /\ call'[t].left = call[t].left
    BY <1>s, <2>1 DEF Steps
  <2>3. LockInv' /\ lock' \in [Queues -> Threads \cup {Nobody}]
    BY <1>0, <2>1, <2>2, LockTaken DEF Critical
  <2>4. QTypes'
    BY <1>1, <2>1, <2>2, <2>3 DEF StateInv, QTypes, list_vars, Moves
  <2>5. CallInv(t)'
    BY <1>0, <1>1, <2>1, <2>2 DEF CallInv, list_vars
  <2> QED
    BY <1>1, <2>1, <2>2, <2>3, <2>4, <2>5 DEF InHand, Taking, Posting, At
<1>7. CASE PopUnlock(t)
  <2>1. call[t].at = "pop_unlock" /\ call'[t].at = "pop_return" /\ Unlock(call[t].q) /\ UNCHANGED count
        /\ Goto(t, "pop_return")
    BY <1>7, <1>s DEF PopUnlock, At, Steps
  <2>2. Moves(t) /\ call'[t].q = call[t].q /\ call'[t].node = call[t].node /\ call'[t].left = call[t].left
    BY <1>s, <2>1 DEF Steps
  <2>3. LockInv' /\ lock' \in [Queues -> Threads \cup {Nobody}]
    BY <1>0, <2>1, <2>2, LockFreed DEF Critical
  <2>4. QTypes'
    BY <1>1, <2>1, <2>2, <2>3 DEF StateInv, QTypes, list_vars, Moves
  <2>5. CallInv(t)'
    BY <1>0, <1>1, <2>1, <2>2 DEF CallInv, list_vars
  <2> QED
    BY <1>1, <2>1, <2>2, <2>3, <2>4, <2>5 DEF InHand, Taking, Posting, At
<1> QED
  BY <1>2, <1>3, <1>4, <1>5, <1>6, <1>7 DEF Quiet

\* Locks, posts of pushes and the wait for a token preserve the invariant.
LEMMA QuietStep ==
  ASSUME QueueInv, NEW t \in Threads, Quiet(t)
  PROVE  QueueInv' /\ Unseen
<1>1. StateInv
  BY DEF QueueInv
<1>2. /\ Moves(t) /\ QTypes' /\ LockInv' /\ CallInv(t)' /\ UNCHANGED <<list_vars, result>>
      /\ InHand(t)' <=> InHand(t)
      /\ InHand(t) => call'[t].node = call[t].node
      /\ \A q \in Queues : count'[q] + Taking(t, q)' + Posting(t, q)' = count[q] + Taking(t, q) + Posting(t, q)
  BY <1>1, QuietTypes
<1>3. /\ Placed(Lists)' /\ DataInv' /\ (\A u \in Threads : CallInv(u)') /\ \A q : Contents(q)' = Contents(q)
  BY <1>1, <1>2, SameLists
<1>4. StateInv'
  BY <1>2, <1>3 DEF StateInv
<1>5. count' \in [Queues -> Nat]
  BY <1>2 DEF QTypes
<1>6. \A q \in Queues : Releases(q)' = Releases(q)
  BY <1>1, <1>2, <1>3, <1>5, TokensMove
<1>7. TokenInv'
  BY <1>6 DEF QueueInv, TokenInv
<1> QED
  BY <1>2, <1>3, <1>4, <1>6, <1>7 DEF QueueInv, Unseen, list_vars

-----------------------------------------------------------------------------
(* The data along a list that grows or shrinks. *)


\* The data along a list with a node more at its head.
LEMMA AlongCons ==
  ASSUME NEW d, NEW s \in Seq(Nodes), NEW n \in Nodes
  PROVE  Along(d, <<n>> \o s) = <<d[n]>> \o Along(d, s)
<1>1. PICK k \in Nat : k = Len(s)
  BY NodesOfList
<1>2. PICK r \in Seq(Nodes) : r = <<n>> \o s
  BY ConsIs
<1>3. Len(r) = k + 1 /\ r[1] = n /\ \A i \in 2 .. k + 1 : r[i] = s[i - 1]
  BY <1>1, <1>2, ConsIs
<1>4. PICK a : a = Along(d, s)
  OBVIOUS
<1>5. a = [i \in 1 .. k |-> d[s[i]]]
  BY <1>1, <1>4 DEF Along
<1>6. Len(a) = k
  BY <1>5
<1>7. <<d[n]>> \o a = [i \in 1 .. k + 1 |-> IF i <= 1 THEN d[n] ELSE a[i - 1]]
  <2>1. <<d[n]>> \o a = [i \in 1 .. 1 + k |-> IF i <= 1 THEN <<d[n]>>[i] ELSE a[i - 1]]
    BY <1>5, <1>6
  <2>2. \A i \in 1 .. 1 + k : i <= 1 => <<d[n]>>[i] = d[n]
    OBVIOUS
  <2>3. 1 + k = k + 1
    OBVIOUS
  <2> QED
    BY <2>1, <2>2, <2>3
<1>8. Along(d, r) = [i \in 1 .. k + 1 |-> d[r[i]]]
  BY <1>3 DEF Along
<1>9. \A i \in 1 .. k + 1 : d[r[i]] = IF i <= 1 THEN d[n] ELSE a[i - 1]
  BY <1>3, <1>5
<1> QED
  BY <1>2, <1>4, <1>7, <1>8, <1>9

\* The data along a list with a node more at its tail.
LEMMA AlongAppend ==
  ASSUME NEW d, NEW s \in Seq(Nodes), NEW n \in Nodes
  PROVE  Along(d, Append(s, n)) = Append(Along(d, s), d[n])
<1>1. PICK k \in Nat : k = Len(s)
  BY NodesOfList
<1>2. PICK r \in Seq(Nodes) : r = Append(s, n)
  BY AppendIs
<1>3. Len(r) = k + 1 /\ r[k + 1] = n /\ \A i \in 1 .. k : r[i] = s[i]
  BY <1>1, <1>2, AppendIs
<1>4. PICK a : a = Along(d, s)
  OBVIOUS
<1>5. a = [i \in 1 .. k |-> d[s[i]]]
  BY <1>1, <1>4 DEF Along
<1>6. Len(a) = k
  BY <1>5
<1>7. Append(a, d[n]) = [i \in 1 .. k + 1 |-> IF i = k + 1 THEN d[n] ELSE a[i]]
  BY <1>5, <1>6
<1>8. Along(d, r) = [i \in 1 .. k + 1 |-> d[r[i]]]
  BY <1>3 DEF Along
<1>9. \A i \in 1 .. k + 1 : d[r[i]] = IF i = k + 1 THEN d[n] ELSE a[i]
  BY <1>3, <1>5
<1> QED
  BY <1>2, <1>4, <1>7, <1>8, <1>9

\* The data along a list without its first node.
LEMMA AlongTail ==
  ASSUME NEW d \in [Nodes -> Data \cup {Null}], NEW s \in Seq(Nodes), s # <<>>, 
         \A i, j \in 1 .. Len(s) : s[i] = s[j] => i = j, \A n \in ToSet(s) : d[n] \in Data
  PROVE  /\ Along(d, s) # <<>>
         /\ Along(d, Tail(s)) = Tail(Along(d, s)) /\ Head(Along(d, s)) = d[s[1]]
<1>1. PICK k \in Nat : k = Len(s) - 1
  BY NodesOfList
<1>2. PICK r \in Seq(Nodes) : r = Tail(s)
  BY TailIs
<1>3. Len(s) = k + 1 /\ Len(r) = k /\ \A i \in 1 .. k : r[i] = s[i + 1]
  BY <1>1, <1>2, TailIs, NodesOfList
<1>4. PICK a \in Seq(Data) : a = Along(d, s)
  BY AlongIs
<1>5. Len(a) = k + 1 /\ \A i \in 1 .. k + 1 : a[i] = d[s[i]]
  BY <1>3, <1>4, AlongIs
<1>6. a # <<>>
  BY <1>5
<1>7. Tail(a) \in Seq(Data) /\ Len(Tail(a)) = k /\ \A i \in 1 .. k : Tail(a)[i] = a[i + 1]
  BY <1>5, <1>6, HeadTailProperties
<1>8. Along(d, r) \in Seq(Data) /\ Len(Along(d, r)) = k /\ \A i \in 1 .. k : Along(d, r)[i] = d[r[i]]
  <2>1. \A n \in ToSet(r) : d[n] \in Data
    BY <1>2, TailIs
  <2> QED
    BY <1>3, <2>1, AlongIs
<1>9. \A i \in 1 .. k : Along(d, r)[i] = Tail(a)[i]
  BY <1>3, <1>5, <1>7, <1>8
<1>10. Along(d, r) = Tail(a) /\ Head(a) = d[s[1]]
  <2>1. Along(d, r) = Tail(a)
    BY <1>7, <1>8, <1>9, SeqEqual
  <2> QED
    BY <1>5, <1>6, <2>1, HeadTailProperties
<1> QED
  BY <1>2, <1>4, <1>6, <1>7, <1>10

\* The data along a list without its last node.
LEMMA AlongFront ==
  ASSUME NEW d \in [Nodes -> Data \cup {Null}], NEW s \in Seq(Nodes), s # <<>>,
         \A i, j \in 1 .. Len(s) : s[i] = s[j] => i = j, \A n \in ToSet(s) : d[n] \in Data
  PROVE  /\ Along(d, s) # <<>> /\ Along(d, s)[Len(Along(d, s))] = d[s[Len(s)]]
         /\ Along(d, SubSeq(s, 1, Len(s) - 1)) = SubSeq(Along(d, s), 1, Len(Along(d, s)) - 1)
<1>1. PICK k \in Nat : k = Len(s) - 1
  BY NodesOfList
<1>2. PICK r \in Seq(Nodes) : r = SubSeq(s, 1, Len(s) - 1)
  BY FrontIs
<1>3. Len(s) = k + 1 /\ Len(r) = k /\ \A i \in 1 .. k : r[i] = s[i]
  BY <1>1, <1>2, FrontIs, NodesOfList
<1>4. PICK a \in Seq(Data) : a = Along(d, s)
  BY AlongIs
<1>5. Len(a) = k + 1 /\ Len(a) - 1 = k /\ \A i \in 1 .. k + 1 : a[i] = d[s[i]]
  BY <1>3, <1>4, AlongIs
<1>6. a # <<>> /\ a[Len(a)] = d[s[Len(s)]]
  BY <1>3, <1>5
<1>7. SubSeq(a, 1, k) \in Seq(Data) /\ Len(SubSeq(a, 1, k)) = k /\ \A i \in 1 .. k : SubSeq(a, 1, k)[i] = a[i]
  <2>1. \A i \in 1 .. k : a[i] \in Data
    BY <1>5, ElementOfSeq
  <2>2. /\ SubSeq(a, 1, k) \in Seq(Data)
        /\ Len(SubSeq(a, 1, k)) = IF 1 <= k THEN k - 1 + 1 ELSE 0
        /\ \A i \in 1 .. k - 1 + 1 : SubSeq(a, 1, k)[i] = a[1 + i - 1]
    BY <2>1, SubSeqProperties
  <2>3. 1 .. k - 1 + 1 = 1 .. k /\ (IF 1 <= k THEN k - 1 + 1 ELSE 0) = k
    OBVIOUS
  <2>4. \A i \in 1 .. k : 1 + i - 1 = i
    OBVIOUS
  <2> QED
    BY <2>2, <2>3, <2>4
<1>8. Along(d, r) \in Seq(Data) /\ Len(Along(d, r)) = k /\ \A i \in 1 .. k : Along(d, r)[i] = d[r[i]]
  <2>1. \A n \in ToSet(r) : d[n] \in Data
    BY <1>2, FrontIs
  <2> QED
    BY <1>3, <2>1, AlongIs
<1>9. \A i \in 1 .. k : Along(d, r)[i] = SubSeq(a, 1, k)[i]
  BY <1>3, <1>5, <1>7, <1>8
<1>10. Along(d, r) = SubSeq(a, 1, k)
  BY <1>7, <1>8, <1>9, SeqEqual
<1> QED
  BY <1>2, <1>4, <1>5, <1>6, <1>10

\* How a step of t changes the balance of tokens and contents.
LEMMA ReleasesIs ==
  ASSUME NEW t \in Threads, \A u \in Threads : u # t => call'[u] = call[u], NEW q,
         count[q] \in Nat, count'[q] \in Nat,
         NEW l \in Nat, l = Len(Contents(q)), NEW l2 \in Nat, l2 = Len(Contents(q)'), NEW d \in Int,
         count'[q] + Taking(t, q)' + Posting(t, q)' - l2 = count[q] + Taking(t, q) + Posting(t, q) - l + d
  PROVE  Releases(q) \in Int /\ Releases(q)' = Releases(q) + d /\ Releases(q)' >= -l2
<1>1. /\ Unposted(q) \in Nat /\ Unposted(q)' \in Nat /\ Taken(q) \in Nat /\ Taken(q)' \in Nat
      /\ Unposted(q)' = Unposted(q) - Posting(t, q) + Posting(t, q)'
      /\ Taken(q)' = Taken(q) - Taking(t, q) + Taking(t, q)'
  BY CountsChange
<1>4. Posting(t, q) \in 0 .. 1 /\ Taking(t, q) \in 0 .. 1
      /\ Posting(t, q)' \in 0 .. 1 /\ Taking(t, q)' \in 0 .. 1
  BY DEF Posting, Taking
<1>6. /\ Releases(q) = count[q] + Taken(q) + Unposted(q) - l
      /\ Releases(q)' = count'[q] + Taken(q)' + Unposted(q)' - l2
  BY DEF Releases
<1>7. PICK u \in Nat, u2 \in Nat, k \in Nat, k2 \in Nat, c \in Nat, c2 \in Nat :
        /\ u = Unposted(q) /\ u2 = Unposted(q)' /\ k = Taken(q) /\ k2 = Taken(q)'
        /\ c = count[q] /\ c2 = count'[q]
  BY <1>1
<1>8. PICK p \in 0 .. 1, p2 \in 0 .. 1, x \in 0 .. 1, x2 \in 0 .. 1 :
        p = Posting(t, q) /\ p2 = Posting(t, q)' /\ x = Taking(t, q) /\ x2 = Taking(t, q)'
  BY <1>4
<1>9. u2 = u - p + p2 /\ k2 = k - x + x2 /\ c2 + x2 + p2 - l2 = c + x + p - l + d
  BY <1>1, <1>7, <1>8
<1>10. (c2 + k2 + u2 - l2) = (c + k + u - l) + d /\ c2 + k2 + u2 - l2 >= -l2 /\ c + k + u - l \in Int
  BY <1>9
<1>11. Releases(q) = c + k + u - l /\ Releases(q)' = c2 + k2 + u2 - l2
  BY <1>6, <1>7
<1> QED
  BY <1>10, <1>11

\* A step that links or unlinks one node of one list.
LEMMA Relink ==
  ASSUME StateInv, NEW t \in Threads, Moves(t), QTypes', UNCHANGED <<data, allocated>>,
         NEW q \in Queues, NEW r \in Seq(Nodes), NEW n \in Nodes,
         IsList(r, head'[q], tail'[q], next', prev'),
         \A p \in Queues : p # q => head'[p] = head[p] /\ tail'[p] = tail[p],
         \A m \in Nodes : m \notin ToSet(Lists[q]) \cup {n} => next'[m] = next[m] /\ prev'[m] = prev[m],
         \/ /\ InHand(t) /\ call[t].node = n /\ ~InHand(t)'
            /\ ToSet(r) = ToSet(Lists[q]) \cup {n}
         \/ /\ ~InHand(t) /\ InHand(t)' /\ call'[t].node = n
            /\ n \in ToSet(Lists[q]) /\ ToSet(r) = ToSet(Lists[q]) \ {n}
  PROVE  /\ Placed(Lists)' /\ DataInv' /\ \A u \in Threads : u # t => CallInv(u)'
         /\ Contents(q)' = Along(data, r)
         /\ \A p \in Queues : p # q => Contents(p)' = Contents(p)
<1>1. PICK c : c = Lists
  OBVIOUS
<1>2. Placed(c)
  BY <1>1 DEF StateInv
<1>3. /\ c \in [Queues -> Seq(Nodes)]
      /\ \A p \in Queues : c[p] \in Seq(Nodes) /\ ToSet(c[p]) \subseteq allocated
      /\ \A p1, p2 \in Queues : p1 # p2 => ToSet(c[p1]) \cap ToSet(c[p2]) = {}
      /\ allocated \in SUBSET Nodes /\ data \in [Nodes -> Data \cup {Null}]
  BY <1>2 DEF Placed, StateInv, QTypes
<1>4. PICK e \in [Queues -> Seq(Nodes)] : e[q] = r /\ \A p \in Queues : p # q => e[p] = c[p]
  <2>1. [c EXCEPT ![q] = r] \in [Queues -> Seq(Nodes)]
    BY <1>3
  <2> QED
    BY <1>3, <2>1
<1>5. \A p \in Queues : p # q => n \notin ToSet(c[p])
  BY <1>1, <1>2, <1>3 DEF Placed
<1>6. n \in allocated
  BY <1>1, <1>2, <1>3 DEF Placed
<1>7. \A p \in Queues : IsList(e[p], head'[p], tail'[p], next', prev')
  <2>1. ASSUME NEW p \in Queues, p # q PROVE IsList(c[p], head'[p], tail'[p], next', prev')
    <3>1. IsList(c[p], head'[p], tail'[p], next, prev) /\ c[p] \in Seq(Nodes)
      BY <1>2, <1>3, <2>1 DEF Placed
    <3>2. \A m \in ToSet(c[p]) : next'[m] = next[m] /\ prev'[m] = prev[m]
      BY <1>1, <1>3, <1>5, <2>1
    <3> QED
      BY <3>1, <3>2, ListFrame
  <2> QED
    BY <1>4, <2>1
<1>8. \A p \in Queues : ToSet(e[p]) \subseteq allocated'
  BY <1>1, <1>3, <1>4, <1>6
<1>9. \A p1, p2 \in Queues : p1 # p2 => ToSet(e[p1]) \cap ToSet(e[p2]) = {}
  <2>1. ASSUME NEW p \in Queues, p # q PROVE ToSet(e[q]) \cap ToSet(e[p]) = {} /\ e[p] = c[p]
    <3>1. ToSet(c[q]) \cap ToSet(c[p]) = {} /\ n \notin ToSet(c[p])
      BY <1>3, <1>5, <2>1
    <3> QED
      BY <1>1, <1>4, <2>1, <3>1
  <2>2. ASSUME NEW p1 \in Queues, NEW p2 \in Queues, p1 # p2 PROVE ToSet(e[p1]) \cap ToSet(e[p2]) = {}
    <3>1. CASE p1 = q
      BY <2>1, <2>2, <3>1
    <3>2. CASE p2 = q
      BY <2>1, <2>2, <3>2
    <3>3. CASE p1 # q /\ p2 # q
      BY <1>3, <2>1, <2>2, <3>3
    <3> QED
      BY <3>1, <3>2, <3>3
  <2> QED
    BY <2>2
<1>10. \A u \in Threads : u # t => (InHand(u)' <=> InHand(u)) /\ call'[u] = call[u]
  BY DEF Moves, InHand
<1>11. ASSUME NEW u \in Threads, InHand(u)'
       PROVE  call'[u].node \in allocated' /\ \A p \in Queues : call'[u].node \notin ToSet(e[p])
  <2>1. CASE u = t
    BY <1>1, <1>4, <1>5, <1>6, <1>11, <2>1
  <2>2. CASE u # t
    <3>1. call[u].node \in allocated /\ \A p \in Queues : call[u].node \notin ToSet(c[p])
      BY <1>2, <1>10, <1>11, <2>2 DEF Placed
    <3>2. InHand(t) /\ call[t].node = n => call[u].node # n
      BY <1>2, <1>10, <1>11, <2>2 DEF Placed
    <3> QED
      BY <1>1, <1>4, <1>10, <2>2, <3>1, <3>2
  <2> QED
    BY <2>1, <2>2
<1>12. ASSUME NEW u \in Threads, NEW v \in Threads, InHand(u)', InHand(v)', call'[u].node = call'[v].node
       PROVE  u = v
  <2>1. \A w \in Threads : w # t /\ InHand(w) => ~(n \in ToSet(c[q]) /\ call[w].node = n)
    BY <1>2 DEF Placed
  <2>2. ASSUME NEW w \in Threads, w # t, InHand(w)', InHand(t)' PROVE call'[w].node # call'[t].node
    BY <1>1, <1>10, <2>1, <2>2
  <2>3. CASE u # t /\ v # t
    BY <1>2, <1>10, <1>12, <2>3 DEF Placed
  <2> QED
    BY <1>12, <2>2, <2>3
<1>13. ASSUME NEW m \in allocated'
       PROVE  \/ \E p \in Queues : m \in ToSet(e[p])
              \/ \E u \in Threads : InHand(u)' /\ call'[u].node = m
  <2>1. CASE m = n
    BY <1>1, <1>4, <2>1
  <2>2. CASE m # n
    <3>1. \/ \E p \in Queues : m \in ToSet(c[p])
          \/ \E u \in Threads : InHand(u) /\ call[u].node = m
      BY <1>2 DEF Placed
    <3>2. CASE \E p \in Queues : m \in ToSet(c[p])
      BY <1>1, <1>4, <2>2, <3>2
    <3>3. CASE \E u \in Threads : InHand(u) /\ call[u].node = m
      BY <1>10, <2>2, <3>3
    <3> QED
      BY <3>1, <3>2, <3>3
  <2> QED
    BY <2>1, <2>2
<1>14. Placed(e)'
  BY <1>4, <1>7, <1>8, <1>9, <1>11, <1>12, <1>13 DEF Placed
<1>15. Placed(Lists)'
  BY <1>14, ListsPrime
<1>16. DataInv'
  BY DEF StateInv, DataInv
<1>17. ASSUME NEW u \in Threads, u # t PROVE CallInv(u)'
  <2>1. CallInv(u) /\ call'[u] = call[u]
    BY <1>10, <1>17 DEF StateInv
  <2>2. call[u].at \in {"push_lock", "push_link"} => InHand(u)
    BY <2>1 DEF CallInv, InHand
  <2>3. InHand(u) => call[u].node \notin ToSet(c[q]) \cup {n} /\ call[u].node \in Nodes
    BY <1>1, <1>2, <1>3, <1>17 DEF Placed
  <2> QED
    BY <1>1, <2>1, <2>2, <2>3 DEF CallInv
<1>18. Contents(q)' = Along(data, r) /\ \A p \in Queues : p # q => Contents(p)' = Contents(p)
  <2>1. \A p \in Queues : Contents(p)' = Along(data, e[p])
    BY <1>14, ContentsPrime
  <2>2. \A p \in Queues : Contents(p) = Along(data, c[p])
    BY <1>2, ContentsAre DEF StateInv
  <2> QED
    BY <1>4, <2>1, <2>2
<1> QED
  BY <1>15, <1>16, <1>17, <1>18

\* The contents with d at one end, without the element there, and that element.
With(q, e, d) == IF e = "head" THEN <<d>> \o Contents(q) ELSE Append(Contents(q), d)
Without(s, e) == IF e = "head" THEN Tail(s) ELSE SubSeq(s, 1, Len(s) - 1)
Rest(q, e) == Without(Contents(q), e)
EndOf(q, e) == IF e = "head" THEN Head(Contents(q)) ELSE Contents(q)[Len(Contents(q))]

\* What linking makes of the list: r has the node at the end asked for.
LEMMA LinkIs ==
  ASSUME StateInv, NEW q \in Queues, NEW n \in Nodes, NEW e \in Ends, Link(q, n, e),
         next[n] = Null, prev[n] = Null, \A p \in Queues : n \notin ToSet(Lists[p]), n \in allocated
  PROVE  /\ head' \in [Queues -> Nodes \cup {Null}] /\ tail' \in [Queues -> Nodes \cup {Null}]
         /\ next' \in Links /\ prev' \in Links
         /\ \A p \in Queues : p # q => head'[p] = head[p] /\ tail'[p] = tail[p]
         /\ \A m \in Nodes : m \notin ToSet(Lists[q]) \cup {n} => next'[m] = next[m] /\ prev'[m] = prev[m]
         /\ \E r \in Seq(Nodes) :
              /\ IsList(r, head'[q], tail'[q], next', prev')
              /\ ToSet(r) = ToSet(Lists[q]) \cup {n}
              /\ Along(data, r) = With(q, e, data[n])
<1>1. PICK s \in Seq(Nodes) : s = Lists[q] /\ n \notin ToSet(s)
  BY ContentsType
<1>2. IsList(s, head[q], tail[q], next, prev)
  BY <1>1 DEF StateInv, Placed
<1>3. /\ head \in [Queues -> Nodes \cup {Null}] /\ tail \in [Queues -> Nodes \cup {Null}]
      /\ next \in Links /\ prev \in Links
  BY DEF StateInv, QTypes
<1>4. Contents(q) = Along(data, s)
  BY <1>1, ContentsType
<1>5. /\ head[q] = Null <=> s = <<>>
      /\ s # <<>> => /\ head[q] \in ToSet(s) /\ tail[q] \in ToSet(s)
                     /\ head[q] \in Nodes /\ tail[q] \in Nodes
  BY <1>2, EndsOfList
<1>6. CASE s = <<>>
  <2>1. head' = [head EXCEPT ![q] = n] /\ tail' = [tail EXCEPT ![q] = n] /\ UNCHANGED <<next, prev>>
    BY <1>5, <1>6 DEF Link
  <2>2. <<n>> \in Seq(Nodes) /\ IsList(<<n>>, head'[q], tail'[q], next', prev')
    BY <1>3, <2>1, ListOfOne
  <2>3. ToSet(<<n>> \o s) = ToSet(s) \cup {n} /\ <<n>> \o s = <<n>>
    BY <1>6, <2>2, ConsIs, ConcatEmptySeq
  <2>4. Along(data, <<n>>) = With(q, e, data[n])
    <3>1. Along(data, <<n>> \o s) = <<data[n]>> \o Contents(q)
      BY <1>4, AlongCons
    <3>2. Along(data, Append(s, n)) = Append(Contents(q), data[n])
      BY <1>4, AlongAppend
    <3>3. Append(s, n) = <<n>>
      BY <1>6
    <3> QED
      BY <2>3, <3>1, <3>2, <3>3 DEF With
  <2> QED
    BY <1>1, <1>3, <2>1, <2>2, <2>3, <2>4
<1>7. CASE s # <<>> /\ e = "head"
  <2>1. /\ next' = [next EXCEPT ![n] = head[q]] /\ prev' = [prev EXCEPT ![head[q]] = n]
        /\ head' = [head EXCEPT ![q] = n] /\ UNCHANGED tail
    BY <1>5, <1>7 DEF Link
  <2>2. IsList(<<n>> \o s, n, tail[q], [next EXCEPT ![n] = head[q]], [prev EXCEPT ![head[q]] = n])
    BY <1>1, <1>2, <1>3, <1>7, LinkFront
  <2>3. <<n>> \o s \in Seq(Nodes) /\ ToSet(<<n>> \o s) = ToSet(s) \cup {n}
    BY ConsIs
  <2>4. Along(data, <<n>> \o s) = <<data[n]>> \o Contents(q)
    BY <1>4, AlongCons
  <2>5. IsList(<<n>> \o s, head'[q], tail'[q], next', prev')
    BY <1>3, <2>1, <2>2
  <2>6. /\ head' \in [Queues -> Nodes \cup {Null}] /\ tail' \in [Queues -> Nodes \cup {Null}]
        /\ next' \in Links /\ prev' \in Links
    BY <1>3, <1>5, <1>7, <2>1 DEF Links
  <2>7. \A m \in Nodes : m \notin ToSet(s) \cup {n} => next'[m] = next[m] /\ prev'[m] = prev[m]
    BY <1>3, <1>5, <1>7, <2>1 DEF Links
  <2>8. \A p \in Queues : p # q => head'[p] = head[p] /\ tail'[p] = tail[p]
    BY <1>3, <2>1
  <2> QED
    BY <1>1, <1>7, <2>3, <2>4, <2>5, <2>6, <2>7, <2>8 DEF With
<1>8. CASE s # <<>> /\ e = "tail"
  <2>1. /\ prev' = [prev EXCEPT ![n] = tail[q]] /\ next' = [next EXCEPT ![tail[q]] = n]
        /\ tail' = [tail EXCEPT ![q] = n] /\ UNCHANGED head
    BY <1>5, <1>8 DEF Link
  <2>2. IsList(Append(s, n), head[q], n, [next EXCEPT ![tail[q]] = n], [prev EXCEPT ![n] = tail[q]])
    BY <1>1, <1>2, <1>3, <1>8, LinkBack
  <2>3. Append(s, n) \in Seq(Nodes) /\ ToSet(Append(s, n)) = ToSet(s) \cup {n}
    BY AppendIs
  <2>4. Along(data, Append(s, n)) = Append(Contents(q), data[n])
    BY <1>4, AlongAppend
  <2>5. IsList(Append(s, n), head'[q], tail'[q], next', prev')
    BY <1>3, <2>1, <2>2
  <2>6. /\ head' \in [Queues -> Nodes \cup {Null}] /\ tail' \in [Queues -> Nodes \cup {Null}]
        /\ next' \in Links /\ prev' \in Links
    BY <1>3, <1>5, <1>8, <2>1 DEF Links
  <2>7. \A m \in Nodes : m \notin ToSet(s) \cup {n} => next'[m] = next[m] /\ prev'[m] = prev[m]
    BY <1>3, <1>5, <1>8, <2>1 DEF Links
  <2>8. \A p \in Queues : p # q => head'[p] = head[p] /\ tail'[p] = tail[p]
    BY <1>3, <2>1
  <2> QED
    BY <1>1, <1>8, <2>3, <2>4, <2>5, <2>6, <2>7, <2>8 DEF With
<1> QED
  BY <1>6, <1>7, <1>8 DEF Ends

\* The node linked by a push adds its data at the end asked for.
LEMMA PushLinkStep ==
  ASSUME QueueInv, NEW t \in Threads, PushLink(t), NEW q, q = call[t].q
  PROVE  /\ QueueInv' /\ Moves(t) /\ At(t, "push_link") /\ q \in Queues
         /\ call'[t].at = "push_post" /\ call'[t].q = q /\ call'[t].node = call[t].node
         /\ UNCHANGED <<data, allocated, result>>
         /\ data[call[t].node] \in Data
         /\ Contents(q)' = With(q, call[t].end, data[call[t].node])
         /\ \A p \in Queues : p # q => Contents(p)' = Contents(p)
         /\ \A p \in Queues : Releases(p)' = Releases(p)
<1>1. StateInv /\ call \in [Threads -> Calls] /\ CallInv(t) /\ q \in Queues /\ call[t].end \in Ends
      /\ call[t].node \in Nodes \cup {Null} /\ count \in [Queues -> Nat]
  BY CallFacts DEF QueueInv
<1>2. /\ call[t].at = "push_link" /\ Link(q, call[t].node, call[t].end) /\ Goto(t, "push_post")
      /\ UNCHANGED <<data, allocated, count, lock, result>>
  BY DEF PushLink, At
<1>3. /\ Moves(t) /\ call'[t].at = "push_post" /\ call'[t].q = q /\ call'[t].end = call[t].end
      /\ call'[t].node = call[t].node /\ call'[t].left = call[t].left
  BY <1>1, <1>2, GotoIs DEF Steps
<1>4. PICK n \in Nodes : n = call[t].node /\ next[n] = Null /\ prev[n] = Null
  BY <1>1, <1>2 DEF CallInv
<1>5. InHand(t) /\ n \in allocated /\ \A p \in Queues : n \notin ToSet(Lists[p])
  BY <1>1, <1>2, <1>4 DEF InHand, StateInv, Placed, CallInv
<1>6. data[n] \in Data
  BY <1>1, <1>5 DEF StateInv, DataInv
<1>7. /\ head' \in [Queues -> Nodes \cup {Null}] /\ tail' \in [Queues -> Nodes \cup {Null}]
      /\ next' \in Links /\ prev' \in Links
      /\ \A p \in Queues : p # q => head'[p] = head[p] /\ tail'[p] = tail[p]
      /\ \A m \in Nodes : m \notin ToSet(Lists[q]) \cup {n} => next'[m] = next[m] /\ prev'[m] = prev[m]
  BY <1>1, <1>2, <1>4, <1>5, LinkIs
<1>e. PICK e \in Ends : e = call[t].end /\ Link(q, n, e)
  BY <1>1, <1>2, <1>4
<1>f. /\ StateInv /\ q \in Queues /\ n \in Nodes /\ e \in Ends /\ Link(q, n, e)
      /\ next[n] = Null /\ prev[n] = Null /\ (\A p \in Queues : n \notin ToSet(Lists[p])) /\ n \in allocated
  BY <1>1, <1>4, <1>5, <1>e
<1>g. \E r \in Seq(Nodes) :
        /\ IsList(r, head'[q], tail'[q], next', prev')
        /\ ToSet(r) = ToSet(Lists[q]) \cup {n}
        /\ Along(data, r) = With(q, e, data[n])
  BY <1>f, LinkIs
<1>8. PICK r \in Seq(Nodes) :
        /\ IsList(r, head'[q], tail'[q], next', prev')
        /\ ToSet(r) = ToSet(Lists[q]) \cup {n}
        /\ Along(data, r) = With(q, e, data[n])
  BY <1>g
<1>9. QTypes'
  BY <1>1, <1>2, <1>3, <1>7 DEF StateInv, QTypes, Moves
<1>10. ~InHand(t)'
  BY <1>3 DEF InHand
<1>11. /\ Placed(Lists)' /\ DataInv' /\ \A u \in Threads : u # t => CallInv(u)'
       /\ Contents(q)' = Along(data, r)
       /\ \A p \in Queues : p # q => Contents(p)' = Contents(p)
  BY <1>1, <1>2, <1>3, <1>4, <1>5, <1>7, <1>8, <1>9, <1>10, Relink
<1>12. LockInv'
  BY <1>1, <1>2, <1>3, LockFrame DEF StateInv, Critical
<1>13. CallInv(t)'
  BY <1>1, <1>2, <1>3, <1>4 DEF CallInv, Null
<1>14. StateInv'
  BY <1>9, <1>11, <1>12, <1>13 DEF StateInv
<1>15. ASSUME NEW p \in Queues PROVE Releases(p)' = Releases(p)
  <2>1. Len(Contents(p)) \in Nat /\ Len(Contents(p)') = IF p = q THEN Len(Contents(p)) + 1 ELSE Len(Contents(p))
    <3>1. Contents(p) \in Seq(Data)
      BY <1>1, ContentsType
    <3>2. Len(<<data[n]>> \o Contents(p)) = Len(Contents(p)) + 1 /\ Len(Append(Contents(p), data[n])) = Len(Contents(p)) + 1
      BY <1>6, <3>1
    <3> QED
      BY <1>e, <1>8, <1>11, <3>1, <3>2, LenProperties DEF With
  <2>2. PICK l \in Nat, l2 \in Nat : l = Len(Contents(p)) /\ l2 = Len(Contents(p)')
    BY <2>1
  <2>3. count'[p] + Taking(t, p)' + Posting(t, p)' - l2 = count[p] + Taking(t, p) + Posting(t, p) - l + 0
    <3>1. Taking(t, p) = 0 /\ Taking(t, p)' = 0 /\ Posting(t, p) = 0 /\ Posting(t, p)' = IF p = q THEN 1 ELSE 0
      BY <1>2, <1>3 DEF Taking, Posting, At
    <3> QED
      BY <1>1, <1>2, <2>1, <2>2, <3>1
  <2>4. Releases(p) \in Int /\ Releases(p)' = Releases(p) + 0
    <3>1. count[p] \in Nat /\ count'[p] \in Nat
      BY <1>1, <1>2
    <3> QED
      BY <1>3, <2>2, <2>3, <3>1, ReleasesIs DEF Moves
  <2> QED
    BY <2>4
<1>16. TokenInv'
  BY <1>15 DEF QueueInv, TokenInv
<1> QED
  BY <1>1, <1>2, <1>3, <1>4, <1>e, <1>6, <1>8, <1>11, <1>14, <1>15, <1>16 DEF QueueInv, At

\* What unlinking leaves of a list that is not empty.
LEMMA UnlinkIs ==
  ASSUME StateInv, NEW q \in Queues, NEW e \in Ends, Unlink(q, e), Lists[q] # <<>>,
         NEW n, n = IF e = "head" THEN head[q] ELSE tail[q]
  PROVE  /\ n \in Nodes /\ n \in ToSet(Lists[q])
         /\ head' \in [Queues -> Nodes \cup {Null}] /\ tail' \in [Queues -> Nodes \cup {Null}]
         /\ next' \in Links /\ prev' \in Links
         /\ \A p \in Queues : p # q => head'[p] = head[p] /\ tail'[p] = tail[p]
         /\ \A m \in Nodes : m \notin ToSet(Lists[q]) \cup {n} => next'[m] = next[m] /\ prev'[m] = prev[m]
         /\ Contents(q) # <<>>
         /\ data[n] = EndOf(q, e)
         /\ Without(Lists[q], e) \in Seq(Nodes)
         /\ IsList(Without(Lists[q], e), head'[q], tail'[q], next', prev')
         /\ \A m : m \in ToSet(Without(Lists[q], e)) <=> m \in ToSet(Lists[q]) /\ m # n
         /\ Along(data, Without(Lists[q], e)) = Rest(q, e)
<1>1. PICK s \in Seq(Nodes) : s = Lists[q] /\ s # <<>>
  BY ContentsType
<1>2. IsList(s, head[q], tail[q], next, prev) /\ ToSet(s) \subseteq allocated
  BY <1>1 DEF StateInv, Placed
<1>3. /\ head \in [Queues -> Nodes \cup {Null}] /\ tail \in [Queues -> Nodes \cup {Null}]
      /\ next \in Links /\ prev \in Links /\ data \in [Nodes -> Data \cup {Null}]
      /\ \A m \in ToSet(s) : data[m] \in Data
  BY <1>2 DEF StateInv, QTypes, DataInv
<1>4. Contents(q) = Along(data, s)
  BY <1>1, ContentsType
<1>5. /\ head[q] = s[1] /\ tail[q] = s[Len(s)] /\ head[q] \in ToSet(s) /\ tail[q] \in ToSet(s)
      /\ head[q] \in Nodes /\ tail[q] \in Nodes
      /\ next[head[q]] = (IF Len(s) = 1 THEN Null ELSE s[2])
      /\ prev[tail[q]] = (IF Len(s) = 1 THEN Null ELSE s[Len(s) - 1])
  BY <1>1, <1>2, EndsOfList
<1>6. \A i, j \in 1 .. Len(s) : s[i] = s[j] => i = j
  BY <1>2 DEF IsList
<1>7. Len(s) \in Nat \ {0} /\ (Len(s) # 1 => s[2] \in ToSet(s) /\ s[Len(s) - 1] \in ToSet(s)
                                               /\ s[2] \in Nodes /\ s[Len(s) - 1] \in Nodes)
  <2>1. PICK k \in Nat : k = Len(s)
    BY NodesOfList
  <2>0. k # 0
    BY <1>1, <2>1, NodesOfList
  <2>2. k # 1 => 2 \in 1 .. k /\ k - 1 \in 1 .. k
    BY <2>0
  <2> QED
    BY <2>0, <2>1, <2>2, NodesOfList
<1>8. CASE e = "head"
  <2>1. PICK h \in Nodes \cup {Null} : h = next[head[q]]
    BY <1>3, <1>5 DEF Links
  <2>2. /\ head' = [head EXCEPT ![q] = h] /\ next' = next
        /\ h = Null => tail' = [tail EXCEPT ![q] = Null] /\ prev' = prev
        /\ h # Null => prev' = [prev EXCEPT ![h] = Null] /\ tail' = tail
    BY <1>8, <2>1 DEF Unlink
  <2>3. h # Null => h \in ToSet(s) /\ h \in Nodes
    BY <1>5, <1>7, <2>1
  <2>4. /\ head' \in [Queues -> Nodes \cup {Null}] /\ tail' \in [Queues -> Nodes \cup {Null}]
        /\ next' \in Links /\ prev' \in Links
    BY <1>3, <2>2, <2>3 DEF Links
  <2>5. \A p \in Queues : p # q => head'[p] = head[p] /\ tail'[p] = tail[p]
    BY <1>3, <2>2
  <2>6. \A m \in Nodes : m \notin ToSet(s) => next'[m] = next[m] /\ prev'[m] = prev[m]
    BY <1>3, <2>2, <2>3 DEF Links
  <2>7. IF h = Null THEN IsList(Tail(s), Null, Null, next, prev)
                    ELSE IsList(Tail(s), h, tail[q], next, [prev EXCEPT ![h] = Null])
    BY <1>1, <1>2, <1>3, <2>1, UnlinkFront
  <2>8. IsList(Tail(s), head'[q], tail'[q], next', prev')
    <3>1. CASE h = Null
      BY <1>3, <2>2, <2>7, <3>1
    <3>2. CASE h # Null
      BY <1>3, <2>2, <2>7, <3>2
    <3> QED
      BY <3>1, <3>2
  <2>9. Tail(s) \in Seq(Nodes) /\ ToSet(Tail(s)) = ToSet(s) \ {head[q]} /\ Len(Tail(s)) = Len(s) - 1
    BY <1>1, <1>5, <1>6, TailIs
  <2>10. /\ Contents(q) # <<>> /\ Along(data, Tail(s)) = Tail(Contents(q)) /\ Head(Contents(q)) = data[head[q]]
    BY <1>1, <1>3, <1>4, <1>5, <1>6, AlongTail
  <2>11. n = head[q]
    BY <1>8
  <2> QED
    BY <1>1, <1>5, <1>8, <2>4, <2>5, <2>6, <2>8, <2>9, <2>10, <2>11 DEF Without, Rest, EndOf
<1>9. CASE e = "tail"
  <2>1. PICK b \in Nodes \cup {Null} : b = prev[tail[q]]
    BY <1>3, <1>5 DEF Links
  <2>2. /\ tail' = [tail EXCEPT ![q] = b] /\ prev' = prev
        /\ b = Null => head' = [head EXCEPT ![q] = Null] /\ next' = next
        /\ b # Null => next' = [next EXCEPT ![b] = Null] /\ head' = head
    BY <1>9, <2>1 DEF Unlink
  <2>3. b # Null => b \in ToSet(s) /\ b \in Nodes
    BY <1>5, <1>7, <2>1
  <2>4. /\ head' \in [Queues -> Nodes \cup {Null}] /\ tail' \in [Queues -> Nodes \cup {Null}]
        /\ next' \in Links /\ prev' \in Links
    BY <1>3, <2>2, <2>3 DEF Links
  <2>5. \A p \in Queues : p # q => head'[p] = head[p] /\ tail'[p] = tail[p]
    BY <1>3, <2>2
  <2>6. \A m \in Nodes : m \notin ToSet(s) => next'[m] = next[m] /\ prev'[m] = prev[m]
    BY <1>3, <2>2, <2>3 DEF Links
  <2> DEFINE r == SubSeq(s, 1, Len(s) - 1)
  <2>7. IF b = Null THEN IsList(r, Null, Null, next, prev)
                    ELSE IsList(r, head[q], b, [next EXCEPT ![b] = Null], prev)
    BY <1>1, <1>2, <1>3, <2>1, UnlinkBack
  <2>8. IsList(r, head'[q], tail'[q], next', prev')
    <3> HIDE DEF r
    <3>1. CASE b = Null
      BY <1>3, <2>2, <2>7, <3>1
    <3>2. CASE b # Null
      BY <1>3, <2>2, <2>7, <3>2
    <3> QED
      BY <3>1, <3>2
  <2>9. r \in Seq(Nodes) /\ ToSet(r) = ToSet(s) \ {tail[q]} /\ Len(r) = Len(s) - 1
    BY <1>1, <1>5, <1>6, FrontIs
  <2>10. /\ Contents(q) # <<>> /\ Along(data, r) = SubSeq(Contents(q), 1, Len(Contents(q)) - 1)
         /\ Contents(q)[Len(Contents(q))] = data[tail[q]]
    BY <1>1, <1>3, <1>4, <1>5, <1>6, AlongFront
  <2>11. n = tail[q]
    BY <1>9
  <2> HIDE DEF r
  <2> QED
    <3>1. Without(s, e) = r /\ Rest(q, e) = SubSeq(Contents(q), 1, Len(Contents(q)) - 1)
          /\ EndOf(q, e) = Contents(q)[Len(Contents(q))]
      BY <1>9 DEF Without, Rest, EndOf, r
    <3> QED
      BY <1>1, <1>5, <2>4, <2>5, <2>6, <2>8, <2>9, <2>10, <2>11, <3>1
<1> QED
  BY <1>8, <1>9 DEF Ends

\* What a pop leaves, and what it takes.
LEMMA RestIs ==
  ASSUME StateInv, NEW q \in Queues, Contents(q) # <<>>, NEW e \in Ends
  PROVE  /\ Rest(q, e) \in Seq(Data) /\ Len(Rest(q, e)) = Len(Contents(q)) - 1 /\ Len(Rest(q, e)) \in Nat
         /\ EndOf(q, e) \in Data
<1>1. PICK s \in Seq(Data) : s = Contents(q) /\ s # <<>>
  BY ContentsType
<1>2. PICK k \in Nat : Len(s) = k + 1
  <2>1. Len(s) - 1 \in Nat /\ Len(s) = (Len(s) - 1) + 1
    BY <1>1
  <2> QED
    BY <2>1
<1>3. Tail(s) \in Seq(Data) /\ Len(Tail(s)) = k /\ Head(s) \in Data /\ s[Len(s)] \in Data
  <2>1. Len(s) \in 1 .. Len(s)
    BY <1>2
  <2> QED
    BY <1>1, <1>2, <2>1, HeadTailProperties, ElementOfSeq
<1>4. SubSeq(s, 1, k) \in Seq(Data) /\ Len(SubSeq(s, 1, k)) = k
  <2>1. \A i \in 1 .. k : s[i] \in Data
    BY <1>2, ElementOfSeq
  <2>2. /\ SubSeq(s, 1, k) \in Seq(Data)
        /\ Len(SubSeq(s, 1, k)) = IF 1 <= k THEN k - 1 + 1 ELSE 0
    BY <2>1, SubSeqProperties
  <2>3. (IF 1 <= k THEN k - 1 + 1 ELSE 0) = k
    OBVIOUS
  <2> QED
    BY <2>2, <2>3
<1>5. Len(s) - 1 = k
  BY <1>2
<1> QED
  BY <1>1, <1>3, <1>4, <1>5 DEF Without, Rest, EndOf

\* A pop that finds a node.
LEMMA PopNodeStep ==
  ASSUME QueueInv, NEW t \in Threads, PopUnlink(t), NEW q, q = call[t].q, Contents(q) # <<>>
  PROVE  /\ QueueInv' /\ Moves(t) /\ At(t, "pop_unlink") /\ q \in Queues
         /\ call'[t].at = "pop_unlock" /\ call'[t].q = q /\ call'[t].node # Null
         /\ call'[t].node = IF call[t].end = "head" THEN head[q] ELSE tail[q]
         /\ UNCHANGED <<data, allocated, result>>
         /\ call'[t].node \in allocated
         /\ Contents(q)' = Rest(q, call[t].end) /\ data[call'[t].node] = EndOf(q, call[t].end)
         /\ \A p \in Queues : p # q => Contents(p)' = Contents(p)
         /\ \A p \in Queues : Releases(p)' = Releases(p)
<1>1. StateInv /\ call \in [Threads -> Calls] /\ CallInv(t) /\ q \in Queues /\ call[t].end \in Ends
      /\ count \in [Queues -> Nat]
  BY CallFacts DEF QueueInv
<1>0. PICK e \in Ends : e = call[t].end
  BY <1>1
<1>e. PICK n : e = call[t].end /\ n = IF e = "head" THEN head[q] ELSE tail[q]
  BY <1>0
<1>2. Lists[q] # <<>> /\ Lists[q] \in Seq(Nodes) /\ Len(Contents(q)) = Len(Lists[q]) /\ Contents(q) \in Seq(Data)
  BY <1>1, ContentsType, EmptySeq
<1>3. n # Null
  <2>1. IsList(Lists[q], head[q], tail[q], next, prev)
    BY <1>1 DEF StateInv, Placed
  <2> QED
    BY <1>2, <1>e, <2>1, EndsOfList, NodesAssumption DEF Null
<1>4. /\ call[t].at = "pop_unlink" /\ Unlink(q, e)
      /\ call' = [call EXCEPT ![t].at = "pop_unlock", ![t].node = n]
      /\ UNCHANGED <<data, allocated, count, lock, result>>
  BY <1>3, <1>e DEF PopUnlink, At
<1>5. /\ n \in Nodes /\ n \in ToSet(Lists[q])
      /\ head' \in [Queues -> Nodes \cup {Null}] /\ tail' \in [Queues -> Nodes \cup {Null}]
      /\ next' \in Links /\ prev' \in Links
      /\ \A p \in Queues : p # q => head'[p] = head[p] /\ tail'[p] = tail[p]
      /\ \A m \in Nodes : m \notin ToSet(Lists[q]) \cup {n} => next'[m] = next[m] /\ prev'[m] = prev[m]
      /\ data[n] = EndOf(q, e)
  BY <1>1, <1>2, <1>4, <1>e, UnlinkIs
<1>f. /\ StateInv /\ q \in Queues /\ e \in Ends /\ Unlink(q, e) /\ Lists[q] # <<>>
      /\ n = IF e = "head" THEN head[q] ELSE tail[q]
  BY <1>1, <1>2, <1>4, <1>e
<1>6. /\ Without(Lists[q], e) \in Seq(Nodes)
      /\ IsList(Without(Lists[q], e), head'[q], tail'[q], next', prev')
      /\ ToSet(Without(Lists[q], e)) = ToSet(Lists[q]) \ {n}
      /\ Along(data, Without(Lists[q], e)) = Rest(q, e)
  <2>1. Without(Lists[q], e) \in Seq(Nodes)
    BY <1>1, <1>2, <1>4, <1>e, UnlinkIs
  <2>2. IsList(Without(Lists[q], e), head'[q], tail'[q], next', prev')
    BY <1>1, <1>2, <1>4, <1>e, UnlinkIs
  <2>3. ToSet(Without(Lists[q], e)) = ToSet(Lists[q]) \ {n}
    <3>1. \A m : m \in ToSet(Without(Lists[q], e)) <=> m \in ToSet(Lists[q]) /\ m # n
      BY <1>f, UnlinkIs, Zenon
    <3> QED
      BY <3>1
  <2>4. Along(data, Without(Lists[q], e)) = Rest(q, e)
    BY <1>1, <1>2, <1>4, <1>e, UnlinkIs
  <2> QED
    BY <2>1, <2>2, <2>3, <2>4
<1>7. PICK r \in Seq(Nodes) :
        /\ IsList(r, head'[q], tail'[q], next', prev')
        /\ ToSet(r) = ToSet(Lists[q]) \ {n}
        /\ Along(data, r) = Rest(q, e)
  BY <1>6
<1>8. /\ Moves(t) /\ call'[t].at = "pop_unlock" /\ call'[t].q = q /\ call'[t].node = n
      /\ call'[t].end = call[t].end /\ call'[t].left = call[t].left
  <2>0. "pop_unlock" \in Steps /\ n \in Nodes \cup {Null}
    BY <1>5 DEF Steps
  <2>1. call[t] \in Calls /\ [call[t] EXCEPT !.at = "pop_unlock", !.node = n] \in Calls
    <3>1. call[t] \in Calls
      BY <1>1
    <3> QED
      BY <2>0, <3>1 DEF Calls
  <2>2. call' = [call EXCEPT ![t] = [call[t] EXCEPT !.at = "pop_unlock", !.node = n]]
    BY <1>4
  <2>3. Moves(t) /\ call'[t] = [call[t] EXCEPT !.at = "pop_unlock", !.node = n]
    BY <1>1, <2>1, <2>2, BeginIs
  <2> QED
    BY <2>1, <2>3 DEF Calls
<1>9. QTypes'
  BY <1>1, <1>4, <1>5, <1>8 DEF StateInv, QTypes, Moves
<1>10. ~InHand(t) /\ InHand(t)' /\ n \in allocated
  <2>1. n \in allocated
    BY <1>1, <1>5 DEF StateInv, Placed
  <2> QED
    BY <1>3, <1>4, <1>8, <2>1 DEF InHand
<1>11. /\ Placed(Lists)' /\ DataInv' /\ \A u \in Threads : u # t => CallInv(u)'
       /\ Contents(q)' = Along(data, r)
       /\ \A p \in Queues : p # q => Contents(p)' = Contents(p)
  <2>1. /\ StateInv /\ Moves(t) /\ QTypes' /\ UNCHANGED <<data, allocated>> /\ q \in Queues
        /\ n \in Nodes /\ IsList(r, head'[q], tail'[q], next', prev')
        /\ \A p \in Queues : p # q => head'[p] = head[p] /\ tail'[p] = tail[p]
        /\ \A m \in Nodes : m \notin ToSet(Lists[q]) \cup {n} => next'[m] = next[m] /\ prev'[m] = prev[m]
    BY <1>1, <1>4, <1>5, <1>7, <1>8, <1>9
  <2>2. ~InHand(t) /\ InHand(t)' /\ call'[t].node = n /\ n \in ToSet(Lists[q]) /\ ToSet(r) = ToSet(Lists[q]) \ {n}
    BY <1>5, <1>7, <1>8, <1>10
  <2> QED
    BY <2>1, <2>2, Relink
<1>12. LockInv'
  BY <1>1, <1>4, <1>8, LockFrame DEF StateInv, Critical
<1>13. CallInv(t)'
  BY <1>1, <1>4, <1>8 DEF CallInv
<1>14. StateInv'
  BY <1>9, <1>11, <1>12, <1>13 DEF StateInv
<1>15. ASSUME NEW p \in Queues PROVE Releases(p)' = Releases(p)
  <2>1. Len(Contents(p)) \in Nat /\ Len(Contents(p)') \in Nat
        /\ Len(Contents(p)') = IF p = q THEN Len(Contents(p)) - 1 ELSE Len(Contents(p))
    <3>1. Contents(p) \in Seq(Data)
      BY <1>1, ContentsType
    <3>2. Len(Rest(q, e)) = Len(Contents(q)) - 1 /\ Len(Rest(q, e)) \in Nat
      BY <1>1, RestIs
    <3> QED
      BY <1>7, <1>11, <3>1, <3>2
  <2>2. PICK l \in Nat, l2 \in Nat : l = Len(Contents(p)) /\ l2 = Len(Contents(p)')
    BY <2>1
  <2>3. count'[p] + Taking(t, p)' + Posting(t, p)' - l2 = count[p] + Taking(t, p) + Posting(t, p) - l + 0
    <3>1. Taking(t, p) = (IF p = q THEN 1 ELSE 0) /\ Taking(t, p)' = 0 /\ Posting(t, p) = 0 /\ Posting(t, p)' = 0
      BY <1>4, <1>8 DEF Taking, Posting, At
    <3> QED
      BY <1>1, <1>4, <2>1, <2>2, <3>1
  <2>4. Releases(p) \in Int /\ Releases(p)' = Releases(p) + 0
    <3>1. count[p] \in Nat /\ count'[p] \in Nat
      BY <1>1, <1>4
    <3> QED
      BY <1>8, <2>2, <2>3, <3>1, ReleasesIs DEF Moves
  <2> QED
    BY <2>4
<1>16. TokenInv'
  BY <1>15 DEF QueueInv, TokenInv
<1>17. Contents(q)' = Rest(q, call[t].end) /\ data[call'[t].node] = EndOf(q, call[t].end)
  BY <1>e, <1>5, <1>7, <1>8, <1>11
<1>18. QueueInv'
  BY <1>14, <1>16 DEF QueueInv
<1> QED
  BY <1>1, <1>3, <1>4, <1>e, <1>8, <1>10, <1>11, <1>15, <1>17, <1>18 DEF At

\* A pop that finds none uses a release up.
LEMMA PopNothingStep ==
  ASSUME QueueInv, NEW t \in Threads, PopUnlink(t), NEW q, q = call[t].q, Contents(q) = <<>>
  PROVE  /\ QueueInv' /\ Moves(t) /\ At(t, "pop_unlink") /\ q \in Queues
         /\ call'[t].at = "pop_unlock" /\ call'[t].q = q /\ call'[t].node = Null
         /\ UNCHANGED <<data, allocated, result>>
         /\ \A p \in Queues : Contents(p)' = Contents(p)
         /\ Releases(q) > 0 /\ Releases(q)' = Releases(q) - 1
         /\ \A p \in Queues : p # q => Releases(p)' = Releases(p)
<1>1. StateInv /\ call \in [Threads -> Calls] /\ CallInv(t) /\ q \in Queues /\ call[t].end \in Ends
      /\ count \in [Queues -> Nat]
  BY CallFacts DEF QueueInv
<1>2. Lists[q] = <<>>
  BY <1>1, ContentsType, EmptySeq
<1>3. head[q] = Null /\ tail[q] = Null
  <2>1. IsList(Lists[q], head[q], tail[q], next, prev)
    BY <1>1 DEF StateInv, Placed
  <2> QED
    BY <1>2, <2>1 DEF IsList
<1>4. /\ call[t].at = "pop_unlink" /\ UNCHANGED <<head, tail, next, prev>>
      /\ call' = [call EXCEPT ![t].at = "pop_unlock", ![t].node = Null]
      /\ UNCHANGED <<data, allocated, count, lock, result>>
  BY <1>3 DEF PopUnlink, At
<1>5. /\ Moves(t) /\ call'[t].at = "pop_unlock" /\ call'[t].q = q /\ call'[t].node = Null
      /\ call'[t].end = call[t].end /\ call'[t].left = call[t].left
  <2>0. "pop_unlock" \in Steps /\ Null \in Nodes \cup {Null}
    BY DEF Steps
  <2>1. call[t] \in Calls /\ [call[t] EXCEPT !.at = "pop_unlock", !.node = Null] \in Calls
    <3>1. call[t] \in Calls
      BY <1>1
    <3> QED
      BY <2>0, <3>1 DEF Calls
  <2>2. call' = [call EXCEPT ![t] = [call[t] EXCEPT !.at = "pop_unlock", !.node = Null]]
    BY <1>4
  <2>3. Moves(t) /\ call'[t] = [call[t] EXCEPT !.at = "pop_unlock", !.node = Null]
    BY <1>1, <2>1, <2>2, BeginIs
  <2> QED
    BY <2>1, <2>3 DEF Calls
<1>6. QTypes'
  BY <1>1, <1>4, <1>5 DEF StateInv, QTypes, Moves
<1>7. ~InHand(t) /\ ~InHand(t)' /\ UNCHANGED list_vars
  BY <1>4, <1>5 DEF InHand, list_vars
<1>8. CallInv(t)'
  BY <1>1, <1>4, <1>5 DEF CallInv
<1>9. /\ Placed(Lists)' /\ DataInv' /\ (\A u \in Threads : CallInv(u)') /\ \A p : Contents(p)' = Contents(p)
  BY <1>1, <1>5, <1>7, <1>8, SameLists
<1>10. LockInv'
  BY <1>1, <1>4, <1>5, LockFrame DEF StateInv, Critical
<1>11. ASSUME NEW p \in Queues
       PROVE  /\ Releases(p) \in Int
              /\ p # q => Releases(p)' = Releases(p)
              /\ p = q => Releases(p)' = Releases(p) - 1 /\ Releases(p)' >= 0
  <2>1. PICK l \in Nat : l = Len(Contents(p)) /\ l = Len(Contents(p)')
    BY <1>1, <1>9, ContentsType
  <2>2. PICK d \in {0, -1} : d = IF p = q THEN -1 ELSE 0
    OBVIOUS
  <2>3. count'[p] + Taking(t, p)' + Posting(t, p)' - l = count[p] + Taking(t, p) + Posting(t, p) - l + d
    <3>1. Taking(t, p) = (IF p = q THEN 1 ELSE 0) /\ Taking(t, p)' = 0 /\ Posting(t, p) = 0 /\ Posting(t, p)' = 0
      BY <1>4, <1>5 DEF Taking, Posting, At
    <3>2. count'[p] = count[p] /\ count[p] \in Nat
      BY <1>1, <1>4
    <3> QED
      BY <2>2, <3>1, <3>2
  <2>4. Releases(p) \in Int /\ Releases(p)' = Releases(p) + d /\ Releases(p)' >= -l
    <3>1. count[p] \in Nat /\ count'[p] \in Nat /\ d \in Int
      BY <1>1, <1>4
    <3> QED
      BY <1>5, <2>1, <2>3, <3>1, ReleasesIs DEF Moves
  <2>5. p = q => l = 0
    BY <2>1, EmptySeq
  <2> QED
    BY <2>2, <2>4, <2>5
<1>12. TokenInv'
  BY <1>11 DEF QueueInv, TokenInv
<1>13. StateInv'
  BY <1>6, <1>9, <1>8, <1>10 DEF StateInv
<1>14. Releases(q) > 0 /\ Releases(q)' = Releases(q) - 1
  BY <1>1, <1>11
<1> QED
  BY <1>1, <1>4, <1>5, <1>9, <1>11, <1>12, <1>13, <1>14 DEF QueueInv, At

\* A release posted.
LEMMA ReleasePostStep ==
  ASSUME QueueInv, NEW t \in Threads, ReleasePost(t), NEW q, q = call[t].q
  PROVE  /\ QueueInv' /\ Moves(t) /\ At(t, "release") /\ q \in Queues /\ call[t].left \in Nat \ {0}
         /\ IF call[t].left = 1 THEN call'[t] = NoCall
            ELSE At(t, "release")' /\ call'[t].q = q /\ call'[t].left = call[t].left - 1
         /\ UNCHANGED <<data, allocated, result>>
         /\ \A p \in Queues : Contents(p)' = Contents(p)
         /\ Releases(q) \in Int /\ Releases(q)' = Releases(q) + 1
         /\ \A p \in Queues : p # q => Releases(p)' = Releases(p)
<1>1. StateInv /\ call \in [Threads -> Calls] /\ CallInv(t) /\ q \in Queues /\ call[t].end \in Ends
      /\ count \in [Queues -> Nat] /\ call[t].left \in Nat /\ call[t] \in Calls
  BY CallFacts DEF QueueInv
<1>2. /\ call[t].at = "release" /\ Post(q) /\ UNCHANGED <<list_vars, lock, result>>
      /\ IF call[t].left = 1 THEN Return(t) ELSE call' = [call EXCEPT ![t].left = @ - 1]
  BY DEF ReleasePost, At
<1>3. call[t].left \in Nat \ {0} /\ call[t].node = Null
  BY <1>1, <1>2 DEF CallInv
<1>4. /\ Moves(t) /\ call'[t].node = Null
      /\ IF call[t].left = 1 THEN call'[t] = NoCall
         ELSE call'[t].at = "release" /\ call'[t].q = q /\ call'[t].left = call[t].left - 1 /\ call'[t].left > 0
  <2>1. CASE call[t].left = 1
    BY <1>1, <1>2, <2>1, ReturnIs, NoCallIs
  <2>2. CASE call[t].left # 1
    <3>1. PICK k \in Nat \ {0} : k = call[t].left - 1
      BY <1>3, <2>2
    <3>2. [call[t] EXCEPT !.left = k] \in Calls
      BY <1>1, <3>1 DEF Calls
    <3>3. call' = [call EXCEPT ![t] = [call[t] EXCEPT !.left = k]]
      BY <1>1, <1>2, <2>2, <3>1
    <3>4. Moves(t) /\ call'[t] = [call[t] EXCEPT !.left = k]
      BY <1>1, <3>2, <3>3, BeginIs
    <3> QED
      BY <1>1, <1>2, <1>3, <2>2, <3>1, <3>4 DEF Calls
  <2> QED
    BY <2>1, <2>2
<1>5. count' \in [Queues -> Nat] /\ \A p \in Queues : count'[p] = IF p = q THEN count[p] + 1 ELSE count[p]
  BY <1>1, <1>2 DEF Post
<1>6. QTypes'
  BY <1>1, <1>2, <1>4, <1>5 DEF StateInv, QTypes, Moves, list_vars
<1>7. ~InHand(t) /\ ~InHand(t)'
  BY <1>2, <1>4, NoCallIs DEF InHand
<1>8. CallInv(t)'
  BY <1>4, NoCallIs DEF CallInv
<1>9. /\ Placed(Lists)' /\ DataInv' /\ (\A u \in Threads : CallInv(u)') /\ \A p : Contents(p)' = Contents(p)
  BY <1>1, <1>2, <1>4, <1>7, <1>8, SameLists
<1>10. LockInv'
  BY <1>1, <1>2, <1>4, LockFrame, NoCallIs DEF StateInv, Critical
<1>11. ASSUME NEW p \in Queues
       PROVE  /\ Releases(p) \in Int
              /\ p # q => Releases(p)' = Releases(p)
              /\ p = q => Releases(p)' = Releases(p) + 1
  <2>1. PICK l \in Nat : l = Len(Contents(p)) /\ l = Len(Contents(p)')
    BY <1>1, <1>9, ContentsType
  <2>2. PICK d \in {0, 1} : d = IF p = q THEN 1 ELSE 0
    OBVIOUS
  <2>3. count'[p] + Taking(t, p)' + Posting(t, p)' - l = count[p] + Taking(t, p) + Posting(t, p) - l + d
    <3>1. Taking(t, p) = 0 /\ Taking(t, p)' = 0 /\ Posting(t, p) = 0 /\ Posting(t, p)' = 0
      BY <1>2, <1>4, NoCallIs DEF Taking, Posting, At
    <3>2. count[p] \in Nat
      BY <1>1
    <3> QED
      BY <1>5, <2>2, <3>1, <3>2
  <2>4. Releases(p) \in Int /\ Releases(p)' = Releases(p) + d /\ Releases(p)' >= -l
    <3>1. count[p] \in Nat /\ count'[p] \in Nat /\ d \in Int
      BY <1>1, <1>5
    <3> QED
      BY <1>4, <2>1, <2>3, <3>1, ReleasesIs DEF Moves
  <2> QED
    BY <2>2, <2>4
<1>12. TokenInv'
  BY <1>11 DEF QueueInv, TokenInv
<1>13. StateInv'
  BY <1>6, <1>9, <1>8, <1>10 DEF StateInv
<1>14. UNCHANGED <<data, allocated, result>>
  BY <1>2 DEF list_vars
<1> QED
  BY <1>1, <1>2, <1>3, <1>4, <1>9, <1>11, <1>12, <1>13, <1>14 DEF QueueInv, At

\* The call of a pop or a release.
LEMMA CallPopStep ==
  ASSUME QueueInv, NEW t \in Threads, NEW q \in Queues, NEW e \in Ends, CallPop(t, q, e)
  PROVE  /\ QueueInv' /\ Moves(t) /\ At(t, "none")
         /\ call'[t] = [at |-> "pop_wait", q |-> q, end |-> e, node |-> Null, left |-> 0]
         /\ result' = [result EXCEPT ![t] = Null] /\ UNCHANGED <<data, allocated>>
         /\ \A p \in Queues : Contents(p)' = Contents(p) /\ Releases(p)' = Releases(p)
<1>1. StateInv /\ call \in [Threads -> Calls] /\ CallInv(t) /\ count \in [Queues -> Nat]
      /\ result \in [Threads -> Data \cup {Null}]
  BY CallFacts DEF QueueInv, StateInv, QTypes
<1>2. /\ call[t].at = "none" /\ UNCHANGED <<list_vars, count, lock>> /\ result' = [result EXCEPT ![t] = Null]
      /\ call' = [call EXCEPT ![t] = [at |-> "pop_wait", q |-> q, end |-> e, node |-> Null, left |-> 0]]
  BY DEF CallPop, At
<1>3. [at |-> "pop_wait", q |-> q, end |-> e, node |-> Null, left |-> 0] \in Calls
  BY DEF Calls, Steps
<1>4. Moves(t) /\ call'[t] = [at |-> "pop_wait", q |-> q, end |-> e, node |-> Null, left |-> 0]
  BY <1>1, <1>2, <1>3, BeginIs
<1>5. call'[t].at = "pop_wait" /\ call'[t].node = Null /\ call'[t].left = 0 /\ call'[t].q = q
  BY <1>4
<1>6. QTypes'
  BY <1>1, <1>2, <1>4 DEF StateInv, QTypes, Moves, list_vars
<1>7. ~InHand(t) /\ ~InHand(t)'
  BY <1>2, <1>5 DEF InHand
<1>8. CallInv(t)'
  BY <1>5 DEF CallInv
<1>9. /\ Placed(Lists)' /\ DataInv' /\ (\A u \in Threads : CallInv(u)') /\ \A p : Contents(p)' = Contents(p)
  BY <1>1, <1>2, <1>4, <1>7, <1>8, SameLists
<1>10. LockInv'
  BY <1>1, <1>2, <1>4, <1>5, LockFrame DEF StateInv, Critical
<1>11. \A p \in Queues : Releases(p)' = Releases(p)
  <2>1. \A p \in Queues : /\ Taking(t, p) = 0 /\ Taking(t, p)' = 0 /\ Posting(t, p) = 0 /\ Posting(t, p)' = 0
                          /\ count'[p] = count[p] /\ count[p] \in Nat
    BY <1>1, <1>2, <1>5 DEF Taking, Posting, At
  <2>2. \A p \in Queues : count'[p] + Taking(t, p)' + Posting(t, p)' = count[p] + Taking(t, p) + Posting(t, p)
    BY <2>1
  <2>3. count' \in [Queues -> Nat]
    BY <1>1, <1>2
  <2> QED
    BY <1>1, <1>4, <1>9, <2>2, <2>3, TokensMove
<1>12. TokenInv'
  BY <1>11 DEF QueueInv, TokenInv
<1>13. StateInv'
  BY <1>6, <1>9, <1>10 DEF StateInv
<1>14. UNCHANGED <<data, allocated>>
  BY <1>2 DEF list_vars
<1> QED
  BY <1>2, <1>4, <1>9, <1>11, <1>12, <1>13, <1>14 DEF QueueInv, At

\* Calling queue_release_threads changes no content and no token.
LEMMA CallReleaseStep ==
  ASSUME QueueInv, NEW t \in Threads, NEW q \in Queues, NEW number \in Nat, CallRelease(t, q, number)
  PROVE  /\ QueueInv' /\ Moves(t) /\ At(t, "none")
         /\ call'[t] = IF number = 0 THEN NoCall
              ELSE [at |-> "release", q |-> q, end |-> "head", node |-> Null, left |-> number]
         /\ UNCHANGED <<data, allocated, result>>
         /\ \A p \in Queues : Contents(p)' = Contents(p) /\ Releases(p)' = Releases(p)
<1>0. PICK x : x = IF number = 0 THEN NoCall
              ELSE [at |-> "release", q |-> q, end |-> "head", node |-> Null, left |-> number]
  OBVIOUS
<1>1. StateInv /\ call \in [Threads -> Calls] /\ CallInv(t) /\ count \in [Queues -> Nat]
  BY CallFacts DEF QueueInv
<1>2. call[t].at = "none" /\ UNCHANGED <<list_vars, count, lock, result>> /\ call' = [call EXCEPT ![t] = x]
  BY <1>0 DEF CallRelease, At
<1>3. x \in Calls
  BY <1>0, NoCallIs DEF Calls, Steps, Ends
<1>4. Moves(t) /\ call'[t] = x
  BY <1>1, <1>2, <1>3, BeginIs
<1>5. call'[t].at \in {"none", "release"} /\ call'[t].node = Null /\ call'[t].left = number
      /\ (call'[t].at = "release" <=> number # 0)
  BY <1>0, <1>4, NoCallIs
<1>6. QTypes'
  BY <1>1, <1>2, <1>4 DEF StateInv, QTypes, Moves, list_vars
<1>7. ~InHand(t) /\ ~InHand(t)'
  BY <1>2, <1>5 DEF InHand
<1>8. CallInv(t)'
  BY <1>5 DEF CallInv
<1>9. /\ Placed(Lists)' /\ DataInv' /\ (\A u \in Threads : CallInv(u)') /\ \A p : Contents(p)' = Contents(p)
  BY <1>1, <1>2, <1>4, <1>7, <1>8, SameLists
<1>10. LockInv'
  BY <1>1, <1>2, <1>4, <1>5, LockFrame DEF StateInv, Critical
<1>11. \A p \in Queues : Releases(p)' = Releases(p)
  <2>1. \A p \in Queues : /\ Taking(t, p) = 0 /\ Taking(t, p)' = 0 /\ Posting(t, p) = 0 /\ Posting(t, p)' = 0
                          /\ count'[p] = count[p] /\ count[p] \in Nat
    BY <1>1, <1>2, <1>5 DEF Taking, Posting, At
  <2>2. \A p \in Queues : count'[p] + Taking(t, p)' + Posting(t, p)' = count[p] + Taking(t, p) + Posting(t, p)
    BY <2>1
  <2>3. count' \in [Queues -> Nat]
    BY <1>1, <1>2
  <2> QED
    BY <1>1, <1>4, <1>9, <2>2, <2>3, TokensMove
<1>12. TokenInv'
  BY <1>11 DEF QueueInv, TokenInv
<1>13. StateInv'
  BY <1>6, <1>9, <1>10 DEF StateInv
<1>14. UNCHANGED <<data, allocated, result>>
  BY <1>2 DEF list_vars
<1> QED
  BY <1>0, <1>2, <1>4, <1>9, <1>11, <1>12, <1>13, <1>14 DEF QueueInv, At

\* The call of a push: a node that was free is filled.
LEMMA CallPushStep ==
  ASSUME QueueInv, NEW t \in Threads, NEW q \in Queues, NEW d \in Data, NEW e \in Ends, CallPush(t, q, d, e)
  PROVE  /\ QueueInv' /\ Moves(t) /\ At(t, "none")
         /\ call'[t].at = "push_lock" /\ call'[t].q = q /\ call'[t].end = e /\ call'[t].left = 0
         /\ call'[t].node \in Nodes \ allocated
         /\ allocated' = allocated \cup {call'[t].node}
         /\ data'[call'[t].node] = d /\ \A m \in Nodes : m # call'[t].node => data'[m] = data[m]
         /\ UNCHANGED result
         /\ \A p \in Queues : Contents(p)' = Contents(p) /\ Releases(p)' = Releases(p)
<1>1. StateInv /\ call \in [Threads -> Calls] /\ CallInv(t) /\ count \in [Queues -> Nat]
  BY CallFacts DEF QueueInv
<1>2. PICK n \in Nodes \ allocated :
        /\ allocated' = allocated \cup {n}
        /\ data' = [data EXCEPT ![n] = d] /\ next' = [next EXCEPT ![n] = Null] /\ prev' = [prev EXCEPT ![n] = Null]
        /\ call' = [call EXCEPT ![t] = [at |-> "push_lock", q |-> q, end |-> e, node |-> n, left |-> 0]]
  BY DEF CallPush
<1>3. call[t].at = "none" /\ UNCHANGED <<head, tail, count, lock, result>>
  BY DEF CallPush, At
<1>4. PICK x : x = [at |-> "push_lock", q |-> q, end |-> e, node |-> n, left |-> 0]
  OBVIOUS
<1>5. x \in Calls /\ x.at = "push_lock" /\ x.q = q /\ x.end = e /\ x.node = n /\ x.left = 0
  BY <1>4 DEF Calls, Steps
<1>6. Moves(t) /\ call'[t] = x
  BY <1>1, <1>2, <1>4, <1>5, BeginIs
<1>7. /\ data \in [Nodes -> Data \cup {Null}] /\ next \in Links /\ prev \in Links /\ allocated \in SUBSET Nodes
  BY <1>1 DEF StateInv, QTypes
<1>8. /\ data'[n] = d /\ next'[n] = Null /\ prev'[n] = Null
      /\ \A m \in Nodes : m # n => data'[m] = data[m] /\ next'[m] = next[m] /\ prev'[m] = prev[m]
  BY <1>2, <1>7 DEF Links
<1>9. data' \in [Nodes -> Data \cup {Null}] /\ next' \in Links /\ prev' \in Links /\ allocated' \in SUBSET Nodes
  BY <1>2, <1>7 DEF Links
<1>10. QTypes'
  BY <1>1, <1>3, <1>6, <1>9 DEF StateInv, QTypes, Moves
<1>11. PICK c : c = Lists
  OBVIOUS
<1>12. Placed(c) /\ c \in [Queues -> Seq(Nodes)] /\ \A p \in Queues : ToSet(c[p]) \subseteq allocated /\ c[p] \in Seq(Nodes)
  BY <1>1, <1>11 DEF StateInv, Placed
<1>13. \A p \in Queues : n \notin ToSet(c[p])
  BY <1>12
<1>14. ~InHand(t) /\ InHand(t)' /\ call'[t].node = n
  BY <1>3, <1>5, <1>6, NodesAssumption DEF InHand, Null
<1>15. \A u \in Threads : u # t => (InHand(u)' <=> InHand(u)) /\ call'[u] = call[u]
  BY <1>6 DEF Moves, InHand
<1>16. \A p \in Queues : IsList(c[p], head'[p], tail'[p], next', prev')
  <2>1. ASSUME NEW p \in Queues PROVE IsList(c[p], head[p], tail[p], next', prev')
    <3>1. IsList(c[p], head[p], tail[p], next, prev) /\ c[p] \in Seq(Nodes)
      BY <1>12 DEF Placed
    <3>2. \A m \in ToSet(c[p]) : next'[m] = next[m] /\ prev'[m] = prev[m]
      BY <1>7, <1>8, <1>12, <1>13
    <3> QED
      BY <3>1, <3>2, ListFrame
  <2> QED
    BY <1>3, <2>1
<1>17. Placed(c)'
  <2>1. \A p \in Queues : ToSet(c[p]) \subseteq allocated'
    BY <1>2, <1>12
  <2>2. \A p1, p2 \in Queues : p1 # p2 => ToSet(c[p1]) \cap ToSet(c[p2]) = {}
    BY <1>12 DEF Placed
  <2>3. ASSUME NEW u \in Threads, InHand(u)'
        PROVE  call'[u].node \in allocated' /\ \A p \in Queues : call'[u].node \notin ToSet(c[p])
    <3>1. CASE u = t
      BY <1>2, <1>13, <1>14, <3>1
    <3>2. CASE u # t
      BY <1>2, <1>12, <1>15, <2>3, <3>2 DEF Placed
    <3> QED
      BY <3>1, <3>2
  <2>4. ASSUME NEW u \in Threads, u # t, InHand(u)' PROVE call'[u].node # n
    BY <1>12, <1>15, <2>4 DEF Placed
  <2>5. \A u, v \in Threads : InHand(u)' /\ InHand(v)' /\ call'[u].node = call'[v].node => u = v
    <3>1. ASSUME NEW u \in Threads, NEW v \in Threads, InHand(u)', InHand(v)', call'[u].node = call'[v].node
          PROVE  u = v
      <4>1. CASE u = t \/ v = t
        BY <1>14, <2>4, <3>1, <4>1
      <4>2. CASE u # t /\ v # t
        BY <1>12, <1>15, <3>1, <4>2 DEF Placed
      <4> QED
        BY <4>1, <4>2
    <3> QED
      BY <3>1
  <2>6. ASSUME NEW m \in allocated'
        PROVE  \/ \E p \in Queues : m \in ToSet(c[p])
               \/ \E u \in Threads : InHand(u)' /\ call'[u].node = m
    <3>1. CASE m = n
      BY <1>14, <3>1
    <3>2. CASE m # n
      <4>1. \/ \E p \in Queues : m \in ToSet(c[p])
            \/ \E u \in Threads : InHand(u) /\ call[u].node = m
        BY <1>2, <1>12, <2>6, <3>2 DEF Placed
      <4>2. CASE \E u \in Threads : InHand(u) /\ call[u].node = m
        BY <1>14, <1>15, <4>2
      <4> QED
        BY <4>1, <4>2
    <3> QED
      BY <3>1, <3>2
  <2> QED
    BY <1>12, <1>16, <2>1, <2>2, <2>3, <2>5, <2>6 DEF Placed
<1>18. Placed(Lists)'
  BY <1>10, <1>17, ListsPrime
<1>19. \A p \in Queues : Contents(p)' = Contents(p)
  <2>1. ASSUME NEW p \in Queues PROVE Contents(p)' = Contents(p)
    <3>1. Contents(p)' = Along(data', c[p])
      BY <1>10, <1>17, ContentsPrime
    <3>2. Contents(p) = Along(data, c[p])
      BY <1>1, <1>12, ContentsAre DEF StateInv
    <3>3. \A m \in ToSet(c[p]) : data'[m] = data[m]
      BY <1>7, <1>8, <1>12, <1>13
    <3> QED
      BY <1>12, <3>1, <3>2, <3>3, AlongFrame
  <2> QED
    BY <2>1
<1>20. DataInv'
  BY <1>1, <1>2, <1>7, <1>8 DEF StateInv, DataInv
<1>21. ASSUME NEW u \in Threads PROVE CallInv(u)'
  <2>1. CASE u = t
    BY <1>5, <1>6, <1>8, <2>1, NodesAssumption DEF CallInv, Null
  <2>2. CASE u # t
    <3>1. CallInv(u) /\ call'[u] = call[u]
      BY <1>1, <1>15, <2>2 DEF StateInv
    <3>2. call[u].at \in {"push_lock", "push_link"} => InHand(u) /\ call[u].node \in allocated
      BY <1>12, <3>1 DEF CallInv, InHand, Placed
    <3>3. InHand(u) => call[u].node # n /\ call[u].node \in Nodes
      BY <1>7, <1>12 DEF Placed
    <3> QED
      BY <1>8, <3>1, <3>2, <3>3 DEF CallInv
  <2> QED
    BY <2>1, <2>2
<1>22. LockInv'
  BY <1>1, <1>3, <1>5, <1>6, LockFrame DEF StateInv, Critical
<1>23. \A p \in Queues : Releases(p)' = Releases(p)
  <2>1. \A p \in Queues : /\ Taking(t, p) = 0 /\ Taking(t, p)' = 0 /\ Posting(t, p) = 0 /\ Posting(t, p)' = 0
                          /\ count'[p] = count[p] /\ count[p] \in Nat
    BY <1>1, <1>3, <1>5, <1>6 DEF Taking, Posting, At
  <2>2. \A p \in Queues : count'[p] + Taking(t, p)' + Posting(t, p)' = count[p] + Taking(t, p) + Posting(t, p)
    BY <2>1
  <2>3. count' \in [Queues -> Nat]
    BY <1>1, <1>3
  <2> QED
    BY <1>1, <1>6, <1>19, <2>2, <2>3, TokensMove
<1>24. QueueInv'
  BY <1>10, <1>18, <1>20, <1>21, <1>22, <1>23 DEF QueueInv, StateInv, TokenInv
<1> QED
  BY <1>2, <1>3, <1>5, <1>6, <1>8, <1>19, <1>23, <1>24 DEF At

\* The return of a pop: the node is free again.
LEMMA PopReturnStep ==
  ASSUME QueueInv, NEW t \in Threads, PopReturn(t)
  PROVE  /\ QueueInv' /\ Moves(t) /\ At(t, "pop_return") /\ call'[t] = NoCall
         /\ call[t].node # Null => call[t].node \in allocated /\ data[call[t].node] \in Data
         /\ allocated' = allocated \ {call[t].node} /\ UNCHANGED data
         /\ result' = [result EXCEPT ![t] = IF call[t].node = Null THEN Null ELSE data[call[t].node]]
         /\ \A p \in Queues : Contents(p)' = Contents(p) /\ Releases(p)' = Releases(p)
<1>1. StateInv /\ call \in [Threads -> Calls] /\ CallInv(t) /\ count \in [Queues -> Nat]
      /\ result \in [Threads -> Data \cup {Null}]
  BY CallFacts DEF QueueInv, StateInv, QTypes
<1>2. /\ call[t].at = "pop_return" /\ Return(t) /\ UNCHANGED <<head, tail, next, prev, data, count, lock>>
      /\ result' = [result EXCEPT ![t] = IF call[t].node = Null THEN Null ELSE data[call[t].node]]
      /\ allocated' = allocated \ {call[t].node}
  BY DEF PopReturn, At
<1>3. Moves(t) /\ call'[t] = NoCall
  BY <1>1, <1>2, ReturnIs
<1>4. PICK n : n = call[t].node
  OBVIOUS
<1>5. n # Null => InHand(t) /\ n \in allocated /\ data[n] \in Data
  BY <1>1, <1>2, <1>4 DEF InHand, StateInv, Placed, DataInv
<1>6. result' \in [Threads -> Data \cup {Null}]
  BY <1>1, <1>2, <1>4, <1>5
<1>7. QTypes'
  BY <1>1, <1>2, <1>3, <1>6 DEF StateInv, QTypes, Moves
<1>8. PICK c : c = Lists
  OBVIOUS
<1>9. Placed(c) /\ c \in [Queues -> Seq(Nodes)] /\ \A p \in Queues : ToSet(c[p]) \subseteq allocated /\ c[p] \in Seq(Nodes)
      /\ allocated \in SUBSET Nodes
  BY <1>1, <1>8 DEF StateInv, Placed, QTypes
<1>10. \A p \in Queues : n \notin ToSet(c[p])
  <2>1. CASE n = Null
    BY <1>9, <2>1, NodesAssumption DEF Null
  <2>2. CASE n # Null
    BY <1>4, <1>5, <1>9, <2>2 DEF Placed
  <2> QED
    BY <2>1, <2>2
<1>11. ~InHand(t)' /\ \A u \in Threads : u # t => (InHand(u)' <=> InHand(u)) /\ call'[u] = call[u]
  BY <1>3, NoCallIs DEF Moves, InHand
<1>12. ASSUME NEW u \in Threads, InHand(u)' PROVE u # t /\ InHand(u) /\ call'[u].node = call[u].node /\ call[u].node # n
  <2>1. u # t /\ InHand(u) /\ call'[u] = call[u]
    BY <1>11, <1>12
  <2>2. n # Null => call[u].node # n
    BY <1>4, <1>5, <1>9, <2>1 DEF Placed
  <2>3. call[u].node # Null
    BY <2>1 DEF InHand
  <2> QED
    BY <2>1, <2>2, <2>3
<1>13. Placed(c)'
  <2>1. \A p \in Queues : IsList(c[p], head'[p], tail'[p], next', prev')
    BY <1>2, <1>9 DEF Placed
  <2>2. \A p \in Queues : ToSet(c[p]) \subseteq allocated'
    BY <1>2, <1>4, <1>9, <1>10
  <2>3. \A p1, p2 \in Queues : p1 # p2 => ToSet(c[p1]) \cap ToSet(c[p2]) = {}
    BY <1>9 DEF Placed
  <2>4. \A u \in Threads : InHand(u)' => /\ call'[u].node \in allocated'
                                       /\ \A p \in Queues : call'[u].node \notin ToSet(c[p])
    BY <1>2, <1>4, <1>9, <1>12 DEF Placed
  <2>5. \A u, v \in Threads : InHand(u)' /\ InHand(v)' /\ call'[u].node = call'[v].node => u = v
    BY <1>9, <1>12 DEF Placed
  <2>6. ASSUME NEW m \in allocated'
        PROVE  \/ \E p \in Queues : m \in ToSet(c[p])
               \/ \E u \in Threads : InHand(u)' /\ call'[u].node = m
    <3>1. m \in allocated /\ m # n
      BY <1>2, <1>4, <2>6
    <3>2. \/ \E p \in Queues : m \in ToSet(c[p])
          \/ \E u \in Threads : InHand(u) /\ call[u].node = m
      BY <1>9, <3>1 DEF Placed
    <3>3. CASE \E u \in Threads : InHand(u) /\ call[u].node = m
      <4>1. PICK u \in Threads : InHand(u) /\ call[u].node = m
        BY <3>3
      <4>2. u # t
        BY <1>4, <3>1, <4>1
      <4> QED
        BY <1>11, <4>1, <4>2
    <3> QED
      BY <3>2, <3>3
  <2> QED
    BY <1>9, <2>1, <2>2, <2>3, <2>4, <2>5, <2>6 DEF Placed
<1>14. Placed(Lists)'
  BY <1>7, <1>13, ListsPrime
<1>15. \A p : Contents(p)' = Contents(p)
  BY <1>2 DEF Contents
<1>16. DataInv'
  BY <1>1, <1>2 DEF StateInv, DataInv
<1>17. ASSUME NEW u \in Threads PROVE CallInv(u)'
  <2>1. CASE u = t
    BY <1>3, <2>1, NoCallIs DEF CallInv
  <2>2. CASE u # t
    <3>1. CallInv(u) /\ call'[u] = call[u]
      BY <1>1, <1>11, <2>2 DEF StateInv
    <3> QED
      BY <1>2, <3>1 DEF CallInv
  <2> QED
    BY <2>1, <2>2
<1>18. LockInv'
  BY <1>1, <1>2, <1>3, LockFrame, NoCallIs DEF StateInv, Critical
<1>19. \A p \in Queues : Releases(p)' = Releases(p)
  <2>1. \A p \in Queues : /\ Taking(t, p) = 0 /\ Taking(t, p)' = 0 /\ Posting(t, p) = 0 /\ Posting(t, p)' = 0
                          /\ count'[p] = count[p] /\ count[p] \in Nat
    BY <1>1, <1>2, <1>3, NoCallIs DEF Taking, Posting, At
  <2>2. \A p \in Queues : count'[p] + Taking(t, p)' + Posting(t, p)' = count[p] + Taking(t, p) + Posting(t, p)
    BY <2>1
  <2>3. count' \in [Queues -> Nat]
    BY <1>1, <1>2
  <2> QED
    BY <1>1, <1>3, <1>15, <2>2, <2>3, TokensMove
<1>20. QueueInv'
  BY <1>7, <1>14, <1>16, <1>17, <1>18, <1>19 DEF QueueInv, StateInv, TokenInv
<1> QED
  BY <1>2, <1>3, <1>4, <1>5, <1>15, <1>19, <1>20 DEF At

\* queue_create.
LEMMA CreatedIs ==
  ASSUME QueueInit
  PROVE  QueueInv /\ \A q \in Queues : Contents(q) = <<>> /\ Releases(q) = 0
<1>1. PICK c : c = [q \in Queues |-> <<>>]
  OBVIOUS
<1>2. QTypes
  BY NoCallIs DEF QueueInit, QTypes, Links, Null
<1>3. \A t \in Threads : call[t].at = "none" /\ call[t].node = Null /\ call[t].left = 0
  BY NoCallIs DEF QueueInit
<1>4. \A t \in Threads : CallInv(t) /\ ~InHand(t)
  BY <1>3 DEF CallInv, InHand
<1>5. LockInv
  BY <1>3, NobodyAssumption DEF QueueInit, LockInv, Critical
<1>6. Placed(c)
  <2>1. c \in [Queues -> Seq(Nodes)] /\ \A q \in Queues : ToSet(c[q]) = {} /\ c[q] = <<>>
    <3>0. <<>> \in Seq(Nodes) /\ Len(<<>>) = 0 /\ 1 .. 0 = {}
      BY EmptySeq
    <3>1. <<>> \in Seq(Nodes) /\ ToSet(<<>>) = {}
      BY <3>0, NodesOfList
    <3> QED
      BY <1>1, <3>1
  <2>2. \A q \in Queues : IsList(c[q], head[q], tail[q], next, prev)
    <3>1. Len(<<>>) = 0 /\ 1 .. 0 = {}
      BY EmptySeq
    <3> QED
      BY <2>1, <3>1 DEF QueueInit, IsList
  <2> QED
    BY <1>4, <2>1, <2>2 DEF Placed, QueueInit
<1>7. Lists = c /\ \A q \in Queues : Contents(q) = <<>>
  <2>1. /\ c \in [Queues -> Seq(Nodes)] /\ next \in Links /\ prev \in Links
        /\ \A q \in Queues : IsList(c[q], head[q], tail[q], next, prev)
    BY <1>2, <1>6 DEF Placed, QTypes
  <2>2. c = [q \in Queues |-> Walk(next, head[q])]
    BY <2>1, ListsAre
  <2>3. ASSUME NEW q \in Queues PROVE Contents(q) = <<>>
    <3>1. Contents(q) = Along(data, c[q]) /\ c[q] = <<>>
      BY <1>1, <1>2, <1>6, ContentsAre
    <3>2. Along(data, <<>>) = <<>>
      BY DEF Along
    <3> QED
      BY <3>1, <3>2
  <2> QED
    BY <2>2, <2>3 DEF Lists
<1>8. DataInv
  BY DEF QueueInit, DataInv
<1>9. \A q \in Queues : Releases(q) = 0
  <2>1. ASSUME NEW q \in Queues PROVE Releases(q) = 0
    <3>1. {t \in Threads : At(t, "push_post") /\ call[t].q = q} = {}
          /\ {t \in Threads : call[t].at \in {"pop_lock", "pop_unlink"} /\ call[t].q = q} = {}
      BY <1>3 DEF At
    <3>2. Unposted(q) = 0 /\ Taken(q) = 0
      BY <3>1, FS_EmptySet DEF Unposted, Taken
    <3>3. count[q] = 0 /\ Len(Contents(q)) = 0
      BY <1>7, EmptySeq DEF QueueInit
    <3> QED
      BY <3>2, <3>3 DEF Releases
  <2> QED
    BY <2>1
<1> QED
  BY <1>2, <1>4, <1>5, <1>6, <1>7, <1>8, <1>9 DEF QueueInv, StateInv, TokenInv

\* The balance is a number, and the semaphore is covered by it and the contents.
LEMMA ReleasesType ==
  ASSUME StateInv, NEW q \in Queues
  PROVE  /\ Releases(q) \in Int
         /\ count[q] \in Nat /\ Len(Contents(q)) \in Nat /\ count[q] <= Releases(q) + Len(Contents(q))
<1>1. PICK l \in Nat, c \in Nat : l = Len(Contents(q)) /\ c = count[q]
  BY ContentsType DEF StateInv, QTypes
<1>2. \A S \in SUBSET Threads : Cardinality(S) \in Nat
  BY FiniteThreads, FS_Subset, FS_CardinalityType
<1>3. {t \in Threads : At(t, "push_post") /\ call[t].q = q} \in SUBSET Threads
      /\ {t \in Threads : call[t].at \in {"pop_lock", "pop_unlink"} /\ call[t].q = q} \in SUBSET Threads
  OBVIOUS
<1>4. PICK u \in Nat, k \in Nat : u = Unposted(q) /\ k = Taken(q)
  BY <1>2, <1>3 DEF Unposted, Taken
<1>5. Releases(q) = c + k + u - l
  BY <1>1, <1>4 DEF Releases
<1> QED
  BY <1>1, <1>5
=============================================================================
