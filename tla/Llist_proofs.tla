---------------------------- MODULE Llist_proofs ----------------------------
(***************************************************************************)
(* The linked list for every number of nodes and all data: it is the same  *)
(* list from both ends, and a sequence with an iterator that keeps its     *)
(* place.                                                                  *)
(***************************************************************************)
EXTENDS Llist, FiniteSetTheorems, SequenceTheorems, WellFoundedInduction, TLAPS

-----------------------------------------------------------------------------
(* Walks. *)

\* Every nonempty set of numbers has a least one.
LEMMA LeastElement ==
  ASSUME NEW S \in SUBSET Nat, S # {}
  PROVE  \E m \in S : \A k \in S : m <= k
<1>0. S \subseteq Nat
  OBVIOUS
<1>1. PICK m \in S : \A k \in S : <<k, m>> \notin OpToRel(<, Nat)
  BY <1>0, WFMin, NatLessThanWellFounded, Zenon
<1>2. \A k \in S : ~(k < m)
  BY <1>0, <1>1 DEF OpToRel
<1> QED
  BY <1>0, <1>2

\* The size of an interval.
LEMMA IntervalSize ==
  ASSUME NEW n \in Nat
  PROVE  IsFiniteSet(1 .. n) /\ Cardinality(1 .. n) = n
BY FS_Interval

\* A list without repetitions is no longer than there are nodes.
LEMMA FewNodes ==
  ASSUME NEW s \in Seq(Nodes), \A i, j \in 1 .. Len(s) : s[i] = s[j] => i = j
  PROVE  Len(s) \in Nat /\ Cardinality(Nodes) \in Nat /\ Len(s) <= Cardinality(Nodes)
<1>1. s \in [1 .. Len(s) -> Nodes] /\ Len(s) \in Nat
  BY LenProperties
<1>2. s \in Injection(1 .. Len(s), Nodes)
  BY <1>1 DEF Injection, IsInjective
<1>3. Cardinality(1 .. Len(s)) <= Cardinality(Nodes)
  BY <1>2, FS_Injection, NodesAssumption
<1>4. Cardinality(1 .. Len(s)) = Len(s)
  BY <1>1, IntervalSize
<1> QED
  BY <1>1, <1>3, <1>4, FS_CardinalityType, NodesAssumption

\* Walk finds the list that the links make.
LEMMA WalkIs ==
  ASSUME NEW f \in [Nodes -> Nodes \cup {Null}], NEW s \in Seq(Nodes), NEW n,
         n = IF s = <<>> THEN Null ELSE s[1],
         \A i \in 1 .. Len(s) : f[s[i]] = IF i = Len(s) THEN Null ELSE s[i + 1],
         \A i, j \in 1 .. Len(s) : s[i] = s[j] => i = j
  PROVE  Walk(f, n) = s
<1> DEFINE K == Cardinality(Nodes) + 1
           step == [m \in Nodes \cup {Null} |-> IF m = Null THEN Null ELSE f[m]]
           nth == CHOOSE nth : nth = [i \in 1 .. K |-> IF i = 1 THEN n ELSE step[nth[i - 1]]]
           g == [i \in 1 .. K |-> IF i <= Len(s) THEN s[i] ELSE Null]
<1>0. K \in Nat /\ Len(s) \in Nat /\ Len(s) + 1 <= K
  BY FewNodes
<1>1. \A i \in 1 .. Len(s) : s[i] \in Nodes /\ s[i] # Null
  BY ElementOfSeq, NodesAssumption DEF Null
<1>2. s = <<>> <=> Len(s) = 0
  BY EmptySeq
<1>3. g = [i \in 1 .. K |-> IF i = 1 THEN n ELSE step[g[i - 1]]]
  <2>1. ASSUME NEW i \in 1 .. K PROVE g[i] = IF i = 1 THEN n ELSE step[g[i - 1]]
    BY <1>0, <1>1, <1>2
  <2> HIDE DEF g
  <2> QED
    BY <2>1 DEF g
<1>4. nth = [i \in 1 .. K |-> IF i = 1 THEN n ELSE step[nth[i - 1]]]
  BY <1>3
<1> HIDE DEF nth, K
<1>5. \A i \in 1 .. K : nth[i] = g[i]
  <2> DEFINE Bad == {i \in 1 .. K : nth[i] # g[i]}
  <2> SUFFICES ASSUME Bad # {} PROVE FALSE
    OBVIOUS
  <2>0. Bad \in SUBSET Nat
    BY <1>0
  <2>1. PICK m \in Bad : \A k \in Bad : m <= k
    <3> HIDE DEF Bad
    <3> QED
      BY <2>0, LeastElement
  <2>2. m \in 1 .. K /\ nth[m] # g[m]
    OBVIOUS
  <2>3. nth[m] = (IF m = 1 THEN n ELSE step[nth[m - 1]]) /\ g[m] = IF m = 1 THEN n ELSE step[g[m - 1]]
    BY <1>3, <1>4, <2>2
  <2>4. m # 1 /\ m - 1 \in 1 .. K /\ nth[m - 1] # g[m - 1]
    BY <1>0, <2>2, <2>3
  <2> QED
    BY <1>0, <2>1, <2>4
<1>6. nth = g
  BY <1>4, <1>5
<1>7. {i \in DOMAIN nth : nth[i] # Null} = 1 .. Len(s)
  BY <1>0, <1>1, <1>6
<1>8. Cardinality({i \in DOMAIN nth : nth[i] # Null}) = Len(s)
  BY <1>0, <1>7, IntervalSize
<1>9. SubSeq(nth, 1, Len(s)) = s
  <2>1. \A i \in 1 .. Len(s) : nth[i] = s[i]
    BY <1>0, <1>6
  <2>2. /\ SubSeq(nth, 1, Len(s)) \in Seq(Nodes)
        /\ Len(SubSeq(nth, 1, Len(s))) = Len(s)
        /\ \A i \in 1 .. Len(s) : SubSeq(nth, 1, Len(s))[i] = s[i]
    <3>1. \A i \in 1 .. Len(s) : nth[i] \in Nodes
      BY <1>1, <2>1
    <3> QED
      BY <1>0, <2>1, <3>1, SubSeqProperties
  <2> QED
    BY <2>2, SeqEqual
<1> QED
  BY <1>8, <1>9 DEF Walk, nth, K

-----------------------------------------------------------------------------
(* Doubly linked lists. *)

\* The nodes of s, each once, are linked both ways between head h and tail b.
IsList(s, h, b, nx, pv) ==
  /\ h = IF s = <<>> THEN Null ELSE s[1]
  /\ b = IF s = <<>> THEN Null ELSE s[Len(s)]
  /\ \A i \in 1 .. Len(s) : /\ nx[s[i]] = IF i = Len(s) THEN Null ELSE s[i + 1]
                            /\ pv[s[i]] = IF i = 1 THEN Null ELSE s[i - 1]
  /\ \A i, j \in 1 .. Len(s) : s[i] = s[j] => i = j

Links == [Nodes -> Nodes \cup {Null}]

\* The elements of a list are nodes, and none is NULL.
LEMMA NodesOfList ==
  ASSUME NEW s \in Seq(Nodes)
  PROVE  /\ Len(s) \in Nat /\ DOMAIN s = 1 .. Len(s)
         /\ s = <<>> <=> Len(s) = 0
         /\ \A i \in 1 .. Len(s) : s[i] \in Nodes /\ s[i] # Null
         /\ \A n : n \in ToSet(s) <=> \E i \in 1 .. Len(s) : s[i] = n
BY LenProperties, EmptySeq, ElementOfSeq, NodesAssumption DEF ToSet, Null

\* The reverse of a list.
LEMMA ReverseIs ==
  ASSUME NEW s \in Seq(Nodes)
  PROVE  /\ Reverse(s) \in Seq(Nodes) /\ Len(Reverse(s)) = Len(s)
         /\ \A i \in 1 .. Len(s) : Reverse(s)[i] = s[(Len(s) - i) + 1]
<1>1. PICK k \in Nat : k = Len(s)
  BY NodesOfList
<1>2. \A i \in 1 .. k : s[(k - i) + 1] \in Nodes
  BY <1>1, NodesOfList
<1>3. Reverse(s) = [i \in 1 .. k |-> s[(k - i) + 1]]
  BY <1>1 DEF Reverse
<1>4. Reverse(s) \in Seq(Nodes) /\ Len(Reverse(s)) = k
  BY <1>2, <1>3
<1> QED
  BY <1>1, <1>3, <1>4

\* Walked from either end a list is what it is.
LEMMA WalkBoth ==
  ASSUME NEW s \in Seq(Nodes), NEW h, NEW b, NEW nx \in Links, NEW pv \in Links,
         IsList(s, h, b, nx, pv)
  PROVE  Walk(nx, h) = s /\ Walk(pv, b) = Reverse(s)
<1>1. Walk(nx, h) = s
  BY WalkIs DEF IsList, Links
<1>2. Walk(pv, b) = Reverse(s)
  <2> DEFINE r == Reverse(s)
  <2>1. r \in Seq(Nodes) /\ Len(r) = Len(s) /\ \A i \in 1 .. Len(s) : r[i] = s[(Len(s) - i) + 1]
    BY ReverseIs
  <2> HIDE DEF r
  <2>2. b = IF r = <<>> THEN Null ELSE r[1]
    BY <2>1, NodesOfList DEF IsList
  <2>3. \A i \in 1 .. Len(r) : pv[r[i]] = IF i = Len(r) THEN Null ELSE r[i + 1]
    <3>1. SUFFICES ASSUME NEW i \in 1 .. Len(r) PROVE pv[r[i]] = IF i = Len(r) THEN Null ELSE r[i + 1]
      OBVIOUS
    <3>2. PICK j \in 1 .. Len(s) : j = (Len(s) - i) + 1
      BY <2>1, NodesOfList
    <3>3. r[i] = s[j] /\ (i # Len(r) => r[i + 1] = s[j - 1])
      <4>1. r[i] = s[j]
        BY <2>1, <3>2
      <4>2. ASSUME i # Len(r) PROVE i + 1 \in 1 .. Len(s) /\ (Len(s) - (i + 1)) + 1 = j - 1
        BY <2>1, <3>2, <4>2, NodesOfList
      <4> QED
        BY <2>1, <4>1, <4>2
    <3>4. pv[s[j]] = IF j = 1 THEN Null ELSE s[j - 1]
      BY DEF IsList
    <3>5. j = 1 <=> i = Len(r)
      BY <2>1, <3>2, NodesOfList
    <3> QED
      BY <3>3, <3>4, <3>5
  <2>4. \A i, j \in 1 .. Len(r) : r[i] = r[j] => i = j
    <3>1. SUFFICES ASSUME NEW i \in 1 .. Len(r), NEW j \in 1 .. Len(r), r[i] = r[j] PROVE i = j
      OBVIOUS
    <3>2. (Len(s) - i) + 1 \in 1 .. Len(s) /\ (Len(s) - j) + 1 \in 1 .. Len(s)
      BY <2>1, NodesOfList
    <3>3. (Len(s) - i) + 1 = (Len(s) - j) + 1
      BY <2>1, <3>1, <3>2 DEF IsList
    <3> QED
      BY <2>1, <3>3, NodesOfList
  <2>5. Walk(pv, b) = r
    BY <2>1, <2>2, <2>3, <2>4, WalkIs DEF Links
  <2> QED
    BY <2>5 DEF r
<1> QED
  BY <1>1, <1>2

-----------------------------------------------------------------------------
(* A node more or less at any place. *)

\* s with n behind its first k elements.
SpliceIn(s, k, n) ==
  [i \in 1 .. Len(s) + 1 |-> IF i <= k THEN s[i] ELSE IF i = k + 1 THEN n ELSE s[i - 1]]

\* s without its k-th element.
SpliceOut(s, k) == [i \in 1 .. Len(s) - 1 |-> IF i < k THEN s[i] ELSE s[i + 1]]

\* What SpliceIn is.
LEMMA SpliceInIs ==
  ASSUME NEW S, NEW s \in Seq(S), NEW k \in 0 .. Len(s), NEW n \in S
  PROVE  SpliceIn(s, k, n) \in Seq(S) /\ Len(SpliceIn(s, k, n)) = Len(s) + 1
<1> DEFINE r == SpliceIn(s, k, n)
<1>1. Len(s) \in Nat /\ \A i \in 1 .. Len(s) : s[i] \in S
  BY LenProperties, ElementOfSeq
<1>2. \A i \in 1 .. Len(s) + 1 : r[i] = (IF i <= k THEN s[i] ELSE IF i = k + 1 THEN n ELSE s[i - 1]) /\ r[i] \in S
  BY <1>1 DEF SpliceIn
<1>3. r = [i \in 1 .. Len(s) + 1 |-> r[i]]
  BY DEF SpliceIn
<1> HIDE DEF r
<1>4. r \in Seq(S) /\ Len(r) = Len(s) + 1
  BY <1>1, <1>2, <1>3
<1> QED
  BY <1>4 DEF r

\* The same, part by part.
LEMMA SpliceInParts ==
  ASSUME NEW S, NEW s \in Seq(S), NEW k \in 0 .. Len(s), NEW n \in S
  PROVE  /\ SpliceIn(s, k, n) \in Seq(S) /\ Len(SpliceIn(s, k, n)) = Len(s) + 1
         /\ \A i \in 1 .. k : SpliceIn(s, k, n)[i] = s[i]
         /\ SpliceIn(s, k, n)[k + 1] = n
         /\ \A i \in k + 1 .. Len(s) : SpliceIn(s, k, n)[i + 1] = s[i]
<1> DEFINE r == SpliceIn(s, k, n)
<1>1. Len(s) \in Nat
  BY LenProperties
<1>2. \A i \in 1 .. Len(s) + 1 : r[i] = IF i <= k THEN s[i] ELSE IF i = k + 1 THEN n ELSE s[i - 1]
  BY DEF SpliceIn
<1>3. r \in Seq(S) /\ Len(r) = Len(s) + 1
  BY SpliceInIs
<1> HIDE DEF r
<1>4. ASSUME NEW i \in 1 .. k PROVE r[i] = s[i]
  BY <1>1, <1>2
<1>5. r[k + 1] = n
  BY <1>1, <1>2
<1>6. ASSUME NEW i \in k + 1 .. Len(s) PROVE r[i + 1] = s[i]
  <2>1. i + 1 \in 1 .. Len(s) + 1 /\ ~(i + 1 <= k) /\ i + 1 # k + 1 /\ (i + 1) - 1 = i
    BY <1>1
  <2> QED
    BY <1>2, <2>1
<1> QED
  BY <1>3, <1>4, <1>5, <1>6 DEF r

\* What SpliceOut is.
LEMMA SpliceOutIs ==
  ASSUME NEW S, NEW s \in Seq(S), NEW k \in 1 .. Len(s)
  PROVE  SpliceOut(s, k) \in Seq(S) /\ Len(SpliceOut(s, k)) = Len(s) - 1
<1> DEFINE r == SpliceOut(s, k)
<1>1. Len(s) \in Nat /\ \A i \in 1 .. Len(s) : s[i] \in S
  BY LenProperties, ElementOfSeq
<1>2. \A i \in 1 .. Len(s) - 1 : r[i] = (IF i < k THEN s[i] ELSE s[i + 1]) /\ r[i] \in S
  BY <1>1 DEF SpliceOut
<1>3. r = [i \in 1 .. Len(s) - 1 |-> r[i]]
  BY DEF SpliceOut
<1> HIDE DEF r
<1>4. r \in Seq(S) /\ Len(r) = Len(s) - 1
  BY <1>1, <1>2, <1>3
<1> QED
  BY <1>4 DEF r

\* Its elements are those of s and n.
LEMMA SpliceInSet ==
  ASSUME NEW S, NEW s \in Seq(S), NEW k \in 0 .. Len(s), NEW n \in S
  PROVE  ToSet(SpliceIn(s, k, n)) = ToSet(s) \cup {n}
<1> DEFINE r == SpliceIn(s, k, n)
<1>1. Len(s) \in Nat /\ Len(r) = Len(s) + 1 /\ DOMAIN r = 1 .. Len(s) + 1 /\ DOMAIN s = 1 .. Len(s)
  BY SpliceInIs, LenProperties
<1>2. \A i \in 1 .. Len(s) + 1 : r[i] = IF i <= k THEN s[i] ELSE IF i = k + 1 THEN n ELSE s[i - 1]
  BY DEF SpliceIn
<1> HIDE DEF r
<1>3. ASSUME NEW m \in ToSet(s) PROVE m \in ToSet(r)
  <2>1. PICK i \in 1 .. Len(s) : s[i] = m
    BY <1>1 DEF ToSet
  <2>2. CASE i <= k
    <3>1. i \in 1 .. Len(s) + 1 /\ r[i] = m
      BY <1>1, <1>2, <2>1, <2>2
    <3> QED
      BY <1>1, <3>1 DEF ToSet
  <2>3. CASE i > k
    <3>1. i + 1 \in 1 .. Len(s) + 1 /\ r[i + 1] = m
      BY <1>1, <1>2, <2>1, <2>3
    <3> QED
      BY <1>1, <3>1 DEF ToSet
  <2> QED
    BY <2>2, <2>3
<1>4. n \in ToSet(r)
  <2>1. k + 1 \in 1 .. Len(s) + 1 /\ r[k + 1] = n
    BY <1>1, <1>2
  <2> QED
    BY <1>1, <2>1 DEF ToSet
<1>5. ASSUME NEW m \in ToSet(r) PROVE m \in ToSet(s) \cup {n}
  <2>1. PICK i \in 1 .. Len(s) + 1 : r[i] = m
    BY <1>1, <1>5 DEF ToSet
  <2>2. m = n \/ \E j \in 1 .. Len(s) : s[j] = m
    <3>1. CASE i <= k
      <4>1. i \in 1 .. Len(s) /\ s[i] = m
        BY <1>1, <1>2, <2>1, <3>1
      <4> QED
        BY <4>1
    <3>2. CASE i > k + 1
      <4>1. i - 1 \in 1 .. Len(s) /\ s[i - 1] = m
        BY <1>1, <1>2, <2>1, <3>2
      <4> QED
        BY <4>1
    <3>3. CASE i = k + 1
      BY <1>1, <1>2, <2>1, <3>3
    <3> QED
      BY <1>1, <3>1, <3>2, <3>3
  <2> QED
    BY <1>1, <2>2 DEF ToSet
<1> QED
  BY <1>3, <1>4, <1>5 DEF r

\* Its elements are those of s but the one taken out, if none is there twice.
LEMMA SpliceOutSet ==
  ASSUME NEW S, NEW s \in Seq(S), NEW k \in 1 .. Len(s),
         \A i, j \in 1 .. Len(s) : s[i] = s[j] => i = j
  PROVE  ToSet(SpliceOut(s, k)) = ToSet(s) \ {s[k]}
<1> DEFINE r == SpliceOut(s, k)
<1>1. Len(s) \in Nat /\ Len(r) = Len(s) - 1 /\ DOMAIN r = 1 .. Len(s) - 1 /\ DOMAIN s = 1 .. Len(s)
  BY SpliceOutIs, LenProperties
<1>2. \A i \in 1 .. Len(s) - 1 : r[i] = IF i < k THEN s[i] ELSE s[i + 1]
  BY DEF SpliceOut
<1> HIDE DEF r
<1>3. ASSUME NEW m \in ToSet(s), m # s[k] PROVE m \in ToSet(r)
  <2>1. PICK i \in 1 .. Len(s) : s[i] = m
    BY <1>1 DEF ToSet
  <2>2. CASE i < k
    <3>1. i \in 1 .. Len(s) - 1 /\ r[i] = m
      BY <1>1, <1>2, <2>1, <2>2
    <3> QED
      BY <1>1, <3>1 DEF ToSet
  <2>3. CASE i > k
    <3>1. i - 1 \in 1 .. Len(s) - 1 /\ r[i - 1] = m
      BY <1>1, <1>2, <2>1, <2>3
    <3> QED
      BY <1>1, <3>1 DEF ToSet
  <2> QED
    BY <1>3, <2>1, <2>2, <2>3
<1>4. ASSUME NEW m \in ToSet(r) PROVE m \in ToSet(s) \ {s[k]}
  <2>1. PICK i \in 1 .. Len(s) - 1 : r[i] = m
    BY <1>1, <1>4 DEF ToSet
  <2>2. \E j \in 1 .. Len(s) : j # k /\ s[j] = m
    <3>1. CASE i < k
      <4>1. i \in 1 .. Len(s) /\ s[i] = m
        BY <1>1, <1>2, <2>1, <3>1
      <4> QED
        BY <3>1, <4>1
    <3>2. CASE i >= k
      <4>1. i + 1 \in 1 .. Len(s) /\ i + 1 # k /\ s[i + 1] = m
        BY <1>1, <1>2, <2>1, <3>2
      <4> QED
        BY <4>1
    <3> QED
      BY <1>1, <3>1, <3>2
  <2> QED
    BY <1>1, <2>2 DEF ToSet
<1> QED
  BY <1>3, <1>4 DEF r

\* A node is linked in between two neighbours, one of which may be missing.
LEMMA LinkIn ==
  ASSUME NEW s \in Seq(Nodes), NEW h, NEW b, NEW nx \in Links, NEW pv \in Links,
         IsList(s, h, b, nx, pv), NEW n \in Nodes, n \notin ToSet(s), NEW k \in 0 .. Len(s),
         NEW h2, NEW b2, NEW nx2 \in Links, NEW pv2 \in Links,
         h2 = IF k = 0 THEN n ELSE h,
         b2 = IF k = Len(s) THEN n ELSE b,
         nx2[n] = IF k = Len(s) THEN Null ELSE s[k + 1],
         pv2[n] = IF k = 0 THEN Null ELSE s[k],
         \A i \in 1 .. Len(s) : /\ nx2[s[i]] = IF i = k THEN n ELSE nx[s[i]]
                                /\ pv2[s[i]] = IF i = k + 1 THEN n ELSE pv[s[i]]
  PROVE  IsList(SpliceIn(s, k, n), h2, b2, nx2, pv2)
<1> DEFINE r == SpliceIn(s, k, n)
<1>1. Len(s) \in Nat /\ Len(r) = Len(s) + 1 /\ (s = <<>> <=> Len(s) = 0) /\ r # <<>>
  BY SpliceInIs, NodesOfList, EmptySeq
<1>2. \A i \in 1 .. Len(s) + 1 : r[i] = IF i <= k THEN s[i] ELSE IF i = k + 1 THEN n ELSE s[i - 1]
  BY DEF SpliceIn
<1> HIDE DEF r
<1>3. h2 = r[1]
  BY <1>1, <1>2 DEF IsList
<1>4. b2 = r[Len(r)]
  BY <1>1, <1>2 DEF IsList
<1>5. ASSUME NEW i \in 1 .. Len(r)
      PROVE  nx2[r[i]] = IF i = Len(r) THEN Null ELSE r[i + 1]
  <2>1. CASE i = k + 1
    BY <1>1, <1>2, <2>1
  <2>2. CASE i <= k
    <3>1. i \in 1 .. Len(s) /\ r[i] = s[i] /\ i # Len(r)
      BY <1>1, <1>2, <2>2
    <3>2. nx[s[i]] = IF i = Len(s) THEN Null ELSE s[i + 1]
      BY <3>1 DEF IsList
    <3> QED
      BY <1>1, <1>2, <2>2, <3>1, <3>2
  <2>3. CASE i > k + 1
    <3>1. PICK j \in 1 .. Len(s) : j = i - 1
      BY <1>1, <2>3
    <3>2. r[i] = s[j] /\ nx2[s[j]] = nx[s[j]]
      BY <1>1, <1>2, <2>3, <3>1
    <3>3. nx[s[j]] = IF j = Len(s) THEN Null ELSE s[j + 1]
      BY DEF IsList
    <3> QED
      BY <1>1, <1>2, <2>3, <3>1, <3>2, <3>3
  <2> QED
    BY <1>1, <2>1, <2>2, <2>3
<1>6. ASSUME NEW i \in 1 .. Len(r)
      PROVE  pv2[r[i]] = IF i = 1 THEN Null ELSE r[i - 1]
  <2>1. CASE i = k + 1
    BY <1>1, <1>2, <2>1
  <2>2. CASE i <= k
    <3>1. i \in 1 .. Len(s) /\ r[i] = s[i] /\ pv2[s[i]] = pv[s[i]]
      BY <1>1, <1>2, <2>2
    <3>2. pv[s[i]] = IF i = 1 THEN Null ELSE s[i - 1]
      BY <3>1 DEF IsList
    <3> QED
      BY <1>1, <1>2, <2>2, <3>1, <3>2
  <2>3. CASE i > k + 1
    <3>1. PICK j \in 1 .. Len(s) : j = i - 1
      BY <1>1, <2>3
    <3>2. r[i] = s[j] /\ pv2[s[j]] = IF j = k + 1 THEN n ELSE pv[s[j]]
      BY <1>1, <1>2, <2>3, <3>1
    <3>3. pv[s[j]] = IF j = 1 THEN Null ELSE s[j - 1]
      BY DEF IsList
    <3> QED
      BY <1>1, <1>2, <2>3, <3>1, <3>2, <3>3
  <2> QED
    BY <1>1, <2>1, <2>2, <2>3
<1>7. ASSUME NEW i \in 1 .. Len(r), NEW j \in 1 .. Len(r), r[i] = r[j] PROVE i = j
  <2>1. \A m \in 1 .. Len(s) : s[m] # n
    BY NodesOfList
  <2>2. \A l, m \in 1 .. Len(s) : s[l] = s[m] => l = m
    BY DEF IsList
  <2>3. i \in Int /\ j \in Int /\ k \in Int
    BY <1>1
  <2>4. /\ i <= k => i \in 1 .. Len(s) /\ r[i] = s[i]
        /\ i = k + 1 => r[i] = n
        /\ i > k + 1 => i - 1 \in 1 .. Len(s) /\ r[i] = s[i - 1]
    BY ONLY <1>1, <1>2, <2>3, <1>7, k \in 0 .. Len(s)
  <2>5. /\ j <= k => j \in 1 .. Len(s) /\ r[j] = s[j]
        /\ j = k + 1 => r[j] = n
        /\ j > k + 1 => j - 1 \in 1 .. Len(s) /\ r[j] = s[j - 1]
    BY ONLY <1>1, <1>2, <2>3, <1>7, k \in 0 .. Len(s)
  <2>6. CASE i = k + 1 \/ j = k + 1
    BY ONLY <1>7, <2>1, <2>3, <2>4, <2>5, <2>6
  <2>7. CASE i <= k
    BY ONLY <1>7, <2>2, <2>3, <2>4, <2>5, <2>6, <2>7
  <2>8. CASE i > k + 1
    BY ONLY <1>7, <2>2, <2>3, <2>4, <2>5, <2>6, <2>8
  <2> QED
    BY ONLY <2>3, <2>6, <2>7, <2>8
<1> QED
  BY <1>1, <1>3, <1>4, <1>5, <1>6, <1>7 DEF IsList, r

\* A node is taken out, and its neighbours are linked to each other.
LEMMA LinkOut ==
  ASSUME NEW s \in Seq(Nodes), NEW h, NEW b, NEW nx \in Links, NEW pv \in Links,
         IsList(s, h, b, nx, pv), NEW k \in 1 .. Len(s),
         NEW h2, NEW b2, NEW nx2 \in Links, NEW pv2 \in Links,
         h2 = IF k = 1 THEN nx[s[k]] ELSE h,
         b2 = IF k = Len(s) THEN pv[s[k]] ELSE b,
         \A i \in 1 .. Len(s) : i # k => /\ nx2[s[i]] = IF i = k - 1 THEN nx[s[k]] ELSE nx[s[i]]
                                         /\ pv2[s[i]] = IF i = k + 1 THEN pv[s[k]] ELSE pv[s[i]]
  PROVE  IsList(SpliceOut(s, k), h2, b2, nx2, pv2)
<1> DEFINE r == SpliceOut(s, k)
<1>1. Len(s) \in Nat /\ Len(r) = Len(s) - 1 /\ s # <<>> /\ (r = <<>> <=> Len(r) = 0)
  BY SpliceOutIs, NodesOfList, EmptySeq
<1>2. \A i \in 1 .. Len(s) - 1 : r[i] = IF i < k THEN s[i] ELSE s[i + 1]
  BY DEF SpliceOut
<1> HIDE DEF r
<1>3. /\ h = s[1] /\ b = s[Len(s)]
      /\ nx[s[k]] = IF k = Len(s) THEN Null ELSE s[k + 1]
      /\ pv[s[k]] = IF k = 1 THEN Null ELSE s[k - 1]
  BY <1>1 DEF IsList
<1>4. h2 = IF r = <<>> THEN Null ELSE r[1]
  BY <1>1, <1>2, <1>3
<1>5. b2 = IF r = <<>> THEN Null ELSE r[Len(r)]
  BY <1>1, <1>2, <1>3
<1>6. ASSUME NEW i \in 1 .. Len(r)
      PROVE  nx2[r[i]] = IF i = Len(r) THEN Null ELSE r[i + 1]
  <2>1. CASE i < k
    <3>1. i \in 1 .. Len(s) /\ r[i] = s[i] /\ i # k
      BY <1>1, <1>2, <2>1
    <3>2. nx[s[i]] = IF i = Len(s) THEN Null ELSE s[i + 1]
      BY <3>1 DEF IsList
    <3> QED
      BY <1>1, <1>2, <1>3, <2>1, <3>1, <3>2
  <2>2. CASE i >= k
    <3>1. PICK j \in 1 .. Len(s) : j = i + 1
      BY <1>1, <2>2
    <3>2. r[i] = s[j] /\ j # k /\ nx2[s[j]] = nx[s[j]]
      BY <1>1, <1>2, <2>2, <3>1
    <3>3. nx[s[j]] = IF j = Len(s) THEN Null ELSE s[j + 1]
      BY DEF IsList
    <3> QED
      BY <1>1, <1>2, <2>2, <3>1, <3>2, <3>3
  <2> QED
    BY <1>1, <2>1, <2>2
<1>7. ASSUME NEW i \in 1 .. Len(r)
      PROVE  pv2[r[i]] = IF i = 1 THEN Null ELSE r[i - 1]
  <2>1. CASE i < k
    <3>1. i \in 1 .. Len(s) /\ r[i] = s[i] /\ i # k
      BY <1>1, <1>2, <2>1
    <3>2. pv[s[i]] = IF i = 1 THEN Null ELSE s[i - 1]
      BY <3>1 DEF IsList
    <3> QED
      BY <1>1, <1>2, <2>1, <3>1, <3>2
  <2>2. CASE i >= k
    <3>1. PICK j \in 1 .. Len(s) : j = i + 1
      BY <1>1, <2>2
    <3>2. r[i] = s[j] /\ j # k /\ pv2[s[j]] = IF j = k + 1 THEN pv[s[k]] ELSE pv[s[j]]
      BY <1>1, <1>2, <2>2, <3>1
    <3>3. pv[s[j]] = IF j = 1 THEN Null ELSE s[j - 1]
      BY DEF IsList
    <3> QED
      BY <1>1, <1>2, <1>3, <2>2, <3>1, <3>2, <3>3
  <2> QED
    BY <1>1, <2>1, <2>2
<1>8. ASSUME NEW i \in 1 .. Len(r), NEW j \in 1 .. Len(r), r[i] = r[j] PROVE i = j
  <2>1. \A l, m \in 1 .. Len(s) : s[l] = s[m] => l = m
    BY DEF IsList
  <2> QED
    BY <1>1, <1>2, <1>8, <2>1
<1> QED
  BY <1>1, <1>4, <1>5, <1>6, <1>7, <1>8 DEF IsList, r

-----------------------------------------------------------------------------
(* The invariant. *)

\* The nodes of the list are those of s.
Holds(s) ==
  /\ s \in Seq(Nodes)
  /\ IsList(s, ends["head"], ends["tail"], link["head"], link["tail"])
  /\ ToSet(s) = allocated \ leaked
  /\ count = Len(s)

\* Unless its element was popped the iterator stands on one of the list.
IttrInv ==
  /\ ~stale /\ ittr # Null => ittr \in allocated \ leaked
  /\ remove_flag => ittr = Null /\ ~stale

ListInv == TypeOK /\ IttrInv /\ \E s : Holds(s)

\* What the invariant says of a list.
LEMMA HoldsFacts ==
  ASSUME TypeOK, NEW s, Holds(s)
  PROVE  /\ s \in Seq(Nodes) /\ Len(s) \in Nat /\ DOMAIN s = 1 .. Len(s) /\ (s = <<>> <=> Len(s) = 0)
         /\ \A i \in 1 .. Len(s) : s[i] \in Nodes /\ s[i] # Null /\ s[i] \in allocated \ leaked
         /\ \A n \in allocated \ leaked : \E i \in 1 .. Len(s) : s[i] = n
         /\ \A i, j \in 1 .. Len(s) : s[i] = s[j] => i = j
         /\ ends["head"] = IF s = <<>> THEN Null ELSE s[1]
         /\ ends["tail"] = IF s = <<>> THEN Null ELSE s[Len(s)]
         /\ \A i \in 1 .. Len(s) : /\ link["head"][s[i]] = IF i = Len(s) THEN Null ELSE s[i + 1]
                                   /\ link["tail"][s[i]] = IF i = 1 THEN Null ELSE s[i - 1]
         /\ link["head"] \in Links /\ link["tail"] \in Links
         /\ Ends = {"head", "tail"}
<1>1. s \in Seq(Nodes) /\ ToSet(s) = allocated \ leaked
  BY DEF Holds
<1>2. link["head"] \in Links /\ link["tail"] \in Links
  BY DEF TypeOK, Links, Ends
<1> QED
  BY <1>1, <1>2, NodesOfList DEF Holds, IsList, Ends

\* The node calloc returns is a free one.
LEMMA FreshIs ==
  ASSUME Nodes # allocated, allocated \subseteq Nodes
  PROVE  Fresh \in Nodes \ allocated
<1>1. PICK n \in Nodes \ allocated : \A m \in Nodes \ allocated : n <= m
  <2>1. Nodes \ allocated \in SUBSET Nat /\ Nodes \ allocated # {}
    BY NodesAssumption
  <2> QED
    BY <2>1, LeastElement
<1> QED
  BY <1>1 DEF Fresh

\* A node is linked in behind the first k of the list.
LEMMA AddNode ==
  ASSUME TypeOK, NEW s, Holds(s), NEW k \in 0 .. Len(s), NEW n \in Nodes \ allocated, NEW p, NEW q,
         p = IF k = 0 THEN Null ELSE s[k],
         q = IF k = Len(s) THEN Null ELSE s[k + 1],
         allocated' = allocated \cup {n}, count' = count + 1, leaked' = leaked,
         link'["head"] \in Links, link'["tail"] \in Links,
         link'["head"][n] = q, link'["tail"][n] = p,
         \A m \in Nodes \ {n} : /\ link'["head"][m] = IF m = p THEN n ELSE link["head"][m]
                                /\ link'["tail"][m] = IF m = q THEN n ELSE link["tail"][m],
         ends'["head"] = IF p = Null THEN n ELSE ends["head"],
         ends'["tail"] = IF q = Null THEN n ELSE ends["tail"]
  PROVE  Holds(SpliceIn(s, k, n))'
<1>1. PICK t : t = SpliceIn(s, k, n)
  OBVIOUS
<1>2. s \in Seq(Nodes) /\ Len(s) \in Nat /\ k \in 0 .. Len(s) /\ n \in Nodes
  BY HoldsFacts
<1>3. t \in Seq(Nodes) /\ Len(t) = Len(s) + 1
  BY <1>1, <1>2, SpliceInIs
<1>4. ToSet(t) = ToSet(s) \cup {n}
  BY <1>1, <1>2, SpliceInSet
<1>5. n \notin ToSet(s) /\ ToSet(t) = allocated' \ leaked'
  BY <1>4 DEF Holds, TypeOK
<1>6. p = Null <=> k = 0
  BY HoldsFacts
<1>7. q = Null <=> k = Len(s)
  BY HoldsFacts
<1>8. ASSUME NEW i \in 1 .. Len(s)
      PROVE  /\ link'["head"][s[i]] = IF i = k THEN n ELSE link["head"][s[i]]
             /\ link'["tail"][s[i]] = IF i = k + 1 THEN n ELSE link["tail"][s[i]]
  <2>1. s[i] \in Nodes \ {n} /\ s[i] # Null
    BY HoldsFacts
  <2>2. s[i] = p <=> i = k
    BY <2>1, HoldsFacts
  <2>3. s[i] = q <=> i = k + 1
    <3>1. CASE k = Len(s)
      BY <2>1, <3>1, <1>2
    <3>2. CASE k # Len(s)
      <4>1. PICK j \in 1 .. Len(s) : j = k + 1
        BY <1>2, <3>2
      <4>2. \A l, m \in 1 .. Len(s) : s[l] = s[m] => l = m
        BY HoldsFacts
      <4> QED
        BY <3>2, <4>1, <4>2
    <3> QED
      BY <3>1, <3>2
  <2> QED
    BY <2>1, <2>2, <2>3
<1>9. IsList(t, ends'["head"], ends'["tail"], link'["head"], link'["tail"])
  <2>1. IsList(s, ends["head"], ends["tail"], link["head"], link["tail"]) /\ link["head"] \in Links /\ link["tail"] \in Links
    BY HoldsFacts DEF Holds
  <2>2. PICK h2, b2, nx2, pv2 : h2 = ends'["head"] /\ b2 = ends'["tail"] /\ nx2 = link'["head"] /\ pv2 = link'["tail"]
    OBVIOUS
  <2>3. nx2 \in Links /\ pv2 \in Links
    BY <2>2
  <2>4. h2 = (IF k = 0 THEN n ELSE ends["head"]) /\ b2 = IF k = Len(s) THEN n ELSE ends["tail"]
    BY <1>6, <1>7, <2>2
  <2>5. nx2[n] = (IF k = Len(s) THEN Null ELSE s[k + 1]) /\ pv2[n] = IF k = 0 THEN Null ELSE s[k]
    BY <2>2
  <2>6. \A i \in 1 .. Len(s) : /\ nx2[s[i]] = IF i = k THEN n ELSE link["head"][s[i]]
                               /\ pv2[s[i]] = IF i = k + 1 THEN n ELSE link["tail"][s[i]]
    BY <1>8, <2>2
  <2>7. IsList(SpliceIn(s, k, n), h2, b2, nx2, pv2)
    BY <1>2, <1>5, <2>1, <2>3, <2>4, <2>5, <2>6, LinkIn
  <2> QED
    BY <1>1, <2>2, <2>7
<1>10. Holds(t)'
  BY <1>3, <1>5, <1>9 DEF Holds
<1> QED
  BY <1>1, <1>10

\* The k-th node of the list is unlinked.
LEMMA DropNode ==
  ASSUME TypeOK, NEW s, Holds(s), NEW k \in 1 .. Len(s), NEW n, NEW p, NEW q,
         n = s[k],
         p = IF k = 1 THEN Null ELSE s[k - 1],
         q = IF k = Len(s) THEN Null ELSE s[k + 1],
         allocated' = allocated \ {n}, count' = count - 1, leaked' = leaked,
         link'["head"] \in Links, link'["tail"] \in Links,
         \A m \in Nodes \ {n} : /\ link'["head"][m] = IF m = p THEN q ELSE link["head"][m]
                                /\ link'["tail"][m] = IF m = q THEN p ELSE link["tail"][m],
         ends'["head"] = IF p = Null THEN q ELSE ends["head"],
         ends'["tail"] = IF q = Null THEN p ELSE ends["tail"]
  PROVE  Holds(SpliceOut(s, k))'
<1>1. PICK t : t = SpliceOut(s, k)
  OBVIOUS
<1>2. s \in Seq(Nodes) /\ Len(s) \in Nat /\ \A i, j \in 1 .. Len(s) : s[i] = s[j] => i = j
  BY HoldsFacts
<1>3. t \in Seq(Nodes) /\ Len(t) = Len(s) - 1
  BY <1>1, <1>2, SpliceOutIs
<1>4. ToSet(t) = ToSet(s) \ {n}
  BY <1>1, <1>2, SpliceOutSet
<1>5. ToSet(t) = allocated' \ leaked'
  BY <1>4 DEF Holds, TypeOK
<1>6. p = Null <=> k = 1
  <2>1. k # 1 => k - 1 \in 1 .. Len(s)
    BY <1>2
  <2> QED
    BY <2>1, HoldsFacts
<1>7. q = Null <=> k = Len(s)
  <2>1. k # Len(s) => k + 1 \in 1 .. Len(s)
    BY <1>2
  <2> QED
    BY <2>1, HoldsFacts
<1>8. link["head"][n] = q /\ link["tail"][n] = p
  BY HoldsFacts
<1>9. ASSUME NEW i \in 1 .. Len(s), i # k
      PROVE  /\ link'["head"][s[i]] = IF i = k - 1 THEN q ELSE link["head"][s[i]]
             /\ link'["tail"][s[i]] = IF i = k + 1 THEN p ELSE link["tail"][s[i]]
  <2>1. s[i] \in Nodes \ {n} /\ s[i] # Null
    BY <1>2, <1>9, HoldsFacts
  <2>2. s[i] = p <=> i = k - 1
    <3>1. CASE k = 1
      BY <2>1, <3>1, <1>2
    <3>2. CASE k # 1
      <4>1. PICK j \in 1 .. Len(s) : j = k - 1
        BY <1>2, <3>2
      <4> QED
        BY <1>2, <3>2, <4>1
    <3> QED
      BY <3>1, <3>2
  <2>3. s[i] = q <=> i = k + 1
    <3>1. CASE k = Len(s)
      BY <2>1, <3>1, <1>2
    <3>2. CASE k # Len(s)
      <4>1. PICK j \in 1 .. Len(s) : j = k + 1
        BY <1>2, <3>2
      <4> QED
        BY <1>2, <3>2, <4>1
    <3> QED
      BY <3>1, <3>2
  <2> QED
    BY <2>1, <2>2, <2>3
<1>10. IsList(t, ends'["head"], ends'["tail"], link'["head"], link'["tail"])
  <2>1. IsList(s, ends["head"], ends["tail"], link["head"], link["tail"]) /\ link["head"] \in Links /\ link["tail"] \in Links
    BY HoldsFacts DEF Holds
  <2>2. PICK h2, b2, nx2, pv2 : h2 = ends'["head"] /\ b2 = ends'["tail"] /\ nx2 = link'["head"] /\ pv2 = link'["tail"]
    OBVIOUS
  <2>3. nx2 \in Links /\ pv2 \in Links
    BY <2>2
  <2>4. h2 = (IF k = 1 THEN link["head"][s[k]] ELSE ends["head"]) /\ b2 = IF k = Len(s) THEN link["tail"][s[k]] ELSE ends["tail"]
    BY <1>6, <1>7, <1>8, <2>2
  <2>5. \A i \in 1 .. Len(s) : i # k => /\ nx2[s[i]] = IF i = k - 1 THEN link["head"][s[k]] ELSE link["head"][s[i]]
                                        /\ pv2[s[i]] = IF i = k + 1 THEN link["tail"][s[k]] ELSE link["tail"][s[i]]
    BY <1>8, <1>9, <2>2
  <2>6. IsList(SpliceOut(s, k), h2, b2, nx2, pv2)
    BY <1>2, <2>1, <2>3, <2>4, <2>5, LinkOut
  <2> QED
    BY <1>1, <2>2, <2>6
<1>11. Holds(t)'
  BY <1>2, <1>3, <1>5, <1>10 DEF Holds
<1> QED
  BY <1>1, <1>11

\* A push puts a node at an end.
LEMMA PushIs ==
  ASSUME TypeOK, NEW s, Holds(s), NEW d \in Data, NEW e \in Ends, Push(d, e),
         NEW n, n = Fresh, NEW k \in 0 .. Len(s), e = "head" => k = 0, e = "tail" => k = Len(s)
  PROVE  n \in Nodes \ allocated /\ Holds(SpliceIn(s, k, n))'
<1>1. n \in Nodes \ allocated /\ n # Null
  BY FreshIs, NodesAssumption DEF Push, Calloc, TypeOK, Null
<1>2. k \in 0 .. Len(s) /\ Len(s) \in Nat
  BY HoldsFacts
<1>3. /\ allocated' = allocated \cup {n} /\ count' = count + 1 /\ leaked' = leaked
  BY DEF Push, Calloc
<1>4. ends \in [Ends -> Nodes \cup {Null}] /\ link \in [Ends -> [Nodes -> Nodes \cup {Null}]]
  BY DEF TypeOK
<1>5. PICK p, q : p = (IF k = 0 THEN Null ELSE s[k]) /\ q = IF k = Len(s) THEN Null ELSE s[k + 1]
  OBVIOUS
<1>6. CASE ends["head"] = Null
  <2>1. s = <<>> /\ Len(s) = 0 /\ k = 0 /\ p = Null /\ q = Null
    BY <1>2, <1>5, <1>6, HoldsFacts
  <2>2. ends'["head"] = n /\ ends'["tail"] = n
    BY <1>6 DEF Push, Ends
  <2>3. link'["head"] = [link["head"] EXCEPT ![n] = Null] /\ link'["tail"] = [link["tail"] EXCEPT ![n] = Null]
    BY <1>6 DEF Push, Ends
  <2>4. /\ link'["head"] \in Links /\ link'["tail"] \in Links /\ link'["head"][n] = q /\ link'["tail"][n] = p
        /\ \A m \in Nodes \ {n} : link'["head"][m] = link["head"][m] /\ link'["tail"][m] = link["tail"][m] /\ m # Null
    BY <1>1, <1>4, <2>1, <2>3, NodesAssumption DEF Ends, Links, Null
  <2> QED
    BY <1>1, <1>2, <1>3, <1>5, <2>1, <2>2, <2>4, AddNode
<1>7. CASE ends["head"] # Null /\ e = "head"
  <2>1. s # <<>> /\ Len(s) \in Nat \ {0} /\ k = 0 /\ p = Null /\ q = s[1]
    BY <1>2, <1>5, <1>7, HoldsFacts
  <2>2. q \in Nodes /\ q = ends["head"] /\ q # Null /\ q # n
    BY <1>1, <2>1, HoldsFacts
  <2>3. ends'["head"] = n /\ ends'["tail"] = ends["tail"]
    BY <1>4, <1>7 DEF Push, Ends
  <2>4. /\ link'["head"] = [link["head"] EXCEPT ![n] = q]
        /\ link'["tail"] = [link["tail"] EXCEPT ![n] = Null, ![q] = n]
    BY <1>4, <1>7, <2>2 DEF Push, Ends, Other
  <2>5. /\ link'["head"] \in Links /\ link'["tail"] \in Links /\ link'["head"][n] = q /\ link'["tail"][n] = p
        /\ \A m \in Nodes \ {n} : /\ link'["head"][m] = link["head"][m] /\ m # Null
                                  /\ link'["tail"][m] = IF m = q THEN n ELSE link["tail"][m]
    <3>1. p = Null /\ Null \notin Nodes
      BY <2>1, NodesAssumption DEF Null
    <3> QED
      BY <1>1, <1>4, <2>2, <2>4, <3>1 DEF Ends, Links
  <2>6. /\ ends'["head"] = IF p = Null THEN n ELSE ends["head"]
        /\ ends'["tail"] = IF q = Null THEN n ELSE ends["tail"]
    BY <2>1, <2>2, <2>3
  <2>7. \A m \in Nodes \ {n} : /\ link'["head"][m] = IF m = p THEN n ELSE link["head"][m]
                              /\ link'["tail"][m] = IF m = q THEN n ELSE link["tail"][m]
    BY <2>1, <2>5
  <2> QED
    BY <1>1, <1>3, <1>5, <2>5, <2>6, <2>7, AddNode
<1>8. CASE ends["head"] # Null /\ e = "tail"
  <2>1. s # <<>> /\ Len(s) \in Nat \ {0} /\ k = Len(s) /\ q = Null /\ p = s[k]
    BY <1>2, <1>5, <1>8, HoldsFacts
  <2>2. p \in Nodes /\ p = ends["tail"] /\ p # Null /\ p # n
    BY <1>1, <2>1, HoldsFacts
  <2>3. ends'["tail"] = n /\ ends'["head"] = ends["head"]
    BY <1>4, <1>8 DEF Push, Ends
  <2>4. /\ link'["tail"] = [link["tail"] EXCEPT ![n] = p]
        /\ link'["head"] = [link["head"] EXCEPT ![n] = Null, ![p] = n]
    BY <1>4, <1>8, <2>2 DEF Push, Ends, Other
  <2>5. /\ link'["head"] \in Links /\ link'["tail"] \in Links /\ link'["head"][n] = q /\ link'["tail"][n] = p
        /\ \A m \in Nodes \ {n} : /\ link'["tail"][m] = link["tail"][m] /\ m # Null
                                  /\ link'["head"][m] = IF m = p THEN n ELSE link["head"][m]
    <3>1. q = Null /\ Null \notin Nodes
      BY <2>1, NodesAssumption DEF Null
    <3> QED
      BY <1>1, <1>4, <2>2, <2>4, <3>1 DEF Ends, Links
  <2>6. /\ ends'["head"] = IF p = Null THEN n ELSE ends["head"]
        /\ ends'["tail"] = IF q = Null THEN n ELSE ends["tail"]
    BY <2>1, <2>2, <2>3
  <2>7. \A m \in Nodes \ {n} : /\ link'["head"][m] = IF m = p THEN n ELSE link["head"][m]
                              /\ link'["tail"][m] = IF m = q THEN n ELSE link["tail"][m]
    BY <2>1, <2>5
  <2> QED
    BY <1>1, <1>3, <1>5, <2>5, <2>6, <2>7, AddNode
<1> QED
  BY <1>6, <1>7, <1>8 DEF Ends

\* A pop takes the node at an end.
LEMMA PopIs ==
  ASSUME TypeOK, NEW s, Holds(s), NEW e \in Ends, Pop(e), s # <<>>,
         NEW k \in 1 .. Len(s), e = "head" => k = 1, e = "tail" => k = Len(s)
  PROVE  s[k] = ends[e] /\ Holds(SpliceOut(s, k))'
<1>1. PICK n : n = s[k]
  OBVIOUS
<1>2. Len(s) \in Nat \ {0} /\ k \in 1 .. Len(s) /\ n = ends[e] /\ n \in Nodes /\ n # Null
  BY <1>1, HoldsFacts
<1>3. link \in [Ends -> [Nodes -> Nodes \cup {Null}]] /\ ends \in [Ends -> Nodes \cup {Null}]
  BY DEF TypeOK
<1>4. Unlink(e) /\ allocated' = allocated \ {n} /\ count' = count - 1 /\ leaked' = leaked
  BY <1>2 DEF Pop, Unlink, Free
<1>5. PICK p, q : p = (IF k = 1 THEN Null ELSE s[k - 1]) /\ q = IF k = Len(s) THEN Null ELSE s[k + 1]
  OBVIOUS
<1>6. CASE e = "head"
  <2>1. k = 1 /\ p = Null /\ link["head"][n] = q
    <3>1. k = 1 /\ p = Null
      BY <1>5, <1>6
    <3> QED
      BY <1>1, <1>5, <3>1, HoldsFacts
  <2>2. q \in Nodes \cup {Null} /\ (q = Null => ends["tail"] = n)
    <3>1. q \in Nodes \cup {Null}
      BY <1>2, <1>3, <2>1 DEF Ends
    <3>2. q = Null => k = Len(s)
      <4>1. k # Len(s) => k + 1 \in 1 .. Len(s)
        BY <1>2
      <4> QED
        BY <1>5, <4>1, HoldsFacts
    <3> QED
      BY <1>1, <1>2, <3>1, <3>2, HoldsFacts
  <2>3. ends'["head"] = q /\ ends'["tail"] = IF q = Null THEN Null ELSE ends["tail"]
    BY <1>2, <1>3, <1>4, <1>6, <2>1 DEF Unlink, Ends
  <2>4. /\ link'["head"] = [link["head"] EXCEPT ![n] = Null]
        /\ link'["tail"] = [(IF q = Null THEN link["tail"] ELSE [link["tail"] EXCEPT ![q] = Null]) EXCEPT ![n] = Null]
    BY <1>2, <1>3, <1>4, <1>6, <2>1 DEF Unlink, Free, Ends, Other
  <2>5. /\ link'["head"] \in Links /\ link'["tail"] \in Links
        /\ \A m \in Nodes \ {n} : /\ link'["head"][m] = link["head"][m] /\ m # Null
                                  /\ link'["tail"][m] = IF m = q THEN p ELSE link["tail"][m]
    BY <1>2, <1>3, <2>1, <2>2, <2>4, NodesAssumption DEF Ends, Links, Null
  <2>6. /\ ends'["head"] = IF p = Null THEN q ELSE ends["head"]
        /\ ends'["tail"] = IF q = Null THEN p ELSE ends["tail"]
    BY <1>2, <2>1, <2>2, <2>3
  <2>7. \A m \in Nodes \ {n} : /\ link'["head"][m] = IF m = p THEN q ELSE link["head"][m]
                              /\ link'["tail"][m] = IF m = q THEN p ELSE link["tail"][m]
    BY <2>1, <2>5
  <2>8. Holds(SpliceOut(s, k))'
    BY <1>1, <1>4, <1>5, <2>5, <2>6, <2>7, DropNode
  <2> QED
    BY <1>1, <1>2, <2>8
<1>7. CASE e = "tail"
  <2>1. k = Len(s) /\ q = Null /\ link["tail"][n] = p
    BY <1>1, <1>2, <1>5, <1>7, HoldsFacts
  <2>2. p \in Nodes \cup {Null} /\ (p = Null => ends["head"] = n)
    <3>1. p \in Nodes \cup {Null}
      BY <1>2, <1>3, <2>1 DEF Ends
    <3>2. p = Null => k = 1
      <4>1. k # 1 => k - 1 \in 1 .. Len(s)
        BY <1>2
      <4> QED
        BY <1>5, <4>1, HoldsFacts
    <3> QED
      BY <1>1, <1>2, <3>1, <3>2, HoldsFacts
  <2>3. ends'["tail"] = p /\ ends'["head"] = IF p = Null THEN Null ELSE ends["head"]
    BY <1>2, <1>3, <1>4, <1>7, <2>1 DEF Unlink, Ends
  <2>4. /\ link'["tail"] = [link["tail"] EXCEPT ![n] = Null]
        /\ link'["head"] = [(IF p = Null THEN link["head"] ELSE [link["head"] EXCEPT ![p] = Null]) EXCEPT ![n] = Null]
    BY <1>2, <1>3, <1>4, <1>7, <2>1 DEF Unlink, Free, Ends, Other
  <2>5. /\ link'["head"] \in Links /\ link'["tail"] \in Links
        /\ \A m \in Nodes \ {n} : /\ link'["tail"][m] = link["tail"][m] /\ m # Null
                                  /\ link'["head"][m] = IF m = p THEN q ELSE link["head"][m]
    BY <1>2, <1>3, <2>1, <2>2, <2>4, NodesAssumption DEF Ends, Links, Null
  <2>6. /\ ends'["head"] = IF p = Null THEN q ELSE ends["head"]
        /\ ends'["tail"] = IF q = Null THEN p ELSE ends["tail"]
    BY <1>2, <2>1, <2>2, <2>3
  <2>7. \A m \in Nodes \ {n} : /\ link'["head"][m] = IF m = p THEN q ELSE link["head"][m]
                              /\ link'["tail"][m] = IF m = q THEN p ELSE link["tail"][m]
    BY <2>1, <2>5
  <2>8. Holds(SpliceOut(s, k))'
    BY <1>1, <1>4, <1>5, <2>5, <2>6, <2>7, DropNode
  <2> QED
    BY <1>1, <1>2, <2>8
<1> QED
  BY <1>2, <1>1, <1>6, <1>7 DEF Ends

\* An insertion puts a node next to it.
LEMMA InsertIs ==
  ASSUME TypeOK, NEW s, Holds(s), NEW d \in Data, NEW e \in Ends, Insert(d, e), ittr # Null,
         NEW n, n = Fresh, NEW i \in 1 .. Len(s), s[i] = ittr,
         NEW k \in 0 .. Len(s), e = "head" => k = i, e = "tail" => k = i - 1
  PROVE  n \in Nodes \ allocated /\ Holds(SpliceIn(s, k, n))'
<1>1. n \in Nodes \ allocated /\ n # Null /\ Null \notin Nodes
  BY FreshIs, NodesAssumption DEF Insert, Calloc, TypeOK, Null
<1>2. /\ allocated' = allocated \cup {n} /\ count' = count + 1 /\ leaked' = leaked
  BY DEF Insert, Calloc
<1>3. ends \in [Ends -> Nodes \cup {Null}] /\ link \in [Ends -> [Nodes -> Nodes \cup {Null}]]
  BY DEF TypeOK
<1>4. PICK p, q : p = (IF k = 0 THEN Null ELSE s[k]) /\ q = IF k = Len(s) THEN Null ELSE s[k + 1]
  OBVIOUS
<1>5. Len(s) \in Nat /\ ittr \in Nodes /\ ittr # n
  BY <1>1, HoldsFacts
<1>6. CASE e = "head"
  <2>1. p = ittr /\ q = link["head"][ittr] /\ q \in Nodes \cup {Null} /\ q # n
    <3>1. k = i /\ p = ittr
      BY <1>4, <1>6
    <3>2. q = link["head"][ittr]
      BY <1>4, <3>1, HoldsFacts
    <3>3. k # Len(s) => k + 1 \in 1 .. Len(s)
      BY <1>5
    <3> QED
      BY <1>1, <1>4, <3>1, <3>2, <3>3, HoldsFacts
  <2>2. /\ link'["head"] = [link["head"] EXCEPT ![n] = q, ![ittr] = n]
        /\ link'["tail"] = IF q = Null THEN [link["tail"] EXCEPT ![n] = ittr]
                                       ELSE [link["tail"] EXCEPT ![n] = ittr, ![q] = n]
    BY <1>3, <1>6, <2>1 DEF Insert, Ends, Other
  <2>3. ends' = IF q = Null THEN [ends EXCEPT !["tail"] = n] ELSE ends
    BY <1>6, <2>1 DEF Insert, Other
  <2>4. /\ link'["head"] \in Links /\ link'["tail"] \in Links /\ link'["head"][n] = q /\ link'["tail"][n] = p
        /\ \A m \in Nodes \ {n} : /\ link'["head"][m] = IF m = p THEN n ELSE link["head"][m]
                                  /\ link'["tail"][m] = IF m = q THEN n ELSE link["tail"][m]
    BY <1>1, <1>3, <1>5, <2>1, <2>2 DEF Ends, Links
  <2>5. /\ ends'["head"] = IF p = Null THEN n ELSE ends["head"]
        /\ ends'["tail"] = IF q = Null THEN n ELSE ends["tail"]
    BY <1>3, <2>1, <2>3 DEF Ends
  <2> QED
    BY <1>1, <1>2, <1>4, <2>4, <2>5, AddNode
<1>7. CASE e = "tail"
  <2>1. q = ittr /\ p = link["tail"][ittr] /\ p \in Nodes \cup {Null} /\ p # n
    <3>1. k = i - 1 /\ k # Len(s) /\ k + 1 = i
      BY <1>5, <1>7
    <3>2. q = ittr
      BY <1>4, <3>1
    <3>3. p = link["tail"][ittr]
      <4>1. k = 0 <=> i = 1
        BY <3>1
      <4> QED
        BY <1>4, <3>1, <4>1, HoldsFacts
    <3>4. k # 0 => k \in 1 .. Len(s)
      BY <1>5
    <3> QED
      BY <1>1, <1>4, <3>2, <3>3, <3>4, HoldsFacts
  <2>2. /\ link'["tail"] = [link["tail"] EXCEPT ![n] = p, ![ittr] = n]
        /\ link'["head"] = IF p = Null THEN [link["head"] EXCEPT ![n] = ittr]
                                       ELSE [link["head"] EXCEPT ![n] = ittr, ![p] = n]
    BY <1>3, <1>7, <2>1 DEF Insert, Ends, Other
  <2>3. ends' = IF p = Null THEN [ends EXCEPT !["head"] = n] ELSE ends
    BY <1>7, <2>1 DEF Insert, Other
  <2>4. /\ link'["head"] \in Links /\ link'["tail"] \in Links /\ link'["head"][n] = q /\ link'["tail"][n] = p
        /\ \A m \in Nodes \ {n} : /\ link'["head"][m] = IF m = p THEN n ELSE link["head"][m]
                                  /\ link'["tail"][m] = IF m = q THEN n ELSE link["tail"][m]
    BY <1>1, <1>3, <1>5, <2>1, <2>2 DEF Ends, Links
  <2>5. /\ ends'["head"] = IF p = Null THEN n ELSE ends["head"]
        /\ ends'["tail"] = IF q = Null THEN n ELSE ends["tail"]
    BY <1>3, <2>1, <2>3 DEF Ends
  <2> QED
    BY <1>1, <1>2, <1>4, <2>4, <2>5, AddNode
<1> QED
  BY <1>6, <1>7 DEF Ends

\* A removal takes out the node the iterator stands on.
LEMMA RemoveIs ==
  ASSUME TypeOK, NEW s, Holds(s), RemoveCurrent, ittr # Null,
         NEW i \in 1 .. Len(s), s[i] = ittr
  PROVE  Holds(SpliceOut(s, i))'
<1>1. PICK n : n = ittr
  OBVIOUS
<1>2. Len(s) \in Nat /\ n \in Nodes /\ n # Null /\ Null \notin Nodes /\ n = s[i]
  BY <1>1, HoldsFacts, NodesAssumption DEF Null
<1>3. allocated' = allocated \ {n} /\ count' = count - 1 /\ leaked' = leaked
  BY <1>1 DEF RemoveCurrent, Free
<1>4. ends \in [Ends -> Nodes \cup {Null}] /\ link \in [Ends -> [Nodes -> Nodes \cup {Null}]]
  BY DEF TypeOK
<1>5. PICK p, q : p = (IF i = 1 THEN Null ELSE s[i - 1]) /\ q = IF i = Len(s) THEN Null ELSE s[i + 1]
  OBVIOUS
<1>6. link["head"][n] = q /\ link["tail"][n] = p /\ p \in Nodes \cup {Null} /\ q \in Nodes \cup {Null}
  <2>1. link["head"][n] = q /\ link["tail"][n] = p
    BY <1>2, <1>5, HoldsFacts
  <2> QED
    BY <1>2, <1>4, <2>1 DEF Ends
<1>7. /\ link'["head"] = [m \in Nodes |-> IF m = n THEN Null ELSE IF m = p THEN q ELSE link["head"][m]]
      /\ link'["tail"] = [m \in Nodes |-> IF m = n THEN Null ELSE IF m = q THEN p ELSE link["tail"][m]]
  <2>1. link' = [e \in Ends |-> [[m \in Nodes |-> IF m = link[Other(e)][n] THEN link[e][n] ELSE link[e][m]]
                                    EXCEPT ![n] = Null]]
    BY <1>1 DEF RemoveCurrent, Free
  <2>2. /\ link'["head"] = [[m \in Nodes |-> IF m = p THEN q ELSE link["head"][m]] EXCEPT ![n] = Null]
        /\ link'["tail"] = [[m \in Nodes |-> IF m = q THEN p ELSE link["tail"][m]] EXCEPT ![n] = Null]
    BY <1>6, <2>1 DEF Ends, Other
  <2> QED
    BY <1>2, <2>2
<1>8. /\ ends'["head"] = IF p = Null THEN q ELSE ends["head"]
      /\ ends'["tail"] = IF q = Null THEN p ELSE ends["tail"]
  BY <1>1, <1>2, <1>6 DEF RemoveCurrent, Ends, Other
<1>9. /\ link'["head"] \in Links /\ link'["tail"] \in Links
      /\ \A m \in Nodes \ {n} : /\ link'["head"][m] = IF m = p THEN q ELSE link["head"][m]
                                /\ link'["tail"][m] = IF m = q THEN p ELSE link["tail"][m]
  BY <1>2, <1>4, <1>6, <1>7 DEF Ends, Links
<1> QED
  BY <1>2, <1>3, <1>5, <1>8, <1>9, DropNode

-----------------------------------------------------------------------------
(* Every operation keeps the invariant. *)

\* The neighbours of a node of the list are others of it.
LEMMA Neighbours ==
  ASSUME TypeOK, NEW s, Holds(s), NEW i \in 1 .. Len(s), NEW e \in Ends
  PROVE  /\ link[e][s[i]] \in (allocated \ leaked) \cup {Null}
         /\ link[e][s[i]] # s[i]
<1>1. Len(s) \in Nat /\ s[i] # Null
  BY HoldsFacts
<1>2. CASE e = "head"
  <2>1. CASE i = Len(s)
    BY <1>1, <1>2, <2>1, HoldsFacts
  <2>2. CASE i # Len(s)
    <3>1. PICK j \in 1 .. Len(s) : j = i + 1
      BY <1>1, <2>2
    <3>2. link[e][s[i]] = s[j] /\ j # i
      BY <1>2, <2>2, <3>1, HoldsFacts
    <3> QED
      BY <3>2, HoldsFacts
  <2> QED
    BY <2>1, <2>2
<1>3. CASE e = "tail"
  <2>1. CASE i = 1
    BY <1>1, <1>3, <2>1, HoldsFacts
  <2>2. CASE i # 1
    <3>1. PICK j \in 1 .. Len(s) : j = i - 1
      BY <1>1, <2>2
    <3>2. link[e][s[i]] = s[j] /\ j # i
      BY <1>3, <2>2, <3>1, HoldsFacts
    <3> QED
      BY <3>2, HoldsFacts
  <2> QED
    BY <2>1, <2>2
<1> QED
  BY <1>2, <1>3 DEF Ends

\* The ends of the list are nodes of it.
LEMMA EndsAre ==
  ASSUME TypeOK, NEW s, Holds(s), NEW e \in Ends
  PROVE  /\ ends[e] \in (allocated \ leaked) \cup {Null}
         /\ ends[e] = Null <=> s = <<>>
<1>1. CASE s = <<>>
  BY <1>1, HoldsFacts DEF Ends
<1>2. CASE s # <<>>
  <2>1. 1 \in 1 .. Len(s) /\ Len(s) \in 1 .. Len(s)
    BY <1>2, HoldsFacts
  <2>2. ends[e] = s[1] \/ ends[e] = s[Len(s)]
    BY <1>2, HoldsFacts DEF Ends
  <2> QED
    BY <1>2, <2>1, <2>2, HoldsFacts
<1> QED
  BY <1>1, <1>2

\* The number of nodes of a list is in its bounds.
LEMMA LengthBounds ==
  ASSUME NEW s \in Seq(Nodes), NEW h, NEW b, NEW nx, NEW pv, IsList(s, h, b, nx, pv)
  PROVE  Len(s) \in 0 .. Cardinality(Nodes)
<1>1. \A i, j \in 1 .. Len(s) : s[i] = s[j] => i = j
  BY DEF IsList
<1> QED
  BY <1>1, FewNodes

\* The first list is empty.
LEMMA InitHolds ==
  ASSUME Init
  PROVE  ListInv
<1>1. Holds(<<>>)
  <2>1. <<>> \in Seq(Nodes) /\ Len(<<>>) = 0 /\ ToSet(<<>>) = {}
    BY DEF ToSet
  <2> QED
    BY <2>1 DEF Init, Holds, IsList, Ends
<1>3. count \in 0 .. Cardinality(Nodes)
  BY <1>1, LengthBounds DEF Holds
<1>2. TypeOK
  BY <1>1, <1>3 DEF Init, TypeOK, Ends
<1> QED
  BY <1>1, <1>2 DEF ListInv, IttrInv, Init

\* Push.
LEMMA PushHolds ==
  ASSUME ListInv, NEW d \in Data, NEW e \in Ends, Push(d, e)
  PROVE  ListInv'
<1>1. PICK s : Holds(s)
  BY DEF ListInv
<1>2. PICK k \in 0 .. Len(s) : (e = "head" => k = 0) /\ (e = "tail" => k = Len(s))
  <2>1. 0 \in 0 .. Len(s) /\ Len(s) \in 0 .. Len(s)
    BY <1>1, HoldsFacts DEF ListInv
  <2> QED
    BY <2>1 DEF Ends
<1>3. PICK n, t : n = Fresh /\ t = SpliceIn(s, k, n)
  OBVIOUS
<1>4. Holds(t)' /\ n \in Nodes \ allocated
  BY <1>1, <1>2, <1>3, PushIs DEF ListInv
<1>5. count' \in 0 .. Cardinality(Nodes)
  BY <1>4, LengthBounds DEF Holds
<1>6. TypeOK'
  BY <1>3, <1>4, <1>5 DEF ListInv, TypeOK, Push, Calloc, ittr_state, Ends, Other
<1>7. IttrInv'
  BY <1>3, <1>4 DEF ListInv, IttrInv, TypeOK, Push, Calloc, ittr_state
<1> QED
  BY <1>4, <1>6, <1>7 DEF ListInv

\* Pop: the iterator is given up when it stood on the node.
LEMMA PopHolds ==
  ASSUME ListInv, NEW e \in Ends, Pop(e)
  PROVE  ListInv'
<1>1. PICK s : Holds(s)
  BY DEF ListInv
<1>2. CASE s = <<>>
  <2>1. ends[e] = Null
    BY <1>1, <1>2, EndsAre DEF ListInv
  <2>2. UNCHANGED <<list_state, ittr_state, leaked>> /\ ret' = Null
    BY <2>1 DEF Pop, ittr_state
  <2>3. Holds(s)'
    BY <1>1, <2>2 DEF Holds, list_state
  <2> QED
    BY <2>2, <2>3 DEF ListInv, TypeOK, IttrInv, list_state, ittr_state
<1>3. CASE s # <<>>
  <2>1. PICK k \in 1 .. Len(s) : (e = "head" => k = 1) /\ (e = "tail" => k = Len(s))
    <3>1. 1 \in 1 .. Len(s) /\ Len(s) \in 1 .. Len(s)
      BY <1>1, <1>3, HoldsFacts DEF ListInv
    <3> QED
      BY <3>1 DEF Ends
  <2>2. PICK t, n : t = SpliceOut(s, k) /\ n = s[k]
    OBVIOUS
  <2>3. Holds(t)' /\ n = ends[e]
    BY <1>1, <1>3, <2>1, <2>2, PopIs DEF ListInv
  <2>4. n \in allocated \ leaked /\ n \in Nodes /\ n # Null
    BY <1>1, <2>2, HoldsFacts DEF ListInv
  <2>5. count' \in 0 .. Cardinality(Nodes)
    BY <2>3, LengthBounds DEF Holds
  <2>6. /\ Unlink(e) /\ ret' = data[n] /\ stale' = (stale \/ ittr = n)
        /\ UNCHANGED <<ittr, ittr_dir, remove_flag, leaked>>
    BY <2>3, <2>4 DEF Pop
  <2>7. allocated' = allocated \ {n} /\ data' = [data EXCEPT ![n] = Null]
    BY <2>3, <2>6 DEF Unlink, Free
  <2>8. ends' \in [Ends -> Nodes \cup {Null}] /\ link' \in [Ends -> [Nodes -> Nodes \cup {Null}]]
    BY <2>3, <2>4, <2>6 DEF Unlink, Free, ListInv, TypeOK, Ends, Other
  <2>9. TypeOK'
    BY <2>4, <2>5, <2>6, <2>7, <2>8 DEF ListInv, TypeOK
  <2>10. IttrInv'
    BY <2>4, <2>6, <2>7 DEF ListInv, IttrInv, TypeOK
  <2> QED
    BY <2>3, <2>9, <2>10 DEF ListInv
<1> QED
  BY <1>2, <1>3

\* The iterator starts at an end.
LEMMA IttrStartHolds ==
  ASSUME ListInv, NEW e \in Ends, IttrStart(e)
  PROVE  ListInv'
<1>1. PICK s : Holds(s)
  BY DEF ListInv
<1>2. Holds(s)'
  BY <1>1 DEF Holds, IttrStart, list_state
<1>3. ends[e] \in (allocated \ leaked) \cup {Null}
  BY <1>1, EndsAre DEF ListInv
<1>4. TypeOK' /\ IttrInv'
  BY <1>3 DEF ListInv, TypeOK, IttrInv, IttrStart, MoveTo, list_state
<1> QED
  BY <1>2, <1>4 DEF ListInv

\* The iterator moves on.
LEMMA IttrNextHolds ==
  ASSUME ListInv, IttrNext
  PROVE  ListInv'
<1>1. PICK s : Holds(s)
  BY DEF ListInv
<1>2. Holds(s)'
  BY <1>1 DEF Holds, IttrNext, list_state
<1>3. PICK n : n = IF remove_flag THEN ends[ittr_dir] ELSE IF ittr = Null THEN Null ELSE link[ittr_dir][ittr]
  OBVIOUS
<1>4. n \in (allocated \ leaked) \cup {Null}
  <2>1. CASE remove_flag
    BY <1>1, <1>3, <2>1, EndsAre DEF ListInv, TypeOK
  <2>2. CASE ~remove_flag /\ ittr # Null
    <3>1. PICK i \in 1 .. Len(s) : s[i] = ittr
      BY <1>1, <2>2, HoldsFacts DEF ListInv, IttrInv, IttrNext
    <3> QED
      BY <1>1, <1>3, <2>2, <3>1, Neighbours DEF ListInv, TypeOK
  <2>3. CASE ~remove_flag /\ ittr = Null
    BY <1>3, <2>3
  <2> QED
    BY <2>1, <2>2, <2>3
<1>5. ittr' = n /\ (ret' = IF n = Null THEN Null ELSE data[n]) /\ remove_flag' = FALSE /\ UNCHANGED <<list_state, ittr_dir, stale, leaked>>
  BY <1>3 DEF IttrNext, MoveTo
<1>6. TypeOK' /\ IttrInv'
  BY <1>4, <1>5 DEF ListInv, TypeOK, IttrInv, list_state
<1> QED
  BY <1>2, <1>6 DEF ListInv

\* A node is inserted at the iterator.
LEMMA InsertHolds ==
  ASSUME ListInv, NEW d \in Data, NEW e \in Ends, Insert(d, e)
  PROVE  ListInv'
<1>1. PICK s : Holds(s)
  BY DEF ListInv
<1>2. CASE ittr = Null
  <2>1. UNCHANGED vars
    BY <1>2 DEF Insert, vars
  <2>2. Holds(s)'
    BY <1>1, <2>1 DEF Holds, vars, list_state
  <2> QED
    BY <2>1, <2>2 DEF ListInv, TypeOK, IttrInv, vars, list_state, ittr_state
<1>3. CASE ittr # Null
  <2>1. PICK i \in 1 .. Len(s) : s[i] = ittr
    BY <1>1, <1>3, HoldsFacts DEF ListInv, IttrInv, Insert
  <2>2. PICK k \in 0 .. Len(s) : (e = "head" => k = i) /\ (e = "tail" => k = i - 1)
    <3>1. i \in 0 .. Len(s) /\ i - 1 \in 0 .. Len(s)
      BY <1>1, HoldsFacts DEF ListInv
    <3> QED
      BY <3>1 DEF Ends
  <2>3. PICK n, t : n = Fresh /\ t = SpliceIn(s, k, n)
    OBVIOUS
  <2>4. Holds(t)' /\ n \in Nodes \ allocated
    BY <1>1, <1>3, <2>1, <2>2, <2>3, InsertIs DEF ListInv
  <2>5. count' \in 0 .. Cardinality(Nodes)
    BY <2>4, LengthBounds DEF Holds
  <2>6. link[e][ittr] \in Nodes \cup {Null} /\ ittr \in Nodes
    BY <1>3 DEF ListInv, TypeOK
  <2>7. ends' \in [Ends -> Nodes \cup {Null}] /\ link' \in [Ends -> [Nodes -> Nodes \cup {Null}]]
    <3>1. PICK o \in Ends : o = Other(e)
      BY DEF Ends, Other
    <3>2. PICK beyond \in Nodes \cup {Null} : beyond = link[e][ittr]
      BY <2>6
    <3>3. PICK linked : linked = [link EXCEPT ![e][n] = beyond, ![o][n] = ittr, ![e][ittr] = n]
      OBVIOUS
    <3>4. linked \in [Ends -> [Nodes -> Nodes \cup {Null}]]
      BY <2>4, <2>6, <3>3 DEF ListInv, TypeOK
    <3>5. IF beyond = Null
            THEN link' = linked /\ ends' = [ends EXCEPT ![o] = n]
            ELSE link' = [linked EXCEPT ![o][beyond] = n] /\ UNCHANGED ends
      BY <1>3, <2>3, <3>1, <3>2, <3>3 DEF Insert
    <3>6. ends \in [Ends -> Nodes \cup {Null}] /\ n \in Nodes
      BY <2>4 DEF ListInv, TypeOK
    <3>7. CASE beyond = Null
      BY <3>4, <3>5, <3>6, <3>7
    <3>8. CASE beyond # Null
      <4>1. beyond \in Nodes
        BY <3>8
      <4>2. link' = [linked EXCEPT ![o][beyond] = n] /\ ends' = ends
        BY <3>5, <3>8
      <4>3. [linked[o] EXCEPT ![beyond] = n] \in [Nodes -> Nodes \cup {Null}]
        BY <3>4, <3>6, <4>1
      <4>4. link' = [linked EXCEPT ![o] = [linked[o] EXCEPT ![beyond] = n]]
        BY <4>2
      <4>5. link' \in [Ends -> [Nodes -> Nodes \cup {Null}]]
        BY <3>4, <4>3, <4>4
      <4> QED
        BY <3>6, <4>2, <4>5
    <3> QED
      BY <3>7, <3>8
  <2>8. TypeOK'
    BY <1>3, <2>3, <2>4, <2>5, <2>7 DEF ListInv, TypeOK, Insert, Calloc, ittr_state
  <2>9. IttrInv'
    BY <1>3 DEF ListInv, IttrInv, Insert, Calloc, ittr_state
  <2> QED
    BY <2>4, <2>8, <2>9 DEF ListInv
<1> QED
  BY <1>2, <1>3

\* The node under the iterator is removed.
LEMMA RemoveHolds ==
  ASSUME ListInv, RemoveCurrent
  PROVE  ListInv'
<1>1. PICK s : Holds(s)
  BY DEF ListInv
<1>2. CASE ittr = Null
  <2>1. UNCHANGED <<list_state, ittr_state, leaked>> /\ ret' = Null
    BY <1>2 DEF RemoveCurrent, ittr_state
  <2>2. Holds(s)'
    BY <1>1, <2>1 DEF Holds, list_state
  <2> QED
    BY <2>1, <2>2 DEF ListInv, TypeOK, IttrInv, list_state, ittr_state
<1>3. CASE ittr # Null
  <2>1. PICK i \in 1 .. Len(s) : s[i] = ittr
    BY <1>1, <1>3, HoldsFacts DEF ListInv, IttrInv, RemoveCurrent
  <2>2. PICK t, n : t = SpliceOut(s, i) /\ n = ittr
    OBVIOUS
  <2>3. Holds(t)'
    BY <1>1, <1>3, <2>1, <2>2, RemoveIs DEF ListInv
  <2>4. n \in allocated \ leaked /\ n \in Nodes /\ n # Null
    BY <1>1, <2>1, <2>2, HoldsFacts DEF ListInv
  <2>5. count' \in 0 .. Cardinality(Nodes)
    BY <2>3, LengthBounds DEF Holds
  <2>6. PICK o \in Ends : o = Other(ittr_dir)
    BY DEF Ends, Other
  <2>7. link[o][n] \in ((allocated \ leaked) \cup {Null}) \ {n}
    BY <1>1, <2>1, <2>2, Neighbours DEF ListInv
  <2>8. /\ allocated' = allocated \ {n} /\ data' = [data EXCEPT ![n] = Null] /\ ret' = data[n]
        /\ ittr' = link[o][n] /\ remove_flag' = (ittr' = Null) /\ UNCHANGED <<ittr_dir, stale, leaked>> /\ ~stale
    BY <1>3, <2>2, <2>6 DEF RemoveCurrent, Free
  <2>9. ends' \in [Ends -> Nodes \cup {Null}]
    <3>1. \A f \in Ends : link[f][n] \in Nodes \cup {Null} /\ ends[f] \in Nodes \cup {Null}
      BY <2>4 DEF ListInv, TypeOK
    <3> QED
      BY <1>3, <2>2, <3>1 DEF RemoveCurrent
  <2>10. link' \in [Ends -> [Nodes -> Nodes \cup {Null}]]
    <3>1. link' = [f \in Ends |-> [[m \in Nodes |-> IF m = link[Other(f)][n] THEN link[f][n] ELSE link[f][m]] EXCEPT ![n] = Null]]
      BY <1>3, <2>2 DEF RemoveCurrent, Free
    <3>2. \A f \in Ends : link[f] \in [Nodes -> Nodes \cup {Null}]
      BY DEF ListInv, TypeOK
    <3> QED
      BY <2>4, <3>1, <3>2
  <2>11. TypeOK'
    BY <2>4, <2>5, <2>7, <2>8, <2>9, <2>10 DEF ListInv, TypeOK
  <2>12. IttrInv'
    BY <2>7, <2>8 DEF ListInv, IttrInv
  <2> QED
    BY <2>3, <2>11, <2>12 DEF ListInv
<1> QED
  BY <1>2, <1>3

\* From the head the list is what it is, and Popped is a part of it.
LEMMA FromIs ==
  ASSUME TypeOK, NEW s, Holds(s)
  PROVE  /\ From("head") = s /\ From("tail") = Reverse(s)
         /\ Popped \subseteq allocated \ leaked
<1>1. From("head") = s /\ From("tail") = Reverse(s)
  <2>1. s \in Seq(Nodes) /\ link["head"] \in Links /\ link["tail"] \in Links
    BY HoldsFacts
  <2> QED
    BY <2>1, WalkBoth DEF From, Holds
<1>2. Popped \subseteq allocated \ leaked
  BY <1>1, HoldsFacts DEF Popped
<1> QED
  BY <1>1, <1>2

\* The list is destroyed, and the next one is empty.
LEMMA DestroyHolds ==
  ASSUME ListInv, Destroy
  PROVE  Holds(<<>>)' /\ ListInv'
<1>1. PICK s : Holds(s)
  BY DEF ListInv
<1>2. ToSet(From("head")) = allocated \ leaked /\ Popped \subseteq allocated \ leaked
  BY <1>1, FromIs DEF ListInv, Holds
<1>3. allocated' \ leaked' = {}
  BY <1>2 DEF Destroy
<1>4. Holds(<<>>)'
  <2>1. <<>> \in Seq(Nodes) /\ Len(<<>>) = 0 /\ ToSet(<<>>) = {}
    BY DEF ToSet
  <2> QED
    BY <1>3, <2>1 DEF Destroy, Holds, IsList, Ends
<1>5. count' \in 0 .. Cardinality(Nodes)
  BY <1>4, LengthBounds DEF Holds
<1>6. TypeOK'
  BY <1>2, <1>5 DEF ListInv, TypeOK, Destroy, Ends
<1> QED
  BY <1>4, <1>6 DEF ListInv, IttrInv, Destroy

\* The invariant is one.
THEOREM ListInvariant == Spec => []ListInv
<1>1. ListInv /\ [Next]_vars => ListInv'
  <2> SUFFICES ASSUME ListInv, [Next]_vars PROVE ListInv'
    OBVIOUS
  <2>1. CASE Destroy
    BY <2>1, DestroyHolds
  <2>2. ASSUME NEW d \in Data, NEW e \in Ends, Push(d, e) PROVE ListInv'
    BY <2>2, PushHolds
  <2>3. ASSUME NEW e \in Ends, Pop(e) PROVE ListInv'
    BY <2>3, PopHolds
  <2>4. ASSUME NEW e \in Ends, IttrStart(e) PROVE ListInv'
    BY <2>4, IttrStartHolds
  <2>5. ASSUME NEW d \in Data, InsertAfter(d) \/ InsertBefore(d) PROVE ListInv'
    <3>1. ittr_dir \in Ends /\ Other(ittr_dir) \in Ends
      BY DEF ListInv, TypeOK, Ends, Other
    <3>2. PICK e \in Ends : Insert(d, e)
      BY <2>5, <3>1 DEF InsertAfter, InsertBefore
    <3> QED
      BY <3>2, InsertHolds
  <2>6. CASE IttrNext
    BY <2>6, IttrNextHolds
  <2>7. CASE RemoveCurrent
    BY <2>7, RemoveHolds
  <2>8. CASE UNCHANGED vars
    <3>1. PICK s : Holds(s)
      BY DEF ListInv
    <3>2. Holds(s)'
      BY <2>8, <3>1 DEF Holds, vars, list_state
    <3> QED
      BY <2>8, <3>2 DEF ListInv, TypeOK, IttrInv, vars, list_state, ittr_state
  <2> QED
    BY <2>1, <2>2, <2>3, <2>4, <2>5, <2>6, <2>7, <2>8 DEF Next
<1> QED
  BY <1>1, InitHolds, PTL DEF Spec

\* The list is the same from both ends, and its nodes are those that were not freed.
THEOREM SameBothWays == Spec => []TwoWay
<1>1. ListInv => TwoWay
  <2> SUFFICES ASSUME ListInv PROVE TwoWay
    OBVIOUS
  <2>1. PICK s : Holds(s)
    BY DEF ListInv
  <2>2. From("head") = s /\ From("tail") = Reverse(s)
    BY <2>1, FromIs DEF ListInv
  <2> QED
    BY <2>1, <2>2 DEF ListInv, TwoWay, Holds
<1> QED
  BY <1>1, ListInvariant, PTL

-----------------------------------------------------------------------------
(* The list is the sequence with an iterator. *)

\* Splices are the insertions and removals of sequences.
LEMMA SpliceInSeq ==
  ASSUME NEW S, NEW s \in Seq(S), NEW k \in 0 .. Len(s), NEW v \in S
  PROVE  /\ SpliceIn(s, k, v) = InsertAt(s, k + 1, v)
         /\ k = 0 => SpliceIn(s, k, v) = <<v>> \o s
         /\ k = Len(s) => SpliceIn(s, k, v) = Append(s, v)
<1>1. Len(s) \in Nat /\ \A i \in 1 .. Len(s) : s[i] \in S
  BY LenProperties, ElementOfSeq
<1> DEFINE r == SpliceIn(s, k, v)
<1>2. /\ r \in Seq(S) /\ Len(r) = Len(s) + 1
      /\ \A i \in 1 .. k : r[i] = s[i]
      /\ r[k + 1] = v
      /\ \A i \in k + 1 .. Len(s) : r[i + 1] = s[i]
  <2>1. r \in Seq(S) /\ Len(r) = Len(s) + 1
    BY SpliceInParts
  <2>2. \A i \in 1 .. k : r[i] = s[i]
    BY SpliceInParts
  <2>3. r[k + 1] = v
    BY SpliceInParts
  <2>4. \A i \in k + 1 .. Len(s) : r[i + 1] = s[i]
    BY SpliceInParts
  <2> QED
    BY <2>1, <2>2, <2>3, <2>4
<1> HIDE DEF r
<1>3. ASSUME NEW i \in 1 .. Len(s) + 1 PROVE r[i] = IF i <= k THEN s[i] ELSE IF i = k + 1 THEN v ELSE s[i - 1]
  <2>1. CASE i <= k
    BY <1>2, <2>1
  <2>2. CASE i = k + 1
    BY <1>2, <2>2
  <2>3. CASE i > k + 1
    <3>1. PICK j \in k + 1 .. Len(s) : j = i - 1 /\ j + 1 = i
      BY <1>1, <2>3
    <3>2. r[i] = s[j]
      BY <1>2, <3>1
    <3> QED
      BY <2>3, <3>1, <3>2
  <2> QED
    BY <1>1, <2>1, <2>2, <2>3
<1>4. r = InsertAt(s, k + 1, v)
  <2>1. PICK a, b, c : a = SubSeq(s, 1, (k + 1) - 1) /\ b = <<v>> /\ c = SubSeq(s, k + 1, Len(s))
    OBVIOUS
  <2>2. a \in Seq(S) /\ Len(a) = k /\ \A i \in 1 .. k : a[i] = s[i]
    BY <1>1, <2>1, SubSeqProperties
  <2>3. b \in Seq(S) /\ Len(b) = 1 /\ b[1] = v
    BY <2>1
  <2>4. c \in Seq(S) /\ Len(c) = Len(s) - k /\ \A i \in 1 .. Len(s) - k : c[i] = s[k + i]
    BY <1>1, <2>1, SubSeqProperties
  <2>5. PICK ab : ab = a \o b
    OBVIOUS
  <2>6. ab \in Seq(S) /\ Len(ab) = k + 1 /\ \A i \in 1 .. k + 1 : ab[i] = IF i <= k THEN s[i] ELSE v
    <3>1. /\ ab \in Seq(S) /\ Len(ab) = Len(a) + Len(b)
          /\ \A i \in 1 .. Len(a) + Len(b) : ab[i] = IF i <= Len(a) THEN a[i] ELSE b[i - Len(a)]
      BY <2>2, <2>3, <2>5, ConcatProperties
    <3>2. ASSUME NEW i \in 1 .. k + 1 PROVE ab[i] = IF i <= k THEN s[i] ELSE v
      <4>1. CASE i <= k
        BY <2>2, <2>3, <3>1, <4>1
      <4>2. CASE i = k + 1
        <5>1. ab[i] = b[i - k] /\ i - k = 1
          BY <2>2, <2>3, <3>1, <4>2
        <5> QED
          BY <2>3, <4>2, <5>1
      <4> QED
        BY <4>1, <4>2
    <3> QED
      BY <2>2, <2>3, <3>1, <3>2
  <2>7. PICK abc : abc = ab \o c
    OBVIOUS
  <2>8. /\ abc \in Seq(S) /\ Len(abc) = Len(s) + 1
        /\ \A i \in 1 .. Len(s) + 1 : abc[i] = IF i <= k + 1 THEN ab[i] ELSE c[i - (k + 1)]
    <3>1. /\ abc \in Seq(S) /\ Len(abc) = Len(ab) + Len(c)
          /\ \A i \in 1 .. Len(ab) + Len(c) : abc[i] = IF i <= Len(ab) THEN ab[i] ELSE c[i - Len(ab)]
      BY <2>4, <2>6, <2>7, ConcatProperties
    <3>2. Len(ab) + Len(c) = Len(s) + 1
      BY <1>1, <2>4, <2>6
    <3> QED
      BY <2>6, <3>1, <3>2
  <2>9. ASSUME NEW i \in 1 .. Len(s) + 1 PROVE r[i] = abc[i]
    <3>1. CASE i <= k + 1
      <4>1. i \in 1 .. k + 1 /\ abc[i] = ab[i]
        BY <1>1, <2>8, <3>1
      <4>2. ab[i] = IF i <= k THEN s[i] ELSE v
        BY <2>6, <4>1
      <4> QED
        BY <1>3, <3>1, <4>1, <4>2
    <3>2. CASE i > k + 1
      <4>1. PICK j \in 1 .. Len(s) - k : j = i - (k + 1)
        BY <1>1, <3>2
      <4>2. abc[i] = c[j]
        BY <1>1, <2>8, <3>2, <4>1
      <4>3. c[j] = s[k + j] /\ k + j = i - 1
        BY <1>1, <2>4, <4>1
      <4> QED
        BY <1>1, <1>3, <3>2, <4>2, <4>3
    <3> QED
      BY <1>1, <3>1, <3>2
  <2>10. r = abc
    BY <1>2, <2>8, <2>9, SeqEqual
  <2> QED
    BY <2>1, <2>5, <2>7, <2>10 DEF InsertAt
<1>5. ASSUME k = 0 PROVE r = <<v>> \o s
  <2>1. PICK a : a = <<v>> \o s
    OBVIOUS
  <2>2. <<v>> \in Seq(S) /\ Len(<<v>>) = 1
    OBVIOUS
  <2>3. a \in Seq(S) /\ Len(a) = Len(s) + 1 /\ \A i \in 1 .. Len(s) + 1 : a[i] = IF i <= 1 THEN v ELSE s[i - 1]
    BY <1>1, <2>1, <2>2, ConcatProperties
  <2>4. \A i \in 1 .. Len(s) + 1 : r[i] = a[i]
    BY <1>1, <1>3, <1>5, <2>3
  <2> QED
    BY <1>2, <2>1, <2>3, <2>4, SeqEqual
<1>6. ASSUME k = Len(s) PROVE r = Append(s, v)
  <2>1. PICK a : a = Append(s, v)
    OBVIOUS
  <2>2. a \in Seq(S) /\ Len(a) = Len(s) + 1 /\ \A i \in 1 .. Len(s) + 1 : a[i] = IF i <= Len(s) THEN s[i] ELSE v
    BY <1>1, <2>1, AppendProperties
  <2>3. \A i \in 1 .. Len(s) + 1 : r[i] = a[i]
    BY <1>1, <1>3, <1>6, <2>2
  <2> QED
    BY <1>2, <2>1, <2>2, <2>3, SeqEqual
<1> QED
  BY <1>4, <1>5, <1>6 DEF r

LEMMA SpliceOutSeq ==
  ASSUME NEW S, NEW s \in Seq(S), NEW k \in 1 .. Len(s)
  PROVE  SpliceOut(s, k) = RemoveAt(s, k)
<1>1. Len(s) \in Nat /\ \A i \in 1 .. Len(s) : s[i] \in S
  BY LenProperties, ElementOfSeq
<1>2. PICK r : r = SpliceOut(s, k)
  OBVIOUS
<1>3. /\ r \in Seq(S) /\ Len(r) = Len(s) - 1
      /\ \A i \in 1 .. Len(s) - 1 : r[i] = IF i < k THEN s[i] ELSE s[i + 1]
  <2>1. r \in Seq(S) /\ Len(r) = Len(s) - 1
    BY <1>2, SpliceOutIs
  <2>2. \A i \in 1 .. Len(s) - 1 : r[i] = IF i < k THEN s[i] ELSE s[i + 1]
    BY <1>2 DEF SpliceOut
  <2> QED
    BY <2>1, <2>2
<1>4. PICK a, c : a = SubSeq(s, 1, k - 1) /\ c = SubSeq(s, k + 1, Len(s))
  OBVIOUS
<1>5. a \in Seq(S) /\ Len(a) = k - 1 /\ \A i \in 1 .. k - 1 : a[i] = s[i]
  BY <1>1, <1>4, SubSeqProperties
<1>6. c \in Seq(S) /\ Len(c) = Len(s) - k /\ \A i \in 1 .. Len(s) - k : c[i] = s[k + i]
  BY <1>1, <1>4, SubSeqProperties
<1>7. PICK ac : ac = a \o c
  OBVIOUS
<1>8. /\ ac \in Seq(S) /\ Len(ac) = Len(s) - 1
      /\ \A i \in 1 .. Len(s) - 1 : ac[i] = IF i <= k - 1 THEN a[i] ELSE c[i - (k - 1)]
  <2>1. /\ ac \in Seq(S) /\ Len(ac) = Len(a) + Len(c)
        /\ \A i \in 1 .. Len(a) + Len(c) : ac[i] = IF i <= Len(a) THEN a[i] ELSE c[i - Len(a)]
    BY <1>5, <1>6, <1>7, ConcatProperties
  <2>2. Len(a) + Len(c) = Len(s) - 1
    BY <1>1, <1>5, <1>6
  <2> QED
    BY <1>5, <2>1, <2>2
<1>9. ASSUME NEW i \in 1 .. Len(s) - 1 PROVE r[i] = ac[i]
  <2>1. CASE i < k
    BY <1>1, <1>3, <1>5, <1>8, <2>1
  <2>2. CASE i >= k
    <3>1. PICK j \in 1 .. Len(s) - k : j = i - (k - 1)
      BY <1>1, <2>2
    <3>2. ac[i] = c[j]
      <4>1. ~(i <= k - 1)
        BY <1>1, <2>2
      <4>2. ac[i] = c[i - (k - 1)]
        BY <1>8, <4>1
      <4> QED
        BY <3>1, <4>2
    <3>3. c[j] = s[k + j] /\ k + j = i + 1
      BY <1>1, <1>6, <3>1
    <3> QED
      BY <1>1, <1>3, <2>2, <3>2, <3>3
  <2> QED
    BY <1>1, <2>1, <2>2
<1>10. r = ac
  BY <1>3, <1>8, <1>9, SeqEqual
<1> QED
  BY <1>2, <1>4, <1>7, <1>10 DEF RemoveAt

\* The data of the nodes of s, and the place of the i-th of them for the iterator.
ItemsOf(s) == [i \in 1 .. Len(s) |-> data[s[i]]]
PlaceAt(s, i) == IF ittr_dir = "head" THEN i ELSE (Len(s) + 1) - i

\* What the abstract list is, in terms of s.
Maps(s) ==
  /\ Items = ItemsOf(s)
  /\ stale \/ ittr = Null => IttrPlace = IF stale THEN -2 ELSE IF remove_flag THEN 0 ELSE -1
  /\ \A i \in 1 .. Len(s) : ~stale /\ s[i] = ittr => IttrPlace = PlaceAt(s, i)

LEMMA MapsAlways == \A s : ListInv /\ Holds(s) => Maps(s)
<1> SUFFICES ASSUME NEW s, ListInv, Holds(s) PROVE Maps(s)
  OBVIOUS
<1>1. From("head") = s /\ From("tail") = Reverse(s) /\ DOMAIN s = 1 .. Len(s)
  BY FromIs, HoldsFacts DEF ListInv
<1>2. Items = ItemsOf(s)
  BY <1>1 DEF Items, ItemsOf
<1>3. ASSUME stale \/ ittr = Null PROVE IttrPlace = IF stale THEN -2 ELSE IF remove_flag THEN 0 ELSE -1
  BY <1>3 DEF IttrPlace
<1>4. ASSUME NEW i \in 1 .. Len(s), ~stale, s[i] = ittr PROVE IttrPlace = PlaceAt(s, i)
  <2>1. ittr # Null /\ ~remove_flag
    BY <1>4, HoldsFacts DEF ListInv, IttrInv
  <2>2. PICK f : f = From(ittr_dir)
    OBVIOUS
  <2>3. IttrPlace = CHOOSE j \in DOMAIN f : f[j] = ittr
    BY <1>4, <2>1, <2>2 DEF IttrPlace
  <2>4. PICK k : k = PlaceAt(s, i)
    OBVIOUS
  <2>5. Len(s) \in Nat /\ \A j, m \in 1 .. Len(s) : s[j] = s[m] => j = m
    BY HoldsFacts DEF ListInv
  <2>6. k \in DOMAIN f /\ f[k] = ittr /\ \A j \in DOMAIN f : f[j] = ittr => j = k
    <3>1. CASE ittr_dir = "head"
      BY <1>1, <1>4, <2>2, <2>4, <2>5, <3>1 DEF PlaceAt
    <3>2. CASE ittr_dir = "tail"
      <4>1. s \in Seq(Nodes)
        BY HoldsFacts DEF ListInv
      <4>2. f \in Seq(Nodes) /\ Len(f) = Len(s) /\ \A j \in 1 .. Len(s) : f[j] = s[(Len(s) - j) + 1]
        BY <1>1, <2>2, <3>2, <4>1, ReverseIs
      <4>3. k = (Len(s) + 1) - i /\ k \in 1 .. Len(s) /\ (Len(s) - k) + 1 = i
        BY <2>4, <2>5, <3>2 DEF PlaceAt
      <4>4. DOMAIN f = 1 .. Len(s) /\ f[k] = ittr
        BY <1>4, <4>2, <4>3, LenProperties
      <4>5. ASSUME NEW j \in 1 .. Len(s), f[j] = ittr PROVE j = k
        <5>1. (Len(s) - j) + 1 \in 1 .. Len(s) /\ s[(Len(s) - j) + 1] = s[i]
          BY <1>4, <2>5, <4>2, <4>5
        <5>2. (Len(s) - j) + 1 = i
          BY <2>5, <5>1
        <5> QED
          BY <2>5, <4>3, <5>2
      <4> QED
        BY <4>3, <4>4, <4>5
    <3> QED
      BY <3>1, <3>2 DEF ListInv, TypeOK, Ends
  <2>7. (CHOOSE j \in DOMAIN f : f[j] = ittr) = k
    BY <2>6
  <2> QED
    BY <2>3, <2>4, <2>7
<1> QED
  BY <1>2, <1>3, <1>4 DEF Maps

\* What the abstract list is before a step.
LEMMA MapsFacts ==
  ASSUME ListInv, NEW s, Holds(s)
  PROVE  /\ Items = ItemsOf(s) /\ Items \in Seq(Data \cup {Null}) /\ Len(Items) = Len(s)
         /\ \A i \in 1 .. Len(s) : Items[i] = data[s[i]]
         /\ Items = <<>> <=> s = <<>>
         /\ stale => IttrPlace = -2
         /\ ~stale /\ ittr = Null => IttrPlace = IF remove_flag THEN 0 ELSE -1
         /\ \A i \in 1 .. Len(s) : ~stale /\ s[i] = ittr =>
              /\ IttrPlace = PlaceAt(s, i) /\ IttrPlace \in 1 .. Len(s)
              /\ PlaceAt(s, IttrPlace) = i
<1>1. Maps(s)
  BY MapsAlways
<1>2. Len(s) \in Nat /\ \A i \in 1 .. Len(s) : s[i] \in Nodes
  BY HoldsFacts DEF ListInv
<1>3. Items \in Seq(Data \cup {Null}) /\ Len(Items) = Len(s) /\ \A i \in 1 .. Len(s) : Items[i] = data[s[i]]
  <2>1. \A i \in 1 .. Len(s) : data[s[i]] \in Data \cup {Null}
    BY <1>2 DEF ListInv, TypeOK
  <2>2. Items = [i \in 1 .. Len(s) |-> data[s[i]]]
    BY <1>1 DEF Maps, ItemsOf
  <2> QED
    BY <1>2, <2>1, <2>2
<1>4. Items = <<>> <=> s = <<>>
  BY <1>3, EmptySeq, HoldsFacts DEF ListInv
<1>5. ASSUME NEW i \in 1 .. Len(s), ~stale, s[i] = ittr
      PROVE  IttrPlace = PlaceAt(s, i) /\ IttrPlace \in 1 .. Len(s) /\ PlaceAt(s, IttrPlace) = i
  <2>1. IttrPlace = PlaceAt(s, i)
    BY <1>1, <1>5 DEF Maps
  <2> QED
    BY <1>2, <2>1 DEF PlaceAt
<1> QED
  BY <1>1, <1>3, <1>4, <1>5 DEF Maps

\* A node more is an element more, and the others stay what they are.
LEMMA ItemsIn ==
  ASSUME ListInv, NEW s, Holds(s), NEW k \in 0 .. Len(s), NEW n \in Nodes, n \notin allocated, NEW d \in Data,
         data'[n] = d, \A m \in Nodes : m # n => data'[m] = data[m]
  PROVE  ItemsOf(SpliceIn(s, k, n))' = SpliceIn(Items, k, d)
<1>1. s \in Seq(Nodes) /\ Len(s) \in Nat /\ \A i \in 1 .. Len(s) : s[i] \in Nodes /\ s[i] # n
  BY HoldsFacts DEF ListInv
<1> DEFINE t == SpliceIn(s, k, n)
<1>2. /\ Len(t) = Len(s) + 1
      /\ \A i \in 1 .. k : t[i] = s[i]
      /\ t[k + 1] = n
      /\ \A i \in k + 1 .. Len(s) : t[i + 1] = s[i]
  <2>1. t \in Seq(Nodes) /\ Len(t) = Len(s) + 1
    BY <1>1, SpliceInParts
  <2>2. \A i \in 1 .. k : t[i] = s[i]
    BY <1>1, SpliceInParts
  <2>3. t[k + 1] = n
    BY <1>1, SpliceInParts
  <2>4. \A i \in k + 1 .. Len(s) : t[i + 1] = s[i]
    BY <1>1, SpliceInParts
  <2> QED
    BY <2>1, <2>2, <2>3, <2>4
<1> HIDE DEF t
<1>3. Len(Items) = Len(s) /\ \A i \in 1 .. Len(s) : Items[i] = data[s[i]]
  BY MapsFacts
<1>4. data'[n] = d /\ \A m \in Nodes : m # n => data'[m] = data[m]
  OBVIOUS
<1>5. ASSUME NEW i \in 1 .. Len(s) + 1
      PROVE  data'[t[i]] = IF i <= k THEN Items[i] ELSE IF i = k + 1 THEN d ELSE Items[i - 1]
  <2>1. CASE i <= k
    <3>1. i \in 1 .. Len(s)
      BY <1>1, <2>1
    <3> QED
      BY <1>1, <1>2, <1>3, <1>4, <2>1, <3>1
  <2>2. CASE i = k + 1
    <3>1. ~(i <= k) /\ t[i] = n
      BY <1>1, <1>2, <2>2
    <3> QED
      BY <1>4, <2>2, <3>1
  <2>3. CASE i > k + 1
    <3>1. PICK j \in k + 1 .. Len(s) : j = i - 1 /\ j + 1 = i /\ j \in 1 .. Len(s)
      BY <1>1, <2>3
    <3>2. ~(i <= k) /\ i # k + 1 /\ t[i] = s[j]
      BY <1>1, <1>2, <2>3, <3>1
    <3> QED
      BY <1>1, <1>3, <1>4, <3>1, <3>2
  <2> QED
    BY <1>1, <2>1, <2>2, <2>3
<1> QED
  BY <1>2, <1>3, <1>5 DEF ItemsOf, SpliceIn, t

\* A node less is an element less.
LEMMA ItemsOut ==
  ASSUME ListInv, NEW s, Holds(s), NEW k \in 1 .. Len(s),
         \A m \in Nodes : m # s[k] => data'[m] = data[m], NEW t, t = SpliceOut(s, k)
  PROVE  ItemsOf(t)' = SpliceOut(Items, k)
<1>1. /\ s \in Seq(Nodes) /\ Len(s) \in Nat /\ \A i \in 1 .. Len(s) : s[i] \in Nodes
      /\ \A i, j \in 1 .. Len(s) : s[i] = s[j] => i = j
  BY HoldsFacts DEF ListInv
<1>2. Len(t) = Len(s) - 1 /\ \A i \in 1 .. Len(s) - 1 : t[i] = IF i < k THEN s[i] ELSE s[i + 1]
  <2>1. Len(t) = Len(s) - 1
    BY <1>1, SpliceOutIs
  <2>2. \A i \in 1 .. Len(s) - 1 : t[i] = IF i < k THEN s[i] ELSE s[i + 1]
    BY DEF SpliceOut
  <2> QED
    BY <2>1, <2>2
<1>3. Len(Items) = Len(s) /\ \A i \in 1 .. Len(s) : Items[i] = data[s[i]]
  BY MapsFacts
<1>4. \A m \in Nodes : m # s[k] => data'[m] = data[m]
  OBVIOUS
<1>5. ASSUME NEW i \in 1 .. Len(s) - 1
      PROVE  data'[t[i]] = IF i < k THEN Items[i] ELSE Items[i + 1]
  <2>1. PICK j \in 1 .. Len(s) : j = IF i < k THEN i ELSE i + 1
    BY <1>1
  <2>2. t[i] = s[j] /\ j # k
    BY <1>1, <1>2, <2>1
  <2>3. data'[t[i]] = Items[j]
    BY <1>1, <1>3, <1>4, <2>2
  <2> QED
    BY <2>1, <2>3
<1> QED
  BY <1>2, <1>3, <1>5 DEF ItemsOf, SpliceOut

\* What the abstract list is after a step.
LEMMA MapsNext == (\A s : ListInv /\ Holds(s) => Maps(s))'
BY MapsAlways, PTL

\* After a step the iterator stands where its node is.
LEMMA PlaceNext ==
  ASSUME ListInv', NEW t, Holds(t)'
  PROVE  /\ Items' = ItemsOf(t)'
         /\ stale' \/ ittr' = Null => IttrPlace' = IF stale' THEN -2 ELSE IF remove_flag' THEN 0 ELSE -1
         /\ \A i \in 1 .. Len(t) : ~stale' /\ t[i] = ittr' =>
              IttrPlace' = IF ittr_dir' = "head" THEN i ELSE (Len(t) + 1) - i
<1>1. Maps(t)'
  BY MapsNext
<1> QED
  BY <1>1 DEF Maps, PlaceAt

\* Initially.
LEMMA InitMaps ==
  ASSUME Init
  PROVE  Abstract!ListInit
<1>1. ListInv
  BY InitHolds
<1>2. PICK s : Holds(s)
  BY <1>1 DEF ListInv
<1>3. s = <<>>
  <2>1. Len(s) = 0
    BY <1>2 DEF Holds, Init
  <2> QED
    BY <1>1, <1>2, <2>1, HoldsFacts DEF ListInv
<1>4. Items = <<>> /\ IttrPlace = -1
  BY <1>1, <1>2, <1>3, MapsFacts DEF Init
<1> QED
  BY <1>4 DEF Init, Abstract!ListInit

\* A push is a push.
LEMMA PushMaps ==
  ASSUME ListInv, NEW d \in Data, NEW e \in Ends, Push(d, e)
  PROVE  Abstract!Push(d, e)
<1>1. PICK s : Holds(s)
  BY DEF ListInv
<1>2. PICK k \in 0 .. Len(s) : (e = "head" => k = 0) /\ (e = "tail" => k = Len(s))
  <2>1. 0 \in 0 .. Len(s) /\ Len(s) \in 0 .. Len(s)
    BY <1>1, HoldsFacts DEF ListInv
  <2> QED
    BY <2>1 DEF Ends
<1>3. PICK n, t : n = Fresh /\ t = SpliceIn(s, k, n)
  OBVIOUS
<1>4. Holds(t)' /\ n \in Nodes \ allocated /\ ListInv'
  BY <1>1, <1>2, <1>3, PushIs, PushHolds DEF ListInv
<1>5. data' = [data EXCEPT ![n] = d] /\ UNCHANGED <<ittr, ittr_dir, remove_flag, stale, ret>>
  BY <1>3 DEF Push, Calloc, ittr_state
<1>6. Items' = SpliceIn(Items, k, d)
  <2>0. data'[n] = d /\ \A m \in Nodes : m # n => data'[m] = data[m]
    BY <1>4, <1>5 DEF ListInv, TypeOK
  <2>1. ItemsOf(t)' = SpliceIn(Items, k, d)
    BY <1>1, <1>3, <1>4, <2>0, ItemsIn
  <2>2. Items' = ItemsOf(t)'
    BY <1>4, PlaceNext
  <2> QED
    BY <2>1, <2>2
<1>7. Items' = IF e = "head" THEN <<d>> \o Items ELSE Append(Items, d)
  <2>1. Items \in Seq(Data \cup {Null}) /\ Len(Items) = Len(s) /\ d \in Data \cup {Null}
    BY <1>1, MapsFacts
  <2> QED
    BY <1>2, <1>6, <2>1, SpliceInSeq DEF Ends
<1>8. IttrPlace' = IF e = ittr_dir /\ IttrPlace \in 1 .. Len(Items) THEN IttrPlace + 1 ELSE IttrPlace
  <2>1. Len(Items) = Len(s) /\ Len(s) \in Nat
    BY <1>1, MapsFacts, HoldsFacts DEF ListInv
  <2>2. CASE stale \/ ittr = Null
    <3>1. IttrPlace' = IttrPlace /\ (IttrPlace = -2 \/ IttrPlace = 0 \/ IttrPlace = -1)
      BY <1>1, <1>4, <1>5, <2>2, MapsFacts, PlaceNext
    <3> QED
      BY <2>1, <3>1
  <2>3. CASE ~stale /\ ittr # Null
    <3>1. PICK i \in 1 .. Len(s) : s[i] = ittr
      BY <1>1, <2>3, HoldsFacts DEF ListInv, IttrInv
    <3>2. IttrPlace = PlaceAt(s, i) /\ IttrPlace \in 1 .. Len(s)
      BY <1>1, <2>3, <3>1, MapsFacts
    <3>3. PICK j \in 1 .. Len(s) + 1 : j = IF e = "head" THEN i + 1 ELSE i
      BY <2>1
    <3>4. t[j] = s[i] /\ Len(t) = Len(s) + 1
      <4>1. s \in Seq(Nodes) /\ n \in Nodes
        BY <1>1, <1>4, HoldsFacts DEF ListInv
      <4>2. Len(SpliceIn(s, k, n)) = Len(s) + 1
        BY <4>1, SpliceInIs
      <4>3. SpliceIn(s, k, n)[j] = IF j <= k THEN s[j] ELSE IF j = k + 1 THEN n ELSE s[j - 1]
        BY DEF SpliceIn
      <4> QED
        BY <1>2, <1>3, <2>1, <3>3, <4>2, <4>3 DEF Ends
    <3>5. IttrPlace' = IF ittr_dir = "head" THEN j ELSE (Len(t) + 1) - j
      BY <1>4, <1>5, <2>3, <3>1, <3>4, PlaceNext
    <3>6. ittr_dir \in Ends
      BY DEF ListInv, TypeOK
    <3> QED
      BY <2>1, <3>2, <3>3, <3>4, <3>5, <3>6 DEF PlaceAt, Ends
  <2> QED
    BY <2>2, <2>3
<1> QED
  BY <1>5, <1>7, <1>8 DEF Abstract!Push

\* The abstract list is built from the same operators.
LEMMA SameOperators ==
  /\ \A q, i : Abstract!RemoveAt(q, i) = RemoveAt(q, i)
  /\ \A q, i, v : Abstract!InsertAt(q, i, v) = InsertAt(q, i, v)
BY DEF Abstract!RemoveAt, Abstract!InsertAt, RemoveAt, InsertAt

\* A pop is a pop.
LEMMA PopMaps ==
  ASSUME ListInv, NEW e \in Ends, Pop(e)
  PROVE  Abstract!Pop(e)
<1>1. PICK s : Holds(s)
  BY DEF ListInv
<1>2. ListInv' /\ Len(s) \in Nat /\ (s = <<>> <=> Len(s) = 0) /\ Len(Items) = Len(s) /\ (Items = <<>> <=> s = <<>>)
  BY <1>1, PopHolds, MapsFacts, HoldsFacts DEF ListInv
<1>3. CASE s = <<>>
  <2>1. ends[e] = Null
    BY <1>1, <1>3, EndsAre DEF ListInv
  <2>2. UNCHANGED <<list_state, ittr_state>> /\ ret' = Null
    BY <2>1 DEF Pop, ittr_state
  <2>3. UNCHANGED <<Items, IttrPlace, ittr_dir>>
    BY <2>2 DEF list_state, ittr_state, Items, IttrPlace, From
  <2> QED
    BY <1>2, <1>3, <2>2, <2>3 DEF Abstract!Pop
<1>4. CASE s # <<>>
  <2>1. PICK k \in 1 .. Len(s) : k = (IF e = "head" THEN 1 ELSE Len(s)) /\ (e = "head" => k = 1) /\ (e = "tail" => k = Len(s))
    BY <1>2, <1>4 DEF Ends
  <2>2. s[k] = ends[e] /\ Holds(SpliceOut(s, k))'
    BY <1>1, <1>4, <2>1, PopIs DEF ListInv
  <2>3. PICK t, n : t = SpliceOut(s, k) /\ n = s[k]
    OBVIOUS
  <2>4. n \in Nodes /\ n # Null /\ n = ends[e]
    BY <1>1, <2>2, <2>3, HoldsFacts DEF ListInv
  <2>5. /\ data' = [data EXCEPT ![n] = Null] /\ ret' = data[n] /\ stale' = (stale \/ ittr = n)
        /\ UNCHANGED <<ittr, ittr_dir, remove_flag>>
    BY <2>4 DEF Pop, Unlink, Free
  <2>6. ret' = Items[k]
    BY <1>1, <2>3, <2>5, MapsFacts
  <2>7. Items' = RemoveAt(Items, k)
    <3>1. \A m \in Nodes : m # n => data'[m] = data[m]
      BY <2>4, <2>5 DEF ListInv, TypeOK
    <3>2. ItemsOf(t)' = SpliceOut(Items, k)
      BY <1>1, <2>3, <3>1, ItemsOut
    <3>3. Items' = ItemsOf(t)'
      BY <1>2, <2>2, <2>3, PlaceNext
    <3>4. SpliceOut(Items, k) = RemoveAt(Items, k)
      BY <1>1, <1>2, MapsFacts, SpliceOutSeq
    <3> QED
      BY <3>2, <3>3, <3>4
  <2>8. IttrPlace' = IF IttrPlace \notin 1 .. Len(Items) THEN IttrPlace
                     ELSE IF Abstract!Position(IttrPlace) = k THEN -2
                     ELSE IF e = ittr_dir THEN IttrPlace - 1 ELSE IttrPlace
    <3>1. CASE stale \/ ittr = Null
      <4>1. IttrPlace' = IttrPlace /\ (IttrPlace = -2 \/ IttrPlace = 0 \/ IttrPlace = -1)
        <5>1. (stale' <=> stale) /\ (stale' \/ ittr' = Null)
          BY <2>4, <2>5, <3>1 DEF ListInv, TypeOK
        <5>2. IttrPlace' = IF stale THEN -2 ELSE IF remove_flag THEN 0 ELSE -1
          BY <1>2, <2>2, <2>3, <2>5, <5>1, PlaceNext
        <5>3. IttrPlace = IF stale THEN -2 ELSE IF remove_flag THEN 0 ELSE -1
          BY <1>1, <3>1, MapsFacts
        <5> QED
          BY <5>2, <5>3
      <4> QED
        BY <1>2, <4>1
    <3>2. CASE ~stale /\ ittr # Null
      <4>1. PICK i \in 1 .. Len(s) : s[i] = ittr
        BY <1>1, <3>2, HoldsFacts DEF ListInv, IttrInv
      <4>2. IttrPlace = PlaceAt(s, i) /\ IttrPlace \in 1 .. Len(s) /\ PlaceAt(s, IttrPlace) = i
        BY <1>1, <3>2, <4>1, MapsFacts
      <4>3. Abstract!Position(IttrPlace) = i
        BY <1>2, <4>2 DEF Abstract!Position, PlaceAt
      <4>4. CASE i = k
        <5>1. stale'
          BY <2>3, <2>5, <4>1, <4>4
        <5>2. IttrPlace' = -2
          BY <1>2, <2>2, <2>3, <5>1, PlaceNext
        <5> QED
          BY <1>2, <4>2, <4>3, <4>4, <5>2
      <4>5. CASE i # k
        <5>1. ~stale'
          <6>1. s[i] # s[k]
            BY <1>1, <4>5, HoldsFacts DEF ListInv
          <6>2. ittr # n
            BY <2>3, <4>1, <6>1
          <6> QED
            BY <2>5, <3>2, <6>2
        <5>2. PICK j \in 1 .. Len(s) - 1 : j = IF e = "head" THEN i - 1 ELSE i
          BY <1>2, <2>1, <4>5 DEF Ends
        <5>3. t[j] = s[i] /\ Len(t) = Len(s) - 1
          <6>1. s \in Seq(Nodes)
            BY <1>1, HoldsFacts DEF ListInv
          <6>2. Len(SpliceOut(s, k)) = Len(s) - 1
            BY <6>1, SpliceOutIs
          <6>3. SpliceOut(s, k)[j] = IF j < k THEN s[j] ELSE s[j + 1]
            BY DEF SpliceOut
          <6> QED
            BY <1>2, <2>1, <2>3, <4>5, <5>2, <6>2, <6>3 DEF Ends
        <5>4. IttrPlace' = IF ittr_dir = "head" THEN j ELSE (Len(t) + 1) - j
          BY <1>2, <2>2, <2>3, <2>5, <4>1, <5>1, <5>3, PlaceNext
        <5>5. ittr_dir \in Ends
          BY DEF ListInv, TypeOK
        <5>6. IttrPlace' = IF e = ittr_dir THEN IttrPlace - 1 ELSE IttrPlace
          BY <1>2, <4>2, <5>2, <5>3, <5>4, <5>5 DEF PlaceAt, Ends
        <5> QED
          BY <1>2, <4>2, <4>3, <4>5, <5>6
      <4> QED
        BY <4>4, <4>5
    <3> QED
      BY <3>1, <3>2
  <2>9. Items # <<>> /\ k = IF e = "head" THEN 1 ELSE Len(Items)
    BY <1>2, <1>4, <2>1
  <2> QED
    <3>1. /\ Items # <<>> /\ ret' = Items[IF e = "head" THEN 1 ELSE Len(Items)]
          /\ Items' = RemoveAt(Items, IF e = "head" THEN 1 ELSE Len(Items))
          /\ IttrPlace' = IF IttrPlace \notin 1 .. Len(Items) THEN IttrPlace
                          ELSE IF Abstract!Position(IttrPlace) = IF e = "head" THEN 1 ELSE Len(Items) THEN -2
                          ELSE IF e = ittr_dir THEN IttrPlace - 1 ELSE IttrPlace
          /\ ittr_dir' = ittr_dir
      BY <2>5, <2>6, <2>7, <2>8, <2>9
    <3> QED
      BY <3>1, SameOperators DEF Abstract!Pop
<1> QED
  BY <1>3, <1>4

\* Going to a node is going to its place.
LEMMA GoMaps ==
  ASSUME ListInv, ListInv', NEW s, Holds(s), UNCHANGED list_state, Holds(s)', ~stale', ~remove_flag',
         ittr_dir' \in Ends,
         NEW k \in 1 .. Len(s) + 1,
         ittr' = IF k = Len(s) + 1 THEN Null ELSE s[IF ittr_dir' = "head" THEN k ELSE (Len(s) + 1) - k],
         ret' = IF ittr' = Null THEN Null ELSE data[ittr']
  PROVE  UNCHANGED Items /\ Abstract!Go(k)
<1>1. UNCHANGED Items
  BY DEF list_state, Items, From
<1>2. Len(s) \in Nat /\ Len(Items) = Len(s) /\ \A i \in 1 .. Len(s) : Items[i] = data[s[i]] /\ s[i] # Null
  BY MapsFacts, HoldsFacts DEF ListInv
<1>3. CASE k = Len(s) + 1
  <2>1. ittr' = Null /\ ret' = Null
    BY <1>3
  <2>2. IttrPlace' = -1
    BY <2>1, PlaceNext
  <2> QED
    BY <1>1, <1>2, <1>3, <2>1, <2>2 DEF Abstract!Go
<1>4. CASE k # Len(s) + 1
  <2>1. PICK i \in 1 .. Len(s) : i = IF ittr_dir' = "head" THEN k ELSE (Len(s) + 1) - k
    BY <1>2, <1>4
  <2>2. ittr' = s[i] /\ ret' = Items[i]
    BY <1>2, <1>4, <2>1
  <2>3. IttrPlace' = IF ittr_dir' = "head" THEN i ELSE (Len(s) + 1) - i
    BY <2>2, PlaceNext
  <2>4. IttrPlace' = k /\ k \in 1 .. Len(Items)
    BY <1>2, <1>4, <2>1, <2>3
  <2> QED
    BY <1>1, <1>2, <2>1, <2>2, <2>4 DEF Abstract!Go
<1> QED
  BY <1>3, <1>4

\* The iterator starts at the first place.
LEMMA IttrStartMaps ==
  ASSUME ListInv, NEW e \in Ends, IttrStart(e)
  PROVE  Abstract!Start(e)
<1>1. PICK s : Holds(s)
  BY DEF ListInv
<1>2. ListInv' /\ Holds(s)' /\ Len(s) \in Nat /\ (s = <<>> <=> Len(s) = 0)
  BY <1>1, IttrStartHolds, HoldsFacts DEF ListInv, IttrStart, list_state, Holds
<1>3. /\ ittr' = ends[e] /\ (ret' = IF ittr' = Null THEN Null ELSE data[ittr'])
      /\ ittr_dir' = e /\ ~stale' /\ ~remove_flag' /\ UNCHANGED list_state
  BY DEF IttrStart, MoveTo
<1>4. 1 \in 1 .. Len(s) + 1
  BY <1>2
<1>5. ittr' = IF 1 = Len(s) + 1 THEN Null ELSE s[IF ittr_dir' = "head" THEN 1 ELSE (Len(s) + 1) - 1]
  <2>1. (Len(s) + 1) - 1 = Len(s) /\ (1 = Len(s) + 1 <=> s = <<>>)
    BY <1>2
  <2>2. ends[e] = IF s = <<>> THEN Null ELSE s[IF e = "head" THEN 1 ELSE Len(s)]
    BY <1>1, HoldsFacts DEF ListInv, Ends
  <2> QED
    BY <1>3, <2>1, <2>2
<1>6. UNCHANGED Items /\ Abstract!Go(1)
  BY <1>1, <1>2, <1>3, <1>4, <1>5, GoMaps
<1> QED
  BY <1>3, <1>6 DEF Abstract!Start

\* The iterator goes on to the next place.
LEMMA IttrNextMaps ==
  ASSUME ListInv, IttrNext
  PROVE  Abstract!Forward
<1>1. PICK s : Holds(s)
  BY DEF ListInv
<1>2. ListInv' /\ Holds(s)' /\ Len(s) \in Nat /\ (s = <<>> <=> Len(s) = 0)
  BY <1>1, IttrNextHolds, HoldsFacts DEF ListInv, IttrNext, list_state, Holds
<1>3. /\ ittr' = (IF remove_flag THEN ends[ittr_dir] ELSE IF ittr = Null THEN Null ELSE link[ittr_dir][ittr])
      /\ (ret' = IF ittr' = Null THEN Null ELSE data[ittr'])
      /\ ~stale /\ ~stale' /\ ~remove_flag' /\ ittr_dir' = ittr_dir /\ UNCHANGED list_state
  BY DEF IttrNext, MoveTo
<1>4. ittr_dir \in Ends
  BY DEF ListInv, TypeOK
<1>5. CASE remove_flag
  <2>1. IttrPlace = 0
    BY <1>1, <1>3, <1>5, MapsFacts DEF ListInv, IttrInv
  <2>2. 1 \in 1 .. Len(s) + 1
    BY <1>2
  <2>3. ittr' = IF 1 = Len(s) + 1 THEN Null ELSE s[IF ittr_dir' = "head" THEN 1 ELSE (Len(s) + 1) - 1]
    <3>1. (Len(s) + 1) - 1 = Len(s) /\ (1 = Len(s) + 1 <=> s = <<>>)
      BY <1>2
    <3>2. ends[ittr_dir] = IF s = <<>> THEN Null ELSE s[IF ittr_dir = "head" THEN 1 ELSE Len(s)]
      BY <1>1, <1>4, HoldsFacts DEF ListInv, Ends
    <3> QED
      BY <1>3, <1>5, <3>1, <3>2
  <2>4. UNCHANGED Items /\ Abstract!Go(1)
    BY <1>1, <1>2, <1>3, <1>4, <2>2, <2>3, GoMaps
  <2>5. IttrPlace # -2 /\ IttrPlace # -1 /\ IttrPlace + 1 = 1
    BY <2>1
  <2> QED
    BY <1>3, <2>4, <2>5 DEF Abstract!Forward
<1>6. CASE ~remove_flag /\ ittr = Null
  <2>1. ittr' = Null /\ ret' = Null
    BY <1>3, <1>6
  <2>2. IttrPlace = -1 /\ IttrPlace' = -1
    BY <1>1, <1>2, <1>3, <1>6, <2>1, MapsFacts, PlaceNext
  <2>3. UNCHANGED Items
    BY <1>3 DEF list_state, Items, From
  <2> QED
    BY <1>3, <2>1, <2>2, <2>3 DEF Abstract!Forward
<1>7. CASE ~remove_flag /\ ittr # Null
  <2>1. PICK i \in 1 .. Len(s) : s[i] = ittr
    BY <1>1, <1>3, <1>7, HoldsFacts DEF ListInv, IttrInv
  <2>2. PICK p : p = IttrPlace
    OBVIOUS
  <2>3. p = PlaceAt(s, i) /\ p \in 1 .. Len(s) /\ i = PlaceAt(s, p)
    BY <1>1, <1>3, <2>1, <2>2, MapsFacts
  <2>4. PICK k \in 1 .. Len(s) + 1 : k = p + 1
    BY <1>2, <2>3
  <2>5. ittr' = IF k = Len(s) + 1 THEN Null ELSE s[IF ittr_dir' = "head" THEN k ELSE (Len(s) + 1) - k]
    <3>1. ittr' = link[ittr_dir][s[i]]
      BY <1>3, <1>7, <2>1
    <3>2. CASE ittr_dir = "head"
      BY <1>1, <1>2, <1>3, <2>3, <2>4, <3>1, <3>2, HoldsFacts DEF PlaceAt, ListInv
    <3>3. CASE ittr_dir = "tail"
      <4>1. i = (Len(s) + 1) - p /\ (Len(s) + 1) - k = i - 1 /\ (k = Len(s) + 1 <=> i = 1)
        BY <1>2, <2>3, <2>4, <3>3 DEF PlaceAt
      <4>2. link["tail"][s[i]] = IF i = 1 THEN Null ELSE s[i - 1]
        BY <1>1, HoldsFacts DEF ListInv
      <4> QED
        BY <1>3, <3>1, <3>3, <4>1, <4>2
    <3> QED
      BY <1>4, <3>2, <3>3 DEF Ends
  <2>6. UNCHANGED Items /\ Abstract!Go(k)
    BY <1>1, <1>2, <1>3, <1>4, <2>5, GoMaps
  <2>7. IttrPlace # -2 /\ IttrPlace # -1 /\ IttrPlace + 1 = k
    <3>1. p \in Nat \ {0}
      BY <1>2, <2>3
    <3>2. p # -2 /\ p # -1
      BY <3>1
    <3> QED
      BY <2>2, <2>4, <3>2
  <2> QED
    BY <1>3, <2>6, <2>7 DEF Abstract!Forward
<1> QED
  BY <1>5, <1>6, <1>7

\* An insertion at the iterator is one at its place; after it or before it.
LEMMA InsertMaps ==
  ASSUME ListInv, NEW d \in Data, NEW e \in Ends, Insert(d, e)
  PROVE  Abstract!Insert(d, e = ittr_dir) \/ Abstract!NoElement
<1>1. PICK s : Holds(s)
  BY DEF ListInv
<1>2. ListInv' /\ Len(s) \in Nat /\ Len(Items) = Len(s) /\ ittr_dir \in Ends
  BY <1>1, InsertHolds, MapsFacts, HoldsFacts DEF ListInv, TypeOK
<1>3. CASE ittr = Null
  <2>1. UNCHANGED <<list_state, ittr_state, ret>> /\ ~stale
    BY <1>3 DEF Insert
  <2>2. UNCHANGED <<Items, IttrPlace, ittr_dir, ret>>
    BY <2>1 DEF list_state, ittr_state, Items, IttrPlace, From
  <2>3. IttrPlace = 0 \/ IttrPlace = -1
    BY <1>1, <1>3, <2>1, MapsFacts
  <2> QED
    BY <2>2, <2>3 DEF Abstract!NoElement
<1>4. CASE ittr # Null
  <2>1. PICK i \in 1 .. Len(s) : s[i] = ittr
    BY <1>1, <1>4, HoldsFacts DEF ListInv, IttrInv, Insert
  <2>2. PICK k \in 0 .. Len(s) : (e = "head" => k = i) /\ (e = "tail" => k = i - 1)
    <3>1. i \in 0 .. Len(s) /\ i - 1 \in 0 .. Len(s)
      BY <1>2
    <3> QED
      BY <3>1 DEF Ends
  <2>3. PICK n, t : n = Fresh /\ t = SpliceIn(s, k, n)
    OBVIOUS
  <2>4. Holds(t)' /\ n \in Nodes \ allocated
    BY <1>1, <1>4, <2>1, <2>2, <2>3, InsertIs DEF ListInv
  <2>5. data' = [data EXCEPT ![n] = d] /\ UNCHANGED <<ittr, ittr_dir, remove_flag, stale, ret>> /\ ~stale
    BY <1>4, <2>3 DEF Insert, Calloc, ittr_state
  <2>6. PICK p : p = IttrPlace
    OBVIOUS
  <2>7. p = PlaceAt(s, i) /\ p \in 1 .. Len(s) /\ PlaceAt(s, p) = i
    BY <1>1, <2>1, <2>5, <2>6, MapsFacts
  <2>8. Abstract!Position(p) = i
    BY <1>2, <2>7 DEF Abstract!Position, PlaceAt
  <2>9. Items' = InsertAt(Items, k + 1, d)
    <3>1. data'[n] = d /\ \A m \in Nodes : m # n => data'[m] = data[m]
      BY <2>4, <2>5 DEF ListInv, TypeOK
    <3>2. ItemsOf(t)' = SpliceIn(Items, k, d)
      BY <1>1, <2>3, <2>4, <3>1, ItemsIn
    <3>3. Items' = ItemsOf(t)'
      BY <1>2, <2>4, PlaceNext
    <3>4. Items \in Seq(Data \cup {Null}) /\ d \in Data \cup {Null} /\ k \in 0 .. Len(Items)
      BY <1>1, <1>2, MapsFacts
    <3>5. SpliceIn(Items, k, d) = InsertAt(Items, k + 1, d)
      BY <3>4, SpliceInSeq
    <3> QED
      BY <3>2, <3>3, <3>5
  <2>10. k + 1 = IF (e = ittr_dir) = (ittr_dir = "head") THEN i + 1 ELSE i
    <3>1. CASE e = "head"
      BY <1>2, <2>2, <3>1 DEF Ends
    <3>2. CASE e = "tail"
      BY <1>2, <2>2, <3>2 DEF Ends
    <3> QED
      BY <3>1, <3>2 DEF Ends
  <2>11. IttrPlace' = IF e = ittr_dir THEN p ELSE p + 1
    <3>1. PICK j \in 1 .. Len(s) + 1 : j = IF e = "head" THEN i ELSE i + 1
      BY <1>2
    <3>2. t[j] = s[i] /\ Len(t) = Len(s) + 1
      <4>1. s \in Seq(Nodes) /\ n \in Nodes
        BY <1>1, <2>4, HoldsFacts DEF ListInv
      <4>2. Len(SpliceIn(s, k, n)) = Len(s) + 1
        BY <4>1, SpliceInIs
      <4>3. SpliceIn(s, k, n)[j] = IF j <= k THEN s[j] ELSE IF j = k + 1 THEN n ELSE s[j - 1]
        BY DEF SpliceIn
      <4> QED
        BY <1>2, <2>2, <2>3, <3>1, <4>2, <4>3 DEF Ends
    <3>3. IttrPlace' = IF ittr_dir = "head" THEN j ELSE (Len(t) + 1) - j
      BY <1>2, <2>1, <2>4, <2>5, <3>2, PlaceNext
    <3> QED
      BY <1>2, <2>7, <3>1, <3>2, <3>3 DEF PlaceAt, Ends
  <2>12. Abstract!Insert(d, e = ittr_dir)
    <3>1. Items' = InsertAt(Items, IF (e = ittr_dir) = (ittr_dir = "head") THEN i + 1 ELSE i, d)
      BY <2>9, <2>10
    <3>2. IttrPlace \in 1 .. Len(Items) /\ Abstract!Position(IttrPlace) = i
      BY <1>2, <2>6, <2>7, <2>8
    <3>3. IttrPlace' = (IF e = ittr_dir THEN IttrPlace ELSE IttrPlace + 1) /\ ittr_dir' = ittr_dir /\ ret' = ret
      BY <2>5, <2>6, <2>11
    <3>4. Items' = InsertAt(Items, IF (e = ittr_dir) = (ittr_dir = "head") THEN Abstract!Position(IttrPlace) + 1 ELSE Abstract!Position(IttrPlace), d)
      BY <3>1, <3>2
    <3> QED
      BY <3>2, <3>3, <3>4, SameOperators DEF Abstract!Insert
  <2> QED
    BY <2>12
<1> QED
  BY <1>3, <1>4

\* A removal is a removal, and the iterator is at the place before.
LEMMA RemoveMaps ==
  ASSUME ListInv, RemoveCurrent
  PROVE  Abstract!Delete \/ Abstract!NoElement
<1>1. PICK s : Holds(s)
  BY DEF ListInv
<1>2. ListInv' /\ Len(s) \in Nat /\ Len(Items) = Len(s) /\ ittr_dir \in Ends
  BY <1>1, RemoveHolds, MapsFacts, HoldsFacts DEF ListInv, TypeOK
<1>3. CASE ittr = Null
  <2>1. UNCHANGED <<list_state, ittr_state>> /\ ret' = Null /\ ~stale
    BY <1>3 DEF RemoveCurrent, ittr_state
  <2>2. UNCHANGED <<Items, IttrPlace, ittr_dir>>
    BY <2>1 DEF list_state, ittr_state, Items, IttrPlace, From
  <2>3. IttrPlace = 0 \/ IttrPlace = -1
    BY <1>1, <1>3, <2>1, MapsFacts
  <2> QED
    BY <2>1, <2>2, <2>3 DEF Abstract!NoElement
<1>4. CASE ittr # Null
  <2>1. PICK i \in 1 .. Len(s) : s[i] = ittr
    BY <1>1, <1>4, HoldsFacts DEF ListInv, IttrInv, RemoveCurrent
  <2>2. PICK t, n : t = SpliceOut(s, i) /\ n = s[i]
    OBVIOUS
  <2>3. Holds(t)' /\ n \in Nodes /\ n # Null
    BY <1>1, <1>4, <2>1, <2>2, RemoveIs, HoldsFacts DEF ListInv
  <2>4. /\ data' = [data EXCEPT ![n] = Null] /\ ret' = data[n]
        /\ ittr' = link[Other(ittr_dir)][n] /\ remove_flag' = (ittr' = Null)
        /\ UNCHANGED <<ittr_dir, stale>> /\ ~stale
    BY <1>4, <2>1, <2>2 DEF RemoveCurrent, Free
  <2>5. PICK p : p = IttrPlace
    OBVIOUS
  <2>6. p = PlaceAt(s, i) /\ p \in 1 .. Len(s) /\ PlaceAt(s, p) = i
    BY <1>1, <2>1, <2>4, <2>5, MapsFacts
  <2>7. Abstract!Position(p) = i
    BY <1>2, <2>6 DEF Abstract!Position, PlaceAt
  <2>8. Items' = RemoveAt(Items, i)
    <3>1. \A m \in Nodes : m # n => data'[m] = data[m]
      BY <2>3, <2>4 DEF ListInv, TypeOK
    <3>2. ItemsOf(t)' = SpliceOut(Items, i)
      BY <1>1, <2>2, <3>1, ItemsOut
    <3>3. Items' = ItemsOf(t)'
      BY <1>2, <2>3, PlaceNext
    <3>4. SpliceOut(Items, i) = RemoveAt(Items, i)
      BY <1>1, <1>2, MapsFacts, SpliceOutSeq
    <3> QED
      BY <3>2, <3>3, <3>4
  <2>9. ret' = Items[i]
    BY <1>1, <2>2, <2>4, MapsFacts
  <2>10. IttrPlace' = p - 1
    <3>1. Len(t) = Len(s) - 1 /\ \A j \in 1 .. Len(s) - 1 : t[j] = IF j < i THEN s[j] ELSE s[j + 1]
      <4>1. s \in Seq(Nodes)
        BY <1>1, HoldsFacts DEF ListInv
      <4>2. Len(SpliceOut(s, i)) = Len(s) - 1
        BY <4>1, SpliceOutIs
      <4>3. \A j \in 1 .. Len(s) - 1 : SpliceOut(s, i)[j] = IF j < i THEN s[j] ELSE s[j + 1]
        BY DEF SpliceOut
      <4> QED
        BY <2>2, <4>2, <4>3, Zenon
    <3>2. CASE ittr_dir = "head"
      <4>1. p = i /\ ittr' = IF i = 1 THEN Null ELSE s[i - 1]
        BY <1>1, <2>2, <2>4, <2>6, <3>2, HoldsFacts DEF PlaceAt, Other, ListInv
      <4>2. CASE i = 1
        <5>1. IttrPlace' = 0
          BY <1>2, <2>3, <2>4, <4>1, <4>2, PlaceNext
        <5> QED
          BY <4>1, <4>2, <5>1
      <4>3. CASE i # 1
        <5>1. PICK j \in 1 .. Len(s) - 1 : j = i - 1
          BY <1>2, <4>3
        <5>2. t[j] = ittr' /\ j \in 1 .. Len(t)
          BY <1>2, <3>1, <4>1, <4>3, <5>1
        <5>3. IttrPlace' = j
          BY <1>2, <2>3, <2>4, <3>2, <5>2, PlaceNext
        <5> QED
          BY <4>1, <5>1, <5>3
      <4> QED
        BY <4>2, <4>3
    <3>3. CASE ittr_dir = "tail"
      <4>1. p = (Len(s) + 1) - i /\ ittr' = IF i = Len(s) THEN Null ELSE s[i + 1]
        BY <1>1, <2>2, <2>4, <2>6, <3>3, HoldsFacts DEF PlaceAt, Other, ListInv
      <4>2. CASE i = Len(s)
        <5>1. IttrPlace' = 0
          BY <1>2, <2>3, <2>4, <4>1, <4>2, PlaceNext
        <5> QED
          BY <1>2, <4>1, <4>2, <5>1
      <4>3. CASE i # Len(s)
        <5>1. i \in 1 .. Len(s) - 1 /\ t[i] = ittr' /\ i \in 1 .. Len(t)
          BY <1>2, <3>1, <4>1, <4>3
        <5>2. IttrPlace' = (Len(t) + 1) - i
          BY <1>2, <2>3, <2>4, <3>3, <5>1, PlaceNext
        <5> QED
          BY <1>2, <3>1, <4>1, <5>2
      <4> QED
        BY <4>2, <4>3
    <3> QED
      BY <1>2, <3>2, <3>3 DEF Ends
  <2>11. Abstract!Delete
    <3>1. IttrPlace \in 1 .. Len(Items) /\ Abstract!Position(IttrPlace) = i
      BY <1>2, <2>5, <2>6, <2>7
    <3>2. /\ IttrPlace \in 1 .. Len(Items) /\ ret' = Items[Abstract!Position(IttrPlace)]
          /\ Items' = RemoveAt(Items, Abstract!Position(IttrPlace))
          /\ IttrPlace' = IttrPlace - 1 /\ ittr_dir' = ittr_dir
      BY <2>4, <2>5, <2>8, <2>9, <2>10, <3>1
    <3> QED
      BY <3>2, SameOperators DEF Abstract!Delete
  <2> QED
    BY <2>11
<1> QED
  BY <1>3, <1>4

\* A list that is destroyed is given up.
LEMMA DestroyMaps ==
  ASSUME ListInv, Destroy
  PROVE  Abstract!Renew
<1>1. PICK s : s = <<>>
  OBVIOUS
<1>2. ListInv' /\ Holds(s)'
  BY <1>1, DestroyHolds
<1>3. Items' = ItemsOf(s)' /\ Len(s) = 0
  BY <1>1, <1>2, PlaceNext
<1>4. Items' = <<>>
  BY <1>3 DEF ItemsOf
<1>5. IttrPlace' = -1
  BY <1>2, PlaceNext DEF Destroy
<1> QED
  BY <1>4, <1>5 DEF Destroy, Abstract!Renew

\* isu_llist is a sequence with an iterator that keeps its place.
THEOREM ListIsASequence == Spec => IsIttrList
<1>1. Init => Abstract!ListInit
  BY InitMaps
<1>2. ListInv /\ [Next]_vars => [Abstract!ListNext]_(Abstract!list_vars)
  <2> SUFFICES ASSUME ListInv, [Next]_vars PROVE [Abstract!ListNext]_(Abstract!list_vars)
    OBVIOUS
  <2>1. CASE Destroy
    BY <2>1, DestroyMaps DEF Abstract!ListNext
  <2>2. ASSUME NEW d \in Data, NEW e \in Ends, Push(d, e) PROVE Abstract!ListNext
    BY <2>2, PushMaps DEF Abstract!ListNext, Ends
  <2>3. ASSUME NEW e \in Ends, Pop(e) PROVE Abstract!ListNext
    BY <2>3, PopMaps DEF Abstract!ListNext, Ends
  <2>4. ASSUME NEW e \in Ends, IttrStart(e) PROVE Abstract!ListNext
    BY <2>4, IttrStartMaps DEF Abstract!ListNext, Ends
  <2>5. ASSUME NEW d \in Data, InsertAfter(d) \/ InsertBefore(d) PROVE Abstract!ListNext
    <3>1. ittr_dir \in Ends /\ Other(ittr_dir) \in Ends
      BY DEF ListInv, TypeOK, Ends, Other
    <3>2. PICK e \in Ends : Insert(d, e)
      BY <2>5, <3>1 DEF InsertAfter, InsertBefore
    <3>3. Abstract!Insert(d, e = ittr_dir) \/ Abstract!NoElement
      BY <3>2, InsertMaps
    <3>4. (e = ittr_dir) \in BOOLEAN
      OBVIOUS
    <3> QED
      BY <3>3, <3>4, Zenon DEF Abstract!ListNext
  <2>6. CASE IttrNext
    BY <2>6, IttrNextMaps DEF Abstract!ListNext
  <2>7. CASE RemoveCurrent
    BY <2>7, RemoveMaps DEF Abstract!ListNext
  <2>8. CASE UNCHANGED vars
    <3>1. UNCHANGED <<Items, ittr_dir, IttrPlace, ret>>
      BY <2>8 DEF vars, list_state, ittr_state, Items, IttrPlace, From
    <3> QED
      BY <3>1 DEF Abstract!list_vars
  <2> QED
    BY <2>1, <2>2, <2>3, <2>4, <2>5, <2>6, <2>7, <2>8 DEF Next
<1> QED
  BY <1>1, <1>2, ListInvariant, PTL DEF Spec, IsIttrList, Abstract!ListSpec

=============================================================================
