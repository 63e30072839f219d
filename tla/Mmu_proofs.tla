----------------------------- MODULE Mmu_proofs -----------------------------
(***************************************************************************)
(* The memory hierarchy for every number of pages and every size of its    *)
(* levels: a page is in one slot, a documented mode loads what it is asked *)
(* for, a page is lost only when L2 is full, and then the oldest of RAM,   *)
(* and L1 is the cache of PagePolicy with the policy of its mode.          *)
(***************************************************************************)
EXTENDS Mmu, FiniteSetTheorems, SequenceTheorems, WellFoundedInduction, TLAPS

-----------------------------------------------------------------------------
(* The inductive invariant. *)

Times == {"access_time", "placement_time"}

\* A slot while a request is handled: its times are renumbered afterwards.
Cells == {c \in [page : Pages \cup {NoPage}, ref : 0 .. 1, access_time : Nat, placement_time : Nat] :
            c.page = NoPage => c.access_time \in 0 .. Never /\ c.placement_time \in 0 .. Never}
Arrays(n) == [0 .. n - 1 -> Cells]
Memories == [L1 : Arrays(L1_SIZE), L2 : Arrays(L2_SIZE), RAM : Arrays(RAM_SIZE),
             hand : 0 .. L1_SIZE, t : Nat]

OneSlot(slots) == \A i, j \in DOMAIN slots :
  slots[i].page = slots[j].page /\ slots[i].page # NoPage => i = j

\* No page is in two slots of a level, or in two levels.
Apart(m) ==
  /\ OneSlot(m.L1) /\ OneSlot(m.L2) /\ OneSlot(m.RAM)
  /\ PagesOf(m.L1) \cap PagesOf(m.L2) = {}
  /\ PagesOf(m.L1) \cap PagesOf(m.RAM) = {}
  /\ PagesOf(m.L2) \cap PagesOf(m.RAM) = {}

Full(slots) == \A i \in DOMAIN slots : slots[i].page # NoPage

\* The lower levels are empty until L1 is full.
FirstFull(m) == Full(m.L1) \/ PagesOf(m.L2) \cup PagesOf(m.RAM) = {}

Good(m) == m \in Memories /\ Apart(m) /\ FirstFull(m)

\* The bits of RAM are clear, but for that of the page being looked for.
BitsClear(m) == \A i \in DOMAIN m.RAM : m.RAM[i].ref = 0
BitsClearBut(m, p) == \A i \in DOMAIN m.RAM : m.RAM[i].page # p => m.RAM[i].ref = 0

IInv == Good(mem) /\ BitsClear(mem) /\ MmuTypeOK

-----------------------------------------------------------------------------
(* Slots. *)

\* Every level has a slot, and the present is before the time of an empty slot.
LEMMA Sizes ==
  /\ L1_SIZE \in Nat \ {0} /\ L2_SIZE \in Nat \ {0} /\ RAM_SIZE \in Nat \ {0}
  /\ L1_SIZE <= L2_SIZE /\ L2_SIZE <= RAM_SIZE
  /\ Now \in Nat /\ Never \in Nat /\ Now < Never
BY SizeAssumption DEF Now, Never

\* Every nonempty set of numbers has a least one.
LEMMA LeastElement ==
  ASSUME NEW S \in SUBSET Nat, S # {}
  PROVE  \E m \in S : \A k \in S : m <= k
<1>0. S \subseteq Nat
  OBVIOUS
<1>1. PICK m \in S : \A k \in S : <<k, m>> \notin OpToRel(<, Nat)
  BY <1>0, WFMin, NatLessThanWellFounded, Zenon
<1>2. \A k \in S : ~(k < m)
  BY <1>1, Zenon DEF OpToRel
<1> QED
  BY <1>2

\* The loops for an open slot or a victim end with one of the slots tried.
LEMMA LeastIs ==
  ASSUME NEW S \in SUBSET Nat, S # {}
  PROVE  Least(S) \in S
BY LeastElement DEF Least

\* The loops end with one of the slots they look at, and no other is older.
LEMMA OldestIs ==
  ASSUME NEW n \in Nat, NEW slots \in Arrays(n), NEW when \in Times,
         NEW S \in SUBSET (0 .. n - 1), S # {}
  PROVE  Oldest(slots, when, S) \in S
<1> DEFINE R == {i \in S : \A j \in S : slots[i][when] <= slots[j][when]}
<1>1. \A i \in S : slots[i][when] \in Nat
  BY DEF Arrays, Cells, Times
<1>2. PICK v \in {slots[i][when] : i \in S} : \A w \in {slots[i][when] : i \in S} : v <= w
  <2>1. {slots[i][when] : i \in S} \in SUBSET Nat /\ {slots[i][when] : i \in S} # {}
    BY <1>1
  <2> QED
    BY <2>1, LeastElement, Zenon
<1>3. R # {}
  BY <1>1, <1>2
<1>4. R \in SUBSET Nat
  <2>1. S \subseteq Nat /\ R \subseteq S
    OBVIOUS
  <2> QED
    BY <2>1, Zenon
<1>5. Least(R) \in R
  BY <1>3, <1>4, LeastIs, Zenon
<1> QED
  BY <1>5 DEF Oldest

\* Two arrays with the same pages.
SamePages(a, b) ==
  DOMAIN a = DOMAIN b /\ \A i \in DOMAIN a : a[i].page = b[i].page

\* Arrays that agree slot by slot hold the same pages, as often.
LEMMA SamePagesIs ==
  ASSUME NEW a, NEW b, SamePages(a, b)
  PROVE  /\ PagesOf(a) = PagesOf(b)
         /\ OneSlot(a) <=> OneSlot(b)
         /\ Full(a) <=> Full(b)
<1>1. PagesOf(a) = PagesOf(b)
  BY DEF SamePages, PagesOf
<1>2. OneSlot(a) <=> OneSlot(b)
  BY DEF SamePages, OneSlot
<1>3. Full(a) <=> Full(b)
  BY DEF SamePages, Full
<1> QED
  BY <1>1, <1>2, <1>3

\* A page is put in a slot, over what was there.
LEMMA PutIs ==
  ASSUME NEW n \in Nat, NEW slots \in Arrays(n), NEW k \in 0 .. n - 1, NEW c \in Cells,
         OneSlot(slots), c.page \in Pages, c.page \notin PagesOf(slots)
  PROVE  LET new == [slots EXCEPT ![k] = c]
         IN  /\ new \in Arrays(n)
             /\ new[k] = c
             /\ OneSlot(new)
             /\ PagesOf(new) = (PagesOf(slots) \ {slots[k].page}) \cup {c.page}
             /\ Full(slots) => Full(new)
<1> DEFINE new == [slots EXCEPT ![k] = c]
<1>1. /\ DOMAIN slots = 0 .. n - 1 /\ DOMAIN new = 0 .. n - 1
      /\ new[k] = c /\ \A i \in 0 .. n - 1 : i # k => new[i] = slots[i]
      /\ c.page # NoPage
  BY NoPageAssumption DEF Arrays
<1>2. new \in Arrays(n)
  BY DEF Arrays
<1> HIDE DEF new
<1>3. OneSlot(new)
  BY <1>1 DEF OneSlot, PagesOf
<1>4. PagesOf(new) = (PagesOf(slots) \ {slots[k].page}) \cup {c.page}
  <2>1. ASSUME NEW p \in PagesOf(new) PROVE p \in (PagesOf(slots) \ {slots[k].page}) \cup {c.page}
    <3>1. PICK i \in 0 .. n - 1 : new[i].page = p /\ p # NoPage
      BY <1>1 DEF PagesOf
    <3>2. CASE i = k
      BY <1>1, <3>1, <3>2
    <3>3. CASE i # k
      <4>1. slots[i].page = p /\ p \in PagesOf(slots)
        BY <1>1, <3>1, <3>3 DEF PagesOf
      <4>2. p # slots[k].page
        BY <1>1, <3>1, <3>3, <4>1 DEF OneSlot
      <4> QED
        BY <4>1, <4>2
    <3> QED
      BY <3>2, <3>3
  <2>2. ASSUME NEW p \in PagesOf(slots), p # slots[k].page PROVE p \in PagesOf(new)
    BY <1>1, <2>2 DEF PagesOf
  <2>3. c.page \in PagesOf(new)
    BY <1>1 DEF PagesOf
  <2> QED
    BY <2>1, <2>2, <2>3
<1>5. Full(slots) => Full(new)
  BY <1>1 DEF Full
<1> QED
  BY <1>1, <1>2, <1>3, <1>4, <1>5 DEF new

\* The slot of a page.
LEMMA SlotOfIs ==
  ASSUME NEW n \in Nat, NEW slots \in Arrays(n), OneSlot(slots), NEW p \in PagesOf(slots)
  PROVE  /\ SlotOf(slots, p) \in 0 .. n - 1
         /\ slots[SlotOf(slots, p)].page = p
         /\ \A k \in 0 .. n - 1 : slots[k].page = p => SlotOf(slots, p) = k
<1>1. DOMAIN slots = 0 .. n - 1 /\ p # NoPage
  BY DEF Arrays, PagesOf
<1>2. \E i \in DOMAIN slots : slots[i].page = p
  BY DEF PagesOf
<1>3. SlotOf(slots, p) \in DOMAIN slots /\ slots[SlotOf(slots, p)].page = p
  BY <1>2 DEF SlotOf
<1> QED
  BY <1>1, <1>3 DEF OneSlot

\* A level holds pages that were requested.
LEMMA PagesArePages ==
  ASSUME NEW n \in Nat, NEW slots \in Arrays(n)
  PROVE  PagesOf(slots) \subseteq Pages
BY DEF PagesOf, Arrays, Cells

\* What is written in a slot with a page.
LEMMA PlaceIs ==
  ASSUME NEW p \in Pages, NEW time \in Nat, NEW bit \in 0 .. 1
  PROVE  Place(p, time, bit) \in Cells /\ Place(p, time, bit).page = p
         /\ Place(p, time, bit).ref = bit
BY NoPageAssumption DEF Place, Cells

-----------------------------------------------------------------------------
(* isu_mmu_page_move *)

\* Whether L2 has an open slot, and the page that RAM would drop.
L2Open(m) == \E i \in 0 .. L2_SIZE - 1 : m.L2[i].page = NoPage
RamOldest(m) == m.RAM[Oldest(m.RAM, "access_time", DOMAIN m.RAM)].page

\* The pages in S, not in T, are one at most: the oldest of RAM, and L2 is full.
RamOldestOnly(m, S, T) == \A x \in S \ T : x = RamOldest(m)
OldestOnly(m, S, T) == \A x \in S \ T : ~L2Open(m) /\ x = RamOldest(m)

\* isu_mmu_page_move picks a slot, and the oldest one when all bits are clear.
LEMMA VictimIs ==
  ASSUME NEW n \in Nat \ {0}, NEW slots \in Arrays(n)
  PROVE  /\ Victim(slots) \in 0 .. n - 1
         /\ (\A i \in 0 .. n - 1 : slots[i].ref = 0) =>
              Victim(slots) = Oldest(slots, "access_time", DOMAIN slots)
<1> DEFINE S == {0} \cup Unreferenced(slots)
<1>1. DOMAIN slots = 0 .. n - 1 /\ 0 \in 0 .. n - 1 /\ "access_time" \in Times
  BY DEF Arrays, Times
<1>2. S \in SUBSET (0 .. n - 1) /\ S # {}
  BY <1>1 DEF Unreferenced
<1>3. Oldest(slots, "access_time", S) \in 0 .. n - 1
  BY <1>1, <1>2, OldestIs
<1>4. Oldest(slots, "access_time", DOMAIN slots) \in 0 .. n - 1
  <2>1. (0 .. n - 1) \in SUBSET (0 .. n - 1) /\ (0 .. n - 1) # {}
    BY <1>1
  <2> QED
    BY <1>1, <2>1, OldestIs
<1>5. ASSUME \A i \in 0 .. n - 1 : slots[i].ref = 0 PROVE S = DOMAIN slots
  BY <1>1, <1>5 DEF Unreferenced
<1> QED
  BY <1>3, <1>4, <1>5 DEF Victim

\* A page moved to RAM is there, once, and displaces at most the oldest.
LEMMA MoveToRamIs ==
  ASSUME NEW m \in Memories, NEW p \in Pages, OneSlot(m.RAM), p \notin PagesOf(m.RAM)
  PROVE  LET n == move_to_ram(m, p)
         IN  /\ n \in Memories
             /\ n.L1 = m.L1 /\ n.L2 = m.L2 /\ n.hand = m.hand
             /\ OneSlot(n.RAM)
             /\ p \in PagesOf(n.RAM)
             /\ PagesOf(n.RAM) \subseteq PagesOf(m.RAM) \cup {p}
             /\ BitsClear(m) => /\ BitsClear(n)
                               /\ RamOldestOnly(m, PagesOf(m.RAM), PagesOf(n.RAM))
<1> DEFINE open == {i \in 0 .. L2_SIZE - 1 : m.RAM[i].page = NoPage}
           slot == IF open # {} THEN Least(open) ELSE Victim(m.RAM)
           c == Place(p, m.t + 1, 0)
           n == move_to_ram(m, p)
<1>1. m.RAM \in Arrays(RAM_SIZE) /\ DOMAIN m.RAM = 0 .. RAM_SIZE - 1 /\ m.t \in Nat
  BY DEF Memories, Arrays
<1>2. slot \in 0 .. RAM_SIZE - 1
  <2>1. CASE open # {}
    <3>1. open \in SUBSET Nat
      OBVIOUS
    <3>2. Least(open) \in open
      BY <2>1, <3>1, LeastIs, Zenon
    <3> QED
      BY <2>1, <3>2, Sizes
  <2>2. CASE open = {}
    BY <1>1, <2>2, Sizes, VictimIs
  <2> QED
    BY <2>1, <2>2
<1>3. c \in Cells /\ c.page = p /\ c.ref = 0
  BY <1>1, PlaceIs
<1>4. n = [m EXCEPT !.t = @ + 1, !.RAM[slot] = c]
  BY DEF move_to_ram
<1> HIDE DEF c, n, slot
<1>5. n.RAM = [m.RAM EXCEPT ![slot] = c] /\ n.t = m.t + 1
      /\ n.L1 = m.L1 /\ n.L2 = m.L2 /\ n.hand = m.hand
  BY <1>4 DEF Memories
<1>6. /\ n.RAM \in Arrays(RAM_SIZE) /\ n.RAM[slot] = c /\ OneSlot(n.RAM)
      /\ PagesOf(n.RAM) = (PagesOf(m.RAM) \ {m.RAM[slot].page}) \cup {p}
  BY <1>1, <1>2, <1>3, <1>5, Sizes, PutIs
<1>7. n \in Memories
  <2>1. n = [L1 |-> m.L1, L2 |-> m.L2, RAM |-> n.RAM, hand |-> m.hand, t |-> m.t + 1]
    BY <1>4, <1>5 DEF Memories
  <2> QED
    BY <1>1, <1>6, <2>1 DEF Memories
<1>8. ASSUME BitsClear(m)
      PROVE  BitsClear(n) /\ RamOldestOnly(m, PagesOf(m.RAM), PagesOf(n.RAM))
  <2>1. BitsClear(n)
    BY <1>1, <1>2, <1>3, <1>5, <1>8 DEF BitsClear
  <2>2. ASSUME NEW x \in PagesOf(m.RAM) \ PagesOf(n.RAM) PROVE x = RamOldest(m)
    <3>1. x = m.RAM[slot].page /\ x # NoPage
      BY <1>6 DEF PagesOf
    <3>2. open = {}
      <4>1. SUFFICES ASSUME open # {} PROVE FALSE
        OBVIOUS
      <4>2. open \in SUBSET Nat
        OBVIOUS
      <4>3. slot \in open
        BY <4>1, <4>2, LeastIs, Zenon DEF slot
      <4> QED
        BY <3>1, <4>3
    <3>3. slot = Oldest(m.RAM, "access_time", DOMAIN m.RAM)
      BY <1>1, <1>8, <3>2, Sizes, VictimIs DEF BitsClear, slot
    <3> QED
      BY <3>1, <3>3 DEF RamOldest
  <2> QED
    BY <2>1, <2>2 DEF RamOldestOnly
<1> QED
  BY <1>3, <1>5, <1>6, <1>7, <1>8 DEF n

\* A page moved to L2 is there, once; what L2 loses RAM gets.
LEMMA MoveToL2Is ==
  ASSUME NEW m \in Memories, NEW p \in Pages, OneSlot(m.L2), OneSlot(m.RAM),
         PagesOf(m.L2) \cap PagesOf(m.RAM) = {},
         p \notin PagesOf(m.L2) \cup PagesOf(m.RAM)
  PROVE  LET n == move_to_l2(m, p)
             before == PagesOf(m.L2) \cup PagesOf(m.RAM)
             after == PagesOf(n.L2) \cup PagesOf(n.RAM)
         IN  /\ n \in Memories
             /\ n.L1 = m.L1 /\ n.hand = m.hand
             /\ OneSlot(n.L2) /\ OneSlot(n.RAM)
             /\ PagesOf(n.L2) \cap PagesOf(n.RAM) = {}
             /\ p \in after
             /\ after \subseteq before \cup {p}
             /\ BitsClear(m) => BitsClear(n) /\ OldestOnly(m, before, after)
<1> DEFINE open == {i \in DOMAIN m.L2 : m.L2[i].page = NoPage}
           slot == IF open # {} THEN Least(open) ELSE Victim(m.L2)
           q == m.L2[slot].page
           room == IF open # {} THEN m ELSE move_to_ram(m, q)
           c == Place(p, room.t + 1, 0)
           n == move_to_l2(m, p)
<1>1. m.L2 \in Arrays(L2_SIZE) /\ DOMAIN m.L2 = 0 .. L2_SIZE - 1
  BY DEF Memories, Arrays
<1>2. slot \in 0 .. L2_SIZE - 1 /\ (open # {} => q = NoPage)
  <2>1. CASE open # {}
    <3>1. open \in SUBSET Nat
      BY <1>1
    <3>2. Least(open) \in open
      BY <2>1, <3>1, LeastIs, Zenon
    <3> QED
      BY <1>1, <2>1, <3>2
  <2>2. CASE open = {}
    BY <1>1, <2>2, Sizes, VictimIs
  <2> QED
    BY <2>1, <2>2
<1>3. open = {} => q \in PagesOf(m.L2) /\ q \in Pages /\ q \notin PagesOf(m.RAM)
  <2> SUFFICES ASSUME open = {} PROVE q \in PagesOf(m.L2)
    BY <1>1, PagesArePages, Sizes
  <2> QED
    BY <1>1, <1>2 DEF PagesOf
<1>4. n = [room EXCEPT !.t = @ + 1, !.L2[slot] = c]
  BY DEF move_to_l2
<1> HIDE DEF slot, n
<1>5. /\ room \in Memories
      /\ room.L1 = m.L1 /\ room.L2 = m.L2 /\ room.hand = m.hand
      /\ OneSlot(room.RAM)
      /\ open # {} => room.RAM = m.RAM
      /\ open = {} => /\ q \in PagesOf(room.RAM)
                     /\ PagesOf(room.RAM) \subseteq PagesOf(m.RAM) \cup {q}
      /\ BitsClear(m) => /\ BitsClear(room)
                        /\ RamOldestOnly(m, PagesOf(m.RAM), PagesOf(room.RAM))
  <2>1. CASE open # {}
    BY <2>1 DEF RamOldestOnly
  <2>2. CASE open = {}
    BY <1>3, <2>2, MoveToRamIs
  <2> QED
    BY <2>1, <2>2
<1> HIDE DEF room, q
<1>6. room.t \in Nat
  BY <1>5 DEF Memories
<1>7. c \in Cells /\ c.page = p /\ c.ref = 0
  BY <1>6, PlaceIs
<1> HIDE DEF c
<1>8. n.L2 = [m.L2 EXCEPT ![slot] = c] /\ n.t = room.t + 1
      /\ n.L1 = m.L1 /\ n.RAM = room.RAM /\ n.hand = m.hand
  BY <1>4, <1>5 DEF Memories
<1>9. /\ n.L2 \in Arrays(L2_SIZE) /\ OneSlot(n.L2)
      /\ PagesOf(n.L2) = (PagesOf(m.L2) \ {q}) \cup {p}
  BY <1>1, <1>2, <1>7, <1>8, Sizes, PutIs DEF q
<1>10. n \in Memories
  <2>1. n = [L1 |-> m.L1, L2 |-> n.L2, RAM |-> room.RAM, hand |-> m.hand, t |-> room.t + 1]
    BY <1>4, <1>5, <1>8 DEF Memories
  <2> QED
    BY <1>5, <1>6, <1>9, <2>1 DEF Memories
<1>11. /\ PagesOf(n.L2) \cap PagesOf(n.RAM) = {}
       /\ PagesOf(n.L2) \cup PagesOf(n.RAM) \subseteq PagesOf(m.L2) \cup PagesOf(m.RAM) \cup {p}
  BY <1>3, <1>5, <1>8, <1>9
<1>12. ASSUME BitsClear(m)
       PROVE  /\ BitsClear(n)
              /\ OldestOnly(m, PagesOf(m.L2) \cup PagesOf(m.RAM), PagesOf(n.L2) \cup PagesOf(n.RAM))
  <2>1. BitsClear(n)
    BY <1>5, <1>8, <1>12 DEF BitsClear
  <2>2. q \notin PagesOf(m.L2) \/ q \in PagesOf(n.RAM)
    BY <1>2, <1>5, <1>8 DEF PagesOf
  <2>3. ASSUME NEW x \in (PagesOf(m.L2) \cup PagesOf(m.RAM)) \ (PagesOf(n.L2) \cup PagesOf(n.RAM))
        PROVE  ~L2Open(m) /\ x = RamOldest(m)
    <3>1. x \in PagesOf(m.RAM) \ PagesOf(room.RAM)
      BY <1>8, <1>9, <2>2, <2>3
    <3>2. open = {}
      BY <1>5, <3>1
    <3>3. ~L2Open(m)
      BY <1>1, <3>2 DEF L2Open
    <3> QED
      BY <1>5, <1>12, <3>1, <3>3 DEF RamOldestOnly
  <2> QED
    BY <2>1, <2>3 DEF OldestOnly
<1> QED
  BY <1>5, <1>8, <1>9, <1>10, <1>11, <1>12 DEF n

-----------------------------------------------------------------------------
(* isu_mmu_page_fetch and isu_mmu_page_swap *)

\* The pages a request for p takes out of memory.
Lost(m, n) == OldestOnly(m, Resident(m), Resident(n))

\* What bringing p to L1 makes of memory m.
Brings(m, n, p) ==
  /\ Good(n)
  /\ n.hand = m.hand
  /\ p \in PagesOf(n.L1)

\* A page read from the disk replaces one of L1, and only RAM loses a page.
LEMMA ReplaceIs ==
  ASSUME NEW m, Good(m), Full(m.L1), NEW slot \in 0 .. L1_SIZE - 1,
         NEW p \in Pages, p \notin Resident(m)
  PROVE  LET n == Replace(m, slot, p)
         IN  Brings(m, n, p) /\ (BitsClear(m) => BitsClear(n) /\ Lost(m, n))
<1> DEFINE q == m.L1[slot].page
           moved == move_to_l2(m, q)
           c == Place(p, moved.t + 1, 1)
           n == Replace(m, slot, p)
<1>1. m \in Memories /\ Apart(m)
  BY DEF Good
<1>2. m.L1 \in Arrays(L1_SIZE) /\ DOMAIN m.L1 = 0 .. L1_SIZE - 1
  BY <1>1 DEF Memories, Arrays
<1>3. q \in PagesOf(m.L1) /\ q \in Pages
  <2>1. q \in PagesOf(m.L1)
    BY <1>2 DEF PagesOf, Full
  <2> QED
    BY <1>2, <2>1, Sizes, PagesArePages
<1>4. q \notin PagesOf(m.L2) \cup PagesOf(m.RAM)
  BY <1>1, <1>3 DEF Apart
<1> HIDE DEF q
<1>5. /\ moved \in Memories /\ moved.L1 = m.L1 /\ moved.hand = m.hand
      /\ OneSlot(moved.L2) /\ OneSlot(moved.RAM)
      /\ PagesOf(moved.L2) \cap PagesOf(moved.RAM) = {}
      /\ q \in PagesOf(moved.L2) \cup PagesOf(moved.RAM)
      /\ PagesOf(moved.L2) \cup PagesOf(moved.RAM) \subseteq PagesOf(m.L2) \cup PagesOf(m.RAM) \cup {q}
      /\ BitsClear(m) =>
           /\ BitsClear(moved)
           /\ OldestOnly(m, PagesOf(m.L2) \cup PagesOf(m.RAM), PagesOf(moved.L2) \cup PagesOf(moved.RAM))
  BY <1>1, <1>3, <1>4, MoveToL2Is DEF Apart
<1>6. n = [moved EXCEPT !.t = @ + 1, !.L1[slot] = c]
  BY DEF Replace, q
<1> HIDE DEF moved, n
<1>7. c \in Cells /\ c.page = p
  BY <1>5, PlaceIs DEF Memories
<1> HIDE DEF c
<1>8. n.L1 = [m.L1 EXCEPT ![slot] = c] /\ n.L2 = moved.L2 /\ n.RAM = moved.RAM
      /\ n.hand = m.hand /\ n.t = moved.t + 1
  BY <1>5, <1>6 DEF Memories
<1>9. /\ n.L1 \in Arrays(L1_SIZE) /\ OneSlot(n.L1) /\ Full(n.L1)
      /\ PagesOf(n.L1) = (PagesOf(m.L1) \ {q}) \cup {p}
  BY <1>1, <1>2, <1>7, <1>8, Sizes, PutIs DEF Apart, Resident, q
<1>10. n \in Memories
  <2>1. n = [L1 |-> n.L1, L2 |-> moved.L2, RAM |-> moved.RAM, hand |-> moved.hand, t |-> moved.t + 1]
    BY <1>5, <1>6, <1>8 DEF Memories
  <2> QED
    BY <1>5, <1>9, <2>1 DEF Memories
<1>11. Apart(n)
  <2>1. PagesOf(n.L1) \cap (PagesOf(n.L2) \cup PagesOf(n.RAM)) = {}
    BY <1>1, <1>3, <1>5, <1>8, <1>9 DEF Apart, Resident
  <2> QED
    BY <1>5, <1>8, <1>9, <2>1 DEF Apart
<1>12. Brings(m, n, p)
  BY <1>8, <1>9, <1>10, <1>11 DEF Brings, Good, FirstFull
<1>13. ASSUME BitsClear(m) PROVE BitsClear(n) /\ Lost(m, n)
  <2>1. BitsClear(n)
    BY <1>5, <1>8, <1>13 DEF BitsClear
  <2>2. Lost(m, n)
    BY <1>5, <1>8, <1>9, <1>13 DEF Lost, OldestOnly, Resident
  <2> QED
    BY <2>1, <2>2
<1> QED
  BY <1>12, <1>13 DEF n

\* A page that is nowhere is read from the disk.
LEMMA FetchIs ==
  ASSUME NEW m, Good(m), NEW mode \in 0 .. 4, mode = 2 => m.hand < L1_SIZE,
         NEW p \in Pages, p \notin Resident(m)
  PROVE  LET n == isu_mmu_page_fetch(m, mode, p)
         IN  /\ Good(n) /\ n.hand = m.hand
             /\ mode \in 0 .. 2 => p \in PagesOf(n.L1)
             /\ BitsClear(m) => BitsClear(n) /\ Lost(m, n)
<1> DEFINE open == {i \in DOMAIN m.L1 : m.L1[i].page = NoPage}
           candidates == {0} \cup Unreferenced(m.L1)
           n == isu_mmu_page_fetch(m, mode, p)
<1>1. m \in Memories /\ Apart(m) /\ m.L1 \in Arrays(L1_SIZE) /\ DOMAIN m.L1 = 0 .. L1_SIZE - 1
      /\ m.hand \in 0 .. L1_SIZE /\ m.t \in Nat
  BY DEF Good, Memories, Arrays
<1>2. CASE open # {}
  <2> DEFINE c == Place(p, m.t + 1, IF mode < 2 THEN 1 ELSE 0)
             k == Least(open)
  <2>1. k \in 0 .. L1_SIZE - 1
    <3>1. open \in SUBSET Nat
      BY <1>1
    <3>2. Least(open) \in open
      BY <1>2, <3>1, LeastIs, Zenon
    <3> QED
      BY <1>1, <3>2
  <2>2. c \in Cells /\ c.page = p
    <3>1. (IF mode < 2 THEN 1 ELSE 0) \in 0 .. 1
      OBVIOUS
    <3> QED
      BY <1>1, <3>1, PlaceIs
  <2>3. n = [m EXCEPT !.t = @ + 1, !.L1[k] = c]
    BY <1>2 DEF isu_mmu_page_fetch
  <2>4. PagesOf(m.L2) \cup PagesOf(m.RAM) = {}
    BY <1>2 DEF Good, FirstFull, Full
  <2> HIDE DEF c, k, n
  <2>5. n.L1 = [m.L1 EXCEPT ![k] = c] /\ n.L2 = m.L2 /\ n.RAM = m.RAM /\ n.hand = m.hand
        /\ n = [L1 |-> n.L1, L2 |-> m.L2, RAM |-> m.RAM, hand |-> m.hand, t |-> m.t + 1]
    BY <1>1, <2>3 DEF Memories
  <2>6. /\ n.L1 \in Arrays(L1_SIZE) /\ OneSlot(n.L1)
        /\ PagesOf(n.L1) = (PagesOf(m.L1) \ {m.L1[k].page}) \cup {p}
    <3>1. OneSlot(m.L1) /\ c.page \in Pages /\ c.page \notin PagesOf(m.L1) /\ L1_SIZE \in Nat
      BY <1>1, <2>2, Sizes DEF Apart, Resident
    <3> DEFINE new == [m.L1 EXCEPT ![k] = c]
    <3>2. m.L1 \in Arrays(L1_SIZE) /\ c \in Cells
      BY <1>1, <2>2
    <3>3. /\ new \in Arrays(L1_SIZE) /\ OneSlot(new)
          /\ PagesOf(new) = (PagesOf(m.L1) \ {m.L1[k].page}) \cup {c.page}
      BY <2>1, <3>1, <3>2, PutIs
    <3> QED
      BY <2>2, <2>5, <3>3
  <2>7. m.L1[k].page = NoPage
    <3>1. open \in SUBSET Nat
      BY <1>1
    <3>2. k \in open
      BY <1>2, <3>1, LeastIs, Zenon DEF k
    <3> QED
      BY <3>2
  <2>8. n \in Memories
    BY <1>1, <2>5, <2>6 DEF Memories
  <2>9. Apart(n)
    BY <1>1, <2>4, <2>5, <2>6 DEF Apart
  <2>10. Good(n) /\ n.hand = m.hand /\ p \in PagesOf(n.L1)
    BY <2>4, <2>5, <2>6, <2>8, <2>9 DEF Good, FirstFull
  <2>11. BitsClear(m) => BitsClear(n)
    BY <2>5 DEF BitsClear
  <2>12. Lost(m, n)
    BY <2>4, <2>5, <2>6, <2>7 DEF Lost, OldestOnly, Resident, PagesOf
  <2> QED
    BY <2>10, <2>11, <2>12 DEF n
<1>3. CASE open = {}
  <2>1. Full(m.L1)
    BY <1>3 DEF Full
  <2>2. candidates \in SUBSET (0 .. L1_SIZE - 1) /\ candidates # {}
    BY <1>1, Sizes DEF Unreferenced
  <2>3. Oldest(m.L1, "placement_time", candidates) \in 0 .. L1_SIZE - 1
    BY <1>1, <2>2, Sizes, OldestIs DEF Times
  <2>4. Oldest(m.L1, "access_time", candidates) \in 0 .. L1_SIZE - 1
    BY <1>1, <2>2, Sizes, OldestIs DEF Times
  <2>5. ASSUME NEW k \in 0 .. L1_SIZE - 1, n = Replace(m, k, p)
        PROVE  /\ Good(n) /\ n.hand = m.hand /\ p \in PagesOf(n.L1)
               /\ BitsClear(m) => BitsClear(n) /\ Lost(m, n)
    BY <2>1, <2>5, ReplaceIs DEF Brings
  <2>6. CASE mode \in {0, 1, 2}
    <3>1. n = Replace(m, IF mode = 0 THEN Oldest(m.L1, "placement_time", candidates)
                         ELSE IF mode = 1 THEN Oldest(m.L1, "access_time", candidates)
                         ELSE m.hand, p)
      BY <1>3, <2>6 DEF isu_mmu_page_fetch
    <3>2. m.hand \in 0 .. L1_SIZE - 1 \/ mode # 2
      BY <1>1, Sizes
    <3> QED
      BY <2>3, <2>4, <2>5, <2>6, <3>1, <3>2
  <2>7. CASE mode \notin {0, 1, 2}
    <3>1. n = m
      BY <1>3, <2>7 DEF isu_mmu_page_fetch
    <3> QED
      BY <2>7, <3>1 DEF Lost, OldestOnly
  <2> QED
    BY <2>6, <2>7
<1> QED
  BY <1>2, <1>3

\* The slot a page is swapped into holds that page.
LEMMA SwapInIs ==
  ASSUME NEW cell \in Cells, NEW p \in Pages, NEW time \in Nat, NEW mode
  PROVE  SwapIn(cell, p, time, mode) \in Cells /\ SwapIn(cell, p, time, mode).page = p
<1>1. (IF mode < 2 THEN 1 ELSE cell.ref) \in 0 .. 1
  BY DEF Cells
<1> QED
  BY <1>1, PlaceIs DEF SwapIn

\* Clearing its bit leaves a slot what it is.
LEMMA ClearIs ==
  ASSUME NEW cell \in Cells
  PROVE  [cell EXCEPT !.ref = 0] \in Cells /\ [cell EXCEPT !.ref = 0].page = cell.page
BY DEF Cells

\* What is in a slot of a level.
LEMMA CellIs ==
  ASSUME NEW n \in Nat, NEW slots \in Arrays(n), NEW i \in 0 .. n - 1
  PROVE  slots[i] \in Cells
BY DEF Arrays

\* A memory is made of its levels, the hand and the time.
LEMMA MemoryIs ==
  ASSUME NEW a \in Arrays(L1_SIZE), NEW b \in Arrays(L2_SIZE), NEW c \in Arrays(RAM_SIZE),
         NEW h \in 0 .. L1_SIZE, NEW t \in Nat
  PROVE  [L1 |-> a, L2 |-> b, RAM |-> c, hand |-> h, t |-> t] \in Memories
BY DEF Memories

\* A page of a lower level changes places with a page of L1.
LEMMA SwapIs ==
  ASSUME NEW m, Good(m), NEW k \in 0 .. L1_SIZE - 1, NEW mode \in 0 .. 4,
         NEW p, NEW level \in {1, 2},
         level = 1 => p \in PagesOf(m.L2),
         level = 2 => p \in PagesOf(m.RAM)
  PROVE  LET n == isu_mmu_page_swap(m, mode, m.L1[k].page, p, level)
         IN  /\ Brings(m, n, p)
             /\ Resident(n) = Resident(m)
             /\ BitsClearBut(m, p) => BitsClear(n)
<1> DEFINE old == m.L1[k].page
           r == SlotOf(m.L1, old)
           in == SwapIn(m.L1[r], p, m.t + 1, mode)
           L1 == [m.L1 EXCEPT ![r] = in]
           out == Place(old, m.t + 2, 0)
           n == isu_mmu_page_swap(m, mode, old, p, level)
<1>1. /\ m \in Memories /\ Apart(m) /\ m.t \in Nat
      /\ m.L1 \in Arrays(L1_SIZE) /\ DOMAIN m.L1 = 0 .. L1_SIZE - 1
      /\ m.L2 \in Arrays(L2_SIZE) /\ DOMAIN m.L2 = 0 .. L2_SIZE - 1
      /\ m.RAM \in Arrays(RAM_SIZE) /\ DOMAIN m.RAM = 0 .. RAM_SIZE - 1
  BY DEF Good, Memories, Arrays
<1>2. p \in PagesOf(m.L2) \cup PagesOf(m.RAM) /\ p \in Pages /\ p \notin PagesOf(m.L1)
  <2>1. p \in PagesOf(m.L2) \cup PagesOf(m.RAM)
    OBVIOUS
  <2>2. PagesOf(m.L2) \subseteq Pages /\ PagesOf(m.RAM) \subseteq Pages
    BY <1>1, Sizes, PagesArePages
  <2> QED
    BY <1>1, <2>1, <2>2 DEF Apart
<1>3. Full(m.L1)
  BY <1>2 DEF Good, FirstFull
<1>4. /\ old \in PagesOf(m.L1) /\ old \in Pages /\ old # NoPage
      /\ old \notin PagesOf(m.L2) \cup PagesOf(m.RAM)
  <2>1. old \in PagesOf(m.L1) /\ old # NoPage
    BY <1>1, <1>3 DEF PagesOf, Full
  <2>2. PagesOf(m.L1) \subseteq Pages
    BY <1>1, Sizes, PagesArePages
  <2> QED
    BY <1>1, <2>1, <2>2 DEF Apart
<1> HIDE DEF old
<1>5. r \in 0 .. L1_SIZE - 1 /\ m.L1[r].page = old
  BY <1>1, <1>4, Sizes, SlotOfIs DEF Apart
<1> HIDE DEF r
<1>6. in \in Cells /\ in.page = p
  <2>1. m.L1[r] \in Cells /\ m.t + 1 \in Nat
    BY <1>1, <1>5, Sizes, CellIs
  <2> QED
    BY <1>2, <2>1, SwapInIs
<1>7. out \in Cells /\ out.page = old /\ out.ref = 0
  <2>1. m.t + 2 \in Nat /\ 0 \in 0 .. 1
    BY <1>1
  <2> QED
    BY <1>4, <2>1, PlaceIs
<1> HIDE DEF in, out
<1>8. /\ L1 \in Arrays(L1_SIZE) /\ OneSlot(L1) /\ Full(L1)
      /\ PagesOf(L1) = (PagesOf(m.L1) \ {old}) \cup {p}
  <2>1. OneSlot(m.L1) /\ in.page \in Pages /\ in.page \notin PagesOf(m.L1) /\ L1_SIZE \in Nat
    BY <1>1, <1>2, <1>6, Sizes DEF Apart
  <2> QED
    BY <1>1, <1>3, <1>5, <1>6, <2>1, PutIs
<1>9. CASE level = 1
  <2> DEFINE s == SlotOf(m.L2, p)
             L2 == [m.L2 EXCEPT ![s] = out]
  <2>1. s \in 0 .. L2_SIZE - 1 /\ m.L2[s].page = p
    BY <1>1, <1>9, Sizes, SlotOfIs DEF Apart
  <2> HIDE DEF s
  <2>2. /\ L2 \in Arrays(L2_SIZE) /\ OneSlot(L2)
        /\ PagesOf(L2) = (PagesOf(m.L2) \ {p}) \cup {old}
    <3>1. OneSlot(m.L2) /\ out.page \in Pages /\ out.page \notin PagesOf(m.L2) /\ L2_SIZE \in Nat
      BY <1>1, <1>4, <1>7, Sizes DEF Apart
    <3> QED
      BY <1>1, <1>7, <2>1, <3>1, PutIs
  <2>3. n = [m EXCEPT !.t = @ + 2, !.L1 = L1,
                !.L2 = [i \in DOMAIN @ |->
                          IF i = s THEN out
                          ELSE IF i = r /\ mode >= 2 THEN [@[i] EXCEPT !.ref = 0] ELSE @[i]]]
    BY <1>4, <1>9 DEF isu_mmu_page_swap, old, r, in, out, s
  <2> HIDE DEF n, L1
  <2>4. /\ n.L1 = L1 /\ n.RAM = m.RAM /\ n.hand = m.hand
        /\ n.L2 = [i \in DOMAIN m.L2 |->
                     IF i = s THEN out
                     ELSE IF i = r /\ mode >= 2 THEN [m.L2[i] EXCEPT !.ref = 0] ELSE m.L2[i]]
        /\ n = [L1 |-> n.L1, L2 |-> n.L2, RAM |-> m.RAM, hand |-> m.hand, t |-> m.t + 2]
    BY <1>1, <2>3 DEF Memories
  <2>5. n.L2 \in Arrays(L2_SIZE) /\ SamePages(n.L2, L2)
    <3>1. DOMAIN n.L2 = 0 .. L2_SIZE - 1 /\ DOMAIN L2 = 0 .. L2_SIZE - 1
      BY <1>1, <2>4
    <3>2. \A i \in 0 .. L2_SIZE - 1 : n.L2[i] \in Cells /\ n.L2[i].page = L2[i].page
      <4> TAKE i \in 0 .. L2_SIZE - 1
      <4>1. m.L2[i] \in Cells /\ L2[i] = IF i = s THEN out ELSE m.L2[i]
        BY <1>1, <2>1 DEF Arrays
      <4>2. [m.L2[i] EXCEPT !.ref = 0] \in Cells /\ [m.L2[i] EXCEPT !.ref = 0].page = m.L2[i].page
        BY <4>1, ClearIs
      <4> QED
        BY <1>1, <1>7, <2>4, <4>1, <4>2
    <3>3. n.L2 = [i \in 0 .. L2_SIZE - 1 |-> n.L2[i]]
      BY <1>1, <2>4
    <3> QED
      BY <3>1, <3>2, <3>3 DEF Arrays, SamePages
  <2>6. OneSlot(n.L2) /\ PagesOf(n.L2) = (PagesOf(m.L2) \ {p}) \cup {old}
    BY <2>2, <2>5, SamePagesIs
  <2>7. n \in Memories
    <3>1. n.L1 \in Arrays(L1_SIZE) /\ m.hand \in 0 .. L1_SIZE /\ m.t + 2 \in Nat
      BY <1>1, <1>8, <2>4 DEF Memories
    <3>2. [L1 |-> n.L1, L2 |-> n.L2, RAM |-> m.RAM, hand |-> m.hand, t |-> m.t + 2] \in Memories
      BY <1>1, <2>5, <3>1, MemoryIs
    <3> QED
      BY <2>4, <3>2
  <2>8. Apart(n)
    BY <1>1, <1>2, <1>4, <1>8, <1>9, <2>4, <2>6 DEF Apart
  <2>9. Brings(m, n, p)
    BY <1>8, <2>4, <2>7, <2>8 DEF Brings, Good, FirstFull
  <2>10. Resident(n) = Resident(m)
    BY <1>2, <1>4, <1>8, <1>9, <2>4, <2>6 DEF Resident
  <2>11. BitsClearBut(m, p) => BitsClear(n)
    <3>1. \A i \in DOMAIN m.RAM : m.RAM[i].page # p
      BY <1>1, <1>2, <1>9 DEF Apart, PagesOf
    <3> QED
      BY <2>4, <3>1 DEF BitsClearBut, BitsClear
  <2> QED
    BY <2>9, <2>10, <2>11 DEF n, old
<1>10. CASE level = 2
  <2> DEFINE s == SlotOf(m.RAM, p)
             K1 == IF mode < 2 THEN L1 ELSE [L1 EXCEPT ![r].ref = 0]
  <2>1. s \in 0 .. RAM_SIZE - 1 /\ m.RAM[s].page = p /\ p \in PagesOf(m.RAM)
        /\ \A i \in 0 .. RAM_SIZE - 1 : m.RAM[i].page = p => s = i
    BY <1>1, <1>10, Sizes, SlotOfIs DEF Apart
  <2>2. n = [m EXCEPT !.t = @ + 2, !.L1 = K1, !.RAM[s] = out]
    BY <1>4, <1>10 DEF isu_mmu_page_swap, old, r, in, out
  <2> HIDE DEF s, n, L1
  <2>3. K1 \in Arrays(L1_SIZE) /\ SamePages(K1, L1)
    <3>1. L1[r] \in Cells /\ DOMAIN L1 = 0 .. L1_SIZE - 1
      BY <1>5, <1>8 DEF Arrays
    <3>2. [L1[r] EXCEPT !.ref = 0] \in Cells /\ [L1[r] EXCEPT !.ref = 0].page = L1[r].page
      BY <3>1, ClearIs
    <3>3. [L1 EXCEPT ![r].ref = 0] = [L1 EXCEPT ![r] = [L1[r] EXCEPT !.ref = 0]]
      BY <1>8 DEF Arrays
    <3> QED
      BY <1>5, <1>8, <3>1, <3>2, <3>3 DEF Arrays, SamePages
  <2>4. /\ n.L1 = K1 /\ n.L2 = m.L2 /\ n.RAM = [m.RAM EXCEPT ![s] = out] /\ n.hand = m.hand
        /\ n = [L1 |-> n.L1, L2 |-> m.L2, RAM |-> n.RAM, hand |-> m.hand, t |-> m.t + 2]
    BY <1>1, <2>2 DEF Memories
  <2>5. /\ n.RAM \in Arrays(RAM_SIZE) /\ OneSlot(n.RAM)
        /\ PagesOf(n.RAM) = (PagesOf(m.RAM) \ {p}) \cup {old}
    <3>1. OneSlot(m.RAM) /\ out.page \in Pages /\ out.page \notin PagesOf(m.RAM) /\ RAM_SIZE \in Nat
      BY <1>1, <1>4, <1>7, Sizes DEF Apart
    <3> DEFINE new == [m.RAM EXCEPT ![s] = out]
    <3>3. m.RAM \in Arrays(RAM_SIZE) /\ s \in 0 .. RAM_SIZE - 1 /\ out \in Cells
      BY <1>1, <1>7, <2>1
    <3>2. /\ new \in Arrays(RAM_SIZE) /\ OneSlot(new)
          /\ PagesOf(new) = (PagesOf(m.RAM) \ {m.RAM[s].page}) \cup {out.page}
      <4> HIDE DEF out
      <4> QED
        BY <3>1, <3>3, PutIs
    <3> QED
      BY <1>7, <2>1, <2>4, <3>2
  <2>6. /\ OneSlot(n.L1) /\ Full(n.L1)
        /\ PagesOf(n.L1) = (PagesOf(m.L1) \ {old}) \cup {p}
    BY <1>8, <2>3, <2>4, SamePagesIs
  <2>7. n \in Memories
    BY <1>1, <2>3, <2>4, <2>5 DEF Memories
  <2>8. Apart(n)
    <3>1. /\ PagesOf(n.L1) \cap PagesOf(m.L2) = {}
          /\ PagesOf(n.L1) \cap PagesOf(n.RAM) = {}
          /\ PagesOf(m.L2) \cap PagesOf(n.RAM) = {}
      BY <1>1, <1>2, <1>4, <2>1, <2>5, <2>6 DEF Apart
    <3> QED
      BY <1>1, <2>4, <2>5, <2>6, <3>1 DEF Apart
  <2>9. Brings(m, n, p)
    BY <2>4, <2>6, <2>7, <2>8 DEF Brings, Good, FirstFull
  <2>10. Resident(n) = Resident(m)
    BY <1>2, <1>4, <2>1, <2>4, <2>5, <2>6 DEF Resident
  <2>11. BitsClearBut(m, p) => BitsClear(n)
    BY <1>1, <1>7, <2>1, <2>4 DEF BitsClearBut, BitsClear
  <2> QED
    BY <2>9, <2>10, <2>11 DEF n, old
<1> QED
  BY <1>9, <1>10

-----------------------------------------------------------------------------
(* The replacement algorithms: what is done to the bits and times. *)

\* A memory with the same pages in the same slots.
SameLevels(m, n) ==
  /\ n \in Memories
  /\ SamePages(m.L1, n.L1) /\ SamePages(m.L2, n.L2) /\ SamePages(m.RAM, n.RAM)

\* Bits, times, hand and clock do not matter to where the pages are.
LEMMA SameLevelsIs ==
  ASSUME NEW m, NEW n, Good(m), SameLevels(m, n)
  PROVE  /\ Good(n)
         /\ PagesOf(n.L1) = PagesOf(m.L1)
         /\ PagesOf(n.L2) = PagesOf(m.L2)
         /\ PagesOf(n.RAM) = PagesOf(m.RAM)
         /\ Resident(n) = Resident(m)
<1>1. /\ PagesOf(n.L1) = PagesOf(m.L1) /\ PagesOf(n.L2) = PagesOf(m.L2)
      /\ PagesOf(n.RAM) = PagesOf(m.RAM)
      /\ OneSlot(m.L1) <=> OneSlot(n.L1)
      /\ OneSlot(m.L2) <=> OneSlot(n.L2)
      /\ OneSlot(m.RAM) <=> OneSlot(n.RAM)
      /\ Full(m.L1) <=> Full(n.L1)
  BY SamePagesIs DEF SameLevels
<1>2. Apart(n)
  BY <1>1 DEF Good, Apart
<1>3. FirstFull(n)
  BY <1>1 DEF Good, FirstFull
<1> QED
  BY <1>1, <1>2, <1>3 DEF Good, SameLevels, Resident

\* An array has the pages it has.
LEMMA SamePagesRefl == ASSUME NEW a PROVE SamePages(a, a)
BY DEF SamePages

\* An array whose slots keep their pages.
LEMMA Rewritten ==
  ASSUME NEW n \in Nat, NEW a \in Arrays(n), NEW b, DOMAIN b = 0 .. n - 1,
         b = [i \in 0 .. n - 1 |-> b[i]],
         \A i \in 0 .. n - 1 : b[i] \in Cells /\ b[i].page = a[i].page
  PROVE  b \in Arrays(n) /\ SamePages(a, b)
BY DEF Arrays, SamePages

\* isu_mmu_page_check tells where a page is.
LEMMA LevelIs ==
  ASSUME NEW m, NEW p
  PROVE  /\ Level(m, p) \in {-1, 0, 1, 2}
         /\ Level(m, p) = 0 => p \in PagesOf(m.L1)
         /\ Level(m, p) = 1 => p \in PagesOf(m.L2)
         /\ Level(m, p) = 2 => p \in PagesOf(m.RAM)
         /\ Level(m, p) = -1 => p \notin Resident(m)
BY DEF Level, Resident

\* Setting the bit of one slot.
LEMMA SetBit ==
  ASSUME NEW n \in Nat, NEW a \in Arrays(n), NEW k \in 0 .. n - 1
  PROVE  LET b == [a EXCEPT ![k].ref = 1]
         IN  /\ b \in Arrays(n) /\ SamePages(a, b)
             /\ \A i \in 0 .. n - 1 : i # k => b[i] = a[i]
<1> DEFINE b == [a EXCEPT ![k].ref = 1]
<1>1. /\ DOMAIN a = 0 .. n - 1 /\ DOMAIN b = 0 .. n - 1
      /\ \A i \in 0 .. n - 1 : a[i] \in Cells
      /\ b[k] = [a[k] EXCEPT !.ref = 1]
      /\ \A i \in 0 .. n - 1 : i # k => b[i] = a[i]
      /\ b = [i \in 0 .. n - 1 |-> b[i]]
  BY DEF Arrays
<1>2. [a[k] EXCEPT !.ref = 1] \in Cells /\ [a[k] EXCEPT !.ref = 1].page = a[k].page
  BY <1>1 DEF Cells
<1> HIDE DEF b
<1>3. \A i \in 0 .. n - 1 : b[i] \in Cells /\ b[i].page = a[i].page
  BY <1>1, <1>2
<1>4. b \in Arrays(n) /\ SamePages(a, b)
  BY <1>1, <1>3, Rewritten
<1> QED
  BY <1>1, <1>4 DEF b

\* isu_mmu_page_check moves no page and sets the bit of the page it finds only.
LEMMA CheckIs ==
  ASSUME NEW m, Good(m), NEW p
  PROVE  LET n == isu_mmu_page_check(m, p)
         IN  /\ SameLevels(m, n)
             /\ n.hand = m.hand
             /\ Level(m, p) # 2 => n.RAM = m.RAM
             /\ Level(m, p) = -1 => n = m
             /\ BitsClear(m) => BitsClearBut(n, p)
<1> DEFINE n == isu_mmu_page_check(m, p)
<1>1. /\ m \in Memories /\ Apart(m)
      /\ m.L1 \in Arrays(L1_SIZE) /\ m.L2 \in Arrays(L2_SIZE) /\ m.RAM \in Arrays(RAM_SIZE)
      /\ m.hand \in 0 .. L1_SIZE /\ m.t \in Nat /\ DOMAIN m.RAM = 0 .. RAM_SIZE - 1
  BY DEF Good, Memories, Arrays
<1>2. /\ SamePages(m.L1, m.L1) /\ SamePages(m.L2, m.L2) /\ SamePages(m.RAM, m.RAM)
  BY SamePagesRefl
<1>3. CASE Level(m, p) = 0
  <2> DEFINE s == SlotOf(m.L1, p)
             b == [m.L1 EXCEPT ![s].ref = 1]
  <2>1. s \in 0 .. L1_SIZE - 1
    BY <1>1, <1>3, LevelIs, Sizes, SlotOfIs DEF Apart
  <2>2. b \in Arrays(L1_SIZE) /\ SamePages(m.L1, b)
    BY <1>1, <2>1, Sizes, SetBit
  <2>3. n = [m EXCEPT !.L1 = b]
    BY <1>1, <1>3 DEF isu_mmu_page_check, Memories
  <2> HIDE DEF b, n
  <2>4. n.L1 = b /\ n.L2 = m.L2 /\ n.RAM = m.RAM /\ n.hand = m.hand /\ n \in Memories
    BY <1>1, <2>2, <2>3 DEF Memories
  <2>5. BitsClear(m) => BitsClearBut(n, p)
    BY <2>4 DEF BitsClear, BitsClearBut
  <2> QED
    BY <1>2, <1>3, <2>2, <2>4, <2>5 DEF SameLevels, n
<1>4. CASE Level(m, p) = 1
  <2> DEFINE s == SlotOf(m.L2, p)
             b == [m.L2 EXCEPT ![s].ref = 1]
  <2>1. s \in 0 .. L2_SIZE - 1
    BY <1>1, <1>4, LevelIs, Sizes, SlotOfIs DEF Apart
  <2>2. b \in Arrays(L2_SIZE) /\ SamePages(m.L2, b)
    BY <1>1, <2>1, Sizes, SetBit
  <2>3. n = [m EXCEPT !.L2 = b]
    BY <1>1, <1>4 DEF isu_mmu_page_check, Memories
  <2> HIDE DEF b, n
  <2>4. n.L1 = m.L1 /\ n.L2 = b /\ n.RAM = m.RAM /\ n.hand = m.hand /\ n \in Memories
    BY <1>1, <2>2, <2>3 DEF Memories
  <2>5. BitsClear(m) => BitsClearBut(n, p)
    BY <2>4 DEF BitsClear, BitsClearBut
  <2> QED
    BY <1>2, <1>4, <2>2, <2>4, <2>5 DEF SameLevels, n
<1>5. CASE Level(m, p) = 2
  <2> DEFINE s == SlotOf(m.RAM, p)
             b == [m.RAM EXCEPT ![s].ref = 1]
  <2>1. s \in 0 .. RAM_SIZE - 1 /\ m.RAM[s].page = p
    BY <1>1, <1>5, LevelIs, Sizes, SlotOfIs DEF Apart
  <2>2. /\ b \in Arrays(RAM_SIZE) /\ SamePages(m.RAM, b)
        /\ \A i \in 0 .. RAM_SIZE - 1 : i # s => b[i] = m.RAM[i]
    BY <1>1, <2>1, Sizes, SetBit
  <2>3. n = [m EXCEPT !.RAM = b]
    BY <1>1, <1>5 DEF isu_mmu_page_check, Memories
  <2> HIDE DEF b, n, s
  <2>4. n.L1 = m.L1 /\ n.L2 = m.L2 /\ n.RAM = b /\ n.hand = m.hand /\ n \in Memories
    BY <1>1, <2>2, <2>3 DEF Memories
  <2>5. BitsClear(m) => BitsClearBut(n, p)
    BY <1>1, <2>1, <2>2, <2>4 DEF BitsClear, BitsClearBut, SamePages
  <2> QED
    BY <1>2, <1>5, <2>2, <2>4, <2>5 DEF SameLevels, n
<1>6. CASE Level(m, p) = -1
  <2>1. n = m
    BY <1>6 DEF isu_mmu_page_check
  <2> QED
    BY <1>1, <1>2, <1>6, <2>1 DEF SameLevels, BitsClear, BitsClearBut
<1> QED
  BY <1>3, <1>4, <1>5, <1>6, LevelIs

\* A hit leaves the page in its slot.
LEMMA HitCell ==
  ASSUME NEW cell \in Cells, NEW time \in Nat, cell.page # NoPage
  PROVE  LET c == [cell EXCEPT !.access_time = time, !.ref = 1]
         IN  c \in Cells /\ c.page = cell.page
<1> DEFINE d == [cell EXCEPT !.access_time = time]
<1>1. d \in Cells /\ d.page = cell.page
  BY DEF Cells
<1>2. [cell EXCEPT !.access_time = time, !.ref = 1] = [d EXCEPT !.ref = 1]
  OBVIOUS
<1> HIDE DEF d
<1>3. [d EXCEPT !.ref = 1] \in Cells /\ [d EXCEPT !.ref = 1].page = d.page
  BY <1>1 DEF Cells
<1> QED
  BY <1>1, <1>2, <1>3

\* A hit moves no page.
LEMMA HitIs ==
  ASSUME NEW m, Good(m), NEW p \in PagesOf(m.L1)
  PROVE  LET n == Hit(m, p)
         IN  SameLevels(m, n) /\ n.RAM = m.RAM /\ n.hand = m.hand
<1> DEFINE n == Hit(m, p)
           b == [i \in DOMAIN m.L1 |->
                   IF m.L1[i].page = p THEN [m.L1[i] EXCEPT !.access_time = m.t, !.ref = 1] ELSE m.L1[i]]
<1>1. /\ m \in Memories /\ m.L1 \in Arrays(L1_SIZE) /\ DOMAIN m.L1 = 0 .. L1_SIZE - 1
      /\ m.t \in Nat /\ p # NoPage
  BY DEF Good, Memories, Arrays, PagesOf
<1>2. \A i \in 0 .. L1_SIZE - 1 : b[i] \in Cells /\ b[i].page = m.L1[i].page
  <2> TAKE i \in 0 .. L1_SIZE - 1
  <2>1. m.L1[i] \in Cells
    BY <1>1, Sizes, CellIs
  <2> DEFINE c == [m.L1[i] EXCEPT !.access_time = m.t, !.ref = 1]
  <2>2. ASSUME m.L1[i].page = p PROVE c \in Cells /\ c.page = m.L1[i].page
    BY <1>1, <2>1, <2>2, HitCell
  <2>3. b[i] = IF m.L1[i].page = p THEN c ELSE m.L1[i]
    BY <1>1
  <2> HIDE DEF b, c
  <2> QED
    BY <2>1, <2>2, <2>3
<1>3. n = [m EXCEPT !.L1 = b]
  BY DEF Hit
<1>4. DOMAIN b = 0 .. L1_SIZE - 1 /\ b = [i \in 0 .. L1_SIZE - 1 |-> b[i]]
  BY <1>1
<1> HIDE DEF b, n
<1>5. b \in Arrays(L1_SIZE) /\ SamePages(m.L1, b)
  BY <1>1, <1>2, <1>4, Sizes, Rewritten
<1>6. n.L1 = b /\ n.L2 = m.L2 /\ n.RAM = m.RAM /\ n.hand = m.hand /\ n \in Memories
  BY <1>1, <1>3, <1>5 DEF Memories
<1> QED
  BY <1>5, <1>6, SamePagesRefl DEF SameLevels, n

\* The sweep of the clock moves no page and stops at a slot of L1.
LEMMA SweptIs ==
  ASSUME NEW m, Good(m)
  PROVE  LET n == Swept(m)
         IN  SameLevels(m, n) /\ n.RAM = m.RAM /\ n.hand \in 0 .. L1_SIZE - 1
<1> DEFINE start == IF m.hand = L1_SIZE THEN 0 ELSE m.hand
           at(d) == (start + d) % L1_SIZE
           passed == {d \in 0 .. L1_SIZE - 1 : \A e \in 0 .. d : m.L1[at(e)].ref = 1}
           h == at(Cardinality(passed))
           b == [i \in DOMAIN m.L1 |-> IF \E d \in passed : at(d) = i
                                         THEN [m.L1[i] EXCEPT !.ref = 0] ELSE m.L1[i]]
           n == Swept(m)
<1>1. /\ m \in Memories /\ m.L1 \in Arrays(L1_SIZE) /\ DOMAIN m.L1 = 0 .. L1_SIZE - 1
      /\ m.hand \in 0 .. L1_SIZE
  BY DEF Good, Memories, Arrays
<1>2. start \in Nat
  BY <1>1, Sizes
<1>3. h \in 0 .. L1_SIZE - 1
  <2>1. IsFiniteSet(0 .. L1_SIZE - 1)
    BY Sizes, FS_Interval
  <2>2. passed \in SUBSET (0 .. L1_SIZE - 1)
    OBVIOUS
  <2> HIDE DEF passed
  <2>3. Cardinality(passed) \in Nat
    BY <2>1, <2>2, FS_Subset, FS_CardinalityType
  <2> HIDE DEF start
  <2>4. PICK k \in Nat : k = start + Cardinality(passed)
    BY <1>2, <2>3
  <2>5. (k % L1_SIZE) \in 0 .. L1_SIZE - 1
    BY Sizes
  <2> QED
    BY <2>4, <2>5
<1>4. n = [m EXCEPT !.hand = h, !.L1 = b]
  BY DEF Swept
<1> HIDE DEF n, h, at, passed
<1>5. b \in Arrays(L1_SIZE) /\ SamePages(m.L1, b)
  <2>1. \A i \in 0 .. L1_SIZE - 1 : b[i] \in Cells /\ b[i].page = m.L1[i].page
    <3> TAKE i \in 0 .. L1_SIZE - 1
    <3>1. m.L1[i] \in Cells
      BY <1>1, Sizes, CellIs
    <3>2. b[i] \in {m.L1[i], [m.L1[i] EXCEPT !.ref = 0]}
      BY <1>1
    <3>3. [m.L1[i] EXCEPT !.ref = 0] \in Cells /\ [m.L1[i] EXCEPT !.ref = 0].page = m.L1[i].page
      BY <3>1, ClearIs
    <3> HIDE DEF b
    <3> QED
      BY <3>1, <3>2, <3>3
  <2>2. DOMAIN b = 0 .. L1_SIZE - 1 /\ b = [i \in 0 .. L1_SIZE - 1 |-> b[i]]
    BY <1>1
  <2> HIDE DEF b
  <2> QED
    BY <1>1, <2>1, <2>2, Sizes, Rewritten
<1> HIDE DEF b
<1>6. n.L1 = b /\ n.L2 = m.L2 /\ n.RAM = m.RAM /\ n.hand = h /\ n \in Memories
  <2> DEFINE o == [m EXCEPT !.hand = h]
  <2>1. o \in Memories /\ o.L2 = m.L2 /\ o.RAM = m.RAM /\ o.hand = h
    BY <1>1, <1>3, Sizes DEF Memories
  <2>2. n = [o EXCEPT !.L1 = b]
    BY <1>4
  <2> HIDE DEF o
  <2> QED
    BY <1>5, <2>1, <2>2 DEF Memories
<1> QED
  BY <1>3, <1>5, <1>6, SamePagesRefl DEF SameLevels, n

\* Advancing the hand moves no page.
LEMMA AdvanceIs ==
  ASSUME NEW m, Good(m), m.hand \in 0 .. L1_SIZE - 1
  PROVE  LET n == Advance(m)
         IN  SameLevels(m, n) /\ n.RAM = m.RAM /\ n.L1 = m.L1
<1> DEFINE n == Advance(m)
<1>1. m \in Memories /\ m.hand + 1 \in 0 .. L1_SIZE
  BY Sizes DEF Good
<1>2. n = [m EXCEPT !.hand = m.hand + 1]
  BY DEF Advance
<1> HIDE DEF n
<1>3. n.L1 = m.L1 /\ n.L2 = m.L2 /\ n.RAM = m.RAM /\ n \in Memories
  BY <1>1, <1>2 DEF Memories
<1> QED
  BY <1>3, SamePagesRefl DEF SameLevels, n

\* isu_mmu_ref_clear clears the bits and nothing else.
LEMMA ClearRefsIs ==
  ASSUME NEW n \in Nat, NEW a \in Arrays(n)
  PROVE  LET b == ClearRefs(a)
         IN  /\ b \in Arrays(n) /\ SamePages(a, b)
             /\ \A i \in 0 .. n - 1 : b[i].ref = 0 /\ b[i]["access_time"] = a[i]["access_time"]
<1> DEFINE b == ClearRefs(a)
<1>1. DOMAIN b = 0 .. n - 1 /\ b = [i \in 0 .. n - 1 |-> b[i]]
      /\ \A i \in 0 .. n - 1 : b[i] = [a[i] EXCEPT !.ref = 0]
  BY DEF ClearRefs, Arrays
<1> HIDE DEF b
<1>2. \A i \in 0 .. n - 1 : b[i] \in Cells /\ b[i].page = a[i].page
  <2> TAKE i \in 0 .. n - 1
  <2>1. a[i] \in Cells /\ b[i] = [a[i] EXCEPT !.ref = 0]
    BY <1>1, CellIs
  <2> QED
    BY <2>1, ClearIs
<1>3. \A i \in 0 .. n - 1 : b[i].ref = 0 /\ b[i]["access_time"] = a[i]["access_time"]
  <2> TAKE i \in 0 .. n - 1
  <2>1. a[i] \in Cells /\ b[i] = [a[i] EXCEPT !.ref = 0]
    BY <1>1, CellIs
  <2> QED
    BY <2>1 DEF Cells
<1>4. b \in Arrays(n) /\ SamePages(a, b)
  BY <1>1, <1>2, Rewritten
<1> QED
  BY <1>3, <1>4 DEF b

\* The bits play no part in which page of RAM is the oldest.
LEMMA ClearedIs ==
  ASSUME NEW m, Good(m)
  PROVE  LET n == isu_mmu_ref_clear(m)
         IN  /\ SameLevels(m, n)
             /\ BitsClear(n)
             /\ n.hand = m.hand
             /\ L2Open(n) <=> L2Open(m)
             /\ RamOldest(n) = RamOldest(m)
<1> DEFINE n == isu_mmu_ref_clear(m)
<1>1. /\ m \in Memories /\ m.L1 \in Arrays(L1_SIZE) /\ m.L2 \in Arrays(L2_SIZE)
      /\ m.RAM \in Arrays(RAM_SIZE) /\ DOMAIN m.RAM = 0 .. RAM_SIZE - 1
  BY DEF Good, Memories, Arrays
<1>2. n = [m EXCEPT !.L1 = ClearRefs(m.L1), !.L2 = ClearRefs(m.L2), !.RAM = ClearRefs(m.RAM)]
  BY <1>1 DEF isu_mmu_ref_clear, Memories
<1> HIDE DEF n
<1>3. /\ ClearRefs(m.L1) \in Arrays(L1_SIZE) /\ SamePages(m.L1, ClearRefs(m.L1))
      /\ ClearRefs(m.L2) \in Arrays(L2_SIZE) /\ SamePages(m.L2, ClearRefs(m.L2))
      /\ ClearRefs(m.RAM) \in Arrays(RAM_SIZE) /\ SamePages(m.RAM, ClearRefs(m.RAM))
  BY <1>1, Sizes, ClearRefsIs
<1>4. \A i \in 0 .. RAM_SIZE - 1 : /\ ClearRefs(m.RAM)[i].ref = 0
                                   /\ ClearRefs(m.RAM)[i]["access_time"] = m.RAM[i]["access_time"]
  BY <1>1, Sizes, ClearRefsIs
<1>5. /\ n.L1 = ClearRefs(m.L1) /\ n.L2 = ClearRefs(m.L2) /\ n.RAM = ClearRefs(m.RAM)
      /\ n.hand = m.hand /\ n \in Memories
  BY <1>1, <1>2, <1>3 DEF Memories
<1>6. SameLevels(m, n)
  BY <1>3, <1>5 DEF SameLevels
<1>7. DOMAIN n.RAM = 0 .. RAM_SIZE - 1 /\ \A i \in 0 .. RAM_SIZE - 1 : n.RAM[i].page = m.RAM[i].page
  BY <1>1, <1>3, <1>5 DEF SamePages
<1>8. BitsClear(n)
  BY <1>4, <1>5, <1>7 DEF BitsClear
<1>9. L2Open(n) <=> L2Open(m)
  BY <1>1, <1>3, <1>5, Sizes DEF L2Open, SamePages, Arrays
<1>10. RamOldest(n) = RamOldest(m)
  <2> DEFINE S == 0 .. RAM_SIZE - 1
             when == "access_time"
  <2>1. {i \in S : \A j \in S : n.RAM[i][when] <= n.RAM[j][when]}
          = {i \in S : \A j \in S : m.RAM[i][when] <= m.RAM[j][when]}
    BY <1>4, <1>5
  <2>2. Oldest(n.RAM, when, S) = Oldest(m.RAM, when, S)
    BY <2>1 DEF Oldest
  <2>3. Oldest(m.RAM, when, S) \in S
    <3>1. 0 \in S /\ when \in Times
      BY Sizes DEF Times
    <3>2. S \in SUBSET S /\ S # {}
      BY <3>1
    <3> QED
      BY <1>1, <3>1, <3>2, Sizes, OldestIs
  <2> QED
    BY <1>1, <1>7, <2>2, <2>3 DEF RamOldest
<1> QED
  BY <1>5, <1>6, <1>8, <1>9, <1>10 DEF n

-----------------------------------------------------------------------------
(* The replacement algorithms: what a request makes of the memory. *)

\* What handling a request for p makes of m.
Handles(m, n, mode, p) ==
  /\ Good(n)
  /\ mode \in 0 .. 2 => p \in PagesOf(n.L1)
  /\ BitsClear(m) => BitsClear(n) /\ Lost(m, n)

\* L2 is open in memories whose slots hold the same pages, or in neither.
LEMMA SameOpen ==
  ASSUME NEW m, NEW n, Good(m), SameLevels(m, n)
  PROVE  L2Open(n) <=> L2Open(m)
<1>1. DOMAIN m.L2 = 0 .. L2_SIZE - 1
  BY DEF Good, Memories, Arrays
<1>2. \A i \in 0 .. L2_SIZE - 1 : m.L2[i].page = n.L2[i].page
  BY <1>1 DEF SameLevels, SamePages
<1> QED
  BY <1>2 DEF L2Open

\* A request that keeps the pages in memory loses none.
LEMMA SameResident ==
  ASSUME NEW m, NEW n, Resident(n) = Resident(m)
  PROVE  Lost(m, n)
BY DEF Lost, OldestOnly

\* A request for a page in L1 changes its times and bits.
LEMMA HitHandles ==
  ASSUME NEW m, Good(m), NEW mode \in 0 .. 4, NEW p \in Pages, Level(m, p) = 0
  PROVE  Handles(m, Hit(isu_mmu_page_check(m, p), p), mode, p)
<1> DEFINE c == isu_mmu_page_check(m, p)
           n == Hit(c, p)
<1>1. SameLevels(m, c) /\ c.RAM = m.RAM
  BY CheckIs
<1>2. Good(c) /\ p \in PagesOf(c.L1) /\ Resident(c) = Resident(m)
  BY <1>1, SameLevelsIs, LevelIs
<1> HIDE DEF c
<1>3. SameLevels(c, n) /\ n.RAM = c.RAM
  BY <1>2, HitIs
<1>4. Good(n) /\ p \in PagesOf(n.L1) /\ Resident(n) = Resident(m)
  BY <1>2, <1>3, SameLevelsIs
<1>5. BitsClear(m) => BitsClear(n)
  BY <1>1, <1>3 DEF BitsClear
<1> QED
  BY <1>4, <1>5, SameResident DEF Handles, c

\* fifo and lru, and what is run in the modes that have no algorithm.
LEMMA RepOldestHandles ==
  ASSUME NEW m, Good(m), NEW mode \in 0 .. 4, mode # 2, NEW p \in Pages, NEW when \in Times
  PROVE  Handles(m, page_rep_oldest(m, mode, p, when), mode, p)
<1> DEFINE c == isu_mmu_page_check(m, p)
           n == page_rep_oldest(m, mode, p, when)
           l == Level(m, p)
           k == Oldest(m.L1, when, DOMAIN m.L1)
<1>1. CASE l = 0
  BY <1>1, HitHandles DEF page_rep_oldest
<1>2. CASE l \in {1, 2}
  <2>1. m.L1 \in Arrays(L1_SIZE) /\ DOMAIN m.L1 = 0 .. L1_SIZE - 1
    BY DEF Good, Memories, Arrays
  <2>2. k \in 0 .. L1_SIZE - 1
    <3>1. 0 \in DOMAIN m.L1
      BY <2>1, Sizes
    <3>2. DOMAIN m.L1 \in SUBSET (0 .. L1_SIZE - 1) /\ DOMAIN m.L1 # {}
      BY <2>1, <3>1
    <3> QED
      BY <2>1, <3>2, Sizes, OldestIs
  <2>3. n = isu_mmu_page_swap(c, mode, m.L1[k].page, p, l)
    BY <1>2 DEF page_rep_oldest
  <2>4. SameLevels(m, c) /\ (BitsClear(m) => BitsClearBut(c, p))
    BY CheckIs
  <2>5. /\ Good(c) /\ Resident(c) = Resident(m)
        /\ PagesOf(c.L2) = PagesOf(m.L2) /\ PagesOf(c.RAM) = PagesOf(m.RAM)
    BY <2>4, SameLevelsIs
  <2>6. c.L1[k].page = m.L1[k].page
    BY <2>1, <2>2, <2>4 DEF SameLevels, SamePages
  <2>7. (l = 1 => p \in PagesOf(c.L2)) /\ (l = 2 => p \in PagesOf(c.RAM))
    BY <2>5, LevelIs
  <2> HIDE DEF c, k, l
  <2>8. /\ Brings(c, n, p) /\ Resident(n) = Resident(c)
        /\ BitsClearBut(c, p) => BitsClear(n)
    BY <1>2, <2>2, <2>3, <2>5, <2>6, <2>7, SwapIs
  <2> QED
    BY <2>4, <2>5, <2>8, SameResident DEF Handles, Brings
<1>3. CASE l = -1
  <2>1. c = m /\ p \notin Resident(m)
    BY <1>3, CheckIs, LevelIs
  <2>2. n = isu_mmu_page_fetch(m, mode, p)
    BY <1>3, <2>1 DEF page_rep_oldest
  <2> QED
    BY <2>1, <2>2, FetchIs DEF Handles
<1> QED
  BY <1>1, <1>2, <1>3, LevelIs

\* isu_mmu_page_rep_clock handles a request, hit, swap or fetch, in any mode.
LEMMA RepClockHandles ==
  ASSUME NEW m, Good(m), NEW mode \in 0 .. 4, NEW p \in Pages
  PROVE  Handles(m, isu_mmu_page_rep_clock(m, mode, p), mode, p)
<1> DEFINE c == isu_mmu_page_check(m, p)
           s == Swept(c)
           n == isu_mmu_page_rep_clock(m, mode, p)
           l == Level(m, p)
<1>1. CASE l = 0
  BY <1>1, HitHandles DEF isu_mmu_page_rep_clock
<1>2. /\ SameLevels(m, c) /\ (BitsClear(m) => BitsClearBut(c, p))
      /\ l # 2 => c.RAM = m.RAM
  BY CheckIs
<1>3. /\ Good(c) /\ Resident(c) = Resident(m)
      /\ PagesOf(c.L2) = PagesOf(m.L2) /\ PagesOf(c.RAM) = PagesOf(m.RAM)
  BY <1>2, SameLevelsIs
<1>4. SameLevels(c, s) /\ s.RAM = c.RAM /\ s.hand \in 0 .. L1_SIZE - 1
  BY <1>3, SweptIs
<1>5. /\ Good(s) /\ Resident(s) = Resident(m)
      /\ PagesOf(s.L2) = PagesOf(m.L2) /\ PagesOf(s.RAM) = PagesOf(m.RAM)
  BY <1>3, <1>4, SameLevelsIs
<1>6. BitsClear(m) => BitsClearBut(s, p)
  BY <1>2, <1>4 DEF BitsClearBut
<1>7. CASE l \in {1, 2}
  <2> DEFINE w == isu_mmu_page_swap(s, mode, s.L1[s.hand].page, p, l)
  <2>1. n = Advance(w)
    BY <1>7 DEF isu_mmu_page_rep_clock
  <2>2. (l = 1 => p \in PagesOf(s.L2)) /\ (l = 2 => p \in PagesOf(s.RAM))
    BY <1>5, LevelIs
  <2> HIDE DEF s, l
  <2>3. /\ Brings(s, w, p) /\ Resident(w) = Resident(s)
        /\ BitsClearBut(s, p) => BitsClear(w)
    BY <1>4, <1>5, <1>7, <2>2, SwapIs
  <2> HIDE DEF w, n
  <2>4. SameLevels(w, n) /\ n.RAM = w.RAM
    BY <1>4, <2>1, <2>3, AdvanceIs DEF Brings
  <2>5. Good(n) /\ p \in PagesOf(n.L1) /\ Resident(n) = Resident(m)
    BY <1>5, <2>3, <2>4, SameLevelsIs DEF Brings
  <2>6. BitsClear(m) => BitsClear(n)
    BY <1>6, <2>3, <2>4 DEF BitsClear
  <2> QED
    BY <2>5, <2>6, SameResident DEF Handles, n
<1>8. CASE l = -1
  <2> DEFINE w == isu_mmu_page_fetch(s, mode, p)
  <2>1. n = Advance(w)
    BY <1>8 DEF isu_mmu_page_rep_clock
  <2>2. p \notin Resident(s)
    BY <1>5, <1>8, LevelIs
  <2>3. s.RAM = m.RAM
    BY <1>2, <1>4, <1>8
  <2>4. BitsClear(m) => BitsClear(s)
    BY <2>3 DEF BitsClear
  <2>11. L2Open(s) <=> L2Open(m)
    BY <1>2, <1>3, <1>4, SameOpen
  <2> HIDE DEF s, l
  <2>5. s.hand < L1_SIZE
    BY <1>4, Sizes
  <2>6. /\ Good(w) /\ w.hand = s.hand
        /\ mode \in 0 .. 2 => p \in PagesOf(w.L1)
        /\ BitsClear(s) => BitsClear(w) /\ Lost(s, w)
    BY <1>5, <2>2, <2>5, FetchIs
  <2> HIDE DEF w, n
  <2>7. SameLevels(w, n) /\ n.RAM = w.RAM
    BY <1>4, <2>1, <2>6, AdvanceIs
  <2>8. Good(n) /\ PagesOf(n.L1) = PagesOf(w.L1) /\ Resident(n) = Resident(w)
    BY <2>6, <2>7, SameLevelsIs
  <2>9. BitsClear(m) => BitsClear(n)
    BY <2>4, <2>6, <2>7 DEF BitsClear
  <2>10. BitsClear(m) => Lost(m, n)
    BY <1>5, <2>3, <2>4, <2>6, <2>8, <2>11 DEF Lost, OldestOnly, RamOldest
  <2> QED
    BY <2>6, <2>8, <2>9, <2>10 DEF Handles, n
<1> QED
  BY <1>1, <1>7, <1>8, LevelIs

\* isu_mmu_handle_req handles a request in every mode.
LEMMA RequestHandles ==
  ASSUME NEW m, Good(m), NEW mode \in 0 .. 4, NEW p \in Pages
  PROVE  Handles(m, isu_mmu_handle_req(m, mode, p), mode, p)
<1>1. CASE mode = 1
  BY <1>1, RepOldestHandles DEF isu_mmu_handle_req, isu_mmu_page_rep_lru, Times
<1>2. CASE mode = 2
  BY <1>2, RepClockHandles DEF isu_mmu_handle_req
<1>3. CASE mode \notin {1, 2}
  BY <1>3, RepOldestHandles DEF isu_mmu_handle_req, isu_mmu_page_rep_fifo, Times
<1> QED
  BY <1>1, <1>2, <1>3

-----------------------------------------------------------------------------
(* Between requests: the times are renumbered. *)

\* A time that is renumbered changes nothing else in its slot.
LEMMA TimeIs ==
  ASSUME NEW cell \in Cells, NEW when \in Times, NEW x \in 0 .. Never
  PROVE  LET c == [cell EXCEPT ![when] = x]
         IN  /\ c \in Cells /\ c.page = cell.page /\ c.ref = cell.ref
             /\ c[when] = x
             /\ \A w \in Times : w # when => c[w] = cell[w]
<1>1. CASE when = "access_time"
  BY <1>1, Sizes DEF Cells, Times
<1>2. CASE when = "placement_time"
  BY <1>2, Sizes DEF Cells, Times
<1> QED
  BY <1>1, <1>2 DEF Times

\* Array b is array a with one time of every slot renumbered.
Retimed(n, a, b, when) ==
  /\ b \in Arrays(n) /\ SamePages(a, b)
  /\ \A i \in 0 .. n - 1 :
       /\ b[i].ref = a[i].ref
       /\ b[i][when] \in 0 .. Never
       /\ \A w \in Times : w # when => b[i][w] = a[i][w]

\* Renumbering the times of a level that are set keeps its pages and bits.
LEMMA RetimedIs ==
  ASSUME NEW n \in Nat, NEW a \in Arrays(n), NEW when \in Times,
         NEW x, \A i \in 0 .. n - 1 : a[i].page # NoPage => x[i] \in 0 .. Never,
         NEW b, b = [i \in 0 .. n - 1 |-> IF a[i].page = NoPage THEN a[i] ELSE [a[i] EXCEPT ![when] = x[i]]]
  PROVE  Retimed(n, a, b, when)
<1>1. ASSUME NEW i \in 0 .. n - 1
      PROVE  /\ b[i] \in Cells /\ b[i].page = a[i].page
             /\ b[i].ref = a[i].ref
             /\ b[i][when] \in 0 .. Never
             /\ \A w \in Times : w # when => b[i][w] = a[i][w]
  <2>1. a[i] \in Cells
    BY CellIs
  <2>2. CASE a[i].page = NoPage
    <3>1. b[i] = a[i]
      BY <2>2
    <3>2. a[i][when] \in 0 .. Never
      BY <2>1, <2>2 DEF Cells, Times
    <3> QED
      BY <2>1, <3>1, <3>2
  <2>3. CASE a[i].page # NoPage
    <3>1. x[i] \in 0 .. Never /\ b[i] = [a[i] EXCEPT ![when] = x[i]]
      BY <2>3
    <3> QED
      BY <2>1, <3>1, TimeIs
  <2> QED
    BY <2>2, <2>3
<1>2. DOMAIN b = 0 .. n - 1 /\ b = [i \in 0 .. n - 1 |-> b[i]]
  OBVIOUS
<1>3. b \in Arrays(n) /\ SamePages(a, b)
  BY <1>1, <1>2, Rewritten
<1> QED
  BY <1>1, <1>3 DEF Retimed

\* Dropping a time the mode never reads keeps the pages and bits.
LEMMA ForgottenIs ==
  ASSUME NEW n \in Nat, NEW a \in Arrays(n), NEW when \in Times
  PROVE  Retimed(n, a, Forgotten(a, when), when)
<1> DEFINE x == [i \in 0 .. n - 1 |-> 0]
           b == Forgotten(a, when)
<1>1. \A i \in 0 .. n - 1 : x[i] \in 0 .. Never
  BY Sizes
<1>2. DOMAIN a = 0 .. n - 1
  BY DEF Arrays
<1>3. b = [i \in 0 .. n - 1 |-> IF a[i].page = NoPage THEN a[i] ELSE [a[i] EXCEPT ![when] = x[i]]]
  BY <1>2 DEF Forgotten
<1> HIDE DEF b, x
<1>4. Retimed(n, a, b, when)
  BY <1>1, <1>3, RetimedIs
<1> QED
  BY <1>4 DEF b

\* The times of a level are finitely many.
LEMMA TimesAre ==
  ASSUME NEW n \in Nat, NEW a \in Arrays(n), NEW when \in Times
  PROVE  LET times == {a[i][when] : i \in {j \in DOMAIN a : a[j].page # NoPage}}
         IN  times \in SUBSET Nat /\ IsFiniteSet(times) /\ Cardinality(times) <= n
<1>. DEFINE used == {i \in DOMAIN a : a[i].page # NoPage}
            times == {a[i][when] : i \in used}
            f == [i \in used |-> a[i][when]]
<1>0. DOMAIN a = 0 .. n - 1  BY DEF Arrays
<1>1. IsFiniteSet(0 .. n - 1) /\ Cardinality(0 .. n - 1) = n  BY FS_Interval
<1>2. used \in SUBSET (0 .. n - 1)  BY <1>0
<1>3. IsFiniteSet(used) /\ Cardinality(used) <= n  BY <1>1, <1>2, FS_Subset
<1>4. f \in Surjection(used, times)  BY DEF Surjection
<1>5. \A i \in used : a[i][when] \in Nat  BY <1>0 DEF Arrays, Cells, Times
<1>6. times \in SUBSET Nat  BY <1>5
<1>. HIDE DEF used, times, f
<1>7. IsFiniteSet(times) /\ Cardinality(times) <= Cardinality(used)  BY <1>3, <1>4, FS_Surjection
<1>8. Cardinality(times) \in Nat /\ Cardinality(used) \in Nat  BY <1>3, <1>7, FS_CardinalityType
<1>. QED  BY <1>3, <1>6, <1>7, <1>8 DEF times, used

\* A time is numbered by how many are before it, or as the present.
LEMMA RenumberedIs ==
  ASSUME NEW n \in Nat, n <= Now, NEW a \in Arrays(n), NEW when \in Times, NEW now
  PROVE  Retimed(n, a, Renumbered(a, when, now), when)
<1> DEFINE used == {i \in DOMAIN a : a[i].page # NoPage}
           times == {a[i][when] : i \in used}
           before(v) == {u \in times : u < v}
           x == [i \in 0 .. n - 1 |-> IF a[i][when] = now THEN Now ELSE Cardinality(before(a[i][when]))]
           b == Renumbered(a, when, now)
<1>1. DOMAIN a = 0 .. n - 1
  BY DEF Arrays
<1>2. IsFiniteSet(times) /\ Cardinality(times) <= n
  BY TimesAre
<1>3. \A i \in 0 .. n - 1 : x[i] \in 0 .. Never
  <2> TAKE i \in 0 .. n - 1
  <2> DEFINE S == before(a[i][when])
  <2>1. S \in SUBSET times
    OBVIOUS
  <2>2. x[i] = IF a[i][when] = now THEN Now ELSE Cardinality(S)
    OBVIOUS
  <2> HIDE DEF S, times, x
  <2>3. Cardinality(S) <= Cardinality(times) /\ IsFiniteSet(S)
    BY <1>2, <2>1, FS_Subset
  <2>4. Cardinality(S) \in Nat /\ Cardinality(times) \in Nat
    BY <1>2, <2>3, FS_CardinalityType
  <2> QED
    BY <1>2, <2>2, <2>3, <2>4, Sizes
<1>4. b = [i \in 0 .. n - 1 |-> IF a[i].page = NoPage THEN a[i] ELSE [a[i] EXCEPT ![when] = x[i]]]
  BY <1>1 DEF Renumbered
<1> HIDE DEF b, x
<1>5. Retimed(n, a, b, when)
  BY <1>3, <1>4, RetimedIs
<1> QED
  BY <1>5 DEF b

\* A level whose times are in their range has its type.
LEMMA SlotsIs ==
  ASSUME NEW n \in Nat, NEW a \in Arrays(n),
         \A i \in 0 .. n - 1 : \A w \in Times : a[i][w] \in 0 .. Never
  PROVE  a \in Slots(n)
<1>1. ASSUME NEW i \in 0 .. n - 1
      PROVE  a[i] \in [page : Pages \cup {NoPage}, ref : 0 .. 1,
                       access_time : 0 .. Never, placement_time : 0 .. Never]
  <2>1. a[i] \in [page : Pages \cup {NoPage}, ref : 0 .. 1, access_time : Nat, placement_time : Nat]
    BY DEF Arrays, Cells
  <2>2. a[i].access_time \in 0 .. Never /\ a[i].placement_time \in 0 .. Never
    BY <2>1 DEF Times
  <2> QED
    BY <2>1, <2>2
<1> QED
  BY <1>1 DEF Slots, Arrays

\* Both times of an array, one after the other.
LEMMA BothTimes ==
  ASSUME NEW n \in Nat, NEW a \in Arrays(n), NEW b, NEW c, NEW v \in Times, NEW w \in Times, v # w,
         Retimed(n, a, b, v), Retimed(n, b, c, w)
  PROVE  /\ c \in Arrays(n) /\ c \in Slots(n) /\ SamePages(a, c)
         /\ \A i \in 0 .. n - 1 : c[i].ref = a[i].ref
<1>1. c \in Arrays(n) /\ SamePages(a, c) /\ \A i \in 0 .. n - 1 : c[i].ref = a[i].ref
  BY DEF Retimed, SamePages
<1>2. \A i \in 0 .. n - 1 : c[i][v] \in 0 .. Never /\ c[i][w] \in 0 .. Never
  BY DEF Retimed
<1>3. \A u \in Times : u = v \/ u = w
  BY DEF Times
<1>4. c \in Slots(n)
  BY <1>1, <1>2, <1>3, SlotsIs
<1> QED
  BY <1>1, <1>4

\* After a request the times of L2 and RAM are in their range.
LEMMA LowerIs ==
  ASSUME NEW n \in Nat, n <= Now, NEW a \in Arrays(n), NEW now
  PROVE  LET c == Forgotten(Renumbered(a, "access_time", now), "placement_time")
         IN  /\ c \in Arrays(n) /\ c \in Slots(n) /\ SamePages(a, c)
             /\ \A i \in 0 .. n - 1 : c[i].ref = a[i].ref
<1> DEFINE b == Renumbered(a, "access_time", now)
<1>1. "access_time" \in Times /\ "placement_time" \in Times /\ "access_time" # "placement_time"
  BY DEF Times
<1>2. Retimed(n, a, b, "access_time")
  BY <1>1, RenumberedIs
<1>3. b \in Arrays(n)
  BY <1>2 DEF Retimed
<1> HIDE DEF b
<1>4. Retimed(n, b, Forgotten(b, "placement_time"), "placement_time")
  BY <1>1, <1>3, ForgottenIs
<1> QED
  BY <1>1, <1>2, <1>4, BothTimes DEF b

\* L1 keeps the time its mode compares.
FirstTimes(a, mode, now) ==
  IF mode = 1 THEN Forgotten(Renumbered(a, "access_time", now), "placement_time")
  ELSE IF mode = 2 THEN Forgotten(Forgotten(a, "access_time"), "placement_time")
  ELSE Forgotten(Renumbered(a, "placement_time", now), "access_time")

\* After a request the times of L1 are in their range.
LEMMA FirstIs ==
  ASSUME NEW n \in Nat, n <= Now, NEW a \in Arrays(n), NEW mode, NEW now
  PROVE  LET c == FirstTimes(a, mode, now)
         IN  c \in Arrays(n) /\ c \in Slots(n) /\ SamePages(a, c)
<1>1. "access_time" \in Times /\ "placement_time" \in Times /\ "access_time" # "placement_time"
  BY DEF Times
<1>2. CASE mode = 1
  BY <1>2, LowerIs DEF FirstTimes
<1>3. CASE mode = 2
  <2> DEFINE b == Forgotten(a, "access_time")
  <2>1. Retimed(n, a, b, "access_time") /\ b \in Arrays(n)
    BY <1>1, ForgottenIs DEF Retimed
  <2> HIDE DEF b
  <2>2. Retimed(n, b, Forgotten(b, "placement_time"), "placement_time")
    BY <1>1, <2>1, ForgottenIs
  <2>3. FirstTimes(a, mode, now) = Forgotten(b, "placement_time")
    BY <1>3 DEF FirstTimes, b
  <2> QED
    BY <1>1, <2>1, <2>2, <2>3, BothTimes
<1>4. CASE mode \notin {1, 2}
  <2> DEFINE b == Renumbered(a, "placement_time", now)
  <2>1. Retimed(n, a, b, "placement_time") /\ b \in Arrays(n)
    BY <1>1, RenumberedIs DEF Retimed
  <2> HIDE DEF b
  <2>2. Retimed(n, b, Forgotten(b, "access_time"), "access_time")
    BY <1>1, <2>1, ForgottenIs
  <2>3. FirstTimes(a, mode, now) = Forgotten(b, "access_time")
    BY <1>4 DEF FirstTimes, b
  <2> QED
    BY <1>1, <2>1, <2>2, <2>3, BothTimes
<1> QED
  BY <1>2, <1>3, <1>4

\* Renumbering the times after a request moves no page.
LEMMA CompressIs ==
  ASSUME NEW m, Good(m), NEW mode
  PROVE  LET n == Compress(m, mode)
         IN  /\ SameLevels(m, n)
             /\ BitsClear(m) => BitsClear(n)
             /\ n.L1 \in Slots(L1_SIZE) /\ n.L2 \in Slots(L2_SIZE) /\ n.RAM \in Slots(RAM_SIZE)
             /\ n.t = Now
<1> DEFINE lower(slots) == Forgotten(Renumbered(slots, "access_time", m.t), "placement_time")
           a == FirstTimes(m.L1, mode, m.t)
           b == lower(m.L2)
           c == lower(m.RAM)
           n == Compress(m, mode)
<1>1. /\ m \in Memories /\ m.L1 \in Arrays(L1_SIZE) /\ m.L2 \in Arrays(L2_SIZE)
      /\ m.RAM \in Arrays(RAM_SIZE) /\ DOMAIN m.RAM = 0 .. RAM_SIZE - 1
  BY DEF Good, Memories, Arrays
<1>2. L1_SIZE <= Now /\ L2_SIZE <= Now /\ RAM_SIZE <= Now
  BY Sizes DEF Now
<1>3. n = [m EXCEPT !.L1 = a, !.L2 = b, !.RAM = c, !.t = Now]
  <2>1. CASE mode \in {1, 2}
    BY <1>1, <2>1 DEF Compress, FirstTimes, Memories
  <2>2. CASE mode \notin {1, 2}
    BY <1>1, <2>2 DEF Compress, FirstTimes, Memories
  <2> QED
    BY <2>1, <2>2
<1>4. a \in Arrays(L1_SIZE) /\ a \in Slots(L1_SIZE) /\ SamePages(m.L1, a)
  BY <1>1, <1>2, Sizes, FirstIs
<1>5. b \in Arrays(L2_SIZE) /\ b \in Slots(L2_SIZE) /\ SamePages(m.L2, b)
  BY <1>1, <1>2, Sizes, LowerIs
<1>6. /\ c \in Arrays(RAM_SIZE) /\ c \in Slots(RAM_SIZE) /\ SamePages(m.RAM, c)
      /\ \A i \in 0 .. RAM_SIZE - 1 : c[i].ref = m.RAM[i].ref
  BY <1>1, <1>2, Sizes, LowerIs
<1> HIDE DEF a, b, c, n
<1>7. n.L1 = a /\ n.L2 = b /\ n.RAM = c /\ n.hand = m.hand /\ n.t = Now /\ n \in Memories
  BY <1>1, <1>3, <1>4, <1>5, <1>6, Sizes DEF Memories
<1>8. BitsClear(m) => BitsClear(n)
  BY <1>1, <1>6, <1>7 DEF BitsClear, SamePages
<1> QED
  BY <1>4, <1>5, <1>6, <1>7, <1>8 DEF SameLevels, n

-----------------------------------------------------------------------------
(* The invariant. *)

\* The parts of the type invariant.
LEMMA TypeIs ==
  ASSUME mem \in Memories, rep_mode \in Modes, mem.t = Now,
         mem.L1 \in Slots(L1_SIZE), mem.L2 \in Slots(L2_SIZE), mem.RAM \in Slots(RAM_SIZE)
  PROVE  MmuTypeOK
BY DEF MmuTypeOK, Memories

\* isu_mmu_create leaves every slot empty.
LEMMA InitInv == MmuInit => IInv
<1> SUFFICES ASSUME MmuInit PROVE IInv
  OBVIOUS
<1>1. Empty \in Cells /\ Empty.page = NoPage /\ Empty.ref = 0
      /\ Empty.access_time \in 0 .. Never /\ Empty.placement_time \in 0 .. Never
  BY Sizes DEF Empty, Cells
<1>2. mem = isu_mmu_create /\ rep_mode \in Modes
  BY DEF MmuInit
<1>3. /\ mem.L1 = [i \in 0 .. L1_SIZE - 1 |-> Empty]
      /\ mem.L2 = [i \in 0 .. L2_SIZE - 1 |-> Empty]
      /\ mem.RAM = [i \in 0 .. RAM_SIZE - 1 |-> Empty]
      /\ mem.t = Now
  BY <1>2 DEF isu_mmu_create
<1> HIDE DEF Empty
<1>4. mem \in Memories
  BY <1>1, <1>2, Sizes DEF isu_mmu_create, Memories, Arrays
<1>5. PagesOf(mem.L1) = {} /\ PagesOf(mem.L2) = {} /\ PagesOf(mem.RAM) = {}
  BY <1>1, <1>3 DEF PagesOf
<1>6. OneSlot(mem.L1) /\ OneSlot(mem.L2) /\ OneSlot(mem.RAM)
  BY <1>1, <1>3 DEF OneSlot
<1>7. Good(mem)
  BY <1>4, <1>5, <1>6 DEF Good, Apart, FirstFull
<1>8. BitsClear(mem)
  BY <1>1, <1>3 DEF BitsClear
<1>9. /\ mem.L1 \in Slots(L1_SIZE) /\ mem.L2 \in Slots(L2_SIZE) /\ mem.RAM \in Slots(RAM_SIZE)
  <2>1. \A n \in Nat : [i \in 0 .. n - 1 |-> Empty] \in Slots(n)
    <3>1. Empty \in [page : Pages \cup {NoPage}, ref : 0 .. 1,
                    access_time : 0 .. Never, placement_time : 0 .. Never]
      BY Sizes DEF Empty
    <3> QED
      BY <3>1 DEF Slots
  <2> QED
    BY <1>3, <2>1, Sizes
<1> QED
  BY <1>2, <1>3, <1>4, <1>7, <1>8, <1>9, TypeIs DEF IInv

\* The invariant of the memory that a step leaves.
LEMMA PrimeMem ==
  /\ Good(mem') => Good(mem)'
  /\ BitsClear(mem') => BitsClear(mem)'
<1>1. (mem \in Memories)' <=> mem' \in Memories
  OBVIOUS
<1>2. Apart(mem') => Apart(mem)'
  BY DEF Apart, OneSlot, PagesOf
<1>3. FirstFull(mem') => FirstFull(mem)'
  BY DEF FirstFull, Full, PagesOf
<1>4. BitsClear(mem') => BitsClear(mem)'
  BY DEF BitsClear
<1> QED
  BY <1>1, <1>2, <1>3, <1>4 DEF Good

\* One request: what it leaves in memory, and what it takes out.
LEMMA RequestIs ==
  ASSUME IInv, NEW p \in Pages, Request(p)
  PROVE  IInv' /\ OldestOnly(mem, Resident(mem), Resident(mem'))
<1> DEFINE m == IF rep_mode # 2 THEN isu_mmu_ref_clear(mem) ELSE mem
           h == isu_mmu_handle_req(m, rep_mode, p)
           n == Compress(h, rep_mode)
<1>1. rep_mode \in 0 .. 4 /\ rep_mode \in Modes /\ mem' = n /\ rep_mode' = rep_mode
  BY ModesAssumption DEF IInv, MmuTypeOK, Request
<1>2. /\ Good(m) /\ BitsClear(m) /\ Resident(m) = Resident(mem)
      /\ L2Open(m) <=> L2Open(mem)
      /\ RamOldest(m) = RamOldest(mem)
  <2>1. CASE rep_mode # 2
    <3>1. /\ SameLevels(mem, m) /\ BitsClear(m)
          /\ L2Open(m) <=> L2Open(mem)
          /\ RamOldest(m) = RamOldest(mem)
      BY <2>1, ClearedIs DEF IInv
    <3> QED
      BY <3>1, SameLevelsIs DEF IInv
  <2>2. CASE rep_mode = 2
    BY <2>2 DEF IInv
  <2> QED
    BY <2>1, <2>2
<1> HIDE DEF m
<1>3. Good(h) /\ BitsClear(h) /\ Lost(m, h)
  BY <1>1, <1>2, RequestHandles DEF Handles
<1> HIDE DEF h
<1>4. /\ SameLevels(h, n) /\ BitsClear(n) /\ n.t = Now
      /\ n.L1 \in Slots(L1_SIZE) /\ n.L2 \in Slots(L2_SIZE) /\ n.RAM \in Slots(RAM_SIZE)
  BY <1>3, CompressIs
<1> HIDE DEF n
<1>5. Good(n) /\ Resident(n) = Resident(h)
  BY <1>3, <1>4, SameLevelsIs
<1>6. Good(mem)' /\ BitsClear(mem)'
  BY <1>1, <1>4, <1>5, PrimeMem
<1>7. MmuTypeOK'
  BY <1>1, <1>4, <1>5 DEF MmuTypeOK, Good, Memories, Slots
<1>8. OldestOnly(mem, Resident(mem), Resident(mem'))
  BY <1>1, <1>2, <1>3, <1>5 DEF Lost, OldestOnly
<1> QED
  BY <1>6, <1>7, <1>8 DEF IInv

\* Every request of mem_test.c preserves the invariant.
LEMMA NextInv == IInv /\ [MmuNext]_mmu_vars => IInv'
<1> SUFFICES ASSUME IInv, [MmuNext]_mmu_vars PROVE IInv'
  OBVIOUS
<1>1. CASE MmuNext
  BY <1>1, RequestIs DEF MmuNext
<1>2. CASE UNCHANGED mmu_vars
  <2>1. mem' = mem /\ rep_mode' = rep_mode
    BY <1>2 DEF mmu_vars
  <2>2. Good(mem)' /\ BitsClear(mem)'
    BY <2>1, PrimeMem DEF IInv
  <2>3. MmuTypeOK'
    BY <2>1 DEF IInv, MmuTypeOK
  <2> QED
    BY <2>2, <2>3 DEF IInv
<1> QED
  BY <1>1, <1>2

\* The invariant of the hierarchy holds after every sequence of requests.
THEOREM Invariant == MmuSpec => []IInv
BY InitInv, NextInv, PTL DEF MmuSpec

-----------------------------------------------------------------------------
(* What follows. *)

\* With a page in one slot at most, the slots used are as many as the pages.
LEMMA UsedArePages ==
  ASSUME NEW n \in Nat, NEW slots \in Arrays(n), OneSlot(slots)
  PROVE  /\ IsFiniteSet(PagesOf(slots))
         /\ Cardinality(Used(slots)) = Cardinality(PagesOf(slots))
<1> DEFINE f == [i \in Used(slots) |-> slots[i].page]
<1>1. DOMAIN slots = 0 .. n - 1
  BY DEF Arrays
<1>2. IsFiniteSet(0 .. n - 1)
  BY FS_Interval
<1>3. IsFiniteSet(Used(slots))
  <2>1. Used(slots) \in SUBSET (0 .. n - 1)
    BY <1>1 DEF Used
  <2> QED
    BY <1>2, <2>1, FS_Subset
<1>4. f \in Bijection(Used(slots), PagesOf(slots))
  <2>1. f \in [Used(slots) -> PagesOf(slots)]
    BY DEF Used, PagesOf
  <2>2. \A p \in PagesOf(slots) : \E i \in Used(slots) : f[i] = p
    BY DEF Used, PagesOf
  <2>3. \A i, j \in Used(slots) : f[i] = f[j] => i = j
    BY DEF Used, OneSlot
  <2> QED
    BY <2>1, <2>2, <2>3 DEF Bijection, Injection, Surjection, IsInjective
<1> QED
  BY <1>3, <1>4, FS_Bijection DEF ExistsBijection

\* The sizes of disjoint sets add up.
LEMMA DisjointUnion ==
  ASSUME NEW A, NEW B, IsFiniteSet(A), IsFiniteSet(B), A \cap B = {}
  PROVE  IsFiniteSet(A \cup B) /\ Cardinality(A \cup B) = Cardinality(A) + Cardinality(B)
<1>1. /\ IsFiniteSet(A \cup B)
      /\ Cardinality(A \cup B) = Cardinality(A) + Cardinality(B) - Cardinality(A \cap B)
  BY FS_Union, Zenon
<1>2. Cardinality(A) \in Nat /\ Cardinality(B) \in Nat /\ Cardinality(A \cap B) = 0
  BY FS_CardinalityType, FS_EmptySet
<1> QED
  BY <1>1, <1>2

\* For any number of pages and any sizes of the levels: whatever was fetched,
\* swapped and moved, a page is in one slot of one level.
THEOREM PagesAreExclusive == MmuSpec => []Exclusive
<1>1. IInv => Exclusive
  <2> SUFFICES ASSUME IInv PROVE Exclusive
    OBVIOUS
  <2>1. mem \in Memories /\ Apart(mem) /\ MmuTypeOK
    BY DEF IInv, Good
  <2>2. mem.L1 \in Arrays(L1_SIZE) /\ mem.L2 \in Arrays(L2_SIZE) /\ mem.RAM \in Arrays(RAM_SIZE)
    BY <2>1 DEF Memories
  <2> DEFINE A == PagesOf(mem.L1)
             B == PagesOf(mem.L2)
             C == PagesOf(mem.RAM)
  <2>3. /\ IsFiniteSet(A) /\ Cardinality(Used(mem.L1)) = Cardinality(A)
        /\ IsFiniteSet(B) /\ Cardinality(Used(mem.L2)) = Cardinality(B)
        /\ IsFiniteSet(C) /\ Cardinality(Used(mem.RAM)) = Cardinality(C)
    BY <2>1, <2>2, Sizes, UsedArePages DEF Apart
  <2>4. A \cap B = {} /\ (A \cup B) \cap C = {} /\ Resident(mem) = (A \cup B) \cup C
    BY <2>1 DEF Apart, Resident
  <2> HIDE DEF A, B, C
  <2>5. /\ Cardinality(A) \in Nat /\ Cardinality(B) \in Nat /\ Cardinality(C) \in Nat
        /\ Cardinality({}) = 0
    BY <2>3, FS_CardinalityType, FS_EmptySet
  <2>6. IsFiniteSet(A \cup B) /\ Cardinality(A \cup B) = Cardinality(A) + Cardinality(B)
    BY <2>3, <2>4, <2>5, DisjointUnion
  <2>7. Cardinality((A \cup B) \cup C) = Cardinality(A \cup B) + Cardinality(C)
    BY <2>3, <2>4, <2>6, DisjointUnion
  <2> QED
    BY <2>1, <2>3, <2>4, <2>5, <2>6, <2>7 DEF Exclusive
<1> QED
  BY <1>1, Invariant, PTL

\* In the modes mem_test documents, the page that is requested is in L1 once the
\* request is handled, whatever was requested before.
THEOREM RequestsAreLoaded == MmuSpec => []Loaded
<1>1. IInv => Loaded
  <2> SUFFICES ASSUME IInv, NEW p \in Pages, rep_mode \in 0 .. 2
               PROVE  p \in PagesOf(isu_mmu_handle_req(mem, rep_mode, p).L1)
    BY DEF Loaded
  <2>1. rep_mode \in 0 .. 4 /\ Good(mem)
    BY DEF IInv
  <2> QED
    BY <2>1, RequestHandles DEF Handles
<1> QED
  BY <1>1, Invariant, PTL

\* No request loses a page but the one that was in RAM longest, and only when L2 is
\* full.
THEOREM OnlyOldestIsLost == MmuSpec => OldestIsLost
<1> DEFINE Step == \A p \in Resident(mem) \ Resident(mem') :
             /\ \A i \in DOMAIN mem.L2 : mem.L2[i].page # NoPage
             /\ p = mem.RAM[Oldest(mem.RAM, "access_time", DOMAIN mem.RAM)].page
<1>1. IInv /\ [MmuNext]_mmu_vars => [Step]_mmu_vars
  <2> SUFFICES ASSUME IInv, MmuNext PROVE Step
    OBVIOUS
  <2>1. PICK p \in Pages : Request(p)
    BY DEF MmuNext
  <2>2. OldestOnly(mem, Resident(mem), Resident(mem'))
    BY <2>1, RequestIs
  <2>3. DOMAIN mem.L2 = 0 .. L2_SIZE - 1
    BY DEF IInv, MmuTypeOK, Slots
  <2> QED
    BY <2>2, <2>3 DEF OldestOnly, L2Open, RamOldest
<1> QED
  BY <1>1, Invariant, PTL DEF MmuSpec, OldestIsLost

-----------------------------------------------------------------------------
(* Lines: the slots of a finite set in an order. *)

\* R is a strict total order of U.
Orders(R, U) ==
  /\ \A i \in U : <<i, i>> \notin R
  /\ \A i, j, k \in U : <<i, j>> \in R /\ <<j, k>> \in R => <<i, k>> \in R
  /\ \A i, j \in U : i # j => <<i, j>> \in R \/ <<j, i>> \in R

Ahead(R, U, i) == {j \in U : <<j, i>> \in R}

\* f lists U in the order R.
Lists(f, R, U) ==
  /\ f \in [1 .. Cardinality(U) -> U]
  /\ \A j, k \in 1 .. Cardinality(U) : j < k => <<f[j], f[k]>> \in R

\* An element has more elements ahead of it than each of those has.
LEMMA AheadGrows ==
  ASSUME NEW U, IsFiniteSet(U), NEW R, Orders(R, U)
  PROVE  /\ \A i \in U : Cardinality(Ahead(R, U, i)) \in 0 .. Cardinality(U) - 1
         /\ \A i, j \in U : <<i, j>> \in R => Cardinality(Ahead(R, U, i)) < Cardinality(Ahead(R, U, j))
<1>1. \A i \in U : IsFiniteSet(Ahead(R, U, i)) /\ Cardinality(Ahead(R, U, i)) \in Nat
  <2>. TAKE i \in U
  <2>1. Ahead(R, U, i) \in SUBSET U  BY DEF Ahead
  <2>. QED  BY <2>1, FS_Subset, FS_CardinalityType
<1>2. ASSUME NEW i \in U, NEW S \in SUBSET U, IsFiniteSet(S), Ahead(R, U, i) \subseteq S, i \in S
      PROVE  Cardinality(Ahead(R, U, i)) < Cardinality(S)
  <2>1. i \notin Ahead(R, U, i)  BY DEF Ahead, Orders
  <2>2. Cardinality(S) \in Nat  BY <1>2, FS_CardinalityType
  <2>3. Ahead(R, U, i) # S  BY <1>2, <2>1
  <2>4. Ahead(R, U, i) \in SUBSET S  BY <1>2
  <2>5. Cardinality(Ahead(R, U, i)) <= Cardinality(S) /\ Cardinality(Ahead(R, U, i)) # Cardinality(S)
    BY <1>2, <2>3, <2>4, FS_Subset
  <2>. QED  BY <1>1, <2>2, <2>5
<1>3. \A i \in U : Cardinality(Ahead(R, U, i)) \in 0 .. Cardinality(U) - 1
  <2>. TAKE i \in U
  <2>1. Ahead(R, U, i) \subseteq U  BY DEF Ahead
  <2>2. Cardinality(U) \in Nat  BY FS_CardinalityType
  <2>3. Cardinality(Ahead(R, U, i)) < Cardinality(U)  BY <1>2, <2>1
  <2>. QED  BY <1>1, <2>2, <2>3
<1>4. ASSUME NEW i \in U, NEW j \in U, <<i, j>> \in R
      PROVE  Cardinality(Ahead(R, U, i)) < Cardinality(Ahead(R, U, j))
  <2>1. Ahead(R, U, i) \subseteq Ahead(R, U, j) /\ i \in Ahead(R, U, j)
    BY <1>4 DEF Ahead, Orders
  <2>2. Ahead(R, U, j) \in SUBSET U  BY DEF Ahead
  <2>. QED  BY <1>1, <1>2, <2>1, <2>2
<1>. QED  BY <1>3, <1>4

\* A line has every element, the k-th with k - 1 ahead of it.
LEMMA ListsIs ==
  ASSUME NEW U, IsFiniteSet(U), NEW R, Orders(R, U), NEW f, Lists(f, R, U)
  PROVE  /\ \A i \in U : \E k \in 1 .. Cardinality(U) : f[k] = i
         /\ \A k \in 1 .. Cardinality(U) : Cardinality(Ahead(R, U, f[k])) = k - 1
         /\ \A j, k \in 1 .. Cardinality(U) : f[j] = f[k] => j = k
         /\ \A j, k \in 1 .. Cardinality(U) : <<f[j], f[k]>> \in R <=> j < k
<1>. DEFINE n == Cardinality(U)
<1>0. n \in Nat /\ IsFiniteSet(1 .. n) /\ Cardinality(1 .. n) = n
  BY FS_CardinalityType, FS_Interval
<1>1. f \in [1 .. n -> U] /\ \A j, k \in 1 .. n : j < k => <<f[j], f[k]>> \in R
  BY DEF Lists
<1>. HIDE DEF n
<1>2. \A j, k \in 1 .. n : <<f[j], f[k]>> \in R <=> j < k
  <2>. TAKE j, k \in 1 .. n
  <2>1. f[j] \in U /\ f[k] \in U  BY <1>1
  <2>2. CASE j < k  BY <1>1, <2>2
  <2>3. CASE j = k  BY <2>1, <2>3 DEF Orders
  <2>4. CASE k < j
    <3>1. <<f[k], f[j]>> \in R  BY <1>1, <2>4
    <3>2. <<f[j], f[k]>> \in R => <<f[j], f[j]>> \in R  BY <2>1, <3>1 DEF Orders
    <3>. QED  BY <2>1, <2>4, <3>2 DEF Orders
  <2>. QED  BY <1>0, <2>2, <2>3, <2>4
<1>3. \A j, k \in 1 .. n : f[j] = f[k] => j = k
  <2>. SUFFICES ASSUME NEW j \in 1 .. n, NEW k \in 1 .. n, f[j] = f[k]  PROVE j = k
    OBVIOUS
  <2>1. <<f[j], f[k]>> \notin R /\ <<f[k], f[j]>> \notin R  BY <1>1 DEF Orders
  <2>. QED  BY <1>0, <1>2, <2>1
<1>4. f \in Surjection(1 .. n, U)
  <2>1. f \in Injection(1 .. n, U)  BY <1>1, <1>3 DEF Injection, IsInjective
  <2>. QED  BY <1>0, <2>1, FS_Injection DEF n
<1>5. ASSUME NEW i \in U  PROVE \E k \in 1 .. n : f[k] = i
  BY <1>4 DEF Surjection
<1>6. ASSUME NEW k \in 1 .. n  PROVE Cardinality(Ahead(R, U, f[k])) = k - 1
  <2>. DEFINE g == [j \in 1 .. k - 1 |-> f[j]]
              A == Ahead(R, U, f[k])
  <2>1. \A j \in 1 .. k - 1 : j \in 1 .. n /\ j < k  BY <1>0
  <2>2. g \in [1 .. k - 1 -> A]  BY <1>1, <2>1 DEF Ahead
  <2>3. ASSUME NEW i \in A  PROVE \E j \in 1 .. k - 1 : g[j] = i
    <3>1. i \in U /\ <<i, f[k]>> \in R  BY DEF Ahead
    <3>2. PICK j \in 1 .. n : f[j] = i  BY <1>5, <3>1
    <3>3. j < k  BY <1>2, <3>1, <3>2
    <3>4. j \in 1 .. k - 1  BY <1>0, <3>3
    <3>. QED  BY <3>2, <3>4
  <2>4. g \in Bijection(1 .. k - 1, A)
    <3>1. \A x, y \in 1 .. k - 1 : g[x] = g[y] => x = y  BY <1>3, <2>1
    <3>. HIDE DEF g, A
    <3>. QED  BY <2>2, <2>3, <3>1 DEF Bijection, Injection, Surjection, IsInjective
  <2>5. k - 1 \in Nat  BY <1>0
  <2>. HIDE DEF g, A
  <2>6. ExistsBijection(1 .. k - 1, A)  BY <2>4 DEF ExistsBijection
  <2>. QED  BY <2>5, <2>6, FS_CountingElements DEF A
<1>. QED  BY <1>2, <1>3, <1>5, <1>6 DEF n

\* Every finite set has a line.
LEMMA ListsExist ==
  ASSUME NEW U, IsFiniteSet(U), NEW R, Orders(R, U)
  PROVE  \E f : Lists(f, R, U)
<1>. DEFINE n == Cardinality(U)
            rank == [i \in U |-> Cardinality(Ahead(R, U, i)) + 1]
            f == [k \in 1 .. n |-> CHOOSE i \in U : rank[i] = k]
<1>0. n \in Nat /\ IsFiniteSet(1 .. n) /\ Cardinality(1 .. n) = n
  BY FS_CardinalityType, FS_Interval
<1>1. \A i \in U : Cardinality(Ahead(R, U, i)) \in 0 .. n - 1
  BY AheadGrows
<1>2. rank \in [U -> 1 .. n]
  <2>1. \A i \in U : Cardinality(Ahead(R, U, i)) + 1 \in 1 .. n  BY <1>0, <1>1
  <2>. QED  BY <2>1
<1>3. \A i, j \in U : <<i, j>> \in R => rank[i] < rank[j]
  <2>. SUFFICES ASSUME NEW i \in U, NEW j \in U, <<i, j>> \in R  PROVE rank[i] < rank[j]
    OBVIOUS
  <2>1. Cardinality(Ahead(R, U, i)) < Cardinality(Ahead(R, U, j))  BY AheadGrows
  <2>. QED  BY <1>0, <1>1, <2>1
<1>. HIDE DEF n, rank
<1>4. \A i, j \in U : rank[i] = rank[j] => i = j
  <2>. SUFFICES ASSUME NEW i \in U, NEW j \in U, rank[i] = rank[j], i # j  PROVE FALSE
    OBVIOUS
  <2>1. <<i, j>> \in R \/ <<j, i>> \in R  BY DEF Orders
  <2>2. rank[i] < rank[j] \/ rank[j] < rank[i]  BY <1>3, <2>1
  <2>. QED  BY <1>0, <1>2, <2>2
<1>5. rank \in Surjection(U, 1 .. n)
  <2>1. rank \in Injection(U, 1 .. n)  BY <1>2, <1>4 DEF Injection, IsInjective
  <2>. QED  BY <1>0, <2>1, FS_Injection DEF n
<1>6. ASSUME NEW k \in 1 .. n  PROVE f[k] \in U /\ rank[f[k]] = k
  <2>1. \E i \in U : rank[i] = k  BY <1>5 DEF Surjection
  <2>. QED  BY <2>1
<1>7. f \in [1 .. n -> U]  BY <1>6
<1>. HIDE DEF f
<1>8. ASSUME NEW j \in 1 .. n, NEW k \in 1 .. n, j < k  PROVE <<f[j], f[k]>> \in R
  <2>1. /\ f[j] \in U /\ f[k] \in U /\ rank[f[j]] = j /\ rank[f[k]] = k
    BY <1>6
  <2>2. f[j] # f[k]  BY <1>0, <1>8, <2>1
  <2>3. <<f[k], f[j]>> \notin R
    <3>1. ~(k < j)  BY <1>0, <1>8
    <3>. QED  BY <1>3, <2>1, <3>1
  <2>. QED  BY <2>1, <2>2, <2>3 DEF Orders
<1>. QED  BY <1>7, <1>8, Zenon DEF Lists, n

\* Orders R and Q of the elements other than r are the same.
AgreeBut(R, Q, U, r) == \A i, j \in U \ {r} : <<i, j>> \in R <=> <<i, j>> \in Q

\* A new element joins at the end of the line.
LEMMA JoinsLine ==
  ASSUME NEW U, IsFiniteSet(U), NEW R, NEW Q, NEW f, Lists(f, R, U), NEW r, r \notin U,
         AgreeBut(R, Q, U, r), \A i \in U : <<i, r>> \in Q
  PROVE  LET n == Cardinality(U)
             g == [k \in 1 .. n + 1 |-> IF k = n + 1 THEN r ELSE f[k]]
         IN  Cardinality(U \cup {r}) = n + 1 /\ Lists(g, Q, U \cup {r})
<1>. DEFINE n == Cardinality(U)
            g == [k \in 1 .. n + 1 |-> IF k = n + 1 THEN r ELSE f[k]]
<1>0. n \in Nat /\ Cardinality(U \cup {r}) = n + 1
  BY FS_CardinalityType, FS_AddElement
<1>1. f \in [1 .. n -> U] /\ \A j, k \in 1 .. n : j < k => <<f[j], f[k]>> \in R
  BY DEF Lists
<1>. HIDE DEF n
<1>2. \A k \in 1 .. n + 1 : k # n + 1 => k \in 1 .. n  BY <1>0
<1>3. g \in [1 .. n + 1 -> U \cup {r}]  BY <1>1, <1>2
<1>4. ASSUME NEW j \in 1 .. n + 1, NEW k \in 1 .. n + 1, j < k  PROVE <<g[j], g[k]>> \in Q
  <2>1. j \in 1 .. n /\ g[j] = f[j] /\ f[j] \in U \ {r}  BY <1>0, <1>1, <1>4
  <2>2. CASE k = n + 1  BY <2>1, <2>2
  <2>3. CASE k # n + 1
    <3>1. k \in 1 .. n /\ g[k] = f[k] /\ f[k] \in U \ {r}  BY <1>1, <1>2, <2>3
    <3>2. <<f[j], f[k]>> \in R  BY <1>1, <1>4, <2>1, <3>1
    <3>. QED  BY <2>1, <3>1, <3>2 DEF AgreeBut
  <2>. QED  BY <2>2, <2>3
<1>. QED  BY <1>0, <1>3, <1>4 DEF Lists, n

\* The element at place a moves back behind those that are now ahead of it.
LEMMA MovesBack ==
  ASSUME NEW U, IsFiniteSet(U), NEW R, Orders(R, U), NEW Q, Orders(Q, U), NEW f, Lists(f, R, U),
         NEW a \in 1 .. Cardinality(U),
         AgreeBut(R, Q, U, f[a]), \A i \in U : <<i, f[a]>> \in R => <<i, f[a]>> \in Q
  PROVE  \E b \in a .. Cardinality(U) :
           /\ Lists([k \in 1 .. Cardinality(U) |->
                       IF k \in a .. b - 1 THEN f[k + 1] ELSE IF k = b THEN f[a] ELSE f[k]], Q, U)
           /\ \A k \in 1 .. Cardinality(U) : <<f[a], f[k]>> \in Q => k \in b + 1 .. Cardinality(U)
           /\ \A k \in b + 1 .. Cardinality(U) : <<f[a], f[k]>> \in Q
<1>. DEFINE n == Cardinality(U)  r == f[a]
            Back == {b \in a .. n : \A k \in b + 1 .. n : <<r, f[k]>> \in Q}
<1>0. n \in Nat /\ a \in 1 .. n  BY FS_CardinalityType
<1>1. f \in [1 .. n -> U] /\ \A j, k \in 1 .. n : j < k => <<f[j], f[k]>> \in R
  BY DEF Lists
<1>2. \A j, k \in 1 .. n : f[j] = f[k] => j = k  BY ListsIs
<1>. HIDE DEF n
<1>3. n \in Back
  <2>1. n + 1 .. n = {}  BY <1>0
  <2>. QED  BY <1>0, <2>1
<1>4. PICK b \in Back : \A k \in Back : b <= k
  <2>1. Back \in SUBSET Nat  BY <1>0
  <2>. HIDE DEF Back
  <2>. QED  BY <1>3, <2>1, LeastElement
<1>5. b \in a .. n /\ \A k \in b + 1 .. n : <<r, f[k]>> \in Q  OBVIOUS
\* Those between are ahead: the nearest to the end is, and with it the others.
<1>6. ASSUME NEW k \in a + 1 .. b  PROVE <<f[k], r>> \in Q
  <2>1. b - 1 \in a .. n /\ b - 1 \notin Back  BY <1>0, <1>4, <1>5
  <2>2. ~ \A x \in (b - 1) + 1 .. n : <<r, f[x]>> \in Q  BY <2>1
  <2>3. PICK x \in (b - 1) + 1 .. n : <<r, f[x]>> \notin Q  BY <2>2
  <2>4. x = b  BY <1>0, <1>5, <2>3
  <2>5. b \in 1 .. n /\ k \in 1 .. n /\ b # a /\ k # a  BY <1>0, <1>5
  <2>6. f[b] # r /\ f[b] \in U /\ r \in U /\ f[k] \in U /\ f[k] # r  BY <1>0, <1>1, <1>2, <2>5
  <2>7. <<f[b], r>> \in Q  BY <2>3, <2>4, <2>6 DEF Orders
  <2>8. CASE k = b  BY <2>7, <2>8
  <2>9. CASE k # b
    <3>1. k < b  BY <1>0, <1>5, <2>9
    <3>2. <<f[k], f[b]>> \in R  BY <1>1, <2>5, <3>1
    <3>3. <<f[k], f[b]>> \in Q  BY <2>6, <3>2 DEF AgreeBut
    <3>. QED  BY <2>6, <2>7, <3>3 DEF Orders
  <2>. QED  BY <2>8, <2>9
<1>7. ASSUME NEW k \in 1 .. a - 1  PROVE <<f[k], r>> \in Q
  <2>1. k \in 1 .. n /\ k < a  BY <1>0
  <2>2. <<f[k], r>> \in R /\ f[k] \in U  BY <1>0, <1>1, <2>1
  <2>. QED  BY <2>2
<1>. DEFINE g == [k \in 1 .. n |-> IF k \in a .. b - 1 THEN f[k + 1] ELSE IF k = b THEN r ELSE f[k]]
\* Each place takes its element from src.
<1>8. ASSUME NEW j \in 1 .. n, NEW k \in 1 .. n, j < k  PROVE <<g[j], g[k]>> \in Q
  <2>. DEFINE src(x) == IF x \in a .. b - 1 THEN x + 1 ELSE x
  <2>1. /\ \A x \in 1 .. n : x # b => g[x] = f[src(x)] /\ src(x) \in 1 .. n /\ src(x) # a
        /\ g[b] = r /\ b \in 1 .. n
    <3>1. b \in 1 .. n /\ b \notin a .. b - 1  BY <1>0, <1>5
    <3>2. ASSUME NEW x \in 1 .. n, x # b
          PROVE  g[x] = f[src(x)] /\ src(x) \in 1 .. n /\ src(x) # a
      <4>1. CASE x \in a .. b - 1  BY <1>0, <1>5, <3>2, <4>1
      <4>2. CASE x \notin a .. b - 1  BY <1>0, <1>5, <3>2, <4>2
      <4>. QED  BY <4>1, <4>2
    <3>. QED  BY <3>1, <3>2
  <2>. HIDE DEF g
  <2>2. CASE j # b /\ k # b
    <3>1. src(j) < src(k)  BY <1>0, <1>5, <1>8, <2>2
    <3>2. <<f[src(j)], f[src(k)]>> \in R  BY <1>1, <2>1, <2>2, <3>1
    <3>3. f[src(j)] \in U \ {r} /\ f[src(k)] \in U \ {r}  BY <1>0, <1>1, <1>2, <2>1, <2>2
    <3>. QED  BY <2>1, <2>2, <3>2, <3>3 DEF AgreeBut
  <2>3. CASE k = b
    <3>1. src(j) \in 1 .. a - 1 \/ src(j) \in a + 1 .. b  BY <1>0, <1>5, <1>8, <2>3
    <3>2. <<f[src(j)], r>> \in Q  BY <1>6, <1>7, <3>1
    <3>. QED  BY <1>8, <2>1, <2>3, <3>2
  <2>4. CASE j = b
    <3>1. src(k) \in b + 1 .. n /\ k # b  BY <1>0, <1>5, <1>8, <2>4
    <3>2. <<r, f[src(k)]>> \in Q  BY <1>5, <3>1
    <3>. QED  BY <2>1, <2>4, <3>1, <3>2
  <2>. QED  BY <2>2, <2>3, <2>4
<1>9. g \in [1 .. n -> U]
  <2>1. ASSUME NEW k \in 1 .. n
        PROVE  (IF k \in a .. b - 1 THEN f[k + 1] ELSE IF k = b THEN r ELSE f[k]) \in U
    <3>1. k \in a .. b - 1 => k + 1 \in 1 .. n  BY <1>0, <1>5
    <3>. QED  BY <1>0, <1>1, <3>1
  <2>. QED  BY <2>1
<1>10. ASSUME NEW k \in 1 .. n, <<r, f[k]>> \in Q  PROVE k \in b + 1 .. n
  <2>1. r \in U /\ f[k] \in U  BY <1>0, <1>1
  <2>2. <<f[k], r>> \notin Q /\ f[k] # r  BY <1>10, <2>1 DEF Orders
  <2>3. k \notin 1 .. a - 1 /\ k # a /\ k \notin a + 1 .. b  BY <1>6, <1>7, <2>2
  <2>. QED  BY <1>0, <1>5, <2>3
<1>11. Lists(g, Q, U)  BY <1>8, <1>9 DEF Lists, n
<1>. QED  BY <1>5, <1>10, <1>11 DEF n

\* The first of the line goes to its end.
LEMMA FirstGoesLast ==
  ASSUME NEW U, IsFiniteSet(U), NEW R, Orders(R, U), NEW Q, Orders(Q, U), NEW f, Lists(f, R, U),
         Cardinality(U) # 0,
         AgreeBut(R, Q, U, f[1]), \A i \in U \ {f[1]} : <<i, f[1]>> \in Q
  PROVE  Lists([k \in 1 .. Cardinality(U) |-> IF k = Cardinality(U) THEN f[1] ELSE f[k + 1]], Q, U)
<1>. DEFINE n == Cardinality(U)
            g == [k \in 1 .. n |-> IF k = n THEN f[1] ELSE f[k + 1]]
<1>0. n \in Nat \ {0}  BY FS_CardinalityType
<1>1. f \in [1 .. n -> U] /\ \A j, k \in 1 .. n : j < k => <<f[j], f[k]>> \in R
  BY DEF Lists
<1>2. \A j, k \in 1 .. n : f[j] = f[k] => j = k  BY ListsIs
<1>. HIDE DEF n
<1>3. \A k \in 1 .. n : k # n => k + 1 \in 1 .. n /\ k + 1 # 1  BY <1>0
<1>4. 1 \in 1 .. n  BY <1>0
<1>5. g \in [1 .. n -> U]  BY <1>1, <1>3, <1>4
<1>6. ASSUME NEW j \in 1 .. n, NEW k \in 1 .. n, j < k  PROVE <<g[j], g[k]>> \in Q
  <2>1. j # n /\ j + 1 \in 1 .. n /\ g[j] = f[j + 1] /\ f[j + 1] \in U \ {f[1]}
    <3>1. j # n  BY <1>0, <1>6
    <3>. QED  BY <1>1, <1>2, <1>3, <1>4, <3>1
  <2>2. CASE k = n  BY <2>1, <2>2
  <2>3. CASE k # n
    <3>1. k + 1 \in 1 .. n /\ g[k] = f[k + 1] /\ f[k + 1] \in U \ {f[1]}
      BY <1>1, <1>2, <1>3, <1>4, <2>3
    <3>2. <<f[j + 1], f[k + 1]>> \in R  BY <1>1, <1>6, <2>1, <3>1
    <3>. QED  BY <2>1, <3>1, <3>2 DEF AgreeBut
  <2>. QED  BY <2>2, <2>3
<1>. QED  BY <1>5, <1>6 DEF Lists, n

-----------------------------------------------------------------------------
(* The line of L1. *)

\* The time a mode looks at.
WhenOf(mode) == IF mode = 1 THEN "access_time" ELSE "placement_time"

\* Line, Chance and Recent of any memory.
Sooner(m, mode, i, j) ==
  LET turn(k) == IF k < m.hand THEN k + L1_SIZE ELSE k
      a == m.L1[i][WhenOf(mode)]
      b == m.L1[j][WhenOf(mode)]
  IN  IF mode = 2 THEN turn(i) < turn(j) ELSE a < b \/ (a = b /\ i < j)

LineOf(m, mode) ==
  LET used == Used(m.L1)
      At(k) == CHOOSE i \in used : Cardinality({j \in used : Sooner(m, mode, j, i)}) = k - 1
  IN  [k \in 1 .. Cardinality(used) |-> m.L1[At(k)].page]

ChanceOf(m, mode) ==
  IF mode # 2 THEN {} ELSE {m.L1[i].page : i \in DOMAIN m.L1 \ Unreferenced(m.L1)}
RecentOf(m, mode) ==
  IF mode # 1 THEN {}
  ELSE {m.L1[i].page : i \in {j \in Used(m.L1) : m.L1[j].access_time = m.t}}

OrderOf(m, mode) == {w \in Used(m.L1) \X Used(m.L1) : Sooner(m, mode, w[1], w[2])}

\* What the line depends on.
Lined(m) == m.L1 \in Arrays(L1_SIZE) /\ m.hand \in 0 .. L1_SIZE /\ m.t \in Nat

\* The properties are about mem, before and after a step.
LEMMA LineIsOf ==
  /\ Line = LineOf(mem, rep_mode) /\ Chance = ChanceOf(mem, rep_mode) /\ Recent = RecentOf(mem, rep_mode)
  /\ Line' = LineOf(mem', rep_mode') /\ Chance' = ChanceOf(mem', rep_mode')
  /\ Recent' = RecentOf(mem', rep_mode')
<1>1. Line = LineOf(mem, rep_mode)  BY DEF Line, Before, Turn, LineOf, Sooner, WhenOf
<1>2. Line' = LineOf(mem', rep_mode')  BY DEF Line, Before, Turn, LineOf, Sooner, WhenOf, Used
<1>3. Chance = ChanceOf(mem, rep_mode) /\ Recent = RecentOf(mem, rep_mode)
  BY DEF Chance, Recent, ChanceOf, RecentOf
<1>4. Chance' = ChanceOf(mem', rep_mode') /\ Recent' = RecentOf(mem', rep_mode')
  BY DEF Chance, Recent, ChanceOf, RecentOf, Used, Unreferenced
<1>. QED  BY <1>1, <1>2, <1>3, <1>4

\* The slots of a level that are used.
LEMMA UsedIs ==
  ASSUME NEW n \in Nat, NEW a \in Arrays(n)
  PROVE  /\ DOMAIN a = 0 .. n - 1
         /\ Used(a) \in SUBSET (0 .. n - 1)
         /\ IsFiniteSet(Used(a))
         /\ Cardinality(Used(a)) \in 0 .. n
         /\ Full(a) <=> Used(a) = 0 .. n - 1
         /\ Full(a) <=> Cardinality(Used(a)) = n
         /\ \A i \in 0 .. n - 1 : /\ a[i].page \in Pages \cup {NoPage} /\ a[i].ref \in 0 .. 1
                                  /\ a[i].access_time \in Nat /\ a[i].placement_time \in Nat
<1>1. DOMAIN a = 0 .. n - 1 /\ Used(a) \in SUBSET (0 .. n - 1)  BY DEF Arrays, Used
<1>2. IsFiniteSet(0 .. n - 1) /\ Cardinality(0 .. n - 1) = n
  BY FS_Interval
<1>3. IsFiniteSet(Used(a)) /\ Cardinality(Used(a)) \in Nat /\ Cardinality(Used(a)) <= n
  BY <1>1, <1>2, FS_Subset, FS_CardinalityType
<1>4. Full(a) <=> Used(a) = 0 .. n - 1  BY <1>1 DEF Full, Used
<1>5. Cardinality(Used(a)) = n => Used(a) = 0 .. n - 1  BY <1>1, <1>2, FS_Subset
<1>6. \A i \in 0 .. n - 1 : /\ a[i].page \in Pages \cup {NoPage} /\ a[i].ref \in 0 .. 1
                            /\ a[i].access_time \in Nat /\ a[i].placement_time \in Nat
  BY DEF Arrays, Cells
<1>. QED  BY <1>1, <1>2, <1>3, <1>4, <1>5, <1>6

LEMMA OrderIs ==
  ASSUME NEW m, Lined(m), NEW mode
  PROVE  /\ Orders(OrderOf(m, mode), Used(m.L1))
         /\ IsFiniteSet(Used(m.L1))
         /\ \A i, j \in Used(m.L1) : <<i, j>> \in OrderOf(m, mode) <=> Sooner(m, mode, i, j)
<1>. DEFINE U == Used(m.L1)  R == OrderOf(m, mode)
<1>1. /\ U \in SUBSET (0 .. L1_SIZE - 1) /\ IsFiniteSet(U) /\ L1_SIZE \in Nat
      /\ \A i \in U : m.L1[i][WhenOf(mode)] \in Nat
  BY Sizes, UsedIs DEF WhenOf, Lined
<1>2. \A i, j \in U : <<i, j>> \in R <=> Sooner(m, mode, i, j)  BY DEF OrderOf
<1>. HIDE DEF R, U
<1>3. CASE mode = 2
  <2>. DEFINE turn(k) == IF k < m.hand THEN k + L1_SIZE ELSE k
  <2>1. \A i, j \in U : <<i, j>> \in R <=> turn(i) < turn(j)  BY <1>2, <1>3 DEF Sooner
  <2>2. \A i, j \in U : turn(i) \in Int /\ (i # j => turn(i) # turn(j))  BY <1>1 DEF Lined
  <2>. HIDE DEF turn
  <2>. QED  BY <1>1, <1>2, <2>1, <2>2 DEF Orders, R, U
<1>4. CASE mode # 2
  <2>. DEFINE x(i) == m.L1[i][WhenOf(mode)]
  <2>1. \A i, j \in U : <<i, j>> \in R <=> x(i) < x(j) \/ (x(i) = x(j) /\ i < j)
    <3>. TAKE i, j \in U
    <3>1. Sooner(m, mode, i, j) <=> x(i) < x(j) \/ (x(i) = x(j) /\ i < j)  BY <1>4 DEF Sooner
    <3>. QED  BY <1>2, <3>1
  <2>2. \A i \in U : x(i) \in Int  BY <1>1
  <2>3. \A i \in U : i \in Int  BY <1>1
  <2>. HIDE DEF x
  <2>4. Orders(R, U)  BY <2>1, <2>2, <2>3 DEF Orders
  <2>. QED  BY <1>1, <1>2, <2>4 DEF R, U
<1>. QED  BY <1>3, <1>4

\* The line is what any listing of the used slots in their order says.
LEMMA LineIs ==
  ASSUME NEW m, Lined(m), NEW mode,
         NEW f, Lists(f, OrderOf(m, mode), Used(m.L1))
  PROVE  LineOf(m, mode) = [k \in 1 .. Cardinality(Used(m.L1)) |-> m.L1[f[k]].page]
<1>. DEFINE U == Used(m.L1)  R == OrderOf(m, mode)  n == Cardinality(U)
            At(k) == CHOOSE i \in U : Cardinality({j \in U : Sooner(m, mode, j, i)}) = k - 1
<1>1. Orders(R, U) /\ IsFiniteSet(U) /\ \A i, j \in U : <<i, j>> \in R <=> Sooner(m, mode, i, j)
  BY OrderIs
<1>2. \A i \in U : {j \in U : Sooner(m, mode, j, i)} = Ahead(R, U, i)  BY <1>1 DEF Ahead
<1>3. f \in [1 .. n -> U]  BY DEF Lists
<1>4. ASSUME NEW k \in 1 .. n  PROVE At(k) = f[k]
  <2>0. Cardinality(Ahead(R, U, f[k])) = k - 1
    <3>1. Lists(f, R, U)  OBVIOUS
    <3>. HIDE DEF R, U
    <3>2. \A j \in 1 .. Cardinality(U) : Cardinality(Ahead(R, U, f[j])) = j - 1
      BY <1>1, <3>1, ListsIs
    <3>. QED  BY <3>2
  <2>1. f[k] \in U /\ Cardinality(Ahead(R, U, f[k])) = k - 1  BY <1>3, <2>0
  <2>2. ASSUME NEW i \in U, Cardinality(Ahead(R, U, i)) = k - 1  PROVE i = f[k]
    <3>1. PICK j \in 1 .. n : f[j] = i  BY <1>1, ListsIs
    <3>2. Cardinality(Ahead(R, U, f[j])) = j - 1  BY <1>1, ListsIs
    <3>3. n \in Nat  BY <1>1, FS_CardinalityType
    <3>4. j = k
      <4>. HIDE DEF n
      <4>. QED  BY <3>1, <3>2, <3>3, <2>2
    <3>. QED  BY <3>1, <3>4
  <2>. DEFINE P(i) == Cardinality({j \in U : Sooner(m, mode, j, i)}) = k - 1
  <2>3. \A i \in U : P(i) <=> i = f[k]  BY <1>2, <2>1, <2>2
  <2>. HIDE DEF P
  <2>4. (CHOOSE i \in U : P(i)) = f[k]  BY <2>1, <2>3
  <2>. QED  BY <2>4 DEF P
<1>5. LineOf(m, mode) = [k \in 1 .. n |-> m.L1[At(k)].page]  BY DEF LineOf
<1>. HIDE DEF At, n
<1>6. [k \in 1 .. n |-> m.L1[At(k)].page] = [k \in 1 .. n |-> m.L1[f[k]].page]  BY <1>4
<1>. QED  BY <1>5, <1>6 DEF n

\* The same, for callers that know the slots by a name.
LineAs(m, mode, f) == LineOf(m, mode) = [k \in 1 .. Cardinality(Used(m.L1)) |-> m.L1[f[k]].page]

LEMMA LineIsAs ==
  ASSUME NEW m, Lined(m), NEW mode,
         NEW f, Lists(f, OrderOf(m, mode), Used(m.L1))
  PROVE  LineAs(m, mode, f)
BY LineIs DEF LineAs

\* No page was used or placed after the present.
Timely(m, mode) == \A i \in Used(m.L1) : m.L1[i][WhenOf(mode)] <= m.t

\* Equal pages in an equal order are one line.
LEMMA SameLine ==
  ASSUME NEW m, NEW n, Lined(m), Lined(n), SamePages(m.L1, n.L1), NEW mode,
         \A i, j \in Used(m.L1) : Sooner(m, mode, i, j) <=> Sooner(n, mode, i, j)
  PROVE  Used(n.L1) = Used(m.L1) /\ LineOf(n, mode) = LineOf(m, mode)
<1>. DEFINE U == Used(m.L1)  R == OrderOf(m, mode)
<1>1. Used(n.L1) = U  BY DEF SamePages, Used
<1>2. R = OrderOf(n, mode)  BY <1>1 DEF OrderOf
<1>3. Orders(R, U) /\ IsFiniteSet(U)  BY OrderIs
<1>4. PICK f : Lists(f, R, U)
  <2>. HIDE DEF R, U
  <2>. QED  BY <1>3, ListsExist
<1>5. LineOf(m, mode) = [k \in 1 .. Cardinality(U) |-> m.L1[f[k]].page]
  BY <1>4, LineIs
<1>6. Lists(f, OrderOf(n, mode), Used(n.L1))  BY <1>1, <1>2, <1>4
<1>7. LineOf(n, mode) = [k \in 1 .. Cardinality(U) |-> n.L1[f[k]].page]
  <2>1. LineOf(n, mode) = [k \in 1 .. Cardinality(Used(n.L1)) |-> n.L1[f[k]].page]  BY <1>6, LineIs
  <2>. HIDE DEF U
  <2>. QED  BY <1>1, <2>1
<1>8. ASSUME NEW k \in 1 .. Cardinality(U)  PROVE n.L1[f[k]].page = m.L1[f[k]].page
  <2>1. f[k] \in U  BY <1>4 DEF Lists
  <2>2. f[k] \in DOMAIN m.L1  BY <2>1 DEF Used
  <2>. QED  BY <2>2 DEF SamePages
<1>. HIDE DEF U
<1>. QED  BY <1>1, <1>5, <1>7, <1>8 DEF U

-----------------------------------------------------------------------------
(* A hit. *)

\* Slot k of L1 is hit.
Hits(m, n, k) ==
  /\ Lined(n) /\ SamePages(m.L1, n.L1) /\ n.hand = m.hand /\ n.t = m.t
  /\ \A i \in DOMAIN m.L1 : i # k => n.L1[i] = m.L1[i]
  /\ n.L1[k].access_time = m.t
  /\ n.L1[k].placement_time = m.L1[k].placement_time
  /\ n.L1[k].ref = 1

\* The line after a page in it was used.
UsesLine(m, n, mode, p) ==
  LET l == LineOf(m, mode)
  IN  \E a \in DOMAIN l :
        /\ l[a] = p
        /\ IF mode = 1
             THEN \E b \in a .. Len(l) :
                    /\ \A k \in b + 1 .. Len(l) : l[k] \in RecentOf(m, mode)
                    /\ LineOf(n, mode) = [k \in DOMAIN l |->
                         IF k \in a .. b - 1 THEN l[k + 1] ELSE IF k = b THEN l[a] ELSE l[k]]
             ELSE LineOf(n, mode) = l

\* f lists the slots of the pages in the line.
LinesUp(m, mode, f) ==
  /\ Lists(f, OrderOf(m, mode), Used(m.L1))
  /\ LineOf(m, mode) = [k \in 1 .. Cardinality(Used(m.L1)) |-> m.L1[f[k]].page]
  /\ f \in [1 .. Cardinality(Used(m.L1)) -> Used(m.L1)]
  /\ \A i \in Used(m.L1) : \E k \in 1 .. Cardinality(Used(m.L1)) : f[k] = i

\* Every page of L1 has a place in the line.
LEMMA LineHas ==
  ASSUME NEW m, Lined(m), NEW mode
  PROVE  \E f : LinesUp(m, mode, f)
<1>. DEFINE U == Used(m.L1)  R == OrderOf(m, mode)
<1>1. Orders(R, U) /\ IsFiniteSet(U)  BY OrderIs
<1>2. PICK f : Lists(f, R, U)
  <2>. HIDE DEF R, U
  <2>. QED  BY <1>1, ListsExist
<1>3. LineOf(m, mode) = [k \in 1 .. Cardinality(U) |-> m.L1[f[k]].page]
  BY <1>2, LineIs
<1>4. \A i \in U : \E k \in 1 .. Cardinality(U) : f[k] = i
  <2>. HIDE DEF R, U
  <2>. QED  BY <1>1, <1>2, ListsIs
<1>. QED  BY <1>2, <1>3, <1>4 DEF Lists, LinesUp

LEMMA LineType ==
  ASSUME NEW m, Lined(m), NEW mode
  PROVE  /\ LineOf(m, mode) \in Seq(Pages)
         /\ Len(LineOf(m, mode)) = Cardinality(Used(m.L1))
         /\ \A p : (\E k \in DOMAIN LineOf(m, mode) : LineOf(m, mode)[k] = p) <=> p \in PagesOf(m.L1)
<1>. DEFINE U == Used(m.L1)  n == Cardinality(U)  l == LineOf(m, mode)
<1>0. PICK f : LinesUp(m, mode, f)  BY LineHas
<1>1. /\ l = [k \in 1 .. n |-> m.L1[f[k]].page]
      /\ f \in [1 .. n -> U]
      /\ \A i \in U : \E k \in 1 .. n : f[k] = i
  BY <1>0 DEF LinesUp
<1>2. n \in Nat /\ U \subseteq DOMAIN m.L1 /\ \A i \in U : m.L1[i].page \in Pages
  <2>1. L1_SIZE \in Nat /\ m.L1 \in Arrays(L1_SIZE)  BY Sizes DEF Lined
  <2>2. n \in Nat  BY <2>1, UsedIs
  <2>3. \A i \in U : i \in DOMAIN m.L1 /\ m.L1[i].page # NoPage  BY DEF Used
  <2>4. \A i \in DOMAIN m.L1 : m.L1[i].page \in Pages \cup {NoPage}  BY <2>1, UsedIs
  <2>. QED  BY <2>2, <2>3, <2>4
<1>. HIDE DEF n, l
<1>3. \A k \in 1 .. n : m.L1[f[k]].page \in Pages  BY <1>1, <1>2
<1>4. l \in [1 .. n -> Pages]  BY <1>1, <1>3
<1>5. l \in Seq(Pages) /\ Len(l) = n /\ DOMAIN l = 1 .. n  BY <1>2, <1>4, LenProperties, SeqDef
<1>6. ASSUME NEW p  PROVE (\E k \in DOMAIN l : l[k] = p) <=> p \in PagesOf(m.L1)
  <2>1. PagesOf(m.L1) = {m.L1[i].page : i \in U}  BY DEF PagesOf, Used
  <2>2. ASSUME NEW k \in DOMAIN l, l[k] = p  PROVE p \in PagesOf(m.L1)
    BY <1>1, <1>5, <2>1, <2>2
  <2>3. ASSUME p \in PagesOf(m.L1)  PROVE \E k \in DOMAIN l : l[k] = p
    <3>1. PICK i \in U : m.L1[i].page = p  BY <2>1, <2>3
    <3>2. PICK k \in 1 .. n : f[k] = i  BY <1>1
    <3>. QED  BY <1>1, <1>5, <3>1, <3>2
  <2>. QED  BY <2>2, <2>3
<1>. QED  BY <1>5, <1>6 DEF l, n

\* A hit in mode 1: the page goes back behind those whose time is not the present.
LEMMA HitMovesBack ==
  ASSUME NEW m, NEW n, Lined(m), Timely(m, 1), NEW k \in Used(m.L1), Hits(m, n, k)
  PROVE  UsesLine(m, n, 1, m.L1[k].page)
<1>. DEFINE U == Used(m.L1)  R == OrderOf(m, 1)  Q == OrderOf(n, 1)  c == Cardinality(U)
            l == LineOf(m, 1)
            x(i) == m.L1[i].access_time
            y(i) == n.L1[i].access_time
<1>1. /\ U \subseteq DOMAIN m.L1 /\ c \in Nat /\ U \subseteq Int
      /\ \A i \in U : x(i) \in Nat /\ x(i) <= m.t
      /\ m.t \in Nat
  <2>1. L1_SIZE \in Nat /\ m.L1 \in Arrays(L1_SIZE) /\ m.t \in Nat  BY Sizes DEF Lined
  <2>2. U \in SUBSET (0 .. L1_SIZE - 1) /\ c \in Nat /\ DOMAIN m.L1 = 0 .. L1_SIZE - 1
    BY <2>1, UsedIs
  <2>3. \A i \in 0 .. L1_SIZE - 1 : x(i) \in Nat  BY <2>1, UsedIs
  <2>4. \A i \in U : x(i) <= m.t  BY DEF Timely, WhenOf
  <2>. QED  BY <2>1, <2>2, <2>3, <2>4
<1>2. Used(n.L1) = U  BY DEF Hits, SamePages, Used
<1>3. \A i \in U : y(i) = IF i = k THEN m.t ELSE x(i)  BY <1>1 DEF Hits
<1>4. \A i, j \in U : /\ <<i, j>> \in R <=> x(i) < x(j) \/ (x(i) = x(j) /\ i < j)
                      /\ <<i, j>> \in Q <=> y(i) < y(j) \/ (y(i) = y(j) /\ i < j)
  BY <1>2 DEF OrderOf, Sooner, WhenOf
<1>5. PICK f : LinesUp(m, 1, f)  BY LineHas
<1>6. /\ Lists(f, R, U) /\ l = [j \in 1 .. c |-> m.L1[f[j]].page]
      /\ f \in [1 .. c -> U]
  BY <1>5 DEF LinesUp
<1>7. PICK a \in 1 .. c : f[a] = k  BY <1>5 DEF LinesUp
<1>8. Orders(R, U) /\ Orders(Q, U) /\ IsFiniteSet(U)
  <2>1. Orders(R, U) /\ IsFiniteSet(U)  BY OrderIs
  <2>2. Orders(Q, Used(n.L1))  BY OrderIs DEF Hits
  <2>. QED  BY <1>2, <2>1, <2>2
<1>. HIDE DEF x, y, R, Q
<1>9. AgreeBut(R, Q, U, f[a])
  <2>. SUFFICES ASSUME NEW i \in U \ {k}, NEW j \in U \ {k}  PROVE <<i, j>> \in R <=> <<i, j>> \in Q
    BY <1>7 DEF AgreeBut
  <2>1. y(i) = x(i) /\ y(j) = x(j)  BY <1>3
  <2>. QED  BY <1>4, <2>1
<1>10. \A i \in U : <<i, f[a]>> \in R => <<i, f[a]>> \in Q
  <2>. SUFFICES ASSUME NEW i \in U, <<i, k>> \in R  PROVE <<i, k>> \in Q  BY <1>7
  <2>1. x(i) < x(k) \/ (x(i) = x(k) /\ i < k)  BY <1>4
  <2>2. i # k  BY <1>1, <2>1
  <2>3. y(i) = x(i) /\ y(k) = m.t  BY <1>3, <2>2
  <2>4. x(i) \in Nat /\ x(k) \in Nat /\ x(k) <= m.t /\ m.t \in Nat  BY <1>1
  <2>5. y(i) < y(k) \/ (y(i) = y(k) /\ i < k)  BY <2>1, <2>3, <2>4
  <2>. QED  BY <1>4, <2>5
<1>. DEFINE g(b) == [j \in 1 .. c |-> IF j \in a .. b - 1 THEN f[j + 1] ELSE IF j = b THEN f[a] ELSE f[j]]
<1>11. PICK b \in a .. c : /\ Lists(g(b), Q, U)
                           /\ \A j \in b + 1 .. c : <<f[a], f[j]>> \in Q
  <2>. HIDE DEF U
  <2>. QED  BY <1>6, <1>8, <1>9, <1>10, MovesBack
<1>12. Len(l) = c /\ DOMAIN l = 1 .. c
  <2>1. Len(l) = c /\ l \in Seq(Pages)  BY LineType
  <2>. QED  BY <2>1, LenProperties
<1>13. \A j \in b + 1 .. c : l[j] \in RecentOf(m, 1)
  <2>. SUFFICES ASSUME NEW j \in b + 1 .. c  PROVE l[j] \in RecentOf(m, 1)  OBVIOUS
  <2>1. j \in 1 .. c /\ j # a  BY <1>1, <1>7, <1>11
  <2>2. f[j] \in U /\ <<k, f[j]>> \in Q  BY <1>6, <1>7, <1>11, <2>1
  <2>3. y(k) < y(f[j]) \/ (y(k) = y(f[j]) /\ k < f[j])  BY <1>4, <2>2
  <2>4. k # f[j]
    <3>1. k \in Int /\ y(k) \in Int  BY <1>1, <1>3
    <3>. QED  BY <2>3, <3>1
  <2>5. x(f[j]) <= m.t /\ x(f[j]) \in Nat /\ y(f[j]) = x(f[j]) /\ y(k) = m.t  BY <1>1, <1>3, <2>2, <2>4
  <2>6. x(f[j]) = m.t  BY <1>1, <2>3, <2>5
  <2>7. l[j] = m.L1[f[j]].page  BY <1>6, <2>1
  <2>. QED  BY <2>2, <2>6, <2>7 DEF RecentOf, x
<1>14. LineOf(n, 1) = [j \in 1 .. c |-> IF j \in a .. b - 1 THEN l[j + 1] ELSE IF j = b THEN l[a] ELSE l[j]]
  <2>1. LineOf(n, 1) = [j \in 1 .. c |-> n.L1[g(b)[j]].page]
    <3>1. Lists(g(b), OrderOf(n, 1), Used(n.L1))  BY <1>2, <1>11 DEF Q
    <3>2. LineOf(n, 1) = [j \in 1 .. Cardinality(Used(n.L1)) |-> n.L1[g(b)[j]].page]
      <4>1. Lined(n)  BY DEF Hits
      <4>. HIDE DEF g
      <4>. QED  BY <3>1, <4>1, LineIs
    <3>. HIDE DEF U, g
    <3>. QED  BY <1>2, <3>2
  <2>2. \A i \in U : n.L1[i].page = m.L1[i].page  BY <1>1 DEF Hits, SamePages
  <2>3. ASSUME NEW j \in 1 .. c
        PROVE  n.L1[g(b)[j]].page = IF j \in a .. b - 1 THEN l[j + 1] ELSE IF j = b THEN l[a] ELSE l[j]
    <3>1. \A i \in 1 .. c : l[i] = m.L1[f[i]].page /\ f[i] \in U /\ n.L1[f[i]].page = m.L1[f[i]].page
      BY <1>6, <2>2
    <3>2. CASE j \in a .. b - 1
      <4>1. j + 1 \in 1 .. c  BY <1>1, <1>7, <1>11, <3>2
      <4>2. g(b)[j] = f[j + 1]  BY <3>2
      <4>. QED  BY <3>1, <3>2, <4>1, <4>2
    <3>3. CASE j \notin a .. b - 1 /\ j = b
      <4>1. g(b)[j] = f[a]  BY <3>3
      <4>. QED  BY <1>7, <3>1, <3>3, <4>1
    <3>4. CASE j \notin a .. b - 1 /\ j # b
      <4>1. g(b)[j] = f[j]  BY <3>4
      <4>. QED  BY <3>1, <3>4, <4>1
    <3>. QED  BY <3>2, <3>3, <3>4
  <2>. HIDE DEF g, U, c, l
  <2>. QED  BY <2>1, <2>3
<1>15. l[a] = m.L1[k].page  BY <1>6, <1>7
<1>. HIDE DEF g, c, l, U
<1>16. /\ a \in DOMAIN l /\ b \in a .. Len(l)
       /\ \A j \in b + 1 .. Len(l) : l[j] \in RecentOf(m, 1)
       /\ LineOf(n, 1) = [j \in DOMAIN l |-> IF j \in a .. b - 1 THEN l[j + 1] ELSE IF j = b THEN l[a] ELSE l[j]]
  BY <1>7, <1>11, <1>12, <1>13, <1>14
<1>. QED  BY <1>15, <1>16 DEF UsesLine, l

UsesPage(m, n, mode, p) ==
  /\ UsesLine(m, n, mode, p)
  /\ ChanceOf(n, mode) = IF mode = 2 THEN ChanceOf(m, mode) \cup {p} ELSE ChanceOf(m, mode)
  /\ RecentOf(n, mode) = IF mode = 1 THEN RecentOf(m, mode) \cup {p} ELSE RecentOf(m, mode)

\* A hit in any mode: the line, the chances and the uses are those of Use(p).
LEMMA HitUses ==
  ASSUME NEW m, NEW n, Lined(m), NEW mode, Timely(m, mode), NEW k \in Used(m.L1), Hits(m, n, k)
  PROVE  UsesPage(m, n, mode, m.L1[k].page) /\ Timely(n, mode)
<1>. DEFINE p == m.L1[k].page  U == Used(m.L1)  D == DOMAIN m.L1
<1>1. /\ k \in D /\ D = 0 .. L1_SIZE - 1 /\ U \subseteq D /\ m.t \in Nat
      /\ \A i \in D : m.L1[i].ref \in 0 .. 1 /\ m.L1[i].access_time \in Nat
  <2>1. L1_SIZE \in Nat /\ m.L1 \in Arrays(L1_SIZE) /\ m.t \in Nat  BY Sizes DEF Lined
  <2>2. U \in SUBSET (0 .. L1_SIZE - 1) /\ D = 0 .. L1_SIZE - 1  BY <2>1, UsedIs
  <2>3. \A i \in 0 .. L1_SIZE - 1 : m.L1[i].ref \in 0 .. 1 /\ m.L1[i].access_time \in Nat
    BY <2>1, UsedIs
  <2>. QED  BY <2>1, <2>2, <2>3
<1>2. Used(n.L1) = U /\ DOMAIN n.L1 = D  BY DEF Hits, SamePages, Used
<1>3. \A i \in D : n.L1[i].page = m.L1[i].page /\ n.L1[i].placement_time = m.L1[i].placement_time
  BY DEF Hits, SamePages
<1>4. \A i \in D : i # k => n.L1[i] = m.L1[i]  BY DEF Hits
<1>5. n.L1[k].access_time = m.t /\ n.L1[k].ref = 1 /\ n.t = m.t /\ n.hand = m.hand  BY DEF Hits
<1>6. UsesLine(m, n, mode, p)
  <2>1. CASE mode = 1  BY <2>1, HitMovesBack
  <2>2. CASE mode # 1
    <3>1. ASSUME NEW i \in U, NEW j \in U  PROVE Sooner(m, mode, i, j) <=> Sooner(n, mode, i, j)
      <4>1. m.L1[i][WhenOf(mode)] = n.L1[i][WhenOf(mode)] /\ m.L1[j][WhenOf(mode)] = n.L1[j][WhenOf(mode)]
        BY <1>1, <1>3, <2>2 DEF WhenOf
      <4>. QED  BY <1>5, <4>1 DEF Sooner
    <3>2. Lined(n) /\ SamePages(m.L1, n.L1)  BY DEF Hits
    <3>3. LineOf(n, mode) = LineOf(m, mode)  BY <3>1, <3>2, SameLine
    <3>4. p \in PagesOf(m.L1)  BY DEF PagesOf, Used
    <3>5. \E a \in DOMAIN LineOf(m, mode) : LineOf(m, mode)[a] = p
      <4>1. \A q : (\E a \in DOMAIN LineOf(m, mode) : LineOf(m, mode)[a] = q) <=> q \in PagesOf(m.L1)
        BY LineType
      <4>. QED  BY <3>4, <4>1
    <3>. QED  BY <2>2, <3>3, <3>5 DEF UsesLine
  <2>. QED  BY <2>1, <2>2
<1>7. ChanceOf(n, mode) = IF mode = 2 THEN ChanceOf(m, mode) \cup {p} ELSE ChanceOf(m, mode)
  <2>1. CASE mode = 2
    <3>1. ChanceOf(m, mode) = {m.L1[i].page : i \in {j \in D : m.L1[j].ref # 0}}
      BY <2>1 DEF ChanceOf, Unreferenced
    <3>2. ChanceOf(n, mode) = {n.L1[i].page : i \in {j \in D : n.L1[j].ref # 0}}
      BY <1>2, <2>1 DEF ChanceOf, Unreferenced
    <3>3. {j \in D : n.L1[j].ref # 0} = {j \in D : m.L1[j].ref # 0} \cup {k}  BY <1>1, <1>4, <1>5
    <3>. DEFINE A == {j \in D : m.L1[j].ref # 0}
    <3>4. ChanceOf(n, mode) = {m.L1[i].page : i \in A \cup {k}}  BY <1>1, <1>3, <3>2, <3>3
    <3>. HIDE DEF A
    <3>5. {m.L1[i].page : i \in A \cup {k}} = {m.L1[i].page : i \in A} \cup {m.L1[k].page}  OBVIOUS
    <3>. QED  BY <2>1, <3>1, <3>4, <3>5 DEF A
  <2>2. CASE mode # 2  BY <2>2 DEF ChanceOf
  <2>. QED  BY <2>1, <2>2
<1>8. RecentOf(n, mode) = IF mode = 1 THEN RecentOf(m, mode) \cup {p} ELSE RecentOf(m, mode)
  <2>1. CASE mode = 1
    <3>. DEFINE A == {j \in U : m.L1[j].access_time = m.t}
    <3>1. RecentOf(m, mode) = {m.L1[i].page : i \in A}  BY <2>1 DEF RecentOf
    <3>2. RecentOf(n, mode) = {n.L1[i].page : i \in {j \in U : n.L1[j].access_time = m.t}}
      BY <1>2, <1>5, <2>1 DEF RecentOf
    <3>3. {j \in U : n.L1[j].access_time = m.t} = A \cup {k}  BY <1>1, <1>4, <1>5
    <3>4. A \cup {k} \subseteq D  BY <1>1
    <3>. HIDE DEF A
    <3>5. RecentOf(n, mode) = {m.L1[i].page : i \in A \cup {k}}  BY <1>3, <3>2, <3>3, <3>4
    <3>6. {m.L1[i].page : i \in A \cup {k}} = {m.L1[i].page : i \in A} \cup {m.L1[k].page}  OBVIOUS
    <3>. QED  BY <2>1, <3>1, <3>5, <3>6
  <2>2. CASE mode # 1  BY <2>2 DEF RecentOf
  <2>. QED  BY <2>1, <2>2
<1>9. Timely(n, mode)
  <2>. SUFFICES ASSUME NEW i \in U  PROVE n.L1[i][WhenOf(mode)] <= m.t  BY <1>2, <1>5 DEF Timely
  <2>1. m.L1[i][WhenOf(mode)] <= m.t  BY DEF Timely
  <2>2. CASE i # k  BY <1>1, <1>4, <2>1, <2>2
  <2>3. CASE i = k  BY <1>1, <1>3, <1>5, <2>1, <2>3 DEF WhenOf
  <2>. QED  BY <2>2, <2>3
<1>. QED  BY <1>6, <1>7, <1>8, <1>9 DEF UsesPage

-----------------------------------------------------------------------------
(* A page that is loaded. *)

\* Page p comes into slot r of L1 after the time of m.
Puts(m, n, r, p) ==
  /\ Lined(n) /\ DOMAIN n.L1 = DOMAIN m.L1 /\ n.hand = m.hand
  /\ \A i \in DOMAIN m.L1 : i # r => n.L1[i] = m.L1[i]
  /\ n.L1[r].page = p
  /\ n.L1[r].access_time \in m.t + 1 .. n.t
  /\ n.L1[r].placement_time \in m.t + 1 .. n.t

\* The loop over the slots of L1 ends with the first of the oldest.
LEMMA OldestIsFirst ==
  ASSUME NEW n \in Nat, NEW slots \in Arrays(n), NEW when \in Times,
         NEW S \in SUBSET (0 .. n - 1), S # {}
  PROVE  LET r == Oldest(slots, when, S)
         IN  /\ r \in S
             /\ \A j \in S : slots[r][when] <= slots[j][when]
             /\ \A j \in S : slots[j][when] = slots[r][when] => r <= j
<1>. DEFINE x(i) == slots[i][when]
            T == {i \in S : \A j \in S : x(i) <= x(j)}
            r == Oldest(slots, when, S)
<1>1. \A i \in S : x(i) \in Nat /\ i \in Nat
  BY DEF Arrays, Cells, Times
<1>. HIDE DEF x
<1>2. PICK v \in {x(i) : i \in S} : \A w \in {x(i) : i \in S} : v <= w
  <2>. DEFINE V == {x(i) : i \in S}
  <2>1. V \in SUBSET Nat /\ V # {}  BY <1>1
  <2>. HIDE DEF V
  <2>2. \E v \in V : \A w \in V : v <= w  BY <2>1, LeastElement
  <2>. QED  BY <2>2 DEF V
<1>3. PICK i \in S : x(i) = v  BY <1>2
<1>4. i \in T  BY <1>2, <1>3
<1>5. T \in SUBSET Nat /\ T # {}  BY <1>1, <1>4
<1>6. r = Least(T)  BY DEF Oldest, x
<1>7. r \in T /\ \A j \in T : r <= j
  <2>. HIDE DEF T
  <2>. QED  BY <1>5, <1>6, LeastElement DEF Least
<1>8. \A j \in S : x(r) <= x(j)  BY <1>7
<1>9. ASSUME NEW j \in S, x(j) = x(r)  PROVE r <= j
  <2>1. j \in T  BY <1>8, <1>9
  <2>. QED  BY <1>7, <2>1
<1>10. r \in S  BY <1>7
<1>. HIDE DEF r, T
<1>. QED  BY <1>8, <1>9, <1>10 DEF x, r

\* What a page that comes in changes.
PutFacts(m, n, mode, r, p) ==
  /\ DOMAIN m.L1 = 0 .. L1_SIZE - 1
  /\ Used(m.L1) \subseteq DOMAIN m.L1
  /\ Used(n.L1) = Used(m.L1) \cup {r}
  /\ \A i \in DOMAIN m.L1 : m.L1[i][WhenOf(mode)] \in Nat
  /\ \A i \in Used(m.L1) : m.L1[i][WhenOf(mode)] <= m.t
  /\ \A i \in DOMAIN m.L1 : i # r => n.L1[i] = m.L1[i]
  /\ n.L1[r].page = p
  /\ n.L1[r][WhenOf(mode)] \in m.t + 1 .. n.t
  /\ m.t \in Nat /\ n.t \in Nat /\ m.t < n.t

LEMMA PutsIs ==
  ASSUME NEW m, NEW n, Lined(m), NEW mode, Timely(m, mode), NEW r \in DOMAIN m.L1,
         NEW p \in Pages, Puts(m, n, r, p)
  PROVE  PutFacts(m, n, mode, r, p) /\ Timely(n, mode)
<1>1. L1_SIZE \in Nat /\ m.L1 \in Arrays(L1_SIZE) /\ m.t \in Nat /\ n.t \in Nat
  BY Sizes DEF Lined, Puts
<1>2. /\ DOMAIN m.L1 = 0 .. L1_SIZE - 1
      /\ \A i \in 0 .. L1_SIZE - 1 : m.L1[i].access_time \in Nat /\ m.L1[i].placement_time \in Nat
  BY <1>1, UsedIs
<1>3. Used(m.L1) \subseteq DOMAIN m.L1  BY DEF Used
<1>4. DOMAIN n.L1 = DOMAIN m.L1 /\ \A i \in DOMAIN m.L1 : i # r => n.L1[i] = m.L1[i]  BY DEF Puts
<1>5. n.L1[r].page = p /\ p # NoPage  BY NoPageAssumption DEF Puts
<1>6. Used(n.L1) = Used(m.L1) \cup {r}  BY <1>4, <1>5 DEF Used
<1>7. \A i \in DOMAIN m.L1 : m.L1[i][WhenOf(mode)] \in Nat  BY <1>2 DEF WhenOf
<1>8. \A i \in Used(m.L1) : m.L1[i][WhenOf(mode)] <= m.t  BY DEF Timely
<1>9. n.L1[r][WhenOf(mode)] \in m.t + 1 .. n.t  BY DEF Puts, WhenOf
<1>10. m.t < n.t  BY <1>1, <1>9
<1>11. Timely(n, mode)
  <2>. SUFFICES ASSUME NEW i \in Used(n.L1)  PROVE n.L1[i][WhenOf(mode)] <= n.t  BY DEF Timely
  <2>1. CASE i = r  BY <1>1, <1>9, <2>1
  <2>2. CASE i # r
    <3>1. i \in Used(m.L1) /\ i \in DOMAIN m.L1  BY <1>3, <1>6, <2>2
    <3>2. n.L1[i][WhenOf(mode)] = m.L1[i][WhenOf(mode)]  BY <1>4, <2>2, <3>1
    <3>. QED  BY <1>1, <1>7, <1>8, <1>10, <3>1, <3>2
  <2>. QED  BY <2>1, <2>2
<1>. QED  BY <1>1, <1>2, <1>3, <1>4, <1>5, <1>6, <1>7, <1>8, <1>9, <1>10, <1>11 DEF PutFacts

\* Append as a function.
LEMMA AppendIs ==
  ASSUME NEW S, NEW s \in Seq(S), NEW e \in S
  PROVE  Append(s, e) = [k \in 1 .. Len(s) + 1 |-> IF k = Len(s) + 1 THEN e ELSE s[k]]
<1>. DEFINE t == Append(s, e)  n == Len(s)
<1>1. t \in Seq(S) /\ Len(t) = n + 1 /\ n \in Nat
  BY AppendProperties, LenProperties
<1>2. \A k \in 1 .. n : t[k] = s[k]  BY AppendProperties
<1>3. t[n + 1] = e  BY AppendProperties
<1>. HIDE DEF t, n
<1>4. DOMAIN t = 1 .. n + 1  BY <1>1, LenProperties
<1>5. t = [k \in 1 .. n + 1 |-> t[k]]  BY <1>1, <1>4, SeqDef
<1>6. \A k \in 1 .. n + 1 : t[k] = IF k = n + 1 THEN e ELSE s[k]  BY <1>1, <1>2, <1>3
<1>. QED  BY <1>5, <1>6 DEF t, n

Joins(m, n, mode, p) == LineOf(n, mode) = Append(LineOf(m, mode), p)
Replaces(m, n, mode, p) == LineOf(n, mode) = Append(Tail(LineOf(m, mode)), p)

\* With an open slot, in the modes that go by times.
LEMMA JoinsLoad ==
  ASSUME NEW m, NEW n, Lined(m), NEW mode, mode # 2, Timely(m, mode), NEW r \in DOMAIN m.L1,
         NEW p \in Pages, Puts(m, n, r, p), m.L1[r].page = NoPage
  PROVE  Joins(m, n, mode, p)
<1>. DEFINE U == Used(m.L1)  R == OrderOf(m, mode)  Q == OrderOf(n, mode)  c == Cardinality(U)
            l == LineOf(m, mode)  w == WhenOf(mode)
<1>1. /\ U \subseteq DOMAIN m.L1 /\ Used(n.L1) = U \cup {r} /\ r \notin U
      /\ \A i \in DOMAIN m.L1 : m.L1[i][w] \in Nat
      /\ \A i \in U : m.L1[i][w] <= m.t
      /\ \A i \in DOMAIN m.L1 : i # r => n.L1[i] = m.L1[i]
      /\ n.L1[r].page = p
      /\ n.L1[r][w] \in m.t + 1 .. n.t
      /\ m.t \in Nat /\ n.t \in Nat
  <2>1. PutFacts(m, n, mode, r, p)  BY PutsIs
  <2>2. r \notin U  BY DEF Used
  <2>. HIDE DEF U, w
  <2>. QED  BY <2>1, <2>2 DEF PutFacts, U, w
<1>2. PICK f : LinesUp(m, mode, f)  BY LineHas
<1>3. /\ Lists(f, R, U) /\ l = [k \in 1 .. c |-> m.L1[f[k]].page]
      /\ f \in [1 .. c -> U]
  BY <1>2 DEF LinesUp
<1>4. IsFiniteSet(U) /\ c \in Nat  BY OrderIs, FS_CardinalityType
<1>5. \A i, j \in U : /\ <<i, j>> \in R <=> Sooner(m, mode, i, j)
                      /\ <<i, j>> \in Q <=> Sooner(n, mode, i, j)
                      /\ <<i, r>> \in Q <=> Sooner(n, mode, i, r)
  BY <1>1 DEF OrderOf
<1>. HIDE DEF R, Q, w
<1>6. AgreeBut(R, Q, U, r)
  <2>. SUFFICES ASSUME NEW i \in U \ {r}, NEW j \in U \ {r}  PROVE <<i, j>> \in R <=> <<i, j>> \in Q
    BY DEF AgreeBut
  <2>1. n.L1[i] = m.L1[i] /\ n.L1[j] = m.L1[j]  BY <1>1
  <2>2. Sooner(m, mode, i, j) <=> Sooner(n, mode, i, j)  BY <2>1 DEF Sooner
  <2>. QED  BY <1>5, <2>2
<1>7. \A i \in U : <<i, r>> \in Q
  <2>. TAKE i \in U
  <2>1. n.L1[i] = m.L1[i] /\ m.L1[i][w] \in Nat /\ m.L1[i][w] <= m.t  BY <1>1
  <2>2. n.L1[i][w] < n.L1[r][w]  BY <1>1, <2>1
  <2>3. Sooner(n, mode, i, r)  BY <2>2 DEF Sooner, w
  <2>. QED  BY <1>5, <2>3
<1>. DEFINE g == [k \in 1 .. c + 1 |-> IF k = c + 1 THEN r ELSE f[k]]
<1>8. Cardinality(U \cup {r}) = c + 1 /\ Lists(g, Q, U \cup {r})
  <2>1. r \notin U  BY <1>1
  <2>2. Lists(f, R, U)  BY <1>3
  <2>. HIDE DEF U
  <2>3. Cardinality(U \cup {r}) = c + 1  BY <1>4, <1>6, <1>7, <2>1, <2>2, JoinsLine
  <2>4. Lists(g, Q, U \cup {r})  BY <1>4, <1>6, <1>7, <2>1, <2>2, JoinsLine
  <2>. QED  BY <2>3, <2>4
<1>9. LineOf(n, mode) = [k \in 1 .. c + 1 |-> n.L1[g[k]].page]
  <2>1. Lists(g, OrderOf(n, mode), Used(n.L1))  BY <1>1, <1>8 DEF Q
  <2>2. LineOf(n, mode) = [k \in 1 .. Cardinality(Used(n.L1)) |-> n.L1[g[k]].page]
    <3>1. Lined(n)  BY DEF Puts
    <3>. HIDE DEF g, U, c, l, Q
    <3>2. LineAs(n, mode, g)  BY <2>1, <3>1, LineIsAs
    <3>. QED  BY <3>2 DEF LineAs
  <2>. HIDE DEF U, g, c
  <2>. QED  BY <1>1, <1>8, <2>2
<1>10. l \in Seq(Pages) /\ Len(l) = c  BY LineType
<1>. HIDE DEF l, c
<1>11. ASSUME NEW k \in 1 .. c + 1  PROVE n.L1[g[k]].page = IF k = c + 1 THEN p ELSE l[k]
  <2>1. CASE k = c + 1  BY <1>1, <2>1
  <2>2. CASE k # c + 1
    <3>1. k \in 1 .. c /\ g[k] = f[k] /\ f[k] \in U  BY <1>3, <1>4, <2>2
    <3>2. n.L1[f[k]] = m.L1[f[k]]  BY <1>1, <3>1
    <3>. QED  BY <1>3, <2>2, <3>1, <3>2
  <2>. QED  BY <2>1, <2>2
<1>12. LineOf(n, mode) = [k \in 1 .. c + 1 |-> IF k = c + 1 THEN p ELSE l[k]]
  <2>. HIDE DEF g
  <2>. QED  BY <1>9, <1>11
<1>13. Append(l, p) = [k \in 1 .. c + 1 |-> IF k = c + 1 THEN p ELSE l[k]]
  BY <1>4, <1>10, AppendIs
<1>. QED  BY <1>12, <1>13 DEF l, Joins

\* With none, in the modes that go by times: the first of the line leaves.
LEMMA FirstLoads ==
  ASSUME NEW m, NEW n, Lined(m), NEW mode, mode # 2, Timely(m, mode), Full(m.L1),
         NEW r, r = Oldest(m.L1, WhenOf(mode), DOMAIN m.L1),
         NEW p \in Pages, Puts(m, n, r, p)
  PROVE  Replaces(m, n, mode, p)
<1>. DEFINE U == Used(m.L1)  R == OrderOf(m, mode)  Q == OrderOf(n, mode)  c == Cardinality(U)
            l == LineOf(m, mode)  w == WhenOf(mode)
<1>0. /\ L1_SIZE \in Nat \ {0} /\ m.L1 \in Arrays(L1_SIZE)
      /\ U = DOMAIN m.L1 /\ DOMAIN m.L1 = 0 .. L1_SIZE - 1 /\ c = L1_SIZE
  <2>1. L1_SIZE \in Nat \ {0} /\ m.L1 \in Arrays(L1_SIZE)  BY Sizes DEF Lined
  <2>2. DOMAIN m.L1 = 0 .. L1_SIZE - 1 /\ U = 0 .. L1_SIZE - 1 /\ c = L1_SIZE
    BY <2>1, UsedIs
  <2>. QED  BY <2>1, <2>2
<1>1. /\ r \in U
      /\ \A i \in U : m.L1[r][w] <= m.L1[i][w]
      /\ \A i \in U : m.L1[i][w] = m.L1[r][w] => r <= i
  <2>. DEFINE D == DOMAIN m.L1  a == m.L1
  <2>1. w \in Times  BY DEF WhenOf, Times
  <2>2. D # {} /\ D \in SUBSET (0 .. L1_SIZE - 1) /\ L1_SIZE \in Nat  BY <1>0
  <2>3. a \in Arrays(L1_SIZE)  BY <1>0
  <2>4. r = Oldest(a, w, D)  OBVIOUS
  <2>5. U = D  BY <1>0
  <2>. HIDE DEF w, D, a, U
  <2>6. r \in D  BY <2>1, <2>2, <2>3, <2>4, OldestIsFirst
  <2>7. \A j \in D : a[r][w] <= a[j][w]  BY <2>1, <2>2, <2>3, <2>4, OldestIsFirst
  <2>8. \A j \in D : a[j][w] = a[r][w] => r <= j  BY <2>1, <2>2, <2>3, <2>4, OldestIsFirst
  <2>. QED  BY <2>5, <2>6, <2>7, <2>8 DEF a
<1>2. r \in DOMAIN m.L1  BY <1>0, <1>1
<1>3. /\ Used(n.L1) = U
      /\ \A i \in U : m.L1[i][w] \in Nat
      /\ \A i \in U : m.L1[i][w] <= m.t
      /\ \A i \in U : i # r => n.L1[i] = m.L1[i]
      /\ n.L1[r].page = p
      /\ n.L1[r][w] \in m.t + 1 .. n.t
      /\ m.t \in Nat /\ n.t \in Nat
  <2>1. /\ Used(n.L1) = U \cup {r}
        /\ \A i \in DOMAIN m.L1 : m.L1[i][w] \in Nat
        /\ \A i \in U : m.L1[i][w] <= m.t
        /\ \A i \in DOMAIN m.L1 : i # r => n.L1[i] = m.L1[i]
        /\ n.L1[r].page = p
        /\ n.L1[r][w] \in m.t + 1 .. n.t
        /\ m.t \in Nat /\ n.t \in Nat
    <3>1. PutFacts(m, n, mode, r, p)  BY <1>2, PutsIs
    <3>. QED  BY <3>1 DEF PutFacts
  <2>. HIDE DEF w
  <2>. QED  BY <1>0, <1>1, <2>1
<1>4. PICK f : LinesUp(m, mode, f)  BY LineHas
<1>5. /\ Lists(f, R, U) /\ l = [k \in 1 .. c |-> m.L1[f[k]].page]
      /\ f \in [1 .. c -> U]
  BY <1>4 DEF LinesUp
<1>6. Orders(R, U) /\ Orders(Q, U) /\ IsFiniteSet(U)
  <2>1. Orders(R, U) /\ IsFiniteSet(U)  BY OrderIs
  <2>2. Orders(Q, Used(n.L1))  BY OrderIs DEF Puts
  <2>. QED  BY <1>3, <2>1, <2>2
<1>7. \A i, j \in U : /\ <<i, j>> \in R <=> Sooner(m, mode, i, j)
                      /\ <<i, j>> \in Q <=> Sooner(n, mode, i, j)
  BY <1>3 DEF OrderOf
<1>. HIDE DEF R, Q, w
<1>8. f[1] = r
  <2>1. PICK k \in 1 .. c : f[k] = r  BY <1>1, <1>4 DEF LinesUp
  <2>2. 1 \in 1 .. c /\ f[1] \in U  BY <1>0, <1>5
  <2>3. SUFFICES ASSUME 1 < k  PROVE FALSE  BY <1>0, <2>1
  <2>4. <<f[1], r>> \in R  BY <1>5, <2>1, <2>2, <2>3 DEF Lists
  <2>5. Sooner(m, mode, f[1], r)  BY <1>1, <1>7, <2>2, <2>4
  <2>6. m.L1[f[1]][w] < m.L1[r][w] \/ (m.L1[f[1]][w] = m.L1[r][w] /\ f[1] < r)  BY <2>5 DEF Sooner, w
  <2>7. m.L1[f[1]][w] \in Nat /\ m.L1[r][w] \in Nat /\ f[1] \in Int /\ r \in Int  BY <1>0, <1>1, <1>3, <2>2
  <2>. QED  BY <1>1, <2>2, <2>6, <2>7
<1>9. AgreeBut(R, Q, U, r)
  <2>. SUFFICES ASSUME NEW i \in U \ {r}, NEW j \in U \ {r}  PROVE <<i, j>> \in R <=> <<i, j>> \in Q
    BY DEF AgreeBut
  <2>1. n.L1[i] = m.L1[i] /\ n.L1[j] = m.L1[j]  BY <1>3
  <2>2. Sooner(m, mode, i, j) <=> Sooner(n, mode, i, j)  BY <2>1 DEF Sooner
  <2>. QED  BY <1>7, <2>2
<1>10. \A i \in U \ {r} : <<i, r>> \in Q
  <2>. TAKE i \in U \ {r}
  <2>1. n.L1[i] = m.L1[i] /\ m.L1[i][w] \in Nat /\ m.L1[i][w] <= m.t  BY <1>3
  <2>2. n.L1[i][w] < n.L1[r][w]  BY <1>3, <2>1
  <2>3. Sooner(n, mode, i, r)  BY <2>2 DEF Sooner, w
  <2>. QED  BY <1>1, <1>7, <2>3
<1>. DEFINE g == [k \in 1 .. c |-> IF k = c THEN f[1] ELSE f[k + 1]]
<1>11. Lists(g, Q, U)
  <2>1. c # 0  BY <1>0
  <2>. HIDE DEF U
  <2>. QED  BY <1>5, <1>6, <1>8, <1>9, <1>10, <2>1, FirstGoesLast
<1>12. LineOf(n, mode) = [k \in 1 .. c |-> n.L1[g[k]].page]
  <2>1. Lists(g, OrderOf(n, mode), Used(n.L1))  BY <1>3, <1>11 DEF Q
  <2>2. LineOf(n, mode) = [k \in 1 .. Cardinality(Used(n.L1)) |-> n.L1[g[k]].page]
    <3>1. Lined(n)  BY DEF Puts
    <3>. HIDE DEF g
    <3>2. LineAs(n, mode, g)  BY <2>1, <3>1, LineIsAs
    <3>. QED  BY <3>2 DEF LineAs
  <2>. HIDE DEF U, g
  <2>. QED  BY <1>3, <2>2
<1>13. l \in Seq(Pages) /\ Len(l) = c  BY LineType
<1>. HIDE DEF l, c, U
<1>14. ASSUME NEW k \in 1 .. c  PROVE n.L1[g[k]].page = IF k = c THEN p ELSE l[k + 1]
  <2>1. CASE k = c  BY <1>3, <1>8, <2>1
  <2>2. CASE k # c
    <3>1. k + 1 \in 1 .. c /\ 1 \in 1 .. c  BY <1>0, <2>2
    <3>2. g[k] = f[k + 1] /\ f[k + 1] \in U  BY <1>5, <2>2, <3>1
    <3>3. f[k + 1] # f[1]
      <4>1. <<f[1], f[k + 1]>> \in R  BY <1>0, <1>5, <3>1 DEF Lists, c
      <4>. QED  BY <1>6, <3>2, <4>1 DEF Orders
    <3>4. n.L1[f[k + 1]] = m.L1[f[k + 1]]  BY <1>3, <1>8, <3>2, <3>3
    <3>. QED  BY <1>5, <2>2, <3>1, <3>2, <3>4
  <2>. QED  BY <2>1, <2>2
<1>15. LineOf(n, mode) = [k \in 1 .. c |-> IF k = c THEN p ELSE l[k + 1]]
  <2>. HIDE DEF g
  <2>. QED  BY <1>12, <1>14
<1>16. l # <<>>  BY <1>0, <1>13
<1>17. Tail(l) \in Seq(Pages) /\ Len(Tail(l)) = c - 1 /\ \A k \in 1 .. c - 1 : Tail(l)[k] = l[k + 1]
  BY <1>0, <1>13, <1>16, HeadTailProperties
<1>18. Append(Tail(l), p) = [k \in 1 .. c |-> IF k = c THEN p ELSE l[k + 1]]
  <2>1. Append(Tail(l), p) = [k \in 1 .. Len(Tail(l)) + 1 |-> IF k = Len(Tail(l)) + 1 THEN p ELSE Tail(l)[k]]
    <3>. DEFINE t == Tail(l)
    <3>1. t \in Seq(Pages)  BY <1>17
    <3>. HIDE DEF t
    <3>2. Append(t, p) = [k \in 1 .. Len(t) + 1 |-> IF k = Len(t) + 1 THEN p ELSE t[k]]  BY <3>1, AppendIs
    <3>. QED  BY <3>2 DEF t
  <2>2. Len(Tail(l)) + 1 = c  BY <1>0, <1>17
  <2>3. \A k \in 1 .. c : k # c => Tail(l)[k] = l[k + 1]  BY <1>0, <1>17
  <2>. QED  BY <2>1, <2>2, <2>3
<1>. QED  BY <1>15, <1>18 DEF l, Replaces

-----------------------------------------------------------------------------
(* What the functions of isu_mmu.c do to L1. *)

\* A memory the functions of isu_mmu.c can be given is one the line depends on.
LEMMA GoodIs ==
  ASSUME NEW m, Good(m)
  PROVE  /\ m \in Memories /\ Apart(m) /\ Lined(m)
         /\ L1_SIZE \in Nat \ {0} /\ m.L1 \in Arrays(L1_SIZE) /\ DOMAIN m.L1 = 0 .. L1_SIZE - 1
         /\ OneSlot(m.L1)
BY Sizes DEF Good, Memories, Arrays, Lined, Apart

\* L1, the hand and the time are the same.
SameFirst(m, n) == n.L1 = m.L1 /\ n.hand = m.hand /\ n.t = m.t

\* The search for a page below L1 leaves L1 as it is.
LEMMA CheckBelow ==
  ASSUME NEW m, Good(m), NEW p, Level(m, p) # 0
  PROVE  SameFirst(m, isu_mmu_page_check(m, p))
<1>1. m \in Memories  BY DEF Good
<1>2. CASE Level(m, p) = 1  BY <1>1, <1>2 DEF isu_mmu_page_check, SameFirst, Memories
<1>3. CASE Level(m, p) = 2  BY <1>1, <1>3 DEF isu_mmu_page_check, SameFirst, Memories
<1>4. CASE Level(m, p) = -1  BY <1>4 DEF isu_mmu_page_check, SameFirst
<1>. QED  BY <1>2, <1>3, <1>4, LevelIs

\* A page found in L1.
LEMMA HitHits ==
  ASSUME NEW m, Good(m), NEW p, Level(m, p) = 0
  PROVE  \E k \in Used(m.L1) : m.L1[k].page = p /\ Hits(m, Hit(isu_mmu_page_check(m, p), p), k)
<1>. DEFINE k == SlotOf(m.L1, p)
            c == isu_mmu_page_check(m, p)
            b == [m.L1 EXCEPT ![k].ref = 1]
            n == Hit(c, p)
<1>1. /\ m \in Memories /\ m.L1 \in Arrays(L1_SIZE) /\ DOMAIN m.L1 = 0 .. L1_SIZE - 1
      /\ L1_SIZE \in Nat /\ OneSlot(m.L1) /\ Lined(m)
  BY GoodIs
<1>2. p \in PagesOf(m.L1)  BY LevelIs
<1>3. k \in 0 .. L1_SIZE - 1 /\ m.L1[k].page = p
  BY <1>1, <1>2, SlotOfIs
<1>4. \A i \in 0 .. L1_SIZE - 1 : m.L1[i].page = p => i = k
  BY <1>1, <1>2, SlotOfIs
<1>5. p # NoPage  BY <1>2 DEF PagesOf
<1>6. Good(c) /\ c \in Memories /\ PagesOf(c.L1) = PagesOf(m.L1)
  <2>1. SameLevels(m, c)  BY CheckIs
  <2>. QED  BY <2>1, SameLevelsIs DEF SameLevels
<1>7. c = [m EXCEPT !.L1 = b] /\ SamePages(m.L1, c.L1)
  <2>1. c = [m EXCEPT !.L1 = b]  BY <1>1 DEF isu_mmu_page_check, Memories
  <2>2. SamePages(m.L1, c.L1)  BY CheckIs DEF SameLevels
  <2>. QED  BY <2>1, <2>2
<1>8. c.L1 = b /\ c.t = m.t /\ c.hand = m.hand  BY <1>1, <1>7 DEF Memories
<1>9. SameLevels(c, n)  BY <1>2, <1>6, HitIs
<1>10. n \in Memories /\ Good(n)  BY <1>6, <1>9, SameLevelsIs DEF SameLevels
<1>11. Lined(n)  BY <1>10, GoodIs
<1>12. n.L1 = [i \in DOMAIN c.L1 |-> IF c.L1[i].page = p
                                     THEN [c.L1[i] EXCEPT !.access_time = c.t, !.ref = 1] ELSE c.L1[i]]
       /\ n.hand = c.hand /\ n.t = c.t
  BY <1>6 DEF Hit, Memories
<1>13. \A i \in 0 .. L1_SIZE - 1 : m.L1[i] \in Cells  BY <1>1, CellIs
<1>14. DOMAIN b = 0 .. L1_SIZE - 1 /\ \A i \in 0 .. L1_SIZE - 1 : i # k => b[i] = m.L1[i]
  BY <1>1
<1>15. b[k] = [m.L1[k] EXCEPT !.ref = 1]  BY <1>1, <1>3
<1>. HIDE DEF b, k, c, n
<1>16. \A i \in 0 .. L1_SIZE - 1 : i # k => n.L1[i] = m.L1[i]
  <2>. SUFFICES ASSUME NEW i \in 0 .. L1_SIZE - 1, i # k  PROVE n.L1[i] = m.L1[i]  OBVIOUS
  <2>1. c.L1[i] = m.L1[i] /\ m.L1[i].page # p  BY <1>4, <1>8, <1>14
  <2>2. i \in DOMAIN c.L1  BY <1>8, <1>14
  <2>3. c.L1[i].page # p  BY <2>1
  <2>4. n.L1[i] = c.L1[i]  BY <1>12, <2>2, <2>3
  <2>. QED  BY <2>1, <2>4
<1>17. /\ n.L1[k].access_time = m.t /\ n.L1[k].placement_time = m.L1[k].placement_time
       /\ n.L1[k].ref = 1 /\ n.L1[k].page = p
  <2>1. m.L1[k] \in Cells  BY <1>3, <1>13
  <2>2. c.L1[k] = [m.L1[k] EXCEPT !.ref = 1]  BY <1>8, <1>15
  <2>3. c.L1[k].page = p  BY <1>1, <1>3, <1>7 DEF SamePages
  <2>4. n.L1[k] = [c.L1[k] EXCEPT !.access_time = m.t, !.ref = 1]
    <3>1. k \in DOMAIN c.L1  BY <1>3, <1>8, <1>14
    <3>2. n.L1[k] = [c.L1[k] EXCEPT !.access_time = c.t, !.ref = 1]  BY <1>12, <2>3, <3>1
    <3>. QED  BY <1>8, <3>2
  <2>. QED  BY <2>1, <2>2, <2>3, <2>4 DEF Cells
<1>18. DOMAIN n.L1 = 0 .. L1_SIZE - 1  BY <1>8, <1>12, <1>14
<1>19. SamePages(m.L1, n.L1)
  <2>. SUFFICES ASSUME NEW i \in 0 .. L1_SIZE - 1  PROVE m.L1[i].page = n.L1[i].page
    BY <1>1, <1>18 DEF SamePages
  <2>. QED  BY <1>3, <1>16, <1>17
<1>20. Hits(m, n, k)  BY <1>1, <1>8, <1>11, <1>12, <1>16, <1>17, <1>19 DEF Hits
<1>21. k \in Used(m.L1)  BY <1>1, <1>3, <1>5 DEF Used
<1>. QED  BY <1>3, <1>20, <1>21 DEF n, c

\* Moving a page down takes time.
LEMMA MoveTime ==
  ASSUME NEW m \in Memories, NEW q
  PROVE  move_to_l2(m, q).t \in Nat /\ move_to_l2(m, q).t > m.t
<1>. DEFINE open == {i \in DOMAIN m.L2 : m.L2[i].page = NoPage}
            slot == IF open # {} THEN Least(open) ELSE Victim(m.L2)
            room == IF open # {} THEN m ELSE move_to_ram(m, m.L2[slot].page)
            moved == [room EXCEPT !.t = @ + 1, !.L2[slot] = Place(q, room.t + 1, 0)]
<1>1. m.t \in Nat /\ DOMAIN m = {"L1", "L2", "RAM", "hand", "t"}  BY DEF Memories
<1>. HIDE DEF slot, open
<1>2. room.t \in {m.t, m.t + 1} /\ DOMAIN room = {"L1", "L2", "RAM", "hand", "t"}
  BY <1>1 DEF move_to_ram
<1>. HIDE DEF room
<1>3. moved.t = room.t + 1  BY <1>2
<1>4. move_to_l2(m, q) = moved  BY DEF move_to_l2, slot, open, room
<1>. HIDE DEF moved
<1>. QED  BY <1>1, <1>2, <1>3, <1>4

\* A page from the disk replaces one of L1, and has its bit set.
LEMMA ReplacePuts ==
  ASSUME NEW m, Good(m), Full(m.L1), NEW r \in 0 .. L1_SIZE - 1, NEW p \in Pages, p \notin Resident(m)
  PROVE  Puts(m, Replace(m, r, p), r, p) /\ Replace(m, r, p).L1[r].ref = 1
<1>. DEFINE q == m.L1[r].page
            moved == move_to_l2(m, q)
            c == Place(p, moved.t + 1, 1)
            n == Replace(m, r, p)
<1>1. /\ m \in Memories /\ Apart(m) /\ m.L1 \in Arrays(L1_SIZE) /\ DOMAIN m.L1 = 0 .. L1_SIZE - 1
      /\ L1_SIZE \in Nat /\ m.t \in Nat
  BY GoodIs DEF Memories
<1>2. q \in PagesOf(m.L1) /\ q \in Pages
  <2>1. q \in PagesOf(m.L1)  BY <1>1 DEF PagesOf, Full
  <2>. QED  BY <1>1, <2>1, PagesArePages
<1>3. q \notin PagesOf(m.L2) \cup PagesOf(m.RAM)  BY <1>1, <1>2 DEF Apart
<1>. HIDE DEF q
<1>4. moved \in Memories /\ moved.L1 = m.L1 /\ moved.hand = m.hand
  BY <1>1, <1>2, <1>3, MoveToL2Is DEF Apart
<1>5. moved.t \in Nat /\ moved.t > m.t  BY <1>1, MoveTime
<1>6. Good(n)  BY ReplaceIs DEF Brings
<1>7. n = [moved EXCEPT !.t = @ + 1, !.L1[r] = c]  BY DEF Replace, q
<1>. HIDE DEF moved
<1>8. n.L1 = [m.L1 EXCEPT ![r] = c] /\ n.hand = m.hand /\ n.t = moved.t + 1
  BY <1>4, <1>7 DEF Memories
<1>9. c.page = p /\ c.access_time = moved.t + 1 /\ c.placement_time = moved.t + 1 /\ c.ref = 1
  BY DEF Place
<1>10. Lined(n)  BY <1>6, GoodIs
<1>. HIDE DEF c, n
<1>11. n.L1[r] = c /\ DOMAIN n.L1 = DOMAIN m.L1 /\ \A i \in DOMAIN m.L1 : i # r => n.L1[i] = m.L1[i]
  BY <1>1, <1>8
<1>12. moved.t + 1 \in m.t + 1 .. n.t  BY <1>1, <1>5, <1>8
<1>. QED  BY <1>8, <1>9, <1>10, <1>11, <1>12 DEF Puts, n

\* A page from the disk comes into an open slot.
LEMMA OpenPuts ==
  ASSUME NEW m, Good(m), ~Full(m.L1), NEW mode \in 0 .. 4, NEW p \in Pages, p \notin Resident(m),
         mode = 2 => m.hand < L1_SIZE
  PROVE  LET r == Least({i \in DOMAIN m.L1 : m.L1[i].page = NoPage})
             n == isu_mmu_page_fetch(m, mode, p)
         IN  /\ r \in DOMAIN m.L1 /\ m.L1[r].page = NoPage
             /\ Puts(m, n, r, p)
             /\ mode = 2 => n.L1[r].ref = 0
<1>. DEFINE open == {i \in DOMAIN m.L1 : m.L1[i].page = NoPage}
            r == Least(open)
            c == Place(p, m.t + 1, IF mode < 2 THEN 1 ELSE 0)
            n == isu_mmu_page_fetch(m, mode, p)
<1>1. /\ m \in Memories /\ m.L1 \in Arrays(L1_SIZE) /\ DOMAIN m.L1 = 0 .. L1_SIZE - 1
      /\ L1_SIZE \in Nat /\ m.t \in Nat
  BY GoodIs DEF Memories
<1>2. open # {} /\ open \in SUBSET Nat  BY <1>1 DEF Full
<1>3. r \in open
  <2>. HIDE DEF open
  <2>. QED  BY <1>2, LeastIs
<1>4. n = [m EXCEPT !.t = @ + 1, !.L1[r] = c]  BY <1>2 DEF isu_mmu_page_fetch
<1>5. r \in DOMAIN m.L1 /\ m.L1[r].page = NoPage  BY <1>3
<1>6. Good(n)  BY FetchIs
<1>. HIDE DEF r, open
<1>7. n.L1 = [m.L1 EXCEPT ![r] = c] /\ n.hand = m.hand /\ n.t = m.t + 1
  BY <1>1, <1>4 DEF Memories
<1>8. c.page = p /\ c.access_time = m.t + 1 /\ c.placement_time = m.t + 1 /\ (mode = 2 => c.ref = 0)
  BY DEF Place
<1>9. Lined(n)  BY <1>6, GoodIs
<1>. HIDE DEF c, n
<1>10. n.L1[r] = c /\ DOMAIN n.L1 = DOMAIN m.L1 /\ \A i \in DOMAIN m.L1 : i # r => n.L1[i] = m.L1[i]
  BY <1>5, <1>7
<1>11. m.t + 1 \in m.t + 1 .. n.t  BY <1>1, <1>7
<1>. QED  BY <1>5, <1>7, <1>8, <1>9, <1>10, <1>11 DEF Puts, n, r, open

\* A page from a lower level changes places with one of L1.
LEMMA SwapPuts ==
  ASSUME NEW m, Good(m), NEW k \in 0 .. L1_SIZE - 1, NEW mode \in 0 .. 4,
         NEW p, NEW level \in {1, 2},
         level = 1 => p \in PagesOf(m.L2),
         level = 2 => p \in PagesOf(m.RAM)
  PROVE  Full(m.L1) /\ Puts(m, isu_mmu_page_swap(m, mode, m.L1[k].page, p, level), k, p)
<1>. DEFINE old == m.L1[k].page
            r == SlotOf(m.L1, old)
            in == SwapIn(m.L1[k], p, m.t + 1, mode)
            L1 == [m.L1 EXCEPT ![k] = in]
            n == isu_mmu_page_swap(m, mode, old, p, level)
<1>1. /\ m \in Memories /\ m.L1 \in Arrays(L1_SIZE) /\ DOMAIN m.L1 = 0 .. L1_SIZE - 1
      /\ L1_SIZE \in Nat /\ m.t \in Nat /\ OneSlot(m.L1)
  BY GoodIs DEF Memories
<1>2. Full(m.L1)
  <2>1. p \in PagesOf(m.L2) \cup PagesOf(m.RAM)  OBVIOUS
  <2>. QED  BY <2>1 DEF Good, FirstFull
<1>3. old # NoPage /\ old \in PagesOf(m.L1)  BY <1>1, <1>2 DEF Full, PagesOf
<1>4. r = k  BY <1>1, <1>3, SlotOfIs
<1>5. Lined(n)
  <2>1. Good(n)  BY SwapIs DEF Brings
  <2>. QED  BY <2>1, GoodIs
<1>6. in.page = p /\ in.access_time = m.t + 1 /\ in.placement_time = m.t + 1  BY DEF SwapIn, Place
<1>. HIDE DEF old
<1>7. CASE level = 1
  <2>. DEFINE L2 == [i \in DOMAIN m.L2 |->
                          IF i = SlotOf(m.L2, p) THEN Place(old, m.t + 2, 0)
                          ELSE IF i = r /\ mode >= 2 THEN [m.L2[i] EXCEPT !.ref = 0] ELSE m.L2[i]]
  <2>1. n = [m EXCEPT !.t = @ + 2, !.L1 = L1, !.L2 = L2]
    BY <1>1, <1>3, <1>4, <1>7 DEF isu_mmu_page_swap, Memories
  <2>. HIDE DEF L1, L2
  <2>2. n.L1 = L1 /\ n.hand = m.hand /\ n.t = m.t + 2  BY <1>1, <2>1 DEF Memories
  <2>. HIDE DEF n, in, r
  <2>3. n.L1[k] = in /\ DOMAIN n.L1 = DOMAIN m.L1 /\ \A i \in DOMAIN m.L1 : i # k => n.L1[i] = m.L1[i]
    BY <1>1, <2>2 DEF L1
  <2>4. m.t + 1 \in m.t + 1 .. n.t  BY <1>1, <2>2
  <2>. QED  BY <1>2, <1>5, <1>6, <2>2, <2>3, <2>4 DEF Puts, n, old
<1>8. CASE level = 2
  <2>. DEFINE M1 == IF mode < 2 THEN L1 ELSE [L1 EXCEPT ![r].ref = 0]
              s == SlotOf(m.RAM, p)
              out == Place(old, m.t + 2, 0)
  <2>1. n = [m EXCEPT !.t = @ + 2, !.L1 = M1, !.RAM[s] = out]
    BY <1>1, <1>3, <1>4, <1>8 DEF isu_mmu_page_swap
  <2>2. in \in Cells
    <3>1. m.L1[k] \in Cells  BY <1>1, CellIs
    <3>2. p \in Pages
      <4>1. m.RAM \in Arrays(RAM_SIZE) /\ RAM_SIZE \in Nat  BY <1>1, Sizes DEF Memories
      <4>. QED  BY <1>8, <4>1, PagesArePages
    <3>3. m.t + 1 \in Nat  BY <1>1
    <3>. QED  BY <3>1, <3>2, <3>3, SwapInIs
  <2>. HIDE DEF M1, s, out
  <2>3. n.L1 = M1 /\ n.hand = m.hand /\ n.t = m.t + 2  BY <1>1, <2>1 DEF Memories
  <2>. HIDE DEF n, in
  <2>4. L1[k] = in /\ DOMAIN L1 = DOMAIN m.L1 /\ \A i \in DOMAIN m.L1 : i # k => L1[i] = m.L1[i]
    BY <1>1
  <2>5. M1 = IF mode < 2 THEN L1 ELSE [L1 EXCEPT ![k].ref = 0]  BY <1>4 DEF M1
  <2>. HIDE DEF L1, r
  <2>6. DOMAIN M1 = DOMAIN m.L1 /\ \A i \in DOMAIN m.L1 : i # k => M1[i] = m.L1[i]
    BY <2>4, <2>5
  <2>7. M1[k].page = p /\ M1[k].access_time = m.t + 1 /\ M1[k].placement_time = m.t + 1
    BY <1>1, <1>6, <2>2, <2>4, <2>5 DEF Cells
  <2>8. m.t + 1 \in m.t + 1 .. n.t  BY <1>1, <2>3
  <2>. QED  BY <1>2, <1>5, <2>3, <2>6, <2>7, <2>8 DEF Puts, n, old
<1>. QED  BY <1>7, <1>8

\* The clock passes the pages with a chance, and the next one leaves for p.
TurnsLine(l, chance, new, given, p) ==
  LET spared == {i \in DOMAIN l : \A j \in 1 .. i : l[j] \in chance}
      leaving == IF spared = DOMAIN l THEN 1
                 ELSE CHOOSE i \in DOMAIN l \ spared : \A j \in 1 .. i - 1 : j \in spared
      left == chance \ {l[i] : i \in spared}
  IN  /\ new = SubSeq(l, leaving + 1, Len(l)) \o SubSeq(l, 1, leaving - 1) \o <<p>>
      /\ given \in {left, left \cup {p}}

ClockLine(m, n, p) == TurnsLine(LineOf(m, 2), ChanceOf(m, 2), LineOf(n, 2), ChanceOf(n, 2), p)

\* The line after a page that is not in it is loaded.
LoadsLine(m, n, mode, p) ==
  LET l == LineOf(m, mode)
      chance == ChanceOf(m, mode)
  IN  /\ p \notin PagesOf(m.L1)
      /\ IF Len(l) < L1_SIZE
           THEN Joins(m, n, mode, p) /\ ChanceOf(n, mode) \in {chance, chance \cup {p}}
         ELSE IF mode = 2 THEN ClockLine(m, n, p)
         ELSE Replaces(m, n, mode, p) /\ ChanceOf(n, mode) = chance
      /\ RecentOf(n, mode) \in IF mode = 1 THEN {{}, {p}} ELSE {RecentOf(m, mode)}

\* What one request does to the line.
StepsLine(m, n, mode, p) ==
  \/ UsesPage(m, n, mode, p)
  \/ LoadsLine(m, n, mode, p)
  \/ /\ LineOf(n, mode) = LineOf(m, mode)
     /\ ChanceOf(n, mode) = ChanceOf(m, mode)
     /\ RecentOf(n, mode) = RecentOf(m, mode)

\* The pages used since the miss that loads a page: itself, or none.
LEMMA PutsRecent ==
  ASSUME NEW m, NEW n, Lined(m), NEW mode, Timely(m, mode), NEW r \in DOMAIN m.L1,
         NEW p \in Pages, Puts(m, n, r, p)
  PROVE  RecentOf(n, mode) \in IF mode = 1 THEN {{}, {p}} ELSE {RecentOf(m, mode)}
<1>1. CASE mode # 1  BY <1>1 DEF RecentOf
<1>2. CASE mode = 1
  <2>. DEFINE A == {j \in Used(n.L1) : n.L1[j].access_time = n.t}
  <2>0. PutFacts(m, n, mode, r, p)  BY PutsIs
  <2>1. /\ Used(m.L1) \subseteq DOMAIN m.L1
        /\ Used(n.L1) = Used(m.L1) \cup {r}
        /\ \A i \in DOMAIN m.L1 : m.L1[i].access_time \in Nat
        /\ \A i \in Used(m.L1) : m.L1[i].access_time <= m.t
        /\ \A i \in DOMAIN m.L1 : i # r => n.L1[i] = m.L1[i]
        /\ n.L1[r].page = p
        /\ m.t \in Nat /\ n.t \in Nat /\ m.t < n.t
    BY <1>2, <2>0 DEF PutFacts, WhenOf
  <2>2. RecentOf(n, mode) = {n.L1[i].page : i \in A}  BY <1>2 DEF RecentOf
  <2>3. A \subseteq {r}
    <3>. SUFFICES ASSUME NEW j \in Used(n.L1), n.L1[j].access_time = n.t, j # r  PROVE FALSE
      OBVIOUS
    <3>1. j \in Used(m.L1) /\ j \in DOMAIN m.L1 /\ n.L1[j] = m.L1[j]  BY <2>1
    <3>2. m.L1[j].access_time \in Nat /\ m.L1[j].access_time <= m.t /\ m.L1[j].access_time = n.t  BY <2>1, <3>1
    <3>. QED  BY <2>1, <3>2
  <2>. HIDE DEF A
  <2>4. A = {} \/ A = {r}  BY <2>3
  <2>5. RecentOf(n, mode) = {} \/ RecentOf(n, mode) = {p}  BY <2>1, <2>2, <2>4
  <2>. QED  BY <1>2, <2>5
<1>. QED  BY <1>1, <1>2

\* A page that joins a line that is not full.
LEMMA JoinSteps ==
  ASSUME NEW m, NEW n, Lined(m), NEW mode, mode # 2, Timely(m, mode), NEW r \in DOMAIN m.L1,
         NEW p \in Pages, p \notin PagesOf(m.L1), Puts(m, n, r, p), m.L1[r].page = NoPage
  PROVE  StepsLine(m, n, mode, p) /\ Timely(n, mode)
<1>1. Joins(m, n, mode, p)  BY JoinsLoad
<1>2. Timely(n, mode)  BY PutsIs
<1>3. RecentOf(n, mode) \in IF mode = 1 THEN {{}, {p}} ELSE {RecentOf(m, mode)}  BY PutsRecent
<1>4. Len(LineOf(m, mode)) < L1_SIZE
  <2>1. L1_SIZE \in Nat /\ m.L1 \in Arrays(L1_SIZE)  BY Sizes DEF Lined
  <2>2. ~Full(m.L1)  BY DEF Full
  <2>3. Cardinality(Used(m.L1)) \in 0 .. L1_SIZE /\ Cardinality(Used(m.L1)) # L1_SIZE
    BY <2>1, <2>2, UsedIs
  <2>. HIDE DEF Lined
  <2>4. Len(LineOf(m, mode)) = Cardinality(Used(m.L1))  BY LineType
  <2>. QED  BY <2>1, <2>3, <2>4
<1>5. ChanceOf(n, mode) = ChanceOf(m, mode)  BY DEF ChanceOf
<1>6. LoadsLine(m, n, mode, p)  BY <1>1, <1>3, <1>4, <1>5 DEF LoadsLine
<1>. QED  BY <1>2, <1>6 DEF StepsLine

\* A page that takes the place of the first of a full line.
LEMMA FirstSteps ==
  ASSUME NEW m, NEW n, Lined(m), NEW mode, mode # 2, Timely(m, mode), Full(m.L1),
         NEW r, r = Oldest(m.L1, WhenOf(mode), DOMAIN m.L1), r \in DOMAIN m.L1,
         NEW p \in Pages, p \notin PagesOf(m.L1), Puts(m, n, r, p)
  PROVE  StepsLine(m, n, mode, p) /\ Timely(n, mode)
<1>1. Replaces(m, n, mode, p)  BY FirstLoads
<1>2. Timely(n, mode)  BY PutsIs
<1>3. RecentOf(n, mode) \in IF mode = 1 THEN {{}, {p}} ELSE {RecentOf(m, mode)}  BY PutsRecent
<1>4. ~(Len(LineOf(m, mode)) < L1_SIZE)
  <2>1. L1_SIZE \in Nat /\ m.L1 \in Arrays(L1_SIZE)  BY Sizes DEF Lined
  <2>2. Cardinality(Used(m.L1)) = L1_SIZE  BY <2>1, UsedIs
  <2>3. Len(LineOf(m, mode)) = Cardinality(Used(m.L1))  BY LineType
  <2>. QED  BY <2>1, <2>2, <2>3
<1>5. ChanceOf(n, mode) = ChanceOf(m, mode)  BY DEF ChanceOf
<1>6. LoadsLine(m, n, mode, p)  BY <1>1, <1>3, <1>4, <1>5 DEF LoadsLine
<1>. QED  BY <1>2, <1>6 DEF StepsLine

\* Only L1, the hand and the time matter to the line.
LEMMA SameFirstSteps ==
  ASSUME NEW m, NEW c, SameFirst(m, c), NEW mode
  PROVE  /\ Lined(m) => Lined(c)
         /\ Timely(m, mode) => Timely(c, mode)
         /\ \A n, r, p : Puts(c, n, r, p) <=> Puts(m, n, r, p)
<1>1. c.L1 = m.L1 /\ c.hand = m.hand /\ c.t = m.t  BY DEF SameFirst
<1>2. Lined(m) => Lined(c)  BY <1>1 DEF Lined
<1>3. Timely(m, mode) => Timely(c, mode)  BY <1>1 DEF Timely
<1>4. \A n, r, p : Puts(c, n, r, p) <=> Puts(m, n, r, p)  BY <1>1 DEF Puts
<1>. QED  BY <1>2, <1>3, <1>4

\* FIFO and LRU, when the bits are clear.
LEMMA OldestSteps ==
  ASSUME NEW m, Good(m), NEW mode \in 0 .. 4, mode # 2, Timely(m, mode),
         \A i \in DOMAIN m.L1 : m.L1[i].ref = 0, NEW p \in Pages
  PROVE  LET n == page_rep_oldest(m, mode, p, WhenOf(mode))
         IN  StepsLine(m, n, mode, p) /\ Timely(n, mode)
<1>. DEFINE n == page_rep_oldest(m, mode, p, WhenOf(mode))
            c == isu_mmu_page_check(m, p)
            r == Oldest(m.L1, WhenOf(mode), DOMAIN m.L1)
<1>1. /\ m \in Memories /\ m.L1 \in Arrays(L1_SIZE) /\ DOMAIN m.L1 = 0 .. L1_SIZE - 1
      /\ L1_SIZE \in Nat \ {0} /\ Lined(m)
  BY GoodIs
<1>2. WhenOf(mode) \in Times  BY DEF WhenOf, Times
<1>3. r \in 0 .. L1_SIZE - 1
  <2>. DEFINE w == WhenOf(mode)  S == DOMAIN m.L1
  <2>0. 0 \in 0 .. L1_SIZE - 1  BY <1>1
  <2>1. S # {} /\ S \in SUBSET (0 .. L1_SIZE - 1) /\ w \in Times  BY <1>1, <1>2, <2>0
  <2>. HIDE DEF w, S
  <2>2. Oldest(m.L1, w, S) \in S  BY <1>1, <2>1, OldestIs
  <2>. QED  BY <2>1, <2>2 DEF w, S
<1>4. CASE Level(m, p) = 0
  <2>1. n = Hit(c, p)  BY <1>4 DEF page_rep_oldest
  <2>2. PICK k \in Used(m.L1) : m.L1[k].page = p /\ Hits(m, n, k)  BY <1>4, <2>1, HitHits
  <2>. HIDE DEF n
  <2>. QED  BY <1>1, <2>2, HitUses DEF n, StepsLine
<1>5. CASE Level(m, p) \in {1, 2}
  <2>. DEFINE q == m.L1[r].page
  <2>1. n = isu_mmu_page_swap(c, mode, q, p, Level(m, p))  BY <1>5 DEF page_rep_oldest
  <2>2. SameFirst(m, c)  BY <1>5, CheckBelow
  <2>3. Good(c) /\ PagesOf(c.L2) = PagesOf(m.L2) /\ PagesOf(c.RAM) = PagesOf(m.RAM)
        /\ PagesOf(c.L1) = PagesOf(m.L1)
    <3>1. SameLevels(m, c)  BY CheckIs
    <3>. QED  BY <3>1, SameLevelsIs
  <2>4. /\ Level(m, p) = 1 => p \in PagesOf(c.L2)
        /\ Level(m, p) = 2 => p \in PagesOf(c.RAM)
    BY <2>3, LevelIs
  <2>5. q = c.L1[r].page  BY <2>2 DEF SameFirst
  <2>6. Full(c.L1) /\ Puts(c, n, r, p)
    <3>. HIDE DEF c, r, q, n
    <3>. QED  BY <1>3, <1>5, <2>1, <2>3, <2>4, <2>5, SwapPuts
  <2>7. Full(m.L1) /\ Puts(m, n, r, p)
    <3>. HIDE DEF c, n
    <3>. QED  BY <2>2, <2>6, SameFirstSteps DEF SameFirst
  <2>8. p \notin PagesOf(m.L1)  BY <1>5 DEF Level
  <2>9. r \in DOMAIN m.L1  BY <1>1, <1>3
  <2>. HIDE DEF n
  <2>10. StepsLine(m, n, mode, p) /\ Timely(n, mode)
    BY <1>1, <2>7, <2>8, <2>9, FirstSteps
  <2>. QED  BY <2>10 DEF n
<1>6. CASE Level(m, p) = -1
  <2>0. p \notin Resident(m) /\ p \notin PagesOf(m.L1)  BY <1>6, LevelIs DEF Resident
  <2>1. c = m  BY <1>6, CheckIs
  <2>2. n = isu_mmu_page_fetch(m, mode, p)  BY <1>6, <2>1 DEF page_rep_oldest
  <2>3. CASE ~Full(m.L1)
    <3>. DEFINE o == Least({i \in DOMAIN m.L1 : m.L1[i].page = NoPage})
    <3>1. o \in DOMAIN m.L1 /\ m.L1[o].page = NoPage /\ Puts(m, n, o, p)
      BY <2>0, <2>2, <2>3, OpenPuts
    <3>. HIDE DEF n, o
    <3>2. StepsLine(m, n, mode, p) /\ Timely(n, mode)  BY <1>1, <2>0, <3>1, JoinSteps
    <3>. QED  BY <3>2 DEF n
  <2>4. CASE Full(m.L1)
    <3>1. {i \in DOMAIN m.L1 : m.L1[i].page = NoPage} = {}  BY <2>4 DEF Full
    <3>2. {0} \cup Unreferenced(m.L1) = DOMAIN m.L1  BY <1>1 DEF Unreferenced
    <3>3. CASE mode \in {0, 1}
      <4>1. n = Replace(m, r, p)  BY <2>2, <3>1, <3>2, <3>3 DEF isu_mmu_page_fetch, WhenOf
      <4>. HIDE DEF r
      <4>2. Puts(m, n, r, p)  BY <1>3, <2>0, <2>4, <4>1, ReplacePuts
      <4>3. r \in DOMAIN m.L1  BY <1>1, <1>3
      <4>. HIDE DEF n
      <4>4. StepsLine(m, n, mode, p) /\ Timely(n, mode)  BY <1>1, <2>0, <2>4, <4>2, <4>3, FirstSteps DEF r
      <4>. QED  BY <4>4 DEF n
    <3>4. CASE mode \notin {0, 1}
      <4>1. n = m  BY <2>2, <3>1, <3>4 DEF isu_mmu_page_fetch
      <4>. HIDE DEF n
      <4>. QED  BY <4>1 DEF n, StepsLine
    <3>. QED  BY <3>3, <3>4
  <2>. QED  BY <2>3, <2>4
<1>. QED  BY <1>4, <1>5, <1>6, LevelIs

-----------------------------------------------------------------------------
(* The clock. *)

\* Dividing by n, up to twice n.
LEMMA ModTwice ==
  ASSUME NEW n \in Nat \ {0}, NEW x \in 0 .. 2 * n - 1
  PROVE  x % n = IF x < n THEN x ELSE x - n
<1>1. \A q, r \in Int : r \in 0 .. n - 1 => (n * q + r) % n = r
  OBVIOUS
<1>2. CASE x < n
  <2>1. n * 0 + x = x /\ x \in 0 .. n - 1 /\ x \in Int  BY <1>2
  <2>2. (n * 0 + x) % n = x  BY <1>1, <2>1
  <2>. QED  BY <1>2, <2>1, <2>2
<1>3. CASE ~(x < n)
  <2>1. n * 1 + (x - n) = x /\ x - n \in 0 .. n - 1 /\ x - n \in Int  BY <1>3
  <2>2. (n * 1 + (x - n)) % n = x - n  BY <1>1, <2>1
  <2>. QED  BY <1>3, <2>1, <2>2
<1>. QED  BY <1>2, <1>3

\* A set of numbers with every smaller number is a beginning of the numbers.
LEMMA Beginning ==
  ASSUME NEW n \in Nat, NEW S \in SUBSET (0 .. n - 1), \A d \in S : 0 .. d \subseteq S
  PROVE  Cardinality(S) \in 0 .. n /\ S = 0 .. Cardinality(S) - 1
<1>. DEFINE T == (0 .. n) \ S
<1>1. n \in T /\ T \in SUBSET Nat  OBVIOUS
<1>. HIDE DEF T
<1>2. PICK c \in T : \A k \in T : c <= k  BY <1>1, LeastElement
<1>3. c \in 0 .. n /\ c \notin S  BY DEF T
<1>4. ASSUME NEW d \in 0 .. c - 1  PROVE d \in S
  <2>1. d \in 0 .. n /\ d < c  BY <1>3
  <2>2. d \notin T  BY <1>2, <1>3, <2>1
  <2>. QED  BY <2>1, <2>2 DEF T
<1>5. ASSUME NEW d \in S  PROVE d \in 0 .. c - 1
  <2>1. d \in 0 .. n - 1 /\ 0 .. d \subseteq S  OBVIOUS
  <2>2. c \notin 0 .. d  BY <1>3, <2>1
  <2>. QED  BY <1>3, <2>1, <2>2
<1>6. S = 0 .. c - 1  BY <1>4, <1>5
<1>7. Cardinality(0 .. c - 1) = c  BY <1>3, FS_Interval
<1>. QED  BY <1>3, <1>6, <1>7

\* The slot the hand reaches after d steps.
AtOf(m, d) ==
  LET start == IF m.hand = L1_SIZE THEN 0 ELSE m.hand
  IN  IF start + d < L1_SIZE THEN start + d ELSE start + d - L1_SIZE

Rounds(m) ==
  /\ \A d \in 0 .. L1_SIZE : AtOf(m, d) \in 0 .. L1_SIZE - 1
  /\ \A d, e \in 0 .. L1_SIZE - 1 : AtOf(m, d) = AtOf(m, e) => d = e
  /\ \A i \in 0 .. L1_SIZE - 1 : \E d \in 0 .. L1_SIZE - 1 : AtOf(m, d) = i
  /\ AtOf(m, L1_SIZE) = AtOf(m, 0)

LEMMA AtIs ==
  ASSUME NEW m, m.hand \in 0 .. L1_SIZE
  PROVE  Rounds(m)
<1>0. L1_SIZE \in Nat \ {0}  BY Sizes
<1>. DEFINE s == IF m.hand = L1_SIZE THEN 0 ELSE m.hand
<1>1. s \in 0 .. L1_SIZE - 1  BY <1>0
<1>2. \A d : AtOf(m, d) = IF s + d < L1_SIZE THEN s + d ELSE s + d - L1_SIZE  BY DEF AtOf
<1>. HIDE DEF s
<1>3. \A d \in 0 .. L1_SIZE : AtOf(m, d) \in 0 .. L1_SIZE - 1  BY <1>0, <1>1, <1>2
<1>4. \A d, e \in 0 .. L1_SIZE - 1 : AtOf(m, d) = AtOf(m, e) => d = e  BY <1>0, <1>1, <1>2
<1>5. ASSUME NEW i \in 0 .. L1_SIZE - 1  PROVE \E d \in 0 .. L1_SIZE - 1 : AtOf(m, d) = i
  <2>1. CASE s <= i
    <3>1. i - s \in 0 .. L1_SIZE - 1 /\ AtOf(m, i - s) = i  BY <1>0, <1>1, <1>2, <2>1
    <3>. QED  BY <3>1
  <2>2. CASE i < s
    <3>1. i - s + L1_SIZE \in 0 .. L1_SIZE - 1 /\ AtOf(m, i - s + L1_SIZE) = i  BY <1>0, <1>1, <1>2, <2>2
    <3>. QED  BY <3>1
  <2>. QED  BY <1>0, <1>1, <2>1, <2>2
<1>6. AtOf(m, L1_SIZE) = AtOf(m, 0)  BY <1>0, <1>1, <1>2
<1>. QED  BY <1>3, <1>4, <1>5, <1>6 DEF Rounds

\* The sweep passes c slots whose bit is set and stops at one whose bit was clear.
Sweeps(m, n, c) ==
  /\ c \in 0 .. L1_SIZE
  /\ \A d \in 0 .. c - 1 : m.L1[AtOf(m, d)].ref = 1
  /\ c < L1_SIZE => m.L1[AtOf(m, c)].ref = 0
  /\ n.hand = AtOf(m, c) /\ n.t = m.t /\ DOMAIN n.L1 = DOMAIN m.L1
  /\ \A d \in 0 .. L1_SIZE - 1 :
       n.L1[AtOf(m, d)] = IF d < c THEN [m.L1[AtOf(m, d)] EXCEPT !.ref = 0] ELSE m.L1[AtOf(m, d)]

LEMMA SweptGives ==
  ASSUME NEW m, Good(m)
  PROVE  \E c : Sweeps(m, Swept(m), c)
<1>. DEFINE start == IF m.hand = L1_SIZE THEN 0 ELSE m.hand
            at(d) == (start + d) % L1_SIZE
            passed == {d \in 0 .. L1_SIZE - 1 : \A e \in 0 .. d : m.L1[at(e)].ref = 1}
            c == Cardinality(passed)
            b == [i \in DOMAIN m.L1 |-> IF \E d \in passed : at(d) = i
                                         THEN [m.L1[i] EXCEPT !.ref = 0] ELSE m.L1[i]]
            n == Swept(m)
<1>1. /\ m \in Memories /\ m.L1 \in Arrays(L1_SIZE) /\ DOMAIN m.L1 = 0 .. L1_SIZE - 1
      /\ m.hand \in 0 .. L1_SIZE /\ L1_SIZE \in Nat \ {0}
  BY GoodIs DEF Memories
<1>2. start \in 0 .. L1_SIZE - 1  BY <1>1
<1>3. Rounds(m)  BY <1>1, AtIs
<1>4. ASSUME NEW d \in 0 .. L1_SIZE  PROVE at(d) = AtOf(m, d)
  <2>. DEFINE x == start + d
  <2>1. AtOf(m, d) = IF x < L1_SIZE THEN x ELSE x - L1_SIZE  BY <1>1 DEF AtOf
  <2>2. at(d) = x % L1_SIZE  OBVIOUS
  <2>. HIDE DEF start, at
  <2>3. x \in 0 .. 2 * L1_SIZE - 1  BY <1>1, <1>2
  <2>. HIDE DEF x
  <2>4. x % L1_SIZE = IF x < L1_SIZE THEN x ELSE x - L1_SIZE  BY <1>1, <2>3, ModTwice
  <2>. QED  BY <2>1, <2>2, <2>4
<1>5. n = [m EXCEPT !.hand = at(c), !.L1 = b]  BY DEF Swept
<1>. HIDE DEF at, start, n
<1>6. \A d \in passed : 0 .. d \subseteq passed
  <2>. SUFFICES ASSUME NEW d \in passed, NEW e \in 0 .. d  PROVE e \in passed  OBVIOUS
  <2>1. d \in 0 .. L1_SIZE - 1 /\ \A f \in 0 .. d : m.L1[at(f)].ref = 1  OBVIOUS
  <2>2. e \in 0 .. L1_SIZE - 1 /\ \A f \in 0 .. e : f \in 0 .. d  BY <1>1, <2>1
  <2>. QED  BY <2>1, <2>2
<1>7. c \in 0 .. L1_SIZE /\ passed = 0 .. c - 1
  <2>1. passed \in SUBSET (0 .. L1_SIZE - 1)  OBVIOUS
  <2>. HIDE DEF passed
  <2>. QED  BY <1>1, <1>6, <2>1, Beginning
<1>8. \A d \in 0 .. L1_SIZE - 1 : d \in passed <=> \A e \in 0 .. d : m.L1[at(e)].ref = 1  OBVIOUS
<1>. HIDE DEF passed, c
<1>9. ASSUME NEW d \in 0 .. c - 1  PROVE m.L1[AtOf(m, d)].ref = 1
  <2>1. d \in passed /\ d \in 0 .. L1_SIZE - 1 /\ d \in 0 .. d /\ d \in 0 .. L1_SIZE  BY <1>1, <1>7
  <2>2. m.L1[at(d)].ref = 1  BY <1>8, <2>1
  <2>. QED  BY <1>4, <2>1, <2>2
<1>10. ASSUME c < L1_SIZE  PROVE m.L1[AtOf(m, c)].ref = 0
  <2>1. c \in 0 .. L1_SIZE - 1 /\ c \in 0 .. L1_SIZE /\ c \notin passed  BY <1>1, <1>7, <1>10
  <2>2. PICK e \in 0 .. c : m.L1[at(e)].ref # 1  BY <1>8, <2>1
  <2>3. e \in 0 .. L1_SIZE /\ e \notin 0 .. c - 1
    <3>1. e \in 0 .. L1_SIZE  BY <1>1, <2>1
    <3>2. ASSUME e \in 0 .. c - 1  PROVE FALSE  BY <1>4, <1>9, <2>2, <3>1, <3>2
    <3>. QED  BY <3>1, <3>2
  <2>4. e = c  BY <2>1, <2>3
  <2>5. m.L1[AtOf(m, c)].ref # 1  BY <1>4, <2>1, <2>2, <2>4
  <2>6. AtOf(m, c) \in 0 .. L1_SIZE - 1  BY <1>3, <2>1 DEF Rounds
  <2>7. m.L1[AtOf(m, c)].ref \in 0 .. 1  BY <1>1, <2>6, UsedIs
  <2>. QED  BY <2>5, <2>7
<1>11. n.hand = AtOf(m, c) /\ n.t = m.t /\ n.L1 = b
  <2>1. at(c) = AtOf(m, c)  BY <1>4, <1>7
  <2>. HIDE DEF b
  <2>. QED  BY <1>1, <1>5, <2>1 DEF Memories
<1>12. ASSUME NEW d \in 0 .. L1_SIZE - 1
       PROVE  n.L1[AtOf(m, d)] = IF d < c THEN [m.L1[AtOf(m, d)] EXCEPT !.ref = 0] ELSE m.L1[AtOf(m, d)]
  <2>1. AtOf(m, d) \in DOMAIN m.L1  BY <1>1, <1>3 DEF Rounds
  <2>2. (\E e \in passed : at(e) = AtOf(m, d)) <=> d < c
    <3>1. ASSUME NEW e \in passed, at(e) = AtOf(m, d)  PROVE d < c
      <4>1. e \in 0 .. L1_SIZE - 1 /\ e \in 0 .. L1_SIZE /\ e < c  BY <1>1, <1>7
      <4>2. AtOf(m, e) = AtOf(m, d)  BY <1>4, <3>1, <4>1
      <4>. QED  BY <1>3, <4>1, <4>2 DEF Rounds
    <3>2. ASSUME d < c  PROVE \E e \in passed : at(e) = AtOf(m, d)
      <4>1. d \in passed /\ d \in 0 .. L1_SIZE  BY <1>1, <1>7, <3>2
      <4>. QED  BY <1>4, <4>1
    <3>. QED  BY <3>1, <3>2
  <2>. QED  BY <1>11, <2>1, <2>2
<1>13. DOMAIN n.L1 = DOMAIN m.L1  BY <1>11
<1>14. Sweeps(m, n, c)  BY <1>7, <1>9, <1>10, <1>11, <1>12, <1>13 DEF Sweeps
<1>. QED  BY <1>14 DEF n

\* The line of the clock after it turned to place a, whose page left for p.
Turned(l, p, a) ==
  SubSeq(l, a + 1, Len(l)) \o SubSeq(l, 1, a - 1) \o <<p>>
    = [k \in 1 .. Len(l) |->
         IF k = Len(l) THEN p ELSE IF k + a <= Len(l) THEN l[k + a] ELSE l[k + a - Len(l)]]

LEMMA TurnIs ==
  ASSUME NEW S, NEW l \in Seq(S), NEW p \in S, NEW a \in 1 .. Len(l)
  PROVE  Turned(l, p, a)
<1>. DEFINE n == Len(l)  x == SubSeq(l, a + 1, n)  y == SubSeq(l, 1, a - 1)  z == <<p>>
<1>1. n \in Nat /\ DOMAIN l = 1 .. n /\ \A i \in 1 .. n : l[i] \in S
  BY LenProperties, ElementOfSeq
<1>. HIDE DEF n
<1>2. x \in Seq(S) /\ Len(x) = n - a /\ \A i \in 1 .. n - a : x[i] = l[a + i]
  <2>1. \A i \in a + 1 .. n : l[i] \in S  BY <1>1 DEF n
  <2>2. x \in Seq(S) /\ Len(x) = IF a + 1 <= n THEN n - (a + 1) + 1 ELSE 0
    BY <1>1, <2>1, SubSeqProperties
  <2>3. \A i \in 1 .. n - (a + 1) + 1 : x[i] = l[a + 1 + i - 1]
    BY <1>1, <2>1, SubSeqProperties
  <2>4. \A i \in 1 .. n - a : i \in 1 .. n - (a + 1) + 1 /\ a + 1 + i - 1 = a + i  BY <1>1 DEF n
  <2>5. a <= n  BY DEF n
  <2>. HIDE DEF x
  <2>. QED  BY <1>1, <2>2, <2>3, <2>4, <2>5
<1>3. y \in Seq(S) /\ Len(y) = a - 1 /\ \A i \in 1 .. a - 1 : y[i] = l[i]
  <2>1. \A i \in 1 .. a - 1 : l[i] \in S  BY <1>1 DEF n
  <2>2. y \in Seq(S) /\ Len(y) = IF 1 <= a - 1 THEN a - 1 - 1 + 1 ELSE 0
    BY <1>1, <2>1, SubSeqProperties
  <2>3. \A i \in 1 .. a - 1 - 1 + 1 : y[i] = l[1 + i - 1]
    BY <1>1, <2>1, SubSeqProperties
  <2>4. \A i \in 1 .. a - 1 : i \in 1 .. a - 1 - 1 + 1 /\ 1 + i - 1 = i  BY <1>1
  <2>. HIDE DEF y
  <2>. QED  BY <1>1, <2>2, <2>3, <2>4
<1>4. z \in Seq(S) /\ Len(z) = 1 /\ z[1] = p  OBVIOUS
<1>. DEFINE xy == x \o y  t == xy \o z
<1>. HIDE DEF x, y, z
<1>5. xy \in Seq(S) /\ Len(xy) = n - 1
      /\ \A i \in 1 .. n - 1 : xy[i] = IF i <= n - a THEN x[i] ELSE y[i - (n - a)]
  <2>1. xy \in Seq(S) /\ Len(xy) = Len(x) + Len(y)  BY <1>2, <1>3, ConcatProperties
  <2>2. \A i \in 1 .. Len(x) + Len(y) : xy[i] = IF i <= Len(x) THEN x[i] ELSE y[i - Len(x)]
    BY <1>2, <1>3, ConcatProperties
  <2>. HIDE DEF xy
  <2>. QED  BY <1>1, <1>2, <1>3, <2>1, <2>2
<1>. HIDE DEF xy
<1>6. t \in Seq(S) /\ Len(t) = n /\ \A i \in 1 .. n : t[i] = IF i <= n - 1 THEN xy[i] ELSE z[i - (n - 1)]
  <2>1. t \in Seq(S) /\ Len(t) = Len(xy) + Len(z)  BY <1>4, <1>5, ConcatProperties
  <2>2. \A i \in 1 .. Len(xy) + Len(z) : t[i] = IF i <= Len(xy) THEN xy[i] ELSE z[i - Len(xy)]
    BY <1>4, <1>5, ConcatProperties
  <2>3. Len(xy) = n - 1 /\ Len(xy) + Len(z) = n  BY <1>1, <1>4, <1>5
  <2>4. \A i \in 1 .. n : t[i] = IF i <= n - 1 THEN xy[i] ELSE z[i - (n - 1)]
    <3>. HIDE DEF t
    <3>. QED  BY <2>2, <2>3
  <2>. HIDE DEF t
  <2>. QED  BY <2>1, <2>3, <2>4
<1>. HIDE DEF t
<1>7. ASSUME NEW k \in 1 .. n
      PROVE  t[k] = IF k = n THEN p ELSE IF k + a <= n THEN l[k + a] ELSE l[k + a - n]
  <2>0. a \in 1 .. n  BY DEF n
  <2>1. CASE k = n  BY <1>1, <1>4, <1>6, <2>1
  <2>2. CASE k # n /\ k + a <= n
    <3>1. k \in 1 .. n - 1 /\ k \in 1 .. n - a /\ k <= n - a /\ a + k = k + a  BY <1>1, <2>0, <2>2
    <3>2. t[k] = xy[k] /\ xy[k] = x[k] /\ x[k] = l[a + k]  BY <1>1, <1>2, <1>5, <1>6, <3>1
    <3>. QED  BY <2>2, <3>1, <3>2
  <2>3. CASE k # n /\ ~(k + a <= n)
    <3>1. k \in 1 .. n - 1 /\ ~(k <= n - a) /\ k - (n - a) \in 1 .. a - 1 /\ k - (n - a) = k + a - n
      BY <1>1, <2>0, <2>3
    <3>2. t[k] = xy[k] /\ xy[k] = y[k - (n - a)] /\ y[k - (n - a)] = l[k - (n - a)]
      BY <1>1, <1>3, <1>5, <1>6, <3>1
    <3>. QED  BY <2>3, <3>1, <3>2
  <2>. QED  BY <2>1, <2>2, <2>3
<1>8. t = [k \in 1 .. n |-> t[k]]  BY <1>6, LenProperties, SeqDef
<1>9. t = [k \in 1 .. n |-> IF k = n THEN p ELSE IF k + a <= n THEN l[k + a] ELSE l[k + a - n]]
  BY <1>7, <1>8
<1>. QED  BY <1>9 DEF t, xy, x, y, z, n, Turned

\* In a full L1 the line goes round from the hand.
InRound(m) == LineOf(m, 2) = [k \in 1 .. L1_SIZE |-> m.L1[AtOf(m, k - 1)].page]

LEMMA RoundIs ==
  ASSUME NEW m, Lined(m), Full(m.L1)
  PROVE  InRound(m)
<1>. DEFINE U == Used(m.L1)  f == [k \in 1 .. L1_SIZE |-> AtOf(m, k - 1)]
            turn(k) == IF k < m.hand THEN k + L1_SIZE ELSE k
<1>1. /\ L1_SIZE \in Nat \ {0} /\ m.L1 \in Arrays(L1_SIZE) /\ m.hand \in 0 .. L1_SIZE
  BY Sizes DEF Lined
<1>2. U = 0 .. L1_SIZE - 1 /\ Cardinality(U) = L1_SIZE
  BY <1>1, UsedIs
<1>3. Rounds(m)  BY <1>1, AtIs
<1>4. \A k \in 1 .. L1_SIZE : k - 1 \in 0 .. L1_SIZE - 1 /\ k - 1 \in 0 .. L1_SIZE  BY <1>1
<1>5. \A k \in 1 .. L1_SIZE : AtOf(m, k - 1) \in U  BY <1>2, <1>3, <1>4 DEF Rounds
<1>6. \A d \in 0 .. L1_SIZE - 1 : turn(AtOf(m, d)) = m.hand + d  BY <1>1 DEF AtOf
<1>7. \A i, j \in U : <<i, j>> \in OrderOf(m, 2) <=> turn(i) < turn(j)
  <2>. TAKE i, j \in U
  <2>1. <<i, j>> \in OrderOf(m, 2) <=> Sooner(m, 2, i, j)  BY OrderIs
  <2>2. Sooner(m, 2, i, j) <=> turn(i) < turn(j)  BY DEF Sooner
  <2>. QED  BY <2>1, <2>2
<1>. HIDE DEF U, turn
<1>8. Lists(f, OrderOf(m, 2), U)
  <2>1. f \in [1 .. L1_SIZE -> U]  BY <1>5
  <2>2. ASSUME NEW j \in 1 .. L1_SIZE, NEW k \in 1 .. L1_SIZE, j < k  PROVE <<f[j], f[k]>> \in OrderOf(m, 2)
    <3>1. f[j] = AtOf(m, j - 1) /\ f[k] = AtOf(m, k - 1) /\ f[j] \in U /\ f[k] \in U  BY <2>1
    <3>2. turn(f[j]) = m.hand + (j - 1) /\ turn(f[k]) = m.hand + (k - 1)  BY <1>4, <1>6, <3>1
    <3>3. turn(f[j]) < turn(f[k])  BY <1>1, <2>2, <3>2
    <3>. QED  BY <1>7, <3>1, <3>3
  <2>. HIDE DEF f
  <2>. QED  BY <1>2, <2>1, <2>2 DEF Lists
<1>9. LineOf(m, 2) = [k \in 1 .. Cardinality(U) |-> m.L1[f[k]].page]
  <2>. HIDE DEF f
  <2>. QED  BY <1>8, LineIs DEF U
<1>10. [k \in 1 .. L1_SIZE |-> m.L1[f[k]].page] = [k \in 1 .. L1_SIZE |-> m.L1[AtOf(m, k - 1)].page]
  <2>1. \A k \in 1 .. L1_SIZE : f[k] = AtOf(m, k - 1)  OBVIOUS
  <2>. HIDE DEF f
  <2>. QED  BY <2>1
<1>. HIDE DEF f
<1>. QED  BY <1>2, <1>9, <1>10 DEF InRound

\* The hand passed c slots, the next one got page p, and the hand stands behind it.
TurnsTo(m, n, c, p) ==
  /\ Lined(n) /\ DOMAIN n.L1 = DOMAIN m.L1 /\ c \in 0 .. L1_SIZE
  /\ \A d \in 0 .. c - 1 : m.L1[AtOf(m, d)].ref = 1
  /\ c < L1_SIZE => m.L1[AtOf(m, c)].ref = 0
  /\ n.hand = AtOf(m, c) + 1
  /\ \A d \in 0 .. L1_SIZE - 1 : AtOf(m, d) # AtOf(m, c) =>
       /\ n.L1[AtOf(m, d)].page = m.L1[AtOf(m, d)].page
       /\ n.L1[AtOf(m, d)].ref = IF d < c THEN 0 ELSE m.L1[AtOf(m, d)].ref
  /\ n.L1[AtOf(m, c)].page = p

\* Where the hand goes on from.
LEMMA GoesOn ==
  ASSUME NEW m, m.hand \in 0 .. L1_SIZE, NEW n, NEW a \in 1 .. L1_SIZE, n.hand = AtOf(m, a - 1) + 1,
         NEW k \in 1 .. L1_SIZE
  PROVE  AtOf(n, k - 1) = IF k = L1_SIZE THEN AtOf(m, a - 1)
                          ELSE IF k + a <= L1_SIZE THEN AtOf(m, k + a - 1) ELSE AtOf(m, k + a - L1_SIZE - 1)
<1>. DEFINE s == IF m.hand = L1_SIZE THEN 0 ELSE m.hand
            u == IF n.hand = L1_SIZE THEN 0 ELSE n.hand
<1>0. L1_SIZE \in Nat \ {0}  BY Sizes
<1>1. s \in 0 .. L1_SIZE - 1  BY <1>0
<1>2. \A d : AtOf(m, d) = IF s + d < L1_SIZE THEN s + d ELSE s + d - L1_SIZE  BY DEF AtOf
<1>3. \A d : AtOf(n, d) = IF u + d < L1_SIZE THEN u + d ELSE u + d - L1_SIZE  BY DEF AtOf
<1>. HIDE DEF s
<1>4. AtOf(m, a - 1) = IF s + (a - 1) < L1_SIZE THEN s + (a - 1) ELSE s + (a - 1) - L1_SIZE  BY <1>2
<1>. DEFINE v == AtOf(m, a - 1)
<1>. HIDE DEF v
<1>5. v \in 0 .. L1_SIZE - 1 /\ (v = s + a - 1 \/ v = s + a - 1 - L1_SIZE)  BY <1>0, <1>1, <1>4 DEF v
<1>6. n.hand = v + 1  BY DEF v
<1>7. u \in 0 .. L1_SIZE - 1 /\ (u = v + 1 \/ (v + 1 = L1_SIZE /\ u = 0))  BY <1>0, <1>5, <1>6
<1>. HIDE DEF u
<1>8. AtOf(n, k - 1) = IF u + (k - 1) < L1_SIZE THEN u + (k - 1) ELSE u + (k - 1) - L1_SIZE  BY <1>3
<1>9. CASE k = L1_SIZE
  <2>1. AtOf(n, k - 1) = v  BY <1>0, <1>5, <1>7, <1>8, <1>9
  <2>. QED  BY <1>9, <2>1 DEF v
<1>10. CASE k # L1_SIZE /\ k + a <= L1_SIZE
  <2>1. AtOf(m, k + a - 1) = IF s + (k + a - 1) < L1_SIZE THEN s + (k + a - 1) ELSE s + (k + a - 1) - L1_SIZE
    BY <1>2
  <2>2. AtOf(n, k - 1) = AtOf(m, k + a - 1)  BY <1>0, <1>1, <1>5, <1>7, <1>8, <1>10, <2>1
  <2>. QED  BY <1>10, <2>2
<1>11. CASE k # L1_SIZE /\ ~(k + a <= L1_SIZE)
  <2>. DEFINE d == k + a - L1_SIZE - 1
  <2>1. AtOf(m, d) = IF s + d < L1_SIZE THEN s + d ELSE s + d - L1_SIZE  BY <1>2
  <2>2. AtOf(n, k - 1) = AtOf(m, d)  BY <1>0, <1>1, <1>5, <1>7, <1>8, <1>11, <2>1
  <2>. QED  BY <1>11, <2>2
<1>. QED  BY <1>9, <1>10, <1>11

\* In a full L1 a page that is not there comes in as the clock of PagePolicy lets it.
LEMMA ClockTurns ==
  ASSUME NEW m, Lined(m), Full(m.L1), OneSlot(m.L1), NEW n, NEW c, NEW p \in Pages,
         TurnsTo(m, n, c, p)
  PROVE  ClockLine(m, n, p) /\ Full(n.L1)
<1>. DEFINE a == IF c = L1_SIZE THEN 1 ELSE c + 1
            v == AtOf(m, c)
            l == LineOf(m, 2)
            slot(k) == AtOf(m, k - 1)
<1>1. /\ L1_SIZE \in Nat \ {0} /\ m.L1 \in Arrays(L1_SIZE) /\ DOMAIN m.L1 = 0 .. L1_SIZE - 1
      /\ m.hand \in 0 .. L1_SIZE /\ Rounds(m)
  <2>1. L1_SIZE \in Nat \ {0} /\ m.L1 \in Arrays(L1_SIZE) /\ m.hand \in 0 .. L1_SIZE
    BY Sizes DEF Lined
  <2>. QED  BY <2>1, UsedIs, AtIs
<1>2. a \in 1 .. L1_SIZE /\ c \in 0 .. L1_SIZE  BY <1>1 DEF TurnsTo
<1>3. v = AtOf(m, a - 1)
  <2>1. CASE c = L1_SIZE  BY <1>1, <2>1 DEF Rounds
  <2>2. CASE c # L1_SIZE
    <3>1. a - 1 = c  BY <1>2, <2>2
    <3>. HIDE DEF a
    <3>. QED  BY <3>1
  <2>. QED  BY <2>1, <2>2
<1>4. \A k \in 1 .. L1_SIZE : k - 1 \in 0 .. L1_SIZE - 1 /\ k - 1 \in 0 .. L1_SIZE  BY <1>1
<1>5. \A k \in 1 .. L1_SIZE : slot(k) \in 0 .. L1_SIZE - 1  BY <1>1, <1>4 DEF Rounds
<1>6. \A j, k \in 1 .. L1_SIZE : slot(j) = slot(k) => j = k
  <2>. TAKE j, k \in 1 .. L1_SIZE
  <2>1. slot(j) = slot(k) => j - 1 = k - 1  BY <1>1, <1>4 DEF Rounds
  <2>. HIDE DEF slot
  <2>. QED  BY <1>1, <2>1
<1>7. \A i \in 0 .. L1_SIZE - 1 : \E k \in 1 .. L1_SIZE : slot(k) = i
  <2>. TAKE i \in 0 .. L1_SIZE - 1
  <2>1. PICK d \in 0 .. L1_SIZE - 1 : AtOf(m, d) = i  BY <1>1 DEF Rounds
  <2>2. d + 1 \in 1 .. L1_SIZE /\ (d + 1) - 1 = d  BY <1>1
  <2>. QED  BY <2>1, <2>2
<1>8. v = slot(a)  BY <1>3
<1>9. ASSUME NEW k \in 1 .. L1_SIZE, k # a
      PROVE  /\ n.L1[slot(k)].page = m.L1[slot(k)].page
             /\ n.L1[slot(k)].ref = IF k <= c THEN 0 ELSE m.L1[slot(k)].ref
  <2>1. slot(k) # v  BY <1>2, <1>6, <1>8, <1>9
  <2>2. /\ n.L1[slot(k)].page = m.L1[slot(k)].page
        /\ n.L1[slot(k)].ref = IF k - 1 < c THEN 0 ELSE m.L1[slot(k)].ref
    BY <1>4, <2>1 DEF TurnsTo
  <2>3. k - 1 < c <=> k <= c  BY <1>2
  <2>. HIDE DEF slot
  <2>. QED  BY <2>2, <2>3
<1>10. n.L1[v].page = p /\ n.hand = v + 1 /\ DOMAIN n.L1 = DOMAIN m.L1 /\ Lined(n)  BY DEF TurnsTo
<1>11. \A k \in 1 .. L1_SIZE : k <= c => m.L1[slot(k)].ref = 1
  <2>. SUFFICES ASSUME NEW k \in 1 .. L1_SIZE, k <= c  PROVE m.L1[slot(k)].ref = 1  OBVIOUS
  <2>1. k - 1 \in 0 .. c - 1  BY <1>2
  <2>. QED  BY <2>1 DEF TurnsTo
<1>12. c < L1_SIZE => a = c + 1 /\ m.L1[slot(a)].ref = 0
  <2>1. c < L1_SIZE => m.L1[v].ref = 0  BY DEF TurnsTo
  <2>2. c < L1_SIZE => a = c + 1  BY <1>1, <1>2
  <2>. HIDE DEF v, a, slot
  <2>. QED  BY <1>8, <2>1, <2>2
<1>13. c = L1_SIZE => a = 1  OBVIOUS
<1>14. c < L1_SIZE \/ c = L1_SIZE  BY <1>1, <1>2
<1>. HIDE DEF a, v
<1>15. l = [k \in 1 .. L1_SIZE |-> m.L1[slot(k)].page] /\ l \in Seq(Pages) /\ Len(l) = L1_SIZE
  <2>1. l = [k \in 1 .. L1_SIZE |-> m.L1[slot(k)].page]  BY RoundIs DEF InRound
  <2>2. l \in Seq(Pages) /\ Len(l) = Cardinality(Used(m.L1))  BY LineType
  <2>3. Cardinality(Used(m.L1)) = L1_SIZE  BY <1>1, UsedIs
  <2>. HIDE DEF l
  <2>. QED  BY <2>1, <2>2, <2>3
<1>. HIDE DEF slot
<1>16. \A k \in 1 .. L1_SIZE : m.L1[slot(k)].page # NoPage  BY <1>1, <1>5 DEF Full
<1>17. Full(n.L1)
  <2>. SUFFICES ASSUME NEW i \in 0 .. L1_SIZE - 1  PROVE n.L1[i].page # NoPage  BY <1>1, <1>10 DEF Full
  <2>1. PICK k \in 1 .. L1_SIZE : slot(k) = i  BY <1>7
  <2>2. CASE k = a  BY <1>8, <1>10, <2>1, <2>2, NoPageAssumption
  <2>3. CASE k # a  BY <1>9, <1>16, <2>1, <2>3
  <2>. QED  BY <2>2, <2>3
<1>18. LineOf(n, 2) = SubSeq(l, a + 1, Len(l)) \o SubSeq(l, 1, a - 1) \o <<p>>
  <2>1. LineOf(n, 2) = [k \in 1 .. L1_SIZE |-> n.L1[AtOf(n, k - 1)].page]  BY <1>10, <1>17, RoundIs DEF InRound
  <2>2. ASSUME NEW k \in 1 .. L1_SIZE
        PROVE  n.L1[AtOf(n, k - 1)].page =
                 IF k = L1_SIZE THEN p ELSE IF k + a <= L1_SIZE THEN l[k + a] ELSE l[k + a - L1_SIZE]
    <3>0. n.hand = AtOf(m, a - 1) + 1  BY <1>3, <1>10
    <3>1. AtOf(n, k - 1) = IF k = L1_SIZE THEN slot(a)
                          ELSE IF k + a <= L1_SIZE THEN AtOf(m, k + a - 1) ELSE AtOf(m, k + a - L1_SIZE - 1)
      BY <1>1, <1>2, <3>0, GoesOn DEF slot
    <3>2. CASE k = L1_SIZE  BY <1>8, <1>10, <3>1, <3>2
    <3>3. CASE k # L1_SIZE /\ k + a <= L1_SIZE
      <4>1. k + a \in 1 .. L1_SIZE /\ k + a # a  BY <1>1, <1>2, <3>3
      <4>2. AtOf(n, k - 1) = slot(k + a)
        <5>1. AtOf(n, k - 1) = AtOf(m, k + a - 1)  BY <3>1, <3>3
        <5>2. (k + a) - 1 = k + a - 1  BY <1>1, <1>2
        <5>3. slot(k + a) = AtOf(m, (k + a) - 1)  BY DEF slot
        <5>. QED  BY <5>1, <5>2, <5>3
      <4>3. l[k + a] = m.L1[slot(k + a)].page  BY <1>15, <4>1
      <4>. HIDE DEF l
      <4>. QED  BY <1>9, <3>3, <4>1, <4>2, <4>3
    <3>4. CASE k # L1_SIZE /\ ~(k + a <= L1_SIZE)
      <4>. DEFINE j == k + a - L1_SIZE
      <4>1. j \in 1 .. L1_SIZE /\ j # a  BY <1>1, <1>2, <3>4
      <4>2. AtOf(n, k - 1) = slot(j)
        <5>1. AtOf(n, k - 1) = AtOf(m, k + a - L1_SIZE - 1)  BY <3>1, <3>4
        <5>2. j - 1 = k + a - L1_SIZE - 1  BY <1>1, <1>2
        <5>3. slot(j) = AtOf(m, j - 1)  BY DEF slot
        <5>. QED  BY <5>1, <5>2, <5>3
      <4>. HIDE DEF j
      <4>3. l[j] = m.L1[slot(j)].page  BY <1>15, <4>1
      <4>4. n.L1[AtOf(n, k - 1)].page = l[j]  BY <1>9, <4>1, <4>2, <4>3
      <4>. HIDE DEF l
      <4>. QED  BY <3>4, <4>4 DEF j
    <3>. QED  BY <3>2, <3>3, <3>4
  <2>. HIDE DEF l
  <2>3. LineOf(n, 2) = [k \in 1 .. L1_SIZE |->
          IF k = L1_SIZE THEN p ELSE IF k + a <= L1_SIZE THEN l[k + a] ELSE l[k + a - L1_SIZE]]
    BY <2>1, <2>2
  <2>4. a \in 1 .. Len(l)  BY <1>2, <1>15
  <2>5. SubSeq(l, a + 1, Len(l)) \o SubSeq(l, 1, a - 1) \o <<p>>
          = [k \in 1 .. Len(l) |->
               IF k = Len(l) THEN p ELSE IF k + a <= Len(l) THEN l[k + a] ELSE l[k + a - Len(l)]]
    <3>1. Turned(l, p, a)  BY <1>15, <2>4, TurnIs
    <3>. QED  BY <3>1 DEF Turned
  <2>6. Len(l) = L1_SIZE  BY <1>15
  <2>. QED  BY <2>3, <2>5, <2>6
<1>. DEFINE chance == ChanceOf(m, 2)
            spared == {i \in DOMAIN l : \A j \in 1 .. i : l[j] \in chance}
            leaving == IF spared = DOMAIN l THEN 1
                       ELSE CHOOSE i \in DOMAIN l \ spared : \A j \in 1 .. i - 1 : j \in spared
            left == chance \ {l[i] : i \in spared}
<1>19. DOMAIN l = 1 .. L1_SIZE  BY <1>15
<1>20. \A k \in 1 .. L1_SIZE : l[k] = m.L1[slot(k)].page  BY <1>15
<1>. HIDE DEF l
<1>21. chance = {m.L1[i].page : i \in {j \in 0 .. L1_SIZE - 1 : m.L1[j].ref # 0}}
  BY <1>1 DEF ChanceOf, Unreferenced
<1>. HIDE DEF chance
<1>22. \A k \in 1 .. L1_SIZE : l[k] \in chance <=> m.L1[slot(k)].ref # 0
  <2>. TAKE k \in 1 .. L1_SIZE
  <2>1. ASSUME l[k] \in chance  PROVE m.L1[slot(k)].ref # 0
    <3>1. PICK i \in 0 .. L1_SIZE - 1 : m.L1[i].ref # 0 /\ m.L1[i].page = l[k]  BY <1>21, <2>1
    <3>2. i = slot(k)  BY <1>1, <1>5, <1>16, <1>20, <3>1 DEF OneSlot
    <3>. QED  BY <3>1, <3>2
  <2>2. ASSUME m.L1[slot(k)].ref # 0  PROVE l[k] \in chance
    BY <1>5, <1>20, <1>21, <2>2
  <2>. QED  BY <2>1, <2>2
<1>23. spared = 1 .. c
  <2>1. ASSUME NEW i \in spared  PROVE i \in 1 .. c
    <3>1. i \in 1 .. L1_SIZE /\ \A j \in 1 .. i : l[j] \in chance  BY <1>19
    <3>2. SUFFICES ASSUME i > c  PROVE FALSE  BY <1>2, <3>1
    <3>3. c < L1_SIZE /\ c + 1 \in 1 .. i /\ c + 1 \in 1 .. L1_SIZE  BY <1>1, <1>2, <3>1, <3>2
    <3>4. m.L1[slot(c + 1)].ref = 0  BY <1>12, <3>3
    <3>5. l[c + 1] \in chance  BY <3>1, <3>3
    <3>. QED  BY <1>22, <3>3, <3>4, <3>5
  <2>2. ASSUME NEW i \in 1 .. c  PROVE i \in spared
    <3>1. i \in DOMAIN l  BY <1>1, <1>2, <1>19
    <3>2. ASSUME NEW j \in 1 .. i  PROVE l[j] \in chance
      <4>1. j \in 1 .. L1_SIZE /\ j <= c  BY <1>1, <1>2
      <4>. QED  BY <1>11, <1>22, <4>1
    <3>. QED  BY <3>1, <3>2
  <2>. HIDE DEF spared
  <2>. QED  BY <2>1, <2>2
<1>. HIDE DEF spared
<1>24. leaving = a
  <2>1. CASE c = L1_SIZE  BY <1>13, <1>19, <1>23, <2>1
  <2>2. CASE c < L1_SIZE
    <3>1. a = c + 1  BY <1>12, <2>2
    <3>2. spared # DOMAIN l /\ c + 1 \in DOMAIN l \ spared  BY <1>1, <1>2, <1>19, <1>23, <2>2
    <3>. DEFINE P(i) == \A j \in 1 .. i - 1 : j \in spared
    <3>3. \A i \in DOMAIN l \ spared : P(i) <=> i = c + 1
      <4>. TAKE i \in DOMAIN l \ spared
      <4>1. i \in 1 .. L1_SIZE /\ ~(i <= c)  BY <1>2, <1>19, <1>23
      <4>2. ASSUME P(i)  PROVE i = c + 1
        <5>1. SUFFICES ASSUME i > c + 1  PROVE FALSE  BY <1>2, <4>1
        <5>2. c + 1 \in 1 .. i - 1  BY <1>2, <4>1, <5>1
        <5>. QED  BY <3>2, <4>2, <5>2
      <4>3. ASSUME i = c + 1  PROVE P(i)  BY <1>2, <1>23, <4>3
      <4>. QED  BY <4>2, <4>3
    <3>. HIDE DEF P
    <3>4. (CHOOSE i \in DOMAIN l \ spared : P(i)) = c + 1  BY <3>2, <3>3
    <3>5. leaving = CHOOSE i \in DOMAIN l \ spared : P(i)  BY <3>2 DEF P
    <3>. HIDE DEF leaving
    <3>. QED  BY <3>1, <3>4, <3>5
  <2>. QED  BY <1>14, <2>1, <2>2
<1>. HIDE DEF leaving
<1>25. ChanceOf(n, 2) \in {left, left \cup {p}}
  <2>1. ChanceOf(n, 2) = {n.L1[i].page : i \in {j \in 0 .. L1_SIZE - 1 : n.L1[j].ref # 0}}
    BY <1>1, <1>10 DEF ChanceOf, Unreferenced
  <2>2. ASSUME NEW q \in left  PROVE q \in ChanceOf(n, 2)
    <3>1. q \in chance /\ \A k \in 1 .. c : q # l[k]  BY <1>23
    <3>2. PICK i \in 0 .. L1_SIZE - 1 : m.L1[i].ref # 0 /\ m.L1[i].page = q  BY <1>21, <3>1
    <3>3. PICK k \in 1 .. L1_SIZE : slot(k) = i  BY <1>7
    <3>4. ~(k <= c)
      <4>1. l[k] = q  BY <1>20, <3>2, <3>3
      <4>. QED  BY <1>2, <3>1, <4>1
    <3>5. k # a
      <4>1. c < L1_SIZE  BY <1>1, <1>2, <3>4
      <4>. QED  BY <1>12, <3>2, <3>3, <4>1
    <3>6. n.L1[i].page = q /\ n.L1[i].ref # 0  BY <1>9, <3>2, <3>3, <3>4, <3>5
    <3>. QED  BY <2>1, <3>6
  <2>3. ASSUME NEW q \in ChanceOf(n, 2), q # p  PROVE q \in left
    <3>1. PICK i \in 0 .. L1_SIZE - 1 : n.L1[i].ref # 0 /\ n.L1[i].page = q  BY <2>1
    <3>2. PICK k \in 1 .. L1_SIZE : slot(k) = i  BY <1>7
    <3>3. k # a  BY <1>8, <1>10, <2>3, <3>1, <3>2
    <3>4. m.L1[i].page = q /\ n.L1[i].ref = IF k <= c THEN 0 ELSE m.L1[i].ref  BY <1>9, <3>1, <3>2, <3>3
    <3>5. ~(k <= c) /\ m.L1[i].ref # 0  BY <3>1, <3>4
    <3>6. q \in chance  BY <1>21, <3>4, <3>5
    <3>7. ASSUME NEW j \in 1 .. c, q = l[j]  PROVE FALSE
      <4>1. j \in 1 .. L1_SIZE /\ j <= c  BY <1>1, <1>2
      <4>2. m.L1[slot(j)].page = m.L1[slot(k)].page  BY <1>20, <3>2, <3>4, <3>7, <4>1
      <4>3. slot(j) = slot(k)  BY <1>1, <1>5, <1>16, <4>1, <4>2 DEF OneSlot
      <4>. QED  BY <1>6, <3>5, <4>1, <4>3
    <3>. QED  BY <1>23, <3>6, <3>7
  <2>. HIDE DEF left
  <2>. QED  BY <2>2, <2>3
<1>26. ClockLine(m, n, p)
  <2>1. LineOf(n, 2) = SubSeq(l, leaving + 1, Len(l)) \o SubSeq(l, 1, leaving - 1) \o <<p>>  BY <1>18, <1>24
  <2>. QED  BY <1>25, <2>1 DEF ClockLine, TurnsLine, leaving, left, spared, chance, l
<1>. QED  BY <1>17, <1>26

\* Until L1 is full its slots fill in order, and the hand stands behind the last.
HandInv(m) ==
  /\ \A i \in DOMAIN m.L1 : m.L1[i].page = NoPage => m.L1[i].ref = 0
  /\ ~Full(m.L1) => m.hand < L1_SIZE /\ Used(m.L1) = 0 .. m.hand - 1

\* The line while L1 fills.
InFill(m) == LineOf(m, 2) = [k \in 1 .. m.hand |-> m.L1[k - 1].page]

LEMMA FillIs ==
  ASSUME NEW m, Lined(m), Used(m.L1) = 0 .. m.hand - 1
  PROVE  InFill(m)
<1>. DEFINE U == Used(m.L1)  h == m.hand  f == [k \in 1 .. h |-> k - 1]
            turn(k) == IF k < m.hand THEN k + L1_SIZE ELSE k
<1>1. L1_SIZE \in Nat \ {0} /\ h \in 0 .. L1_SIZE  BY Sizes DEF Lined
<1>2. Cardinality(U) = h
  <2>1. U = 0 .. h - 1  OBVIOUS
  <2>. HIDE DEF U, h
  <2>2. Cardinality(0 .. h - 1) = h  BY <1>1, FS_Interval
  <2>. QED  BY <2>1, <2>2
<1>3. U = 0 .. h - 1  OBVIOUS
<1>4. \A i, j \in U : <<i, j>> \in OrderOf(m, 2) <=> turn(i) < turn(j)
  <2>. TAKE i, j \in U
  <2>1. <<i, j>> \in OrderOf(m, 2) <=> Sooner(m, 2, i, j)  BY OrderIs
  <2>2. Sooner(m, 2, i, j) <=> turn(i) < turn(j)  BY DEF Sooner
  <2>. QED  BY <2>1, <2>2
<1>5. \A i \in 0 .. h - 1 : turn(i) = i + L1_SIZE  BY <1>1
<1>. HIDE DEF U, turn, h
<1>6. Lists(f, OrderOf(m, 2), U)
  <2>1. f \in [1 .. h -> U]  BY <1>1, <1>3
  <2>2. ASSUME NEW j \in 1 .. h, NEW k \in 1 .. h, j < k  PROVE <<f[j], f[k]>> \in OrderOf(m, 2)
    <3>1. f[j] = j - 1 /\ f[k] = k - 1 /\ f[j] \in U /\ f[k] \in U  BY <2>1
    <3>2. turn(f[j]) = (j - 1) + L1_SIZE /\ turn(f[k]) = (k - 1) + L1_SIZE  BY <1>3, <1>5, <3>1
    <3>3. turn(f[j]) < turn(f[k])  BY <1>1, <2>2, <3>2
    <3>. QED  BY <1>4, <3>1, <3>3
  <2>. HIDE DEF f
  <2>. QED  BY <1>2, <2>1, <2>2 DEF Lists
<1>7. LineOf(m, 2) = [k \in 1 .. Cardinality(U) |-> m.L1[f[k]].page]
  <2>. HIDE DEF f
  <2>. QED  BY <1>6, LineIs DEF U
<1>8. [k \in 1 .. h |-> m.L1[f[k]].page] = [k \in 1 .. h |-> m.L1[k - 1].page]
  <2>1. \A k \in 1 .. h : f[k] = k - 1  OBVIOUS
  <2>. HIDE DEF f
  <2>. QED  BY <2>1
<1>. HIDE DEF f
<1>9. LineOf(m, 2) = [k \in 1 .. h |-> m.L1[k - 1].page]  BY <1>2, <1>7, <1>8
<1>. QED  BY <1>9 DEF InFill, h

\* What moving the hand on does.
Advances(m, n) == Good(n) /\ n.L1 = m.L1 /\ n.hand = m.hand + 1 /\ n.t = m.t

LEMMA AdvanceGives ==
  ASSUME NEW m, Good(m), m.hand \in 0 .. L1_SIZE - 1
  PROVE  Advances(m, Advance(m))
<1>. DEFINE n == Advance(m)
<1>1. SameLevels(m, n) /\ n.L1 = m.L1  BY AdvanceIs
<1>2. Good(n)
  <2>. HIDE DEF n
  <2>. QED  BY <1>1, SameLevelsIs
<1>3. n.hand = m.hand + 1 /\ n.t = m.t  BY DEF Advance, Good, Memories
<1>. QED  BY <1>1, <1>2, <1>3 DEF Advances

\* The sweep, a page for the slot it stops at, and the hand behind it.
LEMMA TurnsIs ==
  ASSUME NEW m, Good(m), NEW s, NEW c, Sweeps(m, s, c), NEW p, NEW n, Puts(s, n, s.hand, p), Good(n)
  PROVE  TurnsTo(m, Advance(n), c, p) /\ Advances(n, Advance(n))
<1>. DEFINE a == Advance(n)
<1>1. /\ m.L1 \in Arrays(L1_SIZE) /\ DOMAIN m.L1 = 0 .. L1_SIZE - 1 /\ L1_SIZE \in Nat \ {0}
      /\ m.hand \in 0 .. L1_SIZE /\ Rounds(m)
  <2>1. /\ m.L1 \in Arrays(L1_SIZE) /\ DOMAIN m.L1 = 0 .. L1_SIZE - 1 /\ L1_SIZE \in Nat \ {0}
        /\ m.hand \in 0 .. L1_SIZE
    BY GoodIs DEF Lined
  <2>. QED  BY <2>1, AtIs
<1>2. c \in 0 .. L1_SIZE /\ s.hand = AtOf(m, c) /\ DOMAIN s.L1 = DOMAIN m.L1  BY DEF Sweeps
<1>3. s.hand \in 0 .. L1_SIZE - 1  BY <1>1, <1>2 DEF Rounds
<1>4. n.hand = s.hand /\ DOMAIN n.L1 = DOMAIN s.L1 /\ n.L1[s.hand].page = p
      /\ \A i \in DOMAIN s.L1 : i # s.hand => n.L1[i] = s.L1[i]
  BY DEF Puts
<1>5. Advances(n, a)  BY <1>3, <1>4, AdvanceGives
<1>. HIDE DEF a
<1>6. Lined(a) /\ a.L1 = n.L1 /\ a.hand = AtOf(m, c) + 1  BY <1>2, <1>4, <1>5, GoodIs DEF Advances
<1>7. /\ \A d \in 0 .. c - 1 : m.L1[AtOf(m, d)].ref = 1
      /\ c < L1_SIZE => m.L1[AtOf(m, c)].ref = 0
  BY DEF Sweeps
<1>8. ASSUME NEW d \in 0 .. L1_SIZE - 1, AtOf(m, d) # AtOf(m, c)
      PROVE  /\ a.L1[AtOf(m, d)].page = m.L1[AtOf(m, d)].page
             /\ a.L1[AtOf(m, d)].ref = IF d < c THEN 0 ELSE m.L1[AtOf(m, d)].ref
  <2>. DEFINE i == AtOf(m, d)
  <2>1. d \in 0 .. L1_SIZE  BY <1>1
  <2>2. i \in 0 .. L1_SIZE - 1  BY <1>1, <2>1 DEF Rounds
  <2>3. s.L1[i] = IF d < c THEN [m.L1[i] EXCEPT !.ref = 0] ELSE m.L1[i]  BY DEF Sweeps
  <2>4. m.L1[i] \in Cells  BY <1>1, <2>2, CellIs
  <2>5. a.L1[i] = s.L1[i]  BY <1>1, <1>2, <1>4, <1>6, <1>8, <2>2
  <2>. HIDE DEF i
  <2>6. a.L1[i].page = m.L1[i].page /\ a.L1[i].ref = IF d < c THEN 0 ELSE m.L1[i].ref
    BY <2>3, <2>4, <2>5 DEF Cells
  <2>. QED  BY <2>6 DEF i
<1>9. a.L1[AtOf(m, c)].page = p  BY <1>2, <1>4, <1>6
<1>10. DOMAIN a.L1 = DOMAIN m.L1  BY <1>2, <1>4, <1>6
<1>11. TurnsTo(m, a, c, p)  BY <1>2, <1>6, <1>7, <1>8, <1>9, <1>10 DEF TurnsTo
<1>. QED  BY <1>5, <1>11 DEF a

\* The sweep keeps the times.
LEMMA SweepTimely ==
  ASSUME NEW m, Good(m), NEW s, NEW c, Sweeps(m, s, c), Timely(m, 2)
  PROVE  Timely(s, 2)
<1>1. /\ m.L1 \in Arrays(L1_SIZE) /\ DOMAIN m.L1 = 0 .. L1_SIZE - 1 /\ L1_SIZE \in Nat \ {0} /\ Rounds(m)
  <2>1. /\ m.L1 \in Arrays(L1_SIZE) /\ DOMAIN m.L1 = 0 .. L1_SIZE - 1 /\ L1_SIZE \in Nat \ {0}
        /\ m.hand \in 0 .. L1_SIZE
    BY GoodIs DEF Lined
  <2>. QED  BY <2>1, AtIs
<1>. SUFFICES ASSUME NEW i \in DOMAIN s.L1, s.L1[i].page # NoPage  PROVE s.L1[i].placement_time <= s.t
  BY DEF Timely, WhenOf, Used
<1>2. i \in 0 .. L1_SIZE - 1  BY <1>1 DEF Sweeps
<1>3. PICK d \in 0 .. L1_SIZE - 1 : AtOf(m, d) = i  BY <1>1, <1>2 DEF Rounds
<1>4. s.t = m.t /\ s.L1[i] \in {m.L1[i], [m.L1[i] EXCEPT !.ref = 0]}
  <2>1. s.L1[i] = IF d < c THEN [m.L1[i] EXCEPT !.ref = 0] ELSE m.L1[i]  BY <1>3 DEF Sweeps
  <2>2. s.t = m.t  BY DEF Sweeps
  <2>. QED  BY <2>1, <2>2
<1>5. m.L1[i] \in Cells  BY <1>1, <1>2, CellIs
<1>6. s.L1[i].page = m.L1[i].page /\ s.L1[i].placement_time = m.L1[i].placement_time
  BY <1>4, <1>5 DEF Cells
<1>7. m.L1[i].placement_time <= m.t
  <2>1. i \in Used(m.L1)  BY <1>1, <1>2, <1>6 DEF Used
  <2>. QED  BY <2>1 DEF Timely, WhenOf
<1>. QED  BY <1>4, <1>6, <1>7

\* A hit keeps the order in which L1 fills.
LEMMA HitFills ==
  ASSUME NEW m, HandInv(m), NEW n, NEW k \in Used(m.L1), Hits(m, n, k)
  PROVE  HandInv(n)
<1>1. /\ SamePages(m.L1, n.L1) /\ n.hand = m.hand
      /\ \A i \in DOMAIN m.L1 : i # k => n.L1[i] = m.L1[i]
  BY DEF Hits
<1>2. DOMAIN n.L1 = DOMAIN m.L1 /\ \A i \in DOMAIN m.L1 : n.L1[i].page = m.L1[i].page
  BY <1>1 DEF SamePages
<1>3. Used(n.L1) = Used(m.L1) /\ (Full(n.L1) <=> Full(m.L1))  BY <1>2 DEF Used, Full
<1>4. m.L1[k].page # NoPage  BY DEF Used
<1>5. \A i \in DOMAIN n.L1 : n.L1[i].page = NoPage => n.L1[i].ref = 0
  BY <1>1, <1>2, <1>4 DEF HandInv
<1>. QED  BY <1>1, <1>3, <1>5 DEF HandInv

LEMMA FullFills ==
  ASSUME NEW m, Full(m.L1)
  PROVE  HandInv(m)
BY DEF HandInv, Full

\* With an open slot the sweep stops at it, and passes none.
LEMMA SweepFills ==
  ASSUME NEW m, Good(m), HandInv(m), ~Full(m.L1), NEW s, NEW c, Sweeps(m, s, c), Good(s)
  PROVE  SameFirst(m, s)
<1>. DEFINE h == m.hand
<1>1. /\ m.L1 \in Arrays(L1_SIZE) /\ DOMAIN m.L1 = 0 .. L1_SIZE - 1 /\ L1_SIZE \in Nat \ {0}
      /\ h \in 0 .. L1_SIZE
  BY GoodIs DEF Lined
<1>2. Rounds(m)  BY <1>1, AtIs
<1>3. h < L1_SIZE /\ Used(m.L1) = 0 .. h - 1  BY DEF HandInv
<1>4. h \in 0 .. L1_SIZE - 1 /\ h \notin 0 .. h - 1  BY <1>1, <1>3
<1>5. m.L1[h].page = NoPage /\ m.L1[h].ref = 0
  <2>1. h \in DOMAIN m.L1 /\ h \notin Used(m.L1)  BY <1>1, <1>3, <1>4
  <2>2. m.L1[h].page = NoPage  BY <2>1 DEF Used
  <2>. QED  BY <2>1, <2>2 DEF HandInv
<1>6. AtOf(m, 0) = h  BY <1>1, <1>3 DEF AtOf
<1>. HIDE DEF h
<1>7. c = 0
  <2>1. c \in 0 .. L1_SIZE /\ \A d \in 0 .. c - 1 : m.L1[AtOf(m, d)].ref = 1  BY DEF Sweeps
  <2>2. SUFFICES ASSUME 0 \in 0 .. c - 1  PROVE FALSE  BY <1>1, <2>1
  <2>. QED  BY <1>5, <1>6, <2>1, <2>2
<1>8. s.hand = m.hand /\ s.t = m.t /\ DOMAIN s.L1 = DOMAIN m.L1  BY <1>6, <1>7 DEF Sweeps, h
<1>9. ASSUME NEW i \in 0 .. L1_SIZE - 1  PROVE s.L1[i] = m.L1[i]
  <2>1. PICK d \in 0 .. L1_SIZE - 1 : AtOf(m, d) = i  BY <1>2 DEF Rounds
  <2>2. s.L1[i] = IF d < c THEN [m.L1[i] EXCEPT !.ref = 0] ELSE m.L1[i]  BY <2>1 DEF Sweeps
  <2>. QED  BY <1>1, <1>7, <2>1, <2>2
<1>10. s.L1 = m.L1
  <2>1. s.L1 \in Arrays(L1_SIZE)  BY GoodIs
  <2>2. m.L1 = [i \in 0 .. L1_SIZE - 1 |-> m.L1[i]]  BY <1>1 DEF Arrays
  <2>3. s.L1 = [i \in 0 .. L1_SIZE - 1 |-> s.L1[i]]  BY <2>1 DEF Arrays
  <2>. QED  BY <1>9, <2>2, <2>3
<1>. QED  BY <1>8, <1>10 DEF SameFirst

LEMMA UpTo ==
  ASSUME NEW k \in Nat
  PROVE  Cardinality(0 .. k - 1) = k
<1>1. /\ k - 1 \in Int /\ 0 \in Int
      /\ (k - 1) - 0 + 1 = k
      /\ 0 > k - 1 => k = 0
  OBVIOUS
<1>. QED  BY <1>1, FS_Interval

\* A page from the disk while L1 fills.
LEMMA ClockFills ==
  ASSUME NEW m, Good(m), Timely(m, 2), HandInv(m), ~Full(m.L1), NEW p \in Pages, p \notin PagesOf(m.L1),
         NEW r, r = Least({i \in DOMAIN m.L1 : m.L1[i].page = NoPage}),
         NEW n, Puts(m, n, r, p), n.L1[r].ref = 0,
         NEW a, Advances(n, a)
  PROVE  StepsLine(m, a, 2, p) /\ Timely(a, 2) /\ HandInv(a)
<1>. DEFINE h == m.hand  l == LineOf(m, 2)
<1>1. /\ m.L1 \in Arrays(L1_SIZE) /\ DOMAIN m.L1 = 0 .. L1_SIZE - 1 /\ L1_SIZE \in Nat \ {0}
      /\ h \in 0 .. L1_SIZE /\ Lined(m)
  BY GoodIs DEF Lined
<1>2. h < L1_SIZE /\ Used(m.L1) = 0 .. h - 1  BY DEF HandInv
<1>3. h \in 0 .. L1_SIZE - 1 /\ h \notin 0 .. h - 1  BY <1>1, <1>2
<1>4. m.L1[h].page = NoPage /\ m.L1[h].ref = 0
  <2>1. h \in DOMAIN m.L1 /\ h \notin Used(m.L1)  BY <1>1, <1>2, <1>3
  <2>2. m.L1[h].page = NoPage  BY <2>1 DEF Used
  <2>. QED  BY <2>1, <2>2 DEF HandInv
<1>5. r = h
  <2>. DEFINE S == {i \in DOMAIN m.L1 : m.L1[i].page = NoPage}
  <2>1. h \in S  BY <1>1, <1>3, <1>4
  <2>2. \A i \in S : h <= i
    <3>. SUFFICES ASSUME NEW i \in 0 .. L1_SIZE - 1, i \notin Used(m.L1)  PROVE h <= i
      BY <1>1 DEF Used
    <3>. QED  BY <1>1, <1>2
  <2>3. S \in SUBSET Nat  BY <1>1
  <2>. HIDE DEF S, h
  <2>4. Least(S) \in S /\ \A i \in S : Least(S) <= i  BY <2>1, <2>3, LeastElement DEF Least
  <2>5. h <= Least(S) /\ Least(S) <= h  BY <2>1, <2>2, <2>4
  <2>6. h \in Nat /\ Least(S) \in Nat  BY <2>1, <2>3, <2>4
  <2>7. Least(S) = h  BY <2>5, <2>6
  <2>. QED  BY <2>7 DEF S
<1>6. /\ n.hand = h /\ DOMAIN n.L1 = DOMAIN m.L1 /\ n.L1[h].page = p /\ n.L1[h].ref = 0
      /\ \A i \in DOMAIN m.L1 : i # h => n.L1[i] = m.L1[i]
  BY <1>5 DEF Puts
<1>7. a.L1 = n.L1 /\ a.hand = h + 1 /\ a.t = n.t /\ Lined(a)  BY <1>6, GoodIs DEF Advances
<1>8. Used(a.L1) = 0 .. a.hand - 1
  <2>0. p # NoPage  BY NoPageAssumption
  <2>1. Used(a.L1) = Used(m.L1) \cup {h}  BY <1>1, <1>3, <1>6, <1>7, <2>0 DEF Used
  <2>2. (0 .. h - 1) \cup {h} = 0 .. h  BY <1>1
  <2>3. a.hand - 1 = h  BY <1>1, <1>7
  <2>. QED  BY <1>2, <2>1, <2>2, <2>3
<1>9. HandInv(a)
  <2>1. \A i \in DOMAIN a.L1 : a.L1[i].page = NoPage => a.L1[i].ref = 0
    BY <1>6, <1>7, NoPageAssumption DEF HandInv
  <2>2. ASSUME ~Full(a.L1)  PROVE a.hand < L1_SIZE
    <3>1. SUFFICES ASSUME a.hand = L1_SIZE  PROVE FALSE  BY <1>1, <1>2, <1>7
    <3>2. a.L1 \in Arrays(L1_SIZE)  BY <1>7 DEF Lined
    <3>3. Full(a.L1) <=> Used(a.L1) = 0 .. L1_SIZE - 1  BY <1>1, <3>2, UsedIs
    <3>. QED  BY <1>8, <2>2, <3>1, <3>3
  <2>. QED  BY <1>8, <2>1, <2>2 DEF HandInv
<1>10. Timely(a, 2)
  <2>1. Timely(n, 2)  BY <1>1, <1>3, <1>5, PutsIs
  <2>. QED  BY <1>7, <2>1 DEF Timely
<1>11. l = [k \in 1 .. h |-> m.L1[k - 1].page] /\ l \in Seq(Pages) /\ Len(l) = h
  <2>1. l = [k \in 1 .. h |-> m.L1[k - 1].page]  BY <1>1, <1>2, FillIs DEF InFill
  <2>2. l \in Seq(Pages) /\ Len(l) = Cardinality(Used(m.L1))  BY <1>1, LineType
  <2>. HIDE DEF h
  <2>3. Cardinality(0 .. h - 1) = h  BY <1>1, UpTo
  <2>. HIDE DEF l
  <2>. QED  BY <1>2, <2>1, <2>2, <2>3
<1>. HIDE DEF h, l
<1>12. Joins(m, a, 2, p)
  <2>1. LineOf(a, 2) = [k \in 1 .. a.hand |-> a.L1[k - 1].page]  BY <1>7, <1>8, FillIs DEF InFill
  <2>2. LineOf(a, 2) = [k \in 1 .. h + 1 |-> a.L1[k - 1].page]  BY <1>7, <2>1
  <2>3. ASSUME NEW k \in 1 .. h + 1  PROVE a.L1[k - 1].page = IF k = h + 1 THEN p ELSE l[k]
    <3>1. CASE k = h + 1
      <4>1. k - 1 = h  BY <1>1, <3>1
      <4>. QED  BY <1>6, <1>7, <3>1, <4>1
    <3>2. CASE k # h + 1
      <4>1. k \in 1 .. h /\ k - 1 \in DOMAIN m.L1 /\ k - 1 # h  BY <1>1, <1>2, <3>2
      <4>2. a.L1[k - 1] = m.L1[k - 1]  BY <1>6, <1>7, <4>1
      <4>. QED  BY <1>11, <3>2, <4>1, <4>2
    <3>. QED  BY <3>1, <3>2
  <2>4. LineOf(a, 2) = [k \in 1 .. h + 1 |-> IF k = h + 1 THEN p ELSE l[k]]  BY <2>2, <2>3
  <2>5. Append(l, p) = [k \in 1 .. h + 1 |-> IF k = h + 1 THEN p ELSE l[k]]  
    <3>1. l \in Seq(Pages) /\ Len(l) = h  BY <1>11
    <3>2. Append(l, p) = [k \in 1 .. Len(l) + 1 |-> IF k = Len(l) + 1 THEN p ELSE l[k]]  BY <3>1, AppendIs
    <3>. QED  BY <3>1, <3>2
  <2>. QED  BY <2>4, <2>5 DEF Joins, l
<1>13. ChanceOf(a, 2) = ChanceOf(m, 2)
  <2>. DEFINE A == {j \in DOMAIN m.L1 : m.L1[j].ref # 0}  B == {j \in DOMAIN a.L1 : a.L1[j].ref # 0}
  <2>1. ChanceOf(m, 2) = {m.L1[i].page : i \in A} /\ ChanceOf(a, 2) = {a.L1[i].page : i \in B}
    BY DEF ChanceOf, Unreferenced
  <2>2. A = B /\ \A i \in A : a.L1[i].page = m.L1[i].page  BY <1>4, <1>6, <1>7 DEF h
  <2>. HIDE DEF A, B
  <2>3. {a.L1[i].page : i \in A} = {m.L1[i].page : i \in A}  BY <2>2
  <2>. QED  BY <2>1, <2>2, <2>3
<1>14. RecentOf(a, 2) = RecentOf(m, 2)  BY DEF RecentOf
<1>15. LoadsLine(m, a, 2, p)
  <2>1. Len(LineOf(m, 2)) < L1_SIZE  BY <1>2, <1>11 DEF l, h
  <2>. QED  BY <1>12, <1>13, <1>14, <2>1 DEF LoadsLine
<1>. QED  BY <1>9, <1>10, <1>15 DEF StepsLine

\* The sweep looks at L1, the hand and the time.
LEMMA SameSweeps ==
  ASSUME NEW m, NEW k, SameFirst(m, k), NEW s, NEW c, Sweeps(k, s, c)
  PROVE  Sweeps(m, s, c)
<1>1. k.L1 = m.L1 /\ k.hand = m.hand /\ k.t = m.t  BY DEF SameFirst
<1>2. \A d : AtOf(k, d) = AtOf(m, d)  BY <1>1 DEF AtOf
<1>. QED  BY <1>1, <1>2 DEF Sweeps

\* The sweep moves no page.
LEMMA SweepKeeps ==
  ASSUME NEW m, Good(m), NEW p, Level(m, p) # 0
  PROVE  LET s == Swept(isu_mmu_page_check(m, p))
         IN  /\ Good(s) /\ s.hand \in 0 .. L1_SIZE - 1
             /\ PagesOf(s.L1) = PagesOf(m.L1) /\ Resident(s) = Resident(m)
             /\ Level(m, p) = 1 => p \in PagesOf(s.L2)
             /\ Level(m, p) = 2 => p \in PagesOf(s.RAM)
             /\ Full(s.L1) <=> Full(m.L1)
             /\ \E c : Sweeps(m, s, c)
<1>. DEFINE k == isu_mmu_page_check(m, p)  s == Swept(k)
<1>1. SameLevels(m, k)  BY CheckIs
<1>2. SameFirst(m, k)  BY CheckBelow
<1>. HIDE DEF k
<1>3. /\ Good(k) /\ PagesOf(k.L1) = PagesOf(m.L1) /\ PagesOf(k.L2) = PagesOf(m.L2)
      /\ PagesOf(k.RAM) = PagesOf(m.RAM) /\ Resident(k) = Resident(m)
  BY <1>1, SameLevelsIs
<1>4. SameLevels(k, s) /\ s.hand \in 0 .. L1_SIZE - 1  BY <1>3, SweptIs
<1>5. PICK c : Sweeps(k, s, c)  BY <1>3, SweptGives
<1>. HIDE DEF s
<1>6. /\ Good(s) /\ PagesOf(s.L1) = PagesOf(k.L1) /\ PagesOf(s.L2) = PagesOf(k.L2)
      /\ PagesOf(s.RAM) = PagesOf(k.RAM) /\ Resident(s) = Resident(k)
  BY <1>3, <1>4, SameLevelsIs
<1>7. Full(s.L1) <=> Full(m.L1)
  <2>1. Full(s.L1) <=> Full(k.L1)  BY <1>4, SamePagesIs DEF SameLevels
  <2>2. Full(k.L1) <=> Full(m.L1)  BY <1>2 DEF SameFirst
  <2>. QED  BY <2>1, <2>2
<1>8. Sweeps(m, s, c)  BY <1>2, <1>5, SameSweeps
<1>9. /\ Level(m, p) = 1 => p \in PagesOf(s.L2)
      /\ Level(m, p) = 2 => p \in PagesOf(s.RAM)
  BY <1>3, <1>6, LevelIs
<1>. QED  BY <1>3, <1>4, <1>6, <1>7, <1>8, <1>9 DEF s, k

\* What a request does to L1 under the clock.
ClockDoes(m, n, p) == StepsLine(m, n, 2, p) /\ Timely(n, 2) /\ HandInv(n)

\* In a full L1.
LEMMA ClockReplaces ==
  ASSUME NEW m, Good(m), Timely(m, 2), Full(m.L1), NEW p \in Pages, p \notin PagesOf(m.L1),
         NEW s, Good(s), NEW c, Sweeps(m, s, c), s.hand \in 0 .. L1_SIZE - 1,
         NEW n, Puts(s, n, s.hand, p), Good(n)
  PROVE  ClockDoes(m, Advance(n), p)
<1>. DEFINE a == Advance(n)
<1>1. /\ m.L1 \in Arrays(L1_SIZE) /\ DOMAIN m.L1 = 0 .. L1_SIZE - 1 /\ L1_SIZE \in Nat \ {0}
      /\ Lined(m) /\ OneSlot(m.L1)
  BY GoodIs
<1>2. TurnsTo(m, a, c, p) /\ Advances(n, a)  BY TurnsIs
<1>. HIDE DEF a
<1>3. ClockLine(m, a, p) /\ Full(a.L1)  BY <1>1, <1>2, ClockTurns
<1>4. HandInv(a)  BY <1>3, FullFills
<1>5. Timely(a, 2)
  <2>1. Timely(s, 2)  BY SweepTimely
  <2>2. Lined(s) /\ DOMAIN s.L1 = 0 .. L1_SIZE - 1  BY GoodIs
  <2>3. Timely(n, 2)  BY <2>1, <2>2, PutsIs
  <2>. QED  BY <1>2, <2>3 DEF Advances, Timely
<1>6. LoadsLine(m, a, 2, p)
  <2>1. ~(Len(LineOf(m, 2)) < L1_SIZE)
    <3>1. Cardinality(Used(m.L1)) = L1_SIZE  BY <1>1, UsedIs
    <3>2. Len(LineOf(m, 2)) = Cardinality(Used(m.L1))  BY <1>1, LineType
    <3>. QED  BY <1>1, <3>1, <3>2
  <2>2. RecentOf(a, 2) = RecentOf(m, 2)  BY DEF RecentOf
  <2>. QED  BY <1>3, <2>1, <2>2 DEF LoadsLine
<1>. QED  BY <1>4, <1>5, <1>6 DEF ClockDoes, StepsLine, a

LEMMA ClockSteps ==
  ASSUME NEW m, Good(m), Timely(m, 2), HandInv(m), NEW p \in Pages
  PROVE  ClockDoes(m, isu_mmu_page_rep_clock(m, 2, p), p)
<1>. DEFINE k == isu_mmu_page_check(m, p)
            s == Swept(k)
            a == isu_mmu_page_rep_clock(m, 2, p)
<1>1. /\ m.L1 \in Arrays(L1_SIZE) /\ DOMAIN m.L1 = 0 .. L1_SIZE - 1 /\ L1_SIZE \in Nat \ {0}
      /\ Lined(m)
  BY GoodIs
<1>2. CASE Level(m, p) = 0
  <2>1. a = Hit(k, p)  BY <1>2 DEF isu_mmu_page_rep_clock
  <2>2. PICK i \in Used(m.L1) : m.L1[i].page = p /\ Hits(m, a, i)  BY <1>2, <2>1, HitHits
  <2>. HIDE DEF a
  <2>3. UsesPage(m, a, 2, m.L1[i].page) /\ Timely(a, 2)  BY <1>1, <2>2, HitUses
  <2>4. HandInv(a)  BY <2>2, HitFills
  <2>. QED  BY <2>2, <2>3, <2>4 DEF ClockDoes, StepsLine, a
<1>3. CASE Level(m, p) # 0
  <2>1. /\ Good(s) /\ s.hand \in 0 .. L1_SIZE - 1
        /\ PagesOf(s.L1) = PagesOf(m.L1) /\ Resident(s) = Resident(m)
        /\ Level(m, p) = 1 => p \in PagesOf(s.L2)
        /\ Level(m, p) = 2 => p \in PagesOf(s.RAM)
        /\ Full(s.L1) <=> Full(m.L1)
        /\ \E c : Sweeps(m, s, c)
    BY <1>3, SweepKeeps
  <2>2. PICK c : Sweeps(m, s, c)  BY <2>1
  <2>3. p \notin PagesOf(m.L1)  BY <1>3 DEF Level
  <2>4. CASE Level(m, p) \in {1, 2}
    <3>. DEFINE o == s.L1[s.hand].page  n == isu_mmu_page_swap(s, 2, o, p, Level(m, p))
    <3>1. a = Advance(n)  BY <2>4 DEF isu_mmu_page_rep_clock
    <3>. HIDE DEF s, a
    <3>2. Full(s.L1) /\ Puts(s, n, s.hand, p)  BY <2>1, <2>4, SwapPuts
    <3>3. Good(n)  BY <2>1, <2>4, SwapIs DEF Brings
    <3>. HIDE DEF n
    <3>4. ClockDoes(m, Advance(n), p)  BY <2>1, <2>2, <2>3, <3>2, <3>3, ClockReplaces
    <3>. QED  BY <3>1, <3>4 DEF a
  <2>5. CASE Level(m, p) = -1
    <3>. DEFINE n == isu_mmu_page_fetch(s, 2, p)
    <3>1. a = Advance(n)  BY <2>5 DEF isu_mmu_page_rep_clock
    <3>2. p \notin Resident(m)  BY <2>5, LevelIs
    <3>. HIDE DEF s, a
    <3>3. p \notin Resident(s) /\ s.hand < L1_SIZE  BY <1>1, <2>1, <3>2
    <3>4. Good(n) /\ n.hand = s.hand  BY <2>1, <3>3, FetchIs
    <3>5. CASE Full(m.L1)
      <4>1. {i \in DOMAIN s.L1 : s.L1[i].page = NoPage} = {}  BY <2>1, <3>5 DEF Full
      <4>2. n = Replace(s, s.hand, p)  BY <4>1 DEF isu_mmu_page_fetch
      <4>3. Puts(s, n, s.hand, p)  BY <2>1, <3>3, <3>5, <4>2, ReplacePuts
      <4>. HIDE DEF n
      <4>4. ClockDoes(m, Advance(n), p)  BY <2>1, <2>2, <2>3, <3>4, <3>5, <4>3, ClockReplaces
      <4>. QED  BY <3>1, <4>4 DEF a
    <3>6. CASE ~Full(m.L1)
      <4>1. SameFirst(m, s)  BY <2>1, <2>2, <3>6, SweepFills
      <4>. DEFINE r == Least({i \in DOMAIN m.L1 : m.L1[i].page = NoPage})
                  q == Least({i \in DOMAIN s.L1 : s.L1[i].page = NoPage})
      <4>2. q = r  BY <4>1 DEF SameFirst
      <4>3. Puts(s, n, q, p) /\ n.L1[q].ref = 0
        <5>1. Good(s) /\ ~Full(s.L1) /\ p \notin Resident(s) /\ 2 \in 0 .. 4 /\ (2 = 2 => s.hand < L1_SIZE)
          BY <2>1, <3>3, <3>6
        <5>2. Puts(s, n, q, p)  BY <5>1, OpenPuts
        <5>3. n.L1[q].ref = 0  BY <5>1, OpenPuts
        <5>. QED  BY <5>2, <5>3
      <4>. HIDE DEF n, q
      <4>4. Puts(m, n, r, p) /\ n.L1[r].ref = 0
        <5>. HIDE DEF r
        <5>. QED  BY <4>1, <4>2, <4>3, SameFirstSteps
      <4>5. Advances(n, Advance(n))  BY <2>1, <3>4, AdvanceGives
      <4>6. ClockDoes(m, Advance(n), p)
        <5>. DEFINE b == Advance(n)
        <5>1. Advances(n, b)  BY <4>5
        <5>2. r = Least({i \in DOMAIN m.L1 : m.L1[i].page = NoPage})  OBVIOUS
        <5>. HIDE DEF b, r
        <5>3. StepsLine(m, b, 2, p) /\ Timely(b, 2) /\ HandInv(b)
          BY <2>3, <3>6, <4>4, <5>1, <5>2, ClockFills
        <5>. QED  BY <5>3 DEF ClockDoes, b
      <4>. QED  BY <3>1, <4>6 DEF a
    <3>. QED  BY <3>5, <3>6
  <2>. QED  BY <1>3, <2>4, <2>5, LevelIs
<1>. QED  BY <1>2, <1>3

-----------------------------------------------------------------------------
(* What leaves the line as it is. *)

\* The order of the pages, their chances and whether they were used just now.
Keeps(m, n, mode) ==
  /\ Lined(n) /\ SamePages(m.L1, n.L1) /\ n.hand = m.hand
  /\ mode = 2 => \A i \in DOMAIN m.L1 : n.L1[i].ref = m.L1[i].ref
  /\ mode # 2 => \A i, j \in Used(m.L1) :
       n.L1[i][WhenOf(mode)] < n.L1[j][WhenOf(mode)] <=> m.L1[i][WhenOf(mode)] < m.L1[j][WhenOf(mode)]
  /\ mode = 1 => \A i \in Used(m.L1) : n.L1[i].access_time = n.t <=> m.L1[i].access_time = m.t
  /\ Timely(m, mode) => Timely(n, mode)

\* The line of both, its chances and its uses are equal.
Alike(m, n, mode) ==
  /\ LineOf(n, mode) = LineOf(m, mode)
  /\ ChanceOf(n, mode) = ChanceOf(m, mode)
  /\ RecentOf(n, mode) = RecentOf(m, mode)
  /\ PagesOf(n.L1) = PagesOf(m.L1)

LEMMA KeepsIs ==
  ASSUME NEW m, Lined(m), NEW n, NEW mode, Keeps(m, n, mode)
  PROVE  Alike(m, n, mode) /\ (mode = 2 /\ HandInv(m) => HandInv(n))
<1>. DEFINE U == Used(m.L1)  D == DOMAIN m.L1
<1>1. Lined(n) /\ SamePages(m.L1, n.L1) /\ n.hand = m.hand  BY DEF Keeps
<1>2. DOMAIN n.L1 = D /\ \A i \in D : n.L1[i].page = m.L1[i].page  BY <1>1 DEF SamePages
<1>3. Used(n.L1) = U /\ U \subseteq D /\ (Full(n.L1) <=> Full(m.L1))  BY <1>2 DEF Used, Full
<1>4. \A i \in U : m.L1[i][WhenOf(mode)] \in Nat /\ n.L1[i][WhenOf(mode)] \in Nat
  <2>1. L1_SIZE \in Nat /\ m.L1 \in Arrays(L1_SIZE) /\ n.L1 \in Arrays(L1_SIZE)  BY <1>1, Sizes DEF Lined
  <2>2. \A i \in 0 .. L1_SIZE - 1 : m.L1[i].access_time \in Nat /\ m.L1[i].placement_time \in Nat
    BY <2>1, UsedIs
  <2>3. \A i \in 0 .. L1_SIZE - 1 : n.L1[i].access_time \in Nat /\ n.L1[i].placement_time \in Nat
    BY <2>1, UsedIs
  <2>4. U \in SUBSET (0 .. L1_SIZE - 1)  BY <2>1, UsedIs
  <2>. HIDE DEF U
  <2>. QED  BY <2>2, <2>3, <2>4 DEF WhenOf
<1>5. LineOf(n, mode) = LineOf(m, mode)
  <2>1. ASSUME NEW i \in U, NEW j \in U  PROVE Sooner(m, mode, i, j) <=> Sooner(n, mode, i, j)
    <3>1. CASE mode = 2  BY <1>1, <3>1 DEF Sooner
    <3>2. CASE mode # 2
      <4>1. /\ n.L1[i][WhenOf(mode)] < n.L1[j][WhenOf(mode)] <=> m.L1[i][WhenOf(mode)] < m.L1[j][WhenOf(mode)]
            /\ n.L1[j][WhenOf(mode)] < n.L1[i][WhenOf(mode)] <=> m.L1[j][WhenOf(mode)] < m.L1[i][WhenOf(mode)]
        BY <3>2 DEF Keeps
      <4>2. n.L1[i][WhenOf(mode)] = n.L1[j][WhenOf(mode)] <=> m.L1[i][WhenOf(mode)] = m.L1[j][WhenOf(mode)]
        BY <1>4, <4>1
      <4>. QED  BY <3>2, <4>1, <4>2 DEF Sooner
    <3>. QED  BY <3>1, <3>2
  <2>. QED  BY <1>1, <2>1, SameLine
<1>6. ChanceOf(n, mode) = ChanceOf(m, mode)
  <2>1. CASE mode # 2  BY <2>1 DEF ChanceOf
  <2>2. CASE mode = 2
    <3>. DEFINE A == {j \in D : m.L1[j].ref # 0}  B == {j \in DOMAIN n.L1 : n.L1[j].ref # 0}
    <3>1. ChanceOf(m, mode) = {m.L1[i].page : i \in A} /\ ChanceOf(n, mode) = {n.L1[i].page : i \in B}
      BY <2>2 DEF ChanceOf, Unreferenced
    <3>2. B = A /\ \A i \in A : n.L1[i].page = m.L1[i].page  BY <1>2, <2>2 DEF Keeps
    <3>. HIDE DEF A, B
    <3>3. {n.L1[i].page : i \in A} = {m.L1[i].page : i \in A}  BY <3>2
    <3>. QED  BY <3>1, <3>2, <3>3
  <2>. QED  BY <2>1, <2>2
<1>7. RecentOf(n, mode) = RecentOf(m, mode)
  <2>1. CASE mode # 1  BY <2>1 DEF RecentOf
  <2>2. CASE mode = 1
    <3>. DEFINE A == {j \in U : m.L1[j].access_time = m.t}
                B == {j \in Used(n.L1) : n.L1[j].access_time = n.t}
    <3>1. RecentOf(m, mode) = {m.L1[i].page : i \in A} /\ RecentOf(n, mode) = {n.L1[i].page : i \in B}
      BY <2>2 DEF RecentOf
    <3>2. B = A
      <4>1. \A i \in U : n.L1[i].access_time = n.t <=> m.L1[i].access_time = m.t  BY <2>2 DEF Keeps
      <4>. QED  BY <1>3, <4>1
    <3>3. \A i \in A : n.L1[i].page = m.L1[i].page  BY <1>2, <1>3
    <3>. HIDE DEF A, B
    <3>4. {n.L1[i].page : i \in A} = {m.L1[i].page : i \in A}  BY <3>3
    <3>. QED  BY <3>1, <3>2, <3>4
  <2>. QED  BY <2>1, <2>2
<1>8. PagesOf(n.L1) = PagesOf(m.L1)  BY <1>1, SamePagesIs
<1>9. ASSUME mode = 2, HandInv(m)  PROVE HandInv(n)
  <2>1. \A i \in D : n.L1[i].ref = m.L1[i].ref  BY <1>9 DEF Keeps
  <2>2. \A i \in DOMAIN n.L1 : n.L1[i].page = NoPage => n.L1[i].ref = 0  BY <1>2, <1>9, <2>1 DEF HandInv
  <2>. QED  BY <1>1, <1>3, <1>9, <2>2 DEF HandInv
<1>. QED  BY <1>5, <1>6, <1>7, <1>8, <1>9 DEF Alike

\* Renumbering keeps the order of times that are not after the present, and which is it.
Ranked(a, b, when, now) ==
  /\ \A i, j \in Used(a) : b[i][when] < b[j][when] <=> a[i][when] < a[j][when]
  /\ \A i \in Used(a) : b[i][when] <= Now /\ (b[i][when] = Now <=> a[i][when] = now)

LEMMA RanksIs ==
  ASSUME NEW n \in Nat, n < Now, NEW a \in Arrays(n), NEW when \in Times, NEW now \in Nat,
         \A i \in Used(a) : a[i][when] <= now
  PROVE  Ranked(a, Renumbered(a, when, now), when, now)
<1>. DEFINE times == {a[i][when] : i \in {j \in DOMAIN a : a[j].page # NoPage}}
            before(v) == {u \in times : u < v}
            rank(v) == IF v = now THEN Now ELSE Cardinality(before(v))
            b == Renumbered(a, when, now)
<1>0. DOMAIN a = 0 .. n - 1 /\ Now \in Nat  BY Sizes DEF Arrays
<1>1. times \in SUBSET Nat /\ IsFiniteSet(times) /\ Cardinality(times) <= n  BY TimesAre
<1>2. \A i \in Used(a) : a[i][when] \in times  BY DEF Used
<1>3. ASSUME NEW i \in Used(a)  PROVE b[i][when] = rank(a[i][when])
  <2>1. i \in 0 .. n - 1 /\ a[i].page # NoPage  BY <1>0 DEF Used
  <2>2. b[i] = [a[i] EXCEPT ![when] = rank(a[i][when])]  BY <1>0, <2>1 DEF Renumbered
  <2>3. a[i] \in Cells  BY <2>1, CellIs
  <2>. HIDE DEF b, rank
  <2>. QED  BY <2>2, <2>3 DEF Cells, Times
<1>4. \A v \in times : v <= now  BY DEF Used
<1>. HIDE DEF times, b
<1>5. ASSUME NEW v \in times  PROVE /\ IsFiniteSet(before(v)) /\ Cardinality(before(v)) \in 0 .. n
  <2>1. before(v) \in SUBSET times  OBVIOUS
  <2>. HIDE DEF before
  <2>2. IsFiniteSet(before(v)) /\ Cardinality(before(v)) <= Cardinality(times)  BY <1>1, <2>1, FS_Subset
  <2>3. Cardinality(before(v)) \in Nat /\ Cardinality(times) \in Nat  BY <1>1, <2>2, FS_CardinalityType
  <2>. QED  BY <1>1, <2>2, <2>3
<1>6. ASSUME NEW u \in times, NEW v \in times, u < v  PROVE rank(u) < rank(v)
  <2>0. u \in Nat /\ v \in Nat /\ u # now  BY <1>1, <1>4, <1>6
  <2>1. rank(u) = Cardinality(before(u))  BY <2>0
  <2>2. CASE v = now
    <3>1. rank(v) = Now  BY <2>2
    <3>. HIDE DEF rank, before
    <3>. QED  BY <1>0, <1>5, <2>1, <3>1
  <2>3. CASE v # now
    <3>1. rank(v) = Cardinality(before(v))  BY <2>3
    <3>2. before(u) \in SUBSET before(v)
      <4>1. \A x \in times : x \in Nat  BY <1>1
      <4>2. \A x \in times : x < u => x < v  BY <1>6, <2>0, <4>1
      <4>. QED  BY <4>2
    <3>3. u \in before(v) /\ u \notin before(u)  BY <1>6, <2>0
    <3>. HIDE DEF rank, before
    <3>4. Cardinality(before(u)) <= Cardinality(before(v))
          /\ (Cardinality(before(u)) = Cardinality(before(v)) => before(u) = before(v))
      BY <1>5, <3>2, FS_Subset
    <3>. QED  BY <1>5, <2>1, <3>1, <3>3, <3>4
  <2>. QED  BY <2>2, <2>3
<1>7. \A v \in times : rank(v) \in Nat /\ rank(v) <= Now /\ (rank(v) = Now <=> v = now)
  <2>. TAKE v \in times
  <2>1. Cardinality(before(v)) \in 0 .. n  BY <1>5
  <2>. HIDE DEF before
  <2>. QED  BY <1>0, <2>1
<1>. HIDE DEF rank
<1>8. \A u, v \in times : rank(u) < rank(v) <=> u < v
  <2>. TAKE u, v \in times
  <2>1. u \in Nat /\ v \in Nat  BY <1>1
  <2>2. CASE u < v  BY <1>6, <2>2
  <2>3. CASE v < u
    <3>1. rank(v) < rank(u)  BY <1>6, <2>3
    <3>. QED  BY <1>7, <2>1, <2>3, <3>1
  <2>4. CASE u = v  BY <1>7, <2>1, <2>4
  <2>. QED  BY <2>1, <2>2, <2>3, <2>4
<1>9. \A i, j \in Used(a) : b[i][when] < b[j][when] <=> a[i][when] < a[j][when]  BY <1>2, <1>3, <1>8
<1>10. \A i \in Used(a) : b[i][when] <= Now /\ (b[i][when] = Now <=> a[i][when] = now)
  BY <1>2, <1>3, <1>7
<1>. QED  BY <1>9, <1>10 DEF Ranked, b

\* isu_mmu_ref_clear, in the modes whose line does not look at the bits.
LEMMA ClearKeeps ==
  ASSUME NEW m, Good(m), NEW mode, mode # 2
  PROVE  LET n == isu_mmu_ref_clear(m)
         IN  Keeps(m, n, mode) /\ \A i \in DOMAIN n.L1 : n.L1[i].ref = 0
<1>. DEFINE n == isu_mmu_ref_clear(m)
<1>1. /\ m.L1 \in Arrays(L1_SIZE) /\ DOMAIN m.L1 = 0 .. L1_SIZE - 1 /\ L1_SIZE \in Nat /\ Lined(m)
  BY GoodIs
<1>2. n.L1 = ClearRefs(m.L1) /\ n.hand = m.hand /\ n.t = m.t
  BY DEF isu_mmu_ref_clear, Good, Memories
<1>3. Good(n) /\ SamePages(m.L1, n.L1)
  <2>1. SameLevels(m, n)  BY ClearedIs
  <2>. HIDE DEF n
  <2>. QED  BY <2>1, SameLevelsIs DEF SameLevels
<1>. HIDE DEF n
<1>4. \A i \in 0 .. L1_SIZE - 1 : /\ n.L1[i].ref = 0
                                  /\ n.L1[i].access_time = m.L1[i].access_time
                                  /\ n.L1[i].placement_time = m.L1[i].placement_time
  <2>. TAKE i \in 0 .. L1_SIZE - 1
  <2>1. m.L1[i] \in Cells /\ n.L1[i] = [m.L1[i] EXCEPT !.ref = 0]  BY <1>1, <1>2, CellIs DEF ClearRefs
  <2>. QED  BY <2>1 DEF Cells
<1>5. DOMAIN n.L1 = DOMAIN m.L1 /\ Used(n.L1) = Used(m.L1)  BY <1>3 DEF SamePages, Used
<1>6. \A i \in Used(m.L1) : i \in 0 .. L1_SIZE - 1  BY <1>1 DEF Used
<1>7. \A i \in Used(m.L1) : n.L1[i][WhenOf(mode)] = m.L1[i][WhenOf(mode)]  BY <1>4, <1>6 DEF WhenOf
<1>8. Timely(m, mode) => Timely(n, mode)  BY <1>2, <1>5, <1>7 DEF Timely
<1>9. Lined(n)  BY <1>3, GoodIs
<1>10. Keeps(m, n, mode)
  BY <1>2, <1>3, <1>4, <1>6, <1>7, <1>8, <1>9 DEF Keeps
<1>11. \A i \in DOMAIN n.L1 : n.L1[i].ref = 0  BY <1>1, <1>4, <1>5
<1>. QED  BY <1>10, <1>11 DEF n

\* Renumbering the times of L1.
LEMMA FirstKeeps ==
  ASSUME NEW m, Good(m), NEW mode, Timely(m, mode), NEW n, Good(n),
         n.L1 = FirstTimes(m.L1, mode, m.t), n.hand = m.hand, n.t = Now
  PROVE  Keeps(m, n, mode)
<1>. DEFINE a == m.L1  N == L1_SIZE
<1>0. "access_time" \in Times /\ "placement_time" \in Times /\ "access_time" # "placement_time"
  BY DEF Times
<1>1. /\ a \in Arrays(N) /\ DOMAIN a = 0 .. N - 1 /\ N \in Nat /\ Lined(m) /\ m.t \in Nat
      /\ Lined(n) /\ n.L1 \in Arrays(N)
  BY GoodIs DEF Lined
<1>2. N < Now /\ N <= Now
  BY Sizes DEF Now
<1>3. SamePages(a, n.L1)  BY <1>1, <1>2, FirstIs
<1>4. DOMAIN n.L1 = DOMAIN a /\ Used(n.L1) = Used(a) /\ \A i \in Used(a) : i \in 0 .. N - 1
  BY <1>1, <1>3 DEF SamePages, Used
<1>5. CASE mode = 2
  <2>. DEFINE b == Forgotten(a, "access_time")
  <2>1. Retimed(N, a, b, "access_time") /\ b \in Arrays(N)  BY <1>0, <1>1, ForgottenIs DEF Retimed
  <2>. HIDE DEF b
  <2>2. n.L1 = Forgotten(b, "placement_time")  BY <1>5 DEF FirstTimes, b
  <2>3. Retimed(N, b, n.L1, "placement_time")  BY <1>0, <1>1, <2>1, <2>2, ForgottenIs
  <2>4. \A i \in 0 .. N - 1 : n.L1[i].ref = a[i].ref  BY <1>0, <1>1, <2>1, <2>3, BothTimes
  <2>5. ASSUME NEW i \in Used(n.L1)  PROVE n.L1[i].placement_time <= Now
    <3>1. i \in 0 .. N - 1 /\ n.L1[i].page # NoPage  BY <1>4 DEF Used
    <3>2. b[i].page = n.L1[i].page /\ DOMAIN b = 0 .. N - 1
      <4>1. DOMAIN b = 0 .. N - 1  BY <2>1 DEF Arrays
      <4>. QED  BY <2>3, <3>1, <4>1 DEF Retimed, SamePages
    <3>3. n.L1[i] = [b[i] EXCEPT !["placement_time"] = 0]  BY <2>2, <3>1, <3>2 DEF Forgotten
    <3>4. b[i] \in Cells  BY <1>1, <2>1, <3>1, CellIs
    <3>5. n.L1[i].placement_time = 0  BY <3>3, <3>4 DEF Cells
    <3>. QED  BY <3>5, Sizes
  <2>6. Timely(n, mode)  BY <1>5, <2>5 DEF Timely, WhenOf
  <2>. QED  BY <1>1, <1>3, <1>5, <2>4, <2>6 DEF Keeps
<1>6. CASE mode # 2
  <2>. DEFINE w == WhenOf(mode)  v == IF mode = 1 THEN "placement_time" ELSE "access_time"
              b == Renumbered(a, w, m.t)
  <2>1. w \in Times /\ v \in Times /\ v # w  BY <1>0 DEF WhenOf
  <2>2. n.L1 = Forgotten(b, v)  BY <1>6 DEF FirstTimes, WhenOf
  <2>3. \A i \in Used(a) : a[i][w] <= m.t  BY DEF Timely
  <2>. HIDE DEF w, v
  <2>4. Ranked(a, b, w, m.t)  BY <1>1, <1>2, <2>1, <2>3, RanksIs
  <2>5. b \in Arrays(N)  BY <1>1, <1>2, <2>1, RenumberedIs DEF Retimed
  <2>. HIDE DEF b
  <2>6. Retimed(N, b, n.L1, v)  BY <1>1, <2>1, <2>2, <2>5, ForgottenIs
  <2>7. \A i \in 0 .. N - 1 : n.L1[i][w] = b[i][w]  BY <2>1, <2>6 DEF Retimed
  <2>8. \A i, j \in Used(a) : n.L1[i][w] < n.L1[j][w] <=> a[i][w] < a[j][w]
    BY <1>4, <2>4, <2>7 DEF Ranked
  <2>9. \A i \in Used(a) : n.L1[i][w] <= Now /\ (n.L1[i][w] = Now <=> a[i][w] = m.t)
    BY <1>4, <2>4, <2>7 DEF Ranked
  <2>10. Timely(n, mode)  BY <1>4, <2>9 DEF Timely, w
  <2>11. mode = 1 => \A i \in Used(a) : n.L1[i].access_time = n.t <=> a[i].access_time = m.t
    BY <2>9 DEF w, WhenOf
  <2>. QED  BY <1>1, <1>3, <1>6, <2>8, <2>10, <2>11 DEF Keeps, w
<1>. QED  BY <1>5, <1>6

\* Compress.
LEMMA CompressKeeps ==
  ASSUME NEW m, Good(m), NEW mode, Timely(m, mode)
  PROVE  Keeps(m, Compress(m, mode), mode)
<1>. DEFINE n == Compress(m, mode)
<1>1. SameLevels(m, n) /\ n.t = Now  BY CompressIs
<1>2. n.L1 = FirstTimes(m.L1, mode, m.t) /\ n.hand = m.hand
  <2>. DEFINE a == FirstTimes(m.L1, mode, m.t)
              lower(slots) == Forgotten(Renumbered(slots, "access_time", m.t), "placement_time")
              b == lower(m.L2)
              c == lower(m.RAM)
  <2>0. m \in Memories  BY DEF Good
  <2>1. n = [m EXCEPT !.L1 = a, !.L2 = b, !.RAM = c, !.t = Now]
    <3>1. CASE mode \in {1, 2}  BY <2>0, <3>1 DEF Compress, FirstTimes, Memories
    <3>2. CASE mode \notin {1, 2}  BY <2>0, <3>2 DEF Compress, FirstTimes, Memories
    <3>. QED  BY <3>1, <3>2
  <2>. HIDE DEF n, a, b, c
  <2>2. n.L1 = a /\ n.hand = m.hand  BY <2>0, <2>1 DEF Memories
  <2>. QED  BY <2>2 DEF a
<1>. HIDE DEF n
<1>3. Good(n)  BY <1>1, SameLevelsIs
<1>4. Keeps(m, n, mode)  BY <1>1, <1>2, <1>3, FirstKeeps
<1>. QED  BY <1>4 DEF n

-----------------------------------------------------------------------------
(* L1 follows the policy of its mode. *)

PolicyInv ==
  /\ IInv
  /\ Timely(mem, rep_mode)
  /\ rep_mode = 2 => HandInv(mem)

\* The empty L1.
LEMMA PolicyInit == MmuInit => PolicyInv
<1>. SUFFICES ASSUME MmuInit  PROVE PolicyInv  OBVIOUS
<1>1. mem.L1 = [i \in 0 .. L1_SIZE - 1 |-> Empty] /\ mem.hand = 0  BY DEF MmuInit, isu_mmu_create
<1>2. Empty.page = NoPage /\ Empty.ref = 0  BY DEF Empty
<1>. HIDE DEF Empty
<1>3. Used(mem.L1) = {} /\ \A i \in DOMAIN mem.L1 : mem.L1[i].ref = 0  BY <1>1, <1>2 DEF Used
<1>4. Timely(mem, rep_mode)  BY <1>3 DEF Timely
<1>5. HandInv(mem)
  <2>1. 0 < L1_SIZE /\ {} = 0 .. 0 - 1  BY Sizes
  <2>. QED  BY <1>1, <1>3, <2>1 DEF HandInv
<1>. QED  BY <1>4, <1>5, InitInv DEF PolicyInv

\* A step between lines that are alike.
LEMMA StepsAlike ==
  ASSUME NEW mode, NEW m, NEW k, Alike(m, k, mode), NEW h, NEW n, Alike(h, n, mode), NEW p,
         StepsLine(k, h, mode, p)
  PROVE  StepsLine(m, n, mode, p)
<1>1. /\ LineOf(k, mode) = LineOf(m, mode) /\ LineOf(n, mode) = LineOf(h, mode)
      /\ ChanceOf(k, mode) = ChanceOf(m, mode) /\ ChanceOf(n, mode) = ChanceOf(h, mode)
      /\ RecentOf(k, mode) = RecentOf(m, mode) /\ RecentOf(n, mode) = RecentOf(h, mode)
      /\ PagesOf(k.L1) = PagesOf(m.L1)
  BY DEF Alike
<1>2. ASSUME UsesPage(k, h, mode, p)  PROVE UsesPage(m, n, mode, p)
  <2>1. UsesLine(m, n, mode, p)  BY <1>1, <1>2 DEF UsesPage, UsesLine
  <2>. QED  BY <1>1, <1>2, <2>1 DEF UsesPage
<1>3. ASSUME LoadsLine(k, h, mode, p)  PROVE LoadsLine(m, n, mode, p)
  <2>1. Joins(k, h, mode, p) => Joins(m, n, mode, p)  BY <1>1 DEF Joins
  <2>2. Replaces(k, h, mode, p) => Replaces(m, n, mode, p)  BY <1>1 DEF Replaces
  <2>3. ASSUME mode = 2, ClockLine(k, h, p)  PROVE ClockLine(m, n, p)
    <3>1. /\ LineOf(k, 2) = LineOf(m, 2) /\ LineOf(n, 2) = LineOf(h, 2)
          /\ ChanceOf(k, 2) = ChanceOf(m, 2) /\ ChanceOf(n, 2) = ChanceOf(h, 2)
      BY <1>1, <2>3
    <3>. QED  BY <2>3, <3>1 DEF ClockLine
  <2>. QED  BY <1>1, <1>3, <2>1, <2>2, <2>3 DEF LoadsLine
<1>. QED  BY <1>1, <1>2, <1>3 DEF StepsLine

\* A request steps the line.
LEMMA RequestSteps ==
  ASSUME PolicyInv, NEW p \in Pages, Request(p)
  PROVE  /\ StepsLine(mem, mem', rep_mode, p) /\ rep_mode' = rep_mode /\ rep_mode \in 0 .. 4
         /\ PolicyInv'
<1>. DEFINE m == IF rep_mode # 2 THEN isu_mmu_ref_clear(mem) ELSE mem
            h == isu_mmu_handle_req(m, rep_mode, p)
            n == Compress(h, rep_mode)
<1>1. rep_mode \in 0 .. 4 /\ mem' = n /\ rep_mode' = rep_mode /\ Good(mem) /\ IInv
  BY ModesAssumption DEF PolicyInv, IInv, MmuTypeOK, Request
<1>2. Lined(mem) /\ Timely(mem, rep_mode) /\ (rep_mode = 2 => HandInv(mem))
  BY <1>1, GoodIs DEF PolicyInv
<1>3. /\ Good(m) /\ Alike(mem, m, rep_mode) /\ Timely(m, rep_mode)
      /\ rep_mode = 2 => HandInv(m)
      /\ rep_mode # 2 => \A i \in DOMAIN m.L1 : m.L1[i].ref = 0
  <2>1. CASE rep_mode = 2
    <3>1. m = mem  BY <2>1
    <3>. HIDE DEF m
    <3>. QED  BY <1>1, <1>2, <2>1, <3>1 DEF Alike
  <2>2. CASE rep_mode # 2
    <3>1. m = isu_mmu_ref_clear(mem)  BY <2>2
    <3>. HIDE DEF m
    <3>2. Keeps(mem, m, rep_mode) /\ \A i \in DOMAIN m.L1 : m.L1[i].ref = 0
      BY <1>1, <2>2, <3>1, ClearKeeps
    <3>3. Alike(mem, m, rep_mode)  BY <1>2, <3>2, KeepsIs
    <3>4. Good(m)
      <4>1. SameLevels(mem, m)  BY <1>1, <3>1, ClearedIs
      <4>. QED  BY <1>1, <4>1, SameLevelsIs
    <3>. QED  BY <1>2, <2>2, <3>2, <3>3, <3>4 DEF Keeps
  <2>. QED  BY <2>1, <2>2
<1>. HIDE DEF m
<1>4. StepsLine(m, h, rep_mode, p) /\ Timely(h, rep_mode) /\ (rep_mode = 2 => HandInv(h))
  <2>1. CASE rep_mode = 2
    <3>1. h = isu_mmu_page_rep_clock(m, 2, p)  BY <2>1 DEF isu_mmu_handle_req
    <3>. HIDE DEF h
    <3>2. ClockDoes(m, isu_mmu_page_rep_clock(m, 2, p), p)  BY <1>3, <2>1, ClockSteps
    <3>. QED  BY <2>1, <3>1, <3>2 DEF ClockDoes
  <2>2. CASE rep_mode # 2
    <3>1. h = page_rep_oldest(m, rep_mode, p, WhenOf(rep_mode))
      BY <1>1, <2>2 DEF isu_mmu_handle_req, isu_mmu_page_rep_lru, isu_mmu_page_rep_fifo, WhenOf
    <3>. HIDE DEF h
    <3>. QED  BY <1>1, <1>3, <2>2, <3>1, OldestSteps
  <2>. QED  BY <2>1, <2>2
<1>5. Good(h)  BY <1>1, <1>3, RequestHandles DEF Handles
<1>. HIDE DEF h
<1>6. Keeps(h, n, rep_mode)  BY <1>4, <1>5, CompressKeeps
<1>. HIDE DEF n
<1>7. Alike(h, n, rep_mode) /\ (rep_mode = 2 => HandInv(n))
  BY <1>4, <1>5, <1>6, GoodIs, KeepsIs
<1>8. Timely(n, rep_mode)  BY <1>4, <1>6 DEF Keeps
<1>9. StepsLine(mem, n, rep_mode, p)  BY <1>3, <1>4, <1>7, StepsAlike
<1>10. PolicyInv'
  <2>1. IInv'  BY <1>1, RequestIs
  <2>2. Timely(mem', rep_mode') => Timely(mem, rep_mode)'  BY DEF Timely, Used, WhenOf
  <2>3. HandInv(mem') => HandInv(mem)'  BY DEF HandInv, Full, Used
  <2>. QED  BY <1>1, <1>7, <1>8, <2>1, <2>2, <2>3 DEF PolicyInv
<1>. QED  BY <1>1, <1>9, <1>10

\* A step of the line is a step of PagePolicy.
LEMMA StepsFollow ==
  ASSUME NEW p \in Pages, StepsLine(mem, mem', rep_mode, p), rep_mode' = rep_mode, rep_mode \in 0 .. 4,
         Lined(mem)
  PROVE  Policy!Use(p) \/ Policy!Load(p) \/ UNCHANGED <<PolicyName, Line, Chance, Recent>>
<1>1. /\ Line = LineOf(mem, rep_mode) /\ Line' = LineOf(mem', rep_mode)
      /\ Chance = ChanceOf(mem, rep_mode) /\ Chance' = ChanceOf(mem', rep_mode)
      /\ Recent = RecentOf(mem, rep_mode) /\ Recent' = RecentOf(mem', rep_mode)
  BY LineIsOf
<1>2. PolicyName' = PolicyName  BY DEF PolicyName
<1>3. /\ PolicyName = "miss-lru" <=> rep_mode = 1
      /\ PolicyName = "clock" <=> rep_mode = 2
  BY DEF PolicyName
<1>4. Line \in Seq(Pages) /\ (p \in PagesOf(mem.L1) <=> \E k \in DOMAIN Line : Line[k] = p)
  <2>. DEFINE l == LineOf(mem, rep_mode)
  <2>1. l \in Seq(Pages)  BY LineType
  <2>2. (\E k \in DOMAIN l : l[k] = p) <=> p \in PagesOf(mem.L1)  BY LineType
  <2>3. Line = l  BY <1>1
  <2>. HIDE DEF l
  <2>. QED  BY <2>1, <2>2, <2>3
<1>5. ASSUME UsesPage(mem, mem', rep_mode, p)  PROVE Policy!Use(p)
  <2>1. UsesLine(mem, mem', rep_mode, p)  BY <1>5 DEF UsesPage
  <2>2. \E a \in DOMAIN Line :
          /\ Line[a] = p
          /\ IF PolicyName = "miss-lru"
               THEN \E b \in a .. Len(Line) :
                      /\ \A k \in b + 1 .. Len(Line) : Line[k] \in Recent
                      /\ Line' = Policy!MovedBack(a, b)
               ELSE Line' = Line
    BY <1>1, <1>3, <2>1 DEF UsesLine, Policy!MovedBack
  <2>3. /\ Chance' = IF PolicyName = "clock" THEN Chance \cup {p} ELSE Chance
        /\ Recent' = IF PolicyName = "miss-lru" THEN Recent \cup {p} ELSE Recent
    BY <1>1, <1>3, <1>5 DEF UsesPage
  <2>. QED  BY <1>2, <2>2, <2>3 DEF Policy!Use
<1>6. ASSUME LoadsLine(mem, mem', rep_mode, p)  PROVE Policy!Load(p)
  <2>1. p \notin Policy!ToSet(Line)  BY <1>4, <1>6 DEF LoadsLine, Policy!ToSet
  <2>2. Recent' \in IF PolicyName = "miss-lru" THEN {{}, {p}} ELSE {Recent}
    BY <1>1, <1>3, <1>6 DEF LoadsLine
  <2>3. CASE Len(Line) < L1_SIZE
    <3>1. Joins(mem, mem', rep_mode, p) /\ Chance' \in {Chance, Chance \cup {p}}
      BY <1>1, <1>6, <2>3 DEF LoadsLine
    <3>2. Line' = Append(Line, p)  BY <1>1, <3>1 DEF Joins
    <3>. QED  BY <1>2, <2>1, <2>2, <2>3, <3>1, <3>2 DEF Policy!Load
  <2>4. CASE ~(Len(Line) < L1_SIZE) /\ rep_mode = 2
    <3>1. ClockLine(mem, mem', p)
      BY <1>1, <1>6, <2>4 DEF LoadsLine
    <3>2. /\ Line = LineOf(mem, 2) /\ Line' = LineOf(mem', 2)
          /\ Chance = ChanceOf(mem, 2) /\ Chance' = ChanceOf(mem', 2)
      BY <1>1, <2>4
    <3>3. /\ Line' = SubSeq(Line, Policy!Leaving + 1, Len(Line)) \o SubSeq(Line, 1, Policy!Leaving - 1) \o <<p>>
          /\ LET left == Chance \ {Line[i] : i \in Policy!Spared} IN Chance' \in {left, left \cup {p}}
      <4>1. TurnsLine(Line, Chance, Line', Chance', p)  BY <3>1, <3>2 DEF ClockLine
      <4>. QED  BY <4>1 DEF TurnsLine, Policy!Leaving, Policy!Spared
    <3>. QED  BY <1>2, <1>3, <2>1, <2>2, <2>4, <3>3 DEF Policy!Load
  <2>5. CASE ~(Len(Line) < L1_SIZE) /\ rep_mode # 2
    <3>1. Replaces(mem, mem', rep_mode, p) /\ Chance' = Chance  BY <1>1, <1>6, <2>5 DEF LoadsLine
    <3>2. Line' = Append(Tail(Line), p)  BY <1>1, <3>1 DEF Replaces
    <3>. QED  BY <1>2, <1>3, <2>1, <2>2, <2>5, <3>1, <3>2 DEF Policy!Load
  <2>. QED  BY <2>3, <2>4, <2>5
<1>. QED  BY <1>1, <1>2, <1>5, <1>6 DEF StepsLine

\* For any pages, any sizes of the levels and any mode mem_test is run with: L1 with
\* its times, bits and hand is the cache of PagePolicy.
THEOREM FollowsItsPolicy == MmuSpec => FollowsPolicy
<1>1. MmuInit => Policy!PolicyInit
  <2>. SUFFICES ASSUME MmuInit  PROVE Policy!PolicyInit  OBVIOUS
  <2>1. Good(mem) /\ Lined(mem)  BY InitInv, GoodIs DEF IInv
  <2>2. mem.L1 = [i \in 0 .. L1_SIZE - 1 |-> Empty]  BY DEF MmuInit, isu_mmu_create
  <2>3. Used(mem.L1) = {} /\ DOMAIN mem.L1 \ Unreferenced(mem.L1) = {}
    BY <2>2 DEF Used, Unreferenced, Empty
  <2>4. Line = <<>>
    <3>1. LineOf(mem, rep_mode) \in Seq(Pages) /\ Len(LineOf(mem, rep_mode)) = Cardinality(Used(mem.L1))
      BY <2>1, LineType
    <3>2. Cardinality({}) = 0  BY FS_EmptySet
    <3>3. Line = LineOf(mem, rep_mode)  BY LineIsOf
    <3>4. Line \in Seq(Pages) /\ Len(Line) = 0  BY <2>3, <3>1, <3>2, <3>3
    <3>. QED  BY <3>4, EmptySeq
  <2>5. Chance = {} /\ Recent = {}  BY <2>3 DEF Chance, Recent
  <2>6. PolicyName \in {"fifo", "miss-lru", "clock"}  BY DEF PolicyName
  <2>. QED  BY <2>4, <2>5, <2>6 DEF Policy!PolicyInit
<1>2. PolicyInv /\ [MmuNext]_mmu_vars => PolicyInv'
  <2>. SUFFICES ASSUME PolicyInv, [MmuNext]_mmu_vars  PROVE PolicyInv'  OBVIOUS
  <2>1. CASE MmuNext  BY <2>1, RequestSteps DEF MmuNext
  <2>2. CASE UNCHANGED mmu_vars
    <3>1. mem' = mem /\ rep_mode' = rep_mode  BY <2>2 DEF mmu_vars
    <3>2. IInv'  BY <2>2, NextInv DEF PolicyInv
    <3>3. Timely(mem, rep_mode)'  BY <3>1 DEF PolicyInv, Timely, Used, WhenOf
    <3>4. rep_mode = 2 => HandInv(mem)'  BY <3>1 DEF PolicyInv, HandInv, Full, Used
    <3>. QED  BY <3>1, <3>2, <3>3, <3>4 DEF PolicyInv
  <2>. QED  BY <2>1, <2>2
<1>. DEFINE Step == \E p \in Pages : Policy!Use(p) \/ Policy!Load(p)
<1>3. PolicyInv /\ [MmuNext]_mmu_vars => [Step]_<<PolicyName, Line, Chance, Recent>>
  <2>. SUFFICES ASSUME PolicyInv, [MmuNext]_mmu_vars  PROVE [Step]_<<PolicyName, Line, Chance, Recent>>  OBVIOUS
  <2>1. CASE MmuNext
    <3>1. PICK p \in Pages : Request(p)  BY <2>1 DEF MmuNext
    <3>2. StepsLine(mem, mem', rep_mode, p) /\ rep_mode' = rep_mode /\ rep_mode \in 0 .. 4
      BY <3>1, RequestSteps
    <3>3. Lined(mem)  BY GoodIs DEF PolicyInv, IInv
    <3>. QED  BY <3>2, <3>3, StepsFollow
  <2>2. CASE UNCHANGED mmu_vars
    <3>1. mem' = mem /\ rep_mode' = rep_mode  BY <2>2 DEF mmu_vars
    <3>2. Line' = Line /\ Chance' = Chance /\ Recent' = Recent
      BY <3>1, LineIsOf
    <3>3. PolicyName' = PolicyName  BY <3>1 DEF PolicyName
    <3>. QED  BY <3>2, <3>3
  <2>. QED  BY <2>1, <2>2
<1>. HIDE DEF Step
<1>4. MmuSpec => [][Step]_<<PolicyName, Line, Chance, Recent>>
  BY <1>2, <1>3, PolicyInit, PTL DEF MmuSpec
<1>5. MmuSpec => Policy!PolicyInit  BY <1>1 DEF MmuSpec
<1>. QED  BY <1>4, <1>5 DEF FollowsPolicy, Policy!PolicySpec, Policy!policy_vars, Step
=============================================================================
