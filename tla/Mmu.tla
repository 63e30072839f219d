-------------------------------- MODULE Mmu --------------------------------
(***************************************************************************)
(* The memory hierarchy of final/project-D2/isu_mmu/isu_mmu.c, as          *)
(* mem_test.c drives it: two caches and a RAM of page slots, and a         *)
(* replacement algorithm for the first cache.                              *)
(*                                                                         *)
(* Times are only compared within a level and with the present, so every   *)
(* delay is one tick and Compress renumbers them after each request.  The  *)
(* dirty bits are never read; what a request records (its times, the hit,  *)
(* the pages in L1) is only printed.                                       *)
(***************************************************************************)
EXTENDS Integers, SequencesExt

CONSTANTS
  Pages,                     \* the pages requested
  NoPage,                    \* the page of an empty slot (-1)
  L1_SIZE, L2_SIZE, RAM_SIZE,
  Modes                      \* the values of <mode> mem_test is run with

ASSUME NoPageAssumption == NoPage \notin Pages
ASSUME SizeAssumption ==
  /\ L1_SIZE \in Nat \ {0} /\ L2_SIZE \in Nat /\ RAM_SIZE \in Nat
  /\ L1_SIZE <= L2_SIZE /\ L2_SIZE <= RAM_SIZE
ASSUME ModesAssumption == Modes \subseteq 0 .. 4

VARIABLES
  rep_mode, \* 0 FIFO, 1 LRU, 2 clock; mem_test accepts 3 and 4 as well
  mem       \* the slots of each level, the hand of the clock and the time
mmu_vars == <<rep_mode, mem>>

\* The present, after every request.
Now == L1_SIZE + L2_SIZE + RAM_SIZE

\* Later than every time there is: -1 as an unsigned long long.
Never == Now + 4

Empty == [page |-> NoPage, ref |-> 0, access_time |-> Never, placement_time |-> 0]

isu_mmu_create ==
  [L1   |-> [i \in 0 .. L1_SIZE - 1 |-> Empty],
   L2   |-> [i \in 0 .. L2_SIZE - 1 |-> Empty],
   RAM  |-> [i \in 0 .. RAM_SIZE - 1 |-> Empty],
   hand |-> 0,
   t    |-> Now]

PagesOf(slots) == {slots[i].page : i \in DOMAIN slots} \ {NoPage}
Resident(m) == PagesOf(m.L1) \cup PagesOf(m.L2) \cup PagesOf(m.RAM)

Least(S) == CHOOSE i \in S : \A j \in S : i <= j

Place(p, time, bit) ==
  [page |-> p, ref |-> bit, access_time |-> time, placement_time |-> time]

\* The slot a loop over the slots in S ends with: the first of the oldest.
Oldest(slots, when, S) ==
  Least({i \in S : \A j \in S : slots[i][when] <= slots[j][when]})

Unreferenced(slots) == {i \in DOMAIN slots : slots[i].ref = 0}

-----------------------------------------------------------------------------
(* isu_mmu_page_move *)

\* The loops over L2 and RAM: slot 0 is the candidate to beat, and the bits are
\* ignored when no slot beats it.
Victim(slots) ==
  LET v == Oldest(slots, "access_time", {0} \cup Unreferenced(slots))
  IN  IF v # 0 THEN v ELSE Oldest(slots, "access_time", DOMAIN slots)

\* From L2 to RAM.  Only the first L2_SIZE slots of RAM are tried; a page that is
\* overwritten is on the disk only.
move_to_ram(m, p) ==
  LET open == {i \in 0 .. L2_SIZE - 1 : m.RAM[i].page = NoPage}
      slot == IF open # {} THEN Least(open) ELSE Victim(m.RAM)
  IN  [m EXCEPT !.t = @ + 1, !.RAM[slot] = Place(p, m.t + 1, 0)]

\* Mutant of move_to_l2: an open slot is not looked for.
move_to_l2_victim(m, p) ==
  LET slot == Victim(m.L2)
      room == move_to_ram(m, m.L2[slot].page)
  IN  [room EXCEPT !.t = @ + 1, !.L2[slot] = Place(p, room.t + 1, 0)]

\* From L1 to L2, whose oldest page makes room.
move_to_l2(m, p) ==
  LET open == {i \in DOMAIN m.L2 : m.L2[i].page = NoPage}
      slot == IF open # {} THEN Least(open) ELSE Victim(m.L2)
      room == IF open # {} THEN m ELSE move_to_ram(m, m.L2[slot].page)
  IN  [room EXCEPT !.t = @ + 1, !.L2[slot] = Place(p, room.t + 1, 0)]

-----------------------------------------------------------------------------
(* isu_mmu_page_fetch and isu_mmu_page_swap *)

\* Replace the page in a slot of L1 by one from the disk.
Replace(m, slot, p) ==
  LET moved == move_to_l2(m, m.L1[slot].page)
  IN  [moved EXCEPT !.t = @ + 1, !.L1[slot] = Place(p, moved.t + 1, 1)]

\* Mutant of isu_mmu_page_fetch: the case of the clock is not written.
isu_mmu_page_fetch_todo(m, mode, p) ==
  LET open == {i \in DOMAIN m.L1 : m.L1[i].page = NoPage}
      candidates == {0} \cup Unreferenced(m.L1)
  IN  IF open # {}
        THEN [m EXCEPT !.t = @ + 1,
                       !.L1[Least(open)] = Place(p, m.t + 1, IF mode < 2 THEN 1 ELSE 0)]
      ELSE IF mode = 0 THEN Replace(m, Oldest(m.L1, "placement_time", candidates), p)
      ELSE IF mode = 1 THEN Replace(m, Oldest(m.L1, "access_time", candidates), p)
      ELSE m

\* The modes 3 and 4 have no case.
isu_mmu_page_fetch(m, mode, p) ==
  LET open == {i \in DOMAIN m.L1 : m.L1[i].page = NoPage}
      candidates == {0} \cup Unreferenced(m.L1)
  IN  IF open # {}
        THEN [m EXCEPT !.t = @ + 1,
                       !.L1[Least(open)] = Place(p, m.t + 1, IF mode < 2 THEN 1 ELSE 0)]
      ELSE IF mode = 0 THEN Replace(m, Oldest(m.L1, "placement_time", candidates), p)
      ELSE IF mode = 1 THEN Replace(m, Oldest(m.L1, "access_time", candidates), p)
      ELSE IF mode = 2 THEN Replace(m, m.hand, p)
      ELSE m

SlotOf(slots, p) == CHOOSE i \in DOMAIN slots : slots[i].page = p

\* The slot of L1 that gets page p from a lower level; its bit is kept unless it is set.
SwapIn(slot, p, time, mode) ==
  Place(p, time, IF mode < 2 THEN 1 ELSE slot.ref)

\* Mutant of isu_mmu_page_swap: the page swapped in keeps its place below.
isu_mmu_page_swap_copy(m, mode, old, new, level) ==
  LET r == SlotOf(m.L1, old)
      L1 == [m.L1 EXCEPT ![r] = SwapIn(@, new, m.t + 1, mode)]
  IN  IF old = NoPage THEN m ELSE [m EXCEPT !.t = @ + 2, !.L1 = L1]

\* With new in L2 the modes above 1 clear the bit of the L2 slot with the number
\* of the slot in L1; with new in RAM, that of the slot in L1.
isu_mmu_page_swap(m, mode, old, new, level) ==
  LET r == SlotOf(m.L1, old)
      L1 == [m.L1 EXCEPT ![r] = SwapIn(@, new, m.t + 1, mode)]
      out == Place(old, m.t + 2, 0)
  IN  IF old = NoPage THEN m
      ELSE IF level = 1
        THEN [m EXCEPT !.t = @ + 2, !.L1 = L1,
                !.L2 = [i \in DOMAIN @ |->
                          IF i = SlotOf(m.L2, new) THEN out
                          ELSE IF i = r /\ mode >= 2 THEN [@[i] EXCEPT !.ref = 0] ELSE @[i]]]
        ELSE [m EXCEPT !.t = @ + 2,
                       !.L1 = IF mode < 2 THEN L1 ELSE [L1 EXCEPT ![r].ref = 0],
                       !.RAM[SlotOf(m.RAM, new)] = out]

-----------------------------------------------------------------------------
(* The replacement algorithms *)

\* Where page p is: 0 L1, 1 L2, 2 RAM, -1 nowhere.
Level(m, p) ==
  IF p \in PagesOf(m.L1) THEN 0 ELSE IF p \in PagesOf(m.L2) THEN 1
  ELSE IF p \in PagesOf(m.RAM) THEN 2 ELSE -1

\* It sets the bit of the page it finds.
isu_mmu_page_check(m, p) ==
  CASE Level(m, p) = 0 -> [m EXCEPT !.L1[SlotOf(m.L1, p)].ref = 1]
    [] Level(m, p) = 1 -> [m EXCEPT !.L2[SlotOf(m.L2, p)].ref = 1]
    [] Level(m, p) = 2 -> [m EXCEPT !.RAM[SlotOf(m.RAM, p)].ref = 1]
    [] OTHER -> m

\* A hit costs no time.
Hit(m, p) ==
  [m EXCEPT !.L1 = [i \in DOMAIN @ |->
     IF @[i].page = p THEN [@[i] EXCEPT !.access_time = m.t, !.ref = 1] ELSE @[i]]]

\* isu_mmu_page_rep_fifo and isu_mmu_page_rep_lru.
page_rep_oldest(m, mode, p, when) ==
  LET checked == isu_mmu_page_check(m, p)
  IN  CASE Level(m, p) = 0 -> Hit(checked, p)
        [] Level(m, p) \in {1, 2} ->
             isu_mmu_page_swap(checked, mode, m.L1[Oldest(m.L1, when, DOMAIN m.L1)].page, p, Level(m, p))
        [] OTHER -> isu_mmu_page_fetch(checked, mode, p)

isu_mmu_page_rep_fifo(m, mode, p) == page_rep_oldest(m, mode, p, "placement_time")
isu_mmu_page_rep_lru(m, mode, p) == page_rep_oldest(m, mode, p, "access_time")

\* Mutant of Swept: the bits passed over are not cleared.
SweptKeep(m) ==
  LET start == IF m.hand = L1_SIZE THEN 0 ELSE m.hand
      at(d) == (start + d) % L1_SIZE
      passed == {d \in 0 .. L1_SIZE - 1 : \A e \in 0 .. d : m.L1[at(e)].ref = 1}
  IN  [m EXCEPT !.hand = at(Cardinality(passed))]

\* The hand goes round, clearing bits, to the first slot whose bit is clear.
Swept(m) ==
  LET start == IF m.hand = L1_SIZE THEN 0 ELSE m.hand
      at(d) == (start + d) % L1_SIZE
      passed == {d \in 0 .. L1_SIZE - 1 : \A e \in 0 .. d : m.L1[at(e)].ref = 1}
  IN  [m EXCEPT !.hand = at(Cardinality(passed)),
                !.L1 = [i \in DOMAIN @ |-> IF \E d \in passed : at(d) = i
                                             THEN [@[i] EXCEPT !.ref = 0] ELSE @[i]]]

Advance(m) == [m EXCEPT !.hand = @ + 1]

isu_mmu_page_rep_clock(m, mode, p) ==
  LET checked == isu_mmu_page_check(m, p)
      swept == Swept(checked)
  IN  CASE Level(m, p) = 0 -> Hit(checked, p)
        [] Level(m, p) \in {1, 2} ->
             Advance(isu_mmu_page_swap(swept, mode, swept.L1[swept.hand].page, p, Level(m, p)))
        [] OTHER -> Advance(isu_mmu_page_fetch(swept, mode, p))

isu_mmu_handle_req(m, mode, p) ==
  CASE mode = 1 -> isu_mmu_page_rep_lru(m, mode, p)
    [] mode = 2 -> isu_mmu_page_rep_clock(m, mode, p)
    [] OTHER    -> isu_mmu_page_rep_fifo(m, mode, p)

ClearRefs(slots) == [i \in DOMAIN slots |-> [slots[i] EXCEPT !.ref = 0]]
isu_mmu_ref_clear(m) ==
  [m EXCEPT !.L1 = ClearRefs(@), !.L2 = ClearRefs(@), !.RAM = ClearRefs(@)]

\* The same memory with the times of each level renumbered in their order, those
\* that are the present time staying so, and the times the mode never reads gone.
Renumbered(slots, when, now) ==
  LET used == {i \in DOMAIN slots : slots[i].page # NoPage}
      times == {slots[i][when] : i \in used}
  IN  [i \in DOMAIN slots |-> IF i \notin used THEN slots[i] ELSE
        [slots[i] EXCEPT ![when] = IF @ = now THEN Now ELSE Cardinality({u \in times : u < @})]]

Forgotten(slots, when) == [i \in DOMAIN slots |->
  IF slots[i].page = NoPage THEN slots[i] ELSE [slots[i] EXCEPT ![when] = 0]]

Compress(m, mode) ==
  LET first == IF mode = 1 THEN Renumbered(m.L1, "access_time", m.t)
               ELSE IF mode = 2 THEN Forgotten(m.L1, "access_time")
               ELSE Forgotten(Renumbered(m.L1, "placement_time", m.t), "access_time")
      lower(slots) == Forgotten(Renumbered(slots, "access_time", m.t), "placement_time")
  IN  [m EXCEPT !.L1 = IF mode \in {1, 2} THEN Forgotten(first, "placement_time") ELSE first,
                !.L2 = lower(@), !.RAM = lower(@), !.t = Now]

-----------------------------------------------------------------------------
(* mem_test *)

MmuInit ==
  /\ rep_mode \in Modes
  /\ mem = isu_mmu_create

\* One turn of run_test_framework; the patterns can request any page.
Request(p) ==
  /\ LET m == IF rep_mode # 2 THEN isu_mmu_ref_clear(mem) ELSE mem
     IN  mem' = Compress(isu_mmu_handle_req(m, rep_mode, p), rep_mode)
  /\ UNCHANGED rep_mode

MmuNext == \E p \in Pages : Request(p)

MmuSpec == MmuInit /\ [][MmuNext]_mmu_vars
-----------------------------------------------------------------------------
(* Properties. *)

Slots(n) == [0 .. n - 1 -> [page : Pages \cup {NoPage}, ref : 0 .. 1,
                            access_time : 0 .. Never, placement_time : 0 .. Never]]

MmuTypeOK ==
  /\ rep_mode \in Modes
  /\ DOMAIN mem = {"L1", "L2", "RAM", "hand", "t"}
  /\ mem.L1 \in Slots(L1_SIZE)
  /\ mem.L2 \in Slots(L2_SIZE)
  /\ mem.RAM \in Slots(RAM_SIZE)
  /\ mem.hand \in 0 .. L1_SIZE
  /\ mem.t = Now

Used(slots) == {i \in DOMAIN slots : slots[i].page # NoPage}

\* A page is in one slot of one level, whatever was fetched, swapped and moved.
Exclusive ==
  /\ MmuTypeOK
  /\ Cardinality(Used(mem.L1)) + Cardinality(Used(mem.L2)) + Cardinality(Used(mem.RAM))
       = Cardinality(Resident(mem))

\* In the modes mem_test documents, whatever page is requested next is in L1 when the
\* request is handled; in the modes 3 and 4, which it accepts as well, it may not be.
Loaded ==
  \A p \in Pages : rep_mode \in 0 .. 2 => p \in PagesOf(isu_mmu_handle_req(mem, rep_mode, p).L1)

\* A request takes at most one page out of memory, when L2 has no room for the page
\* that leaves L1; it is the page that was in RAM longest.
OldestIsLost ==
  [][\A p \in Resident(mem) \ Resident(mem') :
       /\ \A i \in DOMAIN mem.L2 : mem.L2[i].page # NoPage
       /\ p = mem.RAM[Oldest(mem.RAM, "access_time", DOMAIN mem.RAM)].page]_mmu_vars

\* A page leaves RAM for the disk only "if there wasn't an open slot" in RAM
\* (isu_mmu.c:269-270).
DroppedOnlyWhenFull ==
  [][\A p \in Resident(mem) \ Resident(mem') :
       \A i \in DOMAIN mem.RAM : mem.RAM[i].page # NoPage]_mmu_vars

\* The turn at which the hand reaches slot i.
Turn(i) == IF i < mem.hand THEN i + L1_SIZE ELSE i

\* Whether slot i is to be replaced before slot j: the hand reaches it first, or the
\* loops of the other modes prefer it.
Before(i, j) ==
  LET when == IF rep_mode = 1 THEN "access_time" ELSE "placement_time"
      a == mem.L1[i][when]
      b == mem.L1[j][when]
  IN  IF rep_mode = 2 THEN Turn(i) < Turn(j) ELSE a < b \/ (a = b /\ i < j)

\* The pages in L1, the next to be replaced first.
Line ==
  LET used == Used(mem.L1)
      At(k) == CHOOSE i \in used : Cardinality({j \in used : Before(j, i)}) = k - 1
  IN  [k \in 1 .. Cardinality(used) |-> mem.L1[At(k)].page]

Chance == IF rep_mode # 2 THEN {} ELSE {mem.L1[i].page : i \in DOMAIN mem.L1 \ Unreferenced(mem.L1)}
Recent == IF rep_mode # 1 THEN {} ELSE {mem.L1[i].page : i \in {j \in Used(mem.L1) : mem.L1[j].access_time = mem.t}}
PolicyName == CASE rep_mode = 1 -> "miss-lru" [] rep_mode = 2 -> "clock" [] OTHER -> "fifo"

Policy == INSTANCE PagePolicy WITH AllPages <- Pages, Frames <- L1_SIZE,
  policy <- PolicyName, line <- Line, chance <- Chance, recent <- Recent

\* L1 with its times and bits is a cache that replaces first in, first out in mode 0
\* and by the clock in mode 2.  In mode 1 it goes by a time that stands still on hits:
\* what follows for the pages hit since the last miss, which are tied, is said here;
\* that it is not LRU, by LeastRecentLeaves of MmuLru.
FollowsPolicy == Policy!PolicySpec
=============================================================================
