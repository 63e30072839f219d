------------------------------- MODULE MmuLru -------------------------------
(***************************************************************************)
(* Mmu with the pages that were requested, in the order of their last      *)
(* requests: what LRU, the name mem_test.c:51 gives mode 1, goes by.       *)
(***************************************************************************)
EXTENDS Mmu

VARIABLE requested \* the pages requested so far, each once, the latest last

lru_vars == <<rep_mode, mem, requested>>

LruInit == MmuInit /\ requested = <<>>

LruRequest(p) ==
  /\ Request(p)
  /\ requested' = Append(Remove(requested, p), p)

LruNext == \E p \in Pages : LruRequest(p)

LruSpec == LruInit /\ [][LruNext]_lru_vars

-----------------------------------------------------------------------------
(* Properties. *)

\* In mode 1 the page that leaves L1 is "Least Recently Used" (part2.md:36): of the
\* pages in L1, the one whose last request is longest ago.
LeastRecentLeaves ==
  [][rep_mode = 1 =>
       \A p \in PagesOf(mem.L1) \ PagesOf(mem'.L1) :
         p = Head(SelectSeq(requested, LAMBDA q : q \in PagesOf(mem.L1)))]_lru_vars
=============================================================================
