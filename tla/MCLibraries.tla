---------------------------- MODULE MCLibraries ----------------------------
(***************************************************************************)
(* The list and the memory hierarchy of project-D2 under any calls, for    *)
(* TLC.  They share nothing; one is called.                                *)
(***************************************************************************)
EXTENDS Llist, Mmu

CONSTANT Alike \* the pages that TLC need not tell apart

VARIABLE library

library_vars == <<library, vars, mmu_vars>>

\* Init, Next and vars are those of Llist.
LibraryInit ==
  /\ library \in {"llist", "mmu"}
  /\ Init /\ MmuInit
  /\ library # "mmu" => rep_mode = 0

LibraryNext ==
  \/ library = "llist" /\ Next /\ UNCHANGED <<library, mmu_vars>>
  \/ library = "mmu" /\ MmuNext /\ UNCHANGED <<library, vars>>

LibrarySpec == LibraryInit /\ [][LibraryNext]_library_vars

Symmetry == Permutations(Alike)
=============================================================================
