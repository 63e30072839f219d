------------------------------- MODULE Llist -------------------------------
(***************************************************************************)
(* The linked list of final/project-D2/lib/llist/isu_llist.c, node by      *)
(* node, under a caller who makes any calls, but does not use the iterator *)
(* after the element it stood on was popped, as no code of the project     *)
(* does.  Allocation does not fail.                                        *)
(***************************************************************************)
EXTENDS Integers, SequencesExt

CONSTANTS
  Nodes, \* the nodes calloc can return: positive integers
  Data   \* the data pushed, which NULL may be among: the time 0 of a task is

ASSUME NodesAssumption == Nodes \subseteq Nat \ {0} /\ IsFiniteSet(Nodes)

Null == 0
Ends == {"head", "tail"} \* ISU_LLIST_HEAD, ISU_LLIST_TAIL
Other(e) == IF e = "head" THEN "tail" ELSE "head"

VARIABLES
  ends,        \* list->head and list->tail
  link,        \* link["head"]: the next of each node, link["tail"]: its prev
  data,        \* the data of each node
  allocated,   \* the nodes calloc returned and nothing freed
  ittr, ittr_dir, remove_flag, count,
  ret,         \* the data the last call returned
  stale,       \* history: the node the iterator stands on was popped
  leaked       \* history: the nodes of destroyed lists that were not freed

list_state == <<ends, link, data, allocated, count>>
ittr_state == <<ittr, ittr_dir, remove_flag, stale>>
vars == <<list_state, ittr_state, ret, leaked>>

\* isu_llist_create
Init ==
  /\ ends = [e \in Ends |-> Null]
  /\ link = [e \in Ends |-> [n \in Nodes |-> Null]]
  /\ data = [n \in Nodes |-> Null]
  /\ allocated = {}
  /\ count = 0
  /\ ittr = Null
  /\ ittr_dir = "head"
  /\ remove_flag = FALSE
  /\ ret = Null
  /\ stale = FALSE
  /\ leaked = {}

\* The node calloc returns: the lowest free one.
Fresh == CHOOSE n \in Nodes \ allocated : \A m \in Nodes \ allocated : n <= m

Calloc(d) ==
  /\ Nodes # allocated
  /\ allocated' = allocated \cup {Fresh}
  /\ data' = [data EXCEPT ![Fresh] = d]
  /\ count' = count + 1

Push(d, e) ==
  /\ Calloc(d)
  /\ LET n == Fresh old == ends[e]
     IN  IF ends["head"] = Null
           THEN /\ ends' = [f \in Ends |-> n]
                /\ link' = [f \in Ends |-> [link[f] EXCEPT ![n] = Null]]
           ELSE /\ ends' = [ends EXCEPT ![e] = n]
                /\ link' = [link EXCEPT ![e][n] = old, ![Other(e)][n] = Null, ![Other(e)][old] = n]
  /\ UNCHANGED <<ittr_state, ret, leaked>>

\* free(n): what the node held is forgotten, as the next calloc would.
Free(n, links) ==
  /\ allocated' = allocated \ {n}
  /\ data' = [data EXCEPT ![n] = Null]
  /\ link' = [e \in Ends |-> [links[e] EXCEPT ![n] = Null]]

\* Mutant of Unlink: the other end of a list that becomes empty is kept.
UnlinkOneEnd(e) ==
  LET after == link[e][ends[e]]
  IN  /\ ends' = [ends EXCEPT ![e] = after]
      /\ Free(ends[e], IF after = Null THEN link ELSE [link EXCEPT ![Other(e)][after] = Null])

Unlink(e) ==
  LET after == link[e][ends[e]]
  IN  /\ ends' = IF after = Null THEN [f \in Ends |-> Null] ELSE [ends EXCEPT ![e] = after]
      /\ Free(ends[e], IF after = Null THEN link ELSE [link EXCEPT ![Other(e)][after] = Null])

\* The iterator is left alone.
Pop(e) ==
  /\ IF ends[e] = Null THEN ret' = Null /\ UNCHANGED <<list_state, stale>>
     ELSE /\ Unlink(e)
          /\ ret' = data[ends[e]]
          /\ count' = count - 1
          /\ stale' = (stale \/ ittr = ends[e])
  /\ UNCHANGED <<ittr, ittr_dir, remove_flag, leaked>>

MoveTo(n) == ittr' = n /\ ret' = IF n = Null THEN Null ELSE data[n]

IttrStart(e) ==
  /\ MoveTo(ends[e])
  /\ ittr_dir' = e
  /\ remove_flag' = FALSE
  /\ stale' = FALSE
  /\ UNCHANGED <<list_state, leaked>>

\* Mutant of IttrNext: the flag is not looked at.
IttrNextNoFlag ==
  /\ ~stale
  /\ MoveTo(IF ittr = Null THEN Null ELSE link[ittr_dir][ittr])
  /\ remove_flag' = FALSE
  /\ UNCHANGED <<list_state, ittr_dir, stale, leaked>>

\* After its first element was removed the iterator starts again; one that is over
\* returns NULL.
IttrNext ==
  /\ ~stale
  /\ MoveTo(IF remove_flag THEN ends[ittr_dir]
            ELSE IF ittr = Null THEN Null ELSE link[ittr_dir][ittr])
  /\ remove_flag' = FALSE
  /\ UNCHANGED <<list_state, ittr_dir, stale, leaked>>

\* A node between the iterator and the element beyond it, away from end e.
Insert(d, e) ==
  /\ ~stale
  /\ IF ittr = Null THEN UNCHANGED list_state
     ELSE /\ Calloc(d)
          /\ LET n == Fresh beyond == link[e][ittr] o == Other(e)
                 linked == [link EXCEPT ![e][n] = beyond, ![o][n] = ittr, ![e][ittr] = n]
             IN  IF beyond = Null
                   THEN link' = linked /\ ends' = [ends EXCEPT ![o] = n]
                   ELSE link' = [linked EXCEPT ![o][beyond] = n] /\ UNCHANGED ends
  /\ UNCHANGED <<ittr_state, ret, leaked>>

InsertAfter(d) == Insert(d, ittr_dir)
InsertBefore(d) == Insert(d, Other(ittr_dir))

\* The iterator steps back.
RemoveCurrent ==
  /\ ~stale
  /\ IF ittr = Null THEN ret' = Null /\ UNCHANGED <<list_state, ittr, remove_flag>>
     ELSE LET n == ittr
          IN  /\ ret' = data[n]
              /\ Free(n, [e \in Ends |-> [m \in Nodes |->
                            IF m = link[Other(e)][n] THEN link[e][n] ELSE link[e][m]]])
              /\ ends' = [e \in Ends |-> IF link[Other(e)][n] = Null THEN link[e][n] ELSE ends[e]]
              /\ ittr' = link[Other(ittr_dir)][n]
              /\ remove_flag' = (ittr' = Null)
              /\ count' = count - 1
  /\ UNCHANGED <<ittr_dir, stale, leaked>>

\* The nodes from n on along the links f; a cycle is cut off.
Walk(f, n) ==
  LET step == [m \in Nodes \cup {Null} |-> IF m = Null THEN Null ELSE f[m]]
      nth[i \in 1 .. Cardinality(Nodes) + 1] == IF i = 1 THEN n ELSE step[nth[i - 1]]
  IN  SubSeq(nth, 1, Cardinality({i \in DOMAIN nth : nth[i] # Null}))

\* The nodes of the list from end e on.
From(e) == Walk(link[e], ends[e])

\* The nodes isu_llist_destroy pops: it stops when it has popped NULL, which ends the
\* list or is an element of it.
Popped ==
  LET nodes == From("head")
  IN  {nodes[i] : i \in {k \in DOMAIN nodes : \A j \in 1 .. k - 1 : data[nodes[j]] # Null}}

\* The list is destroyed and another one created.  What is left of the old one is out
\* of reach, and what it holds is forgotten.
Destroy ==
  /\ allocated' = allocated \ Popped
  /\ leaked' = leaked \cup (ToSet(From("head")) \ Popped)
  /\ data' = [n \in Nodes |-> Null]
  /\ link' = [e \in Ends |-> [n \in Nodes |-> Null]]
  /\ ends' = [e \in Ends |-> Null]
  /\ count' = 0
  /\ ittr' = Null /\ ittr_dir' = "head" /\ remove_flag' = FALSE /\ stale' = FALSE
  /\ UNCHANGED ret

Next ==
  \/ Destroy
  \/ \E d \in Data, e \in Ends : Push(d, e)
  \/ \E e \in Ends : Pop(e) \/ IttrStart(e)
  \/ \E d \in Data : InsertAfter(d) \/ InsertBefore(d)
  \/ IttrNext \/ RemoveCurrent

Spec == Init /\ [][Next]_vars

-----------------------------------------------------------------------------
(* Properties. *)

TypeOK ==
  /\ ends \in [Ends -> Nodes \cup {Null}]
  /\ link \in [Ends -> [Nodes -> Nodes \cup {Null}]]
  /\ data \in [Nodes -> Data \cup {Null}]
  /\ allocated \in SUBSET Nodes
  /\ count \in 0 .. Cardinality(Nodes)
  /\ ittr \in Nodes \cup {Null}
  /\ ittr_dir \in Ends
  /\ remove_flag \in BOOLEAN
  /\ ret \in Data \cup {Null}
  /\ stale \in BOOLEAN
  /\ leaked \in SUBSET allocated

\* The list is the same from both ends, its nodes are those not freed, and count
\* is their number, wherever nodes were pushed, inserted, popped and removed; what a
\* destroyed list has left behind is no part of it.
TwoWay ==
  /\ TypeOK
  /\ From("tail") = Reverse(From("head"))
  /\ ToSet(From("head")) = allocated \ leaked
  /\ count = Len(From("head"))

\* The data of the list, from the head.
Items == LET nodes == From("head") IN [i \in DOMAIN nodes |-> data[nodes[i]]]

IttrPlace ==
  IF stale THEN -2 ELSE IF remove_flag THEN 0 ELSE IF ittr = Null THEN -1
  ELSE CHOOSE i \in DOMAIN From(ittr_dir) : From(ittr_dir)[i] = ittr

Abstract == INSTANCE IttrList WITH
  Values <- Data, Nothing <- Null, Over <- -1, Lost <- -2,
  items <- Items, dir <- ittr_dir, place <- IttrPlace, got <- ret

\* isu_llist is a sequence with an iterator that keeps its place: an element that is
\* removed under it is neither skipped nor seen twice, and one that is inserted is
\* next or, by isu_llist_insert_before, among those passed.
IsIttrList == Abstract!ListSpec

\* What IttrNext returns, when the iterator stands on a node.
Upcoming == LET n == link[ittr_dir][ittr] IN IF n = Null THEN Null ELSE data[n]

\* After an insertion, before the iterator as well as after it, "the next call to
\* isu_llist_ittr_next() will return this new data" (isu_llist.h:175, 191).  Said where
\* the iterator stands past the first node: there an insertion is no push.
InsertedIsNext ==
  [][\A d \in Data :
       /\ InsertAfter(d) \/ InsertBefore(d)
       /\ ittr # Null
       /\ link[Other(ittr_dir)][ittr] # Null
       => Upcoming' = d]_vars
=============================================================================
