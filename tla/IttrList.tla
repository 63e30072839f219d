------------------------------ MODULE IttrList ------------------------------
(***************************************************************************)
(* The list isu_llist.c makes of the promises of isu_llist.h: a sequence   *)
(* with one iterator, which stands on an element, before the first one, or *)
(* nowhere.  An element inserted before the iterator is behind it, which   *)
(* is not what isu_llist.h:191 says (InsertedIsNext of Llist).  An         *)
(* abstract specification; it models no code of its own.                   *)
(***************************************************************************)
EXTENDS Integers, SequencesExt

CONSTANTS Values, Nothing, Over, Lost \* Over, Lost: the iterator stands nowhere

VARIABLES
  items,  \* the elements, from the head
  dir,    \* the end the iterator comes from
  place,  \* how many elements it has come to, Over, or Lost
  got     \* what the last call returned

list_vars == <<items, dir, place, got>>

ListInit == items = <<>> /\ dir = "head" /\ place = Over /\ got = Nothing

\* The k-th element in the direction of the iterator, as a position of items.
Position(k) == IF dir = "head" THEN k ELSE Len(items) + 1 - k

Push(v, e) ==
  /\ UNCHANGED <<dir, got>>
  /\ items' = IF e = "head" THEN <<v>> \o items ELSE Append(items, v)
  /\ place' = IF e = dir /\ place \in 1 .. Len(items) THEN place + 1 ELSE place

Pop(e) ==
  IF items = <<>> THEN got' = Nothing /\ UNCHANGED <<items, dir, place>>
  ELSE LET i == IF e = "head" THEN 1 ELSE Len(items)
       IN  /\ got' = items[i]
           /\ items' = RemoveAt(items, i)
           /\ place' = IF place \notin 1 .. Len(items) THEN place
                       ELSE IF Position(place) = i THEN Lost
                       ELSE IF e = dir THEN place - 1 ELSE place
           /\ UNCHANGED dir

Go(k) ==
  IF k \in 1 .. Len(items)
    THEN place' = k /\ got' = items[IF dir' = "head" THEN k ELSE Len(items) + 1 - k]
    ELSE place' = Over /\ got' = Nothing

Start(e) == dir' = e /\ Go(1) /\ UNCHANGED items

Forward ==
  /\ place # Lost
  /\ UNCHANGED <<items, dir>>
  /\ IF place = Over THEN place' = Over /\ got' = Nothing ELSE Go(place + 1)

Insert(v, after) ==
  /\ UNCHANGED <<dir, got>>
  /\ place \in 1 .. Len(items)
  /\ place' = IF after THEN place ELSE place + 1
  /\ items' = InsertAt(items, IF after = (dir = "head") THEN Position(place) + 1 ELSE Position(place), v)

Delete ==
  /\ place \in 1 .. Len(items)
  /\ got' = items[Position(place)]
  /\ items' = RemoveAt(items, Position(place))
  /\ place' = place - 1
  /\ UNCHANGED dir

\* Inserting or deleting where no element is does nothing.
NoElement ==
  /\ place \in {0, Over}
  /\ got' \in {Nothing, got}
  /\ UNCHANGED <<items, dir, place>>

\* The list is given up and a new one taken.
Renew == UNCHANGED got /\ dir' = "head" /\ place' = Over /\ items' = <<>>

ListNext ==
  \/ Renew
  \/ \E v \in Values, e \in {"head", "tail"} : Push(v, e)
  \/ \E e \in {"head", "tail"} : Pop(e) \/ Start(e)
  \/ \E v \in Values, after \in BOOLEAN : Insert(v, after)
  \/ Forward \/ Delete \/ NoElement

ListSpec == ListInit /\ [][ListNext]_list_vars
=============================================================================
