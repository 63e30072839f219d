----------------------------- MODULE SchedSrtn -----------------------------
(***************************************************************************)
(* Shortest remaining time next: scheduler/srtn/isu_sched_srtn.c.  The     *)
(* list is kept sorted by remaining time, a later task behind an equal     *)
(* one.                                                                    *)
(***************************************************************************)
EXTENDS SchedAlgorithm

\* The position of the first listed task that needs strictly more time.
InsertPos(s, t) ==
  CHOOSE k \in 1 .. Len(s) + 1 :
    /\ \A i \in 1 .. k - 1 : remaining_time[s[i]] <= remaining_time[t]
    /\ k <= Len(s) => remaining_time[t] < remaining_time[s[k]]

\* insert_before the iterator, or push to the tail past the end.
InsertSorted(s, t) ==
  LET k == InsertPos(s, t)
  IN  SubSeq(s, 1, k - 1) \o <<t>> \o SubSeq(s, k, Len(s))

\* Mutant of srtn_start: the old list is used as it is.
srtn_start_unsorted(task_list) == [EmptyObj EXCEPT !.lists[0] = task_list]

\* A NULL list starts empty, any other is insertion-sorted from its head.
srtn_start(task_list) ==
  IF task_list = <<>>
    THEN EmptyObj
    ELSE [EmptyObj EXCEPT !.lists[0] = FoldLeft(InsertSorted, <<>>, task_list)]

srtn_stop(o) == o.lists[0]

\* Mutant of srtn_add_task: pushed to the tail.
srtn_add_tail(o, t) == PushTail(o, 0, t)

srtn_add_task(o, t) == [o EXCEPT !.lists[0] = InsertSorted(@, t)]

\* Mutant of srtn_get_next_task: the comparison is the wrong way round.
srtn_get_next_longest(o, remove) ==
  {IF remove \/ o.running = Idle THEN RunHead(o, 0)
   ELSE IF o.lists[0] = <<>> THEN [o EXCEPT !.fault = TRUE]
   ELSE IF remaining_time[Head(o.lists[0])] > remaining_time[o.running]
     THEN srtn_add_task(RunHead(o, 0), o.running)
   ELSE o}

\* Without remove the head is popped unchecked: NULL on an empty list.
srtn_get_next_task(o, remove) ==
  {IF remove \/ o.running = Idle THEN RunHead(o, 0)
   ELSE IF o.lists[0] = <<>> THEN [o EXCEPT !.fault = TRUE]
   ELSE IF remaining_time[Head(o.lists[0])] < remaining_time[o.running]
     THEN srtn_add_task(RunHead(o, 0), o.running)
   ELSE o}
=============================================================================
