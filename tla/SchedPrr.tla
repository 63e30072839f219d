------------------------------ MODULE SchedPrr ------------------------------
(***************************************************************************)
(* Priority round robin: scheduler/prior-rr/isu_sched_prr.c.  highestPrio  *)
(* is assigned only when some list has a task; with every list empty the   *)
(* code pops the list an uninitialised index names.                        *)
(***************************************************************************)
EXTENDS SchedAlgorithm

Garbage == NumPriorities  \* stands for every index outside task_list[]

\* Mutant of HighestPrio: the search does not break at the first task.
HighestPrioNoBreak(o) ==
  IF \A l \in Levels : o.lists[l] = <<>>
    THEN Levels \cup {Garbage}
    ELSE {l \in Levels : /\ o.lists[l] # <<>>
                         /\ \A k \in Levels : k > l => o.lists[k] = <<>>}

\* The values highestPrio may have after the search loop.
HighestPrio(o) ==
  IF \A l \in Levels : o.lists[l] = <<>>
    THEN Levels \cup {Garbage}
    ELSE {l \in Levels : /\ o.lists[l] # <<>>
                         /\ \A k \in Levels : k < l => o.lists[k] = <<>>}

RunHighest(o) ==
  {IF l \in Levels THEN RunHead(o, l) ELSE [o EXCEPT !.fault = TRUE] :
     l \in HighestPrio(o)}

prr_add_task(o, t) == PushTail(o, priority[t], t)

\* Each task of the list, if it is not NULL, is pushed to the list of its priority.
prr_start(task_list) == FoldLeft(prr_add_task, EmptyObj, task_list)

\* Mutant of prr_stop: only the first non-empty list is given back.
prr_stop_first(o) ==
  IF \A l \in Levels : o.lists[l] = <<>>
    THEN <<>>
    ELSE o.lists[CHOOSE l \in Levels : o.lists[l] # <<>>]

\* The lists in order of priority, or NULL when all are empty.
prr_stop(o) ==
  IF \A l \in Levels : o.lists[l] = <<>>
    THEN <<>>
    ELSE FlattenSeq([i \in 1 .. NumPriorities |-> o.lists[i - 1]])

prr_get_next_task(o, remove) ==
  IF remove \/ o.running = Idle THEN RunHighest(o)
  ELSE IF run_time[o.running] < Quantum THEN {o}
  ELSE RunHighest(prr_add_task(o, o.running))
=============================================================================
