----------------------------- MODULE SchedFcfs -----------------------------
(***************************************************************************)
(* First come, first served: scheduler/fcfs/isu_sched_fcfs.c.  Each        *)
(* get_next_task is the set of objects it may leave behind; get_next_task  *)
(* returns the running task of that object.                                *)
(***************************************************************************)
EXTENDS SchedAlgorithm

fcfs_start(task_list) == [EmptyObj EXCEPT !.lists[0] = task_list]

\* Mutant of fcfs_stop: the running task is given back at the head.
fcfs_stop_all(o) == (IF o.running = Idle THEN <<>> ELSE <<o.running>>) \o o.lists[0]

\* The ready list; an empty one is destroyed and NULL returned.
fcfs_stop(o) == o.lists[0]

\* Mutant of fcfs_add_task: pushed to the head.
fcfs_add_head(o, t) == [o EXCEPT !.lists[0] = <<t>> \o @]

fcfs_add_task(o, t) == PushTail(o, 0, t)

fcfs_get_next_task(o, remove) ==
  {IF ~remove /\ o.running # Idle THEN o ELSE RunHead(o, 0)}
=============================================================================
