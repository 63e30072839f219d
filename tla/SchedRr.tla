------------------------------ MODULE SchedRr ------------------------------
(***************************************************************************)
(* Round robin: scheduler/rr/isu_sched_rr.c.  The expiry test reads the    *)
(* task's whole run_time, which nothing resets when a slice starts.        *)
(***************************************************************************)
EXTENDS SchedAlgorithm

rr_start(task_list) == [EmptyObj EXCEPT !.lists[0] = task_list]

rr_stop(o) == o.lists[0]

\* Mutant of rr_add_task: pushed to the head.
rr_add_head(o, t) == [o EXCEPT !.lists[0] = <<t>> \o @]

rr_add_task(o, t) == PushTail(o, 0, t)

\* Mutant of rr_get_next_task: an expired task is not put back.
rr_get_next_drop(o, remove) ==
  {IF remove \/ o.running = Idle THEN RunHead(o, 0)
   ELSE IF run_time[o.running] < Quantum THEN o
   ELSE RunHead(o, 0)}

rr_get_next_task(o, remove) ==
  {IF remove \/ o.running = Idle THEN RunHead(o, 0)
   ELSE IF run_time[o.running] < Quantum THEN o
   ELSE RunHead(PushTail(o, 0, o.running), 0)}
=============================================================================
