--------------------------- MODULE SchedAlgorithm ---------------------------
(***************************************************************************)
(* The class every scheduling algorithm implements                         *)
(* (final/project-D2/scheduler/isu_sched_algorithm.h) and the task fields  *)
(* its methods read (task/isu_task.h).                                     *)
(*                                                                         *)
(* An algorithm object is a record: its ready lists, its running task and  *)
(* a flag that a method dereferenced NULL or indexed its lists out of      *)
(* bounds.  fcfs, rr and srtn keep one list (level 0), prr one per         *)
(* priority.  A linked list is a sequence, its head first.                 *)
(***************************************************************************)
EXTENDS Integers, SequencesExt

CONSTANTS
  NumTasks,       \* how many tasks the program creates, in order of arrival
  NumPriorities,  \* NUM_PRIORITIES
  Quantum         \* QUANTUM

ASSUME TasksAssumption == NumTasks \in Nat \ {0}
ASSUME PrioritiesAssumption == NumPriorities \in Nat \ {0}
ASSUME QuantumAssumption == Quantum \in Nat \ {0}

VARIABLES
  remaining_time, \* remaining_time[t]: ticks task t still needs
  run_time,       \* run_time[t]: ticks task t has run, never reset
  priority        \* priority[t]: its level, 0 is served first

Tasks == 1 .. NumTasks
Idle == 0         \* the NULL task pointer
Levels == 0 .. NumPriorities - 1

AlgObjects == [lists : [Levels -> Seq(Tasks)],
               running : Tasks \cup {Idle},
               fault : BOOLEAN]

\* A constructed and started object with no ready task.
EmptyObj == [lists |-> [l \in Levels |-> <<>>], running |-> Idle, fault |-> FALSE]

PushTail(o, l, t) == [o EXCEPT !.lists[l] = Append(@, t)]

\* running_task = isu_llist_pop(list, ISU_LLIST_HEAD): NULL if it is empty.
RunHead(o, l) ==
  IF o.lists[l] = <<>>
    THEN [o EXCEPT !.running = Idle]
    ELSE [o EXCEPT !.running = Head(o.lists[l]), !.lists[l] = Tail(@)]

\* The tasks an object keeps in the ready state.
Held(o) == UNION {{o.lists[l][i] : i \in DOMAIN o.lists[l]} : l \in Levels}

Running(o) == {o.running} \ {Idle}

\* No task is in two places of the ready lists, and none of them runs.
HeldOnce(o) ==
  \A k, l \in Levels : \A i \in DOMAIN o.lists[k], j \in DOMAIN o.lists[l] :
    o.lists[k][i] = o.lists[l][j] => k = l /\ i = j
Unique(o) == HeldOnce(o) /\ o.running \notin Held(o)
=============================================================================
