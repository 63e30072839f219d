------------------------------- MODULE Sched -------------------------------
(***************************************************************************)
(* The scheduler framework: final/project-D2/scheduler/isu_sched.c.  It    *)
(* keeps the installed algorithms, the current one with its object, the    *)
(* task it last told the caller to run and the quantum timer, and calls    *)
(* the current algorithm's methods through its class.                      *)
(***************************************************************************)
EXTENDS SchedFcfs, SchedRr, SchedSrtn, SchedPrr

VARIABLES
  algorithm_list,    \* the installed algorithms, in order
  current_algorithm, \* its class, NoAlgorithm for NULL
  obj,               \* current_algorithm_obj
  running_task,      \* the static running_task of isu_sched.c
  quantum_time       \* the quantum timer, kept modulo Quantum (-1 is kept)

sched_vars == <<algorithm_list, current_algorithm, obj, running_task, quantum_time>>

Algorithms == {"fcfs", "rr", "srtn", "prr"}
NoAlgorithm == "none"

-----------------------------------------------------------------------------
(* The class the install() of each module fills in. *)

\* Mutant of quantum: srtn asks for ticks too.
quantum_all(a) == IF a \in {"rr", "prr", "srtn"} THEN Quantum ELSE 0

quantum(a) == IF a \in {"rr", "prr"} THEN Quantum ELSE 0
reset_quantum(a) == a \in {"rr", "prr"}
is_premptive(a) == a = "srtn"

start(a, task_list) ==
  CASE a = "fcfs" -> fcfs_start(task_list)
    [] a = "rr"   -> rr_start(task_list)
    [] a = "srtn" -> srtn_start(task_list)
    [] a = "prr"  -> prr_start(task_list)

stop(a, o) ==
  CASE a = "fcfs" -> fcfs_stop(o)
    [] a = "rr"   -> rr_stop(o)
    [] a = "srtn" -> srtn_stop(o)
    [] a = "prr"  -> prr_stop(o)

add_task(a, o, t) ==
  CASE a = "fcfs" -> fcfs_add_task(o, t)
    [] a = "rr"   -> rr_add_task(o, t)
    [] a = "srtn" -> srtn_add_task(o, t)
    [] a = "prr"  -> prr_add_task(o, t)

get_next_task(a, o, remove) ==
  CASE a = "fcfs" -> fcfs_get_next_task(o, remove)
    [] a = "rr"   -> rr_get_next_task(o, remove)
    [] a = "srtn" -> srtn_get_next_task(o, remove)
    [] a = "prr"  -> prr_get_next_task(o, remove)

-----------------------------------------------------------------------------
(* The functions of isu_sched.c. *)

isu_sched_Init ==
  /\ algorithm_list = <<>>
  /\ current_algorithm = NoAlgorithm
  /\ obj = EmptyObj
  /\ running_task = Idle
  /\ quantum_time = 0

isu_sched_InstallAlgorithm(a) ==
  /\ algorithm_list' = Append(algorithm_list, a)
  /\ UNCHANGED <<current_algorithm, obj, running_task, quantum_time>>

Installed(a) == \E i \in DOMAIN algorithm_list : algorithm_list[i] = a

\* Stop and destruct the old object, start a new one with the tasks the old
\* one gave back.  running_task and quantum_time keep their values.
isu_sched_SetAlgorithm(a) ==
  /\ Installed(a)
  /\ current_algorithm' = a
  /\ obj' = start(a, IF current_algorithm = NoAlgorithm
                       THEN <<>> ELSE stop(current_algorithm, obj))
  /\ UNCHANGED <<algorithm_list, running_task, quantum_time>>

\* running_task = current_algorithm->get_next_task(obj, remove), from object o.
GetNext(o, remove) ==
  \E n \in get_next_task(current_algorithm, o, remove) :
    /\ obj' = n
    /\ running_task' = n.running

isu_sched_OnTick ==
  /\ IF quantum(current_algorithm) = 0
       THEN UNCHANGED <<obj, running_task, quantum_time>>
       ELSE LET q == (quantum_time + 1) % Quantum
            IN  /\ quantum_time' = q
                /\ IF q = 0 THEN GetNext(obj, FALSE)
                            ELSE UNCHANGED <<obj, running_task>>
  /\ UNCHANGED <<algorithm_list, current_algorithm>>

isu_sched_OnTaskEnd ==
  /\ GetNext(obj, TRUE)
  /\ quantum_time' = IF reset_quantum(current_algorithm) THEN 0 ELSE quantum_time
  /\ UNCHANGED <<algorithm_list, current_algorithm>>

\* Mutant of isu_sched_OnTaskArrive: an idle processor is not woken.
OnTaskArriveNoWake(t) ==
  LET added == add_task(current_algorithm, obj, t)
  IN  /\ IF is_premptive(current_algorithm)
           THEN GetNext(added, FALSE) /\ UNCHANGED quantum_time
           ELSE obj' = added /\ UNCHANGED <<running_task, quantum_time>>
      /\ UNCHANGED <<algorithm_list, current_algorithm>>

\* Mutant of isu_sched_OnTaskArrive: the quantum timer is not restarted.
OnTaskArriveNoReset(t) ==
  LET added == add_task(current_algorithm, obj, t)
  IN  /\ IF is_premptive(current_algorithm) \/ running_task = Idle
           THEN GetNext(added, FALSE) ELSE obj' = added /\ UNCHANGED running_task
      /\ UNCHANGED <<algorithm_list, current_algorithm, quantum_time>>

isu_sched_OnTaskArrive(t) ==
  LET added == add_task(current_algorithm, obj, t)
  IN  /\ IF is_premptive(current_algorithm) \/ running_task = Idle
           THEN /\ GetNext(added, FALSE)
                /\ quantum_time' = IF reset_quantum(current_algorithm)
                                     THEN -1 ELSE quantum_time
           ELSE /\ obj' = added
                /\ UNCHANGED <<running_task, quantum_time>>
      /\ UNCHANGED <<algorithm_list, current_algorithm>>
=============================================================================
