------------------------------ MODULE SchedApi ------------------------------
(***************************************************************************)
(* The scheduler framework under any caller that respects its interface    *)
(* (scheduler/isu_sched.h): algorithms are installed, selected and         *)
(* uninstalled while tasks are ready and running, which sched_test.c never *)
(* does.  The callbacks are called only with an algorithm selected, and    *)
(* the caller charges the task it was told to run.                         *)
(***************************************************************************)
EXTENDS Sched

CONSTANTS
  Available, \* the algorithms callers install
  MaxTicks   \* the longest task, which bounds the charged ticks

ASSUME AvailableAssumption == Available \subseteq Algorithms
ASSUME MaxTicksAssumption == MaxTicks \in Nat \ {0}

VARIABLES
  next_arrival, \* the next task to arrive
  destroyed,    \* the tasks isu_task_destroy has freed
  killed        \* isu_sched_Destroy has been called

api_vars == <<remaining_time, run_time, priority, sched_vars, next_arrival, destroyed, killed>>

ApiInit ==
  /\ isu_sched_Init
  /\ remaining_time \in [Tasks -> 1 .. MaxTicks]
  /\ priority \in [Tasks -> Levels]
  /\ run_time = [t \in Tasks |-> 0]
  /\ next_arrival = 1
  /\ destroyed = {}
  /\ killed = FALSE

Selected == current_algorithm # NoAlgorithm

ApiInstall(a) ==
  /\ ~Installed(a)
  /\ isu_sched_InstallAlgorithm(a)
  /\ UNCHANGED <<remaining_time, run_time, priority, next_arrival, destroyed, killed>>

ApiSet(a) ==
  /\ isu_sched_SetAlgorithm(a)
  /\ UNCHANGED <<remaining_time, run_time, priority, next_arrival, destroyed, killed>>

\* The tasks stop gives back are destroyed; for_each dereferences a NULL list.
\* The algorithm stays in algorithm_list.
ApiUninstallCurrent(a) ==
  /\ Installed(a)
  /\ a = current_algorithm
  /\ LET task_list == stop(a, obj)
     IN  /\ obj' = [EmptyObj EXCEPT !.fault = task_list = <<>>]
         /\ destroyed' = destroyed \cup {task_list[i] : i \in DOMAIN task_list}
  /\ current_algorithm' = NoAlgorithm
  /\ UNCHANGED <<remaining_time, run_time, priority, algorithm_list, running_task,
                 quantum_time, next_arrival, killed>>

ApiArrive ==
  /\ Selected
  /\ next_arrival <= NumTasks
  /\ isu_sched_OnTaskArrive(next_arrival)
  /\ next_arrival' = next_arrival + 1
  /\ UNCHANGED <<remaining_time, run_time, priority, destroyed, killed>>

\* The caller runs the task it was given for one tick.
ApiCharge ==
  /\ running_task # Idle
  /\ remaining_time[running_task] > 0
  /\ remaining_time' = [remaining_time EXCEPT ![running_task] = @ - 1]
  /\ run_time' = [run_time EXCEPT ![running_task] = @ + 1]
  /\ UNCHANGED <<priority, sched_vars, next_arrival, destroyed, killed>>

ApiTick ==
  /\ Selected
  /\ isu_sched_OnTick
  /\ UNCHANGED <<remaining_time, run_time, priority, next_arrival, destroyed, killed>>

ApiTaskEnd ==
  /\ Selected
  /\ running_task # Idle
  /\ isu_sched_OnTaskEnd
  /\ UNCHANGED <<remaining_time, run_time, priority, next_arrival, destroyed, killed>>

ApiDestroy ==
  /\ killed' = TRUE
  /\ destroyed' = destroyed \cup (IF Selected THEN Held(obj) ELSE {})
  /\ obj' = EmptyObj
  /\ UNCHANGED <<remaining_time, run_time, priority, algorithm_list, current_algorithm,
                 running_task, quantum_time, next_arrival>>

ApiNext ==
  /\ ~obj.fault
  /\ ~killed
  /\ \/ \E a \in Available : ApiInstall(a) \/ ApiSet(a) \/ ApiUninstallCurrent(a)
     \/ ApiArrive \/ ApiCharge \/ ApiTick \/ ApiTaskEnd \/ ApiDestroy

ApiSpec == ApiInit /\ [][ApiNext]_api_vars

-----------------------------------------------------------------------------
(* Properties. *)

ApiTypeOK ==
  /\ remaining_time \in [Tasks -> 0 .. MaxTicks]
  /\ run_time \in [Tasks -> 0 .. MaxTicks]
  /\ priority \in [Tasks -> Levels]
  /\ algorithm_list \in Seq(Algorithms)
  /\ current_algorithm \in Algorithms \cup {NoAlgorithm}
  /\ obj \in AlgObjects
  /\ running_task \in Tasks \cup {Idle}
  /\ quantum_time \in -1 .. Quantum - 1
  /\ next_arrival \in 1 .. NumTasks + 1
  /\ destroyed \in SUBSET Tasks
  /\ killed \in BOOLEAN

\* Whatever algorithms the ready tasks have passed through, no task is held twice, by
\* one list or two, and the lists have the shape the current one relies on: one
\* list, sorted for srtn, and each task in the list of its priority for prr.
ListsFit ==
  /\ ApiTypeOK
  /\ HeldOnce(obj)
  /\ current_algorithm # "prr" => \A l \in Levels \ {0} : obj.lists[l] = <<>>
  /\ current_algorithm = "prr" =>
       \A l \in Levels : \A i \in DOMAIN obj.lists[l] : priority[obj.lists[l][i]] = l
  /\ current_algorithm = "srtn" =>
       \A i, j \in DOMAIN obj.lists[0] :
         i < j => remaining_time[obj.lists[0][i]] <= remaining_time[obj.lists[0][j]]

\* A task freed by an uninstall or by isu_sched_Destroy is nowhere in the
\* framework afterwards.  It holds because stop() leaves the running task out:
\* were it given back, UninstallAlgorithm would free what running_task points to.
NoDangling ==
  destroyed \cap (Held(obj) \cup {obj.running, running_task}) = {}

\* Selecting an algorithm hands every ready task over, whatever lists the two
\* algorithms keep them in, and no other but the running one, which may be among them
\* or not (isu_sched.c:239): NoTaskForgotten says what becomes of that one.
SwitchKeepsReady ==
  [][\A a \in Algorithms : ApiSet(a) =>
       /\ Held(obj) \subseteq Held(obj')
       /\ Held(obj') \subseteq Held(obj) \cup Running(obj)]_api_vars

\* A task that is ready or running stays so until it ends or is destroyed.  That is
\* what isu_sched_algorithm.h:75-77 asks of stop: a list of ready tasks "which should
\* include the currently running task at the HEAD".
NoTaskForgotten ==
  [][\A t \in (Held(obj) \cup {running_task}) \ {Idle} :
       \/ t \in Held(obj') \cup {running_task'}
       \/ t \in destroyed'
       \/ t = running_task /\ ApiTaskEnd]_api_vars
=============================================================================
