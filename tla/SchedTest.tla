----------------------------- MODULE SchedTest -----------------------------
(***************************************************************************)
(* The simulation that drives the scheduler: final/project-D2/sched_test.c.*)
(* main installs the algorithms named on its command line and runs the     *)
(* same tasks under each of them, tick by tick.  One action per phase of a *)
(* tick: the running task is charged, tasks arrive one after another, the  *)
(* scheduler is told of the end of the task or of the tick, and the switch *)
(* it asks for is made.                                                    *)
(*                                                                         *)
(* Time itself is not kept.  A task arrives any number of ticks, at most   *)
(* MaxGap, after the one before it, as start_time += rand() % 15 allows.   *)
(***************************************************************************)
EXTENDS Sched

CONSTANTS
  Args,      \* the algorithms on the command line
  MaxLength, \* the longest task
  MaxGap     \* the longest time between two arrivals

ASSUME ArgsAssumption == Args \in Seq(Algorithms)
ASSUME MaxLengthAssumption == MaxLength \in Nat \ {0}
ASSUME MaxGapAssumption == MaxGap \in Nat

VARIABLES
  pc,              \* where main is
  alg_index,       \* the algorithm under test, an index of Args
  length,          \* the run time each task is created with
  next_task,       \* the next task to arrive, NumTasks + 1 for NULL
  gap,             \* ticks since the last arrival
  current_task,    \* the task on the processor
  new_task,        \* what the scheduler last asked for
  remaining_tasks, \* tasks not finished
  finished,        \* tasks whose finish_time is set
  contended        \* history: ticks current_task has run on while another
                   \* task of its level or a better one was ready

task_vars == <<remaining_time, run_time, priority, length>>
vars == <<remaining_time, run_time, priority, sched_vars, pc, alg_index, length, next_task,
          gap, current_task, new_task, remaining_tasks, finished, contended>>

-----------------------------------------------------------------------------
Init ==
  /\ isu_sched_Init
  /\ length \in [Tasks -> 1 .. MaxLength]
  /\ priority \in [Tasks -> Levels]
  /\ remaining_time = length
  /\ run_time = [t \in Tasks |-> 0]
  /\ pc = "install"
  /\ alg_index = 1
  /\ next_task = 1
  /\ gap = 0
  /\ current_task = Idle
  /\ new_task = Idle
  /\ remaining_tasks = NumTasks
  /\ finished = {}
  /\ contended = 0

\* The command line is installed, in order.
Install ==
  /\ pc = "install"
  /\ IF Len(algorithm_list) < Len(Args)
       THEN isu_sched_InstallAlgorithm(Args[Len(algorithm_list) + 1]) /\ pc' = pc
       ELSE UNCHANGED sched_vars /\ pc' = "main"
  /\ UNCHANGED <<task_vars, alg_index, next_task, gap, current_task, new_task,
                 remaining_tasks, finished, contended>>

\* SetAlgorithm and init_test_framework: srand(0) gives every run the same tasks.
StartRun ==
  /\ pc = "main"
  /\ alg_index <= Len(Args)
  /\ isu_sched_SetAlgorithm(Args[alg_index])
  /\ pc' = "charge"
  /\ remaining_time' = length
  /\ run_time' = [t \in Tasks |-> 0]
  /\ next_task' = 1
  /\ gap' = 0
  /\ current_task' = Idle
  /\ new_task' = Idle
  /\ remaining_tasks' = NumTasks
  /\ finished' = {}
  /\ contended' = 0
  /\ UNCHANGED <<priority, length, alg_index>>

\* The head of the loop: the task on the processor has run one more tick.
Charge ==
  /\ pc = "charge"
  /\ remaining_tasks > 0
  /\ pc' = "arrive"
  /\ IF current_task = Idle
       THEN UNCHANGED <<remaining_time, run_time>>
       ELSE /\ remaining_time' = [remaining_time EXCEPT ![current_task] = @ - 1]
            /\ run_time' = [run_time EXCEPT ![current_task] = @ + 1]
  /\ UNCHANGED <<priority, length, sched_vars, alg_index, next_task, gap, current_task,
                 new_task, remaining_tasks, finished, contended>>

\* next_task arrives at this tick.
Arrive ==
  /\ pc = "arrive"
  /\ ~obj.fault
  /\ next_task <= NumTasks
  /\ isu_sched_OnTaskArrive(next_task)
  /\ new_task' = running_task'
  /\ next_task' = next_task + 1
  /\ gap' = 0
  /\ UNCHANGED <<task_vars, pc, alg_index, current_task, remaining_tasks, finished, contended>>

\* No further task arrives at this tick.
EndArrivals ==
  /\ pc = "arrive"
  /\ ~obj.fault
  /\ next_task <= NumTasks => gap < MaxGap
  /\ pc' = "notify"
  /\ gap' = IF next_task <= NumTasks THEN gap + 1 ELSE 0
  /\ UNCHANGED <<task_vars, sched_vars, alg_index, next_task, current_task, new_task,
                 remaining_tasks, finished, contended>>

\* Mutant of TaskDone: the end is noticed a tick late.
TaskDoneLate == current_task # Idle /\ remaining_time[current_task] < 0

TaskDone == current_task # Idle /\ remaining_time[current_task] = 0

NotifyEnd ==
  /\ pc = "notify"
  /\ TaskDone
  /\ isu_sched_OnTaskEnd
  /\ new_task' = running_task'
  /\ finished' = finished \cup {current_task}
  /\ remaining_tasks' = remaining_tasks - 1
  /\ pc' = "switch"
  /\ UNCHANGED <<task_vars, alg_index, next_task, gap, current_task, contended>>

NotifyTick ==
  /\ pc = "notify"
  /\ ~TaskDone
  /\ isu_sched_OnTick
  /\ new_task' = running_task'
  /\ pc' = "switch"
  /\ UNCHANGED <<task_vars, alg_index, next_task, gap, current_task, remaining_tasks,
                 finished, contended>>

Rank(t) == IF current_algorithm = "prr" THEN priority[t] ELSE 0

\* The context switch, if there is one, and the end of the loop body.
Switch ==
  /\ pc = "switch"
  /\ ~obj.fault
  /\ pc' = "charge"
  /\ current_task' = new_task
  /\ contended' = IF /\ new_task = current_task
                     /\ current_task # Idle
                     /\ \E t \in Held(obj) : Rank(t) <= Rank(current_task)
                    THEN contended + 1 ELSE 0
  /\ UNCHANGED <<task_vars, sched_vars, alg_index, next_task, gap, new_task,
                 remaining_tasks, finished>>

\* The loop ends; main goes on to the next algorithm.
EndRun ==
  /\ pc = "charge"
  /\ remaining_tasks = 0
  /\ pc' = "main"
  /\ alg_index' = alg_index + 1
  /\ UNCHANGED <<task_vars, sched_vars, next_task, gap, current_task, new_task,
                 remaining_tasks, finished, contended>>

\* isu_sched_Destroy, and the process exits.
Destroy ==
  /\ pc = "main"
  /\ alg_index > Len(Args)
  /\ pc' = "done"
  /\ obj' = EmptyObj
  /\ UNCHANGED <<task_vars, algorithm_list, current_algorithm, running_task, quantum_time,
                 alg_index, next_task, gap, current_task, new_task, remaining_tasks,
                 finished, contended>>

Next ==
  \/ Install \/ StartRun \/ Charge \/ Arrive \/ EndArrivals
  \/ NotifyEnd \/ NotifyTick \/ Switch \/ EndRun \/ Destroy

Spec == Init /\ [][Next]_vars

\* One thread runs main to its end.
FairSpec == Spec /\ WF_vars(Next)

-----------------------------------------------------------------------------
(* Properties. *)

TypeOK ==
  /\ remaining_time \in [Tasks -> 0 .. MaxLength]
  /\ run_time \in [Tasks -> 0 .. MaxLength]
  /\ length \in [Tasks -> 1 .. MaxLength]
  /\ priority \in [Tasks -> Levels]
  /\ algorithm_list \in Seq(Algorithms)
  /\ current_algorithm \in Algorithms \cup {NoAlgorithm}
  /\ obj \in AlgObjects
  /\ running_task \in Tasks \cup {Idle}
  /\ quantum_time \in -1 .. Quantum - 1
  /\ pc \in {"install", "main", "charge", "arrive", "notify", "switch", "done"}
  /\ alg_index \in 1 .. Len(Args) + 1
  /\ next_task \in 1 .. NumTasks + 1
  /\ gap \in 0 .. MaxGap
  /\ current_task \in Tasks \cup {Idle}
  /\ new_task \in Tasks \cup {Idle}
  /\ remaining_tasks \in 0 .. NumTasks
  /\ finished \in SUBSET Tasks
  /\ contended \in 0 .. MaxLength

Arrived == 1 .. next_task - 1

\* Every task that has arrived and not finished is in exactly one place: once in
\* the ready lists, or running.  A method that forgets to put the running task
\* back, or pops the wrong list, loses a task and the loop of
\* run_test_framework never ends.
Conservation ==
  ~obj.fault => /\ Unique(obj)
                /\ Held(obj) \cup Running(obj) = Arrived \ finished

\* The three copies of "the running task" agree: the framework's with the
\* algorithm's always, the driver's whenever a tick begins, and when a task ends
\* the one the scheduler is about to remove is the one that ended, whatever
\* arrivals of the same tick made of running_task.
Agreement ==
  ~obj.fault => /\ running_task = obj.running
                /\ pc = "charge" => current_task = running_task
                /\ pc = "notify" /\ TaskDone => running_task = current_task

\* The processor is never idle through a tick while a task is ready.
WorkConserving == pc = "charge" /\ Held(obj) # {} => current_task # Idle

\* rr, prr: no task keeps the processor for more than Quantum ticks while a task
\* of its level, or of a better one, is ready; the expiry test reads the
\* cumulative run_time and relies on the timer being aligned with each dispatch.
SliceBound ==
  current_algorithm \in {"rr", "prr"} => contended < Quantum

\* srtn: whenever a tick begins no ready task needs less time than the running
\* one, although the running one has been charged since it was last compared.
ShortestRuns ==
  pc = "charge" /\ current_algorithm = "srtn" =>
    \A t \in Held(obj) : remaining_time[current_task] <= remaining_time[t]

\* Only the priority scheduler with no ready task can fault: srtn's unchecked
\* pop in get_next_task is always preceded by an add_task.
FaultOnlyInPrr ==
  obj.fault => current_algorithm = "prr" /\ Held(obj) = {}

Position(o, t) == CHOOSE i \in 1 .. NumTasks :
  \E l \in Levels : i \in DOMAIN o.lists[l] /\ o.lists[l][i] = t

\* fcfs, rr, prr: a ready task never moves back in its list.
NoBypass ==
  [][current_algorithm # "srtn" =>
       \A t \in Held(obj) \cap Held(obj') : Position(obj', t) <= Position(obj, t)]_vars

\* prr: when a task is given the processor no better task stays ready.
HighestFirst ==
  [][current_algorithm = "prr" /\ obj'.running \notin {obj.running, Idle} =>
       \A t \in Held(obj') : priority[obj'.running] <= priority[t]]_vars

\* Every algorithm finishes all the tasks, or the program has faulted.
Termination == <>(pc = "done" \/ obj.fault)

\* get_next_task returns "NULL if no task if the IDLE task should be run next"
\* (isu_sched_algorithm.h:104): an idle processor is not an error.
NoFault == ~obj.fault
=============================================================================
