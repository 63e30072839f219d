------------------------------ MODULE SchedLog ------------------------------
(***************************************************************************)
(* What a run of sched_test.c writes down and prints: the simulation of    *)
(* SchedTest, composed with the clock, the times kept in the tasks and the *)
(* chart isu_task_to_json draws of them (task/isu_task.c).                 *)
(***************************************************************************)
EXTENDS SchedTest

VARIABLES
  time,
  log, \* what each task records
  ran  \* history: the times at which each task began a tick

log_vars == <<time, log, ran>>

\* isu_task_create
NewLog == [arrive_time |-> 0, finish_time |-> 0, start_times |-> <<>>, stop_times |-> <<>>]

LogInit ==
  /\ time = 0
  /\ log = [t \in Tasks |-> NewLog]
  /\ ran = [t \in Tasks |-> {}]

LogStartRun ==
  /\ StartRun
  /\ time' = 0
  /\ log' = [t \in Tasks |-> NewLog]
  /\ ran' = [t \in Tasks |-> {}]

LogCharge ==
  /\ Charge
  /\ ran' = IF current_task = Idle THEN ran
            ELSE [ran EXCEPT ![current_task] = @ \cup {time - 1}]
  /\ UNCHANGED <<time, log>>

\* A task arrives at the time it was created with.
LogArrive ==
  /\ Arrive
  /\ log' = [log EXCEPT ![next_task].arrive_time = time]
  /\ UNCHANGED <<time, ran>>

LogNotifyEnd ==
  /\ NotifyEnd
  /\ log' = [log EXCEPT ![current_task].finish_time = time]
  /\ UNCHANGED <<time, ran>>

\* The idle task keeps no log.
isu_task_add_start_time(l, t) ==
  IF t = Idle THEN l ELSE [l EXCEPT ![t].start_times = Append(@, time)]
isu_task_add_stop_time(l, t) ==
  IF t = Idle THEN l ELSE [l EXCEPT ![t].stop_times = Append(@, time)]

\* The last tick of the longest run, in which every task arrives at an idle
\* processor: it bounds the clock of a run that would not end.
LastTick == NumTasks * (MaxGap + MaxLength)

\* Mutant of LogSwitch: only the task that starts is noted.
LogSwitchStart ==
  /\ Switch
  /\ time <= LastTick
  /\ time' = time + 1
  /\ log' = IF new_task = current_task THEN log ELSE isu_task_add_start_time(log, new_task)
  /\ UNCHANGED ran

LogSwitch ==
  /\ Switch
  /\ time <= LastTick
  /\ time' = time + 1
  /\ log' = IF new_task = current_task THEN log
            ELSE isu_task_add_start_time(isu_task_add_stop_time(log, current_task), new_task)
  /\ UNCHANGED ran

\* Every step of a run.
LogRun ==
  \/ LogStartRun \/ LogCharge \/ LogArrive \/ LogNotifyEnd \/ LogSwitch
  \/ (EndArrivals \/ NotifyTick \/ EndRun) /\ UNCHANGED log_vars

-----------------------------------------------------------------------------
(* The chart: "2" begins an interval in which the task runs, "x" one in     *)
(* which it waits, "." goes on, and the first symbol is of the time -1.     *)

\* An iterator, as what is left of its list: it returns NULL, which is 0, when it
\* is over.
IttrData(s) == IF s = <<>> THEN 0 ELSE Head(s)
IttrNext(s) == SubSeq(s, 2, Len(s))

isu_task_to_json(l) ==
  LET loop[n \in 0 .. l.finish_time] ==
        IF n = 0 THEN [wave |-> <<"z">>, starts |-> l.start_times, stops |-> l.stop_times]
        ELSE LET c == loop[n - 1]
                 starts == n - 1 = IttrData(c.starts)
                 arrives == n - 1 = l.arrive_time
                 stops == ~starts /\ ~arrives /\ n - 1 = IttrData(c.stops)
             IN  [wave   |-> Append(c.wave, IF starts THEN "2"
                                            ELSE IF arrives \/ stops THEN "x" ELSE "."),
                  starts |-> IF starts THEN IttrNext(c.starts) ELSE c.starts,
                  stops  |-> IF stops THEN IttrNext(c.stops) ELSE c.stops]
  IN  loop[l.finish_time].wave

\* What a reader of the chart sees at time n.
Shown(wave, n) == wave[Max({i \in 1 .. n + 2 : wave[i] # "."})]

\* When a run ends the chart of every task shows it running in exactly the ticks it
\* was charged for, waiting from its arrival in the others, and absent before:
\* however it was preempted, the starts and stops were noted in pairs and the times
\* the drawing consumes do not mask each other.
ChartIsTrue ==
  pc = "charge" /\ remaining_tasks = 0 =>
    \A t \in Tasks :
      LET wave == isu_task_to_json(log[t])
      IN  \A n \in 0 .. log[t].finish_time - 1 :
            Shown(wave, n) = IF n \in ran[t] THEN "2"
                             ELSE IF n >= log[t].arrive_time THEN "x" ELSE "z"
=============================================================================
