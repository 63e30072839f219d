----------------------------- MODULE MCThreads -----------------------------
(***************************************************************************)
(* The programs whose main creates threads and joins them, for TLC: the    *)
(* print server of Lab5 with its spoolers, and the three that cut work     *)
(* into pieces and give each to a thread.  They share nothing; one runs.   *)
(***************************************************************************)
EXTENDS Spooler, Stats, MatrixThreads, StdDevThreads

VARIABLE program

work_vars == <<stats_vars, matrix_vars, stddev_vars>>
program_vars == <<program, vars, work_vars>>

ProgramInit ==
  /\ program \in {"spooler", "stats", "matrix", "stddev"}
  /\ Init /\ StatsInit /\ MatrixInit /\ StdDevInit

\* Init, Next and vars are those of Spooler.
Spool(A) == program = "spooler" /\ A /\ UNCHANGED <<program, work_vars>>

Work ==
  \/ program = "stats" /\ StatsNext /\ UNCHANGED <<program, vars, matrix_vars, stddev_vars>>
  \/ program = "matrix" /\ MatrixNext /\ UNCHANGED <<program, vars, stats_vars, stddev_vars>>
  \/ program = "stddev" /\ StdDevNext /\ UNCHANGED <<program, vars, stats_vars, matrix_vars>>

ProgramNext == Spool(Next) \/ Work

\* The fairness of Spooler; and of the threads that work, some that can run does.
ProgramSpec ==
  /\ ProgramInit /\ [][ProgramNext]_program_vars
  /\ WF_vars(Spool(Running /\ Main))
  /\ \A s \in Spoolers :
       /\ WF_vars(Spool(Running /\ main_pc # "done" /\ SpoolerNext(s)))
       /\ WF_vars(Spool(Running /\ main_pc # "done" /\ ChildExit(s)))
  /\ WF_work_vars(Work)

-----------------------------------------------------------------------------
(* Properties. *)

\* The print server ends once its input does, unless it has crashed: the releases of
\* main wake every spooler, and no join waits for ever.
ServerEnds == program = "spooler" => Termination

\* Every program that works comes to its end: no join waits for ever, whatever the
\* order of the threads, and the rounds of ourSort, which halve their threads upwards,
\* run out.
ThreadsEnd ==
  program # "spooler" =>
    <>(our_main \in {"done", "aborted"} \/ creator = "written" \/ keeper = "done")
=============================================================================
