------------------------------ MODULE SchedMain ------------------------------
(***************************************************************************)
(* The whole of sched_test.c: the runs and their logs, composed with the   *)
(* loader that maps the code of its algorithms.  The class pointers the    *)
(* scheduler keeps point into that code.  Each algorithm has a file of its *)
(* own; a file may be named twice.                                         *)
(***************************************************************************)
EXTENDS SchedLog

VARIABLES
  mod_list, opened, crashed, \* the loader
  unloaded                   \* how many arguments main has uninstalled

Loader == INSTANCE ModuleLoader WITH Files <- Algorithms

main_vars == <<vars, log_vars, mod_list, opened, crashed, unloaded>>

MainInit == Init /\ LogInit /\ Loader!LoaderInit /\ unloaded = 0

\* Each file is opened before what its install() returns is installed.
MainInstall ==
  /\ Install
  /\ IF algorithm_list' = algorithm_list THEN UNCHANGED <<mod_list, opened, crashed>>
     ELSE Loader!isu_module_install(Args[Len(algorithm_list) + 1])
  /\ UNCHANGED <<log_vars, unloaded>>

\* The runs and isu_sched_Destroy call the code of the algorithms.
MainRun ==
  /\ LogRun \/ (Destroy /\ UNCHANGED log_vars)
  /\ UNCHANGED <<mod_list, opened, crashed, unloaded>>

\* Mutant of MainUninstall: the scheduler is destroyed last.
MainUninstallFirst ==
  /\ pc \in {"main", "done"}
  /\ alg_index > Len(Args)
  /\ ~crashed
  /\ unloaded < Len(Args)
  /\ Loader!isu_module_uninstall(Args[unloaded + 1])
  /\ unloaded' = unloaded + 1
  /\ UNCHANGED <<vars, log_vars>>

MainUninstall ==
  /\ pc = "done"
  /\ ~crashed
  /\ unloaded < Len(Args)
  /\ Loader!isu_module_uninstall(Args[unloaded + 1])
  /\ unloaded' = unloaded + 1
  /\ UNCHANGED <<vars, log_vars>>

MainNext == MainInstall \/ MainRun \/ MainUninstall

MainSpec == MainInit /\ [][MainNext]_main_vars

\* One thread runs main to its end.
FairMainSpec == MainSpec /\ WF_main_vars(MainNext)

-----------------------------------------------------------------------------
(* Properties. *)

\* Until isu_sched_Destroy has called stop() and destruct(), the code of every
\* algorithm in the list of the scheduler is mapped; after the last argument, with
\* every file named as often as it likes, no code is, and main has not crashed.
CodeOutlivesUse ==
  /\ pc # "done" => \A i \in DOMAIN algorithm_list : opened[algorithm_list[i]] > 0
  /\ pc = "done" /\ (crashed \/ unloaded = Len(Args)) =>
       ~crashed /\ mod_list = <<>> /\ \A f \in Algorithms : opened[f] = 0
=============================================================================
