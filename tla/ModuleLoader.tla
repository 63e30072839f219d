---------------------------- MODULE ModuleLoader ----------------------------
(***************************************************************************)
(* The loader of shared objects, lib/module/isu_module.c, as sched_test.c  *)
(* uses it: a list of the modules installed, in order.  A module is known  *)
(* by its file.  The list is created for its first module and destroyed    *)
(* after its last, so the empty list stands for mod_list = NULL.  Every    *)
(* file is there and has install() and uninstall().                        *)
(***************************************************************************)
EXTENDS Integers, SequencesExt

CONSTANT Files \* the files of the modules

VARIABLES
  mod_list,
  opened, \* how often each file has been opened and not closed: its code is
          \* mapped while this is positive
  crashed \* a list that is NULL was iterated over
loader_vars == <<mod_list, opened, crashed>>

LoaderInit ==
  /\ mod_list = <<>>
  /\ opened = [f \in Files |-> 0]
  /\ crashed = FALSE

dlopen(f) == opened' = [opened EXCEPT ![f] = @ + 1]
dlclose(f) == opened' = [opened EXCEPT ![f] = @ - 1]

isu_module_install(f) ==
  /\ dlopen(f)
  /\ mod_list' = Append(mod_list, f)
  /\ UNCHANGED crashed

\* The first module of that file leaves the list, and is closed.
isu_module_uninstall_mod(f) ==
  /\ mod_list' = RemoveFirst(mod_list, f)
  /\ dlclose(f)

\* A file that is not installed is reported; a list that does not exist is not.
isu_module_uninstall(f) ==
  IF mod_list = <<>> THEN crashed' = TRUE /\ UNCHANGED <<mod_list, opened>>
  ELSE /\ IF Contains(mod_list, f) THEN isu_module_uninstall_mod(f)
                                   ELSE UNCHANGED <<mod_list, opened>>
       /\ UNCHANGED crashed
=============================================================================
