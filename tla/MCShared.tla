------------------------------ MODULE MCShared ------------------------------
(***************************************************************************)
(* What is called in any order, for TLC: the scheduler framework by its    *)
(* caller, a queue by threads, and the memory and semaphore of the print   *)
(* server of Lab6 by its clients.  They share nothing; one is called.      *)
(***************************************************************************)
EXTENDS SchedApi, PrintQueueApi, PrintClients

VARIABLE object

shared_vars == <<object, api_vars, vars, ipc_vars>>

\* The priorities of the tasks alternate; Init, Next and vars are of PrintQueueApi.
SharedInit ==
  /\ object \in {"scheduler", "queue", "printer"}
  /\ ApiInit /\ Init /\ ClientsInit
  /\ priority = [t \in Tasks |-> t % NumPriorities]
  /\ object # "scheduler" => remaining_time = [t \in Tasks |-> MaxTicks]

OnScheduler(A) == object = "scheduler" /\ A /\ UNCHANGED <<object, vars, ipc_vars>>
OnQueue(A) == object = "queue" /\ A /\ UNCHANGED <<object, api_vars, ipc_vars>>
OnPrinter(A) == object = "printer" /\ A /\ UNCHANGED <<object, api_vars, vars>>

SharedNext == OnScheduler(ApiNext) \/ OnQueue(Next) \/ OnPrinter(ClientsNext)

\* The fairness of PrintQueueApi and of PrintClients.
SharedSpec ==
  /\ SharedInit /\ [][SharedNext]_shared_vars
  /\ \A t \in Threads : WF_vars(OnQueue(Step(t)))
  /\ WF_ipc_vars(OnPrinter(Server))

-----------------------------------------------------------------------------
(* Properties. *)

\* The server of Lab6 comes to rest with everything printed that was posted to it.
PrinterServes == object = "printer" => Served
=============================================================================
