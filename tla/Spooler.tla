------------------------------ MODULE Spooler ------------------------------
(***************************************************************************)
(* The print server: labs/labs-bww1/Lab5/src/main.c with print_job.c and   *)
(* pdf_printer.c.  main reads jobs and pushes them on two queues; one      *)
(* spooler thread per printer pops its queue and prints.                   *)
(*                                                                         *)
(* A job is known by its address, and malloc may return an address again   *)
(* once it is free.  Using freed memory or a closed stream may go          *)
(* unnoticed or end the process; dereferencing NULL ends it.               *)
(***************************************************************************)
EXTENDS PrintQueue

CONSTANTS
  main,        \* the main thread
  N1, N2,      \* the spoolers of the pdf1 and of the pdf2 printers
  q1, q2,      \* queue_n1 and queue_n2
  Inputs,      \* what standard input may name, among AllInputs
  MaxJobs,     \* the jobs read before #exit
  LogFile,     \* --log-file names a file that can be opened
  ForkMayFail  \* fork may fail

AllInputs == {"pdf1", "pdf2", "other", "no_driver", "unreadable"}
Spoolers == N1 \cup N2
QueueOf(s) == IF s \in N1 THEN q1 ELSE q2

ASSUME ThreadsAssumption ==
  Threads = {main} \cup Spoolers /\ main \notin Spoolers /\ N1 \cap N2 = {}
ASSUME QueuesAssumption == Queues = {q1, q2} /\ q1 # q2
ASSUME InputsAssumption == Inputs \subseteq AllInputs
ASSUME MaxJobsAssumption == MaxJobs \in Nat

VARIABLES
  main_pc, \* where main is
  jobs,    \* how many jobs have been read
  new_job, \* the address main holds
  alive,   \* the addresses malloc returned and nothing freed
  pc,      \* where each spooler is
  job,     \* the address each spooler popped
  child,   \* the process each spooler forked: "none" once it is reaped
  forked,  \* whether its fork succeeded, until it has waited
  pushed, popped, \* history: the addresses that went through each queue
  faults   \* the faults so far; "crash" if the process has died

main_vars == <<main_pc, jobs, new_job>>
print_vars == <<child, forked>>
vars == <<queue_vars, main_vars, alive, pc, job, print_vars, pushed, popped, faults>>

Running == "crash" \notin faults

Init ==
  /\ QueueInit
  /\ main_pc = "read"
  /\ jobs = 0
  /\ new_job = Null
  /\ alive = {}
  /\ pc = [s \in Spoolers |-> "pop"]
  /\ job = [s \in Spoolers |-> Null]
  /\ child = [s \in Spoolers |-> "none"]
  /\ forked = [s \in Spoolers |-> TRUE]
  /\ pushed = [q \in Queues |-> <<>>]
  /\ popped = [q \in Queues |-> <<>>]
  /\ faults = {}

Crash(kind) == faults' = faults \cup {kind, "crash"}

Fault(kind) == faults' = faults \cup {kind} \/ Crash(kind)

\* Reading, or freeing, job a, whose memory may have been freed.
Deref(a) == IF a \in alive THEN UNCHANGED faults ELSE Fault("freed")

-----------------------------------------------------------------------------
(* main *)

\* print_job_create: any address that is free.
Create(a) ==
  /\ a \in Data \ alive
  /\ alive' = alive \cup {a}
  /\ new_job' = a
  /\ jobs' = jobs + 1

\* A job is read and pushed on the queue of its driver, if it has one.
ReadJob(a, input) ==
  /\ main_pc = "read"
  /\ jobs < MaxJobs
  /\ Create(a)
  /\ IF input \in {"pdf1", "pdf2"}
       THEN LET q == IF input = "pdf1" THEN q1 ELSE q2
            IN  /\ CallPush(main, q, a, "head")
                /\ pushed' = [pushed EXCEPT ![q] = Append(@, a)]
       ELSE UNCHANGED <<queue_vars, pushed>>
  /\ main_pc' = "free"
  /\ IF input \in {"no_driver", "unreadable"} THEN Crash("input") ELSE UNCHANGED faults
  /\ UNCHANGED <<pc, job, print_vars, popped>>

\* free(new_job), whoever has it by now.
FreeJob ==
  /\ main_pc = "free"
  /\ At(main, "none")
  /\ Deref(new_job)
  /\ alive' = alive \ {new_job}
  /\ new_job' = Null
  /\ main_pc' = "read"
  /\ UNCHANGED <<queue_vars, jobs, pc, job, print_vars, pushed, popped>>

\* #exit.  The job created before it was read is not freed.
ReadExit ==
  /\ main_pc = "read"
  /\ main_pc' = "release1"
  /\ UNCHANGED <<queue_vars, jobs, new_job, alive, pc, job, print_vars,
                 pushed, popped, faults>>

\* Mutant of Release1: one thread is forgotten.
Release1Short ==
  /\ main_pc = "release1"
  /\ CallRelease(main, q1, Cardinality(N1) - 1)
  /\ main_pc' = "release2"
  /\ UNCHANGED <<jobs, new_job, alive, pc, job, print_vars, pushed, popped, faults>>

Release1 ==
  /\ main_pc = "release1"
  /\ CallRelease(main, q1, Cardinality(N1))
  /\ main_pc' = "release2"
  /\ UNCHANGED <<jobs, new_job, alive, pc, job, print_vars, pushed, popped, faults>>

Release2 ==
  /\ main_pc = "release2"
  /\ At(main, "none")
  /\ CallRelease(main, q2, Cardinality(N2))
  /\ main_pc' = "join"
  /\ UNCHANGED <<jobs, new_job, alive, pc, job, print_vars, pushed, popped, faults>>

\* Mutant of Join: the first thread that returns is enough.
JoinFirst ==
  /\ main_pc = "join"
  /\ At(main, "none")
  /\ \E s \in Spoolers : pc[s] = "returned"
  /\ main_pc' = "destroy"
  /\ UNCHANGED <<queue_vars, jobs, new_job, alive, pc, job, print_vars,
                 pushed, popped, faults>>

Join ==
  /\ main_pc = "join"
  /\ At(main, "none")
  /\ \A s \in Spoolers : pc[s] = "returned"
  /\ main_pc' = "destroy"
  /\ UNCHANGED <<queue_vars, jobs, new_job, alive, pc, job, print_vars,
                 pushed, popped, faults>>

\* queue_destroy frees the nodes left and their data; main returns.
Destroy ==
  /\ main_pc = "destroy"
  /\ LET nodes == ToSet(Walk(next, head[q1])) \cup ToSet(Walk(next, head[q2]))
         left == {data[n] : n \in nodes}
     IN  /\ allocated' = allocated \ nodes
         /\ alive' = alive \ left
         /\ IF left \subseteq alive THEN UNCHANGED faults ELSE Fault("freed")
  /\ main_pc' = "done"
  /\ UNCHANGED <<head, tail, next, prev, data, count, lock, call, result, jobs, new_job,
                 pc, job, print_vars, pushed, popped>>

MainStep ==
  /\ QueueStep(main)
  /\ UNCHANGED <<main_vars, alive, pc, job, print_vars, pushed, popped, faults>>

Main ==
  \/ \E a \in Data, input \in Inputs : ReadJob(a, input)
  \/ FreeJob \/ ReadExit \/ Release1 \/ Release2 \/ Join \/ Destroy \/ MainStep

-----------------------------------------------------------------------------
(* printer_spooler *)

\* Mutant of SpoolerPop: the end jobs are pushed at.
SpoolerPopHead(s) ==
  /\ pc[s] = "pop"
  /\ CallPop(s, QueueOf(s), "head")
  /\ pc' = [pc EXCEPT ![s] = "got"]
  /\ UNCHANGED <<main_vars, alive, job, print_vars, pushed, popped, faults>>

SpoolerPop(s) ==
  /\ pc[s] = "pop"
  /\ CallPop(s, QueueOf(s), "tail")
  /\ pc' = [pc EXCEPT ![s] = "got"]
  /\ UNCHANGED <<main_vars, alive, job, print_vars, pushed, popped, faults>>

SpoolerStep(s) ==
  /\ QueueStep(s)
  /\ LET q == QueueOf(s)
         n == IF call[s].end = "tail" THEN tail[q] ELSE head[q]
     IN  popped' = IF At(s, "pop_unlink") /\ n # Null
                     THEN [popped EXCEPT ![q] = Append(@, data[n])] ELSE popped
  /\ UNCHANGED <<main_vars, alive, pc, job, print_vars, pushed, faults>>

SpoolerGot(s) ==
  /\ pc[s] = "got"
  /\ At(s, "none")
  /\ job' = [job EXCEPT ![s] = result[s]]
  /\ pc' = [pc EXCEPT ![s] = IF result[s] = Null THEN "returned" ELSE "log"]
  /\ UNCHANGED <<queue_vars, main_vars, alive, print_vars, pushed, popped, faults>>

\* The log file is opened and print_job_tostring reads the job.
SpoolerLog(s) ==
  /\ pc[s] = "log"
  /\ IF LogFile THEN Deref(job[s]) ELSE Crash("null_stream")
  /\ pc' = [pc EXCEPT ![s] = "print"]
  /\ UNCHANGED <<queue_vars, main_vars, alive, job, print_vars, pushed, popped>>

\* printer_print: the names are read and a child is forked.
SpoolerFork(s) ==
  /\ pc[s] = "print"
  /\ Deref(job[s])
  /\ \E ok \in (IF ForkMayFail THEN BOOLEAN ELSE {TRUE}) :
       /\ forked' = [forked EXCEPT ![s] = ok]
       /\ child' = [child EXCEPT ![s] = IF ok THEN "running" ELSE "none"]
  /\ pc' = [pc EXCEPT ![s] = "wait"]
  /\ UNCHANGED <<queue_vars, main_vars, alive, job, pushed, popped>>

\* ps2pdf ends, well or not.
ChildExit(s) ==
  /\ child[s] = "running"
  /\ child' = [child EXCEPT ![s] = "exited"]
  /\ UNCHANGED <<queue_vars, main_vars, alive, pc, job, forked,
                 pushed, popped, faults>>

\* The children waitpid waits for: its own, or any when fork has returned -1.
Awaited(s) == {c \in Spoolers : child[c] # "none" /\ (forked[s] => c = s)}

\* A status that was waited for is never negative, whatever ps2pdf returned.
SpoolerWait(s) ==
  /\ pc[s] = "wait"
  /\ \E c \in Awaited(s) :
       /\ child[c] = "exited"
       /\ child' = [child EXCEPT ![c] = "none"]
  /\ forked' = [forked EXCEPT ![s] = TRUE]
  /\ pc' = [pc EXCEPT ![s] = "destroy"]
  /\ UNCHANGED <<queue_vars, main_vars, alive, job, pushed, popped, faults>>

\* With no child to wait for waitpid leaves status uninitialised.
SpoolerNoChild(s) ==
  /\ pc[s] = "wait"
  /\ Awaited(s) = {}
  /\ \E where \in {"destroy", "returned"} : pc' = [pc EXCEPT ![s] = where]
  /\ forked' = [forked EXCEPT ![s] = TRUE]
  /\ UNCHANGED <<queue_vars, main_vars, alive, job, child, pushed, popped, faults>>

\* print_job_destroy closes the stream main closed at %EOF, and frees the job.
SpoolerDestroy(s) ==
  /\ pc[s] = "destroy"
  /\ IF job[s] \in alive THEN Fault("closed") ELSE Fault("freed")
  /\ alive' = alive \ {job[s]}
  /\ pc' = [pc EXCEPT ![s] = "pop"]
  /\ job' = [job EXCEPT ![s] = Null]
  /\ UNCHANGED <<queue_vars, main_vars, child, forked, pushed, popped>>

SpoolerNext(s) ==
  \/ SpoolerPop(s) \/ SpoolerStep(s) \/ SpoolerGot(s) \/ SpoolerLog(s) \/ SpoolerFork(s)
  \/ SpoolerWait(s) \/ SpoolerNoChild(s) \/ SpoolerDestroy(s)

Next == Running /\ main_pc # "done" /\ (Main \/ \E s \in Spoolers : SpoolerNext(s) \/ ChildExit(s))

Spec == Init /\ [][Next]_vars

\* Every thread runs, every child ends, and the input ends.
FairSpec ==
  /\ Spec
  /\ WF_vars(Running /\ Main)
  /\ \A s \in Spoolers : WF_vars(Running /\ main_pc # "done" /\ SpoolerNext(s))
                         /\ WF_vars(Running /\ main_pc # "done" /\ ChildExit(s))

-----------------------------------------------------------------------------
(* Properties. *)

TypeOK ==
  /\ main_pc \in {"read", "free", "release1", "release2", "join", "destroy", "done"}
  /\ jobs \in 0 .. MaxJobs
  /\ new_job \in Data \cup {Null}
  /\ alive \in SUBSET Data
  /\ pc \in [Spoolers -> {"pop", "got", "log", "print", "wait", "destroy", "returned"}]
  /\ job \in [Spoolers -> Data \cup {Null}]
  /\ child \in [Spoolers -> {"none", "running", "exited"}]
  /\ forked \in [Spoolers -> BOOLEAN]
  /\ pushed \in [Queues -> Seq(Data)]
  /\ popped \in [Queues -> Seq(Data)]
  /\ faults \in SUBSET {"freed", "closed", "null_stream", "input", "crash"}
  /\ count \in [Queues -> 0 .. MaxJobs + Cardinality(Spoolers)]

\* A spooler that returns because it was given NULL leaves nothing behind: main
\* has read #exit and every job of its queue has been popped.
DrainedBeforeReturn ==
  \A s \in Spoolers : pc[s] = "returned" /\ job[s] = Null =>
    /\ main_pc \in {"release1", "release2", "join", "destroy", "done"}
    /\ popped[QueueOf(s)] = pushed[QueueOf(s)]

\* Jobs are taken in the order they are read, whichever spooler takes them.
FifoDelivery == \A q \in Queues : IsPrefix(popped[q], pushed[q])

\* When main destroys the queues nobody is in a call and no mutex is held.  Unless
\* a spooler has given up, no wakeup is left over and no job is left in a queue
\* that has spoolers.
QuietDestroy ==
  /\ TypeOK
  /\ main_pc = "destroy" =>
       /\ \A t \in Threads : At(t, "none")
       /\ \A q \in Queues : lock[q] = Nobody
       /\ (\A s \in Spoolers : job[s] = Null) =>
            \A s \in Spoolers : count[QueueOf(s)] = 0 /\ head[QueueOf(s)] = Null

\* The server ends once its input does, unless it has crashed.
Termination == <>(main_pc = "done" \/ ~Running)

\* "The program should also never cause a segfault for any input or reason."
\* (main.c:244-245): no job is used after it is freed.
NoUseAfterFree == "freed" \notin faults
=============================================================================
