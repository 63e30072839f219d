---------------------------- MODULE PrintClients ----------------------------
(***************************************************************************)
(* The print server of Lab6 and its clients: print-server/print-server.c   *)
(* main and libprintserver/libprintsever.c printer_print.  A client writes *)
(* its job into the one block of shared memory and posts a named           *)
(* semaphore; the server waits for the semaphore and reads the block.      *)
(*                                                                         *)
(* A job is known by its client.  All processes belong to one ordinary     *)
(* user; the calls on the shared memory succeed.  A client that is killed  *)
(* is one that takes no further step; a server that is killed is started   *)
(* again.                                                                  *)
(***************************************************************************)
EXTENDS Integers, Sequences, FiniteSets

CONSTANTS
  Clients,    \* processes that call printer_print once
  Nothing,    \* an empty string
  MaxRestarts \* how often the server is killed

ASSUME ClientsAssumption == IsFiniteSet(Clients) /\ Nothing \notin Clients
ASSUME RestartsAssumption == MaxRestarts \in Nat

\* The fields of struct PRINT_JOB_STRUCT, in the order they are written; the
\* server prints the first three.
Fields == <<"driver_name", "job_name", "description", "data">>

VARIABLES
  shared_mem, \* whose string each field holds
  sems,       \* the semaphores created: their values, and whether others may open them
  name,       \* the one "/driver_mutex" names, 0 if none
  pc, handle, \* where each client is, and the semaphore it opened
  written,    \* how many fields it has written
  server,     \* where the server is
  semaphore,  \* the semaphore it opened
  seen,       \* the fields it has printed of a job
  reported,   \* history: the jobs printed by the server that is running
  restarts,
  serial      \* history: no client wrote while another was at it or a job waited

client_vars == <<pc, handle, written>>
server_vars == <<server, semaphore, seen, reported, restarts>>
ipc_vars == <<shared_mem, sems, name, client_vars, server_vars, serial>>

ClientsInit ==
  /\ shared_mem = [i \in 1 .. 4 |-> Nothing]
  /\ sems = <<>>
  /\ name = 0
  /\ pc = [c \in Clients |-> "open"]
  /\ handle = [c \in Clients |-> 0]
  /\ written = [c \in Clients |-> 0]
  /\ server = "unlink"
  /\ semaphore = 0
  /\ seen = <<>>
  /\ reported = <<>>
  /\ restarts = 0
  /\ serial = TRUE

-----------------------------------------------------------------------------
(* sem_open, sem_post *)

\* A name that exists is opened if its mode allows it; one that does not is
\* created with the value 0.
SemCreate(public) ==
  /\ name = 0
  /\ sems' = Append(sems, [value |-> 0, public |-> public])
  /\ name' = Len(sems) + 1

SemPost(s) == sems' = [sems EXCEPT ![s].value = @ + 1]

-----------------------------------------------------------------------------
(* printer_print *)

\* A client that finds no semaphore creates one with the mode 0, which nobody
\* opens after it.
ClientOpen(c) ==
  /\ pc[c] = "open"
  /\ \/ SemCreate(FALSE) /\ handle' = [handle EXCEPT ![c] = Len(sems) + 1]
     \/ /\ name # 0
        /\ sems[name].public
        /\ handle' = [handle EXCEPT ![c] = name]
        /\ UNCHANGED <<sems, name>>
  /\ pc' = [pc EXCEPT ![c] = "write"]
  /\ UNCHANGED <<shared_mem, written, server_vars, serial>>

ClientFail(c) ==
  /\ pc[c] = "open"
  /\ name # 0
  /\ ~sems[name].public
  /\ pc' = [pc EXCEPT ![c] = "failed"]
  /\ UNCHANGED <<shared_mem, sems, name, handle, written, server_vars, serial>>

\* Whether some job is half written, or waits to be read.
Busy ==
  \/ \E c \in Clients : written[c] > 0 /\ pc[c] = "write"
  \/ server = "read"
  \/ semaphore # 0 /\ sems[semaphore].value > 0

\* One strcpy.
ClientWrite(c) ==
  /\ pc[c] = "write"
  /\ written[c] < Len(Fields)
  /\ shared_mem' = [shared_mem EXCEPT ![written[c] + 1] = c]
  /\ written' = [written EXCEPT ![c] = @ + 1]
  /\ serial' = (serial /\ (written[c] = 0 => ~Busy))
  /\ UNCHANGED <<sems, name, pc, handle, server_vars>>

\* Mutant of ClientPost: the description and the data are still to be written.
ClientPostEarly(c) ==
  /\ pc[c] = "write"
  /\ written[c] = 2
  /\ SemPost(handle[c])
  /\ pc' = [pc EXCEPT ![c] = "accepted"]
  /\ UNCHANGED <<shared_mem, name, handle, written, server_vars, serial>>

\* sem_post; printer_print returns 0.
ClientPost(c) ==
  /\ pc[c] = "write"
  /\ written[c] = Len(Fields)
  /\ SemPost(handle[c])
  /\ pc' = [pc EXCEPT ![c] = "accepted"]
  /\ UNCHANGED <<shared_mem, name, handle, written, server_vars, serial>>

Client(c) == ClientOpen(c) \/ ClientFail(c) \/ ClientWrite(c) \/ ClientPost(c)

-----------------------------------------------------------------------------
(* main of the server *)

ServerUnlink ==
  /\ server = "unlink"
  /\ name' = 0
  /\ server' = "open"
  /\ UNCHANGED <<shared_mem, sems, client_vars, semaphore, seen, reported, restarts, serial>>

ServerOpen ==
  /\ server = "open"
  /\ SemCreate(TRUE)
  /\ semaphore' = Len(sems) + 1
  /\ server' = "wait"
  /\ UNCHANGED <<shared_mem, client_vars, seen, reported, restarts, serial>>

\* A client has created the name since it was unlinked: the server exits.
ServerExit ==
  /\ server = "open"
  /\ name # 0
  /\ server' = "exited"
  /\ UNCHANGED <<shared_mem, sems, name, client_vars, semaphore, seen, reported, restarts, serial>>

\* Mutant of ServerWait: the semaphore keeps its value.
ServerPeek ==
  /\ server = "wait"
  /\ sems[semaphore].value > 0
  /\ server' = "read"
  /\ UNCHANGED <<shared_mem, sems, name, client_vars, semaphore, seen, reported, restarts, serial>>

ServerWait ==
  /\ server = "wait"
  /\ sems[semaphore].value > 0
  /\ sems' = [sems EXCEPT ![semaphore].value = @ - 1]
  /\ server' = "read"
  /\ UNCHANGED <<shared_mem, name, client_vars, semaphore, seen, reported, restarts, serial>>

\* One printf.
ServerRead ==
  /\ server = "read"
  /\ Len(seen) < 3
  /\ seen' = Append(seen, shared_mem[Len(seen) + 1])
  /\ UNCHANGED <<shared_mem, sems, name, client_vars, server, semaphore, reported, restarts, serial>>

\* Mutant of ServerDone: the inner loop is left out.
ServerDoneOnce ==
  /\ server = "read"
  /\ Len(seen) = 3
  /\ reported' = Append(reported, seen)
  /\ seen' = <<>>
  /\ server' = "unlink"
  /\ UNCHANGED <<shared_mem, sems, name, client_vars, semaphore, restarts, serial>>

ServerDone ==
  /\ server = "read"
  /\ Len(seen) = 3
  /\ reported' = Append(reported, seen)
  /\ seen' = <<>>
  /\ server' = "wait"
  /\ UNCHANGED <<shared_mem, sems, name, client_vars, semaphore, restarts, serial>>

\* The server is killed and started again; the block and the name outlive it.
ServerRestart ==
  /\ restarts < MaxRestarts
  /\ restarts' = restarts + 1
  /\ server' = "unlink"
  /\ semaphore' = 0
  /\ seen' = <<>>
  /\ reported' = <<>>
  /\ UNCHANGED <<shared_mem, sems, name, client_vars, serial>>

Server == ServerUnlink \/ ServerOpen \/ ServerExit \/ ServerWait \/ ServerRead \/ ServerDone

ClientsNext == (\E c \in Clients : Client(c)) \/ Server \/ ServerRestart

\* The server runs; a client may stop anywhere.
ClientsSpec == ClientsInit /\ [][ClientsNext]_ipc_vars /\ WF_ipc_vars(Server)

-----------------------------------------------------------------------------
(* Properties. *)

ClientsTypeOK ==
  /\ shared_mem \in [1 .. 4 -> Clients \cup {Nothing}]
  /\ sems \in Seq([value : 0 .. Cardinality(Clients), public : BOOLEAN])
  /\ name \in 0 .. Len(sems)
  /\ pc \in [Clients -> {"open", "write", "accepted", "failed"}]
  /\ handle \in [Clients -> 0 .. Len(sems)]
  /\ written \in [Clients -> 0 .. Len(Fields)]
  /\ server \in {"unlink", "open", "wait", "read", "exited"}
  /\ semaphore \in 0 .. Len(sems)
  /\ seen \in Seq(Clients \cup {Nothing}) /\ Len(seen) <= 3
  /\ reported \in Seq(Seq(Clients \cup {Nothing}))
  /\ restarts \in 0 .. MaxRestarts
  /\ serial \in BOOLEAN

\* The clients that returned 0 after posting the semaphore of the running server.
Posted == {c \in Clients : pc[c] = "accepted" /\ handle[c] = semaphore}

\* However the clients write over one another and are killed, the server prints no
\* field that nobody has written: it is woken only after a whole job was written.
NothingBlank == \A i \in DOMAIN seen : seen[i] # Nothing

\* The server prints as often as its semaphore was posted, and never for a post of
\* a semaphore that was unlinked.
WakeupsMatch ==
  /\ ClientsTypeOK
  /\ semaphore # 0 =>
       Len(reported) + (IF server = "read" THEN 1 ELSE 0) + sems[semaphore].value
         = Cardinality(Posted)

\* While every client finds the others done and the server waiting, each job is
\* printed whole, once, and by its name.
WholeWhenSerial ==
  serial =>
    /\ \A i \in DOMAIN reported : \E c \in Clients : reported[i] = <<c, c, c>> /\ pc[c] = "accepted"
    /\ \A i, j \in DOMAIN reported : reported[i] = reported[j] => i = j

\* The server comes to rest with everything printed that was posted to it, unless a
\* client has taken the name of its semaphore.
Served ==
  <>[](server = "exited" \/ (server = "wait" /\ Len(reported) = Cardinality(Posted)))
=============================================================================
