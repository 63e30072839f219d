----------------------------- MODULE SchedFifo -----------------------------
(***************************************************************************)
(* The refinement mapping from the simulation to FifoServer: what fcfs is  *)
(* to its customers when it is the first algorithm on the command line.    *)
(* The algorithms after it serve nobody.                                   *)
(***************************************************************************)
EXTENDS SchedTest

Over == alg_index > 1

Line == (IF obj.running = Idle THEN <<>> ELSE <<obj.running>>) \o obj.lists[0]

Fifo == INSTANCE FifoServer WITH
  Customers <- NumTasks,
  MaxWork   <- MaxLength,
  line      <- IF Over THEN <<>> ELSE Line,
  joined    <- IF Over THEN NumTasks ELSE next_task - 1,
  need      <- IF Over THEN [t \in Tasks |-> 0] ELSE remaining_time

\* First come, first served is a server with one line: tasks are served in the
\* order in which they arrived, each to its end, and the processor never rests
\* while one is present.
FcfsIsFifo == Fifo!ServerSpec
=============================================================================
