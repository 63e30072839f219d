---------------------------- MODULE MCSchedTest ----------------------------
(* Instances of SchedMain for TLC: the command lines the runs use. *)
EXTENDS SchedMain, SchedFifo

\* srtn is named twice.
AllArgs == <<"fcfs", "rr", "srtn", "prr", "srtn">>
PrrArgs == <<"prr">>
=============================================================================
