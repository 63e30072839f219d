----------------------------- MODULE FifoServer -----------------------------
(***************************************************************************)
(* What first come, first served promises: one server, customers that join *)
(* a line in order, and work done only for the head of the line, which     *)
(* leaves when it needs no more.  An abstract specification; it models no  *)
(* code of its own.                                                        *)
(***************************************************************************)
EXTENDS Integers, Sequences

CONSTANTS Customers, MaxWork

VARIABLES
  line,   \* the customers present, in order
  joined, \* how many have joined
  need    \* need[c]: the work customer c still needs

server_vars == <<line, joined, need>>

ServerInit ==
  /\ line = <<>>
  /\ joined = 0
  /\ need \in [1 .. Customers -> 1 .. MaxWork]

Join ==
  /\ joined < Customers
  /\ joined' = joined + 1
  /\ line' = Append(line, joined + 1)
  /\ need' = need

Work ==
  /\ line # <<>>
  /\ need[Head(line)] > 0
  /\ need' = [need EXCEPT ![Head(line)] = @ - 1]
  /\ UNCHANGED <<line, joined>>

\* The head leaves; the customer that has just joined an empty line may need 0.
Leave ==
  /\ line # <<>>
  /\ need[Head(line)] = 0
  /\ line' = Tail(line)
  /\ UNCHANGED <<joined, need>>

ServerNext == Join \/ Work \/ Leave

\* What the server may do.
ServerSafety == ServerInit /\ [][ServerNext]_server_vars

\* Customers join eventually, and the server never rests while one is present.
ServerSpec ==
  /\ ServerSafety
  /\ WF_server_vars(Join)
  /\ WF_server_vars(Work \/ Leave)
=============================================================================
