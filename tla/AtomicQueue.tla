---------------------------- MODULE AtomicQueue ----------------------------
(***************************************************************************)
(* What queue.h promises: a double-ended queue whose pop blocks while it   *)
(* is empty, and returns NULL on an empty queue for each release.  An      *)
(* abstract specification; it models no code of its own.                   *)
(***************************************************************************)
EXTENDS Integers, Sequences

CONSTANTS Callers, Names, Values, Nothing

VARIABLES
  contents, \* the values in each queue, head first
  releases, \* the releases nobody has been woken by
  wants,    \* the queue each caller is popping, Nothing if none
  got       \* what each caller's last pop returned

atomic_vars == <<contents, releases, wants, got>>

AtomicInit ==
  /\ contents = [q \in Names |-> <<>>]
  /\ releases = [q \in Names |-> 0]
  /\ wants = [c \in Callers |-> Nothing]
  /\ got = [c \in Callers |-> Nothing]

PushHead(q, v) == contents' = [contents EXCEPT ![q] = <<v>> \o @]
PushTail(q, v) == contents' = [contents EXCEPT ![q] = Append(@, v)]

Push == \E q \in Names, v \in Values :
  /\ PushHead(q, v) \/ PushTail(q, v)
  /\ UNCHANGED <<releases, wants, got>>

StartPop == \E c \in Callers, q \in Names :
  /\ wants[c] = Nothing
  /\ wants' = [wants EXCEPT ![c] = q]
  /\ got' = [got EXCEPT ![c] = Nothing]
  /\ UNCHANGED <<contents, releases>>

\* A pop takes one end of a queue that is not empty.
Take(c) ==
  /\ wants[c] # Nothing
  /\ LET q == wants[c] s == contents[q]
     IN  /\ s # <<>>
         /\ \/ contents' = [contents EXCEPT ![q] = Tail(s)] /\ got' = [got EXCEPT ![c] = Head(s)]
            \/ /\ contents' = [contents EXCEPT ![q] = SubSeq(s, 1, Len(s) - 1)]
               /\ got' = [got EXCEPT ![c] = s[Len(s)]]
  /\ wants' = [wants EXCEPT ![c] = Nothing]
  /\ UNCHANGED releases

\* NULL: only on an empty queue, and only once per release.
TakeNothing(c) ==
  /\ wants[c] # Nothing
  /\ contents[wants[c]] = <<>>
  /\ releases[wants[c]] > 0
  /\ releases' = [releases EXCEPT ![wants[c]] = @ - 1]
  /\ got' = [got EXCEPT ![c] = Nothing]
  /\ wants' = [wants EXCEPT ![c] = Nothing]
  /\ UNCHANGED contents

Release == \E q \in Names :
  /\ releases' = [releases EXCEPT ![q] = @ + 1]
  /\ UNCHANGED <<contents, wants, got>>

AtomicNext == Push \/ StartPop \/ Release \/ \E c \in Callers : Take(c) \/ TakeNothing(c)

AtomicSafety == AtomicInit /\ [][AtomicNext]_atomic_vars

\* While a caller can be served, one is, sooner or later.
AtomicSpec == AtomicSafety /\ WF_atomic_vars(\E c \in Callers : Take(c) \/ TakeNothing(c))
=============================================================================
