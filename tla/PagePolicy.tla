----------------------------- MODULE PagePolicy -----------------------------
(***************************************************************************)
(* Replacement policies of an L1 cache: the pages stand in a line, and the *)
(* next to leave is the first ("fifo"), or the first that has not been     *)
(* given a second chance ("clock"), as textbooks define them.  "miss-lru"  *)
(* is not the textbook's LRU: a page in use moves back in the line only as *)
(* far as the pages used since the last miss, which are in no order.  An   *)
(* abstract specification; it models no code of its own.                   *)
(***************************************************************************)
EXTENDS Integers, SequencesExt

CONSTANTS AllPages, Frames

VARIABLES
  policy, \* "fifo", "miss-lru" or "clock"
  line,   \* the pages in the cache, the next to leave first
  chance, \* the pages with a second chance
  recent  \* "miss-lru": the pages used since the last miss

policy_vars == <<policy, line, chance, recent>>

PolicyInit ==
  /\ policy \in {"fifo", "miss-lru", "clock"}
  /\ line = <<>>
  /\ chance = {}
  /\ recent = {}

\* The line with the page at place a moved back to place b.
MovedBack(a, b) ==
  [k \in DOMAIN line |-> IF k \in a .. b - 1 THEN line[k + 1] ELSE IF k = b THEN line[a] ELSE line[k]]

\* A page in use moves behind those used before the last miss, and no further than
\* the others; "fifo" and "clock" leave it in its place.
Use(p) ==
  /\ \E a \in DOMAIN line :
       /\ line[a] = p
       /\ IF policy = "miss-lru"
            THEN \E b \in a .. Len(line) :
                   /\ \A k \in b + 1 .. Len(line) : line[k] \in recent
                   /\ line' = MovedBack(a, b)
            ELSE line' = line
  /\ chance' = IF policy = "clock" THEN chance \cup {p} ELSE chance
  /\ recent' = IF policy = "miss-lru" THEN recent \cup {p} ELSE recent
  /\ UNCHANGED policy

\* The first page without a second chance; those before it lose theirs and line up
\* again.
Spared == {i \in DOMAIN line : \A j \in 1 .. i : line[j] \in chance}
Leaving ==
  IF Spared = DOMAIN line
    THEN 1
    ELSE CHOOSE i \in DOMAIN line \ Spared : \A j \in 1 .. i - 1 : j \in Spared

\* A page comes in, with or without a second chance.
Load(p) ==
  /\ p \notin ToSet(line)
  /\ IF Len(line) < Frames
       THEN line' = Append(line, p) /\ chance' \in {chance, chance \cup {p}}
     ELSE IF policy = "clock"
       THEN /\ line' = SubSeq(line, Leaving + 1, Len(line)) \o SubSeq(line, 1, Leaving - 1) \o <<p>>
            /\ LET left == chance \ {line[i] : i \in Spared} IN chance' \in {left, left \cup {p}}
       ELSE line' = Append(Tail(line), p) /\ UNCHANGED chance
  /\ recent' \in IF policy = "miss-lru" THEN {{}, {p}} ELSE {recent}
  /\ UNCHANGED policy

PolicySpec == PolicyInit /\ [][\E p \in AllPages : Use(p) \/ Load(p)]_policy_vars
=============================================================================
