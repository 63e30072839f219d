------------------------------- MODULE Stats -------------------------------
(***************************************************************************)
(* The statistics of final/project-D2/final_project: final.c calls one     *)
(* function of ourStats.c, which cuts the array into blocks of a size it   *)
(* measures and gives each block to a thread of internal.c.                *)
(*                                                                         *)
(* The code reads and writes arr[size], one past the end: that cell holds  *)
(* any value and is written like the others, but free may end the process  *)
(* when it finds the heap changed.  A double is exact here, and one that   *)
(* is 0 / 0 becomes any value when it is converted.  Memory and threads    *)
(* are always granted.                                                     *)
(***************************************************************************)
EXTENDS Integers, SequencesExt

CONSTANTS
  MaxSize,  \* the most elements final.c is asked for
  MaxBlock, \* the largest block size that is measured
  Byte      \* how many values a SORTTYPE has: 256

ASSUME StatsAssumption == MaxSize \in Nat /\ MaxBlock \in Nat \ {0} /\ Byte \in Nat \ {0}

Values == 0 .. Byte - 1
Operations == {"max", "min", "pre", "suc", "sort", "mean", "med", "stddev"}
Unset == -1 \* what a cell of arr2 or a local result holds before it is written

VARIABLES
  our_main,     \* where the main thread is
  op,       \* the -o option
  stat,     \* the function of ourStats.c that runs: op, or one that op calls
  target,   \* preOrSuc
  size, arr, arr2, \* the cells 0 .. size, the last one past the end
  block,    \* minBlocksize
  level,    \* how often blocks have been doubled: mergeCount, 0 before the merges
  running,  \* numThreads, then curNumThreads
  work,     \* the steps each thread has still to do; it has ended if there are none
  found,    \* what each thread of a search returns in its params
  mean,     \* what ourMean returned to ourStdDev
  answer,   \* the value returned, and *error
  given,    \* history: the cells when ourStats was called
  whole     \* history: every block size measured was above size

stats_vars == <<our_main, op, stat, target, size, arr, arr2, block, level, running, work,
                found, mean, answer, given, whole>>

StatsInit ==
  /\ our_main = "start"
  /\ op = "max" /\ stat = "max" /\ target = 0
  /\ size = 0 /\ arr = <<>> /\ arr2 = <<>> /\ given = <<>>
  /\ block = 1 /\ level = 0 /\ running = 0
  /\ work = <<>> /\ found = <<>>
  /\ mean = 0 /\ answer = [value |-> Unset, error |-> FALSE]
  /\ whole = TRUE

Blocks == 0 .. running - 1

-----------------------------------------------------------------------------
(* initStats and the rounds of ourSort *)

\* A mean of powers of two that the clock decides.
findMinBlocksize == 1 .. MaxBlock

Width == block * 2 ^ level

Start(i) == i * Width

\* Mutant of End: the inclusive end is given as an exclusive one.
EndExclusive(i) == IF (i + 1) * Width > size THEN size ELSE (i + 1) * Width

\* The last cell of a block, but size in the last block.
End(i) == IF (i + 1) * Width - 1 > size THEN size ELSE (i + 1) * Width - 1

\* Mutant of Mid: the power of this round is taken for that of the last one.
MidDoubled(i) == (2 * i + 1) * Width

\* Where the right one of two merged blocks starts; it may not exist.
Mid(i) == (2 * i + 1) * (Width \div 2)

-----------------------------------------------------------------------------
(* The threads of the searches, in internal.c.  All stop before End. *)

Cells(i) == {arr[j] : j \in Start(i) .. End(i) - 1}
maxFind(i) == Max({arr[Start(i)]} \cup Cells(i))
minFind(i) == Min({arr[Start(i)]} \cup Cells(i))

\* target stands for no predecessor.
preFind(i) == LET below == {v \in Cells(i) : v < target} IN IF below = {} THEN target ELSE Max(below)

\* Mutant of sucFind: the distances are compared the wrong way round.
sucFindFarthest(i) == LET above == {v \in Cells(i) : v > target} IN IF above = {} THEN target ELSE Max(above)

sucFind(i) == LET above == {v \in Cells(i) : v > target} IN IF above = {} THEN target ELSE Min(above)

\* term gives what each value adds.
SumOver(i, term) == FoldLeft(LAMBDA x, y : x + y, 0,
                             [k \in 1 .. End(i) - Start(i) |-> term[arr[Start(i) + k - 1]]])

meanFind(i) == SumOver(i, [v \in Values |-> v]) \* ourMean divides it
stdDevFind(i) == SumOver(i, [v \in Values |-> (v - mean) * (v - mean)])

-----------------------------------------------------------------------------
(* merge, copyArr and subsort *)

TakesLeft(a, p, mid, end) == p[1] < mid /\ (p[2] >= end \/ a[p[1]] <= a[p[2]])

\* The cells begin .. end - 1 merged; from[i] holds i0 and i1 before cell i is written.
merge(a, begin, mid, end) ==
  LET from[i \in begin .. end] ==
        IF i = begin THEN <<begin, mid>>
        ELSE LET p == from[i - 1]
             IN  IF TakesLeft(a, p, mid, end) THEN <<p[1] + 1, p[2]>> ELSE <<p[1], p[2] + 1>>
  IN  [i \in begin .. end - 1 |->
         IF TakesLeft(a, from[i], mid, end) THEN a[from[i][1]] ELSE a[from[i][2]]]

Do(step, begin, mid, end) == [do |-> step, begin |-> begin, mid |-> mid, end |-> end]

\* merge, then copyArr: a thread takes them as two steps.
MergeAndCopy(begin, mid, end) == <<Do("merge", begin, mid, end), Do("copy", begin, mid, end)>>

\* The merges of subsort, in the order it makes them.
subsort(begin, end) ==
  LET spans == (begin .. end) \X (begin .. end)
      merges[s \in spans] ==
        LET mid == (s[1] + s[2]) \div 2
        IN  IF s[2] - s[1] < 2 THEN <<>>
            ELSE merges[<<s[1], mid>>] \o merges[<<mid, s[2]>>] \o MergeAndCopy(s[1], mid, s[2])
  IN  merges[<<begin, end>>]

-----------------------------------------------------------------------------
(* main of final.c *)

\* The options are read and the array is filled.
FinalMain ==
  /\ our_main = "start"
  /\ op' \in Operations
  /\ target' \in IF op' \in {"pre", "suc"} THEN Values ELSE {0}
  /\ size' \in 0 .. MaxSize
  /\ arr' \in [0 .. size' -> Values]
  /\ given' = arr'
  /\ stat' = IF op' = "med" THEN "sort" ELSE IF op' = "stddev" THEN "mean" ELSE op'
  /\ our_main' = "init"
  /\ UNCHANGED <<arr2, block, level, running, work, found, mean, answer, whole>>

\* initStats, and a thread for each block: the block that holds arr[size] is the
\* last one, so that size elements are one block only if block is above size.
InitStats ==
  /\ our_main = "init"
  /\ block' \in findMinBlocksize
  /\ whole' = (whole /\ block' > size)
  /\ level' = 0
  /\ running' = size \div block' + 1
  /\ UNCHANGED <<op, stat, target, size, arr, mean, answer, given>>
  /\ arr2' = [c \in 0 .. size |-> Unset]
  /\ found' = [i \in 0 .. running' - 1 |-> Unset]
  /\ work' = [i \in 0 .. running' - 1 |->
                IF stat = "sort" THEN subsort(Start(i)', End(i)' + 1)
                ELSE <<Do("search", Start(i)', Start(i)', End(i)')>>]
  /\ our_main' = "join"

\* maxFind, minFind, preFind, sucFind, meanFind, stdDevFind: nothing is shared, so
\* that each is one step.
Search(i) ==
  /\ our_main = "join" /\ stat # "sort"
  /\ work[i] # <<>>
  /\ \/ stat = "max" /\ found' = [found EXCEPT ![i] = maxFind(i)]
     \/ stat = "min" /\ found' = [found EXCEPT ![i] = minFind(i)]
     \/ stat = "pre" /\ found' = [found EXCEPT ![i] = preFind(i)]
     \/ stat = "suc" /\ found' = [found EXCEPT ![i] = sucFind(i)]
     \/ stat = "mean" /\ found' = [found EXCEPT ![i] = meanFind(i)]
     \/ stat = "stddev" /\ found' = [found EXCEPT ![i] = stdDevFind(i)]
  /\ work' = [work EXCEPT ![i] = <<>>]
  /\ UNCHANGED <<our_main, op, stat, target, size, arr, arr2, block, level, running, mean, answer,
                 given, whole>>

\* sort and threadMerge
Sort(i) ==
  /\ our_main = "join" /\ stat = "sort"
  /\ work[i] # <<>>
  /\ LET w == Head(work[i])
         cells == w.begin .. w.end - 1
     IN  IF w.do = "merge"
           THEN /\ arr2' = [c \in DOMAIN arr2 |->
                             IF c \in cells THEN merge(arr, w.begin, w.mid, w.end)[c] ELSE arr2[c]]
                /\ UNCHANGED arr
           ELSE /\ arr' = [c \in DOMAIN arr |-> IF c \in cells THEN arr2[c] ELSE arr[c]]
                /\ UNCHANGED arr2
  /\ work' = [work EXCEPT ![i] = Tail(@)]
  /\ UNCHANGED <<our_main, op, stat, target, size, block, level, running, found, mean, answer,
                 given, whole>>

Joined == our_main = "join" /\ \A i \in Blocks : work[i] = <<>>

-----------------------------------------------------------------------------
(* What main makes of the blocks, in ourStats.c *)

Results == [k \in 1 .. running |-> found[k - 1]]

\* target - found of a block, which is zero when it has none, against that of the
\* blocks before: where the first block has none the others count for nothing.
ourPre == FoldLeft(LAMBDA g, p : IF target - p # 0 /\ target - p < target - g THEN p ELSE g,
                   found[0], Tail(Results))
ourSuc == FoldLeft(LAMBDA g, s : IF s - target # 0 /\ s - target < g - target THEN s ELSE g,
                   found[0], Tail(Results))

\* The mean of the means of the blocks; a block may be divided by its length zero.
ourMean ==
  LET length == [k \in 1 .. running |-> End(k - 1) - Start(k - 1)]
      product == FoldLeft(LAMBDA x, y : x * y, 1, length)
      sum == FoldLeft(LAMBDA x, k : x + Results[k] * (product \div length[k]), 0,
                      [k \in 1 .. running |-> k])
  IN  IF product = 0 THEN Values ELSE {sum \div (product * running)}

ourStdDev ==
  LET sum == FoldLeft(LAMBDA x, y : x + y, 0, Results)
  IN  IF size = 0 THEN Values ELSE {Max({r \in Values : r * r * size <= sum})}

ourMed == IF size % 2 = 0 THEN arr[size \div 2] ELSE (arr[size \div 2] + arr[size \div 2 + 1]) \div 2

Returned ==
  CASE stat = "max" -> {Max(ToSet(Results))}
    [] stat = "min" -> {Min(ToSet(Results))}
    [] stat = "pre" -> {ourPre}
    [] stat = "suc" -> {ourSuc}
    [] stat = "mean" -> ourMean
    [] stat = "stddev" -> ourStdDev

\* ourMean is called by ourStdDev, or by main.
Combine ==
  /\ Joined /\ stat # "sort"
  /\ \E v \in Returned :
       IF op = "stddev" /\ stat = "mean"
         THEN mean' = v /\ stat' = "stddev" /\ our_main' = "init" /\ UNCHANGED answer
         ELSE /\ answer' = [value |-> v, error |-> stat \in {"pre", "suc"} /\ v = target]
              /\ our_main' = "done"
              /\ UNCHANGED <<mean, stat>>
  /\ UNCHANGED <<op, target, size, arr, arr2, block, level, running, work, found, given, whole>>

\* Threads that merge two blocks each; one that has no partner is copied.
NextRound ==
  /\ Joined /\ stat = "sort"
  /\ level = 0 \/ running \div 2 # 0
  /\ level' = level + 1
  /\ running' = (running + 1) \div 2
  /\ UNCHANGED <<our_main, op, stat, target, size, arr, arr2, block, found, mean, answer, given, whole>>
  /\ work' = [i \in 0 .. running' - 1 |-> MergeAndCopy(Start(i)', Mid(i)', End(i)' + 1)]

\* free(arr2), whose cell size was written; ourMed reads the sorted array.
Sorted ==
  /\ Joined /\ stat = "sort"
  /\ level > 0 /\ running \div 2 = 0
  /\ our_main' \in {"done", "aborted"}
  /\ answer' = [value |-> IF op = "med" THEN ourMed ELSE Unset, error |-> FALSE]
  /\ UNCHANGED <<op, stat, target, size, arr, arr2, block, level, running, work, found, mean,
                 given, whole>>

StatsNext ==
  \/ FinalMain \/ InitStats \/ Combine \/ NextRound \/ Sorted
  \/ \E i \in Blocks : Search(i) \/ Sort(i)

StatsSpec == StatsInit /\ [][StatsNext]_stats_vars /\ WF_stats_vars(StatsNext)

-----------------------------------------------------------------------------
(* Properties. *)

StatsTypeOK ==
  /\ our_main \in {"start", "init", "join", "done", "aborted"}
  /\ op \in Operations /\ stat \in Operations \ {"med"} /\ target \in Values
  /\ size \in 0 .. MaxSize /\ block \in findMinBlocksize
  /\ level \in Nat /\ running \in 0 .. MaxSize + 1
  /\ DOMAIN work = (IF our_main \in {"start", "init"} THEN DOMAIN found ELSE Blocks)

\* Threads that run at the same time sort and merge cells of their own, in every
\* round of doubled blocks, and none goes past the cell size: so nothing they do
\* depends on who is first.
MergesApart ==
  /\ StatsTypeOK
  /\ stat = "sort" /\ our_main = "join" =>
       \A i, j \in Blocks : \A v \in ToSet(work[i]), w \in ToSet(work[j]) :
         /\ 0 <= v.begin /\ v.end <= size + 1
         /\ i # j => v.end <= w.begin \/ w.end <= v.begin

\* When the last round is joined the cells 0 .. size are in order and hold what they
\* held before: with the cell past the end, the merges sort.
SortsAll ==
  stat = "sort" /\ our_main \in {"done", "aborted"} =>
    /\ \A c \in 1 .. size : arr[c - 1] <= arr[c]
    /\ \A v \in Values : Cardinality({c \in 0 .. size : arr[c] = v})
                         = Cardinality({c \in 0 .. size : given[c] = v})

Elements == {given[c] : c \in 0 .. size - 1}

SumOf(a, n) == FoldLeft(LAMBDA x, y : x + y, 0, [k \in 1 .. n |-> a[k - 1]])

IsPre(a) == LET below == {v \in Elements : v < target}
            IN  IF below = {} THEN a.error ELSE ~a.error /\ a.value = Max(below)
IsSuc(a) == LET above == {v \in Elements : v > target}
            IN  IF above = {} THEN a.error ELSE ~a.error /\ a.value = Min(above)

\* What final.c prints is what it is called.
Right ==
  CASE op = "max" -> answer.value = Max(Elements)
    [] op = "min" -> answer.value = Min(Elements)
    [] op = "pre" -> IsPre(answer)
    [] op = "suc" -> IsSuc(answer)
    [] op = "mean" -> answer.value = SumOf(given, size) \div size
    [] OTHER -> TRUE

\* One thread that has all elements answers rightly.
OneBlockRight == our_main = "done" /\ whole /\ size > 0 => Right

\* However the array is cut, what is said to be the largest, the least, the
\* predecessor or the successor is an element, on its side of target, unless the
\* last block starts at the cell size.
AnswersFromArray ==
  our_main = "done" =>
    /\ op \in {"max", "min"} /\ size % block # 0 => answer.value \in Elements
    /\ op \in {"pre", "suc"} /\ ~answer.error => answer.value \in Elements
    /\ op = "pre" => answer.value < target \/ answer.error
    /\ op = "suc" => answer.value > target \/ answer.error

\* Every answer is right with one block, and of the array with several.
AnswersRight == OneBlockRight /\ AnswersFromArray

\* "End is inclusive" (internal.c:126), and "The max is: " (final.c:38): no element is
\* above what is printed, whatever block size was measured.
MaxIsRight ==
  our_main = "done" /\ op = "max" => \A v \in Elements : v <= answer.value
=============================================================================
