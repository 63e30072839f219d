--------------------------- MODULE MatrixThreads ---------------------------
(***************************************************************************)
(* The matrix product of labs/labs-bww1/Lab4/matrix_pthread.c: main starts *)
(* a thread for every cell of the product, and joins them in batches       *)
(* because only so many threads and argument records are there.            *)
(*                                                                         *)
(* A number is not computed.  The product of the cell <<x, y>> is the pair *)
(* of the row and the column that were multiplied.  The files hold square  *)
(* matrices of one size; memory and threads are always granted.            *)
(***************************************************************************)
EXTENDS Integers, FiniteSets

CONSTANTS
  Sizes, \* the sizes of the matrices
  Limits \* the number of threads at a time and the length of md: 1024

ASSUME MatrixAssumption == Sizes \subseteq Nat \ {0} /\ Limits \subseteq Nat \ {0}

Blank == <<-1, -1>> \* no product: 0, or a cell not written yet

VARIABLES
  creator,  \* where the main thread is
  A_Size, limit,
  t_C,      \* the thread counter
  created,  \* how many cells a thread was created for
  md,       \* the arguments of the threads: x, y and output
  threads,  \* the thread last created in each slot
  worker,   \* where each thread is; thread k is created for Cell(k)
  slot,     \* which md each thread was given
  row, column, \* B_Array and A_Array of each thread: which row and column it holds
  Matrix_C  \* the cells copied from joined threads

thread_vars == <<worker, slot, row, column>>
matrix_vars == <<creator, A_Size, limit, t_C, created, md, threads, thread_vars, Matrix_C>>

Slots == 0 .. limit - 1
Cell(k) == <<k \div A_Size, k % A_Size>>
final_Val == A_Size * A_Size
Numbers == 0 .. final_Val - 1
Product == {Cell(k) : k \in Numbers}

MatrixInit ==
  /\ creator = "start"
  /\ A_Size = 1 /\ limit = 1
  /\ t_C = 0 /\ created = 0
  /\ md = <<>> /\ threads = <<>> /\ Matrix_C = <<>>
  /\ worker = <<>> /\ slot = <<>> /\ row = <<>> /\ column = <<>>

\* The files are read.
ReadFiles ==
  /\ creator = "start"
  /\ A_Size' \in Sizes
  /\ limit' \in Limits
  /\ md' = [s \in Slots' |-> [x |-> -1, y |-> -1, output |-> Blank]]
  /\ threads' = [s \in Slots' |-> -1]
  /\ worker' = [k \in Numbers' |-> "none"]
  /\ slot' = [k \in Numbers' |-> -1]
  /\ row' = [k \in Numbers' |-> -1]
  /\ column' = [k \in Numbers' |-> -1]
  /\ Matrix_C' = [c \in Product' |-> Blank]
  /\ creator' = "create"
  /\ UNCHANGED <<t_C, created>>

-----------------------------------------------------------------------------
(* main *)

\* Mutant of BatchFull: the final thread is not thought of.
BatchFullLimit(n) == n = limit

\* "Check for threshold number of threads or final thread"
BatchFull(n) == n = limit \/ n = final_Val % limit

\* One turn of the loop over the cells.
CreateThread ==
  /\ creator = "create"
  /\ created < final_Val
  /\ LET c == Cell(created) IN md' = [md EXCEPT ![t_C] = [x |-> c[1], y |-> c[2], output |-> Blank]]
  /\ threads' = [threads EXCEPT ![t_C] = created]
  /\ worker' = [worker EXCEPT ![created] = "zero"]
  /\ slot' = [slot EXCEPT ![created] = t_C]
  /\ created' = created + 1
  /\ t_C' = t_C + 1
  /\ creator' = IF BatchFull(t_C + 1) THEN "join" ELSE "create"
  /\ UNCHANGED <<A_Size, limit, row, column, Matrix_C>>

\* Mutant of JoinThread: the thread is not waited for.
DetachThread ==
  /\ creator = "join" /\ t_C > 0
  /\ LET m == md[t_C - 1] IN Matrix_C' = [Matrix_C EXCEPT ![<<m.x, m.y>>] = m.output]
  /\ t_C' = t_C - 1
  /\ UNCHANGED <<creator, A_Size, limit, created, md, threads, thread_vars>>

\* The last thread that was created is joined first.
JoinThread ==
  /\ creator = "join" /\ t_C > 0
  /\ worker[threads[t_C - 1]] = "ended"
  /\ LET m == md[t_C - 1] IN Matrix_C' = [Matrix_C EXCEPT ![<<m.x, m.y>>] = m.output]
  /\ t_C' = t_C - 1
  /\ UNCHANGED <<creator, A_Size, limit, created, md, threads, thread_vars>>

BatchJoined ==
  /\ creator = "join" /\ t_C = 0
  /\ creator' = "create"
  /\ UNCHANGED <<A_Size, limit, t_C, created, md, threads, thread_vars, Matrix_C>>

\* Matrix_C is written to the file, and main returns, whoever still runs.
WriteFile ==
  /\ creator = "create"
  /\ created = final_Val
  /\ creator' = "written"
  /\ UNCHANGED <<A_Size, limit, t_C, created, md, threads, thread_vars, Matrix_C>>

-----------------------------------------------------------------------------
(* calculate_Cell *)

Goes(k, from, to) ==
  /\ creator \in {"create", "join"}
  /\ worker[k] = from
  /\ worker' = [worker EXCEPT ![k] = to]
  /\ UNCHANGED <<creator, A_Size, limit, t_C, created, threads, slot, Matrix_C>>

Zero(k) ==
  /\ Goes(k, "zero", "column")
  /\ md' = [md EXCEPT ![slot[k]].output = Blank]
  /\ UNCHANGED <<row, column>>

\* Each loop reads its index from md again.
ReadColumn(k) ==
  /\ Goes(k, "column", "row")
  /\ column' = [column EXCEPT ![k] = md[slot[k]].y]
  /\ UNCHANGED <<md, row>>

ReadRow(k) ==
  /\ Goes(k, "row", "sum")
  /\ row' = [row EXCEPT ![k] = md[slot[k]].x]
  /\ UNCHANGED <<md, column>>

Sum_Cell(k) ==
  /\ Goes(k, "sum", "ended")
  /\ md' = [md EXCEPT ![slot[k]].output = <<row[k], column[k]>>]
  /\ UNCHANGED <<row, column>>

calculate_Cell(k) == Zero(k) \/ ReadColumn(k) \/ ReadRow(k) \/ Sum_Cell(k)

MatrixNext ==
  \/ ReadFiles \/ CreateThread \/ JoinThread \/ BatchJoined \/ WriteFile
  \/ \E k \in DOMAIN worker : calculate_Cell(k)

MatrixSpec == MatrixInit /\ [][MatrixNext]_matrix_vars /\ WF_matrix_vars(MatrixNext)

-----------------------------------------------------------------------------
(* Properties. *)

MatrixTypeOK ==
  /\ creator \in {"start", "create", "join", "written"}
  /\ t_C \in 0 .. limit
  /\ created \in 0 .. final_Val
  /\ \A k \in DOMAIN worker :
       /\ worker[k] \in {"none", "zero", "column", "row", "sum", "ended"}
       /\ slot[k] \in Slots \cup {-1}

\* A record is not given to another cell while a thread may still read it or write its
\* output there: a thread that has not ended finds the cell it was created for, and
\* one that waits to be joined has left the product of that cell.
SlotsPrivate ==
  /\ MatrixTypeOK
  /\ \A k \in DOMAIN worker :
       worker[k] \notin {"none", "ended"} => <<md[slot[k]].x, md[slot[k]].y>> = Cell(k)
  /\ \A s \in 0 .. t_C - 1 :
       worker[threads[s]] = "ended" => md[s].output = Cell(threads[s])

\* The size of a batch: the counter meets the size of the remainder first, each time.
BatchSize == IF final_Val % limit = 0 THEN limit ELSE final_Val % limit

\* A cell that was copied has the output of the thread that was created for it, and
\* when the file is written no cell of a whole batch is missing.
BatchesCopied ==
  /\ \A c \in DOMAIN Matrix_C : Matrix_C[c] \in {c, Blank}
  /\ creator = "written" =>
       \A k \in Numbers :
         k < final_Val - (final_Val % BatchSize) => Matrix_C[Cell(k)] = Cell(k)

\* The last cells are joined and copied too: matrix_pthread.c:210 means to check for
\* the "threshold number of threads or final thread", and lab4.md:122 asks for
\* "matrices of any size".
AllCopied == creator = "written" => \A k \in Numbers : Matrix_C[Cell(k)] # Blank
=============================================================================
