------------------------- MODULE PrintClients_proofs -------------------------
(***************************************************************************)
(* What the print server of Lab6 promises of its wakeups, of the block it  *)
(* reads and of jobs that come one at a time, for every set of clients and *)
(* however often the server is killed.                                     *)
(***************************************************************************)
EXTENDS PrintClients, FiniteSetTheorems, SequenceTheorems, TLAPS

\* The clients that returned 0 after posting semaphore s.
PostedTo(s) == {c \in Clients : pc[c] = "accepted" /\ handle[c] = s}

Reading == IF server = "read" THEN 1 ELSE 0

Types ==
  /\ shared_mem \in [1 .. 4 -> Clients \cup {Nothing}]
  /\ sems \in Seq([value : Nat, public : BOOLEAN])
  /\ name \in 0 .. Len(sems)
  /\ pc \in [Clients -> {"open", "write", "accepted", "failed"}]
  /\ handle \in [Clients -> 0 .. Len(sems)]
  /\ written \in [Clients -> 0 .. 4]
  /\ server \in {"unlink", "open", "wait", "read", "exited"}
  /\ semaphore \in 0 .. Len(sems)
  /\ seen \in Seq(Clients \cup {Nothing}) /\ Len(seen) <= 3
  /\ reported \in Seq(Seq(Clients \cup {Nothing}))
  /\ restarts \in 0 .. MaxRestarts
  /\ serial \in BOOLEAN

\* A client has a semaphore when it writes, and has written all when it is accepted.
ClientInv(c) ==
  /\ pc[c] \in {"write", "accepted"} => handle[c] # 0
  /\ pc[c] = "open" => written[c] = 0
  /\ pc[c] = "accepted" => written[c] = 4
  /\ \A i \in 1 .. written[c] : shared_mem[i] # Nothing

\* Before it has opened its semaphore a server has read nothing.
ServerInv ==
  /\ server \in {"wait", "read"} <=> semaphore # 0
  /\ semaphore = 0 => reported = <<>>
  /\ server # "read" => seen = <<>>
  /\ \A i \in DOMAIN seen : seen[i] # Nothing

\* No semaphore counts more than was posted to it, and what that of the server no
\* longer counts was printed.
CountInv ==
  /\ \A s \in 1 .. Len(sems) : sems[s].value <= Cardinality(PostedTo(s))
  /\ semaphore # 0 =>
       Len(reported) + Reading + sems[semaphore].value = Cardinality(PostedTo(semaphore))

IInv == Types /\ (\A c \in Clients : ClientInv(c)) /\ ServerInv /\ CountInv

-----------------------------------------------------------------------------
(* Clients that come one at a time. *)

Triple(c) == <<c, c, c>>

Writing(c) == pc[c] = "write" /\ written[c] > 0

\* How many jobs wait for the server or are read by it.
Pending == IF semaphore = 0 THEN 0 ELSE Reading + sems[semaphore].value

\* c's job is in the block and not yet reported; c is accepted.
Waits(c) ==
  /\ pc[c] = "accepted"
  /\ \A i \in 1 .. 3 : shared_mem[i] = c
  /\ \A i \in DOMAIN seen : seen[i] = c
  /\ \A i \in DOMAIN reported : reported[i] # Triple(c)

\* At any time one client writes, and only its strings are in the fields it has passed,
\* or one job waits, and only its strings are in the block and among those printed.
SerialInv ==
  /\ Pending <= 1
  /\ \A c \in Clients : Writing(c) =>
       /\ Pending = 0
       /\ \A d \in Clients : Writing(d) => d = c
       /\ \A i \in 1 .. 3 : i <= written[c] => shared_mem[i] = c
  /\ Pending = 1 => \E c \in Clients : Waits(c)
  /\ \A i \in DOMAIN reported : \E c \in Clients : reported[i] = Triple(c) /\ pc[c] = "accepted"
  /\ \A i, j \in DOMAIN reported : reported[i] = reported[j] => i = j

WholeInv == serial => SerialInv

-----------------------------------------------------------------------------
(* Semaphores, and the clients that posted one. *)

\* A job has four fields.
LEMMA FieldsLen == Len(Fields) = 4
  BY DEF Fields

\* The clients that posted to a semaphore are no more than the clients.
LEMMA PostedFinite ==
  ASSUME NEW s
  PROVE  /\ IsFiniteSet(PostedTo(s)) /\ Cardinality(PostedTo(s)) \in Nat
         /\ Cardinality(PostedTo(s)) <= Cardinality(Clients)
         /\ Cardinality(Clients) \in Nat
<1>1. PostedTo(s) \in SUBSET Clients
  BY DEF PostedTo
<1>2. IsFiniteSet(PostedTo(s)) /\ Cardinality(PostedTo(s)) <= Cardinality(Clients)
  BY <1>1, ClientsAssumption, FS_Subset
<1> QED
  BY <1>2, ClientsAssumption, FS_CardinalityType

\* A client that is accepted posts no more.
LEMMA PostedSame ==
  ASSUME NEW s,
         \A c \in Clients : pc'[c] = "accepted" <=> pc[c] = "accepted",
         \A c \in Clients : pc[c] = "accepted" => handle'[c] = handle[c]
  PROVE  PostedTo(s)' = PostedTo(s)
  BY DEF PostedTo

\* Nobody has posted to a semaphore that does not exist yet.
LEMMA PostedNone ==
  ASSUME Types, NEW s, s > Len(sems), \A c \in Clients : pc[c] = "accepted" => handle[c] <= Len(sems)
  PROVE  Cardinality(PostedTo(s)) = 0
<1>1. PostedTo(s) = {}
  BY DEF PostedTo, Types
<1> QED
  BY <1>1, FS_EmptySet

\* A client that posts adds itself to those that posted to its semaphore.
LEMMA PostedOneMore ==
  ASSUME NEW c \in Clients, NEW s, pc[c] # "accepted", handle' = handle,
         \A d \in Clients : pc'[d] = "accepted" <=> pc[d] = "accepted" \/ d = c
  PROVE  Cardinality(PostedTo(s)') = IF s = handle[c] THEN Cardinality(PostedTo(s)) + 1
                                                      ELSE Cardinality(PostedTo(s))
<1>1. CASE s = handle[c]
  <2>1. PostedTo(s)' = PostedTo(s) \cup {c} /\ c \notin PostedTo(s)
    BY <1>1 DEF PostedTo
  <2> QED
    BY <1>1, <2>1, PostedFinite, FS_AddElement
<1>2. CASE s # handle[c]
  <2>1. PostedTo(s)' = PostedTo(s)
    BY <1>2 DEF PostedTo
  <2> QED
    BY <1>2, <2>1
<1> QED
  BY <1>1, <1>2

\* sem_open makes a new semaphore, of value 0, and gives it the name.
LEMMA SemCreated ==
  ASSUME Types, NEW p \in BOOLEAN, SemCreate(p)
  PROVE  /\ sems' \in Seq([value : Nat, public : BOOLEAN])
         /\ Len(sems) \in Nat /\ Len(sems') = Len(sems) + 1 /\ name' = Len(sems) + 1
         /\ \A s \in 1 .. Len(sems) : sems'[s] = sems[s]
         /\ sems'[Len(sems) + 1].value = 0
<1>1. [value |-> 0, public |-> p] \in [value : Nat, public : BOOLEAN]
  OBVIOUS
<1>2. sems \in Seq([value : Nat, public : BOOLEAN])
  BY DEF Types
<1> QED
  BY <1>1, <1>2, AppendProperties, LenProperties DEF SemCreate

\* sems' is sems with another value of s.
LEMMA SemChanged ==
  ASSUME Types, NEW s \in 1 .. Len(sems), NEW v \in Nat, sems' = [sems EXCEPT ![s].value = v]
  PROVE  /\ sems' \in Seq([value : Nat, public : BOOLEAN])
         /\ Len(sems) \in Nat /\ Len(sems') = Len(sems)
         /\ \A r \in 1 .. Len(sems) : sems'[r].value = IF r = s THEN v ELSE sems[r].value
<1> DEFINE e == [sems[s] EXCEPT !.value = v]
<1>1. sems \in Seq([value : Nat, public : BOOLEAN])
  BY DEF Types
<1>2. sems[s] \in [value : Nat, public : BOOLEAN]
  BY <1>1, ElementOfSeq
<1>3. e \in [value : Nat, public : BOOLEAN] /\ e.value = v
  BY <1>2
<1>4. sems' = [sems EXCEPT ![s] = e]
  OBVIOUS
<1> HIDE DEF e
<1> QED
  BY <1>1, <1>3, <1>4, ExceptSeq, LenProperties

\* A function on 1 .. n is a sequence.
LEMMA FunctionSeq ==
  ASSUME NEW S, NEW n \in Nat, NEW f \in [1 .. n -> S]
  PROVE  f \in Seq(S)
<1>1. [1 .. n -> S] \in {[1 .. m -> S] : m \in Nat}
  OBVIOUS
<1> QED
  BY <1>1, SeqDef

\* The value of a semaphore is a number.
LEMMA SemValue ==
  ASSUME Types, NEW s \in 1 .. Len(sems)
  PROVE  sems[s].value \in Nat
<1>1. sems[s] \in [value : Nat, public : BOOLEAN]
  BY ElementOfSeq DEF Types
<1> QED
  BY <1>1

-----------------------------------------------------------------------------
(* Every step keeps the invariant. *)

\* No process has started.
LEMMA InitInv == ClientsInit => IInv
<1> SUFFICES ASSUME ClientsInit PROVE IInv
  OBVIOUS
<1> USE ClientsAssumption, RestartsAssumption DEF ClientsInit
<1>1. Types
  BY DEF Types
<1>2. \A c \in Clients : ClientInv(c)
  BY DEF ClientInv
<1>3. ServerInv
  BY DEF ServerInv
<1>4. CountInv
  BY DEF CountInv
<1> QED
  BY <1>1, <1>2, <1>3, <1>4 DEF IInv

\* No step of the others has to do with what the server has read, as long as its
\* semaphore keeps its value.
LEMMA CountSame ==
  ASSUME IInv, Types',
         Len(sems) <= Len(sems'), \A s \in 1 .. Len(sems) : sems'[s].value = sems[s].value,
         \A s \in 1 .. Len(sems') : s > Len(sems) => sems'[s].value = 0,
         \A c \in Clients : pc'[c] = "accepted" <=> pc[c] = "accepted",
         \A c \in Clients : pc[c] = "accepted" => handle'[c] = handle[c],
         UNCHANGED server_vars
  PROVE  CountInv'
<1>0. Len(sems) \in Nat /\ Len(sems') \in Nat
  BY LenProperties DEF IInv, Types
<1>1. \A s : PostedTo(s)' = PostedTo(s)
  BY PostedSame
<1>2. ASSUME NEW s \in 1 .. Len(sems') PROVE sems'[s].value <= Cardinality(PostedTo(s)')
  <2>1. CASE s \in 1 .. Len(sems)
    BY <1>1, <2>1 DEF IInv, CountInv
  <2>2. CASE s > Len(sems)
    BY <1>1, <2>2, PostedFinite
  <2> QED
    BY <1>0, <2>1, <2>2
<1>3. ASSUME semaphore' # 0
      PROVE  Len(reported') + Reading' + sems'[semaphore'].value = Cardinality(PostedTo(semaphore)')
  <2>1. semaphore' = semaphore /\ reported' = reported /\ Reading' = Reading
    BY DEF server_vars, Reading
  <2>2. semaphore \in 1 .. Len(sems)
    BY <1>0, <1>3, <2>1 DEF IInv, Types
  <2> QED
    BY <1>1, <1>3, <2>1, <2>2 DEF IInv, CountInv
<1> QED
  BY <1>2, <1>3 DEF CountInv

\* A client opens or makes the semaphore.
LEMMA ClientOpenKeeps ==
  ASSUME IInv, NEW c \in Clients, ClientOpen(c)
  PROVE  IInv'
<1> USE DEF ClientOpen, server_vars
<1>0. Len(sems) \in Nat
  BY LenProperties DEF IInv, Types
<1>1. /\ sems' \in Seq([value : Nat, public : BOOLEAN])
      /\ Len(sems') \in Nat /\ Len(sems) <= Len(sems') /\ name' \in 0 .. Len(sems')
      /\ \A s \in 1 .. Len(sems) : sems'[s].value = sems[s].value
      /\ \A s \in 1 .. Len(sems') : s > Len(sems) => sems'[s].value = 0
  <2>1. CASE SemCreate(FALSE)
    <3>1. /\ sems' \in Seq([value : Nat, public : BOOLEAN])
          /\ Len(sems') = Len(sems) + 1 /\ name' = Len(sems) + 1
          /\ \A s \in 1 .. Len(sems) : sems'[s] = sems[s]
          /\ sems'[Len(sems) + 1].value = 0
      BY <2>1, SemCreated DEF IInv
    <3>2. \A s \in 1 .. Len(sems') : s > Len(sems) => s = Len(sems) + 1
      BY <1>0, <3>1
    <3> QED
      BY ONLY <1>0, <3>1, <3>2
  <2>2. CASE UNCHANGED <<sems, name>>
    <3>1. name \in 0 .. Len(sems) /\ sems \in Seq([value : Nat, public : BOOLEAN])
      BY DEF IInv, Types
    <3> QED
      BY ONLY <1>0, <2>2, <3>1
  <2> QED
    BY <2>1, <2>2
<1>2. /\ handle' \in [Clients -> 0 .. Len(sems')] /\ handle'[c] # 0
      /\ \A d \in Clients : d # c => handle'[d] = handle[d]
  <2>1. handle \in [Clients -> 0 .. Len(sems)]
    BY DEF IInv, Types
  <2>2. CASE SemCreate(FALSE) /\ handle' = [handle EXCEPT ![c] = Len(sems) + 1]
    <3>1. Len(sems') = Len(sems) + 1
      BY <2>2, SemCreated DEF IInv
    <3> QED
      BY ONLY <1>0, <2>1, <2>2, <3>1
  <2>3. CASE name # 0 /\ handle' = [handle EXCEPT ![c] = name] /\ UNCHANGED <<sems, name>>
    <3>1. name \in 1 .. Len(sems)
      BY <1>0, <2>3 DEF IInv, Types
    <3> QED
      BY ONLY <1>0, <2>1, <2>3, <3>1
  <2> QED
    BY <2>2, <2>3
<1>3. Types'
  <2>1. semaphore \in 0 .. Len(sems')
    BY <1>0, <1>1 DEF IInv, Types
  <2>2. pc' \in [Clients -> {"open", "write", "accepted", "failed"}]
    BY DEF IInv, Types
  <2> QED
    BY <1>1, <1>2, <2>1, <2>2 DEF IInv, Types
<1>6. ASSUME NEW d \in Clients PROVE ClientInv(d)'
  BY <1>2 DEF IInv, Types, ClientInv
<1>4. ServerInv'
  BY DEF IInv, ServerInv
<1>5. CountInv'
  <2>1. \A d \in Clients : pc[d] = "accepted" => handle'[d] = handle[d]
    BY <1>2
  <2>2. \A d \in Clients : pc'[d] = "accepted" <=> pc[d] = "accepted"
    BY DEF IInv, Types
  <2> QED
    BY <1>1, <1>3, <2>1, <2>2, CountSame
<1> QED
  BY <1>3, <1>4, <1>5, <1>6 DEF IInv

\* A client cannot open the semaphore.
LEMMA ClientFailKeeps ==
  ASSUME IInv, NEW c \in Clients, ClientFail(c)
  PROVE  IInv'
<1> USE DEF ClientFail, server_vars
<1>1. Types'
  BY DEF IInv, Types
<1>2. ASSUME NEW d \in Clients PROVE ClientInv(d)'
  BY DEF IInv, Types, ClientInv
<1>3. ServerInv'
  BY DEF IInv, ServerInv
<1>4. CountInv'
  <2>1. Len(sems) \in Nat
    BY LenProperties DEF IInv, Types
  <2> QED
    BY <1>1, <2>1, CountSame DEF IInv, Types
<1> QED
  BY <1>1, <1>2, <1>3, <1>4 DEF IInv

\* A client writes one field of the shared job.
LEMMA ClientWriteKeeps ==
  ASSUME IInv, NEW c \in Clients, ClientWrite(c)
  PROVE  IInv'
<1> USE FieldsLen DEF ClientWrite, server_vars
<1>0. /\ written[c] \in 0 .. 3 /\ written' = [written EXCEPT ![c] = written[c] + 1]
      /\ c # Nothing
  BY ClientsAssumption DEF IInv, Types
<1>1. Types'
  BY <1>0 DEF IInv, Types, Busy
<1>2. ASSUME NEW d \in Clients PROVE ClientInv(d)'
  <2>1. ClientInv(d) /\ written[d] \in 0 .. 4
    BY DEF IInv, Types
  <2>2. ASSUME NEW i \in 1 .. written'[d] PROVE shared_mem'[i] # Nothing
    <3>1. i \in 1 .. 4 /\ (i = written[c] + 1 \/ i \in 1 .. written[d])
      BY <1>0, <2>1, <2>2 DEF IInv, Types
    <3> QED
      BY <1>0, <2>1, <3>1 DEF ClientInv, IInv, Types
  <2>3. pc[d] = "accepted" => written'[d] = 4
    BY <1>0, <2>1 DEF ClientInv, IInv, Types
  <2>4. pc[d] = "open" => written'[d] = 0
    BY <1>0, <2>1 DEF ClientInv, IInv, Types
  <2> QED
    BY <2>1, <2>2, <2>3, <2>4 DEF ClientInv
<1>3. ServerInv'
  BY DEF IInv, ServerInv
<1>4. CountInv'
  <2>1. Len(sems) \in Nat
    BY LenProperties DEF IInv, Types
  <2> QED
    BY <1>1, <2>1, CountSame DEF IInv, Types
<1> QED
  BY <1>1, <1>2, <1>3, <1>4 DEF IInv

\* A client posts after its last field.
LEMMA ClientPostKeeps ==
  ASSUME IInv, NEW c \in Clients, ClientPost(c)
  PROVE  IInv'
<1> USE FieldsLen DEF ClientPost, server_vars
<1>0. Len(sems) \in Nat /\ handle[c] \in 1 .. Len(sems) /\ sems[handle[c]].value + 1 \in Nat
  <2>1. Len(sems) \in Nat /\ handle[c] \in 1 .. Len(sems)
    BY LenProperties DEF IInv, Types, ClientInv
  <2> QED
    BY <2>1, SemValue DEF IInv
<1>1. /\ sems' \in Seq([value : Nat, public : BOOLEAN]) /\ Len(sems') = Len(sems)
      /\ \A r \in 1 .. Len(sems) :
           sems'[r].value = IF r = handle[c] THEN sems[r].value + 1 ELSE sems[r].value
  <2>1. PICK h \in 1 .. Len(sems), v \in Nat : h = handle[c] /\ v = sems[h].value + 1
    BY <1>0
  <2>2. sems' = [sems EXCEPT ![h].value = v]
    BY <2>1 DEF SemPost
  <2>3. Types
    BY DEF IInv
  <2>4. /\ sems' \in Seq([value : Nat, public : BOOLEAN]) /\ Len(sems') = Len(sems)
        /\ \A r \in 1 .. Len(sems) : sems'[r].value = IF r = h THEN v ELSE sems[r].value
    BY ONLY <2>2, <2>3, SemChanged
  <2> QED
    BY ONLY <2>1, <2>4
<1>2. Types'
  BY <1>1 DEF IInv, Types
<1>3. ASSUME NEW d \in Clients PROVE ClientInv(d)'
  BY DEF IInv, Types, ClientInv
<1>4. ServerInv'
  BY DEF IInv, ServerInv
<1>5. \A s : Cardinality(PostedTo(s)') = IF s = handle[c] THEN Cardinality(PostedTo(s)) + 1
                                                        ELSE Cardinality(PostedTo(s))
  BY PostedOneMore DEF IInv, Types
<1>6. CountInv'
  <2>1. ASSUME NEW s \in 1 .. Len(sems') PROVE sems'[s].value <= Cardinality(PostedTo(s)')
    BY <1>1, <1>5, SemValue, PostedFinite DEF IInv, CountInv
  <2>2. ASSUME semaphore' # 0
        PROVE  Len(reported') + Reading' + sems'[semaphore'].value = Cardinality(PostedTo(semaphore)')
    <3>1. semaphore \in 1 .. Len(sems) /\ sems[semaphore].value \in Nat
      BY <1>0, <2>2, SemValue DEF IInv, Types
    <3>2. Len(reported) \in Nat /\ Reading \in Nat /\ Reading' = Reading
      BY LenProperties DEF IInv, Types, Reading
    <3>3. Len(reported) + Reading + sems[semaphore].value = Cardinality(PostedTo(semaphore))
      BY <2>2 DEF IInv, CountInv
    <3>4. Cardinality(PostedTo(semaphore)') = IF semaphore = handle[c]
             THEN Cardinality(PostedTo(semaphore)) + 1 ELSE Cardinality(PostedTo(semaphore))
      BY <1>5
    <3> QED
      BY <1>1, <3>1, <3>2, <3>3, <3>4
  <2> QED
    BY <2>1, <2>2 DEF CountInv
<1> QED
  BY <1>2, <1>3, <1>4, <1>6 DEF IInv

\* The clients do not see what the server is at.
LEMMA ServerKeepsClients ==
  ASSUME IInv, UNCHANGED <<shared_mem, client_vars>>
  PROVE  /\ \A c \in Clients : ClientInv(c)'
         /\ \A s : PostedTo(s)' = PostedTo(s)
  BY DEF IInv, client_vars, ClientInv, PostedTo

\* The server unlinks the name when it starts.
LEMMA ServerUnlinkKeeps == IInv /\ ServerUnlink => IInv'
<1> SUFFICES ASSUME IInv, ServerUnlink PROVE IInv'
  OBVIOUS
<1> USE DEF ServerUnlink
<1>1. Types'
  BY LenProperties DEF IInv, Types, client_vars
<1>2. ServerInv'
  BY DEF IInv, ServerInv
<1>3. CountInv'
  BY ServerKeepsClients DEF IInv, CountInv, ServerInv
<1> QED
  BY <1>1, <1>2, <1>3, ServerKeepsClients DEF IInv

\* The server makes its semaphore.
LEMMA ServerOpenKeeps == IInv /\ ServerOpen => IInv'
<1> SUFFICES ASSUME IInv, ServerOpen PROVE IInv'
  OBVIOUS
<1> USE DEF ServerOpen
<1>1. /\ sems' \in Seq([value : Nat, public : BOOLEAN])
      /\ Len(sems) \in Nat /\ Len(sems') = Len(sems) + 1 /\ name' = Len(sems) + 1
      /\ \A s \in 1 .. Len(sems) : sems'[s] = sems[s]
      /\ sems'[Len(sems) + 1].value = 0
  BY SemCreated DEF IInv
<1>2. Types'
  BY <1>1 DEF IInv, Types, client_vars
<1>3. semaphore = 0 /\ reported = <<>> /\ Reading' = 0
  BY DEF IInv, ServerInv, Reading
<1>4. ServerInv'
  BY <1>1, <1>3 DEF IInv, ServerInv
<1>5. Cardinality(PostedTo(Len(sems) + 1)) = 0
  <2>1. \A c \in Clients : handle[c] <= Len(sems)
    BY DEF IInv, Types
  <2> QED
    BY <1>1, <2>1, PostedNone DEF IInv
<1>6. CountInv'
  <2>1. ASSUME NEW s \in 1 .. Len(sems') PROVE sems'[s].value <= Cardinality(PostedTo(s)')
    <3>1. CASE s = Len(sems) + 1
      BY <1>1, <1>5, <3>1, ServerKeepsClients
    <3>2. CASE s \in 1 .. Len(sems)
      BY <1>1, <3>2, ServerKeepsClients DEF IInv, CountInv
    <3> QED
      BY <1>1, <3>1, <3>2
  <2>2. Len(reported') + Reading' + sems'[semaphore'].value = Cardinality(PostedTo(semaphore)')
    <3>1. PICK n \in Nat : n = Len(sems) + 1
      BY <1>1
    <3>2. Cardinality(PostedTo(n)') = 0 /\ semaphore' = n
      BY <1>5, <3>1, ServerKeepsClients
    <3>3. Cardinality(PostedTo(semaphore)') = 0
      BY <3>2 DEF PostedTo
    <3> QED
      BY <1>1, <1>3, <3>3
  <2> QED
    BY <2>1, <2>2 DEF CountInv
<1> QED
  BY <1>2, <1>4, <1>6, ServerKeepsClients DEF IInv

\* The server ends because a client took the name.
LEMMA ServerExitKeeps == IInv /\ ServerExit => IInv'
<1> SUFFICES ASSUME IInv, ServerExit PROVE IInv'
  OBVIOUS
<1> USE DEF ServerExit
<1>1. Types'
  BY DEF IInv, Types, client_vars
<1>2. ServerInv'
  BY DEF IInv, ServerInv
<1>3. CountInv'
  BY ServerKeepsClients DEF IInv, CountInv, ServerInv
<1> QED
  BY <1>1, <1>2, <1>3, ServerKeepsClients DEF IInv

\* The server takes one post.
LEMMA ServerWaitKeeps == IInv /\ ServerWait => IInv'
<1> SUFFICES ASSUME IInv, ServerWait PROVE IInv'
  OBVIOUS
<1> USE DEF ServerWait
<1>0. PICK s0 \in 1 .. Len(sems), v \in Nat : s0 = semaphore /\ sems[s0].value = v + 1
  <2>1. semaphore \in 1 .. Len(sems)
    BY LenProperties DEF IInv, Types, ServerInv
  <2>2. sems[semaphore].value - 1 \in Nat
    BY <2>1, SemValue DEF IInv
  <2> QED
    BY <2>1, <2>2, SemValue DEF IInv
<1>1. /\ sems' \in Seq([value : Nat, public : BOOLEAN])
      /\ Len(sems) \in Nat /\ Len(sems') = Len(sems)
      /\ \A r \in 1 .. Len(sems) : sems'[r].value = IF r = s0 THEN v ELSE sems[r].value
  <2>1. sems[s0].value - 1 = v
    BY <1>0
  <2>2. sems' = [sems EXCEPT ![s0].value = sems[s0].value - 1]
    BY <1>0
  <2>3. sems' = [sems EXCEPT ![s0].value = v]
    BY <2>1, <2>2
  <2> QED
    BY <2>3, SemChanged, LenProperties DEF IInv, Types
<1>2. Types'
  BY <1>1 DEF IInv, Types, client_vars
<1>3. ServerInv'
  BY DEF IInv, ServerInv
<1>4. CountInv'
  <2>1. ASSUME NEW s \in 1 .. Len(sems') PROVE sems'[s].value <= Cardinality(PostedTo(s)')
    BY <1>0, <1>1, ServerKeepsClients, SemValue, PostedFinite DEF IInv, CountInv
  <2>2. Len(reported') + Reading' + sems'[s0].value = Cardinality(PostedTo(s0)')
    <3>1. Len(reported) + Reading + sems[s0].value = Cardinality(PostedTo(s0))
      BY <1>0, LenProperties DEF IInv, CountInv, Types
    <3>2. Reading = 0 /\ Reading' = 1 /\ Len(reported) \in Nat
      BY LenProperties DEF IInv, Types, Reading
    <3> QED
      BY <1>0, <1>1, <3>1, <3>2, ServerKeepsClients
  <2> QED
    BY <1>0, <2>1, <2>2 DEF CountInv
<1> QED
  BY <1>2, <1>3, <1>4, ServerKeepsClients DEF IInv

\* While the server reads, the job of some client was posted to it whole.
LEMMA WokenByJob ==
  ASSUME IInv, server = "read"
  PROVE  \A i \in 1 .. 4 : shared_mem[i] # Nothing
<1>1. semaphore \in 1 .. Len(sems)
  BY LenProperties DEF IInv, Types, ServerInv
<1>2. Cardinality(PostedTo(semaphore)) # 0
  <2>1. Len(reported) \in Nat /\ sems[semaphore].value \in Nat
    BY <1>1, SemValue, LenProperties DEF IInv, Types
  <2> QED
    BY <1>1, <2>1 DEF IInv, CountInv, Reading, ServerInv
<1>3. PostedTo(semaphore) # {}
  BY <1>2, FS_EmptySet
<1>4. PICK c \in Clients : pc[c] = "accepted"
  BY <1>3 DEF PostedTo
<1> QED
  BY <1>4 DEF IInv, ClientInv

\* The server prints one field.
LEMMA ServerReadKeeps == IInv /\ ServerRead => IInv'
<1> SUFFICES ASSUME IInv, ServerRead PROVE IInv'
  OBVIOUS
<1> USE DEF ServerRead
<1> DEFINE x == shared_mem[Len(seen) + 1]
<1>1. Len(seen) \in 0 .. 2 /\ seen \in Seq(Clients \cup {Nothing})
  <2>1. seen \in Seq(Clients \cup {Nothing}) /\ Len(seen) < 3
    BY DEF IInv, Types
  <2>2. Len(seen) \in Nat
    BY <2>1, LenProperties
  <2>3. PICK n \in Nat : n = Len(seen)
    BY <2>2
  <2>4. n \in 0 .. 2
    BY ONLY <2>1, <2>3
  <2> QED
    BY ONLY <2>1, <2>3, <2>4
<1>2. x \in Clients \cup {Nothing} /\ x # Nothing
  <2>1. Len(seen) + 1 \in 1 .. 4
    BY <1>1
  <2> QED
    BY <2>1, WokenByJob DEF IInv, Types
<1>3. /\ seen' \in Seq(Clients \cup {Nothing}) /\ Len(seen') = Len(seen) + 1
      /\ \A i \in DOMAIN seen' : seen'[i] # Nothing
  <2>1. \A i \in 1 .. Len(seen) : seen[i] # Nothing
    BY <1>1 DEF IInv, ServerInv
  <2> QED
    BY <1>1, <1>2, <2>1, AppendProperties
<1>4. Types'
  BY <1>1, <1>3 DEF IInv, Types, client_vars
<1>5. ServerInv'
  BY <1>3 DEF IInv, ServerInv
<1>6. CountInv'
  BY ServerKeepsClients DEF IInv, CountInv, Reading
<1> QED
  BY <1>4, <1>5, <1>6, ServerKeepsClients DEF IInv

\* The server has printed the last field.
LEMMA ServerDoneKeeps == IInv /\ ServerDone => IInv'
<1> SUFFICES ASSUME IInv, ServerDone PROVE IInv'
  OBVIOUS
<1> USE DEF ServerDone
<1>1. /\ reported' \in Seq(Seq(Clients \cup {Nothing}))
      /\ Len(reported) \in Nat /\ Len(reported') = Len(reported) + 1
  BY AppendProperties, LenProperties DEF IInv, Types
<1>2. Types'
  BY <1>1 DEF IInv, Types, client_vars
<1>3. ServerInv'
  BY DEF IInv, ServerInv
<1>4. CountInv'
  BY <1>1, ServerKeepsClients DEF IInv, CountInv, Reading
<1> QED
  BY <1>2, <1>3, <1>4, ServerKeepsClients DEF IInv

\* The server is killed and started again.
LEMMA ServerRestartKeeps == IInv /\ ServerRestart => IInv'
<1> SUFFICES ASSUME IInv, ServerRestart PROVE IInv'
  OBVIOUS
<1> USE DEF ServerRestart
<1>1. Types'
  BY RestartsAssumption, LenProperties DEF IInv, Types, client_vars
<1>2. ServerInv'
  BY DEF IInv, ServerInv
<1>3. CountInv'
  BY ServerKeepsClients DEF IInv, CountInv
<1> QED
  BY <1>1, <1>2, <1>3, ServerKeepsClients DEF IInv

\* Every step of a client or of the server preserves the invariant.
LEMMA IInvStep == IInv /\ [ClientsNext]_ipc_vars => IInv'
<1> SUFFICES ASSUME IInv, [ClientsNext]_ipc_vars PROVE IInv'
  OBVIOUS
<1>1. CASE \E c \in Clients : Client(c)
  BY <1>1, ClientOpenKeeps, ClientFailKeeps, ClientWriteKeeps, ClientPostKeeps DEF Client
<1>2. CASE Server
  BY <1>2, ServerUnlinkKeeps, ServerOpenKeeps, ServerExitKeeps, ServerWaitKeeps, ServerReadKeeps,
     ServerDoneKeeps DEF Server
<1>3. CASE UNCHANGED ipc_vars
  BY <1>3 DEF ipc_vars, client_vars, server_vars, IInv, Types, ClientInv, ServerInv, CountInv, Reading,
              PostedTo
<1> QED
  BY <1>1, <1>2, <1>3, ServerRestartKeeps DEF ClientsNext

\* In every state of the clients and the server the invariant holds.
THEOREM Invariant == ClientsSpec => []IInv
  BY InitInv, IInvStep, PTL DEF ClientsSpec

-----------------------------------------------------------------------------

\* The counts stay within the number of clients.
LEMMA TypesOK == IInv => ClientsTypeOK
<1> SUFFICES ASSUME IInv PROVE ClientsTypeOK
  OBVIOUS
<1>1. Len(sems) \in Nat /\ sems \in [1 .. Len(sems) -> [value : Nat, public : BOOLEAN]]
  BY LenProperties DEF IInv, Types
<1>2. ASSUME NEW s \in 1 .. Len(sems)
      PROVE  sems[s] \in [value : 0 .. Cardinality(Clients), public : BOOLEAN]
  <2>1. sems[s].value \in 0 .. Cardinality(Clients)
    BY SemValue, PostedFinite DEF IInv, CountInv
  <2> QED
    BY <1>1, <2>1
<1>3. sems \in Seq([value : 0 .. Cardinality(Clients), public : BOOLEAN])
  <2>1. sems \in [1 .. Len(sems) -> [value : 0 .. Cardinality(Clients), public : BOOLEAN]]
    BY <1>1, <1>2
  <2> QED
    BY <1>1, <2>1, FunctionSeq
<1> QED
  BY <1>3, FieldsLen DEF IInv, Types, ClientsTypeOK

\* The server never prints a field that nobody has written, whoever writes over whom
\* and whoever is killed.
THEOREM NoBlankField == ClientsSpec => []NothingBlank
<1>1. IInv => NothingBlank
  BY DEF IInv, ServerInv, NothingBlank
<1> QED
  BY <1>1, Invariant, PTL

\* No wakeup of the server is lost or made up: it prints as often as its semaphore was
\* posted, for every number of clients.
THEOREM NoWakeupLost == ClientsSpec => []WakeupsMatch
<1>1. ASSUME IInv PROVE WakeupsMatch
  <2>1. Posted = PostedTo(semaphore)
    BY DEF Posted, PostedTo
  <2> QED
    BY <1>1, <2>1, TypesOK DEF IInv, CountInv, Reading, WakeupsMatch
<1> QED
  BY <1>1, Invariant, PTL

-----------------------------------------------------------------------------
(* Jobs that come one at a time. *)

\* No job pending means that the server is not printing one.
LEMMA PendingType ==
  ASSUME IInv
  PROVE  /\ Pending \in Nat
         /\ Pending = 0 => server # "read" /\ seen = <<>>
         /\ server = "read" => semaphore # 0
<1>1. Len(sems) \in Nat /\ (semaphore # 0 => semaphore \in 1 .. Len(sems))
  BY LenProperties DEF IInv, Types
<1>2. semaphore # 0 => sems[semaphore].value \in Nat
  BY <1>1, SemValue DEF IInv
<1> QED
  BY <1>2 DEF IInv, ServerInv, Pending, Reading

\* No client begins to write while something is pending.
LEMMA NotBusy ==
  ASSUME IInv, ~Busy
  PROVE  Pending = 0 /\ \A c \in Clients : ~Writing(c)
<1>1. Len(sems) \in Nat /\ (semaphore # 0 => semaphore \in 1 .. Len(sems))
  BY LenProperties DEF IInv, Types
<1>2. semaphore # 0 => sems[semaphore].value \in Nat
  BY <1>1, SemValue DEF IInv
<1> QED
  BY <1>2 DEF Busy, Pending, Reading, Writing

\* A job is known by its name.
LEMMA TripleOnce ==
  ASSUME NEW c, NEW d, Triple(c) = Triple(d)
  PROVE  c = d
  BY DEF Triple

\* What touches neither the block nor what was printed of it, nor lets a client begin.
LEMMA SerialSame ==
  ASSUME IInv, SerialInv, Pending' = Pending,
         UNCHANGED <<shared_mem, seen, reported, written>>,
         \A c \in Clients : pc[c] = "accepted" => pc'[c] = "accepted",
         \A c \in Clients : pc'[c] = "write" => pc[c] = "write" \/ written[c] = 0
  PROVE  SerialInv'
<1>1. \A c \in Clients : Writing(c)' => Writing(c)
  BY DEF Writing, IInv, Types
<1>2. ASSUME NEW c \in Clients, Waits(c) PROVE Waits(c)'
  BY <1>2 DEF Waits, Triple
<1>3. ASSUME NEW c \in Clients, Writing(c)'
      PROVE  /\ Pending' = 0
             /\ \A d \in Clients : Writing(d)' => d = c
             /\ \A i \in 1 .. 3 : i <= written'[c] => shared_mem'[i] = c
  BY <1>1, <1>3 DEF SerialInv
<1>4. ASSUME NEW i \in DOMAIN reported
      PROVE  \E c \in Clients : reported'[i] = Triple(c)' /\ pc'[c] = "accepted"
  BY DEF SerialInv, Triple
<1>5. \A i, j \in DOMAIN reported : reported[i] = reported[j] => i = j
  BY DEF SerialInv
<1>6. Pending <= 1 /\ (Pending = 1 => \E c \in Clients : Waits(c))
  BY DEF SerialInv
<1> QED
  BY <1>2, <1>3, <1>4, <1>5, <1>6 DEF SerialInv

\* A client that begins while no other job is on its way.
LEMMA ClientOpenSerial ==
  ASSUME IInv, SerialInv, NEW c \in Clients, ClientOpen(c)
  PROVE  SerialInv'
<1> USE DEF ClientOpen, server_vars
<1>1. Len(sems) \in Nat /\ (semaphore # 0 => semaphore \in 1 .. Len(sems))
  BY LenProperties DEF IInv, Types
<1>2. \A s \in 1 .. Len(sems) : sems'[s] = sems[s]
  BY SemCreated DEF IInv
<1>3. Pending' = Pending
  BY <1>1, <1>2 DEF Pending, Reading
<1>4. \A d \in Clients : pc[d] = "accepted" => pc'[d] = "accepted"
  BY DEF IInv, Types
<1>5. \A d \in Clients : pc'[d] = "write" => pc[d] = "write" \/ written[d] = 0
  BY DEF IInv, Types, ClientInv
<1> QED
  BY <1>3, <1>4, <1>5, SerialSame

\* A client that gives up wrote nothing.
LEMMA ClientFailSerial ==
  ASSUME IInv, SerialInv, NEW c \in Clients, ClientFail(c)
  PROVE  SerialInv'
<1> USE DEF ClientFail, server_vars
<1>1. Pending' = Pending
  BY DEF Pending, Reading
<1>2. \A d \in Clients : pc[d] = "accepted" => pc'[d] = "accepted"
  BY DEF IInv, Types
<1>3. \A d \in Clients : pc'[d] = "write" => pc[d] = "write" \/ written[d] = 0
  BY DEF IInv, Types
<1> QED
  BY <1>1, <1>2, <1>3, SerialSame

\* A client that writes while the jobs stay serial is the only one that does.
LEMMA ClientWriteSerial ==
  ASSUME IInv, SerialInv, NEW c \in Clients, ClientWrite(c), serial'
  PROVE  SerialInv'
<1> USE FieldsLen DEF ClientWrite, server_vars
<1>0. /\ written[c] \in 0 .. 3 /\ written' = [written EXCEPT ![c] = written[c] + 1]
      /\ written \in [Clients -> 0 .. 4]
      /\ shared_mem \in [1 .. 4 -> Clients \cup {Nothing}]
  BY DEF IInv, Types
<1>1. Pending' = Pending /\ Pending = 0 /\ \A d \in Clients : Writing(d) => d = c
  <2>1. Pending' = Pending
    BY DEF Pending, Reading
  <2>2. CASE written[c] = 0
    BY <2>1, <2>2, NotBusy
  <2>3. CASE written[c] # 0
    BY <1>0, <2>1, <2>3 DEF SerialInv, Writing
  <2> QED
    BY <2>2, <2>3
<1>2. ASSUME NEW d \in Clients, Writing(d)' PROVE d = c
  BY <1>0, <1>1, <1>2 DEF Writing
<1>3. ASSUME NEW i \in 1 .. 3, i <= written'[c] PROVE shared_mem'[i] = c
  <2>1. CASE i = written[c] + 1
    BY <1>0, <2>1
  <2>2. CASE i # written[c] + 1
    <3>1. i <= written[c] /\ Writing(c)
      BY <1>0, <1>3, <2>2 DEF Writing
    <3>2. shared_mem[i] = c
      BY <3>1 DEF SerialInv
    <3> QED
      BY <1>0, <2>2, <3>2
  <2> QED
    BY <2>1, <2>2
<1>4. Pending' = 0 /\ Pending' <= 1 /\ Pending' # 1
  BY <1>1
<1>5. ASSUME NEW i \in DOMAIN reported
      PROVE  \E d \in Clients : reported'[i] = Triple(d)' /\ pc'[d] = "accepted"
  BY DEF SerialInv, Triple
<1>6. \A i, j \in DOMAIN reported : reported[i] = reported[j] => i = j
  BY DEF SerialInv
<1>7. reported' = reported
  OBVIOUS
<1> QED
  BY ONLY <1>2, <1>3, <1>4, <1>5, <1>6, <1>7 DEF SerialInv

\* The block holds the whole job when its client posts.
LEMMA ClientPostSerial ==
  ASSUME IInv, SerialInv, NEW c \in Clients, ClientPost(c)
  PROVE  SerialInv'
<1> USE FieldsLen DEF ClientPost, server_vars
<1>1. Writing(c)
  BY DEF Writing
<1>2. Pending = 0 /\ seen = <<>> /\ server # "read"
  BY <1>1, PendingType DEF SerialInv
<1>3. \A d \in Clients : Writing(d) => d = c
  BY <1>1 DEF SerialInv
<1>4. \A i \in 1 .. 3 : shared_mem[i] = c
  BY <1>1 DEF SerialInv
<1>5. Pending' <= 1 /\ Pending' \in Nat
  <2>1. Len(sems) \in Nat /\ handle[c] \in 1 .. Len(sems)
        /\ (semaphore # 0 => semaphore \in 1 .. Len(sems))
    BY LenProperties DEF IInv, Types, ClientInv
  <2>2. CASE semaphore = 0
    BY <2>2 DEF Pending
  <2>3. CASE semaphore # 0
    <3>1. PICK h \in 1 .. Len(sems), v \in Nat : h = handle[c] /\ v = sems[h].value + 1
      BY <2>1, SemValue DEF IInv
    <3>2. sems' = [sems EXCEPT ![h].value = v]
      BY <3>1 DEF SemPost
    <3>3. \A r \in 1 .. Len(sems) : sems'[r].value = IF r = h THEN v ELSE sems[r].value
      BY <3>2, SemChanged DEF IInv
    <3>4. sems[semaphore].value = 0 /\ Reading' = 0
      BY <1>2, <2>1, <2>3, SemValue DEF Pending, Reading, IInv
    <3>5. sems'[semaphore].value \in {0, 1}
      BY <2>1, <2>3, <3>1, <3>3, <3>4
    <3> QED
      BY <2>3, <3>4, <3>5 DEF Pending
  <2> QED
    BY <2>2, <2>3
<1>6. pc' = [pc EXCEPT ![c] = "accepted"] /\ pc \in [Clients -> {"open", "write", "accepted", "failed"}]
  BY DEF IInv, Types
<1>7. ASSUME NEW d \in Clients PROVE ~Writing(d)'
  BY <1>3, <1>6 DEF Writing
<1>8. ASSUME NEW i \in DOMAIN reported
      PROVE  \E d \in Clients : d # c /\ reported[i] = Triple(d) /\ pc[d] = "accepted"
  BY DEF SerialInv
<1>9. Waits(c)'
  <2>1. \A i \in DOMAIN reported : reported[i] # Triple(c)
    BY <1>8, TripleOnce
  <2> QED
    BY <1>2, <1>4, <1>6, <2>1 DEF Waits, Triple
<1>10. ASSUME NEW i \in DOMAIN reported
       PROVE  \E d \in Clients : reported'[i] = Triple(d)' /\ pc'[d] = "accepted"
  BY <1>6, <1>8 DEF Triple
<1>11. \A i, j \in DOMAIN reported : reported[i] = reported[j] => i = j
  BY DEF SerialInv
<1>12. reported' = reported
  OBVIOUS
<1> QED
  BY ONLY <1>5, <1>7, <1>9, <1>10, <1>11, <1>12 DEF SerialInv

\* A step of the server that neither prints nor starts again.
LEMMA ServerQuietSerial ==
  ASSUME IInv, SerialInv, ServerUnlink \/ ServerOpen \/ ServerExit \/ ServerWait
  PROVE  SerialInv'
<1>1. UNCHANGED <<shared_mem, client_vars, seen, reported>>
  BY DEF ServerUnlink, ServerOpen, ServerExit, ServerWait
<1>2. Pending' = Pending
  <2>1. CASE ServerUnlink \/ ServerExit
    BY <2>1 DEF ServerUnlink, ServerExit, Pending, Reading
  <2>2. CASE ServerOpen
    <3>1. sems'[semaphore'].value = 0
      BY <2>2, SemCreated DEF ServerOpen, IInv
    <3>2. semaphore = 0 /\ Reading' = 0
      BY <2>2 DEF ServerOpen, IInv, ServerInv, Reading
    <3> QED
      BY <3>1, <3>2 DEF Pending
  <2>3. CASE ServerWait
    <3>1. semaphore \in 1 .. Len(sems) /\ semaphore # 0 /\ sems[semaphore].value \in Nat
      <4>1. semaphore \in 1 .. Len(sems)
        BY <2>3, LenProperties DEF IInv, Types, ServerInv, ServerWait
      <4> QED
        BY <2>3, <4>1, SemValue DEF IInv, ServerInv, ServerWait
    <3>2. PICK s \in 1 .. Len(sems), v \in Nat : s = semaphore /\ v = sems[s].value - 1
      BY <2>3, <3>1 DEF ServerWait
    <3>3. sems' = [sems EXCEPT ![s].value = v]
      BY <2>3, <3>2 DEF ServerWait
    <3>4. sems'[s].value = v
      BY <3>3, SemChanged DEF IInv
    <3>5. Reading = 0 /\ Reading' = 1 /\ semaphore' = semaphore
      BY <2>3 DEF ServerWait, Reading
    <3> QED
      BY <3>1, <3>2, <3>4, <3>5 DEF Pending
  <2> QED
    BY <2>1, <2>2, <2>3
<1> QED
  BY <1>1, <1>2, SerialSame DEF client_vars

\* The server prints fields of the one job in the block.
LEMMA ServerReadSerial ==
  ASSUME IInv, SerialInv, ServerRead
  PROVE  SerialInv'
<1> USE DEF ServerRead, client_vars
<1>1. Pending = 1 /\ Pending' = 1
  <2>1. Pending' = Pending
    BY DEF Pending, Reading
  <2>2. Pending \in Nat /\ Pending # 0 /\ Pending <= 1
    BY PendingType DEF SerialInv
  <2> QED
    BY <2>1, <2>2
<1>2. \A d \in Clients : ~Writing(d)'
  BY <1>1 DEF SerialInv, Writing
<1>3. PICK c \in Clients : Waits(c)
  BY <1>1 DEF SerialInv
<1>4. Waits(c)'
  <2>1. seen \in Seq(Clients \cup {Nothing}) /\ Len(seen) < 3 /\ Len(seen) \in Nat
    BY LenProperties DEF IInv, Types
  <2>2. PICK n \in 1 .. 3 : n = Len(seen) + 1
    BY <2>1
  <2>3. shared_mem[n] = c /\ seen' = Append(seen, c)
    BY <1>3, <2>2 DEF Waits
  <2>4. \A i \in 1 .. Len(seen) : seen[i] = c
    BY <1>3, <2>1 DEF Waits
  <2>5. \A i \in DOMAIN seen' : seen'[i] = c
    BY <2>1, <2>3, <2>4, AppendProperties
  <2> QED
    BY <1>3, <2>5 DEF Waits, Triple
<1>5. ASSUME NEW i \in DOMAIN reported
      PROVE  \E d \in Clients : reported'[i] = Triple(d)' /\ pc'[d] = "accepted"
  BY DEF SerialInv, Triple
<1>6. \A i, j \in DOMAIN reported : reported[i] = reported[j] => i = j
  BY DEF SerialInv
<1>7. reported' = reported
  OBVIOUS
<1> QED
  BY ONLY <1>1, <1>2, <1>4, <1>5, <1>6, <1>7 DEF SerialInv

\* The job printed is the one posted, whole and once.
LEMMA ServerDoneSerial ==
  ASSUME IInv, SerialInv, ServerDone
  PROVE  SerialInv'
<1> USE DEF ServerDone, client_vars
<1>1. semaphore \in 1 .. Len(sems) /\ semaphore # 0 /\ sems[semaphore].value \in Nat
  <2>1. semaphore \in 1 .. Len(sems)
    BY LenProperties DEF IInv, Types, ServerInv
  <2> QED
    BY <2>1, SemValue DEF IInv, ServerInv
<1>2. Pending = 1 /\ Pending' = 0
  BY <1>1 DEF Pending, Reading, SerialInv
<1>3. \A d \in Clients : ~Writing(d)'
  BY <1>2 DEF SerialInv, Writing
<1>4. PICK c \in Clients : Waits(c)
  BY <1>2 DEF SerialInv
<1>5. seen = Triple(c)
  <2>1. seen \in Seq(Clients \cup {Nothing}) /\ Len(seen) = 3
    BY DEF IInv, Types
  <2>2. seen[1] = c /\ seen[2] = c /\ seen[3] = c
    BY <1>4, <2>1 DEF Waits
  <2> QED
    BY <2>1, <2>2 DEF Triple
<1>6. /\ reported \in Seq(Seq(Clients \cup {Nothing})) /\ Len(reported) \in Nat
      /\ DOMAIN reported = 1 .. Len(reported) /\ DOMAIN reported' = 1 .. Len(reported) + 1
      /\ \A i \in 1 .. Len(reported) : reported'[i] = reported[i]
      /\ reported'[Len(reported) + 1] = Triple(c)
  <2>1. reported \in Seq(Seq(Clients \cup {Nothing})) /\ seen \in Seq(Clients \cup {Nothing})
    BY DEF IInv, Types
  <2> QED
    BY <1>5, <2>1, AppendProperties, LenProperties
<1>7. ASSUME NEW i \in DOMAIN reported'
      PROVE  \E d \in Clients : reported'[i] = Triple(d)' /\ pc'[d] = "accepted"
  <2>1. CASE i \in DOMAIN reported
    BY <1>6, <2>1 DEF SerialInv, Triple
  <2>2. CASE i = Len(reported) + 1
    BY <1>4, <1>6, <2>2 DEF Waits, Triple
  <2> QED
    BY <1>6, <2>1, <2>2
<1>8. ASSUME NEW i \in DOMAIN reported', NEW j \in DOMAIN reported', reported'[i] = reported'[j]
      PROVE  i = j
  <2>1. \A k \in DOMAIN reported : reported[k] # Triple(c)
    BY <1>4 DEF Waits
  <2>2. \A k, l \in DOMAIN reported : reported[k] = reported[l] => k = l
    BY DEF SerialInv
  <2> QED
    BY ONLY <1>6, <1>8, <2>1, <2>2
<1> QED
  BY ONLY <1>2, <1>3, <1>7, <1>8 DEF SerialInv

\* A restart drops the print it interrupts.
LEMMA ServerRestartSerial ==
  ASSUME IInv, SerialInv, ServerRestart
  PROVE  SerialInv'
<1> USE DEF ServerRestart, client_vars
<1>1. Pending' = 0 /\ reported' = <<>>
  BY DEF Pending
<1>2. \A c \in Clients : Writing(c)' <=> Writing(c)
  BY DEF Writing
<1>3. ASSUME NEW c \in Clients, Writing(c)'
      PROVE  /\ \A d \in Clients : Writing(d)' => d = c
             /\ \A i \in 1 .. 3 : i <= written'[c] => shared_mem'[i] = c
  BY <1>2, <1>3 DEF SerialInv
<1> QED
  BY ONLY <1>1, <1>3 DEF SerialInv

\* Jobs that were serial so far are printed whole so far.
LEMMA WholeInvStep == IInv /\ WholeInv /\ [ClientsNext]_ipc_vars => WholeInv'
<1> SUFFICES ASSUME IInv, WholeInv, [ClientsNext]_ipc_vars, serial' PROVE SerialInv'
  BY DEF WholeInv
<1>1. CASE UNCHANGED ipc_vars
  BY <1>1 DEF ipc_vars, client_vars, server_vars, WholeInv, SerialInv, Pending, Reading, Writing, Waits, Triple
<1>2. ASSUME NEW c \in Clients, Client(c) PROVE SerialInv'
  <2>1. serial
    BY <1>2 DEF Client, ClientOpen, ClientFail, ClientWrite, ClientPost
  <2> QED
    BY <1>2, <2>1, ClientOpenSerial, ClientFailSerial, ClientWriteSerial, ClientPostSerial
    DEF Client, WholeInv
<1>3. CASE Server
  <2>1. serial
    BY <1>3 DEF Server, ServerUnlink, ServerOpen, ServerExit, ServerWait, ServerRead, ServerDone
  <2> QED
    BY <1>3, <2>1, ServerQuietSerial, ServerReadSerial, ServerDoneSerial DEF Server, WholeInv
<1>4. CASE ServerRestart
  BY <1>4, ServerRestartSerial DEF ServerRestart, WholeInv
<1> QED
  BY <1>1, <1>2, <1>3, <1>4 DEF ClientsNext

\* Clients that come one at a time get each job printed whole, once and in their own
\* name, however many there are.
THEOREM OneAtATimeWhole == ClientsSpec => []WholeWhenSerial
<1>1. ClientsInit => WholeInv
  BY DEF ClientsInit, WholeInv, SerialInv, Pending, Writing
<1>2. WholeInv => WholeWhenSerial
  BY DEF WholeInv, SerialInv, WholeWhenSerial, Triple
<1> QED
  BY <1>1, <1>2, Invariant, WholeInvStep, PTL DEF ClientsSpec
=============================================================================
