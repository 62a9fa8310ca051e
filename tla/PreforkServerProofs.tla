------------------------ MODULE PreforkServerProofs -------------------------
(***************************************************************************)
(* Proofs about PreforkServer for every number of workers, every set of    *)
(* connections and each of the three programs: the lock admits one worker  *)
(* to accept and is lost only with its holder, no connection is accepted   *)
(* twice, and the counters of the children are right.                      *)
(***************************************************************************)
EXTENDS MCProcessServers, FiniteSetTheorems, TLAPS

\* While main makes the workers, those ahead of its loop do not exist.
Ahead == main = "spawn" => \A w \in Workers : w >= i => pc[w] = "none"

\* The lock has a holder exactly while a worker accepts with it; it is that
\* worker, alive or dead.
Locked ==
  program.gate = "lock" =>
    \A w \in Workers :
      /\ pc[w] \in {"accept", "unlock"} => lock = w
      /\ lock = w => pc[w] \in {"accept", "unlock", "dead"}

\* A connection that a worker took is no longer in the kernel's queue, so that
\* no worker can take it again.
TakenOnce ==
  /\ \A w \in Workers : IsFiniteSet(taken[w])
  /\ \A w \in Workers : \A c \in taken[w] : net[c] \in {"up", "closed"}
  /\ \A v, w \in Workers : v # w => taken[v] \cap taken[w] = {}

\* What a child has counted at each place of its loop.
Counted ==
  ~program.threads =>
    \A w \in Workers :
      LET n == Cardinality(taken[w])
      IN  /\ pc[w] \in {"none", "gate", "accept", "serve"} => cptr[w] = n
          /\ pc[w] \in {"unlock", "count"} => cptr[w] = n - 1
          /\ pc[w] = "dead" => cptr[w] = n \/ cptr[w] = n - 1

IInv == TypeOK /\ Ahead /\ Locked /\ TakenOnce /\ Counted

-----------------------------------------------------------------------------
LEMMA InitInv == Init => IInv
<1> SUFFICES ASSUME Init PROVE IInv
  OBVIOUS
<1> USE PreforkAssumption DEF Init
<1>1. TypeOK
  BY DEF TypeOK, Workers, None
<1>2. Ahead /\ Locked
  BY DEF Ahead, Locked, Workers, None
<1>3. TakenOnce
  BY FS_EmptySet DEF TakenOnce
<1>4. Cardinality({}) = 0
  BY FS_EmptySet
<1>5. Counted
  BY <1>4 DEF Counted
<1> QED
  BY <1>1, <1>2, <1>3, <1>5 DEF IInv

LEMMA TypeStep == IInv /\ [Next]_vars => TypeOK'
<1> SUFFICES ASSUME IInv, [Next]_vars PROVE TypeOK'
  OBVIOUS
<1> USE PreforkAssumption
<1>0. TypeOK
  BY DEF IInv
<1>1. /\ i \in 0 .. nworkers /\ cptr \in [Workers -> Nat]
      /\ pc \in [Workers -> {"none", "gate", "accept", "unlock", "count", "serve", "dead"}]
      /\ net \in [Conns -> {"new", "queued", "up", "closed"}]
      /\ own \in [Workers -> Conns \cup {None}]
  BY <1>0 DEF TypeOK
<1>2. ASSUME NEW w \in Workers
      PROVE  Released(w) \in [Conns -> {"new", "queued", "up", "closed"}]
  BY <1>1 DEF Released
<1>3. CASE Spawn
  <2>1. i' \in 0 .. nworkers
    BY <1>1, <1>3 DEF Spawn, MoreWorkers
  <2> QED
    BY <1>0, <1>3, <2>1 DEF TypeOK, Spawn
<1>4. CASE SigInt \/ WaitForAll
  BY <1>0, <1>4 DEF TypeOK, SigInt, WaitForAll
<1>5. ASSUME NEW w \in Workers, WaitReadable(w) \/ WaitLock(w) \/ Unlock(w)
      PROVE  TypeOK'
  BY <1>0, <1>5 DEF TypeOK, WaitReadable, WaitLock, Unlock, Go, LockAfter
<1>6. ASSUME NEW w \in Workers, Count(w)
      PROVE  TypeOK'
  <2>1. cptr' \in [Workers -> Nat]
    BY <1>1, <1>6 DEF Count
  <2> QED
    BY <1>0, <1>6, <2>1 DEF TypeOK, Count, Go
<1>7. ASSUME NEW w \in Workers, Serve(w) \/ Killed(w)
      PROVE  TypeOK'
  <2>1. /\ pc' \in [Workers -> {"none", "gate", "accept", "unlock", "count", "serve", "dead"}]
        /\ own' \in [Workers -> Conns \cup {None}]
        /\ net' \in [Conns -> {"new", "queued", "up", "closed"}]
    BY <1>1, <1>2, <1>7 DEF Serve, Killed, Go
  <2>2. UNCHANGED <<program, main, i, lock, cptr, end, taken>>
    BY <1>7 DEF Serve, Killed
  <2> QED
    BY <1>0, <2>1, <2>2 DEF TypeOK
<1>8. ASSUME NEW w \in Workers, AcceptFails(w) \/ BadRequest(w)
      PROVE  TypeOK'
  <2>1. /\ pc' \in [Workers -> {"none", "gate", "accept", "unlock", "count", "serve", "dead"}]
        /\ own' \in [Workers -> Conns \cup {None}]
        /\ net' \in [Conns -> {"new", "queued", "up", "closed"}]
    <3>1. pc' = [v \in Workers |-> "dead"] \/ pc' = [pc EXCEPT ![w] = "dead"]
      BY <1>8 DEF AcceptFails, BadRequest, Dies, Go
    <3>2. net' = Released(w) /\ own' = [own EXCEPT ![w] = None]
      BY <1>8 DEF AcceptFails, BadRequest, Dies
    <3> QED
      BY <1>1, <1>2, <3>1, <3>2
  <2>2. UNCHANGED <<program, i, lock, cptr, end, taken>> /\ main' \in {main, "exit"}
    BY <1>8 DEF AcceptFails, BadRequest, Dies
  <2> QED
    BY <1>0, <2>1, <2>2 DEF TypeOK
<1>9. ASSUME NEW w \in Workers, NEW c \in Conns, Accept(w, c)
      PROVE  TypeOK'
  BY <1>0, <1>9 DEF TypeOK, Accept, Go
<1>10. ASSUME NEW c \in Conns, Request(c) \/ End(c)
       PROVE  TypeOK'
  BY <1>0, <1>10 DEF TypeOK, Request, End
<1>11. CASE UNCHANGED vars
  BY <1>0, <1>11 DEF TypeOK, vars
<1> QED
  BY <1>3, <1>4, <1>5, <1>6, <1>7, <1>8, <1>9, <1>10, <1>11
     DEF Next, Worker
\* Ahead and Locked depend on the program, the main process, the places of the
\* workers and the lock only.
LEMMA ControlStep == IInv /\ [Next]_vars => Ahead' /\ Locked'
<1> SUFFICES ASSUME IInv, [Next]_vars PROVE Ahead' /\ Locked'
  OBVIOUS
<1> USE PreforkAssumption
<1>0. Ahead /\ Locked
  BY DEF IInv
<1>1. /\ i \in 0 .. nworkers /\ lock \in Workers \cup {None}
      /\ pc \in [Workers -> {"none", "gate", "accept", "unlock", "count", "serve", "dead"}]
  BY DEF IInv, TypeOK
<1>3. CASE Spawn
  <2>1. CASE MoreWorkers
    <3>1. i \in Workers /\ pc' = [pc EXCEPT ![i] = "gate"] /\ i' = i + 1
          /\ main = "spawn" /\ lock' = lock /\ program' = program
      BY <1>1, <1>3, <2>1 DEF Spawn, MoreWorkers, Workers
    <3>2. pc[i] = "none" /\ Ahead'
      BY <1>0, <1>1, <3>1 DEF Ahead, Workers
    <3> QED
      BY <1>0, <1>1, <3>1, <3>2 DEF Locked
  <2>2. CASE ~MoreWorkers
    BY <1>0, <1>3, <2>2 DEF Spawn, Ahead, Locked
  <2> QED
    BY <2>1, <2>2
<1>4. CASE SigInt \/ WaitForAll
  BY <1>0, <1>1, <1>4 DEF Ahead, Locked, SigInt, WaitForAll
<1>5. ASSUME NEW w \in Workers, WaitReadable(w) \/ WaitLock(w) \/ Unlock(w)
      PROVE  Ahead' /\ Locked'
  <2>1. CASE WaitReadable(w)
    BY <1>0, <1>1, <2>1 DEF Ahead, Locked, WaitReadable, Go
  <2>2. CASE WaitLock(w)
    <3>1. w # None /\ \A v \in Workers : v # None
      BY DEF Workers, None
    <3> QED
      BY <1>0, <1>1, <2>2, <3>1 DEF Ahead, Locked, WaitLock, LockFree, Go
  <2>3. CASE Unlock(w)
    <3>1. \A v \in Workers : v # None
      BY DEF Workers, None
    <3> QED
      BY <1>0, <1>1, <2>3, <3>1 DEF Ahead, Locked, Unlock, LockAfter, Go
  <2> QED
    BY <1>5, <2>1, <2>2, <2>3
<1>6. ASSUME NEW w \in Workers, Count(w) \/ Serve(w) \/ Killed(w)
      PROVE  Ahead' /\ Locked'
  <2>1. /\ pc[w] \notin {"none", "accept", "unlock"} \/ main = "wait"
        /\ pc' \in {[pc EXCEPT ![w] = "serve"], [pc EXCEPT ![w] = "gate"],
                    [pc EXCEPT ![w] = "dead"]}
        /\ pc' # [pc EXCEPT ![w] = "dead"] => pc[w] \in {"count", "serve"}
        /\ UNCHANGED <<program, main, i, lock>>
    BY <1>1, <1>6 DEF Count, Serve, Killed, Go
  <2> QED
    BY <1>0, <1>1, <2>1 DEF Ahead, Locked
<1>8. ASSUME NEW w \in Workers, AcceptFails(w) \/ BadRequest(w)
      PROVE  Ahead' /\ Locked'
  BY <1>0, <1>1, <1>8 DEF Ahead, Locked, AcceptFails, BadRequest, Dies, Go
<1>9. ASSUME NEW w \in Workers, NEW c \in Conns, Accept(w, c)
      PROVE  Ahead' /\ Locked'
  BY <1>0, <1>1, <1>9 DEF Ahead, Locked, Accept, Go
<1>10. ASSUME NEW c \in Conns, Request(c) \/ End(c)
       PROVE  Ahead' /\ Locked'
  BY <1>0, <1>10 DEF Ahead, Locked, Request, End
<1>11. CASE UNCHANGED vars
  BY <1>0, <1>11 DEF Ahead, Locked, vars
<1> QED
  BY <1>3, <1>4, <1>5, <1>6, <1>8, <1>9, <1>10, <1>11 DEF Next, Worker

\* Only Accept takes a connection, and it takes a queued one; Released closes
\* and never puts one back.
LEMMA TakenStep == IInv /\ [Next]_vars => TakenOnce'
<1> SUFFICES ASSUME IInv, [Next]_vars PROVE TakenOnce'
  OBVIOUS
<1>0. TakenOnce
  BY DEF IInv
<1>1. /\ net \in [Conns -> {"new", "queued", "up", "closed"}]
      /\ taken \in [Workers -> SUBSET Conns]
  BY DEF IInv, TypeOK
<1>2. ASSUME taken' = taken,
             \A c \in Conns : net[c] \in {"up", "closed"} => net'[c] \in {"up", "closed"}
      PROVE  TakenOnce'
  BY <1>0, <1>1, <1>2 DEF TakenOnce
<1>3. CASE Spawn \/ SigInt \/ WaitForAll \/ UNCHANGED vars
  BY <1>2, <1>3 DEF Spawn, SigInt, WaitForAll, vars
<1>4. ASSUME NEW w \in Workers, WaitReadable(w) \/ WaitLock(w) \/ Unlock(w) \/ Count(w)
      PROVE  TakenOnce'
  BY <1>2, <1>4 DEF WaitReadable, WaitLock, Unlock, Count
<1>5. ASSUME NEW w \in Workers,
             Serve(w) \/ Killed(w) \/ AcceptFails(w) \/ BadRequest(w)
      PROVE  TakenOnce'
  <2>1. taken' = taken /\ net' = Released(w)
    BY <1>5 DEF Serve, Killed, AcceptFails, BadRequest, Dies
  <2> QED
    BY <1>2, <2>1 DEF Released
<1>6. ASSUME NEW w \in Workers, NEW c \in Conns, Accept(w, c)
      PROVE  TakenOnce'
  <2>1. /\ net[c] = "queued" /\ net' = [net EXCEPT ![c] = "up"]
        /\ taken' = [taken EXCEPT ![w] = @ \cup {c}]
    BY <1>6 DEF Accept
  <2>2. \A v \in Workers : c \notin taken[v]
    BY <1>0, <2>1 DEF TakenOnce
  <2>3. taken'[w] = taken[w] \cup {c} /\ \A v \in Workers : v # w => taken'[v] = taken[v]
    BY <1>1, <2>1
  <2>4. IsFiniteSet(taken[w] \cup {c})
    BY <1>0, FS_AddElement DEF TakenOnce
  <2> QED
    BY <1>0, <1>1, <2>1, <2>2, <2>3, <2>4 DEF TakenOnce
<1>7. ASSUME NEW c \in Conns, Request(c) \/ End(c)
      PROVE  TakenOnce'
  BY <1>1, <1>2, <1>7 DEF Request, End
<1> QED
  BY <1>3, <1>4, <1>5, <1>6, <1>7 DEF Next, Worker

LEMMA CountedStep == IInv /\ [Next]_vars => Counted'
<1> SUFFICES ASSUME IInv, [Next]_vars, ~program'.threads PROVE Counted'
  BY DEF Counted
<1>0. program' = program /\ ~program.threads
  BY DEF Next, Worker, Spawn, SigInt, WaitForAll, WaitReadable, WaitLock, Unlock, Count,
         Serve, Killed, AcceptFails, BadRequest, Dies, Accept, Request, End, vars
<1>1. /\ pc \in [Workers -> {"none", "gate", "accept", "unlock", "count", "serve", "dead"}]
      /\ taken \in [Workers -> SUBSET Conns] /\ cptr \in [Workers -> Nat]
  BY DEF IInv, TypeOK
<1>2. ASSUME NEW w \in Workers
      PROVE  /\ IsFiniteSet(taken[w]) /\ Cardinality(taken[w]) \in Nat
             /\ pc[w] \in {"none", "gate", "accept", "serve"} => cptr[w] = Cardinality(taken[w])
             /\ pc[w] \in {"unlock", "count"} => cptr[w] = Cardinality(taken[w]) - 1
             /\ pc[w] = "dead" => \/ cptr[w] = Cardinality(taken[w])
                                 \/ cptr[w] = Cardinality(taken[w]) - 1
  BY <1>0, FS_CardinalityType DEF IInv, Counted, TakenOnce
<1>3. CASE Spawn
  <2>1. taken' = taken /\ cptr' = cptr
    BY <1>3 DEF Spawn
  <2>2. \A w \in Workers : pc'[w] = pc[w] \/ (pc[w] = "none" /\ pc'[w] = "gate")
    <3>1. CASE MoreWorkers
      <4>1. i \in Workers /\ main = "spawn" /\ pc' = [pc EXCEPT ![i] = "gate"]
        BY <1>3, <3>1, PreforkAssumption DEF Spawn, IInv, TypeOK, MoreWorkers, Workers
      <4>2. pc[i] = "none"
        BY <4>1 DEF IInv, Ahead, Workers
      <4> QED
        BY <1>1, <4>1, <4>2
    <3>2. CASE ~MoreWorkers
      BY <1>3, <3>2 DEF Spawn
    <3> QED
      BY <3>1, <3>2
  <2> QED
    BY <1>2, <2>1, <2>2 DEF Counted
<1>4. CASE SigInt \/ WaitForAll \/ UNCHANGED vars
  <2>1. UNCHANGED <<pc, taken, cptr>>
    BY <1>0, <1>4 DEF SigInt, WaitForAll, vars
  <2> QED
    BY <1>2, <2>1 DEF Counted
<1>5. ASSUME NEW w \in Workers,
             \/ WaitReadable(w) \/ WaitLock(w) \/ Unlock(w)
             \/ Serve(w) \/ Killed(w) \/ AcceptFails(w) \/ BadRequest(w)
      PROVE  Counted'
  <2>1. taken' = taken /\ cptr' = cptr
    BY <1>5 DEF WaitReadable, WaitLock, Unlock, Serve, Killed, AcceptFails, BadRequest, Dies
  <2>2. \/ pc[w] \in {"gate", "serve"} /\ pc' = [pc EXCEPT ![w] = "accept"]
        \/ pc[w] = "unlock" /\ pc' = [pc EXCEPT ![w] = "count"]
        \/ pc[w] = "serve" /\ pc' = [pc EXCEPT ![w] = "gate"]
        \/ pc' = [pc EXCEPT ![w] = "dead"]
    <3>1. CASE AcceptFails(w) \/ BadRequest(w)
      BY <1>0, <3>1 DEF AcceptFails, BadRequest, Dies, Go
    <3>2. CASE WaitReadable(w) \/ WaitLock(w) \/ Unlock(w) \/ Serve(w) \/ Killed(w)
      BY <3>2 DEF WaitReadable, WaitLock, Unlock, Serve, Killed, Go
    <3> QED
      BY <1>5, <3>1, <3>2
  <2> QED
    BY <1>1, <1>2, <2>1, <2>2 DEF Counted
<1>6. ASSUME NEW w \in Workers, Count(w)
      PROVE  Counted'
  <2>1. /\ taken' = taken /\ pc[w] = "count" /\ pc' = [pc EXCEPT ![w] = "serve"]
        /\ cptr' = [cptr EXCEPT ![w] = @ + 1]
    BY <1>0, <1>6 DEF Count, Counts, Go
  <2> QED
    BY <1>1, <1>2, <2>1 DEF Counted
<1>7. ASSUME NEW w \in Workers, NEW c \in Conns, Accept(w, c)
      PROVE  Counted'
  <2>1. /\ pc[w] = "accept" /\ cptr' = cptr /\ net[c] = "queued"
        /\ pc' \in {[pc EXCEPT ![w] = "unlock"], [pc EXCEPT ![w] = "count"]}
        /\ taken' = [taken EXCEPT ![w] = @ \cup {c}]
    BY <1>7 DEF Accept, Go
  <2>2. c \notin taken[w]
    BY <2>1 DEF IInv, TakenOnce
  <2>3. Cardinality(taken[w] \cup {c}) = Cardinality(taken[w]) + 1
    BY <1>2, <2>2, FS_AddElement
  <2>4. taken'[w] = taken[w] \cup {c} /\ \A v \in Workers : v # w => taken'[v] = taken[v]
    BY <1>1, <2>1
  <2> QED
    BY <1>1, <1>2, <2>1, <2>3, <2>4 DEF Counted
<1>8. ASSUME NEW c \in Conns, Request(c) \/ End(c)
      PROVE  Counted'
  <2>1. UNCHANGED <<pc, taken, cptr>>
    BY <1>8 DEF Request, End
  <2> QED
    BY <1>2, <2>1 DEF Counted
<1> QED
  BY <1>3, <1>4, <1>5, <1>6, <1>7, <1>8 DEF Next, Worker

-----------------------------------------------------------------------------
(* The theorems.                                                           *)

\* The inductive invariant: the types, which workers exist yet, who holds the
\* lock, which connections are taken, and what the counters have counted.
THEOREM Inductive == Spec => []IInv
<1>1. IInv /\ [Next]_vars => IInv'
  BY TypeStep, ControlStep, TakenStep, CountedStep DEF IInv
<1> QED
  BY InitInv, <1>1, PTL DEF Spec

\* Every variable of serv02, serv03 and serv07 keeps its type.
THEOREM TypeCorrect == Spec => []TypeOK
<1>1. IInv => TypeOK
  BY DEF IInv
<1> QED
  BY Inductive, <1>1, PTL

\* For any number of workers and connections: where there is a lock at most one
\* worker is in accept(), and only the death of its holder leaves it taken; no
\* connection is accepted twice; and a child's counter is the number of
\* connections it took.
THEOREM LockAndCountsHold == Spec => []LockAndCounts
<1>1. IInv => LockAndCounts
  BY DEF IInv, TypeOK, Locked, TakenOnce, Counted, LockAndCounts
<1> QED
  BY Inductive, <1>1, PTL

-----------------------------------------------------------------------------
(* The servers of the family together (MCProcessServers).                  *)

\* The theorems about ForkServer and Serv05, and about ThreadServer, whose
\* callers are a set of their own.
FP == INSTANCE ProcessServersProofs WITH
        program <- fprogram, pc <- fpc, net <- fnet, end <- fend, MaxThreads <- 2
TP == INSTANCE ProcessServersProofs WITH
        program <- fprogram, pc <- fpc, net <- fnet, end <- fend, MaxThreads <- 2,
        Conns <- Callers

\* The modules as MCProcessServers and as the proofs instantiate them are the
\* same: their definitions, all expanded here, are.
LEMMA SameFork ==
  /\ F!Init = FP!Init
  /\ F!Next = FP!Next
  /\ F!vars = FP!vars /\ F!vars' = FP!vars'
  /\ F!TypeOK = FP!TypeOK
  /\ F!NoZombieForgotten = FP!NoZombieForgotten
  /\ F!OnlyOwnConnection = FP!OnlyOwnConnection
  BY Zenon
  DEF F!Init, FP!Init, F!Next, FP!Next, F!vars, FP!vars, F!TypeOK, FP!TypeOK,
      F!NoZombieForgotten, FP!NoZombieForgotten, F!OnlyOwnConnection, FP!OnlyOwnConnection,
      F!Programs, FP!Programs, F!Start, FP!Start, F!Parent, FP!Parent, F!SigInt, FP!SigInt,
      F!Datagram, FP!Datagram, F!Request, FP!Request, F!End, FP!End, F!Drop, FP!Drop,
      F!ChildExit, FP!ChildExit, F!parent, FP!parent, F!kids, FP!kids, F!clients, FP!clients,
      F!udp, FP!udp, F!Zombies, FP!Zombies, F!serv01, FP!serv01, F!StringEcho1, FP!StringEcho1,
      F!StringEcho2, FP!StringEcho2, F!StringEcho3, FP!StringEcho3, F!strserver01,
      FP!strserver01, F!heartbeat_serv, FP!heartbeat_serv, F!ServerSelect, FP!ServerSelect,
      F!Select, FP!Select, F!Fails, FP!Fails, F!CloseConn, FP!CloseConn, F!AnswerDatagram,
      FP!AnswerDatagram, F!SigChld, FP!SigChld, F!NothingToReap, FP!NothingToReap, F!Accept,
      FP!Accept, F!EchoInParent, FP!EchoInParent, F!Fork, FP!Fork, F!Reap, FP!Reap, F!Goto,
      FP!Goto, F!KeptAfterFork, FP!KeptAfterFork, F!Serving, FP!Serving, F!InHand, FP!InHand,
      F!ReapAgain, FP!ReapAgain

LEMMA SameServ05 ==
  /\ D!Init = FP!D!Init
  /\ D!Next = FP!D!Next
  /\ D!vars = FP!D!vars /\ D!vars' = FP!D!vars'
  /\ D!TypeOK = FP!D!TypeOK
  /\ D!FreeChildAtAccept = FP!D!FreeChildAtAccept
  BY Zenon
  DEF D!Init, FP!D!Init, D!Next, FP!D!Next, D!vars, FP!D!vars, D!TypeOK, FP!D!TypeOK,
      D!FreeChildAtAccept, FP!D!FreeChildAtAccept, D!Children, FP!D!Children, D!Parent,
      FP!D!Parent, D!AcceptFails, FP!D!AcceptFails, D!SigInt, FP!D!SigInt, D!ChildDies,
      FP!D!ChildDies, D!Request, FP!D!Request, D!pipes, FP!D!pipes, D!books, FP!D!books,
      D!Listen, FP!D!Listen, D!Over, FP!D!Over, D!Make, FP!D!Make, D!Read, FP!D!Read, D!Select,
      FP!D!Select, D!Accept, FP!D!Accept, D!Die, FP!D!Die, D!Drop, FP!D!Drop, D!Made, FP!D!Made,
      D!Increment, FP!D!Increment, D!AfterHandling, FP!D!AfterHandling, D!Watched, FP!D!Watched,
      D!Ready, FP!D!Ready, D!Free, FP!D!Free, D!Pending, FP!D!Pending

LEMMA SameThreads ==
  /\ T!Init = TP!T!Init
  /\ T!Next = TP!T!Next
  /\ T!vars = TP!T!vars /\ T!vars' = TP!T!vars'
  /\ T!TypeOK = TP!T!TypeOK
  /\ T!AloneIsServed = TP!T!AloneIsServed
  BY Zenon
  DEF T!Init, TP!T!Init, T!Next, TP!T!Next, T!vars, TP!T!vars, T!TypeOK, TP!T!TypeOK,
      T!AloneIsServed, TP!T!AloneIsServed, T!ReqLen, TP!T!ReqLen, T!NUL, TP!T!NUL, T!Threads,
      TP!T!Threads, T!Ask, TP!T!Ask, T!CloseConn, TP!T!CloseConn, T!Accept, TP!T!Accept,
      T!AcceptFails, TP!T!AcceptFails, T!Ends, TP!T!Ends, T!Thread, TP!T!Thread, T!net,
      TP!T!net, T!shared, TP!T!shared, T!Huge, TP!T!Huge, T!Chars, TP!T!Chars, T!Start,
      TP!T!Start, T!End, TP!T!End, T!Test, TP!T!Test, T!ReadSome, TP!T!ReadSome, T!ReadFails,
      TP!T!ReadFails, T!ReadEof, TP!T!ReadEof, T!Rewind, TP!T!Rewind, T!Dec, TP!T!Dec,
      T!Garbage, TP!T!Garbage, T!Fetch, TP!T!Fetch, T!Quit, TP!T!Quit, T!Answer, TP!T!Answer,
      T!AnswerFails, TP!T!AnswerFails, T!Alive, TP!T!Alive, T!At, TP!T!At, T!Load, TP!T!Load,
      T!Goto, TP!T!Goto, T!Rewound, TP!T!Rewound, T!Less, TP!T!Less, T!NewLine, TP!T!NewLine,
      T!Cardinality, TP!T!Cardinality

\* One server runs: a step of the family is a step of that server, and leaves
\* what belongs to the others as it is.
LEMMA OneRuns ==
  ASSUME [AnyNext]_allvars
  PROVE  /\ [Next]_vars /\ [F!Next]_(F!vars) /\ [D!Next]_(D!vars) /\ [T!Next]_(T!vars)
<1> DEFINE
      NoFork == UNCHANGED fvars => UNCHANGED F!vars
      NoPass == UNCHANGED dvars => UNCHANGED D!vars
      NoThread == UNCHANGED tvars => UNCHANGED T!vars
<1>1. NoFork
  BY DEF fvars, F!vars, F!parent, F!kids, F!clients, F!udp
<1>2. NoPass
  BY DEF dvars, D!vars, D!pipes, D!books
<1>3. NoThread
  BY DEF tvars, T!vars, T!net, T!shared
<1> HIDE DEF NoFork, NoPass, NoThread
<1>4. UNCHANGED allvars => UNCHANGED <<vars, fvars, dvars, tvars>>
  BY DEF allvars
<1>5. CASE Fork(F!Next)
  BY <1>2, <1>3, <1>5 DEF Fork, NoPass, NoThread
<1>6. CASE Prefork(Next)
  BY <1>1, <1>2, <1>3, <1>6 DEF Prefork, NoFork, NoPass, NoThread
<1>7. CASE Pass(D!Next)
  BY <1>1, <1>3, <1>7 DEF Pass, NoFork, NoThread
<1>8. CASE Threaded(T!Next)
  BY <1>1, <1>2, <1>8 DEF Threaded, NoFork, NoPass
<1>9. CASE UNCHANGED allvars
  BY <1>1, <1>2, <1>3, <1>4, <1>9 DEF NoFork, NoPass, NoThread
<1> QED
  BY <1>5, <1>6, <1>7, <1>8, <1>9 DEF AnyNext

LEMMA FamilyRuns == AnySpec => Spec /\ FP!Spec /\ FP!D!Spec /\ TP!T!Spec
<1>1. AnyInit => Init /\ FP!Init /\ FP!D!Init /\ TP!T!Init
  BY SameFork, SameServ05, SameThreads DEF AnyInit
<1>2. [AnyNext]_allvars =>
        [Next]_vars /\ [FP!Next]_(FP!vars) /\ [FP!D!Next]_(FP!D!vars) /\ [TP!T!Next]_(TP!T!vars)
  <2> SUFFICES ASSUME [AnyNext]_allvars
               PROVE  /\ [Next]_vars /\ [FP!Next]_(FP!vars)
                      /\ [FP!D!Next]_(FP!D!vars) /\ [TP!T!Next]_(TP!T!vars)
    OBVIOUS
  <2>1. [Next]_vars
    BY OneRuns
  <2>2. [FP!Next]_(FP!vars)
    BY OneRuns, SameFork
  <2>3. [FP!D!Next]_(FP!D!vars)
    BY OneRuns, SameServ05
  <2>4. [TP!T!Next]_(TP!T!vars)
    BY OneRuns, SameThreads
  <2> QED
    BY <2>1, <2>2, <2>3, <2>4
<1> QED
  BY <1>1, <1>2, PTL DEF AnySpec, Spec, FP!Spec, FP!D!Spec, TP!T!Spec

\* However the children of a server that forks end and signals merge: a loop
\* over waitpid leaves no zombie that no signal will collect.
THEOREM EveryZombie == AnySpec => []NoZombieForgotten
<1>1. FP!NoZombieForgotten => NoZombieForgotten
  BY SameFork DEF NoZombieForgotten
<1> QED
  BY <1>1, FamilyRuns, FP!ZombiesCollected, ProcessAssumption, PTL

\* No child inherits the connection of another, and the parent that waits for
\* the next connection holds none.
THEOREM EveryConnection == AnySpec => []OnlyOwnConnection
<1>1. FP!OnlyOwnConnection => OnlyOwnConnection
  BY SameFork DEF OnlyOwnConnection
<1> QED
  BY <1>1, FamilyRuns, FP!OwnConnection, ProcessAssumption, PTL

\* The parent of serv05 accepts only with a child marked ready, however navail
\* drifts.
THEOREM EveryAccept == AnySpec => []FreeChildAtAccept
<1>1. FP!D!FreeChildAtAccept => FreeChildAtAccept
  BY SameServ05 DEF FreeChildAtAccept
<1> QED
  BY <1>1, FamilyRuns, FP!ChildForConnection, ProcessAssumption, PTL

\* Callers of serv06 that come one after the other get their own answers,
\* although the threads share one buffer without a lock.
THEOREM EveryCaller == AnySpec => []AloneIsServed
<1>1. TP!T!AloneIsServed => AloneIsServed
  BY SameThreads DEF AloneIsServed
<1> QED
  BY <1>1, FamilyRuns, TP!ServedAlone, ProcessAssumption, PTL

\* Every variable of the four servers keeps its type.
THEOREM AllTypesCorrect == AnySpec => []AllTypeOK
<1>1. TypeOK /\ FP!TypeOK /\ FP!D!TypeOK /\ TP!T!TypeOK => AllTypeOK
  BY SameFork, SameServ05, SameThreads DEF AllTypeOK
<1> QED
  BY <1>1, FamilyRuns, TypeCorrect, FP!TypeCorrect, FP!Serv05Types, TP!ThreadTypes,
     ProcessAssumption, PTL
=============================================================================
