--------------------------- MODULE PreforkServer ---------------------------
(***************************************************************************)
(* The servers whose workers are made in advance and accept by themselves: *)
(* server/serv02 (children wait in select), server/serv03 (children wait   *)
(* for a lock in shared memory) and server/serv07 (threads wait for a      *)
(* mutex).  Nobody makes a new worker when one is gone.                    *)
(***************************************************************************)
EXTENDS Integers, FiniteSets

CONSTANTS
  Conns,
  nworkers    \* nchildren or nthreads

ASSUME PreforkAssumption == nworkers \in Nat \ {0}

Workers == 0 .. nworkers - 1
None == -1

serv02 == [gate |-> "select", threads |-> FALSE]
serv03 == [gate |-> "lock",   threads |-> FALSE]
serv07 == [gate |-> "lock",   threads |-> TRUE]
Programs == {serv02, serv03, serv07}

VARIABLES
  program,
  main,       \* "spawn", "pause", "wait" (in sig_int) or "exit"
  i,          \* loop variable of main: the next worker to make
  pc,         \* per worker: "none", "gate", "accept", "unlock", "count",
              \* "serve" or "dead"
  lock,       \* holder of the lock or mutex
  own,        \* per worker, the connection it serves
  cptr,       \* connections counted per worker
  net,        \* per connection: "new", "queued", "up" or "closed"
  end,        \* what the client did: "no", "fin" or "bad"
  taken       \* history: connections each worker accepted

vars == <<program, main, i, pc, lock, own, cptr, net, end, taken>>

TypeOK ==
  /\ program \in Programs
  /\ main \in {"spawn", "pause", "wait", "exit"}
  /\ i \in 0 .. nworkers
  /\ pc \in [Workers -> {"none", "gate", "accept", "unlock", "count", "serve", "dead"}]
  /\ lock \in Workers \cup {None}
  /\ own \in [Workers -> Conns \cup {None}]
  /\ cptr \in [Workers -> Nat]
  /\ net \in [Conns -> {"new", "queued", "up", "closed"}]
  /\ end \in [Conns -> {"no", "fin", "bad"}]
  /\ taken \in [Workers -> SUBSET Conns]

Init ==
  /\ program \in Programs
  /\ main = "spawn" /\ i = 0
  /\ pc = [w \in Workers |-> "none"]
  /\ lock = None
  /\ own = [w \in Workers |-> None]
  /\ cptr = [w \in Workers |-> 0]
  /\ net = [c \in Conns |-> "new"]
  /\ end = [c \in Conns |-> "no"]
  /\ taken = [w \in Workers |-> {}]

----------------------------------------------------------------------------
(* The clients: a connection ends, or asks for what web_child refuses.     *)

Request(c) ==
  /\ net[c] = "new" /\ main # "exit"
  /\ net' = [net EXCEPT ![c] = "queued"]
  /\ UNCHANGED <<program, main, i, pc, lock, own, cptr, end, taken>>

End(c) ==
  /\ net[c] \in {"queued", "up"} /\ end[c] = "no" /\ main # "exit"
  /\ \E e \in {"fin", "bad"} : end' = [end EXCEPT ![c] = e]
  /\ UNCHANGED <<program, main, i, pc, lock, own, cptr, net, taken>>

----------------------------------------------------------------------------
(* The main process: it makes the workers, pauses, and on SIGINT ends      *)
(* them.  A child that is dead stays a zombie till then, so its process    *)
(* number is not that of a stranger.                                       *)

MoreWorkers_OneMore == i <= nworkers
MoreWorkers == i < nworkers

Spawn ==
  /\ main = "spawn"
  /\ IF MoreWorkers
     THEN /\ pc' = [pc EXCEPT ![i] = "gate"]
          /\ i' = i + 1
          /\ UNCHANGED main
     ELSE main' = "pause" /\ UNCHANGED <<pc, i>>
  /\ UNCHANGED <<program, lock, own, cptr, net, end, taken>>

\* sig_int of serv02 and serv03 kills the children and waits for them; that
\* of serv07 exits, and the threads with it.
SigInt ==
  /\ main = "pause"
  /\ IF program.threads
     THEN main' = "exit" /\ pc' = [w \in Workers |-> "dead"]
     ELSE main' = "wait" /\ UNCHANGED pc
  /\ UNCHANGED <<program, i, lock, own, cptr, net, end, taken>>

Released(w) == [c \in Conns |-> IF c = own[w] THEN "closed" ELSE net[c]]

\* A child dies of SIGTERM wherever it is.
Killed(w) ==
  /\ main = "wait" /\ pc[w] # "dead"
  /\ pc' = [pc EXCEPT ![w] = "dead"]
  /\ net' = Released(w) /\ own' = [own EXCEPT ![w] = None]
  /\ UNCHANGED <<program, main, i, lock, cptr, end, taken>>

WaitForAll ==
  /\ main = "wait" /\ \A w \in Workers : pc[w] = "dead"
  /\ main' = "exit"
  /\ UNCHANGED <<program, i, pc, lock, own, cptr, net, end, taken>>

----------------------------------------------------------------------------
(* The workers.                                                            *)

Queue == {c \in Conns : net[c] = "queued"}
Go(w, l) == pc' = [pc EXCEPT ![w] = l]

\* Every child that sleeps in select is woken by one connection.
WaitReadable(w) ==
  /\ program.gate = "select" /\ pc[w] = "gate"
  /\ Queue # {}
  /\ Go(w, "accept")
  /\ UNCHANGED <<program, main, i, lock, own, cptr, net, end, taken>>

LockFree_Always == TRUE
LockFree == lock = None

WaitLock(w) ==
  /\ program.gate = "lock" /\ pc[w] = "gate"
  /\ LockFree
  /\ lock' = w
  /\ Go(w, "accept")
  /\ UNCHANGED <<program, main, i, own, cptr, net, end, taken>>

\* accept blocks when another worker was faster.
Accept(w, c) ==
  /\ pc[w] = "accept" /\ net[c] = "queued"
  /\ net' = [net EXCEPT ![c] = "up"]
  /\ own' = [own EXCEPT ![w] = c]
  /\ taken' = [taken EXCEPT ![w] = @ \cup {c}]
  /\ Go(w, IF program.gate = "lock" THEN "unlock" ELSE "count")
  /\ UNCHANGED <<program, main, i, lock, cptr, end>>

\* err_sys or err_quit in a worker: a child goes alone, with the lock if it
\* has it; a thread takes the process with it.
Dies(w) ==
  /\ IF program.threads
     THEN main' = "exit" /\ pc' = [v \in Workers |-> "dead"]
     ELSE Go(w, "dead") /\ UNCHANGED main
  /\ net' = Released(w) /\ own' = [own EXCEPT ![w] = None]
  /\ UNCHANGED <<program, i, lock, cptr, end, taken>>

AcceptFails(w) == pc[w] = "accept" /\ Dies(w)

LockAfter_Kept == lock
LockAfter == None

Unlock(w) ==
  /\ pc[w] = "unlock"
  /\ lock' = LockAfter
  /\ Go(w, "count")
  /\ UNCHANGED <<program, main, i, own, cptr, net, end, taken>>

\* A child counts in its own place of the shared array.  A thread uses the
\* loop variable of main, which it captured by reference: while main loops
\* that is the worker being made, afterwards whatever the storage holds.
Counts(w) == IF program.threads
             THEN IF main = "spawn" THEN {i} ELSE Workers
             ELSE {w}

Count(w) ==
  /\ pc[w] = "count"
  /\ \E v \in Counts(w) :
       cptr' = IF v \in Workers THEN [cptr EXCEPT ![v] = @ + 1] ELSE cptr
  /\ Go(w, "serve")
  /\ UNCHANGED <<program, main, i, lock, own, net, end, taken>>

Serve(w) ==
  /\ pc[w] = "serve" /\ end[own[w]] = "fin"
  /\ net' = Released(w) /\ own' = [own EXCEPT ![w] = None]
  /\ Go(w, "gate")
  /\ UNCHANGED <<program, main, i, lock, cptr, end, taken>>

BadRequest(w) == pc[w] = "serve" /\ end[own[w]] = "bad" /\ Dies(w)

Worker(w) == \/ WaitReadable(w) \/ WaitLock(w) \/ AcceptFails(w) \/ Unlock(w)
             \/ Count(w) \/ Serve(w) \/ BadRequest(w)
             \/ \E c \in Conns : Accept(w, c)

Next == \/ Spawn \/ SigInt \/ WaitForAll
        \/ \E w \in Workers : Worker(w) \/ Killed(w)
        \/ \E c \in Conns : Request(c) \/ End(c)

Spec == Init /\ [][Next]_vars

\* Processes and threads run, SIGTERM kills, a served client ends.
Fairness == /\ WF_vars(Spawn) /\ WF_vars(WaitForAll)
            /\ \A w \in Workers : WF_vars(Worker(w)) /\ WF_vars(Killed(w))
            /\ \A c \in Conns : WF_vars(End(c))

----------------------------------------------------------------------------
(* Properties.                                                             *)

\* With the lock at most one worker is in accept, and only the death of its
\* holder leaves the lock taken; whatever the gate, no connection is accepted by
\* two workers; and a child's counter is the number of connections it accepted
\* (a thread's is not, see Counts).
LockAndCounts ==
  /\ program.gate = "lock" =>
       \A w \in Workers :
         /\ pc[w] \in {"accept", "unlock"} => lock = w
         /\ lock = w => pc[w] \in {"accept", "unlock", "dead"}
  /\ \A v, w \in Workers : v # w => taken[v] \cap taken[w] = {}
  /\ ~program.threads =>
       \A w \in Workers :
         LET n == Cardinality(taken[w])
         IN cptr[w] = n \/ (cptr[w] = n - 1 /\ pc[w] \in {"unlock", "count", "dead"})

\* In the end every connection that was requested has been served, unless no
\* worker is left, the lock went with a worker, or SIGINT came; and after
\* SIGINT the server ends, all its children gone.
LockLost == lock # None /\ pc[lock] = "dead"
Settled ==
  /\ \/ \A c \in Conns : net[c] \in {"new", "closed"}
     \/ main = "exit" \/ LockLost
     \/ \A w \in Workers : pc[w] = "dead"
  /\ main # "wait"
EveryConnectionServed == <>[]Settled
=============================================================================
