---------------------------- MODULE ThreadPool -----------------------------
(***************************************************************************)
(* server/serv08: a prethreaded TCP server in which the main thread calls  *)
(* Accept and puts each connected descriptor into the ring clifd, and a    *)
(* fixed set of detached threads takes descriptors out of it.  The ring,   *)
(* iget and iput are guarded by one mutex; a condition variable wakes the  *)
(* threads.  exit() by any thread ends the whole process.                  *)
(*                                                                         *)
(* A connection is named by the order in which Accept returned it.         *)
(***************************************************************************)
EXTENDS Integers, Sequences, FiniteSets

CONSTANTS
  nthreads,   \* number of worker threads, the last command line argument
  MAXNCLI,    \* size of the ring (32 in the source)
  MaxConns    \* bound: connections accepted in a behaviour

ASSUME PoolAssumption == /\ nthreads \in Nat \ {0}
                         /\ MAXNCLI \in Nat \ {0}
                         /\ MaxConns \in Nat

Threads == 0 .. nthreads - 1
Conns   == 1 .. MaxConns
Free    == -1      \* nobody holds the mutex
Main    == -2      \* the main thread, as owner of the mutex
NoSlot  == -1

VARIABLES
  status,     \* "running", or why the process has exited
  i,          \* loop variable of the creating loop, captured by reference
  mainPc,     \* where the main thread is
  pc,         \* where each worker is
  mutex,      \* the owner of m
  clifd, iget, iput,
  connfd,     \* each worker's local connfd
  slot,       \* index of tptr each worker last incremented
  accepted,   \* connections Accept has returned so far
  taken,      \* history: connections taken out of the ring, in order
  closed      \* connections a worker has closed

ring == <<clifd, iget, iput>>
vars == <<status, i, mainPc, pc, mutex, ring, connfd, slot, accepted, taken, closed>>

TypeOK ==
  /\ status \in {"running", "full", "accept error", "bad request", "SIGINT"}
  /\ i \in 0 .. nthreads
  /\ mainPc \in {"spawn", "accept", "lock", "put", "unlock", "quit"}
  /\ pc \in [Threads -> {"unborn", "lock", "test", "wait", "unlock", "count", "serve"}]
  /\ mutex \in Threads \cup {Free, Main}
  /\ clifd \in [0 .. MAXNCLI - 1 -> 0 .. MaxConns]
  /\ iget \in 0 .. MAXNCLI - 1
  /\ iput \in 0 .. MAXNCLI - 1
  /\ connfd \in [Threads -> 0 .. MaxConns]
  /\ slot \in [Threads -> 0 .. nthreads \cup {NoSlot}]
  /\ accepted \in 0 .. MaxConns
  /\ taken \in Seq(Conns)
  /\ closed \in SUBSET Conns

Init ==
  /\ status = "running"
  /\ i = 0
  /\ mainPc = "spawn"
  /\ pc = [t \in Threads |-> "unborn"]
  /\ mutex = Free
  /\ clifd = [k \in 0 .. MAXNCLI - 1 |-> 0]
  /\ iget = 0 /\ iput = 0
  /\ connfd = [t \in Threads |-> 0]
  /\ slot = [t \in Threads |-> NoSlot]
  /\ accepted = 0
  /\ taken = <<>>
  /\ closed = {}

----------------------------------------------------------------------------
(* Helpers shared by the two sides.                                        *)

Running == status = "running"

GoTo(t, from, to) == pc[t] = from /\ pc' = [pc EXCEPT ![t] = to]
MainGoTo(from, to) == mainPc = from /\ mainPc' = to

\* `if (++k == MAXNCLI) k = 0`
Advance_NoWrap(k) == k + 1
Advance(k) == IF k + 1 = MAXNCLI THEN 0 ELSE k + 1

Acquire(owner) == mutex = Free /\ mutex' = owner

RingEmpty_Always == TRUE
RingEmpty == iget = iput

\* The test of the main thread after it has advanced iput to put.
RingFull_Early(put) == Advance(put) = iget
RingFull(put) == put = iget

\* The element `clifd[iput++] = connfd` stores into.
StoreIndex_Pre == Advance(iput)
StoreIndex == iput

NextGet_Stuck == iget
NextGet == Advance(iget)

Waiters == {t \in Threads : pc[t] = "wait"}

\* cv.notify_one(): wakes one thread that waits, if there is one.
NotifyOne_Lost == UNCHANGED pc
NotifyOne ==
  IF Waiters = {} THEN UNCHANGED pc
  ELSE \E t \in Waiters : pc' = [pc EXCEPT ![t] = "lock"]

----------------------------------------------------------------------------
(* The main thread.                                                        *)

Spawn ==
  /\ mainPc = "spawn" /\ i < nthreads
  /\ pc' = [pc EXCEPT ![i] = "lock"]
  /\ i' = i + 1
  /\ UNCHANGED <<status, mainPc, mutex, ring, connfd, slot, accepted, taken, closed>>

EndSpawn ==
  /\ i = nthreads
  /\ MainGoTo("spawn", "accept")
  /\ UNCHANGED <<status, i, pc, mutex, ring, connfd, slot, accepted, taken, closed>>

Accept ==
  /\ accepted < MaxConns
  /\ accepted' = accepted + 1
  /\ MainGoTo("accept", "lock")
  /\ UNCHANGED <<status, i, pc, mutex, ring, connfd, slot, taken, closed>>

\* Any error but ECONNABORTED and EPROTO makes the wrapper call err_sys.
AcceptFails ==
  /\ MainGoTo("accept", "quit")
  /\ status' = "accept error"
  /\ UNCHANGED <<i, pc, mutex, ring, connfd, slot, accepted, taken, closed>>

MainLock ==
  /\ Acquire(Main)
  /\ MainGoTo("lock", "put")
  /\ UNCHANGED <<status, i, pc, ring, connfd, slot, accepted, taken, closed>>

\* Stores the descriptor, advances iput, and either finds the ring full
\* (err_quit) or wakes a thread; the mutex is still held.
MainPut ==
  /\ mainPc = "put"
  /\ clifd' = [clifd EXCEPT ![StoreIndex] = accepted]
  /\ iput' = Advance(iput)
  /\ IF RingFull(iput')
     THEN status' = "full" /\ mainPc' = "quit" /\ UNCHANGED pc
     ELSE NotifyOne /\ mainPc' = "unlock" /\ UNCHANGED status
  /\ UNCHANGED <<i, mutex, iget, connfd, slot, accepted, taken, closed>>

\* End of the loop body: the lock_guard is destroyed.
MainUnlock ==
  /\ MainGoTo("unlock", "accept")
  /\ mutex' = Free
  /\ UNCHANGED <<status, i, pc, ring, connfd, slot, accepted, taken, closed>>

----------------------------------------------------------------------------
(* A worker thread.                                                        *)

\* Constructing the unique_lock, and taking the mutex back after cv.wait.
Lock(t) ==
  /\ Acquire(t)
  /\ GoTo(t, "lock", "test")
  /\ UNCHANGED <<status, i, mainPc, ring, connfd, slot, accepted, taken, closed>>

\* `while (iget == iput) cv.wait(lock)`: releases the mutex and waits.
Wait(t) ==
  /\ RingEmpty
  /\ GoTo(t, "test", "wait")
  /\ mutex' = Free
  /\ UNCHANGED <<status, i, mainPc, ring, connfd, slot, accepted, taken, closed>>

\* A condition variable may wake a waiting thread for no reason.
SpuriousWakeup(t) ==
  /\ GoTo(t, "wait", "lock")
  /\ UNCHANGED <<status, i, mainPc, mutex, ring, connfd, slot, accepted, taken, closed>>

Take(t) ==
  /\ ~RingEmpty
  /\ GoTo(t, "test", "unlock")
  /\ connfd' = [connfd EXCEPT ![t] = clifd[iget]]
  /\ taken' = Append(taken, clifd[iget])
  /\ iget' = NextGet
  /\ UNCHANGED <<status, i, mainPc, mutex, clifd, iput, slot, accepted, closed>>

Unlock(t) ==
  /\ GoTo(t, "unlock", "count")
  /\ mutex' = Free
  /\ UNCHANGED <<status, i, mainPc, ring, connfd, slot, accepted, taken, closed>>

\* `++tptr[i].thread_count` through the reference to the loop variable: its
\* current value while the loop runs, and after the loop, when the variable
\* is gone, whatever its storage holds (nthreads stands for every index
\* past the array).  Nothing reads the counters, so only the slot is kept.
IndexSeen == IF mainPc = "spawn" THEN {i} ELSE 0 .. nthreads

Count(t) ==
  /\ GoTo(t, "count", "serve")
  /\ \E k \in IndexSeen : slot' = [slot EXCEPT ![t] = k]
  /\ UNCHANGED <<status, i, mainPc, mutex, ring, connfd, accepted, taken, closed>>

\* web_child returns when the client closes; then Close(connfd).
Serve(t) ==
  /\ GoTo(t, "serve", "lock")
  /\ closed' = closed \cup {connfd[t]}
  /\ UNCHANGED <<status, i, mainPc, mutex, ring, connfd, slot, accepted, taken>>

\* web_child calls err_quit on a request outside 1..MAXN.
BadRequest(t) ==
  /\ pc[t] = "serve"
  /\ status' = "bad request"
  /\ UNCHANGED <<i, mainPc, pc, mutex, ring, connfd, slot, accepted, taken, closed>>

----------------------------------------------------------------------------
\* SIGINT: before Signal() the default action, afterwards sig_int, end the
\* process; sig_int only prints the CPU time first.
SigInt ==
  /\ status' = "SIGINT"
  /\ UNCHANGED <<i, mainPc, pc, mutex, ring, connfd, slot, accepted, taken, closed>>

MainStep == Spawn \/ EndSpawn \/ Accept \/ AcceptFails
              \/ MainLock \/ MainPut \/ MainUnlock
Worker(t) == Lock(t) \/ Wait(t) \/ Take(t) \/ Unlock(t) \/ Count(t) \/ Serve(t)

Next == /\ Running
        /\ \/ MainStep
           \/ \E t \in Threads : Worker(t) \/ SpuriousWakeup(t) \/ BadRequest(t)
           \/ SigInt

Spec == Init /\ [][Next]_vars

(***************************************************************************)
(* Fairness: the scheduler runs every thread that can run; a thread asking *)
(* for the mutex gets it at last if it is released again and again (strong *)
(* fairness on the two lock steps); every client closes its connection at  *)
(* last, so web_child returns.  Nothing is assumed of arrivals, signals,   *)
(* spurious wakeups or accept errors.                                      *)
(***************************************************************************)
Fairness ==
  /\ WF_vars(Running /\ (Spawn \/ EndSpawn \/ MainPut \/ MainUnlock))
  /\ SF_vars(Running /\ MainLock)
  /\ \A t \in Threads :
       /\ WF_vars(Running /\ (Wait(t) \/ Take(t) \/ Unlock(t) \/ Count(t) \/ Serve(t)))
       /\ SF_vars(Running /\ Lock(t))

FairSpec == Spec /\ Fairness

----------------------------------------------------------------------------
(* Properties.                                                             *)

\* Number of steps forward round the ring from index a to index b.
Dist(a, b) == IF b >= a THEN b - a ELSE b - a + MAXNCLI

\* Connections put into the ring so far: the newest is still in the main
\* thread's hands while it waits for the mutex.
PutCount == IF mainPc \in {"lock", "put"} THEN accepted - 1 ELSE accepted

Holding(t) == pc[t] \in {"unlock", "count", "serve"}

\* Only one thread is between taking and releasing the mutex m (the
\* lock_guard of the main loop, the unique_lock of the workers).
MutualExclusion ==
  /\ mutex = Main <=> mainPc \in {"put", "unlock"} \/ status = "full"
  /\ \A t \in Threads : mutex = t <=> pc[t] \in {"test", "unlock"}

\* Workers take connections in the order Accept returned them, none twice
\* and none skipped, whatever the interleaving of put, take and wrap-around.
TakenInOrder == \A k \in 1 .. Len(taken) : taken[k] = k

\* A connection is in the hands of at most one worker, and no worker holds
\* one that has been closed.
ExclusiveService ==
  \A t \in Threads : Holding(t) =>
    /\ connfd[t] \in 1 .. Len(taken)
    /\ connfd[t] \notin closed
    /\ \A u \in Threads \ {t} : Holding(u) => connfd[u] # connfd[t]

\* No wakeup is lost: while a descriptor lies in the ring, some worker is
\* not asleep in cv.wait (serv08 notifies once per put and re-tests).
NoLostWakeup ==
  Running /\ iget # iput => \E t \in Threads : pc[t] # "wait"

\* err_quit("iput == iget") fires exactly when MAXNCLI connections wait, so
\* iget = iput always means an empty ring to the workers.
QuitOnlyWhenFull ==
  /\ status = "full" => PutCount - Len(taken) = MAXNCLI
  /\ status # "full" => PutCount - Len(taken) = Dist(iget, iput)

\* The ring between iget and iput holds the waiting connections in order.
RingHoldsWaiting ==
  \A k \in 0 .. MAXNCLI - 1 :
    Dist(iget, k) < PutCount - Len(taken) => clifd[k] = Len(taken) + 1 + Dist(iget, k)

\* The ring and its history implement the connection queue of ConnQueue.
Queue == INSTANCE ConnQueue WITH
           waiting  <- [k \in 1 .. (IF status = "full" THEN MAXNCLI ELSE Dist(iget, iput))
                          |-> clifd[(iget + k - 1) % MAXNCLI]],
           handed   <- taken,
           up       <- Running,
           Capacity <- MAXNCLI - 1

ImplementsQueue == Queue!Spec

\* Every accepted connection is served and closed, unless the process exits.
EveryConnectionServed ==
  \A c \in Conns : (accepted >= c) ~> (c \in closed \/ ~Running)

\* Each worker counts its connections in its own element of tptr
\* (Thread::thread_count is one counter per thread).
CountsInOwnSlot == \A t \in Threads : slot[t] \in {NoSlot, t}
=============================================================================
