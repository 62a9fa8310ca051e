------------------------- MODULE ThreadPoolProofs --------------------------
(***************************************************************************)
(* Proofs about ThreadPool for every number of threads, every ring size    *)
(* and every number of connections: type correctness, mutual exclusion,    *)
(* the first-in first-out hand-over without loss or duplication, exclusive *)
(* service of a connection, and the absence of lost wakeups.               *)
(***************************************************************************)
EXTENDS ThreadPool, SequenceTheorems, TLAPS

\* A closed connection has been taken out of the ring before.
ClosedWasTaken == closed \subseteq 1 .. Len(taken)

\* The threads not created yet are those the loop has still to reach.
UnbornAhead == \A t \in Threads : pc[t] = "unborn" <=> t >= i

\* The inductive invariant: what the ring holds (RingHoldsWaiting) and how
\* much (QuitOnlyWhenFull) is what makes the next connection taken the right
\* one; mutual exclusion is what keeps the two apart.
IInv ==
  /\ TypeOK
  /\ UnbornAhead
  /\ MutualExclusion
  /\ QuitOnlyWhenFull
  /\ RingHoldsWaiting
  /\ TakenInOrder
  /\ ClosedWasTaken
  /\ ExclusiveService
  /\ NoLostWakeup

----------------------------------------------------------------------------
(* Arithmetic of the ring.                                                 *)

\* Advance stays inside the ring.
LEMMA AdvanceInRing ==
  ASSUME NEW k \in 0 .. MAXNCLI - 1
  PROVE  Advance(k) \in 0 .. MAXNCLI - 1
  BY PoolAssumption DEF Advance

\* A put (iput advances) makes the window one longer unless it wraps onto
\* iget; a get (iget advances) makes it one shorter.
LEMMA DistAfterPut ==
  ASSUME NEW g \in 0 .. MAXNCLI - 1, NEW p \in 0 .. MAXNCLI - 1
  PROVE  /\ Advance(p) # g => Dist(g, Advance(p)) = Dist(g, p) + 1
         /\ Advance(p) = g => Dist(g, p) = MAXNCLI - 1
  BY PoolAssumption DEF Advance, Dist

LEMMA DistAfterGet ==
  ASSUME NEW g \in 0 .. MAXNCLI - 1, NEW k \in 0 .. MAXNCLI - 1, g # k
  PROVE  Dist(Advance(g), k) = Dist(g, k) - 1
  BY PoolAssumption DEF Advance, Dist

LEMMA DistInjective ==
  ASSUME NEW g \in 0 .. MAXNCLI - 1,
         NEW j \in 0 .. MAXNCLI - 1, NEW k \in 0 .. MAXNCLI - 1
  PROVE  /\ Dist(g, j) \in 0 .. MAXNCLI - 1
         /\ Dist(g, j) = Dist(g, k) => j = k
         /\ Dist(g, j) = 0 <=> g = j
  BY PoolAssumption DEF Dist

\* The indices of the window, in the form the refinement mapping has them.
LEMMA Wrap ==
  ASSUME NEW g \in 0 .. MAXNCLI - 1, NEW k \in 1 .. MAXNCLI
  PROVE  /\ (g + k - 1) % MAXNCLI \in 0 .. MAXNCLI - 1
         /\ Dist(g, (g + k - 1) % MAXNCLI) = k - 1
<1>1. (g + k - 1) % MAXNCLI = IF g + k - 1 < MAXNCLI THEN g + k - 1 ELSE g + k - 1 - MAXNCLI
  BY PoolAssumption
<1> QED
  BY <1>1, PoolAssumption DEF Dist

----------------------------------------------------------------------------
LEMMA InitIInv == Init => IInv
<1> SUFFICES ASSUME Init PROVE IInv
  OBVIOUS
<1> USE PoolAssumption DEF Init
<1>1. TypeOK
  BY DEF TypeOK, Threads, Free, Main, NoSlot, Conns
<1>2. MutualExclusion
  BY DEF MutualExclusion, Threads, Free, Main
<1>2a. UnbornAhead
  BY DEF UnbornAhead, Threads
<1>3. QuitOnlyWhenFull /\ RingHoldsWaiting
  BY DEF QuitOnlyWhenFull, RingHoldsWaiting, PutCount, Dist
<1>4. TakenInOrder /\ ClosedWasTaken /\ ExclusiveService /\ NoLostWakeup
  BY DEF TakenInOrder, ClosedWasTaken, ExclusiveService, NoLostWakeup, Holding
<1> QED
  BY <1>1, <1>2, <1>2a, <1>3, <1>4 DEF IInv

\* What Take appends to the history is the oldest waiting connection.
LEMMA TakesOldest ==
  ASSUME IInv, Running, NEW t \in Threads, Take(t)
  PROVE  /\ clifd[iget] = Len(taken) + 1
         /\ clifd[iget] \in Conns
         /\ Len(taken) < PutCount
         /\ taken' = Append(taken, Len(taken) + 1)
         /\ Len(taken') = Len(taken) + 1
         /\ \A k \in 1 .. Len(taken) : taken'[k] = taken[k]
         /\ taken'[Len(taken) + 1] = Len(taken) + 1
<1> USE PoolAssumption
<1>0. /\ iget # iput
      /\ taken' = Append(taken, clifd[iget])
  BY DEF Take, RingEmpty
<1>1. /\ iget \in 0 .. MAXNCLI - 1 /\ iput \in 0 .. MAXNCLI - 1
      /\ taken \in Seq(Conns)
      /\ accepted \in 0 .. MaxConns
  BY DEF IInv, TypeOK
<1>1a. Len(taken) \in Nat /\ PutCount \in Int /\ PutCount <= MaxConns
  BY <1>1 DEF PutCount
<1>2. PutCount - Len(taken) = Dist(iget, iput)
  BY DEF IInv, QuitOnlyWhenFull, Running
<1>3. Dist(iget, iget) = 0 /\ Dist(iget, iput) > 0
  BY <1>0, <1>1 DEF Dist
<1>4. clifd[iget] = Len(taken) + 1
  BY <1>1, <1>1a, <1>2, <1>3 DEF IInv, RingHoldsWaiting
<1>5. Len(taken) < PutCount /\ clifd[iget] \in Conns
  BY <1>1, <1>1a, <1>2, <1>3, <1>4 DEF Conns
<1> QED
  BY <1>0, <1>1, <1>1a, <1>4, <1>5

----------------------------------------------------------------------------
(* Each conjunct of IInv is preserved by every step.                       *)

\* The types of the variables.
LEMMA TypeStep == IInv /\ [Next]_vars => TypeOK'
<1> SUFFICES ASSUME IInv, [Next]_vars PROVE TypeOK'
  OBVIOUS
<1> USE PoolAssumption
<1>0. TypeOK
  BY DEF IInv
<1>a. /\ i \in 0 .. nthreads /\ accepted \in 0 .. MaxConns
      /\ iget \in 0 .. MAXNCLI - 1 /\ iput \in 0 .. MAXNCLI - 1
      /\ taken \in Seq(Conns)
      /\ \A t \in Threads : connfd[t] \in 0 .. MaxConns
  BY <1>0 DEF TypeOK
<1>1. ASSUME NEW k \in 0 .. MAXNCLI - 1 PROVE Advance(k) \in 0 .. MAXNCLI - 1
  BY AdvanceInRing
<1>2. CASE UNCHANGED vars
  BY <1>0, <1>2 DEF TypeOK, vars, ring
<1>3. ASSUME Running, MainStep PROVE TypeOK'
  <2>1. CASE Spawn
    <3>1. i' \in 0 .. nthreads /\ i \in Threads
      BY <1>a, <2>1 DEF Spawn, Threads
    <3> QED
      BY <1>0, <2>1, <3>1 DEF Spawn, TypeOK, ring
  <2>2. CASE EndSpawn
    BY <1>0, <2>2 DEF EndSpawn, MainGoTo, TypeOK, ring
  <2>4. CASE Accept
    <3>1. accepted' \in 0 .. MaxConns
      BY <1>a, <2>4 DEF Accept
    <3> QED
      BY <1>0, <2>4, <3>1 DEF Accept, MainGoTo, TypeOK, ring
  <2>5. CASE AcceptFails
    BY <1>0, <2>5 DEF AcceptFails, MainGoTo, TypeOK, ring
  <2>6. CASE MainLock \/ MainUnlock
    BY <1>0, <2>6 DEF MainLock, MainUnlock, MainGoTo, Acquire, TypeOK, ring
  <2>3. CASE MainPut
    <3>1. pc' \in [Threads -> {"unborn", "lock", "test", "wait", "unlock", "count", "serve"}]
      BY <1>0, <2>3 DEF MainPut, NotifyOne, Waiters, TypeOK
    <3>2. iput' \in 0 .. MAXNCLI - 1
      BY <1>0, <1>1, <2>3 DEF MainPut, TypeOK
    <3>3. clifd' \in [0 .. MAXNCLI - 1 -> 0 .. MaxConns]
      BY <1>0, <2>3 DEF MainPut, StoreIndex, TypeOK
    <3> QED
      BY <1>0, <2>3, <3>1, <3>2, <3>3 DEF MainPut, TypeOK
  <2> QED
    BY <1>3, <2>1, <2>2, <2>3, <2>4, <2>5, <2>6 DEF MainStep
<1>4. ASSUME Running, NEW t \in Threads,
             Worker(t) \/ SpuriousWakeup(t) \/ BadRequest(t)
      PROVE  TypeOK'
  <2>1. CASE Take(t)
    <3>1. clifd[iget] \in Conns /\ taken' = Append(taken, clifd[iget])
      BY <1>4, <2>1, TakesOldest DEF Take
    <3>2. iget' \in 0 .. MAXNCLI - 1
      BY <1>a, <1>1, <2>1 DEF Take, NextGet
    <3>3. taken' \in Seq(Conns)
      BY <1>a, <3>1
    <3> QED
      BY <1>0, <2>1, <3>1, <3>2, <3>3 DEF Take, GoTo, TypeOK
  <2>2. CASE Count(t)
    BY ZenonT(30), <1>0, <2>2 DEF Count, IndexSeen, GoTo, TypeOK, ring
  <2>3. CASE Serve(t)
    <3>1. connfd[t] \in Conns
      <4>1. connfd[t] \in 1 .. Len(taken)
        BY <2>3 DEF IInv, ExclusiveService, Holding, Serve, GoTo
      <4> QED
        BY <1>a, <1>4, <4>1 DEF Conns
    <3> QED
      BY <1>0, <2>3, <3>1 DEF Serve, GoTo, TypeOK, ring
  <2>4. CASE Lock(t) \/ Wait(t) \/ Unlock(t) \/ SpuriousWakeup(t) \/ BadRequest(t)
    BY <1>0, <2>4 DEF Lock, Wait, Unlock, SpuriousWakeup, BadRequest,
                      Acquire, GoTo, TypeOK, ring
  <2> QED
    BY <1>4, <2>1, <2>2, <2>3, <2>4 DEF Worker
<1>5. CASE SigInt
  BY <1>0, <1>5 DEF SigInt, TypeOK, ring
<1> QED
  BY <1>2, <1>3, <1>4, <1>5 DEF Next

\* Creating a thread is the only step that leaves "unborn".
LEMMA UnbornStep == IInv /\ [Next]_vars => UnbornAhead'
<1> SUFFICES ASSUME IInv, [Next]_vars PROVE UnbornAhead'
  OBVIOUS
<1> USE PoolAssumption
<1>0. UnbornAhead /\ Threads \subseteq Int
  BY DEF IInv, Threads
<1>a. /\ pc \in [Threads -> {"unborn", "lock", "test", "wait", "unlock", "count", "serve"}]
      /\ i \in 0 .. nthreads
  BY DEF IInv, TypeOK
<1>1. CASE Spawn
  BY <1>0, <1>a, <1>1 DEF Spawn, UnbornAhead
<1>2. CASE MainPut
  BY <1>0, <1>a, <1>2 DEF MainPut, NotifyOne, Waiters, UnbornAhead
<1>3. CASE UNCHANGED <<pc, i>>
  BY <1>0, <1>3 DEF UnbornAhead
<1>4. ASSUME NEW t \in Threads, Worker(t) \/ SpuriousWakeup(t)
      PROVE  UnbornAhead'
  BY <1>0, <1>a, <1>4 DEF Worker, Lock, Wait, Take, Unlock, Count, Serve,
                    SpuriousWakeup, GoTo, UnbornAhead
<1>5. CASE EndSpawn \/ Accept \/ AcceptFails \/ MainLock \/ MainUnlock \/ SigInt
           \/ (\E t \in Threads : BadRequest(t)) \/ UNCHANGED vars
  BY <1>3, <1>5 DEF EndSpawn, Accept, AcceptFails, MainLock, MainUnlock, SigInt,
                    BadRequest, vars
<1> QED
  BY <1>1, <1>2, <1>4, <1>5 DEF Next, MainStep

\* The mutex has one owner, and its owner is where the mutex is held.
LEMMA MutexStep == IInv /\ [Next]_vars => MutualExclusion'
<1> SUFFICES ASSUME IInv, [Next]_vars PROVE MutualExclusion'
  OBVIOUS
<1>0. /\ TypeOK /\ MutualExclusion
      /\ Free \notin Threads /\ Main \notin Threads /\ Free # Main
  BY DEF IInv, Threads, Free, Main
<1>a. pc \in [Threads -> {"unborn", "lock", "test", "wait", "unlock", "count", "serve"}]
  BY <1>0 DEF TypeOK
<1>2. CASE UNCHANGED vars
  BY <1>0, <1>a, <1>2 DEF MutualExclusion, vars
<1>3. ASSUME Running, MainStep PROVE MutualExclusion'
  <2>1. CASE Spawn
    <3>1. i \in Threads /\ pc[i] = "unborn"
      <4>1. i \in 0 .. nthreads /\ UnbornAhead /\ i < nthreads
        BY <2>1 DEF IInv, TypeOK, Spawn
      <4>2. i \in Threads /\ i >= i
        BY <4>1, PoolAssumption DEF Threads
      <4> QED
        BY <4>1, <4>2 DEF UnbornAhead
    <3> QED
      BY <1>0, <1>a, <1>3, <2>1, <3>1 DEF Spawn, MutualExclusion
  <2>2. CASE EndSpawn \/ Accept \/ AcceptFails \/ MainLock \/ MainUnlock
    BY <1>0, <1>a, <1>3, <2>2 DEF EndSpawn, Accept, AcceptFails, MainLock, MainUnlock,
                      MainGoTo, Acquire, MutualExclusion, Running
  <2>3. CASE MainPut
    BY <1>0, <1>a, <1>3, <2>3 DEF MainPut, NotifyOne, Waiters, MutualExclusion, Running
  <2> QED
    BY <1>3, <2>1, <2>2, <2>3 DEF MainStep
<1>4. ASSUME Running, NEW t \in Threads,
             Worker(t) \/ SpuriousWakeup(t) \/ BadRequest(t)
      PROVE  MutualExclusion'
  <2>1. CASE Lock(t)
    BY <1>0, <1>a, <1>4, <2>1 DEF Lock, Acquire, GoTo, MutualExclusion, Running
  <2>2. CASE Wait(t) \/ Unlock(t)
    BY <1>0, <1>a, <1>4, <2>2 DEF Wait, Unlock, GoTo, MutualExclusion, Running
  <2>3. CASE Take(t)
    BY <1>0, <1>a, <1>4, <2>3 DEF Take, GoTo, MutualExclusion, Running
  <2>4. CASE Count(t) \/ Serve(t) \/ SpuriousWakeup(t)
    BY <1>0, <1>a, <1>4, <2>4 DEF Count, Serve, SpuriousWakeup, GoTo, MutualExclusion, Running
  <2>5. CASE BadRequest(t)
    BY <1>0, <1>a, <1>4, <2>5 DEF BadRequest, MutualExclusion, Running
  <2> QED
    BY <1>4, <2>1, <2>2, <2>3, <2>4, <2>5 DEF Worker
<1>5. ASSUME Running, SigInt PROVE MutualExclusion'
  BY <1>0, <1>a, <1>5 DEF SigInt, MutualExclusion, Running
<1> QED
  BY <1>2, <1>3, <1>4, <1>5 DEF Next

\* Only MainPut and Take touch the ring and its history, and only MainPut
\* changes the number of connections put so far or finds the ring full.
LEMMA RingUntouched ==
  ASSUME IInv, [Next]_vars,
         UNCHANGED vars \/ (~MainPut /\ \A t \in Threads : ~Take(t))
  PROVE  /\ UNCHANGED <<clifd, iget, iput, taken, PutCount>>
         /\ status' = "full" <=> status = "full"
<1>0. accepted \in 0 .. MaxConns
  BY DEF IInv, TypeOK
<1>1. CASE UNCHANGED vars
  BY <1>1 DEF vars, ring, PutCount
<1>2. ASSUME Running, Spawn \/ EndSpawn \/ AcceptFails \/ MainLock \/ MainUnlock \/ SigInt
      PROVE  /\ UNCHANGED <<clifd, iget, iput, taken, PutCount>>
             /\ status' = "full" <=> status = "full"
  BY <1>2 DEF Spawn, EndSpawn, AcceptFails, MainLock, MainUnlock, SigInt, MainGoTo,
              Running, ring, PutCount
<1>3. ASSUME Running, Accept
      PROVE  /\ UNCHANGED <<clifd, iget, iput, taken, PutCount>>
             /\ status' = "full" <=> status = "full"
  <2>1. UNCHANGED <<clifd, iget, iput, taken, status>>
    BY <1>3 DEF Accept, ring
  <2>2. PutCount' = PutCount
    BY <1>0, <1>3 DEF Accept, MainGoTo, PutCount
  <2> QED
    BY <2>1, <2>2
<1>4. ASSUME Running, NEW t \in Threads,
             Lock(t) \/ Wait(t) \/ Unlock(t) \/ Count(t) \/ Serve(t)
               \/ SpuriousWakeup(t) \/ BadRequest(t)
      PROVE  /\ UNCHANGED <<clifd, iget, iput, taken, PutCount>>
             /\ status' = "full" <=> status = "full"
  BY <1>4 DEF Lock, Wait, Unlock, Count, Serve, SpuriousWakeup, BadRequest,
              Running, ring, PutCount
<1> QED
  BY <1>1, <1>2, <1>3, <1>4 DEF Next, MainStep, Worker

\* The ring's indices after a put: the window grows by one or is full.
LEMMA RingStep == IInv /\ [Next]_vars => QuitOnlyWhenFull' /\ RingHoldsWaiting'
<1> SUFFICES ASSUME IInv, [Next]_vars PROVE QuitOnlyWhenFull' /\ RingHoldsWaiting'
  OBVIOUS
<1> USE PoolAssumption
<1>0. /\ QuitOnlyWhenFull /\ RingHoldsWaiting
      /\ iget \in 0 .. MAXNCLI - 1 /\ iput \in 0 .. MAXNCLI - 1
      /\ clifd \in [0 .. MAXNCLI - 1 -> 0 .. MaxConns]
      /\ accepted \in 0 .. MaxConns
      /\ taken \in Seq(Conns)
  BY DEF IInv, TypeOK
<1>a. Len(taken) \in Nat /\ PutCount \in Int
  BY <1>0 DEF PutCount
<1>1. CASE UNCHANGED vars \/ (~MainPut /\ \A t \in Threads : ~Take(t))
  <2>1. /\ UNCHANGED <<clifd, iget, iput, taken, PutCount>>
        /\ status' = "full" <=> status = "full"
    BY <1>1, RingUntouched
  <2>2. Dist(iget, iput)' = Dist(iget, iput)
        /\ \A k : Dist(iget, k)' = Dist(iget, k)
    BY <2>1 DEF Dist
  <2> QED
    BY <1>0, <2>1, <2>2 DEF QuitOnlyWhenFull, RingHoldsWaiting
<1>2. ASSUME Running, MainPut
      PROVE  QuitOnlyWhenFull' /\ RingHoldsWaiting'
  <2> DEFINE D == Dist(iget, iput)
  <2>1. /\ PutCount' = PutCount + 1 /\ PutCount = accepted - 1
        /\ iput' = Advance(iput) /\ UNCHANGED <<iget, taken>>
        /\ clifd' = [clifd EXCEPT ![iput] = accepted]
        /\ IF Advance(iput) = iget THEN status' = "full" ELSE status' = "running"
    BY <1>0, <1>2 DEF MainPut, RingFull, StoreIndex, PutCount, Running
  <2>2. PutCount - Len(taken) = D /\ D \in 0 .. MAXNCLI - 1
    BY <1>0, <1>2, DistInjective DEF QuitOnlyWhenFull, Running
  <2>3. QuitOnlyWhenFull'
    <3>1. CASE Advance(iput) = iget
      <4>1. D = MAXNCLI - 1
        BY <1>0, <3>1, DistAfterPut
      <4>2. (PutCount - Len(taken))' = MAXNCLI
        BY <1>a, <2>1, <2>2, <4>1
      <4> QED
        BY <2>1, <3>1, <4>2 DEF QuitOnlyWhenFull
    <3>2. CASE Advance(iput) # iget
      <4>1. Dist(iget, iput)' = D + 1
        <5>1. Dist(iget, Advance(iput)) = D + 1
          BY <1>0, <3>2, DistAfterPut
        <5> QED
          BY <2>1, <5>1 DEF Dist
      <4>2. (PutCount - Len(taken))' = D + 1
        BY <1>a, <2>1, <2>2
      <4> QED
        BY <2>1, <3>2, <4>1, <4>2 DEF QuitOnlyWhenFull
    <3> QED
      BY <3>1, <3>2
  <2>4. RingHoldsWaiting'
    <3> SUFFICES ASSUME NEW k \in 0 .. MAXNCLI - 1,
                        Dist(iget, k)' < (PutCount - Len(taken))'
                 PROVE  clifd'[k] = Len(taken)' + 1 + Dist(iget, k)'
      BY DEF RingHoldsWaiting
    <3>1. Dist(iget, k)' = Dist(iget, k) /\ Dist(iget, k) \in 0 .. MAXNCLI - 1
          /\ Dist(iget, k) < D + 1
      <4>1. Dist(iget, k)' = Dist(iget, k)
        BY <2>1 DEF Dist
      <4> QED
        BY <1>0, <1>a, <2>1, <2>2, <4>1, DistInjective
    <3>2. CASE k = iput
      BY <1>0, <1>a, <2>1, <2>2, <3>1, <3>2
    <3>3. CASE k # iput
      <4>1. Dist(iget, k) # D
        BY <1>0, <3>3, DistInjective
      <4>2. clifd[k] = Len(taken) + 1 + Dist(iget, k)
        BY SMTT(30), <1>0, <2>2, <3>1, <4>1 DEF RingHoldsWaiting
      <4> QED
        BY <1>0, <2>1, <3>1, <3>3, <4>2
    <3> QED
      BY <3>2, <3>3
  <2> QED
    BY <2>3, <2>4
<1>3. ASSUME Running, NEW t \in Threads, Take(t)
      PROVE  QuitOnlyWhenFull' /\ RingHoldsWaiting'
  <2> DEFINE D == Dist(iget, iput)
  <2>1. /\ iget' = Advance(iget) /\ iget # iput
        /\ UNCHANGED <<clifd, iput, status, PutCount>>
        /\ Len(taken') = Len(taken) + 1
    <3>1. /\ iget' = Advance(iget) /\ iget # iput
          /\ UNCHANGED <<clifd, iput, status, PutCount>>
      BY <1>3 DEF Take, NextGet, RingEmpty, PutCount
    <3> QED
      BY <1>3, <3>1, TakesOldest
  <2>2. PutCount - Len(taken) = D /\ D \in 1 .. MAXNCLI - 1
    <3>1. D \in 0 .. MAXNCLI - 1 /\ D # 0
      BY <1>0, <2>1, DistInjective
    <3>2. PutCount - Len(taken) = D
      BY <1>0, <1>3 DEF QuitOnlyWhenFull, Running
    <3> HIDE DEF D
    <3> QED
      BY <3>1, <3>2
  <2>3. \A k \in 0 .. MAXNCLI - 1 : k # iget => Dist(iget, k)' = Dist(iget, k) - 1
    <3>1. \A k \in 0 .. MAXNCLI - 1 : Dist(iget, k)' = Dist(Advance(iget), k)
      BY <2>1 DEF Dist
    <3> QED
      BY <1>0, <3>1, DistAfterGet
  <2>4. QuitOnlyWhenFull'
    <3>1. Dist(iget, iput)' = D - 1
      <4>1. Dist(iget, iput)' = Dist(Advance(iget), iput)
        BY <2>1 DEF Dist
      <4>2. Dist(Advance(iget), iput) = Dist(iget, iput) - 1
        BY <1>0, <2>1, DistAfterGet
      <4> QED
        BY <4>1, <4>2
    <3>2. (PutCount - Len(taken))' = D - 1
      BY <1>a, <2>1, <2>2
    <3> QED
      BY <1>3, <2>1, <3>1, <3>2 DEF QuitOnlyWhenFull, Running
  <2>5. RingHoldsWaiting'
    <3> SUFFICES ASSUME NEW k \in 0 .. MAXNCLI - 1,
                        Dist(iget, k)' < (PutCount - Len(taken))'
                 PROVE  clifd'[k] = Len(taken)' + 1 + Dist(iget, k)'
      BY DEF RingHoldsWaiting
    <3>1. Dist(iget, k) \in 0 .. MAXNCLI - 1
      BY <1>0, DistInjective
    <3>2. (PutCount - Len(taken))' = D - 1
      BY <1>a, <2>1, <2>2
    <3>3. k # iget
      <4>1. SUFFICES ASSUME k = iget PROVE FALSE
        OBVIOUS
      <4>2. Dist(iget, k)' = MAXNCLI - 1
        BY <1>0, <2>1, <4>1 DEF Dist, Advance
      <4> QED
        BY <2>2, <3>2, <4>2
    <3>4. clifd[k] = Len(taken) + 1 + Dist(iget, k)
      BY <1>0, <2>2, <2>3, <3>1, <3>2, <3>3 DEF RingHoldsWaiting
    <3> QED
      BY <1>a, <2>1, <2>3, <3>1, <3>3, <3>4
  <2> QED
    BY <2>4, <2>5
<1> QED
  BY <1>1, <1>2, <1>3 DEF Next

LEMMA LengthIsNat == IInv => Len(taken) \in Nat
<1>1. IInv => taken \in Seq(Conns)
  BY DEF IInv, TypeOK
<1> QED
  BY <1>1

\* The history grows by the oldest waiting connection and by nothing else.
LEMMA HistoryStep == IInv /\ [Next]_vars => TakenInOrder' /\ ClosedWasTaken'
<1> SUFFICES ASSUME IInv, [Next]_vars PROVE TakenInOrder' /\ ClosedWasTaken'
  OBVIOUS
<1>0. /\ TakenInOrder /\ ClosedWasTaken
      /\ Len(taken) \in Nat
  BY LengthIsNat DEF IInv
<1>1. ASSUME Running, NEW t \in Threads, Take(t)
      PROVE  TakenInOrder' /\ ClosedWasTaken'
  <2>1. UNCHANGED closed
    BY <1>1 DEF Take
  <2>2. /\ Len(taken') = Len(taken) + 1
        /\ \A k \in 1 .. Len(taken) : taken'[k] = taken[k]
        /\ taken'[Len(taken) + 1] = Len(taken) + 1
    BY <1>1, TakesOldest
  <2> QED
    BY <1>0, <2>1, <2>2 DEF TakenInOrder, ClosedWasTaken
<1>2. ASSUME Running, NEW t \in Threads, Serve(t)
      PROVE  TakenInOrder' /\ ClosedWasTaken'
  <2>1. connfd[t] \in 1 .. Len(taken)
    BY <1>2 DEF IInv, ExclusiveService, Holding, Serve, GoTo
  <2> QED
    BY <1>0, <1>2, <2>1 DEF Serve, TakenInOrder, ClosedWasTaken
<1>3. CASE UNCHANGED <<taken, closed>>
  BY <1>0, <1>3 DEF TakenInOrder, ClosedWasTaken
<1>4. CASE MainStep \/ SigInt \/ UNCHANGED vars
  BY <1>3, <1>4 DEF MainStep, Spawn, EndSpawn, Accept, AcceptFails, MainLock,
                    MainPut, MainUnlock, SigInt, vars
<1>5. ASSUME NEW t \in Threads, Lock(t) \/ Wait(t) \/ Unlock(t) \/ Count(t)
                                  \/ SpuriousWakeup(t) \/ BadRequest(t)
      PROVE  TakenInOrder' /\ ClosedWasTaken'
  BY <1>3, <1>5 DEF Lock, Wait, Unlock, Count, SpuriousWakeup, BadRequest
<1> QED
  BY <1>1, <1>2, <1>4, <1>5 DEF Next, Worker

\* A connection just taken is newer than every one held or closed, and one
\* just closed is held by nobody else.
LEMMA ServiceStep == IInv /\ [Next]_vars => ExclusiveService'
<1> SUFFICES ASSUME IInv, [Next]_vars PROVE ExclusiveService'
  OBVIOUS
<1>0a. Len(taken) \in Nat
  BY LengthIsNat
<1>0. /\ ExclusiveService /\ ClosedWasTaken
      /\ Len(taken) \in Nat
      /\ pc \in [Threads -> {"unborn", "lock", "test", "wait", "unlock", "count", "serve"}]
      /\ connfd \in [Threads -> 0 .. MaxConns]
  BY <1>0a DEF IInv, TypeOK
<1>1. ASSUME Running, NEW t \in Threads, Take(t)
      PROVE  ExclusiveService'
  <2>1. /\ Len(taken') = Len(taken) + 1
        /\ connfd' = [connfd EXCEPT ![t] = Len(taken) + 1]
        /\ pc' = [pc EXCEPT ![t] = "unlock"]
        /\ UNCHANGED closed
    <3>1. /\ connfd' = [connfd EXCEPT ![t] = clifd[iget]]
          /\ pc' = [pc EXCEPT ![t] = "unlock"]
          /\ UNCHANGED closed
      BY <1>1 DEF Take, GoTo
    <3> QED
      BY <1>1, <3>1, TakesOldest
  <2>2. \A u \in Threads \ {t} : Holding(u)' <=> Holding(u)
    BY <1>0, <2>1 DEF Holding
  <2>3. \A u \in Threads : Holding(u)' =>
          connfd'[u] = (IF u = t THEN Len(taken) + 1 ELSE connfd[u])
    BY <1>0, <2>1
  <2> QED
    BY <1>0, <2>1, <2>2, <2>3 DEF ExclusiveService, ClosedWasTaken
<1>2. ASSUME Running, NEW t \in Threads, Serve(t)
      PROVE  ExclusiveService'
  <2>1. /\ Holding(t) /\ ~Holding(t)'
        /\ \A u \in Threads \ {t} : Holding(u)' <=> Holding(u)
        /\ closed' = closed \cup {connfd[t]}
        /\ UNCHANGED <<taken, connfd>>
    BY <1>0, <1>2 DEF Serve, GoTo, Holding
  <2> QED
    BY <1>0, <2>1 DEF ExclusiveService
<1>3. CASE /\ UNCHANGED <<taken, connfd, closed>>
           /\ \A u \in Threads : Holding(u)' <=> Holding(u)
  BY <1>0, <1>3 DEF ExclusiveService
<1>4. CASE MainStep \/ SigInt \/ UNCHANGED vars
  <2>1. UNCHANGED <<taken, connfd, closed>>
    BY <1>4 DEF MainStep, Spawn, EndSpawn, Accept, AcceptFails, MainLock,
                MainPut, MainUnlock, SigInt, vars
  <2>2. ASSUME NEW u \in Threads PROVE Holding(u)' <=> Holding(u)
    <3>1. CASE Spawn
      <4>1. UnbornAhead /\ i \in 0 .. nthreads /\ i < nthreads
        BY <3>1 DEF IInv, TypeOK, Spawn
      <4>2. i \in Threads /\ i >= i
        BY <4>1, PoolAssumption DEF Threads
      <4>3. pc[i] = "unborn"
        BY <4>1, <4>2 DEF UnbornAhead
      <4> QED
        BY <1>0, <3>1, <4>2, <4>3 DEF Spawn, Holding
    <3>2. CASE MainPut
      BY <1>0, <3>2 DEF MainPut, NotifyOne, Waiters, Holding
    <3>3. CASE UNCHANGED pc
      BY <3>3 DEF Holding
    <3> QED
      BY <1>4, <3>1, <3>2, <3>3 DEF MainStep, EndSpawn, Accept, AcceptFails,
                MainLock, MainUnlock, SigInt, vars
  <2> QED
    BY <1>3, <2>1, <2>2
<1>5. ASSUME NEW t \in Threads, Lock(t) \/ Wait(t) \/ Unlock(t) \/ Count(t)
                                  \/ SpuriousWakeup(t) \/ BadRequest(t)
      PROVE  ExclusiveService'
  <2>1. UNCHANGED <<taken, connfd, closed>>
    BY <1>5 DEF Lock, Wait, Unlock, Count, SpuriousWakeup, BadRequest
  <2>2. \A u \in Threads : Holding(u)' <=> Holding(u)
    BY <1>0, <1>5 DEF Lock, Wait, Unlock, Count, SpuriousWakeup, BadRequest,
                      GoTo, Holding
  <2> QED
    BY <1>3, <2>1, <2>2
<1> QED
  BY <1>1, <1>2, <1>4, <1>5 DEF Next, Worker

\* Whoever adds to the ring wakes a sleeper if all sleep, and a thread goes
\* to sleep only on an empty ring.
LEMMA WakeupStep == IInv /\ [Next]_vars => NoLostWakeup'
<1> SUFFICES ASSUME IInv, [Next]_vars PROVE NoLostWakeup'
  OBVIOUS
<1>0a. 0 \in Threads
  BY PoolAssumption DEF Threads
<1>0. /\ NoLostWakeup
      /\ pc \in [Threads -> {"unborn", "lock", "test", "wait", "unlock", "count", "serve"}]
      /\ 0 \in Threads
  BY <1>0a DEF IInv, TypeOK
<1>1. CASE UNCHANGED <<status, pc, iget, iput>> \/ ~Running'
  BY <1>0, <1>1 DEF NoLostWakeup, Running
<1>2. ASSUME Running, Spawn PROVE NoLostWakeup'
  <2>1. i \in 0 .. nthreads /\ i < nthreads
    BY <1>2 DEF IInv, TypeOK, Spawn
  <2>2. i \in Threads
    BY <2>1, PoolAssumption DEF Threads
  <2> QED
    BY <1>0, <1>2, <2>2 DEF Spawn, NoLostWakeup
<1>3. ASSUME Running, MainPut PROVE NoLostWakeup'
  <2>1. CASE NotifyOne
    BY <1>0, <2>1 DEF NotifyOne, Waiters, NoLostWakeup
  <2>2. CASE status' = "full"
    BY <2>2 DEF NoLostWakeup, Running
  <2> QED
    BY <1>3, <2>1, <2>2 DEF MainPut
<1>4. ASSUME Running, NEW t \in Threads, Worker(t) \/ SpuriousWakeup(t)
      PROVE  NoLostWakeup'
  <2>1. CASE Wait(t)
    BY <2>1 DEF Wait, RingEmpty, ring, NoLostWakeup
  <2>2. CASE Lock(t) \/ Take(t) \/ Unlock(t) \/ Count(t) \/ Serve(t) \/ SpuriousWakeup(t)
    <3>1. pc'[t] # "wait"
      BY <1>0, <2>2 DEF Lock, Take, Unlock, Count, Serve, SpuriousWakeup, GoTo
    <3> QED
      BY <3>1 DEF NoLostWakeup
  <2> QED
    BY <1>4, <2>1, <2>2 DEF Worker
<1>5. CASE EndSpawn \/ Accept \/ AcceptFails \/ MainLock \/ MainUnlock \/ SigInt
           \/ (\E t \in Threads : BadRequest(t)) \/ UNCHANGED vars
  BY <1>1, <1>5 DEF EndSpawn, Accept, AcceptFails, MainLock, MainUnlock, SigInt,
                    BadRequest, Running, vars, ring
<1> QED
  BY <1>2, <1>3, <1>4, <1>5 DEF Next, MainStep

LEMMA IInvStep == IInv /\ [Next]_vars => IInv'
  BY TypeStep, UnbornStep, MutexStep, RingStep, HistoryStep, ServiceStep,
     WakeupStep DEF IInv

----------------------------------------------------------------------------
(* The refinement of ConnQueue.                                            *)

\* n consecutive connections, the first of them after m.
Line(n, m) == [k \in 1 .. n |-> m + k]
Waiting == PutCount - Len(taken)

LEMMA LineIsSeq ==
  ASSUME NEW n \in Nat, NEW m \in Nat
  PROVE  /\ Line(n, m) \in Seq(Nat)
         /\ Len(Line(n, m)) = n
         /\ DOMAIN Line(n, m) = 1 .. n
         /\ \A k \in 1 .. n : Line(n, m)[k] = m + k
  BY DEF Line

LEMMA LineGrows ==
  ASSUME NEW n \in Nat, NEW m \in Nat
  PROVE  Line(n + 1, m) = Append(Line(n, m), m + n + 1)
<1> DEFINE s == Line(n, m)
           t == Line(n + 1, m)
           e == m + n + 1
<1>0. n + 1 \in Nat
  OBVIOUS
<1>1. /\ s \in Seq(Nat) /\ Len(s) = n /\ \A k \in 1 .. n : s[k] = m + k
      /\ t \in Seq(Nat) /\ Len(t) = n + 1 /\ \A k \in 1 .. n + 1 : t[k] = m + k
  BY <1>0, LineIsSeq
<1>2. e \in Nat
  OBVIOUS
<1> HIDE DEF s, t
<1>3. /\ Append(s, e) \in Seq(Nat) /\ Len(Append(s, e)) = n + 1
      /\ \A k \in 1 .. n : Append(s, e)[k] = s[k]
      /\ Append(s, e)[n + 1] = e
  BY <1>1, <1>2, AppendProperties
<1>4. t = Append(s, e)
  BY <1>1, <1>3, SeqEqual
<1> QED
  BY <1>4 DEF s, t

LEMMA LineShrinks ==
  ASSUME NEW n \in Nat \ {0}, NEW m \in Nat
  PROVE  /\ Line(n, m) # <<>>
         /\ Head(Line(n, m)) = m + 1
         /\ Tail(Line(n, m)) = Line(n - 1, m + 1)
<1>0. n - 1 \in Nat /\ m + 1 \in Nat
  OBVIOUS
<1>1. /\ Line(n, m) \in Seq(Nat) /\ Len(Line(n, m)) = n
      /\ \A k \in 1 .. n : Line(n, m)[k] = m + k
  BY LineIsSeq
<1>2. /\ Line(n - 1, m + 1) \in Seq(Nat) /\ Len(Line(n - 1, m + 1)) = n - 1
      /\ \A k \in 1 .. n - 1 : Line(n - 1, m + 1)[k] = m + 1 + k
  BY <1>0, LineIsSeq
<1>3. Line(n, m) # <<>>
  BY <1>1, Len(<<>>) = 0
<1>4. /\ Head(Line(n, m)) = Line(n, m)[1]
      /\ Tail(Line(n, m)) \in Seq(Nat) /\ Len(Tail(Line(n, m))) = n - 1
      /\ \A k \in 1 .. n - 1 : Tail(Line(n, m))[k] = Line(n, m)[k + 1]
  BY <1>1, <1>3, HeadTailProperties
<1>5. \A k \in 1 .. n - 1 : Tail(Line(n, m))[k] = Line(n - 1, m + 1)[k]
  BY <1>1, <1>2, <1>4
<1>6. Tail(Line(n, m)) = Line(n - 1, m + 1)
  BY <1>2, <1>4, <1>5, SeqEqual
<1> QED
  BY <1>1, <1>3, <1>4, <1>6

\* What the refinement mapping yields for the line of waiting connections.
Mapped ==
  /\ Waiting \in 0 .. MAXNCLI /\ Len(taken) \in Nat
  /\ [k \in 1 .. (IF status = "full" THEN MAXNCLI ELSE Dist(iget, iput))
        |-> clifd[(iget + k - 1) % MAXNCLI]] = Line(Waiting, Len(taken))

LEMMA MappedLine == IInv => Mapped
<1> SUFFICES ASSUME IInv PROVE Mapped
  OBVIOUS
<1> USE PoolAssumption
<1>1. /\ iget \in 0 .. MAXNCLI - 1 /\ iput \in 0 .. MAXNCLI - 1
      /\ taken \in Seq(Conns) /\ accepted \in 0 .. MaxConns
  BY DEF IInv, TypeOK
<1>2. Len(taken) \in Nat /\ PutCount \in Int
  BY <1>1 DEF PutCount
<1>3. Waiting = IF status = "full" THEN MAXNCLI ELSE Dist(iget, iput)
  BY DEF IInv, QuitOnlyWhenFull, Waiting
<1>4. Dist(iget, iput) \in 0 .. MAXNCLI - 1
  BY <1>1, DistInjective
<1>5. Waiting \in 0 .. MAXNCLI
  BY <1>3, <1>4
<1>6. ASSUME NEW k \in 1 .. Waiting
      PROVE  clifd[(iget + k - 1) % MAXNCLI] = Len(taken) + k
  <2> DEFINE j == (iget + k - 1) % MAXNCLI
  <2>0. k \in 1 .. MAXNCLI
    BY <1>5
  <2>1. j \in 0 .. MAXNCLI - 1 /\ Dist(iget, j) = k - 1
    BY <1>1, <2>0, Wrap
  <2> HIDE DEF j
  <2>2. Dist(iget, j) < PutCount - Len(taken)
    BY <1>2, <1>5, <2>1 DEF Waiting
  <2>3. clifd[j] = Len(taken) + 1 + (k - 1)
    BY <2>1, <2>2 DEF IInv, RingHoldsWaiting
  <2>4. clifd[j] = Len(taken) + k
    BY <1>2, <1>5, <2>3
  <2> QED
    BY <2>4 DEF j
<1>7. [k \in 1 .. Waiting |-> clifd[(iget + k - 1) % MAXNCLI]] = Line(Waiting, Len(taken))
  BY <1>6 DEF Line
<1> QED
  BY <1>2, <1>3, <1>5, <1>7 DEF Mapped

\* Each step of the server is a step of the queue or leaves it as it is.
LEMMA QueueStep == IInv /\ [Next]_vars => [Queue!Next]_(Queue!vars)
<1> SUFFICES ASSUME IInv, [Next]_vars PROVE [Queue!Next]_(Queue!vars)
  OBVIOUS
<1> USE PoolAssumption
<1> DEFINE w == [k \in 1 .. (IF status = "full" THEN MAXNCLI ELSE Dist(iget, iput))
                   |-> clifd[(iget + k - 1) % MAXNCLI]]
           n == Waiting
           m == Len(taken)
<1>1. IInv'
  BY IInvStep
<1>2. Mapped /\ Mapped'
  BY <1>1, MappedLine, PTL
<1>3. w = Line(n, m) /\ n \in 0 .. MAXNCLI /\ m \in Nat
  BY <1>2 DEF Mapped
<1>4. w' = Line(n', m') /\ n' \in 0 .. MAXNCLI /\ m' \in Nat
  BY <1>2 DEF Mapped
<1>5. /\ accepted \in 0 .. MaxConns /\ taken \in Seq(Conns)
      /\ iget \in 0 .. MAXNCLI - 1 /\ iput \in 0 .. MAXNCLI - 1
  BY DEF IInv, TypeOK
<1>6. CASE Running /\ MainPut
  <2>1. CASE status' = "full"
    <3>1. Queue!Exit
      BY <1>6, <2>1 DEF Queue!Exit, MainPut, Running
    <3> QED
      BY <3>1 DEF Queue!Next
  <2>2. CASE status' = status /\ mainPc' = "unlock"
    <3>1. /\ mainPc = "put" /\ taken' = taken /\ accepted' = accepted
          /\ status = "running" /\ status' = "running"
      BY <1>6, <2>2 DEF MainPut, Running
    <3>2. m' = m /\ n' = n + 1 /\ n' = Dist(iget, iput)'
      BY <1>1, <1>3, <1>5, <2>2, <3>1 DEF Waiting, PutCount, IInv, QuitOnlyWhenFull
    <3>3. Dist(iget, iput)' \in 0 .. MAXNCLI - 1
      BY <1>1, DistInjective DEF IInv, TypeOK
    <3>4. accepted = m + n + 1 /\ accepted \in Conns
      BY <1>3, <1>5, <3>1 DEF Waiting, PutCount, Conns
    <3>a. n \in Nat
      BY <1>3
    <3>b. /\ Line(n + 1, m) = Append(Line(n, m), m + n + 1)
          /\ Len(Line(n, m)) = n /\ DOMAIN Line(n, m) = 1 .. n
          /\ \A k \in 1 .. n : Line(n, m)[k] = m + k
      BY <1>3, <3>a, LineGrows, LineIsSeq
    <3> HIDE DEF w, n, m
    <3>5. w' = Append(w, accepted)
      BY <1>3, <1>4, <3>2, <3>4, <3>b
    <3>6. Len(w) < MAXNCLI - 1
      BY <1>3, <3>2, <3>3, <3>a, <3>b
    <3>7. ASSUME NEW k \in DOMAIN w PROVE w[k] # accepted
      BY <1>3, <3>4, <3>a, <3>b
    <3>8. ASSUME NEW k \in DOMAIN taken PROVE taken[k] # accepted
      BY <1>3, <1>5, <3>4, <3>a DEF IInv, TakenInOrder, m
    <3>9. Queue!Arrive
      BY <3>1, <3>4, <3>5, <3>6, <3>7, <3>8 
         DEF Queue!Arrive, Queue!Known, Running, w
    <3> QED
      BY <3>9 DEF Queue!Next
  <2> QED
    BY <1>6, <2>1, <2>2 DEF MainPut
<1>7. ASSUME NEW t \in Threads, Running, Take(t)
      PROVE  Queue!HandOver
  <2>1. /\ taken' = Append(taken, m + 1) /\ m' = m + 1
        /\ m < PutCount
    BY <1>7, TakesOldest
  <2>2. mainPc' = mainPc /\ accepted' = accepted /\ status' = status
    BY <1>7 DEF Take
  <2>3. n' = n - 1 /\ n \in Nat \ {0}
    <3>1. PutCount' = PutCount /\ PutCount \in Int
      BY <1>5, <2>2 DEF PutCount
    <3> QED
      BY <1>3, <1>4, <2>1, <3>1 DEF Waiting
  <2>a. /\ Line(n, m) # <<>> /\ Head(Line(n, m)) = m + 1
        /\ Tail(Line(n, m)) = Line(n - 1, m + 1)
    BY <1>3, <2>3, LineShrinks
  <2> HIDE DEF w, n, m
  <2>4. w # <<>> /\ Head(w) = m + 1 /\ Tail(w) = w'
    BY <1>3, <1>4, <2>1, <2>3, <2>a
  <2> QED
    BY <1>7, <2>1, <2>2, <2>4 DEF Queue!HandOver, Running, w
<1>8. CASE Running /\ (SigInt \/ AcceptFails \/ \E t \in Threads : BadRequest(t))
  BY <1>8 DEF Queue!Next, Queue!Exit, SigInt, AcceptFails, BadRequest, Running
<1>9. CASE UNCHANGED <<status, taken, ring, PutCount>>
  BY <1>9 DEF Queue!vars, ring, Dist, Running
<1>a. ASSUME Running, Spawn \/ EndSpawn \/ Accept \/ MainLock \/ MainUnlock
      PROVE  UNCHANGED <<status, taken, ring, PutCount>>
  BY <1>5, <1>a DEF Spawn, EndSpawn, Accept, MainLock, MainUnlock, MainGoTo, PutCount, ring
<1>b. ASSUME NEW t \in Threads,
             Lock(t) \/ Wait(t) \/ Unlock(t) \/ Count(t) \/ Serve(t) \/ SpuriousWakeup(t)
      PROVE  UNCHANGED <<status, taken, ring, PutCount>>
  BY <1>b DEF Lock, Wait, Unlock, Count, Serve, SpuriousWakeup, PutCount, ring
<1>c. CASE UNCHANGED vars
  BY <1>9, <1>c DEF vars, PutCount
<1> QED
  BY <1>6, <1>7, <1>8, <1>9, <1>a, <1>b, <1>c DEF Next, MainStep, Worker, Queue!Next

----------------------------------------------------------------------------
(* The theorems.                                                           *)

\* IInv holds throughout every behaviour of the server.
THEOREM Inductive == Spec => []IInv
<1> QED
  BY InitIInv, IInvStep, PTL DEF Spec

\* The variables keep their types: in particular iget and iput never leave
\* the ring and every descriptor handed out is one Accept returned.
THEOREM TypeCorrect == Spec => []TypeOK
<1>1. IInv => TypeOK
  BY DEF IInv
<1> QED
  BY <1>1, Inductive, PTL

\* At most one thread is inside the critical sections of m.
THEOREM Mutex == Spec => []MutualExclusion
<1>1. IInv => MutualExclusion
  BY DEF IInv
<1> QED
  BY <1>1, Inductive, PTL

\* Connections are handed over in the order of acceptance, none twice and
\* none skipped, for every ring size and every number of threads.
THEOREM HandOverInOrder == Spec => []TakenInOrder
<1>1. IInv => TakenInOrder
  BY DEF IInv
<1> QED
  BY <1>1, Inductive, PTL

\* No two threads serve one connection and none serves a closed one.
THEOREM Exclusive == Spec => []ExclusiveService
<1>1. IInv => ExclusiveService
  BY DEF IInv
<1> QED
  BY <1>1, Inductive, PTL

\* The server never has a connection in the ring with every worker asleep.
THEOREM Wakeups == Spec => []NoLostWakeup
<1>1. IInv => NoLostWakeup
  BY DEF IInv
<1> QED
  BY <1>1, Inductive, PTL

\* The ring-full exit happens only when MAXNCLI connections wait, so that
\* iget = iput never hides a full ring from a worker.
THEOREM FullRing == Spec => [](QuitOnlyWhenFull /\ RingHoldsWaiting)
<1>1. IInv => QuitOnlyWhenFull /\ RingHoldsWaiting
  BY DEF IInv
<1> QED
  BY <1>1, Inductive, PTL

\* The ring, its two indices and the history implement the connection queue:
\* each accepted connection waits in one line, is handed out once, in order,
\* never more than MAXNCLI - 1 wait, and nothing is handed out after the exit.
THEOREM Implements == Spec => ImplementsQueue
<1>1. Init => Queue!Init
  BY PoolAssumption DEF Init, Queue!Init, Running, Dist
<1> QED
  BY <1>1, QueueStep, Inductive, PTL DEF Spec, ImplementsQueue, Queue!Spec
============================================================================
