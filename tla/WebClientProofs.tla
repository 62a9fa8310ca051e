-------------------------- MODULE WebClientProofs ---------------------------
(***************************************************************************)
(* Proofs about WebClient for every number of files and of simultaneous    *)
(* connections: the counters, the descriptor sets and the table agree      *)
(* although descriptor numbers are reused, a read finds something to read, *)
(* and select never waits for nothing nor watches a closed descriptor.     *)
(* Icmpd, the other loop around one select, follows at the end.            *)
(***************************************************************************)
EXTENDS WebClient, IcmpdParams, FiniteSetTheorems, SequenceTheorems, TLAPS

VARIABLES client, maxi, nready, drset, dpc, connfd, icmp, arrived, last, upc, sock   \* Icmpd

I == INSTANCE Icmpd WITH rset <- drset

\* What a file's flag says of its connection.
FlagsTrue ==
  \A f \in Files :
    /\ f_flags[f] \in {"0", "CONNECTING"} => gets[f] = 0
    /\ f_flags[f] \in {"READING", "DONE"} => gets[f] = 1
    /\ f_flags[f] = "READING" => net[f] \in {"up", "data", "fin", "reset"}
    /\ f_flags[f] \in {"CONNECTING", "READING"} => f_fd[f] \in Descriptors

\* The readiness select found is still there for the files the scan has not
\* reached.
StillReady ==
  pc = "scan" =>
    \A f \in Files : f >= i /\ Reading(f) => net[f] \in {"data", "fin", "reset"}

SelectSafe == (pc = "select" => rset \cup wset # {}) /\ pc # "select error"

IInv == TypeOK /\ FlagsTrue /\ BooksAgree /\ StillReady /\ SelectSafe

-----------------------------------------------------------------------------
(* The lowest number of a set, and the sets that are counted.              *)

\* A nonempty set of naturals has a least element: inclusion of the intervals
\* 0 .. x, which are finite, is well-founded.
LEMMA LowestExists ==
  ASSUME NEW S, S \subseteq Nat, S # {}
  PROVE  Lowest(S) \in S
<1> DEFINE T == {0 .. x : x \in S}
           R == StrictSubsetOrdering(Nat)
<1>1. \A x \in S : IsFiniteSet(0 .. x)
  BY FS_Interval
<1>2. T \subseteq FiniteSubsetsOf(Nat) /\ T # {}
  <2>1. \A x \in S : 0 .. x \in SUBSET Nat
    OBVIOUS
  <2>2. \A x \in S : 0 .. x \in FiniteSubsetsOf(Nat)
    BY <1>1, <2>1 DEF FiniteSubsetsOf
  <2> QED
    BY <2>2
<1>3. \E s \in T : \A t \in T : ~ (<<t, s>> \in R)
  <2>1. IsWellFoundedOn(R, FiniteSubsetsOf(Nat))
    BY FS_StrictSubsetOrderingWellFounded
  <2> HIDE DEF T, R
  <2> QED
    BY <1>2, <2>1, WFMin
<1>4. PICK x \in S : \A t \in T : ~ (<<t, 0 .. x>> \in R)
  BY <1>3
<1>5. ASSUME NEW y \in S, y < x PROVE FALSE
  <2>1. 0 .. y \subseteq 0 .. x /\ x \in 0 .. x /\ x \notin 0 .. y
    BY <1>5
  <2>2. 0 .. y # 0 .. x /\ 0 .. y \in SUBSET Nat /\ 0 .. x \in SUBSET Nat
    BY <2>1
  <2> DEFINE a == 0 .. y
             b == 0 .. x
  <2>3. a \subseteq b /\ a # b /\ a \in SUBSET Nat /\ b \in SUBSET Nat
    BY <2>1, <2>2
  <2>4. a \in T /\ ~ (<<a, b>> \in R)
    BY <1>4
  <2> HIDE DEF a, b, T
  <2>5. <<a, b>> \in R
    BY <2>3 DEF StrictSubsetOrdering
  <2> QED
    BY <2>4, <2>5
<1>6. \A y \in S : x <= y
  BY <1>5
<1> QED
  BY <1>6 DEF Lowest

LEMMA Finite ==
  /\ IsFiniteSet(Files) /\ IsFiniteSet(Descriptors)
  /\ Cardinality(Files) = nfiles /\ Cardinality(Descriptors) = nfiles
  /\ Files \subseteq Nat /\ Descriptors \subseteq Nat
<1>1. nfiles \in Nat \ {0}
  BY WebAssumption
<1>2. /\ IsFiniteSet(0 .. nfiles - 1)
      /\ Cardinality(0 .. nfiles - 1) = nfiles
  BY <1>1, FS_Interval
<1>3. /\ IsFiniteSet(3 .. nfiles + 2)
      /\ Cardinality(3 .. nfiles + 2) = nfiles
  BY <1>1, FS_Interval
<1> QED
  BY <1>1, <1>2, <1>3 DEF Files, Descriptors

LEMMA CountedSets ==
  ASSUME TypeOK
  PROVE  /\ Active \subseteq Files /\ Unstarted \subseteq Files
         /\ IsFiniteSet(Active) /\ IsFiniteSet(Unstarted)
         /\ IsFiniteSet(Active \cup Unstarted) /\ IsFiniteSet(open)
         /\ Cardinality(Active) \in Nat /\ Cardinality(Unstarted) \in Nat
         /\ Cardinality(Active \cup Unstarted) \in Nat /\ Cardinality(open) \in Nat
<1>1. /\ Active \subseteq Files /\ Unstarted \subseteq Files
      /\ Active \cup Unstarted \subseteq Files /\ open \subseteq Descriptors
  BY DEF Active, Unstarted, TypeOK
<1>2. /\ IsFiniteSet(Active) /\ IsFiniteSet(Unstarted)
      /\ IsFiniteSet(Active \cup Unstarted) /\ IsFiniteSet(open)
  BY <1>1, Finite, FS_Subset
<1> QED
  BY <1>1, <1>2, FS_CardinalityType

-----------------------------------------------------------------------------
LEMMA InitInv == Init => IInv
<1> SUFFICES ASSUME Init PROVE IInv
  OBVIOUS
<1> USE WebAssumption DEF Init
<1>1. TypeOK
  BY DEF TypeOK, Files, NoFd
<1>2. FlagsTrue /\ StillReady /\ SelectSafe
  BY DEF FlagsTrue, StillReady, SelectSafe
<1>3. Active = {} /\ Unstarted = Files
  BY DEF Active, Unstarted
<1>4. Cardinality({}) = 0 /\ Cardinality(Files) = nfiles /\ {} \cup Files = Files
  BY FS_EmptySet, Finite
<1>5. CountersExact
  BY <1>3, <1>4 DEF CountersExact
<1>6. SetsMatchFlags
  BY <1>3 DEF SetsMatchFlags
<1> QED
  BY <1>1, <1>2, <1>5, <1>6 DEF IInv, BooksAgree

\* start_connect finds a file to start and a free descriptor for it.
Started(f, fd) ==
  /\ pc = "fill" /\ i' = f
  /\ f_fd' = [f_fd EXCEPT ![f] = fd] /\ open' = open \cup {fd}
  /\ nlefttoread' = nlefttoread /\ rs' = rs /\ ws' = ws

InProgress(f, fd) ==
  /\ pc' = "fill" /\ net' = [net EXCEPT ![f] = "syn"]
  /\ f_flags' = [f_flags EXCEPT ![f] = "CONNECTING"]
  /\ rset' = rset \cup {fd} /\ wset' = wset \cup {fd}
  /\ maxfd' = Highest(maxfd, fd) /\ gets' = gets
  /\ nconn' = nconn + 1 /\ nlefttoconn' = nlefttoconn - 1

AtOnce(f, fd) ==
  /\ pc' = "fill" /\ net' = [net EXCEPT ![f] = "up"]
  /\ f_flags' = [f_flags EXCEPT ![f] = "READING"]
  /\ rset' = rset \cup {fd} /\ wset' = wset
  /\ maxfd' = Highest(maxfd, fd) /\ gets' = [gets EXCEPT ![f] = @ + 1]
  /\ nconn' = nconn + 1 /\ nlefttoconn' = nlefttoconn - 1

Fails(f) ==
  /\ pc' = "connect error" /\ net' = [net EXCEPT ![f] = "refused"]
  /\ UNCHANGED <<f_flags, rset, wset, maxfd, gets, nconn, nlefttoconn>>

LEMMA Starts ==
  ASSUME IInv, StartConnect
  PROVE  /\ nconn < maxnconn /\ nlefttoconn > 0
         /\ \E f \in Unstarted, fd \in Descriptors \ open :
              Started(f, fd) /\ (InProgress(f, fd) \/ AtOnce(f, fd) \/ Fails(f))
<1> DEFINE f == Lowest(Unstarted)
           fd == Lowest(Descriptors \ open)
<1>1. /\ pc = "fill" /\ nconn < maxnconn /\ nlefttoconn > 0 /\ Unstarted # {}
  BY DEF StartConnect, MayConnect
<1>2. TypeOK /\ CountersExact
  BY <1>1 DEF IInv, BooksAgree, Running
<1>3. f \in Unstarted
  BY <1>1, <1>2, CountedSets, Finite, LowestExists
<1>4. f \in Files /\ f \notin Active
  BY <1>3 DEF Unstarted, Active
<1>5. Cardinality(open) < nfiles
  <2>1. Cardinality(Active) <= Cardinality(Files) /\ (Cardinality(Files) = Cardinality(Active) => Files = Active)
    BY <1>2, CountedSets, Finite, FS_Subset
  <2>2. Cardinality(Active) # nfiles
    BY <1>4, <2>1, Finite
  <2> QED
    BY <1>2, <2>1, <2>2, CountedSets, Finite, WebAssumption DEF CountersExact
<1>6. open # Descriptors /\ open \subseteq Descriptors
  <2>1. open \subseteq Descriptors
    BY <1>2 DEF TypeOK
  <2> QED
    BY <1>5, <2>1, Finite, WebAssumption
<1>7. fd \in Descriptors \ open
  <2>1. Descriptors \ open # {} /\ Descriptors \ open \subseteq Nat
    BY <1>6, Finite
  <2> QED
    BY <2>1, LowestExists
<1> HIDE DEF f, fd
<1>8. Started(f, fd)
  BY DEF StartConnect, Started, f, fd
<1>9. InProgress(f, fd) \/ AtOnce(f, fd) \/ Fails(f)
  BY <1>1 DEF StartConnect, WriteGetCmd, WatchAfterGet, InProgress, AtOnce, Fails, sets, f, fd
<1> QED
  BY <1>1, <1>3, <1>7, <1>8, <1>9
-----------------------------------------------------------------------------
(* Each conjunct is preserved.  A step of a server changes net alone.      *)

ServerStep == \E f \in Files : Accept(f) \/ Refuse(f) \/ Data(f) \/ Fin(f) \/ Rst(f)

LEMMA ServerSteps ==
  ASSUME IInv, ServerStep
  PROVE  /\ UNCHANGED <<tables, sets, rs, ws, counts, i, pc, open, gets>>
         /\ net' \in [Files -> {"none", "syn", "refused", "up", "data", "fin", "reset"}]
         /\ \A f \in Files :
              \/ net'[f] = net[f]
              \/ net[f] = "syn" /\ net'[f] \in {"up", "refused"}
              \/ net[f] = "up" /\ net'[f] \in {"data", "fin", "reset"}
              \/ net[f] = "data" /\ net'[f] = "reset"
<1>1. net \in [Files -> {"none", "syn", "refused", "up", "data", "fin", "reset"}]
  BY DEF IInv, TypeOK
<1> QED
  BY <1>1 DEF ServerStep, Accept, Refuse, Data, Fin, Rst, Becomes

\* The steps that move only the loop of the client.
LoopStep == Finish \/ EndFill \/ Pass \/ ReadError \/ EndScan

LEMMA TypeStep == IInv /\ [Next]_vars => TypeOK'
<1> SUFFICES ASSUME IInv, [Next]_vars PROVE TypeOK'
  OBVIOUS
<1> USE WebAssumption
<1>0. TypeOK /\ FlagsTrue
  BY DEF IInv
<1>1. /\ f_flags \in [Files -> {"0", "CONNECTING", "READING", "DONE"}]
      /\ f_fd \in [Files -> Descriptors \cup {NoFd}] /\ maxfd \in Descriptors \cup {-1}
      /\ net \in [Files -> {"none", "syn", "refused", "up", "data", "fin", "reset"}]
      /\ gets \in [Files -> 0 .. 2] /\ i \in 0 .. nfiles
      /\ nconn \in 0 .. maxnconn /\ nlefttoconn \in 0 .. nfiles
      /\ nlefttoread \in 0 .. nfiles
  BY <1>0 DEF TypeOK
<1>2. ASSUME NEW fd \in Descriptors PROVE Highest(maxfd, fd) \in Descriptors \cup {-1}
  BY <1>1 DEF Highest
<1>3. ASSUME NEW f \in Files, f_flags[f] \in {"0", "CONNECTING"}
      PROVE  [gets EXCEPT ![f] = @ + 1] \in [Files -> 0 .. 2]
  <2>1. gets[f] = 0
    BY <1>0, <1>3 DEF FlagsTrue
  <2> QED
    BY <1>1, <2>1
<1>4. CASE LoopStep
  <2>1. UNCHANGED <<tables, sets, rs, ws, counts, open, net, gets>>
    BY <1>4 DEF LoopStep, Finish, EndFill, Pass, ReadError, EndScan
  <2>2. i' = i \/ (i' = i + 1 /\ i < nfiles)
    BY <1>4 DEF LoopStep, Finish, EndFill, Pass, ReadError, EndScan, Scanned
  <2>3. pc' \in {pc, "exit", "select", "read error", "fill"}
    BY <1>4 DEF LoopStep, Finish, EndFill, Pass, ReadError, EndScan
  <2> QED
    <3>1. i' \in 0 .. nfiles
      BY <1>1, <2>2
    <3> QED
      BY <1>0, <2>1, <2>3, <3>1 DEF TypeOK, tables, sets, counts
<1>5. CASE StartConnect
  <2>1. PICK f \in Unstarted, fd \in Descriptors \ open :
           Started(f, fd) /\ (InProgress(f, fd) \/ AtOnce(f, fd) \/ Fails(f))
    BY <1>5, Starts
  <2>2. nconn < maxnconn /\ nlefttoconn > 0
    BY <1>5, Starts
  <2>3. f \in Files /\ f_flags[f] = "0"
    BY DEF Unstarted
  <2>4. i' \in 0 .. nfiles
    BY <2>1, <2>3 DEF Started, Files
  <2>5. nconn + 1 \in 0 .. maxnconn /\ nlefttoconn - 1 \in 0 .. nfiles
    BY <1>1, <2>2
  <2>6. nconn' \in 0 .. maxnconn /\ nlefttoconn' \in 0 .. nfiles
    BY <1>1, <2>1, <2>5 DEF InProgress, AtOnce, Fails
  <2>7. /\ f_flags' \in [Files -> {"0", "CONNECTING", "READING", "DONE"}]
        /\ net' \in [Files -> {"none", "syn", "refused", "up", "data", "fin", "reset"}]
        /\ pc' \in {"fill", "connect error"}
    BY <1>1, <2>1, <2>3 DEF InProgress, AtOnce, Fails
  <2>8. gets' \in [Files -> 0 .. 2]
    BY <1>1, <1>3, <2>1, <2>3 DEF InProgress, AtOnce, Fails
  <2>9. /\ rset' \subseteq Descriptors /\ wset' \subseteq Descriptors
        /\ maxfd' \in Descriptors \cup {-1}
    BY <1>0, <1>1, <1>2, <2>1 DEF InProgress, AtOnce, Fails, TypeOK
  <2>10. /\ f_fd' \in [Files -> Descriptors \cup {NoFd}] /\ open' \subseteq Descriptors
         /\ UNCHANGED <<nlefttoread, rs, ws>>
    BY <1>0, <1>1, <2>1, <2>3 DEF Started, TypeOK
  <2> QED
    BY <1>0, <2>4, <2>6, <2>7, <2>8, <2>9, <2>10 DEF TypeOK
<1>6. CASE Select
  <2>1. /\ UNCHANGED <<tables, sets, counts, open, net, gets>> /\ i' = 0
        /\ pc' \in {"scan", "select error"}
    BY <1>6 DEF Select
  <2>2. i' \in 0 .. nfiles
    <3>1. 0 \in 0 .. nfiles
      OBVIOUS
    <3> QED
      BY <2>1, <3>1
  <2>3. rs' \subseteq Descriptors /\ ws' \subseteq Descriptors
    <3>1. /\ rset \subseteq Descriptors /\ wset \subseteq Descriptors
          /\ rs \subseteq Descriptors /\ ws \subseteq Descriptors
      BY <1>0 DEF TypeOK
    <3>2. CASE Watched(rset \cup wset) \subseteq open
      BY <1>6, <3>1, <3>2 DEF Select, Watched
    <3>3. CASE ~ (Watched(rset \cup wset) \subseteq open)
      BY <1>6, <3>1, <3>3 DEF Select
    <3> QED
      BY <3>2, <3>3
  <2> QED
    BY <1>0, <2>1, <2>2, <2>3 DEF TypeOK, tables, sets, counts
<1>7. CASE Connected
  <2>1. /\ i \in Files /\ f_flags[i] = "CONNECTING" /\ f_fd[i] \in Descriptors
        /\ i' \in 0 .. nfiles
    BY <1>0, <1>1, <1>7 DEF Connected, Scanned, Connecting, FlagsTrue, Files
  <2>2. /\ f_flags' \in [Files -> {"0", "CONNECTING", "READING", "DONE"}]
        /\ rset' \subseteq Descriptors /\ wset' \subseteq Descriptors
        /\ pc' \in {"scan", "SIGPIPE"}
    BY <1>0, <1>1, <1>7, <2>1 DEF Connected, WriteGetCmd, WatchAfterGet, TypeOK
  <2>3. gets' \in [Files -> 0 .. 2] /\ maxfd' \in Descriptors \cup {-1}
    BY <1>1, <1>2, <1>3, <1>7, <2>1 DEF Connected, WriteGetCmd
  <2>4. UNCHANGED <<f_fd, rs, ws, counts, open, net>>
    BY <1>7 DEF Connected
  <2> QED
    BY <1>0, <2>1, <2>2, <2>3, <2>4 DEF TypeOK, counts
<1>8. CASE ReadData
  <2>1. i \in Files /\ i' \in 0 .. nfiles
    BY <1>1, <1>8 DEF ReadData, Scanned, Files
  <2> QED
    BY <1>0, <1>8, <2>1 DEF ReadData, TypeOK, tables, sets, counts
<1>9. CASE ReadEof
  <2>1. /\ i \in Files /\ f_flags[i] = "READING" /\ pc = "scan" /\ i' \in 0 .. nfiles
    BY <1>1, <1>9 DEF ReadEof, Scanned, Reading, Files
  <2>2. CountersExact
    BY <2>1 DEF IInv, BooksAgree, Running
  <2>3. Active # {} /\ Active \cup Unstarted # {}
    BY <2>1 DEF Active
  <2>4. nconn > 0 /\ nlefttoread > 0
    <3>1. Cardinality(Active) # 0 /\ Cardinality(Active \cup Unstarted) # 0
      BY <1>0, <2>3, CountedSets, FS_EmptySet
    <3> QED
      BY <1>1, <2>2, <3>1 DEF CountersExact
  <2>5. nconn' \in 0 .. maxnconn /\ nlefttoread' \in 0 .. nfiles
    BY <1>1, <1>9, <2>4 DEF ReadEof, NconnAfterClose
  <2>6. /\ f_flags' \in [Files -> {"0", "CONNECTING", "READING", "DONE"}]
        /\ net' \in [Files -> {"none", "syn", "refused", "up", "data", "fin", "reset"}]
        /\ rset' \subseteq Descriptors /\ open' \subseteq Descriptors
        /\ UNCHANGED <<f_fd, wset, maxfd, rs, ws, nlefttoconn, pc, gets>>
    BY <1>0, <1>1, <1>9, <2>1 DEF ReadEof, Unwatch, TypeOK
  <2> QED
    BY <1>0, <2>1, <2>5, <2>6 DEF TypeOK
<1>10. CASE ServerStep
  BY <1>0, <1>10, ServerSteps DEF TypeOK, tables, sets, counts
<1>11. CASE UNCHANGED vars
  BY <1>0, <1>11 DEF TypeOK, vars, tables, sets, counts
<1> QED
  BY <1>4, <1>5, <1>6, <1>7, <1>8, <1>9, <1>10, <1>11
     DEF Next, ClientStep, LoopStep, ServerStep
\* What each client step does to one file's row and to the sets.
ConnectedOk ==
  /\ f_flags' = [f_flags EXCEPT ![i] = "READING"] /\ gets' = [gets EXCEPT ![i] = @ + 1]
  /\ rset' = rset \cup {f_fd[i]} /\ wset' = wset \ {f_fd[i]}
  /\ maxfd' = Highest(maxfd, f_fd[i]) /\ pc' = "scan" /\ net[i] \in {"up", "data", "fin"}

LEMMA Connects ==
  ASSUME IInv, Connected
  PROVE  /\ pc = "scan" /\ i \in Files /\ f_flags[i] = "CONNECTING" /\ i' = i + 1
         /\ UNCHANGED <<f_fd, rs, ws, nconn, nlefttoconn, nlefttoread, open, net>>
         /\ ConnectedOk \/ (pc' = "SIGPIPE" /\ UNCHANGED <<gets, f_flags>>)
<1>1. i \in 0 .. nfiles /\ nfiles \in Nat
  BY WebAssumption DEF IInv, TypeOK
<1>2. pc = "scan" /\ i \in Files /\ f_flags[i] = "CONNECTING" /\ i' = i + 1
  BY <1>1 DEF Connected, Scanned, Connecting, Files
<1>3. UNCHANGED <<f_fd, rs, ws, nconn, nlefttoconn, nlefttoread, open, net>>
  BY DEF Connected, counts
<1>3a. wset' = wset \ {f_fd[i]} /\ WriteGetCmd(i, f_fd[i], Established(i), "scan")
  BY DEF Connected
<1>4. ASSUME Established(i) PROVE ConnectedOk
  <2>1. net[i] \in {"up", "data", "fin"}
    BY <1>4 DEF Established
  <2> QED
    BY <1>3a, <1>4, <2>1 DEF WriteGetCmd, WatchAfterGet, ConnectedOk
<1>5. ASSUME ~Established(i) PROVE pc' = "SIGPIPE" /\ UNCHANGED <<gets, f_flags>>
  BY <1>3a, <1>5 DEF WriteGetCmd
<1> QED
  BY <1>2, <1>3, <1>4, <1>5

LEMMA FlagsStep == IInv /\ [Next]_vars => FlagsTrue'
<1> SUFFICES ASSUME IInv, [Next]_vars PROVE FlagsTrue'
  OBVIOUS
<1>0. FlagsTrue
  BY DEF IInv
<1>1. /\ f_flags \in [Files -> {"0", "CONNECTING", "READING", "DONE"}]
      /\ f_fd \in [Files -> Descriptors \cup {NoFd}] /\ gets \in [Files -> 0 .. 2]
      /\ net \in [Files -> {"none", "syn", "refused", "up", "data", "fin", "reset"}]
      /\ i \in 0 .. nfiles
  BY DEF IInv, TypeOK
<1>2. CASE LoopStep \/ Select \/ UNCHANGED vars
  <2>1. UNCHANGED <<f_flags, f_fd, gets, net>>
    BY <1>2 DEF LoopStep, Finish, EndFill, Pass, ReadError, EndScan, Select, vars, tables
  <2> QED
    BY <1>0, <2>1 DEF FlagsTrue
<1>3. CASE StartConnect
  <2>1. PICK f \in Unstarted, fd \in Descriptors \ open :
           Started(f, fd) /\ (InProgress(f, fd) \/ AtOnce(f, fd) \/ Fails(f))
    BY <1>3, Starts
  <2>2. f \in Files /\ f_flags[f] = "0" /\ gets[f] = 0
    BY <1>0 DEF Unstarted, FlagsTrue
  <2>3. CASE InProgress(f, fd)
    BY <1>0, <1>1, <2>1, <2>2, <2>3 DEF FlagsTrue, Started, InProgress
  <2>4. CASE AtOnce(f, fd)
    BY <1>0, <1>1, <2>1, <2>2, <2>4 DEF FlagsTrue, Started, AtOnce
  <2>5. CASE Fails(f)
    BY <1>0, <1>1, <2>1, <2>2, <2>5 DEF FlagsTrue, Started, Fails
  <2> QED
    BY <2>1, <2>3, <2>4, <2>5
<1>4. CASE Connected
  <2>1. i \in Files /\ f_flags[i] = "CONNECTING" /\ gets[i] = 0 /\ f_fd' = f_fd /\ net' = net
    BY <1>0, <1>4, Connects DEF FlagsTrue
  <2>2. CASE ConnectedOk
    BY <1>0, <1>1, <2>1, <2>2 DEF FlagsTrue, ConnectedOk
  <2>3. CASE UNCHANGED <<gets, f_flags>>
    BY <1>0, <2>1, <2>3 DEF FlagsTrue
  <2> QED
    BY <1>4, <2>2, <2>3, Connects
<1>5. CASE ReadData
  BY <1>0, <1>1, <1>5 DEF ReadData, FlagsTrue, tables
<1>6. CASE ReadEof
  BY <1>0, <1>1, <1>6 DEF ReadEof, Reading, FlagsTrue
<1>7. CASE ServerStep
  BY <1>0, <1>7, ServerSteps DEF FlagsTrue, tables
<1> QED
  BY <1>2, <1>3, <1>4, <1>5, <1>6, <1>7 DEF Next, ClientStep, LoopStep, ServerStep

\* A file's readiness is decided by select and only its own turn uses it up.
LEMMA ReadyStep == IInv /\ [Next]_vars => StillReady'
<1> SUFFICES ASSUME IInv, [Next]_vars, pc' = "scan" PROVE StillReady'
  BY DEF StillReady
<1>0. FlagsTrue /\ StillReady
  BY DEF IInv
<1>1. /\ f_flags \in [Files -> {"0", "CONNECTING", "READING", "DONE"}]
      /\ net \in [Files -> {"none", "syn", "refused", "up", "data", "fin", "reset"}]
      /\ i \in 0 .. nfiles /\ Files \subseteq Nat
  BY Finite DEF IInv, TypeOK
<1>2. CASE Select
  <2>1. ASSUME NEW f \in Files, Reading(f)' PROVE net'[f] \in {"data", "fin", "reset"}
    <3>1. /\ f_flags' = f_flags /\ f_fd' = f_fd /\ net' = net /\ pc = "select"
          /\ rs' = {fd \in Watched(rset) : Readable(fd)}
      BY <1>2 DEF Select, tables
    <3>2. f_flags[f] = "READING" /\ f_fd[f] \in rs'
      BY <2>1, <3>1 DEF Reading
    <3>3. Readable(f_fd[f])
      BY <3>1, <3>2
    <3>4. Owner(f_fd[f]) = f
      <4>1. \A g \in Active : g # f => f_fd[g] # f_fd[f]
        BY <3>1, <3>2 DEF IInv, BooksAgree, Running, SetsMatchFlags, Active
      <4>2. \A g \in Files : f_fd[g] = f_fd[f] /\ f_flags[g] \in {"CONNECTING", "READING"} => g = f
        BY <4>1 DEF Active
      <4> QED
        BY <3>2, <4>2 DEF Owner
    <3>5. net[f] \in {"data", "fin", "refused", "reset"}
      BY <3>3, <3>4 DEF Readable
    <3> QED
      BY <1>0, <3>1, <3>2, <3>5 DEF FlagsTrue
  <2> QED
    BY <2>1 DEF StillReady
<1>3. CASE Connected
  <2>1. /\ pc = "scan" /\ i \in Files /\ i' = i + 1 /\ ConnectedOk
        /\ UNCHANGED <<f_fd, rs, net>>
    BY <1>3, Connects
  <2>2. \A f \in Files : f >= i + 1 => f_flags'[f] = f_flags[f] /\ f >= i
    BY <1>1, <2>1 DEF ConnectedOk
  <2> QED
    BY <1>0, <2>1, <2>2 DEF StillReady, Reading
<1>4. CASE ReadData \/ ReadEof
  <2>1. /\ pc = "scan" /\ i' = i + 1 /\ UNCHANGED <<f_fd, rs>>
        /\ i \in 0 .. nfiles /\ i < nfiles
    BY <1>1, <1>4 DEF ReadData, ReadEof, Scanned, tables
  <2>2. i \in Files
    BY <1>1, <2>1, WebAssumption DEF Files
  <2>3. \A f \in Files : f # i => f_flags'[f] = f_flags[f] /\ net'[f] = net[f]
    BY <1>1, <1>4, <2>2 DEF ReadData, ReadEof, tables
  <2>4. \A f \in Files : f >= i + 1 => f # i /\ f >= i
    BY <1>1, <2>2
  <2> QED
    BY <1>0, <2>1, <2>3, <2>4 DEF StillReady, Reading
<1>5. CASE Pass
  <2>1. pc = "scan" /\ i' = i + 1 /\ UNCHANGED <<f_flags, f_fd, rs, net>>
    BY <1>5 DEF Pass, Scanned, tables
  <2>2. \A f \in Files : f >= i + 1 => f >= i
    BY <1>1
  <2> QED
    BY <1>0, <2>1, <2>2 DEF StillReady, Reading
<1>6. CASE ServerStep
  BY <1>0, <1>6, ServerSteps DEF StillReady, Reading, tables
<1>7. CASE UNCHANGED vars
  BY <1>0, <1>7 DEF StillReady, Reading, vars, tables
<1>8. CASE Finish \/ EndFill \/ ReadError \/ EndScan
  BY <1>8 DEF Finish, EndFill, ReadError, EndScan
<1>9. CASE StartConnect
  BY <1>9, Starts DEF InProgress, AtOnce, Fails
<1> QED
  BY <1>2, <1>3, <1>4, <1>5, <1>6, <1>7, <1>8, <1>9 DEF Next, ClientStep, ServerStep
\* The file at which the scan reads an end of file leaves the table's books.
LEMMA Ends ==
  ASSUME IInv, ReadEof
  PROVE  /\ pc = "scan" /\ pc' = pc /\ i \in Files /\ f_flags[i] = "READING"
         /\ f_flags' = [f_flags EXCEPT ![i] = "DONE"]
         /\ open' = open \ {f_fd[i]} /\ rset' = rset \ {f_fd[i]}
         /\ nconn' = nconn - 1 /\ nlefttoread' = nlefttoread - 1
         /\ UNCHANGED <<f_fd, wset, maxfd, nlefttoconn>>
<1>1. i \in 0 .. nfiles /\ nfiles \in Nat
  BY WebAssumption DEF IInv, TypeOK
<1>2. pc = "scan" /\ i < nfiles /\ f_flags[i] = "READING"
  BY DEF ReadEof, Scanned, Reading
<1>3. i \in Files
  BY <1>1, <1>2 DEF Files
<1> QED
  BY <1>2, <1>3 DEF ReadEof, Unwatch, NconnAfterClose

\* The steps that leave the books alone, or end the program.
Quiet ==
  \/ LoopStep \/ Select \/ ReadData \/ ServerStep \/ UNCHANGED vars

LEMMA QuietSteps ==
  ASSUME IInv, Quiet
  PROVE  UNCHANGED <<f_flags, f_fd, rset, wset, maxfd, nconn, nlefttoconn, nlefttoread, open>>
<1>1. CASE LoopStep \/ Select \/ ReadData \/ UNCHANGED vars
  BY <1>1 DEF LoopStep, Finish, EndFill, Pass, ReadError, EndScan, Select, ReadData, vars,
              tables, sets, counts
<1>2. CASE ServerStep
  BY <1>2, ServerSteps DEF tables, sets, counts
<1> QED
  BY <1>1, <1>2 DEF Quiet

\* Only a running program steps on, except that the servers may.
LEMMA WasRunning ==
  ASSUME IInv, [Next]_vars, Running'
  PROVE  Running
<1>1. CASE Finish \/ EndFill \/ Pass \/ ReadError \/ EndScan \/ Select \/ ReadData \/ UNCHANGED vars
  BY <1>1 DEF Finish, EndFill, Pass, ReadError, EndScan, Select, ReadData, vars,
              Scanned, Running
<1>2. CASE StartConnect
  BY <1>2 DEF StartConnect, Running
<1>3. CASE Connected
  BY <1>3, Connects DEF Running
<1>4. CASE ReadEof
  BY <1>4, Ends DEF Running
<1>5. CASE ServerStep
  BY <1>5, ServerSteps DEF Running
<1> QED
  BY <1>1, <1>2, <1>3, <1>4, <1>5 DEF Next, ClientStep, ServerStep

LEMMA SetsStep == IInv /\ [Next]_vars => (Running => SetsMatchFlags)'
<1> SUFFICES ASSUME IInv, [Next]_vars, Running' PROVE SetsMatchFlags'
  OBVIOUS
<1>0. SetsMatchFlags /\ FlagsTrue
  BY WasRunning DEF IInv, BooksAgree
<1>1. /\ f_flags \in [Files -> {"0", "CONNECTING", "READING", "DONE"}]
      /\ f_fd \in [Files -> Descriptors \cup {NoFd}]
      /\ maxfd \in Int /\ \A fd \in Descriptors : fd \in Int
      /\ open \subseteq Descriptors /\ rset \subseteq Descriptors
  <2>1. TypeOK
    BY DEF IInv
  <2>2. maxfd \in Int /\ \A fd \in Descriptors : fd \in Int
    <3>1. maxfd \in Descriptors \cup {-1}
      BY <2>1 DEF TypeOK
    <3> QED
      BY <3>1, Finite
  <2> QED
    BY <2>1, <2>2 DEF TypeOK
<1>2. \A f \in Active : f_fd[f] \in Descriptors
  BY <1>0 DEF FlagsTrue, Active
<1>3. CASE Quiet
  BY <1>0, <1>3, QuietSteps DEF SetsMatchFlags, Active
<1>4. CASE StartConnect
  <2>1. PICK f \in Unstarted, fd \in Descriptors \ open :
           Started(f, fd) /\ (InProgress(f, fd) \/ AtOnce(f, fd) \/ Fails(f))
    BY <1>4, Starts
  <2>2. f \in Files /\ f_flags[f] = "0" /\ f \notin Active
    BY DEF Unstarted, Active
  <2>3. f_fd' = [f_fd EXCEPT ![f] = fd] /\ open' = open \cup {fd}
    BY <2>1 DEF Started
  <2>4. /\ f_flags' \in {[f_flags EXCEPT ![f] = "CONNECTING"], [f_flags EXCEPT ![f] = "READING"]}
        /\ rset' = rset \cup {fd} /\ maxfd' = Highest(maxfd, fd)
        /\ wset' = IF f_flags'[f] = "CONNECTING" THEN wset \cup {fd} ELSE wset
    BY <1>1, <2>1, <2>2 DEF InProgress, AtOnce, Fails, Running
  <2>5. Active' = Active \cup {f} /\ f_fd'[f] = fd /\ \A g \in Active : f_fd'[g] = f_fd[g]
    BY <1>1, <2>2, <2>3, <2>4 DEF Active
  <2>6. /\ rset' = {f_fd'[g] : g \in Active'} /\ rset' = open'
        /\ \A g, h \in Active' : g # h => f_fd'[g] # f_fd'[h]
    BY <1>0, <2>3, <2>4, <2>5 DEF SetsMatchFlags
  <2>7. wset' = {f_fd'[g] : g \in {h \in Active' : f_flags'[h] = "CONNECTING"}}
    <3>1. \A g \in Active : f_flags'[g] = f_flags[g]
      BY <1>1, <2>2, <2>4 DEF Active
    <3>2. CASE f_flags'[f] = "CONNECTING"
      BY <1>0, <2>4, <2>5, <3>1, <3>2 DEF SetsMatchFlags
    <3>3. CASE f_flags'[f] # "CONNECTING"
      BY <1>0, <2>4, <2>5, <3>1, <3>3 DEF SetsMatchFlags
    <3> QED
      BY <3>2, <3>3
  <2>8. \A x \in rset' : x <= maxfd'
    BY <1>0, <1>1, <2>4 DEF SetsMatchFlags, Highest
  <2> QED
    BY <2>6, <2>7, <2>8 DEF SetsMatchFlags
<1>5. CASE Connected
  <2>1. /\ i \in Files /\ f_flags[i] = "CONNECTING" /\ UNCHANGED <<f_fd, open>>
        /\ ConnectedOk
    BY <1>5, Connects DEF Running
  <2>2. i \in Active /\ Active' = Active
    BY <1>1, <2>1 DEF Active, ConnectedOk
  <2>3. rset' = rset
    BY <1>0, <2>1, <2>2 DEF SetsMatchFlags, ConnectedOk
  <2>4. wset' = {f_fd[g] : g \in {h \in Active : f_flags'[h] = "CONNECTING"}}
    <3>1. \A g \in Active : f_flags'[g] = "CONNECTING" <=> f_flags[g] = "CONNECTING" /\ g # i
      BY <1>1, <2>1, <2>2 DEF ConnectedOk, Active
    <3> QED
      BY <1>0, <2>1, <2>2, <3>1 DEF SetsMatchFlags, ConnectedOk
  <2>5. \A x \in rset : x <= maxfd'
    <3>1. f_fd[i] \in Int /\ maxfd' = Highest(maxfd, f_fd[i])
      BY <1>1, <1>2, <2>1, <2>2 DEF ConnectedOk
    <3> QED
      BY <1>0, <1>1, <3>1 DEF SetsMatchFlags, Highest
  <2> QED
    BY <1>0, <2>1, <2>2, <2>3, <2>4, <2>5 DEF SetsMatchFlags
<1>6. CASE ReadEof
  <2>1. /\ i \in Files /\ f_flags[i] = "READING" /\ f_flags' = [f_flags EXCEPT ![i] = "DONE"]
        /\ open' = open \ {f_fd[i]} /\ rset' = rset \ {f_fd[i]}
        /\ UNCHANGED <<f_fd, wset, maxfd>>
    BY <1>6, Ends
  <2>2. i \in Active /\ Active' = Active \ {i} /\ \A g \in Active' : f_flags'[g] = f_flags[g]
    BY <1>1, <2>1 DEF Active
  <2>3. rset' = {f_fd[g] : g \in Active \ {i}} /\ rset' = open'
    BY <1>0, <2>1, <2>2 DEF SetsMatchFlags
  <2>4. {g \in Active' : f_flags'[g] = "CONNECTING"} = {g \in Active : f_flags[g] = "CONNECTING"}
    BY <2>1, <2>2
  <2> QED
    BY <1>0, <2>1, <2>2, <2>3, <2>4 DEF SetsMatchFlags
<1> QED
  BY <1>3, <1>4, <1>5, <1>6 DEF Next, ClientStep, LoopStep, ServerStep, Quiet
LEMMA CountersStep == IInv /\ [Next]_vars => (Running => CountersExact)'
<1> SUFFICES ASSUME IInv, [Next]_vars, Running' PROVE CountersExact'
  OBVIOUS
<1>0. TypeOK /\ CountersExact /\ SetsMatchFlags
  BY WasRunning DEF IInv, BooksAgree
<1>1. f_flags \in [Files -> {"0", "CONNECTING", "READING", "DONE"}]
  BY <1>0 DEF TypeOK
<1>2. /\ IsFiniteSet(Active) /\ IsFiniteSet(Unstarted)
      /\ IsFiniteSet(Active \cup Unstarted) /\ IsFiniteSet(open)
  BY <1>0, CountedSets
<1>3. CASE Quiet
  BY <1>0, <1>3, QuietSteps DEF CountersExact, Active, Unstarted
<1>4. CASE StartConnect
  <2>1. PICK f \in Unstarted, fd \in Descriptors \ open :
           Started(f, fd) /\ (InProgress(f, fd) \/ AtOnce(f, fd) \/ Fails(f))
    BY <1>4, Starts
  <2>2. f \in Files /\ f_flags[f] = "0" /\ f \notin Active
    BY DEF Unstarted, Active
  <2>3. /\ f_flags' \in {[f_flags EXCEPT ![f] = "CONNECTING"], [f_flags EXCEPT ![f] = "READING"]}
        /\ nconn' = nconn + 1 /\ nlefttoconn' = nlefttoconn - 1 /\ nlefttoread' = nlefttoread
        /\ open' = open \cup {fd}
    BY <2>1 DEF Started, InProgress, AtOnce, Fails, Running
  <2>4. /\ Active' = Active \cup {f} /\ Unstarted' = Unstarted \ {f}
        /\ Active' \cup Unstarted' = Active \cup Unstarted
    BY <1>1, <2>2, <2>3 DEF Active, Unstarted
  <2>5. /\ Cardinality(Active \cup {f}) = Cardinality(Active) + 1
        /\ Cardinality(Unstarted \ {f}) = Cardinality(Unstarted) - 1
        /\ Cardinality(open \cup {fd}) = Cardinality(open) + 1
    BY <1>2, <2>2, FS_AddElement, FS_RemoveElement
  <2> QED
    BY <1>0, <2>3, <2>4, <2>5 DEF CountersExact
<1>5. CASE Connected
  <2>1. /\ i \in Files /\ f_flags[i] = "CONNECTING" /\ f_flags' = [f_flags EXCEPT ![i] = "READING"]
        /\ UNCHANGED <<nconn, nlefttoconn, nlefttoread, open>>
    BY <1>5, Connects DEF Running, ConnectedOk
  <2>2. Active' = Active /\ Unstarted' = Unstarted
    BY <1>1, <2>1 DEF Active, Unstarted
  <2> QED
    BY <1>0, <2>1, <2>2 DEF CountersExact
<1>6. CASE ReadEof
  <2>1. /\ i \in Files /\ f_flags[i] = "READING" /\ f_flags' = [f_flags EXCEPT ![i] = "DONE"]
        /\ nconn' = nconn - 1 /\ nlefttoread' = nlefttoread - 1 /\ nlefttoconn' = nlefttoconn
        /\ open' = open \ {f_fd[i]}
    BY <1>6, Ends
  <2>2. /\ i \in Active /\ Active' = Active \ {i} /\ Unstarted' = Unstarted
        /\ Active' \cup Unstarted' = (Active \cup Unstarted) \ {i}
    BY <1>1, <2>1 DEF Active, Unstarted
  <2>3. f_fd[i] \in open
    BY <1>0, <2>2 DEF SetsMatchFlags
  <2>4. /\ Cardinality(Active \ {i}) = Cardinality(Active) - 1
        /\ Cardinality((Active \cup Unstarted) \ {i}) = Cardinality(Active \cup Unstarted) - 1
        /\ Cardinality(open \ {f_fd[i]}) = Cardinality(open) - 1
    BY <1>2, <2>2, <2>3, FS_RemoveElement
  <2> QED
    BY <1>0, <2>1, <2>2, <2>4 DEF CountersExact
<1> QED
  BY <1>3, <1>4, <1>5, <1>6 DEF Next, ClientStep, LoopStep, ServerStep, Quiet

LEMMA WaitStep == IInv /\ [Next]_vars => SelectSafe'
<1> SUFFICES ASSUME IInv, [Next]_vars PROVE SelectSafe'
  OBVIOUS
<1>0. TypeOK /\ SelectSafe
  BY DEF IInv
<1>1. CASE EndFill
  <2>1. /\ pc = "fill" /\ nlefttoread > 0 /\ ~MayConnect /\ pc' = "select"
        /\ rset' = rset /\ wset' = wset
    BY <1>1 DEF EndFill, sets
  <2>2. CountersExact /\ SetsMatchFlags
    BY <2>1 DEF IInv, BooksAgree, Running
  <2>3. nconn \in Nat /\ nlefttoconn \in Nat /\ nlefttoread \in Nat
    <3>1. nconn \in 0 .. maxnconn /\ nlefttoconn \in 0 .. nfiles /\ nlefttoread \in 0 .. nfiles
      BY <1>0 DEF TypeOK
    <3> QED
      BY <3>1, WebAssumption
  <2>4. nconn > 0 \/ nlefttoconn = 0
    BY <2>1, <2>3, WebAssumption DEF MayConnect
  <2>5. Active # {}
    <3>1. CASE nconn > 0
      <4>1. Cardinality(Active) # 0
        BY <2>2, <2>3, <3>1 DEF CountersExact
      <4> QED
        BY <4>1, FS_EmptySet
    <3>2. CASE nlefttoconn = 0
      <4>1. Cardinality(Unstarted) = 0
        BY <2>2, <3>2 DEF CountersExact
      <4>2. Unstarted = {}
        BY <1>0, <4>1, CountedSets, FS_EmptySet
      <4>3. Cardinality(Active \cup Unstarted) # 0
        BY <2>1, <2>2, <2>3 DEF CountersExact
      <4>4. Active \cup Unstarted = Active
        BY <4>2
      <4> QED
        BY <4>3, <4>4, FS_EmptySet
    <3> QED
      BY <2>4, <3>1, <3>2
  <2>6. rset # {}
    BY <2>2, <2>5 DEF SetsMatchFlags
  <2> QED
    BY <2>1, <2>6 DEF SelectSafe
<1>2. CASE Select
  <2>1. SetsMatchFlags /\ pc = "select"
    BY <1>2 DEF IInv, BooksAgree, Running, Select
  <2>2. Watched(rset \cup wset) \subseteq open
    BY <2>1 DEF SetsMatchFlags, Watched
  <2> QED
    BY <1>2, <2>2 DEF Select, SelectSafe
<1>3. CASE Finish \/ Pass \/ ReadError \/ EndScan \/ ReadData
  BY <1>0, <1>3 DEF Finish, Pass, ReadError, EndScan, ReadData, Scanned, SelectSafe
<1>4. CASE StartConnect
  BY <1>4, Starts DEF InProgress, AtOnce, Fails, SelectSafe
<1>5. CASE Connected
  BY <1>5, Connects DEF ConnectedOk, SelectSafe
<1>6. CASE ReadEof
  BY <1>6, Ends DEF SelectSafe
<1>7. CASE ServerStep
  BY <1>0, <1>7, ServerSteps DEF SelectSafe, sets
<1>8. CASE UNCHANGED vars
  BY <1>0, <1>8 DEF SelectSafe, vars, sets
<1> QED
  BY <1>1, <1>2, <1>3, <1>4, <1>5, <1>6, <1>7, <1>8 DEF Next, ClientStep, ServerStep

-----------------------------------------------------------------------------
(* The theorems.                                                           *)

\* The inductive invariant: the types, what the flags of a file say about its
\* connection, the two descriptor sets, the three counters and what select
\* reported that the scan has still to come to.
THEOREM Inductive == Spec => []IInv
<1>1. IInv /\ [Next]_vars => IInv'
  BY TypeStep, FlagsStep, ReadyStep, SetsStep, CountersStep, WaitStep DEF IInv, BooksAgree
<1> QED
  BY InitInv, <1>1, PTL DEF Spec

\* The variables of web.cpp keep their types: the counters stay in range, the
\* descriptors are those that were handed out, a GET is written at most once.
THEOREM TypeCorrect == Spec => []TypeOK
<1>1. IInv => TypeOK
  BY DEF IInv
<1> QED
  BY Inductive, <1>1, PTL

\* The counters, the descriptor sets and the table agree while the loop runs.
THEOREM Books == Spec => []BooksAgree
<1>1. IInv => BooksAgree
  BY DEF IInv
<1> QED
  BY Inductive, <1>1, PTL

\* A file's turn in the scan finds what select promised, so that the read of
\* the nonblocking socket never returns EWOULDBLOCK.
THEOREM ReadsFindSomething == Spec => []ReadOnlyWhenReady
<1>1. IInv => ReadOnlyWhenReady
  <2> SUFFICES ASSUME IInv, Scanned, Reading(i) PROVE net[i] \in {"data", "fin", "reset"}
    BY DEF ReadOnlyWhenReady
  <2>1. i \in Files /\ i >= i /\ pc = "scan"
    BY WebAssumption DEF IInv, TypeOK, Scanned, Files
  <2> QED
    BY <2>1 DEF IInv, StillReady
<1> QED
  BY Inductive, <1>1, PTL

\* select has something to wait for, every descriptor it is given is open, and
\* start_connect finds a file whenever nlefttoconn says that there is one.
THEOREM SelectWaits == Spec => []AlwaysSomethingToWaitFor
<1>1. ASSUME IInv, pc = "fill", nlefttoconn > 0 PROVE Unstarted # {}
  <2>1. CountersExact
    BY <1>1 DEF IInv, BooksAgree, Running
  <2>2. nlefttoconn \in 0 .. nfiles
    BY <1>1 DEF IInv, TypeOK
  <2>3. Cardinality(Unstarted) # 0
    BY <1>1, <2>1, <2>2, WebAssumption DEF CountersExact
  <2> QED
    BY <2>3, FS_EmptySet
<1>2. IInv => AlwaysSomethingToWaitFor
  BY <1>1 DEF IInv, SelectSafe, AlwaysSomethingToWaitFor
<1> QED
  BY Inductive, <1>2, PTL

-----------------------------------------------------------------------------
(* Icmpd.                                                                  *)

\* While a client is being accepted: nready is the number of descriptors in
\* the report, and where that has fd4 there is a message to read.
Report ==
  dpc \in {"listen", "accepted"} =>
    /\ nready = IF "fd4" \in drset THEN 2 ELSE 1
    /\ "fd4" \in drset => icmp # <<>>

\* The only connection the daemon may have open is the one just accepted.
OpenOnly ==
  /\ \A u \in Users : sock[u] = "open" => dpc = "accepted" /\ u \in connfd
  /\ dpc = "accepted" => \E u \in Users : connfd = {u}

KInv == I!TypeOK /\ Report /\ OpenOnly /\ I!NothingKept

LEMMA OneOrTwo ==
  /\ Cardinality({"listenfd"}) = 1 /\ Cardinality({"fd4"}) = 1
  /\ Cardinality({"listenfd", "fd4"}) = 2
<1>1. Cardinality({"listenfd"}) = 1 /\ Cardinality({"fd4"}) = 1 /\ IsFiniteSet({"listenfd"})
  BY FS_Singleton
<1>2. Cardinality({"listenfd"} \cup {"fd4"}) = 2
  BY <1>1, FS_AddElement
<1>3. {"listenfd"} \cup {"fd4"} = {"listenfd", "fd4"}
  OBVIOUS
<1> QED
  BY <1>1, <1>2, <1>3

\* The inductive invariant of icmpd: its types, the report, and who is open.
THEOREM DaemonInductive == I!Spec => []KInv
<1> USE IcmpdAssumption
<1>1. I!Init => KInv
  <2> SUFFICES ASSUME I!Init PROVE KInv
    OBVIOUS
  <2> USE DEF I!Init
  <2>1. icmp \in Seq(I!Messages)
    OBVIOUS
  <2>2. client \in [I!Slots -> Nat \cup {-1}] /\ maxi \in I!Slots \cup {-1}
    BY DEF I!InitialTable
  <2>3. /\ upc \in [Users -> {"connect", "write", "read", "refused", "sigpipe", "reset"}]
        /\ sock \in [Users -> {"none", "queued", "open", "closed"}]
        /\ \A u \in Users : sock[u] = "none"
    OBVIOUS
  <2>4. I!TypeOK
    BY <2>1, <2>2, <2>3 DEF I!TypeOK
  <2> QED
    BY <2>3, <2>4 DEF KInv, Report, OpenOnly, I!NothingKept
<1>2. KInv /\ [I!Next]_(I!vars) => KInv'
  <2>0. SUFFICES ASSUME KInv, [I!Next]_(I!vars) PROVE KInv'
    OBVIOUS
  <2> USE DEF KInv, Report, OpenOnly, I!NothingKept, I!TypeOK, I!daemon
  <2>1. CASE I!Select
    <3>1. /\ dpc = "select" /\ I!Ready # {} /\ drset' = I!Ready /\ nready' = Cardinality(I!Ready)
          /\ dpc' = IF "listenfd" \in I!Ready THEN "listen" ELSE "v4"
          /\ UNCHANGED <<client, maxi, connfd, last, icmp, arrived, upc, sock>>
      <4>1. \A S : I!Cardinality(S) = Cardinality(S)
        BY DEF I!Cardinality, Cardinality
      <4> QED
        BY <2>1, <4>1 DEF I!Select
    <3>2. I!Ready \in {{"listenfd"}, {"fd4"}, {"listenfd", "fd4"}}
      BY <3>1 DEF I!Ready
    <3>3. "fd4" \in I!Ready => icmp # <<>>
      BY DEF I!Ready
    <3>4. /\ nready' \in {1, 2} /\ drset' \subseteq {"listenfd", "fd4"}
          /\ dpc' = "listen" => nready' = IF "fd4" \in drset' THEN 2 ELSE 1
          /\ dpc' = "v4" => nready' = 1 /\ "fd4" \in I!Ready
          /\ dpc' \in {"listen", "v4"}
      BY <3>1, <3>2, OneOrTwo
    <3> QED
      BY <2>0, <3>1, <3>3, <3>4
  <2>2. CASE I!Accept
    <3>1. PICK u \in Users : connfd' = {u} /\ sock' = [sock EXCEPT ![u] = "open"]
      BY <2>2 DEF I!Accept, I!Queued
    <3>2. /\ dpc = "listen" /\ dpc' = "accepted"
          /\ UNCHANGED <<client, maxi, nready, drset, last, icmp, arrived, upc>>
      BY <2>2 DEF I!Accept
    <3>3. \A v \in Users : sock'[v] = "open" => v \in connfd'
      BY <2>0, <3>1, <3>2
    <3> QED
      BY <2>0, <3>1, <3>2, <3>3
  <2>3. CASE I!TooMany
    <3>1. PICK u \in connfd : sock' = [sock EXCEPT ![u] = "closed"]
      BY <2>3 DEF I!TooMany, I!Refused
    <3>2. /\ dpc = "accepted" /\ connfd' = {} /\ nready' = nready - 1
          /\ dpc' = I!AfterListen(nready - 1)
          /\ UNCHANGED <<client, maxi, drset, last, icmp, arrived, upc>>
      BY <2>3 DEF I!TooMany
    <3>3. connfd = {u} /\ u \in Users
      BY <2>0, <3>1, <3>2
    <3>4. \A v \in Users : sock'[v] # "open"
      BY <2>0, <3>1, <3>3
    <3>5. sock' \in [Users -> {"none", "queued", "open", "closed"}]
      BY <2>0, <3>1, <3>3
    <3>6. /\ nready' \in {0, 1} /\ dpc' \in {"select", "v4"}
          /\ dpc' = "v4" => nready' = 1 /\ icmp # <<>>
      BY <2>0, <3>2 DEF I!AfterListen
    <3> QED
      BY <2>0, <3>2, <3>4, <3>5, <3>6
  <2>4. CASE I!readable_v4
    <3>1. dpc = "v4" /\ nready = 1 /\ icmp # <<>>
      BY <2>0, <2>4 DEF I!readable_v4
    <3>2. Head(icmp) \in I!Messages /\ Tail(icmp) \in Seq(I!Messages)
      BY <2>0, <3>1, HeadTailProperties
    <3>3. last' = Head(icmp) /\ icmp' = Tail(icmp) /\ UNCHANGED <<client, maxi, drset, connfd, arrived, upc>>
      BY <2>4 DEF I!readable_v4
    <3>4. CASE Head(icmp) = "short"
      <4>1. /\ dpc' = "dead" /\ nready' = nready
            /\ sock' = [u \in Users |-> IF sock[u] = "none" THEN "none" ELSE "closed"]
        BY <2>4, <3>4 DEF I!readable_v4
      <4> QED
        BY <2>0, <3>1, <3>2, <3>3, <3>4, <4>1
    <3>5. CASE Head(icmp) # "short"
      <4>1. nready' = 0 /\ dpc' = "select" /\ sock' = sock
        BY <2>4, <3>1, <3>5 DEF I!readable_v4, I!AfterV4
      <4> QED
        BY <2>0, <3>1, <3>2, <3>3, <4>1
    <3> QED
      BY <3>4, <3>5
  <2>5. CASE I!Arrive
    <3>1. PICK m \in I!Messages : icmp' = Append(icmp, m)
      BY <2>5 DEF I!Arrive
    <3>2. icmp' \in Seq(I!Messages) /\ icmp' # <<>>
      BY <2>0, <3>1, AppendProperties
    <3>3. arrived' \in 0 .. MaxIcmp /\ UNCHANGED <<client, maxi, nready, drset, dpc, connfd, last, upc, sock>>
      BY <2>0, <2>5 DEF I!Arrive
    <3> QED
      BY <2>0, <3>2, <3>3
  <2>6. ASSUME NEW u \in Users, I!User(u)
        PROVE  KInv'
    <3>1. PICK p \in {"write", "read", "refused", "sigpipe", "reset"},
               q \in {"none", "queued", "closed", sock[u]} : I!Goes(u, p, q)
      BY <2>6 DEF I!User, I!Connect, I!Write_fd, I!Read
    <3>2. /\ upc' = [upc EXCEPT ![u] = p] /\ sock' = [sock EXCEPT ![u] = q]
          /\ UNCHANGED <<client, maxi, nready, drset, dpc, connfd, last, icmp, arrived>>
      BY <3>1 DEF I!Goes
    <3>3. /\ upc' \in [Users -> {"connect", "write", "read", "refused", "sigpipe", "reset"}]
          /\ sock' \in [Users -> {"none", "queued", "open", "closed"}]
          /\ \A v \in Users : sock'[v] = "open" => sock[v] = "open"
      BY <2>0, <3>2
    <3> QED
      BY <2>0, <3>2, <3>3
  <2>7. CASE UNCHANGED I!vars
    BY <2>0, <2>7 DEF I!vars
  <2> QED
    BY <2>0, <2>1, <2>2, <2>3, <2>4, <2>5, <2>6, <2>7 DEF I!Next, I!Daemon
<1> QED
  BY <1>1, <1>2, PTL DEF I!Spec

\* For any number of clients, slots and messages: icmpd counts down exactly what
\* select reported, so that it never reads the raw socket when nothing is there
\* nor looks for a connection that is not, and although it refuses everybody it
\* keeps nobody's descriptor.
THEOREM NothingIsKept == I!Spec => []I!NothingKept
<1>1. KInv => I!NothingKept
  BY DEF KInv
<1> QED
  BY <1>1, DaemonInductive, PTL

\* Every variable of icmpd and of its clients keeps its type.
THEOREM DaemonTypes == I!Spec => []I!TypeOK
<1>1. KInv => I!TypeOK
  BY DEF KInv
<1> QED
  BY <1>1, DaemonInductive, PTL
=============================================================================
