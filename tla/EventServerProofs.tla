------------------------- MODULE EventServerProofs --------------------------
(***************************************************************************)
(* Proofs about EventServer for every set of clients, every number of      *)
(* bytes, slots and resets, and both programs: the table describes the     *)
(* open connections, the scan serves exactly what the call reported and    *)
(* never a slot that poll() has not looked at, and every byte is echoed.   *)
(***************************************************************************)
EXTENDS MCSelectLoops, FiniteSetTheorems, TLAPS

N == Cardinality(Conns)
Open == {c \in Conns : net[c] = "open"}
OpenFds == {fd[c] : c \in Open}

\* What the state of a connection says of its descriptor and its bytes.
ConnsOK ==
  /\ \A c \in Conns :
       /\ net[c] # "open" => fd[c] = NoFd
       /\ net[c] = "open" => fd[c] \in Fds
       /\ net[c] \in {"new", "queued"} => echoed[c] = 0 /\ inbuf[c] = sent[c]
  /\ \A c, d \in Open : c # d => fd[c] # fd[d]

\* The table holds the descriptors of the open connections, each once.
TableOK ==
  pc # "exit" =>
    /\ InTable \subseteq 1 .. maxi
    /\ \A s, t \in InTable : s # t => client[s] # client[t]
    /\ {client[s] : s \in InTable} = OpenFds
    /\ program = "select" =>
         /\ allset = OpenFds
         /\ \A f \in allset : f <= maxfd

\* The slots of the report that the scan has still to serve.
Due == {s \in j .. maxi : Reported(s) /\ ~FreshSlot(s)}

\* What is known of the report between the call and the end of the scan.  A slot
\* that is free when a client is accepted is not in the report, or is fresh.
ReportOK ==
  /\ pc = "accept" =>
       /\ j = 1 /\ polled = maxi
       /\ nready = Cardinality(Due) + 1
       /\ program = "select" => rset \subseteq allset \cup {0}
       /\ program = "poll" => \A s \in InTable \cup Slots : s \in rset /\ s <= maxi => s \in InTable
  /\ pc \in {"scan", "write"} => nready > 0 /\ nready = Cardinality(Due)
  /\ pc = "write" => j \in Due /\ n > 0
  /\ pc \in {"accept", "scan", "write"} =>
       \A s \in Due : (pc = "write" /\ s = j) \/ ReadReady(client[s])

IInv == TypeOK /\ ConnsOK /\ TableOK /\ ReportOK /\ EchoAccounts

-----------------------------------------------------------------------------
(* Facts about sets of numbers.                                            *)

\* A nonempty set of naturals has a least element: inclusion of the intervals
\* 0 .. x, which are finite, is well-founded.
LEMMA LeastExists ==
  ASSUME NEW S, S \subseteq Nat, S # {}
  PROVE  Min(S) \in S
<1> DEFINE T == {0 .. x : x \in S}
           R == StrictSubsetOrdering(Nat)
<1>1. \A x \in S : IsFiniteSet(0 .. x)
  BY FS_Interval
<1>2. T \subseteq FiniteSubsetsOf(Nat) /\ T # {}
  <2>1. \A x \in S : 0 .. x \in SUBSET Nat
    OBVIOUS
  <2>2. \A x \in S : 0 .. x \in FiniteSubsetsOf(Nat)
    BY <1>1, <2>1 DEF FiniteSubsetsOf
  <2> QED
    BY <2>2
<1>3. \E s \in T : \A t \in T : ~ (<<t, s>> \in R)
  <2>1. IsWellFoundedOn(R, FiniteSubsetsOf(Nat))
    BY FS_StrictSubsetOrderingWellFounded
  <2> HIDE DEF T, R
  <2> QED
    BY <1>2, <2>1, WFMin
<1>4. PICK x \in S : \A t \in T : ~ (<<t, 0 .. x>> \in R)
  BY <1>3
<1>5. ASSUME NEW y \in S, y < x PROVE FALSE
  <2> DEFINE a == 0 .. y
             b == 0 .. x
  <2>1. a \subseteq b /\ x \in b /\ x \notin a
    BY <1>5
  <2>2. a \subseteq b /\ a # b /\ a \in SUBSET Nat /\ b \in SUBSET Nat
    BY <2>1
  <2>3. a \in T /\ ~ (<<a, b>> \in R)
    BY <1>4
  <2> HIDE DEF a, b, T
  <2>4. <<a, b>> \in R
    BY <2>2 DEF StrictSubsetOrdering
  <2> QED
    BY <2>3, <2>4
<1>6. \A y \in S : x <= y
  BY <1>5
<1> QED
  BY <1>6 DEF Min

LEMMA Sizes ==
  /\ N \in Nat /\ Slots = 1 .. N /\ Fds = 1 .. N
  /\ IsFiniteSet(Slots) /\ Cardinality(Slots) = N /\ Slots \subseteq Nat /\ Fds = Slots
<1>1. N \in Nat
  BY EventAssumption, FS_CardinalityType DEF N
<1>2. IsFiniteSet(1 .. N) /\ Cardinality(1 .. N) = N
  BY <1>1, FS_Interval
<1> QED
  BY <1>1, <1>2 DEF Slots, Fds, N

\* While a connection waits in the queue there is a descriptor for it.
LEMMA FreshDescriptor ==
  ASSUME IInv, NEW c \in Conns, net[c] = "queued"
  PROVE  NewFd \in Fds /\ NewFd \notin OpenFds
<1>1. IsFiniteSet(Conns) /\ Open \subseteq Conns /\ c \notin Open
  BY EventAssumption DEF Open
<1>2. IsFiniteSet(Open) /\ Cardinality(Open) < N /\ Cardinality(Open) \in Nat
  <2>1. IsFiniteSet(Open) /\ Cardinality(Open) <= Cardinality(Conns)
        /\ (Cardinality(Conns) = Cardinality(Open) => Conns = Open)
    BY <1>1, FS_Subset
  <2>2. Cardinality(Open) \in Nat /\ Cardinality(Open) # N
    BY <1>1, <2>1, FS_CardinalityType DEF N
  <2> QED
    BY <2>1, <2>2, Sizes DEF N
<1>3. Cardinality(OpenFds) <= Cardinality(Open)
  <2> DEFINE f == [d \in Open |-> fd[d]]
  <2>1. f \in Surjection(Open, OpenFds)
    BY DEF Surjection, OpenFds
  <2> QED
    BY <1>2, <2>1, FS_Surjection
<1>4. Fds \ OpenFds # {}
  <2> SUFFICES ASSUME Fds \subseteq OpenFds PROVE FALSE
    OBVIOUS
  <2>1. OpenFds \subseteq Fds
    BY DEF IInv, ConnsOK, OpenFds, Open
  <2>2. OpenFds = Fds
    BY <2>1
  <2>3. Cardinality(OpenFds) = N
    BY <2>2, Sizes
  <2> QED
    BY <1>2, <1>3, <2>3, Sizes
<1>5. Fds \ OpenFds \subseteq Nat
  BY Sizes
<1>6. NewFd = Min(Fds \ OpenFds)
  BY DEF NewFd, OpenFds, Open
<1> QED
  BY <1>4, <1>5, <1>6, LeastExists

\* The owner of a descriptor in the table is the connection that has it.
LEMMA OwnerOfSlot ==
  ASSUME IInv, pc # "exit", NEW s \in Slots, client[s] # NoFd
  PROVE  /\ Owner(client[s]) \in Conns /\ net[Owner(client[s])] = "open"
         /\ fd[Owner(client[s])] = client[s]
         /\ \A c \in Open : fd[c] = client[s] => c = Owner(client[s])
<1>1. client[s] \in OpenFds
  BY DEF IInv, TableOK, InTable
<1>2. PICK c \in Open : fd[c] = client[s]
  BY <1>1 DEF OpenFds
<1>3. Owner(client[s]) \in Conns /\ net[Owner(client[s])] = "open"
      /\ fd[Owner(client[s])] = client[s]
  BY <1>2 DEF Owner, Open
<1> QED
  BY <1>3 DEF IInv, ConnsOK, Open
-----------------------------------------------------------------------------
LEMMA InitInv == Init => IInv
<1> SUFFICES ASSUME Init PROVE IInv
  OBVIOUS
<1> USE DEF Init
<1>1. TypeOK
  <2>1. program \in {"select", "poll"} /\ rset \subseteq Slots
    BY DEF SlotsOf
  <2>2. /\ nready \in 0 .. Cardinality(Conns) + 1 /\ j \in 1 .. Cardinality(Conns) + 1
        /\ n \in Nat
    BY Sizes DEF N
  <2>3. \A c \in Conns : /\ sent[c] \in 0 .. Bytes[c] /\ inbuf[c] \in 0 .. sent[c]
                         /\ out[c] \in 0 .. Window /\ echoed[c] \in 0 .. sent[c]
    BY EventAssumption
  <2>4. {sent, inbuf, out, echoed} \subseteq [Conns -> Nat]
    OBVIOUS
  <2>5. /\ fin \in [Conns -> BOOLEAN] /\ rst \in [Conns -> BOOLEAN]
        /\ net \in [Conns -> {"new", "queued", "open", "closed"}]
        /\ fd \in [Conns -> Fds \cup {NoFd}] /\ client \in [Slots -> Fds \cup {NoFd}]
    OBVIOUS
  <2> QED
    BY <2>1, <2>2, <2>3, <2>4, <2>5 DEF TypeOK
<1>2. ConnsOK
  BY DEF ConnsOK, Open
<1>3. TableOK
  BY DEF TableOK, InTable, OpenFds, Open
<1>4. ReportOK /\ EchoAccounts
  BY DEF ReportOK, EchoAccounts
<1> QED
  BY <1>1, <1>2, <1>3, <1>4 DEF IInv

-----------------------------------------------------------------------------
(* What the steps of the clients and of the server do, for the proofs of   *)
(* the parts of the invariant.                                             *)

Types ==
  /\ program \in {"select", "poll"}
  /\ pc \in {"wait", "accept", "scan", "write", "exit"}
  /\ client \in [Slots -> Fds \cup {NoFd}]
  /\ allset \subseteq Fds /\ maxfd \in Fds \cup {0} /\ maxi \in Slots \cup {0}
  /\ rset \subseteq Slots \cup {0} /\ polled \in Slots \cup {0}
  /\ nready \in 0 .. N + 1 /\ j \in 1 .. N + 1 /\ n \in Nat
  /\ net \in [Conns -> {"new", "queued", "open", "closed"}]
  /\ fd \in [Conns -> Fds \cup {NoFd}]
  /\ fin \in [Conns -> BOOLEAN] /\ rst \in [Conns -> BOOLEAN]
  /\ sent \in [Conns -> Nat] /\ inbuf \in [Conns -> Nat]
  /\ out \in [Conns -> Nat] /\ echoed \in [Conns -> Nat]

Bounds ==
  \A c \in Conns : /\ sent[c] <= Bytes[c] /\ inbuf[c] <= sent[c]
                   /\ out[c] <= Window /\ echoed[c] <= sent[c]

LEMMA TypesAndBounds == TypeOK <=> Types /\ Bounds
<1>1. /\ \A c \in Conns : Bytes[c] \in Nat
      /\ Window \in Nat
  BY EventAssumption
<1>2. (TypeOK <=> Types /\ Bounds) <=>
        (Types => ((\A c \in Conns : /\ sent[c] \in 0 .. Bytes[c] /\ inbuf[c] \in 0 .. sent[c]
                                     /\ out[c] \in 0 .. Window /\ echoed[c] \in 0 .. sent[c])
                   <=> Bounds))
  BY DEF TypeOK, Types, N
<1>3. ASSUME Types PROVE \A c \in Conns : sent[c] \in Nat /\ inbuf[c] \in Nat /\ out[c] \in Nat /\ echoed[c] \in Nat
  BY <1>3 DEF Types
<1> QED
  BY <1>1, <1>2, <1>3 DEF Bounds

\* A client changes its own bytes and ends, never what the server keeps.
ClientEffect ==
  /\ UNCHANGED <<program, pc, client, allset, maxfd, maxi, rset, polled, nready, j, n, fd, echoed>>
  /\ net' \in [Conns -> {"new", "queued", "open", "closed"}]
  /\ fin' \in [Conns -> BOOLEAN] /\ rst' \in [Conns -> BOOLEAN]
  /\ sent' \in [Conns -> Nat] /\ inbuf' \in [Conns -> Nat] /\ out' \in [Conns -> Nat]
  /\ \A d \in Conns :
       /\ \/ net'[d] = net[d]
          \/ net[d] = "new" /\ net'[d] = "queued"
          \/ net[d] = "queued" /\ net'[d] = "closed" /\ rst'[d]
       /\ fin[d] => fin'[d]
       /\ rst[d] => rst'[d]
       /\ \/ sent'[d] = sent[d] /\ inbuf'[d] = inbuf[d]
          \/ /\ sent'[d] = sent[d] + 1 /\ inbuf'[d] = inbuf[d] + 1
             /\ sent[d] < Bytes[d] /\ net[d] \in {"queued", "open"}
       /\ out'[d] <= out[d]

LEMMA ClientSteps ==
  ASSUME TypeOK, NEW c \in Conns, Client(c)
  PROVE  ClientEffect
<1>1. Types
  BY TypesAndBounds
<1> USE DEF table, report
<1>2. CASE Request(c)
  BY <1>1, <1>2 DEF Request, ClientEffect, Types
<1>3. CASE Say(c)
  BY <1>1, <1>3 DEF Say, Alive, ClientEffect, Types
<1>4. CASE End(c)
  BY <1>1, <1>4 DEF End, ClientEffect, Types
<1>5. CASE ReadEcho(c)
  BY <1>1, <1>5 DEF ReadEcho, ClientEffect, Types
<1>6. CASE Abort(c)
  BY <1>1, <1>6 DEF Abort, ClientEffect, Types
<1> QED
  BY <1>2, <1>3, <1>4, <1>5, <1>6 DEF Client
\* The server at the slot the scan looks at: the connection it serves there.
Serving(c) ==
  /\ c \in Conns /\ net[c] = "open" /\ fd[c] = client[j]
  /\ j \in Slots /\ client[j] \in Fds /\ client[j] # NoFd
  /\ \A d \in Open : fd[d] = client[j] => d = c

LEMMA NoFdIsNone == NoFd \notin Fds
  BY Sizes DEF NoFd

LEMMA AtSlot ==
  ASSUME IInv, Hit \/ pc = "write"
  PROVE  Serving(Owner(client[j])) /\ j \in Due
<1>1. Types
  BY TypesAndBounds DEF IInv
<1>2. pc \in {"scan", "write"} /\ j <= maxi /\ j \in Int /\ maxi \in Int /\ Reported(j)
  BY <1>1, Sizes DEF Hit, IInv, ReportOK, Due, Types
<1>3. j \in Slots /\ client[j] # NoFd /\ client[j] \in Fds
  <2>1. j \in Slots
    BY <1>1, <1>2, Sizes DEF Types
  <2> QED
    BY <1>1, <1>2, <2>1 DEF Reported, Types
<1>4. ~FreshSlot(j)
  <2> SUFFICES ASSUME FreshSlot(j) PROVE FALSE
    OBVIOUS
  <2>1. Due = {}
    <3>1. program = "poll" /\ j > polled /\ polled \in Int
      BY <1>1, Sizes DEF FreshSlot, Types
    <3>2. \A s \in j .. maxi : FreshSlot(s)
      BY <1>2, <3>1 DEF FreshSlot
    <3> QED
      BY <3>2 DEF Due
  <2>2. Cardinality({}) = 0
    BY FS_EmptySet
  <2> QED
    BY <1>2, <2>1, <2>2 DEF IInv, ReportOK
<1>5. j \in Due
  BY <1>2, <1>4 DEF Due
<1> QED
  BY <1>2, <1>3, <1>5, OwnerOfSlot DEF Serving, Open

\* A new client gets a free slot, or there is none and the server ends.
Placed(s) ==
  /\ client[s] = NoFd /\ client' = [client EXCEPT ![s] = NewFd]
  /\ maxi' = (IF s > maxi THEN s ELSE maxi)
  /\ allset' = (IF program = "select" THEN allset \cup {NewFd} ELSE allset)
  /\ maxfd' = (IF program = "select" /\ NewFd > maxfd THEN NewFd ELSE maxfd)
  /\ nready' = nready - 1
  /\ pc' = IF nready - 1 <= 0 THEN "wait" ELSE "scan"

LEMMA Accepts ==
  ASSUME IInv, NEW c \in Conns, Accept(c)
  PROVE  /\ pc = "accept" /\ net[c] = "queued"
         /\ net' = [net EXCEPT ![c] = "open"] /\ fd' = [fd EXCEPT ![c] = NewFd]
         /\ NewFd \in Fds /\ NewFd \notin OpenFds
         /\ UNCHANGED <<program, rset, polled, j, n, fin, rst, sent, inbuf, out, echoed>>
         /\ \/ pc' = "exit" /\ UNCHANGED <<client, allset, maxfd, maxi, nready>>
            \/ \E s \in Slots : Placed(s)
<1>1. /\ pc = "accept" /\ net[c] = "queued"
      /\ net' = [net EXCEPT ![c] = "open"] /\ fd' = [fd EXCEPT ![c] = NewFd]
      /\ UNCHANGED <<program, rset, polled, j, n, fin, rst, sent, inbuf, out, echoed>>
  BY DEF Accept, report
<1>2. NewFd \in Fds /\ NewFd \notin OpenFds
  BY <1>1, FreshDescriptor
<1>3. ASSUME FreeSlots = {} PROVE pc' = "exit" /\ UNCHANGED <<client, allset, maxfd, maxi, nready>>
  BY <1>3 DEF Accept, table
<1>4. ASSUME FreeSlots # {} PROVE \E s \in Slots : Placed(s)
  <2> DEFINE s == Min(FreeSlots)
  <2>1. FreeSlots \subseteq Slots /\ \A t \in FreeSlots : client[t] = NoFd
    BY DEF FreeSlots, SlotsOf
  <2>2. s \in FreeSlots
    BY <1>4, <2>1, LeastExists, Sizes
  <2>3. /\ client' = [client EXCEPT ![s] = NewFd] /\ maxi' = NewMaxi(s)
        /\ IF program = "select"
           THEN /\ allset' = allset \cup {NewFd}
                /\ maxfd' = IF NewFd > maxfd THEN NewFd ELSE maxfd
           ELSE UNCHANGED <<allset, maxfd>>
        /\ nready' = nready - 1
        /\ pc' = IF nready - 1 <= 0 THEN "wait" ELSE "scan"
    BY <1>4 DEF Accept, AfterAccept
  <2> HIDE DEF s
  <2>4. Placed(s)
    BY <2>1, <2>2, <2>3 DEF Placed, NewMaxi
  <2> QED
    BY <2>1, <2>2, <2>4
<1> QED
  BY <1>1, <1>2, <1>3, <1>4

\* Serving a reported slot: the connection c at slot j.
ClosedAt(c) ==
  /\ ~rst[c] /\ inbuf[c] = 0
  /\ net' = [net EXCEPT ![c] = "closed"] /\ fd' = [fd EXCEPT ![c] = NoFd]
  /\ allset' = allset \ {client[j]} /\ client' = [client EXCEPT ![j] = NoFd]
  /\ nready' = nready - 1 /\ j' = j + 1
  /\ pc = "scan" /\ pc' = (IF nready - 1 <= 0 THEN "wait" ELSE "scan")
  /\ UNCHANGED <<program, maxfd, maxi, rset, polled, n, fin, rst, sent, inbuf, out, echoed>>

ReadAt(c) ==
  /\ ~rst[c] /\ inbuf[c] > 0
  /\ n' = inbuf[c] /\ inbuf' = [inbuf EXCEPT ![c] = 0]
  /\ pc = "scan" /\ pc' = "write"
  /\ UNCHANGED <<program, client, allset, maxfd, maxi, rset, polled, nready, j, net, fd, fin,
                 rst, sent, out, echoed>>

WrittenAt(c, k) ==
  /\ k > 0 /\ k <= n /\ k <= Window - out[c]
  /\ out' = [out EXCEPT ![c] = @ + k] /\ echoed' = [echoed EXCEPT ![c] = @ + k]
  /\ n' = n - k /\ pc = "write"
  /\ \/ /\ n' = 0 /\ nready' = nready - 1 /\ j' = j + 1
        /\ pc' = (IF nready - 1 <= 0 THEN "wait" ELSE "scan")
     \/ n' # 0 /\ UNCHANGED <<nready, j, pc>>
  /\ UNCHANGED <<program, client, allset, maxfd, maxi, rset, polled, net, fd, fin, rst, sent, inbuf>>

LEMMA Serves ==
  ASSUME IInv
  PROVE  /\ Close => \E c \in Conns : Serving(c) /\ ClosedAt(c)
         /\ Read => \E c \in Conns : Serving(c) /\ ReadAt(c)
         /\ Writen => \E c \in Conns, k \in Nat : Serving(c) /\ WrittenAt(c, k)
<1> DEFINE c == Owner(client[j])
<1>0. Types
  BY TypesAndBounds DEF IInv
<1>1. ASSUME Close PROVE Serving(c) /\ ClosedAt(c)
  <2>1. Serving(c)
    BY <1>1, AtSlot DEF Close
  <2>2. ClosedAt(c)
    BY <1>1 DEF Close, Hit, NextSlot, Unlisted, ClosedAt, report
  <2> QED
    BY <2>1, <2>2
<1>2. ASSUME Read PROVE Serving(c) /\ ReadAt(c)
  <2>1. Serving(c)
    BY <1>2, AtSlot DEF Read
  <2>2. ReadAt(c)
    BY <1>2 DEF Read, Hit, ReadAt, table, report
  <2> QED
    BY <2>1, <2>2
<1>3. ASSUME Writen PROVE \E k \in Nat : Serving(c) /\ WrittenAt(c, k)
  <2> DEFINE k == Smaller(n, Window - out[c])
  <2>1. Serving(c)
    BY <1>3, AtSlot DEF Writen
  <2>2. n \in Nat /\ out[c] \in Nat /\ Window \in Nat
    BY <1>0, <2>1, EventAssumption DEF Types, Serving
  <2>3. /\ k > 0 /\ out' = [out EXCEPT ![c] = @ + k] /\ echoed' = [echoed EXCEPT ![c] = @ + k]
        /\ n' = n - k /\ pc = "write"
        /\ IF n - k = 0 THEN NextSlot ELSE UNCHANGED <<nready, j, pc>>
        /\ UNCHANGED <<program, client, allset, maxfd, maxi, rset, polled, net, fd, fin, rst, sent, inbuf>>
    BY <1>3 DEF Writen, Left, table, report
  <2>4. k \in Nat /\ k <= n /\ k <= Window - out[c]
    BY <2>2, <2>3 DEF Smaller
  <2> HIDE DEF k, c
  <2>5. WrittenAt(c, k)
    BY <2>3, <2>4 DEF WrittenAt, NextSlot
  <2> QED
    BY <2>1, <2>4, <2>5
<1>4. ASSUME Serving(c) PROVE c \in Conns
  BY <1>4 DEF Serving
<1> HIDE DEF c
<1> QED
  BY <1>1, <1>2, <1>3, <1>4

LEMMA TypeStep == IInv /\ [Next]_vars => TypeOK'
<1> SUFFICES ASSUME IInv, [Next]_vars PROVE Types' /\ Bounds'
  BY TypesAndBounds, PTL
<1>0. Types /\ Bounds
  BY TypesAndBounds DEF IInv
<1>1. /\ N \in Nat /\ \A c \in Conns : Bytes[c] \in Nat
      /\ Window \in Nat /\ Slots = 1 .. N /\ Fds = 1 .. N
  BY EventAssumption, Sizes
<1>2. ASSUME NEW c \in Conns, Client(c) PROVE Types' /\ Bounds'
  <2>1. ClientEffect
    BY <1>2, ClientSteps DEF IInv
  <2>2. Types'
    BY <1>0, <2>1 DEF ClientEffect, Types
  <2>3. ASSUME NEW d \in Conns
        PROVE  /\ sent'[d] <= Bytes[d] /\ inbuf'[d] <= sent'[d]
               /\ out'[d] <= Window /\ echoed'[d] <= sent'[d]
    <3>1. /\ sent[d] \in Nat /\ inbuf[d] \in Nat /\ out[d] \in Nat /\ echoed[d] \in Nat
          /\ out'[d] \in Nat
      BY <1>0, <2>1 DEF Types, ClientEffect
    <3>2. /\ sent[d] <= Bytes[d] /\ inbuf[d] <= sent[d]
          /\ out[d] <= Window /\ echoed[d] <= sent[d]
      BY <1>0 DEF Bounds
    <3>3. /\ echoed'[d] = echoed[d] /\ out'[d] <= out[d]
          /\ \/ sent'[d] = sent[d] /\ inbuf'[d] = inbuf[d]
             \/ sent'[d] = sent[d] + 1 /\ inbuf'[d] = inbuf[d] + 1 /\ sent[d] < Bytes[d]
      BY <2>1 DEF ClientEffect
    <3> QED
      BY <1>1, <3>1, <3>2, <3>3
  <2> QED
    BY <2>2, <2>3 DEF Bounds
<1>3. CASE Poll
  <2>1. IsFiniteSet(Reportable) /\ Cardinality(Reportable) \in 0 .. N /\ 0 \notin Reportable
        /\ Reportable \subseteq Slots
    <3>1. Reportable \subseteq Slots
      BY <1>0, Sizes DEF Reportable, InTable, Types
    <3>2. IsFiniteSet(Reportable) /\ Cardinality(Reportable) <= N
      BY <3>1, Sizes, FS_Subset
    <3> QED
      BY <1>1, <3>1, <3>2, FS_CardinalityType
  <2>2. Cardinality(Listening \cup Reportable) \in 0 .. N + 1
    <3>1. Cardinality(Reportable \cup {0}) = Cardinality(Reportable) + 1
      BY <2>1, FS_AddElement
    <3>2. Listening \cup Reportable = Reportable \/ Listening \cup Reportable = Reportable \cup {0}
      <4>1. Listening = {} \/ Listening = {0}
        BY DEF Listening
      <4> QED
        BY <4>1
    <3>3. Cardinality(Reportable) + 1 \in 0 .. N + 1 /\ Cardinality(Reportable) \in 0 .. N + 1
      BY <1>1, <2>1
    <3>4. CASE Listening \cup Reportable = Reportable
      BY <3>3, <3>4
    <3>5. CASE Listening \cup Reportable = Reportable \cup {0}
      BY <3>1, <3>3, <3>5
    <3> QED
      BY <3>2, <3>4, <3>5
  <2>3. rset' \subseteq Slots \cup {0}
    BY <1>0, <1>3, <2>1 DEF Poll, Listening, Unpolled, Types
  <2>4. j' \in 1 .. N + 1
    BY <1>1, <1>3 DEF Poll
  <2>5. pc' \in {"accept", "scan"} /\ nready' \in 0 .. N + 1 /\ polled' = maxi
        /\ UNCHANGED <<program, table, n, conns>>
    BY <1>3, <2>2 DEF Poll
  <2> QED
    BY <1>0, <2>3, <2>4, <2>5 DEF Types, Bounds, table, conns
<1>4. ASSUME NEW c \in Conns, Accept(c) PROVE Types' /\ Bounds'
  <2>1. /\ net' \in [Conns -> {"new", "queued", "open", "closed"}]
        /\ fd' \in [Conns -> Fds \cup {NoFd}] /\ NewFd \in Fds
        /\ UNCHANGED <<program, rset, polled, j, n, fin, rst, sent, inbuf, out, echoed>>
    BY <1>0, <1>4, Accepts DEF Types
  <2>2. CASE pc' = "exit" /\ UNCHANGED <<client, allset, maxfd, maxi, nready>>
    BY <1>0, <2>1, <2>2 DEF Types, Bounds
  <2>3. ASSUME NEW s \in Slots, Placed(s) PROVE Types' /\ Bounds'
    <3>1. /\ client' \in [Slots -> Fds \cup {NoFd}] /\ allset' \subseteq Fds
          /\ pc' \in {"wait", "scan"}
      BY <1>0, <2>1, <2>3 DEF Types, Placed
    <3>2. maxi' \in Slots \cup {0}
      <4>1. maxi' = s \/ maxi' = maxi
        BY <2>3 DEF Placed
      <4> QED
        BY <1>0, <4>1 DEF Types
    <3>4. maxfd' \in Fds \cup {0}
      <4>1. maxfd' = NewFd \/ maxfd' = maxfd
        BY <2>3 DEF Placed
      <4> QED
        BY <1>0, <2>1, <4>1 DEF Types
    <3>3. nready' \in 0 .. N + 1
      <4>1. nready \in 0 .. N + 1 /\ nready = Cardinality(Due) + 1 /\ IsFiniteSet(Due)
        <5>1. Due \subseteq Slots
          BY <1>0, Sizes DEF Due, Types
        <5>2. IsFiniteSet(Due)
          BY <5>1, Sizes, FS_Subset
        <5> QED
          BY <1>0, <1>4, <5>2, Accepts DEF IInv, ReportOK, Types
      <4>2. Cardinality(Due) \in Nat
        BY <4>1, FS_CardinalityType
      <4> QED
        BY <1>1, <2>3, <4>1, <4>2 DEF Placed
    <3> QED
      BY <1>0, <2>1, <3>1, <3>2, <3>3, <3>4 DEF Types, Bounds
  <2> QED
    BY <1>4, <2>2, <2>3, Accepts
<1>5. CASE AcceptFails \/ ReadFails \/ WritenFails
  BY <1>0, <1>5 DEF AcceptFails, ReadFails, WritenFails, Types, Bounds, table, report, conns
<1>6. CASE Skip
  <2>1. j' \in 1 .. N + 1
    BY <1>0, <1>1, <1>6 DEF Skip, Types
  <2> QED
    BY <1>0, <1>6, <2>1 DEF Skip, Types, Bounds, table, report, conns
<1>a. ASSUME NEW c \in Conns, Serving(c)
      PROVE  j + 1 \in 1 .. N + 1
  BY <1>0, <1>1, <1>a DEF Serving, Types
<1>b. ASSUME pc \in {"scan", "write"} PROVE nready - 1 \in 0 .. N + 1
  BY <1>0, <1>1, <1>b DEF Types, IInv, ReportOK
<1>7. CASE Close
  <2>1. PICK c \in Conns : Serving(c) /\ ClosedAt(c)
    BY <1>7, Serves
  <2>2. j' \in 1 .. N + 1 /\ nready' \in 0 .. N + 1
    BY <1>a, <1>b, <2>1 DEF ClosedAt
  <2>3. pc' \in {"wait", "scan"}
    BY <2>1 DEF ClosedAt
  <2>4. /\ net' \in [Conns -> {"new", "queued", "open", "closed"}]
        /\ fd' \in [Conns -> Fds \cup {NoFd}] /\ client' \in [Slots -> Fds \cup {NoFd}]
        /\ allset' \subseteq Fds
    BY <1>0, <2>1 DEF ClosedAt, Types
  <2>5. UNCHANGED <<program, maxfd, maxi, rset, polled, n, fin, rst, sent, inbuf, out, echoed>>
    BY <2>1 DEF ClosedAt
  <2> QED
    BY <1>0, <2>2, <2>3, <2>4, <2>5 DEF Types, Bounds
<1>8. CASE Read
  <2>1. PICK c \in Conns : Serving(c) /\ ReadAt(c)
    BY <1>8, Serves
  <2>2. inbuf' \in [Conns -> Nat] /\ n' \in Nat /\ pc' = "write"
    BY <1>0, <2>1 DEF ReadAt, Types
  <2>3. \A d \in Conns : inbuf'[d] <= sent[d]
    <3>1. \A d \in Conns : sent[d] \in Nat /\ inbuf[d] <= sent[d]
      BY <1>0 DEF Types, Bounds
    <3>2. \A d \in Conns : inbuf'[d] = inbuf[d] \/ inbuf'[d] = 0
      BY <1>0, <2>1 DEF ReadAt, Types
    <3> QED
      BY <3>1, <3>2
  <2>4. UNCHANGED <<program, client, allset, maxfd, maxi, rset, polled, nready, j, net, fd, fin,
                    rst, sent, out, echoed>>
    BY <2>1 DEF ReadAt
  <2> QED
    BY <1>0, <2>2, <2>3, <2>4 DEF Types, Bounds
<1>9. CASE Writen
  <2>1. PICK c \in Conns, k \in Nat : Serving(c) /\ WrittenAt(c, k)
    BY <1>9, Serves
  <2>2. /\ out[c] \in Nat /\ echoed[c] \in Nat /\ n \in Nat /\ sent[c] \in Nat /\ inbuf[c] \in Nat
    BY <1>0 DEF Types
  <2>3. k <= n /\ k <= Window - out[c] /\ n' = n - k
    BY <2>1 DEF WrittenAt
  <2>4. echoed[c] + k <= sent[c] /\ out[c] + k <= Window /\ n - k \in Nat
    <3>1. echoed[c] = sent[c] - inbuf[c] - n
      BY <2>1 DEF IInv, EchoAccounts, Serving, WrittenAt
    <3>2. Window \in Nat
      BY EventAssumption
    <3>3. out[c] + k <= Window /\ n - k \in Nat
      BY <2>2, <2>3, <3>2
    <3>4. echoed[c] + k <= sent[c]
      BY <2>2, <2>3, <3>1
    <3> QED
      BY <3>3, <3>4
  <2>5. out' = [out EXCEPT ![c] = out[c] + k] /\ echoed' = [echoed EXCEPT ![c] = echoed[c] + k]
    BY <2>1 DEF WrittenAt
  <2>6. out' \in [Conns -> Nat] /\ echoed' \in [Conns -> Nat] /\ n' \in Nat
    BY <1>0, <2>2, <2>3, <2>4, <2>5 DEF Types
  <2>7. \A d \in Conns : out'[d] <= Window /\ echoed'[d] <= sent[d]
    BY <1>0, <2>4, <2>5 DEF Types, Bounds
  <2>8. j' \in 1 .. N + 1 /\ nready' \in 0 .. N + 1 /\ pc' \in {"wait", "scan", "write"}
    BY <1>0, <1>a, <1>b, <2>1 DEF WrittenAt, Types
  <2>9. UNCHANGED <<program, client, allset, maxfd, maxi, rset, polled, net, fd, fin, rst, sent, inbuf>>
    BY <2>1 DEF WrittenAt
  <2> QED
    BY <1>0, <2>6, <2>7, <2>8, <2>9 DEF Types, Bounds
<1>10. CASE UNCHANGED vars
  BY <1>0, <1>10 DEF vars, Types, Bounds, table, report, conns
<1> QED
  BY <1>2, <1>3, <1>4, <1>5, <1>6, <1>7, <1>8, <1>9, <1>10 DEF Next, Server

-----------------------------------------------------------------------------
LEMMA ConnsStep == IInv /\ [Next]_vars => ConnsOK'
<1> SUFFICES ASSUME IInv, [Next]_vars PROVE ConnsOK'
  OBVIOUS
<1>0. Types /\ ConnsOK
  BY TypesAndBounds DEF IInv
<1>2. ASSUME NEW c \in Conns, Client(c) PROVE ConnsOK'
  <2>1. ClientEffect
    BY <1>2, ClientSteps DEF IInv
  <2>2. \A d \in Conns : net'[d] = "open" <=> net[d] = "open"
    BY <2>1 DEF ClientEffect
  <2>3. Open' = Open /\ fd' = fd
    BY <2>1, <2>2 DEF ClientEffect, Open
  <2>4. \A d \in Conns : net'[d] \in {"new", "queued"} => echoed'[d] = 0 /\ inbuf'[d] = sent'[d]
    BY <1>0, <2>1 DEF ClientEffect, ConnsOK
  <2> QED
    BY <1>0, <2>2, <2>3, <2>4 DEF ConnsOK
<1>4. ASSUME NEW c \in Conns, Accept(c) PROVE ConnsOK'
  <2>1. /\ net' = [net EXCEPT ![c] = "open"] /\ fd' = [fd EXCEPT ![c] = NewFd]
        /\ NewFd \in Fds /\ NewFd \notin OpenFds /\ UNCHANGED <<sent, inbuf, echoed>>
    BY <1>4, Accepts
  <2>2. Open' = Open \cup {c}
    BY <1>0, <2>1 DEF Open, Types
  <2>3. \A d, e \in Open' : d # e => fd'[d] # fd'[e]
    <3>1. \A d \in Open : fd[d] \in OpenFds
      BY DEF OpenFds
    <3>2. \A d \in Open \cup {c} : d \in Conns /\ fd'[d] = (IF d = c THEN NewFd ELSE fd[d])
      BY <1>0, <2>1 DEF Types, Open
    <3> QED
      BY <1>0, <2>1, <2>2, <3>1, <3>2 DEF ConnsOK
  <2>4. \A d \in Conns : /\ net'[d] # "open" => fd'[d] = NoFd
                         /\ net'[d] = "open" => fd'[d] \in Fds
                         /\ net'[d] \in {"new", "queued"} => echoed'[d] = 0 /\ inbuf'[d] = sent'[d]
    BY <1>0, <2>1 DEF ConnsOK, Types
  <2> QED
    BY <2>3, <2>4 DEF ConnsOK
<1>5. CASE Poll \/ AcceptFails \/ ReadFails \/ WritenFails \/ Skip \/ UNCHANGED vars
  <2>1. UNCHANGED conns
    BY <1>5 DEF Poll, AcceptFails, ReadFails, WritenFails, Skip, vars
  <2> QED
    BY <1>0, <2>1 DEF conns, ConnsOK, Open
<1>7. CASE Close
  <2>1. PICK c \in Conns : Serving(c) /\ ClosedAt(c)
    BY <1>7, Serves
  <2>2. /\ net' = [net EXCEPT ![c] = "closed"] /\ fd' = [fd EXCEPT ![c] = NoFd]
        /\ UNCHANGED <<sent, inbuf, echoed>>
    BY <2>1 DEF ClosedAt
  <2>3. Open' = Open \ {c}
    BY <1>0, <2>2 DEF Open, Types
  <2>4. \A d \in Open \ {c} : fd'[d] = fd[d]
    BY <1>0, <2>2 DEF Open, Types
  <2>5. \A d \in Conns : /\ net'[d] # "open" => fd'[d] = NoFd
                         /\ net'[d] = "open" => fd'[d] \in Fds
                         /\ net'[d] \in {"new", "queued"} => echoed'[d] = 0 /\ inbuf'[d] = sent'[d]
    BY <1>0, <2>2 DEF ConnsOK, Types
  <2> QED
    BY <1>0, <2>3, <2>4, <2>5 DEF ConnsOK
<1>8. CASE Read \/ Writen
  <2>1. PICK c \in Conns : /\ Serving(c) /\ UNCHANGED <<net, fd, sent>>
                           /\ \A d \in Conns \ {c} : inbuf'[d] = inbuf[d] /\ echoed'[d] = echoed[d]
    BY <1>0, <1>8, Serves DEF ReadAt, WrittenAt, Types
  <2> QED
    BY <1>0, <2>1 DEF ConnsOK, Open, Serving
<1> QED
  BY <1>2, <1>4, <1>5, <1>7, <1>8 DEF Next, Server

-----------------------------------------------------------------------------
LEMMA TableStep == IInv /\ [Next]_vars => TableOK'
<1> SUFFICES ASSUME IInv, [Next]_vars, pc' # "exit" PROVE TableOK'
  BY DEF TableOK
<1>0. Types /\ ConnsOK /\ N \in Nat /\ Slots = 1 .. N /\ Fds = 1 .. N /\ NoFd \notin Fds
  BY TypesAndBounds, Sizes, NoFdIsNone DEF IInv
<1>1. ASSUME pc # "exit"
      PROVE  /\ InTable \subseteq 1 .. maxi
             /\ \A s, t \in InTable : s # t => client[s] # client[t]
             /\ {client[s] : s \in InTable} = OpenFds
             /\ program = "select" => allset = OpenFds /\ \A f \in allset : f <= maxfd
  BY <1>1 DEF IInv, TableOK
<1>2. ASSUME UNCHANGED <<program, client, allset, maxfd, maxi, fd>>, pc # "exit", Open' = Open
      PROVE  TableOK'
  <2>1. InTable' = InTable /\ OpenFds' = OpenFds
    BY <1>2 DEF InTable, OpenFds
  <2> QED
    BY <1>1, <1>2, <2>1 DEF TableOK
<1>3. ASSUME NEW c \in Conns, Client(c) PROVE TableOK'
  <2>1. ClientEffect
    BY <1>3, ClientSteps DEF IInv
  <2>2. \A d \in Conns : net'[d] = "open" <=> net[d] = "open"
    BY <2>1 DEF ClientEffect
  <2>3. Open' = Open /\ UNCHANGED <<program, client, allset, maxfd, maxi, fd, pc>>
    BY <2>1, <2>2 DEF ClientEffect, Open
  <2> QED
    BY <1>2, <2>3
<1>4. ASSUME NEW c \in Conns, Accept(c) PROVE TableOK'
  <2>1. /\ net' = [net EXCEPT ![c] = "open"] /\ fd' = [fd EXCEPT ![c] = NewFd]
        /\ net[c] = "queued" /\ pc = "accept" /\ program' = program
        /\ NewFd \in Fds /\ NewFd \notin OpenFds
    BY <1>4, Accepts
  <2>2. PICK s \in Slots : Placed(s)
    BY <1>4, Accepts
  <2>3. client[s] = NoFd /\ client' = [client EXCEPT ![s] = NewFd]
    BY <2>2 DEF Placed
  <2>4. \A t \in Slots : client'[t] = (IF t = s THEN NewFd ELSE client[t])
    BY <1>0, <2>3 DEF Types
  <2>5. InTable' = InTable \cup {s} /\ s \notin InTable
    BY <1>0, <2>1, <2>3, <2>4 DEF InTable
  <2>6. OpenFds' = OpenFds \cup {NewFd}
    <3>1. Open' = Open \cup {c} /\ c \notin Open
      BY <1>0, <2>1 DEF Open, Types
    <3>2. \A d \in Open : fd'[d] = fd[d]
      BY <1>0, <2>1, <3>1 DEF Open, Types
    <3>3. fd'[c] = NewFd
      BY <1>0, <2>1 DEF Types
    <3> QED
      BY <3>1, <3>2, <3>3 DEF OpenFds
  <2>7. {client'[t] : t \in InTable'} = OpenFds'
    <3>1. \A t \in InTable : client'[t] = client[t]
      BY <2>4, <2>5 DEF InTable
    <3>2. client'[s] = NewFd
      BY <2>4
    <3> QED
      BY <1>1, <2>1, <2>5, <2>6, <3>1, <3>2
  <2>8. \A t, u \in InTable' : t # u => client'[t] # client'[u]
    <3>1. \A t \in InTable : client'[t] = client[t] /\ client[t] # NewFd
      BY <1>1, <2>1, <2>4, <2>5 DEF InTable
    <3>2. client'[s] = NewFd
      BY <2>4
    <3> QED
      BY <1>1, <2>1, <2>5, <3>1, <3>2
  <2>9. InTable' \subseteq 1 .. maxi'
    <3>1. maxi' = (IF s > maxi THEN s ELSE maxi) /\ maxi \in Int /\ s \in 1 .. N
      BY <1>0, <2>2 DEF Placed, Types
    <3>2. InTable \subseteq 1 .. maxi
      BY <1>1, <2>1
    <3> QED
      BY <1>0, <2>5, <3>1, <3>2
  <2>10. ASSUME program = "select" PROVE allset' = OpenFds' /\ \A f \in allset' : f <= maxfd'
    <3>1. allset' = allset \cup {NewFd} /\ maxfd' = (IF NewFd > maxfd THEN NewFd ELSE maxfd)
      BY <2>2, <2>10 DEF Placed
    <3>2. allset = OpenFds /\ (\A f \in allset : f <= maxfd) /\ allset \subseteq Fds
      BY <1>0, <1>1, <2>1, <2>10 DEF Types
    <3>3. maxfd \in Int /\ NewFd \in Int
      BY <1>0, <2>1 DEF Types
    <3>4. \A f \in allset' : f <= maxfd'
      BY <1>0, <3>1, <3>2, <3>3
    <3> QED
      BY <2>6, <3>1, <3>2, <3>4
  <2> QED
    BY <2>1, <2>7, <2>8, <2>9, <2>10 DEF TableOK
<1>5. CASE Poll \/ AcceptFails \/ ReadFails \/ WritenFails \/ Skip \/ Read \/ Writen \/ UNCHANGED vars
  <2>1. UNCHANGED <<program, client, allset, maxfd, maxi, fd, net>> /\ pc # "exit"
    BY <1>5 DEF Poll, AcceptFails, ReadFails, WritenFails, Skip, Read, Writen, Hit, vars, table, conns
  <2> QED
    BY <1>2, <2>1 DEF Open
<1>7. CASE Close
  <2>1. PICK c \in Conns : Serving(c) /\ ClosedAt(c)
    BY <1>7, Serves
  <2>2. /\ net' = [net EXCEPT ![c] = "closed"] /\ fd' = [fd EXCEPT ![c] = NoFd] /\ pc = "scan"
        /\ client' = [client EXCEPT ![j] = NoFd] /\ allset' = allset \ {client[j]}
        /\ UNCHANGED <<program, maxfd, maxi>>
    BY <2>1 DEF ClosedAt
  <2>3. /\ net[c] = "open" /\ fd[c] = client[j] /\ j \in Slots /\ client[j] \in Fds
        /\ \A d \in Open : fd[d] = client[j] => d = c
    BY <2>1 DEF Serving
  <2>4. InTable' = InTable \ {j} /\ j \in InTable /\ \A t \in InTable' : client'[t] = client[t]
    BY <1>0, <2>2, <2>3 DEF InTable, Types
  <2>5. OpenFds' = OpenFds \ {client[j]}
    <3>1. Open' = Open \ {c} /\ \A d \in Open' : fd'[d] = fd[d]
      BY <1>0, <2>2 DEF Open, Types
    <3> QED
      BY <2>3, <3>1 DEF OpenFds
  <2>6. {client'[t] : t \in InTable'} = OpenFds'
    BY <1>1, <2>2, <2>4, <2>5
  <2>7. \A t, u \in InTable' : t # u => client'[t] # client'[u]
    BY <1>1, <2>2, <2>4
  <2>8. program = "select" => allset' = OpenFds' /\ \A f \in allset' : f <= maxfd'
    BY <1>1, <2>2, <2>5
  <2> QED
    BY <1>1, <2>2, <2>4, <2>6, <2>7, <2>8 DEF TableOK
<1> QED
  BY <1>3, <1>4, <1>5, <1>7 DEF Next, Server

-----------------------------------------------------------------------------
LEMMA EchoStep == IInv /\ [Next]_vars => EchoAccounts'
<1> SUFFICES ASSUME IInv, [Next]_vars, pc' # "exit" PROVE EchoAccounts'
  BY DEF EchoAccounts
<1> DEFINE Counts(d) == net[d] = "open" \/ (net[d] = "closed" /\ ~rst[d])
           Held(d) == IF pc = "write" /\ client[j] = fd[d] THEN n ELSE 0
<1>0. /\ Types /\ ConnsOK
      /\ \A d \in Conns : sent[d] \in Nat /\ inbuf[d] \in Nat /\ echoed[d] \in Nat
      /\ n \in Nat
  BY TypesAndBounds DEF IInv, Types
<1>1. ASSUME pc # "exit", NEW d \in Conns, Counts(d) PROVE echoed[d] = sent[d] - inbuf[d] - Held(d)
  BY <1>1 DEF IInv, EchoAccounts
<1>2. SUFFICES ASSUME NEW d \in Conns, Counts(d)'
               PROVE  echoed'[d] = sent'[d] - inbuf'[d] - Held(d)'
  BY DEF EchoAccounts
<1>3. ASSUME NEW c \in Conns, Client(c) PROVE echoed'[d] = sent'[d] - inbuf'[d] - Held(d)'
  <2>1. ClientEffect
    BY <1>3, ClientSteps DEF IInv
  <2>2. Counts(d) /\ pc # "exit" /\ Held(d)' = Held(d) /\ echoed'[d] = echoed[d]
        /\ \/ sent'[d] = sent[d] /\ inbuf'[d] = inbuf[d]
           \/ sent'[d] = sent[d] + 1 /\ inbuf'[d] = inbuf[d] + 1
    BY <1>2, <2>1 DEF ClientEffect
  <2>3. Held(d) \in Nat /\ echoed[d] = sent[d] - inbuf[d] - Held(d)
    BY <1>0, <1>1, <2>2
  <2> HIDE DEF Held
  <2> QED
    BY <1>0, <2>2, <2>3
<1>4. ASSUME NEW c \in Conns, Accept(c) PROVE echoed'[d] = sent'[d] - inbuf'[d] - Held(d)'
  <2>1. /\ net' = [net EXCEPT ![c] = "open"] /\ net[c] = "queued" /\ pc = "accept"
        /\ UNCHANGED <<rst, sent, inbuf, echoed>>
    BY <1>4, Accepts
  <2>2. pc' # "write"
    BY <1>4, Accepts DEF Placed
  <2>3. CASE d = c
    BY <1>0, <2>1, <2>2, <2>3 DEF ConnsOK
  <2>4. CASE d # c
    <3>1. Counts(d)
      BY <1>0, <1>2, <2>1, <2>4 DEF Types
    <3> QED
      BY <1>1, <2>1, <2>2, <3>1
  <2> QED
    BY <2>3, <2>4
<1>5. CASE Poll \/ AcceptFails \/ ReadFails \/ WritenFails \/ Skip \/ UNCHANGED vars
  <2>1. UNCHANGED <<net, rst, sent, inbuf, echoed>> /\ pc # "exit" /\ Held(d)' = Held(d)
    BY <1>5 DEF Poll, AcceptFails, ReadFails, WritenFails, Skip, vars, conns, table
  <2> HIDE DEF Held
  <2> QED
    BY <1>1, <1>2, <2>1
<1>7. CASE Close
  <2>1. PICK c \in Conns : Serving(c) /\ ClosedAt(c)
    BY <1>7, Serves
  <2>2. /\ net' = [net EXCEPT ![c] = "closed"] /\ pc = "scan" /\ pc' # "write"
        /\ UNCHANGED <<rst, sent, inbuf, echoed>> /\ net[c] = "open"
    BY <2>1 DEF ClosedAt, Serving
  <2>3. Counts(d)
    BY <1>0, <1>2, <2>2 DEF Types
  <2> QED
    BY <1>1, <2>2, <2>3
<1>8. CASE Read
  <2>1. PICK c \in Conns : Serving(c) /\ ReadAt(c)
    BY <1>8, Serves
  <2>2. /\ n' = inbuf[c] /\ inbuf' = [inbuf EXCEPT ![c] = 0] /\ pc = "scan" /\ pc' = "write"
        /\ UNCHANGED <<net, rst, fd, client, j, sent, echoed>>
    BY <2>1 DEF ReadAt
  <2>3. Counts(d) /\ echoed[d] = sent[d] - inbuf[d]
    <3>1. Counts(d)
      BY <1>2, <2>2
    <3>2. Held(d) = 0
      BY <2>2
    <3> QED
      BY <1>0, <1>1, <2>2, <3>1, <3>2
  <2>4. CASE d = c
    <3>1. Held(d)' = inbuf[d] /\ inbuf'[d] = 0
      BY <1>0, <2>1, <2>2, <2>4 DEF Serving, Types
    <3> QED
      BY <1>0, <2>2, <2>3, <3>1
  <2>5. CASE d # c
    <3>1. fd[d] # client[j]
      BY <1>0, <2>1, <2>5, NoFdIsNone DEF Serving, Open, ConnsOK
    <3>2. Held(d)' = 0 /\ inbuf'[d] = inbuf[d]
      BY <1>0, <2>2, <2>5, <3>1 DEF Types
    <3> QED
      BY <1>0, <2>2, <2>3, <3>2
  <2> QED
    BY <2>4, <2>5
<1>9. CASE Writen
  <2>1. PICK c \in Conns, k \in Nat : Serving(c) /\ WrittenAt(c, k)
    BY <1>9, Serves
  <2>2. /\ k <= n /\ echoed' = [echoed EXCEPT ![c] = echoed[c] + k] /\ n' = n - k /\ pc = "write"
        /\ (n' = 0 /\ pc' # "write") \/ UNCHANGED <<pc, j>>
        /\ UNCHANGED <<net, rst, fd, client, sent, inbuf>>
    BY <2>1 DEF WrittenAt
  <2>3. Counts(d) /\ echoed[d] = sent[d] - inbuf[d] - Held(d)
    BY <1>1, <1>2, <2>2
  <2>4. CASE d = c
    <3>1. Held(d) = n /\ Held(d)' = n - k
      BY <1>0, <2>1, <2>2, <2>4 DEF Serving
    <3>2. echoed'[d] = echoed[d] + k
      BY <1>0, <2>2, <2>4 DEF Types
    <3> HIDE DEF Held
    <3> QED
      BY <1>0, <2>2, <2>3, <3>1, <3>2
  <2>5. CASE d # c
    <3>1. fd[d] # client[j]
      BY <1>0, <2>1, <2>5, NoFdIsNone DEF Serving, Open, ConnsOK
    <3>2. Held(d) = 0 /\ Held(d)' = 0 /\ echoed'[d] = echoed[d]
      BY <1>0, <2>2, <2>5, <3>1 DEF Types
    <3> QED
      BY <1>0, <2>2, <2>3, <3>2
  <2> QED
    BY <2>4, <2>5
<1> QED
  BY <1>3, <1>4, <1>5, <1>7, <1>8, <1>9 DEF Next, Server

-----------------------------------------------------------------------------
(* The report.                                                             *)

LEMMA DueFinite ==
  ASSUME Types
  PROVE  Due \subseteq Slots /\ IsFiniteSet(Due) /\ Cardinality(Due) \in Nat
<1>1. Due \subseteq Slots
  BY Sizes DEF Due, Types
<1>2. IsFiniteSet(Due)
  BY <1>1, Sizes, FS_Subset
<1> QED
  BY <1>1, <1>2, FS_CardinalityType

\* A slot remains ready while nobody reads what its connection holds.
LEMMA StillReady ==
  ASSUME NEW s \in Slots, ReadReady(client[s]), client'[s] = client[s],
         \A d \in Conns : net[d] = "open" /\ fd[d] = client[s] =>
           /\ net'[d] = "open" /\ fd'[d] = fd[d]
           /\ inbuf[d] > 0 => inbuf'[d] > 0
           /\ fin[d] => fin'[d]
           /\ rst[d] => rst'[d]
  PROVE  ReadReady(client[s])'
  BY DEF ReadReady

\* When the call returns, the slots to serve are as many as the connections it
\* reports, in both programs.
LEMMA CallReports ==
  ASSUME IInv, Poll
  PROVE  /\ IsFiniteSet(Reportable) /\ Cardinality(Due') = Cardinality(Reportable)
         /\ 0 \notin Reportable
         /\ \A s \in Due' : s \in Slots /\ ReadReady(client[s])
<1>0. /\ Types /\ N \in Nat /\ Slots = 1 .. N /\ Fds = 1 .. N
      /\ Slots \subseteq Nat \ {0} /\ IsFiniteSet(Slots)
  BY TypesAndBounds, Sizes DEF IInv
<1>1. Reportable \subseteq Slots
  BY <1>0 DEF Reportable, InTable, Types
<1>2. IsFiniteSet(Reportable) /\ 0 \notin Reportable
  BY <1>0, <1>1, FS_Subset
<1>3. /\ j' = 1 /\ polled' = maxi /\ maxi' = maxi /\ client' = client /\ program' = program
      /\ rset' = Listening \cup Reportable \cup Unpolled /\ pc = "wait"
  BY DEF Poll, table
<1>4. Listening \subseteq {0}
  BY DEF Listening
<1>5. /\ InTable \subseteq 1 .. maxi /\ maxi \in Nat /\ maxi <= N
      /\ \A s, t \in InTable : s # t => client[s] # client[t]
      /\ {client[s] : s \in InTable} = OpenFds
      /\ program = "select" => allset = OpenFds /\ \A f \in allset : f <= maxfd
  <2>1. maxi \in Nat /\ maxi <= N
    BY <1>0 DEF Types
  <2> QED
    BY <1>3, <2>1 DEF IInv, TableOK
<1>6. CASE program = "poll"
  <2>1. Due' = Reportable
    <3>1. \A s \in 1 .. maxi : s \in rset' <=> s \in Reportable
      BY <1>3, <1>4, <1>5, <1>6 DEF Unpolled
    <3>2. Due' = {s \in 1 .. maxi : client[s] # NoFd /\ s \in rset'}
      BY <1>3, <1>5, <1>6 DEF Due, Reported, FreshSlot
    <3>3. Reportable \subseteq {s \in 1 .. maxi : client[s] # NoFd}
      BY <1>5, <1>6 DEF Reportable, InTable
    <3> QED
      BY <3>1, <3>2, <3>3
  <2>2. \A s \in Reportable : ReadReady(client[s])
    BY <1>6 DEF Reportable
  <2> QED
    BY <1>1, <1>2, <2>1, <2>2
<1>7. CASE program = "select"
  <2> DEFINE S == {s \in 1 .. maxi : client[s] # NoFd /\ client[s] \in Reportable}
             f == [s \in S |-> client[s]]
  <2>1. Due' = S
    <3>1. \A s \in 1 .. maxi : client[s] # NoFd => (client[s] \in rset' <=> client[s] \in Reportable)
      <4>1. Unpolled = {}
        BY <1>7 DEF Unpolled
      <4>2. \A s \in 1 .. maxi : client[s] # NoFd => client[s] # 0
        BY <1>0, <1>5 DEF Types
      <4> QED
        BY <1>3, <1>4, <4>1, <4>2
    <3> QED
      BY <1>3, <1>7, <3>1 DEF Due, Reported, FreshSlot
  <2>2. S \subseteq InTable /\ S \subseteq Slots
    BY <1>0, <1>5 DEF InTable
  <2>3. f \in Injection(S, Reportable)
    BY <1>5, <2>2 DEF Injection, IsInjective
  <2>4. f \in Surjection(S, Reportable)
    <3>1. \A g \in Reportable : \E s \in InTable : client[s] = g
      BY <1>5, <1>7 DEF Reportable
    <3>2. \A g \in Reportable : \E s \in S : f[s] = g
      BY <1>5, <3>1 DEF InTable
    <3> QED
      BY <3>2 DEF Surjection
  <2>5. f \in Bijection(S, Reportable)
    BY <2>3, <2>4 DEF Bijection
  <2>6. IsFiniteSet(S)
    BY <1>0, <2>2, FS_Subset
  <2>7. Cardinality(S) = Cardinality(Reportable)
    <3> HIDE DEF f, S
    <3> QED
      BY <2>5, <2>6, FS_Bijection DEF ExistsBijection
  <2>8. \A s \in S : ReadReady(client[s])
    BY <1>7 DEF Reportable
  <2> QED
    BY <1>2, <2>1, <2>2, <2>7, <2>8
<1> QED
  BY <1>0, <1>6, <1>7 DEF Types

LEMMA ReportStep == IInv /\ [Next]_vars => ReportOK'
<1> SUFFICES ASSUME IInv, [Next]_vars PROVE ReportOK'
  OBVIOUS
<1>0. /\ Types /\ ConnsOK /\ TableOK /\ ReportOK /\ N \in Nat /\ Slots = 1 .. N /\ Fds = 1 .. N
      /\ Due \subseteq Slots /\ IsFiniteSet(Due) /\ Cardinality(Due) \in Nat
      /\ maxi \in Int /\ j \in Int /\ polled \in Int /\ nready \in Nat /\ n \in Nat
  <2>1. Types
    BY TypesAndBounds DEF IInv
  <2>2. maxi \in Int /\ j \in Int /\ polled \in Int /\ nready \in Nat /\ n \in Nat
    BY <2>1, Sizes DEF Types
  <2> QED
    BY <2>1, <2>2, Sizes, DueFinite DEF IInv
<1>1. ASSUME NEW c \in Conns, Client(c) PROVE ReportOK'
  <2>1. ClientEffect
    BY <1>1, ClientSteps DEF IInv
  <2>2. UNCHANGED <<program, pc, client, allset, maxi, rset, polled, nready, j, n, fd>>
    BY <2>1 DEF ClientEffect
  <2>3. Due' = Due /\ InTable' = InTable
    BY <2>2 DEF Due, InTable, Reported, FreshSlot
  <2>4. \A s \in Due : ReadReady(client[s]) => ReadReady(client[s])'
    <3>1. \A d \in Conns : net[d] = "open" =>
            /\ net'[d] = "open" /\ fd'[d] = fd[d]
            /\ inbuf[d] > 0 => inbuf'[d] > 0
            /\ fin[d] => fin'[d]
            /\ rst[d] => rst'[d]
      <4>1. \A d \in Conns : inbuf[d] \in Nat
        BY <1>0 DEF Types
      <4> QED
        BY <2>1, <4>1 DEF ClientEffect
    <3> QED
      BY <1>0, <2>2, <3>1, StillReady
  <2> QED
    BY <1>0, <2>2, <2>3, <2>4 DEF ReportOK
<1>2. CASE Poll
  <2>1. /\ IsFiniteSet(Reportable) /\ Cardinality(Due') = Cardinality(Reportable)
        /\ 0 \notin Reportable /\ \A s \in Due' : s \in Slots /\ ReadReady(client[s])
    BY <1>2, CallReports
  <2>2. /\ j' = 1 /\ polled' = maxi /\ maxi' = maxi /\ client' = client /\ program' = program
        /\ allset' = allset /\ UNCHANGED conns
        /\ rset' = Listening \cup Reportable \cup Unpolled
        /\ nready' = Cardinality(Listening \cup Reportable)
        /\ Listening \cup Reportable # {}
        /\ pc' = IF Queue # {} THEN "accept" ELSE "scan"
    BY <1>2 DEF Poll, table
  <2>3. Cardinality(Reportable) \in Nat
    BY <2>1, FS_CardinalityType
  <2>4. \A s \in Due' : ReadReady(client[s])'
    BY <2>1, <2>2 DEF ReadReady, conns
  <2>5. CASE Queue = {}
    <3>1. Listening = {} /\ pc' = "scan"
      BY <2>2, <2>5 DEF Listening
    <3>2. nready' = Cardinality(Reportable) /\ Reportable # {}
      BY <2>2, <3>1
    <3>3. Cardinality(Reportable) # 0
      BY <2>1, <3>2, FS_EmptySet
    <3> QED
      BY <2>1, <2>3, <2>4, <3>1, <3>2, <3>3 DEF ReportOK
  <2>6. CASE Queue # {}
    <3>1. Listening = {0} /\ pc' = "accept"
      BY <2>2, <2>6 DEF Listening
    <3>2. nready' = Cardinality(Reportable) + 1
      <4>1. Cardinality(Reportable \cup {0}) = Cardinality(Reportable) + 1
        BY <2>1, FS_AddElement
      <4>2. Listening \cup Reportable = Reportable \cup {0}
        BY <3>1
      <4> QED
        BY <2>2, <4>1, <4>2
    <3>3. program = "select" => rset' \subseteq allset \cup {0}
      BY <2>2, <3>1 DEF Reportable, Unpolled
    <3>4. ASSUME program = "poll", NEW s \in Slots, s \in rset', s <= maxi PROVE s \in InTable
      <4>1. s # 0 /\ s \notin Unpolled
        BY <1>0, <3>4 DEF Unpolled
      <4> QED
        BY <2>2, <3>1, <3>4, <4>1 DEF Reportable
    <3>5. InTable' = InTable /\ InTable \subseteq Slots
      BY <2>2 DEF InTable
    <3> QED
      BY <2>1, <2>2, <2>4, <3>1, <3>2, <3>3, <3>4, <3>5 DEF ReportOK
  <2> QED
    BY <2>5, <2>6
<1>3. ASSUME NEW c \in Conns, Accept(c) PROVE ReportOK'
  <2>1. /\ net' = [net EXCEPT ![c] = "open"] /\ fd' = [fd EXCEPT ![c] = NewFd]
        /\ net[c] = "queued" /\ pc = "accept" /\ NewFd \in Fds /\ NewFd \notin OpenFds
        /\ UNCHANGED <<program, rset, polled, j, n, fin, rst, inbuf>>
    BY <1>3, Accepts
  <2>2. CASE pc' = "exit"
    BY <2>2 DEF ReportOK
  <2>3. ASSUME NEW s \in Slots, Placed(s) PROVE ReportOK'
    <3>1. /\ client[s] = NoFd /\ client' = [client EXCEPT ![s] = NewFd]
          /\ maxi' = (IF s > maxi THEN s ELSE maxi) /\ nready' = nready - 1
          /\ pc' = IF nready - 1 <= 0 THEN "wait" ELSE "scan"
      BY <2>3 DEF Placed
    <3>2. /\ j = 1 /\ polled = maxi /\ nready = Cardinality(Due) + 1
          /\ program = "select" => rset \subseteq allset \cup {0}
          /\ program = "poll" => \A t \in Slots : t \in rset /\ t <= maxi => t \in InTable
          /\ \A t \in Due : ReadReady(client[t])
      BY <1>0, <2>1 DEF ReportOK
    <3>3. /\ InTable \subseteq 1 .. maxi
          /\ program = "select" => allset = OpenFds
      BY <1>0, <2>1 DEF TableOK
    <3>4. \A t \in Slots : client'[t] = (IF t = s THEN NewFd ELSE client[t])
      BY <1>0, <3>1 DEF Types
    <3>5. s \in Int /\ maxi' \in Int /\ maxi <= maxi' /\ maxi' <= N
      <4>1. maxi <= N /\ s \in Int /\ s <= N
        BY <1>0 DEF Types
      <4> QED
        BY <1>0, <3>1, <4>1
    <3>6. s \notin Due /\ \A t \in Due : t \in Slots /\ client'[t] = client[t]
      BY <1>0, <3>1, <3>4 DEF Due, Reported
    <3>7. s \notin Due'
      <4>1. CASE program = "select"
        BY <1>0, <2>1, <3>2, <3>3, <3>4, <4>1 DEF Due, Reported
      <4>2. CASE program = "poll"
        <5>1. CASE s <= maxi
          <6>1. s \notin rset
            BY <3>1, <3>2, <4>2, <5>1 DEF InTable
          <6> QED
            BY <2>1, <4>2, <6>1 DEF Due, Reported
        <5>2. CASE s > maxi
          BY <2>1, <3>2, <4>2, <5>2 DEF Due, FreshSlot
        <5> QED
          BY <1>0, <3>5, <5>1, <5>2
      <4> QED
        BY <1>0, <4>1, <4>2 DEF Types
    <3>8. Due' = Due
      <4>1. ASSUME NEW t \in Slots, t # s PROVE t \in Due' <=> t \in Due
        <5>1. client'[t] = client[t] /\ t \in Int /\ t >= 1
          BY <1>0, <3>4, <4>1
        <5>2. client[t] # NoFd => t <= maxi
          BY <1>0, <3>3 DEF InTable
        <5>3. (Reported(t)' <=> Reported(t)) /\ (FreshSlot(t)' <=> FreshSlot(t))
          BY <2>1, <5>1 DEF Reported, FreshSlot
        <5>4. Reported(t) => (t \in j' .. maxi' <=> t \in j .. maxi)
          BY <1>0, <2>1, <3>2, <3>5, <5>1, <5>2 DEF Reported
        <5> QED
          BY <5>3, <5>4 DEF Due
      <4>2. Due' \subseteq Slots
        BY <1>0, <2>1, <3>2, <3>5 DEF Due
      <4>3. Due \subseteq Slots
        BY <1>0
      <4>4. \A t : t \in Due' <=> t \in Due
        BY <3>6, <3>7, <4>1, <4>2, <4>3
      <4> QED
        BY <4>4
    <3>9. \A t \in Due : ReadReady(client[t])'
      <4>1. \A d \in Conns : net[d] = "open" =>
              /\ net'[d] = "open" /\ fd'[d] = fd[d] /\ inbuf'[d] = inbuf[d]
              /\ fin'[d] = fin[d] /\ rst'[d] = rst[d]
        BY <1>0, <2>1 DEF Types
      <4> QED
        BY <3>2, <3>6, <4>1, StillReady
    <3>10. pc' = "scan" => nready' > 0 /\ nready' = Cardinality(Due)
      BY <1>0, <3>1, <3>2
    <3>11. pc' \in {"wait", "scan"}
      BY <3>1
    <3> QED
      BY <3>8, <3>9, <3>10, <3>11 DEF ReportOK
  <2> QED
    BY <1>3, <2>2, <2>3, Accepts
<1>4. CASE AcceptFails \/ ReadFails \/ WritenFails
  <2>1. pc' = "exit"
    BY <1>4 DEF AcceptFails, ReadFails, WritenFails
  <2> QED
    BY <2>1 DEF ReportOK
<1>5. CASE Skip
  <2>1. /\ pc = "scan" /\ ~Reported(j) /\ j' = j + 1 /\ pc' = pc
        /\ UNCHANGED <<program, client, maxi, rset, polled, nready, n, conns>>
    BY <1>5 DEF Skip, table, report
  <2>2. Due' = Due
    <3>1. \A t : t \in j + 1 .. maxi <=> t \in j .. maxi /\ t # j
      BY <1>0
    <3>2. \A t : (Reported(t)' <=> Reported(t)) /\ (FreshSlot(t)' <=> FreshSlot(t))
      BY <2>1 DEF Reported, FreshSlot
    <3> QED
      BY <2>1, <3>1, <3>2 DEF Due
  <2>3. \A s \in Due : ReadReady(client[s])'
    BY <1>0, <2>1 DEF ReportOK, ReadReady, conns
  <2> QED
    BY <1>0, <2>1, <2>2, <2>3 DEF ReportOK
\* The slot just served leaves the slots to serve, the others stay.
<1>6. ASSUME j \in Due, j' = j + 1, nready' = nready - 1, pc \in {"scan", "write"},
             pc' = (IF nready - 1 <= 0 THEN "wait" ELSE "scan"),
             UNCHANGED <<program, maxi, rset, polled>>,
             \A s \in Slots \ {j} : client'[s] = client[s],
             \A s \in Due \ {j} : ReadReady(client[s])'
      PROVE  ReportOK'
  <2>1. Due' = Due \ {j}
    <3>1. \A t : t \in j + 1 .. maxi <=> t \in j .. maxi /\ t # j
      BY <1>0
    <3>2. \A t \in Slots \ {j} : (Reported(t)' <=> Reported(t)) /\ (FreshSlot(t)' <=> FreshSlot(t))
      BY <1>6 DEF Reported, FreshSlot
    <3>3. j .. maxi \subseteq Slots
      BY <1>0 DEF Types
    <3> QED
      BY <1>6, <3>1, <3>2, <3>3 DEF Due
  <2>2. Cardinality(Due') = Cardinality(Due) - 1
    BY <1>0, <1>6, <2>1, FS_RemoveElement
  <2>3. nready = Cardinality(Due)
    BY <1>0, <1>6 DEF ReportOK
  <2>4. pc' = "scan" => nready' > 0
    BY <1>0, <1>6
  <2>5. nready' = Cardinality(Due') /\ pc' \in {"wait", "scan"}
    BY <1>6, <2>2, <2>3
  <2> QED
    BY <1>6, <2>1, <2>4, <2>5 DEF ReportOK
\* The connections of the other slots are not the one that is served.
<1>7. ASSUME NEW c \in Conns, Serving(c), pc = "scan" \/ pc = "write",
             NEW s \in Due \ {j}
      PROVE  client[s] # fd[c] /\ ReadReady(client[s]) /\ s \in Slots
  <2>1. s \in InTable /\ j \in InTable
    BY <1>0, <1>7 DEF Due, Reported, InTable, Serving
  <2>2. client[s] # client[j]
    BY <1>0, <1>7, <2>1 DEF TableOK
  <2> QED
    BY <1>0, <1>7, <2>2 DEF Serving, ReportOK
<1>8. CASE Close
  <2>1. PICK c \in Conns : Serving(c) /\ ClosedAt(c)
    BY <1>8, Serves
  <2>2. j \in Due
    BY <1>8, AtSlot DEF Close
  <2>3. /\ net' = [net EXCEPT ![c] = "closed"] /\ fd' = [fd EXCEPT ![c] = NoFd]
        /\ client' = [client EXCEPT ![j] = NoFd]
        /\ nready' = nready - 1 /\ j' = j + 1
        /\ pc = "scan" /\ pc' = (IF nready - 1 <= 0 THEN "wait" ELSE "scan")
        /\ UNCHANGED <<program, maxi, rset, polled, fin, rst, inbuf>>
    BY <2>1 DEF ClosedAt
  <2>4. \A s \in Slots \ {j} : client'[s] = client[s]
    BY <1>0, <2>3 DEF Types
  <2>5. ASSUME NEW s \in Due \ {j} PROVE ReadReady(client[s])'
    <3>1. client[s] # fd[c] /\ ReadReady(client[s]) /\ s \in Slots
      BY <1>7, <2>1, <2>3
    <3>2. \A d \in Conns : net[d] = "open" /\ fd[d] = client[s] =>
            /\ net'[d] = "open" /\ fd'[d] = fd[d] /\ inbuf'[d] = inbuf[d]
            /\ fin'[d] = fin[d] /\ rst'[d] = rst[d]
      BY <1>0, <2>3, <3>1 DEF Types
    <3> QED
      BY <2>4, <3>1, <3>2, StillReady
  <2> QED
    BY <1>6, <2>2, <2>3, <2>4, <2>5
<1>9. CASE Read
  <2>1. PICK c \in Conns : Serving(c) /\ ReadAt(c)
    BY <1>9, Serves
  <2>2. j \in Due
    BY <1>9, AtSlot DEF Read
  <2>3. /\ n' > 0 /\ inbuf' = [inbuf EXCEPT ![c] = 0] /\ pc = "scan" /\ pc' = "write"
        /\ UNCHANGED <<program, client, maxi, rset, polled, nready, j, net, fd, fin, rst>>
    BY <2>1 DEF ReadAt
  <2>4. Due' = Due
    BY <2>3 DEF Due, Reported, FreshSlot
  <2>5. ASSUME NEW s \in Due \ {j} PROVE ReadReady(client[s])'
    <3>1. client[s] # fd[c] /\ ReadReady(client[s]) /\ s \in Slots
      BY <1>7, <2>1, <2>3
    <3>2. \A d \in Conns : net[d] = "open" /\ fd[d] = client[s] =>
            /\ net'[d] = "open" /\ fd'[d] = fd[d] /\ inbuf'[d] = inbuf[d]
            /\ fin'[d] = fin[d] /\ rst'[d] = rst[d]
      BY <1>0, <2>3, <3>1 DEF Types
    <3> QED
      BY <2>3, <3>1, <3>2, StillReady
  <2> QED
    BY <1>0, <2>2, <2>3, <2>4, <2>5 DEF ReportOK
<1>10. CASE Writen
  <2>1. PICK c \in Conns, k \in Nat : Serving(c) /\ WrittenAt(c, k)
    BY <1>10, Serves
  <2>2. /\ pc = "write" /\ k <= n /\ n' = n - k
        /\ \/ /\ n' = 0 /\ nready' = nready - 1 /\ j' = j + 1
              /\ pc' = (IF nready - 1 <= 0 THEN "wait" ELSE "scan")
           \/ n' # 0 /\ UNCHANGED <<nready, j, pc>>
        /\ UNCHANGED <<program, client, maxi, rset, polled, net, fd, fin, rst, inbuf>>
    BY <2>1 DEF WrittenAt
  <2>3. j \in Due
    BY <2>2, AtSlot
  <2>4. \A s \in Due \ {j} : ReadReady(client[s])'
    <3>1. \A s \in Due \ {j} : ReadReady(client[s])
      BY <1>7, <2>1, <2>2
    <3> QED
      BY <2>2, <3>1 DEF ReadReady
  <2>5. CASE n' = 0
    BY <1>6, <2>2, <2>3, <2>4, <2>5
  <2>6. CASE n' # 0
    <3>1. Due' = Due /\ n' > 0 /\ pc' = "write" /\ j' = j /\ nready' = nready
      BY <1>0, <2>2, <2>6 DEF Due, Reported, FreshSlot
    <3> QED
      BY <1>0, <2>2, <2>3, <2>4, <3>1 DEF ReportOK
  <2> QED
    BY <2>5, <2>6
<1>11. CASE UNCHANGED vars
  <2>1. /\ Due' = Due /\ InTable' = InTable
        /\ UNCHANGED <<program, pc, allset, maxi, rset, polled, nready, j, n>>
    BY <1>11 DEF Due, InTable, Reported, FreshSlot, vars, table, report
  <2>2. \A s \in Due : ReadReady(client[s]) => ReadReady(client[s])'
    BY <1>11 DEF ReadReady, vars, conns, table
  <2> QED
    BY <1>0, <2>1, <2>2 DEF ReportOK
<1> QED
  BY <1>1, <1>2, <1>3, <1>4, <1>5, <1>8, <1>9, <1>10, <1>11 DEF Next, Server

-----------------------------------------------------------------------------
(* The theorems.                                                           *)

\* The invariant is inductive and holds of every behaviour.
THEOREM Inductive == Spec => []IInv
<1>1. IInv /\ [Next]_vars => IInv'
  <2> SUFFICES ASSUME IInv, [Next]_vars PROVE IInv'
    OBVIOUS
  <2>1. TypeOK' /\ ConnsOK' /\ TableOK' /\ ReportOK' /\ EchoAccounts'
    BY TypeStep, ConnsStep, TableStep, ReportStep, EchoStep
  <2> QED
    BY <2>1 DEF IInv
<1> QED
  BY <1>1, InitInv, PTL DEF Spec

\* Every variable of the two servers keeps its type, the bytes of a connection
\* their bounds.
THEOREM TypeCorrect == Spec => []TypeOK
<1>1. IInv => TypeOK
  BY DEF IInv
<1> QED
  BY <1>1, Inductive, PTL

\* The table, the descriptor set and maxfd describe the open connections: the
\* slots that Accept fills and Close frees never lose or double a client.
THEOREM TableCorrect == Spec => []TableMatchesConnections
<1>1. IInv => TableMatchesConnections
  <2> SUFFICES ASSUME IInv, pc # "exit" PROVE TableMatchesConnections
    BY DEF TableMatchesConnections
  <2>1. /\ InTable \subseteq 1 .. maxi
        /\ \A s, t \in InTable : s # t => client[s] # client[t]
        /\ {client[s] : s \in InTable} = OpenFds
        /\ program = "select" => allset = OpenFds /\ \A f \in allset : f <= maxfd
    BY DEF IInv, TableOK
  <2>2. ASSUME NEW c \in Conns, net[c] = "open"
        PROVE  Cardinality({s \in 1 .. maxi : client[s] = fd[c]}) = 1
    <3>1. fd[c] \in OpenFds /\ fd[c] # NoFd
      BY <2>2, NoFdIsNone DEF OpenFds, Open, IInv, ConnsOK
    <3>2. PICK s \in InTable : client[s] = fd[c]
      BY <2>1, <3>1
    <3>3. 1 .. maxi \subseteq Slots
      <4>1. maxi \in Slots \cup {0}
        BY DEF IInv, TypeOK
      <4> QED
        BY <4>1, Sizes
    <3>4. {t \in 1 .. maxi : client[t] = fd[c]} = {s}
      BY <2>1, <3>1, <3>2, <3>3 DEF InTable
    <3> QED
      BY <3>4, FS_Singleton
  <2>3. OpenFds = {fd[c] : c \in {d \in Conns : net[d] = "open"}}
    BY DEF OpenFds, Open
  <2> QED
    BY <2>1, <2>2, <2>3 DEF TableMatchesConnections
<1> QED
  BY <1>1, Inductive, PTL

\* The scan counts nready down over exactly the slots of the report, never
\* looks at a slot that poll() has not seen, and never reads where read() would
\* block.
THEOREM ScanCorrect == Spec => []ScanServesReported
<1>1. IInv => ScanServesReported
  <2> SUFFICES ASSUME IInv PROVE ScanServesReported
    OBVIOUS
  <2>1. pc = "scan" => nready > 0 /\ nready = Cardinality(Due)
    BY DEF IInv, ReportOK
  <2>2. ASSUME Hit PROVE ~FreshSlot(j) /\ ReadReady(client[j])
    <3>1. j \in Due /\ pc = "scan"
      BY <2>2, AtSlot DEF Hit
    <3> QED
      BY <3>1 DEF Due, IInv, ReportOK
  <2> QED
    BY <2>1, <2>2 DEF ScanServesReported, Due
<1> QED
  BY <1>1, Inductive, PTL

\* Echoed bytes are the bytes sent, less those on their way: Read and Writen
\* lose none and give none to another client.
THEOREM EchoCorrect == Spec => []EchoAccounts
<1>1. IInv => EchoAccounts
  BY DEF IInv
<1> QED
  BY <1>1, Inductive, PTL

-----------------------------------------------------------------------------
(* The loops of the family together (MCSelectLoops).                       *)

\* The theorems about WebClient and Icmpd.
WP == INSTANCE WebClientProofs WITH
        rset <- wrset, maxfd <- wmaxfd, pc <- wpc, net <- wnet,
        client <- icli, maxi <- imaxi, nready <- inready, drset <- irset

\* The modules as MCSelectLoops and as the proofs instantiate them are the same:
\* their definitions, all expanded here, are.
LEMMA SameWeb ==
  /\ W!Init = WP!Init
  /\ W!Next = WP!Next
  /\ W!vars = WP!vars /\ W!vars' = WP!vars'
  /\ W!TypeOK = WP!TypeOK
  /\ W!BooksAgree = WP!BooksAgree
  /\ W!ReadOnlyWhenReady = WP!ReadOnlyWhenReady
  /\ W!AlwaysSomethingToWaitFor = WP!AlwaysSomethingToWaitFor
  BY Zenon
  DEF W!Init, WP!Init, W!Next, WP!Next, W!vars, WP!vars, W!TypeOK, WP!TypeOK, W!BooksAgree,
      WP!BooksAgree, W!ReadOnlyWhenReady, WP!ReadOnlyWhenReady, W!AlwaysSomethingToWaitFor,
      WP!AlwaysSomethingToWaitFor, W!Files, WP!Files, W!NoFd, WP!NoFd, W!ClientStep,
      WP!ClientStep, W!Accept, WP!Accept, W!Refuse, WP!Refuse, W!Data, WP!Data, W!Fin, WP!Fin,
      W!Rst, WP!Rst, W!tables, WP!tables, W!sets, WP!sets, W!counts, WP!counts, W!Descriptors,
      WP!Descriptors, W!Running, WP!Running, W!CountersExact, WP!CountersExact,
      W!SetsMatchFlags, WP!SetsMatchFlags, W!Scanned, WP!Scanned, W!Reading, WP!Reading,
      W!Unstarted, WP!Unstarted, W!Finish, WP!Finish, W!StartConnect, WP!StartConnect,
      W!EndFill, WP!EndFill, W!Select, WP!Select, W!Connected, WP!Connected, W!ReadData,
      WP!ReadData, W!ReadEof, WP!ReadEof, W!ReadError, WP!ReadError, W!Pass, WP!Pass, W!EndScan,
      WP!EndScan, W!Becomes, WP!Becomes, W!Active, WP!Active, W!MayConnect, WP!MayConnect,
      W!Lowest, WP!Lowest, W!Highest, WP!Highest, W!WriteGetCmd, WP!WriteGetCmd, W!Watched,
      WP!Watched, W!Readable, WP!Readable, W!Writable, WP!Writable, W!Connecting, WP!Connecting,
      W!Established, WP!Established, W!Unwatch, WP!Unwatch, W!NconnAfterClose,
      WP!NconnAfterClose, W!WatchAfterGet, WP!WatchAfterGet, W!Owner, WP!Owner, W!Cardinality,
      WP!Cardinality

LEMMA SameDaemon ==
  /\ I!Init = WP!I!Init
  /\ I!Next = WP!I!Next
  /\ I!vars = WP!I!vars /\ I!vars' = WP!I!vars'
  /\ I!TypeOK = WP!I!TypeOK
  /\ I!NothingKept = WP!I!NothingKept
  BY Zenon
  DEF I!Init, WP!I!Init, I!Next, WP!I!Next, I!vars, WP!I!vars, I!TypeOK, WP!I!TypeOK,
      I!NothingKept, WP!I!NothingKept, I!InitialTable, WP!I!InitialTable, I!Daemon, WP!I!Daemon,
      I!Arrive, WP!I!Arrive, I!User, WP!I!User, I!daemon, WP!I!daemon, I!Slots, WP!I!Slots,
      I!Messages, WP!I!Messages, I!Select, WP!I!Select, I!Accept, WP!I!Accept, I!TooMany,
      WP!I!TooMany, I!readable_v4, WP!I!readable_v4, I!Connect, WP!I!Connect, I!Write_fd,
      WP!I!Write_fd, I!Read, WP!I!Read, I!Ready, WP!I!Ready, I!Queued, WP!I!Queued, I!Refused,
      WP!I!Refused, I!AfterListen, WP!I!AfterListen, I!AfterV4, WP!I!AfterV4, I!Goes, WP!I!Goes,
      I!Cardinality, WP!I!Cardinality

\* What the theorems about Icmpd assume.
LEMMA DaemonAssumption ==
  WP!IsFiniteSet(Users) /\ FD_SETSIZE \in Nat \ {0} /\ MaxIcmp \in Nat
  BY IcmpdAssumption DEF WP!IsFiniteSet, IsFiniteSet

\* One program runs: a step of the family is a step of that program, and leaves
\* what belongs to the others as it is.
LEMMA OneRuns ==
  ASSUME [AnyNext]_allvars
  PROVE  [Next]_vars /\ [W!Next]_(W!vars) /\ [I!Next]_(I!vars)
<1> DEFINE
      NoWeb == UNCHANGED wvars => UNCHANGED W!vars
      NoDaemon == UNCHANGED ivars => UNCHANGED I!vars
<1>1. NoWeb
  BY DEF wvars, W!vars, W!tables, W!sets, W!counts
<1>2. NoDaemon
  BY DEF ivars, I!vars, I!daemon
<1> HIDE DEF NoWeb, NoDaemon
<1>3. UNCHANGED allvars => UNCHANGED <<vars, wvars, ivars>>
  BY DEF allvars
<1>4. CASE Serve(Next)
  BY <1>1, <1>2, <1>4 DEF Serve, NoWeb, NoDaemon
<1>5. CASE Web(W!Next)
  BY <1>2, <1>5 DEF Web, NoDaemon
<1>6. CASE Daemon(I!Next)
  BY <1>1, <1>6 DEF Daemon, NoWeb
<1>7. CASE UNCHANGED allvars
  BY <1>1, <1>2, <1>3, <1>7 DEF NoWeb, NoDaemon
<1> QED
  BY <1>4, <1>5, <1>6, <1>7 DEF AnyNext

LEMMA FamilyRuns == AnySpec => Spec /\ WP!Spec /\ WP!I!Spec
<1>1. AnyInit => Init /\ WP!Init /\ WP!I!Init
  BY SameWeb, SameDaemon DEF AnyInit
<1>2. [AnyNext]_allvars => [Next]_vars /\ [WP!Next]_(WP!vars) /\ [WP!I!Next]_(WP!I!vars)
  <2> SUFFICES ASSUME [AnyNext]_allvars
               PROVE  [Next]_vars /\ [WP!Next]_(WP!vars) /\ [WP!I!Next]_(WP!I!vars)
    OBVIOUS
  <2>1. [Next]_vars
    BY OneRuns
  <2>2. [WP!Next]_(WP!vars)
    BY OneRuns, SameWeb
  <2>3. [WP!I!Next]_(WP!I!vars)
    BY OneRuns, SameDaemon
  <2> QED
    BY <2>1, <2>2, <2>3
<1> QED
  BY <1>1, <1>2, PTL DEF AnySpec, Spec, WP!Spec, WP!I!Spec

\* The web client's counters, its descriptor sets and its table of files agree,
\* whatever numbers the kernel gives to new descriptors.
THEOREM BooksOfFiles == AnySpec => []BooksAgree
<1>1. WP!BooksAgree => BooksAgree
  BY SameWeb DEF BooksAgree
<1> QED
  BY <1>1, FamilyRuns, WP!Books, WebAssumption, DaemonAssumption, PTL

\* The web client reads only where there is something to read.
THEOREM ReadsAreReady == AnySpec => []ReadOnlyWhenReady
<1>1. WP!ReadOnlyWhenReady => ReadOnlyWhenReady
  BY SameWeb DEF ReadOnlyWhenReady
<1> QED
  BY <1>1, FamilyRuns, WP!ReadsFindSomething, WebAssumption, DaemonAssumption, PTL

\* The web client never waits for nothing or for a closed descriptor.
THEOREM SelectsWait == AnySpec => []AlwaysSomethingToWaitFor
<1>1. WP!AlwaysSomethingToWaitFor => AlwaysSomethingToWaitFor
  BY SameWeb DEF AlwaysSomethingToWaitFor
<1> QED
  BY <1>1, FamilyRuns, WP!SelectWaits, WebAssumption, DaemonAssumption, PTL

\* icmpd handles exactly what select reported and keeps nobody's descriptor.
THEOREM DaemonKeepsNothing == AnySpec => []NothingKept
<1>1. WP!I!NothingKept => NothingKept
  BY SameDaemon DEF NothingKept
<1> QED
  BY <1>1, FamilyRuns, WP!NothingIsKept, WebAssumption, DaemonAssumption, PTL

\* Every variable of the servers, of the web client and of icmpd keeps its type.
THEOREM AllTypesCorrect == AnySpec => []AllTypeOK
<1>1. TypeOK /\ WP!TypeOK /\ WP!I!TypeOK => AllTypeOK
  BY SameWeb, SameDaemon DEF AllTypeOK
<1> QED
  BY <1>1, FamilyRuns, TypeCorrect, WP!TypeCorrect, WP!DaemonTypes,
     WebAssumption, DaemonAssumption, PTL
=============================================================================
