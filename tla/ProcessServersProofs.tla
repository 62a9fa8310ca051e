------------------------ MODULE ProcessServersProofs ------------------------
(***************************************************************************)
(* Proofs about the servers that keep a child per connection (ForkServer)  *)
(* or pass each connection to one (Serv05), for every number of clients    *)
(* and children: no zombie is forgotten, a connection is open in its own   *)
(* child only, and the parent of serv05 never accepts a connection that it *)
(* has no child for.                                                       *)
(***************************************************************************)
EXTENDS ForkServer, FiniteSetTheorems, TLAPS

CONSTANTS NoConn, MaxThreads
VARIABLES
  conn, kid, given, msg, broken, child_status, navail, rset, eof, spc,   \* Serv05
  client, left, reply, read_cnt, read_ptr, read_buf, tpc, reg, line, overlap, server

D == INSTANCE Serv05
T == INSTANCE ThreadServer

-----------------------------------------------------------------------------
\* A nonempty set of naturals has a least element.
LEMMA LeastOfNaturals ==
  ASSUME NEW S, S \subseteq Nat, S # {}
  PROVE  (CHOOSE x \in S : \A y \in S : x <= y) \in S
<1> DEFINE Ivals == {0 .. x : x \in S}
           R == StrictSubsetOrdering(Nat)
<1>1. \A x \in S : IsFiniteSet(0 .. x)
  BY FS_Interval
<1>2. Ivals \subseteq FiniteSubsetsOf(Nat) /\ Ivals # {}
  <2>1. \A x \in S : 0 .. x \in SUBSET Nat
    OBVIOUS
  <2>2. \A x \in S : 0 .. x \in FiniteSubsetsOf(Nat)
    BY <1>1, <2>1 DEF FiniteSubsetsOf
  <2> QED
    BY <2>2
<1>3. \E s \in Ivals : \A t \in Ivals : ~ (<<t, s>> \in R)
  <2>1. IsWellFoundedOn(R, FiniteSubsetsOf(Nat))
    BY FS_StrictSubsetOrderingWellFounded
  <2> HIDE DEF Ivals, R
  <2> QED
    BY <1>2, <2>1, WFMin
<1>4. PICK x \in S : \A t \in Ivals : ~ (<<t, 0 .. x>> \in R)
  BY <1>3
<1>5. ASSUME NEW y \in S, y < x PROVE FALSE
  <2> DEFINE a == 0 .. y
             b == 0 .. x
  <2>1. a \subseteq b /\ x \in b /\ x \notin a
    BY <1>5
  <2>2. a \subseteq b /\ a # b /\ a \in SUBSET Nat /\ b \in SUBSET Nat
    BY <2>1
  <2>3. a \in Ivals /\ ~ (<<a, b>> \in R)
    BY <1>4
  <2> HIDE DEF a, b, Ivals
  <2>4. <<a, b>> \in R
    BY <2>2 DEF StrictSubsetOrdering
  <2> QED
    BY <2>3, <2>4
<1>6. \A y \in S : x <= y
  BY <1>5
<1> QED
  BY <1>6

-----------------------------------------------------------------------------
(* ForkServer.                                                             *)

\* Where the parent is, the handler of SIGCHLD aside.
Place == IF pc = "handler" THEN resume ELSE pc

\* The parent has a connection in its hands between accept and close, and no
\* other; until it has forked, that connection has no child.
Hands ==
  /\ \A c \in Conns : childFds[c] \subseteq {c}
  /\ \A c \in Conns : net[c] # "up" => child[c] = "none"
  /\ \A c \in parentFds : net[c] = "up"
  /\ Place \in {"select", "accept", "udp"} => parentFds = {}
  /\ Place \in {"echo", "fork"} => \E c \in Conns : parentFds = {c} /\ child[c] = "none"

\* A pending SIGCHLD stands for a zombie; one that comes while the handler runs
\* stands for another than the one the handler was called for.
Signals ==
  pc # "exit" =>
    /\ program.reap = "waitpid" /\ Zombies # {} => pending \/ pc = "handler"
    /\ program.reap = "wait" =>
         /\ pc = "handler" \/ pending => Zombies # {}
         /\ pc = "handler" /\ pending => \E c, d \in Zombies : c # d

IInv == TypeOK /\ Hands /\ Signals

LEMMA ProgramTypes ==
  ASSUME NEW p \in Programs
  PROVE  p.reap \in {"wait", "waitpid"}
<1>1. /\ serv01.reap = "wait" /\ StringEcho1.reap = "wait" /\ StringEcho2.reap = "waitpid"
      /\ StringEcho3.reap = "waitpid" /\ strserver01.reap = "waitpid"
      /\ heartbeat_serv.reap = "waitpid" /\ ServerSelect.reap = "waitpid"
  BY DEF serv01, StringEcho1, StringEcho2, StringEcho3, strserver01, heartbeat_serv, ServerSelect
<1> QED
  BY <1>1 DEF Programs

LEMMA InitInv == Init => IInv
<1> SUFFICES ASSUME Init PROVE IInv
  OBVIOUS
<1> USE DEF Init
<1>1. pc \in {"select", "accept"} /\ resume = pc
  BY DEF Start
<1>2. TypeOK
  <2>1. sent \in 0 .. MaxDatagrams /\ datagrams \in 0 .. sent
    BY ProcessAssumption
  <2>2. /\ child \in [Conns -> {"none", "serving", "zombie", "reaped"}]
        /\ childFds \in [Conns -> SUBSET Conns]
        /\ net \in [Conns -> {"new", "queued", "up", "aborted"}]
        /\ end \in [Conns -> {"no", "fin", "rst"}]
    OBVIOUS
  <2>3. program \in Programs /\ ready = {} /\ parentFds = {} /\ pending = FALSE
    OBVIOUS
  <2> HIDE DEF Init
  <2> QED
    BY <1>1, <2>1, <2>2, <2>3 DEF TypeOK
<1>3. Hands
  BY <1>1 DEF Hands, Place
<1>4. Signals
  BY <1>1 DEF Signals, Zombies
<1> QED
  BY <1>2, <1>3, <1>4 DEF IInv

LEMMA TypeStep == TypeOK /\ [Next]_vars => TypeOK'
<1> SUFFICES ASSUME TypeOK, [Next]_vars PROVE TypeOK'
  OBVIOUS
<1> USE DEF TypeOK, parent, kids, clients, udp
<1>1. sent \in Nat /\ datagrams \in Nat
  OBVIOUS
<1>2. CASE \E c \in Conns : Request(c) \/ End(c) \/ Drop(c) \/ ChildExit(c)
  <2>1. PICK c \in Conns : Request(c) \/ End(c) \/ Drop(c) \/ ChildExit(c)
    BY <1>2
  <2>2. CASE Request(c) \/ Drop(c)
    BY <2>2 DEF Request, Drop
  <2>3. CASE End(c)
    BY <2>3 DEF End
  <2>4. CASE ChildExit(c)
    BY <2>4 DEF ChildExit
  <2> QED
    BY <2>1, <2>2, <2>3, <2>4
<1>3. CASE Datagram
  <2>1. /\ sent' = sent + 1 /\ datagrams' = datagrams + 1 /\ sent < MaxDatagrams
        /\ UNCHANGED <<program, parent, kids, pending, clients>>
    BY <1>3 DEF Datagram
  <2>2. sent' \in 0 .. MaxDatagrams /\ datagrams' \in 0 .. sent'
    BY <1>1, <2>1, ProcessAssumption
  <2> QED
    BY <2>1, <2>2
<1>4. CASE AnswerDatagram
  <2>1. /\ datagrams' = datagrams - 1 /\ datagrams > 0 /\ sent' = sent /\ pc' = "select"
        /\ resume' = resume /\ UNCHANGED <<program, ready, parentFds, kids, pending, clients>>
    BY <1>4 DEF AnswerDatagram, Goto
  <2>2. datagrams' \in 0 .. sent'
    BY <1>1, <2>1
  <2> QED
    BY <2>1, <2>2
<1>5. CASE Select \/ Fails \/ CloseConn \/ SigInt
  BY <1>5 DEF Select, Fails, CloseConn, SigInt, Goto, Start, KeptAfterFork
<1>6. CASE SigChld \/ NothingToReap
  BY <1>6 DEF SigChld, NothingToReap
<1>7. CASE \E c \in Conns : Accept(c) \/ EchoInParent(c) \/ Fork(c) \/ Reap(c)
  <2> SUFFICES ASSUME NEW c \in Conns, Accept(c) \/ EchoInParent(c) \/ Fork(c) \/ Reap(c)
               PROVE  TypeOK'
    BY <1>7
  <2>1. CASE Accept(c)
    BY <2>1 DEF Accept, Goto
  <2>2. CASE EchoInParent(c)
    BY <2>2 DEF EchoInParent, Goto
  <2>3. CASE Fork(c)
    BY <2>3 DEF Fork, Goto
  <2>4. CASE Reap(c)
    BY <2>4 DEF Reap, Goto
  <2> QED
    BY <2>1, <2>2, <2>3, <2>4
<1>8. CASE UNCHANGED vars
  BY <1>8 DEF vars
<1> QED
  BY <1>2, <1>3, <1>4, <1>5, <1>6, <1>7, <1>8 DEF Next, Parent

LEMMA HandsStep == TypeOK /\ Hands /\ [Next]_vars => Hands'
<1> SUFFICES ASSUME TypeOK, Hands, [Next]_vars PROVE Hands'
  OBVIOUS
<1> USE DEF parent, kids, clients, udp
<1>1. ASSUME NEW c \in Conns, Request(c) \/ End(c) \/ Drop(c) PROVE Hands'
  BY <1>1 DEF Request, End, Drop, Hands, Place, TypeOK
<1>2. ASSUME NEW c \in Conns, ChildExit(c) PROVE Hands'
  BY <1>2 DEF ChildExit, Hands, Place, TypeOK
<1>3. CASE Datagram \/ AnswerDatagram \/ Select \/ Fails \/ SigInt \/ SigChld \/ NothingToReap \/ UNCHANGED vars
  <2>1. UNCHANGED <<childFds, child, net, parentFds>>
    BY <1>3 DEF Datagram, AnswerDatagram, Select, Fails, SigInt, SigChld, NothingToReap, vars
  <2>2. \/ Place' = Place \/ Place' = "exit"
        \/ Place \in {"select", "udp"} /\ Place' \in {"select", "accept", "udp"}
    BY <1>3 DEF Datagram, AnswerDatagram, Select, Fails, SigInt, SigChld, NothingToReap, vars,
                Goto, Place, TypeOK
  <2> QED
    BY <2>1, <2>2 DEF Hands
<1>4. CASE CloseConn
  <2>1. /\ parentFds' = {} /\ UNCHANGED <<childFds, child, net>> /\ pc = "close"
        /\ Place' \in {"select", "accept", "udp"}
    BY <1>4 DEF CloseConn, KeptAfterFork, Goto, Start, Place
  <2> QED
    BY <2>1 DEF Hands
<1>5. ASSUME NEW c \in Conns, Accept(c) PROVE Hands'
  <2>1. /\ pc = "accept" /\ parentFds' = parentFds \cup {c} /\ UNCHANGED <<childFds, child>>
        /\ net[c] = "queued" /\ net' = [net EXCEPT ![c] = "up"] /\ Place' \in {"echo", "fork"}
    BY <1>5 DEF Accept, Goto, Place
  <2>2. parentFds' = {c} /\ child[c] = "none"
    BY <2>1 DEF Hands, Place
  <2> QED
    BY <2>1, <2>2 DEF Hands, TypeOK
<1>6. ASSUME NEW c \in Conns, EchoInParent(c) PROVE Hands'
  BY <1>6 DEF EchoInParent, Goto, Hands, Place
<1>7. ASSUME NEW c \in Conns, Fork(c) PROVE Hands'
  <2>1. /\ pc = "fork" /\ c \in parentFds /\ child[c] = "none" /\ pc' = "close"
        /\ child' = [child EXCEPT ![c] = "serving"]
        /\ childFds' = [childFds EXCEPT ![c] = parentFds] /\ UNCHANGED <<parentFds, net>>
    BY <1>7 DEF Fork, InHand, Goto
  <2>2. parentFds = {c}
    BY <2>1 DEF Hands, Place
  <2>3. net[c] = "up"
    BY <2>1, <2>2 DEF Hands
  <2> QED
    BY <2>1, <2>2, <2>3 DEF Hands, Place, TypeOK
<1>8. ASSUME NEW c \in Conns, Reap(c) PROVE Hands'
  BY <1>8 DEF Reap, Hands, Place, TypeOK
<1> QED
  BY <1>1, <1>2, <1>3, <1>4, <1>5, <1>6, <1>7, <1>8 DEF Next, Parent

LEMMA SignalsStep == TypeOK /\ Signals /\ [Next]_vars => Signals'
<1> SUFFICES ASSUME TypeOK, Signals, [Next]_vars PROVE Signals'
  OBVIOUS
<1> USE DEF parent, kids, clients, udp
<1>0. program.reap \in {"wait", "waitpid"} /\ program' = program
  <2>1. program' = program
    BY DEF Next, Parent, Request, End, Drop, ChildExit, Datagram, AnswerDatagram, Select, Fails,
           CloseConn, SigInt, SigChld, NothingToReap, Accept, EchoInParent, Fork, Reap, vars
  <2> QED
    BY <2>1, ProgramTypes DEF TypeOK
<1>1. CASE \/ \E c \in Conns : Request(c) \/ End(c) \/ Drop(c) \/ Accept(c) \/ EchoInParent(c)
           \/ Datagram \/ AnswerDatagram \/ Select \/ Fails \/ CloseConn \/ SigInt \/ UNCHANGED vars
  <2>1. UNCHANGED <<pending, child>> /\ (pc' = pc \/ (pc' # "handler" /\ pc \notin {"handler", "exit"}) \/ pc' = "exit")
    BY <1>1 DEF Request, End, Drop, Accept, EchoInParent, Datagram, AnswerDatagram, Select, Fails,
                CloseConn, SigInt, Goto, Start, vars
  <2>2. Zombies' = Zombies
    BY <2>1 DEF Zombies
  <2> QED
    BY <1>0, <2>1, <2>2 DEF Signals
<1>2. ASSUME NEW c \in Conns, Fork(c) PROVE Signals'
  <2>1. /\ pc = "fork" /\ pc' = "close" /\ pending' = pending
        /\ child[c] = "none" /\ child' = [child EXCEPT ![c] = "serving"]
    BY <1>2 DEF Fork, InHand, Goto
  <2>2. Zombies' = Zombies
    BY <2>1 DEF Zombies, TypeOK
  <2> QED
    BY <1>0, <2>1, <2>2 DEF Signals
<1>3. ASSUME NEW c \in Conns, ChildExit(c) PROVE Signals'
  <2>1. /\ child[c] = "serving" /\ child' = [child EXCEPT ![c] = "zombie"]
        /\ pending' = TRUE /\ pc' = pc
    BY <1>3 DEF ChildExit
  <2>2. Zombies' = Zombies \cup {c} /\ c \notin Zombies
    BY <2>1 DEF Zombies, TypeOK
  <2> QED
    BY <1>0, <2>1, <2>2 DEF Signals
<1>4. CASE SigChld
  <2>1. pending /\ pc \notin {"handler", "exit"} /\ pending' = FALSE /\ pc' = "handler" /\ child' = child
    BY <1>4 DEF SigChld
  <2>2. Zombies' = Zombies
    BY <2>1 DEF Zombies
  <2> QED
    BY <1>0, <2>1, <2>2 DEF Signals
<1>5. ASSUME NEW c \in Conns, Reap(c) PROVE Signals'
  <2>1. /\ pc = "handler" /\ c \in Zombies /\ child' = [child EXCEPT ![c] = "reaped"]
        /\ pending' = pending /\ (IF program.reap = "waitpid" THEN pc' = pc ELSE pc' = resume)
        /\ resume # "handler"
    BY <1>5 DEF Reap, ReapAgain, Zombies, TypeOK
  <2>2. Zombies' = Zombies \ {c}
    BY <2>1 DEF Zombies, TypeOK
  <2>3. CASE program.reap = "waitpid"
    BY <1>0, <2>1, <2>3 DEF Signals
  <2>4. CASE program.reap = "wait"
    BY <1>0, <2>1, <2>2, <2>4 DEF Signals
  <2> QED
    BY <1>0, <2>3, <2>4
<1>6. CASE NothingToReap
  <2>1. pc = "handler" /\ Zombies = {} /\ pending' = pending /\ child' = child
        /\ pc' = resume /\ resume # "handler"
    BY <1>6 DEF NothingToReap, TypeOK
  <2>2. Zombies' = Zombies
    BY <2>1 DEF Zombies
  <2> QED
    BY <1>0, <2>1, <2>2 DEF Signals
<1> QED
  BY <1>1, <1>2, <1>3, <1>4, <1>5, <1>6 DEF Next, Parent

\* The inductive invariant of the servers that fork holds of every behaviour.
THEOREM Inductive == Spec => []IInv
<1>1. IInv /\ [Next]_vars => IInv'
  BY TypeStep, HandsStep, SignalsStep DEF IInv
<1> QED
  BY <1>1, InitInv, PTL DEF Spec

\* Every variable of the servers that fork keeps its type.
THEOREM TypeCorrect == Spec => []TypeOK
<1>1. IInv => TypeOK
  BY DEF IInv
<1> QED
  BY <1>1, Inductive, PTL

\* However children end and signals merge, the handler that loops over waitpid
\* leaves no zombie that no signal will collect, and the handler that calls
\* wait once never blocks the parent.
THEOREM ZombiesCollected == Spec => []NoZombieForgotten
<1>1. IInv => NoZombieForgotten
  BY DEF IInv, Signals, NoZombieForgotten
<1> QED
  BY <1>1, Inductive, PTL

\* No child inherits the connection of another, and the parent that waits for
\* the next connection holds none: the end of a child closes its connection.
THEOREM OwnConnection == Spec => []OnlyOwnConnection
<1>1. IInv => OnlyOwnConnection
  BY DEF IInv, Hands, Place, OnlyOwnConnection
<1> QED
  BY <1>1, Inductive, PTL

-----------------------------------------------------------------------------
(* Serv05.                                                                 *)

\* navail is the number of children marked ready until the parent has read from
\* a child; that child is dead, and marked ready for good.
Marked ==
  /\ navail \in Int
  /\ \A i \in rset \cap D!Children : kid[i] = "dead"
  /\ spc = "accept" => navail > 0
  /\ navail = Cardinality(D!Free) \/ \E i \in D!Free : kid[i] = "dead"
  /\ spc # "none"

DInv == D!TypeOK /\ Marked

LEMMA ChildrenFinite ==
  /\ D!Children = 1 .. nchildren /\ IsFiniteSet(D!Children)
  /\ Cardinality(D!Children) = nchildren
  /\ nchildren \in Nat /\ IntMax \in Nat /\ nchildren <= IntMax /\ MsgLen \in Nat
  /\ D!Listen \notin D!Children
<1>1. nchildren \in Nat /\ IntMax \in Nat /\ nchildren <= IntMax /\ MsgLen \in Nat
  BY ProcessAssumption
<1>2. IsFiniteSet(1 .. nchildren) /\ Cardinality(1 .. nchildren) = nchildren
  BY <1>1, FS_Interval
<1> QED
  BY <1>1, <1>2 DEF D!Children, D!Listen

LEMMA FreeFinite == D!Free \subseteq D!Children /\ IsFiniteSet(D!Free) /\ Cardinality(D!Free) \in Nat
<1>1. D!Free \subseteq D!Children
  BY DEF D!Free
<1>2. IsFiniteSet(D!Free)
  BY <1>1, ChildrenFinite, FS_Subset
<1> QED
  BY <1>1, <1>2, FS_CardinalityType

LEMMA DInitInv == D!Init => DInv
<1> SUFFICES ASSUME D!Init PROVE DInv
  OBVIOUS
<1>1. D!TypeOK
  <2>1. navail \in -IntMax - 1 .. IntMax /\ 0 \in 0 .. MsgLen
    BY ChildrenFinite DEF D!Init
  <2> QED
    BY <2>1 DEF D!Init, D!TypeOK
<1>2. D!Free = D!Children
  BY DEF D!Init, D!Free
<1>3. Marked
  BY <1>2, ChildrenFinite DEF D!Init, Marked
<1> QED
  BY <1>1, <1>3 DEF DInv

\* The end of the parent.
LEMMA Dies ==
  ASSUME DInv, NEW how \in {"exit", "killed"}, D!Die(how)
  PROVE  DInv'
<1>1. spc' = how /\ D!Drop(D!Pending) /\ UNCHANGED <<kid, given, msg, broken, child_status, navail, rset, eof>>
  BY DEF D!Die, D!pipes, D!books
<1>2. conn' \in [Conns -> {"none", "queued", "passed", "dropped"}]
  BY <1>1 DEF D!Drop, DInv, D!TypeOK
<1>3. D!TypeOK'
  BY <1>1, <1>2 DEF DInv, D!TypeOK, D!Over
<1>4. D!Free' = D!Free
  BY <1>1 DEF D!Free
<1> QED
  BY <1>1, <1>3, <1>4 DEF DInv, Marked

LEMMA DStep == DInv /\ [D!Next]_(D!vars) => DInv'
<1> SUFFICES ASSUME DInv, [D!Next]_(D!vars) PROVE DInv'
  OBVIOUS
<1> USE DEF D!pipes, D!books
<1>0. D!TypeOK /\ Marked
  BY DEF DInv
<1>1. ASSUME NEW c \in Conns, D!Request(c) PROVE DInv'
  <2>1. D!TypeOK'
    BY <1>0, <1>1 DEF D!Request, D!TypeOK
  <2>2. D!Free' = D!Free /\ UNCHANGED <<navail, rset, kid, spc>>
    BY <1>1 DEF D!Request, D!Free
  <2> QED
    BY <1>0, <2>1, <2>2 DEF DInv, Marked
<1>2. ASSUME NEW i \in D!Children, D!ChildDies(i) PROVE DInv'
  <2>1. conn' \in [Conns -> {"none", "queued", "passed", "dropped"}]
    BY <1>0, <1>2 DEF D!ChildDies, D!Drop, D!TypeOK
  <2>2. MsgLen \in 0 .. MsgLen
    BY ChildrenFinite
  <2>3. D!TypeOK'
    BY <1>0, <1>2, <2>1, <2>2 DEF D!ChildDies, D!TypeOK
  <2>4. D!Free' = D!Free /\ UNCHANGED <<navail, rset, spc>> /\ kid' = [kid EXCEPT ![i] = "dead"]
    BY <1>2 DEF D!ChildDies, D!Free
  <2>5. \A k \in D!Children : kid[k] = "dead" => kid'[k] = "dead"
    BY <1>0, <2>4 DEF D!TypeOK
  <2>6. D!Free \subseteq D!Children
    BY FreeFinite
  <2> QED
    BY <1>0, <2>3, <2>4, <2>5, <2>6 DEF DInv, Marked
<1>3. ASSUME NEW i \in D!Children, D!Make(i) PROVE DInv'
  <2>1. D!TypeOK'
    BY <1>0, <1>3 DEF D!Make, D!TypeOK
  <2>2. /\ D!Free' = D!Free /\ UNCHANGED <<navail, rset>> /\ kid' = [kid EXCEPT ![i] = "starting"]
        /\ kid[i] = "none" /\ spc' \in {"make", "select"}
    BY <1>3 DEF D!Make, D!Made, D!Free
  <2>3. \A k \in D!Children : kid[k] = "dead" => kid'[k] = "dead"
    BY <1>0, <2>2 DEF D!TypeOK
  <2>4. D!Free \subseteq D!Children
    BY FreeFinite
  <2> QED
    BY <1>0, <2>1, <2>2, <2>3, <2>4 DEF DInv, Marked
<1>4. CASE D!Select
  <2>1. /\ rset' = D!Watched \cap D!Ready /\ spc' = (IF D!Listen \in rset' THEN "accept" ELSE "scan")
        /\ UNCHANGED <<conn, kid, given, msg, broken, child_status, navail, eof>>
    BY <1>4 DEF D!Select
  <2>2. D!TypeOK'
    <3>1. rset' \subseteq D!Children \cup {D!Listen}
      BY <2>1 DEF D!Watched
    <3> QED
      BY <1>0, <2>1, <3>1 DEF D!TypeOK
  <2>3. \A i \in rset' \cap D!Children : kid'[i] = "dead"
    BY <2>1, ChildrenFinite DEF D!Ready
  <2>4. spc' = "accept" => navail > 0
    BY <1>0, <2>1, ChildrenFinite DEF D!Watched, Marked
  <2>5. D!Free' = D!Free /\ spc' # "none"
    BY <2>1 DEF D!Free
  <2> QED
    BY <1>0, <2>1, <2>2, <2>3, <2>4, <2>5 DEF DInv, Marked
<1>5. ASSUME NEW c \in Conns, D!Accept(c) PROVE DInv'
  <2> DEFINE i == CHOOSE i \in D!Free : \A k \in D!Free : i <= k
  <2>1. D!Free # {}
    <3>1. navail > 0
      BY <1>0, <1>5 DEF D!Accept, Marked
    <3>2. CASE navail = Cardinality(D!Free)
      BY <3>1, <3>2, FS_EmptySet
    <3> QED
      BY <1>0, <3>2 DEF Marked
  <2>2. i \in D!Free
    <3>1. D!Free \subseteq Nat
      BY FreeFinite, ChildrenFinite
    <3> QED
      BY <2>1, <3>1, LeastOfNaturals
  <2>3. CASE D!Die("killed")
    BY <2>3, Dies
  <2>4. ASSUME /\ kid[i] # "dead"
               /\ child_status' = [child_status EXCEPT ![i] = 1]
               /\ navail' = navail - 1
               /\ given' = [given EXCEPT ![i] = @ \cup {c}]
               /\ conn' = [conn EXCEPT ![c] = "passed"]
               /\ rset' = rset \ {D!Listen}
               /\ D!AfterHandling
               /\ UNCHANGED <<kid, msg, broken, eof>>
        PROVE  DInv'
    <3> HIDE DEF i
    <3>1. i \in D!Children
      BY <2>2, FreeFinite
    <3>2. navail > 0 /\ navail \in -IntMax - 1 .. IntMax /\ navail \in Int
      BY <1>0, <1>5 DEF D!Accept, Marked, D!TypeOK
    <3>3. navail' \in -IntMax - 1 .. IntMax /\ navail' \in Int
      BY <2>4, <3>2, ChildrenFinite
    <3>4. spc' \in {"select", "scan"}
      BY <2>4 DEF D!AfterHandling
    <3>5. D!TypeOK'
      BY <1>0, <2>4, <3>1, <3>3, <3>4 DEF D!TypeOK
    <3>6. D!Free' = D!Free \ {i}
      BY <1>0, <2>4, <3>1 DEF D!Free, D!TypeOK
    <3>7. navail' = Cardinality(D!Free') \/ \E k \in D!Free' : kid'[k] = "dead"
      <4>1. CASE navail = Cardinality(D!Free)
        BY <2>2, <2>4, <3>6, <4>1, FreeFinite, FS_RemoveElement
      <4>2. CASE \E k \in D!Free : kid[k] = "dead"
        BY <2>4, <3>6, <4>2
      <4> QED
        BY <1>0, <4>1, <4>2 DEF Marked
    <3> QED
      BY <1>0, <2>4, <3>3, <3>4, <3>5, <3>7 DEF DInv, Marked
  <2> QED
    BY <1>5, <2>1, <2>3, <2>4 DEF D!Accept
<1>6. ASSUME NEW i \in D!Children, D!Read(i) PROVE DInv'
  <2>1. CASE D!Die("exit")
    BY <2>1, Dies
  <2>2. ASSUME /\ msg' = [msg EXCEPT ![i] = IF @ > 0 THEN @ - 1 ELSE 0]
               /\ eof' = IF msg[i] = 0 THEN eof \cup {i} ELSE eof
               /\ child_status' = [child_status EXCEPT ![i] = 0]
               /\ navail' = D!Increment(navail)
               /\ rset' = rset \ {i}
               /\ D!AfterHandling
               /\ UNCHANGED <<conn, kid, given, broken>>
        PROVE  DInv'
    <3>1. msg[i] \in 0 .. MsgLen /\ navail \in -IntMax - 1 .. IntMax
      BY <1>0 DEF D!TypeOK
    <3>2. (IF msg[i] > 0 THEN msg[i] - 1 ELSE 0) \in 0 .. MsgLen
      BY <3>1, ChildrenFinite
    <3>3. msg' \in [D!Children -> 0 .. MsgLen]
      BY <1>0, <2>2, <3>2 DEF D!TypeOK
    <3>4. navail' \in -IntMax - 1 .. IntMax /\ navail' \in Int
      BY <2>2, <3>1, ChildrenFinite DEF D!Increment
    <3>5. spc' \in {"select", "scan"}
      BY <2>2 DEF D!AfterHandling
    <3>6. eof' \subseteq D!Children /\ rset' \subseteq rset
      BY <1>0, <2>2 DEF D!TypeOK
    <3>7. D!TypeOK'
      BY <1>0, <2>2, <3>3, <3>4, <3>5, <3>6 DEF D!TypeOK
    <3>8. i \in D!Free' /\ kid'[i] = "dead"
      BY <1>0, <1>6, <2>2 DEF D!Read, D!Free, D!TypeOK, Marked
    <3> QED
      BY <1>0, <2>2, <3>4, <3>5, <3>6, <3>7, <3>8 DEF DInv, Marked
  <2> QED
    BY <1>6, <2>1, <2>2 DEF D!Read
<1>7. CASE D!AcceptFails \/ D!SigInt
  BY <1>7, Dies DEF D!AcceptFails, D!SigInt
<1>8. CASE UNCHANGED D!vars
  BY <1>0, <1>8 DEF D!vars, DInv, Marked, D!TypeOK, D!Free
<1> QED
  BY <1>1, <1>2, <1>3, <1>4, <1>5, <1>6, <1>7, <1>8 DEF D!Next, D!Parent

\* The parent of serv05 never stands with a connection and no child to give it
\* to, for any number of children and connections and although navail grows
\* with every byte of a dying child's message and overflows.
THEOREM ChildForConnection == D!Spec => []D!FreeChildAtAccept
<1>1. DInv => D!FreeChildAtAccept
  BY DEF DInv, Marked, D!FreeChildAtAccept
<1> QED
  BY <1>1, DInitInv, DStep, PTL DEF D!Spec

\* Every variable of serv05 keeps its type; navail stays an int.
THEOREM Serv05Types == D!Spec => []D!TypeOK
<1>1. DInv => D!TypeOK
  BY DEF DInv
<1> QED
  BY <1>1, DInitInv, DStep, PTL DEF D!Spec

-----------------------------------------------------------------------------
(* ThreadServer.                                                           *)

\* The reader of a line, alone: what the count, the pointer and the buffer hold
\* of the request of the one thread t that is alive, at each of its steps.
Fresh(t) == line[t] = "empty" /\ read_ptr = 0 /\ read_buf[0] = <<t, 1>>
Behind(t) == line[t] = "own" /\ left[t] = 0 /\ read_ptr \in {0, 1} /\ read_buf[read_ptr] = <<t, 2>>
Idle(t) == \/ line[t] = "empty" /\ left[t] \in {0, 2}
           \/ line[t] = "own" /\ left[t] = 1

Reading(t) ==
  /\ tpc[t] \in {"test", "read", "rewind", "dec", "fetch", "request"}
  /\ tpc[t] = "test" => \/ read_cnt = 0 /\ Idle(t)
                        \/ read_cnt = 1 /\ read_ptr = 1 /\ Behind(t)
  /\ tpc[t] = "read" => read_cnt = 0 /\ Idle(t)
  /\ tpc[t] = "rewind" =>
       /\ reg[t] = read_cnt /\ read_cnt \in {1, 2}
       /\ \/ /\ line[t] = "empty" /\ left[t] = 2 - read_cnt /\ read_buf[0] = <<t, 1>>
             /\ read_cnt = 2 => read_buf[1] = <<t, 2>>
          \/ line[t] = "own" /\ read_cnt = 1 /\ left[t] = 0 /\ read_buf[0] = <<t, 2>>
  /\ tpc[t] = "dec" =>
       /\ reg[t] = read_cnt /\ read_cnt \in {1, 2}
       /\ \/ /\ Fresh(t) /\ left[t] = 2 - read_cnt
             /\ read_cnt = 2 => read_buf[1] = <<t, 2>>
          \/ read_cnt = 1 /\ Behind(t)
  /\ tpc[t] = "fetch" =>
       /\ read_cnt \in {0, 1}
       /\ \/ /\ Fresh(t) /\ left[t] = 1 - read_cnt
             /\ read_cnt = 1 => read_buf[1] = <<t, 2>>
          \/ read_cnt = 0 /\ Behind(t)
  /\ tpc[t] = "request" => line[t] = "own" /\ left[t] = 0 /\ read_cnt = 0

\* While the connections come one after the other at most one thread is alive;
\* between two of them nothing is left in the buffer.
Alone ==
  ~overlap =>
    /\ server # "quit"
    /\ \A c \in Conns : reply[c] # "wrong"
    /\ server = "up" =>
         /\ \A t \in T!Threads : T!Alive(t) => t \in Conns /\ t # NoConn /\ Reading(t)
         /\ \A t, u \in T!Threads : T!Alive(t) /\ T!Alive(u) => t = u
         /\ (\A t \in T!Threads : ~T!Alive(t)) => read_cnt = 0
         /\ \A c \in Conns : tpc[c] = "none" =>
              line[c] = "empty" /\ (client[c] # "none" => left[c] = 2)
         /\ \A c \in Conns : client[c] = "none" => tpc[c] = "none"

TInv == T!TypeOK /\ Alone

\* T!TypeOK with its small intervals written out.
TTypes ==
  /\ client \in [Conns -> {"none", "asked", "closed"}]
  /\ left \in [Conns -> {0, 1, 2}]
  /\ reply \in [Conns -> {"none", "right", "wrong"}]
  /\ read_cnt \in {0, 1, 2, 3} /\ read_ptr \in {0, 1, 2}
  /\ read_buf \in [{0, 1} -> T!Chars]
  /\ tpc \in [T!Threads -> {"none", "test", "read", "rewind", "dec", "fetch", "request", "closed"}]
  /\ reg \in [T!Threads -> {0, 1, 2, 3}]
  /\ line \in [T!Threads -> {"empty", "own", "other"}]
  /\ overlap \in BOOLEAN
  /\ server \in {"up", "quit", "exit", "killed"}

LEMMA Lengths == T!ReqLen = 2 /\ T!Huge = 3 /\ 0 .. T!ReqLen - 1 = {0, 1} /\ 1 .. T!ReqLen = {1, 2}
<1>1. 0 .. 1 = {0, 1} /\ 1 .. 2 = {1, 2} /\ 2 - 1 = 1
  OBVIOUS
<1> QED
  BY <1>1 DEF T!ReqLen, T!Huge

LEMMA TTypeOK == T!TypeOK <=> TTypes
<1>1. 0 .. 2 = {0, 1, 2} /\ 0 .. 3 = {0, 1, 2, 3}
  OBVIOUS
<1> QED
  BY <1>1, Lengths DEF T!TypeOK, TTypes

LEMMA TInitInv == T!Init => TInv
<1> SUFFICES ASSUME T!Init PROVE TInv
  OBVIOUS
<1>1. T!TypeOK
  <2>1. read_buf \in [{0, 1} -> T!Chars]
    BY Lengths DEF T!Init, T!NUL, T!Chars
  <2> QED
    BY <2>1, TTypeOK DEF T!Init, TTypes
<1> USE DEF T!Init
<1>2. \A t \in T!Threads : ~T!Alive(t)
  BY DEF T!Alive
<1>3. Alone
  BY <1>2 DEF Alone, T!Threads
<1> QED
  BY <1>1, <1>3 DEF TInv

\* What read() stores: m of the bytes the thread has still to read.
Stored(t, m) ==
  /\ m \in {1, 2} /\ m <= left[t]
  /\ read_buf' = [k \in {0, 1} |-> IF k < m THEN <<t, 2 - left[t] + 1 + k>> ELSE read_buf[k]]
  /\ read_cnt' = m /\ reg' = [reg EXCEPT ![t] = m]
  /\ left' = [left EXCEPT ![t] = left[t] - m]

LEMMA Stores ==
  ASSUME TTypes, NEW t \in T!Threads, T!ReadSome(t)
  PROVE  t \in Conns /\ \E m \in {1, 2} : Stored(t, m)
<1>1. t \in Conns /\ left[t] \in {0, 1, 2}
  BY DEF T!ReadSome, TTypes
<1>2. PICK m \in 1 .. left[t] :
        /\ read_buf' = [k \in {0, 1} |-> IF k < m THEN <<t, 2 - left[t] + 1 + k>> ELSE read_buf[k]]
        /\ read_cnt' = m /\ reg' = [reg EXCEPT ![t] = m]
        /\ left' = [left EXCEPT ![t] = left[t] - m]
  BY Lengths DEF T!ReadSome, T!Load
<1>3. m \in {1, 2} /\ m <= left[t]
  BY <1>1, <1>2
<1> QED
  BY <1>1, <1>2, <1>3 DEF Stored

LEMMA TTypeStep == T!TypeOK /\ [T!Next]_(T!vars) => T!TypeOK'
<1> SUFFICES ASSUME TTypes, [T!Next]_(T!vars) PROVE TTypes'
  BY TTypeOK, PTL
<1> USE DEF TTypes, T!net, T!shared
<1>0. Conns \subseteq T!Threads /\ NoConn \in T!Threads
  BY DEF T!Threads
<1>1. ASSUME NEW c \in Conns, T!Ask(c) \/ T!CloseConn(c) PROVE TTypes'
  BY <1>1, Lengths DEF T!Ask, T!CloseConn
<1>2. ASSUME NEW t \in T!Threads, T!Start(t) PROVE TTypes'
  BY <1>2 DEF T!Start
<1>3. ASSUME NEW how \in {"quit", "exit", "killed"}, T!End(how) PROVE TTypes'
  <2>1. read_buf' \in [{0, 1} -> T!Chars]
    BY <1>3, Lengths DEF T!End, T!NUL, T!Chars
  <2>2. tpc' \in [T!Threads -> {"none", "closed"}]
    BY <1>3 DEF T!End
  <2>3. reg' \in [T!Threads -> {0}] /\ line' \in [T!Threads -> {"empty"}] /\ left' \in [Conns -> {0}]
        /\ read_cnt' = 0 /\ read_ptr' = 0 /\ server' = how /\ UNCHANGED <<client, reply, overlap>>
    BY <1>3 DEF T!End
  <2>4. /\ tpc' \in [T!Threads -> {"none", "test", "read", "rewind", "dec", "fetch", "request", "closed"}]
        /\ reg' \in [T!Threads -> {0, 1, 2, 3}] /\ line' \in [T!Threads -> {"empty", "own", "other"}]
        /\ left' \in [Conns -> {0, 1, 2}] /\ server' \in {"up", "quit", "exit", "killed"}
    BY <1>3, <2>2, <2>3
  <2> QED
    BY <2>1, <2>3, <2>4
<1>4. ASSUME NEW t \in T!Threads, T!Test(t) PROVE TTypes'
  BY <1>4 DEF T!Test, T!Load, T!Goto
<1>5. ASSUME NEW t \in T!Threads, T!ReadSome(t) PROVE TTypes'
  <2>1. t \in Conns /\ left[t] \in {0, 1, 2}
    BY <1>5, Stores
  <2>2. PICK m \in {1, 2} : Stored(t, m)
    BY <1>5, Stores
  <2>a. m <= left[t]
    BY <2>2 DEF Stored
  <2>3. left[t] - m \in {0, 1, 2}
    <3> HIDE DEF TTypes
    <3> QED
      BY <2>1, <2>2, <2>a
  <2>4. read_buf' \in [{0, 1} -> T!Chars]
    <3>1. ASSUME NEW k \in {0, 1}, k < m PROVE 2 - left[t] + 1 + k \in {1, 2}
      <4> HIDE DEF TTypes
      <4> QED
        BY <2>1, <2>2, <2>a, <3>1
    <3>2. \A k \in {0, 1} : k < m => <<t, 2 - left[t] + 1 + k>> \in T!Chars
      BY <2>1, <3>1, Lengths DEF T!Chars
    <3> QED
      BY <2>2, <3>2 DEF Stored
  <2>5. read_cnt' \in {1, 2} /\ reg' \in [T!Threads -> {0, 1, 2, 3}] /\ left' \in [Conns -> {0, 1, 2}]
    BY <2>1, <2>2, <2>3 DEF Stored
  <2>6. tpc' = [tpc EXCEPT ![t] = "rewind"] /\ UNCHANGED <<client, reply, read_ptr, line, overlap, server>>
    BY <1>5 DEF T!ReadSome, T!Goto
  <2> QED
    BY <2>4, <2>5, <2>6
<1>6. ASSUME NEW t \in T!Threads, T!ReadFails(t) \/ T!ReadEof(t) \/ T!Rewind(t) PROVE TTypes'
  <2>1. CASE T!ReadFails(t)
    BY <2>1, Lengths DEF T!ReadFails, T!Load, T!Goto
  <2>2. CASE T!ReadEof(t)
    BY <2>2 DEF T!ReadEof, T!Goto
  <2>3. CASE T!Rewind(t)
    BY <2>3 DEF T!Rewind, T!Rewound, T!Goto
  <2> QED
    BY <1>6, <2>1, <2>2, <2>3
<1>7. ASSUME NEW t \in T!Threads, T!Dec(t) PROVE TTypes'
  <2>1. read_cnt' \in {0, 1, 2, 3}
    <3>1. PICK m \in {0, 1, 2, 3} : read_cnt' = T!Less(m)
      BY <1>7 DEF T!Dec
    <3>2. read_cnt' = IF m = 0 THEN 3 ELSE m - 1
      BY <3>1, Lengths DEF T!Less
    <3> HIDE DEF TTypes
    <3> QED
      BY <3>1, <3>2
  <2>2. /\ tpc' = [tpc EXCEPT ![t] = "fetch"] /\ reg' = [reg EXCEPT ![t] = 0]
        /\ UNCHANGED <<client, left, reply, read_ptr, read_buf, line, overlap, server>>
    BY <1>7 DEF T!Dec, T!Load, T!Goto
  <2> QED
    BY <2>1, <2>2
<1>8. ASSUME NEW t \in T!Threads, T!Fetch(t) PROVE TTypes'
  <2>1. read_ptr' \in {0, 1, 2}
    <3>1. read_ptr' = (IF read_ptr < 2 THEN read_ptr + 1 ELSE 2) \/ read_ptr' = read_ptr
      BY <1>8, Lengths DEF T!Fetch
    <3>2. read_ptr \in {0, 1, 2}
      OBVIOUS
    <3> HIDE DEF TTypes
    <3> QED
      BY <3>1, <3>2
  <2>2. line' \in [T!Threads -> {"empty", "own", "other"}]
    BY <1>8 DEF T!Fetch
  <2>3. tpc' = [tpc EXCEPT ![t] = "request"] \/ tpc' = [tpc EXCEPT ![t] = "test"]
    BY <1>8 DEF T!Fetch, T!Goto
  <2>4. UNCHANGED <<client, left, reply, read_cnt, read_buf, reg, overlap, server>>
    BY <1>8 DEF T!Fetch
  <2> QED
    BY <2>1, <2>2, <2>3, <2>4
<1>9. ASSUME NEW t \in T!Threads, T!Answer(t) PROVE TTypes'
  BY <1>9 DEF T!Answer, T!Goto
<1>10. CASE UNCHANGED T!vars
  BY <1>10 DEF T!vars
<1>11. ASSUME NEW t \in T!Threads, T!Garbage(t) \/ T!Quit(t) \/ T!AnswerFails(t) PROVE TTypes'
  BY <1>3, <1>11 DEF T!Garbage, T!Quit, T!AnswerFails
<1>12. CASE T!Ends \/ T!AcceptFails \/ \E c \in Conns : T!Accept(c)
  BY <1>0, <1>2, <1>3, <1>12 DEF T!Ends, T!AcceptFails, T!Accept
<1> HIDE DEF TTypes
<1> QED
  BY <1>1, <1>4, <1>5, <1>6, <1>7, <1>8, <1>9, <1>10, <1>11, <1>12 DEF T!Next, T!Thread

LEMMA AloneStep == TInv /\ [T!Next]_(T!vars) => Alone'
<1> SUFFICES ASSUME TInv, [T!Next]_(T!vars), ~overlap' PROVE Alone'
  BY DEF Alone
<1> USE DEF T!net, T!shared, T!ReqLen, T!Huge
<1>0. /\ TTypes /\ ~overlap
      /\ T!Threads = Conns \cup {NoConn}
  <2>1. overlap => overlap'
    BY DEF TInv, T!TypeOK, T!Next, T!Thread, T!Ask, T!CloseConn, T!Accept, T!Start, T!AcceptFails,
           T!Ends, T!End, T!Test, T!ReadSome, T!ReadFails, T!ReadEof, T!Rewind, T!Dec, T!Garbage,
           T!Fetch, T!Quit, T!Answer, T!AnswerFails, T!vars
  <2> QED
    BY <2>1, TTypeOK DEF TInv, T!Threads
<1>1. server # "quit" /\ \A c \in Conns : reply[c] # "wrong"
  BY <1>0 DEF TInv, Alone
<1>2. ASSUME server = "up"
      PROVE  /\ \A t \in T!Threads : T!Alive(t) => t \in Conns /\ t # NoConn /\ Reading(t)
             /\ \A t, u \in T!Threads : T!Alive(t) /\ T!Alive(u) => t = u
             /\ (\A t \in T!Threads : ~T!Alive(t)) => read_cnt = 0
             /\ \A c \in Conns : tpc[c] = "none" =>
                  line[c] = "empty" /\ (client[c] # "none" => left[c] = 2)
             /\ \A c \in Conns : client[c] = "none" => tpc[c] = "none"
  BY <1>0, <1>2 DEF TInv, Alone
\* The steps of the clients.
<1>3. ASSUME NEW c \in Conns, T!Ask(c) PROVE Alone'
  <2>1. /\ server = "up" /\ client[c] = "none" /\ client' = [client EXCEPT ![c] = "asked"]
        /\ left' = [left EXCEPT ![c] = 2]
        /\ UNCHANGED <<reply, read_cnt, read_ptr, read_buf, tpc, reg, line, overlap, server>>
    BY <1>3 DEF T!Ask
  <2>2. tpc[c] = "none" /\ ~T!Alive(c)
    BY <1>2, <2>1 DEF T!Alive
  <2>3. \A t \in T!Threads : T!Alive(t)' <=> T!Alive(t)
    BY <2>1 DEF T!Alive
  <2>4. ASSUME NEW t \in T!Threads, T!Alive(t) PROVE Reading(t)'
    <3>1. t \in Conns /\ t # c /\ Reading(t)
      BY <1>2, <2>1, <2>2, <2>4
    <3>2. left'[t] = left[t]
      BY <1>0, <2>1, <3>1 DEF TTypes
    <3> QED
      BY <2>1, <3>1, <3>2 DEF Reading, Fresh, Behind, Idle
  <2>5. \A d \in Conns : tpc'[d] = "none" => line'[d] = "empty" /\ (client'[d] # "none" => left'[d] = 2)
    BY <1>0, <1>2, <2>1 DEF TTypes
  <2>6. \A d \in Conns : client'[d] = "none" => tpc'[d] = "none"
    BY <1>0, <1>2, <2>1 DEF TTypes
  <2> QED
    BY <1>1, <1>2, <2>1, <2>3, <2>4, <2>5, <2>6 DEF Alone
<1>4. ASSUME NEW c \in Conns, T!CloseConn(c) PROVE Alone'
  <2>1. /\ client[c] = "asked" /\ client' = [client EXCEPT ![c] = "closed"]
        /\ UNCHANGED <<left, reply, read_cnt, read_ptr, read_buf, tpc, reg, line, overlap, server>>
    BY <1>4 DEF T!CloseConn
  <2>2. \A t \in T!Threads : (T!Alive(t)' <=> T!Alive(t)) /\ (Reading(t)' <=> Reading(t))
    BY <2>1 DEF T!Alive, Reading, Fresh, Behind, Idle
  <2>3. \A d \in Conns : client'[d] = "none" <=> client[d] = "none"
    BY <1>0, <2>1 DEF TTypes
  <2> QED
    BY <1>1, <1>2, <2>1, <2>2, <2>3 DEF Alone
\* A thread starts only when none is alive.
<1>5. ASSUME NEW c \in Conns, T!Accept(c) PROVE Alone'
  <2>1. /\ server = "up" /\ client[c] # "none" /\ tpc[c] = "none" /\ tpc' = [tpc EXCEPT ![c] = "test"]
        /\ c # NoConn /\ \A u \in T!Threads : ~T!Alive(u)
        /\ UNCHANGED <<client, left, reply, read_cnt, read_ptr, read_buf, reg, line, server>>
    BY <1>5 DEF T!Accept, T!Start
  <2>2. read_cnt = 0 /\ line[c] = "empty" /\ left[c] = 2
    BY <1>2, <2>1
  <2>3. \A t \in T!Threads : T!Alive(t)' <=> t = c
    BY <1>0, <2>1 DEF T!Alive, TTypes
  <2>4. Reading(c)'
    <3>1. tpc'[c] = "test"
      BY <1>0, <2>1 DEF TTypes
    <3> QED
      BY <2>1, <2>2, <3>1 DEF Reading, Idle
  <2>5. \A d \in Conns : /\ tpc'[d] = "none" => tpc[d] = "none"
                         /\ client[d] = "none" => tpc'[d] = "none"
    BY <1>0, <1>2, <2>1 DEF TTypes
  <2>6. ~(\A t \in T!Threads : ~T!Alive(t)')
    BY <1>0, <2>3
  <2> QED
    BY <1>0, <1>1, <1>2, <2>1, <2>3, <2>4, <2>5, <2>6 DEF Alone
<1>6. CASE T!AcceptFails
  BY <1>6 DEF T!AcceptFails, T!Start
<1>7. ASSUME NEW how \in {"exit", "killed"}, T!End(how) PROVE Alone'
  BY <1>1, <1>7 DEF T!End, Alone
\* A step of the thread that is alive: it is the only one, and what it leaves
\* alone holds of the others.
<1>8. ASSUME NEW t \in T!Threads, T!Alive(t), server = "up",
             UNCHANGED <<client, server>>,
             \A d \in Conns : reply'[d] # "wrong",
             \A d \in T!Threads \ {t} : tpc'[d] = tpc[d] /\ line'[d] = line[d],
             \A d \in Conns \ {t} : left'[d] = left[d],
             \/ Reading(t)'
             \/ tpc'[t] = "closed" /\ read_cnt' = 0
      PROVE  Alone'
  <2>1. t \in Conns /\ t # NoConn /\ \A u \in T!Threads : T!Alive(u) => u = t
    BY <1>2, <1>8
  <2>2. \A u \in T!Threads : T!Alive(u)' => u = t
    BY <1>8, <2>1 DEF T!Alive
  <2>3. tpc[t] # "none" /\ tpc'[t] # "none"
    BY <1>8 DEF T!Alive, Reading
  <2>4. T!Alive(t)' <=> Reading(t)'
    BY <1>8 DEF T!Alive, Reading
  <2>5. Conns \subseteq T!Threads /\ client[t] # "none"
    BY <1>0, <1>2, <1>8, <2>1, <2>3
  <2>6. (\A u \in T!Threads : ~T!Alive(u)') => read_cnt' = 0
    BY <1>8, <2>4
  <2> QED
    BY <1>2, <1>8, <2>1, <2>2, <2>3, <2>4, <2>5, <2>6 DEF Alone
<1>9. ASSUME NEW t \in T!Threads, T!Thread(t) PROVE Alone'
  <2>1. server = "up" /\ T!Alive(t)
    BY <1>9 DEF T!Thread, T!Test, T!ReadSome, T!ReadFails, T!ReadEof, T!Rewind, T!Dec, T!Garbage,
                T!Fetch, T!Quit, T!Answer, T!AnswerFails, T!At, T!Alive
  <2>2. t \in Conns /\ t # NoConn /\ Reading(t) /\ \A u \in T!Threads : T!Alive(u) => u = t
    BY <1>2, <2>1
  <2>3. \A u \in T!Threads \ {t} : ~T!At(u, "fetch")
    BY <2>2 DEF T!At, T!Alive
  <2>4. CASE T!Test(t)
    <3>1. /\ tpc[t] = "test" /\ reg' = [reg EXCEPT ![t] = read_cnt]
          /\ tpc' = [tpc EXCEPT ![t] = IF read_cnt = 0 THEN "read" ELSE "dec"]
          /\ UNCHANGED <<client, left, reply, read_cnt, read_ptr, read_buf, line, server>>
      BY <2>4 DEF T!Test, T!At, T!Load, T!Goto
    <3>2. reg'[t] = read_cnt /\ tpc'[t] = (IF read_cnt = 0 THEN "read" ELSE "dec")
          /\ \A d \in T!Threads \ {t} : tpc'[d] = tpc[d]
      BY <1>0, <3>1 DEF TTypes
    <3>3. Reading(t)'
      BY <2>2, <3>1, <3>2 DEF Reading, Fresh, Behind, Idle
    <3> QED
      BY <1>1, <1>8, <2>1, <3>1, <3>2, <3>3
  <2>5. CASE T!ReadSome(t)
    <3>1. tpc[t] = "read" /\ tpc' = [tpc EXCEPT ![t] = "rewind"]
          /\ UNCHANGED <<client, reply, read_ptr, line, server>>
      BY <2>5 DEF T!ReadSome, T!At, T!Goto
    <3>2. PICK m \in {1, 2} : Stored(t, m)
      BY <1>0, <2>5, Stores
    <3>3. /\ Idle(t) /\ left[t] \in {1, 2} /\ m <= left[t]
          /\ read_buf' = [k \in {0, 1} |-> IF k < m THEN <<t, 2 - left[t] + 1 + k>> ELSE read_buf[k]]
          /\ read_cnt' = m /\ reg' = [reg EXCEPT ![t] = m]
          /\ left' = [left EXCEPT ![t] = left[t] - m]
      <4>1. Idle(t)
        BY <2>2, <3>1 DEF Reading
      <4>2. left[t] \in {0, 1, 2}
        BY <4>1 DEF Idle
      <4> QED
        BY <3>2, <4>1, <4>2 DEF Stored
    <3>4. /\ tpc'[t] = "rewind" /\ reg'[t] = m /\ left'[t] = left[t] - m
          /\ read_buf'[0] = <<t, 2 - left[t] + 1>>
          /\ m = 2 => read_buf'[1] = <<t, 2 - left[t] + 2>>
          /\ \A d \in T!Threads \ {t} : tpc'[d] = tpc[d]
          /\ \A d \in Conns \ {t} : left'[d] = left[d]
      BY <1>0, <2>2, <3>1, <3>2, <3>3 DEF TTypes
    <3>5. Reading(t)'
      <4>1. CASE left[t] = 2
        BY <3>1, <3>2, <3>3, <3>4, <4>1 DEF Reading, Idle
      <4>2. CASE left[t] = 1
        BY <3>1, <3>2, <3>3, <3>4, <4>2 DEF Reading, Idle
      <4> QED
        BY <3>3, <4>1, <4>2
    <3> QED
      BY <1>1, <1>8, <2>1, <3>1, <3>4, <3>5
  <2>6. CASE T!ReadFails(t)
    BY <2>2, <2>6 DEF T!ReadFails
  <2>7. CASE T!ReadEof(t)
    <3>1. /\ tpc[t] = "read" /\ left[t] = 0 /\ read_cnt' = 0
          /\ tpc' = [tpc EXCEPT ![t] = IF line[t] = "empty" THEN "closed" ELSE "request"]
          /\ UNCHANGED <<client, left, reply, line, server>>
      BY <2>7 DEF T!ReadEof, T!At, T!Goto
    <3>2. line[t] = "empty"
      BY <2>2, <3>1 DEF Reading, Idle
    <3>3. tpc'[t] = "closed" /\ \A d \in T!Threads \ {t} : tpc'[d] = tpc[d]
      BY <1>0, <3>1, <3>2 DEF TTypes
    <3> QED
      BY <1>1, <1>8, <2>1, <3>1, <3>3
  <2>8. CASE T!Rewind(t)
    <3>1. /\ tpc[t] = "rewind" /\ read_ptr' = 0 /\ tpc' = [tpc EXCEPT ![t] = "dec"]
          /\ UNCHANGED <<client, left, reply, read_cnt, read_buf, reg, line, server>>
      BY <2>8 DEF T!Rewind, T!Rewound, T!At, T!Goto
    <3>2. tpc'[t] = "dec" /\ \A d \in T!Threads \ {t} : tpc'[d] = tpc[d]
      BY <1>0, <3>1 DEF TTypes
    <3>3. Reading(t)'
      BY <2>2, <3>1, <3>2 DEF Reading, Fresh, Behind
    <3> QED
      BY <1>1, <1>8, <2>1, <3>1, <3>2, <3>3
  <2>9. CASE T!Dec(t)
    <3>1. /\ tpc[t] = "dec" /\ (\E m \in {reg[t], read_cnt} : read_cnt' = T!Less(m))
          /\ tpc' = [tpc EXCEPT ![t] = "fetch"]
          /\ UNCHANGED <<client, left, reply, read_ptr, read_buf, line, server>>
      BY <2>9 DEF T!Dec, T!At, T!Goto
    <3>2. tpc'[t] = "fetch" /\ \A d \in T!Threads \ {t} : tpc'[d] = tpc[d]
      BY <1>0, <3>1 DEF TTypes
    <3>3. reg[t] = read_cnt /\ read_cnt \in {1, 2} /\ read_cnt' = read_cnt - 1
      BY <2>2, <3>1 DEF Reading, T!Less
    <3>4. Reading(t)'
      BY <2>2, <3>1, <3>2, <3>3 DEF Reading, Fresh, Behind
    <3> QED
      BY <1>1, <1>8, <2>1, <3>1, <3>2, <3>4
  <2>10. CASE T!Fetch(t)
    <3>1. /\ tpc[t] = "fetch" /\ UNCHANGED <<client, left, reply, read_cnt, read_buf, server>>
          /\ read_ptr' = (IF read_ptr < 2 THEN read_ptr + 1 ELSE 2)
      BY <2>3, <2>10 DEF T!Fetch, T!At
    <3>2. CASE Fresh(t)
      <4>1. read_buf[0] = <<t, 1>> /\ read_ptr = 0 /\ line[t] = "empty"
        BY <3>2 DEF Fresh
      <4>2. ~T!NewLine(<<t, 1>>) /\ <<t, 1>>[1] = t /\ <<t, 1>> # T!NUL
        BY DEF T!NewLine, T!NUL
      <4>3. line' = [line EXCEPT ![t] = "own"] /\ tpc' = [tpc EXCEPT ![t] = "test"]
        BY <2>10, <4>1, <4>2 DEF T!Fetch, T!Goto
      <4>4. /\ tpc'[t] = "test" /\ line'[t] = "own"
            /\ \A d \in T!Threads \ {t} : tpc'[d] = tpc[d] /\ line'[d] = line[d]
        BY <1>0, <4>3 DEF TTypes
      <4>5. read_ptr' = 1
        BY <3>1, <4>1
      <4>6. Reading(t)'
        BY <2>2, <3>1, <4>1, <4>4, <4>5 DEF Reading, Fresh, Behind, Idle
      <4> QED
        BY <1>1, <1>8, <2>1, <3>1, <4>4, <4>6
    <3>3. CASE Behind(t) /\ read_cnt = 0
      <4>1. read_ptr \in {0, 1} /\ read_buf[read_ptr] = <<t, 2>> /\ read_ptr < 2
        BY <3>3 DEF Behind
      <4>2. T!NewLine(<<t, 2>>)
        BY DEF T!NewLine
      <4>3. line' = line /\ tpc' = [tpc EXCEPT ![t] = "request"]
        BY <2>10, <4>1, <4>2 DEF T!Fetch, T!Goto
      <4>4. /\ tpc'[t] = "request" /\ \A d \in T!Threads \ {t} : tpc'[d] = tpc[d]
        BY <1>0, <4>3 DEF TTypes
      <4>5. Reading(t)'
        BY <3>1, <3>3, <4>3, <4>4 DEF Reading, Behind
      <4> QED
        BY <1>1, <1>8, <2>1, <3>1, <4>3, <4>4, <4>5
    <3> QED
      BY <2>2, <3>1, <3>2, <3>3 DEF Reading
  <2>11. CASE T!Garbage(t)
    <3>1. read_cnt = 3
      BY <2>11 DEF T!Garbage
    <3>2. read_cnt \in {0, 1, 2}
      BY <2>2 DEF Reading
    <3> QED
      BY <3>1, <3>2
  <2>12. CASE T!Quit(t)
    BY <2>2, <2>12 DEF T!Quit, T!At, Reading
  <2>13. CASE T!Answer(t)
    <3>1. /\ tpc[t] = "request" /\ line' = [line EXCEPT ![t] = "empty"] /\ tpc' = [tpc EXCEPT ![t] = "test"]
          /\ reply' = [reply EXCEPT ![t] = IF line[t] = "own" THEN "right" ELSE "wrong"]
          /\ UNCHANGED <<client, left, read_cnt, read_ptr, read_buf, reg, server>>
      BY <2>13 DEF T!Answer, T!At, T!Goto
    <3>2. line[t] = "own" /\ left[t] = 0 /\ read_cnt = 0
      BY <2>2, <3>1 DEF Reading
    <3>3. /\ tpc'[t] = "test" /\ line'[t] = "empty"
          /\ \A d \in T!Threads \ {t} : tpc'[d] = tpc[d] /\ line'[d] = line[d]
      BY <1>0, <3>1 DEF TTypes
    <3>4. \A d \in Conns : reply'[d] # "wrong"
      BY <1>0, <1>1, <3>1, <3>2 DEF TTypes
    <3>5. Reading(t)'
      BY <3>1, <3>2, <3>3 DEF Reading, Idle
    <3> QED
      BY <1>8, <2>1, <3>1, <3>3, <3>4, <3>5
  <2>14. CASE T!AnswerFails(t)
    BY <1>7, <2>14 DEF T!AnswerFails
  <2> QED
    BY <1>9, <2>4, <2>5, <2>6, <2>7, <2>8, <2>9, <2>10, <2>11, <2>12, <2>13, <2>14 DEF T!Thread
<1>10. CASE UNCHANGED T!vars
  <2>1. UNCHANGED <<client, left, reply, read_cnt, read_ptr, read_buf, tpc, reg, line, overlap, server>>
    BY <1>10 DEF T!vars
  <2>2. \A t \in T!Threads : (T!Alive(t)' <=> T!Alive(t)) /\ (Reading(t)' <=> Reading(t))
    BY <2>1 DEF T!Alive, Reading, Fresh, Behind, Idle
  <2> QED
    BY <1>1, <1>2, <2>1, <2>2 DEF Alone
<1> QED
  BY <1>3, <1>4, <1>5, <1>6, <1>7, <1>9, <1>10 DEF T!Next, T!Ends

\* The threads of serv06 share one line buffer without a lock: for any number of
\* clients, as long as the connections come one after the other each gets its own
\* answer and the server does not quit, whatever the buffer was left with.
THEOREM ServedAlone == T!Spec => []T!AloneIsServed
<1>1. TInv => T!AloneIsServed
  BY DEF TInv, Alone, T!AloneIsServed
<1>2. TInv /\ [T!Next]_(T!vars) => TInv'
  BY TTypeStep, AloneStep DEF TInv
<1> QED
  BY <1>1, <1>2, TInitInv, PTL DEF T!Spec

\* Every variable of serv06 keeps its type, the shared ones of Readline included.
THEOREM ThreadTypes == T!Spec => []T!TypeOK
<1>1. TInv => T!TypeOK
  BY DEF TInv
<1>2. TInv /\ [T!Next]_(T!vars) => TInv'
  BY TTypeStep, AloneStep DEF TInv
<1> QED
  BY <1>1, <1>2, TInitInv, PTL DEF T!Spec
=============================================================================
