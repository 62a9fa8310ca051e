------------------------------- MODULE Serv05 -------------------------------
(***************************************************************************)
(* server/serv05/main.cpp and server/child05.cpp: the parent accepts and   *)
(* passes each descriptor, through a pipe of its own, to a child it has    *)
(* forked before.  Dup2 makes that pipe the child's standard error; then   *)
(* child_make closes the parent's end twice, and the second Close ends the *)
(* child with a message, which goes into the pipe.  child_main is never    *)
(* reached.  What the parent makes of this is the question here.  The      *)
(* counts that are only printed are left out.                              *)
(***************************************************************************)
EXTENDS ProcessParams

CONSTANT Conns  \* connections that clients may ask for

Children == 1 .. nchildren
Listen == 0     \* listenfd, as a member of rset

VARIABLES
  conn,         \* each connection: "none", "queued", "passed" or "dropped"
  kid,          \* each child: "none", "starting" or "dead"
  given,        \* the descriptors in its pipe
  msg,          \* bytes of its message the parent has not read
  broken,       \* it ended with descriptors unread: ECONNRESET behind the message
  child_status, \* 0 is ready
  navail,
  rset,         \* what select reported and the loop has not handled
  eof,          \* history: children whose end was read
  spc           \* "make", "select", "accept", "scan"; "none" (no available
                \* children), "exit" or "killed"

pipes == <<kid, given, msg, broken>>
books == <<child_status, navail>>
vars == <<conn, pipes, books, rset, eof, spc>>

Over == {"none", "exit", "killed"}

TypeOK ==
  /\ conn \in [Conns -> {"none", "queued", "passed", "dropped"}]
  /\ kid \in [Children -> {"none", "starting", "dead"}]
  /\ given \in [Children -> SUBSET Conns]
  /\ msg \in [Children -> 0 .. MsgLen]
  /\ broken \subseteq Children
  /\ child_status \in [Children -> {0, 1}]
  /\ navail \in -IntMax - 1 .. IntMax
  /\ rset \subseteq Children \cup {Listen}
  /\ eof \subseteq Children
  /\ spc \in Over \cup {"make", "select", "accept", "scan"}

Init ==
  /\ conn = [c \in Conns |-> "none"]
  /\ kid = [i \in Children |-> "none"]
  /\ given = [i \in Children |-> {}]
  /\ msg = [i \in Children |-> 0]
  /\ broken = {}
  /\ child_status = [i \in Children |-> 0]
  /\ navail = nchildren
  /\ rset = {} /\ eof = {}
  /\ spc = "make"

----------------------------------------------------------------------------
(* The clients and the children.                                           *)

Request(c) ==
  /\ conn[c] = "none" /\ spc \notin Over
  /\ conn' = [conn EXCEPT ![c] = "queued"]
  /\ UNCHANGED <<pipes, books, rset, eof, spc>>

\* Connections whose last descriptor is closed.
Drop(cs) == conn' = [c \in Conns |-> IF c \in cs THEN "dropped" ELSE conn[c]]
Pending == {c \in Conns : conn[c] \in {"queued", "passed"}}

\* Close(sockfd[0]) the second time.
ChildDies(i) ==
  /\ kid[i] = "starting"
  /\ kid' = [kid EXCEPT ![i] = "dead"]
  /\ msg' = [msg EXCEPT ![i] = MsgLen]
  /\ broken' = IF given[i] # {} THEN broken \cup {i} ELSE broken
  /\ given' = [given EXCEPT ![i] = {}]
  /\ Drop(given[i])
  /\ UNCHANGED <<books, rset, eof, spc>>

----------------------------------------------------------------------------
(* The parent.                                                             *)

Made == {i \in Children : kid[i] # "none"}

Make(i) ==
  /\ spc = "make" /\ i \notin Made /\ \A j \in Children : j < i => j \in Made
  /\ kid' = [kid EXCEPT ![i] = "starting"]
  /\ spc' = IF i = nchildren THEN "select" ELSE "make"
  /\ UNCHANGED <<conn, given, msg, broken, books, rset, eof>>

\* A pipe is readable when it holds a message or its child is gone.
Watched_Always == Children \cup {Listen}
Watched == Children \cup (IF navail <= 0 THEN {} ELSE {Listen})
Ready == {i \in Children : kid[i] = "dead"}
           \cup (IF \E c \in Conns : conn[c] = "queued" THEN {Listen} ELSE {})

Select ==
  /\ spc = "select"
  /\ rset' = Watched \cap Ready /\ rset' # {}
  /\ spc' = IF Listen \in rset' THEN "accept" ELSE "scan"
  /\ UNCHANGED <<conn, pipes, books, eof>>

\* nsel counts what rset still holds.
AfterHandling == spc' = IF rset' = {} THEN "select" ELSE "scan"

Free == {i \in Children : child_status[i] = 0}

\* The end of the process drops everything.
Die(how) == spc' = how /\ Drop(Pending) /\ UNCHANGED <<pipes, books, rset, eof>>

\* Write_fd to a child that is gone raises SIGPIPE.
Accept(c) ==
  /\ spc = "accept" /\ conn[c] = "queued"
  /\ LET i == CHOOSE i \in Free : \A j \in Free : i <= j
     IN IF Free = {} THEN Die("none")
        ELSE IF kid[i] = "dead" THEN Die("killed")
        ELSE /\ child_status' = [child_status EXCEPT ![i] = 1]
             /\ navail' = navail - 1
             /\ given' = [given EXCEPT ![i] = @ \cup {c}]
             /\ conn' = [conn EXCEPT ![c] = "passed"]
             /\ rset' = rset \ {Listen}
             /\ AfterHandling
             /\ UNCHANGED <<kid, msg, broken, eof>>

AcceptFails == spc = "accept" /\ Die("exit")

\* `(n = Read(...)) = 0` is never true: a byte of the message and the end of
\* the pipe alike make the child ready.  navail grows with each of them.
Increment(n) == IF n = IntMax THEN -IntMax - 1 ELSE n + 1

Read(i) ==
  /\ spc = "scan" /\ i \in rset /\ \A j \in rset : i <= j
  /\ IF i \in broken /\ msg[i] = 0 THEN Die("exit")
     ELSE /\ msg' = [msg EXCEPT ![i] = IF @ > 0 THEN @ - 1 ELSE 0]
          /\ eof' = IF msg[i] = 0 THEN eof \cup {i} ELSE eof
          /\ child_status' = [child_status EXCEPT ![i] = 0]
          /\ navail' = Increment(navail)
          /\ rset' = rset \ {i}
          /\ AfterHandling
          /\ UNCHANGED <<conn, kid, given, broken>>

\* SIGINT: the children are ended and waited for.
SigInt == spc \notin Over \cup {"make"} /\ Die("exit")

----------------------------------------------------------------------------
Parent == \/ \E i \in Children : Make(i) \/ Read(i)
          \/ Select \/ \E c \in Conns : Accept(c)

Next == Parent \/ AcceptFails \/ SigInt
        \/ \E i \in Children : ChildDies(i)
        \/ \E c \in Conns : Request(c)

Spec == Init /\ [][Next]_vars

\* The processes run.
FairSpec == Spec /\ WF_vars(Parent) /\ \A i \in Children : WF_vars(ChildDies(i))

----------------------------------------------------------------------------
(* Properties.                                                             *)

\* The parent never finds itself with a connection and no child to give it
\* to, although navail drifts away from the number of children that are ready
\* and in the end overflows.
FreeChildAtAccept == spc # "none"

\* `err_quit("child %d terminated unexpectedly", i)`: a parent that has read
\* the end of a child's pipe has ended.
ChildEndNoticed == eof # {} => spc \in Over

\* No connection is ever served: each is dropped, and takes the parent with
\* it, by SIGPIPE or by the error its child left in the pipe.
Settled == \A c \in Conns : conn[c] # "none" => conn[c] = "dropped" /\ spc \in Over
=============================================================================
