-------------------------- MODULE MCProcessServers --------------------------
(***************************************************************************)
(* The servers with a process or thread per connection, PreforkServer,     *)
(* ForkServer, Serv05 and ThreadServer, asked the same question: is every  *)
(* connection served, and what does the end of a worker leave behind?  One *)
(* of them runs; the others stay in their initial states.  The threads of  *)
(* ThreadServer have two callers, at most two threads being alive at once. *)
(***************************************************************************)
EXTENDS PreforkServer, ProcessParams

CONSTANTS Callers, NoConn

VARIABLES
  runs,       \* "fork", "prefork", "serv05" or "threads"
  \* ForkServer
  fprogram, fpc, resume, ready, parentFds, child, childFds, pending,
  fnet, fend, datagrams, sent,
  \* Serv05
  conn, kid, given, msg, broken, child_status, navail, rset, eof, spc,
  \* ThreadServer
  client, left, reply, read_cnt, read_ptr, read_buf, tpc, reg, line, overlap, server

F == INSTANCE ForkServer WITH program <- fprogram, pc <- fpc, net <- fnet, end <- fend
D == INSTANCE Serv05
T == INSTANCE ThreadServer WITH Conns <- Callers, MaxThreads <- 2

fvars == <<fprogram, fpc, resume, ready, parentFds, child, childFds, pending,
           fnet, fend, datagrams, sent>>
dvars == <<conn, kid, given, msg, broken, child_status, navail, rset, eof, spc>>
tvars == <<client, left, reply, read_cnt, read_ptr, read_buf, tpc, reg, line, overlap, server>>
allvars == <<runs, vars, fvars, dvars, tvars>>

AnyInit ==
  /\ runs \in {"fork", "prefork", "serv05", "threads"}
  /\ Init /\ F!Init /\ D!Init /\ T!Init
  /\ runs # "prefork" => program = serv02
  /\ runs # "fork" => fprogram = F!serv01

Fork(A) == runs = "fork" /\ A /\ UNCHANGED <<runs, vars, dvars, tvars>>
Prefork(A) == runs = "prefork" /\ A /\ UNCHANGED <<runs, fvars, dvars, tvars>>
Pass(A) == runs = "serv05" /\ A /\ UNCHANGED <<runs, vars, fvars, tvars>>
Threaded(A) == runs = "threads" /\ A /\ UNCHANGED <<runs, vars, fvars, dvars>>
AnyNext == Fork(F!Next) \/ Prefork(Next) \/ Pass(D!Next) \/ Threaded(T!Next)

\* The fairness of each module, for the one that runs: at most one disjunct of
\* each action under WF belongs to it.
AnySpec ==
  /\ AnyInit /\ [][AnyNext]_allvars
  /\ WF_allvars(Fork(F!Parent) \/ Prefork(Spawn) \/ Pass(D!Parent)) /\ WF_allvars(Prefork(WaitForAll))
  /\ \A c \in Conns : /\ WF_allvars(Fork(F!ChildExit(c)))
                      /\ WF_allvars(Fork(F!End(c)) \/ Prefork(End(c)))
  /\ \A w \in Workers : /\ WF_allvars(Prefork(Worker(w)) \/ Pass(D!ChildDies(w + 1)))
                        /\ WF_allvars(Prefork(Killed(w)))
  /\ \A c \in Callers : /\ WF_allvars(Threaded(T!Accept(c)))
                        /\ WF_allvars(Threaded(T!CloseConn(c)))
  /\ \A t \in Callers \cup {NoConn} : WF_allvars(Threaded(T!Thread(t)))

\* The modules' type invariants.
AllTypeOK == TypeOK /\ F!TypeOK /\ D!TypeOK /\ T!TypeOK

\* ForkServer's NoZombieForgotten and OnlyOwnConnection.
NoZombieForgotten == F!NoZombieForgotten
OnlyOwnConnection == F!OnlyOwnConnection

\* Serv05's FreeChildAtAccept: a connection is accepted only when some child is
\* marked ready, however navail drifts.
FreeChildAtAccept == D!FreeChildAtAccept

\* Serv05's ChildEndNoticed: the end of a child's pipe ends the parent.
ChildEndNoticed == D!ChildEndNoticed

\* ThreadServer's AloneIsServed: callers that come one after the other get
\* their own answers.
AloneIsServed == T!AloneIsServed

\* ThreadServer's QuitsOverBadRequest: good requests do not end the server.
QuitsOverBadRequest == T!QuitsOverBadRequest

\* Whichever server runs, in the end every connection that was requested is
\* served or excused in the sense of its module.
EveryRequestSettled == <>[](Settled /\ F!Settled /\ D!Settled /\ T!Settled)
=============================================================================
