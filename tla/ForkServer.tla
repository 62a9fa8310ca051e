----------------------------- MODULE ForkServer -----------------------------
(***************************************************************************)
(* The servers that fork a child for every connection: server/serv01,      *)
(* StringEcho1 to 3, unixdomain/strserver01, oob/heartbeat_serv and        *)
(* tcpudp/ServerSelect.  The parent accepts, forks and closes its copy of  *)
(* the connected socket; SIGCHLD interrupts it anywhere and the handler    *)
(* waits for terminated children.  A signal that is pending already is not *)
(* queued again.                                                           *)
(***************************************************************************)
EXTENDS ProcessParams

CONSTANT Conns  \* the connections, each with the child that will serve it

\* What tells the programs apart: how the handler waits, whether the parent
\* calls str_echo itself before it forks, whether it serves UDP as well.
serv01         == [reap |-> "wait",    echo |-> FALSE, udp |-> FALSE]
StringEcho1    == [reap |-> "wait",    echo |-> TRUE,  udp |-> FALSE]
StringEcho2    == [reap |-> "waitpid", echo |-> TRUE,  udp |-> FALSE]
StringEcho3    == [reap |-> "waitpid", echo |-> TRUE,  udp |-> FALSE]
strserver01    == [reap |-> "waitpid", echo |-> FALSE, udp |-> FALSE]
heartbeat_serv == [reap |-> "waitpid", echo |-> FALSE, udp |-> FALSE]
ServerSelect   == [reap |-> "waitpid", echo |-> FALSE, udp |-> TRUE]

Programs == {serv01, StringEcho1, StringEcho2, StringEcho3, strserver01,
             heartbeat_serv, ServerSelect}

VARIABLES
  program,
  pc,         \* the parent: "select", "accept", "echo", "fork", "close",
              \* "udp", "handler" or "exit"
  resume,     \* where the handler returns to
  ready,      \* what select reported (ServerSelect)
  parentFds,  \* connected sockets the parent has open
  child,      \* per connection: "none", "serving", "zombie" or "reaped"
  childFds,   \* connected sockets each child has open
  pending,    \* SIGCHLD is pending
  net,        \* per connection: "new", "queued", "up" or "aborted"
  end,        \* what the client did: "no", "fin" or "rst"
  datagrams,  \* in the receive queue of the UDP socket
  sent        \* datagrams sent so far

parent  == <<pc, resume, ready, parentFds>>
kids    == <<child, childFds>>
clients == <<net, end>>
udp     == <<datagrams, sent>>
vars    == <<program, parent, kids, pending, clients, udp>>

Start(p) == IF p.udp THEN "select" ELSE "accept"

TypeOK ==
  /\ program \in Programs
  /\ pc \in {"select", "accept", "echo", "fork", "close", "udp", "handler", "exit"}
  /\ resume \in {"select", "accept", "echo", "fork", "close", "udp"}
  /\ ready \subseteq {"tcp", "udp"}
  /\ parentFds \subseteq Conns
  /\ child \in [Conns -> {"none", "serving", "zombie", "reaped"}]
  /\ childFds \in [Conns -> SUBSET Conns]
  /\ pending \in BOOLEAN
  /\ net \in [Conns -> {"new", "queued", "up", "aborted"}]
  /\ end \in [Conns -> {"no", "fin", "rst"}]
  /\ sent \in 0 .. MaxDatagrams /\ datagrams \in 0 .. sent

Init ==
  /\ program \in Programs
  /\ pc = Start(program) /\ resume = Start(program)
  /\ ready = {} /\ parentFds = {}
  /\ child = [c \in Conns |-> "none"] /\ childFds = [c \in Conns |-> {}]
  /\ pending = FALSE
  /\ net = [c \in Conns |-> "new"] /\ end = [c \in Conns |-> "no"]
  /\ datagrams = 0 /\ sent = 0

----------------------------------------------------------------------------
(* The clients.                                                            *)

Request(c) ==
  /\ net[c] = "new"
  /\ net' = [net EXCEPT ![c] = "queued"]
  /\ UNCHANGED <<program, parent, kids, pending, end, udp>>

\* The client closes its half, or its connection is reset.
End(c) ==
  /\ net[c] \in {"queued", "up"} /\ end[c] = "no"
  /\ \E e \in {"fin", "rst"} : end' = [end EXCEPT ![c] = e]
  /\ UNCHANGED <<program, parent, kids, pending, net, udp>>

\* A reset connection may leave the queue before it is accepted.
Drop(c) ==
  /\ net[c] = "queued" /\ end[c] = "rst"
  /\ net' = [net EXCEPT ![c] = "aborted"]
  /\ UNCHANGED <<program, parent, kids, pending, end, udp>>

Datagram ==
  /\ program.udp /\ sent < MaxDatagrams
  /\ sent' = sent + 1 /\ datagrams' = datagrams + 1
  /\ UNCHANGED <<program, parent, kids, pending, clients>>

----------------------------------------------------------------------------
(* The parent.                                                             *)

Goto(l) == pc' = l /\ UNCHANGED resume

\* The loop of ServerSelect starts over with select.
Select ==
  /\ pc = "select"
  /\ ready' = (IF \E c \in Conns : net[c] = "queued" THEN {"tcp"} ELSE {})
              \cup (IF datagrams > 0 THEN {"udp"} ELSE {})
  /\ ready' # {}
  /\ Goto(IF "tcp" \in ready' THEN "accept" ELSE "udp")
  /\ UNCHANGED <<program, parentFds, kids, pending, clients, udp>>

\* accept blocks while the queue is empty.
Accept(c) ==
  /\ pc = "accept" /\ net[c] = "queued"
  /\ net' = [net EXCEPT ![c] = "up"]
  /\ parentFds' = parentFds \cup {c}
  /\ Goto(IF program.echo THEN "echo" ELSE "fork")
  /\ UNCHANGED <<program, ready, kids, pending, end, udp>>

\* accept fails with anything but EINTR (or ECONNABORTED in Accept), fork
\* fails, or read fails in the str_echo the parent calls: err_sys.
Fails ==
  /\ \/ pc \in {"accept", "fork"}
     \/ pc = "echo" /\ \E c \in parentFds : end[c] = "rst"
  /\ Goto("exit")
  /\ UNCHANGED <<program, ready, parentFds, kids, pending, clients, udp>>

\* serv01 alone catches SIGINT.
SigInt ==
  /\ program = serv01 /\ pc # "exit"
  /\ Goto("exit")
  /\ UNCHANGED <<program, ready, parentFds, kids, pending, clients, udp>>

\* The connection in hand is the one accepted last, which has no child yet.
InHand(c) == c \in parentFds /\ child[c] = "none"

EchoInParent(c) ==
  /\ pc = "echo" /\ InHand(c) /\ end[c] = "fin"
  /\ Goto("fork")
  /\ UNCHANGED <<program, ready, parentFds, kids, pending, clients, udp>>

\* The child has what the parent has open, but for the listening socket.
Fork(c) ==
  /\ pc = "fork" /\ InHand(c)
  /\ child' = [child EXCEPT ![c] = "serving"]
  /\ childFds' = [childFds EXCEPT ![c] = parentFds]
  /\ Goto("close")
  /\ UNCHANGED <<program, ready, parentFds, pending, clients, udp>>

KeptAfterFork_All == parentFds
KeptAfterFork == {}

CloseConn ==
  /\ pc = "close"
  /\ parentFds' = KeptAfterFork
  /\ Goto(IF "udp" \in ready THEN "udp" ELSE Start(program))
  /\ UNCHANGED <<program, ready, kids, pending, clients, udp>>

AnswerDatagram ==
  /\ pc = "udp" /\ datagrams > 0
  /\ datagrams' = datagrams - 1
  /\ Goto("select")
  /\ UNCHANGED <<program, ready, parentFds, kids, pending, clients, sent>>

----------------------------------------------------------------------------
(* The children, the signal and its handler.                               *)

\* str_echo or web_child is done: end of file, or an error that ends the
\* child.  Its descriptors are closed and the parent gets SIGCHLD.
ChildExit(c) ==
  /\ child[c] = "serving" /\ end[c] # "no"
  /\ child' = [child EXCEPT ![c] = "zombie"]
  /\ childFds' = [childFds EXCEPT ![c] = {}]
  /\ pending' = TRUE
  /\ UNCHANGED <<program, parent, clients, udp>>

Zombies == {c \in Conns : child[c] = "zombie"}
Serving == {c \in Conns : child[c] = "serving"}

\* SIGCHLD is blocked while its handler runs.  accept, recvfrom and read are
\* restarted (SA_RESTART, or the test for EINTR), and so is the loop around
\* select: the interrupted call begins again.
SigChld ==
  /\ pending /\ pc \notin {"handler", "exit"}
  /\ pending' = FALSE
  /\ resume' = pc /\ pc' = "handler"
  /\ UNCHANGED <<program, ready, parentFds, kids, clients, udp>>

\* wait() takes one terminated child and blocks if there are only running
\* ones; waitpid(WNOHANG) is called until no terminated child is left.
ReapAgain_Never == FALSE
ReapAgain == program.reap = "waitpid"

Reap(c) ==
  /\ pc = "handler" /\ child[c] = "zombie"
  /\ child' = [child EXCEPT ![c] = "reaped"]
  /\ IF ReapAgain THEN UNCHANGED pc ELSE pc' = resume
  /\ UNCHANGED <<program, resume, ready, parentFds, childFds, pending, clients, udp>>

NothingToReap ==
  /\ pc = "handler" /\ Zombies = {}
  /\ program.reap = "waitpid" \/ Serving = {}
  /\ pc' = resume
  /\ UNCHANGED <<program, resume, ready, parentFds, kids, pending, clients, udp>>

Parent == \/ Select \/ Fails \/ CloseConn \/ AnswerDatagram
          \/ SigChld \/ NothingToReap
          \/ \E c \in Conns : Accept(c) \/ EchoInParent(c) \/ Fork(c) \/ Reap(c)

Next == \/ Parent \/ SigInt \/ Datagram
        \/ \E c \in Conns : Request(c) \/ End(c) \/ Drop(c) \/ ChildExit(c)

Spec == Init /\ [][Next]_vars

\* The parent and the children run, and a connected client sooner or later
\* ends its input.
Fairness == /\ WF_vars(Parent)
            /\ \A c \in Conns : WF_vars(ChildExit(c)) /\ WF_vars(End(c))

----------------------------------------------------------------------------
(* Properties.                                                             *)

\* The handler that loops over waitpid leaves no zombie behind although
\* SIGCHLD is not queued: whenever one is left the handler will run or runs.
\* The handler that calls wait once may leave one, but it never blocks the
\* parent: each time it runs there is a child to collect.
NoZombieForgotten ==
  pc # "exit" =>
    /\ program.reap = "waitpid" /\ Zombies # {} => pending \/ pc = "handler"
    /\ program.reap = "wait" /\ pc = "handler" => Zombies # {}

\* A connected socket is open in its own child only, and in the parent only
\* until it has forked: when the child ends, the connection is closed.
OnlyOwnConnection ==
  /\ \A c \in Conns : childFds[c] \subseteq {c}
  /\ pc \in {"select", "accept"} => parentFds = {}

\* In the end every connection that was requested has been served to its end
\* and every datagram answered, unless the parent ended or a reset connection
\* left the queue (a parent that was told by select to accept then sleeps in
\* accept).
Settled ==
  \/ /\ \A c \in Conns : net[c] = "new" \/ child[c] \in {"zombie", "reaped"}
     /\ datagrams = 0
  \/ pc = "exit"
  \/ \E c \in Conns : net[c] = "aborted"
EveryConnectionServed == <>[]Settled
=============================================================================
