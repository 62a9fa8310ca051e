---------------------------- MODULE EventServer ----------------------------
(***************************************************************************)
(* The two echo servers that serve every client from one process:          *)
(* StringEcho4_shutdown/Server/main.cpp (select) and                       *)
(* StringEcho5_poll/Server/main.cpp (poll).  Both keep a table of          *)
(* descriptors, learn from one call which of them are readable, accept at  *)
(* most one client and then scan the table, counting nready down.  They    *)
(* differ in the size of the table, in what the scan tests and in what a   *)
(* slot that was never polled says; `program` is the one that runs.        *)
(***************************************************************************)
EXTENDS Integers, FiniteSets

CONSTANTS
  Conns,      \* the clients
  Bytes,      \* how many bytes each of them sends
  PollSlots,  \* slots of client[FOPEN_MAX] behind the one of the listener
  Window,     \* echoed bytes a client may leave unread
  MaxResets   \* bound: connections that are reset

ASSUME EventAssumption ==
  /\ IsFiniteSet(Conns)
  /\ Bytes \in [Conns -> Nat]
  /\ PollSlots \in Nat \ {0} /\ Window \in Nat \ {0} /\ MaxResets \in Nat

Fds == 1 .. Cardinality(Conns)     \* connected descriptors; 0 is listenfd
NoFd == -1

\* The select server has FD_SETSIZE slots, more than the process may have
\* descriptors: its table does not fill up before accept() fails.  Slots are
\* numbered from 1 in both programs.
Slots == 1 .. Cardinality(Conns)
SlotsOf(p) == IF p = "poll" THEN {s \in Slots : s <= PollSlots} ELSE Slots

VARIABLES
  program,    \* "select" or "poll"
  pc,         \* "wait", "accept", "scan", "write" or "exit"
  client,     \* the table: a descriptor or NoFd per slot
  allset, maxfd,            \* select only
  maxi,       \* highest slot in use, 0 for none
  rset,       \* what the last call reported: descriptors (select) or
              \* slots (poll), the listener as 0
  polled,     \* maxi at the last call
  nready,
  j,          \* the slot the scan looks at
  n,          \* bytes in buf still to be written
  \* the connections
  net,        \* "new", "queued", "open" or "closed"
  fd, fin, rst,
  sent,       \* bytes the client has sent
  inbuf,      \* of those, not yet read by the server
  out,        \* echoed bytes the client has not read
  echoed      \* history: bytes echoed

table  == <<client, allset, maxfd, maxi>>
report == <<rset, polled>>
conns  == <<net, fd, fin, rst, sent, inbuf, out, echoed>>
vars   == <<program, pc, table, report, nready, j, n, conns>>

TypeOK ==
  /\ program \in {"select", "poll"}
  /\ pc \in {"wait", "accept", "scan", "write", "exit"}
  /\ client \in [Slots -> Fds \cup {NoFd}]
  /\ allset \subseteq Fds /\ maxfd \in Fds \cup {0}
  /\ maxi \in Slots \cup {0}
  /\ rset \subseteq Slots \cup {0}
  /\ polled \in Slots \cup {0}
  /\ nready \in 0 .. Cardinality(Conns) + 1
  /\ j \in 1 .. Cardinality(Conns) + 1
  /\ n \in Nat
  /\ net \in [Conns -> {"new", "queued", "open", "closed"}]
  /\ fd \in [Conns -> Fds \cup {NoFd}]
  /\ fin \in [Conns -> BOOLEAN] /\ rst \in [Conns -> BOOLEAN]
  /\ {sent, inbuf, out, echoed} \subseteq [Conns -> Nat]
  /\ \A c \in Conns : /\ sent[c] \in 0 .. Bytes[c]
                      /\ inbuf[c] \in 0 .. sent[c]
                      /\ out[c] \in 0 .. Window
                      /\ echoed[c] \in 0 .. sent[c]

\* client[] of the poll server is not initialised but for fd: revents of a
\* slot that no poll() has covered yet holds anything.
Init ==
  /\ program \in {"select", "poll"}
  /\ pc = "wait"
  /\ client = [s \in Slots |-> NoFd]
  /\ allset = {} /\ maxfd = 0
  /\ maxi = 0
  /\ rset \in IF program = "poll" THEN SUBSET SlotsOf("poll") ELSE {{}}
  /\ polled = 0 /\ nready = 0
  /\ j = 1 /\ n = 0
  /\ net = [c \in Conns |-> "new"]
  /\ fd = [c \in Conns |-> NoFd]
  /\ fin = [c \in Conns |-> FALSE] /\ rst = [c \in Conns |-> FALSE]
  /\ sent = [c \in Conns |-> 0] /\ inbuf = [c \in Conns |-> 0]
  /\ out = [c \in Conns |-> 0] /\ echoed = [c \in Conns |-> 0]

----------------------------------------------------------------------------
(* The clients and the kernel.                                             *)

\* Once the server has ended nothing that a client does is of interest.
Request(c) ==
  /\ net[c] = "new" /\ pc # "exit"
  /\ net' = [net EXCEPT ![c] = "queued"]
  /\ UNCHANGED <<program, pc, table, report, nready, j, n,
                 fd, fin, rst, sent, inbuf, out, echoed>>

Alive(c) == pc # "exit" /\ net[c] \in {"queued", "open"} /\ ~rst[c]

Say(c) ==
  /\ Alive(c) /\ ~fin[c] /\ sent[c] < Bytes[c]
  /\ sent' = [sent EXCEPT ![c] = @ + 1]
  /\ inbuf' = [inbuf EXCEPT ![c] = @ + 1]
  /\ UNCHANGED <<program, pc, table, report, nready, j, n,
                 net, fd, fin, rst, out, echoed>>

End(c) ==
  /\ Alive(c) /\ ~fin[c]
  /\ fin' = [fin EXCEPT ![c] = TRUE]
  /\ UNCHANGED <<program, pc, table, report, nready, j, n,
                 net, fd, rst, sent, inbuf, out, echoed>>

ReadEcho(c) ==
  /\ out[c] > 0 /\ pc # "exit"
  /\ out' = [out EXCEPT ![c] = 0]
  /\ UNCHANGED <<program, pc, table, report, nready, j, n,
                 net, fd, fin, rst, sent, inbuf, echoed>>

\* A connection that is reset before accept() stays in the queue or leaves it
\* (then accept() blocks, or fails with ECONNABORTED and is called again).
Abort(c) ==
  /\ Alive(c) /\ Cardinality({d \in Conns : rst[d]}) < MaxResets
  /\ rst' = [rst EXCEPT ![c] = TRUE]
  /\ \/ UNCHANGED net
     \/ /\ net[c] = "queued"
        /\ net' = [net EXCEPT ![c] = "closed"]
  /\ UNCHANGED <<program, pc, table, report, nready, j, n,
                 fd, fin, sent, inbuf, out, echoed>>

Queue == {c \in Conns : net[c] = "queued"}
Owner(f) == CHOOSE c \in Conns : net[c] = "open" /\ fd[c] = f
ReadReady(f) == \E c \in Conns :
  /\ net[c] = "open" /\ fd[c] = f
  /\ inbuf[c] > 0 \/ fin[c] \/ rst[c]

----------------------------------------------------------------------------
(* The server.                                                             *)

InTable == {s \in Slots : client[s] # NoFd}

\* What select(maxfd+1) or poll(client, maxi+1) reports of the connections.
Reportable ==
  IF program = "select"
  THEN {f \in allset : f <= maxfd /\ ReadReady(f)}
  ELSE {s \in InTable : s <= maxi /\ ReadReady(client[s])}

Listening == IF Queue = {} THEN {} ELSE {0}

\* poll() writes revents of the slots it is given; the others keep theirs.
Unpolled == IF program = "poll" THEN {s \in rset : s > maxi} ELSE {}

Poll ==
  /\ pc = "wait"
  /\ Listening \cup Reportable # {}
  /\ rset' = Listening \cup Reportable \cup Unpolled
  /\ nready' = Cardinality(Listening \cup Reportable)
  /\ polled' = maxi
  /\ j' = 1
  /\ pc' = IF Queue # {} THEN "accept" ELSE "scan"
  /\ UNCHANGED <<program, table, n, conns>>

Min(S) == CHOOSE x \in S : \A y \in S : x <= y

FreeSlots == {s \in SlotsOf(program) : client[s] = NoFd}
NewFd == Min(Fds \ {fd[c] : c \in {d \in Conns : net[d] = "open"}})

AfterAccept_Forgotten == nready
AfterAccept == nready - 1

NewMaxi_Same(s) == maxi
NewMaxi(s) == IF s > maxi THEN s ELSE maxi

Accept(c) ==
  /\ pc = "accept" /\ net[c] = "queued"
  /\ net' = [net EXCEPT ![c] = "open"]
  /\ fd' = [fd EXCEPT ![c] = NewFd]
  /\ IF FreeSlots = {}
     THEN /\ pc' = "exit"                        \* too many clients
          /\ UNCHANGED <<table, nready>>
     ELSE LET s == Min(FreeSlots)
          IN /\ client' = [client EXCEPT ![s] = NewFd]
             /\ maxi' = NewMaxi(s)
             /\ IF program = "select"
                THEN /\ allset' = allset \cup {NewFd}
                     /\ maxfd' = IF NewFd > maxfd THEN NewFd ELSE maxfd
                ELSE UNCHANGED <<allset, maxfd>>
             /\ nready' = AfterAccept
             /\ pc' = IF AfterAccept <= 0 THEN "wait" ELSE "scan"
  /\ UNCHANGED <<program, report, j, n, fin, rst, sent, inbuf, out, echoed>>

\* accept() fails, for want of descriptors or memory: err_sys.
AcceptFails ==
  /\ pc = "accept"
  /\ pc' = "exit"
  /\ UNCHANGED <<program, table, report, nready, j, n, conns>>

Reported(s) ==
  /\ client[s] # NoFd
  /\ (IF program = "select" THEN client[s] ELSE s) \in rset

Skip ==
  /\ pc = "scan" /\ j <= maxi /\ ~Reported(j)
  /\ j' = j + 1
  /\ UNCHANGED <<program, pc, table, report, nready, n, conns>>

\* --nready, and on to the next slot or back to the call.  (The loop's own end,
\* j > maxi, is never reached: nready is zero before, see ScanServesReported.)
NextSlot ==
  /\ nready' = nready - 1
  /\ j' = j + 1
  /\ pc' = IF nready - 1 <= 0 THEN "wait" ELSE "scan"

Hit == pc = "scan" /\ j <= maxi /\ Reported(j)

Unlisted_Kept(f) == allset
Unlisted(f) == allset \ {f}

Close ==
  /\ Hit
  /\ LET c == Owner(client[j])
     IN /\ ~rst[c] /\ inbuf[c] = 0 /\ fin[c]
        /\ net' = [net EXCEPT ![c] = "closed"]
        /\ fd' = [fd EXCEPT ![c] = NoFd]
  /\ allset' = Unlisted(client[j])
  /\ client' = [client EXCEPT ![j] = NoFd]
  /\ NextSlot
  /\ UNCHANGED <<program, maxfd, maxi, report, n, fin, rst, sent, inbuf, out, echoed>>

\* read() blocks while there is nothing to read; it takes what there is.
Read ==
  /\ Hit
  /\ LET c == Owner(client[j])
     IN /\ ~rst[c] /\ inbuf[c] > 0
        /\ n' = inbuf[c]
        /\ inbuf' = [inbuf EXCEPT ![c] = 0]
  /\ pc' = "write"
  /\ UNCHANGED <<program, table, report, nready, j, net, fd, fin, rst, sent, out, echoed>>

\* read() fails with ECONNRESET.  Read() of the select server ends the
\* program.  In the poll server n is a size_t: n < 0 is never true, the
\* branch for ECONNRESET is never taken, and Writen of (size_t)-1 bytes fails
\* and ends the program too.
ReadFails ==
  /\ Hit /\ rst[Owner(client[j])]
  /\ pc' = "exit"
  /\ UNCHANGED <<program, table, report, nready, j, n, conns>>

\* Writen blocks until the client makes room.
Smaller(a, b) == IF a < b THEN a ELSE b

Left_Same(k) == n
Left_Once(k) == 0
Left(k) == n - k

Writen ==
  /\ pc = "write"
  /\ LET c == Owner(client[j])
         k == Smaller(n, Window - out[c])
     IN /\ ~rst[c] /\ k > 0
        /\ out' = [out EXCEPT ![c] = @ + k]
        /\ echoed' = [echoed EXCEPT ![c] = @ + k]
        /\ n' = Left(k)
        /\ IF Left(k) = 0 THEN NextSlot ELSE UNCHANGED <<nready, j, pc>>
  /\ UNCHANGED <<program, table, report, net, fd, fin, rst, sent, inbuf>>

WritenFails ==
  /\ pc = "write" /\ rst[Owner(client[j])]
  /\ pc' = "exit"
  /\ UNCHANGED <<program, table, report, nready, j, n, conns>>

Server == \/ Poll \/ Skip \/ Close \/ Read \/ ReadFails \/ Writen \/ WritenFails
          \/ \E c \in Conns : Accept(c)

Client(c) == Request(c) \/ Say(c) \/ End(c) \/ ReadEcho(c) \/ Abort(c)
Next == Server \/ AcceptFails \/ \E c \in Conns : Client(c)

Spec == Init /\ [][Next]_vars

\* The server runs (that accept() fails is not owed); a client that is connected reads what it is sent and
\* sooner or later ends its input.  Nothing obliges a client to connect, to
\* send or to reset.
FairSpec == /\ Spec
            /\ WF_vars(Server)
            /\ \A c \in Conns : WF_vars(ReadEcho(c)) /\ WF_vars(End(c))

----------------------------------------------------------------------------
(* Properties.                                                             *)

\* The table, the descriptor set and maxfd describe the open connections:
\* every open connection has one slot the scan reaches, and the call is asked
\* about it, whatever was accepted into a freed slot and closed in between.
TableMatchesConnections ==
  pc # "exit" =>
    /\ \A c \in Conns : net[c] = "open" =>
         Cardinality({s \in 1 .. maxi : client[s] = fd[c]}) = 1
    /\ InTable \subseteq 1 .. maxi
    /\ {client[s] : s \in InTable} = {fd[c] : c \in {d \in Conns : net[d] = "open"}}
    /\ program = "select" =>
         /\ allset = {client[s] : s \in InTable}
         /\ \A f \in allset : f <= maxfd

\* A slot filled after the last poll(): its revents were never set.
FreshSlot(s) == program = "poll" /\ s > polled

\* nready counts the slots of the report that the scan has not passed, so that
\* leaving the scan at zero leaves no client out; the scan is left before it
\* comes to a slot whose revents were never set; and the server reads only
\* where a read cannot block.
ScanServesReported ==
  /\ pc = "scan" =>
       nready > 0 /\ nready = Cardinality({s \in j .. maxi : Reported(s) /\ ~FreshSlot(s)})
  /\ Hit => ~FreshSlot(j) /\ ReadReady(client[j])

\* Echoed bytes are the bytes sent, less those on their way: none is lost,
\* none goes to another client, in either program.
EchoAccounts ==
  pc # "exit" =>
    \A c \in Conns : net[c] = "open" \/ (net[c] = "closed" /\ ~rst[c]) =>
      echoed[c] = sent[c] - inbuf[c]
                  - (IF pc = "write" /\ client[j] = fd[c] THEN n ELSE 0)

\* Every client that connects gets all its bytes back and its connection
\* closed, whatever the others do: a quiet client, one that does not read, one
\* that is reset before it is accepted.  The exceptions are the server's end
\* (accept() failed, no slot is left, or a read or write met a reset) and a
\* server asleep in accept() because the connection it was called for is gone:
\* then the clients it has wait for the next one to come.
StuckInAccept == pc = "accept" /\ Queue = {} /\ \E c \in Conns : net[c] = "closed" /\ rst[c]

Settled ==
  \/ pc = "exit" \/ StuckInAccept
  \/ \A c \in Conns : net[c] \in {"queued", "open", "closed"} =>
       net[c] = "closed" /\ (rst[c] \/ echoed[c] = sent[c])
EveryClientServed == <>[]Settled
=============================================================================
