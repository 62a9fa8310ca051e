-------------------------------- MODULE Icmpd --------------------------------
(***************************************************************************)
(* icmpd/main.cpp: the daemon that reads ICMP errors from a raw socket and *)
(* passes them to the processes whose datagrams caused them, and ss(), the *)
(* client that hands it a UDP socket over the daemon's Unix domain socket. *)
(*                                                                         *)
(* The loop that should mark every slot of client[] free (main, line 237)  *)
(* assigns to copies: the table, a global, keeps descriptor 0 in all of    *)
(* them.  So no client is ever registered; readable_conn and the forwarding *)
(* of an error are not reached.  What is left to go wrong is the loop that *)
(* serves two descriptors from one select, and how a refused client ends.  *)
(***************************************************************************)
EXTENDS IcmpdParams, Integers, Sequences

Slots == 0 .. FD_SETSIZE - 1

\* An ICMP message: too short for its header or for the datagram it quotes, an
\* error about a UDP datagram, or anything else.
Messages == {"short", "udp", "other"}

VARIABLES
  client,     \* client[i].connfd
  maxi, nready, rset,
  dpc,        \* daemon: "select", "listen", "accepted", "v4", "conns" or "dead"
  connfd,     \* the users whose connection was just accepted: none or one
  icmp,       \* messages in fd4
  arrived,    \* how many have arrived
  last,       \* the message read last
  upc,        \* user: "connect", "write", "read", "refused", "sigpipe" or "reset"
  sock        \* a user's connection: "none", "queued", "open" or "closed"

daemon == <<client, maxi, nready, rset, dpc, connfd, last>>
vars == <<daemon, icmp, arrived, upc, sock>>

TypeOK ==
  /\ client \in [Slots -> Nat \cup {-1}] /\ maxi \in Slots \cup {-1}
  /\ nready \in 0 .. 2 /\ rset \subseteq {"listenfd", "fd4"}
  /\ dpc \in {"select", "listen", "accepted", "v4", "conns", "dead"}
  /\ connfd \subseteq Users
  /\ icmp \in Seq(Messages) /\ arrived \in 0 .. MaxIcmp
  /\ last \in Messages \cup {"none"}
  /\ upc \in [Users -> {"connect", "write", "read", "refused", "sigpipe", "reset"}]
  /\ sock \in [Users -> {"none", "queued", "open", "closed"}]

\* `for (auto element : client) element.connfd = -1` leaves the table alone.
InitialTable == [s \in Slots |-> 0]

Init ==
  /\ client = InitialTable /\ maxi = -1
  /\ nready = 0 /\ rset = {} /\ dpc = "select" /\ connfd = {}
  /\ icmp = <<>> /\ arrived = 0 /\ last = "none"
  /\ upc = [u \in Users |-> "connect"] /\ sock = [u \in Users |-> "none"]
-----------------------------------------------------------------------------
(* The users: Connect, Write_fd and the Read of the answer in ss().        *)

Goes(u, p, s) ==
  /\ upc' = [upc EXCEPT ![u] = p] /\ sock' = [sock EXCEPT ![u] = s]
  /\ UNCHANGED <<daemon, icmp, arrived>>

Connect(u) ==
  /\ upc[u] = "connect"
  /\ IF dpc = "dead" THEN Goes(u, "refused", "none") ELSE Goes(u, "write", "queued")

\* A write to a connection that is closed raises SIGPIPE.
Write_fd(u) ==
  /\ upc[u] = "write"
  /\ Goes(u, IF sock[u] = "closed" THEN "sigpipe" ELSE "read", sock[u])

\* Nobody answers.  The connection was closed with the "1" and the descriptor
\* unread, so that Read fails with ECONNRESET: the test of n is not reached.
Read(u) ==
  /\ upc[u] = "read" /\ sock[u] = "closed"
  /\ Goes(u, "reset", "closed")
-----------------------------------------------------------------------------
(* The network.                                                            *)
Arrive ==
  /\ arrived < MaxIcmp /\ dpc # "dead"
  /\ arrived' = arrived + 1
  /\ \E m \in Messages : icmp' = Append(icmp, m)
  /\ UNCHANGED <<daemon, upc, sock>>
-----------------------------------------------------------------------------
(* The daemon.                                                             *)

Queued == {u \in Users : sock[u] = "queued"}
Ready == (IF Queued = {} THEN {} ELSE {"listenfd"}) \cup (IF icmp = <<>> THEN {} ELSE {"fd4"})

\* Where main() goes next with what select reported: readable_listen() or
\* readable_v4() returns nready, and the rest of the round is left at zero.
AfterListen(left) == IF left <= 0 THEN "select" ELSE IF "fd4" \in rset THEN "v4" ELSE "conns"
AfterV4(left) == IF left <= 0 THEN "select" ELSE "conns"

Select ==
  /\ dpc = "select" /\ Ready # {}
  /\ rset' = Ready /\ nready' = Cardinality(Ready)
  /\ dpc' = IF "listenfd" \in Ready THEN "listen" ELSE "v4"
  /\ UNCHANGED <<client, maxi, connfd, last, icmp, arrived, upc, sock>>

Accept ==
  /\ dpc = "listen"
  /\ \E u \in Queued : connfd' = {u} /\ sock' = [sock EXCEPT ![u] = "open"]
  /\ dpc' = "accepted"
  /\ UNCHANGED <<client, maxi, nready, rset, last, icmp, arrived, upc>>

\* Mutant: a client that finds the table full is left open.
Refused_Open(u) == sock
Refused(u) == [sock EXCEPT ![u] = "closed"]

\* The rest of readable_listen(): the table is full, the client is closed.
TooMany ==
  /\ dpc = "accepted" /\ \A s \in Slots : client[s] >= 0
  /\ \E u \in connfd : sock' = Refused(u)
  /\ connfd' = {}
  /\ nready' = nready - 1 /\ dpc' = AfterListen(nready - 1)
  /\ UNCHANGED <<client, maxi, rset, last, icmp, arrived, upc>>

\* readable_v4(): a short message ends the daemon, and with it every
\* connection; an error is looked up in client[0 .. maxi - 1], which is empty.
readable_v4 ==
  /\ dpc = "v4"
  /\ last' = Head(icmp) /\ icmp' = Tail(icmp)
  /\ IF Head(icmp) = "short"
     THEN /\ dpc' = "dead"
          /\ sock' = [u \in Users |-> IF sock[u] = "none" THEN "none" ELSE "closed"]
          /\ UNCHANGED nready
     ELSE /\ nready' = nready - 1 /\ dpc' = AfterV4(nready - 1)
          /\ UNCHANGED sock
  /\ UNCHANGED <<client, maxi, rset, connfd, arrived, upc>>
-----------------------------------------------------------------------------
Daemon == Select \/ Accept \/ TooMany \/ readable_v4
User(u) == Connect(u) \/ Write_fd(u) \/ Read(u)
Next == Daemon \/ Arrive \/ \E u \in Users : User(u)

Spec == Init /\ [][Next]_vars

\* The processes run; the network owes nothing.
FairSpec == Spec /\ WF_vars(Daemon) /\ \A u \in Users : WF_vars(User(u))
-----------------------------------------------------------------------------
\* The daemon counts down exactly what select reported: it never reads fd4 when
\* nothing is there (recvfrom would block all its clients), never falls through
\* to the connections with a count left, and although it refuses every client
\* it keeps none of their descriptors; only a short message ends it.
NothingKept ==
  /\ dpc \in {"v4", "listen"} => nready > 0
  /\ dpc = "v4" => nready = 1 /\ icmp # <<>>
  /\ dpc # "conns"
  /\ dpc \in {"select", "v4"} => \A u \in Users : sock[u] # "open"
  /\ dpc = "dead" => last = "short"

\* Every client of the daemon learns that it is refused; none waits for good.
Settled == \A u \in Users : upc[u] \in {"refused", "sigpipe", "reset"}
=============================================================================
