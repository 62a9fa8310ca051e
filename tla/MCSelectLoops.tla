--------------------------- MODULE MCSelectLoops ----------------------------
(***************************************************************************)
(* The programs that wait for everything they do in one select or poll:    *)
(* EventServer (many clients), WebClient (many servers) and Icmpd (clients *)
(* and a raw socket).  One of them runs; the others stay in their initial  *)
(* states.                                                                 *)
(***************************************************************************)
EXTENDS EventServer, WebParams, IcmpdParams

\* Three clients for two slots of the poll server; one sends more than the
\* window holds, so that Writen blocks.
CONSTANTS c1, c2, c3
MCBytes == [c \in Conns |-> IF c = c1 THEN 2 ELSE IF c = c2 THEN 1 ELSE 0]

VARIABLES
  runs,       \* "server", "web" or "icmpd"
  f_flags, f_fd, wrset, wset, wmaxfd, rs, ws, nconn, nlefttoconn, nlefttoread,
  i, wpc, open, wnet, gets,
  icli, imaxi, inready, irset, dpc, connfd, icmp, arrived, last, upc, sock

W == INSTANCE WebClient WITH rset <- wrset, maxfd <- wmaxfd, pc <- wpc, net <- wnet
I == INSTANCE Icmpd WITH client <- icli, maxi <- imaxi, nready <- inready, rset <- irset

wvars == <<f_flags, f_fd, wrset, wset, wmaxfd, rs, ws, nconn, nlefttoconn, nlefttoread,
           i, wpc, open, wnet, gets>>
ivars == <<icli, imaxi, inready, irset, dpc, connfd, icmp, arrived, last, upc, sock>>
allvars == <<runs, vars, wvars, ivars>>

AnyInit ==
  /\ runs \in {"server", "web", "icmpd"}
  /\ Init /\ W!Init /\ I!Init
  /\ runs # "server" => program = "select"

Serve(A) == runs = "server" /\ A /\ UNCHANGED <<runs, wvars, ivars>>
Web(A) == runs = "web" /\ A /\ UNCHANGED <<runs, vars, ivars>>
Daemon(A) == runs = "icmpd" /\ A /\ UNCHANGED <<runs, vars, wvars>>
AnyNext == Serve(Next) \/ Web(W!Next) \/ Daemon(I!Next)

\* The fairness of the three modules, for the one that runs.  A client or a
\* server of theirs takes each of these steps a bounded number of times, so the
\* fairness of the whole group is that of each member.
AnySpec ==
  /\ AnyInit /\ [][AnyNext]_allvars
  /\ WF_allvars(Serve(Server) \/ Web(W!ClientStep) \/ Daemon(I!Daemon))
  /\ WF_allvars(\/ Serve(\E c \in Conns : ReadEcho(c) \/ End(c))
                \/ Web(\E f \in W!Files : W!Accept(f) \/ W!Refuse(f))
                \/ Daemon(\E u \in Users : I!User(u)))
  /\ SF_allvars(Web(\E f \in W!Files : W!Fin(f)))

\* The modules' type invariants.
AllTypeOK == TypeOK /\ W!TypeOK /\ I!TypeOK

\* WebClient's BooksAgree, ReadOnlyWhenReady and AlwaysSomethingToWaitFor, and
\* Icmpd's NothingKept.
BooksAgree == W!BooksAgree
ReadOnlyWhenReady == W!ReadOnlyWhenReady
AlwaysSomethingToWaitFor == W!AlwaysSomethingToWaitFor
NothingKept == I!NothingKept

\* Whichever program runs, everybody it serves or asks is dealt with, or it
\* ends or waits in a way its module excuses.
EveryoneServed ==
  <>[](CASE runs = "server" -> Settled [] runs = "web" -> W!Settled [] OTHER -> I!Settled)

\* WebClient's GetOnlyWhenEstablished.
GetOnlyWhenEstablished == W!GetOnlyWhenEstablished
=============================================================================
