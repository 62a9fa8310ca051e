----------------------------- MODULE MCOnePeer ------------------------------
(***************************************************************************)
(* The programs and functions that deal with one peer at a time, be it a   *)
(* host, a server or the kernel, asked the same question: is what they     *)
(* return, print or show what really happened?  One of them runs; the      *)
(* others stay in their initial states.  The echo clients StrCliNonblock,  *)
(* StrCliShutdown and StrCliLines share the connection, the user and       *)
(* standard output.  A second has two microseconds, icmp_seq and a byte    *)
(* of a checksum have two values, so that borrowing, wrapping round and    *)
(* carrying happen.  The connection of StrCliShutdown holds a single byte, *)
(* so that four bytes of input are enough for client and server to block   *)
(* each other; StrCliLines needs eight, four lines.                        *)
(***************************************************************************)
EXTENDS Connecting, EchoParams

CONSTANTS MaxSent, MaxTime, MaxArrivals, Window, MaxIfs, MaxLen

VARIABLES
  runs,
  \* Ping
  ppc, now, due, nsent, sentAt, queue, arrivals, recvbuf, tval, line,
  \* OobReceivers
  sender, receiver, sent, fin, rcvd, copied, urg, urgData, sigurg, owned, upc,
  urset, xset, justreadoob, oob, passed, early, marks,
  \* the echo clients
  toSrv, toCli, finSrv, finCli, sbuf, spc, typed, ended, consumed, rset, cpc,
  outPending, shown,
  to, toiptr, tooptr, fr, friptr, froptr, stdineof, wset, fins, buf,
  client, fbuf, sendline, rbuf, recvline, kpc,
  \* InCksum
  addr, cnleft, sum, answer, ckpc,
  \* IfiInfo
  refuses, ifs, changed, doaliases, len, lastlen, ifbuf, missed, pos, lastname,
  ifihead, down, ipc,
  \* MyOpen
  openErr, passErr, opc, status, cause, pair, fd, errno, catted, mpc

P == INSTANCE Ping WITH pc <- ppc, USEC <- 2, SeqSize <- 2
O == INSTANCE OobReceivers WITH program <- receiver, pc <- upc, rset <- urset, missed <- passed
N == INSTANCE StrCliNonblock
S == INSTANCE StrCliShutdown WITH SendCap <- 1, OutCap <- 2
L == INSTANCE StrCliLines WITH program <- client, InputLen <- 2 * InputLen, SendCap <- 3,
                               OutCap <- 2
C == INSTANCE InCksum WITH ByteSize <- 2
I == INSTANCE IfiInfo WITH buf <- ifbuf, Guess <- 2, Increment <- 2
M == INSTANCE MyOpen WITH copied <- catted, Errnos <- {1, 2}, FileLen <- 2

pvars == <<ppc, now, due, nsent, sentAt, queue, arrivals, recvbuf, tval, line>>
ovars == <<sender, receiver, sent, fin, rcvd, copied, urg, urgData, sigurg, owned, upc,
           urset, xset, justreadoob, oob, passed, early, marks>>
echo == <<toSrv, toCli, finSrv, finCli, sbuf, spc, typed, ended, consumed, rset, cpc,
          outPending, shown>>
nonblock == <<to, toiptr, tooptr, fr, friptr, froptr, wset, fins>>
lines == <<client, fbuf, sendline, rbuf, recvline, kpc>>
clients == <<echo, nonblock, stdineof, buf, lines>>
cvars == <<addr, cnleft, sum, answer, ckpc>>
ivars == <<refuses, ifs, changed, doaliases, len, lastlen, ifbuf, missed, pos, lastname,
           ifihead, down, ipc>>
mvars == <<openErr, passErr, opc, status, cause, pair, fd, errno, catted, mpc>>
allvars == <<runs, vars, pvars, ovars, clients, cvars, ivars, mvars>>

AnyInit ==
  /\ runs \in {"connect", "ping", "oob", "nonblock", "shutdown", "lines", "cksum", "ifi", "open"}
  /\ P!Init
  /\ Init /\ (runs # "connect" => program = tcp_connect /\ addrs = <<>>)
  /\ O!Init /\ (runs # "oob" => sender = O!tcpsend02 /\ receiver = O!tcprecv01)
  /\ N!BufInit /\ buf = <<>>
  /\ IF runs = "lines" THEN L!Init ELSE S!Init /\ client = "str_cli" /\ L!LineInit
  /\ C!Init /\ (runs # "cksum" => addr = <<>>)
  /\ I!Init /\ (runs # "ifi" => ~refuses /\ ifs = <<>> /\ ~doaliases)
  /\ M!Init /\ (runs # "open" => openErr = 0 /\ passErr = 0)

\* One program runs, the others stand still.
Connect(A) == /\ runs = "connect" /\ A
              /\ UNCHANGED <<runs, pvars, ovars, clients, cvars, ivars, mvars>>
Pings(A) == /\ runs = "ping" /\ A
            /\ UNCHANGED <<runs, vars, ovars, clients, cvars, ivars, mvars>>
Urgently(A) == /\ runs = "oob" /\ A
               /\ UNCHANGED <<runs, vars, pvars, clients, cvars, ivars, mvars>>
Echoes(A) == A /\ UNCHANGED <<runs, vars, pvars, ovars, cvars, ivars, mvars>>
Nonblock(A) == runs = "nonblock" /\ Echoes(A) /\ UNCHANGED <<buf, lines>>
Blocking(A) == runs = "shutdown" /\ Echoes(A) /\ UNCHANGED <<nonblock, lines>>
InLines(A) == runs = "lines" /\ Echoes(A) /\ UNCHANGED <<nonblock, stdineof, buf>>
Sums(A) == /\ runs = "cksum" /\ A
           /\ UNCHANGED <<runs, vars, pvars, ovars, clients, ivars, mvars>>
Asks(A) == /\ runs = "ifi" /\ A
           /\ UNCHANGED <<runs, vars, pvars, ovars, clients, cvars, mvars>>
Opens(A) == /\ runs = "open" /\ A
            /\ UNCHANGED <<runs, vars, pvars, ovars, clients, cvars, ivars>>

AnyNext ==
  \/ Connect(Next) \/ Pings(P!Next) \/ Urgently(O!Next)
  \/ Nonblock(N!Next) \/ Blocking(S!Next) \/ InLines(L!Next)
  \/ Sums(C!Next) \/ Asks(I!Next) \/ Opens(M!Next)

\* The fairness of each module, for the one that runs: at most one disjunct of
\* each of these belongs to it.
Fair1 ==
  \/ Connect(Step) \/ Pings(P!Tick) \/ Urgently(O!Program)
  \/ Nonblock(N!ClientStep) \/ Blocking(S!ClientStep) \/ InLines(L!Sending)
  \/ Sums(C!Next) \/ Asks(I!Step) \/ Opens(M!ChildStep)
Fair2 ==
  \/ Pings(P!Start) \/ Urgently(O!SendByte) \/ Opens(M!ParentStep)
  \/ Nonblock(N!ServerStep) \/ Blocking(S!ServerStep) \/ InLines(L!ServerStep)
Fair3 ==
  \/ Pings(P!SigAlrm) \/ Urgently(O!SenderExits)
  \/ Nonblock(N!EndInput) \/ Blocking(S!EndInput) \/ InLines(L!EndInput)
Fair4 ==
  \/ Pings(P!Loop) \/ Urgently(O!Delivery)
  \/ Nonblock(N!TakeOutput) \/ Blocking(S!TakeOutput) \/ InLines(L!TakeOutput)

AnySpec ==
  /\ AnyInit /\ [][AnyNext]_allvars
  /\ WF_allvars(Fair1) /\ WF_allvars(Fair2) /\ WF_allvars(Fair3) /\ WF_allvars(Fair4)
  /\ WF_allvars(InLines(L!Showing))

\* The modules' type invariants.
AllTypeOK ==
  /\ TypeOK /\ P!TypeOK /\ O!TypeOK /\ C!TypeOK /\ I!TypeOK /\ M!TypeOK
  /\ runs = "nonblock" => N!TypeOK
  /\ runs = "shutdown" => S!TypeOK
  /\ runs = "lines" => L!TypeOK

\* Connecting's NonblockingConnect, Ping's RttIsOwn and AlarmKeptUp and
\* OobReceivers' NoOobMissed and NeverAskedTwice: a connect reported is one
\* that happened, a time printed is that of its request, and no urgent byte
\* is passed over.
ReportsAreTrue ==
  /\ NonblockingConnect
  /\ P!RttIsOwn /\ P!AlarmKeptUp
  /\ O!NoOobMissed /\ O!NeverAskedTwice

\* The NothingLost of the echo client that runs: every byte read from stdin
\* is, in order and once, shown, in a buffer of the client (those of Fgets and
\* Readline included) or the server, or in flight.
NoByteLost ==
  /\ runs = "nonblock" => N!NothingLost
  /\ runs = "shutdown" => S!NothingLost
  /\ runs = "lines" => L!NothingLost

\* StrCliNonblock's FinAfterLastByte, PrematureIsReal and UnshownIsInFr and
\* StrCliLines' EndsAreReal: the client's FIN comes once and last, nothing but
\* the death of the server is taken for it, what a normal return has not shown
\* is in the client's own buffer, and strclifork's child signals its parent.
EndsAreReal ==
  /\ runs = "nonblock" => N!FinAfterLastByte /\ N!PrematureIsReal /\ N!UnshownIsInFr
  /\ runs = "lines" => L!EndsAreReal

\* The blocking client, str_cli and strclifork implement EchoService.  (The
\* nonblocking one does not, see NormalTerminateComplete, and str_cli_select
\* does not wait for what it sent: while they run the service stands still.)
\* strclifork has returned when both its processes are gone and its child has
\* seen the FIN of a server that ended well.
Serves == runs = "shutdown" \/ (runs = "lines" /\ ~L!Selects)
Service == INSTANCE EchoService WITH
             InputLen <- 2 * InputLen,
             typed <- IF Serves THEN typed ELSE 0,
             ended <- Serves /\ ended,
             shown <- IF Serves THEN shown ELSE <<>>,
             server <- IF Serves /\ spc = "killed" THEN "down" ELSE "up",
             client <- IF ~Serves \/ ~L!Ended THEN "running"
                       ELSE IF cpc = "return" \/ (L!Forked /\ spc = "exit") THEN "returned"
                       ELSE "gave up"

\* A normal return of these clients means that everything the user typed has
\* been shown.
ImplementsService == Service!Spec

\* The "normal terminate" of the nonblocking client: everything the user typed
\* has come back and has been written to stdout.
NormalTerminateComplete == runs = "nonblock" => N!NormalTerminateComplete

\* InCksum's ChecksumCorrect: with the checksum in it, the message sums up to
\* nothing, whatever its length and the carries.
ChecksumCorrect == C!ChecksumCorrect

\* IfiInfo's AnswerComplete and MetEntriesListed: the buffer was large enough,
\* nothing is listed twice, and what the strides meet is listed.
AnswerComplete == I!AnswerComplete /\ I!MetEntriesListed

\* IfiInfo's EveryInterfaceListed: every interface that is up is listed.
EveryInterfaceListed == I!EveryInterfaceListed

\* MyOpen's OpenedIsReturned: the descriptor or the error of the child comes
\* back.
OpenedIsReturned == M!OpenedIsReturned

\* Whichever program runs, it ends, or goes on as its module says; the end of
\* the input ends the echo clients, but for the deadlocks that their modules
\* name.
EveryProgramSettled ==
  <>[](CASE runs = "connect" -> Settled
         [] runs = "ping" -> P!Settled
         [] runs = "oob" -> O!Settled
         [] runs = "nonblock" -> cpc \in {"return", "premature", "error"}
         [] runs = "shutdown" -> cpc \in {"return", "premature", "error"} \/ S!MutualBlock
         [] runs = "lines" -> L!Settled
         [] runs = "cksum" -> C!Settled
         [] runs = "ifi" -> I!Settled
         [] runs = "open" -> M!Settled)
=============================================================================
