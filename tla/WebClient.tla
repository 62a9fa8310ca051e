----------------------------- MODULE WebClient -----------------------------
(***************************************************************************)
(* nonblock/webclient/web.cpp: fetches nfiles files over at most maxnconn  *)
(* simultaneous nonblocking connections.  One process; a connection goes   *)
(* from connect() in progress to reading to done, driven by one select.    *)
(* The servers act at any moment between two system calls.                 *)
(***************************************************************************)
EXTENDS WebParams, Integers, FiniteSets

Files == 0 .. nfiles - 1

\* Descriptors: socket() returns the lowest number that is not open; 0 to 2
\* are the standard ones.
Descriptors == 3 .. nfiles + 2
NoFd == -1

VARIABLES
  f_flags,    \* per file: 0, "CONNECTING", "READING" or "DONE"
  f_fd,
  rset, wset, maxfd,
  rs, ws,     \* the sets select returned
  nconn, nlefttoconn, nlefttoread,
  i,          \* the file the scan looks at
  pc,         \* "fill", "select", "scan", "exit", or how the process died
  open,       \* open descriptors
  net,        \* per file, its connection as the kernel sees it
  gets        \* history: GET commands written for each file

tables == <<f_flags, f_fd>>
sets   == <<rset, wset, maxfd>>
counts == <<nconn, nlefttoconn, nlefttoread>>
vars == <<tables, sets, rs, ws, counts, i, pc, open, net, gets>>

TypeOK ==
  /\ f_flags \in [Files -> {"0", "CONNECTING", "READING", "DONE"}]
  /\ f_fd \in [Files -> Descriptors \cup {NoFd}]
  /\ rset \subseteq Descriptors /\ wset \subseteq Descriptors
  /\ rs \subseteq Descriptors /\ ws \subseteq Descriptors
  /\ maxfd \in Descriptors \cup {-1}
  /\ nconn \in 0 .. maxnconn
  /\ nlefttoconn \in 0 .. nfiles /\ nlefttoread \in 0 .. nfiles
  /\ i \in 0 .. nfiles
  /\ pc \in {"fill", "select", "scan", "exit", "connect error",
             "read error", "select error", "SIGPIPE"}
  /\ open \subseteq Descriptors
  /\ net \in [Files -> {"none", "syn", "refused", "up", "data", "fin", "reset"}]
  /\ gets \in [Files -> 0 .. 2]

Init ==
  /\ f_flags = [f \in Files |-> "0"]
  /\ f_fd = [f \in Files |-> NoFd]
  /\ rset = {} /\ wset = {} /\ maxfd = -1
  /\ rs = {} /\ ws = {}
  /\ nconn = 0 /\ nlefttoconn = nfiles /\ nlefttoread = nfiles
  /\ i = 0 /\ pc = "fill"
  /\ open = {}
  /\ net = [f \in Files |-> "none"]
  /\ gets = [f \in Files |-> 0]

----------------------------------------------------------------------------
Lowest(S) == CHOOSE x \in S : \A y \in S : x <= y
Highest(a, b) == IF a > b THEN a ELSE b

Established(f) == net[f] \in {"up", "data", "fin"}

\* write_get_cmd: the GET is written to the descriptor.  Writing to one that
\* is not connected raises SIGPIPE, which ends the process.
WatchAfterGet_No(fd) == rset
WatchAfterGet(fd) == rset \cup {fd}

WriteGetCmd(f, fd, ok, next) ==
  IF ok
  THEN /\ gets' = [gets EXCEPT ![f] = @ + 1]
       /\ f_flags' = [f_flags EXCEPT ![f] = "READING"]
       /\ rset' = WatchAfterGet(fd)
       /\ maxfd' = Highest(maxfd, fd)
       /\ pc' = next
  ELSE /\ pc' = "SIGPIPE"
       /\ UNCHANGED <<gets, f_flags, rset, maxfd>>

----------------------------------------------------------------------------
(* The main loop.                                                          *)

Finish ==
  /\ pc = "fill" /\ nlefttoread = 0
  /\ pc' = "exit"
  /\ UNCHANGED <<tables, sets, rs, ws, counts, i, open, net, gets>>

MayConnect_TooMany == nconn <= maxnconn /\ nlefttoconn > 0
MayConnect == nconn < maxnconn /\ nlefttoconn > 0

Unstarted == {f \in Files : f_flags[f] = "0"}

\* start_connect: the usual case is EINPROGRESS; on the same host connect()
\* may succeed at once; any other error ends the program.  (That there is a
\* file to start, which the code checks with err_quit, is a property below.)
StartConnect ==
  /\ pc = "fill" /\ nlefttoread > 0 /\ MayConnect
  /\ Unstarted # {}
  /\ LET f  == Lowest(Unstarted)
         fd == Lowest(Descriptors \ open)
     IN /\ f_fd' = [f_fd EXCEPT ![f] = fd]
        /\ open' = open \cup {fd}
        /\ i' = f
        /\ \/ /\ net' = [net EXCEPT ![f] = "syn"]
              /\ f_flags' = [f_flags EXCEPT ![f] = "CONNECTING"]
              /\ rset' = rset \cup {fd} /\ wset' = wset \cup {fd}
              /\ maxfd' = Highest(maxfd, fd)
              /\ UNCHANGED <<gets, pc>>
           \/ /\ net' = [net EXCEPT ![f] = "up"]
              /\ WriteGetCmd(f, fd, TRUE, "fill")
              /\ UNCHANGED wset
           \/ /\ net' = [net EXCEPT ![f] = "refused"]
              /\ pc' = "connect error"
              /\ UNCHANGED <<f_flags, sets, gets>>
  /\ IF pc' = "fill" THEN nconn' = nconn + 1 /\ nlefttoconn' = nlefttoconn - 1
                     ELSE UNCHANGED <<nconn, nlefttoconn>>
  /\ UNCHANGED <<nlefttoread, rs, ws>>

EndFill ==
  /\ pc = "fill" /\ nlefttoread > 0 /\ ~MayConnect
  /\ pc' = "select"
  /\ UNCHANGED <<tables, sets, rs, ws, counts, i, open, net, gets>>

\* select: which of the watched descriptors the kernel finds ready.  A
\* watched descriptor that is not open is EBADF, and err_sys.
Owner(fd) == CHOOSE f \in Files : f_fd[f] = fd /\ f_flags[f] \in {"CONNECTING", "READING"}
Watched(S) == {fd \in S : fd <= maxfd}
Readable(fd) == net[Owner(fd)] \in {"data", "fin", "refused", "reset"}
Writable(fd) == net[Owner(fd)] \in {"up", "data", "fin", "refused", "reset"}

Select ==
  /\ pc = "select"
  /\ IF Watched(rset \cup wset) \subseteq open
     THEN /\ rs' = {fd \in Watched(rset) : Readable(fd)}
          /\ ws' = {fd \in Watched(wset) : Writable(fd)}
          /\ rs' \cup ws' # {}
          /\ pc' = "scan"
     ELSE pc' = "select error" /\ UNCHANGED <<rs, ws>>
  /\ i' = 0
  /\ UNCHANGED <<tables, sets, counts, open, net, gets>>

\* The scan `for (i = 0; i < nfiles; ++i)`: one step per file that is ready
\* (Scanned), and one over those that are not.
Connecting(f) == f_flags[f] = "CONNECTING" /\ (f_fd[f] \in rs \/ f_fd[f] \in ws)
Reading_Unchecked(f) == f_flags[f] = "READING"
Reading(f) == f_flags[f] = "READING" /\ f_fd[f] \in rs
Scanned == pc = "scan" /\ i < nfiles

\* The connect is over.  SO_ERROR is looked at, but a failure is only
\* reported: the GET is written all the same.
Connected ==
  /\ Scanned /\ Connecting(i)
  /\ wset' = wset \ {f_fd[i]}
  /\ WriteGetCmd(i, f_fd[i], Established(i), "scan")
  /\ i' = i + 1
  /\ UNCHANGED <<f_fd, rs, ws, counts, open, net>>

ReadData ==
  /\ Scanned /\ Reading(i) /\ net[i] = "data"
  /\ net' = [net EXCEPT ![i] = "up"]
  /\ i' = i + 1
  /\ UNCHANGED <<tables, sets, rs, ws, counts, pc, open, gets>>

\* End of file: the connection is closed and no longer watched.
Unwatch_Kept(fd) == rset
Unwatch(fd) == rset \ {fd}

NconnAfterClose_Same == nconn
NconnAfterClose == nconn - 1

ReadEof ==
  /\ Scanned /\ Reading(i) /\ net[i] = "fin"
  /\ open' = open \ {f_fd[i]}
  /\ f_flags' = [f_flags EXCEPT ![i] = "DONE"]
  /\ rset' = Unwatch(f_fd[i])
  /\ nconn' = NconnAfterClose
  /\ nlefttoread' = nlefttoread - 1
  /\ net' = [net EXCEPT ![i] = "none"]
  /\ i' = i + 1
  /\ UNCHANGED <<f_fd, wset, maxfd, rs, ws, nlefttoconn, pc, gets>>

ReadError ==
  /\ Scanned /\ Reading(i) /\ net[i] = "reset"
  /\ pc' = "read error"
  /\ UNCHANGED <<tables, sets, rs, ws, counts, i, open, net, gets>>

Pass ==
  /\ Scanned /\ ~Connecting(i) /\ ~Reading(i)
  /\ i' = i + 1
  /\ UNCHANGED <<tables, sets, rs, ws, counts, pc, open, net, gets>>

EndScan ==
  /\ pc = "scan" /\ i = nfiles
  /\ pc' = "fill"
  /\ UNCHANGED <<tables, sets, rs, ws, counts, i, open, net, gets>>

----------------------------------------------------------------------------
(* The servers: a connect succeeds or fails; a connection brings data and  *)
(* an end of file once its GET is out, or a reset at any time.             *)

Becomes(f, from, to) ==
  /\ net[f] \in from
  /\ net' = [net EXCEPT ![f] = to]
  /\ UNCHANGED <<tables, sets, rs, ws, counts, i, pc, open, gets>>

Accept(f) == Becomes(f, {"syn"}, "up")
Refuse(f) == Becomes(f, {"syn"}, "refused")
Data(f)   == gets[f] > 0 /\ Becomes(f, {"up"}, "data")
Fin(f)    == gets[f] > 0 /\ Becomes(f, {"up"}, "fin")
Rst(f)    == Becomes(f, {"up", "data"}, "reset")

ClientStep == Finish \/ StartConnect \/ EndFill \/ Select
                \/ Connected \/ ReadData \/ ReadEof \/ ReadError \/ Pass \/ EndScan

Next == ClientStep \/ \E f \in Files : Accept(f) \/ Refuse(f) \/ Data(f) \/ Fin(f) \/ Rst(f)

Spec == Init /\ [][Next]_vars

\* The client runs, a server answers every connect, and every answer ends.
FairSpec == Spec /\ WF_vars(ClientStep)
                 /\ \A f \in Files : WF_vars(Accept(f) \/ Refuse(f)) /\ SF_vars(Fin(f))

----------------------------------------------------------------------------
(* Properties.                                                             *)

Running == pc \in {"fill", "select", "scan"}
Active == {f \in Files : f_flags[f] \in {"CONNECTING", "READING"}}

\* Although descriptor numbers are reused, the books agree: the counters say
\* what web.h says they say (connections open, files without a connection so
\* far, files still to be read); select watches exactly the open connections,
\* for writing exactly the unfinished connects, and maxfd covers them all; no
\* two active files share a descriptor.
CountersExact ==
  /\ nconn = Cardinality(Active) /\ nconn = Cardinality(open)
  /\ nlefttoconn = Cardinality(Unstarted)
  /\ nlefttoread = Cardinality(Active \cup Unstarted)

SetsMatchFlags ==
  /\ rset = {f_fd[f] : f \in Active} /\ rset = open
  /\ wset = {f_fd[f] : f \in {g \in Active : f_flags[g] = "CONNECTING"}}
  /\ \A fd \in rset : fd <= maxfd
  /\ \A f, g \in Active : f # g => f_fd[f] # f_fd[g]

BooksAgree == Running => CountersExact /\ SetsMatchFlags

\* read() on a nonblocking socket is called only when it returns something:
\* EWOULDBLOCK would end the program, and nothing that happens between the
\* select and the file's turn in the scan makes the readiness stale.
ReadOnlyWhenReady ==
  Scanned /\ Reading(i) => net[i] \in {"data", "fin", "reset"}

\* The program never sleeps in select with nothing to wait for, never gives it
\* a closed descriptor, and always finds the file its counter promises.
AlwaysSomethingToWaitFor ==
  /\ pc = "select" => rset \cup wset # {}
  /\ pc # "select error"
  /\ pc = "fill" /\ nlefttoconn > 0 => Unstarted # {}

\* Every file is read to its end unless a connection fails.
Settled == pc \in {"exit", "connect error", "read error", "SIGPIPE"}
AllFilesRead == <>[]Settled

\* Where the code says "connect established" the connection is established.
GetOnlyWhenEstablished ==
  [][\A f \in Files : f_flags[f] = "CONNECTING" /\ Scanned /\ i = f /\ Connecting(f)
        /\ i' = i + 1 => Established(f)]_vars
=============================================================================
