----------------------------- MODULE Connecting -----------------------------
(***************************************************************************)
(* How the programs get their socket.  tcp_connect, tcp_listen, udp_client *)
(* and udp_server walk the list that getaddrinfo returns and keep the      *)
(* first address that works; the client of TimeEcho3 walks the list of     *)
(* gethostbyname.  connect_nonb connects one socket with a timeout: it     *)
(* makes the descriptor nonblocking, starts the connect, waits in select,  *)
(* asks for the pending error and restores the descriptor's flags.         *)
(***************************************************************************)
EXTENDS Integers, Sequences

CONSTANT MaxAddrs   \* addresses a name may have

ASSUME AddrsAssumption == MaxAddrs \in Nat

\* What is tried on the new socket; whether a socket() that fails skips the
\* address or ends the program; whether the socket becomes a listening one.
Walker(try, skips, listens) == [try |-> try, skips |-> skips, listens |-> listens]

tcp_connect    == Walker("connect", TRUE, FALSE)
tcp_listen     == Walker("bind", TRUE, TRUE)
udp_client     == Walker("nothing", TRUE, FALSE)
udp_server     == Walker("bind", TRUE, FALSE)
daytimetcpcli3 == Walker("connect", FALSE, FALSE)
connect_nonb   == Walker("select", FALSE, FALSE)

Walkers == {tcp_connect, tcp_listen, udp_client, udp_server, daytimetcpcli3}
Programs == Walkers \cup {connect_nonb}

\* What comes of an address: no socket of its family, connect or bind fails,
\* or it works.  No address at all means that the name is not known.
Outcomes == {"no socket", "refused", "works"}
Lists == UNION {[1 .. n -> Outcomes] : n \in 0 .. MaxAddrs}

NoFd == 0

VARIABLES
  program, addrs,
  timed,      \* connect_nonb: nsec is not 0
  pc,         \* where it is, or "done", "quit" (no address left), "fatal"
  res,        \* the address under consideration
  sockfd,     \* the socket of that address, or NoFd
  open,       \* the descriptors that are open, named by their address
  addrlen,    \* the address whose length is returned
  handshake,  \* connect_nonb: "none", "going", "refused", "up" or "reset"
  blocking,   \* connect_nonb: O_NONBLOCK is not set
  error, ret  \* connect_nonb: SO_ERROR was set; "none", "ok" or "failed"

walk == <<res, sockfd, open, addrlen>>
nonb == <<handshake, blocking, error, ret>>
vars == <<program, addrs, timed, pc, walk, nonb>>

TypeOK ==
  /\ program \in Programs /\ addrs \in Lists /\ timed \in BOOLEAN
  /\ pc \in {"lookup", "socket", "try", "close", "finish", "done", "quit", "fatal",
             "connect", "select", "sockerr", "restore"}
  /\ res \in 0 .. MaxAddrs + 1
  /\ sockfd \in 0 .. MaxAddrs /\ open \subseteq 1 .. MaxAddrs
  /\ addrlen \in 0 .. MaxAddrs
  /\ handshake \in {"none", "going", "refused", "up", "reset"}
  /\ blocking \in BOOLEAN /\ error \in BOOLEAN
  /\ ret \in {"none", "ok", "failed"}

\* connect_nonb is called with a socket, here that of the only address.
Init ==
  /\ program \in Programs /\ addrs \in Lists /\ timed \in BOOLEAN
  /\ program \in Walkers => timed = FALSE /\ pc = "lookup" /\ res = 0 /\ sockfd = NoFd /\ open = {}
  /\ program = connect_nonb => /\ Len(addrs) = 1 /\ addrs[1] = "works"
                               /\ pc = "connect" /\ res = 1 /\ sockfd = 1 /\ open = {1}
  /\ addrlen = 0
  /\ handshake = "none" /\ blocking = TRUE /\ error = FALSE /\ ret = "none"

----------------------------------------------------------------------------
(* The walk along the list.                                                *)

\* getaddrinfo fails, or gives the list.
Lookup ==
  /\ pc = "lookup"
  /\ IF addrs = <<>> THEN pc' = "quit" /\ UNCHANGED res
                     ELSE pc' = "socket" /\ res' = 1
  /\ UNCHANGED <<program, addrs, timed, sockfd, open, addrlen, nonb>>

\* `res = res->ai_next`, and the end of the loop at NULL.
MoreAddrs == res + 1 <= Len(addrs)
Advance == res' = res + 1 /\ pc' = IF MoreAddrs THEN "socket" ELSE "quit"

\* socket() fails: try the next one, or, with the wrapper Socket, end.
NoSocket ==
  /\ pc = "socket" /\ addrs[res] = "no socket"
  /\ sockfd' = NoFd
  /\ IF program.skips THEN Advance ELSE pc' = "fatal" /\ UNCHANGED res
  /\ UNCHANGED <<program, addrs, timed, open, addrlen, nonb>>

MakeSocket ==
  /\ pc = "socket" /\ addrs[res] # "no socket"
  /\ sockfd' = res /\ open' = open \cup {res}
  /\ pc' = IF program.try = "nothing" THEN "finish" ELSE "try"
  /\ UNCHANGED <<program, addrs, timed, res, addrlen, nonb>>

\* connect() or bind().
TryAddress ==
  /\ pc = "try"
  /\ pc' = IF addrs[res] = "works" THEN "finish" ELSE "close"
  /\ UNCHANGED <<program, addrs, timed, walk, nonb>>

StillOpen_All == open
StillOpen == open \ {sockfd}

CloseSocket ==
  /\ pc = "close"
  /\ open' = StillOpen
  /\ Advance
  /\ UNCHANGED <<program, addrs, timed, sockfd, addrlen, nonb>>

\* The address whose length `res->ai_addrlen` is.
AddrlenOf_Next == res + 1
AddrlenOf == res

\* Listen of tcp_listen, the length of the address, freeaddrinfo.
Finish ==
  /\ pc = "finish"
  /\ addrlen' = AddrlenOf
  /\ pc' = "done"
  /\ UNCHANGED <<program, addrs, timed, res, sockfd, open, nonb>>

\* Setsockopt before bind, or Listen after it, fails: err_sys.
Fails ==
  /\ program.listens /\ pc \in {"try", "finish"}
  /\ pc' = "fatal"
  /\ UNCHANGED <<program, addrs, timed, walk, nonb>>

----------------------------------------------------------------------------
(* connect_nonb.                                                           *)

Return(r) == ret' = r /\ pc' = "done"

\* O_NONBLOCK, then connect(): done at once, under way, or failed.  When it
\* fails at once the caller keeps the socket, as it is.
StartConnect ==
  /\ pc = "connect"
  /\ blocking' = FALSE
  /\ \/ handshake' = "up" /\ pc' = "restore" /\ UNCHANGED ret
     \/ handshake' = "going" /\ pc' = "select" /\ UNCHANGED ret
     \/ handshake' = "refused" /\ Return("failed")
  /\ UNCHANGED <<program, addrs, timed, walk, error>>

\* The peer answers, refuses, or resets what was established.
Answered ==
  /\ pc \in {"select", "sockerr", "restore"}
  /\ \/ handshake = "going" /\ handshake' \in {"up", "refused"}
     \/ handshake = "up" /\ handshake' = "reset"
  /\ UNCHANGED <<program, addrs, timed, pc, walk, blocking, error, ret>>

SelectReady ==
  /\ pc = "select" /\ handshake # "going"
  /\ pc' = "sockerr"
  /\ UNCHANGED <<program, addrs, timed, walk, nonb>>

\* `nsec ? &tval : nullptr`.
TimeoutGiven_Never == FALSE
TimeoutGiven == timed

SelectTimesOut ==
  /\ pc = "select" /\ TimeoutGiven /\ handshake = "going"
  /\ open' = open \ {sockfd}
  /\ Return("failed")
  /\ UNCHANGED <<program, addrs, timed, res, sockfd, addrlen, handshake, blocking, error>>

\* getsockopt(SO_ERROR).
PendingError == handshake \in {"refused", "reset"}

AskError ==
  /\ pc = "sockerr"
  /\ error' = PendingError
  /\ pc' = "restore"
  /\ UNCHANGED <<program, addrs, timed, walk, handshake, blocking, ret>>

RestoreFlags ==
  /\ pc = "restore"
  /\ blocking' = TRUE
  /\ open' = IF error THEN open \ {sockfd} ELSE open
  /\ Return(IF error THEN "failed" ELSE "ok")
  /\ UNCHANGED <<program, addrs, timed, res, sockfd, addrlen, handshake, error>>

----------------------------------------------------------------------------
Step == \/ Lookup \/ NoSocket \/ MakeSocket \/ TryAddress \/ CloseSocket \/ Finish
        \/ StartConnect \/ SelectReady \/ SelectTimesOut \/ AskError \/ RestoreFlags

Next == Step \/ Fails \/ Answered

Spec == Init /\ [][Next]_vars

\* The program runs; connect() and the timeout of select end at last.
FairSpec == Spec /\ WF_vars(Step)

----------------------------------------------------------------------------
(* Properties.                                                             *)

Usable(a) == addrs[a] = "works" \/ (addrs[a] = "refused" /\ program.try = "nothing")

\* The socket returned is that of the first address of the list that works,
\* it is the only descriptor open, and the length returned belongs to it; the
\* program gives up only after every address has failed.
SocketOfFirstUsable ==
  program \in Walkers =>
    /\ \A a \in 1 .. Len(addrs) : a < res => ~Usable(a)
    /\ open \subseteq {res}
    /\ pc = "done" => open = {sockfd} /\ addrlen = sockfd /\ Usable(sockfd)
    /\ pc = "quit" => open = {} /\ \A a \in 1 .. Len(addrs) : ~Usable(a)

\* connect_nonb reports success only for a connection that was established,
\* with the descriptor blocking again; it reports failure with the socket
\* closed, unless connect() failed at once: then it is open and nonblocking.
NonblockingConnect ==
  program = connect_nonb =>
    /\ ret = "ok" => handshake \in {"up", "reset"} /\ blocking /\ open = {sockfd}
    /\ ret = "failed" => \/ open = {} /\ (error \/ timed)
                         \/ open = {sockfd} /\ handshake = "refused" /\ ~blocking /\ ~error

\* Without nsec connect_nonb waits for as long as the handshake lasts.
Settled == pc \in {"done", "quit", "fatal"}
           \/ (pc = "select" /\ ~timed /\ handshake = "going")
EveryCallReturns == <>[]Settled
=============================================================================
