----------------------------- MODULE EchoServer ----------------------------
(***************************************************************************)
(* One TCP connection to the echo server: the two byte streams with their  *)
(* bounded kernel buffers, and str_echo at the far end (str_echo.cpp, run  *)
(* by a child of the StringEcho servers, which exits when it returns).     *)
(* The client modules extend this one.  A byte is named by its position in *)
(* the client's input, so that loss, reordering and duplication show.      *)
(***************************************************************************)
EXTENDS Integers, Sequences, EchoParams

VARIABLES
  toSrv, toCli,     \* bytes in flight in each direction
  finSrv, finCli,   \* the client's FIN, the server's FIN
  sbuf,             \* bytes str_echo has read and not yet written back
  spc               \* "read", "write", "exit", or "killed"

srvVars == <<toSrv, toCli, finSrv, finCli, sbuf, spc>>

SrvTypeOK ==
  /\ toSrv \in Seq(1 .. InputLen) /\ Len(toSrv) <= SendCap
  /\ toCli \in Seq(1 .. InputLen) /\ Len(toCli) <= SendCap
  /\ finSrv \in BOOLEAN /\ finCli \in BOOLEAN
  /\ sbuf \in Seq(1 .. InputLen) /\ Len(sbuf) <= MAXLINE
  /\ spc \in {"read", "write", "exit", "killed"}

SrvInit ==
  /\ toSrv = <<>> /\ toCli = <<>>
  /\ finSrv = FALSE /\ finCli = FALSE
  /\ sbuf = <<>> /\ spc = "read"

\* The lesser of two numbers.
Least(a, b) == IF a < b THEN a ELSE b

First(n, s) == SubSeq(s, 1, n)
Rest(n, s) == SubSeq(s, n + 1, Len(s))

\* A read moves between one byte and as many as there are and fit.
Readable_Unbounded(have, room) == 1 .. have
Readable(have, room) == 1 .. Least(have, room)

\* `read(sockfd, buf, MAXLINE)` > 0; an EINTR only repeats the call.
SrvRead ==
  /\ spc = "read"
  /\ \E n \in Readable(Len(toSrv), MAXLINE) :
       sbuf' = First(n, toSrv) /\ toSrv' = Rest(n, toSrv)
  /\ spc' = "write"
  /\ UNCHANGED <<toCli, finSrv, finCli>>

\* writen: each write() takes what the connection has room for; the loop
\* ends when nothing is left.

SrvWrite ==
  /\ spc = "write"
  /\ \E n \in Readable(Len(sbuf), SendCap - Len(toCli)) :
       /\ toCli' = toCli \o First(n, sbuf)
       /\ sbuf' = Rest(n, sbuf)
       /\ spc' = IF sbuf' = <<>> THEN "read" ELSE "write"
  /\ UNCHANGED <<toSrv, finSrv, finCli>>

\* read() returns 0: str_echo returns, the child exits, its socket closes.
SrvExit ==
  /\ spc = "read" /\ finSrv /\ toSrv = <<>>
  /\ spc' = "exit"
  /\ finCli' = TRUE
  /\ UNCHANGED <<toSrv, toCli, finSrv, sbuf>>

\* The server child dies: its kernel sends a FIN, what it held is lost.
SrvKilled ==
  /\ spc \in {"read", "write"}
  /\ spc' = "killed"
  /\ finCli' = TRUE
  /\ sbuf' = <<>>
  /\ UNCHANGED <<toSrv, toCli, finSrv>>

SrvStep == SrvRead \/ SrvWrite \/ SrvExit

\* A dead server answers data with a RST, which the client's next call meets.
Reset == spc = "killed" /\ toSrv # <<>>
=============================================================================
