---------------------------- MODULE StrCliLines ----------------------------
(***************************************************************************)
(* The echo clients that work in lines, with Fgets and Readline: str_cli   *)
(* (one line out, one line back) and str_cli_select of str_cli.cpp, and    *)
(* the str_cli of nonblock/strclifork.cpp, where a child process shows     *)
(* what comes back while the parent sends.  Both Fgets and Readline read   *)
(* ahead into a buffer of their own, which select knows nothing of.        *)
(* A line is two bytes long; the input may end in the middle of one.       *)
(***************************************************************************)
EXTENDS EchoServer

VARIABLES
  program,          \* "str_cli", "str_cli_select" or "strclifork"
  typed, ended,     \* the user: bytes typed so far, and the end of file
  consumed,         \* bytes read from stdin
  fbuf,             \* what Fgets has read ahead
  sendline,         \* what Writen has still to write
  rbuf,             \* what Readline has read and not returned
  recvline,         \* what Fputs has still to write
  rset,             \* the descriptor set select returned
  cpc,              \* where the client, or the parent, is, or how it ended
  kpc,              \* the child of strclifork: "none", "readline", "fputs",
                    \* "kill", "exit", "astray" (its parent was gone), "error"
  outPending,       \* bytes on stdout its reader has not taken
  shown             \* history: everything written to stdout

user == <<typed, ended>>
outs == <<outPending, shown>>
input == <<consumed, fbuf, sendline>>
output == <<rbuf, recvline, outs>>
clientVars == <<program, user, input, output, rset, cpc, kpc>>
vars == <<srvVars, clientVars>>

Forked == program = "strclifork"
Selects == program = "str_cli_select"
Over == {"return", "premature", "error", "terminated"}

TypeOK ==
  /\ SrvTypeOK
  /\ program \in {"str_cli", "str_cli_select", "strclifork"}
  /\ typed \in 0 .. InputLen /\ ended \in BOOLEAN /\ consumed \in 0 .. typed
  /\ {fbuf, sendline, rbuf, recvline, shown} \subseteq Seq(1 .. InputLen)
  /\ Len(sendline) <= 2 /\ Len(recvline) <= 2
  /\ rset \subseteq {"stdin", "sock"}
  /\ cpc \in Over \cup {"select", "fgets", "writen", "readline", "fputs", "pause"}
  /\ kpc \in {"none", "readline", "fputs", "kill", "exit", "astray", "error"}
  /\ outPending \in 0 .. OutCap

\* strclifork has forked already.
LineInit ==
  /\ fbuf = <<>> /\ sendline = <<>> /\ rbuf = <<>> /\ recvline = <<>>
  /\ kpc = IF Forked THEN "readline" ELSE "none"

Init ==
  /\ SrvInit
  /\ program \in {"str_cli", "str_cli_select", "strclifork"}
  /\ typed = 0 /\ ended = FALSE /\ consumed = 0
  /\ LineInit
  /\ rset = {}
  /\ cpc = IF Selects THEN "select" ELSE "fgets"
  /\ outPending = 0 /\ shown = <<>>

NewLine(b) == b % 2 = 0
HasLine(s) == \E k \in 1 .. Len(s) : NewLine(s[k])
LineEnd(s) == CHOOSE k \in 1 .. Len(s) : NewLine(s[k]) /\ \A l \in 1 .. k - 1 : ~NewLine(s[l])

----------------------------------------------------------------------------
(* The user at stdin and the reader of stdout.                             *)

Type ==
  /\ typed < InputLen /\ ~ended
  /\ typed' = typed + 1
  /\ UNCHANGED <<srvVars, program, ended, input, output, rset, cpc, kpc>>

EndInput ==
  /\ ~ended /\ ended' = TRUE
  /\ UNCHANGED <<srvVars, program, typed, input, output, rset, cpc, kpc>>

TakeOutput ==
  /\ outPending > 0 /\ outPending' = 0
  /\ UNCHANGED <<srvVars, program, user, input, rbuf, recvline, shown, rset, cpc, kpc>>

----------------------------------------------------------------------------
(* Standard input to the server.                                           *)

\* select sees the descriptors, not the buffers of Fgets and Readline.
Select ==
  /\ cpc = "select"
  /\ rset' = (IF typed > consumed \/ ended THEN {"stdin"} ELSE {})
             \cup (IF toCli # <<>> \/ finCli \/ Reset THEN {"sock"} ELSE {})
  /\ rset' # {}
  /\ cpc' = IF "sock" \in rset' THEN "readline" ELSE "fgets"
  /\ UNCHANGED <<srvVars, program, user, input, output, kpc>>

\* Fgets reads on until it has a line.
FgetsReads ==
  /\ cpc = "fgets" /\ ~HasLine(fbuf)
  /\ \E n \in 1 .. typed - consumed :
       /\ fbuf' = fbuf \o [k \in 1 .. n |-> consumed + k]
       /\ consumed' = consumed + n
  /\ UNCHANGED <<srvVars, program, user, sendline, output, rset, cpc, kpc>>

AtEof == typed = consumed /\ ended /\ ~HasLine(fbuf)

\* A line, or the unfinished one at the end of the input.
FgetsReturns ==
  /\ cpc = "fgets" /\ fbuf # <<>> /\ (HasLine(fbuf) \/ AtEof)
  /\ LET n == IF HasLine(fbuf) THEN LineEnd(fbuf) ELSE Len(fbuf)
     IN sendline' = First(n, fbuf) /\ fbuf' = Rest(n, fbuf)
  /\ cpc' = "writen"
  /\ UNCHANGED <<srvVars, program, user, consumed, output, rset, kpc>>

\* The end of file.  Only strclifork tells the server and waits.
SendFin == finSrv' = Forked

FgetsEof ==
  /\ cpc = "fgets" /\ fbuf = <<>> /\ AtEof
  /\ cpc' = IF Forked THEN "pause" ELSE "return"
  /\ SendFin
  /\ UNCHANGED <<toSrv, toCli, finCli, sbuf, spc, program, user, input, output, rset, kpc>>

AfterWriten == CASE program = "str_cli" -> "readline"
                 [] Selects -> "select"
                 [] Forked -> "fgets"

Writen ==
  /\ cpc = "writen"
  /\ \E n \in Readable(Len(sendline), SendCap - Len(toSrv)) :
       /\ toSrv' = toSrv \o First(n, sendline)
       /\ sendline' = Rest(n, sendline)
  /\ cpc' = IF sendline' # <<>> THEN "writen" ELSE AfterWriten
  /\ UNCHANGED <<toCli, finSrv, finCli, sbuf, spc, program, user, consumed, fbuf,
                 output, rset, kpc>>

----------------------------------------------------------------------------
(* The server to standard output: in the child of strclifork, else in the  *)
(* one process there is.                                                   *)

At(l) == IF Forked THEN kpc = l ELSE cpc = l
Goto(l) == IF Forked THEN kpc' = l /\ UNCHANGED cpc ELSE cpc' = l /\ UNCHANGED kpc

\* my_read fills its buffer only when it is empty, so between two of its
\* reads all of rbuf is part of one unfinished line.
ReadlineReads ==
  /\ At("readline") /\ ~HasLine(rbuf)
  /\ \E n \in Readable(Len(toCli), MAXLINE) :
       rbuf' = rbuf \o First(n, toCli) /\ toCli' = Rest(n, toCli)
  /\ UNCHANGED <<toSrv, finSrv, finCli, sbuf, spc, program, user, input, recvline,
                 outs, rset, cpc, kpc>>

\* What is left of the buffer behind a line stays for the next call.
Kept_None(n) == <<>>
Kept(n) == Rest(n, rbuf)

ReadlineReturns ==
  /\ At("readline") /\ HasLine(rbuf)
  /\ LET n == LineEnd(rbuf)
     IN recvline' = First(n, rbuf) /\ rbuf' = Kept(n)
  /\ Goto("fputs")
  /\ UNCHANGED <<srvVars, program, user, input, outs, rset>>

\* At the server's FIN Readline returns what it has; with nothing, it is the
\* end.
ReadlineEof ==
  /\ At("readline") /\ ~HasLine(rbuf) /\ toCli = <<>> /\ finCli
  /\ recvline' = rbuf /\ rbuf' = <<>>
  /\ Goto(IF rbuf # <<>> THEN "fputs" ELSE IF Forked THEN "kill" ELSE "premature")
  /\ UNCHANGED <<srvVars, program, user, input, outs, rset>>

AfterFputs == CASE program = "str_cli" -> "fgets"
                [] Selects -> IF "stdin" \in rset THEN "fgets" ELSE "select"
                [] Forked -> "readline"

Fputs ==
  /\ At("fputs")
  /\ \E n \in Readable(Len(recvline), OutCap - outPending) :
       /\ shown' = shown \o First(n, recvline)
       /\ outPending' = outPending + n
       /\ recvline' = Rest(n, recvline)
  /\ Goto(IF recvline' # <<>> THEN "fputs" ELSE AfterFputs)
  /\ UNCHANGED <<srvVars, program, user, input, rbuf, rset>>

\* The child ends the parent, wherever it is, and then itself.  A child whose
\* parent is gone already has another one, and signals that.
Kill ==
  /\ kpc = "kill"
  /\ IF cpc \in Over THEN kpc' = "astray" /\ UNCHANGED cpc
                     ELSE kpc' = "exit" /\ cpc' = "terminated"
  /\ UNCHANGED <<srvVars, program, user, input, output, rset>>

\* Once the RST of a dead server is in, writing and shutting down end the
\* process.  Readline takes the failed read for a huge one (Heartbeat's
\* FailedRead) and shows what lies behind its buffer till the process crashes;
\* the child of strclifork then never gets to kill.
SocketError ==
  /\ Reset
  /\ \/ /\ cpc = "writen" \/ (Forked /\ cpc = "fgets" /\ fbuf = <<>> /\ AtEof)
        /\ cpc' = "error" /\ UNCHANGED kpc
     \/ /\ At("readline") /\ ~HasLine(rbuf)
        /\ Goto("error")
  /\ UNCHANGED <<srvVars, program, user, input, output, rset>>

----------------------------------------------------------------------------
\* The client, or the parent of strclifork, and its child.
Sending == Select \/ FgetsReads \/ FgetsReturns \/ FgetsEof \/ Writen
Showing == ReadlineReads \/ ReadlineReturns \/ ReadlineEof \/ Fputs \/ Kill \/ SocketError

ServerStep == SrvStep /\ UNCHANGED clientVars
ServerDies == SrvKilled /\ UNCHANGED clientVars

Next == Type \/ EndInput \/ TakeOutput \/ Sending \/ Showing \/ ServerStep \/ ServerDies

Spec == Init /\ [][Next]_vars

\* The processes are scheduled, the user ends the input at last, and somebody
\* reads stdout.
FairSpec == Spec /\ WF_vars(Sending) /\ WF_vars(Showing) /\ WF_vars(ServerStep)
                 /\ WF_vars(EndInput) /\ WF_vars(TakeOutput)

----------------------------------------------------------------------------
(* Properties.                                                             *)

\* Every byte read from stdin is, in order and once, on stdout, in a buffer of
\* Fgets, Writen, the server, Readline or Fputs, or in flight.
NothingLost ==
  spc # "killed" =>
    shown \o recvline \o rbuf \o toCli \o sbuf \o toSrv \o sendline \o fbuf
      = [k \in 1 .. consumed |-> k]

\* The client blames the server, and the child of strclifork signals a process
\* that is not its parent, only if the server really died.
EndsAreReal == cpc = "premature" \/ kpc = "astray" => spc = "killed"

\* strclifork has ended when both processes have.
Ended == cpc \in Over /\ kpc \in {"none", "exit", "astray", "error"}

\* The child crashed and nobody ends the pause of its parent.
Abandoned == kpc = "error" /\ cpc = "pause"

\* An unfinished line has come back and Readline waits for its end.
UnfinishedLine ==
  /\ ~Forked /\ cpc = "readline" /\ spc = "read"
  /\ ~HasLine(rbuf) /\ rbuf # <<>> /\ typed = consumed /\ ended

\* Client and server each wait in write() for the other to read.
MutualBlock == /\ ~Forked /\ cpc = "writen" /\ Len(toSrv) = SendCap
               /\ spc = "write" /\ Len(toCli) = SendCap

\* The end of the input ends the client, and with strclifork both processes;
\* the clients of one process may instead wait for ever for the end of the
\* unfinished last line, and str_cli_select may block together with the server;
\* the parent of a child that crashed pauses for ever.
Settled == Ended \/ Abandoned \/ UnfinishedLine \/ (Selects /\ MutualBlock)
=============================================================================
