--------------------------- MODULE StrCliShutdown --------------------------
(***************************************************************************)
(* str_cli.cpp, function str_cli_select_shutdown: the echo client that     *)
(* selects on stdin and the socket, reads with read() into one buffer,     *)
(* writes with blocking calls, and sends a FIN at the end of its input but *)
(* goes on reading until the server's FIN.                                 *)
(***************************************************************************)
EXTENDS EchoServer

VARIABLES
  typed, ended,     \* the user: bytes typed so far, and the end of file
  consumed,         \* bytes read from stdin
  buf,              \* what the client read last and has not written yet
  stdineof,
  rset,             \* the descriptor set select returned
  cpc,              \* where the client is, or how it ended
  outPending,       \* bytes on stdout its reader has not taken
  shown             \* history: everything written to stdout

user == <<typed, ended>>
outs == <<outPending, shown>>
clientVars == <<user, consumed, buf, stdineof, rset, cpc, outs>>
vars == <<srvVars, clientVars>>

TypeOK ==
  /\ SrvTypeOK
  /\ typed \in 0 .. InputLen /\ ended \in BOOLEAN /\ consumed \in 0 .. typed
  /\ buf \in Seq(1 .. InputLen) /\ Len(buf) <= MAXLINE
  /\ stdineof \in BOOLEAN
  /\ rset \subseteq {"stdin", "sock"}
  /\ cpc \in {"select", "sockread", "write", "stdin", "writen",
              "return", "premature", "error"}
  /\ outPending \in 0 .. OutCap
  /\ shown \in Seq(1 .. InputLen)

Init ==
  /\ SrvInit
  /\ typed = 0 /\ ended = FALSE /\ consumed = 0
  /\ buf = <<>> /\ stdineof = FALSE /\ rset = {}
  /\ cpc = "select"
  /\ outPending = 0 /\ shown = <<>>

----------------------------------------------------------------------------
(* The user at stdin and the reader of stdout.                             *)

Type ==
  /\ typed < InputLen /\ ~ended
  /\ typed' = typed + 1
  /\ UNCHANGED <<srvVars, ended, consumed, buf, stdineof, rset, cpc, outs>>

EndInput ==
  /\ ~ended /\ ended' = TRUE
  /\ UNCHANGED <<srvVars, typed, consumed, buf, stdineof, rset, cpc, outs>>

TakeOutput ==
  /\ outPending > 0 /\ outPending' = 0
  /\ UNCHANGED <<srvVars, user, consumed, buf, stdineof, rset, cpc, shown>>

----------------------------------------------------------------------------
(* The client.                                                             *)

Watch == {"sock"} \cup (IF stdineof THEN {} ELSE {"stdin"})
Ready == (IF typed > consumed \/ ended THEN {"stdin"} ELSE {})
           \cup (IF toCli # <<>> \/ finCli \/ Reset THEN {"sock"} ELSE {})

Select ==
  /\ cpc = "select"
  /\ rset' = Watch \cap Ready /\ rset' # {}
  /\ cpc' = IF "sock" \in rset' THEN "sockread" ELSE "stdin"
  /\ UNCHANGED <<srvVars, user, consumed, buf, stdineof, outs>>

ReadSocket ==
  /\ cpc = "sockread"
  /\ \E n \in Readable(Len(toCli), MAXLINE) :
       buf' = First(n, toCli) /\ toCli' = Rest(n, toCli)
  /\ cpc' = "write"
  /\ UNCHANGED <<toSrv, finSrv, finCli, sbuf, spc, user, consumed, stdineof, rset, outs>>

\* What a read of 0 bytes from the socket means.
EndKind == IF stdineof THEN "return" ELSE "premature"

SocketEof ==
  /\ cpc = "sockread" /\ toCli = <<>> /\ finCli
  /\ cpc' = EndKind
  /\ UNCHANGED <<srvVars, user, consumed, buf, stdineof, rset, outs>>

\* The blocking Write to stdout and Writen to the socket go on until the
\* whole buffer is written; a step is what the descriptor takes at a time.
WriteStdout ==
  /\ cpc = "write"
  /\ \E n \in Readable(Len(buf), OutCap - outPending) :
       /\ shown' = shown \o First(n, buf)
       /\ outPending' = outPending + n
       /\ buf' = Rest(n, buf)
  /\ cpc' = IF buf' # <<>> THEN "write"
            ELSE IF "stdin" \in rset THEN "stdin" ELSE "select"
  /\ UNCHANGED <<srvVars, user, consumed, stdineof, rset>>

ReadStdin ==
  /\ cpc = "stdin"
  /\ \E n \in Readable(typed - consumed, MAXLINE) :
       /\ buf' = [k \in 1 .. n |-> consumed + k]
       /\ consumed' = consumed + n
  /\ cpc' = "writen"
  /\ UNCHANGED <<srvVars, user, stdineof, rset, outs>>

\* The end of file: FIN, and no more reading of stdin.
AfterEof_Return == "return"
AfterEof == "select"

SendFin == finSrv' = TRUE

StdinEof ==
  /\ cpc = "stdin" /\ typed = consumed /\ ended
  /\ stdineof' = TRUE
  /\ SendFin
  /\ rset' = rset \ {"stdin"}
  /\ cpc' = AfterEof
  /\ UNCHANGED <<toSrv, toCli, finCli, sbuf, spc, user, consumed, buf, outs>>

WriteSocket_Short(n) == cpc' = "select" /\ buf' = <<>>
WriteSocketLoop(n) == /\ buf' = Rest(n, buf)
                      /\ cpc' = IF buf' # <<>> THEN "writen" ELSE "select"

WriteSocket ==
  /\ cpc = "writen"
  /\ \E n \in Readable(Len(buf), SendCap - Len(toSrv)) :
       toSrv' = toSrv \o First(n, buf) /\ WriteSocketLoop(n)
  /\ UNCHANGED <<toCli, finSrv, finCli, sbuf, spc, user, consumed, stdineof, rset, outs>>

\* Once the RST of a dead server is in, reading, writing and shutting down fail.
SocketError ==
  /\ Reset
  /\ \/ cpc \in {"sockread", "writen"}
     \/ cpc = "stdin" /\ typed = consumed /\ ended
  /\ cpc' = "error"
  /\ UNCHANGED <<srvVars, user, consumed, buf, stdineof, rset, outs>>

----------------------------------------------------------------------------
ClientStep == Select \/ ReadSocket \/ SocketEof \/ WriteStdout \/ ReadStdin
                \/ StdinEof \/ WriteSocket \/ SocketError

ServerStep == SrvStep /\ UNCHANGED clientVars
ServerDies == SrvKilled /\ UNCHANGED clientVars

Next == Type \/ EndInput \/ TakeOutput \/ ClientStep \/ ServerStep \/ ServerDies

Spec == Init /\ [][Next]_vars

\* Client and server are scheduled, the user ends the input at last, and
\* somebody reads stdout.
FairSpec == Spec /\ WF_vars(ClientStep) /\ WF_vars(ServerStep)
                 /\ WF_vars(EndInput) /\ WF_vars(TakeOutput)

----------------------------------------------------------------------------
(* Properties.                                                             *)

\* Every byte read from stdin is, in order and once, on stdout, in the one
\* buffer of the client (bound for stdout or for the socket), in the server,
\* or in flight.
NothingLost ==
  spc # "killed" =>
    shown \o (IF cpc = "write" THEN buf ELSE <<>>) \o toCli \o sbuf \o toSrv
      \o (IF cpc = "writen" THEN buf ELSE <<>>) = [k \in 1 .. consumed |-> k]

\* The client is an echo service: a normal return means that everything the
\* user typed has been shown, which is what Shutdown (not Close) is for.
Service == INSTANCE EchoService WITH
             server <- IF spc = "killed" THEN "down" ELSE "up",
             client <- CASE cpc = "return" -> "returned"
                         [] cpc \in {"premature", "error"} -> "gave up"
                         [] OTHER -> "running"

ImplementsService == Service!Spec

\* Client and server each wait in write() for the other to read.
MutualBlock == /\ cpc = "writen" /\ Len(toSrv) = SendCap
               /\ spc = "write" /\ Len(toCli) = SendCap

\* The one way the client can hang: because Writen blocks, it may stop
\* reading echoes while the server blocks in writing them.  In every other
\* case the end of the input ends the client.
TerminatesUnlessMutuallyBlocked ==
  ended ~> (cpc \in {"return", "premature", "error"} \/ MutualBlock)
=============================================================================
