--------------------------- MODULE StrCliNonblock --------------------------
(***************************************************************************)
(* nonblock/str_cli_nonblock.cpp, function str_cli: the echo client with   *)
(* every descriptor nonblocking, two buffers (to: stdin to socket, fr:     *)
(* socket to stdout) with an input and an output pointer each, and one     *)
(* select per iteration.  Each of the four system calls of an iteration is *)
(* a step of its own, so the server and the user act between them.         *)
(***************************************************************************)
EXTENDS EchoServer

Index == 0 .. MAXLINE - 1
Ptrs  == 0 .. MAXLINE

VARIABLES
  typed, ended,     \* the user: bytes typed so far, and the end of file
  consumed,         \* bytes read from stdin
  to, toiptr, tooptr,
  fr, friptr, froptr,
  stdineof,
  rset, wset,       \* the descriptor sets, as select and the code leave them
  cpc,              \* the next section of the loop, or how str_cli ended
  outPending,       \* bytes on stdout its reader has not taken
  shown,            \* history: everything written to stdout
  fins              \* history: calls of Shutdown

bufs == <<to, toiptr, tooptr, fr, friptr, froptr>>
user == <<typed, ended>>
outs == <<outPending, shown>>
vars == <<srvVars, user, consumed, bufs, stdineof, rset, wset, cpc, outs, fins>>

TypeOK ==
  /\ SrvTypeOK
  /\ typed \in 0 .. InputLen /\ ended \in BOOLEAN /\ consumed \in 0 .. typed
  /\ to \in [Index -> 0 .. InputLen] /\ fr \in [Index -> 0 .. InputLen]
  /\ tooptr \in Ptrs /\ toiptr \in tooptr .. MAXLINE
  /\ froptr \in Ptrs /\ friptr \in froptr .. MAXLINE
  /\ stdineof \in BOOLEAN
  /\ rset \subseteq {"stdin", "sock"} /\ wset \subseteq {"stdout", "sock"}
  /\ cpc \in {"select", "stdin", "sockread", "stdout", "sockwrite",
              "return", "premature", "error"}
  /\ outPending \in 0 .. OutCap
  /\ shown \in Seq(1 .. InputLen)
  /\ fins \in 0 .. 2

BufInit ==
  /\ to = [k \in Index |-> 0] /\ toiptr = 0 /\ tooptr = 0
  /\ fr = [k \in Index |-> 0] /\ friptr = 0 /\ froptr = 0
  /\ stdineof = FALSE /\ wset = {} /\ fins = 0

Init ==
  /\ SrvInit
  /\ typed = 0 /\ ended = FALSE /\ consumed = 0
  /\ BufInit
  /\ rset = {}
  /\ cpc = "select"
  /\ outPending = 0 /\ shown = <<>>

----------------------------------------------------------------------------
(* The user at stdin and the reader of stdout.                             *)

Type ==
  /\ typed < InputLen /\ ~ended
  /\ typed' = typed + 1
  /\ UNCHANGED <<srvVars, ended, consumed, bufs, stdineof, rset, wset, cpc, outs, fins>>

EndInput ==
  /\ ~ended /\ ended' = TRUE
  /\ UNCHANGED <<srvVars, typed, consumed, bufs, stdineof, rset, wset, cpc, outs, fins>>

TakeOutput ==
  /\ outPending > 0 /\ outPending' = 0
  /\ UNCHANGED <<srvVars, user, consumed, bufs, stdineof, rset, wset, cpc, shown, fins>>

----------------------------------------------------------------------------
(* One iteration of the loop.                                              *)

\* What the code asks select to watch.
WatchRead ==
  (IF ~stdineof /\ toiptr < MAXLINE THEN {"stdin"} ELSE {})
    \cup (IF friptr < MAXLINE THEN {"sock"} ELSE {})
WatchWrite_NoOut == IF tooptr # toiptr THEN {"sock"} ELSE {}
WatchWrite ==
  (IF tooptr # toiptr THEN {"sock"} ELSE {})
    \cup (IF froptr # friptr THEN {"stdout"} ELSE {})

\* What the kernel finds ready.
ReadReady == (IF typed > consumed \/ ended THEN {"stdin"} ELSE {})
               \cup (IF toCli # <<>> \/ finCli \/ Reset THEN {"sock"} ELSE {})
WriteReady == (IF outPending < OutCap THEN {"stdout"} ELSE {})
                \cup (IF Len(toSrv) < SendCap \/ Reset THEN {"sock"} ELSE {})

Select ==
  /\ cpc = "select"
  /\ rset' = WatchRead \cap ReadReady
  /\ wset' = WatchWrite \cap WriteReady
  /\ rset' \cup wset' # {}
  /\ cpc' = "stdin"
  /\ UNCHANGED <<srvVars, user, consumed, bufs, stdineof, outs, fins>>

\* Shutdown(sockfd, SHUT_WR).
Shutdown == finSrv' = TRUE /\ fins' = fins + 1
NoShutdown == UNCHANGED <<finSrv, fins>>

\* The end of file on stdin: a FIN at once if everything has been sent.
FinNow_Always == TRUE
FinNow == tooptr = toiptr

ReadStdin ==
  /\ cpc = "stdin" /\ "stdin" \in rset
  /\ LET room == MAXLINE - toiptr
         n    == Least(typed - consumed, room)
     IN \/ \* the end of file, or a read of no bytes
           /\ n = 0 /\ (room = 0 \/ ended)
           /\ stdineof' = TRUE
           /\ IF FinNow THEN Shutdown ELSE NoShutdown
           /\ UNCHANGED <<consumed, to, toiptr, wset>>
        \/ \E k \in 1 .. n :
           /\ to' = [j \in Index |-> IF j \in toiptr .. toiptr + k - 1
                                     THEN consumed + 1 + j - toiptr ELSE to[j]]
           /\ toiptr' = toiptr + k
           /\ consumed' = consumed + k
           /\ wset' = wset \cup {"sock"}
           /\ UNCHANGED stdineof /\ NoShutdown
  /\ cpc' = "sockread"
  /\ UNCHANGED <<toSrv, toCli, finCli, sbuf, spc, user, tooptr, fr, friptr, froptr, rset, outs>>

\* Data from the socket.
ReadSocket ==
  /\ cpc = "sockread" /\ "sock" \in rset
  /\ \E k \in Readable(Len(toCli), MAXLINE - friptr) :
       /\ fr' = [j \in Index |-> IF j \in friptr .. friptr + k - 1
                                 THEN toCli[j - friptr + 1] ELSE fr[j]]
       /\ friptr' = friptr + k
       /\ toCli' = Rest(k, toCli)
  /\ wset' = wset \cup {"stdout"}
  /\ cpc' = "stdout"
  /\ UNCHANGED <<toSrv, finSrv, finCli, sbuf, spc, user, consumed, to, toiptr, tooptr,
                 froptr, stdineof, rset, outs, fins>>

\* A read of 0 bytes from the socket: taken for the server's FIN.
SocketEof ==
  /\ cpc = "sockread" /\ "sock" \in rset
  /\ friptr = MAXLINE \/ (toCli = <<>> /\ finCli)
  /\ cpc' = IF stdineof THEN "return" ELSE "premature"
  /\ UNCHANGED <<srvVars, user, consumed, bufs, stdineof, rset, wset, outs, fins>>

\* ENOTCONN, ECONNRESET or EPIPE once the RST of a dead server is in: err_sys
\* (or SIGPIPE) ends the client.
SocketError ==
  /\ Reset
  /\ \/ cpc = "stdin" /\ "stdin" \in rset /\ consumed = typed /\ FinNow
     \/ cpc = "sockread" /\ "sock" \in rset
     \/ cpc = "sockwrite" /\ "sock" \in wset /\ toiptr > tooptr
  /\ cpc' = "error"
  /\ UNCHANGED <<srvVars, user, consumed, bufs, stdineof, rset, wset, outs, fins>>

\* Both pointers go back to the beginning when the buffer is empty.
ResetTo(op) == toiptr' = 0 /\ tooptr' = 0
ResetFr(op) == friptr' = 0 /\ froptr' = 0

WriteStdout ==
  /\ cpc = "stdout" /\ "stdout" \in wset /\ friptr > froptr
  /\ \E k \in Readable(friptr - froptr, OutCap - outPending) :
       /\ shown' = shown \o [j \in 1 .. k |-> fr[froptr + j - 1]]
       /\ outPending' = outPending + k
       /\ IF froptr + k = friptr THEN ResetFr(froptr + k)
          ELSE froptr' = froptr + k /\ UNCHANGED friptr
  /\ cpc' = "sockwrite"
  /\ UNCHANGED <<srvVars, user, consumed, to, toiptr, tooptr, fr, stdineof, rset, wset, fins>>

\* The deferred FIN: sent by the write that empties `to` after the end of file.
WriteSocket ==
  /\ cpc = "sockwrite" /\ "sock" \in wset /\ toiptr > tooptr
  /\ \E k \in Readable(toiptr - tooptr, SendCap - Len(toSrv)) :
       /\ toSrv' = toSrv \o [j \in 1 .. k |-> to[tooptr + j - 1]]
       /\ IF tooptr + k = toiptr
          THEN ResetTo(tooptr + k) /\ IF stdineof THEN Shutdown ELSE NoShutdown
          ELSE tooptr' = tooptr + k /\ UNCHANGED toiptr /\ NoShutdown
  /\ cpc' = "select"
  /\ UNCHANGED <<toCli, finCli, sbuf, spc, user, consumed, to, fr, friptr, froptr,
                 stdineof, rset, wset, outs>>

\* A section is passed over when its descriptor is not ready, when there is
\* nothing to write, or when the call returns EWOULDBLOCK.
Skip ==
  /\ \/ cpc = "stdin" /\ "stdin" \notin rset /\ cpc' = "sockread"
     \/ cpc = "sockread" /\ "sock" \notin rset /\ cpc' = "stdout"
     \/ /\ cpc = "stdout" /\ cpc' = "sockwrite"
        /\ "stdout" \notin wset \/ friptr = froptr \/ outPending = OutCap
     \/ /\ cpc = "sockwrite" /\ cpc' = "select"
        /\ "sock" \notin wset \/ toiptr = tooptr \/ Len(toSrv) = SendCap
  /\ UNCHANGED <<srvVars, user, consumed, bufs, stdineof, rset, wset, outs, fins>>

----------------------------------------------------------------------------
ClientStep == Select \/ ReadStdin \/ ReadSocket \/ SocketEof \/ SocketError
                \/ WriteStdout \/ WriteSocket \/ Skip

ClientVars == <<user, consumed, bufs, stdineof, rset, wset, cpc, outs, fins>>

ServerStep == SrvStep /\ UNCHANGED ClientVars
ServerDies == SrvKilled /\ UNCHANGED ClientVars

Next == Type \/ EndInput \/ TakeOutput \/ ClientStep \/ ServerStep \/ ServerDies

Spec == Init /\ [][Next]_vars

(***************************************************************************)
(* Fairness: client and server processes are scheduled, the user ends the  *)
(* input at last and somebody reads stdout.                                *)
(***************************************************************************)
FairSpec == Spec /\ WF_vars(ClientStep) /\ WF_vars(ServerStep)
                 /\ WF_vars(EndInput) /\ WF_vars(TakeOutput)

----------------------------------------------------------------------------
(* Properties.                                                             *)

Iota(n) == [k \in 1 .. n |-> k]

Held(buf, from, upto) == [k \in 1 .. upto - from |-> buf[from + k - 1]]

\* Every byte read from stdin is, in order and once, on stdout, in one of the
\* buffers of client and server, or in flight: the pointer arithmetic of to
\* and fr neither drops nor repeats a byte over any short read or write.
NothingLost ==
  spc # "killed" =>
    shown \o Held(fr, froptr, friptr) \o toCli \o sbuf \o toSrv
      \o Held(to, tooptr, toiptr) = Iota(consumed)

\* The FIN goes out once and behind the last byte: after it nothing is left
\* in `to`, and all of the input has been read.
FinAfterLastByte ==
  /\ fins <= 1
  /\ finSrv => stdineof /\ toiptr = tooptr /\ ended /\ consumed = typed

\* A read into a full buffer is never mistaken for the end of a stream: the
\* client gives up on the server only if the server is gone.
PrematureIsReal == cpc = "premature" => spc = "killed"

\* What a normal return leaves unshown is in fr, where the loop breaks off
\* without writing it: nothing else is missing unless the server was killed.
UnshownIsInFr ==
  cpc = "return" /\ spc # "killed" => shown \o Held(fr, froptr, friptr) = Iota(typed)

\* Once the input has ended the client terminates, whatever the sizes of the
\* buffers: a full buffer in one direction never blocks the other.
Terminates == ended ~> cpc \in {"return", "premature", "error"}

\* The "normal terminate" return: everything the user typed has come back
\* and has been written to stdout.
NormalTerminateComplete ==
  cpc = "return" /\ spc # "killed" => shown = Iota(typed)
=============================================================================
