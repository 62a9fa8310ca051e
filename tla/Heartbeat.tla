------------------------------ MODULE Heartbeat ------------------------------
(***************************************************************************)
(* The echo client and server of oob/heartbeat_cli and oob/heartbeat_serv. *)
(* Every second the client's SIGALRM handler sends a byte out of band; the *)
(* server's SIGURG handler sends it back and both set their count of       *)
(* unanswered seconds to 0; each gives the other up when the count exceeds *)
(* its limit.  The handlers run on top of an ordinary echo session, whose  *)
(* client reads with Readline.                                             *)
(*                                                                         *)
(* A direction of the connection holds a number of halves of lines and of  *)
(* out-of-band bytes on their way; an out-of-band byte overtakes the data, *)
(* and of several that arrive together the receiver learns of the last     *)
(* only (that TCP then leaves the others in the data is not modelled).     *)
(* The network may be cut for good; nothing is read after the cut.         *)
(***************************************************************************)
EXTENDS Naturals

CONSTANT Sessions   \* what a session may be like: records of
                    \*   lines   lines of input
                    \*   room    room in each direction
                    \*   limit   maxnprobes and maxnalarms, 5 in both programs

VARIABLES
  session,       \* one of Sessions
  up,            \* the network is not cut
  c2s, s2c,      \* halves of lines in each direction
  c2sUrg, s2cUrg,\* out-of-band bytes in each direction
  cfin, sfin,    \* what the other side sees behind the data: "open", "fin", "rst"
  curg, surg,    \* the client's, the server's out-of-band byte: "fresh" or "read"
  csig, ssig     \* SIGURG is pending

VARIABLES
  cm,            \* client: "select", "write", "line" (asleep in Readline) or "eintr"
  probing,       \* its sig_alrm is about to Send, or waits for room to
  cend,          \* "none" or how it ended
  lines, stdineof,
  pend, got, rbuf,   \* halves to write, in the current line, in read_buf
  shown,
  cprobes, carmed

VARIABLES
  sending,       \* the server's sig_urg is about to Send, or waits for room to
  serverEnd,     \* "none" or how it ended
  held,          \* halves str_echo has read and not written
  sprobes

connection == <<session, up, c2s, s2c, c2sUrg, s2cUrg, cfin, sfin, curg, surg, csig, ssig>>
client == <<cm, probing, cend, lines, stdineof, pend, got, rbuf, shown, cprobes, carmed>>
server == <<sending, serverEnd, held, sprobes>>
vars == <<connection, client, server>>

InputLines == session.lines
Cap == session.room
maxnprobes == session.limit
Halves == 0 .. 2 * InputLines

TypeOK ==
  /\ session \in Sessions
  /\ up \in BOOLEAN
  /\ c2s \in Halves /\ s2c \in Halves /\ c2sUrg \in 0 .. Cap /\ s2cUrg \in 0 .. Cap
  /\ c2s + c2sUrg <= Cap /\ s2c + s2cUrg <= Cap
  /\ cfin \in {"open", "fin", "rst"} /\ sfin \in {"open", "fin", "rst"}
  /\ curg \in {"fresh", "read"} /\ surg \in {"fresh", "read"}
  /\ csig \in BOOLEAN /\ ssig \in BOOLEAN
  /\ cm \in {"select", "write", "line", "eintr"}
  /\ probing \in BOOLEAN
  /\ cend \in {"none", "normal", "premature", "unreachable", "garbled", "error", "killed"}
  /\ lines \in 0 .. InputLines /\ stdineof \in BOOLEAN
  /\ pend \in 0 .. 2 /\ got \in 0 .. 1 /\ rbuf \in Halves /\ shown \in Halves
  /\ cprobes \in 0 .. maxnprobes + 1 /\ carmed \in BOOLEAN
  /\ sending \in BOOLEAN
  /\ serverEnd \in {"none", "eof", "noprobes", "error", "killed"}
  /\ held \in Halves /\ sprobes \in 0 .. maxnprobes + 1

Init ==
  /\ session \in Sessions
  /\ up = TRUE
  /\ c2s = 0 /\ s2c = 0 /\ c2sUrg = 0 /\ s2cUrg = 0 /\ cfin = "open" /\ sfin = "open"
  /\ curg = "read" /\ surg = "read" /\ csig = FALSE /\ ssig = FALSE
  /\ cm = "select" /\ probing = FALSE /\ cend = "none"
  /\ lines = 0 /\ stdineof = FALSE /\ pend = 0 /\ got = 0 /\ rbuf = 0 /\ shown = 0
  /\ cprobes = 0 /\ carmed = TRUE
  /\ sending = FALSE /\ serverEnd = "none" /\ held = 0 /\ sprobes = 0
-----------------------------------------------------------------------------
(* The connection.                                                         *)

ClientUp == cend = "none"
ServerUp == serverEnd = "none"
RoomToServer == c2s + c2sUrg < Cap
RoomToClient == s2c + s2cUrg < Cap

NotifyServer ==
  /\ up /\ ServerUp /\ c2sUrg > 0
  /\ c2sUrg' = 0 /\ surg' = "fresh" /\ ssig' = TRUE
  /\ UNCHANGED <<session, up, c2s, s2c, s2cUrg, cfin, sfin, curg, csig, client, server>>

NotifyClient ==
  /\ up /\ ClientUp /\ s2cUrg > 0
  /\ s2cUrg' = 0 /\ curg' = "fresh" /\ csig' = TRUE
  /\ UNCHANGED <<session, up, c2s, s2c, c2sUrg, cfin, sfin, surg, ssig, client, server>>

Cut ==
  /\ up /\ up' = FALSE
  /\ UNCHANGED <<session, c2s, s2c, c2sUrg, s2cUrg, cfin, sfin, curg, surg, csig, ssig, client, server>>

\* A process that ends closes its socket; unread data makes the FIN a reset.
ClientEnds(how) == cend' = how /\ cfin' = IF s2c > 0 THEN "rst" ELSE "fin"
ServerEnds(how) == serverEnd' = how /\ sfin' = IF c2s > 0 THEN "rst" ELSE "fin"
-----------------------------------------------------------------------------
(* The client's main program: str_cli.                                     *)

ClientMain == ClientUp /\ ~probing

ReadLineOfInput ==
  /\ ClientMain /\ cm = "select" /\ ~stdineof /\ lines < InputLines
  /\ lines' = lines + 1 /\ pend' = 2 /\ cm' = "write"
  /\ UNCHANGED <<connection, server, probing, cend, stdineof, got, rbuf, shown, cprobes, carmed>>

\* Mutant: alarm(0) is missing.
ArmedAfterEof_Kept == carmed

\* alarm(0), then the FIN.
ArmedAfterEof == FALSE
EndOfInput ==
  /\ ClientMain /\ cm = "select" /\ ~stdineof /\ lines = InputLines
  /\ stdineof' = TRUE /\ carmed' = ArmedAfterEof /\ cfin' = "fin"
  /\ UNCHANGED <<session, up, c2s, s2c, c2sUrg, s2cUrg, sfin, curg, surg, csig, ssig, server,
                 cm, probing, cend, lines, pend, got, rbuf, shown, cprobes>>

\* A write to a peer that is gone vanishes, or meets the reset and kills.
ClientWrite ==
  /\ ClientMain /\ cm = "write"
  /\ \/ /\ IF up /\ ~ServerUp THEN UNCHANGED c2s ELSE RoomToServer /\ c2s' = c2s + 1
        /\ pend' = pend - 1 /\ cm' = IF pend = 1 THEN "select" ELSE "write"
        /\ UNCHANGED <<cend, cfin>>
     \/ up /\ ~ServerUp /\ ClientEnds("killed") /\ UNCHANGED <<c2s, pend, cm>>
  /\ UNCHANGED <<session, up, s2c, c2sUrg, s2cUrg, sfin, curg, surg, csig, ssig, server,
                 probing, lines, stdineof, got, rbuf, shown, cprobes, carmed>>

\* What a read of the socket meets.
ServerData == up /\ s2c > 0
ServerClosed == up /\ s2c = 0 /\ s2cUrg = 0 /\ sfin = "fin"
ServerReset == up /\ s2c = 0 /\ sfin = "rst"

\* A line that is already in read_buf is found only when select reports the
\* socket readable again.
TakeBuffered ==
  /\ ClientMain /\ cm = "select" /\ rbuf >= 2 /\ (ServerData \/ ServerClosed \/ ServerReset)
  /\ rbuf' = rbuf - 2 /\ shown' = shown + 2
  /\ UNCHANGED <<connection, server, cm, probing, cend, lines, stdineof, pend, got, cprobes, carmed>>

\* Readline: read fills read_buf, and the line is complete with its second half
\* or waits for it in another read.
ReadLine ==
  /\ ClientMain /\ cm \in {"select", "line"} /\ rbuf < 2 /\ ServerData
  /\ s2c' = 0
  /\ LET have == got + rbuf + s2c
     IN IF have >= 2
        THEN rbuf' = have - 2 /\ got' = 0 /\ shown' = shown + 2 /\ cm' = "select"
        ELSE rbuf' = 0 /\ got' = have /\ cm' = "line" /\ UNCHANGED shown
  /\ UNCHANGED <<session, up, c2s, c2sUrg, s2cUrg, cfin, sfin, curg, surg, csig, ssig, server,
                 probing, cend, lines, stdineof, pend, cprobes, carmed>>

\* The end of the stream: the part of a line that came is shown, and the next
\* Readline returns 0.
ReadEof ==
  /\ ClientMain /\ cm \in {"select", "line"} /\ rbuf < 2 /\ ServerClosed
  /\ IF got + rbuf = 1
     THEN shown' = shown + 1 /\ got' = 0 /\ rbuf' = 0 /\ cm' = "select" /\ UNCHANGED <<cend, cfin>>
     ELSE ClientEnds(IF stdineof THEN "normal" ELSE "premature") /\ UNCHANGED <<shown, got, rbuf, cm>>
  /\ UNCHANGED <<session, up, c2s, s2c, c2sUrg, s2cUrg, sfin, curg, surg, csig, ssig, server,
                 probing, lines, stdineof, pend, cprobes, carmed>>

\* read returned -1, which is not less than 0 as a size_t: read_cnt is the
\* largest number there is, and what Readline returns from now on, until it
\* runs off the end of memory, is whatever lies behind read_ptr.
FailedRead ==
  /\ ClientMain
  /\ cm = "eintr" \/ (cm \in {"select", "line"} /\ rbuf < 2 /\ ServerReset)
  /\ ClientEnds("garbled")
  /\ UNCHANGED <<session, up, c2s, s2c, c2sUrg, s2cUrg, sfin, curg, surg, csig, ssig, server,
                 cm, probing, lines, stdineof, pend, got, rbuf, shown, cprobes, carmed>>

(* The client's handlers.                                                  *)
GivesUp(n) == n > maxnprobes

\* The client is asleep in the read of Readline, which SIGALRM interrupts.
Asleep == cm = "line"

ClientAlarm ==
  /\ ClientUp /\ carmed
  /\ carmed' = FALSE /\ cprobes' = cprobes + 1
  /\ IF GivesUp(cprobes + 1)
     THEN ClientEnds("unreachable") /\ UNCHANGED <<cm, probing>>
     ELSE /\ probing' = TRUE
          /\ cm' \in {cm} \cup (IF Asleep THEN {"eintr"} ELSE {})
          /\ UNCHANGED <<cend, cfin>>
  /\ UNCHANGED <<session, up, c2s, s2c, c2sUrg, s2cUrg, sfin, curg, surg, csig, ssig, server,
                 lines, stdineof, pend, got, rbuf, shown>>

\* Send(MSG_OOB) waits for room like any other; the alarm is set afterwards.
SendProbe ==
  /\ ClientUp /\ probing
  /\ \/ /\ IF up /\ ~ServerUp THEN UNCHANGED c2sUrg ELSE RoomToServer /\ c2sUrg' = c2sUrg + 1
        /\ carmed' = TRUE /\ probing' = FALSE
        /\ UNCHANGED <<cend, cfin>>
     \/ up /\ ~ServerUp /\ ClientEnds("killed") /\ UNCHANGED <<c2sUrg, carmed, probing>>
  /\ UNCHANGED <<session, up, c2s, s2c, s2cUrg, sfin, curg, surg, csig, ssig, server,
                 cm, lines, stdineof, pend, got, rbuf, shown, cprobes>>

\* recv(MSG_OOB) gets the byte, or EWOULDBLOCK while the data before it is
\* unread; if the next byte arrives between signal and recv, recv gets that one,
\* and the second call of the handler finds nothing, an error that ends the
\* program.
ClientUrg ==
  /\ ClientUp /\ csig
  /\ \/ /\ curg = "read" /\ ClientEnds("error")
        /\ UNCHANGED <<curg, csig, s2cUrg, cprobes>>
     \/ /\ curg = "fresh" /\ cprobes' = 0
        /\ \/ curg' = "read" /\ csig' = FALSE /\ UNCHANGED s2cUrg
           \/ up /\ s2cUrg > 0 /\ s2cUrg' = 0 /\ curg' = "read" /\ UNCHANGED csig
           \/ s2c > 0 /\ csig' = FALSE /\ UNCHANGED <<curg, s2cUrg>>
        /\ UNCHANGED <<cend, cfin>>
  /\ UNCHANGED <<session, up, c2s, s2c, c2sUrg, sfin, surg, ssig, server,
                 cm, probing, lines, stdineof, pend, got, rbuf, shown, carmed>>
-----------------------------------------------------------------------------
(* The server: str_echo, restarted after EINTR.                            *)
ServerMain == ServerUp /\ ~sending

EchoRead ==
  /\ ServerMain /\ held = 0 /\ up /\ c2s > 0
  /\ held' = c2s /\ c2s' = 0
  /\ UNCHANGED <<session, up, s2c, c2sUrg, s2cUrg, cfin, sfin, curg, surg, csig, ssig, client,
                 sending, serverEnd, sprobes>>

EchoEof ==
  /\ ServerMain /\ held = 0 /\ up /\ c2s = 0 /\ c2sUrg = 0
  /\ cfin # "open" /\ ServerEnds(IF cfin = "fin" THEN "eof" ELSE "error")
  /\ UNCHANGED <<session, up, c2s, s2c, c2sUrg, s2cUrg, cfin, curg, surg, csig, ssig, client,
                 sending, held, sprobes>>

EchoWrite ==
  /\ ServerMain /\ held > 0
  /\ \/ /\ IF up /\ ~ClientUp THEN UNCHANGED s2c ELSE RoomToClient /\ s2c' = s2c + 1
        /\ held' = held - 1 /\ UNCHANGED <<serverEnd, sfin>>
     \/ up /\ ~ClientUp /\ ServerEnds("killed") /\ UNCHANGED <<s2c, held>>
  /\ UNCHANGED <<session, up, c2s, c2sUrg, s2cUrg, cfin, curg, surg, csig, ssig, client,
                 sending, sprobes>>

(* The server's handlers.                                                  *)

\* SIGALRM every second; it also interrupts a Send of sig_urg that waits for
\* room, and Send takes that for an error.
ServerAlarm ==
  /\ ServerUp /\ sprobes' = sprobes + 1
  /\ \/ /\ IF GivesUp(sprobes + 1) THEN ServerEnds("noprobes") ELSE UNCHANGED <<serverEnd, sfin>>
     \/ /\ ~GivesUp(sprobes + 1) /\ sending /\ ~RoomToClient
        /\ ServerEnds("error")
  /\ UNCHANGED <<session, up, c2s, s2c, c2sUrg, s2cUrg, cfin, curg, surg, csig, ssig, client, sending, held>>

ServerUrg ==
  /\ ServerMain /\ ssig
  /\ \/ /\ surg = "read" /\ ServerEnds("error")
        /\ UNCHANGED <<surg, ssig, c2sUrg, sending>>
     \/ /\ surg = "fresh" /\ sending' = TRUE
        /\ \/ surg' = "read" /\ ssig' = FALSE /\ UNCHANGED c2sUrg
           \/ up /\ c2sUrg > 0 /\ c2sUrg' = 0 /\ surg' = "read" /\ UNCHANGED ssig
           \/ c2s > 0 /\ ssig' = FALSE /\ UNCHANGED <<surg, c2sUrg>>
        /\ UNCHANGED <<serverEnd, sfin>>
  /\ UNCHANGED <<session, up, c2s, s2c, s2cUrg, cfin, curg, csig, client, held, sprobes>>

\* The count is reset after the byte is sent back.
ServerAnswer ==
  /\ ServerUp /\ sending
  /\ \/ /\ IF up /\ ~ClientUp THEN UNCHANGED s2cUrg ELSE RoomToClient /\ s2cUrg' = s2cUrg + 1
        /\ sending' = FALSE /\ sprobes' = 0 /\ UNCHANGED <<serverEnd, sfin>>
     \/ up /\ ~ClientUp /\ ServerEnds("killed") /\ UNCHANGED <<s2cUrg, sending, sprobes>>
  /\ UNCHANGED <<session, up, c2s, s2c, c2sUrg, cfin, curg, surg, csig, ssig, client, held>>
-----------------------------------------------------------------------------
ClientMainStep ==
  \/ ReadLineOfInput \/ EndOfInput \/ ClientWrite
  \/ TakeBuffered \/ ReadLine \/ ReadEof \/ FailedRead
ClientHandlerStep == SendProbe \/ ClientUrg
ServerMainStep == EchoRead \/ EchoEof \/ EchoWrite
ServerHandlerStep == ServerUrg \/ ServerAnswer

ClientStep == ClientMainStep \/ ClientHandlerStep
ServerStep == ServerMainStep \/ ServerHandlerStep

Next == ClientStep \/ ServerStep \/ ClientAlarm \/ ServerAlarm \/ NotifyServer \/ NotifyClient \/ Cut

Spec == Init /\ [][Next]_vars

\* Handlers run and clocks tick; the main programs get their turn between the
\* handlers, which return within the second (hence strong fairness); the user
\* types on to the end of the input.  The network may be cut.
FairSpec ==
  /\ Spec
  /\ SF_vars(ClientMainStep) /\ SF_vars(ServerMainStep)
  /\ WF_vars(ClientHandlerStep) /\ WF_vars(ServerHandlerStep)
  /\ WF_vars(ClientAlarm) /\ WF_vars(ServerAlarm)
  /\ WF_vars(NotifyServer) /\ WF_vars(NotifyClient)
-----------------------------------------------------------------------------
(* While both sides run, every half of a line that was typed is somewhere   *)
(* between the client's buffers and its output, whatever handlers ran in    *)
(* between; and a client whose server saw the end of its input returns with *)
(* the whole input shown.                                                   *)
EchoConserved ==
  /\ ClientUp /\ ServerUp => 2 * lines = pend + c2s + held + s2c + rbuf + got + shown
  /\ cend = "normal" /\ serverEnd = "eof" => shown = 2 * InputLines

(* A read that SIGALRM interrupts is called again, as my_read means to:     *)
(* `if (errno == EINTR) goto again`.                                        *)
InterruptedReadRetried == ~(cm = "eintr" /\ cend = "garbled")

(* alarm(0) at the end of input is final: no handler sets the alarm again,  *)
(* and a client that waits for the last echoes never calls its server       *)
(* unreachable.                                                             *)
HeartbeatOff == stdineof => ~carmed /\ cend # "unreachable"

(* The waits nothing ends, after the network is cut: the heartbeat was      *)
(* turned off at the end of input; or SIGALRM's handler itself waits for    *)
(* room to send its probe, with no alarm set.                               *)
Unnoticed == ~up /\ ClientUp /\ (stdineof \/ (probing /\ ~RoomToServer))

(* Each side ends: it comes to the end of the session or gives the other    *)
(* up.  The server always does; the client unless it is Unnoticed.          *)
Settled == ~ServerUp /\ (~ClientUp \/ Unnoticed)
EverySessionEnds == <>[]Settled
=============================================================================
