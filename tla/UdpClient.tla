----------------------------- MODULE UdpClient -----------------------------
(***************************************************************************)
(* The UDP clients of the repository: dg_cli sends each line of input as a *)
(* datagram and shows what comes back.  They differ only in how they give  *)
(* up waiting: never (dg_cli.cpp, udpEcho1, udpEcho2), by SO_RCVTIMEO, by  *)
(* select with a timeout, by SIGALRM interrupting recvfrom, and, for the   *)
(* broadcast clients that collect replies until the alarm, by pselect, by  *)
(* siglongjmp or through a pipe that the handler writes to.                *)
(*                                                                         *)
(* The network loses, delays and reorders: every datagram sent may be      *)
(* answered up to MaxAnswers times, at any later moment, and one datagram  *)
(* may come from somebody else.                                            *)
(***************************************************************************)
EXTENDS UdpParams, Sequences, FiniteSets

\* How a client waits, whether it collects replies until the alarm, whether it
\* compares the sender of a reply with the server, whether it is connected.
Client(wait, collects, compares, connected) ==
  [wait |-> wait, collects |-> collects, compares |-> compares, connected |-> connected]

dg_cli == Client("block", FALSE, FALSE, FALSE)
dg_cli_reply_addr == Client("block", FALSE, TRUE, FALSE)
dg_cli_connect == Client("block", FALSE, FALSE, TRUE)
dg_cli_rcvtimeo == Client("timer", FALSE, FALSE, FALSE)
dg_cli_select == Client("timer", FALSE, FALSE, FALSE)
dg_cli_alarm == Client("alarm", FALSE, FALSE, FALSE)
dg_cli_pselect == Client("pselect", TRUE, FALSE, FALSE)
dg_cli_jump == Client("jump", TRUE, FALSE, FALSE)
dg_cli_pipe == Client("pipe", TRUE, FALSE, FALSE)

Programs == {dg_cli, dg_cli_reply_addr, dg_cli_connect, dg_cli_rcvtimeo, dg_cli_select,
             dg_cli_alarm, dg_cli_pselect, dg_cli_jump, dg_cli_pipe}

Foreign == 0    \* the "line" a datagram from somebody else answers
Lines == 1 .. MaxLines

VARIABLES
  program,
  pc,         \* "fgets", "setjmp" (the alarm is set, sigsetjmp is next), "wait"
              \* (about to wait), "blocked" (in recvfrom), "got" (a datagram
              \* in recvline), "done", "failed" or "crashed"
  line,       \* lines sent so far
  arrived,    \* for each line, and Foreign, the datagrams that reached the socket
  queue,      \* the socket's receive buffer
  armed,      \* an alarm is set
  pending,    \* a blocked SIGALRM waits for pselect to unblock it
  pipe,       \* bytes in pipefd
  expired,    \* the select that found the datagram also found the pipe readable
  shown, ignored, dropped, timeouts   \* what became of datagrams and waits

vars == <<program, pc, line, arrived, queue, armed, pending, pipe, expired,
          shown, ignored, dropped, timeouts>>
counts == <<shown, ignored, dropped, timeouts>>
timers == <<armed, pending, pipe, expired>>

Is(wait) == program.wait = wait
UsesAlarm == program.wait \in {"alarm", "pselect", "jump", "pipe"}

TypeOK ==
  /\ program \in Programs
  /\ pc \in {"fgets", "setjmp", "wait", "blocked", "got", "done", "failed", "crashed"}
  /\ line \in 0 .. MaxLines
  /\ arrived \in [Lines \cup {Foreign} -> Nat]
  /\ queue \in Seq(Lines \cup {Foreign})
  /\ armed \in BOOLEAN /\ pending \in BOOLEAN /\ expired \in BOOLEAN
  /\ pipe \in 0 .. 1
  /\ shown \in Nat /\ ignored \in Nat /\ dropped \in Nat /\ timeouts \in Nat

Init ==
  /\ program \in Programs
  /\ pc = "fgets" /\ line = 0
  /\ arrived = [l \in Lines \cup {Foreign} |-> 0] /\ queue = <<>>
  /\ armed = FALSE /\ pending = FALSE /\ pipe = 0 /\ expired = FALSE
  /\ shown = 0 /\ ignored = 0 /\ dropped = 0 /\ timeouts = 0
-----------------------------------------------------------------------------
(* The network: an answer, late or not, or a datagram of somebody else,    *)
(* which a connected socket does not accept.                               *)

Arrive(l) ==
  /\ arrived' = [arrived EXCEPT ![l] = @ + 1]
  /\ queue' = Append(queue, l)
  /\ UNCHANGED <<program, pc, line, timers, counts>>

Answer(l) == l <= line /\ arrived[l] < MaxAnswers /\ Arrive(l)
Intrude == ~program.connected /\ arrived[Foreign] = 0 /\ Arrive(Foreign)

\* Nobody listens on the port (any more): a connected socket is told, and Read
\* is fatal, whatever is queued.
Refused ==
  /\ program.connected /\ pc = "wait"
  /\ pc' = "failed"
  /\ UNCHANGED <<program, line, arrived, queue, timers, counts>>
-----------------------------------------------------------------------------
(* Fgets, Sendto and, in the clients that use it, alarm(5).                *)
Send ==
  /\ pc = "fgets" /\ line < MaxLines
  /\ line' = line + 1 /\ pc' = (IF Is("jump") THEN "setjmp" ELSE "wait")
  /\ armed' = UsesAlarm
  /\ UNCHANGED <<program, arrived, queue, pending, pipe, expired, counts>>

\* alarm(5) comes before sigsetjmp.  The loop calls it again for each reply; the
\* buffer it then replaces is of the same frame and place.
SetJmp ==
  /\ pc = "setjmp" /\ pc' = "wait"
  /\ UNCHANGED <<program, line, arrived, queue, timers, counts>>

Eof ==
  /\ pc = "fgets" /\ line = MaxLines /\ pc' = "done"
  /\ UNCHANGED <<program, line, arrived, queue, timers, counts>>

\* recvfrom finds nothing and sleeps (told apart only where a signal has to
\* interrupt it).
Sleep ==
  /\ Is("alarm") /\ pc = "wait" /\ queue = <<>> /\ pc' = "blocked"
  /\ UNCHANGED <<program, line, arrived, queue, timers, counts>>

\* The wait ends with a datagram.  select reports the pipe in the same call if
\* the handler has written to it.
Receive ==
  /\ pc \in {"wait", "blocked"} /\ queue # <<>>
  /\ pc' = "got" /\ queue' = Tail(queue)
  /\ expired' = (pipe > 0)
  /\ IF program.compares /\ Head(queue) = Foreign
     THEN ignored' = ignored + 1 /\ UNCHANGED shown
     ELSE shown' = shown + 1 /\ UNCHANGED ignored
  /\ UNCHANGED <<program, line, arrived, armed, pending, pipe, dropped, timeouts>>

\* Where a client goes once a datagram is dealt with.
AfterPrint == IF program.collects THEN "wait" ELSE "fgets"

\* alarm(0) of the client that lets the alarm interrupt recvfrom.
ArmedAfter == armed /\ ~Is("alarm")

\* The end of the round: the datagram is on stdout, or was named and ignored.
\* A select that also reported the pipe ends the collection.
Finish ==
  /\ pc = "got"
  /\ armed' = ArmedAfter
  /\ IF expired
     THEN pc' = "fgets" /\ pipe' = 0 /\ expired' = FALSE /\ timeouts' = timeouts + 1
     ELSE pc' = AfterPrint /\ UNCHANGED <<pipe, expired, timeouts>>
  /\ UNCHANGED <<program, line, arrived, queue, pending, shown, ignored, dropped>>

GiveUp == pc' = "fgets" /\ timeouts' = timeouts + 1

\* SO_RCVTIMEO or the timeout of select runs out: there is nothing to read.
TimerExpires ==
  /\ Is("timer") /\ pc = "wait" /\ queue = <<>>
  /\ GiveUp
  /\ UNCHANGED <<program, line, arrived, queue, timers, shown, ignored, dropped>>

\* pselect is interrupted by the SIGALRM it alone lets through.
Interrupted ==
  /\ pc = "wait" /\ pending
  /\ GiveUp /\ pending' = FALSE
  /\ UNCHANGED <<program, line, arrived, queue, armed, pipe, expired, shown, ignored, dropped>>

\* select reports the pipe and not the socket.
PipeReadable ==
  /\ pc = "wait" /\ pipe > 0 /\ queue = <<>>
  /\ GiveUp /\ pipe' = 0
  /\ UNCHANGED <<program, line, arrived, queue, armed, pending, expired, shown, ignored, dropped>>
-----------------------------------------------------------------------------
(* SIGALRM.  What it does depends on the client and on where it is hit.    *)

\* Mutant: the handler only returns.
PipeAfterAlarm_None == pipe

\* The handler leaves a byte in the pipe.
PipeAfterAlarm == IF Is("pipe") THEN 1 ELSE pipe

\* Until the first line's sigsetjmp the buffer is empty; afterwards it is one of
\* this frame.
NoBuffer == pc = "setjmp" /\ line = 1

\* siglongjmp through an empty buffer.
Astray == NoBuffer /\ pc' = "crashed" /\ UNCHANGED <<pending, pipe, counts>>

\* siglongjmp leaves the loop from wherever it is: a datagram that was received
\* but not printed is gone.
Jump ==
  /\ ~NoBuffer /\ GiveUp
  /\ IF pc = "got" THEN dropped' = dropped + 1 /\ shown' = shown - 1
                   ELSE UNCHANGED <<dropped, shown>>
  /\ UNCHANGED <<pending, pipe, ignored>>

\* Only a recvfrom that sleeps is interrupted; before or after it the handler
\* returns and the signal is forgotten.
Interrupt ==
  /\ IF pc = "blocked" THEN GiveUp ELSE UNCHANGED <<pc, timeouts>>
  /\ UNCHANGED <<pending, pipe, shown, ignored, dropped>>

Alarm ==
  /\ armed /\ armed' = FALSE
  /\ \/ Is("alarm") /\ Interrupt
     \/ Is("jump") /\ (Jump \/ Astray)
     \/ Is("pselect") /\ pending' = TRUE /\ UNCHANGED <<pc, pipe, counts>>
     \/ Is("pipe") /\ pipe' = PipeAfterAlarm /\ UNCHANGED <<pc, pending, counts>>
  /\ UNCHANGED <<program, line, arrived, queue, expired>>
-----------------------------------------------------------------------------
Step == Send \/ SetJmp \/ Eof \/ Sleep \/ Receive \/ Finish \/ TimerExpires \/ Interrupted
          \/ PipeReadable

Next == (\E l \in Lines : Answer(l)) \/ Intrude \/ Refused \/ Step \/ Alarm

Spec == Init /\ [][Next]_vars

\* The client runs whenever it can, the timers run out (the timer of recvfrom
\* and select is a disjunct of Step, where nothing else is enabled); the network
\* owes nothing.
FairSpec == Spec /\ WF_vars(Step) /\ WF_vars(Alarm)
-----------------------------------------------------------------------------
\* The datagrams that reached the socket.
Arrivals == Cardinality(UNION {{l} \X (1 .. arrived[l]) : l \in Lines \cup {Foreign}})

Waiting == IF pc \in {"fgets", "done"} THEN 0 ELSE 1

(* Every datagram that reached the socket is unread, shown, ignored as      *)
(* somebody else's, or was dropped by the jump out of the handler (at most  *)
(* one per alarm); and every line sent has exactly one outcome: one         *)
(* datagram read, or a timeout, and for the clients that collect replies    *)
(* exactly one alarm.  A second outcome would leave all later answers       *)
(* shown for the wrong line.                                                *)
AnswersAccounted ==
  /\ Arrivals = Len(queue) + shown + ignored + dropped
  /\ dropped > 0 => Is("jump") /\ dropped <= timeouts
  /\ line = Waiting + timeouts
       + IF program.collects THEN 0
         ELSE shown + ignored - (IF pc = "got" THEN 1 ELSE 0)

(* The timeout of one line never ends the wait for the next: whenever the   *)
(* client is back at Fgets, no alarm is set, no SIGALRM is held back and no *)
(* byte is left in the pipe.  The alarm of a first line alone can find no   *)
(* buffer to jump to: once a line has been given up, none does.             *)
NoStaleTimeout ==
  /\ pc \in {"fgets", "done"} => ~armed /\ ~pending /\ pipe = 0
  /\ pc = "crashed" => Is("jump") /\ timeouts = 0 /\ shown = 0

(* The waits that nothing ends: without a timeout and an answer, or because *)
(* the alarm came after alarm(5) and before recvfrom slept.                 *)
Stuck ==
  /\ pc \in {"wait", "blocked"} /\ queue = <<>>
  /\ Is("block") \/ (Is("alarm") /\ ~armed)

(* Every client gets through its input, unless it waits without a timeout   *)
(* for an answer that is lost, its alarm went off before it slept, or, with  *)
(* siglongjmp, before the first sigsetjmp; the clients with timer, pselect  *)
(* and pipe always do.                                                      *)
Settled == pc \in {"done", "failed"} \/ Stuck \/ (pc = "crashed" /\ Is("jump") /\ line = 1)
EveryWaitEnds == <>[]Settled
=============================================================================
