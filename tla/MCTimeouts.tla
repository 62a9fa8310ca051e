----------------------------- MODULE MCTimeouts -----------------------------
(***************************************************************************)
(* The clients of a network that may never answer, DgSendRecv, UdpClient,  *)
(* Traceroute and Heartbeat, asked the same question: is an answer, or a   *)
(* timeout, ever taken for that of another wait?  One of them runs; the    *)
(* others stay in their initial states.                                    *)
(***************************************************************************)
EXTENDS DgSendRecv, UdpParams

CONSTANTS max_ttl, nprobes

\* main: -m wants more than 1, and nprobes is 3.
ASSUME TraceAssumption == max_ttl \in Nat \ {0} /\ nprobes \in Nat \ {0}

VARIABLES
  runs,       \* "dg", "udp", "trace" or "beat"
  program, upc, line, arrived, queue, uarmed, pending, pipe, expired,
  shown, ignored, dropped, timeouts,
  distance, tpc, ttl, probe, tseq, done, gotalarm, tarmed, hip, tqueue, answer, code, rang, reached,
  session, up, c2s, s2c, c2sUrg, s2cUrg, cfin, sfin, curg, surg, csig, ssig,
  cm, probing, cend, lines, stdineof, pend, got, rbuf, hshown, cprobes, carmed,
  sending, serverEnd, held, sprobes

U == INSTANCE UdpClient WITH pc <- upc, armed <- uarmed

T == INSTANCE Traceroute WITH pc <- tpc, seq <- tseq, armed <- tarmed, queue <- tqueue

\* Two lines and impatient programs, to see the data; no data and more
\* patience, to see more than one probe on its way.
TwoLines == [lines |-> 2, room |-> 3, limit |-> 1]
Silence == [lines |-> 0, room |-> 2, limit |-> 2]

H == INSTANCE Heartbeat WITH Sessions <- {TwoLines, Silence}, shown <- hshown

uvars == <<program, upc, line, arrived, queue, uarmed, pending, pipe, expired,
           shown, ignored, dropped, timeouts>>
tvars == <<distance, tpc, ttl, probe, tseq, done, gotalarm, tarmed, hip, tqueue,
           answer, code, rang, reached>>
hvars == <<session, up, c2s, s2c, c2sUrg, s2cUrg, cfin, sfin, curg, surg, csig, ssig,
           cm, probing, cend, lines, stdineof, pend, got, rbuf, hshown, cprobes, carmed,
           sending, serverEnd, held, sprobes>>
allvars == <<runs, vars, uvars, tvars, hvars>>

AnyInit ==
  /\ runs \in {"dg", "udp", "trace", "beat"}
  /\ Init /\ U!Init /\ T!Init /\ H!Init
  /\ runs # "udp" => program = U!dg_cli
  /\ runs # "trace" => distance = 1
  /\ runs # "beat" => session = TwoLines

Dg(A) == runs = "dg" /\ A /\ UNCHANGED <<runs, uvars, tvars, hvars>>
Udp(A) == runs = "udp" /\ A /\ UNCHANGED <<runs, vars, tvars, hvars>>
Trace(A) == runs = "trace" /\ A /\ UNCHANGED <<runs, vars, uvars, hvars>>
Beat(A) == runs = "beat" /\ A /\ UNCHANGED <<runs, vars, uvars, tvars>>
AnyNext == Dg(Next) \/ Udp(U!Next) \/ Trace(T!Next) \/ Beat(H!Next)

\* The fairness of the modules, for the one that runs: the programs run ...
FairSteps ==
  /\ WF_allvars(Dg(Step) \/ Udp(U!Step) \/ Trace(T!Step) \/ Beat(H!ClientHandlerStep))
  /\ WF_allvars(Beat(H!ServerHandlerStep))
  /\ SF_allvars(Beat(H!ClientMainStep)) /\ SF_allvars(Beat(H!ServerMainStep))

\* ... alarms go off, and SIGURG is delivered.
FairSignals ==
  /\ WF_allvars(Dg(Timeout) \/ Udp(U!Alarm) \/ Trace(T!Alarm) \/ Beat(H!ClientAlarm))
  /\ WF_allvars(Beat(H!ServerAlarm))
  /\ WF_allvars(Beat(H!NotifyServer)) /\ WF_allvars(Beat(H!NotifyClient))

AnySpec == AnyInit /\ [][AnyNext]_allvars /\ FairSteps /\ FairSignals

\* The modules' type invariants.
AllTypeOK == TypeOK /\ U!TypeOK /\ T!TypeOK /\ H!TypeOK

\* UdpClient's AnswersAccounted, Traceroute's AnswersAttributed and Heartbeat's
\* EchoConserved: every answer belongs to the wait it ended, and none is lost.
NoAnswerMistaken == U!AnswersAccounted /\ T!AnswersAttributed /\ H!EchoConserved

\* The NoStaleTimeout of UdpClient and Traceroute, and Heartbeat's HeartbeatOff:
\* a wait is given up for its own timeout only.
NoTimeoutMistaken == U!NoStaleTimeout /\ T!NoStaleTimeout /\ H!HeartbeatOff

\* Whichever program runs, it ends, or waits in the way its module excuses.
EveryWaitSettled ==
  <>[](CASE runs = "dg" -> Settled [] runs = "udp" -> U!Settled
         [] runs = "trace" -> T!Settled [] OTHER -> H!Settled)

\* Heartbeat's InterruptedReadRetried.
InterruptedReadRetried == H!InterruptedReadRetried
=============================================================================
