---------------------------- MODULE DgSendRecv -----------------------------
(***************************************************************************)
(* rtt/dg_send_recv.cpp over rtt.cpp: a reliable request over UDP.  A call *)
(* numbers its request, sends it with a timestamp, waits with an alarm of  *)
(* rtt_rto seconds, resends on SIGALRM (siglongjmp back to sigsetjmp) and  *)
(* gives up after RTT_MAXNREXMT retransmissions.  The server (dg_echo)     *)
(* sends every datagram back unchanged.                                    *)
(*                                                                         *)
(* The network may lose, delay, duplicate and reorder: both directions are *)
(* sets of datagrams that only grow; one never received is lost, one       *)
(* received twice was duplicated.  Timestamps are relative to rtt_base, so *)
(* a datagram is stamped with the epoch, the number of calls of rtt_init,  *)
(* in which the timestamp was taken, and the number of its transmission.   *)
(*                                                                         *)
(* rtt_rto is a float.  Here it is a whole number of parts of a second, of *)
(* which there are PerSecond: every float from RTT_RXTMIN = 2 on is one if *)
(* PerSecond is 2^22, and doubling it is exact.                            *)
(***************************************************************************)
EXTENDS Integers, Sequences, FiniteSets

CONSTANTS
  MaxCalls,       \* bound: calls of dg_send_recv
  RTT_RXTMIN, RTT_RXTMAX, RTT_MAXNREXMT,
  PerSecond,      \* parts of a second in which rtt_rto is counted
  Estimates       \* values srtt + 4 * rttvar may take, in these parts

ASSUME RttAssumption ==
  /\ MaxCalls \in Nat
  /\ RTT_RXTMIN \in Nat \ {0} /\ RTT_RXTMAX \in Nat /\ RTT_RXTMIN <= RTT_RXTMAX
  /\ RTT_MAXNREXMT \in Nat /\ PerSecond \in Nat \ {0}
  /\ Estimates \subseteq Nat

VARIABLES
  pc,         \* "idle", "send", "alarm", "setjmp", "recv", "got" or "crashed"
  call,       \* the current call, and so the line the caller sends
  seq,        \* sendhdr.seq
  rttinit, epoch,
  rto,        \* rtt_rto, in parts of a second
  nrexmt,     \* rtt_nrexmt
  armed,      \* an alarm is running
  sent,       \* datagrams sent to the server
  replies,    \* datagrams it has sent back
  recvd,      \* the datagram in recvhdr and inbuff; {} before the first
  waits,      \* history: the alarms this call has set, in seconds, and the
              \* rtt_rto of each
  result      \* per call: "none", "answer" or "timeout"

vars == <<pc, call, seq, rttinit, epoch, rto, nrexmt, armed, sent, replies, recvd, waits, result>>

Calls == 1 .. MaxCalls

\* A datagram: the header (seq, and ts as epoch and transmission) and the line.
Datagrams == [seq : 0 .. MaxCalls, epoch : 0 .. MaxCalls,
              tx : 0 .. RTT_MAXNREXMT, line : Calls]

TypeOK ==
  /\ pc \in {"idle", "send", "alarm", "setjmp", "recv", "got", "crashed"}
  /\ call \in 0 .. MaxCalls
  /\ seq \in 0 .. MaxCalls
  /\ rttinit \in BOOLEAN /\ epoch \in 0 .. MaxCalls
  /\ rto \in Nat /\ nrexmt \in 0 .. RTT_MAXNREXMT + 1
  /\ armed \in BOOLEAN
  /\ sent \subseteq Datagrams /\ replies \subseteq Datagrams
  /\ recvd \subseteq Datagrams /\ Cardinality(recvd) <= 1
  /\ waits \in Seq([rto : Nat, alarm : Nat])
  /\ result \in [Calls -> {"none", "answer", "timeout"}]

Init ==
  /\ pc = "idle" /\ call = 0 /\ seq = 0
  /\ rttinit = FALSE /\ epoch = 0 /\ rto = 0 /\ nrexmt = 0
  /\ armed = FALSE
  /\ sent = {} /\ replies = {} /\ recvd = {} /\ waits = <<>>
  /\ result = [c \in Calls |-> "none"]

----------------------------------------------------------------------------
(* rtt.cpp.                                                                *)

Least == RTT_RXTMIN * PerSecond
Greatest == RTT_RXTMAX * PerSecond

rtt_minmax(r) == IF r < Least THEN Least ELSE IF r > Greatest THEN Greatest ELSE r

\* The first estimate: srtt + 4 * 0.75.
rtt_init == epoch' = epoch + 1 /\ rto' = rtt_minmax(3 * PerSecond)

\* (int) (rtt_rto + 0.5)
rtt_start == (2 * rto + PerSecond) \div (2 * PerSecond)

rtt_stop == \E est \in Estimates : rto' = rtt_minmax(est)

GiveUpAfter_OneMore(n) == n > RTT_MAXNREXMT + 1
GiveUpAfter(n) == n > RTT_MAXNREXMT

----------------------------------------------------------------------------
(* dg_send_recv.                                                           *)

NextSeq_Same == seq
NextSeq == seq + 1

Enter ==
  /\ pc = "idle" /\ call < MaxCalls
  /\ call' = call + 1
  /\ IF rttinit THEN UNCHANGED <<rttinit, epoch, rto>> ELSE rttinit' = TRUE /\ rtt_init
  /\ seq' = NextSeq
  /\ nrexmt' = 0 /\ waits' = <<>>
  /\ pc' = "send"
  /\ UNCHANGED <<armed, sent, replies, recvd, result>>

Send ==
  /\ pc = "send"
  /\ sent' = sent \cup {[seq |-> seq, epoch |-> epoch, tx |-> nrexmt, line |-> call]}
  /\ pc' = "alarm"
  /\ UNCHANGED <<call, seq, rttinit, epoch, rto, nrexmt, armed, replies, recvd, waits, result>>

\* alarm() comes before sigsetjmp.
SetAlarm_FirstOnly == armed' = (nrexmt = 0)
SetAlarm == armed' = TRUE

Arm ==
  /\ pc = "alarm"
  /\ SetAlarm /\ waits' = Append(waits, [rto |-> rto, alarm |-> rtt_start])
  /\ pc' = "setjmp"
  /\ UNCHANGED <<call, seq, rttinit, epoch, rto, nrexmt, sent, replies, recvd, result>>

SetJmp ==
  /\ pc = "setjmp"
  /\ pc' = "recv"
  /\ UNCHANGED <<call, seq, rttinit, epoch, rto, nrexmt, armed, sent, replies, recvd, waits, result>>

\* The loop ends on the sequence number of this call, not on its timestamp.
Expected_Any(d) == TRUE
Expected(d) == d.seq = seq

Receive ==
  /\ pc = "recv"
  /\ \E d \in replies :
       /\ recvd' = {d}
       /\ pc' = IF Expected(d) THEN "got" ELSE "recv"
  /\ UNCHANGED <<call, seq, rttinit, epoch, rto, nrexmt, armed, sent, replies, waits, result>>

\* SIGALRM before this call has set the jump buffer: it is empty, or holds the
\* frame of the call before, which has returned, so that the jump is undefined.
\* That frame had the same caller and place, so it may work as if it lived.
Astray ==
  /\ armed /\ pc = "setjmp" /\ nrexmt = 0
  /\ armed' = FALSE
  /\ pc' = "crashed"
  /\ UNCHANGED <<call, seq, rttinit, epoch, rto, nrexmt, sent, replies, recvd, waits, result>>

\* Where siglongjmp finds the sigsetjmp of a frame at this place of the stack.
Jumps == pc \in {"recv", "got"} \/ (pc = "setjmp" /\ (nrexmt > 0 \/ call > 1))

\* SIGALRM, in Recvmsg, between its return and alarm(0), or before sigsetjmp is
\* called again: siglongjmp, rtt_timeout, and another transmission or the end.
StopRtt_Kept == UNCHANGED rttinit
StopRtt == rttinit' = FALSE

Timeout ==
  /\ armed /\ Jumps
  /\ armed' = FALSE
  /\ rto' = 2 * rto
  /\ nrexmt' = nrexmt + 1
  /\ IF GiveUpAfter(nrexmt')
     THEN /\ pc' = "idle"
          /\ StopRtt
          /\ result' = [result EXCEPT ![call] = "timeout"]
     ELSE pc' = "send" /\ UNCHANGED <<rttinit, result>>
  /\ UNCHANGED <<call, seq, epoch, sent, replies, recvd, waits>>

\* alarm(0), rtt_stop with the timestamp that came back, return.
Disarm_Forgotten == UNCHANGED armed
Disarm == armed' = FALSE

Return ==
  /\ pc = "got"
  /\ Disarm
  /\ rtt_stop
  /\ result' = [result EXCEPT ![call] = "answer"]
  /\ pc' = "idle"
  /\ UNCHANGED <<call, seq, rttinit, epoch, nrexmt, sent, replies, recvd, waits>>

----------------------------------------------------------------------------
\* dg_echo: receives a datagram (perhaps again) and sends it back.
Echo ==
  /\ \E d \in sent \ replies : replies' = replies \cup {d}
  /\ UNCHANGED <<pc, call, seq, rttinit, epoch, rto, nrexmt, armed, sent, recvd, waits, result>>

Client == Enter \/ Send \/ Arm \/ SetJmp \/ Receive \/ Timeout \/ Astray \/ Return

Next == Client \/ Echo

Spec == Init /\ [][Next]_vars

\* The client runs once it is called, and an alarm that is not turned off goes
\* off at last.
Step == Send \/ Arm \/ SetJmp \/ Return
FairSpec == Spec /\ WF_vars(Step) /\ WF_vars(Timeout)

----------------------------------------------------------------------------
(* Properties.                                                             *)

\* The answer a call returns is the echo of its own line, never a late answer
\* to an earlier call, however datagrams are delayed and duplicated.
AnswerIsOwn ==
  [][\A c \in Calls : result[c] = "none" /\ result'[c] = "answer" =>
       \A d \in recvd : d.line = c]_vars

\* rtt_ts - recvhdr.ts never mixes two values of rtt_base: the timestamp that
\* comes back was taken since the last rtt_init, so the unsigned difference
\* does not wrap.
TimestampOfThisBase ==
  pc = "got" => \A d \in recvd : d.epoch = epoch /\ d.tx <= nrexmt

\* A call gives up only after RTT_MAXNREXMT retransmissions and never sends a
\* request more often than that.  Its first timeout is a clamped value, also
\* after a give-up, never the doubled value that left.  The later ones are not
\* clamped: each is exactly twice the one before.  Every alarm is the timeout to
\* the nearest second, so that what the rounding takes or adds is never doubled.
Mine(c) == {d \in sent : d.line = c}
Nearest(w) == 2 * (PerSecond * w.alarm - w.rto) \in -PerSecond .. PerSecond

RetransmissionBounded ==
  /\ \A c \in Calls :
       /\ Cardinality(Mine(c)) <= RTT_MAXNREXMT + 1
       /\ result[c] = "timeout" => Cardinality(Mine(c)) = RTT_MAXNREXMT + 1
  /\ waits # <<>> => waits[1].rto \in Least .. Greatest
  /\ \A k \in 2 .. Len(waits) : waits[k].rto = 2 * waits[k - 1].rto
  /\ \A k \in 1 .. Len(waits) : Nearest(waits[k])

\* SIGALRM never jumps out of a call that is over: an alarm runs only from
\* alarm() to alarm(0) or the timeout.  The one jump that can go astray is that
\* of a first transmission, between alarm() and sigsetjmp; once a call has set
\* the buffer, none of its retransmissions can.
AlarmOnlyInCall ==
  /\ armed => pc \in {"setjmp", "recv", "got"}
  /\ pc = "crashed" => nrexmt = 0 /\ result[call] = "none"

\* Every call that begins returns, with an answer or after the last timeout,
\* unless its alarm went off before the jump buffer was set.
Settled == pc = "crashed" \/ \A c \in 1 .. call : result[c] # "none"
CallReturns == <>[]Settled
=============================================================================
