----------------------------- MODULE Traceroute -----------------------------
(***************************************************************************)
(* traceroute: nprobes datagrams for each ttl, one at a time, to ports     *)
(* nobody should listen on; recv_v4 waits at most three seconds for the    *)
(* ICMP message that the router where the ttl ran out, or the destination, *)
(* sends back, and recognises it by the port that names the probe.         *)
(*                                                                         *)
(* The network answers each probe once or never, as late as it likes, and  *)
(* the raw socket also receives the ICMP messages of other programs.       *)
(***************************************************************************)
EXTENDS Naturals, Sequences

CONSTANTS max_ttl, nprobes

Probes == 1 .. max_ttl * nprobes
Ttl(s) == 1 + (s - 1) \div nprobes

\* ICMP messages: TIMXCEED, UNREACH with code PORT or another, the rest.
Kinds == {"exceeded", "port", "unreach", "other"}
Foreign == 0    \* a message about a datagram that is none of ours
None == "none"

VARIABLES
  distance,   \* hops to the destination, beyond max_ttl if it is not reached
  pc,         \* "probe" (head of the probe loop), "check" (of gotalarm),
              \* "recv" (before recvfrom), "blocked" (in it),
              \* "matched" (before alarm(0)), "end" or "crashed"
  ttl, probe, seq,
  done,       \* answers from the destination
  gotalarm,
  armed,      \* an alarm is set
  hip,        \* whether this call of recv_v4 has assigned hip and hlen2
  queue,      \* messages in the raw socket
  answer,     \* for each probe, and Foreign, the kind of message sent about it
  code,       \* what recv_v4 returned for the latest probe, "timeout" or a kind
  rang,       \* the alarm of the latest probe went off
  reached     \* the ttl at which the destination first answered, or 0

vars == <<distance, pc, ttl, probe, seq, done, gotalarm, armed, hip, queue, answer, code, rang, reached>>
loop == <<distance, ttl, probe, seq, reached>>

TypeOK ==
  /\ distance \in 1 .. max_ttl + 1
  /\ pc \in {"probe", "check", "recv", "blocked", "matched", "end", "crashed"}
  /\ ttl \in 1 .. max_ttl + 1 /\ probe \in 0 .. nprobes /\ seq \in {0} \cup Probes
  /\ done \in 0 .. nprobes
  /\ gotalarm \in BOOLEAN /\ armed \in BOOLEAN /\ hip \in BOOLEAN
  /\ queue \in Seq([seq : {Foreign} \cup Probes, kind : Kinds])
  /\ answer \in [{Foreign} \cup Probes -> Kinds \cup {None}]
  /\ code \in Kinds \cup {None, "timeout"}
  /\ rang \in BOOLEAN /\ reached \in 0 .. max_ttl

\* sig_alrm is called once by hand before the first probe.
Init ==
  /\ distance \in 1 .. max_ttl + 1
  /\ pc = "probe" /\ ttl = 1 /\ probe = 0 /\ seq = 0 /\ done = 0
  /\ gotalarm = TRUE /\ armed = FALSE /\ hip = FALSE
  /\ queue = <<>>
  /\ answer = [s \in {Foreign} \cup Probes |-> None]
  /\ code = None /\ rang = FALSE /\ reached = 0
-----------------------------------------------------------------------------
(* The network.  A probe whose ttl ends before the destination is answered *)
(* by a router, another by the destination, or by the router before it     *)
(* when that cannot deliver it.                                            *)
Answers(s) ==
  IF s = Foreign THEN {"exceeded", "unreach", "other"}
  ELSE IF Ttl(s) < distance THEN {"exceeded"} ELSE {"port", "unreach"}

Arrive(s) ==
  /\ s <= seq /\ answer[s] = None
  /\ \E k \in Answers(s) :
       /\ answer' = [answer EXCEPT ![s] = k]
       /\ queue' = Append(queue, [seq |-> s, kind |-> k])
  /\ UNCHANGED <<loop, pc, done, gotalarm, armed, hip, code, rang>>
-----------------------------------------------------------------------------
(* traceloop.                                                              *)

\* The start of recv_v4 forgets the alarm of an earlier probe.
GotAlarmAtStart == FALSE

\* Send the next probe of this ttl and call recv_v4, whose hip and hlen2 start
\* out unassigned.
Send ==
  /\ pc = "probe" /\ probe < nprobes
  /\ probe' = probe + 1 /\ seq' = seq + 1
  /\ gotalarm' = GotAlarmAtStart /\ armed' = TRUE /\ hip' = FALSE
  /\ pc' = "check" /\ code' = None /\ rang' = FALSE
  /\ UNCHANGED <<distance, ttl, done, queue, answer, reached>>

\* Mutant: one ttl too many.
Continues_TooFar == ttl <= max_ttl /\ done = 0

\* Is there another ttl to try?
Continues == ttl < max_ttl /\ done = 0

NextTtl ==
  /\ pc = "probe" /\ probe = nprobes
  /\ ttl' = ttl + 1
  /\ IF Continues THEN pc' = "probe" /\ probe' = 0 ELSE pc' = "end" /\ UNCHANGED probe
  /\ UNCHANGED <<distance, seq, done, gotalarm, armed, hip, queue, answer, code, rang, reached>>
-----------------------------------------------------------------------------
(* recv_v4.                                                                *)

\* The flag is tested before recvfrom, not while it sleeps.
Check ==
  /\ pc = "check"
  /\ IF gotalarm
     THEN pc' = "probe" /\ code' = "timeout"
     ELSE pc' = "recv" /\ UNCHANGED code
  /\ UNCHANGED <<loop, done, gotalarm, armed, hip, queue, answer, rang>>

Sleep ==
  /\ pc = "recv" /\ queue = <<>> /\ pc' = "blocked"
  /\ UNCHANGED <<loop, done, gotalarm, armed, hip, queue, answer, code, rang>>

\* Mutant: any message about one of our probes.
IsOwn_Any(m) == m.seq # Foreign

\* The ports in the returned header are those of the current probe.
IsOwn(m) == m.seq = seq

\* What the branch for a message of kind k may do with it.  The branch for
\* TIMXCEED assigns hip and hlen2 first; the branch for UNREACH reads them, and
\* when this call has not assigned them, what it reads is whatever is there.
Outcomes(m) ==
  CASE m.kind = "other" -> {"ignored"}
    [] m.kind = "exceeded" \/ hip -> {IF IsOwn(m) THEN "matched" ELSE "ignored"}
    [] OTHER -> {"ignored", "crashed"} \cup (IF IsOwn(m) THEN {"matched"} ELSE {})

Receive ==
  /\ pc \in {"recv", "blocked"} /\ queue # <<>>
  /\ queue' = Tail(queue)
  /\ LET m == Head(queue) IN
       /\ hip' = (hip \/ m.kind = "exceeded")
       /\ \E o \in Outcomes(m) :
            \/ o = "matched" /\ pc' = "matched" /\ code' = m.kind
            \/ o = "ignored" /\ pc' = "check" /\ UNCHANGED code
            \/ o = "crashed" /\ pc' = "crashed" /\ UNCHANGED code
  /\ UNCHANGED <<loop, done, gotalarm, armed, answer, rang>>

\* alarm(0), and traceloop counts the destination's answers.
Matched ==
  /\ pc = "matched"
  /\ armed' = FALSE
  /\ IF code = "port"
     THEN done' = done + 1 /\ reached' = IF done = 0 THEN ttl ELSE reached
     ELSE UNCHANGED <<done, reached>>
  /\ pc' = "probe"
  /\ UNCHANGED <<distance, ttl, probe, seq, gotalarm, hip, queue, answer, code, rang>>

\* sig_alrm: only a recvfrom that sleeps is interrupted, and goes back to the
\* test of the flag.
Alarm ==
  /\ armed /\ pc # "crashed"
  /\ armed' = FALSE /\ gotalarm' = TRUE /\ rang' = TRUE
  /\ pc' = IF pc = "blocked" THEN "check" ELSE pc
  /\ UNCHANGED <<loop, done, hip, queue, answer, code>>
-----------------------------------------------------------------------------
Step == Send \/ NextTtl \/ Check \/ Sleep \/ Receive \/ Matched

Next == Step \/ Alarm \/ \E s \in {Foreign} \cup Probes : Arrive(s)

Spec == Init /\ [][Next]_vars

\* The program runs whenever it can and alarms go off; the network owes nothing.
FairSpec == Spec /\ WF_vars(Step) /\ WF_vars(Alarm)
-----------------------------------------------------------------------------
(* What is printed for a probe is what was sent about that very probe, and  *)
(* not a late answer to an earlier one or somebody else's message; and once *)
(* the destination answered a probe, no probe with a larger ttl is sent.    *)
AnswersAttributed ==
  /\ code \in {None, "timeout"} \/ code = answer[seq]
  /\ reached > 0 => seq <= nprobes * reached

(* A probe is given up only because its own alarm went off, not because     *)
(* gotalarm was still set by hand or by the alarm of an earlier probe.      *)
NoStaleTimeout == code = "timeout" => rang

\* The alarm went off between the test of gotalarm and recvfrom, and nothing
\* arrives any more.
Stuck == pc = "blocked" /\ queue = <<>> /\ ~armed /\ gotalarm

(* Every wait ends: the trace reaches its end, or it is stopped by the       *)
(* uninitialised pointer, or the one alarm of a wait came too early to       *)
(* interrupt it.                                                             *)
Settled == pc \in {"end", "crashed"} \/ Stuck
EveryWaitEnds == <>[]Settled
=============================================================================
