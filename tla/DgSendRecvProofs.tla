-------------------------- MODULE DgSendRecvProofs --------------------------
(***************************************************************************)
(* Proofs about DgSendRecv for every number of calls and retransmissions,  *)
(* every clamp and every sequence of estimates: an answer belongs to the   *)
(* request of its call and carries a timestamp of the current base,        *)
(* retransmission is bounded and its timeouts double, whatever the alarms   *)
(* are rounded to, and no alarm outlives its call.  Then about UdpClient,  *)
(* Traceroute and Heartbeat, as MCTimeouts instantiates them: answers and  *)
(* timeouts are never those of another wait.                               *)
(***************************************************************************)
EXTENDS MCTimeouts, FiniteSetTheorems, SequenceTheorems, TLAPS

InCall == pc # "idle"

\* 2.25 seconds are waited for as 2, and then 4.5 as 5.
AlarmsAlmostDouble ==
  \A k \in 2 .. Len(waits) :
    waits[k].alarm \in 2 * waits[k - 1].alarm - 1 .. 2 * waits[k - 1].alarm + 1

\* The numbers of a call: the sequence number counts the calls, the base is
\* set in a call at the latest, and a call goes on only as long as it may send.
Numbers ==
  /\ seq = call /\ epoch <= call
  /\ InCall => call > 0 /\ nrexmt <= RTT_MAXNREXMT /\ result[call] = "none"
  /\ \A c \in Calls : c > call => result[c] = "none"

\* What is on the network: every datagram carries its call's number, and those
\* of the current call its base and the number of their transmission.
Sent ==
  /\ replies \subseteq sent /\ recvd \subseteq replies
  /\ \A d \in sent : d.seq = d.line /\ d.line <= call
  /\ InCall => \A d \in sent : d.line = call =>
                 /\ d.epoch = epoch /\ d.tx <= nrexmt
                 /\ pc = "send" => d.tx < nrexmt
  /\ pc = "got" => \A d \in recvd : d.seq = seq

\* How often each request was sent.
Counted ==
  /\ \A c \in Calls : IsFiniteSet(Mine(c))
  /\ InCall => Cardinality(Mine(call)) = IF pc = "send" THEN nrexmt ELSE nrexmt + 1

\* The timeouts of this call and the one the next alarm will be set to.
Backoff ==
  /\ pc = "idle" /\ rttinit => rto \in Least .. Greatest
  /\ pc \in {"send", "alarm"} =>
       IF waits = <<>> THEN rto \in Least .. Greatest
                       ELSE rto = 2 * waits[Len(waits)].rto
  /\ pc \in {"setjmp", "recv", "got"} => waits # <<>> /\ rto = waits[Len(waits)].rto

IInv ==
  /\ TypeOK
  /\ Numbers
  /\ Sent
  /\ Counted
  /\ Backoff
  /\ RetransmissionBounded
  /\ AlarmOnlyInCall

-----------------------------------------------------------------------------
(* The clamp, and the rounding of an alarm.                                *)
LEMMA Clamped ==
  ASSUME NEW r \in Nat
  PROVE  rtt_minmax(r) \in Least .. Greatest /\ rtt_minmax(r) \in Nat
<1>1. Least \in Nat /\ Greatest \in Nat /\ Least <= Greatest
  BY RttAssumption DEF Least, Greatest
<1> QED
  BY <1>1 DEF rtt_minmax

LEMMA Division ==
  ASSUME NEW a \in Nat, NEW b \in Nat \ {0}
  PROVE  a \div b \in Nat /\ b * (a \div b) <= a /\ a < b * (a \div b) + b
  OBVIOUS

LEMMA Rounded ==
  ASSUME rto \in Nat
  PROVE  rtt_start \in Nat /\ Nearest([rto |-> rto, alarm |-> rtt_start])
<1> DEFINE a == 2 * rto + PerSecond
           b == 2 * PerSecond
           q == a \div b
<1>1. a \in Nat /\ b \in Nat \ {0} /\ PerSecond \in Nat
  BY RttAssumption
<1>2. q \in Nat /\ b * q <= a /\ a < b * q + b
  BY <1>1, Division
<1>3. b * q = 2 * (PerSecond * q) /\ PerSecond * q \in Nat
  BY <1>1, <1>2
<1>4. rtt_start = q
  BY DEF rtt_start
<1> HIDE DEF q
<1> DEFINE p == PerSecond * q
<1>5. p \in Nat /\ 2 * p <= 2 * rto + PerSecond /\ 2 * rto + PerSecond < 2 * p + 2 * PerSecond
  BY <1>2, <1>3
<1> HIDE DEF p
<1>6. 2 * (p - rto) \in -PerSecond .. PerSecond
  BY <1>1, <1>5
<1> QED
  BY <1>2, <1>4, <1>6 DEF Nearest, p

\* Of two timeouts of which one is twice the other, the alarms of the second
\* are twice those of the first within a second.
LEMMA Almost ==
  ASSUME NEW v \in [rto : Nat, alarm : Nat], NEW w \in [rto : Nat, alarm : Nat],
         Nearest(v), Nearest(w), w.rto = 2 * v.rto
  PROVE  w.alarm \in 2 * v.alarm - 1 .. 2 * v.alarm + 1
<1> DEFINE d == w.alarm - 2 * v.alarm
<1>1. PerSecond \in Nat \ {0} /\ v.alarm \in Nat /\ w.alarm \in Nat /\ v.rto \in Nat /\ d \in Int
  BY RttAssumption
<1>2. PerSecond * d = PerSecond * w.alarm - 2 * (PerSecond * v.alarm)
  BY <1>1
<1>3. 2 * (PerSecond * d) <= 3 * PerSecond /\ -3 * PerSecond <= 2 * (PerSecond * d)
  BY <1>1, <1>2 DEF Nearest
<1> HIDE DEF d
<1>4. d <= 1
  <2>1. d >= 2 => PerSecond * d >= PerSecond * 2
    BY <1>1
  <2> QED
    BY <1>1, <1>3, <2>1
<1>5. -1 <= d
  <2>1. d <= -2 => PerSecond * d <= PerSecond * (-2)
    BY <1>1
  <2> QED
    BY <1>1, <1>3, <2>1
<1> QED
  BY <1>1, <1>4, <1>5 DEF d

LEMMA InitInv == Init => IInv
<1> SUFFICES ASSUME Init PROVE IInv
  OBVIOUS
<1> USE RttAssumption DEF Init
<1>1. \A c \in Calls : Mine(c) = {}
  BY DEF Mine
<1>2. TypeOK
  <2>1. waits \in Seq([rto : Nat, alarm : Nat]) /\ Cardinality(recvd) = 0
    BY FS_EmptySet
  <2>2. rttinit \in BOOLEAN /\ armed \in BOOLEAN
    BY Zenon
  <2> QED
    BY <2>1, <2>2 DEF TypeOK, Calls
<1>3. Numbers /\ Sent /\ Backoff /\ AlarmOnlyInCall
  BY DEF Numbers, Sent, Backoff, AlarmOnlyInCall, InCall, Calls
<1>4. \A c \in Calls : IsFiniteSet(Mine(c)) /\ Cardinality(Mine(c)) = 0
  BY <1>1, FS_EmptySet
<1>5. Counted /\ RetransmissionBounded
  BY <1>4 DEF Counted, RetransmissionBounded, InCall
<1> QED
  BY <1>2, <1>3, <1>5 DEF IInv

-----------------------------------------------------------------------------
(* Each conjunct of IInv is preserved by every step.                       *)

LEMMA NextCases ==
  ASSUME [Next]_vars
  PROVE  \/ Enter \/ Send \/ Arm \/ SetJmp \/ Receive \/ Timeout \/ Astray
         \/ Return \/ Echo \/ UNCHANGED vars
  BY DEF Next, Client

LEMMA TypeStep == IInv /\ [Next]_vars => TypeOK'
<1> SUFFICES ASSUME IInv, [Next]_vars PROVE TypeOK'
  OBVIOUS
<1> USE RttAssumption
<1>0. TypeOK /\ Numbers /\ (InCall => call \in Calls)
  BY DEF IInv, Numbers, Calls, TypeOK
<1>b. rttinit' \in BOOLEAN /\ armed' \in BOOLEAN
  BY <1>0, NextCases, Zenon
     DEF TypeOK, Enter, Send, Arm, SetJmp, Receive, Timeout, Astray, Return, Echo, vars,
         SetAlarm, StopRtt, Disarm
<1>1. CASE Enter
  <2>1. rtt_minmax(3 * PerSecond) \in Nat
    BY Clamped
  <2>2. rto' \in Nat
    BY <1>0, <1>1, <2>1 DEF TypeOK, Enter, rtt_init
  <2>3. epoch' \in 0 .. MaxCalls /\ call' \in 0 .. MaxCalls /\ seq' \in 0 .. MaxCalls
    BY <1>0, <1>1 DEF TypeOK, Numbers, Enter, rtt_init, NextSeq
  <2> QED
    BY <1>0, <1>1, <1>b, <2>2, <2>3 DEF TypeOK, Enter
<1>2. CASE Send
  <2>1. [seq |-> seq, epoch |-> epoch, tx |-> nrexmt, line |-> call] \in Datagrams
    BY <1>0, <1>2 DEF TypeOK, Numbers, InCall, Send, Datagrams
  <2> QED
    BY <1>0, <1>2, <1>b, <2>1 DEF TypeOK, Send
<1>3. CASE Arm
  <2>1. [rto |-> rto, alarm |-> rtt_start] \in [rto : Nat, alarm : Nat]
    BY <1>0, Rounded DEF TypeOK
  <2>2. waits' \in Seq([rto : Nat, alarm : Nat])
    BY <1>0, <1>3, <2>1, AppendProperties DEF TypeOK, Arm
  <2> QED
    BY <1>0, <1>3, <1>b, <2>2 DEF TypeOK, Arm
<1>4. CASE SetJmp
  BY <1>0, <1>4, <1>b DEF TypeOK, SetJmp
<1>5. CASE Receive
  <2>1. PICK d \in replies : recvd' = {d} /\ pc' \in {"got", "recv"}
    BY <1>5 DEF Receive
  <2>2. Cardinality(recvd') = 1
    BY <2>1, FS_Singleton
  <2> QED
    BY <1>0, <1>5, <1>b, <2>1, <2>2 DEF TypeOK, Receive
<1>6. CASE Timeout
  BY <1>0, <1>6, <1>b DEF TypeOK, Numbers, InCall, Timeout, Jumps
<1>7. CASE Astray
  BY <1>0, <1>7, <1>b DEF TypeOK, Astray
<1>8. CASE Return
  <2>1. rto' \in Nat
    BY <1>8, Clamped DEF Return, rtt_stop
  <2> QED
    BY <1>0, <1>8, <1>b, <2>1 DEF TypeOK, Return
<1>9. CASE Echo
  BY <1>0, <1>9, <1>b DEF TypeOK, Echo
<1>10. CASE UNCHANGED vars
  BY <1>0, <1>10 DEF TypeOK, vars
<1> QED
  BY NextCases, <1>1, <1>2, <1>3, <1>4, <1>5, <1>6, <1>7, <1>8, <1>9, <1>10

LEMMA NumbersStep == IInv /\ [Next]_vars => Numbers'
<1> SUFFICES ASSUME IInv, [Next]_vars PROVE Numbers'
  OBVIOUS
<1> USE RttAssumption
<1>0. TypeOK /\ Numbers
  BY DEF IInv
<1>1. CASE Enter
  BY <1>0, <1>1 DEF TypeOK, Numbers, Enter, InCall, Calls, rtt_init, NextSeq
<1>2. CASE Send \/ Arm \/ SetJmp
  BY <1>0, <1>2 DEF TypeOK, Numbers, InCall, Send, Arm, SetJmp
<1>3. CASE Receive \/ Astray \/ Echo
  BY <1>0, <1>3 DEF TypeOK, Numbers, InCall, Receive, Astray, Echo
<1>4. CASE Timeout
  BY <1>0, <1>4 DEF TypeOK, Numbers, InCall, Timeout, Calls, GiveUpAfter, Jumps
<1>5. CASE Return
  BY <1>0, <1>5 DEF TypeOK, Numbers, InCall, Return, Calls
<1>6. CASE UNCHANGED vars
  BY <1>0, <1>6 DEF Numbers, InCall, vars
<1> QED
  BY NextCases, <1>1, <1>2, <1>3, <1>4, <1>5, <1>6

LEMMA SentStep == IInv /\ [Next]_vars => Sent'
<1> SUFFICES ASSUME IInv, [Next]_vars PROVE Sent'
  OBVIOUS
<1> USE RttAssumption
<1>0. TypeOK /\ Numbers /\ Sent /\ \A d \in sent : d.tx \in Nat
  BY DEF IInv, TypeOK, Datagrams
<1>1. CASE Enter
  BY <1>0, <1>1 DEF TypeOK, Numbers, Sent, Enter, InCall, NextSeq, Datagrams
<1>2. CASE Send
  BY <1>0, <1>2 DEF TypeOK, Numbers, Sent, InCall, Send
<1>3. CASE Arm \/ SetJmp
  BY <1>0, <1>3 DEF Sent, InCall, Arm, SetJmp
<1>4. CASE Receive
  BY <1>0, <1>4 DEF Sent, InCall, Receive, Expected
<1>5. CASE Astray \/ Echo
  BY <1>0, <1>5 DEF Sent, InCall, Astray, Echo
<1>6. CASE Timeout
  BY <1>0, <1>6 DEF TypeOK, Sent, InCall, Timeout, Jumps
<1>7. CASE Return
  BY <1>0, <1>7 DEF Sent, InCall, Return
<1>8. CASE UNCHANGED vars
  BY <1>0, <1>8 DEF Sent, InCall, vars
<1> QED
  BY NextCases, <1>1, <1>2, <1>3, <1>4, <1>5, <1>6, <1>7, <1>8

\* The requests of the current call are one for each transmission.
LEMMA CountedStep == IInv /\ [Next]_vars => Counted'
<1> SUFFICES ASSUME IInv, [Next]_vars PROVE Counted'
  OBVIOUS
<1> USE RttAssumption
<1>0. TypeOK /\ Numbers /\ Sent /\ Counted
  BY DEF IInv
<1>1. CASE Enter
  <2>1. /\ sent' = sent /\ call' = call + 1 /\ nrexmt' = 0 /\ pc' = "send"
        /\ call \in Nat /\ \A d \in sent : d.line \in Nat /\ d.line <= call
    BY <1>0, <1>1 DEF TypeOK, Sent, Enter, Datagrams, Calls
  <2>2. \A c \in Calls : Mine(c)' = Mine(c)
    BY <1>1 DEF Enter, Mine
  <2>3. Mine(call)' = {}
    BY <2>1 DEF Mine
  <2>4. Cardinality(Mine(call)') = 0
    BY <2>3, FS_EmptySet
  <2> QED
    BY <1>0, <2>1, <2>2, <2>4 DEF Counted, InCall
<1>2. CASE Send
  <2> DEFINE new == [seq |-> seq, epoch |-> epoch, tx |-> nrexmt, line |-> call]
  <2>1. /\ sent' = sent \cup {new} /\ pc = "send" /\ pc' = "alarm"
        /\ call' = call /\ nrexmt' = nrexmt
    BY <1>2 DEF Send
  <2>2. call \in Calls /\ nrexmt \in Nat
    BY <1>0, <2>1 DEF TypeOK, Numbers, InCall, Calls
  <2>3. new \notin Mine(call)
    BY <1>0, <2>1, <2>2 DEF Sent, InCall, Mine
  <2>4. Mine(call)' = Mine(call) \cup {new}
    BY <2>1 DEF Mine
  <2>5. IsFiniteSet(Mine(call)) /\ Cardinality(Mine(call)) = nrexmt
    BY <1>0, <2>1, <2>2 DEF Counted, InCall
  <2>6. IsFiniteSet(Mine(call)') /\ Cardinality(Mine(call)') = nrexmt + 1
    BY <2>3, <2>4, <2>5, FS_AddElement
  <2>7. \A c \in Calls : c # call => Mine(c)' = Mine(c)
    BY <2>1 DEF Mine
  <2> QED
    BY <1>0, <2>1, <2>6, <2>7 DEF Counted
<1>3. CASE Timeout
  <2>1. /\ \A c \in Calls : Mine(c)' = Mine(c)
        /\ call' = call /\ nrexmt' = nrexmt + 1
        /\ pc # "send" /\ pc # "idle" /\ pc' \in {"idle", "send"}
    BY <1>3 DEF Timeout, Mine, Jumps
  <2>2. Mine(call)' = Mine(call)
    BY <1>3 DEF Timeout, Mine
  <2> QED
    BY <1>0, <2>1, <2>2 DEF Counted, InCall
<1>4. CASE Arm \/ SetJmp \/ Receive \/ Astray \/ Return \/ Echo \/ UNCHANGED vars
  <2>1. /\ sent' = sent /\ call' = call /\ nrexmt' = nrexmt
        /\ pc' = "send" <=> pc = "send"
        /\ pc = "idle" => pc' = "idle"
    BY <1>4 DEF Arm, SetJmp, Receive, Astray, Return, Echo, vars
  <2>2. Mine(call)' = Mine(call) /\ \A c \in Calls : Mine(c)' = Mine(c)
    BY <2>1 DEF Mine
  <2> QED
    BY <1>0, <2>1, <2>2 DEF Counted, InCall
<1> QED
  BY NextCases, <1>1, <1>2, <1>3, <1>4

LEMMA BackoffStep == IInv /\ [Next]_vars => Backoff'
<1> SUFFICES ASSUME IInv, [Next]_vars PROVE Backoff'
  OBVIOUS
<1> USE RttAssumption
<1>0. /\ Backoff /\ rto \in Nat /\ waits \in Seq([rto : Nat, alarm : Nat])
  BY DEF IInv, TypeOK
<1>1. CASE Enter
  <2>1. rtt_minmax(3 * PerSecond) \in Least .. Greatest
    BY Clamped
  <2> QED
    BY <1>0, <1>1, <2>1 DEF Backoff, Enter, rtt_init
<1>2. CASE Arm
  <2>1. [rto |-> rto, alarm |-> rtt_start] \in [rto : Nat, alarm : Nat]
    BY <1>0, Rounded
  <2>2. /\ waits' # <<>> /\ waits'[Len(waits')].rto = rto
    BY <1>0, <1>2, <2>1, AppendProperties DEF Arm
  <2> QED
    BY <1>2, <2>2 DEF Backoff, Arm
<1>3. CASE Timeout
  BY <1>0, <1>3 DEF Backoff, Timeout, StopRtt, Jumps
<1>4. CASE Return
  <2>1. rto' \in Least .. Greatest
    BY <1>4, Clamped DEF Return, rtt_stop
  <2> QED
    BY <1>4, <2>1 DEF Backoff, Return
<1>5. CASE Send \/ SetJmp \/ Receive \/ Astray \/ Echo \/ UNCHANGED vars
  BY <1>0, <1>5 DEF Backoff, Send, SetJmp, Receive, Astray, Echo, vars
<1> QED
  BY NextCases, <1>1, <1>2, <1>3, <1>4, <1>5

LEMMA BoundedStep == IInv /\ [Next]_vars => RetransmissionBounded'
<1> SUFFICES ASSUME IInv, [Next]_vars PROVE RetransmissionBounded'
  OBVIOUS
<1> USE RttAssumption
<1> DEFINE Bound(c) == /\ Cardinality(Mine(c)) <= RTT_MAXNREXMT + 1
                       /\ result[c] = "timeout" => Cardinality(Mine(c)) = RTT_MAXNREXMT + 1
           Doubling == /\ waits # <<>> => waits[1].rto \in Least .. Greatest
                       /\ \A k \in 2 .. Len(waits) : waits[k].rto = 2 * waits[k - 1].rto
                       /\ \A k \in 1 .. Len(waits) : Nearest(waits[k])
<1>0. /\ \A c \in Calls : Bound(c)
      /\ Doubling /\ Numbers /\ Counted /\ Counted' /\ Backoff
  BY CountedStep DEF IInv, RetransmissionBounded
<1>t. /\ call \in Nat /\ nrexmt \in Nat /\ rto \in Nat
      /\ waits \in Seq([rto : Nat, alarm : Nat])
      /\ result \in [Calls -> {"none", "answer", "timeout"}]
      /\ InCall => call \in Calls
  BY <1>0 DEF IInv, TypeOK, Numbers, Calls
<1>1. ASSUME NEW c \in Calls PROVE Bound(c)'
  <2>1. CASE Send
    <3>1. /\ \A d \in Calls : d # call => Mine(d)' = Mine(d)
          /\ pc = "send" /\ pc' = "alarm" /\ call' = call /\ nrexmt' = nrexmt
          /\ result' = result
      BY <2>1 DEF Send, Mine
    <3>2. CASE c = call
      <4>1. /\ Cardinality(Mine(c))' = nrexmt + 1
            /\ nrexmt <= RTT_MAXNREXMT /\ result'[c] = "none"
        BY <1>0, <3>1, <3>2 DEF Counted, Numbers, InCall
      <4> QED
        BY <1>t, <4>1
    <3> QED
      BY <1>0, <3>1, <3>2
  <2>2. CASE Timeout
    <3>1. /\ Mine(c)' = Mine(c) /\ pc \in {"setjmp", "recv", "got"}
      BY <2>2 DEF Timeout, Mine, Jumps
    <3>2. CASE c = call
      <4>1. Cardinality(Mine(c)) = nrexmt + 1 /\ nrexmt <= RTT_MAXNREXMT
        BY <1>0, <3>1, <3>2 DEF Counted, Numbers, InCall
      <4>2. result'[c] = "timeout" => nrexmt + 1 > RTT_MAXNREXMT
        BY <1>0, <1>t, <2>2, <3>1, <3>2 DEF Timeout, GiveUpAfter, Numbers, InCall
      <4> QED
        BY <1>t, <3>1, <4>1, <4>2
    <3>3. CASE c # call
      BY <1>0, <1>t, <2>2, <3>1, <3>3 DEF Timeout
    <3> QED
      BY <3>2, <3>3
  <2>3. CASE Return
    BY <1>0, <1>t, <2>3 DEF Return, Mine
  <2>4. CASE Enter \/ Arm \/ SetJmp \/ Receive \/ Astray \/ Echo \/ UNCHANGED vars
    <3>1. Mine(c)' = Mine(c) /\ result' = result
      BY <2>4 DEF Enter, Arm, SetJmp, Receive, Astray, Echo, vars, Mine
    <3> QED
      BY <1>0, <3>1
  <2> QED
    BY NextCases, <2>1, <2>2, <2>3, <2>4
<1>2. Doubling'
  <2>1. CASE Arm
    <3> DEFINE w == [rto |-> rto, alarm |-> rtt_start]
    <3>0. w \in [rto : Nat, alarm : Nat] /\ w.rto = rto /\ Nearest(w)
      BY <1>t, Rounded
    <3> HIDE DEF w
    <3>1. /\ waits' = Append(waits, w) /\ pc = "alarm"
      BY <2>1 DEF Arm, w
    <3>2. /\ Len(waits') = Len(waits) + 1 /\ Len(waits) \in Nat
          /\ \A k \in 1 .. Len(waits) : waits'[k] = waits[k]
          /\ waits'[Len(waits) + 1] = w
      BY <1>t, <3>0, <3>1, AppendProperties, LenProperties
    <3>n. \A k \in 1 .. Len(waits') : Nearest(waits'[k])
      <4>1. \A k \in 1 .. Len(waits') : k \in 1 .. Len(waits) \/ k = Len(waits) + 1
        BY <3>2
      <4> QED
        BY <1>0, <3>0, <3>2, <4>1
    <3>3. CASE waits = <<>>
      BY <1>0, <3>0, <3>1, <3>2, <3>3, <3>n DEF Backoff
    <3>4. CASE waits # <<>>
      <4>1. rto = 2 * waits[Len(waits)].rto /\ Len(waits) > 0
        BY <1>0, <1>t, <3>1, <3>4, EmptySeq DEF Backoff
      <4>2. waits'[1] = waits[1]
        BY <3>2, <4>1
      <4>3. ASSUME NEW k \in 2 .. Len(waits') PROVE waits'[k].rto = 2 * waits'[k - 1].rto
        <5>1. CASE k = Len(waits) + 1
          BY <3>0, <3>2, <4>1, <5>1
        <5>2. CASE k # Len(waits) + 1
          <6>1. k \in 2 .. Len(waits) /\ k \in 1 .. Len(waits) /\ k - 1 \in 1 .. Len(waits)
            BY <3>2, <5>2
          <6>2. waits[k].rto = 2 * waits[k - 1].rto
            BY <1>0, <6>1
          <6>3. waits'[k] = waits[k] /\ waits'[k - 1] = waits[k - 1]
            BY <3>2, <6>1
          <6> QED
            BY <6>2, <6>3
        <5> QED
          BY <5>1, <5>2
      <4> QED
        BY <1>0, <3>4, <3>n, <4>2, <4>3
    <3> QED
      BY <3>3, <3>4
  <2>2. CASE Enter
    BY <2>2 DEF Enter
  <2>3. CASE Send \/ SetJmp \/ Receive \/ Timeout \/ Astray \/ Return \/ Echo \/ UNCHANGED vars
    <3>1. waits' = waits
      BY <2>3 DEF Send, SetJmp, Receive, Timeout, Astray, Return, Echo, vars
    <3> QED
      BY <1>0, <3>1
  <2> QED
    BY NextCases, <2>1, <2>2, <2>3
<1> QED
  BY <1>1, <1>2 DEF RetransmissionBounded

LEMMA AlarmStep == IInv /\ [Next]_vars => AlarmOnlyInCall'
<1> SUFFICES ASSUME IInv, [Next]_vars PROVE AlarmOnlyInCall'
  OBVIOUS
<1>0. AlarmOnlyInCall /\ Numbers
  BY DEF IInv
<1>1. CASE Enter \/ Send \/ Arm \/ SetJmp \/ Receive
  BY <1>0, <1>1 DEF AlarmOnlyInCall, Enter, Send, Arm, SetJmp, Receive
<1>2. CASE Timeout \/ Return
  BY <1>0, <1>2 DEF AlarmOnlyInCall, Timeout, Return, Disarm
<1>3. CASE Astray \/ Echo \/ UNCHANGED vars
  BY <1>0, <1>3 DEF AlarmOnlyInCall, Numbers, InCall, Astray, Echo, vars
<1> QED
  BY NextCases, <1>1, <1>2, <1>3

-----------------------------------------------------------------------------
(* The theorems.                                                           *)

\* The strengthening holds in every reachable state.
THEOREM Inductive == Spec => []IInv
<1>1. IInv /\ [Next]_vars => IInv'
  BY TypeStep, NumbersStep, SentStep, CountedStep, BackoffStep, BoundedStep, AlarmStep
     DEF IInv
<1> QED
  BY InitInv, <1>1, PTL DEF Spec

\* The types of the client's variables, for any number of calls: in particular
\* the estimators are initialised at most once per call and nrexmt stays
\* within one of its limit.
THEOREM TypeCorrect == Spec => []TypeOK
<1>1. IInv => TypeOK
  BY DEF IInv
<1> QED
  BY Inductive, <1>1, PTL

\* dg_send_recv never subtracts timestamps of two bases: what comes back with
\* this call's sequence number was stamped since the last rtt_init.
THEOREM SameBase == Spec => []TimestampOfThisBase
<1>1. IInv => TimestampOfThisBase
  <2> SUFFICES ASSUME IInv, pc = "got", NEW d \in recvd
               PROVE  d.epoch = epoch /\ d.tx <= nrexmt
    BY DEF TimestampOfThisBase
  <2>1. d \in sent /\ d.seq = seq /\ d.seq = d.line /\ seq = call
    BY DEF IInv, Sent, Numbers
  <2> QED
    BY <2>1 DEF IInv, Sent, InCall
<1> QED
  BY Inductive, <1>1, PTL

\* A request is sent at most RTT_MAXNREXMT + 1 times, exactly so often before
\* a call gives up; its timeouts start within the clamp and double exactly; the
\* alarms are these to the nearest second, and so each is twice the one before
\* only within a second.
THEOREM Bounded == Spec => [](RetransmissionBounded /\ AlarmsAlmostDouble)
<1>1. IInv => RetransmissionBounded
  BY DEF IInv
<1>2. IInv => AlarmsAlmostDouble
  <2> SUFFICES ASSUME IInv, NEW k \in 2 .. Len(waits)
               PROVE  waits[k].alarm \in 2 * waits[k - 1].alarm - 1 .. 2 * waits[k - 1].alarm + 1
    BY DEF AlarmsAlmostDouble
  <2>1. waits \in Seq([rto : Nat, alarm : Nat]) /\ RetransmissionBounded
    BY DEF IInv, TypeOK
  <2>2. k \in 1 .. Len(waits) /\ k - 1 \in 1 .. Len(waits)
    BY <2>1, LenProperties
  <2>3. /\ waits[k] \in [rto : Nat, alarm : Nat] /\ waits[k - 1] \in [rto : Nat, alarm : Nat]
        /\ Nearest(waits[k]) /\ Nearest(waits[k - 1])
        /\ waits[k].rto = 2 * waits[k - 1].rto
    BY <2>1, <2>2, ElementOfSeq DEF RetransmissionBounded
  <2> QED
    BY <2>3, Almost
<1> QED
  BY Inductive, <1>1, <1>2, PTL

\* No alarm outlives its call; only that of a first transmission goes astray.
THEOREM AlarmsEnd == Spec => []AlarmOnlyInCall
<1>1. IInv => AlarmOnlyInCall
  BY DEF IInv
<1> QED
  BY Inductive, <1>1, PTL

\* What a call returns is the echo of its own line.
THEOREM OwnAnswer == Spec => AnswerIsOwn
<1>1. ASSUME IInv, [Next]_vars, NEW c \in Calls, result[c] = "none", result'[c] = "answer",
             NEW d \in recvd
      PROVE  d.line = c
  <2>1. result \in [Calls -> {"none", "answer", "timeout"}]
    BY <1>1 DEF IInv, TypeOK
  <2>2. Return /\ c = call
    BY <2>1, <1>1, NextCases
       DEF Enter, Send, Arm, SetJmp, Receive, Timeout, Astray, Return, Echo, vars
  <2>3. d \in sent /\ d.seq = seq /\ d.seq = d.line /\ seq = call
    BY <1>1, <2>2 DEF IInv, Sent, Numbers, Return
  <2> QED
    BY <2>2, <2>3
<1>2. IInv /\ [Next]_vars =>
        \A c \in Calls : result[c] = "none" /\ result'[c] = "answer" =>
           \A d \in recvd : d.line = c
  BY <1>1
<1> QED
  BY Inductive, <1>2, PTL DEF Spec, AnswerIsOwn

-----------------------------------------------------------------------------
(* The UDP clients.  An alarm, a SIGALRM held back and a byte in the pipe   *)
(* exist only in the client that uses them, only while it waits, and only   *)
(* one of the three at a time; what the jump out of the handler drops was   *)
(* counted as shown.  A jump without a buffer comes before anything else.   *)
UdpTimers ==
  /\ uarmed => U!UsesAlarm /\ upc \in {"setjmp", "wait", "blocked", "got"} /\ ~pending /\ pipe = 0
  /\ pending => U!Is("pselect") /\ upc \in {"wait", "got"}
  /\ pipe > 0 => U!Is("pipe") /\ upc \in {"wait", "got"}
  /\ expired => pipe > 0 /\ upc = "got"
  /\ upc = "blocked" => U!Is("alarm")
  /\ upc = "got" /\ U!Is("jump") => shown > 0
  /\ upc = "setjmp" => U!Is("jump") /\ (line = 1 => shown = 0)
  /\ line = 0 => shown = 0 /\ upc \in {"fgets", "done"}
  /\ upc = "crashed" => U!Is("jump") /\ timeouts = 0 /\ shown = 0

Arrived == UNION {{l} \X (1 .. arrived[l]) : l \in U!Lines \cup {U!Foreign}}

UdpInv == U!TypeOK /\ IsFiniteSet(Arrived) /\ U!AnswersAccounted /\ UdpTimers

\* The clients that collect replies are those whose alarm ends the collection
\* and not a recvfrom; those that compare senders or connect wait for ever.
LEMMA Clients ==
  ASSUME NEW p \in U!Programs
  PROVE  /\ p.collects \in BOOLEAN /\ p.compares \in BOOLEAN /\ p.connected \in BOOLEAN
         /\ p.wait \in {"block", "timer", "alarm", "pselect", "jump", "pipe"}
         /\ p.collects <=> p.wait \in {"pselect", "jump", "pipe"}
         /\ p.compares => p.wait = "block"
         /\ p.connected => p.wait = "block"
<1>1. \/ p.wait \in {"block", "timer", "alarm"} /\ p.collects = FALSE
      \/ p.wait \in {"pselect", "jump", "pipe"} /\ p.collects = TRUE
  BY DEF U!Programs, U!Client, U!dg_cli, U!dg_cli_reply_addr, U!dg_cli_connect,
         U!dg_cli_rcvtimeo, U!dg_cli_select, U!dg_cli_alarm, U!dg_cli_pselect,
         U!dg_cli_jump, U!dg_cli_pipe
<1>2. \/ p.wait = "block" /\ p.compares = TRUE /\ p.connected = FALSE
      \/ p.wait = "block" /\ p.compares = FALSE /\ p.connected = TRUE
      \/ p.compares = FALSE /\ p.connected = FALSE
  BY DEF U!Programs, U!Client, U!dg_cli, U!dg_cli_reply_addr, U!dg_cli_connect,
         U!dg_cli_rcvtimeo, U!dg_cli_select, U!dg_cli_alarm, U!dg_cli_pselect,
         U!dg_cli_jump, U!dg_cli_pipe
<1>3. {"block", "timer", "alarm"} \cap {"pselect", "jump", "pipe"} = {}
  OBVIOUS
<1> QED
  BY <1>1, <1>2, <1>3, Zenon

LEMMA UdpSizes == \A S : U!Cardinality(S) = Cardinality(S)
  BY DEF U!Cardinality, U!IsFiniteSet, Cardinality, IsFiniteSet

LEMMA UdpInit == U!Init => UdpInv
<1> SUFFICES ASSUME U!Init PROVE UdpInv
  OBVIOUS
<1> USE UdpAssumption DEF U!Init
<1>1. arrived \in [U!Lines \cup {U!Foreign} -> Nat]
  OBVIOUS
<1>2. U!TypeOK
  <2>1. uarmed \in BOOLEAN /\ pending \in BOOLEAN /\ expired \in BOOLEAN
    BY Zenon
  <2>2. queue \in Seq(U!Lines \cup {U!Foreign})
    OBVIOUS
  <2> QED
    BY <1>1, <2>1, <2>2 DEF U!TypeOK
<1>3. Arrived = {}
  <2>1. \A l \in U!Lines \cup {U!Foreign} : 1 .. arrived[l] = {}
    OBVIOUS
  <2> QED
    BY <2>1 DEF Arrived
<1>4. IsFiniteSet(Arrived) /\ U!Arrivals = 0
  BY <1>3, UdpSizes, FS_EmptySet DEF U!Arrivals, Arrived
<1>5. U!AnswersAccounted
  BY <1>4, Clients DEF U!AnswersAccounted, U!Waiting
<1>6. UdpTimers
  BY DEF UdpTimers
<1> QED
  BY <1>2, <1>4, <1>5, <1>6 DEF UdpInv

\* A datagram that arrives is one more.
LEMMA OneMore ==
  ASSUME U!TypeOK, IsFiniteSet(Arrived), NEW l \in U!Lines \cup {U!Foreign}, U!Arrive(l)
  PROVE  IsFiniteSet(Arrived') /\ U!Arrivals' = U!Arrivals + 1
<1>1. arrived \in [U!Lines \cup {U!Foreign} -> Nat] /\ arrived[l] \in Nat
  BY DEF U!TypeOK
<1>2. \A k \in U!Lines \cup {U!Foreign} :
        arrived'[k] = IF k = l THEN arrived[l] + 1 ELSE arrived[k]
  BY <1>1 DEF U!Arrive
<1>3. Arrived' = Arrived \cup {<<l, arrived[l] + 1>>}
  <2>1. 1 .. (arrived[l] + 1) = (1 .. arrived[l]) \cup {arrived[l] + 1}
    BY <1>1
  <2>2. {l} \X (1 .. arrived'[l]) = ({l} \X (1 .. arrived[l])) \cup {<<l, arrived[l] + 1>>}
    BY <2>1, <1>2
  <2>3. \A k \in U!Lines \cup {U!Foreign} :
          k # l => {k} \X (1 .. arrived'[k]) = {k} \X (1 .. arrived[k])
    BY <1>2
  <2>4. \A x : x \in Arrived' <=>
                 \E k \in U!Lines \cup {U!Foreign} : x \in {k} \X (1 .. arrived'[k])
    BY DEF Arrived
  <2>5. \A x : x \in Arrived <=>
                 \E k \in U!Lines \cup {U!Foreign} : x \in {k} \X (1 .. arrived[k])
    BY DEF Arrived
  <2>6. \A x : x \in Arrived' <=> x \in Arrived \/ x = <<l, arrived[l] + 1>>
    BY <2>2, <2>3, <2>4, <2>5, Zenon
  <2> QED
    BY <2>6
<1>4. <<l, arrived[l] + 1>> \notin Arrived
  <2>1. ASSUME NEW k, <<l, arrived[l] + 1>> \in {k} \X (1 .. arrived[k])
        PROVE  FALSE
    BY <2>1, <1>1
  <2> QED
    BY <2>1 DEF Arrived
<1>5. U!Arrivals = Cardinality(Arrived) /\ U!Arrivals' = Cardinality(Arrived')
  BY UdpSizes DEF U!Arrivals, Arrived
<1> QED
  BY <1>3, <1>4, <1>5, FS_AddElement

LEMMA UdpCases ==
  ASSUME [U!Next]_(U!vars)
  PROVE  \/ \E l \in U!Lines \cup {U!Foreign} :
              U!Arrive(l) /\ (l # U!Foreign => l <= line /\ arrived[l] < MaxAnswers)
         \/ U!Refused \/ U!Send \/ U!SetJmp \/ U!Eof \/ U!Sleep \/ U!Receive \/ U!Finish
         \/ U!TimerExpires \/ U!Interrupted \/ U!PipeReadable \/ U!Alarm \/ UNCHANGED U!vars
  BY Zenon DEF U!Next, U!Step, U!Answer, U!Intrude

LEMMA UdpTypeStep == UdpInv /\ [U!Next]_(U!vars) => U!TypeOK'
<1> SUFFICES ASSUME UdpInv, [U!Next]_(U!vars) PROVE U!TypeOK'
  OBVIOUS
<1> USE UdpAssumption
<1>0. /\ U!TypeOK /\ UdpTimers /\ queue \in Seq(U!Lines \cup {U!Foreign})
      /\ arrived \in [U!Lines \cup {U!Foreign} -> Nat]
  BY DEF UdpInv, U!TypeOK
<1>b. uarmed' \in BOOLEAN /\ pending' \in BOOLEAN /\ expired' \in BOOLEAN
  <2>0. uarmed \in BOOLEAN /\ pending \in BOOLEAN /\ expired \in BOOLEAN
    BY <1>0 DEF U!TypeOK
  <2>1. CASE \E l \in U!Lines \cup {U!Foreign} : U!Arrive(l)
    BY <2>0, <2>1, Zenon DEF U!Arrive, U!timers
  <2>2. CASE U!Refused \/ U!SetJmp \/ U!Eof \/ U!Sleep \/ U!TimerExpires \/ UNCHANGED U!vars
    BY <2>0, <2>2, Zenon DEF U!Refused, U!SetJmp, U!Eof, U!Sleep, U!TimerExpires, U!timers, U!vars
  <2>3. CASE U!Interrupted \/ U!PipeReadable \/ U!Alarm
    BY <2>0, <2>3, Zenon
       DEF U!Interrupted, U!PipeReadable, U!Alarm, U!Interrupt, U!Jump, U!Astray
  <2>4. CASE U!Send
    <3>1. uarmed' = U!UsesAlarm /\ pending' = pending /\ expired' = expired
      BY <2>4, Zenon DEF U!Send
    <3> QED
      BY <2>0, <3>1 DEF U!UsesAlarm
  <2>5. CASE U!Receive
    <3>1. uarmed' = uarmed /\ pending' = pending /\ expired' = (pipe > 0)
      BY <2>5, Zenon DEF U!Receive
    <3> QED
      BY <2>0, <3>1
  <2>6. CASE U!Finish
    <3>1. /\ uarmed' = U!ArmedAfter /\ pending' = pending
          /\ expired' = FALSE \/ expired' = expired
      BY <2>6, Zenon DEF U!Finish
    <3>2. U!ArmedAfter \in BOOLEAN
      BY DEF U!ArmedAfter
    <3> QED
      BY <2>0, <3>1, <3>2, Zenon
  <2> QED
    BY UdpCases, <2>1, <2>2, <2>3, <2>4, <2>5, <2>6
<1>1. CASE \E l \in U!Lines \cup {U!Foreign} : U!Arrive(l)
  <2>1. PICK l \in U!Lines \cup {U!Foreign} : U!Arrive(l)
    BY <1>1
  <2>2. /\ arrived' \in [U!Lines \cup {U!Foreign} -> Nat]
        /\ queue' \in Seq(U!Lines \cup {U!Foreign})
    BY <1>0, <2>1 DEF U!Arrive
  <2> QED
    BY <1>0, <1>b, <2>1, <2>2 DEF U!TypeOK, U!Arrive, U!timers, U!counts
<1>2. CASE U!Receive
  <2>1. queue' \in Seq(U!Lines \cup {U!Foreign})
    BY <1>0, <1>2, HeadTailProperties DEF U!Receive
  <2>2. shown' \in Nat /\ ignored' \in Nat
    BY <1>0, <1>2 DEF U!TypeOK, U!Receive
  <2> QED
    BY <1>0, <1>b, <1>2, <2>1, <2>2 DEF U!TypeOK, U!Receive
<1>3. CASE \/ U!Refused \/ U!SetJmp \/ U!Eof \/ U!Sleep \/ U!TimerExpires
         \/ U!Interrupted \/ U!PipeReadable
  BY <1>0, <1>b, <1>3
     DEF U!TypeOK, U!Refused, U!SetJmp, U!Eof, U!Sleep, U!TimerExpires, U!Interrupted,
         U!PipeReadable, U!GiveUp, U!timers, U!counts
<1>4. CASE U!Send
  BY <1>0, <1>b, <1>4 DEF U!TypeOK, U!Send, U!counts
<1>5. CASE U!Finish
  BY <1>0, <1>b, <1>5 DEF U!TypeOK, U!Finish, U!AfterPrint
<1>6. CASE U!Alarm
  BY <1>0, <1>b, <1>6
     DEF U!TypeOK, UdpTimers, U!Alarm, U!Interrupt, U!Jump, U!Astray, U!NoBuffer, U!GiveUp,
         U!PipeAfterAlarm, U!Is, U!counts
<1>7. CASE UNCHANGED U!vars
  BY <1>0, <1>7 DEF U!TypeOK, U!vars
<1> QED
  BY UdpCases, <1>1, <1>2, <1>3, <1>4, <1>5, <1>6, <1>7

LEMMA UdpTimersStep == UdpInv /\ [U!Next]_(U!vars) => UdpTimers'
<1> SUFFICES ASSUME UdpInv, [U!Next]_(U!vars) PROVE UdpTimers'
  OBVIOUS
<1>0. U!TypeOK /\ UdpTimers /\ program \in U!Programs
  BY DEF UdpInv, U!TypeOK
<1>1. /\ program.wait \in {"block", "timer", "alarm", "pselect", "jump", "pipe"}
      /\ program.collects <=> program.wait \in {"pselect", "jump", "pipe"}
      /\ program.compares => program.wait = "block"
      /\ program.connected => program.wait = "block"
  BY <1>0, Clients
<1>2. CASE \E l \in U!Lines \cup {U!Foreign} : U!Arrive(l)
  BY <1>0, <1>2 DEF UdpTimers, U!Arrive, U!timers, U!counts, U!UsesAlarm, U!Is
<1>3. CASE U!Receive
  BY <1>0, <1>1, <1>3, SMTT(30) DEF U!TypeOK, UdpTimers, U!Receive, U!UsesAlarm, U!Is
<1>4. CASE U!Refused \/ U!SetJmp \/ U!Eof \/ U!Sleep \/ U!TimerExpires
  BY <1>0, <1>1, <1>4, SMTT(30)
     DEF UdpTimers, U!Refused, U!SetJmp, U!Eof, U!Sleep, U!TimerExpires, U!GiveUp, U!timers,
         U!counts, U!UsesAlarm, U!Is
<1>5. CASE U!Interrupted \/ U!PipeReadable
  BY <1>0, <1>1, <1>5, SMTT(30)
     DEF U!TypeOK, UdpTimers, U!Interrupted, U!PipeReadable, U!GiveUp, U!UsesAlarm, U!Is
<1>6. CASE U!Send
  BY <1>0, <1>1, <1>6, SMTT(30) DEF U!TypeOK, UdpTimers, U!Send, U!counts, U!UsesAlarm, U!Is
<1>7. CASE U!Finish
  BY <1>0, <1>1, <1>7, SMTT(30)
     DEF U!TypeOK, UdpTimers, U!Finish, U!AfterPrint, U!ArmedAfter, U!UsesAlarm, U!Is
<1>8. CASE U!Alarm
  <2>1. uarmed /\ ~uarmed' /\ line' = line /\ program' = program /\ expired' = expired
    BY <1>8 DEF U!Alarm
  <2>2. line > 0 /\ line \in Nat /\ ~pending /\ pipe = 0
    BY <1>0, <2>1, UdpAssumption DEF U!TypeOK, UdpTimers
  <2>3. CASE U!Is("alarm") /\ U!Interrupt
    BY <1>0, <2>1, <2>2, <2>3, SMTT(30)
       DEF U!TypeOK, UdpTimers, U!Interrupt, U!GiveUp, U!UsesAlarm, U!Is
  <2>4. CASE U!Is("jump") /\ U!Jump
    BY <1>0, <2>1, <2>2, <2>4, SMTT(30)
       DEF U!TypeOK, UdpTimers, U!Jump, U!NoBuffer, U!GiveUp, U!UsesAlarm, U!Is
  <2>5. CASE U!Is("jump") /\ U!Astray
    <3>1. /\ upc = "setjmp" /\ line = 1 /\ upc' = "crashed"
          /\ UNCHANGED <<pending, pipe, shown, timeouts>>
      BY <2>5 DEF U!Astray, U!NoBuffer, U!counts
    <3>2. shown = 0
      BY <1>0, <3>1 DEF UdpTimers
    <3>3. timeouts = 0
      <4>1. program.collects
        BY <1>1, <2>5 DEF U!Is
      <4>2. U!AnswersAccounted /\ U!Waiting = 1 /\ timeouts \in Nat
        BY <1>0, <3>1 DEF UdpInv, U!Waiting, U!TypeOK
      <4>3. line = 1 + timeouts + 0
        BY <4>1, <4>2 DEF U!AnswersAccounted
      <4> QED
        BY <3>1, <4>2, <4>3
    <3> QED
      BY <1>0, <2>1, <2>2, <2>5, <3>1, <3>2, <3>3 DEF UdpTimers, U!UsesAlarm, U!Is
  <2>6. CASE U!Is("pselect") /\ pending' = TRUE /\ UNCHANGED <<upc, pipe, U!counts>>
    BY <1>0, <2>1, <2>2, <2>6, SMTT(30) DEF U!TypeOK, UdpTimers, U!counts, U!UsesAlarm, U!Is
  <2>7. CASE U!Is("pipe") /\ pipe' = U!PipeAfterAlarm /\ UNCHANGED <<upc, pending, U!counts>>
    BY <1>0, <2>1, <2>2, <2>7, SMTT(30)
       DEF U!TypeOK, UdpTimers, U!PipeAfterAlarm, U!counts, U!UsesAlarm, U!Is
  <2> QED
    BY <1>8, <2>3, <2>4, <2>5, <2>6, <2>7 DEF U!Alarm
<1>9. CASE UNCHANGED U!vars
  BY <1>0, <1>9 DEF UdpTimers, U!vars, U!UsesAlarm, U!Is
<1> QED
  BY UdpCases, <1>2, <1>3, <1>4, <1>5, <1>6, <1>7, <1>8, <1>9

LEMMA UdpAccountsStep ==
  UdpInv /\ [U!Next]_(U!vars) => IsFiniteSet(Arrived') /\ U!AnswersAccounted'
<1> SUFFICES ASSUME UdpInv, [U!Next]_(U!vars)
             PROVE  IsFiniteSet(Arrived') /\ U!AnswersAccounted'
  OBVIOUS
<1>0. /\ U!TypeOK /\ IsFiniteSet(Arrived) /\ U!AnswersAccounted /\ UdpTimers
      /\ program \in U!Programs /\ queue \in Seq(U!Lines \cup {U!Foreign})
  BY DEF UdpInv, U!TypeOK
<1>1. /\ program.wait \in {"block", "timer", "alarm", "pselect", "jump", "pipe"}
      /\ program.collects <=> program.wait \in {"pselect", "jump", "pipe"}
      /\ program.compares => program.wait = "block"
      /\ program.connected => program.wait = "block"
  BY <1>0, Clients
<1>2. Len(queue) \in Nat /\ U!Arrivals \in Nat
  BY <1>0, LenProperties, FS_CardinalityType, UdpSizes DEF U!Arrivals, Arrived
<1>a. /\ U!Arrivals = Len(queue) + shown + ignored + dropped
      /\ line = U!Waiting + timeouts + IF program.collects THEN 0
           ELSE shown + ignored - (IF upc = "got" THEN 1 ELSE 0)
      /\ line \in Nat /\ shown \in Nat /\ ignored \in Nat /\ dropped \in Nat /\ timeouts \in Nat
  BY <1>0, UdpAssumption DEF U!TypeOK, U!AnswersAccounted
<1>3. CASE \E l \in U!Lines \cup {U!Foreign} : U!Arrive(l)
  <2>1. PICK l \in U!Lines \cup {U!Foreign} : U!Arrive(l)
    BY <1>3
  <2>2. IsFiniteSet(Arrived') /\ U!Arrivals' = U!Arrivals + 1
    BY <1>0, <2>1, OneMore
  <2>3. Len(queue') = Len(queue) + 1
    BY <1>0, <2>1 DEF U!Arrive
  <2> QED
    BY <1>0, <1>2, <2>1, <2>2, <2>3
       DEF U!TypeOK, U!AnswersAccounted, U!Arrive, U!timers, U!counts, U!Waiting, U!Is
<1>4. ASSUME arrived' = arrived
      PROVE  IsFiniteSet(Arrived') /\ U!Arrivals' = U!Arrivals
  BY <1>0, <1>4 DEF Arrived, U!Arrivals
<1>5. CASE U!Receive
  <2>1. Len(queue') = Len(queue) - 1
    BY <1>0, <1>5, HeadTailProperties DEF U!Receive
  <2>2. IsFiniteSet(Arrived') /\ U!Arrivals' = U!Arrivals
    BY <1>4, <1>5 DEF U!Receive
  <2>3. /\ dropped' = dropped /\ program' = program
        /\ timeouts' = timeouts /\ line' = line /\ upc # "got" /\ upc' = "got"
    BY <1>5 DEF U!Receive
  <2>4. U!Waiting = 1 /\ U!Waiting' = 1
    BY <1>5 DEF U!Receive, U!Waiting
  <2>5. \/ shown' = shown + 1 /\ ignored' = ignored
        \/ shown' = shown /\ ignored' = ignored + 1
    BY <1>5 DEF U!Receive
  <2>6. U!Arrivals' = Len(queue') + shown' + ignored' + dropped'
    <3>1. /\ U!Arrivals' = Len(queue) + shown + ignored + dropped
          /\ Len(queue') = Len(queue) - 1 /\ dropped' = dropped
      BY <1>a, <2>1, <2>2, <2>3
    <3>2. /\ Len(queue) \in Nat /\ shown \in Nat /\ ignored \in Nat /\ dropped \in Nat
      BY <1>2, <1>a
    <3>3. CASE shown' = shown + 1 /\ ignored' = ignored
      BY <3>1, <3>2, <3>3
    <3>4. CASE shown' = shown /\ ignored' = ignored + 1
      BY <3>1, <3>2, <3>4
    <3> QED
      BY <2>5, <3>3, <3>4
  <2>7. line' = U!Waiting' + timeouts' + IF program'.collects THEN 0
          ELSE shown' + ignored' - (IF upc' = "got" THEN 1 ELSE 0)
    BY <1>a, <2>3, <2>4, <2>5
  <2> QED
    BY <1>0, <2>2, <2>3, <2>6, <2>7 DEF U!AnswersAccounted, U!Is
<1>6. CASE \/ U!Refused \/ U!SetJmp \/ U!Eof \/ U!Sleep \/ U!TimerExpires
         \/ U!Interrupted \/ U!PipeReadable
  <2>1. IsFiniteSet(Arrived') /\ U!Arrivals' = U!Arrivals
    BY <1>4, <1>6
       DEF U!Refused, U!SetJmp, U!Eof, U!Sleep, U!TimerExpires, U!Interrupted, U!PipeReadable
  <2>2. UNCHANGED <<queue, shown, ignored, dropped, program, line>> /\ upc # "got" /\ upc' # "got"
    BY <1>6
       DEF U!Refused, U!SetJmp, U!Eof, U!Sleep, U!TimerExpires, U!Interrupted, U!PipeReadable,
           U!GiveUp, U!timers, U!counts
  <2>3. \/ timeouts' = timeouts /\ U!Waiting' = U!Waiting
        \/ timeouts' = timeouts + 1 /\ U!Waiting' = 0 /\ U!Waiting = 1
    BY <1>6
       DEF U!Refused, U!SetJmp, U!Eof, U!Sleep, U!TimerExpires, U!Interrupted, U!PipeReadable,
           U!GiveUp, U!counts, U!Waiting
  <2>4. line' = U!Waiting' + timeouts' + IF program'.collects THEN 0
          ELSE shown' + ignored' - (IF upc' = "got" THEN 1 ELSE 0)
    BY <1>a, <2>2, <2>3 DEF U!Waiting
  <2>5. dropped' > 0 => U!Is("jump")' /\ dropped' <= timeouts'
    BY <1>0, <1>a, <2>2, <2>3 DEF U!AnswersAccounted, U!Is
  <2> QED
    BY <1>a, <2>1, <2>2, <2>4, <2>5 DEF U!AnswersAccounted
<1>7. CASE U!Send
  <2>1. IsFiniteSet(Arrived') /\ U!Arrivals' = U!Arrivals
    BY <1>4, <1>7 DEF U!Send
  <2> QED
    BY <1>0, <1>1, <1>2, <1>7, <2>1, SMTT(30)
       DEF U!TypeOK, U!AnswersAccounted, U!Send, U!counts, U!Waiting, U!Is
<1>8. CASE U!Finish
  <2>1. IsFiniteSet(Arrived') /\ U!Arrivals' = U!Arrivals
    BY <1>4, <1>8 DEF U!Finish
  <2>2. /\ shown' = shown /\ ignored' = ignored /\ dropped' = dropped /\ program' = program
        /\ line' = line /\ queue' = queue /\ upc = "got" /\ U!Waiting = 1
    BY <1>8 DEF U!Finish, U!Waiting
  <2>3. CASE expired
    <3>1. program.collects
      BY <1>0, <1>1, <2>3 DEF UdpTimers, U!Is
    <3>2. upc' = "fgets" /\ timeouts' = timeouts + 1 /\ U!Waiting' = 0
      BY <1>8, <2>3 DEF U!Finish, U!Waiting
    <3> QED
      BY <1>0, <2>1, <2>2, <3>1, <3>2 DEF U!TypeOK, U!AnswersAccounted, U!Is
  <2>4. CASE ~expired
    <3>1. upc' = U!AfterPrint /\ timeouts' = timeouts
      BY <1>8, <2>4 DEF U!Finish
    <3>2. U!Waiting' = IF program.collects THEN 1 ELSE 0
      BY <3>1 DEF U!Waiting, U!AfterPrint
    <3> QED
      BY <1>0, <2>1, <2>2, <3>1, <3>2 DEF U!TypeOK, U!AnswersAccounted, U!Is, U!AfterPrint
  <2> QED
    BY <2>3, <2>4
<1>9. CASE U!Alarm
  <2>1. IsFiniteSet(Arrived') /\ U!Arrivals' = U!Arrivals
    BY <1>4, <1>9 DEF U!Alarm
  <2>2. queue' = queue /\ program' = program /\ line' = line /\ ignored' = ignored
    BY <1>9 DEF U!Alarm, U!Interrupt, U!Jump, U!Astray, U!NoBuffer, U!counts
  <2>3. CASE U!Is("alarm") /\ U!Interrupt
    BY <1>0, <1>1, <1>a, <2>1, <2>2, <2>3
       DEF U!AnswersAccounted, U!Interrupt, U!GiveUp, U!Waiting, U!Is
  <2>4. CASE U!Is("jump") /\ U!Jump
    <3>1. program.collects /\ upc' = "fgets" /\ U!Waiting' = 0
      BY <1>1, <2>4 DEF U!Jump, U!GiveUp, U!Waiting, U!Is
    <3>2. timeouts' = timeouts + 1 /\ U!Waiting = 1
      BY <1>0, <1>9, <2>4 DEF U!Alarm, U!Jump, U!GiveUp, U!Waiting, UdpTimers
    <3>3. \/ dropped' = dropped + 1 /\ shown' = shown - 1
          \/ dropped' = dropped /\ shown' = shown
      BY <2>4 DEF U!Jump
    <3> QED
      BY <1>0, <1>a, <2>1, <2>2, <2>4, <3>1, <3>2, <3>3 DEF U!AnswersAccounted, U!Is
  <2>5. CASE \/ U!Is("pselect") /\ UNCHANGED <<upc, U!counts>>
             \/ U!Is("pipe") /\ UNCHANGED <<upc, U!counts>>
    BY <1>0, <1>a, <2>1, <2>2, <2>5 DEF U!AnswersAccounted, U!counts, U!Waiting, U!Is
  <2>6. CASE U!Is("jump") /\ U!Astray
    <3>1. /\ UNCHANGED <<shown, dropped, timeouts>> /\ upc = "setjmp" /\ upc' = "crashed"
          /\ U!Waiting = 1 /\ U!Waiting' = 1
      BY <2>6 DEF U!Astray, U!NoBuffer, U!counts, U!Waiting
    <3> QED
      BY <1>0, <1>a, <2>1, <2>2, <3>1 DEF U!AnswersAccounted, U!Is
  <2> QED
    BY <1>9, <2>3, <2>4, <2>5, <2>6 DEF U!Alarm, U!counts
<1>10. CASE UNCHANGED U!vars
  BY <1>0, <1>10 DEF Arrived, U!Arrivals, U!AnswersAccounted, U!vars, U!Waiting, U!Is
<1> QED
  BY UdpCases, <1>3, <1>5, <1>6, <1>7, <1>8, <1>9, <1>10

LEMMA UdpStep == UdpInv /\ [U!Next]_(U!vars) => UdpInv'
  BY UdpTypeStep, UdpTimersStep, UdpAccountsStep DEF UdpInv, Arrived

-----------------------------------------------------------------------------
(* traceroute.  The numbers of the loops: the probes are numbered through,  *)
(* the destination answers each at most once, and the ttl of its first      *)
(* answer is the last that is tried.                                        *)
Numbered ==
  /\ tpc # "end" => ttl <= max_ttl /\ tseq = (ttl - 1) * nprobes + probe
  /\ done <= probe
  /\ tpc \in {"check", "recv", "blocked", "matched"} => done < probe
  /\ done = 0 <=> reached = 0
  /\ reached > 0 /\ tpc # "end" => reached = ttl

\* What waits in the socket was sent about the probe it names; the flag of the
\* alarm is the current probe's from the moment its wait begins.
Attributed ==
  /\ \A i \in 1 .. Len(tqueue) : answer[tqueue[i].seq] = tqueue[i].kind
  /\ tpc = "matched" => code \in T!Kinds
  /\ tpc \in {"check", "recv", "blocked"} /\ gotalarm => rang

TraceInv == T!TypeOK /\ Numbered /\ Attributed /\ T!AnswersAttributed /\ T!NoStaleTimeout

Messages == [seq : {T!Foreign} \cup T!Probes, kind : T!Kinds]

\* Where the probes of a ttl begin and end.
LEMMA Rows ==
  ASSUME NEW t \in 1 .. max_ttl
  PROVE  /\ (t - 1) * nprobes \in Nat /\ t * nprobes \in Nat /\ max_ttl * nprobes \in Nat
         /\ t * nprobes = (t - 1) * nprobes + nprobes
         /\ t * nprobes <= max_ttl * nprobes
         /\ nprobes * t = t * nprobes
  BY TraceAssumption

LEMMA TraceInit == T!Init => TraceInv
<1> SUFFICES ASSUME T!Init PROVE TraceInv
  OBVIOUS
<1> USE TraceAssumption DEF T!Init
<1>1. T!TypeOK
  <2>1. gotalarm \in BOOLEAN /\ tarmed \in BOOLEAN /\ hip \in BOOLEAN /\ rang \in BOOLEAN
    BY Zenon
  <2>2. tqueue \in Seq([seq : {T!Foreign} \cup T!Probes, kind : T!Kinds])
    OBVIOUS
  <2> QED
    BY <2>1, <2>2 DEF T!TypeOK
<1>2. Numbered
  <2>1. (1 - 1) * nprobes = 0
    OBVIOUS
  <2> QED
    BY <2>1 DEF Numbered
<1>3. Attributed
  BY DEF Attributed
<1>4. T!AnswersAttributed /\ T!NoStaleTimeout
  BY DEF T!AnswersAttributed, T!NoStaleTimeout, T!None
<1> QED
  BY <1>1, <1>2, <1>3, <1>4 DEF TraceInv

LEMMA TraceCases ==
  ASSUME [T!Next]_(T!vars)
  PROVE  \/ \E s \in {T!Foreign} \cup T!Probes : T!Arrive(s)
         \/ T!Send \/ T!NextTtl \/ T!Check \/ T!Sleep \/ T!Receive \/ T!Matched
         \/ T!Alarm \/ UNCHANGED T!vars
  BY Zenon DEF T!Next, T!Step

\* One answer to one probe.
LEMMA Arrival ==
  ASSUME T!TypeOK, NEW s \in {T!Foreign} \cup T!Probes, T!Arrive(s)
  PROVE  \E k \in T!Kinds :
           /\ answer[s] = T!None /\ answer' = [answer EXCEPT ![s] = k]
           /\ tqueue' = Append(tqueue, [seq |-> s, kind |-> k])
           /\ [seq |-> s, kind |-> k] \in Messages
<1>1. PICK k \in T!Answers(s) :
        /\ answer' = [answer EXCEPT ![s] = k]
        /\ tqueue' = Append(tqueue, [seq |-> s, kind |-> k])
  BY DEF T!Arrive
<1>2. k \in T!Kinds
  BY DEF T!Answers, T!Kinds
<1> QED
  BY <1>1, <1>2 DEF T!Arrive, Messages

\* The message that recvfrom takes, and what becomes of it.
LEMMA Taken ==
  ASSUME T!TypeOK, T!Receive
  PROVE  /\ Head(tqueue) \in Messages /\ Len(tqueue) > 0 /\ Head(tqueue) = tqueue[1]
         /\ tqueue' \in Seq(Messages) /\ Len(tqueue') = Len(tqueue) - 1
         /\ \A i \in 1 .. Len(tqueue') : tqueue'[i] = tqueue[i + 1]
         /\ hip' \in BOOLEAN
         /\ \/ /\ tpc' = "matched" /\ code' = Head(tqueue).kind /\ Head(tqueue).seq = tseq
            \/ tpc' = "check" /\ code' = code
            \/ tpc' = "crashed" /\ code' = code
<1>1. tqueue \in Seq(Messages) /\ tqueue # <<>> /\ tqueue' = Tail(tqueue)
  BY DEF T!TypeOK, T!Receive, Messages
<1>2. hip' = (hip \/ Head(tqueue).kind = "exceeded") /\ hip \in BOOLEAN
  BY DEF T!Receive, T!TypeOK
<1>3. PICK o \in T!Outcomes(Head(tqueue)) :
        \/ o = "matched" /\ tpc' = "matched" /\ code' = Head(tqueue).kind
        \/ o = "ignored" /\ tpc' = "check" /\ UNCHANGED code
        \/ o = "crashed" /\ tpc' = "crashed" /\ UNCHANGED code
  BY DEF T!Receive
<1>4. o = "matched" => Head(tqueue).seq = tseq
  BY DEF T!Outcomes, T!IsOwn
<1> QED
  BY <1>1, <1>2, <1>3, <1>4, HeadTailProperties

LEMMA TraceTypeStep == TraceInv /\ [T!Next]_(T!vars) => T!TypeOK'
<1> SUFFICES ASSUME TraceInv, [T!Next]_(T!vars) PROVE T!TypeOK'
  OBVIOUS
<1>0. T!TypeOK /\ Numbered
  BY DEF TraceInv
<1>t. /\ tqueue \in Seq(Messages) /\ ttl \in Nat /\ probe \in Nat /\ done \in Nat
      /\ tseq \in Nat /\ max_ttl \in Nat /\ nprobes \in Nat
  BY <1>0, TraceAssumption DEF T!TypeOK, Messages, T!Probes
<1>1. CASE \E s \in {T!Foreign} \cup T!Probes : T!Arrive(s)
  <2>1. PICK s \in {T!Foreign} \cup T!Probes : T!Arrive(s)
    BY <1>1
  <2>2. PICK k \in T!Kinds :
           /\ answer[s] = T!None /\ answer' = [answer EXCEPT ![s] = k]
           /\ tqueue' = Append(tqueue, [seq |-> s, kind |-> k])
           /\ [seq |-> s, kind |-> k] \in Messages
    BY <1>0, <2>1, Arrival
  <2>3. tqueue' \in Seq(Messages)
    BY <1>t, <2>2
  <2>4. answer' \in [{T!Foreign} \cup T!Probes -> T!Kinds \cup {T!None}]
    BY <1>0, <2>2 DEF T!TypeOK
  <2>5. UNCHANGED <<T!loop, tpc, done, gotalarm, tarmed, hip, code, rang>>
    BY <2>1 DEF T!Arrive
  <2> QED
    BY <1>0, <2>3, <2>4, <2>5 DEF T!TypeOK, T!loop, Messages
<1>2. CASE T!Send
  <2>1. tseq' \in T!Probes
    <3>1. ttl \in 1 .. max_ttl /\ tseq = (ttl - 1) * nprobes + probe /\ probe + 1 <= nprobes
      BY <1>0, <1>2, <1>t DEF T!TypeOK, T!Send, Numbered
    <3>2. /\ (ttl - 1) * nprobes \in Nat /\ ttl * nprobes \in Nat /\ max_ttl * nprobes \in Nat
          /\ ttl * nprobes = (ttl - 1) * nprobes + nprobes
          /\ ttl * nprobes <= max_ttl * nprobes
      BY <3>1, Rows
    <3>3. tseq + 1 <= max_ttl * nprobes
      BY <1>t, <3>1, <3>2
    <3> QED
      BY <1>2, <1>t, <3>2, <3>3 DEF T!Send, T!Probes
  <2>2. gotalarm' \in BOOLEAN /\ tarmed' \in BOOLEAN /\ hip' \in BOOLEAN /\ rang' \in BOOLEAN
    BY <1>2, Zenon DEF T!Send, T!GotAlarmAtStart
  <2>3. probe' \in 0 .. nprobes
    BY <1>2, <1>t DEF T!Send
  <2> QED
    BY <1>0, <1>2, <2>1, <2>2, <2>3 DEF T!TypeOK, T!Send
<1>3. CASE T!NextTtl
  <2>1. ttl' \in 1 .. max_ttl + 1 /\ probe' \in 0 .. nprobes
    BY <1>0, <1>3, <1>t DEF T!TypeOK, T!NextTtl, Numbered
  <2>2. tpc' \in {"probe", "end"}
    BY <1>3 DEF T!NextTtl
  <2>3. UNCHANGED <<distance, tseq, done, gotalarm, tarmed, hip, tqueue, answer, code, rang,
                    reached>>
    BY <1>3 DEF T!NextTtl
  <2> QED
    BY <1>0, <2>1, <2>2, <2>3 DEF T!TypeOK
<1>4. CASE T!Check
  <2>1. tpc' \in {"probe", "recv"} /\ code' \in {code, "timeout"}
    BY <1>4 DEF T!Check
  <2>2. UNCHANGED <<T!loop, done, gotalarm, tarmed, hip, tqueue, answer, rang>>
    BY <1>4 DEF T!Check
  <2> QED
    BY <1>0, <2>1, <2>2 DEF T!TypeOK, T!loop
<1>5. CASE T!Sleep
  BY <1>0, <1>5 DEF T!TypeOK, T!Sleep, T!loop
<1>6. CASE T!Receive
  <2>1. /\ Head(tqueue) \in Messages /\ tqueue' \in Seq(Messages) /\ hip' \in BOOLEAN
        /\ code' = Head(tqueue).kind \/ code' = code
        /\ tpc' \in {"matched", "check", "crashed"}
    BY <1>0, <1>6, Taken
  <2>2. code' \in T!Kinds \cup {T!None, "timeout"}
    BY <1>0, <2>1 DEF Messages, T!TypeOK
  <2>3. UNCHANGED <<T!loop, done, gotalarm, tarmed, answer, rang>>
    BY <1>6 DEF T!Receive
  <2> QED
    BY <1>0, <2>1, <2>2, <2>3 DEF T!TypeOK, T!loop, Messages
<1>7. CASE T!Matched
  <2>1. done' \in 0 .. nprobes
    BY <1>0, <1>7, <1>t DEF T!TypeOK, T!Matched, Numbered
  <2>2. reached' \in 0 .. max_ttl
    BY <1>0, <1>7, <1>t DEF T!TypeOK, T!Matched, Numbered
  <2>3. tarmed' \in BOOLEAN /\ tpc' = "probe"
    BY <1>7, Zenon DEF T!Matched
  <2>4. UNCHANGED <<distance, ttl, probe, tseq, gotalarm, hip, tqueue, answer, code, rang>>
    BY <1>7 DEF T!Matched
  <2> QED
    BY <1>0, <2>1, <2>2, <2>3, <2>4 DEF T!TypeOK
<1>8. CASE T!Alarm
  <2>1. tarmed' \in BOOLEAN /\ gotalarm' \in BOOLEAN /\ rang' \in BOOLEAN
    BY <1>8, Zenon DEF T!Alarm
  <2>2. tpc' \in {tpc, "check"}
    BY <1>8 DEF T!Alarm
  <2>3. UNCHANGED <<T!loop, done, hip, tqueue, answer, code>>
    BY <1>8 DEF T!Alarm
  <2> QED
    BY <1>0, <2>1, <2>2, <2>3 DEF T!TypeOK, T!loop
<1>9. CASE UNCHANGED T!vars
  BY <1>0, <1>9 DEF T!TypeOK, T!vars
<1> QED
  BY TraceCases, <1>1, <1>2, <1>3, <1>4, <1>5, <1>6, <1>7, <1>8, <1>9

LEMMA NumberedStep == TraceInv /\ [T!Next]_(T!vars) => Numbered'
<1> SUFFICES ASSUME TraceInv, [T!Next]_(T!vars) PROVE Numbered'
  OBVIOUS
<1>0. T!TypeOK /\ Numbered
  BY DEF TraceInv
<1>t. /\ ttl \in Nat \ {0} /\ probe \in Nat /\ done \in Nat /\ reached \in Nat
      /\ tseq \in Nat /\ max_ttl \in Nat /\ nprobes \in Nat
  BY <1>0, TraceAssumption DEF T!TypeOK, T!Probes
<1>1. CASE \E s \in {T!Foreign} \cup T!Probes : T!Arrive(s)
  BY <1>0, <1>1 DEF Numbered, T!Arrive, T!loop
<1>2. CASE T!Send
  <2>1. ttl \in 1 .. max_ttl /\ (ttl - 1) * nprobes \in Nat
    BY <1>0, <1>2, <1>t, Rows DEF T!Send, Numbered
  <2>2. tseq' = (ttl' - 1) * nprobes + probe'
    BY <1>0, <1>2, <1>t, <2>1 DEF T!Send, Numbered
  <2> QED
    BY <1>0, <1>2, <1>t, <2>2 DEF Numbered, T!Send
<1>3. CASE T!NextTtl
  <2>1. ttl \in 1 .. max_ttl /\ probe = nprobes
    BY <1>0, <1>3, <1>t DEF T!NextTtl, Numbered
  <2>2. /\ (ttl - 1) * nprobes \in Nat /\ ttl * nprobes \in Nat
        /\ ttl * nprobes = (ttl - 1) * nprobes + nprobes
    BY <2>1, Rows
  <2>3. CASE T!Continues
    <3>1. ttl' = ttl + 1 /\ probe' = 0 /\ done = 0 /\ ttl < max_ttl
      BY <1>3, <2>3 DEF T!NextTtl, T!Continues
    <3>2. ttl' - 1 = ttl
      BY <1>t, <3>1
    <3>3. tseq = (ttl' - 1) * nprobes + 0
      BY <1>0, <1>3, <1>t, <2>1, <2>2, <3>2 DEF T!NextTtl, Numbered
    <3> QED
      BY <1>0, <1>3, <1>t, <2>3, <3>1, <3>3 DEF Numbered, T!NextTtl
  <2>4. CASE ~T!Continues
    BY <1>0, <1>3, <1>t, <2>4 DEF Numbered, T!NextTtl
  <2> QED
    BY <2>3, <2>4
<1>4. CASE T!Check \/ T!Sleep
  BY <1>0, <1>4, <1>t DEF Numbered, T!Check, T!Sleep, T!loop
<1>5. CASE T!Receive
  <2>1. UNCHANGED <<ttl, probe, tseq, done, reached>> /\ tpc \in {"recv", "blocked"}
    BY <1>5 DEF T!Receive, T!loop
  <2>2. tpc' \in {"matched", "check", "crashed"}
    BY <1>0, <1>5, Taken
  <2> QED
    BY <1>0, <1>t, <2>1, <2>2 DEF Numbered
<1>6. CASE T!Matched
  BY <1>0, <1>6, <1>t DEF Numbered, T!Matched
<1>7. CASE T!Alarm
  <2>1. UNCHANGED <<ttl, probe, tseq, done, reached>>
    BY <1>7 DEF T!Alarm, T!loop
  <2>2. tpc' = tpc \/ (tpc = "blocked" /\ tpc' = "check")
    BY <1>7 DEF T!Alarm
  <2> QED
    BY <1>0, <1>t, <2>1, <2>2 DEF Numbered
<1>8. CASE UNCHANGED T!vars
  BY <1>0, <1>8 DEF Numbered, T!vars
<1> QED
  BY TraceCases, <1>1, <1>2, <1>3, <1>4, <1>5, <1>6, <1>7, <1>8

LEMMA AttributedStep ==
  TraceInv /\ [T!Next]_(T!vars) => Attributed' /\ T!AnswersAttributed' /\ T!NoStaleTimeout'
<1> SUFFICES ASSUME TraceInv, [T!Next]_(T!vars)
             PROVE  Attributed' /\ T!AnswersAttributed' /\ T!NoStaleTimeout'
  OBVIOUS
<1>0. T!TypeOK /\ Numbered /\ Attributed /\ T!AnswersAttributed /\ T!NoStaleTimeout
  BY DEF TraceInv
<1>t. /\ ttl \in Nat \ {0} /\ probe \in 0 .. nprobes /\ done \in Nat /\ reached \in 0 .. max_ttl
      /\ tseq \in Nat /\ max_ttl \in Nat /\ nprobes \in Nat
      /\ tqueue \in Seq(Messages) /\ Len(tqueue) \in Nat
      /\ tseq \in {T!Foreign} \cup T!Probes
      /\ answer \in [{T!Foreign} \cup T!Probes -> T!Kinds \cup {T!None}]
  BY <1>0, TraceAssumption DEF T!TypeOK, T!Probes, Messages, T!Foreign
\* The bound of the probes while the destination's first answer is counted.
<1>r. ASSUME tpc # "end" PROVE tseq <= nprobes * ttl
  <2>1. ttl \in 1 .. max_ttl
    BY <1>0, <1>t, <1>r DEF Numbered
  <2>2. /\ (ttl - 1) * nprobes \in Nat /\ ttl * nprobes \in Nat
        /\ ttl * nprobes = (ttl - 1) * nprobes + nprobes /\ nprobes * ttl = ttl * nprobes
    BY <2>1, Rows
  <2> QED
    BY <1>0, <1>t, <1>r, <2>2 DEF Numbered
<1>1. CASE \E s \in {T!Foreign} \cup T!Probes : T!Arrive(s)
  <2>1. PICK s \in {T!Foreign} \cup T!Probes : T!Arrive(s)
    BY <1>1
  <2>2. PICK k \in T!Kinds :
           /\ answer[s] = T!None /\ answer' = [answer EXCEPT ![s] = k]
           /\ tqueue' = Append(tqueue, [seq |-> s, kind |-> k])
           /\ [seq |-> s, kind |-> k] \in Messages
    BY <1>0, <2>1, Arrival
  <2>3. UNCHANGED <<T!loop, tpc, done, gotalarm, tarmed, hip, code, rang>>
    BY <2>1 DEF T!Arrive
  <2>4. \A r \in {T!Foreign} \cup T!Probes : answer[r] # T!None => answer'[r] = answer[r]
    BY <1>t, <2>2
  <2>5. answer'[s] = k
    BY <1>t, <2>2
  <2>6. \A i \in 1 .. Len(tqueue) : answer'[tqueue[i].seq] = tqueue[i].kind
    <3> SUFFICES ASSUME NEW i \in 1 .. Len(tqueue) PROVE answer'[tqueue[i].seq] = tqueue[i].kind
      OBVIOUS
    <3>1. tqueue[i] \in Messages
      BY <1>t, ElementOfSeq
    <3>2. /\ tqueue[i].seq \in {T!Foreign} \cup T!Probes /\ tqueue[i].kind # T!None
          /\ answer[tqueue[i].seq] = tqueue[i].kind
      BY <1>0, <3>1 DEF Messages, Attributed, T!Kinds, T!None
    <3> QED
      BY <2>4, <3>2
  <2>7. \A i \in 1 .. Len(tqueue') : answer'[tqueue'[i].seq] = tqueue'[i].kind
    <3>1. Len(tqueue') = Len(tqueue) + 1 /\ tqueue'[Len(tqueue) + 1] = [seq |-> s, kind |-> k]
      BY <1>t, <2>2
    <3>2. \A i \in 1 .. Len(tqueue) : tqueue'[i] = tqueue[i]
      BY <1>t, <2>2
    <3> SUFFICES ASSUME NEW i \in 1 .. Len(tqueue')
                 PROVE  answer'[tqueue'[i].seq] = tqueue'[i].kind
      OBVIOUS
    <3>3. CASE i \in 1 .. Len(tqueue)
      BY <2>6, <3>2, <3>3
    <3>4. CASE i = Len(tqueue) + 1
      BY <2>5, <3>1, <3>4
    <3> QED
      BY <1>t, <3>1, <3>3, <3>4
  <2>8. code \in {T!None, "timeout"} \/ code = answer'[tseq]
    <3>1. CASE code \in {T!None, "timeout"}
      BY <3>1
    <3>2. CASE code \notin {T!None, "timeout"}
      BY <1>0, <1>t, <2>4, <3>2 DEF T!AnswersAttributed
    <3> QED
      BY <3>1, <3>2
  <2> QED
    BY <1>0, <2>3, <2>7, <2>8 DEF Attributed, T!AnswersAttributed, T!NoStaleTimeout, T!loop
<1>2. CASE T!Send
  <2>1. /\ code' = T!None /\ tpc = "probe" /\ tpc' = "check" /\ tseq' = tseq + 1
        /\ UNCHANGED <<tqueue, answer, reached, ttl>>
    BY <1>2 DEF T!Send
  <2>2. gotalarm' = FALSE
    BY <1>2, Zenon DEF T!Send, T!GotAlarmAtStart
  <2>3. reached' > 0 => tseq' <= nprobes * reached'
    <3> SUFFICES ASSUME reached > 0 PROVE tseq + 1 <= nprobes * reached
      BY <2>1
    <3>1. ttl \in 1 .. max_ttl /\ reached = ttl /\ probe + 1 <= nprobes
      BY <1>0, <1>2, <1>t, <2>1 DEF Numbered, T!Send
    <3>2. /\ (ttl - 1) * nprobes \in Nat /\ ttl * nprobes \in Nat
          /\ ttl * nprobes = (ttl - 1) * nprobes + nprobes /\ nprobes * ttl = ttl * nprobes
      BY <3>1, Rows
    <3> QED
      BY <1>0, <1>t, <2>1, <3>1, <3>2 DEF Numbered
  <2> QED
    BY <1>0, <2>1, <2>2, <2>3 DEF Attributed, T!AnswersAttributed, T!NoStaleTimeout, T!None
<1>3. CASE T!NextTtl
  <2>1. tpc' \in {"probe", "end"}
    BY <1>3 DEF T!NextTtl
  <2>2. UNCHANGED <<tseq, gotalarm, tqueue, answer, code, rang, reached>>
    BY <1>3 DEF T!NextTtl
  <2> QED
    BY <1>0, <2>1, <2>2 DEF Attributed, T!AnswersAttributed, T!NoStaleTimeout
<1>4. CASE T!Check
  <2>1. UNCHANGED <<tseq, gotalarm, tqueue, answer, rang, reached>> /\ tpc = "check"
    BY <1>4 DEF T!Check, T!loop
  <2>2. CASE gotalarm
    BY <1>0, <1>4, <2>1, <2>2 DEF Attributed, T!AnswersAttributed, T!NoStaleTimeout, T!Check
  <2>3. CASE ~gotalarm
    BY <1>0, <1>4, <2>1, <2>3 DEF Attributed, T!AnswersAttributed, T!NoStaleTimeout, T!Check
  <2> QED
    BY <2>2, <2>3
<1>5. CASE T!Sleep
  BY <1>0, <1>5 DEF Attributed, T!AnswersAttributed, T!NoStaleTimeout, T!Sleep, T!loop
<1>6. CASE T!Receive
  <2>1. /\ Head(tqueue) \in Messages /\ Len(tqueue) > 0 /\ Head(tqueue) = tqueue[1]
        /\ tqueue' \in Seq(Messages) /\ Len(tqueue') = Len(tqueue) - 1
        /\ \A i \in 1 .. Len(tqueue') : tqueue'[i] = tqueue[i + 1]
        /\ \/ tpc' = "matched" /\ code' = Head(tqueue).kind /\ Head(tqueue).seq = tseq
           \/ tpc' = "check" /\ code' = code
           \/ tpc' = "crashed" /\ code' = code
    BY <1>0, <1>6, Taken
  <2>2. UNCHANGED <<tseq, gotalarm, answer, rang, reached>> /\ tpc \in {"recv", "blocked"}
    BY <1>6 DEF T!Receive, T!loop
  <2>3. \A i \in 1 .. Len(tqueue') : answer'[tqueue'[i].seq] = tqueue'[i].kind
    BY <1>0, <1>t, <2>1, <2>2 DEF Attributed
  <2>4. CASE tpc' = "matched" /\ code' = Head(tqueue).kind /\ Head(tqueue).seq = tseq
    <3>1. answer[tseq] = Head(tqueue).kind
      BY <1>0, <1>t, <2>1, <2>4 DEF Attributed
    <3>2. code' \in T!Kinds
      BY <2>1, <2>4 DEF Messages
    <3> QED
      BY <1>0, <2>2, <2>3, <2>4, <3>1, <3>2
         DEF Attributed, T!AnswersAttributed, T!NoStaleTimeout, T!Kinds
  <2>5. CASE code' = code /\ tpc' \in {"check", "crashed"}
    BY <1>0, <2>2, <2>3, <2>5 DEF Attributed, T!AnswersAttributed, T!NoStaleTimeout
  <2> QED
    BY <2>1, <2>4, <2>5
<1>7. CASE T!Matched
  <2>1. /\ tpc = "matched" /\ tpc' = "probe" /\ reached' \in {ttl, reached}
        /\ UNCHANGED <<tseq, gotalarm, tqueue, answer, code, rang>>
    BY <1>7 DEF T!Matched
  <2> QED
    BY <1>0, <1>r, <2>1 DEF Attributed, T!AnswersAttributed, T!NoStaleTimeout
<1>8. CASE T!Alarm
  <2>1. rang' = TRUE
    BY <1>8, Zenon DEF T!Alarm
  <2>2. UNCHANGED <<tseq, reached, tqueue, answer, code>> /\ tpc' \in {tpc, "check"}
    BY <1>8 DEF T!Alarm, T!loop
  <2> QED
    BY <1>0, <2>1, <2>2 DEF Attributed, T!AnswersAttributed, T!NoStaleTimeout
<1>9. CASE UNCHANGED T!vars
  BY <1>0, <1>9 DEF Attributed, T!AnswersAttributed, T!NoStaleTimeout, T!vars
<1> QED
  BY TraceCases, <1>1, <1>2, <1>3, <1>4, <1>5, <1>6, <1>7, <1>8, <1>9

LEMMA TraceStep == TraceInv /\ [T!Next]_(T!vars) => TraceInv'
  BY TraceTypeStep, NumberedStep, AttributedStep DEF TraceInv

-----------------------------------------------------------------------------
(* The heartbeat.  The halves of lines between the client's input and its   *)
(* output: none appears on the way, and none disappears while both sides    *)
(* run, nor, after the server saw the end of the input, while the client    *)
(* runs.                                                                    *)
Conserved ==
  /\ pend + c2s + held + s2c + rbuf + got + hshown <= 2 * lines
  /\ H!ClientUp /\ H!ServerUp => 2 * lines = pend + c2s + held + s2c + rbuf + got + hshown
  /\ H!ClientUp /\ serverEnd = "eof" =>
       stdineof /\ 2 * session.lines = s2c + rbuf + got + hshown
  /\ cend = "normal" => ~H!ServerUp
  /\ cend = "normal" /\ serverEnd = "eof" => hshown = 2 * session.lines

\* Where the client is: what it has to write and what it has read, the end of
\* its input, and the counts of both sides.
Places ==
  /\ cm = "write" <=> pend > 0
  /\ got > 0 => cm \in {"line", "eintr"}
  /\ cm \in {"line", "eintr"} => rbuf = 0
  /\ stdineof => lines = session.lines /\ cm # "write"
  /\ H!ClientUp => (cfin = "open" \/ stdineof) /\ cprobes <= session.limit
  /\ H!ServerUp => sfin = "open" /\ sprobes <= session.limit

\* After the end of the input no handler runs that could set the alarm again.
Off == stdineof => ~carmed /\ ~probing /\ cend # "unreachable"

\* The numbers of the state, without the bounds that Conserved gives.
Counts ==
  /\ session.lines \in Nat /\ session.room \in Nat /\ session.limit \in Nat
  /\ c2s \in Nat /\ s2c \in Nat /\ c2sUrg \in Nat /\ s2cUrg \in Nat
  /\ lines \in Nat /\ pend \in Nat /\ got \in Nat /\ rbuf \in Nat /\ hshown \in Nat
  /\ held \in Nat /\ cprobes \in Nat /\ sprobes \in Nat
  /\ lines <= session.lines /\ pend <= 2 /\ got <= 1
  /\ c2s + c2sUrg <= session.room /\ s2c + s2cUrg <= session.room
  /\ cprobes <= session.limit + 1 /\ sprobes <= session.limit + 1

BeatInv == H!TypeOK /\ Conserved /\ Places /\ Off

LEMMA SessionTypes ==
  ASSUME session \in {TwoLines, Silence}
  PROVE  session.lines \in Nat /\ session.room \in Nat /\ session.limit \in Nat
  BY DEF TwoLines, Silence

LEMMA BeatInit == H!Init => BeatInv
<1> SUFFICES ASSUME H!Init PROVE BeatInv
  OBVIOUS
<1>1. session.lines \in Nat /\ session.room \in Nat /\ session.limit \in Nat
  BY SessionTypes DEF H!Init
<1>2. H!TypeOK
  <2>1. /\ up \in BOOLEAN /\ csig \in BOOLEAN /\ ssig \in BOOLEAN /\ probing \in BOOLEAN
        /\ stdineof \in BOOLEAN /\ carmed \in BOOLEAN /\ sending \in BOOLEAN
    BY Zenon DEF H!Init
  <2> QED
    BY <1>1, <2>1 DEF H!Init, H!TypeOK, H!Halves, H!InputLines, H!Cap, H!maxnprobes
<1>3. Conserved
  BY <1>1 DEF H!Init, Conserved, H!ClientUp, H!ServerUp
<1>4. Places
  BY <1>1 DEF H!Init, Places, H!ClientUp, H!ServerUp
<1>5. Off
  BY DEF H!Init, Off
<1> QED
  BY <1>2, <1>3, <1>4, <1>5 DEF BeatInv

LEMMA BeatCases ==
  ASSUME [H!Next]_(H!vars)
  PROVE  \/ H!ReadLineOfInput \/ H!EndOfInput \/ H!ClientWrite \/ H!TakeBuffered \/ H!ReadLine
         \/ H!ReadEof \/ H!FailedRead \/ H!SendProbe \/ H!ClientUrg \/ H!EchoRead \/ H!EchoEof
         \/ H!EchoWrite \/ H!ServerUrg \/ H!ServerAnswer \/ H!ClientAlarm \/ H!ServerAlarm
         \/ H!NotifyServer \/ H!NotifyClient \/ H!Cut \/ UNCHANGED H!vars
  BY Zenon DEF H!Next, H!ClientStep, H!ServerStep, H!ClientMainStep, H!ClientHandlerStep,
               H!ServerMainStep, H!ServerHandlerStep

LEMMA BeatNumbers == H!TypeOK => Counts
<1> SUFFICES ASSUME H!TypeOK PROVE Counts
  OBVIOUS
<1>1. session.lines \in Nat /\ session.room \in Nat /\ session.limit \in Nat
  BY SessionTypes DEF H!TypeOK
<1> QED
  BY <1>1 DEF Counts, H!TypeOK, H!Halves, H!InputLines, H!Cap, H!maxnprobes

LEMMA OffStep == BeatInv /\ [H!Next]_(H!vars) => Off'
<1> SUFFICES ASSUME BeatInv, [H!Next]_(H!vars) PROVE Off'
  OBVIOUS
<1>0. Off /\ H!TypeOK
  BY DEF BeatInv
<1>1. CASE H!ReadLineOfInput \/ H!ClientWrite \/ H!TakeBuffered \/ H!ReadLine \/ H!ReadEof
             \/ H!FailedRead
  BY <1>0, <1>1
     DEF Off, H!ReadLineOfInput, H!ClientWrite, H!TakeBuffered, H!ReadLine, H!ReadEof,
         H!FailedRead, H!ClientEnds
<1>2. CASE H!EndOfInput
  <2>1. carmed' = FALSE
    BY <1>2, Zenon DEF H!EndOfInput, H!ArmedAfterEof
  <2>2. ~probing /\ probing' = probing /\ cend = "none" /\ cend' = cend
    BY <1>2 DEF H!EndOfInput, H!ClientMain, H!ClientUp
  <2> QED
    BY <2>1, <2>2 DEF Off
<1>3. CASE H!SendProbe
  <2>1. ~stdineof /\ stdineof' = stdineof
    BY <1>0, <1>3 DEF Off, H!SendProbe
  <2> QED
    BY <2>1 DEF Off
<1>4. CASE H!ClientAlarm
  <2>1. ~stdineof /\ stdineof' = stdineof
    BY <1>0, <1>4 DEF Off, H!ClientAlarm
  <2> QED
    BY <2>1 DEF Off
<1>5. CASE H!ClientUrg
  BY <1>0, <1>5 DEF Off, H!ClientUrg, H!ClientEnds
<1>6. CASE H!EchoRead \/ H!EchoEof \/ H!EchoWrite \/ H!ServerUrg \/ H!ServerAnswer \/ H!ServerAlarm
             \/ H!NotifyServer \/ H!NotifyClient \/ H!Cut \/ UNCHANGED H!vars
  <2>1. UNCHANGED H!client
    BY <1>6, Zenon
       DEF H!EchoRead, H!EchoEof, H!EchoWrite, H!ServerUrg, H!ServerAnswer, H!ServerAlarm,
           H!NotifyServer, H!NotifyClient, H!Cut, H!vars
  <2> QED
    BY <1>0, <2>1 DEF Off, H!client
<1> QED
  BY BeatCases, <1>1, <1>2, <1>3, <1>4, <1>5, <1>6

LEMMA PlacesStep == BeatInv /\ [H!Next]_(H!vars) => Places'
<1> SUFFICES ASSUME BeatInv, [H!Next]_(H!vars) PROVE Places'
  OBVIOUS
<1>0. Conserved /\ Places /\ Off /\ H!TypeOK
  BY DEF BeatInv
<1>n. Counts
  BY <1>0, BeatNumbers
<1> USE DEF Counts
<1>1. CASE H!ReadLineOfInput
  BY <1>0, <1>n, <1>1
     DEF Places, H!ReadLineOfInput, H!ClientMain, H!ClientUp, H!InputLines, H!server,
         H!connection, H!ServerUp
<1>2. CASE H!EndOfInput
  BY <1>0, <1>n, <1>2
     DEF Places, H!EndOfInput, H!ClientMain, H!ClientUp, H!InputLines, H!server, H!ServerUp
<1>3. CASE H!ClientWrite
  BY <1>0, <1>n, <1>3
     DEF Places, H!ClientWrite, H!ClientMain, H!ClientUp, H!ServerUp, H!RoomToServer, H!Cap,
         H!ClientEnds, H!server
<1>4. CASE H!TakeBuffered
  BY <1>0, <1>n, <1>4
     DEF Places, H!TakeBuffered, H!ClientMain, H!ClientUp, H!server, H!connection, H!ServerUp
<1>5. CASE H!ReadLine
  BY <1>0, <1>n, <1>5
     DEF Places, H!ReadLine, H!ClientMain, H!ClientUp, H!ServerData, H!server, H!ServerUp
<1>6. CASE H!ReadEof
  <2>1. /\ UNCHANGED <<session, sfin, pend, lines, stdineof, cprobes, serverEnd, sprobes>>
        /\ cm # "write" /\ cend = "none"
    BY <1>6 DEF H!ReadEof, H!ClientMain, H!ClientUp, H!server
  <2>2. \/ got' = 0 /\ rbuf' = 0 /\ cm' = "select" /\ cend' = cend /\ cfin' = cfin
        \/ cend' # "none" /\ got' = got /\ rbuf' = rbuf /\ cm' = cm
    BY <1>6 DEF H!ReadEof, H!ClientEnds
  <2> QED
    BY <1>0, <1>n, <2>1, <2>2 DEF Places, H!ClientUp, H!ServerUp
<1>7. CASE H!FailedRead
  BY <1>0, <1>n, <1>7
     DEF Places, H!FailedRead, H!ClientMain, H!ClientUp, H!ClientEnds, H!server, H!ServerUp
<1>8. CASE H!SendProbe
  BY <1>0, <1>n, <1>8
     DEF Places, H!SendProbe, H!ClientUp, H!ServerUp, H!RoomToServer, H!Cap, H!ClientEnds,
         H!server
<1>9. CASE H!ClientUrg
  <2>1. UNCHANGED <<session, sfin, cm, pend, lines, stdineof, got, rbuf, serverEnd, sprobes>>
    BY <1>9 DEF H!ClientUrg, H!server
  <2>2. \/ cend' # "none"
        \/ cend' = cend /\ cfin' = cfin /\ cprobes' = 0
    BY <1>9 DEF H!ClientUrg, H!ClientEnds
  <2> QED
    BY <1>0, <1>n, <2>1, <2>2 DEF Places, H!ClientUp, H!ServerUp
<1>10. CASE H!EchoRead
  BY <1>0, <1>n, <1>10
     DEF Places, H!EchoRead, H!ServerMain, H!ServerUp, H!ClientUp, H!client
<1>11. CASE H!EchoEof
  BY <1>0, <1>n, <1>11
     DEF Places, H!EchoEof, H!ServerMain, H!ServerUp, H!ClientUp, H!ServerEnds, H!client
<1>12. CASE H!EchoWrite
  BY <1>0, <1>n, <1>12
     DEF Places, H!EchoWrite, H!ServerMain, H!ServerUp, H!ClientUp, H!RoomToClient, H!Cap,
         H!ServerEnds, H!client
<1>13. CASE H!ServerUrg
  BY <1>0, <1>n, <1>13
     DEF Places, H!ServerUrg, H!ServerMain, H!ServerUp, H!ServerEnds, H!client, H!ClientUp
<1>14. CASE H!ServerAnswer
  <2>1. UNCHANGED <<session, cfin, cm, pend, lines, stdineof, got, rbuf, cend, cprobes>>
    BY <1>14 DEF H!ServerAnswer, H!client
  <2>2. \/ serverEnd' # "none"
        \/ serverEnd' = serverEnd /\ sfin' = sfin /\ sprobes' = 0
    BY <1>14 DEF H!ServerAnswer, H!ServerEnds
  <2> QED
    BY <1>0, <1>n, <2>1, <2>2 DEF Places, H!ClientUp, H!ServerUp
<1>15. CASE H!ClientAlarm
  <2>1. UNCHANGED <<session, sfin, pend, lines, stdineof, got, rbuf, serverEnd, sprobes>>
    BY <1>15 DEF H!ClientAlarm, H!server
  <2>2. \/ cend' # "none" /\ cm' = cm
        \/ /\ cend' = cend /\ cfin' = cfin
           /\ cprobes' = cprobes + 1 /\ ~(cprobes + 1 > session.limit)
           /\ cm' = cm \/ (cm = "line" /\ cm' = "eintr")
    BY <1>15 DEF H!ClientAlarm, H!ClientEnds, H!GivesUp, H!maxnprobes, H!Asleep
  <2> QED
    BY <1>0, <1>n, <2>1, <2>2 DEF Places, H!ClientUp, H!ServerUp
<1>16. CASE H!ServerAlarm
  BY <1>0, <1>n, <1>16
     DEF Places, H!ServerAlarm, H!ServerUp, H!GivesUp, H!maxnprobes, H!ServerEnds, H!client,
         H!ClientUp
<1>17. CASE H!NotifyServer
  BY <1>0, <1>n, <1>17
     DEF Places, H!NotifyServer, H!server, H!client, H!ClientUp, H!ServerUp
<1>18. CASE H!NotifyClient
  BY <1>0, <1>n, <1>18
     DEF Places, H!NotifyClient, H!server, H!client, H!ClientUp, H!ServerUp
<1>19. CASE H!Cut
  BY <1>0, <1>n, <1>19
     DEF Places, H!Cut, H!server, H!client, H!ClientUp, H!ServerUp
<1>20. CASE UNCHANGED H!vars
  BY <1>0, <1>20
     DEF Places, H!vars, H!connection, H!client, H!server, H!ClientUp, H!ServerUp
<1> QED
  BY BeatCases, <1>1, <1>2, <1>3, <1>4, <1>5, <1>6, <1>7, <1>8, <1>9, <1>10, <1>11, <1>12,
     <1>13, <1>14, <1>15, <1>16, <1>17, <1>18, <1>19, <1>20

LEMMA ConservedStep == BeatInv /\ [H!Next]_(H!vars) => Conserved'
<1> SUFFICES ASSUME BeatInv, [H!Next]_(H!vars) PROVE Conserved'
  OBVIOUS
<1>0. Conserved /\ Places /\ Off /\ H!TypeOK
  BY DEF BeatInv
<1>n. Counts
  BY <1>0, BeatNumbers
<1> USE DEF Counts
<1>1. CASE H!ReadLineOfInput
  BY <1>0, <1>n, <1>1
     DEF Places, Conserved, H!ReadLineOfInput, H!ClientMain, H!ClientUp, H!InputLines,
         H!server, H!connection, H!ServerUp
<1>2. CASE H!EndOfInput
  BY <1>0, <1>n, <1>2
     DEF Places, Conserved, H!EndOfInput, H!ClientMain, H!ClientUp, H!InputLines, H!server,
         H!ServerUp
<1>3. CASE H!ClientWrite
  BY <1>0, <1>n, <1>3
     DEF Places, Conserved, H!ClientWrite, H!ClientMain, H!ClientUp, H!ServerUp,
         H!RoomToServer, H!Cap, H!ClientEnds, H!server
<1>4. CASE H!TakeBuffered
  BY <1>0, <1>n, <1>4
     DEF Places, Conserved, H!TakeBuffered, H!ClientMain, H!ClientUp, H!server, H!connection,
         H!ServerUp
<1>5. CASE H!ReadLine
  BY <1>0, <1>n, <1>5
     DEF Places, Conserved, H!ReadLine, H!ClientMain, H!ClientUp, H!ServerData, H!server,
         H!ServerUp
<1>6. CASE H!ReadEof
  BY <1>0, <1>n, <1>6
     DEF Places, Conserved, H!ReadEof, H!ClientMain, H!ClientUp, H!ServerUp, H!ServerClosed,
         H!ClientEnds, H!server
<1>7. CASE H!FailedRead
  BY <1>0, <1>n, <1>7
     DEF Places, Conserved, H!FailedRead, H!ClientMain, H!ClientUp, H!ClientEnds, H!server,
         H!ServerUp
<1>8. CASE H!SendProbe
  BY <1>0, <1>n, <1>8
     DEF Places, Conserved, H!SendProbe, H!ClientUp, H!ServerUp, H!RoomToServer, H!Cap,
         H!ClientEnds, H!server
<1>9. CASE H!ClientUrg
  BY <1>0, <1>n, <1>9
     DEF Places, Conserved, H!ClientUrg, H!ClientUp, H!ClientEnds, H!server, H!ServerUp
<1>10. CASE H!EchoRead
  BY <1>0, <1>n, <1>10
     DEF Places, Conserved, H!EchoRead, H!ServerMain, H!ServerUp, H!ClientUp, H!client
<1>11. CASE H!EchoEof
  BY <1>0, <1>n, <1>11
     DEF Places, Conserved, H!EchoEof, H!ServerMain, H!ServerUp, H!ClientUp, H!ServerEnds,
         H!client
<1>12. CASE H!EchoWrite
  BY <1>0, <1>n, <1>12
     DEF Places, Conserved, H!EchoWrite, H!ServerMain, H!ServerUp, H!ClientUp, H!RoomToClient,
         H!Cap, H!ServerEnds, H!client
<1>13. CASE H!ServerUrg
  BY <1>0, <1>n, <1>13
     DEF Places, Conserved, H!ServerUrg, H!ServerMain, H!ServerUp, H!ServerEnds, H!client,
         H!ClientUp
<1>14. CASE H!ServerAnswer
  BY <1>0, <1>n, <1>14
     DEF Places, Conserved, H!ServerAnswer, H!ServerUp, H!ClientUp, H!RoomToClient, H!Cap,
         H!ServerEnds, H!client
<1>15. CASE H!ClientAlarm
  BY <1>0, <1>n, <1>15
     DEF Places, Conserved, H!ClientAlarm, H!ClientUp, H!Asleep, H!GivesUp, H!maxnprobes,
         H!ClientEnds, H!server, H!ServerUp
<1>16. CASE H!ServerAlarm
  BY <1>0, <1>n, <1>16
     DEF Places, Conserved, H!ServerAlarm, H!ServerUp, H!GivesUp, H!maxnprobes, H!ServerEnds,
         H!client, H!ClientUp
<1>17. CASE H!NotifyServer
  BY <1>0, <1>n, <1>17
     DEF Places, Conserved, H!NotifyServer, H!server, H!client, H!ClientUp, H!ServerUp
<1>18. CASE H!NotifyClient
  BY <1>0, <1>n, <1>18
     DEF Places, Conserved, H!NotifyClient, H!server, H!client, H!ClientUp, H!ServerUp
<1>19. CASE H!Cut
  BY <1>0, <1>n, <1>19
     DEF Places, Conserved, H!Cut, H!server, H!client, H!ClientUp, H!ServerUp
<1>20. CASE UNCHANGED H!vars
  BY <1>0, <1>20
     DEF Places, Conserved, H!vars, H!connection, H!client, H!server, H!ClientUp, H!ServerUp
<1> QED
  BY BeatCases, <1>1, <1>2, <1>3, <1>4, <1>5, <1>6, <1>7, <1>8, <1>9, <1>10, <1>11, <1>12,
     <1>13, <1>14, <1>15, <1>16, <1>17, <1>18, <1>19, <1>20

\* The session stays what it is, and flags stay flags.
LEMMA BeatFlags ==
  BeatInv /\ [H!Next]_(H!vars) =>
    /\ session' = session
    /\ up' \in BOOLEAN /\ csig' \in BOOLEAN /\ ssig' \in BOOLEAN /\ probing' \in BOOLEAN
    /\ stdineof' \in BOOLEAN /\ carmed' \in BOOLEAN /\ sending' \in BOOLEAN
<1> DEFINE
      Flags == /\ up \in BOOLEAN /\ csig \in BOOLEAN /\ ssig \in BOOLEAN /\ probing \in BOOLEAN
               /\ stdineof \in BOOLEAN /\ carmed \in BOOLEAN /\ sending \in BOOLEAN
<1> SUFFICES ASSUME BeatInv, [H!Next]_(H!vars) PROVE session' = session /\ Flags'
  OBVIOUS
<1>0. Flags
  BY DEF BeatInv, H!TypeOK
<1>1. CASE H!ReadLineOfInput \/ H!TakeBuffered \/ UNCHANGED H!vars
  BY <1>0, <1>1, Zenon
     DEF H!ReadLineOfInput, H!TakeBuffered, H!vars, H!connection, H!client, H!server
<1>6. CASE H!EchoRead \/ H!EchoEof \/ H!EchoWrite
  BY <1>0, <1>6, Zenon DEF H!EchoRead, H!EchoEof, H!EchoWrite, H!connection, H!client, H!server
<1>7. CASE H!ServerAlarm
  BY <1>0, <1>7, Zenon DEF H!ServerAlarm, H!connection, H!client, H!server
<1>2. CASE H!ClientWrite \/ H!ReadLine \/ H!ReadEof \/ H!FailedRead
  BY <1>0, <1>2, Zenon
     DEF H!ClientWrite, H!ReadLine, H!ReadEof, H!FailedRead, H!server
<1>3. CASE H!EndOfInput \/ H!SendProbe \/ H!ClientAlarm
  BY <1>0, <1>3, Zenon
     DEF H!EndOfInput, H!ArmedAfterEof, H!SendProbe, H!ClientAlarm, H!server
<1>4. CASE H!ClientUrg \/ H!ServerUrg \/ H!ServerAnswer
  BY <1>0, <1>4, Zenon DEF H!ClientUrg, H!ServerUrg, H!ServerAnswer, H!client, H!server
<1>5. CASE H!NotifyServer \/ H!NotifyClient \/ H!Cut
  BY <1>0, <1>5, Zenon DEF H!NotifyServer, H!NotifyClient, H!Cut, H!client, H!server
<1> QED
  BY BeatCases, <1>1, <1>2, <1>3, <1>4, <1>5, <1>6, <1>7

LEMMA CountsStep == BeatInv /\ [H!Next]_(H!vars) => Counts'
<1> SUFFICES ASSUME BeatInv, [H!Next]_(H!vars) PROVE Counts'
  OBVIOUS
<1>0. Places /\ H!TypeOK
  BY DEF BeatInv
<1>n. Counts
  BY <1>0, BeatNumbers
<1>1. CASE H!ReadLineOfInput
  BY <1>0, <1>n, <1>1
     DEF Counts, Places, H!ReadLineOfInput, H!InputLines, H!connection, H!server
<1>2. CASE H!EndOfInput
  BY <1>0, <1>n, <1>2
     DEF Counts, Places, H!EndOfInput, H!server
<1>3. CASE H!ClientWrite
  BY <1>0, <1>n, <1>3
     DEF Counts, Places, H!ClientWrite, H!RoomToServer, H!Cap, H!server
<1>4. CASE H!TakeBuffered
  BY <1>0, <1>n, <1>4
     DEF Counts, Places, H!TakeBuffered, H!connection, H!server
<1>5. CASE H!ReadLine
  BY <1>0, <1>n, <1>5
     DEF Counts, Places, H!ReadLine, H!ServerData, H!server
<1>6. CASE H!ReadEof
  BY <1>0, <1>n, <1>6
     DEF Counts, Places, H!ReadEof, H!server
<1>7. CASE H!FailedRead
  BY <1>0, <1>n, <1>7
     DEF Counts, Places, H!FailedRead, H!server
<1>8. CASE H!SendProbe
  <2>1. UNCHANGED <<session, c2s, s2c, s2cUrg, lines, pend, got, rbuf, hshown, held,
                    cprobes, sprobes>>
    BY <1>8 DEF H!SendProbe, H!server
  <2>2. \/ c2sUrg' = c2sUrg
        \/ c2sUrg' = c2sUrg + 1 /\ c2s + c2sUrg < session.room
    BY <1>8 DEF H!SendProbe, H!RoomToServer, H!Cap
  <2> QED
    BY <1>n, <2>1, <2>2 DEF Counts
<1>9. CASE H!ClientUrg
  <2>1. UNCHANGED <<session, c2s, s2c, c2sUrg, lines, pend, got, rbuf, hshown, held, sprobes>>
    BY <1>9 DEF H!ClientUrg, H!server
  <2>2. s2cUrg' \in {s2cUrg, 0} /\ cprobes' \in {cprobes, 0}
    BY <1>9 DEF H!ClientUrg
  <2> QED
    BY <1>n, <2>1, <2>2 DEF Counts
<1>10. CASE H!EchoRead
  BY <1>0, <1>n, <1>10
     DEF Counts, Places, H!EchoRead, H!client
<1>11. CASE H!EchoEof
  BY <1>0, <1>n, <1>11
     DEF Counts, Places, H!EchoEof, H!client
<1>12. CASE H!EchoWrite
  BY <1>0, <1>n, <1>12
     DEF Counts, Places, H!EchoWrite, H!RoomToClient, H!Cap, H!client
<1>13. CASE H!ServerUrg
  <2>1. UNCHANGED <<session, c2s, s2c, s2cUrg, lines, pend, got, rbuf, hshown, held,
                    cprobes, sprobes>>
    BY <1>13 DEF H!ServerUrg, H!client
  <2>2. c2sUrg' \in {c2sUrg, 0}
    BY <1>13 DEF H!ServerUrg
  <2> QED
    BY <1>n, <2>1, <2>2 DEF Counts
<1>14. CASE H!ServerAnswer
  <2>1. UNCHANGED <<session, c2s, s2c, c2sUrg, lines, pend, got, rbuf, hshown, held, cprobes>>
    BY <1>14 DEF H!ServerAnswer, H!client
  <2>2. /\ sprobes' \in {sprobes, 0}
        /\ \/ s2cUrg' = s2cUrg
           \/ s2cUrg' = s2cUrg + 1 /\ s2c + s2cUrg < session.room
    BY <1>14 DEF H!ServerAnswer, H!RoomToClient, H!Cap
  <2> QED
    BY <1>n, <2>1, <2>2 DEF Counts
<1>15. CASE H!ClientAlarm
  BY <1>0, <1>n, <1>15
     DEF Counts, Places, H!ClientAlarm, H!ClientUp, H!server
<1>16. CASE H!ServerAlarm
  BY <1>0, <1>n, <1>16
     DEF Counts, Places, H!ServerAlarm, H!ServerUp, H!client
<1>17. CASE H!NotifyServer
  BY <1>0, <1>n, <1>17
     DEF Counts, Places, H!NotifyServer, H!client, H!server
<1>18. CASE H!NotifyClient
  BY <1>0, <1>n, <1>18
     DEF Counts, Places, H!NotifyClient, H!client, H!server
<1>19. CASE H!Cut
  BY <1>0, <1>n, <1>19
     DEF Counts, Places, H!Cut, H!client, H!server
<1>20. CASE UNCHANGED H!vars
  BY <1>n, <1>20
     DEF Counts, H!vars, H!connection, H!client, H!server
<1> QED
  BY BeatCases, <1>1, <1>2, <1>3, <1>4, <1>5, <1>6, <1>7, <1>8, <1>9, <1>10, <1>11, <1>12,
     <1>13, <1>14, <1>15, <1>16, <1>17, <1>18, <1>19, <1>20

\* No direction and no buffer holds more than the whole input.
InHalves ==
  /\ c2s \in H!Halves /\ s2c \in H!Halves
  /\ rbuf \in H!Halves /\ hshown \in H!Halves /\ held \in H!Halves

LEMMA HalvesBounded == Counts /\ Conserved => InHalves
<1> SUFFICES ASSUME Counts, Conserved PROVE InHalves
  OBVIOUS
<1> DEFINE n == session.lines
<1>1. /\ pend \in Nat /\ c2s \in Nat /\ held \in Nat /\ s2c \in Nat /\ rbuf \in Nat
      /\ got \in Nat /\ hshown \in Nat /\ lines \in Nat /\ n \in Nat /\ lines <= n
  BY DEF Counts
<1>2. pend + c2s + held + s2c + rbuf + got + hshown <= 2 * lines
  BY DEF Conserved
<1>3. H!Halves = 0 .. 2 * n
  BY DEF H!Halves, H!InputLines
<1> HIDE DEF n
<1> QED
  BY <1>1, <1>2, <1>3 DEF InHalves

LEMMA BeatTypeStep == BeatInv /\ [H!Next]_(H!vars) => H!TypeOK'
<1> SUFFICES ASSUME BeatInv, [H!Next]_(H!vars) PROVE H!TypeOK'
  OBVIOUS
<1> DEFINE
      Labels == /\ cfin \in {"open", "fin", "rst"} /\ sfin \in {"open", "fin", "rst"}
                /\ curg \in {"fresh", "read"} /\ surg \in {"fresh", "read"}
                /\ cm \in {"select", "write", "line", "eintr"}
                /\ cend \in {"none", "normal", "premature", "unreachable", "garbled", "error",
                            "killed"}
                /\ serverEnd \in {"none", "eof", "noprobes", "error", "killed"}
<1>0. Labels /\ session \in {TwoLines, Silence}
  BY DEF BeatInv, H!TypeOK
<1>1. Labels'
  <2>1. CASE H!ReadLineOfInput \/ H!EndOfInput \/ H!TakeBuffered
    BY <1>0, <2>1
       DEF H!ReadLineOfInput, H!EndOfInput, H!TakeBuffered, H!connection, H!server
  <2>2. CASE H!ReadLine
    BY <1>0, <2>2 DEF H!ReadLine, H!server
  <2>3. CASE H!ClientWrite \/ H!FailedRead
    BY <1>0, <2>3 DEF H!ClientWrite, H!FailedRead, H!ClientEnds, H!server
  <2>4. CASE H!ReadEof
    BY <1>0, <2>4 DEF H!ReadEof, H!ClientEnds, H!server
  <2>5. CASE H!SendProbe
    BY <1>0, <2>5 DEF H!SendProbe, H!ClientEnds, H!server
  <2>6. CASE H!ClientUrg
    BY <1>0, <2>6 DEF H!ClientUrg, H!ClientEnds, H!server
  <2>7. CASE H!ClientAlarm
    BY <1>0, <2>7 DEF H!ClientAlarm, H!Asleep, H!ClientEnds, H!server
  <2>8. CASE H!EchoRead \/ H!EchoEof \/ H!EchoWrite
    BY <1>0, <2>8 DEF H!EchoRead, H!EchoEof, H!EchoWrite, H!ServerEnds, H!client
  <2>9. CASE H!ServerUrg
    BY <1>0, <2>9 DEF H!ServerUrg, H!ServerEnds, H!client
  <2>10. CASE H!ServerAnswer \/ H!ServerAlarm
    BY <1>0, <2>10 DEF H!ServerAnswer, H!ServerAlarm, H!ServerEnds, H!client
  <2>11. CASE H!NotifyServer \/ H!NotifyClient \/ H!Cut \/ UNCHANGED H!vars
    BY <1>0, <2>11
       DEF H!NotifyServer, H!NotifyClient, H!Cut, H!vars, H!connection, H!client, H!server
  <2> QED
    BY BeatCases, <2>1, <2>2, <2>3, <2>4, <2>5, <2>6, <2>7, <2>8, <2>9, <2>10, <2>11
<1>2. /\ session' = session
      /\ up' \in BOOLEAN /\ csig' \in BOOLEAN /\ ssig' \in BOOLEAN /\ probing' \in BOOLEAN
      /\ stdineof' \in BOOLEAN /\ carmed' \in BOOLEAN /\ sending' \in BOOLEAN
  BY BeatFlags
<1>3. Counts' /\ Conserved'
  BY CountsStep, ConservedStep
<1>4. InHalves'
  BY <1>3, HalvesBounded, PTL
<1>5. /\ c2sUrg' \in 0 .. H!Cap' /\ s2cUrg' \in 0 .. H!Cap'
      /\ c2s' + c2sUrg' <= H!Cap' /\ s2c' + s2cUrg' <= H!Cap'
      /\ lines' \in 0 .. H!InputLines' /\ pend' \in 0 .. 2 /\ got' \in 0 .. 1
      /\ cprobes' \in 0 .. H!maxnprobes' + 1 /\ sprobes' \in 0 .. H!maxnprobes' + 1
  BY <1>3 DEF Counts, H!Cap, H!InputLines, H!maxnprobes
<1> QED
  BY <1>0, <1>1, <1>2, <1>4, <1>5, Zenon DEF H!TypeOK, InHalves

LEMMA BeatStep == BeatInv /\ [H!Next]_(H!vars) => BeatInv'
  BY BeatTypeStep, ConservedStep, PlacesStep, OffStep DEF BeatInv

-----------------------------------------------------------------------------
(* The four clients together: one of them runs, the others stutter.        *)
LEMMA OneRuns ==
  ASSUME [AnyNext]_allvars
  PROVE  [Next]_vars /\ [U!Next]_(U!vars) /\ [T!Next]_(T!vars) /\ [H!Next]_(H!vars)
<1> DEFINE
      NoUdp == UNCHANGED uvars => UNCHANGED U!vars
      NoTrace == UNCHANGED tvars => UNCHANGED T!vars
      NoBeat == UNCHANGED hvars => UNCHANGED H!vars
<1>1. NoUdp
  BY DEF uvars, U!vars, U!counts, U!timers
<1>2. NoTrace
  BY DEF tvars, T!vars, T!loop
<1>3. NoBeat
  BY DEF hvars, H!vars, H!connection, H!client, H!server
<1> HIDE DEF NoUdp, NoTrace, NoBeat
<1>4. UNCHANGED allvars => UNCHANGED <<vars, uvars, tvars, hvars>>
  BY DEF allvars
<1>5. CASE Dg(Next)
  BY <1>1, <1>2, <1>3, <1>5 DEF Dg, NoUdp, NoTrace, NoBeat
<1>6. CASE Udp(U!Next)
  BY <1>2, <1>3, <1>6 DEF Udp, NoTrace, NoBeat
<1>7. CASE Trace(T!Next)
  BY <1>1, <1>3, <1>7 DEF Trace, NoUdp, NoBeat
<1>8. CASE Beat(H!Next)
  BY <1>1, <1>2, <1>8 DEF Beat, NoUdp, NoTrace
<1>9. CASE UNCHANGED allvars
  BY <1>1, <1>2, <1>3, <1>4, <1>9 DEF NoUdp, NoTrace, NoBeat
<1> QED
  BY <1>5, <1>6, <1>7, <1>8, <1>9 DEF AnyNext

\* The inductive invariants of the four clients hold whichever of them runs.
THEOREM FamilyInvariant == AnySpec => [](IInv /\ UdpInv /\ TraceInv /\ BeatInv)
<1>1. AnyInit => IInv /\ UdpInv /\ TraceInv /\ BeatInv
  BY InitInv, UdpInit, TraceInit, BeatInit DEF AnyInit
<1>2. ASSUME IInv /\ UdpInv /\ TraceInv /\ BeatInv, [AnyNext]_allvars
      PROVE  IInv' /\ UdpInv' /\ TraceInv' /\ BeatInv'
  <2>1. [Next]_vars /\ [U!Next]_(U!vars) /\ [T!Next]_(T!vars) /\ [H!Next]_(H!vars)
    BY <1>2, OneRuns
  <2>2. IInv'
    BY <1>2, <2>1, TypeStep, NumbersStep, SentStep, CountedStep, BackoffStep, BoundedStep,
       AlarmStep DEF IInv
  <2> QED
    BY <1>2, <2>1, <2>2, UdpStep, TraceStep, BeatStep
<1> QED
  BY <1>1, <1>2, PTL DEF AnySpec

\* Whichever client runs, every datagram, ICMP message and half of a line is
\* accounted for, and what a client shows answers what it asked last.
THEOREM NoneMistaken == AnySpec => []NoAnswerMistaken
<1>1. UdpInv /\ TraceInv /\ BeatInv => NoAnswerMistaken
  <2> SUFFICES ASSUME UdpInv, TraceInv, BeatInv PROVE NoAnswerMistaken
    OBVIOUS
  <2>1. U!AnswersAccounted /\ T!AnswersAttributed
    BY DEF UdpInv, TraceInv
  <2>2. H!EchoConserved
    BY DEF BeatInv, Conserved, H!EchoConserved, H!InputLines
  <2> QED
    BY <2>1, <2>2 DEF NoAnswerMistaken
<1> QED
  BY <1>1, FamilyInvariant, PTL

\* A wait is given up for its own timeout only: no alarm, SIGALRM or byte in the
\* pipe is left when a client is back at Fgets, traceroute gives a probe up only
\* if that probe's alarm rang, and the heartbeat stays off after the input.
THEOREM NoTimeoutsMistaken == AnySpec => []NoTimeoutMistaken
<1>1. UdpInv /\ TraceInv /\ BeatInv => NoTimeoutMistaken
  <2> SUFFICES ASSUME UdpInv, TraceInv, BeatInv PROVE NoTimeoutMistaken
    OBVIOUS
  <2>1. U!NoStaleTimeout
    <3>1. pipe \in 0 .. 1
      BY DEF UdpInv, U!TypeOK
    <3> QED
      BY <3>1 DEF UdpInv, UdpTimers, U!NoStaleTimeout
  <2>2. T!NoStaleTimeout
    BY DEF TraceInv
  <2>3. H!HeartbeatOff
    BY DEF BeatInv, Off, H!HeartbeatOff
  <2> QED
    BY <2>1, <2>2, <2>3 DEF NoTimeoutMistaken
<1> QED
  BY <1>1, FamilyInvariant, PTL

\* Every variable of the four clients keeps its type, for any number of calls,
\* lines, answers, ttls and probes.
THEOREM AllTypesCorrect == AnySpec => []AllTypeOK
<1>1. IInv /\ UdpInv /\ TraceInv /\ BeatInv => AllTypeOK
  BY DEF IInv, UdpInv, TraceInv, BeatInv, AllTypeOK
<1> QED
  BY <1>1, FamilyInvariant, PTL
=============================================================================
