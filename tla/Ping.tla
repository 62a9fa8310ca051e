-------------------------------- MODULE Ping --------------------------------
(***************************************************************************)
(* ping/main.cpp over IPv4 (the IPv6 half is not compiled): the handler of *)
(* SIGALRM sends an echo request each second and sets the next alarm; the  *)
(* main loop receives whatever ICMP messages reach the raw socket, stamps  *)
(* them with the time and prints the replies to this process's requests.   *)
(* The time of sending travels in the packet.  The handler interrupts the  *)
(* loop between any two of its calls, and in recvmsg.                      *)
(***************************************************************************)
EXTENDS Integers

CONSTANTS
  USEC,         \* microseconds in a second: 1000000
  SeqSize,      \* values of icmp_seq: 2^16
  MaxSent,      \* bound: requests sent
  MaxTime,      \* bound: microseconds that pass
  MaxArrivals   \* bound: ICMP messages that arrive

Requests == 0 .. MaxSent - 1

\* What arrives besides replies to our requests: a reply to another process,
\* one to a process whose number agrees with ours in its low 16 bits, a
\* message too short to use (or no ICMP), an ICMP message of another type.
Stranger == -1
Twin     == -2
Short    == -3
Other    == -4
Strange  == {Stranger, Twin, Short, Other}

Never == -1           \* no alarm is set
Nothing == [n |-> Never]

VARIABLES
  pc,         \* "start", "recvmsg", "time", "proc" or "exit"
  now,        \* the time of day
  due,        \* when SIGALRM comes
  nsent,
  sentAt,     \* the time in the data of each request
  queue,      \* messages in the receive buffer
  arrivals,
  recvbuf,    \* the message the loop works on
  tval,       \* the time it was stamped with
  line        \* the last line about a reply: request, seq, rtt and tval

net == <<queue, arrivals>>
loop == <<recvbuf, tval, line>>
vars == <<pc, now, due, nsent, sentAt, net, loop>>

timeval(t) == [tv_sec |-> t \div USEC, tv_usec |-> t % USEC]

TypeOK ==
  /\ pc \in {"start", "recvmsg", "time", "proc", "exit"}
  /\ now \in 0 .. MaxTime /\ tval \in 0 .. MaxTime
  /\ due \in 0 .. MaxTime + USEC \cup {Never}
  /\ nsent \in 0 .. MaxSent
  /\ sentAt \in [Requests -> 0 .. MaxTime]
  /\ queue \subseteq Requests \cup Strange /\ arrivals \in 0 .. MaxArrivals
  /\ recvbuf \in Requests \cup Strange
  /\ line = Nothing \/ (line.n \in Requests \cup {Twin} /\ line.at \in 0 .. MaxTime)

Init ==
  /\ pc = "start" /\ now = 0 /\ due = Never
  /\ nsent = 0 /\ sentAt = [n \in Requests |-> 0]
  /\ queue = {} /\ arrivals = 0
  /\ recvbuf = Short /\ tval = 0 /\ line = Nothing

----------------------------------------------------------------------------
(* The world.                                                              *)

Tick ==
  /\ now < MaxTime /\ pc # "exit"
  /\ now' = now + 1
  /\ UNCHANGED <<pc, due, nsent, sentAt, net, loop>>

\* A reply to a request that was sent, once or again, late or not at all, or
\* a message that is none of ours.
Arrive(m) ==
  /\ m \in Strange \/ m < nsent
  /\ m \notin queue /\ arrivals < MaxArrivals /\ pc # "exit"
  /\ queue' = queue \cup {m} /\ arrivals' = arrivals + 1
  /\ UNCHANGED <<pc, now, due, nsent, sentAt, loop>>

----------------------------------------------------------------------------
(* The handler: send_v4 and alarm(1).                                      *)

NextAlarm == now + USEC

SendV4 ==
  /\ nsent' = nsent + 1
  /\ sentAt' = [sentAt EXCEPT ![nsent] = now]
  /\ due' = NextAlarm

\* readloop calls the handler for the first request.
Start ==
  /\ pc = "start" /\ MaxSent > 0
  /\ SendV4
  /\ pc' = "recvmsg"
  /\ UNCHANGED <<now, net, loop>>

\* A recvmsg that the signal interrupts fails with EINTR and is called again:
\* the loop is where it was.
SigAlrm ==
  /\ pc \notin {"start", "exit"} /\ due # Never /\ now >= due
  /\ nsent < MaxSent
  /\ SendV4
  /\ UNCHANGED <<pc, now, net, loop>>

\* Sendto fails in the handler, or recvmsg otherwise than by EINTR: err_sys.
Fails ==
  /\ \/ pc = "recvmsg"
     \/ pc = "start"
     \/ due # Never /\ now >= due
  /\ pc' = "exit"
  /\ UNCHANGED <<now, due, nsent, sentAt, net, loop>>

----------------------------------------------------------------------------
(* The loop.                                                               *)

Receive(m) ==
  /\ pc = "recvmsg" /\ m \in queue
  /\ recvbuf' = m /\ queue' = queue \ {m}
  /\ pc' = "time"
  /\ UNCHANGED <<now, due, nsent, sentAt, arrivals, tval, line>>

Stamp ==
  /\ pc = "time"
  /\ tval' = now
  /\ pc' = "proc"
  /\ UNCHANGED <<now, due, nsent, sentAt, net, recvbuf, line>>

\* out - in, borrowing a second when the microseconds get negative.
tv_sub_NoBorrow(out, in) ==
  [tv_sec |-> out.tv_sec - in.tv_sec, tv_usec |-> out.tv_usec - in.tv_usec]
tv_sub(out, in) ==
  LET usec == out.tv_usec - in.tv_usec
  IN IF usec < 0
     THEN [tv_sec |-> out.tv_sec - 1 - in.tv_sec, tv_usec |-> usec + USEC]
     ELSE [tv_sec |-> out.tv_sec - in.tv_sec, tv_usec |-> usec]

\* proc_v4: only an echo reply with our identifier and enough data is printed
\* (others are mentioned if verbose).  The time of sending is read from it; in
\* the reply to a Twin it is whatever that process put there.
IsReply(m) == m \in Requests \cup {Twin}

Proc ==
  /\ pc = "proc"
  /\ line' = IF recvbuf = Twin THEN [n |-> Twin, at |-> tval]
             ELSE IF IsReply(recvbuf)
             THEN [n |-> recvbuf, seq |-> recvbuf % SeqSize, at |-> tval,
                   rtt |-> tv_sub(timeval(tval), timeval(sentAt[recvbuf]))]
             ELSE line
  /\ pc' = "recvmsg"
  /\ UNCHANGED <<now, due, nsent, sentAt, net, recvbuf, tval>>

----------------------------------------------------------------------------
Loop == Stamp \/ Proc \/ \E m \in queue : Receive(m)

Next == \/ Tick \/ Start \/ SigAlrm \/ Fails \/ Loop
        \/ \E m \in Requests \cup Strange : Arrive(m)

Spec == Init /\ [][Next]_vars

\* Time passes, the signal is delivered, the process runs.
FairSpec == Spec /\ WF_vars(Tick) /\ WF_vars(Start) /\ WF_vars(SigAlrm) /\ WF_vars(Loop)

----------------------------------------------------------------------------
(* Properties.                                                             *)

\* A printed round-trip time is that of the very request the reply answers,
\* in seconds and a proper number of microseconds, however late, often or
\* mixed up the replies come and although icmp_seq wraps round.  (A reply to
\* a Twin is taken for one of ours.)
RttIsOwn ==
  line.n \in Requests =>
    /\ line.n < nsent /\ line.seq = line.n % SeqSize
    /\ line.rtt.tv_usec \in 0 .. USEC - 1
    /\ line.rtt.tv_sec * USEC + line.rtt.tv_usec = line.at - sentAt[line.n]

\* Once started the process always has an alarm set, and requests are at
\* least a second apart, wherever the signal hits the loop.
AlarmKeptUp ==
  /\ pc \notin {"start", "exit"} => due = sentAt[nsent - 1] + USEC
  /\ \A n \in Requests : n > 0 /\ n < nsent => sentAt[n] >= sentAt[n - 1] + USEC

\* Requests go out for as long as there is time, or the program ends.
Settled == pc = "exit" \/ nsent = MaxSent \/ (now = MaxTime /\ due > now)
KeepsSending == <>[]Settled
=============================================================================
