-------------------------- MODULE ConnectingProofs --------------------------
(***************************************************************************)
(* Proofs about Connecting, for lists of any length: which address the     *)
(* walk returns, which descriptors it leaves open, and what connect_nonb   *)
(* reports.  About OobReceivers, for a receive buffer of any size: which   *)
(* urgent bytes a receiver gets.  Then what is known of the family that    *)
(* MCOnePeer composes, from these theorems and from EchoClientProofs.      *)
(***************************************************************************)
EXTENDS MCOnePeer, SequenceTheorems, TLAPS

Ended == {"done", "quit", "fatal"}

\* What the four functions and the TimeEcho3 client know at each place of
\* their loop: everything before res has failed, and the socket in hand, if
\* there is one, is the only one open and belongs to res.
WalkFacts ==
    /\ pc \in {"lookup", "socket", "try", "close", "finish"} \cup Ended
    /\ \A a \in 1 .. Len(addrs) : a < res => ~Usable(a)
    /\ pc = "lookup" => res = 0 /\ open = {}
    /\ pc = "socket" => res \in 1 .. Len(addrs) /\ open = {}
    /\ pc \in {"try", "close", "finish", "done"} =>
         res \in 1 .. Len(addrs) /\ sockfd = res /\ open = {res}
    /\ pc = "try" => (Usable(res) <=> addrs[res] = "works")
    /\ pc = "close" => ~Usable(res)
    /\ pc \in {"finish", "done"} => Usable(res)
    /\ pc = "done" => addrlen = res
    /\ pc = "quit" => open = {} /\ (res > Len(addrs) \/ Len(addrs) = 0)
    /\ pc = "fatal" => open \subseteq {res}
WalkInv == program \in Walkers => WalkFacts

\* What connect_nonb knows: until it returns the socket is open, and where it
\* restores the flags without an error the connection was established.
NonbFacts ==
    /\ pc \in {"connect", "select", "sockerr", "restore", "done"}
    /\ sockfd = 1
    /\ pc # "done" => ret = "none" /\ open = {1}
    /\ pc = "select" => handshake # "none"
    /\ pc = "sockerr" => handshake \in {"up", "refused", "reset"}
    /\ pc \in {"connect", "select", "sockerr"} => error = FALSE
    /\ pc = "restore" /\ ~error => handshake \in {"up", "reset"}
    /\ pc = "done" => ret # "none" /\ NonblockingConnect
NonbInv == program = connect_nonb => NonbFacts

IInv == TypeOK /\ WalkInv /\ NonbInv

----------------------------------------------------------------------------
\* A list of addresses is a sequence of at most MaxAddrs outcomes.
LEMMA ListIsSequence ==
  ASSUME NEW l \in Lists
  PROVE  /\ Len(l) \in 0 .. MaxAddrs
         /\ \A a \in 1 .. Len(l) : l[a] \in Outcomes
         /\ l = <<>> <=> Len(l) = 0
<1>1. PICK n \in 0 .. MaxAddrs : l \in [1 .. n -> Outcomes]
  BY DEF Lists
<1>2. n \in Nat
  BY <1>1, AddrsAssumption
<1>3. l \in Seq(Outcomes) /\ Len(l) = n
  BY <1>1, <1>2
<1> QED
  BY <1>1, <1>2, <1>3

\* The programs are told apart by how they try an address.
LEMMA ProgramsDiffer ==
  /\ connect_nonb \notin Walkers
  /\ connect_nonb.listens = FALSE
BY DEF Walkers, connect_nonb, tcp_connect, tcp_listen, udp_client, udp_server,
       daytimetcpcli3, Walker

LEMMA InitInv == Init => IInv
<1> SUFFICES ASSUME Init PROVE IInv
  OBVIOUS
<1>1. TypeOK
  <2>1. Len(addrs) \in 0 .. MaxAddrs /\ MaxAddrs \in Nat
    BY AddrsAssumption, ListIsSequence DEF Init
  <2>2. program \in Programs /\ addrs \in Lists /\ timed \in BOOLEAN
        /\ blocking \in BOOLEAN /\ error \in BOOLEAN
    BY Zenon DEF Init
  <2>3. pc \in {"lookup", "connect"} /\ handshake = "none" /\ ret = "none" /\ addrlen = 0
    BY DEF Init, Programs
  <2>4. /\ res \in 0 .. MaxAddrs + 1 /\ sockfd \in 0 .. MaxAddrs
        /\ open \subseteq 1 .. MaxAddrs
    <3>1. CASE program \in Walkers
      BY <2>1, <3>1 DEF Init, NoFd
    <3>2. CASE program = connect_nonb
      BY SMTT(30), <2>1, <3>2 DEF Init
    <3> QED
      BY <2>2, <3>1, <3>2 DEF Programs
  <2> QED
    BY <2>1, <2>2, <2>3, <2>4 DEF TypeOK
<1>2. WalkInv
  BY ListIsSequence DEF Init, WalkInv, WalkFacts
<1>3. NonbInv
  BY ProgramsDiffer DEF Init, NonbInv, NonbFacts
<1> QED
  BY <1>1, <1>2, <1>3 DEF IInv

----------------------------------------------------------------------------
\* Each step of Connecting keeps the types: res moves at most one past the list.
LEMMA TypeStep == IInv /\ [Next]_vars => TypeOK'
<1> SUFFICES ASSUME IInv, [Next]_vars PROVE TypeOK'
  OBVIOUS
<1> USE DEF IInv
<1>0. /\ MaxAddrs \in Nat /\ Len(addrs) \in 0 .. MaxAddrs
      /\ res \in 0 .. MaxAddrs + 1 /\ sockfd \in 0 .. MaxAddrs
  BY AddrsAssumption, ListIsSequence DEF TypeOK
<1>a. /\ program \in Programs /\ addrs \in Lists /\ timed \in BOOLEAN
      /\ blocking \in BOOLEAN /\ error \in BOOLEAN
  BY Zenon DEF TypeOK
<1>b. ASSUME pc \in {"socket", "close"} PROVE res \in 1 .. MaxAddrs
  <2>1. res \in 1 .. Len(addrs)
    BY <1>a, <1>b, ProgramsDiffer DEF WalkInv, WalkFacts, NonbInv, NonbFacts, Programs
  <2> QED
    BY <1>0, <2>1
<1>1. CASE Lookup
  BY <1>0, <1>1 DEF Lookup, TypeOK, nonb
<1>2. CASE NoSocket
  <2>1. res' \in {res, res + 1} /\ pc' \in {"socket", "quit", "fatal"}
    BY <1>2 DEF NoSocket, Advance
  <2>a. pc = "socket" /\ sockfd' = 0
    BY <1>2, Zenon DEF NoSocket, NoFd
  <2>2. res' \in 0 .. MaxAddrs + 1 /\ sockfd' \in 0 .. MaxAddrs
    BY <1>0, <1>b, <2>1, <2>a
  <2> QED
    BY <1>2, <2>1, <2>2 DEF NoSocket, TypeOK, nonb
<1>3. CASE MakeSocket
  <2>1. res \in 1 .. MaxAddrs /\ pc' \in {"finish", "try"}
    BY <1>0, <1>b, <1>3 DEF MakeSocket
  <2>a. sockfd' = res /\ open' = open \cup {res} /\ open \subseteq 1 .. MaxAddrs
    BY <1>3, Zenon DEF MakeSocket, TypeOK
  <2>2. sockfd' \in 0 .. MaxAddrs /\ open' \subseteq 1 .. MaxAddrs
    BY <1>0, <2>1, <2>a
  <2> QED
    BY <1>3, <2>1, <2>2 DEF MakeSocket, TypeOK, nonb
<1>4. CASE TryAddress
  BY <1>4 DEF TryAddress, TypeOK, nonb, walk
<1>5. CASE CloseSocket
  BY <1>0, <1>b, <1>5 DEF CloseSocket, Advance, StillOpen, TypeOK, nonb
<1>6. CASE Finish
  BY <1>0, <1>6, <1>a, ProgramsDiffer DEF Finish, AddrlenOf, TypeOK, nonb, WalkInv, WalkFacts, NonbInv, NonbFacts, Programs
<1>7. CASE Fails
  BY <1>7 DEF Fails, TypeOK, nonb, walk
<1>8. CASE StartConnect
  BY <1>8, <1>a DEF StartConnect, Return, TypeOK, walk
<1>9. CASE Answered
  BY <1>9 DEF Answered, TypeOK, walk
<1>10. CASE SelectReady
  BY <1>10 DEF SelectReady, TypeOK, nonb, walk
<1>11. CASE SelectTimesOut
  BY <1>11 DEF SelectTimesOut, Return, TypeOK
<1>12. CASE AskError
  BY <1>12 DEF AskError, PendingError, TypeOK, walk
<1>13. CASE RestoreFlags
  BY <1>13 DEF RestoreFlags, Return, TypeOK
<1>14. CASE UNCHANGED vars
  BY <1>14 DEF vars, TypeOK, nonb, walk
<1> QED
  BY <1>1, <1>2, <1>3, <1>4, <1>5, <1>6, <1>7, <1>8, <1>9, <1>10, <1>11, <1>12, <1>13, <1>14
     DEF Next, Step

----------------------------------------------------------------------------
\* No step changes the program or its list, or which addresses are usable.
LEMMA InputsKept ==
  [Next]_vars => /\ program' = program /\ addrs' = addrs
                 /\ \A a \in Nat : Usable(a)' <=> Usable(a)
<1> SUFFICES ASSUME [Next]_vars
             PROVE  /\ program' = program /\ addrs' = addrs
                    /\ \A a \in Nat : Usable(a)' <=> Usable(a)
  OBVIOUS
<1>1. program' = program /\ addrs' = addrs
  BY DEF Next, Step, Lookup, NoSocket, MakeSocket, TryAddress, CloseSocket, Finish, Fails,
         StartConnect, Answered, SelectReady, SelectTimesOut, AskError, RestoreFlags, vars
<1>2. \A a \in Nat : Usable(a)' <=> Usable(a)
  BY <1>1, Zenon DEF Usable
<1> QED
  BY <1>1, <1>2

\* Each step of the walk keeps what the walk knows.
LEMMA WalkStep == IInv /\ [Next]_vars => WalkInv'
<1> SUFFICES ASSUME IInv, [Next]_vars, program \in Walkers PROVE WalkFacts'
  BY InputsKept DEF WalkInv
<1>0. program' = program /\ addrs' = addrs
  BY InputsKept
<1>a. WalkFacts /\ TypeOK
  BY DEF IInv, WalkInv
<1>b. /\ Len(addrs) \in Nat /\ res \in Nat
      /\ addrs = <<>> <=> Len(addrs) = 0
      /\ \A a \in 1 .. Len(addrs) : addrs[a] \in Outcomes
  BY <1>a, AddrsAssumption, ListIsSequence DEF TypeOK
<1>c. \A a \in Nat : Usable(a)' <=> Usable(a)
  BY InputsKept
<1>1. CASE Lookup
  BY <1>0, <1>a, <1>b, <1>c, <1>1 DEF Lookup, WalkFacts, Ended
<1>2. CASE NoSocket
  <2>1. ~Usable(res) /\ pc = "socket" /\ open' = open
    BY <1>2 DEF NoSocket, Usable
  <2>2. \/ Advance
        \/ pc' = "fatal" /\ res' = res
    BY <1>2 DEF NoSocket
  <2> QED
    BY <1>0, <1>a, <1>b, <1>c, <2>1, <2>2 DEF Advance, MoreAddrs, WalkFacts, Ended
<1>3. CASE MakeSocket
  <2>1. pc = "socket" /\ res' = res /\ sockfd' = res /\ open' = open \cup {res}
    BY <1>3 DEF MakeSocket
  <2>2. addrs[res] \in {"refused", "works"}
    BY <1>a, <1>b, <1>3 DEF MakeSocket, WalkFacts, Outcomes
  <2>3. \/ pc' = "finish" /\ Usable(res)
        \/ pc' = "try" /\ (Usable(res) <=> addrs[res] = "works")
    BY <1>3, <2>2 DEF MakeSocket, Usable
  <2> QED
    BY <1>0, <1>a, <1>b, <1>c, <2>1, <2>3 DEF WalkFacts, Ended
<1>4. CASE TryAddress
  <2>1. /\ pc = "try" /\ res' = res /\ sockfd' = sockfd /\ open' = open
        /\ pc' = IF addrs[res] = "works" THEN "finish" ELSE "close"
    BY <1>4 DEF TryAddress, walk
  <2> QED
    BY <1>0, <1>a, <1>b, <1>c, <2>1 DEF WalkFacts, Ended
<1>5. CASE CloseSocket
  <2>1. ~Usable(res) /\ pc = "close" /\ open' = {}
    BY <1>a, <1>5 DEF CloseSocket, StillOpen, Usable, WalkFacts
  <2>2. Advance
    BY <1>5 DEF CloseSocket
  <2> QED
    BY <1>0, <1>a, <1>b, <1>c, <2>1, <2>2 DEF Advance, MoreAddrs, WalkFacts, Ended
<1>6. CASE Finish
  BY <1>0, <1>a, <1>b, <1>c, <1>6 DEF Finish, AddrlenOf, WalkFacts, Ended
<1>7. CASE Fails
  BY <1>0, <1>a, <1>b, <1>c, <1>7 DEF Fails, walk, WalkFacts, Ended
<1>8. CASE StartConnect \/ SelectReady \/ SelectTimesOut \/ AskError \/ RestoreFlags \/ Answered
  BY <1>a, <1>8 DEF StartConnect, SelectReady, SelectTimesOut, AskError, RestoreFlags, Answered,
                    WalkFacts, Ended
<1>9. CASE UNCHANGED vars
  BY <1>0, <1>a, <1>c, <1>9 DEF vars, walk, WalkFacts, Ended
<1> QED
  BY <1>1, <1>2, <1>3, <1>4, <1>5, <1>6, <1>7, <1>8, <1>9 DEF Next, Step

----------------------------------------------------------------------------
\* Each step of connect_nonb keeps what it knows.
LEMMA NonbStep == IInv /\ [Next]_vars => NonbInv'
<1> SUFFICES ASSUME IInv, [Next]_vars, program = connect_nonb PROVE NonbFacts'
  BY InputsKept DEF NonbInv
<1>0. program' = connect_nonb
  BY InputsKept
<1>a. NonbFacts /\ TypeOK /\ program.listens = FALSE
  BY ProgramsDiffer DEF IInv, NonbInv
<1>1. CASE StartConnect
  BY <1>0, <1>a, <1>1 DEF StartConnect, Return, walk, NonbFacts, NonblockingConnect
<1>2. CASE SelectReady
  BY <1>0, <1>a, <1>2 DEF SelectReady, nonb, walk, NonbFacts, TypeOK
<1>3. CASE SelectTimesOut
  BY <1>0, <1>a, <1>3 DEF SelectTimesOut, TimeoutGiven, Return, NonbFacts, NonblockingConnect
<1>4. CASE AskError
  BY <1>0, <1>a, <1>4 DEF AskError, PendingError, walk, NonbFacts
<1>5. CASE RestoreFlags
  BY <1>0, <1>a, <1>5 DEF RestoreFlags, Return, NonbFacts, NonblockingConnect
<1>6. CASE Answered
  BY <1>0, <1>a, <1>6 DEF Answered, walk, NonbFacts
<1>7. CASE Lookup \/ NoSocket \/ MakeSocket \/ TryAddress \/ CloseSocket \/ Finish \/ Fails
  BY <1>a, <1>7 DEF Lookup, NoSocket, MakeSocket, TryAddress, CloseSocket, Finish, Fails, NonbFacts
<1>8. CASE UNCHANGED vars
  BY <1>0, <1>a, <1>8 DEF vars, walk, nonb, NonbFacts, NonblockingConnect
<1> QED
  BY <1>1, <1>2, <1>3, <1>4, <1>5, <1>6, <1>7, <1>8 DEF Next, Step

----------------------------------------------------------------------------
\* IInv holds in every reachable state.
THEOREM Inductive == Spec => []IInv
<1>1. IInv /\ [Next]_vars => IInv'
  BY TypeStep, WalkStep, NonbStep DEF IInv
<1> QED
  BY InitInv, <1>1, PTL DEF Spec

\* For lists of any length: tcp_connect, tcp_listen, udp_client, udp_server
\* and the TimeEcho3 client return the socket of the first address that works
\* and its length, with no other descriptor left open, and give up only when
\* every address has failed.
THEOREM FirstUsable == Spec => []SocketOfFirstUsable
<1>1. IInv => SocketOfFirstUsable
  <2> SUFFICES ASSUME IInv, program \in Walkers
               PROVE  /\ \A a \in 1 .. Len(addrs) : a < res => ~Usable(a)
                      /\ open \subseteq {res}
                      /\ pc = "done" => open = {sockfd} /\ addrlen = sockfd /\ Usable(sockfd)
                      /\ pc = "quit" => open = {} /\ \A a \in 1 .. Len(addrs) : ~Usable(a)
    BY DEF SocketOfFirstUsable
  <2>1. WalkFacts
    BY DEF IInv, WalkInv
  <2>2. Len(addrs) \in Nat /\ res \in Nat
    BY AddrsAssumption, ListIsSequence DEF IInv, TypeOK
  <2> QED
    BY <2>1, <2>2 DEF WalkFacts, Ended
<1> QED
  BY Inductive, <1>1, PTL

\* connect_nonb reports success only for a connection that was established,
\* on a blocking socket; when it fails the socket is closed, except when
\* connect() failed at once: then it is left open and nonblocking.
THEOREM NonblockingConnectReports == Spec => []NonblockingConnect
<1>1. IInv => NonblockingConnect
  BY DEF IInv, NonbInv, NonbFacts, NonblockingConnect
<1> QED
  BY Inductive, <1>1, PTL

-----------------------------------------------------------------------------
(* OobReceivers.                                                           *)

\* The urgent mark is ahead of what has been read, at an out-of-band byte, and
\* known for what it is: its byte has arrived or has not.
Mark ==
  /\ urgData # "none" => urg \in copied + 1 .. sent /\ O!Urgent(urg)
  /\ urgData = "notyet" => urg > rcvd
  /\ urgData \in {"valid", "read"} => urg <= rcvd

Unread == urgData \in {"notyet", "valid"}

\* Who is ever in these places.
Roles ==
  /\ upc = "oob" \/ justreadoob => receiver.learns = "select"
  /\ sigurg => receiver.learns = "signal"

\* With select: where the program is about to read normal data, there is some,
\* and an unread urgent byte is not next in line, unless the program goes for
\* it first.  After it has read one, the next is not in line either.
Turns ==
  receiver.learns = "select" =>
    /\ upc \in {"oob", "read"} /\ urset =>
         O!ReadableNow /\ (Unread /\ urg = copied + 1 => upc = "oob" /\ xset)
    /\ justreadoob => urgData # "none" /\ (Unread => urg # copied + 1)
    /\ upc = "oob" /\ xset => Unread

\* With signals: an unread urgent byte was announced before F_SETOWN or has its
\* SIGURG pending.
Heard == receiver.learns = "signal" /\ ~O!Over /\ Unread => urg \in early \/ sigurg

OInv == O!TypeOK /\ Mark /\ Roles /\ Turns /\ Heard /\ O!NoOobMissed /\ O!NeverAskedTwice

\* No sender writes two out-of-band bytes in a row.
LEMMA SenderFacts ==
  ASSUME NEW s \in O!Senders
  PROVE  /\ Len(s) \in 1 .. 8
         /\ \A p \in 1 .. Len(s) : p > 1 => ~(s[p] = "o" /\ s[p - 1] = "o")
<1> USE DEF O!Senders, O!tcpsend01, O!tcpsend02, O!tcpsend03, O!tcpsend04
<1>1. CASE s = O!tcpsend01
  BY <1>1
<1>2. CASE s = O!tcpsend02
  BY <1>2
<1>3. CASE s = O!tcpsend03
  BY <1>3
<1>4. CASE s = O!tcpsend04
  BY <1>4
<1> QED
  BY <1>1, <1>2, <1>3, <1>4

LEMMA ReceiverFacts ==
  ASSUME NEW r \in O!Receivers
  PROVE  r.learns \in {"signal", "select", "inline"} /\ r.once \in BOOLEAN
<1> USE DEF O!Receiver, O!tcprecv01, O!tcprecv02, O!tcprecv03, O!tcprecv04, O!tcprecv05
<1>1. CASE r \in {O!tcprecv01, O!tcprecv05}
  <2>1. CASE r = O!tcprecv01
    BY <2>1, Zenon
  <2>2. CASE r = O!tcprecv05
    BY <2>2, Zenon
  <2> QED
    BY <1>1, <2>1, <2>2
<1>2. CASE r = O!tcprecv02
  <2>1. r.learns = "select" /\ r.once = FALSE
    BY <1>2, Zenon
  <2> QED
    BY <2>1
<1>3. CASE r = O!tcprecv03
  <2>1. r.learns = "select" /\ r.once = TRUE
    BY <1>3, Zenon
  <2> QED
    BY <2>1
<1>4. CASE r = O!tcprecv04
  <2>1. r.learns = "inline" /\ r.once = FALSE
    BY <1>4, Zenon
  <2> QED
    BY <2>1
<1> QED
  <2>1. r \in {O!tcprecv01, O!tcprecv05} \/ r \in {O!tcprecv02, O!tcprecv03, O!tcprecv04}
    BY Zenon DEF O!Receivers
  <2> HIDE DEF O!Receiver, O!tcprecv01, O!tcprecv02, O!tcprecv03, O!tcprecv04, O!tcprecv05
  <2> QED
    BY <2>1, <1>1, <1>2, <1>3, <1>4

\* Of the out-of-band bytes among the first t there is a last one.
LEMMA LastUrgentFacts ==
  ASSUME O!TypeOK, NEW t \in 0 .. Len(sender)
  PROVE  O!LastUrgent(t) = 0 \/ (O!LastUrgent(t) \in 1 .. t /\ O!Urgent(O!LastUrgent(t)))
<1>0. t \in 0 .. 8
  BY SenderFacts DEF O!TypeOK
<1> DEFINE Last(p) == O!Urgent(p) /\ \A q \in p + 1 .. t : ~O!Urgent(q)
<1>1. ASSUME NEW p0 \in 1 .. t, O!Urgent(p0) PROVE \E p \in 1 .. t : Last(p)
  <2> DEFINE Free(p) == p <= t => ~O!Urgent(p)
  <2>0. SUFFICES ASSUME \A p \in 1 .. t : ~Last(p) PROVE FALSE
    OBVIOUS
  <2>1. \A p \in 1 .. t : O!Urgent(p) => \E q \in p + 1 .. t : O!Urgent(q)
    BY <2>0
  <2> HIDE DEF Last
  <2>2. Free(8) /\ Free(7)
    BY <1>0, <2>1
  <2>3. Free(6) /\ Free(5)
    BY <1>0, <2>1, <2>2
  <2>4. Free(4) /\ Free(3)
    BY <1>0, <2>1, <2>2, <2>3
  <2>5. Free(2) /\ Free(1)
    BY <1>0, <2>1, <2>2, <2>3, <2>4
  <2> QED
    BY <1>0, <1>1, <2>2, <2>3, <2>4, <2>5
<1> DEFINE c == CHOOSE p \in 1 .. t : O!Urgent(p) /\ \A q \in p + 1 .. t : ~O!Urgent(q)
<1>2. CASE \E p \in 1 .. t : O!Urgent(p)
  <2>1. c \in 1 .. t /\ Last(c)
    BY <1>1, <1>2
  <2>2. O!LastUrgent(t) = c
    BY <1>2 DEF O!LastUrgent
  <2> QED
    BY <2>1, <2>2
<1>3. CASE ~\E p \in 1 .. t : O!Urgent(p)
  BY <1>3 DEF O!LastUrgent
<1> QED
  BY <1>2, <1>3

LEMMA OobInit == O!Init => OInv
<1> SUFFICES ASSUME O!Init PROVE OInv
  OBVIOUS
<1> USE DEF O!Init
<1>1. Len(sender) \in 1 .. 8
  BY SenderFacts
<1>2. /\ {fin, sigurg, owned, urset, xset, justreadoob} \subseteq BOOLEAN
      /\ sender \in O!Senders /\ receiver \in O!Receivers
  BY Zenon
<1>3. O!TypeOK
  BY <1>1, <1>2 DEF O!TypeOK, O!Positions
<1> QED
  BY <1>3 DEF OInv, Mark, Roles, Turns, Heard, Unread, O!NoOobMissed, O!NeverAskedTwice, O!Over

\* What a read leaves behind.
LEMMA ReadFacts ==
  ASSUME OInv, O!From <= O!Upto
  PROVE  /\ O!Upto \in copied + 1 .. rcvd
         /\ O!AtHole /\ urgData = "valid" => O!Upto >= urg
<1> USE DEF OInv, O!TypeOK, Mark
<1>1. copied \in Nat /\ rcvd \in Nat /\ urg \in Nat
  BY SenderFacts
<1> QED
  BY <1>1 DEF O!From, O!Upto, O!AtHole

LEMMA OobStep == OInv /\ [O!Next]_(O!vars) => OInv'
<1>0. SUFFICES ASSUME OInv, [O!Next]_(O!vars) PROVE OInv'
  OBVIOUS
<1> USE DEF O!tcp, O!hist
<1>a. /\ Len(sender) \in 1 .. 8 /\ sent \in Nat /\ copied \in Nat /\ rcvd \in Nat /\ urg \in Nat
      /\ receiver.learns \in {"signal", "select", "inline"} /\ receiver.once \in BOOLEAN
  BY <1>0, SenderFacts, ReceiverFacts DEF OInv, O!TypeOK
<1>1. CASE O!SendByte
  BY <1>0, <1>a, <1>1
  DEF O!SendByte, OInv, O!TypeOK, O!Positions, Mark, Roles, Turns, Heard, Unread, O!NoOobMissed,
      O!NeverAskedTwice, O!Over, O!ReadableNow, O!From, O!AtHole, O!Inline, O!Urgent
<1>2. CASE O!SenderExits
  BY <1>0, <1>a, <1>2
  DEF O!SenderExits, OInv, O!TypeOK, O!Positions, Mark, Roles, Turns, Heard, Unread,
      O!NoOobMissed, O!NeverAskedTwice, O!Over, O!ReadableNow, O!From, O!AtHole, O!Inline, O!Urgent
<1>3. CASE O!ByteArrives
  BY <1>0, <1>a, <1>3
  DEF O!ByteArrives, OInv, O!TypeOK, O!Positions, Mark, Roles, Turns, Heard, Unread,
      O!NoOobMissed, O!NeverAskedTwice, O!Over, O!ReadableNow, O!From, O!AtHole, O!Inline, O!Urgent
<1>4. ASSUME NEW u \in O!Announceable, O!Announce(u) PROVE OInv'
  <2>1. PICK t \in rcvd .. sent : u = O!LastUrgent(t)
    BY DEF O!Announceable
  <2>2. u \in 1 .. sent /\ O!Urgent(u) /\ u > rcvd /\ u > urg
    BY <1>0, <1>a, <2>1, LastUrgentFacts DEF O!Announceable, OInv, O!TypeOK
  <2>3. O!TypeOK'
    BY <1>0, <1>a, <1>4, <2>2 DEF O!Announce, OInv, O!TypeOK, O!Positions, O!DropsOld
  <2>4. Mark' /\ Roles' /\ Heard'
    BY <1>0, <1>a, <1>4, <2>2 DEF O!Announce, OInv, O!TypeOK, Mark, Roles, Heard, Unread, O!Over,
      O!DropsOld, O!Urgent
  <2>5. O!NoOobMissed' /\ O!NeverAskedTwice'
    BY <1>0, <1>a, <1>4, <2>2 DEF O!Announce, OInv, O!TypeOK, O!NoOobMissed, O!NeverAskedTwice,
      O!Over, O!Urgent
  <2>6. Turns'
    <3>0. SUFFICES ASSUME receiver.learns = "select" PROVE Turns'
      BY <1>4 DEF O!Announce, Turns
    <3>1. /\ urg' = u /\ urgData' = "notyet"
          /\ copied' = IF urgData # "none" /\ urg = copied + 1 /\ copied < rcvd
                       THEN copied + 1 ELSE copied
          /\ UNCHANGED <<sender, receiver, sent, fin, rcvd, upc, urset, xset, justreadoob>>
      BY <1>4, <3>0 DEF O!Announce, O!DropsOld, O!Inline
    <3>2. upc \in {"oob", "read"} /\ urset => O!ReadableNow' /\ u # copied' + 1
      BY <1>0, <1>a, <2>2, <3>0, <3>1
      DEF OInv, O!TypeOK, Mark, Turns, O!ReadableNow, O!From, O!AtHole, O!Inline
    <3>3. justreadoob => u # copied' + 1
      <4>1. CASE justreadoob /\ urg = copied + 1
        <5>1. urgData = "read" /\ copied < rcvd /\ O!Urgent(urg) /\ urg \in 1 .. sent
          BY <1>0, <1>a, <3>0, <4>1 DEF OInv, O!TypeOK, Turns, Mark, Unread
        <5>2. u # urg + 1
          BY <1>0, <1>a, <2>2, <5>1, SenderFacts DEF OInv, O!TypeOK, O!Urgent
        <5> QED
          BY <1>a, <3>1, <4>1, <5>1, <5>2
      <4>2. CASE justreadoob /\ urg # copied + 1
        BY <1>0, <1>a, <2>2, <3>0, <3>1, <4>2 DEF OInv, Turns, Mark
      <4> QED
        BY <4>1, <4>2
    <3> QED
      BY <1>0, <3>0, <3>1, <3>2, <3>3 DEF OInv, Turns, Unread
  <2> QED
    BY <2>3, <2>4, <2>5, <2>6 DEF OInv
<1>5. CASE O!Setup
  BY <1>0, <1>a, <1>5
  DEF O!Setup, OInv, O!TypeOK, O!Positions, Mark, Roles, Turns, Heard, Unread,
      O!NoOobMissed, O!NeverAskedTwice, O!Over, O!ReadableNow, O!From, O!AtHole, O!Inline, O!Urgent
<1>6. CASE O!SigUrg
  <2>1. sigurg' = FALSE /\ sigurg /\ receiver.learns = "signal" /\ ~O!Inline
    BY <1>0, <1>6 DEF O!SigUrg, OInv, Roles, O!Inline
  <2>2. UNCHANGED <<sender, receiver, sent, fin, rcvd, copied, urg, owned, urset, xset,
                    justreadoob, passed, early, marks>>
    BY <1>6 DEF O!SigUrg
  <2>3. CASE urgData = "valid"
    <3>1. urgData' = "read" /\ oob' = oob \cup {urg} /\ upc' = upc
      BY <1>6, <2>1, <2>3 DEF O!SigUrg, O!RecvOob
    <3>2. sigurg' \in BOOLEAN
      BY <2>1
    <3> QED
      BY <1>0, <1>a, <2>1, <2>2, <2>3, <3>1, <3>2
      DEF OInv, O!TypeOK, O!Positions, Mark, Roles, Turns, Heard, Unread, O!NoOobMissed,
          O!NeverAskedTwice, O!Over, O!Urgent
  <2>4. CASE urgData # "valid"
    <3>1. upc' = "failed" /\ UNCHANGED <<urgData, oob>>
      BY <1>6, <2>1, <2>4 DEF O!SigUrg, O!RecvOob
    <3> QED
      BY <1>0, <1>a, <2>1, <2>2, <2>4, <3>1
      DEF OInv, O!TypeOK, O!Positions, Mark, Roles, Turns, Heard, Unread, O!NoOobMissed,
          O!NeverAskedTwice, O!Over, O!Urgent
  <2> QED
    BY <2>3, <2>4
<1>7. CASE O!Read
  <2>1. CASE O!ReadData("top")
    <3>0. /\ copied' \in copied + 1 .. rcvd /\ upc' = "top" /\ ~sigurg /\ ~O!Over
          /\ receiver.learns # "select"
          /\ UNCHANGED <<sender, receiver, sent, fin, rcvd, urg, sigurg, owned, urset, xset,
                         justreadoob, oob, early, marks>>
      BY <1>0, <1>7, <2>1, ReadFacts DEF O!Read, O!ReadData, O!Goes, O!Over
    <3>1. /\ urgData' = IF urg <= copied' THEN "none" ELSE urgData
          /\ passed' = IF O!AtHole /\ urgData = "valid" THEN passed \cup {urg} ELSE passed
      BY <2>1 DEF O!ReadData
    <3>2. copied' \in 0 .. rcvd /\ copied' \in Nat
      BY <1>a, <3>0
    <3>3. O!AtHole /\ urgData = "valid" => urg \in early /\ urg \in O!Positions
      BY <1>0, <1>a, <3>0
      DEF OInv, O!TypeOK, O!Positions, Mark, Heard, Unread, O!AtHole, O!Inline
    <3>4. O!TypeOK'
      <4>1. passed' \subseteq O!Positions /\ O!Positions' = O!Positions
        BY <1>0, <3>0, <3>1, <3>3 DEF OInv, O!TypeOK, O!Positions
      <4>2. urgData' \in {"none", "notyet", "valid", "read"}
        BY <1>0, <3>1 DEF OInv, O!TypeOK
      <4> QED
        BY <1>0, <3>0, <3>2, <4>1, <4>2 DEF OInv, O!TypeOK
    <3>5. Mark'
      <4>1. CASE urg <= copied'
        BY <3>0, <3>1, <4>1 DEF Mark
      <4>2. CASE ~(urg <= copied')
        <5>1. urgData' # "none" => urg \in copied' + 1 .. sent /\ O!Urgent(urg)
          <6>1. urgData' = urgData /\ urg > copied'
            BY <1>a, <3>1, <3>2, <4>2
          <6>2. urgData # "none" => urg \in copied + 1 .. sent /\ O!Urgent(urg)
            BY <1>0 DEF OInv, Mark
          <6>3. urg \in copied + 1 .. sent => urg \in copied' + 1 .. sent
            <7>1. \A k, i, u, v \in Nat : u > k /\ u \in i + 1 .. v => u \in k + 1 .. v
              OBVIOUS
            <7> QED
              BY <1>a, <3>2, <6>1, <7>1
          <6> QED
            BY <6>1, <6>2, <6>3
        <5> QED
          BY <1>0, <3>0, <3>1, <4>2, <5>1 DEF OInv, Mark, O!Urgent
      <4> QED
        BY <4>1, <4>2
    <3>6. Roles' /\ Turns' /\ O!NeverAskedTwice'
      BY <1>0, <3>0 DEF OInv, Roles, Turns, O!NeverAskedTwice
    <3>7. Heard'
      BY <1>0, <3>0, <3>1 DEF OInv, Heard, Unread
    <3>8. O!NoOobMissed'
      BY <1>0, <3>0, <3>1, <3>3 DEF OInv, O!NoOobMissed, O!Urgent
    <3> QED
      BY <3>4, <3>5, <3>6, <3>7, <3>8 DEF OInv
  <2>2. CASE O!ReadEof /\ UNCHANGED <<copied, passed, urgData>>
    BY <1>0, <1>a, <1>7, <2>2
    DEF O!Read, O!ReadEof, OInv, O!TypeOK, O!Positions, Mark, Roles, Turns, Heard, Unread,
        O!NoOobMissed, O!NeverAskedTwice, O!Over, O!Inline, O!Urgent
  <2> QED
    BY <1>7, <2>1, <2>2 DEF O!Read
<1>8. CASE O!Sockatmark
  BY <1>0, <1>a, <1>8
  DEF O!Sockatmark, OInv, O!TypeOK, O!Positions, Mark, Roles, Turns, Heard, Unread,
      O!NoOobMissed, O!NeverAskedTwice, O!Over, O!Inline, O!Urgent
<1>9. CASE O!Select
  <2>1. urset' \in BOOLEAN /\ xset' \in BOOLEAN /\ (urset' <=> O!ReadableNow)
        /\ (xset' <=> O!WatchesOob /\ urgData = "valid")
    <3>1. (urset' <=> O!ReadableNow) /\ (xset' <=> O!WatchesOob /\ urgData = "valid")
      BY <1>9, Zenon DEF O!Select
    <3>2. urset' \in BOOLEAN
      BY <1>9, Zenon DEF O!Select, O!ReadableNow
    <3>3. xset' \in BOOLEAN
      BY <1>9, Zenon DEF O!Select
    <3> QED
      BY <3>1, <3>2, <3>3
  <2> QED
    BY <1>0, <1>a, <1>9, <2>1
    DEF O!Select, O!WatchesOob, OInv, O!TypeOK, O!Positions, Mark, Roles, Turns, Heard, Unread,
      O!NoOobMissed, O!NeverAskedTwice, O!Over, O!ReadableNow, O!From, O!AtHole, O!Inline, O!Urgent
<1>10. CASE O!SelectOob
  <2>1. /\ upc = "oob" /\ xset /\ receiver.learns = "select" /\ ~O!Inline /\ Unread
        /\ xset' = FALSE
        /\ UNCHANGED <<sender, receiver, sent, fin, rcvd, copied, urg, sigurg, owned, urset,
                       passed, early, marks>>
    BY <1>0, <1>10 DEF O!SelectOob, OInv, Roles, Turns, O!Inline
  <2>2. xset' \in BOOLEAN /\ justreadoob' \in BOOLEAN /\ (justreadoob' => upc' # "failed")
    BY <1>10, <2>1, Zenon DEF O!SelectOob
  <2>3. CASE urgData = "valid"
    <3>1. urgData' = "read" /\ oob' = oob \cup {urg} /\ upc' = "read"
      BY <1>10, <2>1, <2>3 DEF O!SelectOob, O!RecvOob
    <3>2. urset => O!ReadableNow'
      BY <1>0, <2>1, <2>3, <3>1
      DEF OInv, Turns, O!ReadableNow, O!From, O!AtHole, O!Inline
    <3> QED
      BY <1>0, <1>a, <2>1, <2>2, <2>3, <3>1, <3>2
      DEF OInv, O!TypeOK, O!Positions, Mark, Roles, Turns, Heard, Unread, O!NoOobMissed,
          O!NeverAskedTwice, O!Over, O!Urgent
  <2>4. CASE urgData # "valid"
    <3>1. upc' = "failed" /\ UNCHANGED <<urgData, oob>>
      BY <1>10, <2>1, <2>4 DEF O!SelectOob, O!RecvOob
    <3> QED
      BY <1>0, <1>a, <2>1, <2>2, <2>4, <3>1
      DEF OInv, O!TypeOK, O!Positions, Mark, Roles, Turns, Heard, Unread, O!NoOobMissed,
          O!NeverAskedTwice, O!Over, O!Urgent
  <2> QED
    BY <2>3, <2>4
<1>11. CASE O!SelectNoOob
  BY <1>0, <1>a, <1>11
  DEF O!SelectNoOob, O!NoException, OInv, O!TypeOK, O!Positions, Mark, Roles, Turns, Heard, Unread,
      O!NoOobMissed, O!NeverAskedTwice, O!Over, O!ReadableNow, O!From, O!AtHole, O!Inline, O!Urgent
<1>12. CASE O!SelectRead
  <2>0. /\ upc = "read" /\ urset /\ receiver.learns = "select"
        /\ UNCHANGED <<sender, receiver, sent, fin, rcvd, urg, sigurg, owned, urset, xset,
                       oob, early, marks>>
    BY <1>12 DEF O!SelectRead
  <2>1. CASE O!ReadData("top") /\ justreadoob' = FALSE
    <3>1. /\ O!Upto \in copied + 1 .. rcvd /\ copied' = O!Upto /\ upc' = "top"
          /\ urgData' = IF urg <= O!Upto THEN "none" ELSE urgData
      BY <1>0, <2>1, ReadFacts DEF O!ReadData
    <3>2. ~(O!AtHole /\ urgData = "valid")
      BY <1>0, <2>0 DEF OInv, Turns, Unread, O!AtHole
    <3>3. passed' = passed /\ justreadoob' \in BOOLEAN /\ justreadoob' = FALSE
      BY <2>1, <3>2 DEF O!ReadData
    <3> QED
      BY <1>0, <1>a, <2>0, <3>1, <3>3
      DEF OInv, O!TypeOK, O!Positions, Mark, Roles, Turns, Heard, Unread, O!NoOobMissed,
          O!NeverAskedTwice, O!Over, O!Urgent
  <2>2. CASE O!ReadEof /\ UNCHANGED <<copied, passed, urgData, justreadoob>>
    BY <1>0, <1>a, <2>0, <2>2
    DEF O!ReadEof, OInv, O!TypeOK, O!Positions, Mark, Roles, Turns, Heard, Unread,
        O!NoOobMissed, O!NeverAskedTwice, O!Over, O!Inline, O!Urgent
  <2> QED
    BY <1>12, <2>1, <2>2 DEF O!SelectRead
<1>13. CASE O!SelectNoRead
  BY <1>0, <1>a, <1>13
  DEF O!SelectNoRead, OInv, O!TypeOK, O!Positions, Mark, Roles, Turns, Heard, Unread,
      O!NoOobMissed, O!NeverAskedTwice, O!Over, O!Inline, O!Urgent
<1>14. CASE UNCHANGED O!vars
  BY <1>0, <1>a, <1>14
  DEF O!vars, OInv, O!TypeOK, O!Positions, Mark, Roles, Turns, Heard, Unread,
      O!NoOobMissed, O!NeverAskedTwice, O!Over, O!ReadableNow, O!From, O!AtHole, O!Inline, O!Urgent
<1> QED
  BY <1>0, <1>1, <1>2, <1>3, <1>4, <1>5, <1>6, <1>7, <1>8, <1>9, <1>10, <1>11, <1>12, <1>13, <1>14
  DEF O!Next, O!Program, O!Delivery

\* For a receive buffer of any size, every sender and every receiver: no
\* receiver reads past an urgent byte it could have received, unless it was
\* announced before F_SETOWN, and select never leads to asking twice.
THEOREM NoneMissed == O!Spec => [](O!NoOobMissed /\ O!NeverAskedTwice)
<1>1. OInv => O!NoOobMissed /\ O!NeverAskedTwice
  BY DEF OInv
<1> QED
  BY OobInit, OobStep, <1>1, PTL DEF O!Spec

-----------------------------------------------------------------------------
(* The programs of the family together (MCOnePeer).                        *)

\* The theorems about MyOpen, IfiInfo and Ping, with MCOnePeer's sizes.
EP == INSTANCE EchoClientProofs WITH
        SendCap <- 1, OutCap <- 2, copied <- catted, Errnos <- {1, 2}, FileLen <- 2,
        Guess <- 2, Increment <- 2, USEC <- 2, SeqSize <- 2, ByteSize <- 2

\* The modules as MCOnePeer and as the proofs instantiate them are the same:
\* their definitions, all expanded here, are.
LEMMA SameOpen ==
  /\ M!Init = EP!M!Init
  /\ M!Next = EP!M!Next
  /\ M!vars = EP!M!vars /\ M!vars' = EP!M!vars'
  /\ M!OpenedIsReturned = EP!M!OpenedIsReturned
<1>1. M!ReadFd = EP!M!ReadFd
  BY SMT DEF M!ReadFd, EP!M!ReadFd, M!file, EP!M!file, M!TheFile, EP!M!TheFile, M!Unset, EP!M!Unset
<1> QED
  BY <1>1, Zenon
  DEF M!Init, EP!M!Init, M!Next, EP!M!Next, M!vars, EP!M!vars, M!OpenedIsReturned,
      EP!M!OpenedIsReturned, M!ChildStep, EP!M!ChildStep, M!Killed, EP!M!Killed, M!ParentStep,
      EP!M!ParentStep, M!file, EP!M!file, M!child, EP!M!child, M!parent, EP!M!parent, M!TheFile,
      EP!M!TheFile, M!ErrSys, EP!M!ErrSys, M!Exec, EP!M!Exec, M!Open, EP!M!Open, M!WriteFd,
      EP!M!WriteFd, M!ExitWell, EP!M!ExitWell, M!Waitpid, EP!M!Waitpid, M!ReadFd, EP!M!ReadFd,
      M!Cat, EP!M!Cat, M!Exit, EP!M!Exit, M!PassStatus, EP!M!PassStatus

LEMMA SameAnswer ==
  /\ I!Init = EP!I!Init
  /\ I!Next = EP!I!Next
  /\ I!vars = EP!I!vars /\ I!vars' = EP!I!vars'
  /\ I!AnswerComplete = EP!I!AnswerComplete
  /\ I!MetEntriesListed = EP!I!MetEntriesListed
  BY Zenon
  DEF I!Init, EP!I!Init, I!Next, EP!I!Next, I!vars, EP!I!vars, I!AnswerComplete,
      EP!I!AnswerComplete, I!Lists, EP!I!Lists, I!Change, EP!I!Change, I!Step, EP!I!Step,
      I!kernel, EP!I!kernel, I!answer, EP!I!answer, I!list, EP!I!list, I!Names, EP!I!Names,
      I!Answered, EP!I!Answered, I!Refused, EP!I!Refused, I!Look, EP!I!Look, I!AskAddrs,
      EP!I!AskAddrs, I!Return, EP!I!Return, I!Believed, EP!I!Believed, I!Grow, EP!I!Grow, I!End,
      EP!I!End, I!Stride, EP!I!Stride, I!FamilyAt, EP!I!FamilyAt, I!EntrySize, EP!I!EntrySize,
      I!Skip, EP!I!Skip, I!AlreadyListed, EP!I!AlreadyListed, I!AskFlags, EP!I!AskFlags,
      I!StrideSize, EP!I!StrideSize, I!Met, EP!I!Met, I!MetEntriesListed, EP!I!MetEntriesListed

LEMMA SameTimes ==
  /\ P!Init = EP!G!Init
  /\ P!Next = EP!G!Next
  /\ P!vars = EP!G!vars /\ P!vars' = EP!G!vars'
  /\ P!RttIsOwn = EP!G!RttIsOwn /\ P!AlarmKeptUp = EP!G!AlarmKeptUp
  BY Zenon
  DEF P!Requests, EP!G!Requests, P!Stranger, EP!G!Stranger, P!Twin, EP!G!Twin, P!Short,
      EP!G!Short, P!Other, EP!G!Other, P!Strange, EP!G!Strange, P!Never, EP!G!Never, P!Nothing,
      EP!G!Nothing, P!net, EP!G!net, P!loop, EP!G!loop, P!vars, EP!G!vars, P!timeval,
      EP!G!timeval, P!Init, EP!G!Init, P!Tick, EP!G!Tick, P!Arrive, EP!G!Arrive, P!NextAlarm,
      EP!G!NextAlarm, P!SendV4, EP!G!SendV4, P!Start, EP!G!Start, P!SigAlrm, EP!G!SigAlrm,
      P!Fails, EP!G!Fails, P!Receive, EP!G!Receive, P!Stamp, EP!G!Stamp, P!tv_sub, EP!G!tv_sub,
      P!IsReply, EP!G!IsReply, P!Proc, EP!G!Proc, P!Loop, EP!G!Loop, P!Next, EP!G!Next,
      P!RttIsOwn, EP!G!RttIsOwn, P!AlarmKeptUp, EP!G!AlarmKeptUp

LEMMA SameChecksum ==
  /\ C!Init = EP!K!Init
  /\ C!Next = EP!K!Next
  /\ C!vars = EP!K!vars /\ C!vars' = EP!K!vars'
  /\ C!ChecksumCorrect = EP!K!ChecksumCorrect
<1>1. C!Weight = EP!K!Weight
  BY Zenon
  DEF C!Weight, EP!K!Weight, C!Places, EP!K!Places, C!Cardinality, EP!K!Cardinality
<1> QED
  BY <1>1, Zenon
  DEF C!Init, EP!K!Init, C!Next, EP!K!Next, C!vars, EP!K!vars, C!ChecksumCorrect,
      EP!K!ChecksumCorrect, C!WordSize, EP!K!WordSize, C!SumSize, EP!K!SumSize, C!Messages,
      EP!K!Messages, C!w, EP!K!w, C!Word, EP!K!Word, C!AddWord, EP!K!AddWord, C!OddByte,
      EP!K!OddByte, C!EndAdd, EP!K!EndAdd, C!Fold, EP!K!Fold, C!AddCarry, EP!K!AddCarry,
      C!Finish, EP!K!Finish, C!Total, EP!K!Total

LEMMA Sizes ==
  /\ InputLen \in Nat /\ MAXLINE \in Nat \ {0} /\ 1 \in Nat \ {0} /\ 2 \in Nat \ {0}
  /\ 2 \in Nat
  BY EchoAssumption

\* One program runs: a step of the family is a step of that program, and leaves
\* what belongs to the others as it is.
LEMMA OneRuns ==
  ASSUME [AnyNext]_allvars
  PROVE  /\ [M!Next]_(M!vars) /\ [I!Next]_(I!vars) /\ [C!Next]_(C!vars)
         /\ [P!Next]_(P!vars) /\ [O!Next]_(O!vars) /\ [Next]_vars
<1>0. /\ UNCHANGED mvars => UNCHANGED M!vars
      /\ UNCHANGED ivars => UNCHANGED I!vars
      /\ UNCHANGED pvars => UNCHANGED P!vars
      /\ UNCHANGED ovars => UNCHANGED O!vars
      /\ UNCHANGED cvars => UNCHANGED C!vars
  BY DEF mvars, M!vars, M!file, M!child, M!parent, ivars, I!vars, I!kernel, I!answer, I!list,
         pvars, P!vars, P!net, P!loop, ovars, O!vars, O!tcp, O!hist,
         cvars, C!vars
<1>1. CASE Opens(M!Next)
  BY <1>0, <1>1 DEF Opens
<1>2. CASE Asks(I!Next)
  BY <1>0, <1>2 DEF Asks
<1>3. CASE Pings(P!Next)
  BY <1>0, <1>3 DEF Pings
<1>4. CASE Urgently(O!Next)
  BY <1>0, <1>4 DEF Urgently
<1>5. CASE Connect(Next)
  BY <1>0, <1>5 DEF Connect
<1>6. CASE Sums(C!Next)
  BY <1>0, <1>6 DEF Sums
<1>7. CASE UNCHANGED <<mvars, ivars, pvars, ovars, cvars, vars>>
  BY <1>0, <1>7
<1>8. \/ Opens(M!Next) \/ Asks(I!Next) \/ Pings(P!Next) \/ Urgently(O!Next) \/ Connect(Next)
      \/ Sums(C!Next) \/ UNCHANGED <<mvars, ivars, pvars, ovars, cvars, vars>>
  BY DEF AnyNext, Nonblock, Blocking, InLines, Echoes, allvars
<1> QED
  BY <1>1, <1>2, <1>3, <1>4, <1>5, <1>6, <1>7, <1>8

LEMMA FamilyRuns ==
  AnySpec => /\ EP!M!Spec /\ EP!I!Spec /\ EP!G!Spec /\ O!Spec /\ Spec
             /\ EP!K!Init /\ [][EP!K!Next]_(EP!K!vars)
<1>1. AnyInit => EP!M!Init /\ EP!I!Init /\ EP!G!Init /\ EP!K!Init /\ O!Init /\ Init
  BY SameOpen, SameAnswer, SameTimes, SameChecksum DEF AnyInit
<1>2. [AnyNext]_allvars => /\ [EP!M!Next]_(EP!M!vars) /\ [EP!I!Next]_(EP!I!vars)
                           /\ [EP!G!Next]_(EP!G!vars) /\ [EP!K!Next]_(EP!K!vars)
                           /\ [O!Next]_(O!vars) /\ [Next]_vars
  <2> SUFFICES ASSUME [AnyNext]_allvars
               PROVE  /\ [EP!M!Next]_(EP!M!vars) /\ [EP!I!Next]_(EP!I!vars)
                      /\ [EP!G!Next]_(EP!G!vars) /\ [EP!K!Next]_(EP!K!vars)
                      /\ [O!Next]_(O!vars) /\ [Next]_vars
    OBVIOUS
  <2>1. [EP!M!Next]_(EP!M!vars)
    BY OneRuns, SameOpen
  <2>2. [EP!I!Next]_(EP!I!vars)
    BY OneRuns, SameAnswer
  <2>3. [EP!G!Next]_(EP!G!vars)
    BY OneRuns, SameTimes
  <2>4. [EP!K!Next]_(EP!K!vars)
    BY OneRuns, SameChecksum
  <2> QED
    BY <2>1, <2>2, <2>3, <2>4, OneRuns
<1> QED
  BY <1>1, <1>2, PTL DEF AnySpec, EP!M!Spec, EP!I!Spec, EP!G!Spec, O!Spec, Spec

\* my_open returns the file, or the error its child met, for each of the ways in
\* which openfile can end.
THEOREM FileOrError == AnySpec => []OpenedIsReturned
<1>1. EP!M!OpenedIsReturned => OpenedIsReturned
  BY SameOpen DEF OpenedIsReturned
<1>2. EP!M!Spec => []EP!M!OpenedIsReturned
  BY EP!OpenedComesBack, Sizes
<1> QED
  BY <1>1, <1>2, FamilyRuns, PTL

\* However many interfaces there are and whenever they change: the answer that
\* get_ifi_info believes is whole, and it lists nothing twice and what its
\* strides meet.
THEOREM AnswerBelieved ==
  ASSUME MaxIfs \in Nat
  PROVE  AnySpec => []AnswerComplete
<1>1. EP!I!AnswerComplete /\ EP!I!MetEntriesListed => AnswerComplete
  BY SameAnswer DEF AnswerComplete
<1>2. EP!Buffers
  BY DEF EP!Buffers
<1>3. EP!I!Spec => [](EP!I!AnswerComplete /\ EP!I!MetEntriesListed)
  BY EP!AnswerWhole, Sizes, <1>2
<1> QED
  BY <1>1, <1>3, FamilyRuns, PTL

\* Whatever runs: connect_nonb reports what happened, ping prints the time of
\* the request that was answered and keeps its alarm, and no receiver misses
\* an urgent byte it could have had.
THEOREM ReportsTrue ==
  ASSUME MaxSent \in Nat, MaxTime \in Nat, MaxArrivals \in Nat
  PROVE  AnySpec => []ReportsAreTrue
<1>1. EP!Clock
  BY DEF EP!Clock
<1>2. EP!G!Spec => [](EP!G!RttIsOwn /\ EP!G!AlarmKeptUp)
  BY EP!TimesAreOwn, Sizes, <1>1
<1>3. /\ NonblockingConnect /\ O!NoOobMissed /\ O!NeverAskedTwice
      /\ EP!G!RttIsOwn /\ EP!G!AlarmKeptUp
      => ReportsAreTrue
  BY SameTimes DEF ReportsAreTrue
<1> QED
  BY <1>2, <1>3, FamilyRuns, NonblockingConnectReports, NoneMissed, PTL

\* For every message that the accumulator of a family's program can add up: the
\* answer of in_cksum is the checksum.
THEOREM ChecksumRight ==
  ASSUME MaxLen \in Nat, MaxLen <= 10
  PROVE  AnySpec => []ChecksumCorrect
<1>1. EP!Ranges
  BY DEF EP!Ranges, EP!K!WordSize
<1>2. EP!K!Init /\ [][EP!K!Next]_(EP!K!vars) => []EP!K!ChecksumCorrect
  BY EP!ChecksumRight, Sizes, <1>1
<1>3. EP!K!ChecksumCorrect => ChecksumCorrect
  BY SameChecksum DEF ChecksumCorrect
<1> QED
  BY <1>2, <1>3, FamilyRuns, PTL

-----------------------------------------------------------------------------
(* The echo clients of the family.                                         *)

\* The theorems about StrCliNonblock and StrCliLines, with MCOnePeer's sizes.
EN == INSTANCE EchoClientProofs WITH
        copied <- catted, Errnos <- {1, 2}, FileLen <- 2,
        Guess <- 2, Increment <- 2, USEC <- 2, SeqSize <- 2, ByteSize <- 2
EL == INSTANCE EchoClientProofs WITH
        InputLen <- 2 * InputLen, SendCap <- 3, OutCap <- 2,
        copied <- catted, Errnos <- {1, 2}, FileLen <- 2,
        Guess <- 2, Increment <- 2, USEC <- 2, SeqSize <- 2, ByteSize <- 2

LEMMA SameNonblock ==
  /\ N!Next = EN!N!Next
  /\ N!vars = EN!N!vars /\ N!vars' = EN!N!vars'
  /\ N!Init = EN!N!Init
  /\ N!NothingLost = EN!N!NothingLost
  /\ N!FinAfterLastByte = EN!N!FinAfterLastByte
  /\ N!PrematureIsReal = EN!N!PrematureIsReal
  /\ N!UnshownIsInFr = EN!N!UnshownIsInFr
  BY Zenon
  DEF N!srvVars, EN!N!srvVars, N!SrvInit, EN!N!SrvInit, N!Least, EN!N!Least, N!First,
      EN!N!First, N!Rest, EN!N!Rest, N!Readable, EN!N!Readable, N!SrvRead, EN!N!SrvRead,
      N!SrvWrite, EN!N!SrvWrite, N!SrvExit, EN!N!SrvExit, N!SrvKilled, EN!N!SrvKilled,
      N!SrvStep, EN!N!SrvStep, N!Reset, EN!N!Reset, N!Index, EN!N!Index, N!Ptrs, EN!N!Ptrs,
      N!bufs, EN!N!bufs, N!user, EN!N!user, N!outs, EN!N!outs, N!vars, EN!N!vars, N!BufInit,
      EN!N!BufInit, N!Init, EN!N!Init, N!Type, EN!N!Type, N!EndInput, EN!N!EndInput,
      N!TakeOutput, EN!N!TakeOutput, N!WatchRead, EN!N!WatchRead, N!WatchWrite,
      EN!N!WatchWrite, N!ReadReady, EN!N!ReadReady, N!WriteReady, EN!N!WriteReady, N!Select,
      EN!N!Select, N!Shutdown, EN!N!Shutdown, N!NoShutdown, EN!N!NoShutdown, N!FinNow,
      EN!N!FinNow, N!ReadStdin, EN!N!ReadStdin, N!ReadSocket, EN!N!ReadSocket, N!SocketEof,
      EN!N!SocketEof, N!SocketError, EN!N!SocketError, N!ResetTo, EN!N!ResetTo, N!ResetFr,
      EN!N!ResetFr, N!WriteStdout, EN!N!WriteStdout, N!WriteSocket, EN!N!WriteSocket, N!Skip,
      EN!N!Skip, N!ClientStep, EN!N!ClientStep, N!ClientVars, EN!N!ClientVars, N!ServerStep,
      EN!N!ServerStep, N!ServerDies, EN!N!ServerDies, N!Next, EN!N!Next, N!Iota, EN!N!Iota,
      N!Held, EN!N!Held, N!NothingLost, EN!N!NothingLost, N!FinAfterLastByte,
      EN!N!FinAfterLastByte, N!PrematureIsReal, EN!N!PrematureIsReal, N!UnshownIsInFr,
      EN!N!UnshownIsInFr

LEMMA SameBlocking ==
  /\ S!Next = EP!Next
  /\ S!vars = EP!vars /\ S!vars' = EP!vars'
  /\ S!Init = EP!Init
  /\ S!NothingLost = EP!NothingLost
  BY Zenon
  DEF S!srvVars, EP!srvVars, S!SrvInit, EP!SrvInit, S!Least, EP!Least, S!First, EP!First,
      S!Rest, EP!Rest, S!Readable, EP!Readable, S!SrvRead, EP!SrvRead, S!SrvWrite,
      EP!SrvWrite, S!SrvExit, EP!SrvExit, S!SrvKilled, EP!SrvKilled, S!SrvStep, EP!SrvStep,
      S!Reset, EP!Reset, S!user, EP!user, S!outs, EP!outs, S!clientVars, EP!clientVars,
      S!vars, EP!vars, S!Init, EP!Init, S!Type, EP!Type, S!EndInput, EP!EndInput,
      S!TakeOutput, EP!TakeOutput, S!Watch, EP!Watch, S!Ready, EP!Ready, S!Select, EP!Select,
      S!ReadSocket, EP!ReadSocket, S!EndKind, EP!EndKind, S!SocketEof, EP!SocketEof,
      S!WriteStdout, EP!WriteStdout, S!ReadStdin, EP!ReadStdin, S!AfterEof, EP!AfterEof,
      S!SendFin, EP!SendFin, S!StdinEof, EP!StdinEof, S!WriteSocketLoop, EP!WriteSocketLoop,
      S!WriteSocket, EP!WriteSocket, S!SocketError, EP!SocketError, S!ClientStep,
      EP!ClientStep, S!ServerStep, EP!ServerStep, S!ServerDies, EP!ServerDies, S!Next,
      EP!Next, S!NothingLost, EP!NothingLost

LEMMA SameLines ==
  /\ L!Next = EL!L!Next
  /\ L!vars = EL!L!vars /\ L!vars' = EL!L!vars'
  /\ L!Init = EL!L!Init
  /\ L!NothingLost = EL!L!NothingLost
  /\ L!EndsAreReal = EL!L!EndsAreReal
  BY Zenon
  DEF L!srvVars, EL!L!srvVars, L!SrvInit, EL!L!SrvInit, L!Least, EL!L!Least, L!First,
      EL!L!First, L!Rest, EL!L!Rest, L!Readable, EL!L!Readable, L!SrvRead, EL!L!SrvRead,
      L!SrvWrite, EL!L!SrvWrite, L!SrvExit, EL!L!SrvExit, L!SrvKilled, EL!L!SrvKilled,
      L!SrvStep, EL!L!SrvStep, L!Reset, EL!L!Reset, L!user, EL!L!user, L!outs, EL!L!outs,
      L!input, EL!L!input, L!output, EL!L!output, L!clientVars, EL!L!clientVars, L!vars,
      EL!L!vars, L!Forked, EL!L!Forked, L!Selects, EL!L!Selects, L!Over, EL!L!Over,
      L!LineInit, EL!L!LineInit, L!Init, EL!L!Init, L!NewLine, EL!L!NewLine, L!HasLine,
      EL!L!HasLine, L!LineEnd, EL!L!LineEnd, L!Type, EL!L!Type, L!EndInput, EL!L!EndInput,
      L!TakeOutput, EL!L!TakeOutput, L!Select, EL!L!Select, L!FgetsReads, EL!L!FgetsReads,
      L!AtEof, EL!L!AtEof, L!FgetsReturns, EL!L!FgetsReturns, L!SendFin, EL!L!SendFin,
      L!FgetsEof, EL!L!FgetsEof, L!AfterWriten, EL!L!AfterWriten, L!Writen, EL!L!Writen, L!At,
      EL!L!At, L!Goto, EL!L!Goto, L!ReadlineReads, EL!L!ReadlineReads, L!Kept, EL!L!Kept,
      L!ReadlineReturns, EL!L!ReadlineReturns, L!ReadlineEof, EL!L!ReadlineEof, L!AfterFputs,
      EL!L!AfterFputs, L!Fputs, EL!L!Fputs, L!Kill, EL!L!Kill, L!SocketError,
      EL!L!SocketError, L!Sending, EL!L!Sending, L!Showing, EL!L!Showing, L!ServerStep,
      EL!L!ServerStep, L!ServerDies, EL!L!ServerDies, L!Next, EL!L!Next, L!NothingLost,
      EL!L!NothingLost, L!EndsAreReal, EL!L!EndsAreReal

\* Whichever client runs is the only one to move, and nobody changes what runs.
LEMMA EchoRuns ==
  ASSUME [AnyNext]_allvars
  PROVE  /\ runs' = runs
         /\ runs = "nonblock" => [N!Next]_(N!vars)
         /\ runs = "shutdown" => [S!Next]_(S!vars)
         /\ runs = "lines" => [L!Next]_(L!vars)
<1>0. UNCHANGED clients => UNCHANGED N!vars /\ UNCHANGED S!vars /\ UNCHANGED L!vars
  BY DEF clients, echo, nonblock, lines, N!vars, N!srvVars, N!bufs, N!user, N!outs, N!ClientVars,
         S!vars, S!srvVars, S!clientVars, S!user, S!outs,
         L!vars, L!srvVars, L!clientVars, L!user, L!input, L!output, L!outs
<1>1. CASE Nonblock(N!Next)
  BY <1>1 DEF Nonblock, Echoes
<1>2. CASE Blocking(S!Next)
  BY <1>2 DEF Blocking, Echoes
<1>3. CASE InLines(L!Next)
  BY <1>3 DEF InLines, Echoes
<1>4. CASE \/ Connect(Next) \/ Pings(P!Next) \/ Urgently(O!Next) \/ Sums(C!Next)
           \/ Asks(I!Next) \/ Opens(M!Next) \/ UNCHANGED allvars
  BY <1>0, <1>4 DEF Connect, Pings, Urgently, Sums, Asks, Opens, allvars
<1> QED
  BY <1>1, <1>2, <1>3, <1>4 DEF AnyNext

\* The invariant of the client that runs.
EchoInv ==
  /\ runs = "nonblock" => EN!NInv /\ EN!NBack
  /\ runs = "shutdown" => EP!IInv
  /\ runs = "lines" => EL!LInv

LEMMA EchoSizes ==
  /\ InputLen \in Nat /\ 2 * InputLen \in Nat /\ MAXLINE \in Nat \ {0} /\ 2 \in Nat
  /\ 1 \in Nat \ {0} /\ 2 \in Nat \ {0} /\ 3 \in Nat \ {0}
  /\ SendCap \in Nat \ {0} /\ OutCap \in Nat \ {0}
  BY EchoAssumption

LEMMA EchoBegins == AnyInit => EchoInv
<1> SUFFICES ASSUME AnyInit PROVE EchoInv
  OBVIOUS
<1>1. CASE runs = "lines"
  <2>1. L!Init
    BY <1>1 DEF AnyInit
  <2> QED
    BY <1>1, <2>1, SameLines, EL!LInit, EchoSizes DEF EchoInv
<1>2. CASE runs # "lines"
  <2>1. S!Init /\ N!BufInit
    BY <1>2 DEF AnyInit
  <2>2. N!Init
    BY <2>1 DEF S!Init, N!Init, S!SrvInit, N!SrvInit
  <2> QED
    BY <1>2, <2>1, <2>2, SameNonblock, SameBlocking, EN!NInit, EN!NBackInit, EP!InitInv, EchoSizes DEF EchoInv
<1> QED
  BY <1>1, <1>2

LEMMA EchoStep == EchoInv /\ [AnyNext]_allvars => EchoInv'
<1> SUFFICES ASSUME EchoInv, [AnyNext]_allvars PROVE EchoInv'
  OBVIOUS
<1>1. /\ runs' = runs
      /\ runs = "nonblock" => [EN!N!Next]_(EN!N!vars)
      /\ runs = "shutdown" => [EP!Next]_(EP!vars)
      /\ runs = "lines" => [EL!L!Next]_(EL!L!vars)
  BY EchoRuns, SameNonblock, SameBlocking, SameLines
<1>2. runs = "nonblock" => EN!NInv' /\ EN!NBack'
  BY <1>1, EN!NStep, EN!NBackStep, EchoSizes DEF EchoInv
<1>3. runs = "shutdown" => EP!IInv'
  BY <1>1, EP!InvStep, EchoSizes DEF EchoInv
<1>4. runs = "lines" => EL!LInv'
  BY <1>1, EL!LStep, EchoSizes DEF EchoInv
<1> QED
  BY <1>1, <1>2, <1>3, <1>4 DEF EchoInv

LEMMA EchoInvShows == EchoInv => NoByteLost /\ EndsAreReal
<1> SUFFICES ASSUME EchoInv PROVE NoByteLost /\ EndsAreReal
  OBVIOUS
<1>1. CASE runs = "nonblock"
  BY <1>1, EN!NProperties, EN!NUnshown, SameNonblock, EchoSizes DEF EchoInv, NoByteLost, EndsAreReal
<1>2. CASE runs = "shutdown"
  BY <1>2, EP!NoneLost, SameBlocking, EchoSizes DEF EchoInv, NoByteLost, EndsAreReal
<1>3. CASE runs = "lines"
  BY <1>3, EL!LProperties, SameLines, EchoSizes DEF EchoInv, NoByteLost, EndsAreReal
<1> QED
  BY <1>1, <1>2, <1>3 DEF NoByteLost, EndsAreReal

\* Whichever echo client runs, whatever the length of the input and of a line
\* buffer: no byte is lost, doubled or reordered.
THEOREM EchoesWhole == AnySpec => []NoByteLost
  BY EchoInvShows, EchoBegins, EchoStep, PTL DEF AnySpec

\* The FIN of the client comes once and last, and only the death of the server
\* is taken for it.
THEOREM EndsReal == AnySpec => []EndsAreReal
  BY EchoInvShows, EchoBegins, EchoStep, PTL DEF AnySpec

\* The invariant of the client that runs, with what it promises; while the
\* blocking client runs, those in lines stand still.
ServesInv ==
  /\ EchoInv
  /\ runs = "lines" => EL!LServing
  /\ runs = "shutdown" => client = "str_cli" /\ kpc = "none"

LEMMA ServesBegins == AnyInit => ServesInv
<1> SUFFICES ASSUME AnyInit PROVE ServesInv
  OBVIOUS
<1>1. runs = "lines" => L!Init
  BY DEF AnyInit
<1>2. runs = "lines" => EL!LServing
  BY <1>1, SameLines, EL!LServingInit, EchoSizes
<1>3. runs = "shutdown" => client = "str_cli" /\ kpc = "none"
  BY DEF AnyInit, L!LineInit, L!Forked
<1> QED
  BY <1>2, <1>3, EchoBegins DEF ServesInv

LEMMA ServesStep == ServesInv /\ [AnyNext]_allvars => ServesInv'
<1> SUFFICES ASSUME ServesInv, [AnyNext]_allvars PROVE ServesInv'
  OBVIOUS
<1>1. runs' = runs /\ (runs = "lines" => [EL!L!Next]_(EL!L!vars))
  BY EchoRuns, SameLines
<1>2. runs = "lines" => EL!LServing'
  BY <1>1, EL!LServingStep, EchoSizes DEF ServesInv
<1>3. runs = "shutdown" => UNCHANGED <<client, kpc>>
  BY DEF AnyNext, Connect, Pings, Urgently, Nonblock, Blocking, InLines, Sums, Asks, Opens,
         allvars, clients, lines
<1>4. EchoInv'
  BY EchoStep DEF ServesInv
<1> QED
  BY <1>1, <1>2, <1>3, <1>4 DEF ServesInv

\* What Service sees of the client that runs.
LEMMA SeenBlocking ==
  ServesInv /\ runs = "shutdown" =>
    /\ Serves /\ ~L!Forked
    /\ L!Ended <=> cpc \in {"return", "premature", "error"}
<1> SUFFICES ASSUME ServesInv, runs = "shutdown"
             PROVE  /\ Serves /\ ~L!Forked
                    /\ L!Ended <=> cpc \in {"return", "premature", "error"}
  OBVIOUS
<1>1. EP!TypeOK /\ client = "str_cli" /\ kpc = "none"
  BY DEF ServesInv, EchoInv, EP!IInv
<1> QED
  BY <1>1 DEF EP!TypeOK, Serves, L!Forked, L!Ended, L!Over

LEMMA ServiceStep == ServesInv /\ ServesInv' /\ [AnyNext]_allvars => [Service!Next]_(Service!vars)
<1> SUFFICES ASSUME ServesInv, ServesInv', [AnyNext]_allvars
             PROVE  [Service!Next]_(Service!vars)
  OBVIOUS
<1>1. /\ runs' = runs
      /\ runs = "shutdown" => [EP!Next]_(EP!vars)
      /\ runs = "lines" => [EL!L!Next]_(EL!L!vars)
  BY EchoRuns, SameBlocking, SameLines
<1>s. runs = "lines" => (L!Selects' <=> L!Selects)
  BY <1>1, EL!SameProgram, EchoSizes DEF L!Selects
<1>2. CASE runs = "shutdown"
  <2>1. [EP!Service!Next]_(EP!Service!vars)
    BY <1>1, <1>2, EP!ImplementsStep, EchoSizes DEF ServesInv, EchoInv
  <2>2. /\ Serves /\ ~L!Forked
        /\ L!Ended <=> cpc \in {"return", "premature", "error"}
    BY <1>2, SeenBlocking
  <2>3. /\ Serves' /\ ~L!Forked'
        /\ L!Ended' <=> cpc' \in {"return", "premature", "error"}
    <3>1. (ServesInv /\ runs = "shutdown" =>
             /\ Serves /\ ~L!Forked
             /\ L!Ended <=> cpc \in {"return", "premature", "error"})'
      BY SeenBlocking, PTL
    <3> QED
      BY <1>1, <1>2, <3>1, Zenon
  <2>4. typed \in Nat /\ InputLen \in Nat /\ InputLen <= 2 * InputLen
    BY <1>2, EchoAssumption DEF ServesInv, EchoInv, EP!IInv, EP!TypeOK
  <2> USE DEF EP!Service!vars, Service!vars, Service!Next
  <2>5. CASE EP!Service!Type
    <3>0. ~ended /\ typed < InputLen /\ typed' = typed + 1
      BY Zenon, <2>5 DEF EP!Service!Type
    <3>1. ~ended /\ typed < 2 * InputLen /\ typed' = typed + 1
      <4>1. \A x, y, z \in Nat : x < y /\ y <= z => x < z
        OBVIOUS
      <4> QED
        BY <2>4, <3>0, <4>1, 2 * InputLen \in Nat, Zenon
    <3>2. Service!Type
      BY <2>2, <2>3, <2>5, <3>1 DEF EP!Service!Type, Service!Type
    <3> QED
      BY <3>2
  <2>6. CASE EP!Service!End
    BY <2>2, <2>3, <2>6 DEF EP!Service!End, Service!End
  <2>7. CASE EP!Service!Show
    BY <2>2, <2>3, <2>7 DEF EP!Service!Show, Service!Show
  <2>8. CASE EP!Service!ServerDies
    BY <2>2, <2>3, <2>8 DEF EP!Service!ServerDies, Service!ServerDies
  <2>9. CASE EP!Service!Return
    BY <2>2, <2>3, <2>9 DEF EP!Service!Return, Service!Return
  <2>10. CASE EP!Service!GiveUp
    BY <2>2, <2>3, <2>10 DEF EP!Service!GiveUp, Service!GiveUp
  <2>11. CASE UNCHANGED EP!Service!vars
    BY <2>2, <2>3, <2>11
  <2> QED
    BY <2>1, <2>5, <2>6, <2>7, <2>8, <2>9, <2>10, <2>11 DEF EP!Service!Next
<1>3. CASE runs = "lines" /\ ~L!Selects
  <2>1. [EL!LService!Next]_(EL!LService!vars)
    BY <1>1, <1>3, EL!LServiceStep, EchoSizes DEF ServesInv, L!Selects, EL!L!Selects
  <2>2. Serves /\ Serves'
    BY <1>1, <1>3, <1>s DEF Serves
  <2>3. /\ EL!L!Ended <=> L!Ended
        /\ EL!L!Forked <=> L!Forked
        /\ EL!L!Ended' <=> L!Ended'
        /\ EL!L!Forked' <=> L!Forked'
    BY DEF EL!L!Ended, L!Ended, EL!L!Over, L!Over, EL!L!Forked, L!Forked
  <2> USE DEF EL!LService!vars, Service!vars, Service!Next, EL!LServer, EL!LClient
  <2>5. CASE EL!LService!Type
    BY <2>2, <2>3, <2>5 DEF EL!LService!Type, Service!Type
  <2>6. CASE EL!LService!End
    BY <2>2, <2>3, <2>6 DEF EL!LService!End, Service!End
  <2>7. CASE EL!LService!Show
    BY <2>2, <2>3, <2>7 DEF EL!LService!Show, Service!Show
  <2>8. CASE EL!LService!ServerDies
    BY <2>2, <2>3, <2>8 DEF EL!LService!ServerDies, Service!ServerDies
  <2>9. CASE EL!LService!Return
    BY <2>2, <2>3, <2>9 DEF EL!LService!Return, Service!Return
  <2>10. CASE EL!LService!GiveUp
    BY <2>2, <2>3, <2>10 DEF EL!LService!GiveUp, Service!GiveUp
  <2>11. CASE UNCHANGED EL!LService!vars
    BY <2>2, <2>3, <2>11
  <2> QED
    BY <2>1, <2>5, <2>6, <2>7, <2>8, <2>9, <2>10, <2>11 DEF EL!LService!Next
<1>4. CASE ~Serves
  <2>1. ~Serves'
    BY <1>1, <1>4, <1>s DEF Serves
  <2> QED
    BY <1>4, <2>1 DEF Service!vars
<1> QED
  BY <1>2, <1>3, <1>4 DEF Serves

\* Whichever of them runs, the blocking client, str_cli or strclifork: its
\* normal return means that everything the user typed has been shown.
THEOREM FamilyServes == AnySpec => ImplementsService
<1>1. AnyInit => Service!Init
  <2> SUFFICES ASSUME AnyInit PROVE Service!Init
    OBVIOUS
  <2>1. runs = "lines" => L!Init
    BY DEF AnyInit
  <2>2. runs = "shutdown" => S!Init /\ client = "str_cli"
    BY DEF AnyInit
  <2>3. Serves => typed = 0 /\ ended = FALSE /\ shown = <<>> /\ spc = "read"
                 /\ cpc \in {"fgets", "select"}
    BY SMT, <2>1, <2>2 DEF Serves, L!Init, S!Init, L!SrvInit, S!SrvInit
  <2> QED
    BY <2>3 DEF Service!Init, L!Ended, L!Over
<1> QED
  BY <1>1, ServesBegins, ServesStep, ServiceStep, PTL
  DEF AnySpec, ImplementsService, Service!Spec

-----------------------------------------------------------------------------
(* The types of the family.                                                *)

LEMMA SameTypes ==
  /\ P!TypeOK = EP!G!TypeOK /\ C!TypeOK = EP!K!TypeOK
  /\ I!TypeOK = EP!I!TypeOK /\ (M!TypeOK <=> EP!M!TypeOK)
<1>1. P!TypeOK = EP!G!TypeOK
  BY Zenon
  DEF P!TypeOK, EP!G!TypeOK, P!Requests, EP!G!Requests, P!Stranger, EP!G!Stranger, P!Twin,
      EP!G!Twin, P!Short, EP!G!Short, P!Other, EP!G!Other, P!Strange, EP!G!Strange, P!Never,
      EP!G!Never, P!Nothing, EP!G!Nothing
<1>2. C!TypeOK = EP!K!TypeOK
  BY Zenon
  DEF C!TypeOK, EP!K!TypeOK, C!Messages, EP!K!Messages, C!WordSize, EP!K!WordSize, C!SumSize,
      EP!K!SumSize
<1>3. I!TypeOK = EP!I!TypeOK
  BY Zenon
  DEF I!TypeOK, EP!I!TypeOK, I!Lists, EP!I!Lists, I!Names, EP!I!Names, I!EntrySize,
      EP!I!EntrySize, I!StrideSize, EP!I!StrideSize, I!FamilyAt, EP!I!FamilyAt
<1>4. M!TypeOK <=> EP!M!TypeOK
  <2>1. M!ErrSys = EP!M!ErrSys /\ M!TheFile = EP!M!TheFile /\ M!Unset = EP!M!Unset
    BY DEF M!ErrSys, EP!M!ErrSys, M!TheFile, EP!M!TheFile, M!Unset, EP!M!Unset
  <2> QED
    BY <2>1 DEF M!TypeOK, EP!M!TypeOK
<1> QED
  BY <1>1, <1>2, <1>3, <1>4

LEMMA EchoTypes ==
  EchoInv => /\ runs = "nonblock" => N!TypeOK
             /\ runs = "shutdown" => S!TypeOK
             /\ runs = "lines" => L!TypeOK
<1>1. EP!IInv => S!TypeOK
  BY DEF EP!IInv, S!TypeOK, EP!TypeOK, S!SrvTypeOK, EP!SrvTypeOK
<1>2. EN!NInv => N!TypeOK
  BY DEF EN!NInv, N!TypeOK, EN!N!TypeOK, N!SrvTypeOK, EN!N!SrvTypeOK, N!Index, EN!N!Index,
         N!Ptrs, EN!N!Ptrs
<1>3. EL!LInv => L!TypeOK
  BY DEF EL!LInv, L!TypeOK, EL!L!TypeOK, L!SrvTypeOK, EL!L!SrvTypeOK, L!Over, EL!L!Over
<1> QED
  BY <1>1, <1>2, <1>3 DEF EchoInv

\* Whichever program runs, its variables have their types, and those of the
\* others keep theirs.
THEOREM AllTypesCorrect ==
  ASSUME MaxSent \in Nat, MaxTime \in Nat, MaxArrivals \in Nat, MaxIfs \in Nat,
         MaxLen \in Nat, MaxLen <= 10
  PROVE  AnySpec => []AllTypeOK
<1>1. EP!Clock /\ EP!Buffers /\ EP!Ranges
  BY DEF EP!Clock, EP!Buffers, EP!Ranges, EP!K!WordSize
<1>2. EP!M!Spec => []EP!MInv
  BY EP!MyOpenInv, Sizes
<1>3. EP!I!Spec => []EP!FInv
  BY EP!IfiInfoInv, Sizes, <1>1
<1>4. EP!G!Spec => []EP!PInv
  BY EP!PingInv, Sizes, <1>1
<1>5. EP!K!Init /\ [][EP!K!Next]_(EP!K!vars) => []EP!KInv
  BY EP!ChecksumInv, Sizes, <1>1
<1>6. O!Spec => []OInv
  BY OobInit, OobStep, PTL DEF O!Spec
<1>7. EP!MInv /\ EP!FInv /\ EP!PInv /\ EP!KInv /\ OInv /\ IInv /\ EchoInv => AllTypeOK
  BY SameTypes, EchoTypes
  DEF AllTypeOK, EP!MInv, EP!FInv, EP!PInv, EP!KInv, OInv, IInv
<1> QED
  BY <1>2, <1>3, <1>4, <1>5, <1>6, <1>7, FamilyRuns, Inductive, EchoBegins, EchoStep, PTL
  DEF AnySpec
=============================================================================
