---------------------------- MODULE OobReceivers ----------------------------
(***************************************************************************)
(* The out-of-band examples: oob/tcpsend01 to 04 each write a fixed        *)
(* sequence of normal and out-of-band bytes, oob/tcprecv01 to 05 receive   *)
(* them with SIGURG, with select's exception set, or in line.  Every       *)
(* sender may meet every receiver.                                         *)
(*                                                                         *)
(* TCP (external) knows one urgent mark: a segment, even one without room  *)
(* for data, announces the last out-of-band byte the sender has written so *)
(* far; a later announcement replaces it.  A byte is named by its place in *)
(* the stream.  A write of several bytes is two bytes long here.           *)
(***************************************************************************)
EXTENDS Integers, Sequences

CONSTANT Window     \* bytes the receive buffer holds

\* What each program writes: normal data n, out-of-band data o.
tcpsend01 == <<"n", "n", "o", "n", "n", "o", "n", "n">>
tcpsend02 == <<"n", "n", "o", "n">>
tcpsend03 == <<"n", "n", "n", "o", "n", "n">>
tcpsend04 == <<"n", "n", "o", "n", "o", "n">>

\* How a receiver learns of out-of-band data, and what else tells it apart:
\* tcprecv03 asks for it again only after normal data, tcprecv05 never reads
\* normal data.
Receiver(learns, once, reads) == [learns |-> learns, once |-> once, reads |-> reads]
tcprecv01 == Receiver("signal", FALSE, TRUE)
tcprecv02 == Receiver("select", FALSE, TRUE)
tcprecv03 == Receiver("select", TRUE, TRUE)
tcprecv04 == Receiver("inline", FALSE, TRUE)
tcprecv05 == Receiver("signal", FALSE, FALSE)

Senders == {tcpsend01, tcpsend02, tcpsend03, tcpsend04}
Receivers == {tcprecv01, tcprecv02, tcprecv03, tcprecv04, tcprecv05}

VARIABLES
  sender, program,
  sent, fin,      \* bytes written; the sender has exited
  rcvd,           \* bytes that have arrived
  copied,         \* bytes the receiver is past (copied_seq)
  urg,            \* the place of the urgent mark, 0 for none
  urgData,        \* its byte: "none", "notyet", "valid" or "read"
  sigurg, owned,  \* SIGURG is pending; F_SETOWN has been called
  pc,             \* "setup", "top", "oob", "read", "eof", "failed"
  rset, xset,     \* what select reported
  justreadoob,
  \* history
  oob,            \* bytes received with MSG_OOB
  missed,         \* out-of-band bytes read past although they could be read
  early,          \* announced before F_SETOWN
  marks           \* where "at OOB mark" was printed

tcp == <<sent, fin, rcvd, copied, urg, urgData>>
hist == <<oob, missed, early, marks>>
vars == <<sender, program, tcp, sigurg, owned, pc, rset, xset, justreadoob, hist>>

Positions == 1 .. Len(sender)
Urgent(p) == sender[p] = "o"

TypeOK ==
  /\ sender \in Senders /\ program \in Receivers
  /\ sent \in 0 .. Len(sender) /\ rcvd \in 0 .. sent /\ copied \in 0 .. rcvd
  /\ fin \in BOOLEAN
  /\ urg \in 0 .. sent /\ urgData \in {"none", "notyet", "valid", "read"}
  /\ sigurg \in BOOLEAN /\ owned \in BOOLEAN /\ rset \in BOOLEAN /\ xset \in BOOLEAN
  /\ justreadoob \in BOOLEAN
  /\ pc \in {"setup", "top", "oob", "read", "eof", "failed"}
  /\ oob \subseteq Positions /\ missed \subseteq Positions
  /\ early \subseteq Positions /\ marks \subseteq Positions

Init ==
  /\ sender \in Senders /\ program \in Receivers
  /\ sent = 0 /\ fin = FALSE /\ rcvd = 0 /\ copied = 0
  /\ urg = 0 /\ urgData = "none"
  /\ sigurg = FALSE /\ owned = FALSE
  /\ pc = "setup" /\ rset = FALSE /\ xset = FALSE /\ justreadoob = FALSE
  /\ oob = {} /\ missed = {} /\ early = {} /\ marks = {}

Over == pc \in {"eof", "failed"}

----------------------------------------------------------------------------
(* The sender and the connection.                                          *)

SendByte ==
  /\ sent < Len(sender) /\ ~Over
  /\ sent' = sent + 1
  /\ UNCHANGED <<sender, program, fin, rcvd, copied, urg, urgData, sigurg, owned,
                 pc, rset, xset, justreadoob, hist>>

SenderExits ==
  /\ sent = Len(sender) /\ ~fin /\ ~Over
  /\ fin' = TRUE
  /\ UNCHANGED <<sender, program, sent, rcvd, copied, urg, urgData, sigurg, owned,
                 pc, rset, xset, justreadoob, hist>>

\* The last out-of-band byte among the first t, or 0.
LastUrgent(t) == IF \E p \in 1 .. t : Urgent(p)
                 THEN CHOOSE p \in 1 .. t : Urgent(p) /\ \A q \in p + 1 .. t : ~Urgent(q)
                 ELSE 0

\* What a segment may announce that begins behind the bytes received.
Announceable == {u \in {LastUrgent(t) : t \in rcvd .. sent} : u > rcvd /\ u > urg}

Inline == program.learns = "inline"

\* The old out-of-band byte, received and next in line, is dropped when a new
\* mark comes.
DropsOld == urgData # "none" /\ urg = copied + 1 /\ ~Inline /\ copied < rcvd

Announce(u) ==
  /\ u \in Announceable /\ ~Over
  /\ urg' = u /\ urgData' = "notyet"
  /\ copied' = IF DropsOld THEN copied + 1 ELSE copied
  /\ sigurg' = (sigurg \/ (owned /\ program.learns = "signal"))
  /\ early' = IF owned THEN early ELSE early \cup {u}
  /\ UNCHANGED <<sender, program, sent, fin, rcvd, owned, pc, rset, xset, justreadoob,
                 oob, missed, marks>>

\* A byte arrives.  The segment of an out-of-band byte that is the last one
\* written says so; one that was overtaken before it left is ordinary data.
ByteArrives ==
  /\ rcvd < sent /\ rcvd - copied < Window /\ ~Over
  /\ Urgent(rcvd + 1) /\ LastUrgent(sent) = rcvd + 1 => urg = rcvd + 1
  /\ rcvd' = rcvd + 1
  /\ urgData' = IF urg = rcvd + 1 /\ urgData = "notyet" THEN "valid" ELSE urgData
  /\ UNCHANGED <<sender, program, sent, fin, copied, urg, sigurg, owned, pc, rset, xset,
                 justreadoob, hist>>

----------------------------------------------------------------------------
(* Reading.                                                                *)

\* The out-of-band byte is next and not in line: a read goes past it.
AtHole == urgData # "none" /\ urg = copied + 1 /\ ~Inline
From == IF AtHole THEN copied + 2 ELSE copied + 1

\* A read stops before the mark, unless it begins there.
Upto == IF urgData # "none" /\ urg > From THEN IF urg - 1 < rcvd THEN urg - 1 ELSE rcvd ELSE rcvd

ReadableNow == From <= rcvd \/ (fin /\ rcvd = Len(sender))

\* read() returns data, as much as there is up to the mark (the buffers of the
\* programs are larger); next is where the loop goes on.
ReadData(next) ==
  /\ From <= Upto
  /\ copied' = Upto
  /\ missed' = IF AtHole /\ urgData = "valid" THEN missed \cup {urg} ELSE missed
  /\ urgData' = IF urg <= Upto THEN "none" ELSE urgData
  /\ pc' = next

ReadEof == From > rcvd /\ fin /\ rcvd = Len(sender) /\ pc' = "eof"

\* recv(MSG_OOB): the byte if it is there, otherwise EAGAIN or EINVAL, and
\* the wrapper Recv ends the program.
RecvOob(next) ==
  IF urgData = "valid" /\ ~Inline
  THEN urgData' = "read" /\ oob' = oob \cup {urg} /\ pc' = next
  ELSE pc' = "failed" /\ UNCHANGED <<urgData, oob>>

----------------------------------------------------------------------------
(* The receivers.  SIGURG is delivered before the program goes on; blocked *)
(* calls are restarted after the handler (SA_RESTART).                     *)

Goes == ~sigurg

\* Signal and F_SETOWN.  SIGURG is ignored before; a mark announced before
\* F_SETOWN gives no signal.
Setup ==
  /\ pc = "setup" /\ pc' = "top"
  /\ owned' = (program.learns = "signal")
  /\ UNCHANGED <<sender, program, tcp, sigurg, rset, xset, justreadoob, hist>>

\* tcprecv01 and 05: the handler.
SigUrg ==
  /\ sigurg /\ ~Over
  /\ sigurg' = FALSE
  /\ RecvOob(pc)
  /\ UNCHANGED <<sender, program, sent, fin, rcvd, copied, urg, owned, rset, xset,
                 justreadoob, missed, early, marks>>

\* tcprecv01 and 04: read() blocks until there is something; tcprecv04 has
\* asked sockatmark before.
Read ==
  /\ pc = (IF Inline THEN "read" ELSE "top") /\ program.reads
  /\ program.learns # "select" /\ Goes
  /\ \/ ReadData("top")
     \/ ReadEof /\ UNCHANGED <<copied, missed, urgData>>
  /\ UNCHANGED <<sender, program, sent, fin, rcvd, urg, sigurg, owned, rset, xset,
                 justreadoob, oob, early, marks>>

Sockatmark ==
  /\ Inline /\ pc = "top"
  /\ marks' = IF urgData # "none" /\ urg = copied + 1 THEN marks \cup {urg} ELSE marks
  /\ pc' = "read"
  /\ UNCHANGED <<sender, program, tcp, sigurg, owned, rset, xset, justreadoob,
                 oob, missed, early>>

\* tcprecv02 and 03: select; tcprecv03 leaves the exception set empty after it
\* has read out-of-band data.
WatchesOob == ~(program.once /\ justreadoob)

Select ==
  /\ program.learns = "select" /\ pc = "top"
  /\ rset' = ReadableNow
  /\ xset' = (WatchesOob /\ urgData = "valid")
  /\ rset' \/ xset'
  /\ pc' = "oob"
  /\ UNCHANGED <<sender, program, tcp, sigurg, owned, justreadoob, hist>>

SelectOob ==
  /\ pc = "oob" /\ xset
  /\ RecvOob("read")
  /\ xset' = FALSE
  /\ justreadoob' = (program.once /\ pc' # "failed")
  /\ UNCHANGED <<sender, program, sent, fin, rcvd, copied, urg, sigurg, owned, rset,
                 missed, early, marks>>

\* First the exception, then the normal data.
NoException == ~xset

SelectNoOob ==
  /\ pc = "oob" /\ NoException
  /\ pc' = "read"
  /\ UNCHANGED <<sender, program, tcp, sigurg, owned, rset, xset, justreadoob, hist>>

SelectRead ==
  /\ program.learns = "select" /\ pc = "read" /\ rset
  /\ \/ ReadData("top") /\ justreadoob' = FALSE
     \/ ReadEof /\ UNCHANGED <<copied, missed, urgData, justreadoob>>
  /\ UNCHANGED <<sender, program, sent, fin, rcvd, urg, sigurg, owned, rset, xset,
                 oob, early, marks>>

SelectNoRead ==
  /\ program.learns = "select" /\ pc = "read" /\ ~rset
  /\ pc' = "top"
  /\ UNCHANGED <<sender, program, tcp, sigurg, owned, rset, xset, justreadoob, hist>>

----------------------------------------------------------------------------
Program == \/ Setup \/ SigUrg \/ Read \/ Sockatmark
           \/ Select \/ SelectOob \/ SelectNoOob \/ SelectRead \/ SelectNoRead
Delivery == ByteArrives \/ \E u \in Announceable : Announce(u)

Next == Program \/ SendByte \/ SenderExits \/ Delivery

Spec == Init /\ [][Next]_vars

\* Both programs run, and TCP delivers what there is room for.
FairSpec == Spec /\ WF_vars(Program) /\ WF_vars(SendByte) /\ WF_vars(SenderExits)
                 /\ WF_vars(Delivery)

----------------------------------------------------------------------------
(* Properties.                                                             *)

\* No receiver reads past an out-of-band byte that it could have received:
\* tcprecv02 and 03 because they look at the exception first and a read stops
\* at the mark, tcprecv01 because SIGURG comes before the data, unless the
\* byte was announced before F_SETOWN.  "At OOB mark" is printed only at an
\* out-of-band byte.
NoOobMissed ==
  /\ missed \subseteq early
  /\ program.learns = "select" => missed = {}
  /\ \A p \in oob \cup marks : Urgent(p)

\* A receiver with select never asks for the same byte twice: if Recv fails,
\* a later mark came between select and Recv.
NeverAskedTwice ==
  pc = "failed" /\ program.learns = "select" => urgData = "notyet"

\* Every receiver gets to the end of the stream or fails in Recv; tcprecv05
\* may pause for ever.
Settled == Over \/ (program = tcprecv05 /\ ~sigurg)
EveryReceiverEnds == <>[]Settled
=============================================================================
