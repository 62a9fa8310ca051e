-------------------------- MODULE EchoClientProofs --------------------------
(***************************************************************************)
(* Proofs about StrCliShutdown, the echo client that shuts down its half   *)
(* of the connection at the end of its input, for every input and every    *)
(* size of the buffers: no byte is lost, doubled or reordered on its way   *)
(* through client, connection and server, and the client implements        *)
(* EchoService, so that a normal return means that everything was shown.   *)
(* StrCliNonblock, for its two buffers of any size: the same of the client *)
(* that never blocks, and that its FIN follows its last byte.  StrCliLines *)
(* for inputs of any length: the same of the three clients that work in    *)
(* lines and read ahead.                                                   *)
(* MyOpen, for all errors and files: what my_open returns is what its      *)
(* child met.  IfiInfo, for lists of any length: the answer that is        *)
(* believed is whole.  Ping, for seconds of any length and any number of   *)
(* requests: a time printed is that of its own request.  InCksum, for a    *)
(* byte of any size and every message that its accumulator can add up: the *)
(* answer is the checksum.                                                 *)
(***************************************************************************)
EXTENDS StrCliShutdown, SequenceTheorems, FiniteSetTheorems, WellFoundedInduction, TLAPS

CONSTANTS Errnos, FileLen, MaxIfs, Guess, Increment, USEC, SeqSize, MaxSent, MaxTime, MaxArrivals,
          ByteSize, MaxLen
VARIABLES
  openErr, passErr, opc, status, cause, pair, fd, errno, copied, mpc,   \* MyOpen
  refuses, ifs, changed, doaliases, len, lastlen, ifbuf, missed, pos,   \* IfiInfo
  lastname, ifihead, down, ipc,
  ppc, now, due, nsent, sentAt, queue, arrivals, recvbuf, tval, line,   \* Ping
  addr, cnleft, sum, answer, ckpc,                                      \* InCksum
  to, toiptr, tooptr, fr, friptr, froptr, wset, fins,                   \* StrCliNonblock
  client, fbuf, sendline, rbuf, recvline, kpc                           \* StrCliLines

M == INSTANCE MyOpen
I == INSTANCE IfiInfo WITH buf <- ifbuf
G == INSTANCE Ping WITH pc <- ppc
K == INSTANCE InCksum
N == INSTANCE StrCliNonblock
L == INSTANCE StrCliLines WITH program <- client

Bytes == 1 .. InputLen
Upto(m) == [k \in 1 .. m |-> k]

\* Concatenation under a name of its own, so that the provers take it as it is.
Then(s, t) == s \o t

\* The client's buffer, by where its bytes are bound.
OutBuf == IF cpc = "write" THEN buf ELSE <<>>
InBuf == IF cpc = "writen" THEN buf ELSE <<>>

\* The bytes that will be shown whatever becomes of the server, and all of them.
Coming == Then(Then(shown, OutBuf), toCli)
Stream == Then(Then(Then(Coming, sbuf), toSrv), InBuf)

Whole == spc # "killed" => Stream = Upto(consumed)

\* Also when the server is dead: what comes back is a beginning of the input.
Prefix == Len(Coming) <= consumed /\ Coming = Upto(Len(Coming))

\* Who has finished, and what that says about the others.
Ends ==
  /\ stdineof => /\ ended /\ consumed = typed /\ "stdin" \notin rset
                 /\ cpc \notin {"stdin", "writen"}
  /\ finSrv => stdineof
  /\ finCli => spc \in {"exit", "killed"}
  /\ spc = "exit" => finSrv /\ toSrv = <<>>
  /\ spc \in {"read", "exit"} => sbuf = <<>>

IInv == TypeOK /\ Whole /\ Prefix /\ Ends

-----------------------------------------------------------------------------
(* Sequences.                                                              *)

LEMMA UptoSeq ==
  ASSUME NEW m \in 0 .. InputLen
  PROVE  Upto(m) \in Seq(Bytes) /\ Len(Upto(m)) = m
<1>1. m \in Nat /\ InputLen \in Nat
  BY EchoAssumption
<1>2. Upto(m) \in [1 .. m -> Bytes]
  BY <1>1 DEF Upto, Bytes
<1> QED
  BY <1>1, <1>2 DEF Upto

LEMMA ThenFacts ==
  ASSUME NEW S, NEW s \in Seq(S), NEW t \in Seq(S)
  PROVE  /\ Then(s, t) \in Seq(S) /\ Len(Then(s, t)) = Len(s) + Len(t)
         /\ Then(s, <<>>) = s /\ Then(<<>>, s) = s
  BY ConcatProperties, ConcatEmptySeq DEF Then

LEMMA ThenAssociative ==
  ASSUME NEW S, NEW s \in Seq(S), NEW t \in Seq(S), NEW u \in Seq(S)
  PROVE  Then(Then(s, t), u) = Then(s, Then(t, u))
  BY ConcatAssociative DEF Then

\* The same of the strings that are sent.
LEMMA Bytewise ==
  ASSUME NEW s \in Seq(Bytes), NEW t \in Seq(Bytes)
  PROVE  /\ Then(s, t) \in Seq(Bytes) /\ Len(Then(s, t)) = Len(s) + Len(t)
         /\ \A u \in Seq(Bytes) : Then(Then(s, t), u) = Then(s, Then(t, u))
  BY ThenFacts, ThenAssociative

\* A read or a write takes m bytes from the front of y.
LEMMA Split ==
  ASSUME NEW S, NEW y \in Seq(S), NEW m \in 1 .. Len(y)
  PROVE  /\ First(m, y) \in Seq(S) /\ Rest(m, y) \in Seq(S)
         /\ Len(First(m, y)) = m /\ Len(Rest(m, y)) = Len(y) - m
         /\ Then(First(m, y), Rest(m, y)) = y
<1>1. Len(y) \in Nat /\ m \in Nat /\ m <= Len(y) /\ m >= 1
  BY LenProperties
<1>2. \A i \in 1 .. Len(y) : y[i] \in S
  BY ElementOfSeq
<1>3. /\ First(m, y) \in Seq(S) /\ Len(First(m, y)) = m
  <2>1. \A i \in 1 .. m : y[i] \in S
    BY <1>1, <1>2
  <2>2. SubSeq(y, 1, m) \in Seq(S) /\ Len(SubSeq(y, 1, m)) = (IF 1 <= m THEN m - 1 + 1 ELSE 0)
    BY <1>1, <2>1, SubSeqProperties
  <2> QED
    BY <1>1, <2>2 DEF First
<1>4. /\ Rest(m, y) \in Seq(S) /\ Len(Rest(m, y)) = Len(y) - m
  <2>0. m + 1 \in Int /\ Len(y) \in Int
    BY <1>1
  <2>1. \A i \in m + 1 .. Len(y) : y[i] \in S
    BY <1>1, <1>2
  <2>2. /\ SubSeq(y, m + 1, Len(y)) \in Seq(S)
        /\ Len(SubSeq(y, m + 1, Len(y))) = (IF m + 1 <= Len(y) THEN Len(y) - (m + 1) + 1 ELSE 0)
    BY <2>0, <2>1, SubSeqProperties
  <2> QED
    BY <1>1, <2>2 DEF Rest
<1>5. Then(First(m, y), Rest(m, y)) = y
  <2>1. /\ 1 \in 1 .. Len(y) + 1 /\ m \in 1 - 1 .. Len(y) /\ Len(y) \in m .. Len(y)
    BY <1>1
  <2>2. SubSeq(y, 1, m) \o SubSeq(y, m + 1, Len(y)) = SubSeq(y, 1, Len(y))
    BY <2>1, ConcatAdjacentSubSeq
  <2> QED
    BY <2>2, SubSeqFull DEF First, Rest, Then
<1> QED
  BY <1>3, <1>4, <1>5

\* It puts them behind what was there, or where nothing was: what is before,
\* at and behind them is the same.
LEMMA Moved ==
  ASSUME NEW S, NEW l \in Seq(S), NEW x \in Seq(S), NEW y \in Seq(S), NEW m \in 1 .. Len(y)
  PROVE  /\ Then(Then(l, First(m, y)), Rest(m, y)) = Then(l, y)
         /\ Then(Then(l, Then(x, First(m, y))), Rest(m, y)) = Then(Then(l, x), y)
<1>1. /\ First(m, y) \in Seq(S) /\ Rest(m, y) \in Seq(S) /\ Then(l, x) \in Seq(S)
      /\ Then(First(m, y), Rest(m, y)) = y
  BY Split, ThenFacts
<1>2. Then(Then(l, First(m, y)), Rest(m, y)) = Then(l, y)
  BY <1>1, ThenAssociative
<1>3. Then(l, Then(x, First(m, y))) = Then(Then(l, x), First(m, y))
  BY <1>1, ThenAssociative
<1>4. Then(Then(Then(l, x), First(m, y)), Rest(m, y)) = Then(Then(l, x), y)
  BY <1>1, ThenAssociative
<1> QED
  BY <1>2, <1>3, <1>4

\* A beginning of 1, 2, 3, ... is of that form too.
LEMMA PrefixOfUpto ==
  ASSUME NEW s \in Seq(Bytes), NEW t \in Seq(Bytes),
         Len(Then(s, t)) <= InputLen, Then(s, t) = Upto(Len(Then(s, t)))
  PROVE  s = Upto(Len(s)) /\ Len(s) <= Len(Then(s, t))
<1> USE DEF Then
<1>1. Len(s) \in Nat /\ Len(t) \in Nat /\ Len(s \o t) = Len(s) + Len(t) /\ InputLen \in Nat
  BY ConcatProperties, LenProperties, EchoAssumption
<1>2. Len(s) \in 0 .. InputLen /\ Len(s) <= Len(s \o t)
  BY <1>1
<1>3. Upto(Len(s)) \in Seq(Bytes) /\ Len(Upto(Len(s))) = Len(s)
  BY <1>2, UptoSeq
<1>4. ASSUME NEW i \in 1 .. Len(s) PROVE s[i] = Upto(Len(s))[i]
  <2>1. i \in 1 .. Len(s) + Len(t) /\ i <= Len(s) /\ i \in 1 .. Len(s \o t)
    BY <1>1
  <2>2. (s \o t)[i] = s[i]
    BY <2>1, ConcatProperties
  <2>3. Upto(Len(s \o t))[i] = i
    BY <2>1 DEF Upto
  <2>4. Upto(Len(s))[i] = i
    BY DEF Upto
  <2> QED
    BY <2>2, <2>3, <2>4
<1>5. s = Upto(Len(s))
  BY <1>3, <1>4, SeqEqual
<1> QED
  BY <1>2, <1>5

\* What ReadStdin adds.
LEMMA UptoExtended ==
  ASSUME NEW a \in Nat, NEW m \in Nat, a + m <= InputLen
  PROVE  /\ [k \in 1 .. m |-> a + k] \in Seq(Bytes) /\ Len([k \in 1 .. m |-> a + k]) = m
         /\ Then(Upto(a), [k \in 1 .. m |-> a + k]) = Upto(a + m)
<1> DEFINE r == [k \in 1 .. m |-> a + k]
<1>1. r \in Seq(Bytes) /\ Len(r) = m
  <2>1. r \in [1 .. m -> Bytes]
    BY EchoAssumption DEF Bytes
  <2> QED
    BY <2>1
<1>2. a \in 0 .. InputLen /\ a + m \in 0 .. InputLen
  BY EchoAssumption
<1>3. /\ Upto(a) \in Seq(Bytes) /\ Len(Upto(a)) = a
      /\ Upto(a + m) \in Seq(Bytes) /\ Len(Upto(a + m)) = a + m
  BY <1>2, UptoSeq
<1>4. /\ Upto(a) \o r \in Seq(Bytes) /\ Len(Upto(a) \o r) = a + m
      /\ \A i \in 1 .. a + m : (Upto(a) \o r)[i] = IF i <= a THEN Upto(a)[i] ELSE r[i - a]
  <2> DEFINE u == Upto(a)
  <2>1. u \in Seq(Bytes) /\ Len(u) = a
    BY <1>3
  <2> HIDE DEF r, u
  <2>2. /\ u \o r \in Seq(Bytes) /\ Len(u \o r) = Len(u) + Len(r)
        /\ \A i \in 1 .. Len(u) + Len(r) : (u \o r)[i] = IF i <= Len(u) THEN u[i] ELSE r[i - Len(u)]
    BY <1>1, <2>1, ConcatProperties
  <2>3. /\ u \o r \in Seq(Bytes) /\ Len(u \o r) = a + m
        /\ \A i \in 1 .. a + m : (u \o r)[i] = IF i <= a THEN u[i] ELSE r[i - a]
    BY <1>1, <2>1, <2>2
  <2> QED
    BY <2>3 DEF u
<1>5. ASSUME NEW i \in 1 .. a + m PROVE (Upto(a) \o r)[i] = Upto(a + m)[i]
  <2>1. Upto(a + m)[i] = i
    BY DEF Upto
  <2>2. CASE i <= a
    <3>1. Upto(a)[i] = i
      BY <2>2 DEF Upto
    <3> QED
      BY <1>4, <2>1, <2>2, <3>1
  <2>3. CASE ~(i <= a)
    <3>1. i - a \in 1 .. m
      BY <2>3
    <3>2. r[i - a] = a + (i - a)
      BY <3>1
    <3>3. a + (i - a) = i
      OBVIOUS
    <3> QED
      BY <1>4, <2>1, <2>3, <3>2, <3>3
  <2> QED
    BY <2>2, <2>3
<1>6. Upto(a) \o r = Upto(a + m)
  <2> HIDE DEF r
  <2> QED
    BY <1>3, <1>4, <1>5, SeqEqual
<1> QED
  BY <1>1, <1>6 DEF Then

LEMMA ReadableFacts ==
  ASSUME NEW h \in Int, NEW r \in Int, NEW m \in Readable(h, r)
  PROVE  m \in 1 .. h /\ m \in Nat /\ m >= 1 /\ m <= h /\ m <= r
  BY DEF Readable, Least

-----------------------------------------------------------------------------
(* Types.                                                                  *)

LEMMA TypeStep ==
  ASSUME TypeOK, [Next]_vars
  PROVE  TypeOK'
<1> USE EchoAssumption DEF TypeOK, SrvTypeOK
<1>0. /\ Len(toSrv) \in Nat /\ Len(toCli) \in Nat /\ Len(sbuf) \in Nat /\ Len(buf) \in Nat
      /\ typed \in Nat /\ consumed \in Nat /\ consumed <= typed /\ typed <= InputLen
      /\ typed - consumed \in Nat
  BY LenProperties
<1>1. CASE Type
  BY <1>0, <1>1 DEF Type, srvVars, outs
<1>2. CASE EndInput
  BY <1>2 DEF EndInput, srvVars, outs
<1>3. CASE TakeOutput
  BY <1>3 DEF TakeOutput, srvVars, user
<1>4. CASE Select
  BY <1>4 DEF Select, Watch, srvVars, user, outs
<1>5. CASE ReadSocket
  <2>1. PICK n \in Readable(Len(toCli), MAXLINE) : buf' = First(n, toCli) /\ toCli' = Rest(n, toCli)
    BY <1>5 DEF ReadSocket
  <2>2. n \in 1 .. Len(toCli) /\ n <= MAXLINE
    BY <1>0, ReadableFacts
  <2>3. /\ buf' \in Seq(1 .. InputLen) /\ toCli' \in Seq(1 .. InputLen)
        /\ Len(buf') = n /\ Len(toCli') = Len(toCli) - n
    BY SMTT(30), <2>1, <2>2, Split
  <2>4. Len(buf') <= MAXLINE /\ Len(toCli') <= SendCap
    BY <1>0, <2>2, <2>3
  <2> QED
    BY <1>5, <2>3, <2>4 DEF ReadSocket, user, outs
<1>6. CASE SocketEof
  BY <1>6 DEF SocketEof, EndKind, srvVars, user, outs
<1>7. CASE WriteStdout
  <2>1. PICK n \in Readable(Len(buf), OutCap - outPending) :
          /\ shown' = shown \o First(n, buf)
          /\ outPending' = outPending + n /\ buf' = Rest(n, buf)
    BY <1>7 DEF WriteStdout
  <2>2. n \in 1 .. Len(buf) /\ n \in Nat /\ n <= OutCap - outPending
    BY <1>0, ReadableFacts
  <2>3. /\ First(n, buf) \in Seq(1 .. InputLen) /\ buf' \in Seq(1 .. InputLen)
        /\ Len(buf') = Len(buf) - n
    BY ZenonT(60), <2>1, <2>2, Split
  <2>4. Len(buf') <= MAXLINE /\ outPending' \in 0 .. OutCap
    BY <1>0, <2>1, <2>2, <2>3
  <2>5. shown' \in Seq(1 .. InputLen)
    BY <2>1, <2>3, ConcatProperties
  <2> QED
    BY <1>7, <2>3, <2>4, <2>5 DEF WriteStdout, srvVars, user
<1>8. CASE ReadStdin
  <2>1. PICK n \in Readable(typed - consumed, MAXLINE) :
          buf' = [k \in 1 .. n |-> consumed + k] /\ consumed' = consumed + n
    BY <1>8 DEF ReadStdin
  <2>2. n \in Nat /\ n <= typed - consumed /\ n <= MAXLINE
    BY <1>0, ReadableFacts
  <2>3. consumed' \in 0 .. typed /\ consumed + n <= InputLen
    BY <1>0, <2>1, <2>2
  <2>4. buf' \in Seq(1 .. InputLen) /\ Len(buf') = n
    BY <1>0, <2>1, <2>2, <2>3, UptoExtended DEF Bytes
  <2> QED
    BY <1>8, <2>2, <2>3, <2>4 DEF ReadStdin, srvVars, user, outs
<1>9. CASE StdinEof
  BY <1>9 DEF StdinEof, SendFin, AfterEof, user, outs
<1>10. CASE WriteSocket
  <2>1. PICK n \in Readable(Len(buf), SendCap - Len(toSrv)) :
          toSrv' = toSrv \o First(n, buf) /\ WriteSocketLoop(n)
    BY <1>10 DEF WriteSocket
  <2>2. n \in 1 .. Len(buf) /\ n \in Nat /\ n <= SendCap - Len(toSrv)
    BY <1>0, ReadableFacts
  <2>3. /\ First(n, buf) \in Seq(1 .. InputLen) /\ Len(First(n, buf)) = n
        /\ buf' \in Seq(1 .. InputLen) /\ Len(buf') = Len(buf) - n
    BY ZenonT(60), <2>1, <2>2, Split DEF WriteSocketLoop
  <2>4. toSrv' \in Seq(1 .. InputLen) /\ Len(toSrv') = Len(toSrv) + n
    BY ZenonT(60), <2>1, <2>3, ConcatProperties
  <2>5. Len(buf') <= MAXLINE /\ Len(toSrv') <= SendCap
    BY <1>0, <2>2, <2>3, <2>4
  <2> QED
    BY <1>10, <2>1, <2>3, <2>4, <2>5 DEF WriteSocket, WriteSocketLoop, user, outs
<1>11. CASE SocketError
  BY <1>11 DEF SocketError, srvVars, user, outs
<1>12. CASE SrvRead /\ UNCHANGED clientVars
  <2>1. PICK n \in Readable(Len(toSrv), MAXLINE) : sbuf' = First(n, toSrv) /\ toSrv' = Rest(n, toSrv)
    BY <1>12 DEF SrvRead
  <2>2. n \in 1 .. Len(toSrv) /\ n <= MAXLINE
    BY <1>0, ReadableFacts
  <2>3. /\ sbuf' \in Seq(1 .. InputLen) /\ toSrv' \in Seq(1 .. InputLen)
        /\ Len(sbuf') = n /\ Len(toSrv') = Len(toSrv) - n
    BY SMTT(30), <2>1, <2>2, Split
  <2>4. Len(sbuf') <= MAXLINE /\ Len(toSrv') <= SendCap
    BY <1>0, <2>2, <2>3
  <2> QED
    BY <1>12, <2>3, <2>4 DEF SrvRead, clientVars, user, outs
<1>13. CASE SrvWrite /\ UNCHANGED clientVars
  <2>1. PICK n \in Readable(Len(sbuf), SendCap - Len(toCli)) :
          /\ toCli' = toCli \o First(n, sbuf) /\ sbuf' = Rest(n, sbuf)
          /\ spc' = IF sbuf' = <<>> THEN "read" ELSE "write"
    BY <1>13 DEF SrvWrite
  <2>2. n \in 1 .. Len(sbuf) /\ n \in Nat /\ n <= SendCap - Len(toCli)
    BY <1>0, ReadableFacts
  <2>3. /\ First(n, sbuf) \in Seq(1 .. InputLen) /\ Len(First(n, sbuf)) = n
        /\ sbuf' \in Seq(1 .. InputLen) /\ Len(sbuf') = Len(sbuf) - n
    BY ZenonT(60), <2>1, <2>2, Split
  <2>4. toCli' \in Seq(1 .. InputLen) /\ Len(toCli') = Len(toCli) + n
    BY ZenonT(60), <2>1, <2>3, ConcatProperties
  <2>5. Len(sbuf') <= MAXLINE /\ Len(toCli') <= SendCap
    BY <1>0, <2>2, <2>3, <2>4
  <2> QED
    BY <1>13, <2>1, <2>3, <2>4, <2>5 DEF SrvWrite, clientVars, user, outs
<1>14. CASE SrvExit /\ UNCHANGED clientVars
  BY <1>14 DEF SrvExit, clientVars, user, outs
<1>15. CASE ServerDies
  BY <1>15 DEF ServerDies, SrvKilled, clientVars, user, outs
<1>16. CASE UNCHANGED vars
  BY <1>16 DEF vars, srvVars, clientVars, user, outs
<1> QED
  BY <1>1, <1>2, <1>3, <1>4, <1>5, <1>6, <1>7, <1>8, <1>9, <1>10, <1>11, <1>12, <1>13,
     <1>14, <1>15, <1>16 DEF Next, ClientStep, ServerStep, SrvStep

-----------------------------------------------------------------------------
(* The ends of the two directions.                                         *)

LEMMA EndsStep ==
  ASSUME IInv, [Next]_vars
  PROVE  Ends'
<1>0. TypeOK /\ Ends
  BY DEF IInv
<1> USE DEF TypeOK, SrvTypeOK, Ends
<1>1. CASE Type
  BY <1>0, <1>1 DEF Type, srvVars, outs
<1>2. CASE EndInput
  BY <1>0, <1>2 DEF EndInput, srvVars, outs
<1>3. CASE TakeOutput
  BY <1>0, <1>3 DEF TakeOutput, srvVars, user
<1>4. CASE Select
  BY <1>0, <1>4 DEF Select, Watch, srvVars, user, outs
<1>5. CASE ReadSocket
  BY <1>0, <1>5 DEF ReadSocket, user, outs
<1>6. CASE SocketEof
  BY <1>0, <1>6 DEF SocketEof, EndKind, srvVars, user, outs
<1>7. CASE WriteStdout
  BY <1>0, <1>7 DEF WriteStdout, srvVars, user
<1>8. CASE ReadStdin
  BY <1>0, <1>8 DEF ReadStdin, srvVars, user, outs
<1>9. CASE StdinEof
  BY <1>0, <1>9 DEF StdinEof, SendFin, AfterEof, user, outs
<1>10. CASE WriteSocket
  BY <1>0, <1>10 DEF WriteSocket, WriteSocketLoop, user, outs
<1>11. CASE SocketError
  BY <1>0, <1>11 DEF SocketError, srvVars, user, outs
<1>12. CASE SrvRead /\ UNCHANGED clientVars
  BY <1>0, <1>12 DEF SrvRead, clientVars, user, outs
<1>13. CASE SrvWrite /\ UNCHANGED clientVars
  BY <1>0, <1>13 DEF SrvWrite, clientVars, user, outs
<1>14. CASE SrvExit /\ UNCHANGED clientVars
  BY <1>0, <1>14 DEF SrvExit, clientVars, user, outs
<1>15. CASE ServerDies
  BY <1>0, <1>15 DEF ServerDies, SrvKilled, clientVars, user, outs
<1>16. CASE UNCHANGED vars
  BY <1>0, <1>16 DEF vars, srvVars, clientVars, user, outs
<1> QED
  BY <1>1, <1>2, <1>3, <1>4, <1>5, <1>6, <1>7, <1>8, <1>9, <1>10, <1>11, <1>12, <1>13,
     <1>14, <1>15, <1>16 DEF Next, ClientStep, ServerStep, SrvStep

-----------------------------------------------------------------------------
(* The bytes.                                                              *)

LEMMA Typed ==
  ASSUME TypeOK
  PROVE  /\ shown \in Seq(Bytes) /\ OutBuf \in Seq(Bytes) /\ toCli \in Seq(Bytes)
         /\ sbuf \in Seq(Bytes) /\ toSrv \in Seq(Bytes) /\ InBuf \in Seq(Bytes)
         /\ buf \in Seq(Bytes) /\ <<>> \in Seq(Bytes)
         /\ Then(shown, OutBuf) \in Seq(Bytes) /\ Coming \in Seq(Bytes)
         /\ Then(Coming, sbuf) \in Seq(Bytes) /\ Then(Then(Coming, sbuf), toSrv) \in Seq(Bytes)
         /\ Stream \in Seq(Bytes)
         /\ Len(toCli) \in Nat /\ Len(sbuf) \in Nat /\ Len(toSrv) \in Nat /\ Len(buf) \in Nat
         /\ typed \in Nat /\ consumed \in Nat /\ consumed <= typed /\ typed <= InputLen
<1>1. /\ shown \in Seq(Bytes) /\ toCli \in Seq(Bytes) /\ buf \in Seq(Bytes)
      /\ sbuf \in Seq(Bytes) /\ toSrv \in Seq(Bytes) /\ <<>> \in Seq(Bytes)
  BY DEF TypeOK, SrvTypeOK, Bytes
<1>2. OutBuf \in Seq(Bytes) /\ InBuf \in Seq(Bytes)
  BY <1>1 DEF OutBuf, InBuf
<1>3. Then(shown, OutBuf) \in Seq(Bytes)
  BY <1>1, <1>2, ThenFacts
<1>4. Coming \in Seq(Bytes)
  BY <1>1, <1>3, ThenFacts DEF Coming
<1>5. Then(Coming, sbuf) \in Seq(Bytes)
  BY <1>1, <1>4, ThenFacts
<1>6. Then(Then(Coming, sbuf), toSrv) \in Seq(Bytes)
  BY <1>1, <1>5, ThenFacts
<1>7. Stream \in Seq(Bytes)
  BY <1>2, <1>6, ThenFacts DEF Stream
<1>8. Len(toCli) \in Nat /\ Len(sbuf) \in Nat /\ Len(toSrv) \in Nat /\ Len(buf) \in Nat
  BY <1>1, LenProperties
<1>9. typed \in Nat /\ consumed \in Nat /\ consumed <= typed /\ typed <= InputLen
  BY EchoAssumption DEF TypeOK
<1> QED
  BY <1>1, <1>2, <1>3, <1>4, <1>5, <1>6, <1>7, <1>8, <1>9

\* A step that moves bytes along, or none, keeps the order of all of them.
LEMMA Unmoved ==
  ASSUME Whole, Prefix, consumed' = consumed, Coming' = Coming,
         spc' # "killed" => spc # "killed" /\ Stream' = Stream
  PROVE  Whole' /\ Prefix'
  BY DEF Whole, Prefix

\* What the user has been shown is a beginning of what the user typed.
LEMMA Beginning ==
  ASSUME NEW s \in Seq(Bytes), NEW t \in Seq(Bytes), NEW u \in Seq(Bytes), NEW a \in Nat,
         a <= InputLen, Len(Then(Then(s, t), u)) <= a,
         Then(Then(s, t), u) = Upto(Len(Then(Then(s, t), u)))
  PROVE  s = Upto(Len(s)) /\ Len(s) <= a /\ Len(s) \in Nat
<1> DEFINE st == Then(s, t)
<1>1. st \in Seq(Bytes) /\ Len(st) \in Nat /\ Len(s) \in Nat /\ Len(u) \in Nat /\ Len(t) \in Nat
  BY ThenFacts, LenProperties
<1>2. Len(Then(st, u)) = Len(st) + Len(u) /\ Len(st) = Len(s) + Len(t)
  BY <1>1, ThenFacts
<1>3. InputLen \in Nat
  BY EchoAssumption
<1>4. Len(Then(st, u)) <= InputLen /\ Len(st) <= a /\ Len(s) <= a /\ Len(st) <= InputLen
  <2> HIDE DEF st
  <2>1. Len(Then(st, u)) <= a
    BY DEF st
  <2> QED
    BY <1>1, <1>2, <1>3, <2>1
<1>5. st = Upto(Len(st))
  <2>1. Then(st, u) = Upto(Len(Then(st, u)))
    OBVIOUS
  <2> HIDE DEF st
  <2> QED
    BY <1>1, <1>4, <2>1, PrefixOfUpto
<1>6. s = Upto(Len(s))
  BY <1>4, <1>5, PrefixOfUpto
<1> QED
  BY <1>1, <1>4, <1>6

LEMMA StreamStep ==
  ASSUME IInv, [Next]_vars
  PROVE  Whole' /\ Prefix'
<1>0. TypeOK /\ Whole /\ Prefix /\ Ends
  BY DEF IInv
<1>t. TypeOK'
  BY <1>0, TypeStep
<1> DEFINE Held == <<shown, OutBuf, toCli, sbuf, toSrv, InBuf>>
<1>a. ASSUME Held' = Held, consumed' = consumed, spc' = spc
      PROVE  Whole' /\ Prefix'
  BY <1>0, <1>a, Unmoved DEF Coming, Stream
<1>1. CASE Type \/ EndInput \/ TakeOutput
  BY <1>1, <1>a DEF Type, EndInput, TakeOutput, srvVars, user, outs, OutBuf, InBuf
<1>2. CASE Select
  <2>1. cpc' \in {"sockread", "stdin"} /\ cpc = "select"
    BY <1>2 DEF Select
  <2> QED
    BY <1>2, <2>1, <1>a DEF Select, srvVars, outs, OutBuf, InBuf
<1>3. CASE SocketEof \/ SocketError \/ StdinEof
  <2>1. cpc' \in {"return", "premature", "error", "select"} /\ cpc # "write"
    BY <1>3 DEF SocketEof, EndKind, SocketError, StdinEof, AfterEof
  <2>2. UNCHANGED <<shown, buf, toCli, sbuf, toSrv, spc, consumed>>
    BY <1>3 DEF SocketEof, SocketError, StdinEof, srvVars, outs
  <2>3. CASE cpc # "writen"
    BY <2>1, <2>2, <2>3, <1>a DEF OutBuf, InBuf
  <2>4. CASE cpc = "writen"
    <3>1. spc = "killed" /\ spc' = "killed"
      BY <1>3, <2>2, <2>4 DEF SocketEof, SocketError, StdinEof, Reset
    <3>2. Coming' = Coming
      BY <2>1, <2>2 DEF Coming, OutBuf
    <3> QED
      BY <1>0, <2>2, <3>1, <3>2, Unmoved
  <2> QED
    BY <2>3, <2>4
<1>4. CASE ReadSocket
  <2>1. PICK n \in Readable(Len(toCli), MAXLINE) : buf' = First(n, toCli) /\ toCli' = Rest(n, toCli)
    BY <1>4 DEF ReadSocket
  <2>2. n \in 1 .. Len(toCli)
    BY <1>0, Typed, EchoAssumption, ReadableFacts
  <2>3. /\ OutBuf = <<>> /\ OutBuf' = First(n, toCli) /\ InBuf = <<>> /\ InBuf' = <<>>
        /\ shown' = shown /\ sbuf' = sbuf /\ toSrv' = toSrv /\ spc' = spc /\ consumed' = consumed
    BY <1>4, <2>1 DEF ReadSocket, OutBuf, InBuf, outs
  <2>4. Then(shown, <<>>) = shown
    BY <1>0, Typed, ThenFacts
  <2>5. Then(Then(shown, First(n, toCli)), Rest(n, toCli)) = Then(shown, toCli)
    BY SMTT(30), <1>0, <2>2, Typed, Moved
  <2>6. Coming' = Coming
    BY <2>1, <2>3, <2>4, <2>5 DEF Coming
  <2> QED
    BY <1>0, <2>3, <2>6, Unmoved DEF Stream
<1>5. CASE WriteStdout
  <2>1. PICK n \in Readable(Len(buf), OutCap - outPending) :
          shown' = Then(shown, First(n, buf)) /\ buf' = Rest(n, buf)
    BY <1>5 DEF WriteStdout, Then
  <2>2. n \in 1 .. Len(buf)
    <3>1. Len(buf) \in Int /\ OutCap - outPending \in Int
      BY <1>0, Typed, EchoAssumption DEF TypeOK
    <3> QED
      BY <3>1, ReadableFacts
  <2>3. /\ OutBuf = buf /\ OutBuf' = Rest(n, buf) /\ InBuf = <<>> /\ InBuf' = <<>>
        /\ toCli' = toCli /\ sbuf' = sbuf /\ toSrv' = toSrv /\ spc' = spc /\ consumed' = consumed
    BY <1>5, <2>1 DEF WriteStdout, OutBuf, InBuf, srvVars
  <2>4. Then(Then(shown, First(n, buf)), Rest(n, buf)) = Then(shown, buf)
    BY SMTT(30), <1>0, <2>2, Typed, Moved
  <2>5. Coming' = Coming
    BY <2>1, <2>3, <2>4 DEF Coming
  <2> QED
    BY <1>0, <2>3, <2>5, Unmoved DEF Stream
<1>6. CASE ReadStdin
  <2>1. PICK n \in Readable(typed - consumed, MAXLINE) :
          buf' = [k \in 1 .. n |-> consumed + k] /\ consumed' = consumed + n
    BY <1>6 DEF ReadStdin
  <2>2. n \in Nat /\ n <= typed - consumed
    <3>1. typed - consumed \in Int /\ MAXLINE \in Int
      BY SMTT(30), <1>0, Typed, EchoAssumption
    <3> QED
      BY <3>1, ReadableFacts
  <2>3. consumed + n <= InputLen
    BY SMTT(30), <1>0, <2>2, Typed, EchoAssumption
  <2>4. Then(Upto(consumed), buf') = Upto(consumed')
    BY <1>0, <2>1, <2>2, <2>3, Typed, UptoExtended
  <2>5. /\ OutBuf = <<>> /\ OutBuf' = <<>> /\ InBuf = <<>> /\ InBuf' = buf' /\ shown' = shown
        /\ toCli' = toCli /\ sbuf' = sbuf /\ toSrv' = toSrv /\ spc' = spc
    BY <1>6 DEF ReadStdin, OutBuf, InBuf, srvVars, outs
  <2>6. Coming' = Coming
    BY <2>5 DEF Coming
  <2>7. Prefix'
    <3>1. Len(Coming) \in Nat
      BY <1>0, Typed, LenProperties
    <3>2. Len(Coming) <= consumed'
      BY SMTT(30), <1>0, <2>1, <2>2, <3>1, Typed DEF Prefix
    <3> QED
      BY <1>0, <2>6, <3>2 DEF Prefix
  <2>8. Stream = Then(Then(Coming, sbuf), toSrv)
    BY <1>0, <2>5, Typed, ThenFacts DEF Stream
  <2>9. Stream' = Then(Stream, buf')
    BY <2>5, <2>6, <2>8 DEF Stream
  <2> QED
    BY <1>0, <2>4, <2>5, <2>7, <2>9 DEF Whole
<1>7. CASE WriteSocket
  <2>1. PICK n \in Readable(Len(buf), SendCap - Len(toSrv)) :
          toSrv' = Then(toSrv, First(n, buf)) /\ WriteSocketLoop(n)
    BY <1>7 DEF WriteSocket, Then
  <2>2. n \in 1 .. Len(buf)
    <3>1. Len(buf) \in Int /\ SendCap - Len(toSrv) \in Int
      BY <1>0, Typed, EchoAssumption
    <3> QED
      BY <3>1, ReadableFacts
  <2>3. /\ OutBuf = <<>> /\ OutBuf' = <<>> /\ InBuf = buf /\ InBuf' = Rest(n, buf)
        /\ shown' = shown /\ toCli' = toCli /\ sbuf' = sbuf /\ spc' = spc /\ consumed' = consumed
    BY <1>7, <2>1 DEF WriteSocket, WriteSocketLoop, OutBuf, InBuf, outs
  <2>4. Coming' = Coming
    BY <2>3 DEF Coming
  <2>5. Then(Then(Then(Coming, sbuf), Then(toSrv, First(n, buf))), Rest(n, buf))
          = Then(Then(Then(Coming, sbuf), toSrv), buf)
    BY SMTT(30), <1>0, <2>2, Typed, Moved
  <2>6. Stream' = Stream
    BY <2>1, <2>3, <2>4, <2>5 DEF Stream
  <2> QED
    BY <1>0, <2>3, <2>4, <2>6, Unmoved
<1>8. CASE SrvRead /\ UNCHANGED clientVars
  <2>1. PICK n \in Readable(Len(toSrv), MAXLINE) : sbuf' = First(n, toSrv) /\ toSrv' = Rest(n, toSrv)
    BY <1>8 DEF SrvRead
  <2>2. n \in 1 .. Len(toSrv)
    BY <1>0, Typed, EchoAssumption, ReadableFacts
  <2>3. /\ OutBuf' = OutBuf /\ InBuf' = InBuf /\ sbuf = <<>> /\ spc = "read" /\ spc' = "write"
        /\ shown' = shown /\ toCli' = toCli /\ consumed' = consumed
    BY <1>0, <1>8 DEF SrvRead, clientVars, outs, OutBuf, InBuf, Ends
  <2>4. Coming' = Coming
    BY <2>3 DEF Coming
  <2>5. Then(Coming, <<>>) = Coming
    BY <1>0, Typed, ThenFacts
  <2>6. Then(Then(Coming, First(n, toSrv)), Rest(n, toSrv)) = Then(Coming, toSrv)
    BY SMTT(30), <1>0, <2>2, Typed, Moved
  <2>7. Stream' = Stream
    BY <2>1, <2>3, <2>4, <2>5, <2>6 DEF Stream
  <2> QED
    BY <1>0, <2>3, <2>4, <2>7, Unmoved
<1>9. CASE SrvWrite /\ UNCHANGED clientVars
  <2>1. PICK n \in Readable(Len(sbuf), SendCap - Len(toCli)) :
          toCli' = Then(toCli, First(n, sbuf)) /\ sbuf' = Rest(n, sbuf)
    BY <1>9 DEF SrvWrite, Then
  <2>2. n \in 1 .. Len(sbuf)
    <3>1. Len(sbuf) \in Int /\ SendCap - Len(toCli) \in Int
      BY <1>0, Typed, EchoAssumption
    <3> QED
      BY <3>1, ReadableFacts
  <2>3. /\ OutBuf' = OutBuf /\ InBuf' = InBuf /\ spc = "write" /\ toSrv' = toSrv
        /\ shown' = shown /\ consumed' = consumed
    BY <1>9 DEF SrvWrite, clientVars, outs, OutBuf, InBuf
  <2>4. Then(Then(Then(shown, OutBuf), Then(toCli, First(n, sbuf))), Rest(n, sbuf))
          = Then(Then(Then(shown, OutBuf), toCli), sbuf)
    BY SMTT(30), <1>0, <2>2, Typed, Moved
  <2>5. Then(Coming', sbuf') = Then(Coming, sbuf)
    BY <2>1, <2>3, <2>4 DEF Coming
  <2>6. Stream' = Stream
    BY <2>3, <2>5 DEF Stream
  <2>7. Stream' = Upto(consumed')
    BY <1>0, <2>3, <2>6 DEF Whole
  <2>8. /\ Coming' \in Seq(Bytes) /\ sbuf' \in Seq(Bytes) /\ toSrv' \in Seq(Bytes)
        /\ InBuf' \in Seq(Bytes) /\ Then(Coming', sbuf') \in Seq(Bytes)
        /\ consumed' \in Nat /\ consumed' <= InputLen
    <3>1. OutBuf' \in Seq(Bytes) /\ InBuf' \in Seq(Bytes) /\ shown' \in Seq(Bytes) /\ toCli' \in Seq(Bytes)
          /\ sbuf' \in Seq(Bytes) /\ toSrv' \in Seq(Bytes)
      BY <1>0, <1>t, <2>3, Typed DEF TypeOK, SrvTypeOK, Bytes
    <3>2. Then(shown', OutBuf') \in Seq(Bytes)
      BY <3>1, ThenFacts
    <3>3. Coming' \in Seq(Bytes)
      BY <3>1, <3>2, ThenFacts DEF Coming
    <3>4. Then(Coming', sbuf') \in Seq(Bytes)
      BY <1>0, <2>5, Typed
    <3>5. consumed' \in Nat /\ consumed' <= InputLen
      BY <1>0, <2>3, Typed, EchoAssumption
    <3> QED
      BY <3>1, <3>3, <3>4, <3>5
  <2>9. Then(Then(Coming', sbuf'), Then(toSrv', InBuf')) = Stream'
    BY <2>8, ThenAssociative DEF Stream
  <2>10. Len(Upto(consumed')) = consumed'
    BY <2>8, UptoSeq
  <2>11. Coming' = Upto(Len(Coming')) /\ Len(Coming') <= consumed'
    <3> DEFINE c == Coming'  b == sbuf'  d == Then(toSrv', InBuf')  e == consumed'
    <3>1. d \in Seq(Bytes)
      BY <2>8, ThenFacts
    <3>2. /\ c \in Seq(Bytes) /\ b \in Seq(Bytes) /\ e \in Nat /\ e <= InputLen
          /\ Len(Then(Then(c, b), d)) = e /\ Then(Then(c, b), d) = Upto(e)
      BY <2>7, <2>8, <2>9, <2>10
    <3>3. c = Upto(Len(c)) /\ Len(c) <= e
      <4> HIDE DEF b, c, d, e
      <4> QED
        BY <3>1, <3>2, Beginning
    <3> QED
      BY <3>3
  <2> QED
    BY <2>7, <2>11 DEF Whole, Prefix
<1>10. CASE SrvExit /\ UNCHANGED clientVars
  <2>1. Held' = Held /\ consumed' = consumed /\ spc # "killed"
    BY <1>10 DEF SrvExit, clientVars, outs, OutBuf, InBuf
  <2> QED
    BY <1>0, <2>1, Unmoved DEF Coming, Stream
<1>11. CASE ServerDies
  <2>1. UNCHANGED <<shown, OutBuf, toCli>> /\ consumed' = consumed /\ spc' = "killed"
    BY <1>11 DEF ServerDies, SrvKilled, clientVars, outs, OutBuf
  <2> QED
    BY <1>0, <2>1, Unmoved DEF Coming
<1>12. CASE UNCHANGED vars
  BY <1>12, <1>a DEF vars, srvVars, clientVars, outs, OutBuf, InBuf
<1> QED
  BY <1>1, <1>2, <1>3, <1>4, <1>5, <1>6, <1>7, <1>8, <1>9, <1>10, <1>11, <1>12
     DEF Next, ClientStep, ServerStep, SrvStep

-----------------------------------------------------------------------------
(* The theorems.                                                           *)

LEMMA InitInv == Init => IInv
<1> SUFFICES ASSUME Init PROVE IInv
  OBVIOUS
<1> USE EchoAssumption DEF Init, SrvInit
<1>0. <<>> \in Seq(1 .. InputLen) /\ Len(<<>>) <= SendCap /\ Len(<<>>) <= MAXLINE
  OBVIOUS
<1>1. TypeOK
  <2>1. SrvTypeOK
    BY <1>0, Zenon DEF SrvTypeOK
  <2>2. buf \in Seq(1 .. InputLen) /\ Len(buf) <= MAXLINE /\ shown \in Seq(1 .. InputLen)
    BY <1>0, Zenon
  <2>3. typed \in 0 .. InputLen /\ consumed \in 0 .. typed /\ outPending \in 0 .. OutCap
    OBVIOUS
  <2> QED
    BY <2>1, <2>2, <2>3, Zenon DEF TypeOK
<1>2. Ends
  BY DEF Ends
<1>3. /\ OutBuf = <<>> /\ InBuf = <<>> /\ <<>> \in Seq(Bytes)
      /\ Then(<<>>, <<>>) = <<>>
  BY DEF OutBuf, InBuf, Then
<1>4. Coming = <<>> /\ Stream = <<>>
  BY <1>3 DEF Coming, Stream
<1>5. Upto(0) = <<>>
  BY DEF Upto
<1>6. Whole /\ Prefix
  BY <1>4, <1>5 DEF Whole, Prefix
<1> QED
  BY <1>1, <1>2, <1>6 DEF IInv

LEMMA InvStep == IInv /\ [Next]_vars => IInv'
  BY TypeStep, EndsStep, StreamStep DEF IInv

\* The inductive invariant: the types, the account of all bytes while the
\* server lives, the account of those on their way to standard output also
\* when it is dead, and the order in which the two directions are closed.
THEOREM Inductive == Spec => []IInv
  BY InitInv, InvStep, PTL DEF Spec

\* No buffer is ever fuller than its size, on either side.
THEOREM TypeCorrect == Spec => []TypeOK
<1>1. IInv => TypeOK
  BY DEF IInv
<1> QED
  BY <1>1, Inductive, PTL

LEMMA NoneLost == IInv => NothingLost
  BY DEF IInv, Whole, Stream, Coming, OutBuf, InBuf, Then, Upto, NothingLost

\* Every byte read from stdin is on stdout, in the client's buffer, in flight
\* or in the server, once and in order, however read() and write() split the
\* stream and however small the buffers are.
THEOREM Lossless == Spec => []NothingLost
  BY NoneLost, Inductive, PTL

\* What is shown is a beginning of what was typed.
ShownOK == shown = Upto(Len(shown)) /\ Len(shown) <= typed /\ Len(shown) \in Nat

LEMMA ShownBegins == IInv => ShownOK
<1> SUFFICES ASSUME IInv PROVE ShownOK
  OBVIOUS
<1>1. /\ shown \in Seq(Bytes) /\ OutBuf \in Seq(Bytes) /\ toCli \in Seq(Bytes)
      /\ consumed \in Nat /\ consumed <= typed /\ typed <= InputLen /\ typed \in Nat
  BY Typed DEF IInv
<1>2. consumed <= InputLen
  BY <1>1, EchoAssumption
<1>3. shown = Upto(Len(shown)) /\ Len(shown) <= consumed /\ Len(shown) \in Nat
  BY <1>1, <1>2, Beginning DEF IInv, Prefix, Coming
<1> QED
  BY <1>1, <1>3 DEF ShownOK

\* When the server has finished and everything it sent is read, all is shown.
LEMMA AllShown ==
  ASSUME IInv, cpc = "sockread", toCli = <<>>, spc = "exit"
  PROVE  stdineof /\ ended /\ Len(shown) = typed
<1>1. stdineof /\ ended /\ consumed = typed /\ toSrv = <<>> /\ sbuf = <<>>
  BY DEF IInv, Ends
<1>2. OutBuf = <<>> /\ InBuf = <<>>
  BY DEF OutBuf, InBuf
<1>3. shown \in Seq(Bytes) /\ Then(shown, <<>>) = shown /\ consumed \in 0 .. InputLen
  <2>1. shown \in Seq(Bytes) /\ consumed \in Nat /\ consumed <= typed /\ typed <= InputLen /\ typed \in Nat
    BY Typed DEF IInv
  <2>2. Then(shown, <<>>) = shown
    BY <2>1, ThenFacts
  <2> QED
    BY <2>1, <2>2, EchoAssumption
<1>4. Stream = shown
  BY <1>1, <1>2, <1>3 DEF Stream, Coming
<1>5. shown = Upto(consumed)
  BY <1>4 DEF IInv, Whole
<1> QED
  BY <1>1, <1>3, <1>5, UptoSeq

\* Every step of the client is one of the service, or none.
LEMMA ImplementsStep == IInv /\ IInv' /\ [Next]_vars => [Service!Next]_(Service!vars)
<1> SUFFICES ASSUME IInv, IInv', [Next]_vars PROVE [Service!Next]_(Service!vars)
  OBVIOUS
<1> USE DEF Service!vars
<1>0. TypeOK /\ Ends
  BY DEF IInv
<1>1. CASE Type
  BY <1>1 DEF Type, srvVars, outs, Service!Next, Service!Type
<1>2. CASE EndInput
  BY <1>2 DEF EndInput, srvVars, outs, Service!Next, Service!End
<1>3. CASE TakeOutput
  BY <1>3 DEF TakeOutput, srvVars, user
<1>4. CASE Select
  BY <1>4 DEF Select, srvVars, user, outs
<1>5. CASE ReadSocket \/ ReadStdin \/ StdinEof
  BY <1>5 DEF ReadSocket, ReadStdin, StdinEof, AfterEof, srvVars, user, outs
<1>6. CASE WriteSocket
  BY <1>6 DEF WriteSocket, WriteSocketLoop, user, outs
<1>7. CASE SocketEof
  <2>1. finCli /\ cpc = "sockread" /\ toCli = <<>> /\ spc \in {"exit", "killed"}
    BY <1>0, <1>7 DEF SocketEof, Ends
  <2>2. UNCHANGED <<typed, ended, shown, spc>>
    BY <1>7 DEF SocketEof, srvVars, user, outs
  <2>3. CASE stdineof
    <3>1. cpc' = "return" /\ ended
      BY <1>0, <1>7, <2>3 DEF SocketEof, EndKind, Ends
    <3>2. Len(shown) = typed \/ spc = "killed"
      BY <2>1, AllShown
    <3> QED
      BY <2>1, <2>2, <3>1, <3>2 DEF Service!Next, Service!Return
  <2>4. CASE ~stdineof
    <3>1. cpc' = "premature" /\ spc = "killed"
      BY <1>7, <2>1, <2>4, AllShown DEF SocketEof, EndKind
    <3> QED
      BY <2>1, <2>2, <3>1 DEF Service!Next, Service!GiveUp
  <2> QED
    BY <2>3, <2>4
<1>8. CASE SocketError
  <2>1. /\ spc = "killed" /\ cpc \in {"sockread", "writen", "stdin"} /\ cpc' = "error"
        /\ UNCHANGED <<typed, ended, shown, spc>>
    BY <1>8 DEF SocketError, Reset, srvVars, user, outs
  <2> QED
    BY <2>1 DEF Service!Next, Service!GiveUp
<1>9. CASE WriteStdout
  <2>1. /\ cpc = "write" /\ cpc' \in {"write", "stdin", "select"}
        /\ UNCHANGED <<typed, ended, spc>>
    BY <1>9 DEF WriteStdout, srvVars, user
  <2>2. PICK n \in Readable(Len(buf), OutCap - outPending) : shown' = Then(shown, First(n, buf))
    BY <1>9 DEF WriteStdout, Then
  <2>3. n \in 1 .. Len(buf) /\ n \in Nat /\ n >= 1
    <3>1. Len(buf) \in Int /\ OutCap - outPending \in Int
      BY <1>0, Typed, EchoAssumption DEF TypeOK
    <3> QED
      BY <3>1, ReadableFacts
  <2>4. Len(First(n, buf)) = n /\ First(n, buf) \in Seq(Bytes)
    BY <1>0, <2>3, Typed, Split
  <2>5. Len(shown') = Len(shown) + n
    <3>1. shown \in Seq(Bytes)
      BY <1>0, Typed
    <3>2. Len(Then(shown, First(n, buf))) = Len(shown) + Len(First(n, buf))
      BY <2>4, <3>1, ThenFacts
    <3> QED
      BY <2>2, <2>4, <3>2, Zenon
  <2>6. Len(shown) \in Nat
    BY ShownBegins DEF ShownOK
  <2>7. shown' = Upto(Len(shown')) /\ Len(shown') <= typed' /\ Len(shown') \in Nat
    <3>1. ShownOK'
      BY ShownBegins, PTL
    <3> QED
      BY <3>1, Zenon DEF ShownOK
  <2>8. typed \in Nat
    BY <1>0, Typed
  <2>9. Len(shown') \in Len(shown) + 1 .. typed
    BY <2>1, <2>3, <2>5, <2>6, <2>7, <2>8
  <2> QED
    BY <2>1, <2>7, <2>9 DEF Upto, Service!Next, Service!Show
<1>10. CASE ServerStep
  BY <1>10 DEF ServerStep, SrvStep, SrvRead, SrvWrite, SrvExit, clientVars, user, outs
<1>11. CASE ServerDies
  BY <1>11 DEF ServerDies, SrvKilled, clientVars, user, outs, Service!Next, Service!ServerDies
<1>12. CASE UNCHANGED vars
  BY <1>12 DEF vars, srvVars, clientVars, user, outs
<1> QED
  BY <1>1, <1>2, <1>3, <1>4, <1>5, <1>6, <1>7, <1>8, <1>9, <1>10, <1>11, <1>12
     DEF Next, ClientStep

\* The client implements the echo service: what it shows is always a beginning
\* of what was typed; it returns normally only when everything has been shown
\* or the server died, and gives up only when the server died.  Without the
\* shutdown of one half (and the reading on after it) this would be false.
THEOREM Implements == Spec => ImplementsService
<1>1. Init => Service!Init
  BY DEF Init, SrvInit, Service!Init
<1> QED
  BY <1>1, ImplementsStep, Inductive, PTL DEF Spec, ImplementsService, Service!Spec

-----------------------------------------------------------------------------
(* MyOpen.                                                                 *)

\* A child that runs has said nothing yet and is waited for; where it has the
\* file, open() succeeded, and behind write_fd the descriptor is in the pair.
Child ==
  /\ opc \in {"exec", "open", "write_fd", "exit"} =>
       status = 0 /\ cause = "none" /\ mpc = "waitpid"
  /\ opc \in {"write_fd", "exit"} => openErr = 0
  /\ opc = "exit" => pair

\* The exit status of a child is 0 exactly when the descriptor was passed.
Status ==
  opc = "exited" =>
    /\ cause = "exec" => status = M!ErrSys
    /\ cause = "open" => status = openErr
    /\ cause = "write_fd" => status = passErr
    /\ cause = "none" <=> status = 0
    /\ cause = "none" => openErr = 0 /\ (mpc \in {"waitpid", "read_fd"} => pair)

\* What the parent has made of it.
Parent ==
  /\ mpc \in {"read_fd", "cat", "done"} => opc = "exited" /\ status = 0
  /\ mpc \in {"cat", "done"} => fd = M!TheFile
  /\ mpc = "failed" => opc = "exited" /\ status # 0 /\ errno = status

MInv == M!TypeOK /\ Child /\ Status /\ Parent

LEMMA MyOpenInv ==
  ASSUME FileLen \in Nat
  PROVE  M!Spec => []MInv
<1> USE DEF M!ErrSys, M!TheFile, M!Unset
<1>1. M!Init => MInv
  <2> SUFFICES ASSUME M!Init PROVE MInv
    OBVIOUS
  <2> USE DEF M!Init
  <2>1. pair \in BOOLEAN
    BY Zenon
  <2>2. {openErr, passErr, status, errno} \subseteq Errnos \cup {0, 1} /\ copied \in 0 .. FileLen
    OBVIOUS
  <2>3. M!TypeOK
    BY <2>1, <2>2 DEF M!TypeOK
  <2> QED
    BY <2>3 DEF MInv, Child, Status, Parent
<1>2. MInv /\ [M!Next]_(M!vars) => MInv'
  <2>0. SUFFICES ASSUME MInv, [M!Next]_(M!vars) PROVE MInv'
    OBVIOUS
  <2> USE DEF MInv, M!TypeOK, Child, Status, Parent, M!file, M!child, M!parent
  <2>1. CASE M!Exec
    BY <2>0, <2>1 DEF M!Exec, M!Exit
  <2>2. CASE M!Open
    BY <2>0, <2>2 DEF M!Open, M!Exit
  <2>3. CASE M!WriteFd
    <3>1. pair' \in BOOLEAN
      BY <2>0, <2>3 DEF M!WriteFd
    <3>2. CASE passErr = 0
      <4>0. pair'
        <5>1. pair' = (passErr = 0)
          BY <2>3 DEF M!WriteFd
        <5> QED
          BY <3>2, <5>1
      <4>1. pair' /\ opc' = "exit" /\ UNCHANGED <<status, cause, M!file, M!parent>>
        BY <2>3, <3>2, <4>0 DEF M!WriteFd
      <4> QED
        BY <2>0, <2>3, <3>1, <4>1 DEF M!WriteFd
    <3>3. CASE passErr # 0
      <4>1. /\ status' = passErr /\ cause' = "write_fd" /\ opc' = "exited"
            /\ UNCHANGED <<M!file, M!parent>>
        BY <2>0, <2>3, <3>3 DEF M!WriteFd, M!Exit, M!PassStatus
      <4> QED
        BY <2>0, <2>3, <3>1, <3>3, <4>1 DEF M!WriteFd
    <3> QED
      BY <3>2, <3>3
  <2>4. CASE M!ExitWell
    BY <2>0, <2>4 DEF M!ExitWell, M!Exit
  <2>5. CASE M!Killed
    BY <2>0, <2>5 DEF M!Killed
  <2>6. CASE M!Waitpid
    BY <2>0, <2>6 DEF M!Waitpid
  <2>7. CASE M!ReadFd
    <3>0. mpc = "read_fd" /\ opc = "exited" /\ status = 0 /\ cause = "none"
      BY <2>0, <2>7 DEF M!ReadFd
    <3>1. mpc = "read_fd" /\ opc = "exited" /\ status = 0 /\ cause = "none" /\ pair
      BY <2>0, <3>0
    <3>2. fd' = 3 /\ mpc' = "cat" /\ UNCHANGED <<M!file, opc, status, cause, errno, copied>>
      BY <2>0, <2>7, <3>1 DEF M!ReadFd
    <3>3. pair' \in BOOLEAN
      <4>1. pair' = FALSE
        BY <2>7 DEF M!ReadFd
      <4> QED
        BY <4>1
    <3> QED
      BY <2>0, <3>1, <3>2, <3>3
  <2>8. CASE M!Cat
    BY <2>0, <2>8 DEF M!Cat
  <2>9. CASE UNCHANGED M!vars
    BY <2>0, <2>9 DEF M!vars
  <2> QED
    BY <2>0, <2>1, <2>2, <2>3, <2>4, <2>5, <2>6, <2>7, <2>8, <2>9
       DEF M!Next, M!ChildStep, M!ParentStep
<1> QED
  BY <1>1, <1>2, PTL DEF M!Spec

\* For every error of exec, open and sendmsg, and a child killed anywhere: a
\* descriptor that my_open returns is that of the file, never the one that
\* Read_fd left unset, and an error is the one that the child met.
THEOREM OpenedComesBack ==
  ASSUME FileLen \in Nat
  PROVE  M!Spec => []M!OpenedIsReturned
<1>1. MInv => M!OpenedIsReturned
  BY DEF MInv, M!TypeOK, Child, Status, Parent, M!OpenedIsReturned, M!ErrSys, M!TheFile, M!Unset
<1> QED
  BY <1>1, MyOpenInv, PTL

-----------------------------------------------------------------------------
(* IfiInfo.                                                                *)

\* The first buffer holds something, and a larger one holds more.
Buffers == MaxIfs \in Nat /\ Guess \in Nat \ {0} /\ Increment \in Nat \ {0}

\* As long as it asks, the buffer is longer than the answer before: an answer
\* of that length again did not fill it.
Asking == ipc = "ask" => /\ lastlen < len
                         /\ pos = 0 /\ lastname = 0 /\ ifihead = <<>>

WholeAnswer == ipc \in {"walk", "addrs", "return", "quit"} => missed = 0

\* The names ahead of the walk do not come before the one looked at last.
Sorted == \A k \in 1 .. Len(ifbuf) : 5 * (k - 1) >= pos => lastname <= ifbuf[k]

ListedOnce ==
  ~doaliases =>
    /\ \A k \in 1 .. Len(ifihead) : ifihead[k].name <= lastname
    /\ \A k, l \in 1 .. Len(ifihead) : ifihead[k].name = ifihead[l].name => k = l

FInv == I!TypeOK /\ Asking /\ WholeAnswer /\ Sorted /\ ListedOnce

LEMMA ListFacts ==
  ASSUME MaxIfs \in Nat, NEW s \in I!Lists
  PROVE  /\ Len(s) \in 0 .. MaxIfs /\ s \in Seq({1, 2})
         /\ \A k \in 1 .. Len(s) : s[k] \in {1, 2}
         /\ \A k, l \in 1 .. Len(s) : k <= l => s[k] <= s[l]
<1>1. PICK n \in 0 .. MaxIfs : s \in [1 .. n -> {1, 2}]
  BY DEF I!Lists, I!Names
<1>2. n \in Nat
  BY <1>1
<1>3. s \in Seq({1, 2}) /\ Len(s) = n
  BY <1>1, <1>2
<1> QED
  BY <1>1, <1>3 DEF I!Lists

\* The beginning of a list is a list.
LEMMA Cut ==
  ASSUME MaxIfs \in Nat, NEW s \in I!Lists, NEW n \in 0 .. Len(s)
  PROVE  SubSeq(s, 1, n) \in I!Lists /\ Len(SubSeq(s, 1, n)) = n
<1>1. /\ Len(s) \in 0 .. MaxIfs /\ \A k \in 1 .. Len(s) : s[k] \in {1, 2}
      /\ \A k, l \in 1 .. Len(s) : k <= l => s[k] <= s[l]
  BY ListFacts
<1>2. Len(s) \in Nat /\ n \in Nat /\ n <= Len(s) /\ n \in 0 .. MaxIfs
  BY <1>1
<1>3. \A k \in 1 .. n : s[k] \in {1, 2}
  BY <1>1, <1>2
<1>4. /\ SubSeq(s, 1, n) \in Seq({1, 2}) /\ Len(SubSeq(s, 1, n)) = n
      /\ \A k \in 1 .. n : SubSeq(s, 1, n)[k] = s[k]
  BY <1>2, <1>3
<1> DEFINE t == SubSeq(s, 1, n)
<1>5. t \in [1 .. n -> {1, 2}]
  <2>1. t = [k \in 1 .. n |-> t[k]]
    <3> HIDE DEF t
    <3>1. t \in Seq({1, 2}) /\ Len(t) = n
      BY <1>4 DEF t
    <3> QED
      BY <3>1, LenProperties
  <2> QED
    BY <1>3, <1>4, <2>1
<1>6. \A k, l \in 1 .. Len(t) : k <= l => t[k] <= t[l]
  BY <1>1, <1>2, <1>4
<1> QED
  BY <1>2, <1>4, <1>5, <1>6 DEF I!Lists, I!Names

LEMMA IfiInfoInv ==
  ASSUME Buffers
  PROVE  I!Spec => []FInv
<1> USE DEF Buffers, I!EntrySize, I!StrideSize, I!FamilyAt, I!Names
<1>1. I!Init => FInv
  <2> SUFFICES ASSUME I!Init PROVE FInv
    OBVIOUS
  <2> USE DEF I!Init
  <2>1. /\ refuses \in BOOLEAN /\ changed \in BOOLEAN /\ doaliases \in BOOLEAN /\ ifs \in I!Lists
        /\ ipc = "ask"
    BY Zenon
  <2>2. <<>> \in I!Lists /\ <<>> \in Seq([name : {1, 2}, alias : BOOLEAN]) /\ Len(<<>>) = 0
    <3>1. <<>> \in [1 .. 0 -> {1, 2}]
      OBVIOUS
    <3> QED
      BY <3>1 DEF I!Lists
  <2>3. /\ len \in Nat /\ lastlen \in 0 .. MaxIfs /\ missed \in 0 .. MaxIfs /\ lastlen < len
        /\ pos \in 0 .. 5 * MaxIfs + 4 /\ lastname \in {0, 1, 2} /\ down = {}
    OBVIOUS
  <2>4. ifbuf \in I!Lists /\ ifihead \in Seq([name : {1, 2}, alias : BOOLEAN]) /\ Len(ifbuf) = 0 /\ Len(ifihead) = 0
    BY <2>2, Zenon
  <2>5. I!TypeOK
    BY <2>1, <2>3, <2>4 DEF I!TypeOK
  <2>6. Asking /\ WholeAnswer
    BY <2>1, <2>3 DEF Asking, WholeAnswer
  <2>7. Sorted /\ ListedOnce
    BY <2>4 DEF Sorted, ListedOnce
  <2> QED
    BY <2>5, <2>6, <2>7 DEF FInv
<1>2. FInv /\ [I!Next]_(I!vars) => FInv'
  <2>0. SUFFICES ASSUME FInv, [I!Next]_(I!vars) PROVE FInv'
    OBVIOUS
  <2>a. I!TypeOK /\ Asking /\ WholeAnswer /\ Sorted /\ ListedOnce
    BY <2>0 DEF FInv
  <2>b. /\ Len(ifs) \in Nat /\ Len(ifs) <= MaxIfs /\ Len(ifbuf) \in Nat /\ Len(ifbuf) <= MaxIfs
        /\ len \in Nat /\ lastlen \in Nat /\ pos \in Nat
    BY <2>a, ListFacts DEF I!TypeOK
  <2> USE DEF I!kernel, I!answer, I!list
  <2>1. CASE I!Change
    BY <2>a, <2>1 DEF I!Change, FInv, I!TypeOK, Asking, WholeAnswer, Sorted, ListedOnce
  <2>2. CASE I!Answered
    <3> DEFINE n == IF Len(ifs) < len THEN Len(ifs) ELSE len
    <3>1. /\ ipc = "ask" /\ ifbuf' = SubSeq(ifs, 1, n) /\ missed' = Len(ifs) - n
          /\ IF n = lastlen THEN ipc' = "walk" /\ UNCHANGED <<len, lastlen>>
             ELSE lastlen' = n /\ len' = len + Increment /\ UNCHANGED ipc
          /\ UNCHANGED <<refuses, ifs, changed, doaliases, pos, lastname, ifihead, down>>
      BY <2>2 DEF I!Answered, I!Believed, I!Grow
    <3>2. n \in 0 .. Len(ifs) /\ n <= len /\ n \in Nat
      BY <2>b
    <3>3. lastlen < len /\ pos = 0 /\ lastname = 0 /\ ifihead = <<>>
      BY <2>a, <3>1 DEF Asking
    <3>4. ifbuf' \in I!Lists /\ Len(ifbuf') = n
      BY <2>a, <3>1, <3>2, Cut DEF I!TypeOK
    <3>5. /\ lastlen' \in 0 .. MaxIfs /\ len' \in Nat /\ missed' \in 0 .. MaxIfs /\ lastlen' \in Nat
          /\ ipc' \in {"ask", "walk"}
          /\ ipc' = "ask" => lastlen' < len'
          /\ ipc' = "walk" => missed' = 0
      BY <2>a, <2>b, <3>1, <3>2, <3>3 DEF I!TypeOK
    <3>6. I!TypeOK'
      BY <2>a, <3>1, <3>4, <3>5 DEF I!TypeOK
    <3>7. Asking' /\ WholeAnswer'
      BY <3>1, <3>3, <3>5 DEF Asking, WholeAnswer
    <3>8. Sorted'
      <4>1. \A k \in 1 .. Len(ifbuf') : ifbuf'[k] \in {1, 2}
        BY <3>4, ListFacts
      <4>2. lastname' = 0
        BY <3>1, <3>3
      <4> QED
        BY <4>1, <4>2 DEF Sorted
    <3>9. ListedOnce'
      BY <2>a, <3>1 DEF ListedOnce
    <3> QED
      BY <3>6, <3>7, <3>8, <3>9 DEF FInv
  <2>3. CASE I!Refused
    <3>1. /\ ipc = "ask"
          /\ \/ ipc' = "fatal" /\ len' = len
             \/ len' = len + Increment /\ ipc' = ipc
          /\ UNCHANGED <<refuses, ifs, changed, doaliases, lastlen, ifbuf, missed, pos, lastname, ifihead, down>>
      BY <2>3 DEF I!Refused, I!Grow
    <3>2. len' \in Nat /\ (ipc' = "ask" => lastlen < len') /\ ipc' \in {"ask", "fatal"}
      BY <2>a, <2>b, <3>1 DEF Asking
    <3> QED
      BY <2>a, <3>1, <3>2 DEF FInv, I!TypeOK, Asking, WholeAnswer, Sorted, ListedOnce
  <2>4. CASE I!Look
    <3>1. /\ ipc = "walk" /\ pos < 5 * Len(ifbuf) /\ pos' = pos + 4
          /\ UNCHANGED <<refuses, ifs, changed, doaliases, len, lastlen, ifbuf, missed>>
      BY <2>4 DEF I!Look, I!End, I!Stride
    <3>2. pos' \in 0 .. 5 * MaxIfs + 4 /\ pos' >= pos
      BY <2>b, <3>1
    <3>3. missed = 0
      BY <2>a, <3>1 DEF WholeAnswer
    <3>4. CASE UNCHANGED <<lastname, ifihead, down>> /\ ipc' \in {"walk", "fatal"}
      <4>1. I!TypeOK' /\ Asking' /\ WholeAnswer' /\ ListedOnce'
        BY <2>a, <3>1, <3>2, <3>3, <3>4 DEF I!TypeOK, Asking, WholeAnswer, ListedOnce
      <4>2. Sorted'
        BY <2>a, <2>b, <3>1, <3>2, <3>4 DEF Sorted
      <4> QED
        BY <4>1, <4>2 DEF FInv
    <3>5. CASE \E k \in 1 .. Len(ifbuf) : /\ 5 * (k - 1) = pos
                                        /\ ~(ifbuf[k] = lastname /\ ~doaliases)
                                        /\ I!AskFlags(ifbuf[k])
      <4>1. PICK k \in 1 .. Len(ifbuf) : /\ 5 * (k - 1) = pos
                                       /\ ~(ifbuf[k] = lastname /\ ~doaliases)
                                       /\ I!AskFlags(ifbuf[k])
        BY <3>5
      <4> DEFINE name == ifbuf[k]
      <4>2. /\ name \in {1, 2} /\ lastname \in {0, 1, 2}
            /\ \A l \in 1 .. Len(ifbuf) : k <= l => name <= ifbuf[l]
        BY <2>a, ListFacts DEF I!TypeOK
      <4>3. lastname <= name
        BY <2>a, <2>b, <4>1 DEF Sorted
      <4>4. /\ lastname' = name /\ ipc' \in {"walk", "addrs", "fatal"}
            /\ \/ UNCHANGED ifihead
               \/ ifihead' = Append(ifihead, [name |-> name, alias |-> name = lastname])
            /\ down' \in {down, down \cup {name}}
        BY <4>1 DEF I!AskFlags
      <4>5. Sorted'
        <5>1. \A l \in 1 .. Len(ifbuf) : 5 * (l - 1) >= pos + 4 => k <= l
          BY <2>b, <4>1
        <5> QED
          BY <3>1, <4>2, <4>4, <5>1 DEF Sorted
      <4> DEFINE e == [name |-> name, alias |-> name = lastname]
                 E == [name : {1, 2}, alias : BOOLEAN]
      <4>6. e \in E /\ e.name = name /\ ifihead \in Seq(E)
        BY <2>a, <4>2 DEF I!TypeOK
      <4>7. Len(ifihead) \in Nat /\ \A a \in 1 .. Len(ifihead) : ifihead[a].name \in {1, 2}
        <5>1. Len(ifihead) \in Nat /\ \A a \in 1 .. Len(ifihead) : ifihead[a] \in E
          <6> HIDE DEF E
          <6> QED
            BY <4>6, LenProperties, ElementOfSeq
        <5> QED
          BY <5>1
      <4>8. ifihead' \in Seq(E) /\ ListedOnce'
        <5>1. CASE UNCHANGED ifihead
          BY <2>a, <3>1, <4>2, <4>3, <4>4, <4>6, <4>7, <5>1 DEF ListedOnce
        <5>2. CASE ifihead' = Append(ifihead, e)
          <6>1. /\ ifihead' \in Seq(E) /\ Len(ifihead') = Len(ifihead) + 1
                /\ \A a \in 1 .. Len(ifihead) : ifihead'[a] = ifihead[a]
                /\ ifihead'[Len(ifihead) + 1] = e
            <7> HIDE DEF e, E
            <7> QED
              BY <4>6, <5>2, AppendProperties
          <6>2. ~doaliases => \A a \in 1 .. Len(ifihead) : ifihead[a].name < name
            <7> SUFFICES ASSUME ~doaliases, NEW a \in 1 .. Len(ifihead)
                         PROVE  ifihead[a].name < name
              OBVIOUS
            <7>1. name # lastname
              BY <4>1
            <7>2. ifihead[a].name <= lastname /\ ifihead[a].name \in {1, 2}
              BY <2>a, <4>7 DEF ListedOnce
            <7> QED
              BY <4>2, <4>3, <7>1, <7>2
          <6>3. \A a \in 1 .. Len(ifihead') : a \in 1 .. Len(ifihead) \/ a = Len(ifihead) + 1
            BY <4>7, <6>1
          <6>4. \A a \in 1 .. Len(ifihead') :
                  ifihead'[a].name = IF a \in 1 .. Len(ifihead) THEN ifihead[a].name ELSE name
            <7> HIDE DEF e
            <7> QED
              BY <4>6, <4>7, <6>1, <6>3
          <6>5. ListedOnce'
            <7> HIDE DEF e, E, name
            <7>1. name \in Nat
              BY <4>2 DEF name
            <7>2. ASSUME ~doaliases
                  PROVE  /\ \A a \in 1 .. Len(ifihead') : ifihead'[a].name <= name
                         /\ \A a, b \in 1 .. Len(ifihead') :
                              ifihead'[a].name = ifihead'[b].name => a = b
              BY SMTT(30), <2>a, <4>2, <4>7, <6>2, <6>3, <6>4, <7>1, <7>2 DEF ListedOnce
            <7> QED
              BY <3>1, <4>4, <7>2 DEF ListedOnce
          <6> QED
            BY <6>1, <6>5
        <5> QED
          BY <4>4, <5>1, <5>2
      <4>9. I!TypeOK' /\ Asking' /\ WholeAnswer'
        BY <2>a, <3>1, <3>2, <3>3, <4>2, <4>4, <4>8 DEF I!TypeOK, Asking, WholeAnswer
      <4> QED
        BY <4>5, <4>8, <4>9 DEF FInv
    <3>6. \/ UNCHANGED <<lastname, ifihead, down>> /\ ipc' \in {"walk", "fatal"}
          \/ /\ pos + 2 < 5 * Len(ifbuf) /\ pos % 5 = 0
             /\ ~(ifbuf[pos \div 5 + 1] = lastname /\ ~doaliases)
             /\ I!AskFlags(ifbuf[pos \div 5 + 1])
      BY <2>4, <3>1 DEF I!Look, I!End, I!Skip, I!AlreadyListed
    <3>7. CASE /\ pos + 2 < 5 * Len(ifbuf) /\ pos % 5 = 0
               /\ ~(ifbuf[pos \div 5 + 1] = lastname /\ ~doaliases)
               /\ I!AskFlags(ifbuf[pos \div 5 + 1])
      <4> DEFINE q == pos \div 5 + 1
      <4>1. q \in 1 .. Len(ifbuf) /\ 5 * (q - 1) = pos
        BY <2>b, <3>7
      <4> QED
        BY <3>5, <3>7, <4>1
    <3> QED
      BY <3>4, <3>6, <3>7
  <2>5. CASE I!AskAddrs
    BY <2>a, <2>5 DEF I!AskAddrs, FInv, I!TypeOK, Asking, WholeAnswer, Sorted, ListedOnce
  <2>6. CASE I!Return
    BY <2>a, <2>6 DEF I!Return, FInv, I!TypeOK, Asking, WholeAnswer, Sorted, ListedOnce
  <2>7. CASE UNCHANGED I!vars
    BY <2>a, <2>7 DEF I!vars, FInv, I!TypeOK, Asking, WholeAnswer, Sorted, ListedOnce
  <2> QED
    BY <2>0, <2>1, <2>2, <2>3, <2>4, <2>5, <2>6, <2>7 DEF I!Next, I!Step
<1> QED
  BY <1>1, <1>2, PTL DEF I!Spec

\* Where the walk has been: it is at a multiple of the stride, what it met is
\* listed or down, and nothing else is listed.
Listed(name) == \E l \in 1 .. Len(ifihead) : ifihead[l].name = name

Walked ==
  /\ pos % 4 = 0
  /\ ipc = "return" => pos >= 5 * Len(ifbuf)
  /\ lastname = 0 \/ lastname \in down \/ Listed(lastname) \/ ipc = "fatal"
  /\ \A l \in 1 .. Len(ifihead) : \E k \in 1 .. Len(ifbuf) : I!Met(k) /\ ifihead[l].name = ifbuf[k]
  /\ ipc # "fatal" => \A k \in 1 .. Len(ifbuf) : I!Met(k) /\ 5 * (k - 1) < pos =>
                        ifbuf[k] \in down \/ Listed(ifbuf[k])

LEMMA WalkedInit == I!Init => Walked
<1> SUFFICES ASSUME I!Init PROVE Walked
  OBVIOUS
<1>1. ifbuf = <<>> /\ ifihead = <<>> /\ pos = 0 /\ lastname = 0 /\ ipc = "ask"
  BY Zenon DEF I!Init
<1> QED
  BY <1>1 DEF Walked

LEMMA WalkedStep ==
  ASSUME Buffers, FInv, Walked, [I!Next]_(I!vars)
  PROVE  Walked'
<1> USE DEF I!kernel, I!answer, I!list
<1>a. /\ ifbuf \in I!Lists /\ Len(ifbuf) \in Nat /\ pos \in Nat
      /\ \A k \in 1 .. Len(ifbuf) : ifbuf[k] \in {1, 2}
  BY ListFacts DEF Buffers, FInv, I!TypeOK
<1>b. Len(ifihead) \in Nat /\ ifihead \in Seq([name : {1, 2}, alias : BOOLEAN])
  BY LenProperties DEF FInv, I!TypeOK, I!Names
<1>1. CASE I!Change
  BY <1>1 DEF I!Change, Walked, Listed
<1>2. CASE I!Answered \/ I!Refused
  <2>1. ipc = "ask" /\ pos = 0 /\ lastname = 0 /\ ifihead = <<>>
    BY <1>2 DEF I!Answered, I!Refused, FInv, Asking
  <2>2. UNCHANGED <<pos, lastname, ifihead, down>> /\ ipc' # "return"
    BY <1>2, <2>1 DEF I!Answered, I!Refused
  <2>3. \A k \in 1 .. Len(ifbuf') : ~(5 * (k - 1) < pos')
    BY <2>1, <2>2
  <2> QED
    BY <2>1, <2>2, <2>3 DEF Walked, I!Met
<1>3. CASE I!Look
  <2>1. /\ ipc = "walk" /\ pos < 5 * Len(ifbuf) /\ pos' = pos + 4
        /\ UNCHANGED ifbuf
    BY <1>3 DEF I!Look, I!End, I!Stride, I!EntrySize, I!StrideSize
  <2>2. pos' % 4 = 0
    BY <1>a, <2>1 DEF Walked
  <2>3. \A k \in 1 .. Len(ifbuf) : I!Met(k) /\ 5 * (k - 1) < pos + 4 =>
          5 * (k - 1) < pos \/ 5 * (k - 1) = pos
    <3>1. \A p, x \in Nat : p % 4 = 0 /\ x % 4 = 0 /\ p < x => p + 4 <= x
      OBVIOUS
    <3>2. \A k \in 1 .. Len(ifbuf) : 5 * (k - 1) \in Nat
      BY <1>a
    <3>3. pos % 4 = 0
      BY DEF Walked
    <3> QED
      BY <1>a, <3>1, <3>2, <3>3 DEF I!Met, I!EntrySize, I!StrideSize
  <2>4. CASE UNCHANGED <<lastname, ifihead, down>> /\ ipc' = "fatal"
    BY <2>1, <2>2, <2>4 DEF Walked, I!Met
  <2>5. CASE /\ UNCHANGED <<lastname, ifihead, down>> /\ ipc' = "walk"
             /\ \A k \in 1 .. Len(ifbuf) : 5 * (k - 1) = pos => ifbuf[k] = lastname
    <3>1. \A k \in 1 .. Len(ifbuf) : I!Met(k) /\ 5 * (k - 1) < pos' =>
            ifbuf[k] \in down \/ Listed(ifbuf[k])
      <4>1. \A k \in 1 .. Len(ifbuf) : 5 * (k - 1) = pos => ifbuf[k] \in down \/ Listed(ifbuf[k])
        BY <1>a, <2>1, <2>5 DEF Walked
      <4> QED
        BY <2>1, <2>3, <4>1 DEF Walked
    <3> QED
      BY <2>1, <2>2, <2>5, <3>1 DEF Walked, Listed, I!Met
  <2>6. CASE \E k \in 1 .. Len(ifbuf) : 5 * (k - 1) = pos /\ I!AskFlags(ifbuf[k])
    <3>1. PICK k \in 1 .. Len(ifbuf) : 5 * (k - 1) = pos /\ I!AskFlags(ifbuf[k])
      BY <2>6
    <3> DEFINE name == ifbuf[k]
               e == [name |-> name, alias |-> name = lastname]
    <3>2. /\ lastname' = name
          /\ \/ ipc' = "fatal" /\ UNCHANGED <<ifihead, down>>
             \/ ipc' = "walk" /\ down' = down \cup {name} /\ UNCHANGED ifihead
             \/ ipc' = "addrs" /\ UNCHANGED down /\ ifihead' = Append(ifihead, e)
      BY <3>1 DEF I!AskFlags
    <3>3. I!Met(k) /\ e.name = name
      BY <3>1 DEF I!Met, I!EntrySize, I!StrideSize, Walked
    <3>4. CASE ipc' = "fatal" /\ UNCHANGED <<ifihead, down>>
      BY <2>1, <2>2, <3>4 DEF Walked, I!Met
    <3>5. \A j \in 1 .. Len(ifbuf) : 5 * (j - 1) = pos => j = k
      BY <1>a, <3>1
    <3>6. CASE ipc' = "walk" /\ down' = down \cup {name} /\ UNCHANGED ifihead
      <4>1. \A j \in 1 .. Len(ifbuf) : I!Met(j) /\ 5 * (j - 1) < pos' =>
              ifbuf[j] \in down' \/ Listed(ifbuf[j])
        BY <2>1, <2>3, <3>5, <3>6 DEF Walked
      <4> QED
        BY <2>1, <2>2, <3>2, <3>6, <4>1 DEF Walked, Listed, I!Met
    <3>7. CASE ipc' = "addrs" /\ UNCHANGED down /\ ifihead' = Append(ifihead, e)
      <4>1. /\ Len(ifihead') = Len(ifihead) + 1 /\ ifihead'[Len(ifihead) + 1] = e
            /\ \A l \in 1 .. Len(ifihead) : ifihead'[l] = ifihead[l]
        <5> DEFINE E == [name : {1, 2}, alias : BOOLEAN]
        <5>1. e \in E /\ ifihead \in Seq(E)
          BY <1>a, <1>b
        <5> HIDE DEF e, E
        <5> QED
          BY <3>7, <5>1, AppendProperties
      <4> HIDE DEF e, name
      <4>2. \A x : Listed(x)' <=> Listed(x) \/ x = name
        <5>1. \A l \in 1 .. Len(ifihead') : l \in 1 .. Len(ifihead) \/ l = Len(ifihead) + 1
          BY <1>b, <4>1
        <5>2. Len(ifihead) + 1 \in 1 .. Len(ifihead') /\ 1 .. Len(ifihead) \subseteq 1 .. Len(ifihead')
          BY <1>b, <4>1
        <5> QED
          BY <3>3, <4>1, <5>1, <5>2, Zenon DEF Listed
      <4>3. \A l \in 1 .. Len(ifihead') :
              \E j \in 1 .. Len(ifbuf) : I!Met(j) /\ ifihead'[l].name = ifbuf[j]
        <5>1. \A l \in 1 .. Len(ifihead') : l \in 1 .. Len(ifihead) \/ l = Len(ifihead) + 1
          BY <1>b, <4>1
        <5> QED
          BY <3>3, <4>1, <5>1 DEF Walked, name
      <4>4. \A j \in 1 .. Len(ifbuf) : I!Met(j) /\ 5 * (j - 1) < pos' =>
              ifbuf[j] \in down \/ Listed(ifbuf[j]) \/ ifbuf[j] = name
        BY <2>1, <2>3, <3>5 DEF Walked, name
      <4> QED
        BY <2>1, <2>2, <3>2, <3>7, <4>2, <4>3, <4>4 DEF Walked, I!Met
    <3> QED
      BY <3>2, <3>4, <3>6, <3>7
  <2>7. \/ UNCHANGED <<lastname, ifihead, down>> /\ ipc' = "fatal"
        \/ /\ UNCHANGED <<lastname, ifihead, down>> /\ ipc' = "walk"
           /\ \A k \in 1 .. Len(ifbuf) : 5 * (k - 1) = pos => ifbuf[k] = lastname
        \/ \E k \in 1 .. Len(ifbuf) : 5 * (k - 1) = pos /\ I!AskFlags(ifbuf[k])
    <3>1. \A k \in 1 .. Len(ifbuf) : 5 * (k - 1) = pos =>
            pos + 2 < 5 * Len(ifbuf) /\ pos % 5 = 0 /\ pos \div 5 + 1 = k
      BY <1>a
    <3>2. CASE pos + 2 >= 5 * Len(ifbuf)
      BY <1>3, <1>a, <2>1, <3>1, <3>2 DEF I!Look, I!End, I!EntrySize, I!FamilyAt, I!Skip
    <3>3. CASE pos + 2 < 5 * Len(ifbuf) /\ pos % 5 # 0
      BY <1>3, <1>a, <2>1, <3>1, <3>3 DEF I!Look, I!End, I!EntrySize, I!FamilyAt, I!Skip
    <3>4. CASE pos + 2 < 5 * Len(ifbuf) /\ pos % 5 = 0
      <4> DEFINE q == pos \div 5 + 1
      <4>1. IF I!AlreadyListed(ifbuf[q]) THEN I!Skip ELSE I!AskFlags(ifbuf[q])
        BY <1>3, <1>a, <3>4 DEF I!Look, I!End, I!EntrySize, I!FamilyAt
      <4>2. q \in 1 .. Len(ifbuf) /\ 5 * (q - 1) = pos
        BY <1>a, <3>4
      <4>3. \A k \in 1 .. Len(ifbuf) : 5 * (k - 1) = pos => k = q
        BY <3>1
      <4> HIDE DEF q
      <4> QED
        BY <2>1, <4>1, <4>2, <4>3 DEF I!AlreadyListed, I!Skip
    <3> QED
      BY <1>a, <3>2, <3>3, <3>4
  <2> QED
    BY <2>4, <2>5, <2>6, <2>7
<1>4. CASE I!AskAddrs
  <2>1. ipc = "addrs" /\ ipc' \in {"walk", "fatal"} /\ UNCHANGED <<ifbuf, pos, lastname, ifihead, down>>
    BY <1>4 DEF I!AskAddrs
  <2> QED
    BY <2>1 DEF Walked, Listed, I!Met
<1>5. CASE I!Return
  <2>1. /\ ipc = "walk" /\ ipc' \in {"quit", "return"} /\ pos >= 5 * Len(ifbuf)
        /\ UNCHANGED <<ifbuf, pos, lastname, ifihead, down>>
    BY <1>5 DEF I!Return, I!End, I!EntrySize
  <2> QED
    BY <2>1 DEF Walked, Listed, I!Met
<1>6. CASE UNCHANGED I!vars
  BY <1>6 DEF I!vars, Walked, Listed, I!Met
<1> QED
  BY <1>1, <1>2, <1>3, <1>4, <1>5, <1>6 DEF I!Next, I!Step

\* For lists of any length and any sizes of the buffers, kernels that cut and
\* kernels that refuse, and one change of the list at any moment: the answer
\* that get_ifi_info believes was not cut short, without doaliases no interface
\* is listed twice, what stands in every fourth entry is listed unless it was
\* found to be down, and only what stands there is listed.
THEOREM AnswerWhole ==
  ASSUME Buffers
  PROVE  I!Spec => [](I!AnswerComplete /\ I!MetEntriesListed)
<1>1. FInv => I!AnswerComplete
  BY DEF Buffers, FInv, WholeAnswer, ListedOnce, I!AnswerComplete
<1>2. FInv /\ Walked => I!MetEntriesListed
  <2> SUFFICES ASSUME FInv, Walked, ipc = "return" PROVE I!MetEntriesListed
    BY DEF I!MetEntriesListed
  <2>1. Len(ifbuf) \in Nat /\ pos \in Nat
    BY ListFacts DEF Buffers, FInv, I!TypeOK
  <2>2. \A k \in 1 .. Len(ifbuf) : 5 * (k - 1) < pos
    BY <2>1 DEF Walked
  <2> QED
    BY <2>2 DEF Walked, Listed, I!MetEntriesListed
<1>3. FInv /\ Walked /\ [I!Next]_(I!vars) => Walked'
  BY WalkedStep
<1> QED
  BY <1>1, <1>2, <1>3, WalkedInit, IfiInfoInv, PTL DEF I!Spec

-----------------------------------------------------------------------------
(* Ping.                                                                   *)

\* A second and the sequence numbers are not empty.
Clock == USEC \in Nat \ {0} /\ SeqSize \in Nat \ {0} /\ MaxSent \in Nat /\ MaxTime \in Nat
         /\ MaxArrivals \in Nat

\* What has arrived answers a request that was sent, and nothing is sent yet
\* where the program starts.
Answers ==
  /\ \A m \in queue \cup {recvbuf} : m \in G!Requests => m < nsent
  /\ ppc = "start" => nsent = 0
  /\ ppc \notin {"start", "exit"} => nsent > 0

PInv == G!TypeOK /\ Answers /\ G!RttIsOwn /\ G!AlarmKeptUp

\* Borrowing a second leaves the difference as it is.
LEMMA Borrowed ==
  ASSUME Clock, NEW t \in Nat, NEW s \in Nat
  PROVE  LET d == G!tv_sub(G!timeval(t), G!timeval(s))
         IN d.tv_usec \in 0 .. USEC - 1 /\ d.tv_sec * USEC + d.tv_usec = t - s
<1> DEFINE a == t \div USEC
           b == s \div USEC
           c == t % USEC
           d == s % USEC
<1>1. /\ a \in Int /\ b \in Int /\ c \in 0 .. USEC - 1 /\ d \in 0 .. USEC - 1
      /\ t = USEC * a + c /\ s = USEC * b + d
  BY DEF Clock
<1>2. G!timeval(t) = [tv_sec |-> a, tv_usec |-> c] /\ G!timeval(s) = [tv_sec |-> b, tv_usec |-> d]
  BY DEF G!timeval
<1> DEFINE e == G!tv_sub(G!timeval(t), G!timeval(s))
<1>3. e = IF c - d < 0 THEN [tv_sec |-> a - 1 - b, tv_usec |-> c - d + USEC]
                       ELSE [tv_sec |-> a - b, tv_usec |-> c - d]
  BY <1>2 DEF G!tv_sub
<1> HIDE DEF a, b, c, d
<1>4. /\ (a - 1 - b) * USEC + (c - d + USEC) = t - s
      /\ (a - b) * USEC + (c - d) = t - s
  BY <1>1 DEF Clock
<1>5. CASE c - d < 0
  <2>1. e.tv_sec = a - 1 - b /\ e.tv_usec = c - d + USEC
    BY <1>3, <1>5
  <2>2. c - d + USEC \in 0 .. USEC - 1
    BY <1>1, <1>5 DEF Clock
  <2> QED
    BY <2>1, <2>2, <1>4
<1>6. CASE ~(c - d < 0)
  <2>1. e.tv_sec = a - b /\ e.tv_usec = c - d
    BY <1>3, <1>6
  <2>2. c - d \in 0 .. USEC - 1
    BY <1>1, <1>6 DEF Clock
  <2> QED
    BY <2>1, <2>2, <1>4
<1> QED
  BY <1>5, <1>6

LEMMA PingInv ==
  ASSUME Clock
  PROVE  G!Spec => []PInv
<1> USE DEF G!Requests, G!Strange, G!Stranger, G!Twin, G!Short, G!Other, G!Never
<1>1. G!Init => PInv
  BY DEF G!Init, PInv, G!TypeOK, Answers, G!RttIsOwn, G!AlarmKeptUp, G!Nothing, Clock
<1>2. PInv /\ [G!Next]_(G!vars) => PInv'
  <2>0. SUFFICES ASSUME PInv, [G!Next]_(G!vars) PROVE PInv'
    OBVIOUS
  <2> USE DEF PInv, G!TypeOK, Answers, G!net, G!loop, Clock
  <2>a. ASSUME G!SendV4, nsent < MaxSent, UNCHANGED <<now, G!net, G!loop>>,
               ppc # "exit", ppc' \notin {"start", "exit"},
               ppc' \in {"recvmsg", "time", "proc"}, 
               ppc = "start" \/ (due # -1 /\ now >= due)
        PROVE  PInv'
    <3>1. /\ nsent' = nsent + 1 /\ sentAt' = [sentAt EXCEPT ![nsent] = now]
          /\ due' = now + USEC
      BY <2>a DEF G!SendV4, G!NextAlarm
    <3>2. /\ sentAt' \in [0 .. MaxSent - 1 -> 0 .. MaxTime] /\ sentAt'[nsent] = now
          /\ \A n \in 0 .. MaxSent - 1 : n < nsent => sentAt'[n] = sentAt[n]
      BY <2>a, <2>0, <3>1
    <3>3. G!TypeOK'
      BY <2>a, <2>0, <3>1, <3>2
    <3>4. Answers'
      BY <2>a, <2>0, <3>1
    <3>5. G!RttIsOwn'
      BY <2>a, <2>0, <3>1, <3>2 DEF G!RttIsOwn, G!Nothing
    <3>6. G!AlarmKeptUp'
      <4>1. nsent = 0 \/ now >= sentAt[nsent - 1] + USEC
        BY <2>a, <2>0 DEF G!AlarmKeptUp
      <4> QED
        BY <2>a, <2>0, <3>1, <3>2, <4>1 DEF G!AlarmKeptUp
    <3> QED
      BY <3>3, <3>4, <3>5, <3>6
  <2>1. CASE G!Tick
    BY <2>0, <2>1 DEF G!Tick, G!RttIsOwn, G!AlarmKeptUp
  <2>2. CASE G!Start
    BY <2>0, <2>2, <2>a DEF G!Start
  <2>3. CASE G!SigAlrm
    BY <2>0, <2>3, <2>a DEF G!SigAlrm
  <2>4. CASE G!Fails
    BY <2>0, <2>4 DEF G!Fails, G!RttIsOwn, G!AlarmKeptUp
  <2>5. CASE G!Stamp
    BY <2>0, <2>5 DEF G!Stamp, G!RttIsOwn, G!AlarmKeptUp
  <2>6. CASE G!Proc
    <3>1. G!AlarmKeptUp'
      BY <2>0, <2>6 DEF G!Proc, G!AlarmKeptUp
    <3>2. CASE recvbuf \in G!Requests
      <4> DEFINE d == G!tv_sub(G!timeval(tval), G!timeval(sentAt[recvbuf]))
      <4>1. line' = [n |-> recvbuf, seq |-> recvbuf % SeqSize, at |-> tval, rtt |-> d]
        BY <2>6, <3>2 DEF G!Proc, G!IsReply
      <4>2. tval \in Nat /\ sentAt[recvbuf] \in Nat
        BY <2>0, <3>2
      <4>3. d.tv_usec \in 0 .. USEC - 1 /\ d.tv_sec * USEC + d.tv_usec = tval - sentAt[recvbuf]
        BY <4>2, Borrowed
      <4> HIDE DEF d
      <4>4. /\ line'.n = recvbuf /\ line'.seq = recvbuf % SeqSize /\ line'.at = tval
            /\ line'.rtt = d
        BY <4>1
      <4>5. G!RttIsOwn'
        BY <2>0, <2>6, <3>2, <4>3, <4>4 DEF G!Proc, G!RttIsOwn
      <4> QED
        BY <2>0, <2>6, <3>1, <3>2, <4>4, <4>5 DEF G!Proc
    <3>3. CASE recvbuf = -2
      <4>1. line' = [n |-> -2, at |-> tval]
        BY <2>6, <3>3 DEF G!Proc
      <4> QED
        BY <2>0, <2>6, <3>1, <4>1 DEF G!Proc, G!RttIsOwn
    <3>4. CASE recvbuf \notin G!Requests /\ recvbuf # -2
      <4>1. line' = line
        BY <2>6, <3>4 DEF G!Proc, G!IsReply
      <4> QED
        BY <2>0, <2>6, <3>1, <4>1 DEF G!Proc, G!RttIsOwn
    <3> QED
      BY <3>2, <3>3, <3>4
  <2>7. ASSUME NEW m \in queue, G!Receive(m) PROVE PInv'
    BY <2>0, <2>7 DEF G!Receive, G!RttIsOwn, G!AlarmKeptUp
  <2>8. ASSUME NEW m \in G!Requests \cup G!Strange, G!Arrive(m) PROVE PInv'
    BY <2>0, <2>8 DEF G!Arrive, G!RttIsOwn, G!AlarmKeptUp
  <2>9. CASE UNCHANGED G!vars
    BY <2>0, <2>9 DEF G!vars, G!RttIsOwn, G!AlarmKeptUp
  <2> QED
    BY <2>0, <2>1, <2>2, <2>3, <2>4, <2>5, <2>6, <2>7, <2>8, <2>9 DEF G!Next, G!Loop
<1> QED
  BY <1>1, <1>2, PTL DEF G!Spec

\* For seconds of any length, and however icmp_seq wraps round: a time printed
\* is that of the request the reply answers, and an alarm is always set, at
\* least a second after the last request.
THEOREM TimesAreOwn ==
  ASSUME Clock
  PROVE  G!Spec => [](G!RttIsOwn /\ G!AlarmKeptUp)
  BY PingInv, PTL DEF PInv

-----------------------------------------------------------------------------
(* InCksum: induction over numbers.                                        *)

\* A byte has two values or more, and a message is no longer than the
\* accumulator can add up: with 256 values, 131074 bytes, twice what IP carries.
Ranges == /\ ByteSize \in Nat /\ ByteSize >= 2
          /\ MaxLen \in Nat /\ MaxLen <= 2 * K!WordSize + 2

\* The numbers up to top, one after the other: inclusion of the intervals 0 .. x,
\* which are finite, is well-founded.
LEMMA OneByOne ==
  ASSUME NEW top \in Nat, NEW S, 0 \in S, \A m \in 0 .. top : m \in S /\ m < top => m + 1 \in S
  PROVE  \A m \in 0 .. top : m \in S
<1> DEFINE U == {m \in 0 .. top : m \notin S}
           T == {0 .. x : x \in U}
           R == StrictSubsetOrdering(Nat)
<1> SUFFICES ASSUME U # {} PROVE FALSE
  OBVIOUS
<1>1. \A x \in U : IsFiniteSet(0 .. x)
  BY FS_Interval
<1>2. T \subseteq FiniteSubsetsOf(Nat) /\ T # {}
  <2>1. \A x \in U : 0 .. x \in SUBSET Nat
    OBVIOUS
  <2>2. \A x \in U : 0 .. x \in FiniteSubsetsOf(Nat)
    BY <1>1, <2>1 DEF FiniteSubsetsOf
  <2> QED
    BY <2>2
<1>3. \E s \in T : \A t \in T : ~ (<<t, s>> \in R)
  <2>1. IsWellFoundedOn(R, FiniteSubsetsOf(Nat))
    BY FS_StrictSubsetOrderingWellFounded
  <2> HIDE DEF T, R
  <2> QED
    BY <1>2, <2>1, WFMin
<1>4. PICK x \in U : \A t \in T : ~ (<<t, 0 .. x>> \in R)
  BY <1>3
<1>5. x \in Nat /\ x # 0 /\ x - 1 \in 0 .. top /\ x - 1 < top /\ (x - 1) + 1 = x /\ x \notin S
  OBVIOUS
<1>6. x - 1 \in S
  <2> SUFFICES ASSUME x - 1 \notin S PROVE FALSE
    OBVIOUS
  <2> DEFINE a == 0 .. x - 1
             b == 0 .. x
  <2>1. a \subseteq b /\ x \in b /\ x \notin a /\ a \in T
    BY <1>5
  <2>2. a \subseteq b /\ a # b /\ a \in SUBSET Nat /\ b \in SUBSET Nat
    BY <2>1, <1>5
  <2>3. ~ (<<a, b>> \in R)
    BY <1>4, <2>1
  <2> HIDE DEF a, b, T
  <2>4. <<a, b>> \in R
    BY <2>2 DEF StrictSubsetOrdering
  <2> QED
    BY <2>3, <2>4
<1> QED
  BY <1>5, <1>6

-----------------------------------------------------------------------------
(* InCksum: sums over the values of a byte.                                *)

Values == 0 .. ByteSize - 1

\* f adds up the values up to each, the value b counted c[b] times.
IsSums(f, c) ==
  /\ f \in [Values -> Nat] /\ f[0] = 0
  /\ \A b \in 1 .. ByteSize - 1 : f[b] = b * c[b] + f[b - 1]

\* The value x counted e times more.
More(c, x, e) == [b \in Values |-> IF b = x THEN c[b] + e ELSE c[b]]

LEMMA SumsExist ==
  ASSUME Ranges, NEW c \in [Values -> Nat]
  PROVE  \E f : IsSums(f, c)
<1> USE DEF Values
<1> DEFINE Upward(f, m) == /\ f \in [0 .. m -> Nat] /\ f[0] = 0
                           /\ \A b \in 1 .. m : f[b] = b * c[b] + f[b - 1]
           S == {m \in Values : \E f : Upward(f, m)}
<1>0. ByteSize - 1 \in Nat /\ 0 \in Values
  BY DEF Ranges
<1>p. \A x, y \in Nat : x * y \in Nat
  OBVIOUS
<1>1. 0 \in S
  <2>1. Upward([b \in 0 .. 0 |-> 0], 0)
    OBVIOUS
  <2> HIDE DEF Upward
  <2> QED
    BY <1>0, <2>1
<1>2. ASSUME NEW m \in 0 .. ByteSize - 1, m \in S, m < ByteSize - 1 PROVE m + 1 \in S
  <2>1. PICK f : Upward(f, m)
    BY <1>2
  <2> DEFINE v == (m + 1) * c[m + 1]
             g == [b \in 0 .. m + 1 |-> IF b <= m THEN f[b] ELSE v + f[m]]
  <2>2. m \in Nat /\ m + 1 \in Values /\ v \in Nat
    <3>1. m \in Nat /\ m + 1 \in Values /\ m + 1 \in Nat
      BY <1>0, <1>2
    <3>2. c[m + 1] \in Nat
      BY <3>1
    <3> QED
      BY <1>p, <3>1, <3>2
  <2> HIDE DEF v
  <2>3. g \in [0 .. m + 1 -> Nat] /\ g[0] = 0
    BY <2>1, <2>2
  <2>4. ASSUME NEW b \in 1 .. m + 1 PROVE g[b] = b * c[b] + g[b - 1]
    <3>1. CASE b <= m
      <4>1. g[b] = f[b] /\ g[b - 1] = f[b - 1] /\ b \in 1 .. m
        BY <2>2, <3>1
      <4> HIDE DEF g
      <4> QED
        BY <2>1, <4>1
    <3>2. CASE b = m + 1
      <4>1. g[b] = v + f[m] /\ g[b - 1] = f[m]
        BY <2>2, <3>2
      <4> QED
        BY <3>2, <4>1 DEF v
    <3> QED
      BY <2>2, <3>1, <3>2
  <2>5. Upward(g, m + 1)
    <3> HIDE DEF g
    <3> QED
      BY <2>3, <2>4
  <2> HIDE DEF Upward, g
  <2> QED
    BY <2>2, <2>5
<1>3. ByteSize - 1 \in S
  <2> HIDE DEF S
  <2>1. \A m \in 0 .. ByteSize - 1 : m \in S
    BY <1>0, <1>1, <1>2, OneByOne
  <2> QED
    BY <1>0, <2>1
<1> QED
  BY <1>3 DEF IsSums

\* Counting the value x e times more adds x * e.
LEMMA SumsChange ==
  ASSUME Ranges, NEW c \in [Values -> Nat], NEW d, NEW f, NEW g, NEW x \in Values, NEW e \in Nat,
         d = More(c, x, e), IsSums(f, c), IsSums(g, d)
  PROVE  g[ByteSize - 1] = f[ByteSize - 1] + x * e
<1> USE DEF Values
<1> DEFINE S == {m \in Values : g[m] = f[m] + (IF m >= x THEN x * e ELSE 0)}
<1>p. \A y, z \in Nat : y * z \in Nat
  OBVIOUS
<1>0. ByteSize - 1 \in Nat /\ x \in Nat
  BY DEF Ranges
<1>e. x * e \in Nat
  BY <1>0, <1>p
<1>1. 0 \in S
  <2>1. g[0] = 0 /\ f[0] = 0 /\ (0 >= x => x * e = 0) /\ 0 \in Values
    BY <1>0 DEF IsSums
  <2> QED
    BY <2>1
<1>2. ASSUME NEW m \in 0 .. ByteSize - 1, m \in S, m < ByteSize - 1 PROVE m + 1 \in S
  <2> DEFINE v == (m + 1) * c[m + 1]
             u == (m + 1) * d[m + 1]
  <2>1. m \in Nat /\ m + 1 \in Values /\ m + 1 \in 1 .. ByteSize - 1 /\ (m + 1) - 1 = m
    BY <1>0, <1>2
  <2>t. f[m] \in Nat /\ g[m] \in Nat /\ f[m + 1] \in Nat /\ g[m + 1] \in Nat
    BY <1>2, <2>1 DEF IsSums
  <2>2. v \in Nat /\ u = (IF m + 1 = x THEN v + x * e ELSE v)
    <3>1. c[m + 1] \in Nat /\ v \in Nat
      <4>1. c[m + 1] \in Nat /\ m + 1 \in Nat
        BY <2>1
      <4> QED
        BY <1>p, <4>1
    <3>2. CASE m + 1 = x
      <4>1. d[m + 1] = c[m + 1] + e
        BY <2>1, <3>2 DEF More
      <4>2. \A y, z, t \in Nat : y * (z + t) = y * z + y * t
        OBVIOUS
      <4>3. (m + 1) * (c[m + 1] + e) = (m + 1) * c[m + 1] + (m + 1) * e
        BY <2>1, <3>1, <4>2
      <4> QED
        BY <3>1, <3>2, <4>1, <4>3
    <3>3. CASE m + 1 # x
      <4>1. d[m + 1] = c[m + 1]
        BY <2>1, <3>3 DEF More
      <4> QED
        BY <3>1, <3>3, <4>1
    <3> QED
      BY <3>2, <3>3
  <2>3. f[m + 1] = v + f[m]
    BY <2>1 DEF IsSums
  <2>4. g[m + 1] = u + g[m]
    BY <2>1 DEF IsSums
  <2>5. g[m] = f[m] + (IF m >= x THEN x * e ELSE 0)
    BY <1>2
  <2> DEFINE p == x * e
  <2> HIDE DEF u, v, p
  <2>6. u = (IF m + 1 = x THEN v + p ELSE v) /\ p \in Nat /\ g[m] = f[m] + (IF m >= x THEN p ELSE 0)
    BY <1>e, <2>2, <2>5 DEF p
  <2>7. g[m + 1] = f[m + 1] + (IF m + 1 >= x THEN p ELSE 0)
    <3> DEFINE a == f[m]
               b == g[m]
               r == f[m + 1]
               q == g[m + 1]
    <3>1. /\ a \in Nat /\ v \in Nat /\ p \in Nat /\ x \in Nat /\ m \in Nat
          /\ r = v + a /\ q = u + b
          /\ u = (IF m + 1 = x THEN v + p ELSE v) /\ b = a + (IF m >= x THEN p ELSE 0)
      BY <1>0, <2>1, <2>2, <2>3, <2>4, <2>6, <2>t
    <3> HIDE DEF a, b, q, r
    <3>2. q = r + (IF m + 1 >= x THEN p ELSE 0)
      BY <3>1
    <3> QED
      BY <3>2 DEF q, r
  <2> QED
    BY <2>1, <2>7 DEF p
<1>3. ByteSize - 1 \in S
  <2> HIDE DEF S
  <2>1. \A m \in 0 .. ByteSize - 1 : m \in S
    BY <1>0, <1>1, <1>2, OneByOne
  <2> QED
    BY <1>0, <2>1
<1> QED
  BY <1>0, <1>3

LEMMA SumsSame ==
  ASSUME Ranges, NEW c \in [Values -> Nat], NEW f, NEW g, IsSums(f, c), IsSums(g, c)
  PROVE  g[ByteSize - 1] = f[ByteSize - 1]
<1>1. 0 \in Values
  BY DEF Ranges, Values
<1>m. c = More(c, 0, 0)
  <2>1. ASSUME NEW b \in Values PROVE c[b] = More(c, 0, 0)[b]
    BY DEF More
  <2>2. More(c, 0, 0) = [b \in Values |-> More(c, 0, 0)[b]]
    BY DEF More
  <2> QED
    BY <2>1, <2>2
<1>2. g[ByteSize - 1] = f[ByteSize - 1] + 0 * 0
  BY <1>1, <1>m, SumsChange
<1>3. f[ByteSize - 1] \in Nat
  BY DEF IsSums, Ranges, Values
<1> QED
  BY <1>2, <1>3

LEMMA SumsOfNothing ==
  ASSUME Ranges
  PROVE  IsSums([b \in Values |-> 0], [b \in Values |-> 0])
  BY DEF Ranges, IsSums, Values

-----------------------------------------------------------------------------
(* InCksum: the bytes added so far.                                        *)

\* How often the value b counts among the first j bytes, by their places.
At(j, b, odd) == {k \in 1 .. j : addr[k] = b /\ (k % 2 = 1) = odd}
Counts(j) == [b \in Values |-> Cardinality(At(j, b, TRUE)) + ByteSize * Cardinality(At(j, b, FALSE))]

\* s is the sum of the first j bytes.
SumTo(j, s) == \E f : IsSums(f, Counts(j)) /\ s = f[ByteSize - 1]

\* What a byte at place k counts.
Factor(k) == IF k % 2 = 1 THEN 1 ELSE ByteSize

Message == addr \in Seq(Values)

LEMMA CountsTyped ==
  ASSUME Ranges, NEW j \in Nat
  PROVE  /\ Counts(j) \in [Values -> Nat]
         /\ \A b, odd : IsFiniteSet(At(j, b, odd)) /\ Cardinality(At(j, b, odd)) \in Nat
<1>1. ASSUME NEW b, NEW odd
      PROVE  IsFiniteSet(At(j, b, odd)) /\ Cardinality(At(j, b, odd)) \in Nat
  <2>1. IsFiniteSet(1 .. j)
    BY FS_Interval
  <2>2. At(j, b, odd) \subseteq 1 .. j
    BY DEF At
  <2> QED
    BY <2>1, <2>2, FS_Subset, FS_CardinalityType
<1>2. \A x, y \in Nat : x + ByteSize * y \in Nat
  BY DEF Ranges
<1>3. ASSUME NEW b \in Values
      PROVE  Cardinality(At(j, b, TRUE)) + ByteSize * Cardinality(At(j, b, FALSE)) \in Nat
  BY <1>1, <1>2
<1> QED
  BY <1>1, <1>3 DEF Counts

LEMMA CountsStep ==
  ASSUME Ranges, Message, NEW j \in Nat, j + 1 <= Len(addr)
  PROVE  /\ addr[j + 1] \in Values
         /\ Counts(j + 1) = More(Counts(j), addr[j + 1], Factor(j + 1))
<1> DEFINE x == addr[j + 1]
<1>1. x \in Values /\ j + 1 \in Nat
  BY ElementOfSeq, LenProperties DEF Message
<1>2. ASSUME NEW b, NEW odd
      PROVE  At(j + 1, b, odd) = IF x = b /\ ((j + 1) % 2 = 1) = odd
                                 THEN At(j, b, odd) \cup {j + 1} ELSE At(j, b, odd)
  <2>1. \A k : k \in 1 .. j + 1 <=> k \in 1 .. j \/ k = j + 1
    OBVIOUS
  <2> QED
    BY <2>1, Zenon DEF At
<1>3. ASSUME NEW b, NEW odd
      PROVE  Cardinality(At(j + 1, b, odd))
               = IF x = b /\ ((j + 1) % 2 = 1) = odd
                 THEN Cardinality(At(j, b, odd)) + 1 ELSE Cardinality(At(j, b, odd))
  <2>1. j + 1 \notin At(j, b, odd)
    BY DEF At
  <2>2. Cardinality(At(j, b, odd) \cup {j + 1}) = Cardinality(At(j, b, odd)) + 1
    BY <2>1, CountsTyped, FS_AddElement
  <2> QED
    BY <1>2, <2>2
<1> DEFINE c == Counts(j)
           d == More(c, x, Factor(j + 1))
<1>4. c \in [Values -> Nat] /\ Counts(j + 1) \in [Values -> Nat] /\ d \in [Values -> Nat]
  <2>1. c \in [Values -> Nat] /\ Counts(j + 1) \in [Values -> Nat]
    BY <1>1, CountsTyped
  <2>2. Factor(j + 1) \in Nat
    BY DEF Factor, Ranges
  <2>3. \A b \in Values : c[b] + Factor(j + 1) \in Nat
    BY <2>1, <2>2
  <2> QED
    BY <2>1, <2>3 DEF More
<1>5. ASSUME NEW b \in Values PROVE Counts(j + 1)[b] = d[b]
  <2> DEFINE p == Cardinality(At(j, b, TRUE))
             q == Cardinality(At(j, b, FALSE))
             pp == Cardinality(At(j + 1, b, TRUE))
             qq == Cardinality(At(j + 1, b, FALSE))
             odd == (j + 1) % 2 = 1
  <2>1. /\ c[b] = p + ByteSize * q /\ Counts(j + 1)[b] = pp + ByteSize * qq
    BY DEF Counts
  <2>2. p \in Nat /\ q \in Nat /\ ByteSize \in Nat
    BY CountsTyped DEF Ranges
  <2>3. /\ pp = IF x = b /\ odd THEN p + 1 ELSE p
        /\ qq = IF x = b /\ ~odd THEN q + 1 ELSE q
    <3>1. (odd = TRUE <=> odd) /\ (odd = FALSE <=> ~odd)
      BY odd \in BOOLEAN
    <3>2. pp = IF x = b /\ odd = TRUE THEN p + 1 ELSE p
      BY <1>3
    <3>3. qq = IF x = b /\ odd = FALSE THEN q + 1 ELSE q
      BY <1>3
    <3> HIDE DEF p, q, pp, qq, c, d, odd, x
    <3> QED
      BY <3>1, <3>2, <3>3
  <2>4. ByteSize * (q + 1) = ByteSize * q + ByteSize
    <3>1. \A z \in Nat : ByteSize * (z + 1) = ByteSize * z + ByteSize
      BY <2>2
    <3> QED
      BY <2>2, <3>1
  <2>5. d[b] = IF x = b THEN c[b] + Factor(j + 1) ELSE c[b]
    BY DEF More
  <2> HIDE DEF p, q, pp, qq, c, d
  <2>6. Factor(j + 1) = IF odd THEN 1 ELSE ByteSize
    BY DEF Factor
  <2> HIDE DEF odd
  <2> DEFINE t == ByteSize * q
  <2>7. t \in Nat
    BY <2>2
  <2>8. c[b] = p + t /\ Counts(j + 1)[b] = pp + (IF x = b /\ ~odd THEN t + ByteSize ELSE t)
    BY <2>1, <2>3, <2>4
  <2> HIDE DEF t, x
  <2> QED
    BY <2>2, <2>3, <2>5, <2>6, <2>7, <2>8
<1> HIDE DEF d
<1>6. Counts(j + 1) = d
  BY <1>4, <1>5
<1> QED
  BY <1>1, <1>6 DEF d

LEMMA SumStep ==
  ASSUME Ranges, Message, NEW j \in Nat, j + 1 <= Len(addr), NEW s, SumTo(j, s)
  PROVE  SumTo(j + 1, s + addr[j + 1] * Factor(j + 1))
<1>1. PICK f : IsSums(f, Counts(j)) /\ s = f[ByteSize - 1]
  BY DEF SumTo
<1>2. Counts(j) \in [Values -> Nat] /\ Counts(j + 1) \in [Values -> Nat] /\ Factor(j + 1) \in Nat
  BY CountsTyped DEF Factor, Ranges
<1>3. PICK g : IsSums(g, Counts(j + 1))
  BY <1>2, SumsExist
<1>4. g[ByteSize - 1] = f[ByteSize - 1] + addr[j + 1] * Factor(j + 1)
  <2> DEFINE cj == Counts(j)
             xj == addr[j + 1]
             ej == Factor(j + 1)
             dj == Counts(j + 1)
  <2>1. xj \in Values /\ cj \in [Values -> Nat] /\ ej \in Nat /\ dj = More(cj, xj, ej)
    BY <1>2, CountsStep
  <2>2. IsSums(f, cj) /\ IsSums(g, dj)
    BY <1>1, <1>3
  <2> HIDE DEF cj, xj, ej, dj
  <2>3. g[ByteSize - 1] = f[ByteSize - 1] + xj * ej
    BY <2>1, <2>2, SumsChange
  <2> QED
    BY <2>3 DEF xj, ej
<1> QED
  BY <1>1, <1>3, <1>4 DEF SumTo

LEMMA SumBegins ==
  ASSUME Ranges
  PROVE  SumTo(0, 0)
<1>1. \A b, odd : At(0, b, odd) = {}
  BY DEF At
<1>2. Counts(0) = [b \in Values |-> 0]
  <2>1. 0 + ByteSize * 0 = 0
    BY DEF Ranges
  <2> QED
    BY <1>1, <2>1, FS_EmptySet DEF Counts
<1>3. [b \in Values |-> 0][ByteSize - 1] = 0
  BY DEF Values, Ranges
<1> QED
  BY <1>2, <1>3, SumsOfNothing DEF SumTo

LEMMA SameCardinality == \A S : K!Cardinality(S) = Cardinality(S)
  BY DEF K!Cardinality, Cardinality

\* In the end the sum is the one that InCksum computes from the bytes.
LEMMA SumIsTotal ==
  ASSUME Ranges, Message, NEW s, SumTo(Len(addr), s)
  PROVE  s = K!Total /\ s \in Nat
<1> DEFINE c == Counts(Len(addr))
           e(h) == [b \in Values |-> IF b = 0 THEN 0 ELSE b * c[b] + h[b - 1]]
<1>0. Len(addr) \in Nat /\ ByteSize - 1 \in Nat /\ ByteSize - 1 \in Values
  BY LenProperties DEF Message, Ranges, Values
<1>1. c \in [Values -> Nat]
  BY <1>0, CountsTyped
<1>2. PICK f : IsSums(f, c) /\ s = f[ByteSize - 1]
  BY DEF SumTo
<1>3. f = e(f)
  <2>1. ASSUME NEW b \in Values PROVE f[b] = e(f)[b]
    <3>1. CASE b = 0
      BY <1>2, <3>1 DEF IsSums
    <3>2. CASE b # 0
      <4>1. b \in 1 .. ByteSize - 1
        BY <3>2 DEF Values, Ranges
      <4>2. f[b] = b * c[b] + f[b - 1]
        BY <1>2, <4>1 DEF IsSums
      <4> QED
        BY <3>2, <4>2
    <3> QED
      BY <3>1, <3>2
  <2>2. f \in [Values -> Nat]
    BY <1>2 DEF IsSums
  <2> HIDE DEF c
  <2> QED
    BY <2>1, <2>2
<1>4. K!Weight = e(K!Weight)
  <2>1. \A b \in Values : c[b] = Cardinality(K!Places(b, TRUE)) + ByteSize * Cardinality(K!Places(b, FALSE))
    BY DEF Counts, At, K!Places
  <2> DEFINE w(h) == [b \in 0 .. ByteSize - 1 |->
                        IF b = 0 THEN 0
                        ELSE b * (Cardinality(K!Places(b, TRUE))
                                    + ByteSize * Cardinality(K!Places(b, FALSE))) + h[b - 1]]
  <2>2. \A h : w(h) = e(h)
    BY <2>1 DEF Values
  <2>3. K!Weight = CHOOSE h : h = w(h)
    BY SameCardinality DEF K!Weight
  <2> HIDE DEF w, e
  <2>4. f = w(f)
    BY <1>3, <2>2
  <2>5. K!Weight = w(K!Weight)
    BY <2>3, <2>4
  <2> QED
    BY <2>2, <2>5
<1> DEFINE S == {m \in Values : K!Weight[m] = f[m]}
<1>5. 0 \in S
  BY <1>0, <1>2, <1>4 DEF IsSums, Values
<1>6. ASSUME NEW m \in 0 .. ByteSize - 1, m \in S, m < ByteSize - 1 PROVE m + 1 \in S
  <2>1. m + 1 \in Values /\ m + 1 # 0 /\ (m + 1) - 1 = m /\ m + 1 \in 1 .. ByteSize - 1
    BY <1>0, <1>6 DEF Values
  <2>2. e(K!Weight)[m + 1] = (m + 1) * c[m + 1] + K!Weight[m]
    BY <2>1
  <2>3. e(f)[m + 1] = (m + 1) * c[m + 1] + f[m]
    BY <2>1
  <2>4. K!Weight[m] = f[m]
    BY <1>6
  <2> HIDE DEF e, c
  <2>5. K!Weight[m + 1] = f[m + 1]
    BY <1>3, <1>4, <2>2, <2>3, <2>4
  <2> QED
    BY <2>1, <2>5
<1>7. ByteSize - 1 \in S
  <2> HIDE DEF S
  <2>1. \A m \in 0 .. ByteSize - 1 : m \in S
    BY <1>0, <1>5, <1>6, OneByOne
  <2> QED
    BY <1>0, <2>1
<1>8. f[ByteSize - 1] \in Nat
  BY <1>0, <1>2 DEF IsSums
<1> QED
  BY <1>2, <1>7, <1>8 DEF K!Total

-----------------------------------------------------------------------------
(* InCksum: the accumulator.                                               *)

LEMMA WordBound ==
  ASSUME Ranges, NEW x \in Values, NEW y \in Values
  PROVE  /\ x + ByteSize * y \in 0 .. K!WordSize - 1
         /\ x \in 0 .. K!WordSize - 1
         /\ K!WordSize \in Nat /\ K!WordSize >= 4
<1>1. /\ ByteSize \in Nat /\ ByteSize >= 2 /\ x \in Nat /\ y \in Nat
      /\ x <= ByteSize - 1 /\ y <= ByteSize - 1
  BY DEF Ranges, Values
<1>2. \A b, u, v \in Nat : u <= v => b * u <= b * v /\ b * u \in Nat
  OBVIOUS
<1>3. \A b \in Nat : b >= 2 => b * (b - 1) = b * b - b /\ b * b >= b + b /\ b * b \in Nat
  <2> TAKE b \in Nat
  <2> HAVE b >= 2
  <2>1. b * 2 <= b * b
    BY <1>2
  <2> QED
    BY <2>1
<1>4. ByteSize * y <= ByteSize * (ByteSize - 1) /\ ByteSize * y \in Nat
  BY <1>1, <1>2
<1>5. /\ ByteSize * (ByteSize - 1) = ByteSize * ByteSize - ByteSize
      /\ ByteSize * ByteSize >= ByteSize + ByteSize /\ ByteSize * ByteSize \in Nat
  BY <1>1, <1>3
<1> DEFINE W == ByteSize * ByteSize
           t == ByteSize * y
<1>6. W \in Nat /\ t \in Nat /\ t <= W - ByteSize /\ W >= ByteSize + ByteSize
  BY <1>1, <1>4, <1>5
<1> HIDE DEF W, t
<1>7. x + t \in 0 .. W - 1 /\ x \in 0 .. W - 1 /\ W >= 4
  BY <1>1, <1>6
<1> QED
  BY <1>6, <1>7 DEF W, t, K!WordSize

\* The accumulator is wide enough.
LEMMA NoOverflow ==
  ASSUME Ranges, NEW q \in Nat, 2 * q + 1 <= MaxLen, NEW s \in Nat, NEW v \in 0 .. K!WordSize - 1,
         s <= q * (K!WordSize - 1)
  PROVE  /\ (s + v) % K!SumSize = s + v
         /\ s + v <= (q + 1) * (K!WordSize - 1)
         /\ s + v \in 0 .. K!SumSize - 1
<1> DEFINE W == K!WordSize
<1>1. W \in Nat /\ W >= 4
  BY WordBound DEF Ranges, Values
<1>2. q <= W
  BY <1>1 DEF Ranges
<1> HIDE DEF W
<1>3. \A b, u, x \in Nat : u <= x => u * b <= x * b /\ (u + 1) * b = u * b + b /\ u * b \in Nat
  OBVIOUS
<1>4. q * (W - 1) <= W * (W - 1) /\ (q + 1) * (W - 1) = q * (W - 1) + (W - 1)
  BY <1>1, <1>2, <1>3
<1>5. W * (W - 1) = W * W - W /\ W * W \in Nat
  BY <1>1
<1>6. s <= q * (W - 1) /\ v \in 0 .. W - 1
  BY DEF W
<1> DEFINE p == q * (W - 1)
           S == W * W
<1>7. /\ s <= p /\ p <= S - W /\ S \in Nat /\ (q + 1) * (W - 1) = p + (W - 1)
  BY <1>4, <1>5, <1>6
<1>8. p \in Nat
  BY <1>1, <1>3
<1> HIDE DEF p, S
<1>9. s + v \in 0 .. S - 1 /\ s + v <= p + (W - 1)
  BY <1>1, <1>6, <1>7, <1>8
<1>10. \A m \in Nat : \A a \in 0 .. m - 1 : a % m = a
  OBVIOUS
<1>11. (s + v) % S = s + v
  BY <1>7, <1>9, <1>10
<1> QED
  BY <1>7, <1>9, <1>11 DEF S, W, K!SumSize

\* Folding the carries back and complementing.
LEMMA Folded ==
  ASSUME Ranges, NEW s \in 0 .. K!SumSize - 1, NEW a,
         a = K!WordSize - 1 - (K!AddCarry(K!Fold(s)) % K!WordSize)
  PROVE  /\ a \in 0 .. K!WordSize - 1
         /\ K!AddCarry(K!Fold(s)) \in 0 .. K!SumSize - 1
         /\ (s + a) % (K!WordSize - 1) = 0
         /\ a = K!WordSize - 1 <=> s = 0
<1> DEFINE W == K!WordSize
           h == s \div W
           l == s % W
           t == K!AddCarry(K!Fold(s))
<1>1. W \in Nat /\ W >= 4
  BY WordBound DEF Ranges, Values
<1>2. s \in 0 .. W * W - 1
  BY DEF K!SumSize
<1> HIDE DEF W
<1>3. /\ h \in Int /\ l \in 0 .. W - 1 /\ s = W * h + l
  BY <1>1, <1>2
<1>4. h \in 0 .. W - 1
  <2>1. ASSUME h < 0 PROVE FALSE
    <3>1. \A x, y \in Int : x >= 0 /\ y <= -1 => x * y <= -x
      OBVIOUS
    <3>2. W * h <= -W
      BY <1>1, <1>3, <2>1, <3>1
    <3> QED
      BY <1>1, <1>2, <1>3, <3>2
  <2>2. ASSUME h >= W PROVE FALSE
    <3>1. \A x, y \in Int : x >= 0 /\ y >= x => x * y >= x * x
      OBVIOUS
    <3>2. W * h >= W * W
      BY <1>1, <1>3, <2>2, <3>1
    <3> QED
      BY <1>1, <1>2, <1>3, <3>2
  <2> QED
    BY <1>1, <1>3, <2>1, <2>2
<1>5. t = (h + l) + ((h + l) \div W)
  BY DEF K!AddCarry, K!Fold, W
<1>6. a = W - 1 - (t % W)
  BY DEF W
<1>7. W * W >= 4 * W
  BY <1>1
<1> HIDE DEF h, l, t
<1>8. \A m, x, k \in Int : m > 0 /\ x >= 0 /\ x < m => (k * m + x) % m = x /\ (k * m + x) \div m = k
  OBVIOUS
<1>9. CASE h + l < W
  <2>1. (h + l) \div W = 0
    BY <1>1, <1>3, <1>4, <1>9
  <2>2. t = h + l /\ t % W = h + l
    BY <1>1, <1>3, <1>4, <1>5, <1>9, <2>1
  <2>3. a = W - 1 - (h + l)
    BY <1>6, <2>2
  <2>4. s + a = (h + 1) * (W - 1)
    BY <1>1, <1>3, <1>4, <2>3
  <2>5. (s + a) % (W - 1) = 0
    <3>1. ((h + 1) * (W - 1) + 0) % (W - 1) = 0
      BY <1>1, <1>4, <1>8
    <3> QED
      BY <1>1, <1>4, <2>4, <3>1
  <2>6. a = W - 1 <=> h = 0 /\ l = 0
    BY <1>1, <1>3, <1>4, <2>3
  <2>7. s = 0 <=> h = 0 /\ l = 0
    <3>1. \A x, y \in Nat : x >= 1 /\ y >= 1 => x * y >= 1
      OBVIOUS
    <3> QED
      BY <1>1, <1>3, <1>4, <3>1
  <2>8. a \in 0 .. W - 1 /\ t \in 0 .. W * W - 1
    BY <1>1, <1>3, <1>4, <1>7, <1>9, <2>2, <2>3
  <2> QED
    BY <2>5, <2>6, <2>7, <2>8 DEF W, t, K!SumSize
<1>10. CASE h + l >= W
  <2>1. (h + l) \div W = 1
    BY <1>1, <1>3, <1>4, <1>10
  <2>2. t = h + l + 1
    BY <1>3, <1>4, <1>5, <2>1
  <2>3. t % W = h + l + 1 - W
    BY <1>1, <1>3, <1>4, <1>10, <2>2
  <2>4. a = W + W - 2 - (h + l)
    BY <1>1, <1>3, <1>4, <1>6, <2>3
  <2>5. s + a = (h + 2) * (W - 1)
    BY <1>1, <1>3, <1>4, <2>4
  <2>6. (s + a) % (W - 1) = 0
    <3>1. ((h + 2) * (W - 1) + 0) % (W - 1) = 0
      BY <1>1, <1>4, <1>8
    <3> QED
      BY <1>1, <1>4, <2>5, <3>1
  <2>7. a # W - 1 /\ s # 0
    <3>1. a # W - 1
      BY <1>1, <1>3, <1>4, <1>10, <2>4
    <3>2. s # 0
      <4>1. h # 0
        BY <1>1, <1>3, <1>10
      <4>2. \A x, y \in Nat : x >= 1 /\ y >= 1 => x * y >= 1
        OBVIOUS
      <4>3. W * h >= 1
        BY <1>1, <1>4, <4>1, <4>2
      <4> QED
        BY <1>1, <1>3, <1>4, <4>3
    <3> QED
      BY <3>1, <3>2
  <2>8. a \in 0 .. W - 1 /\ t \in 0 .. W * W - 1
    BY <1>1, <1>3, <1>4, <1>7, <1>10, <2>2, <2>4
  <2> QED
    BY <2>6, <2>7, <2>8 DEF W, t, K!SumSize
<1>11. h + l < W \/ h + l >= W
  BY <1>1, <1>3, <1>4
<1> QED
  BY <1>9, <1>10, <1>11

-----------------------------------------------------------------------------
(* InCksum: the answer is the checksum.                                    *)

Summed == SumTo(Len(addr) - cnleft, sum)

\* Between words, an even number of bytes is added, each pair at most a word.
InWords == \E q \in Nat : Len(addr) - cnleft = 2 * q /\ sum <= q * (K!WordSize - 1)

KInv ==
  /\ K!TypeOK /\ K!ChecksumCorrect
  /\ ckpc \in {"add", "fold"} => Summed
  /\ ckpc = "add" /\ cnleft > 0 => InWords
  /\ ckpc = "fold" => cnleft = 0

LEMMA MessageTyped ==
  ASSUME Ranges, addr \in K!Messages
  PROVE  Message /\ Len(addr) \in Nat /\ Len(addr) <= MaxLen
<1>1. PICK n \in 0 .. MaxLen : addr \in [1 .. n -> Values]
  BY DEF K!Messages, Values
<1>2. n \in Nat
  BY DEF Ranges
<1>3. Message
  BY <1>1, <1>2 DEF Message
<1>4. Len(addr) = n
  BY <1>1, <1>2, <1>3, LenProperties DEF Message
<1> QED
  BY <1>2, <1>3, <1>4 DEF Ranges

\* Other bytes added, of the same message.
LEMMA SummedAgain ==
  ASSUME addr' = addr, SumTo(Len(addr) - cnleft', sum')
  PROVE  Summed'
  BY DEF Summed, SumTo, Counts, At, IsSums, Values

LEMMA KInvInit == ASSUME Ranges, K!Init PROVE KInv
<1>1. Message /\ Len(addr) \in Nat
  BY MessageTyped DEF K!Init
<1>2. ByteSize \in Nat /\ K!WordSize \in Nat /\ K!WordSize >= 4 /\ K!SumSize \in Nat /\ K!SumSize >= 1
  <2>1. K!WordSize \in Nat /\ K!WordSize >= 4
    BY WordBound DEF Ranges, Values
  <2>2. \A m \in Nat : m >= 4 => m * m \in Nat /\ m * m >= 1
    OBVIOUS
  <2> QED
    BY <2>1, <2>2 DEF K!SumSize, Ranges
<1>3. K!TypeOK
  BY <1>1, <1>2 DEF K!Init, K!TypeOK
<1>4. Summed
  BY <1>1, SumBegins DEF K!Init, Summed
<1>5. InWords
  <2>1. 0 <= 0 * (K!WordSize - 1) /\ Len(addr) - cnleft = 2 * 0
    BY <1>1, <1>2 DEF K!Init
  <2> QED
    BY <2>1 DEF K!Init, InWords
<1> QED
  BY <1>3, <1>4, <1>5 DEF K!Init, KInv, K!ChecksumCorrect

LEMMA KInvAddWord == ASSUME Ranges, KInv, K!AddWord PROVE KInv'
<1> DEFINE W == K!WordSize
           j == Len(addr) - cnleft
           x == addr[j + 1]
           y == addr[j + 2]
<1>1. /\ ckpc = "add" /\ cnleft > 1 /\ addr' = addr /\ ckpc' = ckpc /\ answer' = answer
      /\ cnleft' = cnleft - 2 /\ sum' = (sum + K!Word(K!w)) % K!SumSize
  BY DEF K!AddWord
<1>2. Message /\ Len(addr) \in Nat /\ Len(addr) <= MaxLen
  BY MessageTyped DEF KInv, K!TypeOK
<1>3. cnleft \in 0 .. Len(addr) /\ j \in Nat /\ j + 2 <= Len(addr) /\ sum \in Nat
  <2>1. cnleft \in 0 .. Len(addr) /\ sum \in Nat
    BY DEF KInv, K!TypeOK
  <2> QED
    BY <1>1, <1>2, <2>1
<1>4. PICK q \in Nat : j = 2 * q /\ sum <= q * (W - 1)
  <2>1. cnleft > 0
    BY <1>1, <1>3
  <2> QED
    BY <1>1, <2>1 DEF KInv, InWords
<1>5. SumTo(j, sum)
  BY <1>1 DEF KInv, Summed
<1>6. SumTo(j + 1, sum + x * Factor(j + 1)) /\ x \in Values
  BY <1>2, <1>3, <1>5, SumStep, CountsStep
<1>7. SumTo(j + 2, (sum + x * Factor(j + 1)) + y * Factor(j + 2)) /\ y \in Values
  <2>1. (j + 1) + 1 = j + 2 /\ j + 1 \in Nat
    BY <1>3
  <2> DEFINE i == j + 1
             r == sum + x * Factor(j + 1)
  <2>2. i \in Nat /\ i + 1 <= Len(addr) /\ SumTo(i, r)
    BY <1>3, <1>6, <2>1
  <2> HIDE DEF i, r
  <2>3. SumTo(i + 1, r + addr[i + 1] * Factor(i + 1)) /\ addr[i + 1] \in Values
    BY <1>2, <2>2, SumStep, CountsStep
  <2> QED
    BY <2>1, <2>3 DEF i, r
<1>8. Factor(j + 1) = 1 /\ Factor(j + 2) = ByteSize
  BY <1>4 DEF Factor
<1>9. K!Word(K!w) = x + ByteSize * y
  BY <1>2, <1>3 DEF K!Word, K!w
<1>10. x + ByteSize * y \in 0 .. W - 1
  BY <1>6, <1>7, WordBound
<1>11. 2 * q + 1 <= MaxLen
  <2> HIDE DEF j
  <2> QED
    BY <1>2, <1>3, <1>4 DEF Ranges
<1> DEFINE v == x + ByteSize * y
<1>12. /\ (sum + v) % K!SumSize = sum + v /\ sum + v <= (q + 1) * (W - 1)
       /\ sum + v \in 0 .. K!SumSize - 1
  <2> HIDE DEF v
  <2>1. v \in 0 .. K!WordSize - 1
    BY <1>10 DEF v
  <2> QED
    BY <1>3, <1>4, <1>11, <2>1, NoOverflow
<1>13. sum' = sum + v
  BY <1>1, <1>9, <1>12
<1>14. (sum + x * Factor(j + 1)) + y * Factor(j + 2) = sum + v
  <2>1. x \in Nat /\ y \in Nat /\ ByteSize \in Nat
    BY <1>6, <1>7 DEF Values, Ranges
  <2>2. \A a, b \in Nat : a * 1 = a /\ a * b = b * a /\ b * a \in Nat
    OBVIOUS
  <2>3. x * 1 = x /\ y * ByteSize = ByteSize * y /\ ByteSize * y \in Nat
    BY <2>1, <2>2
  <2> DEFINE t == ByteSize * y
  <2>4. (sum + x * Factor(j + 1)) + y * Factor(j + 2) = (sum + x) + t /\ t \in Nat
    BY <1>8, <2>3
  <2> HIDE DEF t
  <2>5. (sum + x) + t = sum + (x + t)
    BY <1>3, <2>1, <2>4
  <2> QED
    BY <2>4, <2>5 DEF t
<1>15. Len(addr') - cnleft' = j + 2 /\ Len(addr) - cnleft' = j + 2
  BY <1>1, <1>2, <1>3
<1> HIDE DEF v
<1>16. Summed'
  BY <1>1, <1>7, <1>13, <1>14, <1>15, SummedAgain
<1>17. InWords'
  <2>1. q + 1 \in Nat /\ j + 2 = 2 * (q + 1)
    BY <1>4
  <2> HIDE DEF j
  <2>2. Len(addr') - cnleft' = 2 * (q + 1) /\ sum' <= (q + 1) * (W - 1)
    BY <1>12, <1>13, <1>15, <2>1
  <2> QED
    BY <2>1, <2>2 DEF InWords, K!WordSize
<1>18. K!TypeOK'
  <2>1. cnleft' \in 0 .. Len(addr')
    BY <1>1, <1>2, <1>3
  <2>2. sum' \in 0 .. K!SumSize - 1
    BY <1>12, <1>13
  <2> QED
    BY <1>1, <2>1, <2>2 DEF KInv, K!TypeOK, K!Messages, K!SumSize, K!WordSize
<1> QED
  BY <1>1, <1>16, <1>17, <1>18 DEF KInv, K!ChecksumCorrect

LEMMA KInvOddByte == ASSUME Ranges, KInv, K!OddByte PROVE KInv'
<1> DEFINE W == K!WordSize
           j == Len(addr) - cnleft
           x == addr[j + 1]
<1>1. /\ ckpc = "add" /\ cnleft = 1 /\ addr' = addr /\ ckpc' = ckpc /\ answer' = addr[K!w]
      /\ cnleft' = 0 /\ sum' = (sum + answer') % K!SumSize
  BY DEF K!OddByte
<1>2. Message /\ Len(addr) \in Nat /\ Len(addr) <= MaxLen
  BY MessageTyped DEF KInv, K!TypeOK
<1>3. j \in Nat /\ j + 1 = Len(addr) /\ sum \in Nat
  <2>1. cnleft \in 0 .. Len(addr) /\ sum \in Nat
    BY DEF KInv, K!TypeOK
  <2> QED
    BY <1>1, <1>2, <2>1
<1>4. PICK q \in Nat : j = 2 * q /\ sum <= q * (W - 1)
  BY <1>1 DEF KInv, InWords
<1>5. SumTo(j, sum)
  BY <1>1 DEF KInv, Summed
<1>6. SumTo(j + 1, sum + x * Factor(j + 1)) /\ x \in Values
  BY <1>2, <1>3, <1>5, SumStep, CountsStep
<1>7. x \in 0 .. W - 1
  BY <1>6, WordBound
<1>8. /\ (sum + x) % K!SumSize = sum + x /\ sum + x \in 0 .. K!SumSize - 1
  <2>1. 2 * q + 1 <= MaxLen
    BY <1>2, <1>3, <1>4
  <2> HIDE DEF x, j
  <2> QED
    BY <1>3, <1>4, <1>7, <2>1, NoOverflow
<1>9. answer' = x /\ sum' = sum + x
  BY <1>1, <1>8 DEF K!w
<1>10. x * Factor(j + 1) = x
  <2>1. Factor(j + 1) = 1
    BY <1>4 DEF Factor
  <2>2. x \in Nat
    BY <1>6 DEF Values, Ranges
  <2> QED
    BY <2>1, <2>2
<1>11. Len(addr) - cnleft' = j + 1
  BY <1>1, <1>2, <1>3
<1> HIDE DEF x
<1>12. Summed'
  BY <1>1, <1>6, <1>9, <1>10, <1>11, SummedAgain
<1>13. K!TypeOK'
  <2>1. cnleft' \in 0 .. Len(addr')
    BY <1>1, <1>2
  <2>2. sum' \in 0 .. K!SumSize - 1 /\ answer' \in 0 .. W - 1
    BY <1>7, <1>8, <1>9
  <2> QED
    BY <1>1, <2>1, <2>2 DEF KInv, K!TypeOK, K!Messages, K!SumSize, K!WordSize
<1> QED
  BY <1>1, <1>12, <1>13 DEF KInv, K!ChecksumCorrect

LEMMA KInvEndAdd == ASSUME Ranges, KInv, K!EndAdd PROVE KInv'
<1>1. /\ ckpc = "add" /\ cnleft = 0 /\ ckpc' = "fold"
      /\ addr' = addr /\ cnleft' = cnleft /\ sum' = sum /\ answer' = answer
  BY DEF K!EndAdd
<1>2. Summed'
  BY <1>1, SummedAgain DEF KInv, Summed
<1>3. K!TypeOK'
  BY <1>1 DEF KInv, K!TypeOK, K!Messages, K!SumSize, K!WordSize
<1> QED
  BY <1>1, <1>2, <1>3 DEF KInv, K!ChecksumCorrect

LEMMA KInvFinish == ASSUME Ranges, KInv, K!Finish PROVE KInv'
<1>1. /\ ckpc = "fold" /\ cnleft = 0 /\ ckpc' = "done" /\ addr' = addr /\ cnleft' = cnleft
      /\ sum' = K!AddCarry(K!Fold(sum)) /\ answer' = K!WordSize - 1 - (sum' % K!WordSize)
  BY DEF K!Finish, KInv
<1>2. Message /\ Len(addr) \in Nat
  BY MessageTyped DEF KInv, K!TypeOK
<1>3. sum = K!Total
  <2>1. Len(addr) - cnleft = Len(addr)
    BY <1>1, <1>2
  <2>2. SumTo(Len(addr), sum)
    BY <1>1, <2>1 DEF KInv, Summed
  <2> QED
    BY <1>2, <2>2, SumIsTotal
<1>4. /\ answer' \in 0 .. K!WordSize - 1 /\ sum' \in 0 .. K!SumSize - 1
      /\ (sum + answer') % (K!WordSize - 1) = 0
      /\ answer' = K!WordSize - 1 <=> sum = 0
  <2>1. sum \in 0 .. K!SumSize - 1
    BY DEF KInv, K!TypeOK
  <2> QED
    BY <1>1, <2>1, Folded
<1>5. K!Total' = K!Total
  BY <1>1 DEF K!Total, K!Weight, K!Places
<1>6. K!TypeOK'
  BY <1>1, <1>4 DEF KInv, K!TypeOK, K!Messages, K!SumSize, K!WordSize
<1>7. K!ChecksumCorrect'
  BY <1>3, <1>4, <1>5 DEF K!ChecksumCorrect, K!WordSize
<1> QED
  BY <1>1, <1>6, <1>7 DEF KInv

LEMMA KInvStep == ASSUME Ranges, KInv, [K!Next]_K!vars PROVE KInv'
<1>1. CASE UNCHANGED K!vars
  <2>1. addr' = addr /\ cnleft' = cnleft /\ sum' = sum /\ answer' = answer /\ ckpc' = ckpc
    BY <1>1 DEF K!vars
  <2>2. Summed' = Summed /\ InWords' = InWords
    BY <2>1 DEF Summed, SumTo, Counts, At, IsSums, Values, InWords, K!WordSize
  <2>3. K!ChecksumCorrect' = K!ChecksumCorrect
    BY <2>1 DEF K!ChecksumCorrect, K!Total, K!Weight, K!Places, K!WordSize
  <2>4. K!TypeOK' = K!TypeOK
    BY <2>1 DEF K!TypeOK, K!Messages, K!SumSize, K!WordSize
  <2> QED
    BY <2>1, <2>2, <2>3, <2>4 DEF KInv
<1> QED
  BY <1>1, KInvAddWord, KInvOddByte, KInvEndAdd, KInvFinish DEF K!Next

LEMMA ChecksumInv ==
  ASSUME Ranges
  PROVE  K!Init /\ [][K!Next]_(K!vars) => []KInv
<1>1. K!Init => KInv
  BY KInvInit
<1>2. KInv /\ [K!Next]_K!vars => KInv'
  BY KInvStep
<1> QED
  BY <1>1, <1>2, PTL

\* The checksum is right: it adds up with the message to a multiple of the
\* largest word, and is all ones for a message of zeros only.
THEOREM ChecksumRight ==
  ASSUME Ranges
  PROVE  K!Init /\ [][K!Next]_(K!vars) => []K!ChecksumCorrect
  BY ChecksumInv, PTL DEF KInv

-----------------------------------------------------------------------------
(* The connection and the server, whichever client there is.               *)

\* What the connection and the server hold, in the order in which it will come
\* back.
Between == Then(Then(toCli, sbuf), toSrv)

\* The types, and what the server's place in its loop says.
SrvInv ==
  /\ SrvTypeOK
  /\ spc \in {"read", "exit"} => sbuf = <<>>
  /\ finCli => spc \in {"exit", "killed"}
  /\ spc = "exit" => finSrv

LEMMA BetweenTyped ==
  ASSUME SrvTypeOK
  PROVE  /\ toCli \in Seq(Bytes) /\ sbuf \in Seq(Bytes) /\ toSrv \in Seq(Bytes)
         /\ Then(toCli, sbuf) \in Seq(Bytes) /\ Between \in Seq(Bytes) /\ <<>> \in Seq(Bytes)
         /\ Len(toCli) \in Nat /\ Len(sbuf) \in Nat /\ Len(toSrv) \in Nat
<1>1. toCli \in Seq(Bytes) /\ sbuf \in Seq(Bytes) /\ toSrv \in Seq(Bytes) /\ <<>> \in Seq(Bytes)
  BY DEF SrvTypeOK, Bytes
<1>2. Then(toCli, sbuf) \in Seq(Bytes)
  BY <1>1, ThenFacts
<1> QED
  BY <1>1, <1>2, ThenFacts, LenProperties DEF Between

\* The server moves bytes along, keeps their order and loses them only with
\* its life.
LEMMA ServerMoves ==
  ASSUME SrvInv, SrvStep \/ SrvKilled
  PROVE  SrvInv' /\ UNCHANGED finSrv /\ (spc' # "killed" => spc # "killed" /\ Between' = Between)
<1> USE EchoAssumption DEF SrvInv
<1>0. /\ toCli \in Seq(Bytes) /\ sbuf \in Seq(Bytes) /\ toSrv \in Seq(Bytes) /\ <<>> \in Seq(Bytes)
      /\ Len(toCli) \in Nat /\ Len(sbuf) \in Nat /\ Len(toSrv) \in Nat /\ Bytes = 1 .. InputLen
  BY BetweenTyped DEF Bytes
<1>1. CASE SrvRead
  <2>1. PICK n \in Readable(Len(toSrv), MAXLINE) : sbuf' = First(n, toSrv) /\ toSrv' = Rest(n, toSrv)
    BY <1>1 DEF SrvRead
  <2>2. n \in 1 .. Len(toSrv) /\ n <= MAXLINE /\ n \in Nat
    BY <1>0, ReadableFacts
  <2>3. /\ sbuf' \in Seq(Bytes) /\ toSrv' \in Seq(Bytes)
        /\ Len(sbuf') = n /\ Len(toSrv') = Len(toSrv) - n
    BY ZenonT(60), <1>0, <2>1, <2>2, Split
  <2>4. Len(sbuf') <= MAXLINE /\ Len(toSrv') <= SendCap
    BY <1>0, <2>2, <2>3 DEF SrvTypeOK
  <2>5. SrvInv' /\ UNCHANGED finSrv
    BY <1>0, <1>1, <2>3, <2>4 DEF SrvRead, SrvTypeOK
  <2>6. Then(toCli, <<>>) = toCli /\ sbuf = <<>> /\ toCli' = toCli
    BY <1>0, <1>1, ThenFacts DEF SrvRead
  <2>7. Then(Then(toCli, First(n, toSrv)), Rest(n, toSrv)) = Then(toCli, toSrv)
    BY SMTT(30), <1>0, <2>2, Moved
  <2>8. Between' = Between
    BY <2>1, <2>6, <2>7 DEF Between
  <2> QED
    BY <1>1, <2>5, <2>8 DEF SrvRead
<1>2. CASE SrvWrite
  <2>1. PICK n \in Readable(Len(sbuf), SendCap - Len(toCli)) :
          /\ toCli' = Then(toCli, First(n, sbuf)) /\ sbuf' = Rest(n, sbuf)
          /\ spc' = IF sbuf' = <<>> THEN "read" ELSE "write"
    BY <1>2 DEF SrvWrite, Then
  <2>2. n \in 1 .. Len(sbuf) /\ n \in Nat /\ n <= SendCap - Len(toCli)
    BY <1>0, ReadableFacts
  <2>3. /\ First(n, sbuf) \in Seq(Bytes) /\ Len(First(n, sbuf)) = n
        /\ sbuf' \in Seq(Bytes) /\ Len(sbuf') = Len(sbuf) - n
    BY ZenonT(60), <1>0, <2>1, <2>2, Split
  <2>4. toCli' \in Seq(Bytes) /\ Len(toCli') = Len(toCli) + n
    <3> DEFINE f == First(n, sbuf)
    <3>1. f \in Seq(Bytes) /\ Len(f) = n
      BY <2>3
    <3>2. toCli' = Then(toCli, f)
      BY <2>1
    <3> HIDE DEF f
    <3>3. Then(toCli, f) \in Seq(Bytes) /\ Len(Then(toCli, f)) = Len(toCli) + Len(f)
      <4>1. toCli \in Seq(Bytes)
        BY <1>0
      <4> QED
        BY <3>1, <4>1, Bytewise
    <3> QED
      BY <3>1, <3>2, <3>3
  <2>5. Len(sbuf') <= MAXLINE /\ Len(toCli') <= SendCap
    BY <1>0, <2>2, <2>3, <2>4 DEF SrvTypeOK
  <2>6. SrvInv' /\ UNCHANGED finSrv
    BY <1>0, <1>2, <2>1, <2>3, <2>4, <2>5 DEF SrvWrite, SrvTypeOK
  <2>7. Then(Then(toCli, First(n, sbuf)), Rest(n, sbuf)) = Then(toCli, sbuf)
    BY SMTT(30), <1>0, <2>2, Moved
  <2>8. Between' = Between
    BY <1>2, <2>1, <2>7 DEF Between, SrvWrite
  <2> QED
    BY <1>2, <2>6, <2>8 DEF SrvWrite
<1>3. CASE SrvExit
  BY <1>0, <1>3 DEF SrvExit, SrvTypeOK, Between
<1>4. CASE SrvKilled
  BY <1>0, <1>4 DEF SrvKilled, SrvTypeOK
<1> QED
  BY <1>1, <1>2, <1>3, <1>4 DEF SrvStep

\* A read of the client takes from the front, a write puts behind.
LEMMA ClientMoves ==
  ASSUME SrvTypeOK, NEW x \in Seq(Bytes), NEW t \in Seq(Bytes)
  PROVE  /\ \A n \in 1 .. Len(toCli) :
              Then(Then(x, First(n, toCli)), Then(Then(Rest(n, toCli), sbuf), toSrv))
                = Then(x, Between)
         /\ Then(Then(toCli, sbuf), Then(toSrv, t)) = Then(Between, t)
         /\ Then(Then(Then(x, toCli), sbuf), toSrv) = Then(x, Between)
<1>0. /\ toCli \in Seq(Bytes) /\ sbuf \in Seq(Bytes) /\ toSrv \in Seq(Bytes)
      /\ Then(toCli, sbuf) \in Seq(Bytes) /\ Between \in Seq(Bytes)
  BY BetweenTyped
<1>1. ASSUME NEW y \in Seq(Bytes), NEW z \in Seq(Bytes)
      PROVE  Then(Then(Then(z, y), sbuf), toSrv) = Then(z, Then(Then(y, sbuf), toSrv))
  <2>1. Then(y, sbuf) \in Seq(Bytes)
    BY <1>0, ThenFacts
  <2>2. Then(Then(z, y), sbuf) = Then(z, Then(y, sbuf))
    BY <1>0, ThenAssociative
  <2> QED
    BY <1>0, <2>1, <2>2, ThenAssociative
<1>2. ASSUME NEW n \in 1 .. Len(toCli)
      PROVE  Then(Then(x, First(n, toCli)), Then(Then(Rest(n, toCli), sbuf), toSrv))
               = Then(x, Between)
  <2>1. First(n, toCli) \in Seq(Bytes) /\ Rest(n, toCli) \in Seq(Bytes)
    BY SMTT(30), <1>0, Split
  <2>2. Then(x, First(n, toCli)) \in Seq(Bytes)
    BY <2>1, ThenFacts
  <2>3. Then(Then(x, First(n, toCli)), Rest(n, toCli)) = Then(x, toCli)
    BY SMTT(30), <1>0, Moved
  <2>4. Then(Then(x, First(n, toCli)), Then(Then(Rest(n, toCli), sbuf), toSrv))
          = Then(Then(Then(x, toCli), sbuf), toSrv)
    BY <1>1, <2>1, <2>2, <2>3
  <2> QED
    BY <1>0, <1>1, <2>4 DEF Between
<1>3. Then(Then(toCli, sbuf), Then(toSrv, t)) = Then(Between, t)
  BY <1>0, ThenAssociative DEF Between
<1>4. Then(Then(Then(x, toCli), sbuf), toSrv) = Then(x, Between)
  BY <1>0, <1>1 DEF Between
<1> QED
  BY <1>2, <1>3, <1>4

-----------------------------------------------------------------------------
(* StrCliNonblock: the buffers.                                            *)

Buffers2 == [N!Index -> 0 .. InputLen]
Filled(b, o, i) == \A j \in N!Index : o <= j /\ j < i => b[j] \in Bytes

LEMMA HeldAt ==
  ASSUME NEW b, NEW o, NEW i, NEW k \in 1 .. i - o
  PROVE  N!Held(b, o, i)[k] = b[o + k - 1]
  BY DEF N!Held

LEMMA HeldTyped ==
  ASSUME NEW b, NEW o \in N!Ptrs, NEW i \in N!Ptrs, o <= i, Filled(b, o, i)
  PROVE  N!Held(b, o, i) \in Seq(Bytes) /\ Len(N!Held(b, o, i)) = i - o
<1> USE EchoAssumption DEF N!Ptrs, N!Index, Filled
<1>1. i - o \in Nat
  OBVIOUS
<1>2. \A k \in 1 .. i - o : b[o + k - 1] \in Bytes
  <2> TAKE k \in 1 .. i - o
  <2>1. o + k - 1 \in 0 .. MAXLINE - 1 /\ o <= o + k - 1 /\ o + k - 1 < i
    OBVIOUS
  <2> QED
    BY <2>1
<1>3. N!Held(b, o, i) \in [1 .. i - o -> Bytes]
  BY <1>2 DEF N!Held
<1> QED
  BY <1>1, <1>3

\* A write takes k bytes from the front of a buffer.
LEMMA HeldCut ==
  ASSUME NEW b, NEW o \in N!Ptrs, NEW i \in N!Ptrs, o <= i, Filled(b, o, i),
         NEW m \in 1 .. i - o
  PROVE  LET c == [j \in 1 .. m |-> b[o + j - 1]]
         IN /\ c \in Seq(Bytes) /\ N!Held(b, o + m, i) \in Seq(Bytes)
            /\ Then(c, N!Held(b, o + m, i)) = N!Held(b, o, i)
<1> USE EchoAssumption
<1> DEFINE c == [j \in 1 .. m |-> b[o + j - 1]]
           d == N!Held(b, o + m, i)
           e == N!Held(b, o, i)
<1>0. /\ o \in Nat /\ i \in Nat /\ m \in Nat /\ o + m \in N!Ptrs /\ o + m <= i /\ i - o \in Nat
      /\ o <= o + m
      /\ i - (o + m) \in Nat /\ o + m - o = m /\ Filled(b, o + m, i) /\ Filled(b, o, o + m)
  BY DEF N!Ptrs, Filled, N!Index
<1>1. e \in Seq(Bytes) /\ Len(e) = i - o /\ d \in Seq(Bytes) /\ Len(d) = i - (o + m)
  BY <1>0, HeldTyped
<1>2. c = N!Held(b, o, o + m)
  BY <1>0 DEF N!Held
<1>3. c \in Seq(Bytes) /\ Len(c) = m
  <2>1. N!Held(b, o, o + m) \in Seq(Bytes) /\ Len(N!Held(b, o, o + m)) = o + m - o
    BY <1>0, HeldTyped
  <2> HIDE DEF c
  <2> QED
    BY <1>0, <1>2, <2>1
<1>4. \A k \in 1 .. i - o : e[k] = b[o + k - 1]
  BY DEF N!Held
<1>5. \A k \in 1 .. i - (o + m) : d[k] = b[o + m + k - 1]
  BY DEF N!Held
<1>6. \A k \in 1 .. m : c[k] = b[o + k - 1]
  OBVIOUS
<1> HIDE DEF c, d, e
<1>7. /\ Then(c, d) \in Seq(Bytes) /\ Len(Then(c, d)) = Len(c) + Len(d)
      /\ \A k \in 1 .. Len(c) + Len(d) :
           Then(c, d)[k] = IF k <= Len(c) THEN c[k] ELSE d[k - Len(c)]
  BY <1>1, <1>3, ConcatProperties DEF Then
<1>8. Len(Then(c, d)) = Len(e)
  BY <1>0, <1>1, <1>3, <1>7
<1>9. ASSUME NEW k \in 1 .. Len(e) PROVE Then(c, d)[k] = e[k]
  <2>1. k \in Nat /\ k \in 1 .. i - o /\ k \in 1 .. Len(c) + Len(d)
    BY <1>0, <1>1, <1>3
  <2>2. CASE k <= m
    BY <1>3, <1>4, <1>6, <1>7, <2>1, <2>2
  <2>3. CASE ~(k <= m)
    <3>1. k - m \in 1 .. i - (o + m) /\ o + m + (k - m) - 1 = o + k - 1
      BY <1>0, <2>1, <2>3
    <3>2. d[k - m] = b[o + k - 1]
      BY <1>5, <3>1
    <3> QED
      BY <1>3, <1>4, <1>7, <2>1, <2>3, <3>2
  <2> QED
    BY <2>2, <2>3
<1>10. Then(c, d) = e
  BY <1>1, <1>7, <1>8, <1>9, SeqEqual
<1> QED
  BY <1>1, <1>3, <1>10 DEF c, d, e

ReadInto(b, i, m, s) ==
  [j \in N!Index |-> IF j \in i .. i + m - 1 THEN s[j - i + 1] ELSE b[j]]

\* A read puts the bytes s behind those that a buffer holds.
LEMMA HeldFilled ==
  ASSUME NEW b \in Buffers2, NEW o \in N!Ptrs, NEW i \in N!Ptrs, o <= i, Filled(b, o, i),
         NEW s \in Seq(Bytes), NEW m \in Nat, Len(s) = m, i + m <= MAXLINE, NEW c,
         c = ReadInto(b, i, m, s)
  PROVE  c \in Buffers2 /\ Filled(c, o, i + m) /\ N!Held(c, o, i + m) = Then(N!Held(b, o, i), s)
<1> USE EchoAssumption
<1>0. /\ o \in Nat /\ i \in Nat /\ i + m \in N!Ptrs /\ o <= i + m /\ i - o \in Nat
      /\ i + m - o = (i - o) + m
  BY DEF N!Ptrs
<1>1. \A k \in 1 .. m : s[k] \in Bytes
  BY ElementOfSeq
<1>2. \A j \in N!Index : c[j] = IF i <= j /\ j < i + m THEN s[j - i + 1] ELSE b[j]
  BY <1>0 DEF N!Index, ReadInto
<1>3. ASSUME NEW j \in N!Index, i <= j, j < i + m PROVE s[j - i + 1] \in Bytes
  <2>1. j - i + 1 \in 1 .. m
    BY <1>0, <1>3 DEF N!Index
  <2> QED
    BY <1>1, <2>1
<1>4. c \in Buffers2
  <2>0. DOMAIN c = N!Index /\ c = [j \in N!Index |-> c[j]]
    BY DEF ReadInto
  <2>1. \A j \in N!Index : c[j] \in 0 .. InputLen
    BY <1>2, <1>3 DEF Buffers2, Bytes
  <2> QED
    BY <2>0, <2>1 DEF Buffers2
<1>5. Filled(c, o, i + m)
  <2> SUFFICES ASSUME NEW j \in N!Index, o <= j, j < i + m PROVE c[j] \in Bytes
    BY DEF Filled
  <2>1. CASE i <= j
    BY <1>2, <1>3, <2>1
  <2>2. CASE ~(i <= j)
    BY <1>0, <1>2, <2>2 DEF Filled, N!Index
  <2> QED
    BY <2>1, <2>2
<1> DEFINE h == N!Held(b, o, i)
           g == N!Held(c, o, i + m)
<1>6. h \in Seq(Bytes) /\ Len(h) = i - o /\ g \in Seq(Bytes) /\ Len(g) = i + m - o
  BY <1>0, <1>5, HeldTyped
<1>7. /\ \A k \in 1 .. i - o : h[k] = b[o + k - 1]
      /\ \A k \in 1 .. i + m - o : g[k] = c[o + k - 1]
  <2>1. ASSUME NEW k \in 1 .. i - o PROVE h[k] = b[o + k - 1]
    BY HeldAt
  <2>2. ASSUME NEW k \in 1 .. i + m - o PROVE g[k] = c[o + k - 1]
    <3> DEFINE e == i + m
    <3>1. k \in 1 .. e - o
      BY <1>0
    <3>2. g = N!Held(c, o, e)
      OBVIOUS
    <3> HIDE DEF e, g
    <3> QED
      BY <3>1, <3>2, HeldAt
  <2> QED
    BY <2>1, <2>2
<1> HIDE DEF h, g
<1>8. /\ Then(h, s) \in Seq(Bytes) /\ Len(Then(h, s)) = Len(h) + Len(s)
      /\ \A k \in 1 .. Len(h) + Len(s) :
           Then(h, s)[k] = IF k <= Len(h) THEN h[k] ELSE s[k - Len(h)]
  BY <1>6, ConcatProperties DEF Then
<1>9. ASSUME NEW k \in 1 .. Len(g) PROVE g[k] = Then(h, s)[k]
  <2>1. /\ k \in Nat /\ k \in 1 .. i + m - o /\ k \in 1 .. Len(h) + Len(s)
        /\ o + k - 1 \in N!Index
    BY <1>0, <1>6 DEF N!Index, N!Ptrs
  <2>2. CASE k <= i - o
    <3>1. k \in 1 .. i - o /\ ~(i <= o + k - 1)
      BY <1>0, <2>1, <2>2
    <3>2. g[k] = b[o + k - 1]
      <4>1. g[k] = c[o + k - 1]
        BY <1>7, <2>1
      <4>2. c[o + k - 1] = b[o + k - 1]
        BY <1>2, <2>1, <3>1
      <4> QED
        BY <4>1, <4>2
    <3> QED
      BY <1>6, <1>7, <1>8, <2>1, <2>2, <3>1, <3>2
  <2>3. CASE ~(k <= i - o)
    <3>1. i <= o + k - 1 /\ o + k - 1 < i + m /\ o + k - 1 - i + 1 = k - (i - o)
      BY <1>0, <2>1, <2>3
    <3>2. g[k] = s[k - (i - o)]
      <4> DEFINE p == o + k - 1
                 q == p - i + 1
      <4>0. g[k] = c[p]
        BY <1>7, <2>1
      <4>1. p \in N!Index /\ i <= p /\ p < i + m /\ g[k] = c[p] /\ q = k - (i - o)
        <5>1. q = k - (i - o)
          BY <1>0, <2>1
        <5> QED
          BY <2>1, <3>1, <4>0, <5>1
      <4> HIDE DEF p
      <4>2. c[p] = s[q]
        BY <1>2, <4>1
      <4> HIDE DEF q
      <4> QED
        BY <4>1, <4>2
    <3> QED
      BY <1>6, <1>8, <2>1, <2>3, <3>2
  <2> QED
    BY <2>2, <2>3
<1>10. Len(Then(h, s)) = Len(g)
  BY <1>0, <1>6, <1>8
<1>11. g = Then(h, s)
  BY <1>6, <1>8, <1>9, <1>10, SeqEqual
<1> QED
  BY <1>4, <1>5, <1>11 DEF g, h

LEMMA HeldNone ==
  ASSUME NEW b, NEW o \in N!Ptrs
  PROVE  N!Held(b, o, o) = <<>>
<1>1. o - o = 0
  BY DEF N!Ptrs
<1> QED
  BY <1>1 DEF N!Held

-----------------------------------------------------------------------------
(* StrCliNonblock: the invariant.                                          *)

FromFr == N!Held(fr, froptr, friptr)
FromTo == N!Held(to, tooptr, toiptr)

\* Who has finished; select does not ask for what a full buffer could not take.
NEnds ==
  /\ cpc = "stdin" /\ "stdin" \in rset => ~stdineof /\ toiptr < MAXLINE
  /\ cpc \in {"stdin", "sockread"} /\ "sock" \in rset => friptr < MAXLINE
  /\ stdineof => ended /\ consumed = typed
  /\ finSrv => stdineof /\ toiptr = tooptr
  /\ fins = IF finSrv THEN 1 ELSE 0
  /\ cpc = "premature" => spc = "killed"

NFilled == Filled(to, tooptr, toiptr) /\ Filled(fr, froptr, friptr)
Wire == Then(Then(Then(shown, FromFr), Between), FromTo)
NWhole == spc # "killed" => Wire = Upto(consumed)

NInv == N!TypeOK /\ SrvInv /\ NFilled /\ NEnds /\ NWhole

LEMMA SameServer ==
  /\ N!SrvTypeOK = SrvTypeOK
  /\ N!SrvStep = SrvStep /\ N!SrvKilled = SrvKilled
  BY Zenon
  DEF N!SrvTypeOK, SrvTypeOK, N!SrvStep, SrvStep, N!SrvRead, SrvRead, N!SrvWrite, SrvWrite,
      N!SrvExit, SrvExit, N!SrvKilled, SrvKilled, N!First, First, N!Rest, Rest,
      N!Readable, Readable, N!Least, Least

LEMMA NTyped ==
  ASSUME N!TypeOK, SrvInv, NFilled
  PROVE  /\ shown \in Seq(Bytes) /\ FromFr \in Seq(Bytes) /\ FromTo \in Seq(Bytes)
         /\ Between \in Seq(Bytes) /\ toCli \in Seq(Bytes) /\ toSrv \in Seq(Bytes)
         /\ Then(shown, FromFr) \in Seq(Bytes) /\ Then(Then(shown, FromFr), Between) \in Seq(Bytes)
         /\ Len(toCli) \in Nat /\ Len(toSrv) \in Nat
         /\ to \in Buffers2 /\ fr \in Buffers2
         /\ {tooptr, toiptr, froptr, friptr} \subseteq N!Ptrs /\ tooptr <= toiptr /\ froptr <= friptr
         /\ {tooptr, toiptr, froptr, friptr} \subseteq Nat
         /\ typed \in Nat /\ consumed \in Nat /\ consumed <= typed /\ typed <= InputLen
<1> USE EchoAssumption
<1>1. shown \in Seq(Bytes) /\ to \in Buffers2 /\ fr \in Buffers2
  BY DEF N!TypeOK, Bytes, Buffers2
<1>2. /\ {tooptr, toiptr, froptr, friptr} \subseteq N!Ptrs /\ tooptr <= toiptr /\ froptr <= friptr
      /\ {tooptr, toiptr, froptr, friptr} \subseteq Nat
  BY DEF N!TypeOK, N!Ptrs
<1>3. FromFr \in Seq(Bytes) /\ FromTo \in Seq(Bytes)
  BY <1>2, HeldTyped DEF NFilled, FromFr, FromTo
<1>4. /\ Between \in Seq(Bytes) /\ toCli \in Seq(Bytes) /\ toSrv \in Seq(Bytes)
      /\ Len(toCli) \in Nat /\ Len(toSrv) \in Nat
  BY BetweenTyped DEF SrvInv
<1>5. Then(shown, FromFr) \in Seq(Bytes)
  BY <1>1, <1>3, ThenFacts
<1>6. Then(Then(shown, FromFr), Between) \in Seq(Bytes)
  BY <1>4, <1>5, ThenFacts
<1>7. typed \in Nat /\ consumed \in Nat /\ consumed <= typed /\ typed <= InputLen
  BY DEF N!TypeOK
<1> QED
  BY <1>1, <1>2, <1>3, <1>4, <1>5, <1>6, <1>7

\* A step that leaves the bytes where they are.
LEMMA NStill ==
  ASSUME NInv, UNCHANGED <<toSrv, toCli, finCli, sbuf, spc, consumed,
                           to, toiptr, tooptr, fr, friptr, froptr, shown>>,
         finSrv' \in BOOLEAN, finSrv => finSrv'
  PROVE  SrvInv' /\ NFilled' /\ NWhole'
<1>1. SrvInv'
  BY DEF NInv, SrvInv, SrvTypeOK
<1>2. NFilled'
  BY DEF NInv, NFilled
<1>3. FromFr' = FromFr /\ FromTo' = FromTo /\ Between' = Between
  BY DEF FromFr, FromTo, Between
<1> QED
  BY <1>1, <1>2, <1>3 DEF NInv, NWhole, Wire

LEMMA NStep == NInv /\ [N!Next]_(N!vars) => NInv'
<1>0. SUFFICES ASSUME NInv, [N!Next]_(N!vars) PROVE NInv'
  OBVIOUS
<1> USE EchoAssumption DEF N!srvVars, N!bufs, N!user, N!outs, N!ClientVars
<1>a. N!TypeOK /\ SrvInv /\ NFilled /\ NEnds /\ NWhole /\ finSrv \in BOOLEAN /\ SrvTypeOK
  BY <1>0 DEF NInv, SrvInv, SrvTypeOK
<1>b. /\ {tooptr, toiptr, froptr, friptr} \subseteq N!Ptrs /\ tooptr <= toiptr /\ froptr <= friptr
      /\ {tooptr, toiptr, froptr, friptr} \subseteq Nat
      /\ typed \in Nat /\ consumed \in Nat /\ consumed <= typed /\ typed <= InputLen
      /\ Len(toCli) \in Nat /\ Len(toSrv) \in Nat
  BY <1>a, NTyped
<1>1. CASE N!Type
  <2>1. N!TypeOK' /\ NEnds'
    BY <1>a, <1>b, <1>1 DEF N!Type, N!TypeOK, N!SrvTypeOK, NEnds
  <2> QED
    BY <1>0, <1>a, <1>1, <2>1, NStill DEF N!Type, NInv
<1>2. CASE N!EndInput
  <2>1. N!TypeOK' /\ NEnds'
    BY <1>a, <1>b, <1>2 DEF N!EndInput, N!TypeOK, N!SrvTypeOK, NEnds
  <2> QED
    BY <1>0, <1>a, <1>2, <2>1, NStill DEF N!EndInput, NInv
<1>3. CASE N!TakeOutput
  <2>1. N!TypeOK' /\ NEnds'
    BY <1>a, <1>b, <1>3 DEF N!TakeOutput, N!TypeOK, N!SrvTypeOK, NEnds
  <2> QED
    BY <1>0, <1>a, <1>3, <2>1, NStill DEF N!TakeOutput, NInv
<1>4. CASE N!Select
  <2>1. N!TypeOK' /\ NEnds'
    BY <1>a, <1>b, <1>4
    DEF N!Select, N!WatchRead, N!WatchWrite, N!TypeOK, N!SrvTypeOK, NEnds
  <2> QED
    BY <1>0, <1>a, <1>4, <2>1, NStill DEF N!Select, NInv
<1>5. CASE N!ReadStdin
  <2>0. cpc = "stdin" /\ "stdin" \in rset /\ ~stdineof /\ toiptr < MAXLINE /\ ~finSrv /\ fins = 0
        /\ cpc' = "sockread"
        /\ UNCHANGED <<toSrv, toCli, finCli, sbuf, spc, typed, ended, tooptr, fr, friptr, froptr,
                       rset, outPending, shown>>
    BY <1>a, <1>5 DEF N!ReadStdin, NEnds
  <2> DEFINE n == N!Least(typed - consumed, MAXLINE - toiptr)
  <2>1. CASE /\ n = 0 /\ (MAXLINE - toiptr = 0 \/ ended)
             /\ stdineof' = TRUE
             /\ IF N!FinNow THEN N!Shutdown ELSE N!NoShutdown
             /\ UNCHANGED <<consumed, to, toiptr, wset>>
    <3>1. ended /\ consumed = typed
      BY <1>b, <2>0, <2>1 DEF N!Least
    <3>2. stdineof' \in BOOLEAN /\ stdineof'
      BY <2>1
    <3>3. \/ finSrv' = TRUE /\ fins' = 1 /\ tooptr = toiptr
          \/ finSrv' = finSrv /\ fins' = 0
      BY <2>0, <2>1 DEF N!FinNow, N!Shutdown, N!NoShutdown
    <3>4. finSrv' \in BOOLEAN
      BY <1>a, <3>3
    <3>5. (finSrv' /\ fins' = 1 /\ tooptr = toiptr) \/ (~finSrv' /\ fins' = 0)
      BY <2>0, <3>3
    <3>6. N!TypeOK' /\ NEnds'
      BY <1>a, <1>b, <2>0, <2>1, <3>1, <3>2, <3>4, <3>5 DEF N!TypeOK, N!SrvTypeOK, NEnds
    <3> QED
      BY <1>0, <1>a, <2>0, <2>1, <3>4, <3>6, NStill DEF NInv
  <2>2. ASSUME NEW k \in 1 .. n,
               to' = [j \in N!Index |-> IF j \in toiptr .. toiptr + k - 1
                                        THEN consumed + 1 + j - toiptr ELSE to[j]],
               toiptr' = toiptr + k, consumed' = consumed + k, wset' = wset \cup {"sock"},
               UNCHANGED stdineof, N!NoShutdown
        PROVE  NInv'
    <3>1. k \in Nat /\ k >= 1 /\ k <= typed - consumed /\ k <= MAXLINE - toiptr
      BY <1>b DEF N!Least
    <3> HIDE DEF n
    <3> DEFINE s == [j \in 1 .. k |-> consumed + j]
    <3>2. /\ s \in Seq(Bytes) /\ Len(s) = k
          /\ Then(Upto(consumed), s) = Upto(consumed + k)
      <4>1. consumed \in Nat /\ k \in Nat /\ consumed + k <= InputLen
        BY <1>b, <3>1
      <4> QED
        BY Zenon, <4>1, UptoExtended
    <3>3. to' = ReadInto(to, toiptr, k, s)
      <4>1. ASSUME NEW j \in N!Index, j \in toiptr .. toiptr + k - 1
            PROVE  consumed + 1 + j - toiptr = s[j - toiptr + 1]
        <5>1. j - toiptr + 1 \in 1 .. k /\ consumed + (j - toiptr + 1) = consumed + 1 + j - toiptr
          BY <1>b, <3>1, <4>1 DEF N!Index
        <5> QED
          BY <5>1
      <4> HIDE DEF s
      <4> QED
        BY <2>2, <4>1, Zenon DEF ReadInto
    <3> HIDE DEF s
    <3>4. /\ to' \in Buffers2 /\ Filled(to', tooptr, toiptr + k)
          /\ N!Held(to', tooptr, toiptr + k) = Then(FromTo, s)
      <4>1. to \in Buffers2 /\ Filled(to, tooptr, toiptr) /\ toiptr + k <= MAXLINE
        BY <1>a, <1>b, <3>1, NTyped DEF NFilled
      <4> QED
        BY <1>b, <3>1, <3>2, <3>3, <4>1, HeldFilled DEF FromTo
    <3>5. finSrv' = finSrv /\ fins' = fins /\ stdineof' = stdineof
      BY <2>2 DEF N!NoShutdown
    <3>6. N!TypeOK' /\ NEnds'
      <4>1. consumed' \in 0 .. typed' /\ toiptr' \in tooptr' .. MAXLINE
        BY <1>b, <2>0, <2>2, <3>1
      <4>2. N!TypeOK'
        BY <1>a, <2>0, <2>2, <3>4, <3>5, <4>1 DEF N!TypeOK, N!SrvTypeOK, Buffers2
      <4> QED
        BY <1>a, <2>0, <2>2, <3>5, <4>2 DEF NEnds
    <3>7. SrvInv' /\ NFilled'
      BY <1>a, <2>0, <2>2, <3>4, <3>5 DEF SrvInv, SrvTypeOK, NFilled
    <3>8. FromTo' = Then(FromTo, s) /\ FromFr' = FromFr /\ Between' = Between
      BY <2>0, <2>2, <3>4 DEF FromTo, FromFr, Between
    <3>9. Wire' = Then(Wire, s)
      <4>1. Wire' = Then(Then(Then(shown, FromFr), Between), Then(FromTo, s))
        BY <2>0, <3>8 DEF Wire
      <4> QED
        BY <1>a, <3>2, <4>1, NTyped, ThenAssociative DEF Wire
    <3>10. NWhole'
      BY <1>a, <2>0, <2>2, <3>2, <3>9 DEF NWhole
    <3> QED
      BY <3>6, <3>7, <3>10 DEF NInv
  <2> QED
    BY <1>5, <2>1, <2>2, Zenon DEF N!ReadStdin
<1>6. CASE N!ReadSocket
  <2>1. PICK k \in N!Readable(Len(toCli), MAXLINE - friptr) :
          /\ fr' = [j \in N!Index |-> IF j \in friptr .. friptr + k - 1
                                      THEN toCli[j - friptr + 1] ELSE fr[j]]
          /\ friptr' = friptr + k
          /\ toCli' = N!Rest(k, toCli)
    BY <1>6 DEF N!ReadSocket
  <2>2. k \in 1 .. Len(toCli) /\ k \in Nat /\ k >= 1 /\ k <= MAXLINE - friptr
    BY <1>b DEF N!Readable, N!Least
  <2>0. /\ cpc = "sockread" /\ cpc' = "stdout" /\ wset' = wset \cup {"stdout"}
        /\ UNCHANGED <<toSrv, finSrv, finCli, sbuf, spc, typed, ended, consumed, to, toiptr, tooptr,
                       froptr, stdineof, rset, outPending, shown, fins>>
    BY <1>6 DEF N!ReadSocket
  <2> DEFINE s == First(k, toCli)
  <2>3. /\ s \in Seq(Bytes) /\ Len(s) = k /\ Rest(k, toCli) \in Seq(Bytes)
        /\ Len(Rest(k, toCli)) = Len(toCli) - k /\ toCli' = Rest(k, toCli)
    <3>1. toCli \in Seq(Bytes)
      BY <1>a, NTyped
    <3>2. toCli' = Rest(k, toCli)
      BY <2>1 DEF N!Rest, Rest
    <3> QED
      BY SMTT(30), <2>2, <3>1, <3>2, Split
  <2>4. fr' = ReadInto(fr, friptr, k, s)
    <3>1. ASSUME NEW j \in N!Index, j \in friptr .. friptr + k - 1
          PROVE  toCli[j - friptr + 1] = s[j - friptr + 1]
      <4> DEFINE i == j - friptr + 1
      <4>1. i \in 1 .. k
        BY <1>b, <2>2, <3>1 DEF N!Index
      <4> HIDE DEF i
      <4>2. s[i] = toCli[i]
        BY <4>1, <2>2 DEF First
      <4> QED
        BY <4>2 DEF i
    <3> HIDE DEF s
    <3> QED
      BY <2>1, <3>1, Zenon DEF ReadInto
  <2> HIDE DEF s
  <2>5. /\ fr' \in Buffers2 /\ Filled(fr', froptr, friptr + k)
        /\ N!Held(fr', froptr, friptr + k) = Then(FromFr, s)
    <3>1. fr \in Buffers2 /\ Filled(fr, froptr, friptr) /\ friptr + k <= MAXLINE
      BY <1>a, <1>b, <2>2, NTyped DEF NFilled
    <3> QED
      BY <1>b, <2>2, <2>3, <2>4, <3>1, HeldFilled DEF FromFr
  <2>6. SrvInv' /\ NFilled'
    <3>1. toCli' \in Seq(1 .. InputLen) /\ Len(toCli') <= SendCap
      BY <1>a, <1>b, <2>2, <2>3 DEF SrvTypeOK, Bytes
    <3> QED
      BY <1>a, <2>0, <2>1, <2>5, <3>1 DEF SrvInv, SrvTypeOK, NFilled
  <2>7. N!TypeOK' /\ NEnds'
    <3>1. friptr' \in froptr' .. MAXLINE
      BY <1>b, <2>0, <2>1, <2>2
    <3>2. N!TypeOK'
      BY <1>a, <2>0, <2>1, <2>5, <2>6, <3>1 DEF N!TypeOK, N!SrvTypeOK, SrvTypeOK, SrvInv, Buffers2
    <3> QED
      BY <1>a, <2>0, <3>2 DEF NEnds
  <2>8. /\ FromFr' = Then(FromFr, s) /\ FromTo' = FromTo
        /\ Between' = Then(Then(Rest(k, toCli), sbuf), toSrv)
    BY <2>0, <2>1, <2>3, <2>5 DEF FromTo, FromFr, Between
  <2>9. Then(Then(shown, FromFr)', Between') = Then(Then(shown, FromFr), Between)
    <3>1. Then(shown, Then(FromFr, s)) = Then(Then(shown, FromFr), s)
      <4>1. shown \in Seq(Bytes) /\ FromFr \in Seq(Bytes) /\ s \in Seq(Bytes)
        BY <1>a, <2>3, NTyped
      <4> QED
        BY <4>1, Bytewise
    <3>2. Then(shown, FromFr) \in Seq(Bytes)
      BY <1>a, NTyped
    <3>3. Then(Then(Then(shown, FromFr), s), Then(Then(Rest(k, toCli), sbuf), toSrv))
            = Then(Then(shown, FromFr), Between)
      BY <1>a, <2>2, <3>2, ClientMoves DEF s
    <3> QED
      BY <2>0, <2>8, <3>1, <3>3
  <2>10. NWhole'
    BY <1>a, <2>0, <2>8, <2>9 DEF NWhole, Wire
  <2> QED
    BY <2>6, <2>7, <2>10 DEF NInv
<1>7. CASE N!SocketEof
  <2>1. N!TypeOK'
    BY <1>a, <1>b, <1>7 DEF N!SocketEof, N!TypeOK, N!SrvTypeOK
  <2>2. cpc' = "premature" => spc = "killed"
    <3>1. friptr < MAXLINE
      BY <1>a, <1>7 DEF N!SocketEof, NEnds
    <3>2. spc \in {"exit", "killed"}
      BY <1>a, <1>b, <1>7, <3>1 DEF N!SocketEof, SrvInv
    <3> QED
      BY <1>a, <1>7, <3>2 DEF N!SocketEof, SrvInv, NEnds
  <2>3. NEnds'
    BY <1>a, <1>b, <1>7, <2>2 DEF N!SocketEof, NEnds
  <2> QED
    BY <1>0, <1>a, <1>7, <2>1, <2>3, NStill DEF N!SocketEof, NInv
<1>8. CASE N!SocketError
  <2>1. N!TypeOK' /\ NEnds'
    BY <1>a, <1>b, <1>8 DEF N!SocketError, N!TypeOK, N!SrvTypeOK, NEnds
  <2> QED
    BY <1>0, <1>a, <1>8, <2>1, NStill DEF N!SocketError, NInv
<1>9. CASE N!WriteStdout
  <2>1. PICK k \in N!Readable(friptr - froptr, OutCap - outPending) :
          /\ shown' = shown \o [j \in 1 .. k |-> fr[froptr + j - 1]]
          /\ outPending' = outPending + k
          /\ IF froptr + k = friptr THEN N!ResetFr(froptr + k)
             ELSE froptr' = froptr + k /\ UNCHANGED friptr
    BY <1>9 DEF N!WriteStdout
  <2>2. k \in 1 .. friptr - froptr /\ k \in Nat /\ k >= 1 /\ k <= OutCap - outPending
    BY <1>a, <1>b DEF N!Readable, N!Least, N!TypeOK
  <2>0. /\ cpc = "stdout" /\ cpc' = "sockwrite"
        /\ UNCHANGED <<toSrv, toCli, finSrv, finCli, sbuf, spc, typed, ended, consumed, to, toiptr,
                       tooptr, fr, stdineof, rset, wset, fins>>
    BY <1>9 DEF N!WriteStdout
  <2> DEFINE c == [j \in 1 .. k |-> fr[froptr + j - 1]]
  <2>3. /\ c \in Seq(Bytes) /\ N!Held(fr, froptr + k, friptr) \in Seq(Bytes)
        /\ Then(c, N!Held(fr, froptr + k, friptr)) = FromFr
    BY <1>a, <1>b, <2>2, HeldCut DEF NFilled, FromFr
  <2>4. shown' = Then(shown, c)
    BY <2>1 DEF Then
  <2> HIDE DEF c
  <2>5. /\ froptr' \in N!Ptrs /\ friptr' \in froptr' .. MAXLINE /\ Filled(fr, froptr', friptr')
        /\ N!Held(fr, froptr', friptr') = N!Held(fr, froptr + k, friptr)
    <3>1. CASE froptr + k = friptr
      <4>1. friptr' = 0 /\ froptr' = 0
        BY <2>1, <3>1 DEF N!ResetFr
      <4>2. 0 \in N!Ptrs
        BY DEF N!Ptrs
      <4>3. N!Held(fr, 0, 0) = <<>> /\ N!Held(fr, friptr, friptr) = <<>>
        BY <1>b, <4>2, HeldNone
      <4>4. N!Held(fr, froptr + k, friptr) = <<>>
        BY <3>1, <4>3
      <4>5. Filled(fr, 0, 0)
        BY DEF Filled, N!Index
      <4> QED
        BY <4>1, <4>2, <4>3, <4>4, <4>5
    <3>2. CASE froptr + k # friptr
      <4>1. friptr' = friptr /\ froptr' = froptr + k
        BY <2>1, <3>2
      <4>2. froptr + k \in N!Ptrs /\ friptr \in froptr + k .. MAXLINE
        BY <1>b, <2>2 DEF N!Ptrs
      <4>3. Filled(fr, froptr + k, friptr)
        <5>1. Filled(fr, froptr, friptr)
          BY <1>a DEF NFilled
        <5>2. froptr \in Int /\ \A j \in N!Index : froptr + k <= j => froptr <= j
          BY <1>b, <2>2 DEF N!Index
        <5> QED
          BY <5>1, <5>2 DEF Filled
      <4> QED
        BY <4>1, <4>2, <4>3
    <3> QED
      BY <3>1, <3>2
  <2>6. shown' \in Seq(Bytes)
    BY <1>a, <2>3, <2>4, NTyped, ThenFacts
  <2>7. N!TypeOK' /\ NEnds'
    <3>1. outPending' \in 0 .. OutCap
      BY <1>a, <2>1, <2>2 DEF N!TypeOK
    <3>2. N!TypeOK'
      BY <1>a, <2>0, <2>5, <2>6, <3>1 DEF N!TypeOK, N!SrvTypeOK, Bytes
    <3> QED
      BY <1>a, <2>0, <3>2 DEF NEnds
  <2>8. SrvInv' /\ NFilled'
    BY <1>a, <2>0, <2>5 DEF SrvInv, SrvTypeOK, NFilled
  <2>9. /\ FromFr' = N!Held(fr, froptr + k, friptr) /\ FromTo' = FromTo /\ Between' = Between
    BY <2>0, <2>5 DEF FromTo, FromFr, Between
  <2>10. Then(shown, FromFr)' = Then(shown, FromFr)
    <3>1. shown \in Seq(Bytes)
      BY <1>a, NTyped
    <3>2. Then(Then(shown, c), N!Held(fr, froptr + k, friptr)) = Then(shown, FromFr)
      BY <2>3, <3>1, ThenAssociative
    <3> QED
      BY <2>4, <2>9, <3>2
  <2>11. NWhole'
    BY <1>a, <2>0, <2>9, <2>10 DEF NWhole, Wire
  <2> QED
    BY <2>7, <2>8, <2>11 DEF NInv
<1>10. CASE N!WriteSocket
  <2>1. PICK k \in N!Readable(toiptr - tooptr, SendCap - Len(toSrv)) :
          /\ toSrv' = toSrv \o [j \in 1 .. k |-> to[tooptr + j - 1]]
          /\ IF tooptr + k = toiptr
             THEN N!ResetTo(tooptr + k) /\ IF stdineof THEN N!Shutdown ELSE N!NoShutdown
             ELSE tooptr' = tooptr + k /\ UNCHANGED toiptr /\ N!NoShutdown
    BY <1>10 DEF N!WriteSocket
  <2>2. k \in 1 .. toiptr - tooptr /\ k \in Nat /\ k >= 1 /\ k <= SendCap - Len(toSrv)
    BY <1>b DEF N!Readable, N!Least
  <2>0. /\ cpc = "sockwrite" /\ cpc' = "select" /\ ~finSrv /\ fins = 0
        /\ UNCHANGED <<toCli, finCli, sbuf, spc, typed, ended, consumed, to, fr, friptr, froptr,
                       stdineof, rset, wset, outPending, shown>>
    BY <1>a, <1>b, <1>10 DEF N!WriteSocket, NEnds
  <2> DEFINE c == [j \in 1 .. k |-> to[tooptr + j - 1]]
  <2>3. /\ c \in Seq(Bytes) /\ Len(c) = k /\ N!Held(to, tooptr + k, toiptr) \in Seq(Bytes)
        /\ Then(c, N!Held(to, tooptr + k, toiptr)) = FromTo
    <3>1. c \in Seq(Bytes) /\ N!Held(to, tooptr + k, toiptr) \in Seq(Bytes)
          /\ Then(c, N!Held(to, tooptr + k, toiptr)) = FromTo
      BY <1>a, <1>b, <2>2, HeldCut DEF NFilled, FromTo
    <3>2. Len(c) = k
      BY <2>2
    <3> QED
      BY <3>1, <3>2
  <2>4. toSrv' = Then(toSrv, c)
    BY <2>1 DEF Then
  <2> HIDE DEF c
  <2>5. /\ tooptr' \in N!Ptrs /\ toiptr' \in tooptr' .. MAXLINE /\ Filled(to, tooptr', toiptr')
        /\ N!Held(to, tooptr', toiptr') = N!Held(to, tooptr + k, toiptr)
    <3>1. CASE tooptr + k = toiptr
      <4>1. toiptr' = 0 /\ tooptr' = 0
        BY <2>1, <3>1 DEF N!ResetTo
      <4>2. 0 \in N!Ptrs
        BY DEF N!Ptrs
      <4>3. N!Held(to, 0, 0) = <<>> /\ N!Held(to, toiptr, toiptr) = <<>>
        BY <1>b, <4>2, HeldNone
      <4>4. N!Held(to, tooptr + k, toiptr) = <<>>
        BY <3>1, <4>3
      <4>5. Filled(to, 0, 0)
        BY DEF Filled, N!Index
      <4> QED
        BY <4>1, <4>2, <4>3, <4>4, <4>5
    <3>2. CASE tooptr + k # toiptr
      <4>1. toiptr' = toiptr /\ tooptr' = tooptr + k
        BY <2>1, <3>2
      <4>2. tooptr + k \in N!Ptrs /\ toiptr \in tooptr + k .. MAXLINE
        BY <1>b, <2>2 DEF N!Ptrs
      <4>3. Filled(to, tooptr + k, toiptr)
        <5>1. Filled(to, tooptr, toiptr)
          BY <1>a DEF NFilled
        <5>2. tooptr \in Int /\ \A j \in N!Index : tooptr + k <= j => tooptr <= j
          BY <1>b, <2>2 DEF N!Index
        <5> QED
          BY <5>1, <5>2 DEF Filled
      <4> DEFINE e == tooptr + k
      <4>4. toiptr' = toiptr /\ tooptr' = e /\ e \in N!Ptrs /\ toiptr \in e .. MAXLINE
            /\ Filled(to, e, toiptr)
        BY <4>1, <4>2, <4>3
      <4> HIDE DEF e
      <4>5. Filled(to, tooptr', toiptr') /\ N!Held(to, tooptr', toiptr') = N!Held(to, e, toiptr)
        BY <4>4, Zenon
      <4> QED
        BY <4>4, <4>5 DEF e
    <3> QED
      BY <3>1, <3>2
  <2>6. /\ finSrv' \in BOOLEAN
        /\ (finSrv' /\ fins' = 1 /\ stdineof /\ toiptr' = tooptr') \/ (~finSrv' /\ fins' = 0)
    <3>1. \/ finSrv' = TRUE /\ fins' = fins + 1 /\ stdineof /\ toiptr' = 0 /\ tooptr' = 0
          \/ finSrv' = finSrv /\ fins' = fins
      BY <2>1 DEF N!ResetTo, N!Shutdown, N!NoShutdown
    <3>2. finSrv' \in BOOLEAN
      BY <1>a, <3>1
    <3> QED
      BY <2>0, <3>1, <3>2
  <2>7. toSrv' \in Seq(Bytes) /\ Len(toSrv') = Len(toSrv) + k
    <3>1. toSrv \in Seq(Bytes)
      BY <1>a, NTyped
    <3> QED
      BY <2>3, <2>4, <3>1, ThenFacts
  <2>8. SrvInv' /\ NFilled'
    <3>1. toSrv' \in Seq(1 .. InputLen) /\ Len(toSrv') <= SendCap
      BY <1>b, <2>2, <2>7 DEF Bytes
    <3> QED
      BY <1>a, <2>0, <2>5, <2>6, <3>1 DEF SrvInv, SrvTypeOK, NFilled
  <2>9. N!TypeOK' /\ NEnds'
    <3>1. N!TypeOK'
      BY <1>a, <2>0, <2>5, <2>6, <2>8 DEF N!TypeOK, N!SrvTypeOK, SrvTypeOK, SrvInv
    <3> QED
      BY <1>a, <2>0, <2>6, <3>1 DEF NEnds
  <2>10. /\ FromTo' = N!Held(to, tooptr + k, toiptr) /\ FromFr' = FromFr
         /\ Between' = Then(Between, c)
    <3>1. Between' = Then(Between, c)
      <4>1. Between' = Then(Then(toCli, sbuf), Then(toSrv, c))
        BY <2>0, <2>4 DEF Between
      <4> QED
        BY <1>a, <2>3, <4>1, NTyped, ClientMoves
    <3> QED
      BY <2>0, <2>5, <3>1 DEF FromTo, FromFr
  <2>11. Wire' = Wire
    <3> DEFINE x == Then(shown, FromFr)  h == N!Held(to, tooptr + k, toiptr)
    <3>1. x \in Seq(Bytes) /\ Between \in Seq(Bytes) /\ Then(x, Between) \in Seq(Bytes)
      BY <1>a, NTyped
    <3>2. h \in Seq(Bytes) /\ Then(c, h) = FromTo
      BY <2>3
    <3>3. Wire' = Then(Then(x, Then(Between, c)), h)
      BY <2>0, <2>10 DEF Wire
    <3>4. Wire = Then(Then(x, Between), FromTo)
      BY DEF Wire
    <3> HIDE DEF x, h
    <3>5. Then(x, Then(Between, c)) = Then(Then(x, Between), c)
      BY <2>3, <3>1, ThenAssociative
    <3>6. Then(Then(Then(x, Between), c), h) = Then(Then(x, Between), Then(c, h))
      BY <2>3, <3>1, <3>2, ThenAssociative
    <3> QED
      BY <3>2, <3>3, <3>4, <3>5, <3>6
  <2>12. NWhole'
    BY <1>a, <2>0, <2>11 DEF NWhole
  <2> QED
    BY <2>8, <2>9, <2>12 DEF NInv
<1>11. CASE N!Skip
  <2>1. N!TypeOK' /\ NEnds'
    BY <1>a, <1>b, <1>11 DEF N!Skip, N!TypeOK, N!SrvTypeOK, NEnds
  <2> QED
    BY <1>0, <1>a, <1>11, <2>1, NStill DEF N!Skip, NInv
<1>12. CASE N!ServerStep \/ N!ServerDies
  <2>0. /\ SrvStep \/ SrvKilled
        /\ UNCHANGED <<typed, ended, consumed, to, toiptr, tooptr, fr, friptr, froptr,
                       stdineof, rset, wset, cpc, outPending, shown, fins>>
    BY <1>12, SameServer DEF N!ServerStep, N!ServerDies
  <2>1. /\ SrvInv' /\ finSrv' = finSrv
        /\ spc' # "killed" => spc # "killed" /\ Between' = Between
    BY <1>a, <2>0, ServerMoves
  <2>2. spc = "killed" => spc' = "killed"
    BY <2>1
  <2>3. N!TypeOK'
    BY <1>a, <2>0, <2>1 DEF N!TypeOK, N!SrvTypeOK, SrvTypeOK, SrvInv
  <2>4. NEnds' /\ NFilled'
    BY <1>a, <2>0, <2>1, <2>2 DEF NEnds, NFilled
  <2>5. FromFr' = FromFr /\ FromTo' = FromTo
    BY <2>0 DEF FromFr, FromTo
  <2>6. NWhole'
    BY <1>a, <2>0, <2>1, <2>5 DEF NWhole, Wire
  <2> QED
    BY <2>1, <2>3, <2>4, <2>6 DEF NInv
<1>13. CASE UNCHANGED N!vars
  <2>1. N!TypeOK' /\ NEnds'
    BY <1>a, <1>13 DEF N!vars, N!TypeOK, N!SrvTypeOK, NEnds
  <2> QED
    BY <1>0, <1>a, <1>13, <2>1, NStill DEF N!vars, NInv
<1> QED
  BY <1>0, <1>1, <1>2, <1>3, <1>4, <1>5, <1>6, <1>7, <1>8, <1>9, <1>10, <1>11, <1>12, <1>13
  DEF N!Next, N!ClientStep

-----------------------------------------------------------------------------
LEMMA NInit == N!Init => NInv
<1> SUFFICES ASSUME N!Init PROVE NInv
  OBVIOUS
<1> USE EchoAssumption DEF N!Init, N!SrvInit, N!BufInit
<1>0. <<>> \in Seq(1 .. InputLen) /\ Len(<<>>) <= SendCap /\ Len(<<>>) <= MAXLINE
  OBVIOUS
<1>1. SrvTypeOK
  BY <1>0, Zenon DEF SrvTypeOK
<1>2. SrvInv
  BY <1>1 DEF SrvInv
<1>3. N!TypeOK
  <2>1. /\ typed \in 0 .. InputLen /\ consumed \in 0 .. typed /\ outPending \in 0 .. OutCap
        /\ tooptr \in N!Ptrs /\ toiptr \in tooptr .. MAXLINE
        /\ froptr \in N!Ptrs /\ friptr \in froptr .. MAXLINE /\ fins \in 0 .. 2
        /\ to \in [N!Index -> 0 .. InputLen] /\ fr \in [N!Index -> 0 .. InputLen]
    BY DEF N!Ptrs
  <2>2. /\ shown \in Seq(1 .. InputLen) /\ stdineof \in BOOLEAN /\ ended \in BOOLEAN
        /\ rset \subseteq {"stdin", "sock"} /\ wset \subseteq {"stdout", "sock"}
    BY <1>0, Zenon
  <2>3. cpc = "select"
    OBVIOUS
  <2> HIDE DEF N!Init, N!SrvInit, N!BufInit
  <2> QED
    BY <1>1, <2>1, <2>2, <2>3, SameServer DEF N!TypeOK
<1>4. NFilled /\ NEnds
  BY DEF NFilled, Filled, NEnds, N!Index
<1>5. FromFr = <<>> /\ FromTo = <<>>
  BY HeldNone DEF FromFr, FromTo, N!Ptrs
<1>6. Wire = <<>> /\ Upto(0) = <<>>
  BY <1>5 DEF Wire, Between, Then, Upto
<1> QED
  BY <1>2, <1>3, <1>4, <1>6 DEF NInv, NWhole

\* Once the server has seen the FIN nothing is left to be sent to it, and the
\* client returns normally only when everything it sent has come back.
NBack ==
  /\ spc = "exit" => toSrv = <<>>
  /\ cpc = "return" /\ spc # "killed" => stdineof /\ spc = "exit" /\ toCli = <<>>

LEMMA NBackStep == NInv /\ NBack /\ [N!Next]_(N!vars) => NBack'
<1> SUFFICES ASSUME NInv, NBack, [N!Next]_(N!vars) PROVE NBack'
  OBVIOUS
<1>0. SrvInv /\ NEnds /\ N!TypeOK
  BY DEF NInv
<1> USE DEF NBack, N!srvVars, N!bufs, N!user, N!outs, N!ClientVars
<1>1. CASE N!Type \/ N!EndInput \/ N!TakeOutput
  BY <1>1, Zenon DEF N!Type, N!EndInput, N!TakeOutput
<1>2. CASE N!Select \/ N!ReadStdin \/ N!SocketError
  BY <1>2 DEF N!Select, N!ReadStdin, N!SocketError
<1>3. CASE N!ReadSocket
  BY <1>3 DEF N!ReadSocket
<1>4. CASE N!SocketEof
  <2>1. friptr < MAXLINE
    BY <1>0, <1>4 DEF N!SocketEof, NEnds
  <2>2. toCli = <<>> /\ finCli
    BY <1>0, <1>4, <2>1, EchoAssumption DEF N!SocketEof, N!TypeOK, N!Ptrs
  <2>3. cpc' = "return" => stdineof
    BY <1>4 DEF N!SocketEof
  <2>4. spc \in {"exit", "killed"}
    BY <1>0, <2>2 DEF SrvInv
  <2> QED
    BY <1>4, <2>2, <2>3, <2>4 DEF N!SocketEof
<1>5. CASE N!WriteStdout
  BY <1>5 DEF N!WriteStdout
<1>6. CASE N!WriteSocket
  <2>1. ~finSrv
    BY <1>0, <1>6 DEF N!WriteSocket, N!TypeOK, N!Ptrs, NEnds
  <2>2. spc # "exit" /\ spc' = spc /\ cpc' = "select"
    BY <1>0, <1>6, <2>1 DEF N!WriteSocket, SrvInv
  <2> QED
    BY <2>2
<1>7. CASE N!Skip
  BY <1>7 DEF N!Skip
<1>8. CASE N!ServerStep \/ N!ServerDies
  <2>0. SrvStep \/ SrvKilled
    BY <1>8, SameServer DEF N!ServerStep, N!ServerDies
  <2>1. UNCHANGED <<cpc, stdineof>>
    BY <1>8 DEF N!ServerStep, N!ServerDies
  <2>2. spc' = "exit" => toSrv' = <<>>
    BY <2>0 DEF SrvStep, SrvRead, SrvWrite, SrvExit, SrvKilled
  <2>3. spc \in {"read", "write"}
    BY <2>0 DEF SrvStep, SrvRead, SrvWrite, SrvExit, SrvKilled
  <2> QED
    BY <2>1, <2>2, <2>3
<1>9. CASE UNCHANGED N!vars
  BY <1>9 DEF N!vars
<1> QED
  BY <1>1, <1>2, <1>3, <1>4, <1>5, <1>6, <1>7, <1>8, <1>9 DEF N!Next, N!ClientStep

LEMMA NUnshown == NInv /\ NBack => N!UnshownIsInFr
<1> SUFFICES ASSUME NInv, NBack, cpc = "return", spc # "killed"
             PROVE  Then(shown, FromFr) = N!Iota(typed)
  BY DEF N!UnshownIsInFr, FromFr, Then
<1>1. N!TypeOK /\ SrvInv /\ NFilled /\ NEnds /\ Wire = Upto(consumed)
  BY DEF NInv, NWhole
<1>2. spc = "exit" /\ stdineof /\ finSrv /\ toCli = <<>> /\ toSrv = <<>> /\ sbuf = <<>>
  BY <1>1 DEF NBack, SrvInv
<1>3. consumed = typed /\ toiptr = tooptr
  BY <1>1, <1>2 DEF NEnds
<1>4. Between = <<>>
  BY <1>2, ThenFacts, <<>> \in Seq(Bytes) DEF Between
<1>5. FromTo = <<>>
  BY <1>1, <1>3, NTyped, HeldNone DEF FromTo
<1>6. Wire = Then(shown, FromFr)
  <2>1. Then(shown, FromFr) \in Seq(Bytes)
    BY <1>1, NTyped
  <2> QED
    BY <1>4, <1>5, <2>1, ThenFacts DEF Wire
<1> QED
  BY <1>1, <1>3, <1>6 DEF N!Iota, Upto

LEMMA NBackInit == N!Init => NBack
  BY Zenon DEF N!Init, N!SrvInit, NBack

LEMMA NProperties ==
  NInv => N!TypeOK /\ N!NothingLost /\ N!FinAfterLastByte /\ N!PrematureIsReal
<1> SUFFICES ASSUME NInv
             PROVE  N!TypeOK /\ N!NothingLost /\ N!FinAfterLastByte /\ N!PrematureIsReal
  OBVIOUS
<1>1. N!TypeOK /\ SrvInv /\ NFilled /\ NEnds /\ NWhole /\ SrvTypeOK
  BY DEF NInv, SrvInv
<1>2. N!FinAfterLastByte /\ N!PrematureIsReal
  BY <1>1 DEF NEnds, N!FinAfterLastByte, N!PrematureIsReal
<1>3. N!NothingLost
  <2>1. Then(shown, FromFr) \in Seq(Bytes) /\ <<>> \in Seq(Bytes)
    BY <1>1, NTyped
  <2>2. Then(Then(Then(Then(shown, FromFr), toCli), sbuf), toSrv)
          = Then(Then(shown, FromFr), Between)
    BY <1>1, <2>1, ClientMoves
  <2>3. Then(Then(Then(Then(Then(shown, FromFr), toCli), sbuf), toSrv), FromTo) = Wire
    BY <2>2 DEF Wire
  <2>4. N!Iota(consumed) = Upto(consumed)
    BY DEF N!Iota, Upto
  <2> QED
    BY <1>1, <2>3, <2>4 DEF NWhole, N!NothingLost, Then, FromFr, FromTo
<1> QED
  BY <1>1, <1>2, <1>3

\* The nonblocking client, whatever the sizes of its buffers and however short
\* the reads and writes: no byte is lost, its FIN comes once and last, it gives
\* up only on a server that is dead, and what it has not shown when it returns
\* normally is in fr.
THEOREM NonblockingLossless ==
  N!Spec => [](/\ N!TypeOK /\ N!NothingLost /\ N!FinAfterLastByte /\ N!PrematureIsReal
               /\ N!UnshownIsInFr)
  BY NInit, NStep, NBackInit, NBackStep, NProperties, NUnshown, PTL DEF N!Spec

-----------------------------------------------------------------------------
(* StrCliLines: lines.                                                     *)

\* Bytes in a row, of which every second one is a newline.
Steady(s) == \A k \in 1 .. Len(s) - 1 : s[k + 1] = s[k] + 1

LEMMA SteadyParts ==
  ASSUME NEW s \in Seq(Bytes), NEW t \in Seq(Bytes), Steady(Then(s, t))
  PROVE  Steady(s) /\ Steady(t)
<1>0. /\ Len(s) \in Nat /\ Len(t) \in Nat /\ Len(Then(s, t)) = Len(s) + Len(t)
      /\ \A k \in 1 .. Len(s) + Len(t) :
           Then(s, t)[k] = IF k <= Len(s) THEN s[k] ELSE t[k - Len(s)]
  BY ConcatProperties, LenProperties DEF Then
<1>1. ASSUME NEW k \in 1 .. Len(s) - 1 PROVE s[k + 1] = s[k] + 1
  <2>1. /\ k \in 1 .. Len(s) + Len(t) - 1 /\ k <= Len(s) /\ k + 1 <= Len(s)
        /\ k \in 1 .. Len(s) + Len(t) /\ k + 1 \in 1 .. Len(s) + Len(t)
    BY <1>0
  <2>2. Then(s, t)[k + 1] = Then(s, t)[k] + 1
    BY <1>0, <2>1 DEF Steady
  <2> QED
    BY <1>0, <2>1, <2>2
<1>2. ASSUME NEW k \in 1 .. Len(t) - 1 PROVE t[k + 1] = t[k] + 1
  <2> DEFINE i == Len(s) + k
             j == i + 1
  <2>1. /\ i \in 1 .. Len(s) + Len(t) - 1 /\ i \in 1 .. Len(s) + Len(t)
        /\ j \in 1 .. Len(s) + Len(t) /\ ~(i <= Len(s)) /\ ~(j <= Len(s))
        /\ i - Len(s) = k /\ j - Len(s) = k + 1 /\ j = i + 1
    BY <1>0
  <2> HIDE DEF i, j
  <2>2. Then(s, t)[j] = Then(s, t)[i] + 1
    BY <1>0, <2>1 DEF Steady
  <2>3. Then(s, t)[i] = t[k] /\ Then(s, t)[j] = t[k + 1]
    BY <1>0, <2>1
  <2> QED
    BY <2>2, <2>3
<1> QED
  BY <1>1, <1>2 DEF Steady

LEMMA SteadyMiddle ==
  ASSUME NEW s \in Seq(Bytes), NEW t \in Seq(Bytes), NEW u \in Seq(Bytes),
         NEW m \in 0 .. InputLen, Then(Then(s, t), u) = Upto(m)
  PROVE  Steady(t)
<1>1. Len(Upto(m)) = m /\ m \in Nat
  BY UptoSeq, EchoAssumption
<1>2. Steady(Upto(m))
  BY <1>1 DEF Steady, Upto
<1>3. Then(s, t) \in Seq(Bytes)
  BY ThenFacts
<1> QED
  BY <1>2, <1>3, SteadyParts

\* A line ends within two bytes.
LEMMA LineEnds ==
  ASSUME NEW s \in Seq(Bytes), Steady(s)
  PROVE  IF L!HasLine(s) THEN /\ L!LineEnd(s) \in 1 .. Len(s) /\ L!LineEnd(s) <= 2
                              /\ L!NewLine(s[L!LineEnd(s)])
                              /\ \A l \in 1 .. L!LineEnd(s) - 1 : ~L!NewLine(s[l])
                         ELSE Len(s) <= 1
<1>1. Len(s) \in Nat /\ \A k \in 1 .. Len(s) : s[k] \in Nat
  BY LenProperties, ElementOfSeq, EchoAssumption DEF Bytes
<1>2. ASSUME Len(s) > 1 PROVE L!NewLine(s[1]) \/ L!NewLine(s[2])
  <2>1. s[2] = s[1] + 1 /\ s[1] \in Nat
    <3>1. 1 \in 1 .. Len(s) - 1 /\ 1 \in 1 .. Len(s) /\ 1 + 1 = 2
      BY <1>1, <1>2
    <3> QED
      BY <1>1, <3>1 DEF Steady
  <2> QED
    BY <2>1 DEF L!NewLine
<1>3. CASE L!HasLine(s)
  <2>1. Len(s) >= 1
    BY <1>1, <1>3 DEF L!HasLine
  <2>2. \E k \in 1 .. Len(s) :
          k <= 2 /\ L!NewLine(s[k]) /\ \A l \in 1 .. k - 1 : ~L!NewLine(s[l])
    <3>1. CASE L!NewLine(s[1])
      BY <1>1, <2>1, <3>1
    <3>2. CASE ~L!NewLine(s[1])
      <4>1. Len(s) > 1
        BY <1>1, <1>3, <2>1, <3>2 DEF L!HasLine
      <4>2. L!NewLine(s[2]) /\ 2 \in 1 .. Len(s) /\ \A l \in 1 .. 2 - 1 : l = 1
        BY <1>1, <1>2, <3>2, <4>1
      <4> QED
        BY <3>2, <4>2
    <3> QED
      BY <3>1, <3>2
  <2>3. PICK k \in 1 .. Len(s) :
          k <= 2 /\ L!NewLine(s[k]) /\ \A l \in 1 .. k - 1 : ~L!NewLine(s[l])
    BY <2>2
  <2> DEFINE e == L!LineEnd(s)
  <2>4. e \in 1 .. Len(s) /\ L!NewLine(s[e]) /\ \A l \in 1 .. e - 1 : ~L!NewLine(s[l])
    BY <2>3, Zenon DEF L!LineEnd
  <2> HIDE DEF e
  <2>5. e <= k
    <3> SUFFICES ASSUME e > k PROVE FALSE
      BY <1>1, <2>4
    <3>1. k \in 1 .. e - 1
      BY <1>1, <2>4
    <3> QED
      BY <2>3, <2>4, <3>1
  <2> QED
    BY <1>1, <1>3, <2>3, <2>4, <2>5 DEF e
<1>4. CASE ~L!HasLine(s)
  <2>1. ASSUME Len(s) > 1 PROVE FALSE
    <3>1. 1 \in 1 .. Len(s) /\ 2 \in 1 .. Len(s)
      BY <1>1, <2>1
    <3> QED
      BY <1>2, <1>4, <2>1, <3>1 DEF L!HasLine
  <2> QED
    BY <1>1, <1>4, <2>1
<1> QED
  BY <1>3, <1>4

-----------------------------------------------------------------------------
(* StrCliLines: the invariant.                                             *)

\* Who holds a line, who may have ended, and why.
LPlaces ==
  /\ sendline # <<>> => cpc \in {"writen", "error", "terminated"}
  /\ recvline # <<>> => L!At("fputs")
  /\ IF L!Forked
     THEN /\ cpc \in {"fgets", "writen", "pause", "error", "terminated"} /\ kpc # "none"
          /\ cpc = "error" => spc = "killed"
          /\ cpc = "terminated" => kpc = "exit"
     ELSE kpc = "none" /\ ~finSrv
  /\ cpc = "premature" \/ kpc = "astray" => spc = "killed"

LMiddle == Steady(Then(rbuf, toCli))

\* Also when the server is dead: what is still to be cut into lines is a part
\* of the input, and the bytes read ahead are the last of what was read.
LSteady ==
  /\ LMiddle
  /\ \E p \in 0 .. InputLen : Then(Upto(p), fbuf) = Upto(consumed)

Back == Then(Then(shown, recvline), rbuf)
Lines == Then(Then(Then(Back, Between), sendline), fbuf)
LWhole == spc # "killed" => Lines = Upto(consumed)

LInv == L!TypeOK /\ SrvInv /\ LPlaces /\ LSteady /\ LWhole

LEMMA SameServerL ==
  /\ L!SrvTypeOK = SrvTypeOK
  /\ L!SrvStep = SrvStep /\ L!SrvKilled = SrvKilled
  BY Zenon
  DEF L!SrvTypeOK, SrvTypeOK, L!SrvStep, SrvStep, L!SrvRead, SrvRead, L!SrvWrite, SrvWrite,
      L!SrvExit, SrvExit, L!SrvKilled, SrvKilled, L!First, First, L!Rest, Rest,
      L!Readable, Readable, L!Least, Least

LEMMA LTyped ==
  ASSUME L!TypeOK, SrvTypeOK
  PROVE  /\ shown \in Seq(Bytes) /\ recvline \in Seq(Bytes) /\ rbuf \in Seq(Bytes)
         /\ sendline \in Seq(Bytes) /\ fbuf \in Seq(Bytes) /\ <<>> \in Seq(Bytes)
         /\ toCli \in Seq(Bytes) /\ sbuf \in Seq(Bytes) /\ toSrv \in Seq(Bytes)
         /\ Then(shown, recvline) \in Seq(Bytes) /\ Back \in Seq(Bytes) /\ Between \in Seq(Bytes)
         /\ Then(Back, Between) \in Seq(Bytes) /\ Then(Then(Back, Between), sendline) \in Seq(Bytes)
         /\ Then(rbuf, toCli) \in Seq(Bytes)
         /\ Len(toCli) \in Nat /\ Len(toSrv) \in Nat /\ Len(sendline) \in Nat
         /\ Len(recvline) \in Nat /\ Len(rbuf) \in Nat /\ Len(fbuf) \in Nat
         /\ typed \in Nat /\ consumed \in Nat /\ consumed <= typed /\ typed <= InputLen
         /\ consumed \in 0 .. InputLen
<1>1. /\ shown \in Seq(Bytes) /\ recvline \in Seq(Bytes) /\ rbuf \in Seq(Bytes)
      /\ sendline \in Seq(Bytes) /\ fbuf \in Seq(Bytes) /\ <<>> \in Seq(Bytes)
  BY DEF L!TypeOK, Bytes
<1>2. /\ Between \in Seq(Bytes) /\ Len(toCli) \in Nat /\ Len(toSrv) \in Nat
      /\ toCli \in Seq(Bytes) /\ sbuf \in Seq(Bytes) /\ toSrv \in Seq(Bytes)
  BY BetweenTyped
<1>3. Then(shown, recvline) \in Seq(Bytes) /\ Then(rbuf, toCli) \in Seq(Bytes)
  BY <1>1, <1>2, ThenFacts
<1>4. Back \in Seq(Bytes)
  BY <1>1, <1>3, ThenFacts DEF Back
<1>5. Then(Back, Between) \in Seq(Bytes)
  BY <1>2, <1>4, ThenFacts
<1>6. Then(Then(Back, Between), sendline) \in Seq(Bytes)
  BY <1>1, <1>5, ThenFacts
<1>7. /\ Len(sendline) \in Nat /\ Len(recvline) \in Nat /\ Len(rbuf) \in Nat /\ Len(fbuf) \in Nat
  BY <1>1, LenProperties
<1>8. /\ typed \in Nat /\ consumed \in Nat /\ consumed <= typed /\ typed <= InputLen
      /\ consumed \in 0 .. InputLen
  BY EchoAssumption DEF L!TypeOK
<1> QED
  BY <1>1, <1>2, <1>3, <1>4, <1>5, <1>6, <1>7, <1>8

\* A step that leaves the bytes where they are.
LEMMA LStill ==
  ASSUME LInv, UNCHANGED <<toSrv, toCli, finCli, sbuf, spc, consumed,
                           fbuf, sendline, rbuf, recvline, shown>>,
         finSrv' \in BOOLEAN, spc = "exit" => finSrv'
  PROVE  SrvInv' /\ LSteady' /\ LWhole'
<1>1. SrvInv'
  BY DEF LInv, SrvInv, SrvTypeOK
<1>2. LSteady'
  BY DEF LInv, LSteady, LMiddle
<1>3. Lines' = Lines
  BY DEF Lines, Back, Between
<1> QED
  BY <1>1, <1>2, <1>3 DEF LInv, LWhole

\* Where a piece is taken off one buffer and put into the next.
LEMMA Passed ==
  ASSUME NEW x \in Seq(Bytes), NEW y \in Seq(Bytes), NEW n \in 1 .. Len(y)
  PROVE  Then(Then(x, First(n, y)), Rest(n, y)) = Then(Then(x, <<>>), y)
<1>1. Then(x, <<>>) = x
  BY ThenFacts
<1>2. Then(Then(x, First(n, y)), Rest(n, y)) = Then(x, y)
  BY Moved
<1> QED
  BY <1>1, <1>2

\* While the server lives, what lies in the middle of the stream is a part of
\* the input.
LAlive == L!TypeOK /\ SrvInv /\ LWhole /\ spc # "killed"

LEMMA LPart == LAlive => LMiddle
<1> SUFFICES ASSUME LAlive PROVE LMiddle
  OBVIOUS
<1>1. /\ shown \in Seq(Bytes) /\ recvline \in Seq(Bytes) /\ rbuf \in Seq(Bytes)
      /\ toCli \in Seq(Bytes) /\ sbuf \in Seq(Bytes) /\ toSrv \in Seq(Bytes)
      /\ sendline \in Seq(Bytes) /\ fbuf \in Seq(Bytes) /\ consumed \in 0 .. InputLen
  BY LTyped DEF LAlive, SrvInv
<1> DEFINE a == Then(shown, recvline)
           b == Then(rbuf, toCli)
           c == Then(Then(Then(sbuf, toSrv), sendline), fbuf)
<1>2. a \in Seq(Bytes) /\ b \in Seq(Bytes)
  BY <1>1, Bytewise
<1>3. Then(sbuf, toSrv) \in Seq(Bytes) /\ Then(Then(sbuf, toSrv), sendline) \in Seq(Bytes)
      /\ c \in Seq(Bytes)
  <2>1. Then(sbuf, toSrv) \in Seq(Bytes)
    BY <1>1, Bytewise
  <2>2. Then(Then(sbuf, toSrv), sendline) \in Seq(Bytes)
    BY <1>1, <2>1, Bytewise
  <2> QED
    BY <1>1, <2>1, <2>2, Bytewise
<1>4. Then(Back, Between) = Then(Then(a, b), Then(sbuf, toSrv))
  <2>1. Between = Then(toCli, Then(sbuf, toSrv))
    BY <1>1, Bytewise DEF Between
  <2> DEFINE r == Then(a, rbuf)  w == Then(sbuf, toSrv)
  <2>2. r \in Seq(Bytes) /\ w \in Seq(Bytes) /\ Back = r
    BY <1>1, <1>2, <1>3, Bytewise DEF Back
  <2>3. Then(r, toCli) = Then(a, b)
    BY <1>1, <1>2, Bytewise
  <2>0. Between = Then(toCli, w)
    BY <2>1
  <2> HIDE DEF a, b, r, w
  <2>4. Then(Then(r, toCli), w) = Then(r, Then(toCli, w))
    <3>1. r \in Seq(Bytes) /\ toCli \in Seq(Bytes) /\ w \in Seq(Bytes)
      BY <1>1, <2>2
    <3> QED
      BY <3>1, Bytewise
  <2>5. Then(Back, Between) = Then(Then(a, b), w)
    BY <2>0, <2>2, <2>3, <2>4
  <2> QED
    BY <2>5 DEF w
<1>5. Lines = Then(Then(a, b), c)
  <2> DEFINE ab == Then(a, b)  st == Then(sbuf, toSrv)
  <2>1. ab \in Seq(Bytes) /\ st \in Seq(Bytes) /\ Then(st, sendline) \in Seq(Bytes)
    BY <1>2, <1>3, Bytewise
  <2>2. Lines = Then(Then(Then(ab, st), sendline), fbuf) /\ c = Then(Then(st, sendline), fbuf)
    BY <1>4 DEF Lines
  <2> HIDE DEF ab, st, c
  <2>3. Then(Then(ab, st), sendline) = Then(ab, Then(st, sendline))
    BY <1>1, <2>1, Bytewise
  <2>4. Then(Then(ab, Then(st, sendline)), fbuf) = Then(ab, Then(Then(st, sendline), fbuf))
    BY <1>1, <2>1, Bytewise
  <2>5. Lines = Then(ab, c)
    BY <2>2, <2>3, <2>4
  <2> QED
    BY <2>5 DEF ab
<1>6. Lines = Upto(consumed)
  BY DEF LAlive, LWhole
<1> HIDE DEF a, c
<1>7. Steady(b)
  BY <1>1, <1>2, <1>3, <1>5, <1>6, SteadyMiddle
<1> QED
  BY <1>7 DEF LMiddle

LEMMA LStep == LInv /\ [L!Next]_(L!vars) => LInv'
<1>0. SUFFICES ASSUME LInv, [L!Next]_(L!vars) PROVE LInv'
  OBVIOUS
<1> USE EchoAssumption
    DEF L!srvVars, L!user, L!outs, L!input, L!output, L!clientVars, L!Over
<1>a. /\ L!TypeOK /\ SrvInv /\ LPlaces /\ LSteady /\ LWhole /\ finSrv \in BOOLEAN /\ SrvTypeOK
      /\ spc = "exit" => finSrv
  BY <1>0 DEF LInv, SrvInv, SrvTypeOK
<1>b. /\ shown \in Seq(Bytes) /\ recvline \in Seq(Bytes) /\ rbuf \in Seq(Bytes)
      /\ sendline \in Seq(Bytes) /\ fbuf \in Seq(Bytes) /\ <<>> \in Seq(Bytes)
      /\ toCli \in Seq(Bytes) /\ sbuf \in Seq(Bytes) /\ toSrv \in Seq(Bytes)
      /\ Then(shown, recvline) \in Seq(Bytes) /\ Back \in Seq(Bytes) /\ Between \in Seq(Bytes)
      /\ Then(Back, Between) \in Seq(Bytes) /\ Then(Then(Back, Between), sendline) \in Seq(Bytes)
      /\ Then(rbuf, toCli) \in Seq(Bytes)
      /\ Len(toCli) \in Nat /\ Len(toSrv) \in Nat /\ Len(sendline) \in Nat
      /\ Len(recvline) \in Nat /\ Len(rbuf) \in Nat /\ Len(fbuf) \in Nat
      /\ typed \in Nat /\ consumed \in Nat /\ consumed <= typed /\ typed <= InputLen
      /\ consumed \in 0 .. InputLen
  BY <1>a, LTyped
<1>c. client \in {"str_cli", "str_cli_select", "strclifork"}
  BY <1>a DEF L!TypeOK
<1>d. Steady(fbuf) /\ Steady(rbuf)
  <2>1. Steady(rbuf)
    BY <1>a, <1>b, SteadyParts DEF LSteady, LMiddle
  <2>2. PICK p \in 0 .. InputLen : Then(Upto(p), fbuf) = Upto(consumed)
    BY <1>a DEF LSteady
  <2>3. Upto(p) \in Seq(Bytes) /\ Then(Then(Upto(p), fbuf), <<>>) = Upto(consumed)
    BY <1>b, <2>2, UptoSeq, ThenFacts
  <2> QED
    BY <1>b, <2>1, <2>3, SteadyMiddle
<1>1. CASE L!Type
  <2>1. L!TypeOK' /\ LPlaces'
    BY <1>a, <1>b, <1>1 DEF L!Type, L!TypeOK, L!SrvTypeOK, LPlaces, L!At, L!Forked
  <2> QED
    BY <1>0, <1>a, <1>1, <2>1, LStill DEF L!Type, LInv
<1>2. CASE L!EndInput
  <2>1. L!TypeOK' /\ LPlaces'
    BY <1>a, <1>b, <1>2 DEF L!EndInput, L!TypeOK, L!SrvTypeOK, LPlaces, L!At, L!Forked
  <2> QED
    BY <1>0, <1>a, <1>2, <2>1, LStill DEF L!EndInput, LInv
<1>3. CASE L!TakeOutput
  <2>1. L!TypeOK' /\ LPlaces'
    BY <1>a, <1>b, <1>3 DEF L!TakeOutput, L!TypeOK, L!SrvTypeOK, LPlaces, L!At, L!Forked
  <2> QED
    BY <1>0, <1>a, <1>3, <2>1, LStill DEF L!TakeOutput, LInv
<1>4. CASE L!Select
  <2>1. L!TypeOK' /\ LPlaces'
    BY <1>a, <1>b, <1>4 DEF L!Select, L!TypeOK, L!SrvTypeOK, LPlaces, L!At, L!Forked
  <2> QED
    BY <1>0, <1>a, <1>4, <2>1, LStill DEF L!Select, LInv
<1>5. CASE L!FgetsReads
  <2>1. PICK n \in 1 .. typed - consumed :
          /\ fbuf' = Then(fbuf, [k \in 1 .. n |-> consumed + k])
          /\ consumed' = consumed + n
    BY <1>5 DEF L!FgetsReads, Then
  <2>2. n \in Nat /\ n >= 1 /\ consumed + n <= typed /\ consumed + n <= InputLen
    BY <1>b
  <2>0. UNCHANGED <<toSrv, toCli, finSrv, finCli, sbuf, spc, client, typed, ended, sendline, rbuf,
                    recvline, outPending, shown, rset, cpc, kpc>>
    BY <1>5 DEF L!FgetsReads
  <2> DEFINE s == [k \in 1 .. n |-> consumed + k]
  <2>3. /\ s \in Seq(Bytes) /\ Then(Upto(consumed), s) = Upto(consumed + n)
    BY Zenon, <1>b, <2>2, UptoExtended
  <2> HIDE DEF s
  <2>b. fbuf \in Seq(Bytes) /\ s \in Seq(Bytes)
    BY <1>b, <2>3
  <2>4. fbuf' = Then(fbuf, s) /\ fbuf' \in Seq(Bytes)
    <3>1. fbuf' = Then(fbuf, s)
      BY <2>1 DEF s
    <3> QED
      BY <2>b, <3>1, Bytewise
  <2>5. L!TypeOK'
    <3>1. consumed' \in 0 .. typed
      BY <1>b, <2>1, <2>2
    <3>2. fbuf' \in Seq(1 .. InputLen)
      BY <2>4 DEF Bytes
    <3>3. L!SrvTypeOK'
      BY <1>a, <2>0 DEF L!TypeOK, L!SrvTypeOK
    <3> QED
      BY <1>a, <2>0, <3>1, <3>2, <3>3 DEF L!TypeOK
  <2>6. LPlaces' /\ SrvInv'
    BY <1>a, <2>0 DEF LPlaces, L!At, L!Forked, SrvInv, SrvTypeOK
  <2>7. LSteady'
    <3>1. PICK p \in 0 .. InputLen : Then(Upto(p), fbuf) = Upto(consumed)
      BY <1>a DEF LSteady
    <3>2. Then(Upto(p), Then(fbuf, s)) = Then(Then(Upto(p), fbuf), s)
      <4>1. Upto(p) \in Seq(Bytes)
        BY UptoSeq
      <4> QED
        BY <2>b, <4>1, Bytewise
    <3> QED
      BY <1>a, <2>0, <2>1, <2>3, <2>4, <3>1, <3>2 DEF LSteady, LMiddle
  <2>8. LWhole'
    <3> DEFINE x == Then(Then(Back, Between), sendline)
    <3>1. x \in Seq(Bytes) /\ x' = x /\ Lines' = Then(x, Then(fbuf, s)) /\ Lines = Then(x, fbuf)
      BY <1>b, <2>0, <2>4 DEF Lines, Back, Between
    <3> HIDE DEF x
    <3>2. Then(x, Then(fbuf, s)) = Then(Then(x, fbuf), s)
      BY <2>b, <3>1, Bytewise
    <3> QED
      BY <1>a, <2>0, <2>1, <2>3, <3>1, <3>2 DEF LWhole
  <2> QED
    BY <2>5, <2>6, <2>7, <2>8 DEF LInv
<1>6. CASE L!FgetsReturns
  <2> DEFINE n == IF L!HasLine(fbuf) THEN L!LineEnd(fbuf) ELSE Len(fbuf)
  <2>0. /\ cpc = "fgets" /\ fbuf # <<>> /\ cpc' = "writen" /\ sendline = <<>>
        /\ UNCHANGED <<toSrv, toCli, finSrv, finCli, sbuf, spc, client, typed, ended, consumed, rbuf,
                       recvline, outPending, shown, rset, kpc>>
    BY <1>a, <1>6 DEF L!FgetsReturns, LPlaces
  <2>1. n \in 1 .. Len(fbuf) /\ n <= 2
    <3>1. Len(fbuf) >= 1
      BY <1>b, <2>0, EmptySeq
    <3> QED
      BY <1>b, <1>d, <3>1, LineEnds
  <2>2. sendline' = First(n, fbuf) /\ fbuf' = Rest(n, fbuf)
    BY <1>6 DEF L!FgetsReturns, L!First, L!Rest, First, Rest
  <2> HIDE DEF n
  <2>3. /\ sendline' \in Seq(Bytes) /\ fbuf' \in Seq(Bytes) /\ Len(sendline') = n
    BY ZenonT(60), <1>b, <2>1, <2>2, Split
  <2>4. L!TypeOK'
    BY <1>a, <1>b, <2>0, <2>1, <2>3 DEF L!TypeOK, L!SrvTypeOK, Bytes
  <2>5. LPlaces' /\ SrvInv'
    BY <1>a, <1>c, <2>0 DEF LPlaces, L!At, L!Forked, SrvInv, SrvTypeOK
  <2>6. LSteady'
    <3>1. PICK p \in 0 .. InputLen : Then(Upto(p), fbuf) = Upto(consumed)
      BY <1>a DEF LSteady
    <3> DEFINE f == First(n, fbuf)
               q == Then(Upto(p), f)
    <3>2. Upto(p) \in Seq(Bytes) /\ f \in Seq(Bytes)
      BY <2>2, <2>3, UptoSeq
    <3>3. q \in Seq(Bytes) /\ Then(q, fbuf') = Upto(consumed)
      <4>1. Then(q, Rest(n, fbuf)) = Then(Upto(p), fbuf)
        BY SMTT(30), <1>b, <2>1, <3>2, Moved
      <4> QED
        BY <2>2, <3>1, <3>2, <4>1, ThenFacts
    <3> HIDE DEF f, q
    <3>4. Len(Upto(consumed)) = consumed
      BY <1>b, UptoSeq
    <3>5. q = Upto(Len(q)) /\ Len(q) <= consumed
      <4> DEFINE g == fbuf'
      <4>1. /\ q \in Seq(Bytes) /\ g \in Seq(Bytes) /\ Then(q, g) = Upto(consumed)
            /\ Len(Then(q, g)) = consumed /\ consumed <= InputLen
        BY <1>b, <2>3, <3>3, <3>4
      <4> HIDE DEF g
      <4> QED
        BY <4>1, PrefixOfUpto
    <3>6. Len(q) \in 0 .. InputLen
      BY <1>b, <3>3, <3>5, LenProperties
    <3> QED
      BY <1>a, <2>0, <3>3, <3>5, <3>6 DEF LSteady, LMiddle
  <2>7. Lines' = Lines
    <3> DEFINE x == Then(Back, Between)
    <3>1. x' = x /\ x \in Seq(Bytes)
      BY <1>b, <2>0 DEF Back, Between
    <3>2. Lines' = Then(Then(x, First(n, fbuf)), Rest(n, fbuf)) /\ Lines = Then(Then(x, <<>>), fbuf)
      BY <2>0, <2>2, <3>1 DEF Lines
    <3> HIDE DEF x
    <3> QED
      BY <1>b, <2>1, <3>1, <3>2, Passed
  <2> QED
    BY <1>a, <2>0, <2>4, <2>5, <2>6, <2>7 DEF LInv, LWhole
<1>7. CASE L!FgetsEof
  <2>0. /\ cpc = "fgets" /\ cpc' = IF L!Forked THEN "pause" ELSE "return"
        /\ UNCHANGED <<toSrv, toCli, finCli, sbuf, spc, client, typed, ended, consumed, fbuf,
                       sendline, rbuf, recvline, outPending, shown, rset, kpc>>
    BY <1>7 DEF L!FgetsEof
  <2>1. finSrv' \in BOOLEAN
    BY <1>7, Zenon DEF L!FgetsEof, L!SendFin, L!Forked
  <2>2. finSrv' <=> L!Forked
    BY <1>7, Zenon DEF L!FgetsEof, L!SendFin
  <2>3. spc = "exit" => finSrv'
    BY <1>a, <2>2 DEF LPlaces
  <2>4. L!TypeOK'
    BY <1>a, <2>0, <2>1 DEF L!TypeOK, L!SrvTypeOK
  <2>5. LPlaces'
    BY <1>a, <2>0, <2>2 DEF LPlaces, L!At, L!Forked
  <2> QED
    BY <1>0, <2>0, <2>1, <2>3, <2>4, <2>5, LStill DEF LInv
<1>8. CASE L!Writen
  <2>1. PICK n \in L!Readable(Len(sendline), SendCap - Len(toSrv)) :
          toSrv' = Then(toSrv, First(n, sendline)) /\ sendline' = Rest(n, sendline)
    BY <1>8 DEF L!Writen, Then, L!First, L!Rest, First, Rest
  <2>2. n \in 1 .. Len(sendline) /\ n \in Nat /\ n <= SendCap - Len(toSrv)
    BY <1>b DEF L!Readable, L!Least
  <2>0. /\ cpc = "writen" /\ cpc' = IF sendline' # <<>> THEN "writen" ELSE L!AfterWriten
        /\ UNCHANGED <<toCli, finSrv, finCli, sbuf, spc, client, typed, ended, consumed, fbuf, rbuf,
                       recvline, outPending, shown, rset, kpc>>
    BY <1>8 DEF L!Writen
  <2> DEFINE f == First(n, sendline)
  <2>3. /\ f \in Seq(Bytes) /\ Len(f) = n /\ Rest(n, sendline) \in Seq(Bytes)
        /\ Len(Rest(n, sendline)) = Len(sendline) - n
    BY SMTT(30), <1>b, <2>2, Split
  <2> HIDE DEF f
  <2>4. toSrv' = Then(toSrv, f)
    BY <2>1 DEF f
  <2>5. toSrv' \in Seq(Bytes) /\ Len(toSrv') = Len(toSrv) + n
    BY <1>b, <2>3, <2>4, ThenFacts
  <2>6. /\ toSrv' \in Seq(1 .. InputLen) /\ Len(toSrv') <= SendCap
        /\ sendline' \in Seq(1 .. InputLen) /\ Len(sendline') <= 2
    BY <1>a, <1>b, <2>1, <2>2, <2>3, <2>5 DEF Bytes, L!TypeOK
  <2>7. /\ cpc' \in {"writen", "readline", "select", "fgets"}
        /\ cpc' # "writen" => sendline' = <<>>
        /\ L!Forked => cpc' \in {"writen", "fgets"}
    BY <1>c, <2>0 DEF L!AfterWriten, L!Selects, L!Forked
  <2>8. L!TypeOK'
    BY <1>a, <2>0, <2>6, <2>7 DEF L!TypeOK, L!SrvTypeOK
  <2>9. LPlaces' /\ SrvInv' /\ LSteady'
    <3>1. LPlaces'
      BY <1>a, <2>0, <2>7 DEF LPlaces, L!At, L!Forked
    <3>2. SrvInv'
      BY <1>a, <2>0, <2>6 DEF SrvInv, SrvTypeOK
    <3> QED
      BY <1>a, <2>0, <3>1, <3>2 DEF LSteady, LMiddle
  <2>10. Lines' = Lines
    <3>1. Between' = Then(Between, f)
      <4>1. Between' = Then(Then(toCli, sbuf), Then(toSrv, f))
        BY <2>0, <2>4 DEF Between
      <4> QED
        BY <1>a, <1>b, <2>3, <4>1, ClientMoves
    <3>2. Then(Then(Back, Then(Between, f)), Rest(n, sendline)) = Then(Then(Back, Between), sendline)
      <4>1. /\ Back \in Seq(Bytes) /\ Between \in Seq(Bytes) /\ sendline \in Seq(Bytes)
            /\ n \in 1 .. Len(sendline)
        BY <1>b, <2>2
      <4> QED
        BY <4>1, SMTT(30), Moved DEF f
    <3> QED
      BY <2>0, <2>1, <3>1, <3>2 DEF Lines, Back
  <2> QED
    BY <1>a, <2>0, <2>8, <2>9, <2>10 DEF LInv, LWhole
<1>9. CASE L!ReadlineReads
  <2>1. PICK n \in L!Readable(Len(toCli), MAXLINE) :
          rbuf' = Then(rbuf, First(n, toCli)) /\ toCli' = Rest(n, toCli)
    BY <1>9 DEF L!ReadlineReads, Then, L!First, L!Rest, First, Rest
  <2>2. n \in 1 .. Len(toCli) /\ n \in Nat
    BY <1>b DEF L!Readable, L!Least
  <2>0. UNCHANGED <<toSrv, finSrv, finCli, sbuf, spc, client, typed, ended, consumed, fbuf, sendline,
                    recvline, outPending, shown, rset, cpc, kpc>>
    BY <1>9 DEF L!ReadlineReads
  <2> DEFINE f == First(n, toCli)
  <2>3. /\ f \in Seq(Bytes) /\ Len(f) = n /\ Rest(n, toCli) \in Seq(Bytes)
        /\ Len(Rest(n, toCli)) = Len(toCli) - n
    BY SMTT(30), <1>b, <2>2, Split
  <2>4. Then(Then(Back, f), Then(Then(Rest(n, toCli), sbuf), toSrv)) = Then(Back, Between)
    BY <1>a, <1>b, <2>2, ClientMoves
  <2>5. Then(Then(rbuf, f), Rest(n, toCli)) = Then(rbuf, toCli)
    <3>1. rbuf \in Seq(Bytes) /\ toCli \in Seq(Bytes)
      BY <1>b
    <3> QED
      BY <2>2, <3>1, SMTT(30), Moved
  <2> HIDE DEF f
  <2>6. rbuf' = Then(rbuf, f) /\ rbuf' \in Seq(Bytes)
    BY <1>b, <2>1, <2>3, ThenFacts DEF f
  <2>7. toCli' \in Seq(1 .. InputLen) /\ Len(toCli') <= SendCap /\ rbuf' \in Seq(1 .. InputLen)
    BY <1>a, <1>b, <2>1, <2>2, <2>3, <2>6 DEF Bytes, SrvTypeOK
  <2>8. L!TypeOK' /\ LPlaces' /\ SrvInv'
    <3>1. L!TypeOK'
      BY <1>a, <2>0, <2>7 DEF L!TypeOK, L!SrvTypeOK
    <3>2. LPlaces' /\ SrvInv'
      BY <1>a, <2>0, <2>7 DEF LPlaces, L!At, L!Forked, SrvInv, SrvTypeOK
    <3> QED
      BY <3>1, <3>2
  <2>9. LSteady'
    BY <1>a, <2>0, <2>1, <2>5, <2>6 DEF LSteady, LMiddle
  <2>10. Lines' = Lines
    <3>1. Back' = Then(Back, f)
      <4> DEFINE a == Then(shown, recvline)
      <4>1. a \in Seq(Bytes) /\ rbuf \in Seq(Bytes) /\ f \in Seq(Bytes)
        BY <1>b, <2>3
      <4>2. Back = Then(a, rbuf) /\ Back' = Then(a, Then(rbuf, f))
        BY <2>0, <2>6 DEF Back
      <4> HIDE DEF a
      <4> QED
        BY <4>1, <4>2, Bytewise
    <3>2. Between' = Then(Then(Rest(n, toCli), sbuf), toSrv)
      BY <2>0, <2>1 DEF Between
    <3> QED
      BY <2>0, <2>4, <3>1, <3>2 DEF Lines
  <2> QED
    BY <1>a, <2>0, <2>8, <2>9, <2>10 DEF LInv, LWhole
<1>10. CASE L!ReadlineReturns
  <2> DEFINE n == L!LineEnd(rbuf)
  <2>0. /\ recvline = <<>> /\ L!At("readline") /\ L!Goto("fputs")
        /\ UNCHANGED <<toSrv, toCli, finSrv, finCli, sbuf, spc, client, typed, ended, consumed, fbuf,
                       sendline, outPending, shown, rset>>
    BY <1>a, <1>10 DEF L!ReadlineReturns, LPlaces, L!At
  <2>1. n \in 1 .. Len(rbuf) /\ n <= 2
    BY <1>b, <1>d, <1>10, LineEnds DEF L!ReadlineReturns
  <2>2. recvline' = First(n, rbuf) /\ rbuf' = Rest(n, rbuf)
    BY <1>10 DEF L!ReadlineReturns, L!Kept, L!First, L!Rest, First, Rest
  <2> HIDE DEF n
  <2>3. /\ recvline' \in Seq(Bytes) /\ rbuf' \in Seq(Bytes) /\ Len(recvline') = n
        /\ Then(First(n, rbuf), Rest(n, rbuf)) = rbuf
    BY ZenonT(60), <1>b, <2>1, <2>2, Split
  <2>4. /\ IF L!Forked THEN kpc' = "fputs" /\ cpc' = cpc
                       ELSE cpc' = "fputs" /\ kpc' = kpc
        /\ ~L!Forked => kpc = "none"
    BY <1>a, <2>0 DEF L!Goto, LPlaces
  <2>5. L!TypeOK'
    <3>1. /\ recvline' \in Seq(1 .. InputLen) /\ rbuf' \in Seq(1 .. InputLen)
          /\ Len(recvline') <= 2
      BY <2>1, <2>3 DEF Bytes
    <3>2. L!SrvTypeOK' /\ kpc' \in {kpc, "fputs"} /\ cpc' \in {cpc, "fputs"}
      BY <1>a, <2>0, <2>4 DEF L!TypeOK, L!SrvTypeOK
    <3>3. kpc' \in {"none", "readline", "fputs", "kill", "exit", "astray", "error"}
      BY <1>a, <3>2 DEF L!TypeOK
    <3>4. cpc' \in L!Over \cup {"select", "fgets", "writen", "readline", "fputs", "pause"}
      BY <1>a, <3>2 DEF L!TypeOK
    <3> QED
      BY <1>a, <2>0, <3>1, <3>2, <3>3, <3>4 DEF L!TypeOK
  <2>6. LPlaces' /\ SrvInv'
    BY <1>a, <2>0, <2>4 DEF LPlaces, L!At, L!Forked, SrvInv, SrvTypeOK
  <2>7. LSteady'
    <3> DEFINE f == recvline'  g == rbuf'
    <3>0. f \in Seq(Bytes) /\ g \in Seq(Bytes) /\ toCli \in Seq(Bytes) /\ Then(f, g) = rbuf
      BY <1>b, <2>2, <2>3
    <3> HIDE DEF f, g
    <3>a. Then(f, Then(g, toCli)) = Then(rbuf, toCli) /\ Then(g, toCli) \in Seq(Bytes)
      BY <3>0, Bytewise
    <3>1. Then(recvline', Then(rbuf', toCli)) = Then(rbuf, toCli)
      BY <3>a DEF f, g
    <3>2. Then(rbuf', toCli) \in Seq(Bytes)
      BY <3>a DEF g
    <3>3. Steady(Then(rbuf', toCli))
      BY <1>a, <2>3, <3>1, <3>2, SteadyParts DEF LSteady, LMiddle
    <3> QED
      BY <1>a, <2>0, <3>3 DEF LSteady, LMiddle
  <2>8. Lines' = Lines
    <3>1. Back' = Back
      BY <1>b, <2>0, <2>1, <2>2, Passed DEF Back
    <3> QED
      BY <2>0, <3>1 DEF Lines, Between
  <2> QED
    BY <1>a, <2>0, <2>5, <2>6, <2>7, <2>8 DEF LInv, LWhole
<1>11. CASE L!ReadlineEof
  <2>0. /\ recvline = <<>> /\ L!At("readline") /\ toCli = <<>> /\ finCli /\ ~L!HasLine(rbuf)
        /\ recvline' = rbuf /\ rbuf' = <<>>
        /\ L!Goto(IF rbuf # <<>> THEN "fputs" ELSE IF L!Forked THEN "kill" ELSE "premature")
        /\ UNCHANGED <<toSrv, toCli, finSrv, finCli, sbuf, spc, client, typed, ended, consumed, fbuf,
                       sendline, outPending, shown, rset>>
    BY <1>a, <1>11 DEF L!ReadlineEof, LPlaces, L!At
  <2>1. Len(rbuf) <= 1
    BY <1>b, <1>d, <2>0, LineEnds
  <2>2. \/ /\ L!Forked /\ cpc' = cpc
           /\ \/ rbuf # <<>> /\ kpc' = "fputs"
              \/ rbuf = <<>> /\ kpc' = "kill"
        \/ /\ ~L!Forked /\ kpc' = kpc /\ kpc = "none" /\ spc = "killed"
           /\ \/ rbuf # <<>> /\ cpc' = "fputs"
              \/ rbuf = <<>> /\ cpc' = "premature"
    <3>1. ~L!Forked => spc = "killed" /\ kpc = "none"
      BY <1>a, <2>0 DEF LPlaces, SrvInv
    <3> QED
      BY <2>0, <3>1 DEF L!Goto
  <2>3. L!TypeOK'
    <3>1. /\ recvline' \in Seq(1 .. InputLen) /\ Len(recvline') <= 2
          /\ rbuf' \in Seq(1 .. InputLen)
      BY <1>b, <2>0, <2>1 DEF Bytes
    <3>2. /\ cpc' = cpc \/ cpc' \in {"fputs", "premature"}
          /\ kpc' = kpc \/ kpc' \in {"fputs", "kill"}
      BY <2>2
    <3> QED
      BY <1>a, <2>0, <3>1, <3>2 DEF L!TypeOK, L!SrvTypeOK
  <2>4. LPlaces' /\ SrvInv'
    BY <1>a, <2>0, <2>2 DEF LPlaces, L!At, L!Forked, SrvInv, SrvTypeOK
  <2>5. LSteady'
    <3>1. Then(rbuf', toCli') = <<>>
      BY <1>b, <2>0, ThenFacts
    <3>2. Steady(<<>>)
      BY DEF Steady
    <3> QED
      BY <1>a, <2>0, <3>1, <3>2 DEF LSteady, LMiddle
  <2>6. Lines' = Lines
    <3>1. Back' = Back
      <4>1. /\ Then(shown, <<>>) = shown /\ Then(shown, rbuf) \in Seq(Bytes)
            /\ Then(Then(shown, rbuf), <<>>) = Then(shown, rbuf)
        BY <1>b, ThenFacts
      <4> QED
        BY <2>0, <4>1 DEF Back
    <3> QED
      BY <2>0, <3>1 DEF Lines, Between
  <2> QED
    BY <1>a, <2>0, <2>3, <2>4, <2>5, <2>6 DEF LInv, LWhole
<1>12. CASE L!Fputs
  <2>1. PICK n \in L!Readable(Len(recvline), OutCap - outPending) :
          /\ shown' = Then(shown, First(n, recvline)) /\ outPending' = outPending + n
          /\ recvline' = Rest(n, recvline)
    BY <1>12 DEF L!Fputs, Then, L!First, L!Rest, First, Rest
  <2>2. n \in 1 .. Len(recvline) /\ n \in Nat /\ n <= OutCap - outPending
    BY <1>a, <1>b DEF L!Readable, L!Least, L!TypeOK
  <2>0. /\ L!At("fputs") /\ L!Goto(IF recvline' # <<>> THEN "fputs" ELSE L!AfterFputs)
        /\ UNCHANGED <<toSrv, toCli, finSrv, finCli, sbuf, spc, client, typed, ended, consumed, fbuf,
                       sendline, rbuf, rset>>
    BY <1>12 DEF L!Fputs
  <2> DEFINE f == First(n, recvline)
  <2>3. /\ f \in Seq(Bytes) /\ Rest(n, recvline) \in Seq(Bytes)
        /\ Len(Rest(n, recvline)) = Len(recvline) - n
    BY SMTT(30), <1>b, <2>2, Split
  <2>4. Then(Then(shown, f), Rest(n, recvline)) = Then(shown, recvline)
    BY SMTT(30), <1>b, <2>2, Moved
  <2> HIDE DEF f
  <2>5. shown' = Then(shown, f) /\ shown' \in Seq(Bytes)
    BY <1>b, <2>1, <2>3, ThenFacts DEF f
  <2>6. /\ shown' \in Seq(1 .. InputLen) /\ recvline' \in Seq(1 .. InputLen) /\ Len(recvline') <= 2
        /\ outPending' \in 0 .. OutCap
    BY <1>a, <1>b, <2>1, <2>2, <2>3, <2>5 DEF Bytes, L!TypeOK
  <2>7. /\ recvline' # <<>> => IF L!Forked THEN kpc' = "fputs" ELSE cpc' = "fputs"
        /\ \/ L!Forked /\ cpc' = cpc /\ kpc' \in {"fputs", "readline"}
           \/ ~L!Forked /\ kpc' = kpc /\ cpc = "fputs" /\ cpc' \in {"fputs", "fgets", "select"}
    <3>1. /\ L!AfterFputs \in {"fgets", "select", "readline"}
          /\ L!Forked => L!AfterFputs = "readline"
          /\ ~L!Forked => L!AfterFputs \in {"fgets", "select"}
      BY <1>c DEF L!AfterFputs, L!Selects, L!Forked
    <3> QED
      BY <2>0, <3>1 DEF L!Goto, L!At
  <2>8. L!TypeOK'
    BY <1>a, <2>0, <2>6, <2>7 DEF L!TypeOK, L!SrvTypeOK
  <2>9. LPlaces' /\ SrvInv' /\ LSteady'
    <3>1. LPlaces'
      <4>1. kpc = "fputs" \/ ~L!Forked
        BY <2>0 DEF L!At
      <4> QED
        BY <1>a, <2>0, <2>7, <4>1 DEF LPlaces, L!At, L!Forked
    <3> QED
      BY <1>a, <2>0, <3>1 DEF LSteady, LMiddle, SrvInv, SrvTypeOK
  <2>10. Lines' = Lines
    BY <2>0, <2>1, <2>4, <2>5 DEF Lines, Back, Between
  <2> QED
    BY <1>a, <2>0, <2>8, <2>9, <2>10 DEF LInv, LWhole
<1>13. CASE L!Kill
  <2>1. L!TypeOK'
    BY <1>a, <1>13 DEF L!Kill, L!TypeOK, L!SrvTypeOK
  <2>2. LPlaces'
    BY <1>a, <1>13 DEF L!Kill, LPlaces, L!At, L!Forked
  <2> QED
    BY <1>0, <1>a, <1>13, <2>1, <2>2, LStill DEF L!Kill, LInv
<1>14. CASE L!SocketError
  <2>0. /\ spc = "killed"
        /\ \/ /\ cpc' = "error" /\ kpc' = kpc
              /\ cpc = "writen" \/ (L!Forked /\ cpc = "fgets")
           \/ L!At("readline") /\ L!Goto("error")
        /\ UNCHANGED <<toSrv, toCli, finSrv, finCli, sbuf, spc, client, typed, ended, consumed, fbuf,
                       sendline, rbuf, recvline, outPending, shown, rset>>
    BY <1>14 DEF L!SocketError, L!Reset
  <2>1. \/ /\ cpc' = "error" /\ kpc' = kpc
           /\ cpc = "writen" \/ (L!Forked /\ cpc = "fgets")
        \/ L!Forked /\ kpc = "readline" /\ kpc' = "error" /\ cpc' = cpc
        \/ ~L!Forked /\ cpc = "readline" /\ cpc' = "error" /\ kpc' = kpc
    BY <2>0 DEF L!At, L!Goto
  <2>2. L!TypeOK'
    <3>1. (cpc' = cpc \/ cpc' = "error") /\ (kpc' = kpc \/ kpc' = "error")
      BY <2>1
    <3> QED
      BY <1>a, <2>0, <3>1 DEF L!TypeOK, L!SrvTypeOK
  <2>3. LPlaces'
    BY <1>a, <2>0, <2>1 DEF LPlaces, L!At, L!Forked
  <2> QED
    BY <1>0, <1>a, <2>0, <2>2, <2>3, LStill DEF LInv
<1>15. CASE L!ServerStep \/ L!ServerDies
  <2>0. /\ SrvStep \/ SrvKilled
        /\ UNCHANGED <<client, typed, ended, consumed, fbuf, sendline, rbuf, recvline,
                       outPending, shown, rset, cpc, kpc>>
    BY <1>15, SameServerL DEF L!ServerStep, L!ServerDies
  <2>1. /\ SrvInv' /\ finSrv' = finSrv
        /\ spc' # "killed" => spc # "killed" /\ Between' = Between
    BY <1>a, <2>0, ServerMoves
  <2>2. spc = "killed" => spc' = "killed"
    BY <2>1
  <2>3. L!TypeOK'
    BY <1>a, <2>0, <2>1 DEF L!TypeOK, L!SrvTypeOK, SrvTypeOK, SrvInv
  <2>4. LPlaces'
    BY <1>a, <2>0, <2>1, <2>2 DEF LPlaces, L!At, L!Forked
  <2>5. LWhole'
    <3>1. Back' = Back
      BY <2>0 DEF Back
    <3> QED
      BY <1>a, <2>0, <2>1, <3>1 DEF LWhole, Lines
  <2>6. LMiddle'
    <3>1. CASE spc' = "killed"
      <4>1. toCli' = toCli
        BY <2>0, <3>1 DEF SrvStep, SrvRead, SrvWrite, SrvExit, SrvKilled
      <4> QED
        BY <1>a, <2>0, <4>1 DEF LSteady, LMiddle
    <3>2. CASE spc' # "killed"
      <4>1. LAlive'
        BY <2>1, <2>3, <2>5, <3>2 DEF LAlive
      <4>2. (LAlive => LMiddle)'
        BY LPart, PTL
      <4> QED
        BY <4>1, <4>2
    <3> QED
      BY <3>1, <3>2
  <2>7. LSteady'
    BY <1>a, <2>0, <2>6 DEF LSteady
  <2> QED
    BY <2>1, <2>3, <2>4, <2>5, <2>7 DEF LInv
<1>16. CASE UNCHANGED L!vars
  <2>1. L!TypeOK' /\ LPlaces'
    BY <1>a, <1>16 DEF L!vars, L!TypeOK, L!SrvTypeOK, LPlaces, L!At, L!Forked
  <2> QED
    BY <1>0, <1>a, <1>16, <2>1, LStill DEF L!vars, LInv
<1> QED
  BY <1>0, <1>1, <1>2, <1>3, <1>4, <1>5, <1>6, <1>7, <1>8, <1>9, <1>10, <1>11, <1>12, <1>13,
     <1>14, <1>15, <1>16
  DEF L!Next, L!Sending, L!Showing

LEMMA LInit == L!Init => LInv
<1> SUFFICES ASSUME L!Init PROVE LInv
  OBVIOUS
<1> USE EchoAssumption DEF L!Init, L!SrvInit, L!LineInit
<1>0. <<>> \in Seq(1 .. InputLen) /\ Len(<<>>) <= SendCap /\ Len(<<>>) <= MAXLINE /\ Len(<<>>) <= 2
  OBVIOUS
<1>1. SrvTypeOK
  BY <1>0, Zenon DEF SrvTypeOK
<1>2. SrvInv
  BY <1>1 DEF SrvInv
<1>3. /\ cpc = IF client = "str_cli_select" THEN "select" ELSE "fgets"
      /\ kpc = IF client = "strclifork" THEN "readline" ELSE "none"
      /\ client \in {"str_cli", "str_cli_select", "strclifork"} /\ ~finSrv
  BY Zenon DEF L!Selects, L!Forked
<1>4. L!TypeOK
  <2>1. typed \in 0 .. InputLen /\ consumed \in 0 .. typed /\ outPending \in 0 .. OutCap
    OBVIOUS
  <2>2. /\ fbuf \in Seq(1 .. InputLen) /\ sendline \in Seq(1 .. InputLen)
        /\ rbuf \in Seq(1 .. InputLen) /\ recvline \in Seq(1 .. InputLen)
        /\ shown \in Seq(1 .. InputLen) /\ Len(sendline) <= 2 /\ Len(recvline) <= 2
        /\ ended \in BOOLEAN /\ rset \subseteq {"stdin", "sock"}
    BY <1>0, Zenon
  <2> HIDE DEF L!Init, L!SrvInit, L!LineInit
  <2> QED
    BY <1>1, <1>3, <2>1, <2>2, SameServerL DEF L!TypeOK, L!Over
<1>5. LPlaces
  BY <1>3 DEF LPlaces, L!At, L!Forked
<1>6. Then(<<>>, <<>>) = <<>> /\ Upto(0) = <<>>
  BY DEF Then, Upto
<1>7. LSteady
  BY <1>6 DEF LSteady, LMiddle, Steady
<1>8. LWhole
  BY <1>6 DEF LWhole, Lines, Back, Between
<1> QED
  BY <1>2, <1>4, <1>5, <1>7, <1>8 DEF LInv

LEMMA LProperties ==
  LInv => L!TypeOK /\ L!NothingLost /\ L!EndsAreReal
<1> SUFFICES ASSUME LInv
             PROVE  L!TypeOK /\ L!NothingLost /\ L!EndsAreReal
  OBVIOUS
<1>1. L!TypeOK /\ SrvInv /\ LPlaces /\ LWhole /\ SrvTypeOK
  BY DEF LInv, SrvInv
<1>2. L!EndsAreReal
  BY <1>1 DEF LPlaces, L!EndsAreReal
<1>3. L!NothingLost
  <2>1. Back \in Seq(Bytes) /\ <<>> \in Seq(Bytes)
    BY <1>1, LTyped
  <2>2. Then(Then(Then(Back, toCli), sbuf), toSrv) = Then(Back, Between)
    BY <1>1, <2>1, ClientMoves
  <2>3. Then(Then(Then(Then(Then(Back, toCli), sbuf), toSrv), sendline), fbuf) = Lines
    BY <2>2 DEF Lines
  <2> QED
    BY <1>1, <2>3 DEF LWhole, L!NothingLost, Then, Back, Upto
<1> QED
  BY <1>1, <1>2, <1>3

\* str_cli, str_cli_select and strclifork, whatever the input and the sizes of
\* the buffers, and although Fgets and Readline read ahead: no line is lost or
\* cut, and neither the client nor its child blames or signals the wrong one.
THEOREM LinesLossless ==
  L!Spec => [](L!TypeOK /\ L!NothingLost /\ L!EndsAreReal)
  BY LInit, LStep, LProperties, PTL DEF L!Spec
-----------------------------------------------------------------------------
(* StrCliLines implements EchoService, but for str_cli_select.             *)

\* A line, or what there is of one.
OneLine(s) == Len(s) <= 2 /\ \A k \in 1 .. Len(s) - 1 : ~L!NewLine(s[k])

\* What is on its way from the client back to it.
Pending == Then(Then(rbuf, Between), sendline)

\* str_cli sends a line only when the one before has come back.
LTurns ==
  client = "str_cli" /\ spc # "killed" =>
    IF cpc \in {"writen", "readline"} THEN OneLine(Pending) ELSE Pending = <<>>

\* strclifork's parent has sent everything when it shuts down its half, and its
\* child has shown everything when it signals.
LClosed ==
  L!Forked =>
    /\ finSrv => /\ ended /\ consumed = typed /\ fbuf = <<>> /\ sendline = <<>>
                 /\ cpc \notin {"fgets", "writen"}
    /\ spc = "exit" => toSrv = <<>>
    /\ kpc = "kill" => toCli = <<>> /\ rbuf = <<>>
    /\ kpc \in {"kill", "exit", "astray"} => finCli
    /\ kpc = "error" => spc = "killed"

\* Also when the server is dead: what comes back is a beginning of the input.
Arriving == Then(Back, toCli)
LPrefix == Arriving = Upto(Len(Arriving)) /\ Len(Arriving) <= consumed

LServes == LPrefix /\ LTurns /\ LClosed

LEMMA LAlivePrefix == LAlive => LPrefix
<1> SUFFICES ASSUME LAlive PROVE LPrefix
  OBVIOUS
<1>1. L!TypeOK /\ SrvTypeOK /\ Lines = Upto(consumed)
  BY DEF LAlive, SrvInv, LWhole
<1>2. /\ Back \in Seq(Bytes) /\ toCli \in Seq(Bytes) /\ sbuf \in Seq(Bytes)
      /\ toSrv \in Seq(Bytes) /\ sendline \in Seq(Bytes) /\ fbuf \in Seq(Bytes)
      /\ consumed \in 0 .. InputLen /\ consumed \in Nat /\ consumed <= InputLen
  BY <1>1, LTyped, EchoAssumption
<1>3. Arriving \in Seq(Bytes)
  BY <1>2, ThenFacts DEF Arriving
<1> DEFINE x == Then(Then(Arriving, sbuf), toSrv)
<1>4. x \in Seq(Bytes)
  <2>1. Then(Arriving, sbuf) \in Seq(Bytes)
    BY <1>2, <1>3, ThenFacts
  <2> QED
    BY <1>2, <2>1, ThenFacts
<1>5. Lines = Then(Then(x, sendline), fbuf)
  <2>1. x = Then(Back, Between)
    BY <1>1, <1>2, ClientMoves DEF Arriving
  <2> QED
    BY <2>1 DEF Lines
<1> HIDE DEF x
<1>6. Len(Upto(consumed)) = consumed
  BY <1>2, UptoSeq
<1>7. x = Upto(Len(x)) /\ Len(x) <= consumed
  <2>1. Len(Lines) = consumed /\ Lines = Upto(Len(Lines))
    BY <1>1, <1>6
  <2>2. /\ Then(Then(x, sendline), fbuf) = Upto(Len(Then(Then(x, sendline), fbuf)))
        /\ Len(Then(Then(x, sendline), fbuf)) <= consumed
    BY <1>2, <1>5, <2>1
  <2> QED
    BY <1>2, <1>4, <2>2, Beginning
<1>8. Then(Then(Arriving, sbuf), toSrv) = Upto(Len(Then(Then(Arriving, sbuf), toSrv)))
      /\ Len(Then(Then(Arriving, sbuf), toSrv)) <= consumed
  BY <1>7 DEF x
<1>9. Arriving = Upto(Len(Arriving)) /\ Len(Arriving) <= consumed
  BY <1>2, <1>3, <1>8, Beginning
<1> QED
  BY <1>9 DEF LPrefix

\* The child, or the client, passes on what comes back.
LEMMA LBack ==
  ASSUME LInv, L!ReadlineReads \/ L!ReadlineReturns \/ L!ReadlineEof \/ L!Fputs
  PROVE  Arriving' = Arriving
<1>a. L!TypeOK /\ SrvTypeOK /\ LPlaces /\ LSteady
  BY DEF LInv, SrvInv
<1>b. /\ shown \in Seq(Bytes) /\ recvline \in Seq(Bytes) /\ rbuf \in Seq(Bytes)
      /\ toCli \in Seq(Bytes) /\ <<>> \in Seq(Bytes)
      /\ Then(shown, recvline) \in Seq(Bytes) /\ Back \in Seq(Bytes)
      /\ Len(toCli) \in Nat /\ Len(recvline) \in Nat /\ Len(rbuf) \in Nat
  BY <1>a, LTyped
<1>c. Steady(rbuf)
  BY <1>a, <1>b, SteadyParts DEF LSteady, LMiddle
<1>1. CASE L!ReadlineReads
  <2>1. PICK n \in L!Readable(Len(toCli), MAXLINE) :
          rbuf' = Then(rbuf, First(n, toCli)) /\ toCli' = Rest(n, toCli)
    BY <1>1 DEF L!ReadlineReads, Then, L!First, L!Rest, First, Rest
  <2>2. n \in 1 .. Len(toCli)
    BY <1>b, EchoAssumption DEF L!Readable, L!Least
  <2> DEFINE f == First(n, toCli)
  <2>3. f \in Seq(Bytes) /\ Rest(n, toCli) \in Seq(Bytes)
    BY SMTT(30), <1>b, <2>2, Split
  <2>4. Then(Then(Back, f), Rest(n, toCli)) = Then(Back, toCli)
    BY SMTT(30), <1>b, <2>2, Moved
  <2> HIDE DEF f
  <2>5. Back' = Then(Back, f)
    <3>1. UNCHANGED <<shown, recvline>> /\ rbuf' = Then(rbuf, f)
      BY <1>1, <2>1 DEF L!ReadlineReads, L!outs, f
    <3> QED
      BY <1>b, <2>3, <3>1, ThenAssociative DEF Back
  <2> QED
    BY <2>1, <2>4, <2>5 DEF Arriving
<1>2. CASE L!ReadlineReturns
  <2>1. recvline = <<>> /\ UNCHANGED <<shown, toCli>>
    BY <1>a, <1>2 DEF L!ReadlineReturns, L!outs, L!srvVars, LPlaces, L!At
  <2> DEFINE n == L!LineEnd(rbuf)
  <2>2. n \in 1 .. Len(rbuf)
    BY <1>b, <1>c, <1>2, LineEnds DEF L!ReadlineReturns
  <2>3. recvline' = First(n, rbuf) /\ rbuf' = Rest(n, rbuf)
    BY <1>2 DEF L!ReadlineReturns, L!Kept, L!First, L!Rest, First, Rest
  <2> HIDE DEF n
  <2> QED
    BY <1>b, <2>1, <2>2, <2>3, Passed DEF Arriving, Back
<1>3. CASE L!ReadlineEof
  <2>1. /\ recvline = <<>> /\ recvline' = rbuf /\ rbuf' = <<>> /\ UNCHANGED <<shown, toCli>>
    BY <1>a, <1>3 DEF L!ReadlineEof, L!outs, L!srvVars, LPlaces, L!At
  <2>2. /\ Then(shown, <<>>) = shown /\ Then(shown, rbuf) \in Seq(Bytes)
        /\ Then(Then(shown, rbuf), <<>>) = Then(shown, rbuf)
    BY <1>b, ThenFacts
  <2> QED
    BY <2>1, <2>2 DEF Arriving, Back
<1>4. CASE L!Fputs
  <2>1. PICK n \in L!Readable(Len(recvline), OutCap - outPending) :
          shown' = Then(shown, First(n, recvline)) /\ recvline' = Rest(n, recvline)
    BY <1>4 DEF L!Fputs, Then, L!First, L!Rest, First, Rest
  <2>2. n \in 1 .. Len(recvline)
    BY <1>a, <1>b, EchoAssumption DEF L!Readable, L!Least, L!TypeOK
  <2>3. Then(Then(shown, First(n, recvline)), Rest(n, recvline)) = Then(shown, recvline)
    BY SMTT(30), <1>b, <2>2, Moved
  <2> QED
    BY <1>4, <2>1, <2>3 DEF Arriving, Back, L!Fputs, L!srvVars
<1> QED
  BY <1>1, <1>2, <1>3, <1>4

LEMMA LPrefixStep ==
  ASSUME LInv, LInv', LPrefix, [L!Next]_(L!vars)
  PROVE  LPrefix'
<1> USE DEF L!srvVars, L!user, L!outs, L!input, L!output, L!clientVars
<1>1. CASE L!ReadlineReads \/ L!ReadlineReturns \/ L!ReadlineEof \/ L!Fputs
  <2>1. consumed' = consumed
    BY <1>1 DEF L!ReadlineReads, L!ReadlineReturns, L!ReadlineEof, L!Fputs
  <2> QED
    BY <1>1, <2>1, LBack DEF LPrefix
<1>2. CASE L!SrvWrite /\ UNCHANGED L!clientVars
  <2>1. spc' # "killed"
    BY <1>2 DEF L!SrvWrite
  <2>2. LAlive'
    BY <2>1 DEF LInv, LAlive
  <2>3. (LAlive => LPrefix)'
    BY LAlivePrefix, PTL
  <2> QED
    BY <2>2, <2>3
<1>3. CASE L!FgetsReads
  <2>1. PICK n \in 1 .. typed - consumed : consumed' = consumed + n
    BY <1>3 DEF L!FgetsReads
  <2>2. consumed \in Nat /\ typed \in Nat /\ Len(Arriving) \in Nat
    <3>1. L!TypeOK /\ SrvTypeOK
      BY DEF LInv, SrvInv
    <3>2. Back \in Seq(Bytes) /\ toCli \in Seq(Bytes) /\ consumed \in Nat /\ typed \in Nat
      BY <3>1, LTyped
    <3>3. Arriving \in Seq(Bytes)
      BY <3>2, ThenFacts DEF Arriving
    <3> QED
      BY <3>2, <3>3, LenProperties
  <2>3. Arriving' = Arriving
    BY <1>3 DEF L!FgetsReads, Arriving, Back
  <2> QED
    BY <2>1, <2>2, <2>3 DEF LPrefix
<1>4. CASE \/ L!Type \/ L!EndInput \/ L!TakeOutput \/ L!Select \/ L!FgetsReturns \/ L!FgetsEof
           \/ L!Writen \/ L!Kill \/ L!SocketError \/ L!ServerDies \/ UNCHANGED L!vars
           \/ (L!SrvRead \/ L!SrvExit) /\ UNCHANGED L!clientVars
  <2>1. UNCHANGED <<consumed, shown, recvline, rbuf, toCli>>
    BY <1>4 DEF L!Type, L!EndInput, L!TakeOutput, L!Select, L!FgetsReturns, L!FgetsEof, L!Writen,
                L!Kill, L!SocketError, L!ServerDies, L!vars, L!SrvRead, L!SrvExit, L!SrvKilled
  <2> QED
    BY <2>1 DEF LPrefix, Arriving, Back
<1> QED
  BY <1>1, <1>2, <1>3, <1>4
  DEF L!Next, L!Sending, L!Showing, L!ServerStep, L!SrvStep

LEMMA LSteadies ==
  ASSUME L!TypeOK, SrvTypeOK, LSteady
  PROVE  Steady(fbuf) /\ Steady(rbuf)
<1>1. rbuf \in Seq(Bytes) /\ toCli \in Seq(Bytes) /\ fbuf \in Seq(Bytes) /\ <<>> \in Seq(Bytes)
      /\ consumed \in 0 .. InputLen
  BY LTyped
<1>2. Steady(rbuf)
  BY <1>1, SteadyParts DEF LSteady, LMiddle
<1>3. PICK p \in 0 .. InputLen : Then(Upto(p), fbuf) = Upto(consumed)
  BY DEF LSteady
<1>4. Upto(p) \in Seq(Bytes) /\ Then(Then(Upto(p), fbuf), <<>>) = Upto(consumed)
  BY <1>1, <1>3, UptoSeq, ThenFacts
<1> QED
  BY <1>1, <1>2, <1>4, SteadyMiddle

\* What Fgets returns is one line.
LEMMA FirstLine ==
  ASSUME NEW s \in Seq(Bytes), s # <<>>, Steady(s), NEW n,
         n = IF L!HasLine(s) THEN L!LineEnd(s) ELSE Len(s)
  PROVE  n \in 1 .. Len(s) /\ OneLine(First(n, s))
<1>1. Len(s) \in Nat /\ Len(s) >= 1
  BY EmptySeq, LenProperties
<1>2. n \in 1 .. Len(s) /\ n <= 2 /\ n \in Nat /\ \A k \in 1 .. n - 1 : ~L!NewLine(s[k])
  <2>1. CASE L!HasLine(s)
    BY <1>1, <2>1, LineEnds
  <2>2. CASE ~L!HasLine(s)
    BY <1>1, <2>2, LineEnds
  <2> QED
    BY <2>1, <2>2
<1>3. Len(First(n, s)) = n
  BY <1>2, Split
<1>4. ASSUME NEW k \in 1 .. n - 1 PROVE First(n, s)[k] = s[k]
  BY <1>1, <1>2 DEF First
<1> QED
  BY <1>2, <1>3, <1>4 DEF OneLine

\* The end of a line ends all there is of it.
LEMMA LineIsAll ==
  ASSUME NEW s \in Seq(Bytes), NEW t \in Seq(Bytes), OneLine(Then(s, t)),
         NEW n \in 1 .. Len(s), L!NewLine(s[n])
  PROVE  Rest(n, s) = <<>> /\ t = <<>>
<1>1. /\ Len(s) \in Nat /\ Len(t) \in Nat /\ Len(Then(s, t)) = Len(s) + Len(t)
      /\ \A k \in 1 .. Len(s) + Len(t) :
           Then(s, t)[k] = IF k <= Len(s) THEN s[k] ELSE t[k - Len(s)]
  BY ConcatProperties, LenProperties DEF Then
<1>2. n \in 1 .. Len(s) + Len(t) /\ n <= Len(s) /\ n \in Nat
  BY <1>1
<1>3. Then(s, t)[n] = s[n]
  BY <1>1, <1>2
<1>4. ~(n \in 1 .. Len(Then(s, t)) - 1)
  BY <1>3 DEF OneLine
<1>5. n = Len(s) /\ Len(t) = 0
  BY <1>1, <1>2, <1>4
<1>6. Rest(n, s) \in Seq(Bytes) /\ Len(Rest(n, s)) = 0
  BY <1>1, <1>5, Split
<1> QED
  BY <1>5, <1>6, EmptySeq

LEMMA NothingPending ==
  ASSUME L!TypeOK, SrvTypeOK
  PROVE  /\ Pending = Then(rbuf, Then(Between, sendline)) /\ Pending \in Seq(Bytes)
         /\ Then(rbuf, Between) \in Seq(Bytes) /\ Then(Between, sendline) \in Seq(Bytes)
         /\ Pending = <<>> => rbuf = <<>> /\ Between = <<>> /\ sendline = <<>>
<1>1. rbuf \in Seq(Bytes) /\ Between \in Seq(Bytes) /\ sendline \in Seq(Bytes)
  BY LTyped
<1>2. /\ Then(rbuf, Between) \in Seq(Bytes) /\ Then(Between, sendline) \in Seq(Bytes)
      /\ Len(Then(rbuf, Between)) = Len(rbuf) + Len(Between)
  BY <1>1, ThenFacts
<1>3. Pending \in Seq(Bytes) /\ Len(Pending) = Len(Then(rbuf, Between)) + Len(sendline)
  BY <1>1, <1>2, ThenFacts DEF Pending
<1>4. Pending = Then(rbuf, Then(Between, sendline))
  BY <1>1, ThenAssociative DEF Pending
<1>5. Len(rbuf) \in Nat /\ Len(Between) \in Nat /\ Len(sendline) \in Nat
  BY <1>1, LenProperties
<1>6. ASSUME Pending = <<>> PROVE rbuf = <<>> /\ Between = <<>> /\ sendline = <<>>
  <2>1. Len(Pending) = 0
    BY <1>6
  <2> HIDE <1>6
  <2> DEFINE a == Len(rbuf)  b == Len(Between)  c == Len(sendline)
  <2>2. (a + b) + c = 0 /\ a \in Nat /\ b \in Nat /\ c \in Nat
    BY <1>2, <1>3, <1>5, <2>1
  <2> HIDE DEF a, b, c
  <2>3. a = 0 /\ b = 0 /\ c = 0
    BY <2>2
  <2>4. Len(rbuf) = 0 /\ Len(Between) = 0 /\ Len(sendline) = 0
    BY <2>3 DEF a, b, c
  <2> QED
    BY <1>1, <2>4, EmptySeq
<1> QED
  BY <1>2, <1>3, <1>4, <1>6

LEMMA LTurnsStep ==
  ASSUME LInv, LTurns, [L!Next]_(L!vars)
  PROVE  LTurns'
<1> USE DEF L!srvVars, L!user, L!outs, L!input, L!output, L!clientVars
<1>0. client' = client
  BY DEF L!Next, L!Sending, L!Showing, L!vars, L!Type, L!EndInput, L!TakeOutput, L!Select,
         L!FgetsReads, L!FgetsReturns, L!FgetsEof, L!Writen, L!ReadlineReads, L!ReadlineReturns,
         L!ReadlineEof, L!Fputs, L!Kill, L!SocketError, L!ServerStep, L!ServerDies
<1>1. SUFFICES ASSUME client = "str_cli", spc' # "killed"
               PROVE  IF cpc' \in {"writen", "readline"} THEN OneLine(Pending')
                                                        ELSE Pending' = <<>>
  BY <1>0 DEF LTurns
<1>a. L!TypeOK /\ SrvInv /\ SrvTypeOK /\ LPlaces /\ LSteady /\ ~L!Forked /\ ~L!Selects
  BY <1>1 DEF LInv, SrvInv, L!Forked, L!Selects
<1>b. /\ rbuf \in Seq(Bytes) /\ sendline \in Seq(Bytes) /\ fbuf \in Seq(Bytes)
      /\ <<>> \in Seq(Bytes) /\ Between \in Seq(Bytes) /\ toCli \in Seq(Bytes)
      /\ toSrv \in Seq(Bytes) /\ Then(rbuf, Between) \in Seq(Bytes)
      /\ Len(toCli) \in Nat /\ Len(toSrv) \in Nat /\ Len(sendline) \in Nat /\ Len(rbuf) \in Nat
  BY <1>a, LTyped, NothingPending
<1>c. spc # "killed" => IF cpc \in {"writen", "readline"} THEN OneLine(Pending) ELSE Pending = <<>>
  BY <1>1 DEF LTurns
<1>d. OneLine(<<>>)
  BY DEF OneLine
<1>e. Steady(fbuf) /\ Steady(rbuf)
  BY <1>a, LSteadies
<1>2. CASE \/ L!Type \/ L!EndInput \/ L!TakeOutput \/ L!FgetsReads \/ UNCHANGED L!vars
  <2>1. UNCHANGED <<toSrv, toCli, sbuf, spc, rbuf, sendline, cpc>>
    BY <1>2 DEF L!Type, L!EndInput, L!TakeOutput, L!FgetsReads, L!vars
  <2> QED
    BY <1>1, <1>c, <2>1 DEF Pending, Between
<1>3. CASE L!Select
  BY <1>1, <1>3, <1>c, <1>d DEF L!Select, Pending, Between
<1>4. CASE L!FgetsReturns
  <2> DEFINE n == IF L!HasLine(fbuf) THEN L!LineEnd(fbuf) ELSE Len(fbuf)
  <2>0. sendline' = First(n, fbuf) /\ fbuf' = Rest(n, fbuf)
    BY <1>4 DEF L!FgetsReturns, L!First, L!Rest, First, Rest
  <2>1. /\ cpc = "fgets" /\ fbuf # <<>> /\ cpc' = "writen" /\ sendline' = First(n, fbuf)
        /\ UNCHANGED <<toSrv, toCli, sbuf, spc, rbuf>>
    BY <1>4, <2>0 DEF L!FgetsReturns
  <2>2. OneLine(First(n, fbuf)) /\ n \in 1 .. Len(fbuf)
    BY <1>b, <1>e, <2>1, FirstLine
  <2> HIDE DEF n
  <2>3. Pending = <<>> /\ First(n, fbuf) \in Seq(Bytes)
    BY <1>1, <1>b, <1>c, <2>1, <2>2, Split
  <2>4. rbuf = <<>> /\ Between = <<>>
    BY <1>a, <2>3, NothingPending
  <2>5. Pending' = Then(Then(<<>>, <<>>), First(n, fbuf))
    BY <2>1, <2>4 DEF Pending, Between
  <2>6. Pending' = First(n, fbuf)
    BY <1>b, <2>3, <2>5, ThenFacts
  <2> QED
    BY <2>1, <2>2, <2>6
<1>5. CASE L!FgetsEof
  BY <1>1, <1>5, <1>a, <1>c DEF L!FgetsEof, Pending, Between
<1>6. CASE L!Writen
  <2>1. PICK n \in L!Readable(Len(sendline), SendCap - Len(toSrv)) :
          toSrv' = Then(toSrv, First(n, sendline)) /\ sendline' = Rest(n, sendline)
    BY <1>6 DEF L!Writen, Then, L!First, L!Rest, First, Rest
  <2>2. n \in 1 .. Len(sendline)
    BY <1>b, EchoAssumption DEF L!Readable, L!Least
  <2>0. /\ cpc = "writen" /\ cpc' \in {"writen", "readline"} /\ UNCHANGED <<toCli, sbuf, spc, rbuf>>
    BY <1>1, <1>6, <1>a DEF L!Writen, L!AfterWriten
  <2> DEFINE f == First(n, sendline)
  <2>3. f \in Seq(Bytes) /\ Rest(n, sendline) \in Seq(Bytes)
    BY SMTT(30), <1>b, <2>2, Split
  <2>4. Then(Then(rbuf, Then(Between, f)), Rest(n, sendline)) = Pending
    BY SMTT(30), <1>b, <2>2, Moved DEF Pending
  <2> HIDE DEF f
  <2>5. Between' = Then(Between, f)
    <3>1. Between' = Then(Then(toCli, sbuf), Then(toSrv, f))
      BY <2>0, <2>1 DEF Between, f
    <3> QED
      BY <1>a, <1>b, <2>3, <3>1, ClientMoves
  <2>6. Pending' = Pending
    BY <2>0, <2>1, <2>4, <2>5 DEF Pending
  <2> QED
    BY <1>1, <1>c, <2>0, <2>6
<1>7. CASE L!ReadlineReads
  <2>1. PICK n \in L!Readable(Len(toCli), MAXLINE) :
          rbuf' = Then(rbuf, First(n, toCli)) /\ toCli' = Rest(n, toCli)
    BY <1>7 DEF L!ReadlineReads, Then, L!First, L!Rest, First, Rest
  <2>2. n \in 1 .. Len(toCli)
    BY <1>b, EchoAssumption DEF L!Readable, L!Least
  <2>3. Then(Then(rbuf, First(n, toCli)), Then(Then(Rest(n, toCli), sbuf), toSrv))
          = Then(rbuf, Between)
    BY <1>a, <1>b, <2>2, ClientMoves
  <2>4. UNCHANGED <<sbuf, toSrv, sendline, cpc, spc>>
    BY <1>7 DEF L!ReadlineReads
  <2>5. Pending' = Pending
    BY <2>1, <2>3, <2>4 DEF Pending, Between
  <2> QED
    BY <1>1, <1>c, <2>4, <2>5
<1>8. CASE L!ReadlineReturns
  <2> DEFINE n == L!LineEnd(rbuf)
  <2>0. rbuf' = Rest(n, rbuf)
    BY <1>8 DEF L!ReadlineReturns, L!Kept, L!Rest, Rest
  <2>1. /\ cpc = "readline" /\ cpc' = "fputs" /\ rbuf' = Rest(n, rbuf) /\ L!HasLine(rbuf)
        /\ UNCHANGED <<toSrv, toCli, sbuf, spc, sendline>>
    BY <1>a, <1>8, <2>0 DEF L!ReadlineReturns, L!At, L!Goto
  <2>2. n \in 1 .. Len(rbuf) /\ L!NewLine(rbuf[n])
    BY <1>b, <1>e, <2>1, LineEnds
  <2> HIDE DEF n
  <2>3. OneLine(Then(rbuf, Then(Between, sendline))) /\ Then(Between, sendline) \in Seq(Bytes)
    BY <1>1, <1>a, <1>c, <2>1, NothingPending
  <2>4. Rest(n, rbuf) = <<>> /\ Then(Between, sendline) = <<>>
    BY <1>b, <2>2, <2>3, LineIsAll
  <2>5. Pending' = Then(Then(<<>>, Between), sendline)
    BY <2>1, <2>4 DEF Pending, Between
  <2>6. Pending' = <<>>
    BY <1>b, <2>4, <2>5, ThenFacts
  <2> QED
    BY <2>1, <2>6
<1>9. CASE L!ReadlineEof
  <2>1. spc = "killed" /\ spc' = spc
    BY <1>a, <1>9 DEF L!ReadlineEof, L!At, LPlaces, SrvInv
  <2> QED
    BY <1>1, <2>1
<1>10. CASE L!Fputs
  <2>1. /\ cpc = "fputs" /\ cpc' \in {"fputs", "fgets"}
        /\ UNCHANGED <<toSrv, toCli, sbuf, spc, sendline, rbuf>>
    BY <1>1, <1>a, <1>10 DEF L!Fputs, L!AfterFputs, L!At, L!Goto
  <2> QED
    BY <1>1, <1>c, <2>1 DEF Pending, Between
<1>11. CASE L!Kill
  BY <1>a, <1>11 DEF L!Kill, LPlaces
<1>12. CASE L!SocketError
  BY <1>1, <1>12 DEF L!SocketError, L!Reset
<1>13. CASE L!ServerStep \/ L!ServerDies
  <2>1. SrvStep \/ SrvKilled
    BY <1>13, SameServerL DEF L!ServerStep, L!ServerDies
  <2>2. spc # "killed" /\ Between' = Between
    BY <1>1, <1>a, <2>1, ServerMoves
  <2>3. UNCHANGED <<cpc, rbuf, sendline>>
    BY <1>13 DEF L!ServerStep, L!ServerDies
  <2> QED
    BY <1>c, <2>2, <2>3 DEF Pending
<1> QED
  BY <1>2, <1>3, <1>4, <1>5, <1>6, <1>7, <1>8, <1>9, <1>10, <1>11, <1>12, <1>13
  DEF L!Next, L!Sending, L!Showing

LEMMA LClosedStep ==
  ASSUME LInv, LClosed, [L!Next]_(L!vars)
  PROVE  LClosed'
<1> USE DEF L!srvVars, L!user, L!outs, L!input, L!output, L!clientVars, L!Over
<1>0. client' = client
  BY DEF L!Next, L!Sending, L!Showing, L!vars, L!Type, L!EndInput, L!TakeOutput, L!Select,
         L!FgetsReads, L!FgetsReturns, L!FgetsEof, L!Writen, L!ReadlineReads, L!ReadlineReturns,
         L!ReadlineEof, L!Fputs, L!Kill, L!SocketError, L!ServerStep, L!ServerDies
<1> DEFINE Closed ==
      /\ finSrv => /\ ended /\ consumed = typed /\ fbuf = <<>> /\ sendline = <<>>
                   /\ cpc \notin {"fgets", "writen"}
      /\ spc = "exit" => toSrv = <<>>
      /\ kpc = "kill" => toCli = <<>> /\ rbuf = <<>>
      /\ kpc \in {"kill", "exit", "astray"} => finCli
      /\ kpc = "error" => spc = "killed"
<1>1. SUFFICES ASSUME client = "strclifork" PROVE Closed'
  BY <1>0 DEF LClosed, L!Forked
<1>a. L!TypeOK /\ SrvInv /\ SrvTypeOK /\ LPlaces /\ LSteady /\ L!Forked /\ ~L!Selects
  BY <1>1 DEF LInv, SrvInv, L!Forked, L!Selects
<1>b. Closed
  BY <1>a DEF LClosed
<1>c. /\ sendline # <<>> => cpc \in {"writen", "error", "terminated"}
      /\ cpc \in {"fgets", "writen", "pause", "error", "terminated"}
      /\ cpc = "error" => spc = "killed"
      /\ finCli => spc \in {"exit", "killed"}
      /\ spc = "exit" => finSrv
  BY <1>a DEF LPlaces, SrvInv
<1>2. CASE L!Type
  <2>1. ~ended /\ UNCHANGED <<toSrv, toCli, finSrv, finCli, spc, cpc, kpc, rbuf>>
    BY <1>2 DEF L!Type
  <2>2. ~finSrv
    BY <1>b, <2>1
  <2> QED
    BY <1>b, <2>1, <2>2
<1>3. CASE L!EndInput
  <2>1. ~ended /\ UNCHANGED <<toSrv, toCli, finSrv, finCli, spc, cpc, kpc, rbuf>>
    BY <1>3 DEF L!EndInput
  <2>2. ~finSrv
    BY <1>b, <2>1
  <2> QED
    BY <1>b, <2>1, <2>2
<1>4. CASE L!TakeOutput \/ UNCHANGED L!vars
  BY <1>4, <1>b DEF L!TakeOutput, L!vars
<1>5. CASE L!Select
  BY <1>5, <1>c DEF L!Select
<1>6. CASE L!FgetsReads \/ L!FgetsReturns
  <2>1. cpc = "fgets" /\ UNCHANGED <<toSrv, toCli, finSrv, finCli, spc, kpc, rbuf>>
    BY <1>6 DEF L!FgetsReads, L!FgetsReturns
  <2>2. ~finSrv
    BY <1>b, <2>1
  <2> QED
    BY <1>b, <2>1, <2>2
<1>7. CASE L!FgetsEof
  <2>1. /\ cpc = "fgets" /\ cpc' = "pause" /\ fbuf = <<>> /\ typed = consumed /\ ended
        /\ UNCHANGED <<toSrv, toCli, finCli, sbuf, spc, typed, ended, consumed, fbuf, sendline,
                       kpc, rbuf>>
    BY <1>7, <1>a DEF L!FgetsEof, L!AtEof
  <2>2. sendline = <<>>
    BY <1>c, <2>1
  <2> QED
    BY <1>b, <2>1, <2>2
<1>8. CASE L!Writen
  <2>1. /\ cpc = "writen" /\ UNCHANGED <<toCli, finSrv, finCli, spc, kpc, rbuf>>
    BY <1>8 DEF L!Writen
  <2>2. ~finSrv /\ spc # "exit"
    BY <1>b, <1>c, <2>1
  <2> QED
    BY <1>b, <2>1, <2>2
<1>9. CASE L!ReadlineReads
  <2>1. /\ kpc = "readline"
        /\ UNCHANGED <<toSrv, finSrv, finCli, spc, ended, consumed, typed, fbuf, sendline, cpc, kpc>>
    BY <1>9, <1>a DEF L!ReadlineReads, L!At
  <2> QED
    BY <1>b, <2>1
<1>10. CASE L!ReadlineReturns
  <2>1. /\ kpc' = "fputs"
        /\ UNCHANGED <<toSrv, toCli, finSrv, finCli, spc, ended, consumed, typed, fbuf, sendline, cpc>>
    BY <1>10, <1>a DEF L!ReadlineReturns, L!Goto
  <2> QED
    BY <1>b, <2>1
<1>11. CASE L!ReadlineEof
  <2>1. /\ finCli /\ toCli = <<>> /\ rbuf' = <<>> /\ kpc' \in {"fputs", "kill"}
        /\ UNCHANGED <<toSrv, toCli, finSrv, finCli, spc, ended, consumed, typed, fbuf, sendline, cpc>>
    BY <1>11, <1>a DEF L!ReadlineEof, L!Goto
  <2> QED
    BY <1>b, <2>1
<1>12. CASE L!Fputs
  <2>1. /\ kpc' \in {"fputs", "readline"}
        /\ UNCHANGED <<toSrv, toCli, finSrv, finCli, spc, ended, consumed, typed, fbuf, sendline,
                       rbuf, cpc>>
    BY <1>12, <1>1, <1>a DEF L!Fputs, L!Goto, L!AfterFputs
  <2> QED
    BY <1>b, <2>1
<1>13. CASE L!Kill
  <2>1. /\ kpc = "kill" /\ kpc' \in {"exit", "astray"}
        /\ cpc' = cpc \/ cpc' = "terminated"
        /\ UNCHANGED <<toSrv, toCli, finSrv, finCli, spc, ended, consumed, typed, fbuf, sendline, rbuf>>
    BY <1>13 DEF L!Kill
  <2> QED
    BY <1>b, <2>1
<1>14. CASE L!SocketError
  <2>1. /\ spc = "killed"
        /\ cpc' = cpc \/ cpc' = "error"
        /\ kpc' = kpc \/ kpc' = "error"
        /\ UNCHANGED <<toSrv, toCli, finSrv, finCli, spc, ended, consumed, typed, fbuf, sendline, rbuf>>
    BY <1>14, <1>a DEF L!SocketError, L!Reset, L!Goto
  <2> QED
    BY <1>b, <2>1
<1>15. CASE L!ServerStep \/ L!ServerDies
  <2>0. UNCHANGED <<ended, consumed, typed, fbuf, sendline, rbuf, cpc, kpc>>
    BY <1>15 DEF L!ServerStep, L!ServerDies
  <2>1. SrvStep \/ SrvKilled
    BY <1>15, SameServerL DEF L!ServerStep, L!ServerDies
  <2>2. UNCHANGED finSrv /\ (spc = "killed" => spc' = "killed")
    BY <1>a, <2>1, ServerMoves
  <2>3. /\ spc' = "exit" => toSrv' = <<>>
        /\ finCli => finCli' /\ toCli' = toCli
    BY <1>c, <2>1 DEF SrvStep, SrvRead, SrvWrite, SrvExit, SrvKilled
  <2> QED
    BY <1>b, <2>0, <2>2, <2>3
<1> QED
  BY <1>2, <1>3, <1>4, <1>5, <1>6, <1>7, <1>8, <1>9, <1>10, <1>11, <1>12, <1>13, <1>14, <1>15
  DEF L!Next, L!Sending, L!Showing

\* The invariant of the clients in lines, with what they promise.
LServing == LInv /\ LServes

LEMMA LServingInit == L!Init => LServing
<1> SUFFICES ASSUME L!Init PROVE LServing
  OBVIOUS
<1>1. LInv
  BY LInit
<1>2. /\ shown = <<>> /\ recvline = <<>> /\ rbuf = <<>> /\ toCli = <<>> /\ sbuf = <<>>
      /\ toSrv = <<>> /\ sendline = <<>> /\ consumed = 0 /\ spc = "read" /\ ~finSrv
      /\ kpc \in {"readline", "none"}
      /\ client = "str_cli" => cpc = "fgets"
  BY Zenon DEF L!Init, L!SrvInit, L!LineInit, L!Selects
<1>3. Then(<<>>, <<>>) = <<>> /\ Upto(0) = <<>> /\ Len(<<>>) = 0
  BY DEF Then, Upto
<1>4. LPrefix
  BY <1>2, <1>3 DEF LPrefix, Arriving, Back
<1>5. LTurns
  BY <1>2, <1>3 DEF LTurns, Pending, Between
<1>6. LClosed
  BY <1>2 DEF LClosed
<1> QED
  BY <1>1, <1>4, <1>5, <1>6 DEF LServing, LServes

LEMMA LServingStep == LServing /\ [L!Next]_(L!vars) => LServing'
<1> SUFFICES ASSUME LServing, [L!Next]_(L!vars) PROVE LServing'
  OBVIOUS
<1>1. LInv'
  BY LStep DEF LServing
<1> QED
  BY <1>1, LPrefixStep, LTurnsStep, LClosedStep DEF LServing, LServes

\* strclifork has returned when both its processes are gone and the server has
\* ended well.
LServer == IF spc = "killed" THEN "down" ELSE "up"
LClient == IF ~L!Ended THEN "running"
           ELSE IF cpc = "return" \/ (L!Forked /\ spc = "exit") THEN "returned"
           ELSE "gave up"

LService == INSTANCE EchoService WITH server <- LServer, client <- LClient

\* What is shown is a beginning of what was typed.
LEMMA LShownBegins == LServing => ShownOK
<1> SUFFICES ASSUME LServing PROVE ShownOK
  OBVIOUS
<1>1. L!TypeOK /\ SrvTypeOK /\ LPrefix
  BY DEF LServing, LInv, SrvInv, LServes
<1>2. /\ shown \in Seq(Bytes) /\ recvline \in Seq(Bytes) /\ rbuf \in Seq(Bytes)
      /\ toCli \in Seq(Bytes) /\ Then(shown, recvline) \in Seq(Bytes)
      /\ consumed \in Nat /\ consumed <= typed /\ typed <= InputLen /\ typed \in Nat
      /\ consumed <= InputLen
  BY <1>1, LTyped, EchoAssumption
<1>3. /\ Then(Then(Then(shown, recvline), rbuf), toCli)
           = Upto(Len(Then(Then(Then(shown, recvline), rbuf), toCli)))
      /\ Len(Then(Then(Then(shown, recvline), rbuf), toCli)) <= consumed
  BY <1>1 DEF LPrefix, Arriving, Back
<1> DEFINE x == Then(shown, recvline)
<1>4. x \in Seq(Bytes)
  BY <1>2
<1>5. Then(Then(x, rbuf), toCli) = Upto(Len(Then(Then(x, rbuf), toCli)))
      /\ Len(Then(Then(x, rbuf), toCli)) <= consumed
  BY <1>3
<1> HIDE DEF x
<1>6. x = Upto(Len(x)) /\ Len(x) <= consumed
  BY <1>2, <1>4, <1>5, Beginning
<1>7. Then(<<>>, shown) = shown /\ <<>> \in Seq(Bytes)
  BY <1>2, ThenFacts
<1>8. /\ Then(shown, recvline) = Upto(Len(Then(shown, recvline)))
      /\ Len(Then(shown, recvline)) <= consumed /\ Len(Then(shown, recvline)) \in Nat
  BY <1>4, <1>6, LenProperties DEF x
<1>9. shown = Upto(Len(shown)) /\ Len(shown) <= Len(Then(shown, recvline)) /\ Len(shown) \in Nat
  <2>1. Len(Then(shown, recvline)) <= InputLen
    BY <1>2, <1>8, EchoAssumption
  <2> QED
    BY <1>2, <1>8, <2>1, PrefixOfUpto, LenProperties
<1>10. Len(shown) <= typed
  BY <1>2, <1>8, <1>9
<1> QED
  BY <1>9, <1>10 DEF ShownOK

\* When nothing is held on the way, everything that was read is shown.
LEMMA LAllShown ==
  ASSUME LServing, spc # "killed", consumed = typed, fbuf = <<>>, recvline = <<>>, Pending = <<>>
  PROVE  Len(shown) = typed
<1>1. L!TypeOK /\ SrvTypeOK /\ Lines = Upto(consumed)
  BY DEF LServing, LInv, SrvInv, LWhole
<1>2. /\ shown \in Seq(Bytes) /\ rbuf \in Seq(Bytes) /\ <<>> \in Seq(Bytes)
      /\ sendline \in Seq(Bytes) /\ Between \in Seq(Bytes) /\ consumed \in 0 .. InputLen
  BY <1>1, LTyped
<1>3. Then(shown, <<>>) = shown
  BY <1>2, ThenFacts
<1>4. Lines = Then(Then(Then(Then(shown, rbuf), Between), sendline), <<>>)
  BY <1>3 DEF Lines, Back
<1>5. Then(shown, rbuf) \in Seq(Bytes) /\ Then(rbuf, Between) \in Seq(Bytes)
  BY <1>2, ThenFacts
<1>6. Then(Then(shown, rbuf), Between) = Then(shown, Then(rbuf, Between))
  BY <1>2, ThenAssociative
<1>7. Then(Then(shown, Then(rbuf, Between)), sendline) = Then(shown, Pending)
  BY <1>2, <1>5, ThenAssociative DEF Pending
<1>8. Lines = shown
  BY <1>3, <1>4, <1>6, <1>7
<1> QED
  BY <1>1, <1>2, <1>8, UptoSeq

\* A client stays the program it is.
LEMMA SameProgram == [L!Next]_(L!vars) => client' = client
  BY Zenon
  DEF L!Next, L!Sending, L!Showing, L!Type, L!EndInput, L!TakeOutput, L!Select, L!FgetsReads,
      L!FgetsReturns, L!FgetsEof, L!Writen, L!ReadlineReads, L!ReadlineReturns,
      L!ReadlineEof, L!Fputs, L!Kill, L!SocketError, L!ServerStep, L!ServerDies, L!vars,
      L!clientVars

\* The parts of the invariant that the refinement needs.
LEMMA LKnown ==
  LServing =>
    /\ L!TypeOK /\ LPlaces /\ LTurns /\ LClosed
    /\ finCli => spc \in {"exit", "killed"}
    /\ spc = "exit" => finSrv
    /\ spc \in {"read", "exit"} => sbuf = <<>>
  BY DEF LServing, LServes, LInv, SrvInv

LEMMA LServiceStep ==
  LServing /\ LServing' /\ ~L!Selects /\ [L!Next]_(L!vars) => [LService!Next]_(LService!vars)
<1> SUFFICES ASSUME LServing, LServing', ~L!Selects, [L!Next]_(L!vars)
             PROVE  [LService!Next]_(LService!vars)
  OBVIOUS
<1> USE DEF L!srvVars, L!user, L!outs, L!input, L!output, L!clientVars, LService!vars
<1>a. /\ L!TypeOK /\ LPlaces /\ LTurns /\ LClosed
      /\ finCli => spc \in {"exit", "killed"}
      /\ spc = "exit" => finSrv
      /\ spc \in {"read", "exit"} => sbuf = <<>>
  BY LKnown
<1>b. /\ client \in {"str_cli", "strclifork"} /\ client' = client
      /\ L!Forked <=> client = "strclifork"
      /\ L!Forked' <=> L!Forked
  <2>1. client' = client
    BY SameProgram
  <2> QED
    BY <1>a, <2>1 DEF L!TypeOK, L!Selects, L!Forked
<1>c. ASSUME UNCHANGED <<cpc, kpc, spc>> PROVE UNCHANGED <<LServer, LClient>>
  BY <1>b, <1>c DEF LServer, LClient, L!Ended, L!Over
<1>1. CASE L!Type
  BY <1>1, <1>c DEF L!Type, LService!Next, LService!Type
<1>2. CASE L!EndInput
  BY <1>2, <1>c DEF L!EndInput, LService!Next, LService!End
<1>3. CASE L!TakeOutput \/ UNCHANGED L!vars
  BY <1>3, <1>c DEF L!TakeOutput, L!vars
<1>4. CASE L!Select \/ L!FgetsReads \/ L!FgetsReturns \/ L!Writen \/ L!ReadlineReads \/ L!ReadlineReturns
  <2>1. UNCHANGED <<typed, ended, shown, spc>>
    BY <1>4 DEF L!Select, L!FgetsReads, L!FgetsReturns, L!Writen, L!ReadlineReads, L!ReadlineReturns
  <2>2. ~L!Ended /\ ~L!Ended'
    BY <1>4, <1>a, <1>b DEF L!Select, L!FgetsReads, L!FgetsReturns, L!Writen, L!ReadlineReads,
       L!ReadlineReturns, L!Ended, L!Over, L!At, L!Goto, L!AfterWriten, L!Selects, L!Forked, LPlaces
  <2> QED
    BY <2>1, <2>2 DEF LServer, LClient
<1>5. CASE L!FgetsEof
  <2>1. /\ UNCHANGED <<typed, ended, shown, spc, kpc>> /\ cpc = "fgets" /\ fbuf = <<>>
        /\ ended /\ consumed = typed
    BY <1>5 DEF L!FgetsEof, L!AtEof
  <2>2. ~L!Ended
    BY <2>1 DEF L!Ended, L!Over
  <2>3. CASE L!Forked
    <3>1. cpc' = "pause"
      BY <1>5, <2>3 DEF L!FgetsEof
    <3> QED
      BY <2>1, <2>2, <3>1 DEF LServer, LClient, L!Ended, L!Over
  <2>4. CASE ~L!Forked
    <3>1. cpc' = "return" /\ kpc' = "none"
      BY <1>5, <1>a, <2>1, <2>4 DEF L!FgetsEof, LPlaces
    <3>2. recvline = <<>>
      BY <1>a, <2>1, <2>4 DEF LPlaces, L!At
    <3>3. spc # "killed" => Pending = <<>>
      BY <1>a, <1>b, <2>1, <2>4 DEF LTurns
    <3>4. Len(shown) = typed \/ spc = "killed"
      BY <2>1, <3>2, <3>3, LAllShown
    <3>5. LClient = "running" /\ LClient' = "returned" /\ LServer' = LServer
      BY <2>1, <2>2, <3>1 DEF LServer, LClient, L!Ended, L!Over
    <3>6. Len(shown) = typed \/ LServer = "down"
      BY <3>4 DEF LServer
    <3> QED
      BY <2>1, <3>5, <3>6 DEF LService!Next, LService!Return
  <2> QED
    BY <2>3, <2>4
<1>6. CASE L!ReadlineEof
  <2>1. UNCHANGED <<typed, ended, shown, spc>> /\ finCli
    BY <1>6 DEF L!ReadlineEof
  <2>2. ~L!Ended
    BY <1>6 DEF L!ReadlineEof, L!At, L!Ended, L!Over
  <2>3. CASE L!Ended'
    <3>1. cpc' = "premature" /\ ~L!Forked
      BY <1>6, <2>2, <2>3 DEF L!ReadlineEof, L!At, L!Goto, L!Ended, L!Over
    <3>2. spc' = "killed"
      <4>1. LPlaces'
        BY LKnown, PTL
      <4> QED
        BY <3>1, <4>1 DEF LPlaces
    <3> QED
      BY <1>b, <2>1, <2>2, <2>3, <3>1, <3>2 DEF LServer, LClient, LService!Next, LService!GiveUp
  <2>4. CASE ~L!Ended'
    BY <2>1, <2>2, <2>4 DEF LServer, LClient
  <2> QED
    BY <2>3, <2>4
<1>7. CASE L!Fputs
  <2>1. UNCHANGED <<typed, ended, spc>>
    BY <1>7 DEF L!Fputs
  <2>2. ~L!Ended /\ ~L!Ended'
    BY <1>7, <1>a, <1>b DEF L!Fputs, L!Ended, L!Over, L!At, L!Goto, L!AfterFputs, L!Selects, L!Forked, LPlaces
  <2>3. PICK n \in L!Readable(Len(recvline), OutCap - outPending) : shown' = Then(shown, First(n, recvline))
    BY <1>7 DEF L!Fputs, Then, L!First, First
  <2>4. /\ shown \in Seq(Bytes) /\ recvline \in Seq(Bytes) /\ typed \in Nat
    BY LTyped DEF LServing, LInv, SrvInv
  <2>5. n \in 1 .. Len(recvline) /\ n \in Nat /\ n >= 1
    <3>1. Len(recvline) \in Int /\ OutCap - outPending \in Int
      BY <1>a, <2>4, LenProperties, EchoAssumption DEF L!TypeOK
    <3> QED
      BY <3>1 DEF L!Readable, L!Least
  <2>6. Len(First(n, recvline)) = n /\ First(n, recvline) \in Seq(Bytes)
    BY <2>4, <2>5, Split
  <2>7. Len(shown') = Len(shown) + n
    <3>1. Len(Then(shown, First(n, recvline))) = Len(shown) + Len(First(n, recvline))
      BY <2>4, <2>6, ThenFacts
    <3> QED
      BY <2>3, <2>6, <3>1, Zenon
  <2>8. Len(shown) \in Nat
    BY LShownBegins DEF ShownOK
  <2>9. shown' = Upto(Len(shown')) /\ Len(shown') <= typed' /\ Len(shown') \in Nat
    <3>1. ShownOK'
      BY LShownBegins, PTL
    <3> QED
      BY <3>1, Zenon DEF ShownOK
  <2>10. Len(shown') \in Len(shown) + 1 .. typed
    BY <2>1, <2>4, <2>5, <2>7, <2>8, <2>9
  <2>11. LClient = "running" /\ LClient' = "running" /\ LServer' = LServer
    BY <2>1, <2>2 DEF LServer, LClient
  <2> QED
    BY <2>1, <2>9, <2>10, <2>11 DEF Upto, LService!Next, LService!Show
<1>8. CASE L!Kill
  <2>1. UNCHANGED <<typed, ended, shown, spc>> /\ kpc = "kill" /\ L!Forked
    BY <1>8, <1>a DEF L!Kill, LPlaces
  <2>2. ~L!Ended
    BY <2>1 DEF L!Ended
  <2>3. spc \in {"exit", "killed"}
    BY <1>a, <2>1 DEF LClosed
  <2>4. L!Ended'
    BY <1>8 DEF L!Kill, L!Ended, L!Over
  <2>5. CASE spc = "killed"
    <3>1. cpc' # "return"
      BY <1>8, <1>a, <2>1 DEF L!Kill, LPlaces
    <3> QED
      BY <1>b, <2>1, <2>2, <2>4, <2>5, <3>1 DEF LServer, LClient, LService!Next, LService!GiveUp
  <2>6. CASE spc = "exit"
    <3>1. ended /\ consumed = typed /\ fbuf = <<>> /\ sendline = <<>> /\ toSrv = <<>>
          /\ toCli = <<>> /\ rbuf = <<>> /\ sbuf = <<>> /\ recvline = <<>>
      BY <1>a, <2>1, <2>6 DEF LClosed, LPlaces, L!At
    <3>2. Pending = <<>>
      BY <3>1 DEF Pending, Between, Then
    <3>3. Len(shown) = typed
      BY <2>6, <3>1, <3>2, LAllShown
    <3>4. LClient = "running" /\ LClient' = "returned" /\ LServer' = LServer
      BY <1>b, <2>1, <2>2, <2>4, <2>6 DEF LServer, LClient
    <3> QED
      BY <2>1, <3>1, <3>3, <3>4 DEF LService!Next, LService!Return
  <2> QED
    BY <2>3, <2>5, <2>6
<1>9. CASE L!SocketError
  <2>1. UNCHANGED <<typed, ended, shown, spc>> /\ spc = "killed"
    BY <1>9 DEF L!SocketError, L!Reset
  <2>2. ~L!Ended
    BY <1>9 DEF L!SocketError, L!At, L!Ended, L!Over
  <2>3. cpc' # "return"
    BY <1>9, <1>a DEF L!SocketError, L!At, L!Goto, LPlaces
  <2> QED
    BY <2>1, <2>2, <2>3 DEF LServer, LClient, LService!Next, LService!GiveUp
<1>10. CASE L!ServerStep
  <2>1. SrvStep /\ UNCHANGED <<typed, ended, shown, cpc, kpc, client>>
    BY <1>10, SameServerL DEF L!ServerStep
  <2>2. spc \in {"read", "write"} /\ spc' # "killed"
    BY <2>1 DEF SrvStep, SrvRead, SrvWrite, SrvExit
  <2>3. L!Ended => ~L!Forked
    BY <1>a, <2>2 DEF LClosed, LPlaces, L!Ended
  <2>4. UNCHANGED <<LServer, LClient>>
    BY <1>b, <2>1, <2>2, <2>3 DEF LServer, LClient, L!Ended, L!Over
  <2> QED
    BY <2>1, <2>4
<1>11. CASE L!ServerDies
  <2>1. SrvKilled /\ UNCHANGED <<typed, ended, shown, cpc, kpc, client>>
    BY <1>11, SameServerL DEF L!ServerDies
  <2>2. spc \in {"read", "write"} /\ spc' = "killed"
    BY <2>1 DEF SrvKilled
  <2>3. UNCHANGED LClient /\ LServer = "up" /\ LServer' = "down"
    BY <1>b, <2>1, <2>2 DEF LServer, LClient, L!Ended, L!Over
  <2> QED
    BY <2>1, <2>3 DEF LService!Next, LService!ServerDies
<1> QED
  BY <1>1, <1>2, <1>3, <1>4, <1>5, <1>6, <1>7, <1>8, <1>9, <1>10, <1>11
     DEF L!Next, L!Sending, L!Showing

\* str_cli and strclifork implement the echo service: because str_cli has one
\* line on its way at a time, and because strclifork's child ends its parent
\* only at the server's FIN, a normal return means that everything typed has
\* been shown.
THEOREM LinesImplement == L!Spec /\ ~L!Selects => LService!Spec
<1>1. L!Init => LService!Init
  BY DEF L!Init, L!SrvInit, LService!Init, L!LineInit, L!Ended, L!Over, LServer, LClient, L!Selects
<1>2. L!Init => LServing
  BY LServingInit
<1>3. LServing /\ [L!Next]_(L!vars) => LServing'
  BY LServingStep
<1>4. ~L!Selects /\ [L!Next]_(L!vars) => ~L!Selects'
  BY SameProgram DEF L!Selects
<1> QED
  BY <1>1, <1>2, <1>3, <1>4, LServiceStep, PTL DEF L!Spec, LService!Spec
=============================================================================
