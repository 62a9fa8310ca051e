---------------------------- MODULE ThreadServer ----------------------------
(***************************************************************************)
(* server/serv06/main.cpp: a detached thread per connection, each of which *)
(* runs web_child (web_clild.cpp); its clients are those of                *)
(* server/client/main.cpp.  web_child reads its request with Readline,     *)
(* whose count, pointer and buffer (readline.cpp) are static: all threads  *)
(* use the same ones without a lock (so do those of serv07 and serv08,     *)
(* which link the same two files).  Every access to them is a step.  A     *)
(* request is a digit and a newline.                                       *)
(***************************************************************************)
EXTENDS Integers, FiniteSets

CONSTANTS
  Conns,        \* the connections of the clients
  NoConn,       \* the descriptor -1 of an accept that failed
  MaxThreads    \* bound: threads alive at once

ReqLen == 2
Huge == 3       \* (size_t)-1 and what is left of it
NUL == <<NoConn, 0>>
Chars == (Conns \X (1 .. ReqLen)) \cup {NUL}
NewLine(ch) == ch[2] = ReqLen

VARIABLES
  client,       \* each client: "none", "asked" or "closed"
  left,         \* bytes of its request not yet read
  reply,        \* "none", "right" or "wrong"
  read_cnt, read_ptr, read_buf,
  tpc,          \* each thread
  reg,          \* the value of read_cnt it has loaded
  line,         \* what it has stored: nothing, its own digit, or something else
  overlap,      \* history: two threads were alive at once, or accept had failed
  server        \* "up"; "quit" (client request for %d bytes), "exit" or "killed"

net == <<client, left, reply>>
shared == <<read_cnt, read_ptr, read_buf>>
vars == <<net, shared, tpc, reg, line, overlap, server>>

Threads == Conns \cup {NoConn}
Alive(t) == tpc[t] \notin {"none", "closed"}

TypeOK ==
  /\ client \in [Conns -> {"none", "asked", "closed"}]
  /\ left \in [Conns -> 0 .. ReqLen]
  /\ reply \in [Conns -> {"none", "right", "wrong"}]
  /\ read_cnt \in 0 .. Huge /\ read_ptr \in 0 .. ReqLen
  /\ read_buf \in [0 .. ReqLen - 1 -> Chars]
  /\ tpc \in [Threads -> {"none", "test", "read", "rewind", "dec", "fetch", "request",
                          "closed"}]
  /\ reg \in [Threads -> 0 .. Huge]
  /\ line \in [Threads -> {"empty", "own", "other"}]
  /\ overlap \in BOOLEAN
  /\ server \in {"up", "quit", "exit", "killed"}

Init ==
  /\ client = [c \in Conns |-> "none"] /\ left = [c \in Conns |-> 0]
  /\ reply = [c \in Conns |-> "none"]
  /\ read_cnt = 0 /\ read_ptr = 0 /\ read_buf = [k \in 0 .. ReqLen - 1 |-> NUL]
  /\ tpc = [t \in Threads |-> "none"] /\ reg = [t \in Threads |-> 0]
  /\ line = [t \in Threads |-> "empty"]
  /\ overlap = FALSE /\ server = "up"

----------------------------------------------------------------------------
(* The children of the load generator.                                     *)

Ask(c) ==
  /\ server = "up" /\ client[c] = "none"
  /\ client' = [client EXCEPT ![c] = "asked"]
  /\ left' = [left EXCEPT ![c] = ReqLen]
  /\ UNCHANGED <<reply, shared, tpc, reg, line, overlap, server>>

\* Readn has its bytes: Close.  (A client that got too few waits on; one that
\* got too many is not followed further.)
CloseConn(c) ==
  /\ client[c] = "asked" /\ reply[c] = "right"
  /\ client' = [client EXCEPT ![c] = "closed"]
  /\ UNCHANGED <<left, reply, shared, tpc, reg, line, overlap, server>>

----------------------------------------------------------------------------
(* The main thread.                                                        *)

Start(t) ==
  /\ Cardinality({u \in Threads : Alive(u)}) < MaxThreads
  /\ tpc' = [tpc EXCEPT ![t] = "test"]
  /\ overlap' = (overlap \/ t = NoConn \/ \E u \in Threads : Alive(u))
  /\ UNCHANGED <<net, shared, reg, line, server>>

Accept(c) == server = "up" /\ client[c] # "none" /\ tpc[c] = "none" /\ Start(c)

\* The result of accept is not looked at.
AcceptFails == server = "up" /\ tpc[NoConn] = "none" /\ Start(NoConn)

\* The process ends, and its threads and memory with it.
End(how) ==
  /\ server' = how
  /\ tpc' = [t \in Threads |-> IF tpc[t] = "none" THEN "none" ELSE "closed"]
  /\ reg' = [t \in Threads |-> 0] /\ line' = [t \in Threads |-> "empty"]
  /\ read_cnt' = 0 /\ read_ptr' = 0 /\ read_buf' = [k \in 0 .. ReqLen - 1 |-> NUL]
  /\ left' = [c \in Conns |-> 0]
  /\ UNCHANGED <<client, reply, overlap>>

\* SIGINT, or a thread that cannot be made.
Ends == server = "up" /\ End("exit")

----------------------------------------------------------------------------
(* my_read in thread t.                                                    *)

At(t, l) == server = "up" /\ read_cnt # Huge /\ tpc[t] = l
Goto(t, l) == tpc' = [tpc EXCEPT ![t] = l]
Load(t, v) == reg' = [reg EXCEPT ![t] = v]

Test(t) ==
  /\ At(t, "test")
  /\ Load(t, read_cnt)
  /\ Goto(t, IF read_cnt = 0 THEN "read" ELSE "dec")
  /\ UNCHANGED <<net, shared, line, overlap, server>>

\* Some of the request's bytes, from the start of the buffer on.
ReadSome(t) ==
  /\ At(t, "read") /\ t \in Conns
  /\ \E n \in 1 .. left[t] :
       /\ read_buf' = [k \in 0 .. ReqLen - 1 |->
                         IF k < n THEN <<t, ReqLen - left[t] + 1 + k>> ELSE read_buf[k]]
       /\ read_cnt' = n /\ Load(t, n)
       /\ left' = [left EXCEPT ![t] = @ - n]
  /\ Goto(t, "rewind")
  /\ UNCHANGED <<client, reply, read_ptr, line, overlap, server>>

\* An error is -1, which a size_t takes for many bytes.
ReadFails(t) ==
  /\ At(t, "read") /\ t = NoConn
  /\ read_cnt' = Huge /\ Load(t, Huge)
  /\ Goto(t, "rewind")
  /\ UNCHANGED <<net, read_ptr, read_buf, line, overlap, server>>

\* The client's FIN: Readline returns what it has, with nothing web_child
\* returns and the thread closes its descriptor.
ReadEof(t) ==
  /\ At(t, "read") /\ t \in Conns /\ client[t] = "closed" /\ left[t] = 0
  /\ read_cnt' = 0
  /\ Goto(t, IF line[t] = "empty" THEN "closed" ELSE "request")
  /\ UNCHANGED <<net, read_ptr, read_buf, reg, line, overlap, server>>

Rewound_Not == read_ptr
Rewound == 0

Rewind(t) ==
  /\ At(t, "rewind")
  /\ read_ptr' = Rewound
  /\ Goto(t, "dec")
  /\ UNCHANGED <<net, read_cnt, read_buf, reg, line, overlap, server>>

\* read_cnt is loaded again, or still in a register.
Less(n) == IF n = 0 THEN Huge ELSE n - 1

Dec(t) ==
  /\ At(t, "dec")
  /\ \E n \in {reg[t], read_cnt} : read_cnt' = Less(n)
  /\ Goto(t, "fetch") /\ Load(t, 0)
  /\ UNCHANGED <<net, read_ptr, read_buf, line, overlap, server>>

\* With read_cnt huge no thread ever reads from its connection again: lines are
\* made of what is left in the buffer and the zeros behind it, till atol gives
\* 0 or a write fails.
Garbage(t) ==
  /\ server = "up" /\ read_cnt = Huge /\ Alive(t)
  /\ End("quit") \/ End("killed")

----------------------------------------------------------------------------
(* readline and web_child in thread t.                                     *)

\* A newline ends the line.  Behind the bytes that were read the buffer holds
\* zeros; after enough of them the line is full.  Of two threads that advance
\* read_ptr at the same time one may be lost.
Fetch(t) ==
  /\ At(t, "fetch")
  /\ LET ch == IF read_ptr < ReqLen THEN read_buf[read_ptr] ELSE NUL
     IN IF NewLine(ch) THEN Goto(t, "request") /\ UNCHANGED line
        ELSE /\ line' = [line EXCEPT ![t] =
                           IF @ = "empty" /\ ch[1] = t /\ ch # NUL THEN "own"
                           ELSE IF ch = NUL /\ @ # "empty" THEN @ ELSE "other"]
             /\ \/ Goto(t, "test")
                \/ ch = NUL /\ Goto(t, "request")
  /\ \/ read_ptr' = IF read_ptr < ReqLen THEN read_ptr + 1 ELSE ReqLen
     \/ (\E u \in Threads \ {t} : At(u, "fetch")) /\ read_ptr' = read_ptr
  /\ UNCHANGED <<net, read_cnt, read_buf, reg, overlap, server>>

\* atol of the line: a newline alone is 0.
Quit(t) ==
  /\ At(t, "request") /\ line[t] # "own"
  /\ End("quit")

\* Writen to the client, and the next line.  A client that has gone may have
\* sent a RST already.
Answer(t) ==
  /\ At(t, "request") /\ t \in Conns /\ line[t] # "empty"
  /\ reply' = [reply EXCEPT ![t] = IF line[t] = "own" THEN "right" ELSE "wrong"]
  /\ line' = [line EXCEPT ![t] = "empty"]
  /\ Goto(t, "test")
  /\ UNCHANGED <<client, left, shared, reg, overlap, server>>

AnswerFails(t) ==
  /\ At(t, "request") /\ line[t] # "empty"
  /\ t \in {NoConn} \cup {c \in Conns : client[c] = "closed"}
  /\ End("killed")

----------------------------------------------------------------------------
Thread(t) == \/ Test(t) \/ ReadSome(t) \/ ReadFails(t) \/ ReadEof(t) \/ Rewind(t)
             \/ Dec(t) \/ Garbage(t) \/ Fetch(t) \/ Quit(t) \/ Answer(t) \/ AnswerFails(t)

Next == \/ \E c \in Conns : Ask(c) \/ CloseConn(c) \/ Accept(c)
        \/ AcceptFails \/ Ends
        \/ \E t \in Threads : Thread(t)

Spec == Init /\ [][Next]_vars

\* The threads run, accept returns, a client that has its reply closes.
FairSpec == /\ Spec
            /\ \A c \in Conns : WF_vars(Accept(c)) /\ WF_vars(CloseConn(c))
            /\ \A t \in Threads : WF_vars(Thread(t))

----------------------------------------------------------------------------
(* Properties.                                                             *)

\* As long as connections come one after the other, each in a thread of its
\* own, the shared buffer does no harm: what one thread leaves in it never
\* reaches the next.
AloneIsServed == ~overlap => server # "quit" /\ \A c \in Conns : reply[c] # "wrong"

\* `err_quit("client request for %d bytes", ntowrite)`: the server quits over a
\* client's request only if it was a bad one, and here all are good (unless a
\* thread has no client at all).
QuitsOverBadRequest == server = "quit" => tpc[NoConn] # "none"

\* Without overlap every client is answered and its thread ends.
Settled ==
  \/ overlap \/ server # "up"
  \/ \A c \in Conns : client[c] # "none" => reply[c] = "right" /\ tpc[c] = "closed"
=============================================================================
