# Specifications of the network programs

The repository holds C++ versions of the example programs of *UNIX Network
Programming, volume 1*: small clients and servers over TCP, UDP, Unix domain and
raw sockets, and a library of functions they share. There is no single system.
Each program is a component with its own processes, threads, signals and
descriptors, and what makes it hard is what happens around its system calls:
short reads and writes, connections that are refused or reset, signals between
any two calls, datagrams that are lost, late or repeated, children that end
together, descriptors that are used again.

This directory specifies the programs whose correctness depends on such things,
checks them with TLC on small instances and, for most of them, proves the safety
properties for instances of every size with TLAPS.
`PROJECT.json` maps every definition to its source lines, names the hazards and
lists the runs, the mutations that each property detects and the theorems.

## Inventory

For each modelled part: its state, its operations, how it interacts, what is hard
about it and what has to be true of it.

**serv08, the prethreaded server** (`server/serv08/main.cpp`). State: the ring
`clifd` with `iget` and `iput`, the mutex, the condition variable, a counter per
thread. The main thread accepts, puts the descriptor under the mutex and notifies
one thread; workers wait, take, serve and close. Hard: the ring is full and empty
at the same indices; a notification is not remembered; the lambda of a thread
captures main's loop variable by reference. Correct if every connection is served
exactly once, in order, by one thread, no wakeup is lost, and the program gives up
only on a full ring.

**The echo clients and str_echo** (`nonblock/str_cli_nonblock.cpp`, `str_cli.cpp`,
`nonblock/strclifork.cpp`, `readline.cpp`, `str_echo.cpp`, `writen.cpp`). State: two
buffers with two pointers each (or one buffer, or those that Fgets and Readline keep
for themselves), end-of-input flags, the two byte streams of a connection with bounded
kernel buffers. Client, server, user and the reader of standard output act
concurrently; strclifork is two processes, of which the child ends the parent. Hard:
every sequence of short reads and writes, the FIN behind the last byte, both sides
blocked in write, a line that is read ahead where select does not see it, a signal to
a parent that is gone. Correct if what is shown is a prefix of what was typed,
complete at a normal return, and the client ends.

**dg_send_recv** (`rtt/dg_send_recv.cpp`, `rtt.cpp`, `unprtt.h`). State: the
sequence number, the estimators, the alarm, `rtt_base`. Hard: late and duplicate
answers over several calls, the alarm against the answer and against `sigsetjmp`, the
base that changes after a give-up. Correct if an answer belongs to its request and its
timestamp to the current base, retransmission is bounded and a call returns.

**webclient** (`nonblock/webclient/`). State: the table of files, three counters
kept by hand, two descriptor sets, `maxfd`. Hard: descriptors are reused while the
loop still looks at the sets select returned. Correct if counters, sets and table
agree, the program never waits for nothing and all files are read.

**The select and poll echo servers** (`StringEcho4_shutdown/Server`,
`StringEcho5_poll/Server`). State: the table of descriptors, `maxi`, `maxfd`, the
set, `nready`. Hard: accept after an aborted connection, slots that were never
polled, a client that does not read. Correct if table and connections agree and
every client is served.

**icmpd** (`icmpd/main.cpp`). State: the table of clients, `maxi`, the set, `nready`.
A client hands it a UDP socket over a Unix domain socket and waits; ICMP messages
come from a raw socket. Hard: two descriptors from one select, a client that is
refused while it writes or reads. Correct if nothing is read that is not there, no
descriptor is kept and no client waits for ever.

**Servers with a process or thread per connection** (`server/serv01`,
`StringEcho1` to `3`, `unixdomain/strserver01`, `oob/heartbeat_serv`,
`tcpudp/ServerSelect`; `server/serv02`, `serv03`, `serv07` with `child02.cpp`,
`child03.cpp`, `lock_pthread.cpp`; `server/serv05` with
`child05.cpp`; `server/serv06` with `web_clild.cpp` and its load generator
`server/client`). State: children, copies of descriptors, zombies, a pending SIGCHLD,
a lock in shared memory, counters, the pipes to the children and the parent's books of
them, the static buffer of Readline. Hard: SIGCHLD is not queued; a worker that dies
keeps the lock; a pipe whose child is gone is readable for ever; threads that read
through one buffer without a lock. Correct if no child is forgotten, no descriptor
kept, one worker accepts at a time, each client gets its own answer and every
connection is served while there are workers.

**UDP clients with and without timeouts** (`dg_cli.cpp`, `udpEcho1`, `udpEcho2`,
`advio/Time_*`, `readable_timeo.cpp`, `broadcast/dgclient_broadcast4` to `6`),
**traceroute** and the **heartbeat** client and server (`oob/heartbeat_cli`,
`oob/heartbeat_serv`, `readline.cpp`). State: the socket's queue, the alarm, flags
set by handlers, a pipe, the probe waited for, counts of missed heartbeats. Hard:
the signal at every point between two calls, answers to an earlier wait. Correct if
no answer and no timeout is taken for that of another wait and every wait ends.

**Names and connecting** (`tcp_connect.cpp`, `tcp_listen.cpp`, `udp_client.cpp`,
`udp_server.cpp`, `connect_nonb.cpp`, `TimeEcho3/Client`), **ping** and the
**out-of-band examples** (`oob/tcpsend01` to `04`, `oob/tcprecv01` to `05`),
**in_cksum**, **get_ifi_info** and **mycat** with **openfile** (`unixdomain/mycat`,
`unixdomain/openfile`, `read_fd.cpp`, `write_fd.cpp`). State: the address under trial
and its descriptor; `nsent`, the alarm and the packet in hand; TCP's urgent mark; the
sum; the buffer and the last answer's length; the exit status and the descriptor in
the socket pair. Hard: any mix of failures along a list, an error between select and
the question for it, replies that come late or twice, an urgent mark that moves
between select and recv, odd lengths and carries, interfaces that come and go between
two questions, a child that ends without having written. Correct if what is returned
or printed is what happened.

**Not worth a model**: see the end of this file; every source
file belongs to a component of `PROJECT.json`.

## Modules and the code

| module | code | what a step is |
|---|---|---|
| ConnQueue | abstract: what serv08 promises of its hand-over | a connection is accepted, taken, finished |
| ThreadPool | server/serv08 | one critical section, one wait, one accept, one service |
| ThreadPoolProofs | | proofs about ThreadPool |
| EchoServer | str_echo, writen; TCP in both directions | one read or one partial write |
| EchoService | abstract: what an echo client promises | a byte is shown, the client returns or gives up |
| StrCliNonblock | str_cli of nonblock/str_cli_nonblock.cpp | one system call of the iteration |
| StrCliShutdown | str_cli_select_shutdown of str_cli.cpp | one system call of the iteration |
| EchoClientProofs | | proofs about StrCliShutdown, StrCliNonblock and StrCliLines with EchoServer, and about MyOpen, IfiInfo, Ping and InCksum |
| StrCliLines | str_cli, str_cli_select, strclifork; Fgets and Readline | one system call, or one line out of a buffer |
| DgSendRecv | rtt/dg_send_recv.cpp, rtt.cpp | one call between two points where SIGALRM matters |
| DgSendRecvProofs | | proofs about DgSendRecv, UdpClient, Traceroute and Heartbeat, in MCTimeouts |
| WebClient | nonblock/webclient | one connect, one select, one descriptor of the scan |
| EventServer | the select and the poll echo server | accept, one slot of the scan, one partial write |
| EventServerProofs | | proofs about EventServer, and about the family of MCSelectLoops |
| Icmpd | icmpd, daemon and client | one handler of the daemon, one call of a client |
| WebClientProofs | | proofs about WebClient and Icmpd |
| ForkServer | seven servers that fork per connection | accept, fork, close, the SIGCHLD handler |
| PreforkServer | serv02, serv03, serv07 | one step of one worker |
| PreforkServerProofs | | proofs about PreforkServer, and about the family of MCProcessServers |
| Serv05 | serv05, child05 | one descriptor of the parent's scan, the end of a child |
| ThreadServer | serv06, web_child, readline, the load generator | one access to Readline's static variables |
| ProcessServersProofs | | proofs about ForkServer, Serv05 and ThreadServer |
| UdpClient | nine dg_cli functions | send, sleep, receive, the SIGALRM handler |
| Traceroute | traceroute/main.cpp | send, the test of gotalarm, recvfrom, the handler |
| Heartbeat | heartbeat client and server, readline.cpp | one call of a main program or of a handler |
| Connecting | the four name functions, TimeEcho3's client, connect_nonb | one system call |
| ConnectingProofs | | proofs about Connecting, OobReceivers and the family of MCOnePeer |
| Ping | ping/main.cpp | recvmsg, the time stamp, proc_v4, the handler |
| OobReceivers | tcpsend01-04, tcprecv01-05 | one byte sent or arrived, select, recv, the handler |
| InCksum | in_cksum | one word of the loop, the odd byte, the folds |
| IfiInfo | get_ifi_info | one ioctl, one stride of the walk |
| MyOpen | mycat, openfile, read_fd, write_fd | one call of either process |
| EchoParams, WebParams, UdpParams, IcmpdParams, ProcessParams | | constants and assumptions of the modules that are only instantiated |

A module that stands for several programs has a variable (`program`, `client`) that
says which one runs; it is chosen in `Init` and never changes, and records of
constants say what tells the programs apart. A signal handler is an action that is
enabled wherever the signal may be delivered. A wrapper (`Read`, `Recv`, `Close`)
that ends the program when its call fails is a step into the failed state at the
place of the call. What is outside the repository (the kernel's buffers, TCP,
the network, the user, getaddrinfo) is marked external in the map and is as
nondeterministic as the code must expect.

The MC modules instantiate these for TLC. MCThreadPool adds nothing but bounds.
MCSelectLoops (the programs that wait in one select or poll), MCProcessServers
(servers with a process or thread per connection), MCTimeouts (clients of a network
that may not answer) and MCOnePeer (programs that deal with one peer or with the
kernel) each run one of several components that are asked the same question, the
others resting in their initial states, so that one run covers a family of programs.
The components of a family do not interact in the code; those that do (the echo
clients with str_echo, mycat with openfile, the load generator with serv06, the
heartbeat pair, senders and receivers of urgent data, ss() with icmpd) are composed in
their modules.

## Runs

Deadlock is not checked in any run: every program here may stop, by returning, by
`exit` or because the bounded input is used up. That no program stops early is what
the liveness properties say.

**pool** (2 threads, ring of 3, 5 connections). With five connections the ring wraps
and can be full; with two threads a wakeup can be stolen. `ExclusiveService`: two
threads never hold one connection. `NoLostWakeup`: while a descriptor lies in
the ring some worker is awake. `QuitOnlyWhenFull`: the exit "iput = iget"
is taken exactly when as many connections wait as the ring has slots.
`ImplementsQueue`: the server refines ConnQueue. `EveryConnectionServed`: every
accepted connection is served unless the process exits.

**pool_counts** (violation). `++tptr[i].thread_count` runs in a thread that captured
`i` by reference: the counter of another thread, or memory past the array, is
incremented.

**select**. One of three programs. EventServer: 3 clients, 2 poll slots, a window of 1
byte, 1 reset, any initial revents; one client more than slots reaches "too many
clients", and one sends more than the window. `TableMatchesConnections`,
`ScanServesReported` (nready reaches 0 when everybody that was reported is served,
which is before the scan comes to a slot whose revents were never set; no read blocks),
`EchoAccounts` (every byte comes back once, to the client that sent it). WebClient: 4
files over 3 connections, the home page and then three files of which two can be reused
descriptors. `BooksAgree`: nlefttoread, nlefttoconn, nconn, the sets and maxfd are
those of the file table. `ReadOnlyWhenReady`: no read blocks.
`AlwaysSomethingToWaitFor`: select is never called on empty sets or with a closed
descriptor, and start_connect finds a file whenever nlefttoconn promises one. Icmpd: 2
clients, a table of 2 slots, 3 ICMP messages. `NothingKept`: the daemon handles exactly
what select reported, keeps no descriptor of a client it refuses and ends over a short
message only. `EveryoneServed`: every client of the server gets its bytes and its end,
every file is read, every client of icmpd is told; the exceptions are in the modules'
`Settled`.

**web_connect** (violation). After a connect that failed the program still writes the
GET, at the place marked "connect established".

**onepeer**. One program with its peer. The echo clients: 4 bytes of input, buffers of
3, a connection of 2 bytes and output of 1 (nonblocking), 1 and 2 (blocking); 8 bytes,
which are four lines, and 3 and 2 for the clients that work in lines. Buffers are
smaller than the input and larger than the connection, so each of them fills, empties
and is reset. `NoByteLost`: typed bytes are in exactly one place, in order, the buffers
of Fgets and Readline included. `EndsAreReal`: the FIN follows the last byte, and only
a dead server is blamed or lets strclifork's child signal a process that is not its
parent; and what the nonblocking client's normal return has not shown is in its own
buffer (`UnshownIsInFr`), which is as far as what nonblock_return refutes does hold.
`ImplementsService`: the blocking select client, str_cli and strclifork refine
EchoService.

Connecting, Ping and OobReceivers: lists of up to 3 addresses; 3 requests within 6
microseconds, a second being 2 of them and icmp_seq having 2 values, 2 arrivals; a
window of 2 bytes. With a second of two microseconds every difference needs or does not
need a borrow, and the third request reuses a sequence number. `SocketOfFirstUsable`:
the walk returns the socket of the first address that works, and nothing else stays
open. `ReportsAreTrue`: connect_nonb reports what the handshake came to, ping prints
the time of the very request that was answered and keeps its alarm, and a receiver of
out-of-band data never reads past an urgent byte it could have had.

InCksum: all messages of up to 9 bytes of two values; the checksum's word then has four
values, and nine bytes carry out of it more than once. `ChecksumCorrect`: the message
with its checksum sums up to nothing. IfiInfo: up to 5 entries, a first buffer for 2
that grows by 2, kernels that cut and kernels that refuse, one change of the list at
any moment. `AnswerComplete`: the answer that is believed is whole, and no interface is
listed twice unless aliases are asked for; what stands in every fourth entry, where the
strides meet the beginning of one, is listed unless it was found to be down, and only
what stands there is (`MetEntriesListed`, which is as far as what ifi_stride refutes does
hold). MyOpen: every error of open and sendmsg among two, of which one is
err_sys's status, a missing openfile, a child that is killed. `OpenedIsReturned`: the
file or the error of the child comes back, never a descriptor that was not set.

`EveryProgramSettled`: each program ends, or waits only as its module says: client and
server block each other in write (`MutualBlock`), an unfinished last line is waited
for (`UnfinishedLine`), the parent of a crashed child pauses (`Abandoned`).

**nonblock_return** (violation). The nonblocking client returns at the server's FIN
with bytes in its output buffer: its "normal terminate" loses them.

**ifi_stride** (violation). The walk of get_ifi_info steps by 32 bytes over entries of
40: interfaces that are up are not listed.

**procs** (3 connections, 2 workers, 1 datagram, ten servers of ForkServer and
PreforkServer; serv05 with 2 children, messages of 2 bytes and a largest int of 5;
serv06 with 2 clients and at most 2 threads at once). Three children can end together,
two workers compete and can both die, navail overflows, two threads meet at every
access to Readline's variables. `NoZombieForgotten`, `OnlyOwnConnection`;
`LockAndCounts`: one worker accepts at a time where there is a lock, no connection is
taken twice, a child's counter is what it accepted; `FreeChildAtAccept`: serv05 accepts
only with a child marked ready, however navail drifts; `AloneIsServed`: connections of
serv06 that do not overlap do each other no harm through the buffer;
`EveryRequestSettled`: every connection is served unless no worker is left, a dead one
holds the lock, the server has ended or threads overlapped.

**serv05_end** (violation). The parent takes the end of a child's pipe for a child that
is ready: `(n = Read(...)) = 0` is an assignment.

**thread_readline** (violation). Two connections of serv06 at once: the server quits
over a request no client made.

**timeouts** (3 calls of dg_send_recv, 2 retransmissions each, the timeouts of
unprtt.h, estimates below, above and within the clamp, the last one 2.25 seconds, of
which neither the estimate nor its double is a whole number; 2 lines, 2 answers each; 2 hops, 2
probes each; heartbeat sessions of two lines and of silence). Two waits, so that what
belongs to the first can meet the second; three calls, so that an answer crosses a call
that gave up and a second `rtt_init`. `NoAnswerMistaken` and `NoTimeoutMistaken` for
the UDP clients, traceroute and the heartbeat. For dg_send_recv: `AnswerIsOwn`;
`TimestampOfThisBase`; `RetransmissionBounded` (a request is sent at most RTT_MAXNREXMT
+ 1 times; the clamp bounds the first `rtt_rto` of a call, each one after it is exactly
twice the one before, rtt.cpp:114, and so goes beyond RTT_RXTMAX; an alarm is `rtt_rto`
to the nearest second, rtt.cpp:65, so that 2.25 is waited for as 2 and then 4.5 as 5,
and what is rounded off is never doubled; the history variable `waits` keeps both);
`AlarmOnlyInCall`: no alarm outlives its call, and the one
that can go astray is that of a first transmission, between `alarm` and `sigsetjmp`.
`EveryWaitSettled`: the exceptions are named in the modules, `Stuck` (no timeout at
all, or an alarm that went off before the call that should have been interrupted),
`Unnoticed` (a cut the heartbeat cannot see), traceroute's unset pointer, and the jump
that went astray, in the first transmission of dg_send_recv or at the first line of the
client with siglongjmp, where `NoTimeoutMistaken` says that no line was given up or
shown before.

**heartbeat_read** (violation). `my_read` keeps the result of `read` in a `size_t`, so
that a read interrupted by SIGALRM is not called again.

## Fairness

Weak fairness of a program's own steps: the scheduler runs a process that can run.
Strong fairness only where a step is enabled and disabled by others again and again:
taking the mutex of serv08 (a fair enough mutex; without it a thread may starve), the
main programs of Heartbeat, whose handlers interrupt them each second, and the end of a
server's answer in WebClient. Alarms that are set go off. A failing call is never owed:
accept may fail, but no liveness property rests on its failing. Peers are fair only
where the liveness is about a served client: a client in service reads and ends its
input, a client of icmpd or of serv06 goes on with its calls, the reader of standard
output reads, and the user of an echo client ends the input at last. The network owes
nothing in DgSendRecv, UdpClient, Traceroute and Ping; dg_send_recv runs once it is
called, and nobody has to call it. In the MC modules one action gathers the steps of
the programs that could run, of which one does; where it also gathers the steps of
several clients, each of them takes a bounded number, so that fairness of the group is
fairness of each.

## Proofs

Each proof goes the same way: an invariant that implies the properties and is kept by
every action, one step of the proof per action, and the properties as corollaries. All
theorems hold for every value of the constants that the assumptions below allow.

**ThreadPoolProofs**, for every number of threads, ring size and bound on
connections. `IInv` is the conjunction of TypeOK, UnbornAhead, MutualExclusion,
QuitOnlyWhenFull, RingHoldsWaiting, TakenInOrder, ClosedWasTaken, ExclusiveService and
NoLostWakeup. None of the last three is inductive alone: that no connection is served
twice needs that connections are taken in order of acceptance, which needs that the
ring holds exactly the accepted connections not yet taken (RingHoldsWaiting), and how
many that is (QuitOnlyWhenFull), and both need that only the holder of the mutex is
between its test and its update. In NoLostWakeup a thread not yet created counts as
awake; UnbornAhead says which these are. Theorems: Inductive, TypeCorrect, Mutex,
HandOverInOrder, Exclusive, Wakeups, FullRing, and Implements, the refinement of
ConnQueue: every step of the ring and its indices is one step of the abstract queue or
leaves it alone.

**EchoClientProofs**, for inputs, buffers and connections of any size. `Whole` says
that what is shown, followed by what is in the client's buffer, in both directions of
the connection and in the server's buffer, is what was read from stdin; `Prefix` says
of what is already on its way back that it is a beginning of the input, which `Whole` no
longer does once the server has been killed; `Ends` says which side has finished and
what is then empty. That nothing is lost at the end needs `Ends`: a FIN from a server
that lives means that its buffer and the connection towards it are empty. Theorems:
Inductive, TypeCorrect, Lossless, and Implements, the refinement of EchoService.

StrCliNonblock and StrCliLines follow in the same module, with what they share about the
connection and the server (`SrvInv`, `Between`). *StrCliNonblock*: `Wire` is what is
shown, the bytes between the pointers of `fr`, the connection and the server, and the
bytes between the pointers of `to`; `NWhole` says that it is what was read. `NFilled`
says that the parts between the pointers hold bytes of the input (what is outside is
left over from earlier), and `NEnds` that no pointer is at the end of its buffer where
select asked for input, and that the FIN is sent once, with `to` empty. That a pointer
is reset to the start only when its buffer is empty is what the step of each system call
needs `HeldNone` and `HeldCut` for. `NBack` is what the normal return adds: a server
that has seen the FIN has nothing left to read, and the client returns only when the
input has ended and everything has come back, so that all that is not shown is in `fr`.
Theorem: NonblockingLossless. *StrCliLines*:
`LWhole` is the same account through the two buffers that read ahead; but NothingLost
speaks of lines, so `LSteady` says that also what the death of the server leaves behind
is a run of the input in which every second byte is a newline. `LPlaces` says who holds
a line, and who has ended and why. Theorem: LinesLossless. That str_cli and strclifork
implement EchoService needs more: `LTurns` (str_cli has at most one line on its way, and
none while it waits for its user, so that the end of the input finds everything shown),
`LClosed` (strclifork's parent shuts down its half after its last byte, and its child
signals after it has shown everything the server sent before its FIN) and `LPrefix`
(what is on its way back is a beginning of the input, the server being alive or not).
str_cli_select is excluded: it returns without waiting. Theorem: LinesImplement.

**DgSendRecvProofs**, for any number of calls, retransmissions and any estimates.
`Numbers` ties the sequence number and the base to the call; `Sent` says what every
datagram that was ever sent carries, whatever the network made of it since; `Counted`
counts those of the current call; `Backoff` relates `rtt_rto` to the timeouts of this
call, before they are rounded. `Rounded` says that the division of rtt_start is rounding
to the nearest second, `Almost` what is left of the doubling in whole seconds. The answer is of this call because numbers are never used again, its timestamp of
this base because the base changes only before a call first sends. Theorems: Inductive,
TypeCorrect, SameBase, Bounded, AlarmsEnd, and OwnAnswer, an action property.

The other clients of the run timeouts are in the same module, which extends MCTimeouts
and reasons about its instances. UdpClient, for any number of lines and answers and all
nine clients: `UdpTimers` (an alarm, a SIGALRM held back or a byte in the pipe exists
only in the client that uses it, only while it waits, and only one of them at a time;
before the first `sigsetjmp` nothing was shown or given up) and AnswersAccounted. Traceroute, for any ttl and number of probes: `Numbered` (the
numbers of the nested loops, products of a symbolic nprobes) and `Attributed` (what is in the
socket was sent about the probe it names; the flag of the alarm is the current probe's
once its wait has begun). Heartbeat: `Conserved` adds to EchoConserved what stays true
when a side is gone and what the client still owes its output after the server saw the
end of the input; `Places` ties the buffers to the program counter; `Off` adds to
HeartbeatOff that no handler is about to set the alarm again. Theorems: FamilyInvariant,
NoneMistaken, NoTimeoutsMistaken and AllTypesCorrect, about the composition: one client
runs (`OneRuns`), the others stutter.

**WebClientProofs**. WebClient, for any number of files and connections: `FlagsTrue`
(what a file's flag says of its connection), `BooksAgree`, `StillReady` (the files
ahead of the scan have lost nothing of what select reported, although others have
been closed and their descriptors used again) and `SelectSafe`. The counters are
cardinalities of sets of files, so each step that changes a flag adds to one of them
what it takes from another. Theorems: Inductive, TypeCorrect, Books, ReadsFindSomething,
SelectWaits. Icmpd, for any number of clients, slots and messages: `Report` (nready is
the size of the report) and `OpenOnly` (the one open descriptor is the one just
accepted). Theorems: DaemonInductive, NothingIsKept, DaemonTypes.

**EventServerProofs**, for any number of clients and slots, both programs. `ConnsOK`
relates the state of a connection to its descriptor, `TableOK` says that the table
holds the descriptors of the open connections, each once, and that set and maxfd agree
with it; `ReportOK` that nready is the number of reported slots still to come, that
these were there when poll was called, and that a read there finds something. The table
is needed for the report (a slot of the report belongs to the client for which it was
made) and for EchoAccounts (what is read from a slot goes back to whom it came from).
Theorems: Inductive, TypeCorrect, TableCorrect, ScanCorrect, EchoCorrect.

**PreforkServerProofs**, for any number of workers and any connections: `Ahead` (the
workers that main has not made), `Locked`, `TakenOnce` (a connection that was taken is
out of the kernel's queue) and `Counted` (what a child has counted at each place of its
loop, dead ones included). Theorems: Inductive, TypeCorrect, LockAndCountsHold.

**ProcessServersProofs**. ForkServer: `Hands` (which descriptors parent and children
have at each place) and `Signals` (a pending SIGCHLD stands for a zombie; with waitpid
in a loop every zombie is announced or the handler runs). Theorems: Inductive,
TypeCorrect, ZombiesCollected, OwnConnection. Serv05: `Marked` says that navail is the
number of children marked ready until the parent has read from a dead child, and that
from then on this child stays marked; either way one is marked where navail is
positive, which is when the parent accepts. Theorems: ChildForConnection, Serv05Types.
ThreadServer: `Alone` follows the one thread that is alive through Readline, byte by
byte, and says that the buffer is empty between two connections. Theorems: ServedAlone,
ThreadTypes.

**ConnectingProofs**. Connecting, for lists of any length: `WalkInv` says what is known
at each place of the loop: everything before `res` failed, and the socket in hand, if
any, is the only one open and belongs to `res`. `NonbInv` does the same for
connect_nonb; its interesting part is that where the flags are restored without an
error the handshake had succeeded. Theorems: Inductive, FirstUsable,
NonblockingConnectReports.

**MyOpen and IfiInfo**, in EchoClientProofs. MyOpen, for any errors and any length of
the file: `Child`, `Status` (the exit status is 0 exactly when the descriptor was
passed) and `Parent`. Theorem: OpenedComesBack. IfiInfo, for lists and buffers of any
length: `Asking` (the buffer is longer than the answer before, so that an answer of the
same length again did not fill it), `WholeAnswer`, `Sorted` and `ListedOnce`. `Walked` says
where the walk is: at a multiple of the stride, with every entry it has met listed or
found down, and with nothing else listed. Theorem: AnswerWhole.

**Ping**, in EchoClientProofs, for seconds and sequence numbers of any size and any
number of requests: `PInv` adds to the types, RttIsOwn and AlarmKeptUp that whatever is
queued or in hand answers a request already sent (`Answers`), so that the handler never
rewrites the time a printed line was computed from. `Borrowed` is the arithmetic of
tv_sub. Theorem: TimesAreOwn.

**InCksum**, in EchoClientProofs, for a byte of any size and any message that the
accumulator can add up (with 256 values 131074 bytes; IP carries half of that).
`Summed` says that the accumulator holds the sum of the bytes passed so far, in the form
in which the reference computes it: by the values of the bytes (`IsSums`, `Counts`).
One byte more changes one count by one, and with it the sums from that value on by the
byte, times its place (`SumsChange`, `CountsStep`, `SumStep`). `InWords` bounds the
accumulator by the words added, so that it never wraps (`NoOverflow`); `Folded` is the
arithmetic of the two folds and the complement. The induction over the values of a byte
is `OneByOne`: of the numbers outside a set that is closed under adding one there would
be a least, because inclusion among finite sets is well-founded. Theorem: ChecksumRight.

**OobReceivers**, in ConnectingProofs, for a receive buffer of any size. `Mark`: the
urgent mark lies ahead of what was read, at an out-of-band byte, and its byte has
arrived exactly when it is marked valid or read. `Heard`: with signals an unread urgent
byte was announced before F_SETOWN or has its SIGURG pending. `Turns`, with select: what
select said about normal data stays true until it is read, and an urgent byte next in
line is one the program goes for first. For tcprecv03 and its `justreadoob` this needs
that no sender writes two urgent bytes in a row (SenderFacts): tcprecv03 would not
look for the second before it reads on. Theorem: NoneMissed.

**The families.** The runs check compositions in which one program of several runs, and
their properties are stated there. EventServerProofs, PreforkServerProofs and
ConnectingProofs EXTEND the MC modules, instantiate the other proof modules with the
MC modules' variables, and show that the composition is a specification of each of its
members: a step of it is a step of the member or leaves the member's variables as they
are (`OneRuns`, `FamilyRuns`). What was proved of the members then holds of the
composition. MC module and proof module have instances of their own of the same module;
the lemmas `Same...` say that the two are equal, by expanding all their definitions.
Theorems: BooksOfFiles, ReadsAreReady, SelectsWait, DaemonKeepsNothing,
AllTypesCorrect (select); EveryZombie, EveryConnection, EveryAccept, EveryCaller and
AllTypesCorrect (procs); FileOrError, AnswerBelieved, ReportsTrue, ChecksumRight and
AllTypesCorrect (onepeer). The three echo clients of onepeer share the variables of the
connection, so that no one of them is a specification of its own there: the invariant
of the family is the conjunction of theirs, each for the run of its client (`EchoInv`),
and a step keeps the one of the client that runs (`EchoRuns`). From it follow EchoesWhole
and EndsReal. FamilyServes shows that the composition implements EchoService: while the
blocking select client, str_cli or strclifork runs, a step of the composition is one of
its service, by the refinements proved of each; while another program runs, the service
stands still. With the theorems about the modules that the MC modules extend, every
invariant, every action property and every refinement of the runs that pass is proved.

Assumptions, each no stronger than the code: PoolAssumption (at least one thread, at
least one slot in the ring), EchoAssumption (buffers have room for a byte),
RttAssumption (RTT_RXTMIN positive and at most RTT_RXTMAX, a second of at least one
part, natural estimates and bounds), WebAssumption (at least one file and one connection), EventAssumption and
IcmpdAssumption (finitely many clients, at least one slot), PreforkAssumption (at least
one worker), ProcessAssumption (at least one child, and no more than an int counts),
AddrsAssumption (a natural bound on the length of a list), UdpAssumption (natural
bounds on lines and answers), TraceAssumption (max_ttl and nprobes are positive), and
the hypotheses of the theorems about MyOpen, IfiInfo, Ping and InCksum (a file of natural
length; buffers that have room for an entry and grow; a second and a range of icmp_seq
that are not empty; two values of a byte at least, and messages of at most twice as many
bytes as a word has values, and two). TLC evaluates the named ones in the runs.

Only model-checked, because the prover cannot: all liveness (EveryConnectionServed,
EveryoneServed, EveryRequestSettled, EveryWaitSettled and EveryProgramSettled, with WF, SF
and ENABLED), and the violations, which are single behaviours.

## Assumptions of the models

- WebClient: maxnconn is positive and fewer descriptors are open than FD_SETSIZE.
- DgSendRecv: `rtt_rto` is a whole number of parts of a second, of which there are
  PerSecond (2^22 parts hold every float from 2 on; the run has 4). A jump through the buffer of the call before, which has returned, either
  crashes the process or works as if that frame lived (its caller and place on the
  stack are those of this call).
- ThreadServer: a request is a digit and a newline; once the shared count has wrapped
  the server ends over the garbage it reads; a client that gets too many bytes is not
  followed further.
- Serv05: a client asks for one connection, and the counts that are only printed are
  left out.
- IfiInfo: Linux on 64 bits (entries of 40 bytes, the addresses of one interface next
  to each other), and what stands between two entries is never taken for AF_INET.
- StrCliLines: a line is two bytes long; the server's RST ends the client where it is
  read or written to.
- PreforkServer: SIGINT comes only after its handler is installed.
- Heartbeat: out-of-band bytes that are overtaken vanish instead of becoming data,
  nothing is read after the cut, and TCP's own timeout is left out.
- OobReceivers: urgent data as Linux keeps it, one mark at a time; a write of several
  bytes is two bytes long (tcpsend03's first is three, more than the window).
- Ping: the clock does not step back, and the buffers of the raw socket hold each kind
  of message once.
- Connecting: what comes of an address does not depend on the ones tried before.

## Behaviour worth knowing that no run reports as a violation

These follow from the code; the properties are stated so as to name them.

- tcprecv01 and tcprecv05 end in `Recv` when SIGURG comes before the urgent byte does,
  or when two marks come before the first byte is asked for.
- tcprecv04 may read the urgent byte without having said "at OOB mark": the mark can
  come between `Sockatmark` and `Read`.
- connect_nonb leaves the socket open and nonblocking when `connect` fails at once, and
  closes it when it fails later; a caller cannot tell which.
- ping takes replies to a process whose number has the same low 16 bits for its own.
- Time_alarm_timeout and traceroute wait for ever when the alarm goes off between the
  test and the blocking call and the answer is lost.
- The traceroute branch for ICMP_UNREACH reads a pointer that only another branch sets.
- rtt_timeout doubles the timeout without the clamp: it may exceed RTT_RXTMAX, which
  unprtt.h:16 calls "max retransmit timeout value" (rtt.cpp:114).
- The heartbeat client does not notice a dead server after the end of its input
  (`alarm(0)`), nor while its handler blocks in `Send`; the server may then end with
  "no probes" although the client is well.
- The branch of the poll server for ECONNRESET is never taken (`n` is a `size_t`); a
  reset client ends the server.
- Servers whose SIGCHLD handler calls `wait` once leave zombies when children end
  together.
- serv05: every child ends at its start (the second `Close(sockfd[0])` fails), with a
  message in its pipe that the parent counts as so many children that are ready; no
  connection is ever served, and the first one to be passed to a dead child, or the
  error it left, ends the parent. Until then navail grows with every round and
  overflows.
- icmpd: the loop that frees the slots of its table works on copies, so that no client
  is ever accepted. A refused client ends in `Read` (ECONNRESET) or by SIGPIPE, never
  with the message it has for a refusal.
- serv06, serv07 and serv08 link the Readline whose buffer is static: clients that
  overlap may get each other's answers.
- str_cli and str_cli_select wait for ever when the input ends without a newline: the
  server echoes the unfinished line and Readline waits for the rest.
- strclifork: when the server's RST makes the child crash, its parent pauses for ever;
  when the parent is gone the child signals whatever process has adopted it.
- str_cli_select returns at the end of input without waiting for what it sent.
- The select server sleeps in accept, and its clients with it, when the connection
  that select reported is gone.
- dg_send_recv sets its alarm before the jump buffer: SIGALRM between the two jumps
  into a frame that has returned, or nowhere. dgclient_broadcast5 does the same for its
  first line.
- mycat takes a missing openfile for EPERM: err_sys exits with 1.
- get_ifi_info ends the program when an interface goes away between the list and the
  question for its flags, or when a kernel that answers EINVAL gets more interfaces
  after its first answer.

## Not modelled

What is left has no behaviour that a model could get wrong: programs of one call or of
a loop without state (one-shot UDP programs and servers, daytime programs, the Unix
domain datagram and credential programs, multicast, ioctl, route and socket options),
whose loops are those of UdpClient, ForkServer and Connecting where they have any;
address helpers that copy or compare one field; printing. udpchsum does not compile
(its only control is a retry by SIGALRM). The wrappers are modelled at their calls: a
failing call is the step into the program's failed state. Of icmpd, readable_conn and
the forwarding of errors cannot be reached. Where a module leaves out part of a
program, the component's note in `PROJECT.json` says which.

## Plan

Written so far, in this order: ConnQueue, ThreadPool and its proofs (the one program
whose shared memory is guarded); EchoServer, two clients and EchoService; DgSendRecv;
WebClient; EventServer; ForkServer and PreforkServer; UdpClient, Traceroute and
Heartbeat; Connecting with its proofs, Ping and OobReceivers; then Serv05, ThreadServer,
StrCliLines, Icmpd, InCksum, IfiInfo and MyOpen. The proofs came in the order of the
section on them.

Every safety property, action property and refinement that a passing run checks is
proved, and so is what remains true of what nonblock_return and ifi_stride refute.
Liveness stays with TLC. What is left is the same for the other violating runs: to say
how far the statement that each of them contradicts does hold, and to prove that.
