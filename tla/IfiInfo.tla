------------------------------ MODULE IfiInfo ------------------------------
(***************************************************************************)
(* get_ifi_info.cpp: the list of the host's interfaces.  SIOCGIFCONF is    *)
(* asked with ever larger buffers until two answers have the same length;  *)
(* then the buffer is walked, an interface per entry.  An entry takes      *)
(* EntrySize units of eight bytes (a struct ifreq of 40), but the walk     *)
(* advances by StrideSize (a name and a struct sockaddr, 32).  The         *)
(* list may change once while the function runs.                           *)
(***************************************************************************)
EXTENDS Integers, Sequences

CONSTANTS
  MaxIfs,       \* entries the kernel can have
  Guess,        \* entries of the first buffer (100)
  Increment     \* entries a larger buffer has more (10)

EntrySize == 5
StrideSize == 4
FamilyAt == 2     \* where ifr_addr.sa_family is in an entry

Names == {1, 2}

\* Linux lists an interface's addresses one after the other.
Lists == {s \in UNION {[1 .. n -> Names] : n \in 0 .. MaxIfs} :
            \A k, l \in 1 .. Len(s) : k <= l => s[k] <= s[l]}

VARIABLES
  refuses,      \* the kernel answers EINVAL to a small buffer; else it cuts
  ifs,          \* the kernel's entries
  changed,      \* history: the entries have changed
  doaliases,    \* the argument
  len, lastlen, \* lengths of this buffer and of the last answer, in entries
  buf,          \* the last answer
  missed,       \* history: entries that did not fit into it
  pos,          \* ptr, in units
  lastname, ifihead,
  down,         \* history: interfaces found to be down
  ipc           \* "ask", "walk", "addrs", "return", "quit" or "fatal"

kernel == <<refuses, ifs, changed>>
answer == <<len, lastlen, buf, missed>>
list == <<lastname, ifihead, down>>
vars == <<kernel, doaliases, answer, pos, list, ipc>>

TypeOK ==
  /\ refuses \in BOOLEAN /\ ifs \in Lists /\ down \subseteq Names
  /\ changed \in BOOLEAN /\ doaliases \in BOOLEAN
  /\ len \in Nat /\ lastlen \in 0 .. MaxIfs
  /\ buf \in Lists /\ missed \in 0 .. MaxIfs
  /\ pos \in 0 .. EntrySize * MaxIfs + StrideSize
  /\ lastname \in Names \cup {0}
  /\ ifihead \in Seq([name : Names, alias : BOOLEAN])
  /\ ipc \in {"ask", "walk", "addrs", "return", "quit", "fatal"}

Init ==
  /\ refuses \in BOOLEAN /\ ifs \in Lists
  /\ changed = FALSE /\ doaliases \in BOOLEAN
  /\ len = Guess /\ lastlen = 0 /\ buf = <<>> /\ missed = 0
  /\ pos = 0 /\ lastname = 0 /\ ifihead = <<>> /\ down = {}
  /\ ipc = "ask"

----------------------------------------------------------------------------
(* The kernel.                                                             *)

Change ==
  /\ ~changed /\ ipc \in {"ask", "walk", "addrs"}
  /\ ifs' \in Lists
  /\ changed' = TRUE
  /\ UNCHANGED <<refuses, doaliases, answer, pos, list, ipc>>

----------------------------------------------------------------------------
(* Asking for the list.                                                    *)

Grow == len' = len + Increment

\* An answer is believed when it is as long as the one before it.
Believed_First(n) == n >= lastlen
Believed(n) == n = lastlen

Answered ==
  /\ ipc = "ask" /\ ~(refuses /\ Len(ifs) > len)
  /\ LET n == IF Len(ifs) < len THEN Len(ifs) ELSE len
     IN /\ buf' = SubSeq(ifs, 1, n) /\ missed' = Len(ifs) - n
        /\ IF Believed(n) THEN ipc' = "walk" /\ UNCHANGED <<len, lastlen>>
                          ELSE lastlen' = n /\ Grow /\ UNCHANGED ipc
  /\ UNCHANGED <<kernel, doaliases, pos, list>>

\* EINVAL means a small buffer only as long as no answer has come.
Refused ==
  /\ ipc = "ask" /\ refuses /\ Len(ifs) > len
  /\ IF lastlen # 0 THEN ipc' = "fatal" /\ UNCHANGED len
                    ELSE Grow /\ UNCHANGED ipc
  /\ UNCHANGED <<kernel, doaliases, lastlen, buf, missed, pos, list>>

----------------------------------------------------------------------------
(* Walking along the buffer.                                               *)

End == EntrySize * Len(buf)
Stride == StrideSize
Skip == UNCHANGED <<list, ipc>>

AlreadyListed_Never(name) == FALSE
AlreadyListed(name) == name = lastname /\ ~doaliases

\* The flags of an interface that is gone cannot be had; others are up or not.
AskFlags(name) ==
  /\ lastname' = name
  /\ IF \A k \in 1 .. Len(ifs) : ifs[k] # name
     THEN ipc' = "fatal" /\ UNCHANGED <<ifihead, down>>
     ELSE \/ ipc' = "walk" /\ down' = down \cup {name} /\ UNCHANGED ifihead
          \/ /\ ipc' = "addrs" /\ UNCHANGED down
             /\ ifihead' = Append(ifihead, [name |-> name, alias |-> name = lastname])

\* Between two entries something else stands where the family would be, never
\* AF_INET.  Behind the answer the memory is not set: AF_INET there means a
\* name that is no interface's.
Look ==
  /\ ipc = "walk" /\ pos < End
  /\ pos' = pos + Stride
  /\ \/ /\ pos + FamilyAt >= End
        /\ ipc' \in {"walk", "fatal"} /\ UNCHANGED list
     \/ pos + FamilyAt < End /\ pos % EntrySize # 0 /\ Skip
     \/ /\ pos + FamilyAt < End /\ pos % EntrySize = 0
        /\ LET name == buf[pos \div EntrySize + 1]
           IN IF AlreadyListed(name) THEN Skip ELSE AskFlags(name)
  /\ UNCHANGED <<kernel, doaliases, answer>>

\* Its broadcast or destination address.
AskAddrs ==
  /\ ipc = "addrs"
  /\ ipc' = IF \A k \in 1 .. Len(ifs) : ifs[k] # lastname THEN "fatal" ELSE "walk"
  /\ UNCHANGED <<kernel, doaliases, answer, pos, list>>

\* Get_ifi_info takes an empty list for an error.
Return ==
  /\ ipc = "walk" /\ pos >= End
  /\ ipc' = IF ifihead = <<>> THEN "quit" ELSE "return"
  /\ UNCHANGED <<kernel, doaliases, answer, pos, list>>

Step == Answered \/ Refused \/ Look \/ AskAddrs \/ Return
Next == Change \/ Step
Spec == Init /\ [][Next]_vars

\* The process runs.
FairSpec == Spec /\ WF_vars(Step)

----------------------------------------------------------------------------
(* Properties.                                                             *)

\* The answer the walk goes along was not cut short, although a kernel that
\* cuts says so in no way, and the interfaces may change between two
\* questions; and without doaliases no interface is listed twice.
AnswerComplete ==
  ipc \in {"walk", "addrs", "return", "quit"} =>
    /\ missed = 0
    /\ ~doaliases => \A k, l \in 1 .. Len(ifihead) :
                       ifihead[k].name = ifihead[l].name => k = l

\* `ptr += sizeof(ifr->ifr_name) + len;  /* for next one in buffer */`: every
\* entry is looked at, so every interface in the answer is listed unless it was
\* found to be down.
EveryInterfaceListed ==
  ipc = "return" /\ ~changed =>
    \A k \in 1 .. Len(buf) : buf[k] \notin down =>
      \E l \in 1 .. Len(ifihead) : ifihead[l].name = buf[k]

\* As far as that holds: the strides meet the beginning of every fourth entry.
\* What stands there is listed unless it was found to be down, and only what
\* stands there is listed.
Met(k) == (EntrySize * (k - 1)) % StrideSize = 0
MetEntriesListed ==
  ipc = "return" =>
    /\ \A k \in 1 .. Len(buf) : Met(k) /\ buf[k] \notin down =>
         \E l \in 1 .. Len(ifihead) : ifihead[l].name = buf[k]
    /\ \A l \in 1 .. Len(ifihead) :
         \E k \in 1 .. Len(buf) : Met(k) /\ ifihead[l].name = buf[k]

Settled == ipc \in {"return", "quit", "fatal"}
=============================================================================
