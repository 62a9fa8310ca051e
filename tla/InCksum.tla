------------------------------ MODULE InCksum ------------------------------
(***************************************************************************)
(* in_cksum.cpp: the Internet checksum of a message, which ping puts into  *)
(* its requests.  Words of two bytes are added in an accumulator of twice  *)
(* their width, an odd byte at the end as the first of its word, and the   *)
(* carries are folded back.  A byte has ByteSize values (256).             *)
(***************************************************************************)
EXTENDS Integers, Sequences, FiniteSets

CONSTANTS ByteSize, MaxLen

WordSize == ByteSize * ByteSize
SumSize == WordSize * WordSize

VARIABLES
  addr,       \* the message
  cnleft,     \* bytes not yet added
  sum,        \* the accumulator
  answer,
  ckpc        \* "add", "fold" or "done"

vars == <<addr, cnleft, sum, answer, ckpc>>

Messages == UNION {[1 .. n -> 0 .. ByteSize - 1] : n \in 0 .. MaxLen}

TypeOK ==
  /\ addr \in Messages /\ cnleft \in 0 .. Len(addr)
  /\ sum \in 0 .. SumSize - 1 /\ answer \in 0 .. WordSize - 1
  /\ ckpc \in {"add", "fold", "done"}

Init == /\ addr \in Messages /\ cnleft = Len(addr)
        /\ sum = 0 /\ answer = 0 /\ ckpc = "add"

\* A word in memory: the byte at the lower address is the lower half.
w == Len(addr) - cnleft + 1
Word(k) == addr[k] + ByteSize * (IF k < Len(addr) THEN addr[k + 1] ELSE 0)

AddWord ==
  /\ ckpc = "add" /\ cnleft > 1
  /\ sum' = (sum + Word(w)) % SumSize
  /\ cnleft' = cnleft - 2
  /\ UNCHANGED <<addr, answer, ckpc>>

\* answer, 0 before, takes the odd byte in its lower half.
OddByte ==
  /\ ckpc = "add" /\ cnleft = 1
  /\ answer' = addr[w]
  /\ sum' = (sum + answer') % SumSize
  /\ cnleft' = 0
  /\ UNCHANGED <<addr, ckpc>>

EndAdd == ckpc = "add" /\ cnleft = 0 /\ ckpc' = "fold" /\ UNCHANGED <<addr, cnleft, sum, answer>>

Fold(s) == (s \div WordSize) + (s % WordSize)
AddCarry_None(s) == s
AddCarry(s) == s + (s \div WordSize)

\* ~sum, cut to a word.
Finish ==
  /\ ckpc = "fold"
  /\ sum' = AddCarry(Fold(sum))
  /\ answer' = WordSize - 1 - (sum' % WordSize)
  /\ ckpc' = "done"
  /\ UNCHANGED <<addr, cnleft>>

Next == AddWord \/ OddByte \/ EndAdd \/ Finish
Spec == Init /\ [][Next]_vars /\ WF_vars(Next)

----------------------------------------------------------------------------
\* The sum of the message's words, computed from the bytes: those at odd
\* places count once, those at even places ByteSize times.
Places(b, odd) == {k \in 1 .. Len(addr) : addr[k] = b /\ (k % 2 = 1) = odd}
Weight[b \in 0 .. ByteSize - 1] ==
  IF b = 0 THEN 0
  ELSE b * (Cardinality(Places(b, TRUE)) + ByteSize * Cardinality(Places(b, FALSE)))
       + Weight[b - 1]
Total == Weight[ByteSize - 1]

\* The checksum is the one's complement of the one's complement sum: together
\* with the words of the message it adds up to a multiple of WordSize - 1 (so
\* that a receiver who adds everything finds no error), and it is all ones only
\* for a message of zeros.
ChecksumCorrect ==
  ckpc = "done" =>
    /\ (Total + answer) % (WordSize - 1) = 0
    /\ (answer = WordSize - 1 <=> Total = 0)

Settled == ckpc = "done"
=============================================================================
