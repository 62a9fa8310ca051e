----------------------------- MODULE ConnQueue -----------------------------
(***************************************************************************)
(* What the prethreaded server promises of its hand-over of connections:   *)
(* every accepted connection waits in one first-in first-out line and is   *)
(* handed to a worker once, in the order of acceptance; the line never     *)
(* holds more than Capacity connections; once the server is down nothing   *)
(* is handed out any more.                                                 *)
(***************************************************************************)
EXTENDS Naturals, Sequences

CONSTANTS
  Conns,      \* the connections that may ever be accepted
  Capacity    \* the largest number of connections allowed to wait

VARIABLES
  waiting,    \* accepted connections no worker has taken, oldest first
  handed,     \* connections handed to workers, in that order
  up          \* FALSE once the process has exited

vars == <<waiting, handed, up>>

Known == {waiting[k] : k \in DOMAIN waiting} \cup {handed[k] : k \in DOMAIN handed}

Init == waiting = <<>> /\ handed = <<>> /\ up = TRUE

Arrive == /\ up /\ up'
          /\ Len(waiting) < Capacity
          /\ \E c \in Conns \ Known : waiting' = Append(waiting, c)
          /\ UNCHANGED handed

HandOver == /\ up /\ up'
            /\ waiting # <<>>
            /\ handed' = Append(handed, Head(waiting))
            /\ waiting' = Tail(waiting)

\* The process exits; connections still waiting (and one just arriving when
\* the line is full) are dropped with it.
Exit == up /\ ~up' /\ UNCHANGED handed

Next == Arrive \/ HandOver \/ Exit

Spec == Init /\ [][Next]_vars
=============================================================================
