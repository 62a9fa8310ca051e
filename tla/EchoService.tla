---------------------------- MODULE EchoService ----------------------------
(***************************************************************************)
(* What an echo client promises its user: what appears on standard output  *)
(* is always a beginning of what was typed, and when the client returns    *)
(* normally it is everything that was typed, unless the server died.       *)
(***************************************************************************)
EXTENDS Naturals, Sequences

CONSTANT InputLen

VARIABLES
  typed, ended,   \* bytes typed so far; the user has typed the end of file
  shown,          \* what has been written to standard output
  server,         \* "up" or "down"
  client          \* "running", "returned" or "gave up"

vars == <<typed, ended, shown, server, client>>

Init == /\ typed = 0 /\ ended = FALSE
        /\ shown = <<>>
        /\ server = "up" /\ client = "running"

Type == /\ ~ended /\ typed < InputLen
        /\ typed' = typed + 1
        /\ UNCHANGED <<ended, shown, server, client>>

End == /\ ~ended /\ ended' = TRUE
       /\ UNCHANGED <<typed, shown, server, client>>

Show == /\ client = "running"
        /\ \E n \in Len(shown) + 1 .. typed : shown' = [k \in 1 .. n |-> k]
        /\ UNCHANGED <<typed, ended, server, client>>

ServerDies == /\ server = "up" /\ server' = "down"
              /\ UNCHANGED <<typed, ended, shown, client>>

Return == /\ client = "running" /\ ended
          /\ Len(shown) = typed \/ server = "down"
          /\ client' = "returned"
          /\ UNCHANGED <<typed, ended, shown, server>>

GiveUp == /\ client = "running" /\ server = "down"
          /\ client' = "gave up"
          /\ UNCHANGED <<typed, ended, shown, server>>

Next == Type \/ End \/ Show \/ ServerDies \/ Return \/ GiveUp

Spec == Init /\ [][Next]_vars
=============================================================================
