----------------------------- MODULE EchoParams ----------------------------
(* The sizes that the echo clients and the echo server have in common.     *)
EXTENDS Naturals

CONSTANTS
  InputLen,   \* bytes the user types, and then the end of file
  MAXLINE,    \* size of every buffer of client and server (4096)
  SendCap,    \* bytes one direction of the connection can hold
  OutCap      \* bytes the client's standard output takes before it blocks

ASSUME EchoAssumption == /\ InputLen \in Nat /\ MAXLINE \in Nat \ {0}
                         /\ SendCap \in Nat \ {0} /\ OutCap \in Nat \ {0}
=============================================================================
