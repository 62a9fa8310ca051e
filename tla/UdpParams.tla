----------------------------- MODULE UdpParams ------------------------------
(* The bounds of UdpClient.                                                *)
EXTENDS Naturals

CONSTANTS
  MaxLines,     \* lines of input
  MaxAnswers    \* answers to one datagram

ASSUME UdpAssumption == MaxLines \in Nat /\ MaxAnswers \in Nat
=============================================================================
