--------------------------- MODULE ProcessParams ----------------------------
(* The sizes and bounds of ForkServer and Serv05.                          *)
EXTENDS Integers, FiniteSets

CONSTANTS
  MaxDatagrams, \* bound: datagrams sent to ServerSelect
  nchildren,    \* children that serv05 makes
  MsgLen,       \* bytes of the message of err_sys
  IntMax        \* the largest int

ASSUME ProcessAssumption ==
  /\ MaxDatagrams \in Nat /\ nchildren \in Nat \ {0} /\ MsgLen \in Nat
  /\ IntMax \in Nat /\ nchildren <= IntMax
=============================================================================
