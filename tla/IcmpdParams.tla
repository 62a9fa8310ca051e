---------------------------- MODULE IcmpdParams -----------------------------
(* The bounds of Icmpd.                                                    *)
EXTENDS Naturals, FiniteSets

CONSTANTS
  Users,        \* processes that call ss()
  FD_SETSIZE,   \* slots of client[]
  MaxIcmp       \* ICMP messages that arrive

ASSUME IcmpdAssumption == IsFiniteSet(Users) /\ FD_SETSIZE \in Nat \ {0} /\ MaxIcmp \in Nat
=============================================================================
