----------------------------- MODULE WebParams ------------------------------
(* The parameters of WebClient.                                            *)
EXTENDS Naturals

CONSTANTS
  nfiles,     \* files to fetch, at most MAXFILES
  maxnconn    \* the first command line argument

ASSUME WebAssumption == nfiles \in Nat \ {0} /\ maxnconn \in Nat \ {0}
=============================================================================
