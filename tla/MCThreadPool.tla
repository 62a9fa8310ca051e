--------------------------- MODULE MCThreadPool ----------------------------
(* Instances of ThreadPool for TLC; the bounds are in the configurations.  *)
EXTENDS ThreadPool
=============================================================================
