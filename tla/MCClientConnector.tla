-------------------------- MODULE MCClientConnector --------------------------
(* Instances of ClientConnector for TLC.  Threads, structures and keys are    *)
(* interchangeable, which the runs without liveness use.                      *)
EXTENDS ClientConnector, TLC

Symmetry == Permutations(Senders) \cup Permutations(Clients) \cup Permutations(Keys)
==============================================================================
