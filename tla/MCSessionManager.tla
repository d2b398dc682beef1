-------------------------- MODULE MCSessionManager --------------------------
(* Instances of SessionManager: which kinds of threads there are is what      *)
(* tells the runs apart.                                                      *)
EXTENDS SessionManager, TLC

Symmetry == Permutations(Keys) \cup Permutations(Objects) \cup Permutations(Turns)
=============================================================================
