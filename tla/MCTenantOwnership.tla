-------------------------- MODULE MCTenantOwnership --------------------------
(* Two instances; one of them asks twice, or asks again after it was started  *)
(* again.                                                                     *)
EXTENDS TenantOwnership, TLC
FileSymmetry == Permutations(Files)
MCCalls == {<<"a", 1>>, <<"a", 2>>, <<"b", 1>>}
=============================================================================
