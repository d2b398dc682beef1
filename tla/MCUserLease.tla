----------------------------- MODULE MCUserLease -----------------------------
(* Two instances, one of which has two requests or is started again.          *)
EXTENDS UserLease
MCCalls == {<<"a", 1>>, <<"a", 2>>, <<"b", 1>>}
=============================================================================
