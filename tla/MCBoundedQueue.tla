--------------------------- MODULE MCBoundedQueue ---------------------------
(* Three producers, two consumers and a two-slot ring: both conditions block, *)
(* several threads sleep on the same condition, the indices wrap, and close   *)
(* races every call.                                                          *)
EXTENDS BoundedQueue
=============================================================================
