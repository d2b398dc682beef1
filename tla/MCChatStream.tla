----------------------------- MODULE MCChatStream -----------------------------
(* Instances of ChatStream.                                                   *)
EXTENDS ChatStream
=============================================================================
