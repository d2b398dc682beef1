---------------------------- MODULE MCOperatorScripts --------------------------
(* One more message from the mapped identity, delivered with the update_id of *)
(* the script's own, and one more edit of the binding.                        *)
EXTENDS OperatorScripts, TLC

CONSTANTS traffic, other, theirs, ours, u1

MCStrictSettings == {{}, {"telegram", "slack"}}
MCIdOf == Mapped :> ours @@ Unmapped :> theirs @@ traffic :> ours
MCUserOf == [w \in Deliveries |-> u1]
MCUpdateOf == Mapped :> 1 @@ Unmapped :> 2 @@ traffic :> 1
MCEditOf == Binding :> [kind |-> "upsert", id |-> ours, user |-> u1]
            @@ other :> [kind |-> "delete", id |-> ours, user |-> u1]

(* Two load requests with a probe or without, and a probe that asks twice.    *)
MCCommandLines ==
    [users : {2}, requests : {0}, workers : {0, 1}, probe_count : {0, 1}, capture : {TRUE}]
    \cup [users : {2}, requests : {1}, workers : {0}, probe_count : {2}, capture : {FALSE}]
MCLatencies == {20000, 23001, 23002}
=============================================================================
