---------------------------- MODULE FifoChannel -----------------------------
(* What a queue of the bus promises its users: a bounded first-in first-out   *)
(* channel that can be closed, after which nothing more is accepted and what  *)
(* was accepted is still delivered.                                           *)
EXTENDS Integers, Sequences

CONSTANTS Items, Capacity

VARIABLES
    queue,      \* accepted and not yet delivered, oldest first
    taken,      \* delivered, in order of delivery
    shut        \* the channel is closed

Init == queue = <<>> /\ taken = <<>> /\ shut = FALSE

Put(i) ==
    /\ ~shut
    /\ Len(queue) < Capacity
    /\ queue' = Append(queue, i)
    /\ UNCHANGED <<taken, shut>>

Get ==
    /\ queue # <<>>
    /\ queue' = Tail(queue)
    /\ taken' = Append(taken, Head(queue))
    /\ UNCHANGED shut

Shut ==
    /\ shut' = TRUE
    /\ UNCHANGED <<queue, taken>>

Next == (\E i \in Items : Put(i)) \/ Get \/ Shut

Spec == Init /\ [][Next]_<<queue, taken, shut>>

=============================================================================
