---------------------------- MODULE BoundedQueue ----------------------------
(* The blocking ring buffer of src/src/bus.zig that carries inbound messages, *)
(* outbound messages and delivery outcomes between the channel threads, the   *)
(* agent and the dispatcher.  Every operation is one critical section of the  *)
(* queue's mutex; waiting on a condition releases it, so a blocked call is a  *)
(* state between two critical sections of the same call.                      *)
EXTENDS Integers, Sequences, FiniteSets

CONSTANTS
    Producers,      \* threads that call publish
    Consumers,      \* threads that call consume until it returns null
    Capacity,       \* the comptime capacity of the queue
    MaxPublish      \* bound: calls of publish each producer makes

ASSUME ThreadsAssumption == Producers \cap Consumers = {} /\ IsFiniteSet(Producers)
ASSUME CapacityAssumption == Capacity \in Nat \ {0}
ASSUME MaxPublishAssumption == MaxPublish \in Nat

(* An item is named by its producer and the number of that producer's call.   *)
Items == Producers \X (1..MaxPublish)

Threads == Producers \cup Consumers
Slots == 0..(Capacity - 1)
Undefined == <<"undefined", 0>>     \* what an unwritten slot holds

VARIABLES
    buf, head, tail, len, closed,   \* the fields of the struct
    asleep,         \* threads waiting on not_full (producers) or not_empty (consumers)
    calls,          \* calls[p]: calls of publish that have returned
    finished,       \* consumers whose last call returned null
    consumed        \* history: the items consume returned, in order

struct == <<buf, head, tail, len>>
vars == <<buf, head, tail, len, closed, asleep, calls, finished, consumed>>

Init ==
    /\ buf = [i \in Slots |-> Undefined]
    /\ head = 0 /\ tail = 0 /\ len = 0
    /\ closed = FALSE
    /\ asleep = {}
    /\ calls = [p \in Producers |-> 0]
    /\ finished = {}
    /\ consumed = <<>>

(* The tests the two wait loops make.                                         *)
Full == len = Capacity
Empty == len = 0

(* What the calls test once they are past their loop.                         *)
MutantAccepting == ~Full                \* publish forgets to test closed
Accepting == ~Full /\ ~closed
MutantDrained == closed                 \* consume returns null before the queue is empty
Drained == Empty /\ closed

MutantSignal(class) == asleep' = asleep \* the signal is missing
(* Condition.signal: one sleeper of the class wakes, if there is one.         *)
Signal(class) ==
    IF asleep \cap class = {} THEN asleep' = asleep
    ELSE \E t \in asleep \cap class : asleep' = asleep \ {t}

Publishing(p) == p \notin asleep /\ calls[p] < MaxPublish

PublishBlocks(p) ==
    /\ Publishing(p)
    /\ Full /\ ~closed
    /\ asleep' = asleep \cup {p}
    /\ UNCHANGED <<struct, closed, calls, finished, consumed>>

PublishClosed(p) ==
    /\ Publishing(p)
    /\ closed
    /\ calls' = [calls EXCEPT ![p] = @ + 1]
    /\ UNCHANGED <<struct, closed, asleep, finished, consumed>>

PublishStores(p) ==
    /\ Publishing(p)
    /\ Accepting
    /\ buf' = [buf EXCEPT ![tail] = <<p, calls[p] + 1>>]
    /\ tail' = (tail + 1) % Capacity
    /\ len' = len + 1
    /\ Signal(Consumers)
    /\ calls' = [calls EXCEPT ![p] = @ + 1]
    /\ UNCHANGED <<head, closed, finished, consumed>>

publish(p) == PublishBlocks(p) \/ PublishClosed(p) \/ PublishStores(p)

Consuming(c) == c \notin asleep /\ c \notin finished

ConsumeBlocks(c) ==
    /\ Consuming(c)
    /\ Empty /\ ~closed
    /\ asleep' = asleep \cup {c}
    /\ UNCHANGED <<struct, closed, calls, finished, consumed>>

ConsumeNull(c) ==
    /\ Consuming(c)
    /\ Drained
    /\ finished' = finished \cup {c}
    /\ UNCHANGED <<struct, closed, asleep, calls, consumed>>

ConsumeTakes(c) ==
    /\ Consuming(c)
    /\ ~Empty
    /\ consumed' = Append(consumed, buf[head])
    /\ head' = (head + 1) % Capacity
    /\ len' = len - 1
    /\ Signal(Producers)
    /\ UNCHANGED <<buf, tail, closed, calls, finished>>

consume(c) == ConsumeBlocks(c) \/ ConsumeNull(c) \/ ConsumeTakes(c)

MutantClose ==                          \* nobody is woken
    /\ ~closed
    /\ closed' = TRUE
    /\ UNCHANGED <<struct, asleep, calls, finished, consumed>>
(* close wakes every sleeper of both conditions.                              *)
close ==
    /\ ~closed
    /\ closed' = TRUE
    /\ asleep' = {}
    /\ UNCHANGED <<struct, calls, finished, consumed>>

(* Condition.wait may also return without a signal.                           *)
SpuriousWakeup(t) ==
    /\ t \in asleep
    /\ asleep' = asleep \ {t}
    /\ UNCHANGED <<struct, closed, calls, finished, consumed>>

Next ==
    \/ \E p \in Producers : publish(p)
    \/ \E c \in Consumers : consume(c)
    \/ close
    \/ \E t \in Threads : SpuriousWakeup(t)

(* A thread that is awake and inside a call eventually gets the mutex.        *)
Fairness ==
    /\ \A p \in Producers : WF_vars(publish(p))
    /\ \A c \in Consumers : WF_vars(consume(c))

Spec == Init /\ [][Next]_vars /\ Fairness

-----------------------------------------------------------------------------

(* Type correctness: the indices stay inside the ring, len never passes its   *)
(* capacity, and consume returns items and never an unwritten slot.           *)
TypeOK ==
    /\ buf \in [Slots -> Items \cup {Undefined}]
    /\ head \in Slots /\ tail \in Slots /\ len \in 0..Capacity
    /\ closed \in BOOLEAN
    /\ asleep \subseteq Threads
    /\ calls \in [Producers -> 0..MaxPublish]
    /\ finished \subseteq Consumers
    /\ consumed \in Seq(Items)

(* The live region of the ring, oldest first.                                 *)
Contents == [i \in 1..len |-> buf[(head + i - 1) % Capacity]]

Channel == INSTANCE FifoChannel
    WITH queue <- Contents, taken <- consumed, shut <- closed

(* The ring buffer implements the closable bounded FIFO channel: no item is   *)
(* lost, duplicated, overtaken, or accepted after close.                      *)
ImplementsFifo == Channel!Spec

(* No lost wakeup: while an item is stored and a consumer sleeps, some        *)
(* consumer is awake and on its way to the mutex; dually for free slots and   *)
(* producers; and nobody sleeps on a closed queue.                            *)
NoStrandedSleeper ==
    /\ (len > 0 /\ asleep \cap Consumers # {}) => \E c \in Consumers : Consuming(c)
    /\ (len < Capacity /\ asleep \cap Producers # {}) => \E p \in Producers : Publishing(p)
    /\ closed => asleep = {}

(* Every consumer call returns: once the queue is closed each consumer sees   *)
(* null, which it does only after every stored item was taken.                *)
CloseDrains == closed ~> (finished = Consumers /\ len = 0)

(* A stored item is eventually returned by consume.                           *)
EveryItemDelivered ==
    \A i \in Items :
        (\E k \in 1..len : Contents[k] = i) ~> (\E k \in 1..Len(consumed) : consumed[k] = i)

=============================================================================
