------------------------- MODULE BoundedQueueProofs -------------------------
(* For every capacity and every set of threads: the ring buffer keeps its     *)
(* types, its indices stay consistent, it implements the FIFO channel, and no *)
(* sleeper is left behind.                                                    *)
EXTENDS BoundedQueue, SequenceTheorems, FiniteSetTheorems, TLAPS

(* tail is len slots after head, and every slot between them was written.     *)
RingOK ==
    /\ tail = (head + len) % Capacity
    /\ \A i \in 1..len : buf[(head + i - 1) % Capacity] \in Items

Inv == TypeOK /\ RingOK

USE CapacityAssumption, MaxPublishAssumption DEF Slots, Full, Empty, Accepting, Drained

(* An index that ran past the end of the ring wraps at most once.             *)
LEMMA Wrap == \A x \in 0..(2 * Capacity - 1) :
                  x % Capacity = IF x < Capacity THEN x ELSE x - Capacity
<1>1. \A x \in 0..(Capacity - 1) : x % Capacity = x
  OBVIOUS
<1>2. \A x \in Capacity..(2 * Capacity - 1) : x % Capacity = x - Capacity
  OBVIOUS
<1> QED BY <1>1, <1>2

(* Init establishes the invariant: an empty ring has no live slot.            *)
LEMMA InitInv == Init => Inv
<1> SUFFICES ASSUME Init PROVE Inv
  OBVIOUS
<1>1. 0 % Capacity = 0
  BY Wrap
<1>2. TypeOK
  BY DEF Init, TypeOK
<1>3. RingOK
  BY <1>1 DEF Init, RingOK
<1> QED BY <1>2, <1>3 DEF Inv

(* Storing at tail extends the live region by one written slot and moves no   *)
(* other live slot, because the region is not yet the whole ring.             *)
LEMMA StoreInv ==
  ASSUME Inv, NEW p \in Producers, PublishStores(p)
  PROVE  /\ Inv'
         /\ Contents' = Append(Contents, <<p, calls[p] + 1>>)
<1> DEFINE item == <<p, calls[p] + 1>>
<1>1. item \in Items /\ calls[p] + 1 \in 1..MaxPublish
  BY DEF Inv, TypeOK, PublishStores, Publishing, Items
<1>2. len < Capacity /\ len \in Nat /\ len' = len + 1 /\ head' = head /\ head \in Slots /\ tail \in Slots
  BY DEF Inv, TypeOK, PublishStores
<1>3. buf' = [buf EXCEPT ![tail] = item] /\ tail' = (tail + 1) % Capacity /\ tail = (head + len) % Capacity
  BY DEF PublishStores, Inv, RingOK
<1>4. TypeOK'
  <2>1. asleep' \subseteq Threads
    BY DEF PublishStores, Signal, Inv, TypeOK
  <2>2. tail' \in Slots
    BY <1>2, <1>3, Wrap
  <2>3. calls' \in [Producers -> 0..MaxPublish]
    BY <1>1 DEF PublishStores, Inv, TypeOK
  <2>4. buf' \in [Slots -> Items \cup {Undefined}]
    BY <1>1, <1>3, <1>2 DEF Inv, TypeOK
  <2> QED BY <2>1, <2>2, <2>3, <2>4, <1>2 DEF PublishStores, Inv, TypeOK
<1>5. tail' = (head' + len') % Capacity
  BY <1>2, <1>3, Wrap
<1>6. \A i \in 1..len : (head + i - 1) % Capacity \in Slots /\ (head + i - 1) % Capacity # tail
  <2> TAKE i \in 1..len
  <2>1. head + i - 1 \in 0..(2 * Capacity - 1) /\ head + len \in 0..(2 * Capacity - 1)
    BY <1>2
  <2>2. (head + i - 1) % Capacity = IF head + i - 1 < Capacity THEN head + i - 1 ELSE head + i - 1 - Capacity
    BY <1>2, <2>1, Wrap
  <2>3. tail = IF head + len < Capacity THEN head + len ELSE head + len - Capacity
    <3>1. (head + len) % Capacity = IF head + len < Capacity THEN head + len ELSE head + len - Capacity
      BY <1>2, <2>1, Wrap
    <3> QED BY <3>1, <1>3
  <2> QED BY <2>1, <2>2, <2>3, <1>2
<1>7. \A i \in 1..len : buf'[(head' + i - 1) % Capacity] = buf[(head + i - 1) % Capacity]
  BY <1>2, <1>3, <1>6 DEF Inv, TypeOK
<1>8. buf'[(head' + len' - 1) % Capacity] = item
  BY <1>2, <1>3 DEF Inv, TypeOK
<1>9. RingOK'
  <2> SUFFICES ASSUME NEW i \in 1..len' PROVE buf'[(head' + i - 1) % Capacity] \in Items
    BY <1>5 DEF RingOK
  <2>1. CASE i = len'
    BY <2>1, <1>1, <1>8
  <2>2. CASE i # len'
    <3>1. i \in 1..len
      BY <1>2, <2>2
    <3> QED BY <3>1, <1>7 DEF Inv, RingOK
  <2> QED BY <2>1, <2>2
<1>10. Contents' = Append(Contents, item)
  <2>1. Contents' = [i \in 1..(len + 1) |-> buf'[(head' + i - 1) % Capacity]]
    BY <1>2 DEF Contents
  <2>2. Len(Contents) = len
    BY <1>2 DEF Contents
  <2>3. Append(Contents, item) = [i \in 1..(len + 1) |-> IF i = len + 1 THEN item ELSE Contents[i]]
    BY <1>2, <2>2 DEF Contents
  <2>4. \A i \in 1..(len + 1) : buf'[(head' + i - 1) % Capacity] = IF i = len + 1 THEN item ELSE Contents[i]
    <3> TAKE i \in 1..(len + 1)
    <3>1. CASE i = len + 1
      BY <3>1, <1>2, <1>8
    <3>2. CASE i # len + 1
      <4>1. i \in 1..len
        BY <3>2, <1>2
      <4> QED BY <4>1, <3>2, <1>7 DEF Contents
    <3> QED BY <3>1, <3>2
  <2> QED BY <2>1, <2>3, <2>4
<1> QED BY <1>4, <1>9, <1>10 DEF Inv

(* Taking at head removes the oldest item and leaves the rest in order.       *)
LEMMA TakeInv ==
  ASSUME Inv, NEW c \in Consumers, ConsumeTakes(c)
  PROVE  /\ Inv'
         /\ Contents # <<>>
         /\ Contents' = Tail(Contents)
         /\ consumed' = Append(consumed, Head(Contents))
<1>1. len \in 1..Capacity /\ len' = len - 1 /\ buf' = buf /\ tail' = tail /\ head \in Slots
      /\ head' = (head + 1) % Capacity
  BY DEF Inv, TypeOK, ConsumeTakes
<1>2. buf[head] \in Items /\ head = (head + 1 - 1) % Capacity
  <2>1. (head + 1 - 1) % Capacity = head
    BY <1>1, Wrap
  <2>2. buf[(head + 1 - 1) % Capacity] \in Items
    BY <1>1 DEF Inv, RingOK
  <2> QED BY <2>1, <2>2
<1>3. head' \in Slots
  BY <1>1, Wrap
<1>4. \A i \in 1..len' : (head' + i - 1) % Capacity = (head + (i + 1) - 1) % Capacity
  <2> TAKE i \in 1..len'
  <2>1. i \in Int /\ 1 <= i /\ i < len /\ head \in Int
    BY <1>1
  <2>2. head' = IF head + 1 < Capacity THEN head + 1 ELSE head + 1 - Capacity
    BY <1>1, Wrap
  <2>3. head' + i - 1 \in 0..(2 * Capacity - 1) /\ head + (i + 1) - 1 \in 0..(2 * Capacity - 1)
    BY <2>1, <2>2, <1>1
  <2>4. (head' + i - 1) % Capacity = IF head' + i - 1 < Capacity THEN head' + i - 1 ELSE head' + i - 1 - Capacity
    <3> DEFINE y == head'
    <3>0. y \in Int
      BY <1>3
    <3>1. y + i - 1 \in 0..(2 * Capacity - 1)
      BY <2>3
    <3> HIDE DEF y
    <3>2. (y + i - 1) % Capacity = IF y + i - 1 < Capacity THEN y + i - 1 ELSE y + i - 1 - Capacity
      BY <3>0, <3>1, <2>1, Wrap
    <3> QED BY <3>2 DEF y
  <2>5. (head + (i + 1) - 1) % Capacity = IF head + i < Capacity THEN head + i ELSE head + i - Capacity
    BY <2>1, <2>3, Wrap
  <2> QED BY <2>1, <2>2, <2>3, <2>4, <2>5, <1>1
<1>5. TypeOK'
  <2>1. asleep' \subseteq Threads
    BY DEF ConsumeTakes, Signal, Inv, TypeOK
  <2>2. consumed' \in Seq(Items)
    BY <1>2 DEF ConsumeTakes, Inv, TypeOK
  <2> QED BY <2>1, <2>2, <1>1, <1>3 DEF ConsumeTakes, Inv, TypeOK
<1>6. tail' = (head' + len') % Capacity
  BY <1>1, Wrap DEF Inv, RingOK
<1>7. \A i \in 1..len' : buf'[(head' + i - 1) % Capacity] \in Items
  <2> SUFFICES ASSUME NEW i \in 1..len' PROVE buf'[(head' + i - 1) % Capacity] \in Items
    OBVIOUS
  <2>1. i + 1 \in 1..len
    BY <1>1
  <2> QED BY <2>1, <1>1, <1>4 DEF Inv, RingOK
<1>8. Inv'
  BY <1>5, <1>6, <1>7 DEF Inv, RingOK
<1>9. Contents # <<>> /\ Head(Contents) = buf[head] /\ Contents \in Seq(Items)
  BY <1>1, <1>2 DEF Contents, Inv, RingOK
<1>10. Contents' = Tail(Contents)
  <2>1. Len(Contents) = len /\ Len(Contents') = len'
    BY <1>1 DEF Contents
  <2>2. Contents' \in Seq(Items)
    BY <1>1, <1>7 DEF Contents
  <2>3. /\ Tail(Contents) \in Seq(Items)
        /\ Len(Tail(Contents)) = Len(Contents) - 1
        /\ \A i \in 1..Len(Tail(Contents)) : Tail(Contents)[i] = Contents[i + 1]
    BY <1>9, HeadTailProperties
  <2>4. \A i \in 1..len' : Contents'[i] = Contents[i + 1]
    BY <1>1, <1>4 DEF Contents
  <2>5. \A i \in 1..Len(Contents') : Contents'[i] = Tail(Contents)[i]
    BY <1>1, <2>1, <2>3, <2>4
  <2> HIDE DEF Contents
  <2> QED BY <1>1, <2>1, <2>2, <2>3, <2>5, SeqEqual
<1> QED BY <1>8, <1>9, <1>10 DEF ConsumeTakes

(* The remaining steps leave the ring and the history alone.                  *)
LEMMA QuietInv ==
  ASSUME Inv,
         \/ \E p \in Producers : PublishBlocks(p) \/ PublishClosed(p)
         \/ \E c \in Consumers : ConsumeBlocks(c) \/ ConsumeNull(c)
         \/ close
         \/ \E t \in Threads : SpuriousWakeup(t)
         \/ UNCHANGED vars
  PROVE  Inv' /\ Contents' = Contents /\ consumed' = consumed /\ (closed' = closed \/ closed' = TRUE)
<1>1. UNCHANGED <<struct, consumed>>
  BY DEF PublishBlocks, PublishClosed, ConsumeBlocks, ConsumeNull, close, SpuriousWakeup, vars, struct
<1>2. Contents' = Contents
  BY <1>1 DEF Contents, struct
<1>3. RingOK'
  BY <1>1 DEF Inv, RingOK, struct
<1>4. closed' = closed \/ closed' = TRUE
  BY DEF PublishBlocks, PublishClosed, ConsumeBlocks, ConsumeNull, close, SpuriousWakeup, vars
<1>5. TypeOK'
  BY <1>1 DEF Inv, TypeOK, PublishBlocks, PublishClosed, ConsumeBlocks, ConsumeNull, close,
       SpuriousWakeup, vars, struct, Publishing, Consuming, Threads
<1> QED BY <1>1, <1>2, <1>3, <1>4, <1>5 DEF Inv

(* Every step keeps the invariant and is a step of the channel or a stutter.  *)
LEMMA NextInv == Inv /\ [Next]_vars => Inv' /\ [Channel!Next]_<<Contents, consumed, closed>>
<1> SUFFICES ASSUME Inv, [Next]_vars
             PROVE  Inv' /\ [Channel!Next]_<<Contents, consumed, closed>>
  OBVIOUS
<1>1. CASE \E p \in Producers : PublishStores(p)
  <2> PICK p \in Producers : PublishStores(p)
    BY <1>1
  <2>1. Inv' /\ Contents' = Append(Contents, <<p, calls[p] + 1>>)
    BY StoreInv
  <2>2. Len(Contents) < Capacity
    BY DEF PublishStores, Contents, Inv, TypeOK
  <2>3. <<p, calls[p] + 1>> \in Items
    BY DEF PublishStores, Publishing, Items, Inv, TypeOK
  <2>4. Channel!Put(<<p, calls[p] + 1>>)
    BY <2>1, <2>2 DEF Channel!Put, PublishStores
  <2> QED BY <2>1, <2>3, <2>4 DEF Channel!Next
<1>2. CASE \E c \in Consumers : ConsumeTakes(c)
  <2> PICK c \in Consumers : ConsumeTakes(c)
    BY <1>2
  <2>1. Channel!Get
    BY TakeInv DEF Channel!Get, ConsumeTakes
  <2> QED BY <2>1, TakeInv DEF Channel!Next
<1>3. CASE \/ \E p \in Producers : PublishBlocks(p) \/ PublishClosed(p)
           \/ \E c \in Consumers : ConsumeBlocks(c) \/ ConsumeNull(c)
           \/ close
           \/ \E t \in Threads : SpuriousWakeup(t)
           \/ UNCHANGED vars
  BY <1>3, QuietInv DEF Channel!Next, Channel!Shut
<1> QED BY <1>1, <1>2, <1>3 DEF Next, publish, consume

(* Type correctness, with the ring's indices: head, tail and len always       *)
(* delimit written slots, so consume never returns undefined memory.          *)
THEOREM TypeCorrect == Spec => []TypeOK
<1>1. Inv => TypeOK
  BY DEF Inv
<1> QED BY InitInv, NextInv, <1>1, PTL DEF Spec

(* bus.zig's ring buffer implements the closable bounded FIFO channel for     *)
(* every capacity and every number of threads.                                *)
THEOREM RingImplementsFifo == Spec => ImplementsFifo
<1>1. Init => Channel!Init
  BY DEF Init, Channel!Init, Contents
<1> QED BY InitInv, NextInv, <1>1, PTL DEF Spec, ImplementsFifo, Channel!Spec

-----------------------------------------------------------------------------
(* Wakeups.  That some producer is awake while a slot is free is not          *)
(* inductive: it may be about to return from its last call.  What is: as long *)
(* as a producer sleeps, each free slot has an awake producer of its own.     *)

AwakeProducers == {p \in Producers : Publishing(p)}

(* Whoever sleeps is inside a call.                                           *)
AsleepInCall ==
    /\ asleep \cap finished = {}
    /\ \A p \in asleep \cap Producers : calls[p] < MaxPublish
ConsumerAwake == len > 0 /\ asleep \cap Consumers # {} => \E c \in Consumers : Consuming(c)
SlotsCovered == asleep \cap Producers # {} => Cardinality(AwakeProducers) >= Capacity - len
ClosedAwake == closed => asleep = {}
WakeInv == AsleepInCall /\ ConsumerAwake /\ SlotsCovered /\ ClosedAwake

(* Init establishes it: nobody sleeps.                                        *)
LEMMA WakeInit == Init => WakeInv
BY DEF Init, WakeInv, AsleepInCall, ConsumerAwake, SlotsCovered, ClosedAwake

(* The producers awake are finitely many, and more of them cover more.        *)
LEMMA AwakeFinite == IsFiniteSet(AwakeProducers) /\ Cardinality(AwakeProducers) \in Nat
<1>1. IsFiniteSet(AwakeProducers)
  BY ThreadsAssumption, FS_Subset DEF AwakeProducers
<1> QED
  BY <1>1, FS_CardinalityType

LEMMA AwakeFiniteNext == IsFiniteSet(AwakeProducers') /\ Cardinality(AwakeProducers') \in Nat
<1>1. AwakeProducers' \in SUBSET Producers
  BY DEF AwakeProducers
<1>2. IsFiniteSet(AwakeProducers')
  BY <1>1, ThreadsAssumption, FS_Subset
<1> QED
  BY <1>2, FS_CardinalityType

LEMMA MoreAwake ==
    ASSUME AwakeProducers \subseteq AwakeProducers'
    PROVE  Cardinality(AwakeProducers) <= Cardinality(AwakeProducers')
BY AwakeFiniteNext, FS_Subset

(* A store uses up one slot and at most one awake producer.                   *)
LEMMA StoreWakes ==
    ASSUME TypeOK, WakeInv, NEW p \in Producers, PublishStores(p)
    PROVE  WakeInv'
<1>1. asleep' \cap Producers = asleep \cap Producers /\ asleep' \subseteq asleep
  BY ThreadsAssumption DEF PublishStores, Signal
<1>2. AsleepInCall'
  BY <1>1 DEF WakeInv, AsleepInCall, PublishStores, Publishing, TypeOK
<1>3. ConsumerAwake'
  <2>1. CASE asleep \cap Consumers = {}
    BY <1>1, <2>1 DEF ConsumerAwake
  <2>2. CASE asleep \cap Consumers # {}
    <3>1. PICK c \in asleep \cap Consumers : asleep' = asleep \ {c}
      BY <2>2 DEF PublishStores, Signal
    <3>2. Consuming(c)'
      BY <3>1 DEF WakeInv, AsleepInCall, Consuming, PublishStores
    <3> QED
      BY <3>1, <3>2 DEF ConsumerAwake
  <2> QED
    BY <2>1, <2>2
<1>4. SlotsCovered'
  <2> SUFFICES ASSUME asleep \cap Producers # {}
               PROVE  Cardinality(AwakeProducers') >= Capacity - len'
    BY <1>1 DEF SlotsCovered
  <2>1. Cardinality(AwakeProducers) >= Capacity - len
    BY DEF WakeInv, SlotsCovered
  <2>2. p \in AwakeProducers
    BY DEF AwakeProducers, PublishStores
  <2>3. Cardinality(AwakeProducers \ {p}) = Cardinality(AwakeProducers) - 1
    BY <2>2, AwakeFinite, FS_RemoveElement
  <2>4. AwakeProducers \ {p} \in SUBSET AwakeProducers'
    BY <1>1 DEF AwakeProducers, PublishStores, Publishing, TypeOK
  <2>5. Cardinality(AwakeProducers \ {p}) <= Cardinality(AwakeProducers')
    BY <2>4, AwakeFiniteNext, FS_Subset
  <2>6. len' = len + 1 /\ len \in Nat
    BY DEF PublishStores, TypeOK
  <2> QED
    BY <2>1, <2>3, <2>5, <2>6, AwakeFinite, AwakeFiniteNext
<1>5. ClosedAwake'
  BY DEF PublishStores, ClosedAwake
<1> QED
  BY <1>2, <1>3, <1>4, <1>5 DEF WakeInv

(* A take frees one slot and wakes one producer for it, if one sleeps.        *)
LEMMA TakeWakes ==
    ASSUME TypeOK, WakeInv, NEW c \in Consumers, ConsumeTakes(c)
    PROVE  WakeInv'
<1>1. asleep' \subseteq asleep
  BY DEF ConsumeTakes, Signal
<1>2. AsleepInCall'
  BY <1>1 DEF WakeInv, AsleepInCall, ConsumeTakes
<1>3. ConsumerAwake'
  BY <1>1 DEF ConsumerAwake, Consuming, ConsumeTakes
<1>4. SlotsCovered'
  <2> SUFFICES ASSUME asleep' \cap Producers # {}
               PROVE  Cardinality(AwakeProducers') >= Capacity - len'
    BY DEF SlotsCovered
  <2>1. PICK t \in asleep \cap Producers : asleep' = asleep \ {t}
    BY <1>1 DEF ConsumeTakes, Signal
  <2>2. t \notin AwakeProducers /\ calls[t] < MaxPublish
    BY DEF AwakeProducers, Publishing, WakeInv, AsleepInCall
  <2>3. AwakeProducers' = AwakeProducers \cup {t}
    BY <2>1, <2>2 DEF AwakeProducers, Publishing, ConsumeTakes
  <2>4. Cardinality(AwakeProducers') = Cardinality(AwakeProducers) + 1
    BY <2>2, <2>3, AwakeFinite, FS_AddElement
  <2>5. Cardinality(AwakeProducers) >= Capacity - len
    BY <2>1 DEF WakeInv, SlotsCovered
  <2>6. len' = len - 1 /\ len \in Nat
    BY DEF ConsumeTakes, TypeOK
  <2> QED
    BY <2>4, <2>5, <2>6, AwakeFinite
<1>5. ClosedAwake'
  BY <1>1 DEF ConsumeTakes, WakeInv, ClosedAwake
<1> QED
  BY <1>2, <1>3, <1>4, <1>5 DEF WakeInv

(* A producer goes to sleep only when no slot is free, a consumer only when   *)
(* no item is stored, and neither on a closed queue.                          *)
LEMMA WakeStep == TypeOK /\ WakeInv /\ [Next]_vars => WakeInv'
<1> SUFFICES ASSUME TypeOK, WakeInv, [Next]_vars PROVE WakeInv'
  OBVIOUS
<1>1. ASSUME NEW p \in Producers, PublishBlocks(p) PROVE WakeInv'
  <2>1. AsleepInCall'
    BY <1>1, ThreadsAssumption DEF PublishBlocks, Publishing, WakeInv, AsleepInCall, TypeOK
  <2>2. ConsumerAwake'
    BY <1>1, ThreadsAssumption DEF PublishBlocks, WakeInv, ConsumerAwake, Consuming, struct
  <2>3. SlotsCovered'
    BY <1>1, AwakeFiniteNext DEF PublishBlocks, SlotsCovered, struct
  <2>4. ClosedAwake'
    BY <1>1 DEF PublishBlocks, ClosedAwake
  <2> QED
    BY <2>1, <2>2, <2>3, <2>4 DEF WakeInv
<1>2. ASSUME NEW p \in Producers, PublishClosed(p) PROVE WakeInv'
  BY <1>2 DEF PublishClosed, WakeInv, AsleepInCall, ConsumerAwake, SlotsCovered, ClosedAwake
<1>3. ASSUME NEW c \in Consumers, ConsumeBlocks(c) PROVE WakeInv'
  <2>1. asleep' \cap Producers = asleep \cap Producers /\ AwakeProducers' = AwakeProducers
    BY <1>3, ThreadsAssumption DEF ConsumeBlocks, AwakeProducers, Publishing
  <2>2. AsleepInCall' /\ ClosedAwake'
    BY <1>3, <2>1 DEF ConsumeBlocks, Consuming, WakeInv, AsleepInCall, ClosedAwake
  <2>3. ConsumerAwake'
    BY <1>3 DEF ConsumeBlocks, ConsumerAwake, struct
  <2>4. SlotsCovered'
    BY <1>3, <2>1 DEF ConsumeBlocks, WakeInv, SlotsCovered, struct
  <2> QED
    BY <2>2, <2>3, <2>4 DEF WakeInv
<1>4. ASSUME NEW c \in Consumers, ConsumeNull(c) PROVE WakeInv'
  BY <1>4 DEF ConsumeNull, WakeInv, AsleepInCall, ConsumerAwake, SlotsCovered, ClosedAwake
<1>5. CASE close
  BY <1>5 DEF close, WakeInv, AsleepInCall, ConsumerAwake, SlotsCovered, ClosedAwake
<1>6. ASSUME NEW t \in Threads, SpuriousWakeup(t) PROVE WakeInv'
  <2>1. AwakeProducers \subseteq AwakeProducers' /\ asleep' \subseteq asleep
    BY <1>6 DEF SpuriousWakeup, AwakeProducers, Publishing
  <2>2. AsleepInCall' /\ ClosedAwake'
    BY <1>6, <2>1 DEF SpuriousWakeup, WakeInv, AsleepInCall, ClosedAwake
  <2>3. ConsumerAwake'
    BY <1>6, <2>1 DEF SpuriousWakeup, WakeInv, ConsumerAwake, Consuming, struct
  <2>4. SlotsCovered'
    <3>1. asleep' \cap Producers # {} => Cardinality(AwakeProducers) >= Capacity - len
      BY <2>1 DEF WakeInv, SlotsCovered
    <3>2. len' = len /\ len \in Nat
      BY <1>6 DEF SpuriousWakeup, struct, TypeOK
    <3> QED
      BY <2>1, <3>1, <3>2, MoreAwake, AwakeFinite, AwakeFiniteNext DEF SlotsCovered
  <2> QED
    BY <2>2, <2>3, <2>4 DEF WakeInv
<1>7. CASE UNCHANGED vars
  <2>1. AwakeProducers' = AwakeProducers
    BY <1>7 DEF vars, AwakeProducers, Publishing
  <2> QED
    BY <1>7, <2>1 DEF vars, WakeInv, AsleepInCall, ConsumerAwake, Consuming, SlotsCovered, ClosedAwake
<1> QED
  BY <1>1, <1>2, <1>3, <1>4, <1>5, <1>6, <1>7, StoreWakes, TakeWakes DEF Next, publish, consume

(* No wakeup is lost, for every capacity and any number of threads, spurious  *)
(* wakeups included: the single signal of a store or a take is enough.        *)
THEOREM NobodyStranded == Spec => []NoStrandedSleeper
<1>1. TypeOK /\ WakeInv => NoStrandedSleeper
  <2> SUFFICES ASSUME TypeOK, WakeInv PROVE NoStrandedSleeper
    OBVIOUS
  <2>1. ASSUME len < Capacity, asleep \cap Producers # {} PROVE \E p \in Producers : Publishing(p)
    <3>1. Cardinality(AwakeProducers) >= Capacity - len /\ len \in Nat
      BY <2>1 DEF WakeInv, SlotsCovered, TypeOK
    <3>2. Cardinality(AwakeProducers) # 0
      BY <2>1, <3>1, AwakeFinite
    <3>3. AwakeProducers # {}
      BY <3>2, FS_EmptySet
    <3> QED
      BY <3>3 DEF AwakeProducers
  <2> QED
    BY <2>1 DEF WakeInv, ConsumerAwake, ClosedAwake, NoStrandedSleeper
<1> QED
  BY <1>1, TypeCorrect, WakeInit, WakeStep, PTL DEF Spec
=============================================================================
