------------------------ MODULE SessionManagerProofs ------------------------
(* Theorems about SessionManager for any number of keys, sessions and         *)
(* threads.  The first part holds of the code as it is; the second, that no   *)
(* thread touches a freed session, of the threads that pin or lock what they  *)
(* use, beside deletes and beside purges, which check the pins again.         *)
EXTENDS SessionManager, FiniteSetTheorems, TLAPS

(* Init is well typed.                                                        *)
LEMMA InitType == Init => TypeOK
<1> SUFFICES ASSUME Init PROVE TypeOK
  OBVIOUS
<1>1. worker \in [Objects -> BOOLEAN] /\ crashed \in BOOLEAN
  BY Zenon DEF Init
<1>2. active_refs \in [Objects -> Nat]
  BY DEF Init
<1>3. candidates \in [Evictors -> SUBSET Objects] /\ to_remove \in [Evictors -> SUBSET Objects]
  BY DEF Init
<1> QED
  BY <1>1, <1>2, <1>3 DEF Init, TypeOK

(* Dropping a pin leaves a natural number.                                    *)
LEMMA DropType ==
    ASSUME TypeOK, NEW t \in Threads, NEW o, o = ptr[t]
    PROVE  DropRef(o) \in [Objects -> Nat]
<1>1. \A p \in Objects : (IF active_refs[p] > 0 THEN active_refs[p] - 1 ELSE active_refs[p]) \in Nat
  BY DEF TypeOK
<1> QED
  BY <1>1 DEF TypeOK, DropRef

(* The steps of turns and cancels keep the types.                             *)
LEMMA TurnType ==
    ASSUME TypeOK, NEW t \in Turns, TurnStep(t)
    PROVE  TypeOK'
<1> USE DEF TypeOK, Pinners, Evictors, Threads, evict, stop, Goto, Return, At, Starts
<1>1. ASSUME NEW k \in Keys, getOrCreateInternal(t, k) PROVE TypeOK'
  <2>1. CASE FindSession(t, k)
    BY <1>1, <2>1 DEF getOrCreateInternal, FindSession, Retained
  <2>2. CASE CreateSession(t, k)
    BY <1>1, <2>2 DEF getOrCreateInternal, CreateSession, Retained
  <2> QED
    BY <1>1, <2>1, <2>2 DEF getOrCreateInternal
<1>2. ASSUME LockSession(t) PROVE TypeOK'
  BY <1>2 DEF LockSession
<1>3. ASSUME TurnedAway(t) PROVE TypeOK'
  BY <1>3 DEF TurnedAway
<1>4. ASSUME SpawnWorker(t) PROVE TypeOK'
  BY <1>4 DEF SpawnWorker
<1>5. ASSUME UnlockSession(t) PROVE TypeOK'
  BY <1>5 DEF UnlockSession
<1>6. ASSUME releaseSessionRef(t) PROVE TypeOK'
  BY <1>6, DropType DEF releaseSessionRef
<1> QED
  BY <1>1, <1>2, <1>3, <1>4, <1>5, <1>6 DEF TurnStep

(* The steps of the read routes and of the probes keep the types.             *)
LEMMA ReaderType ==
    ASSUME TypeOK,
           \/ \E t \in Cancels : CancelStep(t)
           \/ \E t \in Peekers : PeekStep(t)
           \/ \E t \in Probes : ProbeStep(t)
    PROVE  TypeOK'
<1> USE DEF TypeOK, Pinners, Evictors, Threads, evict, stop, Goto, Return, At, Starts
<1>1. ASSUME NEW t \in Cancels, NEW k \in Keys, CancelPin(t, k) PROVE TypeOK'
  BY <1>1 DEF CancelPin
<1>2. ASSUME NEW t \in Cancels, CancelUnpin(t) PROVE TypeOK'
  BY <1>2, DropType DEF CancelUnpin
<1>3. ASSUME NEW t \in Peekers, NEW k \in Keys, PeekFind(t, k) PROVE TypeOK'
  BY <1>3 DEF PeekFind
<1>4. ASSUME NEW t \in Peekers, PeekLock(t) PROVE TypeOK'
  BY <1>4 DEF PeekLock
<1>5. ASSUME NEW t \in Peekers \cup Probes, UnlockSession(t) PROVE TypeOK'
  BY <1>5 DEF UnlockSession
<1>6. ASSUME NEW t \in Probes, NEW k \in Keys, getOrCreateInternal(t, k) PROVE TypeOK'
  <2>1. CASE FindSession(t, k)
    BY <1>6, <2>1 DEF getOrCreateInternal, FindSession, Retained
  <2>2. CASE CreateSession(t, k)
    BY <1>6, <2>2 DEF getOrCreateInternal, CreateSession, Retained
  <2> QED
    BY <1>6, <2>1, <2>2 DEF getOrCreateInternal
<1>7. ASSUME NEW t \in Probes, LockSession(t) PROVE TypeOK'
  BY <1>7 DEF LockSession
<1> QED
  BY <1>1, <1>2, <1>3, <1>4, <1>5, <1>6, <1>7 DEF CancelStep, PeekStep, ProbeStep

(* So does freeing a set of sessions.                                         *)
LEMMA FreeType ==
    ASSUME TypeOK, NEW gone, Free(gone), DeinitWaits(gone), sessions' = sessions \/ Unmap(gone)
    PROVE  /\ phase' \in [Objects -> {"unborn", "live", "freed", "leaked"}]
           /\ worker' \in [Objects -> BOOLEAN]
           /\ sessions' \in [Keys -> Objects \cup {None}]
<1>1. phase' \in [Objects -> {"unborn", "live", "freed", "leaked"}]
  BY DEF TypeOK, Free
<1>2. worker' \in [Objects -> BOOLEAN]
  BY Zenon DEF TypeOK, DeinitWaits
<1>3. sessions' \in [Keys -> Objects \cup {None}]
  BY DEF TypeOK, Unmap
<1> QED
  BY <1>1, <1>2, <1>3

(* The steps of sweeps, purges and deletes keep the types.                    *)
LEMMA EvictType ==
    ASSUME TypeOK,
           \/ \E e \in Sweepers : SweepStep(e)
           \/ \E e \in Purgers : PurgeStep(e)
           \/ \E d \in Deleters : DeleteStep(d)
    PROVE  TypeOK'
<1> USE DEF TypeOK, Pinners, Evictors, Threads, evict, stop, Goto, Return, At, Starts
<1>1. ASSUME NEW e \in Evictors, NEW found \in SUBSET Evictable, Collect(e, found) PROVE TypeOK'
  BY <1>1 DEF Collect, Evictable, Mapped
<1>2. ASSUME NEW e \in Sweepers, NEW o \in Objects, SweepCheckpoint(e, o) PROVE TypeOK'
  BY <1>2 DEF SweepCheckpoint, Visited
<1>3. ASSUME NEW e \in Sweepers, NEW o \in Objects, SweepDefer(e, o) PROVE TypeOK'
  BY <1>3 DEF SweepDefer, Visited
<1>4. ASSUME NEW e \in Sweepers, SweepBail(e) \/ SweepVisit(e) PROVE TypeOK'
  BY <1>4 DEF SweepBail, SweepVisit
<1>5. ASSUME NEW e \in Evictors, NEW gone, Remove(e, gone) PROVE TypeOK'
  BY <1>5, FreeType DEF Remove
<1>6. ASSUME NEW e \in Purgers, PurgeUnlock(e) PROVE TypeOK'
  BY <1>6 DEF PurgeUnlock
<1>7. ASSUME NEW d \in Deleters, NEW k \in Keys, DeleteUnmap(d, k) PROVE TypeOK'
  BY <1>7 DEF DeleteUnmap
<1>8. ASSUME NEW d \in Deleters, DeleteDestroy(d) PROVE TypeOK'
  BY <1>8, FreeType DEF DeleteDestroy
<1>9. ASSUME NEW e \in Sweepers, SweepStep(e) PROVE TypeOK'
  BY <1>1, <1>2, <1>3, <1>4, <1>5, <1>9 DEF SweepStep, SweepCollect, SweepRemove
<1>10. ASSUME NEW e \in Purgers, PurgeStep(e) PROVE TypeOK'
  BY <1>1, <1>5, <1>6, <1>10 DEF PurgeStep, PurgeCollect, PurgeRemove
<1> QED
  BY <1>7, <1>8, <1>9, <1>10 DEF DeleteStep

(* The steps of workers and of the shutdown keep the types.                   *)
LEMMA RestType ==
    ASSUME TypeOK, (\E o \in Objects : WorkerDone(o)) \/ ShutdownStep \/ UseAfterFree \/ UNCHANGED vars
    PROVE  TypeOK'
<1> USE DEF TypeOK, evict, stop
<1>1. ASSUME NEW o \in Objects, WorkerDone(o) PROVE TypeOK'
  BY <1>1 DEF WorkerDone
<1>2. ASSUME RequestShutdown \/ Undrain \/ BeginFlush \/ BeginDeinit PROVE TypeOK'
  BY <1>2 DEF RequestShutdown, Undrain, BeginFlush, BeginDeinit
<1>3. ASSUME NEW o \in Objects, FlushSession(o) PROVE TypeOK'
  BY <1>3 DEF FlushSession
<1>4. ASSUME NEW o \in Objects, DeinitSession(o) PROVE TypeOK'
  BY <1>4 DEF DeinitSession, Unmap, Abandoned
<1>5. ASSUME UseAfterFree PROVE TypeOK'
  BY <1>5 DEF UseAfterFree
<1>6. ASSUME UNCHANGED vars PROVE TypeOK'
  BY <1>6 DEF vars
<1> QED
  BY <1>1, <1>2, <1>3, <1>4, <1>5, <1>6 DEF ShutdownStep

(* Every step keeps the types.                                                *)
LEMMA NextType == TypeOK /\ [Next]_vars => TypeOK'
BY TurnType, ReaderType, EvictType, RestType DEF Next

(* The state keeps its types: among others active_refs never goes below zero, *)
(* and only a read route keeps the manager's mutex between two steps.         *)
THEOREM TypeCorrect == Spec => []TypeOK
BY InitType, NextType, PTL DEF Spec

-----------------------------------------------------------------------------
(* Pins.  The counter of a live session is the number of turns and cancels    *)
(* that point at it.  That is inductive together with: a thread points at a   *)
(* session exactly while its call lasts, no one points at a session not yet   *)
(* created, and a session that a delete unmapped stays out of the map.        *)

Callers == Threads \ Evictors
Coherent == \A t \in Callers : pc[t] = "idle" <=> ptr[t] = None
EvictorsPointNowhere == \A e \in Evictors : ptr[e] = None
Seen == \A t \in Threads : ptr[t] # None => phase[ptr[t]] # "unborn"
RemovedUnmapped == \A d \in Deleters : pc[d] = "removed" => \A k \in Keys : sessions[k] # ptr[d]

RefInv ==
    /\ TypeOK /\ MapSound /\ Coherent /\ EvictorsPointNowhere /\ Seen /\ RemovedUnmapped
    /\ RefsMatchPins

(* A session has finitely many pins, so they can be counted.                  *)
LEMMA PinsFinite == \A o : IsFiniteSet(Pins(o)) /\ Cardinality(Pins(o)) \in Nat
<1> SUFFICES ASSUME NEW o PROVE IsFiniteSet(Pins(o)) /\ Cardinality(Pins(o)) \in Nat
  OBVIOUS
<1>1. Pins(o) \subseteq Pinners
  BY DEF Pins
<1>2. IsFiniteSet(Pins(o))
  BY <1>1, PinnersFinite, FS_Subset
<1> QED
  BY <1>2, FS_CardinalityType

(* A thread that starts to point at o is one more pin of o.                   *)
LEMMA PinAdds ==
    ASSUME NEW t \in Pinners, NEW o \in Objects, ptr \in [Threads -> Objects \cup {None}],
           ptr[t] = None, ptr' = [ptr EXCEPT ![t] = o]
    PROVE  /\ Cardinality(Pins(o))' = Cardinality(Pins(o)) + 1
           /\ \A p \in Objects \ {o} : Pins(p)' = Pins(p)
<1>1. Pins(o)' = Pins(o) \cup {t}
  BY DEF Pins, Pinners, Threads
<1>2. t \notin Pins(o)
  BY NoneAssumption DEF Pins
<1>3. Cardinality(Pins(o) \cup {t}) = Cardinality(Pins(o)) + 1
  BY <1>2, PinsFinite, FS_AddElement
<1>4. Cardinality(Pins(o))' = Cardinality(Pins(o)')
  OBVIOUS
<1>5. ASSUME NEW p \in Objects \ {o} PROVE Pins(p)' = Pins(p)
  BY NoneAssumption DEF Pins, Pinners, Threads
<1> QED
  BY <1>1, <1>3, <1>4, <1>5

(* A thread that returns is one pin less.                                     *)
LEMMA PinDrops ==
    ASSUME NEW t \in Pinners, ptr \in [Threads -> Objects \cup {None}],
           ptr[t] # None, ptr' = [ptr EXCEPT ![t] = None]
    PROVE  /\ Cardinality(Pins(ptr[t])) > 0
           /\ Cardinality({u \in Pinners : ptr'[u] = ptr[t]}) = Cardinality(Pins(ptr[t])) - 1
           /\ \A p \in Objects \ {ptr[t]} : Pins(p)' = Pins(p)
<1> DEFINE o == ptr[t]
<1>1. {u \in Pinners : ptr'[u] = o} = Pins(o) \ {t}
  BY NoneAssumption DEF Pins, Pinners, Threads
<1>2. t \in Pins(o)
  BY DEF Pins
<1>3. /\ Cardinality(Pins(o) \ {t}) = Cardinality(Pins(o)) - 1
      /\ Cardinality(Pins(o) \ {t}) \in Nat
  BY <1>2, PinsFinite, FS_RemoveElement, FS_CardinalityType
<1>4. Cardinality(Pins(o)) > 0
  BY <1>3, PinsFinite
<1>5. ASSUME NEW p \in Objects \ {o} PROVE Pins(p)' = Pins(p)
  BY NoneAssumption DEF Pins, Pinners, Threads
<1> QED
  BY <1>1, <1>3, <1>4, <1>5

(* A step that moves no pinning thread's pointer keeps all pins.              *)
LEMMA PinsKept ==
    ASSUME ptr \in [Threads -> Objects \cup {None}], NEW t \in Threads \ Pinners, NEW o,
           ptr' = [ptr EXCEPT ![t] = o]
    PROVE  \A p \in Objects : Pins(p)' = Pins(p)
BY DEF Pins, Pinners, Threads

(* Init establishes the invariant: no session exists.                         *)
LEMMA InitRef == Init => RefInv
<1> SUFFICES ASSUME Init PROVE RefInv
  OBVIOUS
<1>1. TypeOK
  BY InitType
<1>2. Coherent /\ EvictorsPointNowhere /\ Seen /\ MapSound /\ RemovedUnmapped
  BY DEF Init, Coherent, EvictorsPointNowhere, Seen, MapSound, RemovedUnmapped, Callers, Threads
<1>3. RefsMatchPins
  BY DEF Init, RefsMatchPins
<1> QED
  BY <1>1, <1>2, <1>3 DEF RefInv

(* A step that moves no pointer, pin or map entry.                            *)
LEMMA QuietRef ==
    ASSUME RefInv, TypeOK', UNCHANGED <<sessions, phase, keyOf, active_refs, ptr>>,
           \A t \in Callers : pc'[t] = "idle" <=> pc[t] = "idle",
           \A d \in Deleters : pc'[d] = "removed" => pc[d] = "removed"
    PROVE  RefInv'
<1>1. \A p \in Objects : Pins(p)' = Pins(p)
  BY DEF Pins
<1>2. RefsMatchPins'
  BY <1>1 DEF RefInv, RefsMatchPins
<1> QED
  BY <1>2 DEF RefInv, MapSound, Coherent, EvictorsPointNowhere, Seen, RemovedUnmapped

(* A pin: a turn or a cancel that was in no call gets a pointer to live o.    *)
LEMMA PinRef ==
    ASSUME RefInv, TypeOK', NEW t \in Pinners, NEW o \in Objects, pc[t] = "idle",
           UNCHANGED <<sessions, phase, keyOf>>, phase[o] # "unborn",
           active_refs' = [active_refs EXCEPT ![o] = @ + 1],
           ptr' = [ptr EXCEPT ![t] = o], pc' = [pc EXCEPT ![t] = "found"]
    PROVE  RefInv'
<1>1. t \in Callers /\ t \in Threads /\ t \notin Deleters /\ t \notin Evictors /\ ptr[t] = None
  BY ThreadKindsDisjoint DEF RefInv, Coherent, Callers, Threads, Evictors, Pinners
<1>2. /\ Cardinality(Pins(o))' = Cardinality(Pins(o)) + 1
      /\ \A p \in Objects \ {o} : Pins(p)' = Pins(p)
  BY <1>1, PinAdds DEF RefInv, TypeOK
<1>3. RefsMatchPins'
  BY <1>2 DEF RefInv, RefsMatchPins, TypeOK
<1>4. Coherent' /\ EvictorsPointNowhere' /\ Seen'
  BY <1>1, NoneAssumption DEF RefInv, TypeOK, Coherent, EvictorsPointNowhere, Seen, Callers, Evictors, Threads
<1>5. MapSound' /\ RemovedUnmapped'
  BY <1>1, ThreadKindsDisjoint DEF RefInv, TypeOK, MapSound, RemovedUnmapped, Threads
<1> QED
  BY <1>3, <1>4, <1>5 DEF RefInv

(* An unpin: releaseSessionRef and the end of cancelActiveTurn.               *)
LEMMA UnpinRef ==
    ASSUME RefInv, TypeOK', NEW t \in Pinners, pc[t] # "idle",
           UNCHANGED <<sessions, phase, keyOf>>, active_refs' = DropRef(ptr[t]), Return(t)
    PROVE  RefInv'
<1>1. t \in Callers /\ t \in Threads /\ t \notin Deleters /\ ptr[t] \in Objects /\ ptr[t] # None
  BY ThreadKindsDisjoint DEF RefInv, TypeOK, Coherent, Callers, Threads, Evictors, Pinners
<1> DEFINE o == ptr[t]
<1>2. /\ Cardinality(Pins(o)) > 0
      /\ Cardinality({u \in Pinners : ptr'[u] = o}) = Cardinality(Pins(o)) - 1
      /\ \A p \in Objects \ {o} : Pins(p)' = Pins(p)
  BY <1>1, PinDrops DEF RefInv, TypeOK, Return
<1>3. ASSUME NEW p \in Objects, phase'[p] = "live" PROVE active_refs'[p] = Cardinality(Pins(p)')
  <2>1. CASE p = o
    <3>1. active_refs[o] = Cardinality(Pins(o))
      BY <2>1, <1>3 DEF RefInv, RefsMatchPins
    <3>2. active_refs'[o] = active_refs[o] - 1
      BY <1>1, <1>2, <3>1 DEF DropRef, RefInv, TypeOK
    <3>3. Pins(p)' = {u \in Pinners : ptr'[u] = o}
      BY <2>1 DEF Pins
    <3> QED
      BY <2>1, <3>1, <3>2, <3>3, <1>2
  <2>2. CASE p # o
    <3>1. active_refs'[p] = active_refs[p]
      BY <2>2, <1>1 DEF DropRef, RefInv, TypeOK
    <3> QED
      BY <2>2, <3>1, <1>2, <1>3 DEF RefInv, RefsMatchPins
  <2> QED
    BY <2>1, <2>2
<1>4. RefsMatchPins'
  BY <1>3 DEF RefsMatchPins
<1>5. Coherent' /\ EvictorsPointNowhere' /\ Seen'
  BY <1>1, NoneAssumption DEF RefInv, TypeOK, Coherent, EvictorsPointNowhere, Seen, Callers, Evictors, Threads, Return, Goto
<1>6. MapSound' /\ RemovedUnmapped'
  BY <1>1, ThreadKindsDisjoint DEF RefInv, TypeOK, MapSound, RemovedUnmapped, Threads, Return, Goto
<1> QED
  BY <1>4, <1>5, <1>6 DEF RefInv

(* A pointer kept or dropped by a thread that does not pin.                   *)
LEMMA PeekRef ==
    ASSUME RefInv, TypeOK', NEW t \in Peekers \cup Probes, NEW o \in Objects \cup {None}, NEW where,
           UNCHANGED <<sessions, phase, keyOf, active_refs>>,
           o # None => phase[o] # "unborn",
           (where = "idle") <=> (o = None),
           ptr' = [ptr EXCEPT ![t] = o], Goto(t, where)
    PROVE  RefInv'
<1>1. t \in Threads \ Pinners /\ t \notin Evictors /\ t \notin Deleters
  BY ThreadKindsDisjoint DEF Threads, Pinners, Evictors
<1>2. \A p \in Objects : Pins(p)' = Pins(p)
  BY <1>1, PinsKept DEF RefInv, TypeOK
<1>3. RefsMatchPins'
  BY <1>2 DEF RefInv, RefsMatchPins
<1>4. Coherent' /\ EvictorsPointNowhere' /\ Seen'
  BY <1>1, NoneAssumption DEF RefInv, TypeOK, Coherent, EvictorsPointNowhere, Seen, Callers, Evictors, Threads, Goto
<1>5. MapSound' /\ RemovedUnmapped'
  BY <1>1, ThreadKindsDisjoint DEF RefInv, TypeOK, MapSound, RemovedUnmapped, Threads, Goto
<1> QED
  BY <1>3, <1>4, <1>5 DEF RefInv

(* A new session enters the map with the pins of its creator.                 *)
LEMMA CreateRef ==
    ASSUME RefInv, TypeOK', NEW t \in Turns \cup Probes, NEW k \in Keys, pc[t] = "idle",
           CreateSession(t, k), Goto(t, "found")
    PROVE  RefInv'
<1> PICK o \in Objects : /\ phase[o] = "unborn"
                         /\ phase' = [phase EXCEPT ![o] = "live"]
                         /\ keyOf' = [keyOf EXCEPT ![o] = k]
                         /\ active_refs' = [active_refs EXCEPT ![o] = Retained(t)]
                         /\ sessions' = [sessions EXCEPT ![k] = o]
                         /\ ptr' = [ptr EXCEPT ![t] = o]
  BY DEF CreateSession
<1>1. t \in Callers /\ t \in Threads /\ t \notin Deleters /\ ptr[t] = None /\ o # None
  BY ThreadKindsDisjoint, NoneAssumption DEF RefInv, Coherent, Callers, Threads, Evictors, Pinners
<1>2. \A k1 \in Keys : sessions[k1] # o
  BY <1>1 DEF RefInv, MapSound
<1>3. \A u \in Threads : ptr[u] # o
  BY <1>1 DEF RefInv, Seen
<1>4. Pins(o) = {}
  BY <1>3 DEF Pins, Threads
<1>5. RefsMatchPins'
  <2>1. CASE t \in Turns
    <3>1. /\ Cardinality(Pins(o))' = Cardinality(Pins(o)) + 1
          /\ \A p \in Objects \ {o} : Pins(p)' = Pins(p)
      BY <1>1, <2>1, PinAdds DEF RefInv, TypeOK, Pinners
    <3>2. Cardinality(Pins(o))' = 1
      BY <3>1, <1>4, FS_EmptySet
    <3> QED
      BY <3>1, <3>2, <2>1 DEF RefInv, TypeOK, RefsMatchPins, Retained
  <2>2. CASE t \notin Turns
    <3>1. \A p \in Objects : Pins(p)' = Pins(p)
      BY <2>2, <1>1, PinsKept, ThreadKindsDisjoint DEF RefInv, TypeOK, Pinners
    <3>2. Cardinality(Pins(o))' = 0
      BY <3>1, <1>4, FS_EmptySet
    <3> QED
      BY <3>1, <3>2, <2>2 DEF RefInv, TypeOK, RefsMatchPins, Retained
  <2> QED
    BY <2>1, <2>2
<1>6. Coherent' /\ EvictorsPointNowhere' /\ Seen'
  BY <1>1, NoneAssumption DEF RefInv, TypeOK, Coherent, EvictorsPointNowhere, Seen, Callers, Evictors, Threads, Goto
<1>7. MapSound'
  BY <1>1, <1>2 DEF RefInv, TypeOK, MapSound
<1>8. RemovedUnmapped'
  <2> SUFFICES ASSUME NEW d \in Deleters, pc'[d] = "removed", NEW k1 \in Keys PROVE sessions'[k1] # ptr'[d]
    BY DEF RemovedUnmapped
  <2>1. d # t /\ d \in Threads
    BY <1>1 DEF Threads
  <2>2. pc[d] = "removed" /\ ptr'[d] = ptr[d]
    BY <2>1 DEF Goto, RefInv, TypeOK
  <2>3. sessions[k1] # ptr[d] /\ ptr[d] # o
    BY <2>1, <2>2, <1>3 DEF RefInv, RemovedUnmapped
  <2> QED
    BY <2>2, <2>3 DEF RefInv, TypeOK
<1> QED
  BY <1>5, <1>6, <1>7, <1>8 DEF RefInv

(* Sessions leave the map and come to an end in the same step.                *)
LEMMA EndRef ==
    ASSUME RefInv, TypeOK', NEW gone, Unmap(gone), UNCHANGED <<keyOf, active_refs, ptr>>,
           \A o \in Objects : phase'[o] = phase[o] \/ (o \in gone /\ phase'[o] \in {"freed", "leaked"}),
           \A t \in Callers : pc'[t] = pc[t]
    PROVE  RefInv'
<1>1. \A p \in Objects : Pins(p)' = Pins(p)
  BY DEF Pins
<1>2. RefsMatchPins'
  BY <1>1 DEF RefInv, RefsMatchPins
<1>3. Coherent' /\ EvictorsPointNowhere' /\ Seen'
  BY DEF RefInv, TypeOK, Coherent, EvictorsPointNowhere, Seen
<1>4. MapSound'
  BY DEF RefInv, TypeOK, MapSound, Unmap
<1>5. RemovedUnmapped'
  <2>1. \A d \in Deleters : d \in Callers /\ pc'[d] = pc[d]
    BY ThreadKindsDisjoint DEF Callers, Threads, Evictors
  <2>2. \A d \in Deleters : pc[d] = "removed" => ptr[d] # None
    BY <2>1 DEF RefInv, Coherent
  <2> QED
    BY <2>1, <2>2 DEF RefInv, RemovedUnmapped, Unmap
<1> QED
  BY <1>2, <1>3, <1>4, <1>5 DEF RefInv

(* The two steps of handleSessionDelete keep the invariant.                   *)
LEMMA DeleteRef ==
    ASSUME RefInv, TypeOK', NEW d \in Deleters, DeleteStep(d)
    PROVE  RefInv'
<1>1. d \in Threads \ Pinners /\ d \in Callers /\ d \notin Evictors
  BY ThreadKindsDisjoint DEF Threads, Pinners, Evictors, Callers
<1>2. ASSUME NEW k \in Keys, DeleteUnmap(d, k) PROVE RefInv'
  <2>1. sessions[k] \in Objects /\ sessions[k] # None /\ pc[d] = "idle"
    BY <1>2, NoneAssumption DEF DeleteUnmap, Evictable, Mapped, Starts
  <2>2. \A p \in Objects : Pins(p)' = Pins(p)
    BY <1>1, <1>2, PinsKept DEF DeleteUnmap, RefInv, TypeOK
  <2>3. RefsMatchPins'
    BY <2>2, <1>2 DEF RefInv, RefsMatchPins, DeleteUnmap
  <2>4. Coherent' /\ EvictorsPointNowhere' /\ Seen'
    BY <1>1, <1>2, <2>1 DEF RefInv, TypeOK, Coherent, EvictorsPointNowhere, Seen, MapSound, DeleteUnmap, Goto, Callers
  <2>5. MapSound'
    BY <1>2 DEF RefInv, TypeOK, MapSound, DeleteUnmap
  <2>6. RemovedUnmapped'
    <3> SUFFICES ASSUME NEW c \in Deleters, pc'[c] = "removed", NEW k1 \in Keys PROVE sessions'[k1] # ptr'[c]
      BY DEF RemovedUnmapped
    <3>1. c \in Threads /\ c \in Callers
      BY ThreadKindsDisjoint DEF Threads, Callers, Evictors
    <3>2. CASE c = d
      BY <1>1, <1>2, <2>1, <3>2 DEF RefInv, TypeOK, MapSound, DeleteUnmap
    <3>3. CASE c # d
      <4>1. pc[c] = "removed" /\ ptr'[c] = ptr[c] /\ ptr[c] # None
        BY <1>1, <1>2, <3>1, <3>3 DEF DeleteUnmap, Goto, RefInv, TypeOK, Coherent
      <4> QED
        BY <4>1, <1>2 DEF RefInv, TypeOK, RemovedUnmapped, DeleteUnmap
    <3> QED
      BY <3>2, <3>3
  <2> QED
    BY <2>3, <2>4, <2>5, <2>6 DEF RefInv
<1>3. ASSUME DeleteDestroy(d) PROVE RefInv'
  <2>1. pc[d] = "removed" /\ ptr[d] \in Objects
    BY <1>1, <1>3 DEF DeleteDestroy, At, RefInv, Coherent, TypeOK
  <2>2. \A p \in Objects : Pins(p)' = Pins(p)
    BY <1>1, <1>3, PinsKept DEF DeleteDestroy, Return, RefInv, TypeOK
  <2>3. \A p \in Objects : phase'[p] = phase[p] \/ (p = ptr[d] /\ phase'[p] = "freed")
    BY <1>3 DEF DeleteDestroy, Free
  <2>4. RefsMatchPins'
    BY <2>2, <2>3, <1>3 DEF RefInv, RefsMatchPins, DeleteDestroy
  <2>5. Coherent' /\ EvictorsPointNowhere' /\ Seen'
    BY <1>1, <1>3, <2>3 DEF RefInv, TypeOK, Coherent, EvictorsPointNowhere, Seen, DeleteDestroy, Return, Goto, Callers
  <2>6. MapSound'
    BY <1>3, <2>1, <2>3 DEF RefInv, TypeOK, MapSound, RemovedUnmapped, DeleteDestroy
  <2>7. RemovedUnmapped'
    BY <1>1, <1>3 DEF RefInv, TypeOK, RemovedUnmapped, DeleteDestroy, Return, Goto, Threads
  <2> QED
    BY <2>4, <2>5, <2>6, <2>7 DEF RefInv
<1> QED
  BY <1>2, <1>3 DEF DeleteStep

(* The steps of all callers keep the invariant.                               *)
LEMMA CallerRef ==
    ASSUME RefInv, TypeOK',
           \/ \E t \in Turns : TurnStep(t)
           \/ \E t \in Cancels : CancelStep(t)
           \/ \E t \in Peekers : PeekStep(t)
           \/ \E t \in Probes : ProbeStep(t)
    PROVE  RefInv'
<1> USE DEF Starts, At, Goto, evict, stop
<1>0. \A t \in Turns \cup Cancels \cup Peekers \cup Probes : t \in Callers /\ t \in Threads /\ t \notin Deleters
  BY ThreadKindsDisjoint DEF Callers, Threads, Evictors, Pinners
<1>1. ASSUME NEW t \in Turns \cup Probes, NEW k \in Keys, getOrCreateInternal(t, k) PROVE RefInv'
  <2>1. CASE CreateSession(t, k)
    BY <1>1, <2>1, CreateRef DEF getOrCreateInternal
  <2>2. CASE FindSession(t, k)
    <3>1. sessions[k] \in Objects /\ phase[sessions[k]] # "unborn" /\ sessions[k] # None
      BY <2>2 DEF FindSession, RefInv, TypeOK, MapSound
    <3>2. CASE t \in Turns
      BY <1>1, <2>2, <3>1, <3>2, PinRef DEF getOrCreateInternal, FindSession, Retained, Pinners
    <3>3. CASE t \in Probes
      <4>1. t \notin Turns
        BY <3>3, ThreadKindsDisjoint
      <4>2. active_refs' = active_refs
        BY <2>2, <3>1, <4>1 DEF FindSession, Retained, RefInv, TypeOK
      <4> QED
        BY <1>1, <2>2, <3>1, <3>3, <4>2, PeekRef DEF getOrCreateInternal, FindSession
    <3> QED
      BY <1>1, <3>2, <3>3
  <2> QED
    BY <1>1, <2>1, <2>2 DEF getOrCreateInternal
<1>2. ASSUME NEW t \in Turns \cup Probes, LockSession(t) PROVE RefInv'
  BY <1>0, <1>2, QuietRef DEF LockSession, RefInv, TypeOK, Callers
<1>3. ASSUME NEW t \in Turns, TurnedAway(t) PROVE RefInv'
  BY <1>0, <1>3, QuietRef DEF TurnedAway, RefInv, TypeOK, Callers
<1>4. ASSUME NEW t \in Turns, SpawnWorker(t) PROVE RefInv'
  BY <1>4, QuietRef DEF SpawnWorker
<1>5. ASSUME NEW t \in Turns, UnlockSession(t) PROVE RefInv'
  <2>1. /\ UNCHANGED <<sessions, phase, keyOf, active_refs, ptr>>
        /\ pc[t] = "inside" /\ pc' = [pc EXCEPT ![t] = "leaving"]
    BY <1>5 DEF UnlockSession
  <2>2. \A u \in Threads : (pc'[u] = "idle" <=> pc[u] = "idle") /\ (pc'[u] = "removed" => pc[u] = "removed")
    BY <2>1 DEF RefInv, TypeOK
  <2> QED
    BY <2>1, <2>2, QuietRef DEF Callers, Threads
<1>6. ASSUME NEW t \in Turns, releaseSessionRef(t) PROVE RefInv'
  BY <1>6, UnpinRef DEF releaseSessionRef, Pinners
<1>7. ASSUME NEW t \in Cancels, NEW k \in Keys, CancelPin(t, k) PROVE RefInv'
  <2>1. sessions[k] \in Objects /\ phase[sessions[k]] # "unborn"
    BY <1>7 DEF CancelPin, RefInv, TypeOK, MapSound
  <2> QED
    BY <1>7, <2>1, PinRef DEF CancelPin, Pinners
<1>8. ASSUME NEW t \in Cancels, CancelUnpin(t) PROVE RefInv'
  BY <1>8, UnpinRef DEF CancelUnpin, Pinners
<1>9. ASSUME NEW t \in Peekers, NEW k \in Keys, PeekFind(t, k) PROVE RefInv'
  <2>1. sessions[k] \in Objects /\ phase[sessions[k]] # "unborn" /\ sessions[k] # None
    BY <1>9 DEF PeekFind, RefInv, TypeOK, MapSound
  <2> QED
    BY <1>9, <2>1, PeekRef DEF PeekFind
<1>10. ASSUME NEW t \in Peekers, PeekLock(t) PROVE RefInv'
  BY <1>0, <1>10, QuietRef DEF PeekLock, RefInv, TypeOK, Callers
<1>11. ASSUME NEW t \in Peekers \cup Probes, UnlockSession(t) PROVE RefInv'
  <2>1. t \notin Turns
    BY ThreadKindsDisjoint
  <2> QED
    BY <1>11, <2>1, PeekRef DEF UnlockSession, Return
<1> QED
  BY <1>1, <1>2, <1>3, <1>4, <1>5, <1>6, <1>7, <1>8, <1>9, <1>10, <1>11
     DEF TurnStep, CancelStep, PeekStep, ProbeStep

(* The steps of sweeps, purges and deletes keep the invariant.                *)
LEMMA EvictorRef ==
    ASSUME RefInv, TypeOK',
           (\E e \in Sweepers : SweepStep(e)) \/ (\E e \in Purgers : PurgeStep(e))
    PROVE  RefInv'
<1> USE DEF Goto, evict, stop
<1>0. \A e \in Evictors : e \notin Callers /\ e \notin Deleters
  BY ThreadKindsDisjoint DEF Callers, Evictors
<1>1. ASSUME NEW e \in Evictors, NEW found, Collect(e, found) PROVE RefInv'
  BY <1>0, <1>1, QuietRef DEF Collect, RefInv, TypeOK, Callers
<1>2. ASSUME NEW e \in Evictors, NEW o \in Objects, SweepCheckpoint(e, o) \/ SweepDefer(e, o) PROVE RefInv'
  <2>1. UNCHANGED <<sessions, phase, keyOf, active_refs, ptr>> /\ pc' = [pc EXCEPT ![e] = "collected"]
    BY <1>2 DEF SweepCheckpoint, SweepDefer
  <2>2. \A t \in Callers \cup Deleters : pc'[t] = pc[t]
    BY <1>0, <2>1 DEF RefInv, TypeOK, Callers
  <2> QED
    BY <2>1, <2>2, QuietRef
<1>3. ASSUME NEW e \in Evictors, SweepBail(e) \/ PurgeUnlock(e) PROVE RefInv'
  BY <1>3, QuietRef DEF SweepBail, PurgeUnlock
<1>4. ASSUME NEW e \in Evictors, NEW gone, Remove(e, gone) PROVE RefInv'
  <2>1. \A t \in Callers : pc'[t] = pc[t]
    BY <1>0, <1>4 DEF Remove, RefInv, TypeOK, Callers
  <2>2. \A o \in Objects : phase'[o] = phase[o] \/ (o \in gone /\ phase'[o] \in {"freed", "leaked"})
    BY <1>4 DEF Remove, Free
  <2> QED
    BY <1>4, <2>1, <2>2, EndRef DEF Remove
<1>5. ASSUME NEW e \in Evictors, SweepVisit(e) PROVE RefInv'
  BY <1>0, <1>5, QuietRef DEF SweepVisit, RefInv, TypeOK, Callers
<1>6. ASSUME NEW e \in Sweepers, SweepStep(e) PROVE RefInv'
  BY <1>1, <1>2, <1>3, <1>4, <1>5, <1>6 DEF SweepStep, SweepCollect, SweepRemove, Evictors
<1>7. ASSUME NEW e \in Purgers, PurgeStep(e) PROVE RefInv'
  BY <1>1, <1>3, <1>4, <1>7 DEF PurgeStep, PurgeCollect, PurgeRemove, Evictors
<1> QED
  BY <1>6, <1>7

(* The steps of workers and of the shutdown keep the invariant.               *)
LEMMA RestRef ==
    ASSUME RefInv, TypeOK',
           (\E o \in Objects : WorkerDone(o)) \/ ShutdownStep \/ UseAfterFree \/ UNCHANGED vars
    PROVE  RefInv'
<1>1. ASSUME NEW o \in Objects, WorkerDone(o) \/ FlushSession(o) PROVE RefInv'
  BY <1>1, QuietRef DEF WorkerDone, FlushSession
<1>2. ASSUME RequestShutdown \/ Undrain \/ BeginFlush \/ BeginDeinit \/ UseAfterFree PROVE RefInv'
  BY <1>2, QuietRef DEF RequestShutdown, Undrain, BeginFlush, BeginDeinit, UseAfterFree
<1>3. ASSUME NEW o \in Objects, DeinitSession(o) PROVE RefInv'
  <2>1. \A p \in Objects : phase'[p] = phase[p] \/ (p \in {o} /\ phase'[p] \in {"freed", "leaked"})
    BY <1>3 DEF DeinitSession, Abandoned, RefInv, TypeOK
  <2> QED
    BY <1>3, <2>1, EndRef DEF DeinitSession
<1>4. ASSUME UNCHANGED vars PROVE RefInv'
  BY <1>4, QuietRef DEF vars
<1> QED
  BY <1>1, <1>2, <1>3, <1>4 DEF ShutdownStep

(* Every step keeps the invariant.                                            *)
LEMMA NextRef == RefInv /\ [Next]_vars => RefInv'
<1> SUFFICES ASSUME RefInv, [Next]_vars PROVE RefInv'
  OBVIOUS
<1>1. TypeOK'
  BY NextType DEF RefInv
<1> QED
  BY <1>1, CallerRef, EvictorRef, DeleteRef, RestRef DEF Next

(* The map and the pins agree in every reachable state.                       *)
LEMMA RefInvariant == Spec => []RefInv
BY InitRef, NextRef, PTL DEF Spec

(* The map holds live sessions, each under its own key, whoever sweeps,       *)
(* purges, deletes or shuts down at the same time.                            *)
THEOREM MapCorrect == Spec => []MapSound
BY RefInvariant, PTL DEF RefInv

(* active_refs is the number of turns and cancels that point at the session:  *)
(* no path leaks a pin or drops one that is not its own.                      *)
THEOREM RefsCorrect == Spec => []RefsMatchPins
BY RefInvariant, PTL DEF RefInv

-----------------------------------------------------------------------------
(* Use after free.  Nobody is safe beside a sweep, which frees what it        *)
(* collected without a second look (run session_sweep_race), and a probe,     *)
(* which neither pins nor locks, is safe beside no eviction at all.  Without  *)
(* these two, everybody is, as long as a purge runs alone (PurgesAlone).      *)

Spared == Sweepers = {} /\ Probes = {} /\ WorkersMayHang = FALSE

(* Those that point at a session found it in the map, and it is there still;  *)
(* only a delete keeps a session that is no longer there, and keeps it alone. *)
PointersLive == \A t \in Threads : ptr[t] # None => phase[ptr[t]] = "live"
PointToMapped ==
    \A t \in Pinners \cup Peekers :
        ptr[t] # None => keyOf[ptr[t]] \in Keys /\ sessions[keyOf[ptr[t]]] = ptr[t]
OneDelete == \A c, d \in Deleters : ptr[c] # None /\ ptr[c] = ptr[d] => c = d
WorkersLive == \A o \in Objects : worker[o] => phase[o] \in {"live", "leaked"}
CollectedLive == \A e \in Purgers : \A o \in candidates[e] \cup to_remove[e] : phase[o] = "live"
LiveKeyed == \A o \in Objects : phase[o] = "live" => keyOf[o] \in Keys

(* Who is inside holds the session's mutex, who escalates the manager's.      *)
IdleCollectsNothing ==
    \A e \in Purgers : pc[e] = "idle" => candidates[e] = {} /\ to_remove[e] = {}
Quiesced == shutdown \in {"flush", "deinit"} => \A t \in Threads : pc[t] = "idle"
InsideLocks == \A t \in Turns \cup Peekers : pc[t] = "inside" => lock[ptr[t]] = t
CollectedLocked == \A e \in Purgers : \A o \in candidates[e] : lock[o] = e
PeekersLock ==
    \A t \in Peekers : pc[t] \in {"idle", "escalating", "inside"} /\ (pc[t] = "escalating" => mutex = t)
DeletersDelete == \A d \in Deleters : pc[d] \in {"idle", "removed"}

Lifetimes == PointersLive /\ PointToMapped /\ OneDelete /\ WorkersLive /\ CollectedLive /\ LiveKeyed
Locks == InsideLocks /\ CollectedLocked
Quiet == NoUseAfterFree /\ IdleCollectsNothing /\ Quiesced /\ DeletersDelete
SafeInv == RefInv /\ Lifetimes /\ Locks /\ PeekersLock /\ Quiet

(* Init establishes the invariant.                                            *)
LEMMA InitSafe == Init => SafeInv
<1> SUFFICES ASSUME Init PROVE SafeInv
  OBVIOUS
<1>1. RefInv
  BY InitRef
<1>2. PointersLive /\ PointToMapped /\ OneDelete /\ CollectedLive /\ LiveKeyed
  BY DEF Init, PointersLive, PointToMapped, OneDelete, CollectedLive, LiveKeyed, Threads, Evictors, Pinners
<1>3. WorkersLive
  BY Zenon DEF Init, WorkersLive
<1>4. Locks /\ PeekersLock
  BY DEF Init, Locks, InsideLocks, CollectedLocked, PeekersLock, Threads, Evictors, Pinners
<1>5. Quiet
  BY DEF Init, Quiet, NoUseAfterFree, IdleCollectsNothing, Quiesced, DeletersDelete, Evictors, Threads
<1> QED
  BY <1>1, <1>2, <1>3, <1>4, <1>5 DEF SafeInv, Lifetimes

(* What a thread that uses a session is.                                      *)
LEMMA UserFacts ==
    ASSUME SafeInv, NEW t \in Pinners \cup Peekers
    PROVE  /\ t \in Threads /\ t \notin Evictors /\ t \notin Deleters /\ t # None
           /\ pc[t] = "idle" <=> ptr[t] = None
           /\ ptr[t] # None => ptr[t] \in Objects /\ phase[ptr[t]] = "live"
BY ThreadKindsDisjoint, NoneAssumption
   DEF SafeInv, RefInv, TypeOK, Coherent, Callers, Threads, Evictors, Pinners, Lifetimes, PointersLive

(* A step of one user that leaves the map and its sessions as they are.       *)
OnlyMoves(t) == \A u \in Threads \ {t} : pc'[u] = pc[u] /\ ptr'[u] = ptr[u]
LEMMA UseSafe ==
    ASSUME SafeInv, NEW t \in Pinners \cup Peekers, OnlyMoves(t),
           UNCHANGED <<sessions, phase, keyOf, candidates, to_remove, shutdown, crashed>>,
           shutdown \notin {"flush", "deinit"},
           ptr'[t] \in {None, ptr[t]} \/ \E k \in Keys : ptr'[t] = sessions[k],
           \A o \in Objects : worker'[o] => worker[o] \/ o = ptr[t]
    PROVE  Lifetimes' /\ Quiet'
<1>0. t \in Threads /\ t \notin Evictors /\ t \notin Deleters /\ t # None
  BY UserFacts
<1>1. ptr'[t] # None => /\ phase[ptr'[t]] = "live" /\ keyOf[ptr'[t]] \in Keys
                        /\ sessions[keyOf[ptr'[t]]] = ptr'[t]
  BY <1>0 DEF SafeInv, RefInv, MapSound, Lifetimes, PointersLive, PointToMapped
<1>2. PointersLive'
  BY <1>1 DEF SafeInv, Lifetimes, PointersLive, OnlyMoves
<1>3. PointToMapped'
  BY <1>1 DEF SafeInv, Lifetimes, PointToMapped, OnlyMoves, Threads
<1>4. OneDelete'
  BY <1>0 DEF SafeInv, Lifetimes, OneDelete, OnlyMoves, Threads
<1>5. WorkersLive'
  BY <1>0, NoneAssumption DEF SafeInv, Lifetimes, WorkersLive, PointersLive
<1>6. CollectedLive' /\ LiveKeyed'
  BY DEF SafeInv, Lifetimes, CollectedLive, LiveKeyed
<1>7. Quiet'
  BY <1>0 DEF SafeInv, Quiet, NoUseAfterFree, IdleCollectsNothing, Quiesced, DeletersDelete, OnlyMoves, Threads, Evictors
<1> QED
  BY <1>2, <1>3, <1>4, <1>5, <1>6, <1>7 DEF Lifetimes

(* Every user locks a free mutex and unlocks its own.                         *)
LEMMA UseLocks ==
    ASSUME SafeInv, NEW t \in Pinners \cup Peekers, OnlyMoves(t), candidates' = candidates,
           \/ lock' = lock /\ (pc'[t] # "inside" \/ (pc[t] = "inside" /\ ptr'[t] = ptr[t]))
           \/ /\ ptr'[t] = ptr[t] /\ ptr[t] \in Objects /\ lock[ptr[t]] = None
              /\ lock' = [lock EXCEPT ![ptr[t]] = t]
           \/ /\ t \in Turns \cup Peekers /\ pc[t] = "inside" /\ pc'[t] # "inside"
              /\ lock' = [lock EXCEPT ![ptr[t]] = None]
    PROVE  Locks'
<1>0. t \in Threads /\ t \notin Evictors /\ t # None /\ lock \in [Objects -> Threads \cup {None}]
  BY UserFacts DEF SafeInv, RefInv, TypeOK
<1>1. \A o \in Objects : lock'[o] = lock[o] \/ (lock[o] = None /\ lock'[o] = t)
                         \/ (o = ptr[t] /\ lock[o] = t /\ pc'[t] # "inside")
  BY <1>0 DEF SafeInv, Locks, InsideLocks
<1>2. InsideLocks'
  <2> SUFFICES ASSUME NEW u \in Turns \cup Peekers, pc'[u] = "inside" PROVE lock'[ptr'[u]] = u
    BY DEF InsideLocks
  <2>1. CASE u = t
    BY <1>0, <2>1 DEF SafeInv, Locks, InsideLocks
  <2>2. CASE u # t
    <3>1. u \in Pinners \cup Peekers /\ pc[u] = "inside" /\ ptr'[u] = ptr[u]
      BY <2>2 DEF OnlyMoves, Threads, Pinners
    <3>2. lock[ptr[u]] = u /\ ptr[u] \in Objects /\ u # None
      BY <3>1, UserFacts DEF SafeInv, Locks, InsideLocks
    <3> QED
      BY <1>1, <2>2, <3>1, <3>2
  <2> QED
    BY <2>1, <2>2
<1>3. CollectedLocked'
  <2> SUFFICES ASSUME NEW e \in Purgers, NEW o \in candidates[e] PROVE lock'[o] = e
    BY DEF CollectedLocked
  <2>1. o \in Objects /\ lock[o] = e /\ e # None /\ e # t
    BY <1>0, NoneAssumption DEF SafeInv, RefInv, TypeOK, Locks, CollectedLocked, Evictors, Threads
  <2> QED
    BY <1>1, <2>1
<1> QED
  BY <1>2, <1>3 DEF Locks

(* A new session is under its key, and nobody points at it but its creator.   *)
LEMMA CreateSafe ==
    ASSUME SafeInv, NEW t \in Turns, NEW k \in Keys, Starts(t), CreateSession(t, k), OnlyMoves(t),
           UNCHANGED <<worker, candidates, to_remove, shutdown, crashed>>
    PROVE  Lifetimes' /\ Quiet'
<1>0. t \in Pinners \cup Peekers /\ t \in Threads /\ t \notin Evictors /\ t \notin Deleters /\ TypeOK
  BY UserFacts DEF Pinners, SafeInv, RefInv
<1>1. PICK o \in Objects : /\ phase[o] = "unborn" /\ phase' = [phase EXCEPT ![o] = "live"]
                           /\ keyOf' = [keyOf EXCEPT ![o] = k] /\ sessions' = [sessions EXCEPT ![k] = o]
                           /\ ptr' = [ptr EXCEPT ![t] = o]
  BY DEF CreateSession
<1>2. sessions[k] = None /\ o # None /\ phase'[o] = "live" /\ keyOf'[o] = k /\ sessions'[k] = o
  BY <1>0, <1>1, NoneAssumption DEF CreateSession, TypeOK
<1>3. \A p \in Objects \ {o} : phase'[p] = phase[p] /\ keyOf'[p] = keyOf[p]
  BY <1>0, <1>1 DEF TypeOK
<1>4. PointersLive'
  BY <1>0, <1>1, <1>2, <1>3 DEF SafeInv, Lifetimes, PointersLive, OnlyMoves, TypeOK
<1>5. PointToMapped'
  <2> SUFFICES ASSUME NEW u \in Pinners \cup Peekers, ptr'[u] # None
               PROVE  keyOf'[ptr'[u]] \in Keys /\ sessions'[keyOf'[ptr'[u]]] = ptr'[u]
    BY DEF PointToMapped
  <2>1. CASE u = t
    BY <1>0, <1>1, <1>2, <2>1 DEF TypeOK
  <2>2. CASE u # t
    <3>1. ptr'[u] = ptr[u] /\ ptr[u] \in Objects /\ phase[ptr[u]] = "live"
      BY <2>2, UserFacts DEF OnlyMoves
    <3>2. keyOf[ptr[u]] \in Keys /\ sessions[keyOf[ptr[u]]] = ptr[u] /\ ptr[u] # o
      BY <1>1, <3>1 DEF SafeInv, Lifetimes, PointToMapped
    <3> QED
      BY <1>0, <1>1, <1>2, <1>3, <3>1, <3>2, NoneAssumption DEF TypeOK
  <2> QED
    BY <2>1, <2>2
<1>6. OneDelete'
  BY <1>0 DEF SafeInv, Lifetimes, OneDelete, OnlyMoves, Threads
<1>7. WorkersLive'
  BY <1>2, <1>3 DEF SafeInv, Lifetimes, WorkersLive
<1>8. CollectedLive'
  BY <1>0, <1>2, <1>3 DEF SafeInv, Lifetimes, CollectedLive, TypeOK, Evictors
<1>9. LiveKeyed'
  BY <1>2, <1>3 DEF SafeInv, Lifetimes, LiveKeyed
<1>10. Quiet'
  BY <1>0 DEF Starts, SafeInv, Quiet, NoUseAfterFree, IdleCollectsNothing, Quiesced, DeletersDelete, OnlyMoves, Threads, Evictors
<1> QED
  BY <1>4, <1>5, <1>6, <1>7, <1>8, <1>9, <1>10 DEF Lifetimes

(* The steps of turns keep the invariant.                                     *)
LEMMA SafeTurn ==
    ASSUME SafeInv, RefInv', NEW t \in Turns, TurnStep(t)
    PROVE  SafeInv'
<1> USE DEF Starts, At, Goto, Return, evict, stop
<1>0. t \in Pinners \cup Peekers /\ t \in Threads /\ t \notin Peekers /\ TypeOK
  BY UserFacts, ThreadKindsDisjoint DEF Pinners, SafeInv, RefInv
<1>1. /\ shutdown \notin {"flush", "deinit"} /\ UNCHANGED <<mutex, shutdown, crashed, candidates, to_remove>>
      /\ OnlyMoves(t)
  <2>1. pc[t] # "idle" \/ shutdown = "up"
    BY DEF TurnStep, getOrCreateInternal, LockSession, TurnedAway, SpawnWorker, UnlockSession, releaseSessionRef
  <2>2. shutdown \notin {"flush", "deinit"}
    BY <1>0, <2>1 DEF SafeInv, Quiet, Quiesced
  <2>3. UNCHANGED <<mutex, shutdown, crashed, candidates, to_remove>>
    BY DEF TurnStep, getOrCreateInternal, LockSession, TurnedAway, SpawnWorker, UnlockSession, releaseSessionRef
  <2>4. OnlyMoves(t)
    BY <1>0 DEF TurnStep, getOrCreateInternal, FindSession, CreateSession, LockSession, TurnedAway, SpawnWorker,
                UnlockSession, releaseSessionRef, OnlyMoves, TypeOK
  <2> QED
    BY <2>2, <2>3, <2>4
<1>2. pc[t] # "idle" => ptr[t] \in Objects /\ ptr[t] # None
  BY <1>0, UserFacts, NoneAssumption
<1>3. PeekersLock'
  BY <1>0, <1>1 DEF SafeInv, PeekersLock, OnlyMoves, Threads
<1>4. ASSUME NEW k \in Keys, getOrCreateInternal(t, k) PROVE Lifetimes' /\ Quiet' /\ Locks'
  <2>1. Locks'
    BY <1>0, <1>1, <1>4, UseLocks DEF getOrCreateInternal, TypeOK
  <2>2. CASE FindSession(t, k)
    <3>1. ptr'[t] = sessions[k] /\ UNCHANGED <<sessions, phase, keyOf, worker>>
      BY <1>0, <1>4, <2>2 DEF getOrCreateInternal, FindSession, TypeOK
    <3> QED
      BY <1>0, <1>1, <2>1, <3>1, UseSafe
  <2>3. CASE CreateSession(t, k)
    BY <1>1, <1>4, <2>1, <2>3, CreateSafe DEF getOrCreateInternal
  <2> QED
    BY <1>4, <2>2, <2>3 DEF getOrCreateInternal
<1>5. ASSUME LockSession(t) PROVE Lifetimes' /\ Quiet' /\ Locks'
  <2>1. Locks'
    BY <1>0, <1>1, <1>2, <1>5, UseLocks DEF LockSession
  <2> QED
    BY <1>0, <1>1, <1>5, <2>1, UseSafe DEF LockSession
<1>6. ASSUME TurnedAway(t) PROVE Lifetimes' /\ Quiet' /\ Locks'
  <2>1. Locks'
    BY <1>0, <1>1, <1>6, UseLocks DEF TurnedAway, TypeOK
  <2> QED
    BY <1>0, <1>1, <1>6, <2>1, UseSafe DEF TurnedAway
<1>7. ASSUME SpawnWorker(t) PROVE Lifetimes' /\ Quiet' /\ Locks'
  <2>1. Locks'
    BY <1>0, <1>1, <1>7, UseLocks DEF SpawnWorker
  <2>2. \A o \in Objects : worker'[o] => worker[o] \/ o = ptr[t]
    BY <1>0, <1>7 DEF SpawnWorker, TypeOK
  <2> QED
    BY <1>0, <1>1, <1>7, <2>1, <2>2, UseSafe DEF SpawnWorker
<1>8. ASSUME UnlockSession(t) PROVE Lifetimes' /\ Quiet' /\ Locks'
  <2>1. Locks'
    BY <1>0, <1>1, <1>8, UseLocks DEF UnlockSession, TypeOK
  <2> QED
    BY <1>0, <1>1, <1>8, <2>1, UseSafe DEF UnlockSession
<1>9. ASSUME releaseSessionRef(t) PROVE Lifetimes' /\ Quiet' /\ Locks'
  <2>1. Locks'
    BY <1>0, <1>1, <1>9, UseLocks DEF releaseSessionRef, TypeOK
  <2>2. ptr'[t] = None
    BY <1>0, <1>9 DEF releaseSessionRef, TypeOK
  <2> QED
    BY <1>0, <1>1, <1>9, <2>1, <2>2, UseSafe DEF releaseSessionRef
<1> QED
  BY <1>3, <1>4, <1>5, <1>6, <1>7, <1>8, <1>9 DEF TurnStep, SafeInv

(* The steps of cancels keep the invariant.                                   *)
LEMMA SafeCancel ==
    ASSUME SafeInv, RefInv', NEW t \in Cancels, CancelStep(t)
    PROVE  SafeInv'
<1> USE DEF Starts, At, Goto, Return, evict, stop
<1>0. t \in Pinners \cup Peekers /\ t \in Threads /\ t \notin Peekers /\ TypeOK
  BY UserFacts, ThreadKindsDisjoint DEF Pinners, SafeInv, RefInv
<1>1. /\ UNCHANGED <<sessions, phase, keyOf, mutex, lock, worker, shutdown, crashed, candidates, to_remove>>
      /\ OnlyMoves(t) /\ pc'[t] \in {"idle", "found"}
      /\ shutdown = "up" \/ pc[t] # "idle"
      /\ ptr'[t] = None \/ \E k \in Keys : ptr'[t] = sessions[k]
  BY <1>0 DEF CancelStep, CancelPin, CancelUnpin, OnlyMoves, TypeOK
<1>2. shutdown \notin {"flush", "deinit"}
  BY <1>0, <1>1 DEF SafeInv, Quiet, Quiesced
<1>3. PeekersLock'
  BY <1>0, <1>1 DEF SafeInv, PeekersLock, OnlyMoves, Threads
<1>4. Locks'
  BY <1>0, <1>1, UseLocks
<1> QED
  BY <1>0, <1>1, <1>2, <1>3, <1>4, UseSafe DEF SafeInv

(* The steps of the read routes keep the invariant.                           *)
LEMMA SafePeek ==
    ASSUME SafeInv, RefInv', NEW t \in Peekers, PeekStep(t)
    PROVE  SafeInv'
<1> USE DEF Starts, At, Goto, Return, evict, stop
<1>0. t \in Pinners \cup Peekers /\ t \in Threads /\ t \notin Turns /\ TypeOK
  BY UserFacts, ThreadKindsDisjoint DEF Pinners, SafeInv, RefInv
<1>1. /\ UNCHANGED <<sessions, phase, keyOf, worker, shutdown, crashed, candidates, to_remove>>
      /\ OnlyMoves(t) /\ (shutdown = "up" \/ pc[t] # "idle")
      /\ ptr'[t] \in {None, ptr[t]} \/ \E k \in Keys : ptr'[t] = sessions[k]
  BY <1>0 DEF PeekStep, PeekFind, PeekLock, UnlockSession, OnlyMoves, TypeOK
<1>2. shutdown \notin {"flush", "deinit"}
  BY <1>0, <1>1 DEF SafeInv, Quiet, Quiesced
<1>3. ASSUME NEW k \in Keys, PeekFind(t, k) PROVE PeekersLock' /\ Locks'
  <2>1. mutex = None /\ mutex' = t /\ pc' = [pc EXCEPT ![t] = "escalating"] /\ lock' = lock
    BY <1>3 DEF PeekFind
  <2>2. \A u \in Peekers : u \in Threads /\ u # None
    BY NoneAssumption DEF Threads
  <2>3. PeekersLock'
    BY <1>0, <2>1, <2>2 DEF SafeInv, PeekersLock, TypeOK
  <2> QED
    BY <1>0, <1>1, <2>1, <2>3, UseLocks DEF TypeOK
<1>4. ASSUME PeekLock(t) PROVE PeekersLock' /\ Locks'
  <2>1. /\ mutex' = None /\ pc[t] = "escalating" /\ pc' = [pc EXCEPT ![t] = "inside"] /\ ptr' = ptr
        /\ lock[ptr[t]] = None /\ lock' = [lock EXCEPT ![ptr[t]] = t]
    BY <1>4 DEF PeekLock
  <2>2. \A u \in Peekers : u \in Threads
    BY DEF Threads
  <2>3. PeekersLock'
    BY <1>0, <2>1, <2>2 DEF SafeInv, PeekersLock, TypeOK
  <2>4. ptr[t] \in Objects
    BY <1>0, <2>1, UserFacts
  <2> QED
    BY <1>0, <1>1, <2>1, <2>3, <2>4, UseLocks
<1>5. ASSUME UnlockSession(t) PROVE PeekersLock' /\ Locks'
  <2>1. /\ mutex' = mutex /\ pc[t] = "inside" /\ pc' = [pc EXCEPT ![t] = "idle"]
        /\ lock' = [lock EXCEPT ![ptr[t]] = None]
    BY <1>0, <1>5 DEF UnlockSession
  <2>2. PeekersLock'
    BY <1>0, <2>1 DEF SafeInv, PeekersLock, TypeOK, Threads
  <2> QED
    BY <1>0, <1>1, <2>1, <2>2, UseLocks DEF TypeOK
<1>6. Lifetimes' /\ Quiet'
  BY <1>0, <1>1, <1>2, UseSafe
<1> QED
  BY <1>3, <1>4, <1>5, <1>6 DEF PeekStep, SafeInv

(* What nobody has pinned and nobody keeps locked, nobody points to.          *)
LEMMA UnpinnedUnused ==
    ASSUME SafeInv, NEW o \in Objects, phase[o] = "live", active_refs[o] = 0, NEW t \in Pinners
    PROVE  ptr[t] # o
<1>1. Pins(o) = {}
  BY PinsFinite, FS_EmptySet DEF SafeInv, RefInv, RefsMatchPins
<1> QED
  BY <1>1 DEF Pins

(* Beside a purge nobody reads without a pin and nobody deletes.              *)
LEMMA PurgeAlone ==
    ASSUME Spared, SafeInv, PurgesAlone, NEW e \in Purgers, pc[e] # "idle"
    PROVE  /\ \A t \in Threads \ Pinners : ptr[t] = None
           /\ \A f \in Purgers \ {e} : candidates[f] = {} /\ to_remove[f] = {}
<1>1. \A t \in Threads \ (Pinners \cup {e}) : pc[t] = "idle"
  BY DEF PurgesAlone
<1>2. \A t \in Threads \ (Pinners \cup {e}) : ptr[t] = None
  BY <1>1 DEF SafeInv, RefInv, Coherent, EvictorsPointNowhere, Callers
<1>3. ptr[e] = None /\ \A f \in Purgers : f \in Threads /\ f \notin Pinners
  BY ThreadKindsDisjoint DEF SafeInv, RefInv, EvictorsPointNowhere, Threads, Evictors, Pinners
<1> QED
  BY <1>1, <1>2, <1>3 DEF SafeInv, Quiet, IdleCollectsNothing

(* The steps of evictUserSessions keep the invariant: what a purge frees has  *)
(* no pins, and they are looked at under the mutex that guards them.          *)
LEMMA SafePurge ==
    ASSUME Spared, SafeInv, RefInv', PurgesAlone, PurgesAlone', NEW e \in Purgers, PurgeStep(e)
    PROVE  SafeInv'
<1> USE DEF Starts, Goto, evict, stop
<1>0. /\ e \in Threads /\ e \in Evictors /\ e \notin Peekers /\ e # None /\ TypeOK
      /\ \A t \in Turns \cup Peekers : t \in Threads /\ t # e /\ t # None
      /\ \A t \in Peekers : t \in Threads /\ t # e
  BY ThreadKindsDisjoint, NoneAssumption DEF SafeInv, RefInv, Threads, Evictors, Pinners
<1>1. /\ UNCHANGED <<mutex, shutdown, crashed, keyOf, active_refs, ptr>>
      /\ \A t \in Threads \ {e} : pc'[t] = pc[t]
      /\ shutdown = "up" \/ pc[e] # "idle"
      /\ pc[e] # "idle" \/ pc'[e] # "idle"
  BY <1>0 DEF PurgeStep, PurgeCollect, Collect, PurgeUnlock, PurgeRemove, Remove, TypeOK
<1>2. NoUseAfterFree' /\ Quiesced' /\ DeletersDelete' /\ PeekersLock' /\ OneDelete'
  BY <1>0, <1>1, ThreadKindsDisjoint
     DEF SafeInv, Quiet, NoUseAfterFree, Quiesced, DeletersDelete, PeekersLock, Lifetimes, OneDelete, Threads
<1>3. \A f \in Purgers \ {e} : candidates[f] = {} /\ to_remove[f] = {}
  <2>1. CASE pc[e] # "idle"
    BY <2>1, PurgeAlone
  <2>2. CASE pc'[e] # "idle"
    <3>1. \A f \in Purgers \ {e} : f \in Threads \ (Pinners \cup {e})
      BY ThreadKindsDisjoint DEF Pinners, Threads, Evictors
    <3>2. \A f \in Purgers \ {e} : pc'[f] = "idle"
      BY <2>2, <3>1 DEF PurgesAlone
    <3> QED
      BY <1>1, <3>1, <3>2 DEF SafeInv, Quiet, IdleCollectsNothing
  <2> QED
    BY <1>1, <2>1, <2>2
<1>4. ASSUME PurgeCollect(e) PROVE Lifetimes' /\ Locks' /\ IdleCollectsNothing'
  <2>1. /\ candidates' = [candidates EXCEPT ![e] = Evictable] /\ pc' = [pc EXCEPT ![e] = "collected"]
        /\ lock' = [o \in Objects |-> IF o \in Evictable THEN e ELSE lock[o]]
        /\ UNCHANGED <<sessions, phase, worker, to_remove>> /\ pc[e] = "idle"
    BY <1>4 DEF PurgeCollect, Collect
  <2>2. \A o \in Evictable : o \in Objects /\ phase[o] = "live" /\ lock[o] = None
    BY NoneAssumption DEF Evictable, Mapped, SafeInv, RefInv, MapSound
  <2>3. to_remove[e] = {} /\ candidates'[e] = Evictable /\ \A f \in Purgers \ {e} : candidates'[f] = candidates[f]
    BY <2>1, <1>0 DEF SafeInv, Quiet, IdleCollectsNothing, TypeOK, Evictors
  <2>4. Lifetimes'
    BY <2>1, <2>2, <2>3, <1>1 DEF SafeInv, Lifetimes, PointersLive, PointToMapped, OneDelete, WorkersLive,
       CollectedLive, LiveKeyed
  <2>5. InsideLocks'
    <3> SUFFICES ASSUME NEW t \in Turns \cup Peekers, pc'[t] = "inside" PROVE lock'[ptr'[t]] = t
      BY DEF InsideLocks
    <3>1. t \in Pinners \cup Peekers /\ pc[t] = "inside" /\ ptr'[t] = ptr[t] /\ t # None
      BY <1>0, <1>1 DEF Pinners
    <3>2. lock[ptr[t]] = t /\ ptr[t] \in Objects
      BY <3>1, UserFacts DEF SafeInv, Locks, InsideLocks
    <3> QED
      BY <3>1, <3>2, <2>1, <2>2
  <2>6. CollectedLocked'
    BY <1>3, <2>1, <2>2, <2>3 DEF CollectedLocked
  <2>7. IdleCollectsNothing'
    BY <1>0, <1>3, <2>1, <2>3 DEF IdleCollectsNothing, TypeOK
  <2> QED
    BY <2>4, <2>5, <2>6, <2>7 DEF Locks
<1>5. ASSUME PurgeUnlock(e) PROVE Lifetimes' /\ Locks' /\ IdleCollectsNothing'
  <2>1. /\ candidates' = [candidates EXCEPT ![e] = {}] /\ to_remove' = [to_remove EXCEPT ![e] = candidates[e]]
        /\ lock' = [o \in Objects |-> IF o \in candidates[e] THEN None ELSE lock[o]]
        /\ UNCHANGED <<sessions, phase, worker, pc>> /\ pc[e] = "collected"
    BY <1>5 DEF PurgeUnlock
  <2>2. Lifetimes'
    BY <2>1, <1>0, <1>1 DEF SafeInv, TypeOK, Lifetimes, PointersLive, PointToMapped, OneDelete, WorkersLive,
       CollectedLive, LiveKeyed
  <2>3. InsideLocks'
    <3> SUFFICES ASSUME NEW t \in Turns \cup Peekers, pc'[t] = "inside" PROVE lock'[ptr'[t]] = t
      BY DEF InsideLocks
    <3>1. t \in Pinners \cup Peekers /\ pc[t] = "inside" /\ ptr'[t] = ptr[t] /\ lock[ptr[t]] = t
      BY <1>0, <1>1 DEF SafeInv, Locks, InsideLocks, Pinners
    <3>2. ptr[t] \in Objects /\ ptr[t] \notin candidates[e]
      BY <3>1, <1>0, UserFacts DEF SafeInv, Locks, CollectedLocked
    <3> QED
      BY <3>1, <3>2, <2>1
  <2>4. CollectedLocked' /\ IdleCollectsNothing'
    BY <2>1, <1>0, <1>3 DEF CollectedLocked, IdleCollectsNothing, TypeOK, Evictors
  <2> QED
    BY <2>2, <2>3, <2>4 DEF Locks
<1>6. ASSUME PurgeRemove(e) PROVE Lifetimes' /\ Locks' /\ IdleCollectsNothing'
  <2> DEFINE gone == {o \in Victims(e) : StillUnused(o)}
  <2>1. /\ Unmap(gone) /\ Free(gone) /\ DeinitWaits(gone) /\ UNCHANGED <<lock, candidates>> /\ pc[e] = "collected"
        /\ candidates[e] = {} /\ to_remove' = [to_remove EXCEPT ![e] = {}] /\ pc' = [pc EXCEPT ![e] = "idle"]
    BY <1>6 DEF PurgeRemove, Remove
  <2>2. \A o \in gone : o \in Objects /\ phase[o] = "live" /\ active_refs[o] = 0
    <3> SUFFICES ASSUME NEW o \in gone PROVE o \in Objects /\ phase[o] = "live" /\ active_refs[o] = 0
      OBVIOUS
    <3>1. PICK p \in to_remove[e] : o = sessions[keyOf[p]] /\ o # None
      BY DEF Victims
    <3>2. p \in Objects /\ keyOf[p] \in Keys
      BY <1>0, <3>1 DEF SafeInv, TypeOK, Lifetimes, CollectedLive, LiveKeyed
    <3> QED
      BY <1>0, <3>1, <3>2 DEF SafeInv, RefInv, TypeOK, MapSound, StillUnused
  <2>3. \A t \in Threads : ptr[t] \notin gone \/ ptr[t] = None
    BY <2>1, <2>2, PurgeAlone, UnpinnedUnused
  <2> HIDE DEF gone
  <2>4. \A o \in Objects : phase'[o] = IF o \in gone THEN "freed" ELSE phase[o]
    BY <2>1 DEF Free
  <2>5. PointersLive'
    BY <2>3, <2>4, <1>0, <1>1 DEF SafeInv, TypeOK, Lifetimes, PointersLive
  <2>6. PointToMapped'
    BY <2>1, <2>3, <1>1 DEF SafeInv, Lifetimes, PointToMapped, Unmap, Threads
  <2>7. WorkersLive'
    <3>1. \A o \in Objects : worker'[o] => worker[o] /\ o \notin gone
      BY <2>1 DEF DeinitWaits, Spared
    <3> QED
      BY <3>1, <2>4 DEF SafeInv, Lifetimes, WorkersLive
  <2>8. CollectedLive' /\ IdleCollectsNothing' /\ CollectedLocked'
    BY <2>1, <1>0, <1>3 DEF CollectedLive, IdleCollectsNothing, CollectedLocked, TypeOK, Evictors
  <2>9. LiveKeyed' /\ InsideLocks'
    BY <2>1, <2>4, <1>0, <1>1 DEF SafeInv, Lifetimes, LiveKeyed, Locks, InsideLocks
  <2> QED
    BY <1>2, <2>5, <2>6, <2>7, <2>8, <2>9 DEF Lifetimes, Locks
<1> QED
  BY <1>2, <1>4, <1>5, <1>6 DEF PurgeStep, SafeInv, Quiet

(* The steps of handleSessionDelete keep the invariant: it takes only what    *)
(* nobody has pinned or locked while it holds both mutexes, and from then on  *)
(* nobody finds it.                                                           *)
LEMMA SafeDelete ==
    ASSUME Spared, SafeInv, RefInv', PurgesAlone, PurgesAlone', NEW d \in Deleters, DeleteStep(d)
    PROVE  SafeInv'
<1> USE DEF Starts, At, Goto, Return, evict, stop
<1>0. /\ d \in Threads /\ d \notin Pinners \cup Peekers /\ d \notin Evictors /\ d # None /\ TypeOK
      /\ \A c \in Deleters : c \in Threads /\ c \in Callers
  BY ThreadKindsDisjoint, NoneAssumption DEF SafeInv, RefInv, Threads, Evictors, Pinners, Callers
<1>1. /\ UNCHANGED <<keyOf, mutex, lock, shutdown, crashed, candidates, to_remove>>
      /\ \A t \in Threads \ {d} : pc'[t] = pc[t] /\ ptr'[t] = ptr[t]
      /\ shutdown = "up" \/ pc[d] # "idle"
      /\ pc[d] # "idle" \/ pc'[d] # "idle"
  BY <1>0 DEF DeleteStep, DeleteUnmap, DeleteDestroy, TypeOK
<1>2. \A t \in Pinners \cup Peekers \cup Purgers : t \in Threads \ {d}
  BY <1>0 DEF Threads, Pinners, Evictors
<1>3. Quiet' /\ Locks' /\ PeekersLock'
  <2>1. NoUseAfterFree' /\ IdleCollectsNothing' /\ Quiesced'
    BY <1>0, <1>1, <1>2 DEF SafeInv, Quiet, NoUseAfterFree, IdleCollectsNothing, Quiesced
  <2>3. DeletersDelete'
    BY <1>0, <1>1 DEF SafeInv, Quiet, DeletersDelete, DeleteStep, DeleteUnmap, DeleteDestroy, TypeOK
  <2>2. Locks' /\ PeekersLock'
    BY <1>1, <1>2 DEF SafeInv, Locks, InsideLocks, CollectedLocked, PeekersLock, Pinners
  <2> QED
    BY <2>1, <2>2, <2>3 DEF Quiet
<1>4. \A e \in Purgers : candidates[e] = {} /\ to_remove[e] = {}
  <2>1. \A e \in Purgers : pc[e] = "idle"
    BY <1>0, <1>1, <1>2 DEF PurgesAlone
  <2> QED
    BY <2>1 DEF SafeInv, Quiet, IdleCollectsNothing
<1>5. CollectedLive'
  BY <1>1, <1>4 DEF CollectedLive
<1>6. ASSUME NEW k \in Keys, DeleteUnmap(d, k) PROVE Lifetimes'
  <2> DEFINE o == sessions[k]
  <2>1. /\ o \in Objects /\ active_refs[o] = 0 /\ lock[o] = None /\ mutex = None
        /\ ptr' = [ptr EXCEPT ![d] = o] /\ sessions' = [sessions EXCEPT ![k] = None]
        /\ UNCHANGED <<phase, worker>>
    BY <1>6 DEF DeleteUnmap, Evictable, Mapped
  <2>2. phase[o] = "live" /\ keyOf[o] = k /\ o # None
    BY <2>1, NoneAssumption DEF SafeInv, RefInv, MapSound
  <2> HIDE DEF o
  <2>3. \A t \in Pinners \cup Peekers : ptr[t] # o
    <3>1. \A t \in Pinners : ptr[t] # o
      BY <2>1, <2>2, UnpinnedUnused
    <3>2. ASSUME NEW t \in Peekers, ptr[t] = o PROVE FALSE
      <4>1. t # None /\ pc[t] # "idle"
        BY <2>2, <3>2, UserFacts
      <4>2. pc[t] = "inside"
        BY <2>1, <4>1 DEF SafeInv, PeekersLock
      <4> QED
        BY <2>1, <3>2, <4>1, <4>2 DEF SafeInv, Locks, InsideLocks
    <3> QED
      BY <3>1, <3>2
  <2>4. PointersLive'
    BY <1>0, <1>1, <2>1, <2>2 DEF SafeInv, Lifetimes, PointersLive, TypeOK
  <2>5. PointToMapped'
    <3> SUFFICES ASSUME NEW u \in Pinners \cup Peekers, ptr'[u] # None
                 PROVE  keyOf'[ptr'[u]] \in Keys /\ sessions'[keyOf'[ptr'[u]]] = ptr'[u]
      BY DEF PointToMapped
    <3>1. ptr'[u] = ptr[u] /\ ptr[u] # o
      BY <1>1, <1>2, <2>3
    <3>2. keyOf[ptr[u]] \in Keys \ {k} /\ sessions[keyOf[ptr[u]]] = ptr[u]
      BY <3>1 DEF o, SafeInv, Lifetimes, PointToMapped
    <3> QED
      BY <1>0, <1>1, <2>1, <3>1, <3>2 DEF TypeOK
  <2>6. \A c \in Deleters : ptr[c] # o
    <3> SUFFICES ASSUME NEW c \in Deleters, ptr[c] = o PROVE FALSE
      OBVIOUS
    <3>1. pc[c] # "idle"
      BY <1>0, <2>2 DEF SafeInv, RefInv, Coherent
    <3>2. pc[c] # "removed"
      BY DEF o, SafeInv, RefInv, RemovedUnmapped
    <3> QED
      BY <3>1, <3>2 DEF SafeInv, Quiet, DeletersDelete
  <2>7. OneDelete'
    BY <1>0, <1>1, <2>1, <2>6 DEF SafeInv, Lifetimes, OneDelete, TypeOK
  <2>8. WorkersLive' /\ LiveKeyed'
    BY <1>1, <2>1 DEF SafeInv, Lifetimes, WorkersLive, LiveKeyed
  <2> QED
    BY <1>5, <2>4, <2>5, <2>7, <2>8 DEF Lifetimes
<1>7. ASSUME DeleteDestroy(d) PROVE Lifetimes'
  <2> DEFINE o == ptr[d]
  <2>1. /\ pc[d] = "removed" /\ Free({o}) /\ DeinitWaits({o}) /\ ptr' = [ptr EXCEPT ![d] = None]
        /\ sessions' = sessions
    BY <1>7 DEF DeleteDestroy
  <2>2. o # None /\ \A k \in Keys : sessions[k] # o
    BY <1>0, <2>1 DEF SafeInv, RefInv, Coherent, RemovedUnmapped
  <2> HIDE DEF o
  <2>3. \A p \in Objects : phase'[p] = IF p = o THEN "freed" ELSE phase[p]
    BY <2>1 DEF Free
  <2>4. \A t \in Pinners \cup Peekers : ptr[t] # o
    BY <2>2 DEF SafeInv, Lifetimes, PointToMapped
  <2>5. \A c \in Deleters \ {d} : ptr[c] # o
    BY <2>2 DEF o, SafeInv, Lifetimes, OneDelete
  <2>6. \A t \in Threads \ {d} : ptr[t] # o
    BY <2>2, <2>4, <2>5 DEF Threads, Spared, Evictors, SafeInv, RefInv, EvictorsPointNowhere
  <2>7. PointersLive'
    BY <1>0, <1>1, <2>1, <2>3, <2>6 DEF SafeInv, Lifetimes, PointersLive, TypeOK
  <2>8. PointToMapped' /\ OneDelete'
    BY <1>0, <1>1, <1>2, <2>1 DEF SafeInv, Lifetimes, PointToMapped, OneDelete, TypeOK
  <2>9. WorkersLive'
    <3>1. \A p \in Objects : worker'[p] => worker[p] /\ p # o
      BY <2>1 DEF DeinitWaits, Spared
    <3> QED
      BY <3>1, <2>3 DEF SafeInv, Lifetimes, WorkersLive
  <2>10. LiveKeyed'
    BY <1>1, <2>3 DEF SafeInv, Lifetimes, LiveKeyed
  <2> QED
    BY <1>5, <2>7, <2>8, <2>9, <2>10 DEF Lifetimes
<1> QED
  BY <1>3, <1>6, <1>7 DEF DeleteStep, SafeInv

(* The steps of the shutdown keep the invariant.                              *)
LEMMA SafeShutdown ==
    ASSUME Spared, SafeInv, RefInv', ShutdownStep
    PROVE  SafeInv'
<1> USE DEF evict, stop
<1>0. TypeOK
  BY DEF SafeInv, RefInv
<1>1. ASSUME RequestShutdown \/ Undrain \/ BeginFlush \/ BeginDeinit \/ \E o \in Objects : FlushSession(o)
      PROVE  SafeInv'
  <2>1. UNCHANGED <<sessions, mutex, phase, keyOf, lock, worker, pc, ptr, candidates, to_remove, crashed>>
    BY <1>1 DEF RequestShutdown, Undrain, BeginFlush, BeginDeinit, FlushSession
  <2>2. Quiesced'
    BY <1>1 DEF RequestShutdown, Undrain, BeginFlush, BeginDeinit, FlushSession, SafeInv, Quiet, Quiesced
  <2>3. Lifetimes'
    BY <2>1 DEF SafeInv, Lifetimes, PointersLive, PointToMapped, OneDelete, WorkersLive, CollectedLive, LiveKeyed
  <2> QED
    BY <2>1, <2>2, <2>3
       DEF SafeInv, Quiet, NoUseAfterFree, Locks, IdleCollectsNothing, InsideLocks, CollectedLocked,
           PeekersLock, DeletersDelete
<1>2. ASSUME NEW o \in Objects, DeinitSession(o) PROVE SafeInv'
  <2>1. /\ phase' = [phase EXCEPT ![o] = Abandoned(o)] /\ shutdown = "deinit"
        /\ UNCHANGED <<mutex, keyOf, lock, worker, pc, ptr, candidates, to_remove, shutdown, crashed>>
    BY <1>2 DEF DeinitSession
  <2>2. \A t \in Threads : pc[t] = "idle" /\ ptr[t] = None
    BY <2>1 DEF SafeInv, RefInv, Coherent, EvictorsPointNowhere, Callers, Quiet, Quiesced
  <2>3. \A e \in Purgers : candidates[e] = {} /\ to_remove[e] = {}
    BY <2>2 DEF SafeInv, Quiet, IdleCollectsNothing, Threads, Evictors
  <2>4. PointersLive' /\ PointToMapped' /\ OneDelete' /\ CollectedLive'
    BY <2>1, <2>2, <2>3 DEF PointersLive, PointToMapped, OneDelete, CollectedLive, Threads
  <2>5. WorkersLive' /\ LiveKeyed'
    BY <2>1, <1>0 DEF SafeInv, TypeOK, Lifetimes, WorkersLive, LiveKeyed, Abandoned
  <2>6. Locks' /\ PeekersLock' /\ Quiet'
    BY <2>1 DEF SafeInv, Locks, PeekersLock, Quiet, NoUseAfterFree, IdleCollectsNothing, Quiesced,
                InsideLocks, CollectedLocked, DeletersDelete
  <2> QED
    BY <2>4, <2>5, <2>6 DEF SafeInv, Lifetimes
<1> QED
  BY <1>1, <1>2 DEF ShutdownStep

(* Every step beside which a purge is alone keeps the invariant.              *)
LEMMA SafeNext ==
    ASSUME Spared
    PROVE  SafeInv /\ PurgesAlone /\ PurgesAlone' /\ [Next]_vars => SafeInv'
<1> SUFFICES ASSUME SafeInv, PurgesAlone, PurgesAlone', [Next]_vars PROVE SafeInv'
  OBVIOUS
<1>1. RefInv'
  BY NextRef DEF SafeInv
<1>2. ASSUME NEW o \in Objects, WorkerDone(o) PROVE SafeInv'
  BY <1>1, <1>2 DEF WorkerDone, SafeInv, RefInv, TypeOK, Lifetimes, PointersLive, PointToMapped, OneDelete,
     WorkersLive, CollectedLive, LiveKeyed, Locks, InsideLocks, CollectedLocked, PeekersLock,
     Quiet, NoUseAfterFree, IdleCollectsNothing, Quiesced, DeletersDelete, evict, stop
<1>3. ~UseAfterFree
  <2>1. \A t \in Threads : ~Dangling(t)
    BY DEF Dangling, Intact, Freed, Spared, Evictors, SafeInv, Lifetimes, PointersLive, CollectedLive
  <2>2. \A o \in Objects : ~(worker[o] /\ Freed(o))
    BY DEF Freed, SafeInv, Lifetimes, WorkersLive
  <2> QED
    BY <2>1, <2>2 DEF UseAfterFree
<1>4. ASSUME UNCHANGED vars PROVE SafeInv'
  BY <1>1, <1>4 DEF vars, SafeInv, Lifetimes, PointersLive, PointToMapped, OneDelete,
     WorkersLive, CollectedLive, LiveKeyed, Locks, InsideLocks, CollectedLocked, PeekersLock,
     Quiet, NoUseAfterFree, IdleCollectsNothing, Quiesced, DeletersDelete, evict, stop
<1> QED
  BY <1>1, <1>2, <1>3, <1>4, SafeTurn, SafeCancel, SafePeek, SafePurge, SafeDelete, SafeShutdown
     DEF Next, Spared

(* The invariant holds as long as purges run alone.                           *)
LEMMA SafeInvariant ==
    ASSUME Spared
    PROVE  Spec /\ []PurgesAlone => []SafeInv
BY InitSafe, SafeNext, PTL DEF Spec

(* However turns, cancels, reads, deletes, purges and the shutdown interleave,*)
(* none of them touches a destroyed session: the second look of               *)
(* evictUserSessions at active_refs is enough for everyone who pins, and the  *)
(* two mutexes handleSessionDelete takes together are enough for everyone     *)
(* who pins or locks.                                                         *)
THEOREM PinnedNeverFreed ==
    ASSUME Spared
    PROVE  Spec /\ []PurgesAlone => []NoUseAfterFree
<1>1. SafeInv => NoUseAfterFree
  BY DEF SafeInv, Quiet
<1> QED
  BY <1>1, SafeInvariant, PTL

(* Two turns inside one conversation would hold the same mutex.               *)
LEMMA SafeOneTurn == SafeInv => OneTurnPerKey
<1> SUFFICES ASSUME SafeInv, NEW t \in Turns, NEW u \in Turns, pc[t] = "inside", pc[u] = "inside",
                    keyOf[ptr[t]] = keyOf[ptr[u]]
             PROVE  t = u
  BY DEF OneTurnPerKey
<1>1. \A v \in Turns : v \in Pinners \cup Peekers
  BY DEF Pinners
<1>2. ptr[t] # None /\ lock[ptr[t]] = t /\ ptr[u] # None /\ lock[ptr[u]] = u
  BY <1>1, UserFacts DEF SafeInv, Locks, InsideLocks
<1>3. ptr[t] = ptr[u]
  BY <1>1, <1>2 DEF SafeInv, Lifetimes, PointToMapped
<1> QED
  BY <1>2, <1>3

(* A conversation is run by one turn at a time, although its session may be   *)
(* deleted or purged and created anew while turns for it keep arriving.       *)
THEOREM OneTurnAtATime ==
    ASSUME Spared
    PROVE  Spec /\ []PurgesAlone => []OneTurnPerKey
BY SafeInvariant, SafeOneTurn, PTL

-----------------------------------------------------------------------------
(* The limit on a user's sessions.                                            *)

Used == {k \in Keys : sessions[k] # None}

(* Taking sessions out of the map makes no key occupied.                      *)
LEMMA FewerKeys ==
    ASSUME TypeOK, SessionLimit, Used' \subseteq Used
    PROVE  SessionLimit'
<1>1. IsFiniteSet(Used)
  BY PinnersFinite, FS_Subset DEF Used
<1>2. Cardinality(Used') <= Cardinality(Used) /\ Cardinality(Used') \in Nat /\ Cardinality(Used) \in Nat
  BY <1>1, FS_Subset, FS_CardinalityType
<1>3. MapCount = Cardinality(Used) /\ MapCount' = Cardinality(Used')
  BY DEF MapCount, Used
<1> QED
  BY <1>2, <1>3, LimitAssumption DEF SessionLimit

(* Every step keeps the limit: only a creation adds to the map.               *)
LEMMA LimitNext == TypeOK /\ SessionLimit /\ [Next]_vars => SessionLimit'
<1> SUFFICES ASSUME TypeOK, SessionLimit, [Next]_vars PROVE SessionLimit'
  OBVIOUS
<1>1. CASE UNCHANGED sessions
  BY <1>1, FewerKeys DEF Used
<1>2. ASSUME NEW t, NEW k \in Keys, CreateSession(t, k) PROVE SessionLimit'
  <2>1. Used' = Used \cup {k} /\ k \notin Used
    BY <1>2, NoneAssumption DEF CreateSession, Used, TypeOK
  <2>2. IsFiniteSet(Used)
    BY PinnersFinite, FS_Subset DEF Used
  <2>3. Cardinality(Used') = Cardinality(Used) + 1 /\ Cardinality(Used) \in Nat
    BY <2>1, <2>2, FS_AddElement, FS_CardinalityType
  <2>4. MapCount = Cardinality(Used) /\ MapCount' = Cardinality(Used') /\ MapCount < MaxSessionsPerUser
    BY <1>2 DEF MapCount, Used, CreateSession, BelowLimit
  <2> QED
    BY <2>3, <2>4, LimitAssumption DEF SessionLimit
<1>3. ASSUME NEW gone, Unmap(gone) PROVE SessionLimit'
  BY <1>3, FewerKeys DEF Unmap, Used
<1>4. ASSUME NEW d, NEW k \in Keys, DeleteUnmap(d, k) PROVE SessionLimit'
  BY <1>4, FewerKeys DEF DeleteUnmap, Used, TypeOK
<1>5. \/ UNCHANGED sessions
      \/ \E t \in Threads, k \in Keys : CreateSession(t, k)
      \/ \E gone \in {Victims(e) : e \in Evictors} \cup {{o \in Victims(e) : StillUnused(o)} : e \in Evictors}
                     \cup {{o} : o \in Objects} : Unmap(gone)
      \/ \E d \in Deleters, k \in Keys : DeleteUnmap(d, k)
  <2> USE DEF Threads, Pinners, Evictors
  <2>1. ASSUME NEW t \in Turns, TurnStep(t) PROVE UNCHANGED sessions \/ \E k \in Keys : CreateSession(t, k)
    BY <2>1 DEF TurnStep, getOrCreateInternal, FindSession, LockSession, TurnedAway, SpawnWorker, UnlockSession, releaseSessionRef
  <2>2. ASSUME NEW t \in Probes, ProbeStep(t) PROVE UNCHANGED sessions \/ \E k \in Keys : CreateSession(t, k)
    BY <2>2 DEF ProbeStep, getOrCreateInternal, FindSession, LockSession, UnlockSession
  <2>3. ASSUME NEW t, CancelStep(t) \/ PeekStep(t) PROVE UNCHANGED sessions
    BY <2>3 DEF CancelStep, CancelPin, CancelUnpin, PeekStep, PeekFind, PeekLock, UnlockSession
  <2>4. ASSUME NEW e \in Sweepers, SweepStep(e) PROVE UNCHANGED sessions \/ Unmap(Victims(e))
    BY <2>4 DEF SweepStep, SweepCollect, Collect, SweepVisit, SweepBail, SweepRemove, Remove, SweepCheckpoint, SweepDefer
  <2>5. ASSUME NEW e \in Purgers, PurgeStep(e)
        PROVE  UNCHANGED sessions \/ Unmap({o \in Victims(e) : StillUnused(o)})
    BY <2>5 DEF PurgeStep, PurgeCollect, Collect, PurgeUnlock, PurgeRemove, Remove
  <2>6. ASSUME NEW d \in Deleters, DeleteStep(d) PROVE UNCHANGED sessions \/ \E k \in Keys : DeleteUnmap(d, k)
    BY <2>6 DEF DeleteStep, DeleteDestroy
  <2>7. ASSUME (\E o \in Objects : WorkerDone(o)) \/ ShutdownStep \/ UseAfterFree \/ UNCHANGED vars
        PROVE  UNCHANGED sessions \/ \E o \in Objects : Unmap({o})
    BY <2>7 DEF WorkerDone, ShutdownStep, RequestShutdown, Undrain, BeginFlush, BeginDeinit, FlushSession, DeinitSession, UseAfterFree, vars
  <2> QED
    BY <2>1, <2>2, <2>3, <2>4, <2>5, <2>6, <2>7 DEF Next
<1> QED
  BY <1>1, <1>2, <1>3, <1>4, <1>5

(* A user never has more than MAX_SESSIONS_PER_USER sessions in the map.      *)
THEOREM LimitHolds == Spec => []SessionLimit
<1>1. Init => SessionLimit
  <2> SUFFICES ASSUME Init PROVE SessionLimit
    OBVIOUS
  <2>1. {k \in Keys : sessions[k] # None} = {}
    BY DEF Init
  <2> QED
    BY <2>1, FS_EmptySet, LimitAssumption DEF SessionLimit, MapCount
<1> QED
  BY <1>1, TypeCorrect, LimitNext, PTL DEF Spec

=============================================================================
