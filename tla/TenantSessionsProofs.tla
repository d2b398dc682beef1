------------------------- MODULE TenantSessionsProofs -------------------------
(* What the cache of tenant runtimes promises, for every set of tenants,      *)
(* requests and runtimes, every idle time and every size of the cache; and    *)
(* what the session manager promises, in the composition of the two.          *)
EXTENDS TenantSessions, TLAPS

(* The address of a new runtime is a free one.                                *)
LEMMA AddressIsUnused == Allocated \subseteq Unused
  BY DEF Allocated

(* Freeing runtimes keeps the cache well typed.                               *)
LEMMA DestroyType ==
    ASSUME TypeOK, NEW rs, NEW why \in {"replaced", "idle", "pending_destroy", "capacity", "admin", "shutdown"},
           Destroy(rs, why)
    PROVE  /\ tenant_runtimes' \in [Users -> Runtimes \cup {None}]
           /\ built' \in [Runtimes -> {None} \cup SUBSET (Patches \cup {Seed})]
           /\ pending_destroy' \in [Runtimes -> BOOLEAN]
           /\ last_used_s' \in [Runtimes -> Nat]
           /\ fate' \in [Runtimes -> {"unused", "live", "replaced", "idle", "pending_destroy",
                                      "capacity", "admin", "shutdown"}]
           /\ overtaken' \subseteq Runtimes
<1>1. pending_destroy' \in [Runtimes -> BOOLEAN]
  BY Zenon DEF TypeOK, Destroy
<1>2. fate' \in [Runtimes -> {"unused", "live", "replaced", "idle", "pending_destroy",
                             "capacity", "admin", "shutdown"}]
  BY DEF TypeOK, Destroy
<1>3. last_used_s' \in [Runtimes -> Nat] /\ overtaken' \subseteq Runtimes
  BY DEF TypeOK, Destroy
<1>4. tenant_runtimes' \in [Users -> Runtimes \cup {None}]
  BY DEF TypeOK, Destroy
<1>5. built' \in [Runtimes -> {None} \cup SUBSET (Patches \cup {Seed})]
  BY DEF TypeOK, Destroy
<1> QED
  BY Zenon, <1>1, <1>2, <1>3, <1>4, <1>5

(* Nothing is collected while the maintenance thread is not at its prune.     *)
NothingLeft == sweep \in {"asleep", "waiting"} => doomed = {}

(* Types hold at the start.                                                   *)
LEMMA InitType == Init => TypeOK /\ NothingLeft
<1> SUFFICES ASSUME Init PROVE TypeOK /\ NothingLeft
  OBVIOUS
<1>1. /\ config \in [Users -> SUBSET (Patches \cup {Seed})]
      /\ tenant_runtimes \in [Users -> Runtimes \cup {None}]
      /\ built \in [Runtimes -> {None} \cup SUBSET (Patches \cup {Seed})]
      /\ based_on \in [Patches -> SUBSET (Patches \cup {Seed})]
      /\ runtime_of \in [Requests -> Runtimes \cup {None}]
  BY DEF Init
<1>2. pending_destroy \in [Runtimes -> BOOLEAN]
  BY DEF Init
<1>3. /\ last_used_s \in [Runtimes -> Nat]
      /\ fate \in [Runtimes -> {"unused", "live", "replaced", "idle", "pending_destroy",
                                "capacity", "admin", "shutdown"}]
      /\ at \in [Threads -> {"idle", "get", "replace", "build", "seed", "put", "fetched", "ready", "turn",
                              "using", "peeking", "write", "mark", "failed", "done"}]
      /\ since \in [Requests -> Nat]
      /\ sweep \in {"asleep", "waiting", "idle", "pending_destroy", "capacity"}
      /\ sweep_now \in Nat /\ doomed \subseteq Runtimes
      /\ now \in Nat
      /\ gateway \in {"up", "stopping", "down"}
      /\ settled \subseteq Turns /\ overlapped \subseteq Threads /\ overtaken \subseteq Runtimes
  BY DEF Init
<1>4. NothingLeft
  BY DEF Init, NothingLeft
<1> QED
  BY Zenon, <1>1, <1>2, <1>3, <1>4 DEF TypeOK

(* Every step keeps the types.                                                *)
LEMMA NextType == TypeOK /\ NothingLeft /\ [Next]_vars => TypeOK' /\ NothingLeft'
<1> SUFFICES ASSUME TypeOK, NothingLeft, [Next]_vars PROVE TypeOK' /\ NothingLeft'
  OBVIOUS
<1> USE DEF rows, cache, requests, maintenance, Goto, NothingLeft
<1>1. ASSUME NEW q \in Requests, Arrive(q) PROVE TypeOK' /\ NothingLeft'
  BY <1>1 DEF TypeOK, Arrive
<1>2. ASSUME NEW q \in Requests, Hit(q) PROVE TypeOK' /\ NothingLeft'
  BY <1>2, UserOfAssumption DEF TypeOK, Hit, Cached, Threads
<1>3. ASSUME NEW q \in Requests, Miss(q) PROVE TypeOK' /\ NothingLeft'
  BY <1>3 DEF TypeOK, Miss
<1>4. ASSUME NEW q \in Requests, Replace(q) PROVE TypeOK' /\ NothingLeft'
  BY <1>4, DestroyType DEF TypeOK, Replace
<1>5. ASSUME NEW q \in Requests, Build(q) PROVE TypeOK' /\ NothingLeft'
  <2>1. PICK r \in Unused, c \in {config[UserOf[q]], None} :
            /\ fate' = [fate EXCEPT ![r] = "live"]
            /\ runtime_of' = [runtime_of EXCEPT ![q] = r]
            /\ built' = [built EXCEPT ![r] = c]
            /\ last_used_s' = [last_used_s EXCEPT ![r] = now]
            /\ at' \in {[at EXCEPT ![q] = "seed"], [at EXCEPT ![q] = "put"]}
            /\ overlapped' \subseteq overlapped \cup Writers(UserOf[q]) \cup {q}
    BY <1>5, AddressIsUnused DEF Build, BeginsToWrite
  <2>2. r \in Runtimes /\ config[UserOf[q]] \in SUBSET (Patches \cup {Seed})
    BY UserOfAssumption DEF TypeOK, Unused, Threads
  <2>3. overlapped' \subseteq Threads
    BY <2>1 DEF TypeOK, Writers, Threads
  <2>4. built' \in [Runtimes -> {None} \cup SUBSET (Patches \cup {Seed})]
    BY <2>1, <2>2 DEF TypeOK
  <2> QED
    BY <1>5, <2>1, <2>2, <2>3, <2>4 DEF TypeOK, Build
<1>6. ASSUME NEW q \in Requests, SeedRow(q) PROVE TypeOK' /\ NothingLeft'
  BY <1>6, UserOfAssumption DEF TypeOK, SeedRow, Threads
<1>7. ASSUME NEW q \in Requests, Put(q) PROVE TypeOK' /\ NothingLeft'
  BY <1>7, UserOfAssumption DEF TypeOK, Put, Threads
<1>8. ASSUME NEW q \in Requests, BuildFails(q) \/ Finish(q) PROVE TypeOK' /\ NothingLeft'
  BY <1>8 DEF TypeOK, BuildFails, Finish
<1>9. ASSUME NEW t \in Turns, Touch(t) \/ Pin(t) \/ Unpin(t) PROVE TypeOK' /\ NothingLeft'
  BY <1>9 DEF TypeOK, Touch, Pin, Unpin
<1>10. ASSUME NEW q \in Readers, Peek(q) PROVE TypeOK' /\ NothingLeft'
  BY <1>10, UserOfAssumption DEF TypeOK, Peek, Cached, Threads, Requests
<1>11. ASSUME NEW p \in Patches, ReadConfig(p) PROVE TypeOK' /\ NothingLeft'
  BY <1>11, UserOfAssumption DEF TypeOK, ReadConfig, BeginsToWrite, Writers, Threads
<1>12. ASSUME NEW p \in Patches, WriteConfig(p) PROVE TypeOK' /\ NothingLeft'
  BY <1>12, UserOfAssumption DEF TypeOK, WriteConfig, Merged, Threads
<1>13. ASSUME NEW p \in Patches, markTenantRuntimeForDestroy(p) PROVE TypeOK' /\ NothingLeft'
  BY <1>13 DEF TypeOK, markTenantRuntimeForDestroy
<1>14. CASE ReadClock \/ CollectIdle \/ CollectMarked \/ CollectOldest \/ SweepEnds
  BY <1>14 DEF TypeOK, ReadClock, CollectIdle, CollectMarked, CollectOldest, SweepEnds, InCache
<1>15. ASSUME NEW r \in Runtimes, Remove(r) PROVE TypeOK' /\ NothingLeft'
  BY <1>15, DestroyType DEF TypeOK, Remove
<1>16. ASSUME NEW u \in Users, Invalidate(u) PROVE TypeOK' /\ NothingLeft'
  BY <1>16, DestroyType DEF TypeOK, Invalidate
<1>17. CASE RequestShutdown \/ Undrain \/ Teardown \/ Tick
  BY <1>17, DestroyType DEF TypeOK, RequestShutdown, Undrain, Teardown, Tick
<1>18. CASE UNCHANGED vars
  BY <1>18 DEF TypeOK, vars
<1> QED
  BY <1>1, <1>2, <1>3, <1>4, <1>5, <1>6, <1>7, <1>8, <1>9, <1>10, <1>11, <1>12, <1>13, <1>14, <1>15, <1>16,
     <1>17, <1>18 DEF Next

(* Type correctness for any tenants, requests, runtimes and bounds.           *)
THEOREM TypeCorrect == Spec => []TypeOK
<1>1. Init => TypeOK /\ NothingLeft
  BY InitType
<1>2. TypeOK /\ NothingLeft /\ [Next]_vars => TypeOK' /\ NothingLeft'
  BY NextType
<1> QED
  BY <1>1, <1>2, PTL DEF Spec

-----------------------------------------------------------------------------
(* The mutex and the pointers                                                 *)

Holds(q) == at[q] \in {"replace", "build", "seed", "put"}

(* One thread at a time has the cache's mutex.                                *)
OneHolder ==
    /\ \A p, q \in Requests : Holds(p) /\ Holds(q) => p = q
    /\ sweep \notin {"asleep", "waiting"} => \A q \in Requests : ~Holds(q)

(* Who is past getTenantRuntime points to a runtime.                          *)
Pointing ==
    \A q \in Requests :
        at[q] \in {"seed", "put", "fetched", "ready", "turn", "using", "peeking"} => runtime_of[q] \in Runtimes

(* What is in the cache, or on its way there, was not freed.                  *)
CacheLive ==
    /\ \A u \in Users : tenant_runtimes[u] # None => fate[tenant_runtimes[u]] = "live"
    /\ \A q \in Requests : at[q] \in {"seed", "put"} => fate[runtime_of[q]] = "live"

(* While a runtime is built there is none in its place.                       *)
EmptySlot == \A q \in Requests : at[q] \in {"build", "seed", "put"} => tenant_runtimes[UserOf[q]] = None

(* An address that is used again is one nobody points to.                     *)
UnusedFree == \A r \in Runtimes : fate[r] = "unused" => ~PointedTo(r)

Sound == TypeOK /\ NothingLeft /\ OneHolder /\ Pointing /\ CacheLive /\ EmptySlot /\ UnusedFree

(* Who keeps the mutex from being free.                                       *)
LEMMA FreeMutex == MutexFree <=> (sweep \in {"asleep", "waiting"} /\ \A q \in Requests : ~Holds(q))
  BY DEF MutexFree, Holds

(* At the start nobody points anywhere.                                       *)
LEMMA InitSound == Init => Sound
<1> SUFFICES ASSUME Init PROVE Sound
  OBVIOUS
<1>1. TypeOK /\ NothingLeft
  BY InitType
<1>2. OneHolder /\ Pointing /\ CacheLive /\ EmptySlot /\ UnusedFree
  BY NoneAssumption DEF Init, OneHolder, Holds, Pointing, CacheLive, EmptySlot, UnusedFree, PointedTo, Threads
<1> QED
  BY <1>1, <1>2 DEF Sound

(* Freeing what is not on its way into the cache keeps the pointers sound.    *)
LEMMA DestroySound ==
    ASSUME Sound, NEW rs, NEW why, why # "unused", Destroy(rs, why), UNCHANGED runtime_of,
           \A q \in Requests : at[q] \in {"seed", "put"} => runtime_of[q] \notin rs
    PROVE  /\ UnusedFree'
           /\ \A u \in Users : tenant_runtimes'[u] # None => fate'[tenant_runtimes'[u]] = "live"
           /\ \A q \in Requests : at[q] \in {"seed", "put"} => fate'[runtime_of[q]] = "live"
           /\ \A u \in Users : tenant_runtimes[u] \in rs \cup {None} => tenant_runtimes'[u] = None
<1>1. UnusedFree'
  BY DEF Sound, UnusedFree, PointedTo, Destroy
<1>2. \A u \in Users : tenant_runtimes'[u] # None => fate'[tenant_runtimes'[u]] = "live"
  BY DEF Sound, TypeOK, CacheLive, Destroy
<1>3. \A q \in Requests : at[q] \in {"seed", "put"} => fate'[runtime_of[q]] = "live"
  BY DEF Sound, TypeOK, CacheLive, Pointing, Destroy
<1>4. \A u \in Users : tenant_runtimes[u] \in rs \cup {None} => tenant_runtimes'[u] = None
  BY DEF Sound, TypeOK, Destroy
<1> QED
  BY <1>1, <1>2, <1>3, <1>4

(* Every step keeps the pointers and the mutex sound.                         *)
LEMMA NextSound == Sound /\ [Next]_vars => Sound'
<1> SUFFICES ASSUME Sound, [Next]_vars PROVE Sound'
  OBVIOUS
<1> DEFINE Parts == OneHolder /\ Pointing /\ CacheLive /\ EmptySlot /\ UnusedFree
<1> USE DEF rows, cache, requests, maintenance, Goto, Cached, PointedTo, Holds
<1>0. TypeOK' /\ NothingLeft'
  BY NextType DEF Sound
<1>a. \A q \in Requests : UserOf[q] \in Users /\ q \in Threads
  BY UserOfAssumption DEF Threads
<1>1. ASSUME NEW q \in Requests, Arrive(q) \/ BuildFails(q) \/ Finish(q) PROVE Parts'
  <2>1. CASE Arrive(q) \/ BuildFails(q)
    BY <1>1, <2>1, <1>a DEF Sound, TypeOK, OneHolder, Pointing, CacheLive, EmptySlot, UnusedFree, Arrive, BuildFails
  <2>2. CASE Finish(q)
    <3>1. at' = [at EXCEPT ![q] = "done"] /\ runtime_of' = [runtime_of EXCEPT ![q] = None] /\ ~Holds(q)
      BY <2>2 DEF Finish
    <3> QED
      BY <2>2, <3>1, <1>a, NoneAssumption
      DEF Sound, TypeOK, OneHolder, Pointing, CacheLive, EmptySlot, UnusedFree, Finish
  <2> QED
    BY <1>1, <2>1, <2>2
<1>2. ASSUME NEW q \in Requests, Hit(q) PROVE Parts'
  BY <1>2, <1>a, FreeMutex DEF Sound, TypeOK, OneHolder, Pointing, CacheLive, EmptySlot, UnusedFree, Hit
<1>3. ASSUME NEW q \in Requests, Miss(q) PROVE Parts'
  BY <1>3, <1>a, FreeMutex DEF Sound, TypeOK, OneHolder, Pointing, CacheLive, EmptySlot, UnusedFree, Miss
<1>4. ASSUME NEW q \in Requests, Replace(q) PROVE Parts'
  <2>1. \A p \in Requests : at[p] \notin {"seed", "put"}
    BY <1>4, <1>a DEF Sound, TypeOK, OneHolder, Replace
  <2>2. /\ UnusedFree'
        /\ \A u \in Users : tenant_runtimes'[u] # None => fate'[tenant_runtimes'[u]] = "live"
        /\ tenant_runtimes'[UserOf[q]] = None
    BY <1>4, <1>a, <2>1, DestroySound DEF Replace
  <2> QED
    BY <1>4, <1>a, <2>1, <2>2 DEF Sound, TypeOK, OneHolder, Pointing, CacheLive, EmptySlot, Replace
<1>5. ASSUME NEW q \in Requests, Build(q) PROVE Parts'
  <2>1. PICK r \in Unused : fate' = [fate EXCEPT ![r] = "live"] /\ runtime_of' = [runtime_of EXCEPT ![q] = r]
    BY <1>5, AddressIsUnused DEF Build
  <2>2. at' \in {[at EXCEPT ![q] = "seed"], [at EXCEPT ![q] = "put"]}
    BY <1>5 DEF Build
  <2> QED
    BY <1>5, <1>a, <2>1, <2>2
    DEF Sound, TypeOK, OneHolder, Pointing, CacheLive, EmptySlot, UnusedFree, Unused, Build
<1>6. ASSUME NEW q \in Requests, SeedRow(q) \/ Put(q) PROVE Parts'
  BY <1>6, <1>a DEF Sound, TypeOK, OneHolder, Pointing, CacheLive, EmptySlot, UnusedFree, SeedRow, Put
<1>7. ASSUME NEW t \in Turns, Touch(t) \/ Pin(t) \/ Unpin(t) PROVE Parts'
  BY <1>7, <1>a DEF Sound, TypeOK, OneHolder, Pointing, CacheLive, EmptySlot, UnusedFree, Touch, Pin, Unpin, Requests
<1>8. ASSUME NEW q \in Readers, Peek(q) PROVE Parts'
  <2>1. /\ at' \in {[at EXCEPT ![q] = "done"], [at EXCEPT ![q] = "peeking"]}
        /\ tenant_runtimes[UserOf[q]] = None => at' = [at EXCEPT ![q] = "done"]
        /\ runtime_of' = [runtime_of EXCEPT ![q] = tenant_runtimes[UserOf[q]]]
        /\ q \in Requests /\ ~Holds(q)
    BY <1>8 DEF Peek, Requests
  <2> QED
    BY <1>8, <2>1, <1>a, NoneAssumption
    DEF Sound, TypeOK, OneHolder, Pointing, CacheLive, EmptySlot, UnusedFree, Peek
<1>9. ASSUME NEW p \in Patches, ReadConfig(p) \/ WriteConfig(p) \/ markTenantRuntimeForDestroy(p) PROVE Parts'
  BY <1>9, <1>a, KindsDisjoint
  DEF Sound, TypeOK, OneHolder, Pointing, CacheLive, EmptySlot, UnusedFree, Threads,
      ReadConfig, WriteConfig, markTenantRuntimeForDestroy
<1>10. CASE ReadClock \/ CollectIdle \/ CollectMarked \/ CollectOldest \/ SweepEnds
  <2>1. at' = at /\ runtime_of' = runtime_of /\ tenant_runtimes' = tenant_runtimes /\ fate' = fate
    BY <1>10 DEF ReadClock, CollectIdle, CollectMarked, CollectOldest, SweepEnds
  <2>2. (sweep \notin {"asleep", "waiting"})' => MutexFree \/ sweep \notin {"asleep", "waiting"}
    BY <1>10 DEF ReadClock, CollectIdle, CollectMarked, CollectOldest, SweepEnds
  <2>3. OneHolder'
    BY <2>1, <2>2, FreeMutex DEF Sound, OneHolder
  <2> QED
    BY <1>0, <2>1, <2>3 DEF Sound, Pointing, CacheLive, EmptySlot, UnusedFree
<1>11. ASSUME NEW r \in Runtimes, Remove(r) PROVE Parts'
  <2>1. sweep \notin {"asleep", "waiting", "unused"} /\ \A q \in Requests : ~Holds(q)
    BY <1>11 DEF Sound, TypeOK, NothingLeft, OneHolder, Remove
  <2> QED
    BY <1>11, <1>a, <2>1, DestroySound DEF Sound, OneHolder, Pointing, CacheLive, EmptySlot, Remove
<1>12. ASSUME NEW u \in Users, Invalidate(u) PROVE Parts'
  BY <1>12, <1>a, FreeMutex, DestroySound DEF Sound, OneHolder, Pointing, CacheLive, EmptySlot, Invalidate
<1>13. CASE Teardown
  <2>1. at' = at /\ runtime_of' = runtime_of /\ sweep' = sweep /\ sweep = "asleep"
    BY <1>13 DEF Teardown
  <2>2. \A q \in Requests : at[q] \in {"idle", "done", "failed"}
    BY <1>13, <1>a DEF Teardown, AtRest
  <2> QED
    BY <1>0, <1>13, <2>1, <2>2, <1>a, DestroySound DEF Sound, OneHolder, Pointing, CacheLive, EmptySlot, Teardown
<1>14. CASE RequestShutdown \/ Undrain \/ Tick \/ UNCHANGED vars
  <2>1. at' = at /\ runtime_of' = runtime_of /\ tenant_runtimes' = tenant_runtimes /\ fate' = fate /\ sweep' = sweep
    BY <1>14 DEF RequestShutdown, Undrain, Tick, vars
  <2> QED
    BY <1>0, <2>1 DEF Sound, OneHolder, Pointing, CacheLive, EmptySlot, UnusedFree
<1> QED
  BY <1>0, <1>1, <1>2, <1>3, <1>4, <1>5, <1>6, <1>7, <1>8, <1>9, <1>10, <1>11, <1>12, <1>13, <1>14 DEF Next, Sound

-----------------------------------------------------------------------------
(* Turns in flight                                                            *)

(* A turn that counts as settled runs on, but not on what a request is about  *)
(* to replace, nor on what the prune has collected because it was marked.     *)
ReplaceSafe ==
    \A t \in settled :
        /\ at[t] = "turn"
        /\ \A q \in Requests : at[q] = "replace" => runtime_of[t] # Cached(q)
SweepSafe == sweep = "pending_destroy" => \A t \in settled : runtime_of[t] \notin doomed

SparedInv == Sound /\ ReplaceSafe /\ SweepSafe /\ TurnsInFlightSpared

(* Freeing what no settled turn uses, or for one of the excepted reasons.     *)
LEMMA DestroySpares ==
    ASSUME Sound, TurnsInFlightSpared, NEW rs, NEW why, Destroy(rs, why),
           UNCHANGED <<runtime_of, settled>>, \A t \in settled : at'[t] = "turn" => at[t] = "turn",
           \/ why \in {"idle", "capacity", "admin"}
           \/ \A t \in settled : at[t] = "turn" => runtime_of[t] \notin rs
    PROVE  TurnsInFlightSpared'
<1> SUFFICES ASSUME NEW t \in settled, at[t] = "turn"
             PROVE  fate'[runtime_of[t]] \in {"live", "idle", "capacity", "admin"}
  BY DEF TurnsInFlightSpared
<1>1. t \in Requests /\ runtime_of[t] \in Runtimes /\ fate[runtime_of[t]] \in {"live", "idle", "capacity", "admin"}
  BY DEF Sound, TypeOK, Requests, Pointing, TurnsInFlightSpared
<1> QED
  BY <1>1 DEF Destroy, PointedTo

(* Every step spares the settled turns.                                       *)
LEMMA NextSpared == SparedInv /\ [Next]_vars => SparedInv'
<1> SUFFICES ASSUME SparedInv, [Next]_vars PROVE SparedInv'
  OBVIOUS
<1> DEFINE Parts == ReplaceSafe /\ SweepSafe /\ TurnsInFlightSpared
<1> USE DEF rows, cache, requests, maintenance, Goto, Cached, Holds
<1>0. Sound /\ Sound'
  BY NextSound DEF SparedInv
<1>a. /\ settled \subseteq Requests /\ settled \subseteq Turns
      /\ \A q \in Requests : UserOf[q] \in Users /\ q \in Threads
  BY <1>0, UserOfAssumption DEF Sound, TypeOK, Threads, Requests
<1>1. ASSUME NEW q \in Requests, Arrive(q) \/ BuildFails(q) \/ Finish(q) PROVE Parts'
  BY <1>0, <1>1, <1>a
  DEF SparedInv, Sound, TypeOK, ReplaceSafe, SweepSafe, TurnsInFlightSpared, Arrive, BuildFails, Finish
<1>2. ASSUME NEW q \in Requests, Hit(q) PROVE Parts'
  BY <1>0, <1>2, <1>a DEF SparedInv, Sound, TypeOK, ReplaceSafe, SweepSafe, TurnsInFlightSpared, Hit
<1>3. ASSUME NEW q \in Requests, Miss(q) PROVE Parts'
  BY <1>0, <1>3, <1>a
  DEF SparedInv, Sound, TypeOK, ReplaceSafe, SweepSafe, TurnsInFlightSpared, Miss, Doomed, HasActiveTurns
<1>4. ASSUME NEW q \in Requests, Replace(q) PROVE Parts'
  <2>1. TurnsInFlightSpared'
    BY <1>0, <1>4, <1>a, DestroySpares DEF SparedInv, Sound, TypeOK, ReplaceSafe, Replace
  <2>2. ReplaceSafe'
    BY <1>0, <1>4, <1>a DEF SparedInv, Sound, TypeOK, OneHolder, ReplaceSafe, Replace
  <2> QED
    BY <1>0, <1>4, <1>a, <2>1, <2>2 DEF SparedInv, Sound, TypeOK, SweepSafe, Replace
<1>5. ASSUME NEW q \in Requests, Build(q) PROVE Parts'
  <2>1. PICK r \in Unused : fate' = [fate EXCEPT ![r] = "live"] /\ runtime_of' = [runtime_of EXCEPT ![q] = r]
    BY <1>5, AddressIsUnused DEF Build
  <2>2. at' \in {[at EXCEPT ![q] = "seed"], [at EXCEPT ![q] = "put"]}
    BY <1>5 DEF Build
  <2> QED
    BY <1>0, <1>5, <1>a, <2>1, <2>2
    DEF SparedInv, Sound, TypeOK, OneHolder, ReplaceSafe, SweepSafe, TurnsInFlightSpared, Build, Unused
<1>6. ASSUME NEW q \in Requests, SeedRow(q) \/ Put(q) PROVE Parts'
  BY <1>0, <1>6, <1>a
  DEF SparedInv, Sound, TypeOK, OneHolder, ReplaceSafe, SweepSafe, TurnsInFlightSpared, SeedRow, Put
<1>7. ASSUME NEW t \in Turns, Touch(t) \/ Unpin(t) PROVE Parts'
  BY <1>0, <1>7, <1>a
  DEF SparedInv, Sound, TypeOK, ReplaceSafe, SweepSafe, TurnsInFlightSpared, Touch, Unpin, Requests
<1>8. ASSUME NEW t \in Turns, Pin(t) PROVE Parts'
  <2>1. /\ at' = [at EXCEPT ![t] = "turn"] /\ at[t] = "ready" /\ t \in Requests
        /\ settled' = settled \/ (MutexFree /\ settled' = settled \cup {t})
        /\ UNCHANGED <<runtime_of, tenant_runtimes, fate, sweep, doomed>>
    BY <1>8 DEF Pin, Requests
  <2>2. runtime_of[t] \in Runtimes /\ fate[runtime_of[t]] = "live"
    BY <1>0, <1>8, <2>1, NoneAssumption DEF Sound, Pointing, Pin, Dangling
  <2>3. ReplaceSafe' /\ SweepSafe'
    BY <1>0, <1>a, <2>1, FreeMutex DEF SparedInv, Sound, TypeOK, ReplaceSafe, SweepSafe
  <2>4. TurnsInFlightSpared'
    BY <1>0, <1>a, <2>1, <2>2 DEF SparedInv, Sound, TypeOK, TurnsInFlightSpared
  <2> QED
    BY <2>3, <2>4
<1>9. ASSUME NEW q \in Readers, Peek(q) PROVE Parts'
  <2>1. /\ at' \in {[at EXCEPT ![q] = "done"], [at EXCEPT ![q] = "peeking"]} /\ at[q] = "idle"
        /\ \A p \in Requests \ {q} : runtime_of'[p] = runtime_of[p]
        /\ UNCHANGED <<tenant_runtimes, fate, settled, sweep, doomed>>
    BY <1>0, <1>9 DEF Peek, Sound, TypeOK
  <2> QED
    BY <1>0, <1>a, <2>1 DEF SparedInv, Sound, TypeOK, ReplaceSafe, SweepSafe, TurnsInFlightSpared
<1>10. ASSUME NEW p \in Patches, ReadConfig(p) \/ WriteConfig(p) \/ markTenantRuntimeForDestroy(p) PROVE Parts'
  <2>1. /\ \A q \in Requests : at'[q] = at[q]
        /\ UNCHANGED <<runtime_of, tenant_runtimes, fate, settled, sweep, doomed>>
    BY <1>0, <1>10, <1>a, KindsDisjoint
    DEF Sound, TypeOK, Threads, ReadConfig, WriteConfig, markTenantRuntimeForDestroy
  <2> QED
    BY <1>a, <2>1 DEF SparedInv, ReplaceSafe, SweepSafe, TurnsInFlightSpared
<1>11. CASE ReadClock \/ CollectIdle \/ CollectMarked \/ CollectOldest \/ SweepEnds
  <2>1. /\ at' = at /\ runtime_of' = runtime_of /\ tenant_runtimes' = tenant_runtimes
        /\ fate' = fate /\ settled' = settled
    BY <1>11 DEF ReadClock, CollectIdle, CollectMarked, CollectOldest, SweepEnds
  <2>2. SweepSafe'
    BY <1>a, <1>11
    DEF SparedInv, ReplaceSafe, SweepSafe, Doomed, HasActiveTurns, ReadClock, CollectIdle, CollectMarked,
        CollectOldest, SweepEnds
  <2> QED
    BY <1>0, <2>1, <2>2 DEF SparedInv, ReplaceSafe, TurnsInFlightSpared
<1>12. ASSUME NEW r \in Runtimes, Remove(r) PROVE Parts'
  <2>1. sweep \in {"idle", "pending_destroy", "capacity"} /\ \A q \in Requests : ~Holds(q)
    BY <1>0, <1>12 DEF Sound, TypeOK, NothingLeft, OneHolder, Remove
  <2>2. TurnsInFlightSpared'
    BY <1>0, <1>12, <2>1, DestroySpares DEF SparedInv, SweepSafe, Remove
  <2> QED
    BY <1>12, <1>a, <2>1, <2>2 DEF SparedInv, ReplaceSafe, SweepSafe, Remove
<1>13. ASSUME NEW u \in Users, Invalidate(u) PROVE Parts'
  <2>1. TurnsInFlightSpared'
    BY <1>0, <1>13, DestroySpares DEF SparedInv, Invalidate
  <2> QED
    BY <1>13, <1>a, <2>1, FreeMutex DEF SparedInv, ReplaceSafe, SweepSafe, Invalidate
<1>14. CASE Teardown
  <2>1. \A q \in Requests : at[q] \in {"idle", "done", "failed"}
    BY <1>14, <1>a DEF Teardown, AtRest
  <2> QED
    BY <1>0, <1>14, <1>a, <2>1 DEF SparedInv, ReplaceSafe, SweepSafe, TurnsInFlightSpared, Teardown
<1>15. CASE RequestShutdown \/ Undrain \/ Tick \/ UNCHANGED vars
  <2>1. /\ at' = at /\ runtime_of' = runtime_of /\ tenant_runtimes' = tenant_runtimes /\ fate' = fate
        /\ settled' = settled /\ sweep' = sweep /\ doomed' = doomed
    BY <1>15 DEF RequestShutdown, Undrain, Tick, vars
  <2> QED
    BY <1>0, <2>1 DEF SparedInv, ReplaceSafe, SweepSafe, TurnsInFlightSpared
<1> QED
  BY <1>0, <1>1, <1>2, <1>3, <1>4, <1>5, <1>6, <1>7, <1>8, <1>9, <1>10, <1>11, <1>12, <1>13, <1>14, <1>15
  DEF Next, SparedInv

(* A turn that was pinned before the destroyer took the mutex keeps its       *)
(* runtime until it ends, but for the idle and the capacity prune and the     *)
(* administrator: no replacement of a marked runtime and no teardown frees it.*)
THEOREM PinnedTurnsSpared == Spec => []TurnsInFlightSpared
<1>1. Init => SparedInv
  BY InitSound DEF Init, SparedInv, ReplaceSafe, SweepSafe, TurnsInFlightSpared
<1>2. SparedInv => TurnsInFlightSpared
  BY DEF SparedInv
<1> QED
  BY <1>1, <1>2, NextSpared, PTL DEF Spec

-----------------------------------------------------------------------------
(* The idle prune                                                             *)

Using(q) == at[q] \in {"fetched", "ready", "turn", "using"}

(* Nobody has read a time that is still to come.                              *)
TimesPast == sweep_now <= now /\ \A q \in Requests : since[q] <= now

(* A runtime was last used at the time of whoever points to it, or later,     *)
(* unless its last use was moved back.                                        *)
LastUse ==
    \A q \in Requests :
        (Using(q) \/ at[q] \in {"seed", "put"}) /\ fate[runtime_of[q]] = "live"
            => since[q] <= last_used_s[runtime_of[q]] \/ runtime_of[q] \in overtaken

(* What the idle prune has collected was asked for too long ago.              *)
Collected ==
    sweep = "idle" =>
        \A q \in Requests :
            Using(q) /\ runtime_of[q] \in doomed => sweep_now > since[q] + IdleTtl \/ runtime_of[q] \in overtaken

IdleInv == Sound /\ TimesPast /\ LastUse /\ Collected /\ IdleSparesRecent

(* Freeing for another reason, or what was collected, spares recent requests. *)
LEMMA DestroyIdle ==
    ASSUME Sound, LastUse, IdleSparesRecent, NEW rs, NEW why, why \notin {"live", "unused"}, Destroy(rs, why),
           runtime_of' = runtime_of, since' = since, now' = now,
           \A q \in Requests : (Using(q))' => Using(q),
           \A q \in Requests : at'[q] \in {"seed", "put"} => at[q] \in {"seed", "put"},
           why = "idle" =>
               \A q \in Requests :
                   Using(q) /\ runtime_of[q] \in rs => now > since[q] + IdleTtl \/ runtime_of[q] \in overtaken
    PROVE  LastUse' /\ IdleSparesRecent'
<1>1. ASSUME NEW q \in Requests, Using(q) \/ at[q] \in {"seed", "put"}
      PROVE  /\ runtime_of[q] \in Runtimes
             /\ runtime_of[q] \in overtaken => runtime_of[q] \in overtaken'
             /\ runtime_of[q] \in rs => fate'[runtime_of[q]] = why
             /\ runtime_of[q] \notin rs => /\ fate'[runtime_of[q]] = fate[runtime_of[q]]
                                         /\ last_used_s'[runtime_of[q]] = last_used_s[runtime_of[q]]
  BY <1>1 DEF Sound, Pointing, Using, Destroy, PointedTo
<1>2. LastUse'
  BY <1>1 DEF LastUse, Using
<1>3. IdleSparesRecent'
  BY <1>1 DEF IdleSparesRecent, Using
<1> QED
  BY <1>2, <1>3

(* Every step spares recent requests from the idle prune.                     *)
LEMMA NextIdle == IdleInv /\ [Next]_vars => IdleInv'
<1> SUFFICES ASSUME IdleInv, [Next]_vars PROVE IdleInv'
  OBVIOUS
<1> DEFINE Parts == TimesPast /\ LastUse /\ Collected /\ IdleSparesRecent
<1> USE DEF rows, cache, requests, maintenance, Goto, Cached, Holds, Using
<1>0. Sound /\ Sound'
  BY NextSound DEF IdleInv
<1>a. \A q \in Requests : UserOf[q] \in Users /\ q \in Threads
  BY UserOfAssumption DEF Threads
<1>b. IdleTtl \in Nat
  BY BoundsAssumption
<1>1. ASSUME NEW q \in Requests, Arrive(q) \/ Miss(q) \/ BuildFails(q) \/ Finish(q) PROVE Parts'
  BY <1>0, <1>1, <1>a
  DEF IdleInv, Sound, TypeOK, TimesPast, LastUse, Collected, IdleSparesRecent, Arrive, Miss, BuildFails, Finish
<1>2. ASSUME NEW q \in Requests, Hit(q) PROVE Parts'
  <2> DEFINE r == Cached(q)
  <2>1. r \in Runtimes /\ fate[r] = "live"
    BY <1>0, <1>2, <1>a DEF Sound, TypeOK, CacheLive, Hit
  <2>2. LastUse'
    BY <1>0, <1>2, <1>a, <2>1 DEF IdleInv, Sound, TypeOK, Pointing, LastUse, Hit
  <2>3. Collected' /\ TimesPast'
    BY <1>0, <1>2, FreeMutex DEF IdleInv, TimesPast, Collected, Hit
  <2>4. IdleSparesRecent'
    BY <1>0, <1>2, <1>a, <2>1 DEF IdleInv, Sound, TypeOK, IdleSparesRecent, Hit
  <2> QED
    BY <2>2, <2>3, <2>4
<1>3. ASSUME NEW q \in Requests, Replace(q) PROVE Parts'
  <2>1. LastUse' /\ IdleSparesRecent'
    BY <1>0, <1>3, <1>a, DestroyIdle DEF IdleInv, Sound, TypeOK, Replace
  <2>2. sweep # "idle"
    BY <1>0, <1>3 DEF Sound, OneHolder, Replace
  <2> QED
    BY <1>0, <1>3, <2>1, <2>2 DEF IdleInv, TimesPast, Collected, Replace
<1>4. ASSUME NEW q \in Requests, Build(q) PROVE Parts'
  <2>1. PICK r \in Unused :
            /\ fate' = [fate EXCEPT ![r] = "live"]
            /\ runtime_of' = [runtime_of EXCEPT ![q] = r]
            /\ last_used_s' = [last_used_s EXCEPT ![r] = now]
    BY <1>4, AddressIsUnused DEF Build
  <2>2. /\ at' \in {[at EXCEPT ![q] = "seed"], [at EXCEPT ![q] = "put"]} /\ at[q] = "build"
        /\ now' = now /\ since' = since /\ overtaken' = overtaken /\ sweep' = sweep /\ sweep_now' = sweep_now
    BY <1>4 DEF Build
  <2>3. r \in Runtimes /\ \A p \in Requests : runtime_of[p] # r
    BY <1>0, <2>1 DEF Sound, UnusedFree, PointedTo, Unused
  <2>4. sweep # "idle"
    BY <1>0, <2>2 DEF Sound, OneHolder
  <2>5. LastUse'
    BY <1>0, <1>a, <2>1, <2>2, <2>3 DEF IdleInv, Sound, TypeOK, TimesPast, LastUse
  <2>6. IdleSparesRecent'
    BY <1>0, <1>a, <2>1, <2>2, <2>3 DEF IdleInv, Sound, TypeOK, IdleSparesRecent
  <2> QED
    BY <2>2, <2>4, <2>5, <2>6 DEF IdleInv, TimesPast, Collected
<1>5. ASSUME NEW q \in Requests, SeedRow(q) \/ Put(q) PROVE Parts'
  <2>1. sweep # "idle"
    BY <1>0, <1>5 DEF Sound, OneHolder, SeedRow, Put
  <2> QED
    BY <1>0, <1>5, <1>a, <2>1
    DEF IdleInv, Sound, TypeOK, CacheLive, TimesPast, LastUse, Collected, IdleSparesRecent, SeedRow, Put
<1>6. ASSUME NEW t \in Turns, Touch(t) PROVE Parts'
  <2>1. t \in Requests /\ runtime_of[t] \in Runtimes
    BY <1>0, <1>6 DEF Sound, Pointing, Touch, Requests
  <2> QED
    BY <1>0, <1>6, <1>a, <2>1
    DEF IdleInv, Sound, TypeOK, Pointing, TimesPast, LastUse, Collected, IdleSparesRecent, Touch
<1>7. ASSUME NEW t \in Turns, Pin(t) \/ Unpin(t) PROVE Parts'
  BY <1>0, <1>7, <1>a
  DEF IdleInv, Sound, TypeOK, TimesPast, LastUse, Collected, IdleSparesRecent, Pin, Unpin, Requests
<1>8. ASSUME NEW q \in Readers, Peek(q) PROVE Parts'
  <2>1. /\ at' \in {[at EXCEPT ![q] = "done"], [at EXCEPT ![q] = "peeking"]}
        /\ \A p \in Requests \ {q} : runtime_of'[p] = runtime_of[p]
        /\ fate' = fate /\ since' = since /\ now' = now /\ last_used_s' = last_used_s
        /\ overtaken' = overtaken /\ sweep' = sweep /\ doomed' = doomed /\ sweep_now' = sweep_now
    BY <1>0, <1>8 DEF Peek, Sound, TypeOK
  <2> QED
    BY <1>0, <1>a, <2>1 DEF IdleInv, Sound, TypeOK, TimesPast, LastUse, Collected, IdleSparesRecent
<1>9. ASSUME NEW p \in Patches, ReadConfig(p) \/ WriteConfig(p) \/ markTenantRuntimeForDestroy(p) PROVE Parts'
  <2>1. /\ \A q \in Requests : at'[q] = at[q]
        /\ runtime_of' = runtime_of /\ fate' = fate /\ since' = since /\ now' = now /\ last_used_s' = last_used_s
        /\ overtaken' = overtaken /\ sweep' = sweep /\ doomed' = doomed /\ sweep_now' = sweep_now
    BY <1>0, <1>9, <1>a, KindsDisjoint
    DEF Sound, TypeOK, Threads, ReadConfig, WriteConfig, markTenantRuntimeForDestroy
  <2> QED
    BY <2>1 DEF IdleInv, TimesPast, LastUse, Collected, IdleSparesRecent
<1>10. CASE ReadClock \/ CollectIdle \/ CollectMarked \/ CollectOldest \/ SweepEnds
  <2>1. /\ at' = at /\ runtime_of' = runtime_of /\ fate' = fate /\ since' = since /\ now' = now
        /\ last_used_s' = last_used_s /\ overtaken' = overtaken
        /\ sweep_now' \in {sweep_now, now, 0}
    BY <1>10 DEF ReadClock, CollectIdle, CollectMarked, CollectOldest, SweepEnds
  <2>2. ASSUME CollectIdle, sweep' = "idle", NEW q \in Requests, Using(q), runtime_of[q] \in doomed'
        PROVE  sweep_now > since[q] + IdleTtl \/ runtime_of[q] \in overtaken
    <3>1. /\ runtime_of[q] \in Runtimes /\ fate[runtime_of[q]] = "live"
          /\ sweep_now > last_used_s[runtime_of[q]] + IdleTtl
      BY <1>0, <2>2 DEF Sound, TypeOK, CacheLive, CollectIdle, InCache, Stale
    <3>2. since[q] <= last_used_s[runtime_of[q]] \/ runtime_of[q] \in overtaken
      BY <2>2, <3>1 DEF IdleInv, LastUse
    <3>3. since[q] \in Nat /\ last_used_s[runtime_of[q]] \in Nat /\ sweep_now \in Nat
      BY <1>0, <3>1 DEF Sound, TypeOK
    <3> QED
      BY <1>b, <3>1, <3>2, <3>3
  <2>3. Collected'
    BY <1>10, <2>1, <2>2 DEF Collected, ReadClock, CollectIdle, CollectMarked, CollectOldest, SweepEnds
  <2>4. TimesPast'
    BY <1>0, <2>1 DEF IdleInv, Sound, TypeOK, TimesPast
  <2> QED
    BY <1>0, <2>1, <2>3, <2>4 DEF IdleInv, LastUse, IdleSparesRecent
<1>11. ASSUME NEW r \in Runtimes, Remove(r) PROVE Parts'
  <2>1. sweep \in {"idle", "pending_destroy", "capacity"}
    BY <1>0, <1>11 DEF Sound, TypeOK, NothingLeft, Remove
  <2>2. /\ at' = at /\ runtime_of' = runtime_of /\ since' = since /\ now' = now /\ sweep' = sweep
        /\ sweep_now' = sweep_now /\ doomed' = doomed \ {r} /\ r \in doomed /\ Destroy({r}, sweep)
    BY <1>11 DEF Remove
  <2>3. ASSUME sweep = "idle", NEW q \in Requests, Using(q), runtime_of[q] = r
        PROVE  now > since[q] + IdleTtl \/ runtime_of[q] \in overtaken
    <3>1. sweep_now > since[q] + IdleTtl \/ runtime_of[q] \in overtaken
      BY <2>2, <2>3 DEF IdleInv, Collected
    <3>2. sweep_now <= now /\ sweep_now \in Nat /\ now \in Nat /\ since[q] \in Nat
      BY <1>0 DEF IdleInv, Sound, TypeOK, TimesPast
    <3> QED
      BY <1>b, <3>1, <3>2
  <2>4. LastUse' /\ IdleSparesRecent'
    BY <1>0, <2>1, <2>2, <2>3, DestroyIdle DEF IdleInv
  <2>5. \A q \in Requests : runtime_of[q] \in overtaken => runtime_of[q] \in overtaken'
    BY <2>2 DEF Destroy, PointedTo
  <2> QED
    BY <2>2, <2>4, <2>5 DEF IdleInv, TimesPast, Collected
<1>12. ASSUME NEW u \in Users, Invalidate(u) PROVE Parts'
  <2>1. LastUse' /\ IdleSparesRecent'
    BY <1>0, <1>12, DestroyIdle DEF IdleInv, Invalidate
  <2> QED
    BY <1>12, <2>1, FreeMutex DEF IdleInv, TimesPast, Collected, Invalidate
<1>13. CASE Teardown
  <2>1. LastUse' /\ IdleSparesRecent'
    BY <1>0, <1>13, DestroyIdle DEF IdleInv, Teardown
  <2> QED
    BY <1>0, <1>13, <2>1 DEF IdleInv, TimesPast, Collected, Teardown
<1>14. CASE RequestShutdown \/ Undrain \/ Tick \/ UNCHANGED vars
  <2>1. /\ at' = at /\ runtime_of' = runtime_of /\ fate' = fate /\ since' = since /\ now' \in {now, now + 1}
        /\ last_used_s' = last_used_s /\ overtaken' = overtaken /\ sweep_now' = sweep_now
        /\ sweep' = sweep /\ doomed' = doomed
    BY <1>14 DEF RequestShutdown, Undrain, Tick, vars
  <2>2. IdleSparesRecent'
    BY <1>0, <1>b, <2>1 DEF IdleInv, Sound, TypeOK, IdleSparesRecent
  <2>3. TimesPast'
    BY <1>0, <2>1 DEF IdleInv, Sound, TypeOK, TimesPast
  <2> QED
    BY <1>0, <2>1, <2>2, <2>3 DEF IdleInv, LastUse, Collected
<1> QED
  BY <1>0, <1>1, <1>2, <1>3, <1>4, <1>5, <1>6, <1>7, <1>8, <1>9, <1>10, <1>11, <1>12, <1>13, <1>14 DEF Next, IdleInv

(* The idle prune takes a runtime away only from requests that asked for it   *)
(* longer ago than the idle time, unless its last use was moved back by a     *)
(* request that had read the clock before its lock.                           *)
THEOREM RecentSpared == Spec => []IdleSparesRecent
<1>1. Init => IdleInv
  BY InitSound, NoneAssumption DEF Init, IdleInv, TimesPast, LastUse, Collected, IdleSparesRecent, Using, Threads
<1>2. IdleInv => IdleSparesRecent
  BY DEF IdleInv
<1> QED
  BY <1>1, <1>2, NextIdle, PTL DEF Spec

-----------------------------------------------------------------------------
(* Settings take effect                                                       *)

Marking(u) == \E p \in Patches : at[p] = "mark" /\ UserOf[p] = u

(* A runtime on its way into the cache is in no place of it yet, and was      *)
(* built from the stored settings, or a PATCH is about to mark it.            *)
Separate == \A q \in Requests, u \in Users : at[q] \in {"seed", "put"} => tenant_runtimes[u] # runtime_of[q]
Fresh ==
    \A q \in Requests :
        at[q] = "put" => built[runtime_of[q]] \in {config[UserOf[q]], None} \/ Marking(UserOf[q])

StaleInv == Sound /\ Separate /\ Fresh /\ StaleIsMarked

(* Freeing leaves the other runtimes their settings and marks.                *)
LEMMA DestroyStale ==
    ASSUME Sound, Separate, StaleIsMarked, NEW rs, NEW why, Destroy(rs, why), config' = config,
           \A p \in Patches : at'[p] = at[p]
    PROVE  StaleIsMarked' /\ \A u \in Users : tenant_runtimes'[u] \in {tenant_runtimes[u], None}
<1>1. ASSUME NEW u \in Users PROVE tenant_runtimes'[u] \in {tenant_runtimes[u], None}
  BY DEF Destroy
<1>2. ASSUME NEW u \in Users, tenant_runtimes'[u] # None
      PROVE  /\ tenant_runtimes'[u] = tenant_runtimes[u] /\ tenant_runtimes[u] \in Runtimes
             /\ tenant_runtimes[u] \notin rs
  BY <1>2 DEF Sound, TypeOK, Destroy
<1>3. ASSUME NEW u \in Users, tenant_runtimes'[u] # None
      PROVE  built'[tenant_runtimes'[u]] = built[tenant_runtimes[u]]
  BY <1>2, <1>3 DEF Destroy
<1>4. ASSUME NEW u \in Users, tenant_runtimes'[u] # None, pending_destroy[tenant_runtimes[u]]
      PROVE  pending_destroy'[tenant_runtimes'[u]]
  BY Zenon, <1>2, <1>4 DEF Destroy
<1> QED
  BY <1>1, <1>2, <1>3, <1>4 DEF StaleIsMarked

(* Every step leaves stale runtimes marked or about to be.                    *)
LEMMA NextStale == StaleInv /\ [Next]_vars => StaleInv'
<1> SUFFICES ASSUME StaleInv, [Next]_vars PROVE StaleInv'
  OBVIOUS
<1> DEFINE Parts == Separate /\ Fresh /\ StaleIsMarked
<1> USE DEF rows, cache, requests, maintenance, Goto, Cached, Holds
<1>0. Sound /\ Sound'
  BY NextSound DEF StaleInv
<1>a. /\ \A q \in Requests : UserOf[q] \in Users /\ q \in Threads /\ q \notin Patches
      /\ \A p \in Patches : UserOf[p] \in Users /\ p \in Threads
  BY UserOfAssumption, KindsDisjoint DEF Threads
(* A step that neither frees, builds nor stores anything changes nothing.     *)
<1>b. ASSUME config' = config, tenant_runtimes' = tenant_runtimes, built' = built, pending_destroy' = pending_destroy,
             \A p \in Patches : at'[p] = at[p],
             \A q \in Requests : at'[q] \in {"seed", "put"} => at'[q] = at[q] /\ runtime_of'[q] = runtime_of[q]
      PROVE  Parts'
  BY <1>b DEF StaleInv, Separate, Fresh, StaleIsMarked, Marking
<1>1. ASSUME NEW q \in Requests, Arrive(q) \/ Hit(q) \/ Miss(q) \/ BuildFails(q) \/ Finish(q) PROVE Parts'
  <2>1. /\ config' = config /\ tenant_runtimes' = tenant_runtimes /\ built' = built
        /\ pending_destroy' = pending_destroy
        /\ \A x \in Threads \ {q} : at'[x] = at[x]
        /\ at'[q] \notin {"seed", "put"}
        /\ \A x \in Requests \ {q} : runtime_of'[x] = runtime_of[x]
    BY <1>0, <1>a, <1>1 DEF Sound, TypeOK, Arrive, Hit, Miss, BuildFails, Finish
  <2> QED
    BY <1>a, <1>b, <2>1
<1>2. ASSUME NEW q \in Requests, Replace(q) PROVE Parts'
  <2>1. \A p \in Patches : at'[p] = at[p]
    BY <1>0, <1>2, <1>a DEF Sound, TypeOK, Replace
  <2>2. StaleIsMarked'
    BY <1>0, <1>2, <2>1, DestroyStale DEF StaleInv, Replace
  <2>3. \A p \in Requests : at'[p] \notin {"seed", "put"}
    BY <1>0, <1>2, <1>a DEF Sound, TypeOK, OneHolder, Replace
  <2> QED
    BY <2>2, <2>3 DEF Separate, Fresh
<1>3. ASSUME NEW q \in Requests, Build(q) PROVE Parts'
  <2>1. PICK r \in Unused, c \in {config[UserOf[q]], None} :
            /\ fate' = [fate EXCEPT ![r] = "live"]
            /\ runtime_of' = [runtime_of EXCEPT ![q] = r]
            /\ built' = [built EXCEPT ![r] = c]
    BY <1>3, AddressIsUnused DEF Build
  <2>2. /\ at' \in {[at EXCEPT ![q] = "seed"], [at EXCEPT ![q] = "put"]} /\ at[q] = "build"
        /\ config' = config /\ tenant_runtimes' = tenant_runtimes /\ pending_destroy' = pending_destroy
    BY <1>3 DEF Build
  <2>3. r \in Runtimes /\ \A u \in Users : tenant_runtimes[u] # r
    BY <1>0, <2>1, NoneAssumption DEF Sound, TypeOK, CacheLive, Unused
  <2>4. built'[r] \in {config[UserOf[q]], None} /\ runtime_of'[q] = r
    BY <1>0, <2>1, <2>3 DEF Sound, TypeOK
  <2>5. \A p \in Requests : at'[p] \in {"seed", "put"} => p = q
    BY <1>0, <1>a, <2>2 DEF Sound, TypeOK, OneHolder
  <2>6. Separate' /\ Fresh'
    BY <2>2, <2>3, <2>4, <2>5 DEF Separate, Fresh
  <2>7. \A u \in Users : tenant_runtimes[u] # None => built'[tenant_runtimes[u]] = built[tenant_runtimes[u]]
    BY <1>0, <2>1, <2>3 DEF Sound, TypeOK
  <2>8. \A p \in Patches : at'[p] = at[p]
    BY <1>0, <1>a, <2>2 DEF Sound, TypeOK
  <2> QED
    BY <2>2, <2>6, <2>7, <2>8 DEF StaleInv, StaleIsMarked
<1>4. ASSUME NEW q \in Requests, SeedRow(q) PROVE Parts'
  <2>1. /\ at' = [at EXCEPT ![q] = "put"] /\ at[q] = "seed" /\ runtime_of' = runtime_of
        /\ tenant_runtimes' = tenant_runtimes /\ pending_destroy' = pending_destroy
    BY <1>4 DEF SeedRow
  <2>2. runtime_of[q] \in Runtimes /\ tenant_runtimes[UserOf[q]] = None
    BY <1>0, <2>1 DEF Sound, Pointing, EmptySlot
  <2>3. \/ config' = [config EXCEPT ![UserOf[q]] = {Seed}] /\ built' = [built EXCEPT ![runtime_of[q]] = {Seed}]
        \/ config' = config /\ built' = [built EXCEPT ![runtime_of[q]] = None]
    BY <1>4 DEF SeedRow
  <2>4. built'[runtime_of[q]] \in {config'[UserOf[q]], None}
    <3>1. UserOf[q] \in DOMAIN config /\ runtime_of[q] \in DOMAIN built
      BY <1>0, <1>a, <2>2 DEF Sound, TypeOK
    <3> QED
      BY Zenon, <2>3, <3>1
  <2>5. \A p \in Requests : at'[p] \in {"seed", "put"} => p = q
    BY <1>0, <1>a, <2>1 DEF Sound, TypeOK, OneHolder
  <2>6. Separate' /\ Fresh'
    BY <2>1, <2>4, <2>5 DEF StaleInv, Separate, Fresh
  <2>7. \A u \in Users :
            tenant_runtimes[u] # None => /\ config'[u] = config[u]
                                         /\ built'[tenant_runtimes[u]] = built[tenant_runtimes[u]]
    BY <1>0, <1>a, <2>1, <2>2, <2>3 DEF StaleInv, Separate, Sound, TypeOK
  <2>8. \A p \in Patches : at'[p] = at[p]
    BY <1>0, <1>a, <2>1 DEF Sound, TypeOK
  <2> QED
    BY <2>1, <2>6, <2>7, <2>8 DEF StaleInv, StaleIsMarked
<1>5. ASSUME NEW q \in Requests, Put(q) PROVE Parts'
  <2>1. /\ at' = [at EXCEPT ![q] = "fetched"] /\ at[q] = "put"
        /\ tenant_runtimes' = [tenant_runtimes EXCEPT ![UserOf[q]] = runtime_of[q]]
        /\ config' = config /\ built' = built /\ pending_destroy' = pending_destroy
    BY <1>5 DEF Put
  <2>2. \A p \in Requests : at'[p] \notin {"seed", "put"}
    BY <1>0, <1>a, <2>1 DEF Sound, TypeOK, OneHolder
  <2>3. \A p \in Patches : at'[p] = at[p]
    BY <1>0, <1>a, <2>1 DEF Sound, TypeOK
  <2>4. built[runtime_of[q]] \in {config[UserOf[q]], None} \/ Marking(UserOf[q])
    BY <2>1 DEF StaleInv, Fresh
  <2>5. StaleIsMarked'
    BY <1>0, <1>a, <2>1, <2>3, <2>4 DEF StaleInv, StaleIsMarked, Marking, Sound, TypeOK
  <2> QED
    BY <2>2, <2>5 DEF Separate, Fresh
<1>6. ASSUME NEW t \in Turns, Touch(t) \/ Pin(t) \/ Unpin(t) PROVE Parts'
  <2>1. /\ config' = config /\ tenant_runtimes' = tenant_runtimes /\ built' = built
        /\ pending_destroy' = pending_destroy /\ runtime_of' = runtime_of
        /\ \A x \in Threads \ {t} : at'[x] = at[x]
        /\ at'[t] \notin {"seed", "put"} /\ t \in Requests
    BY <1>0, <1>a, <1>6 DEF Sound, TypeOK, Touch, Pin, Unpin, Requests
  <2> QED
    BY <1>a, <1>b, <2>1
<1>7. ASSUME NEW q \in Readers, Peek(q) PROVE Parts'
  <2>1. /\ config' = config /\ tenant_runtimes' = tenant_runtimes /\ built' = built
        /\ pending_destroy' = pending_destroy
        /\ \A x \in Threads \ {q} : at'[x] = at[x]
        /\ at'[q] \notin {"seed", "put"} /\ q \in Requests
        /\ \A x \in Requests \ {q} : runtime_of'[x] = runtime_of[x]
    BY <1>0, <1>a, <1>7 DEF Sound, TypeOK, Peek, Requests
  <2> QED
    BY <1>a, <1>b, <2>1
<1>8. ASSUME NEW p \in Patches, ReadConfig(p) PROVE Parts'
  <2>1. /\ config' = config /\ tenant_runtimes' = tenant_runtimes /\ built' = built
        /\ pending_destroy' = pending_destroy /\ runtime_of' = runtime_of
        /\ \A x \in Threads \ {p} : at'[x] = at[x]
        /\ at[p] = "idle"
    BY <1>0, <1>a, <1>8 DEF Sound, TypeOK, ReadConfig
  <2> QED
    BY <1>a, <2>1 DEF StaleInv, Separate, Fresh, StaleIsMarked, Marking
<1>9. ASSUME NEW p \in Patches, WriteConfig(p) PROVE Parts'
  <2>1. /\ tenant_runtimes' = tenant_runtimes /\ built' = built
        /\ pending_destroy' = pending_destroy /\ runtime_of' = runtime_of
        /\ \A x \in Threads \ {p} : at'[x] = at[x]
        /\ at[p] = "write"
        /\ \/ at'[p] = "mark" /\ \A u \in Users \ {UserOf[p]} : config'[u] = config[u]
           \/ config' = config
    BY <1>0, <1>a, <1>9 DEF Sound, TypeOK, WriteConfig
  <2> QED
    BY <1>a, <2>1 DEF StaleInv, Separate, Fresh, StaleIsMarked, Marking
<1>10. ASSUME NEW p \in Patches, markTenantRuntimeForDestroy(p) PROVE Parts'
  <2>1. /\ config' = config /\ tenant_runtimes' = tenant_runtimes /\ built' = built
        /\ \A x \in Threads \ {p} : at'[x] = at[x]
    BY <1>0, <1>a, <1>10 DEF Sound, TypeOK, markTenantRuntimeForDestroy
  <2>2. \A q \in Requests : at'[q] \notin {"seed", "put"}
    BY <1>a, <1>10, <2>1, FreeMutex DEF markTenantRuntimeForDestroy
  <2>3. /\ \A r \in Runtimes : pending_destroy[r] => pending_destroy'[r]
        /\ tenant_runtimes[UserOf[p]] # None => pending_destroy'[tenant_runtimes[UserOf[p]]]
    <3>1. \A r \in Runtimes : pending_destroy[r] => pending_destroy'[r]
      BY Zenon, <1>10 DEF markTenantRuntimeForDestroy
    <3>2. ASSUME tenant_runtimes[UserOf[p]] # None
          PROVE  tenant_runtimes[UserOf[p]] \in Runtimes /\ tenant_runtimes[UserOf[p]] \in ToMark(p)
      BY <1>0, <1>a, <3>2 DEF Sound, TypeOK, ToMark, InCache
    <3>3. tenant_runtimes[UserOf[p]] # None => pending_destroy'[tenant_runtimes[UserOf[p]]]
      BY Zenon, <1>10, <3>2 DEF markTenantRuntimeForDestroy
    <3> QED
      BY <3>1, <3>3
  <2>4. StaleIsMarked'
    BY <1>0, <1>a, <2>1, <2>3 DEF StaleInv, StaleIsMarked, Sound, TypeOK
  <2> QED
    BY <2>2, <2>4 DEF Separate, Fresh
<1>11. CASE \/ ReadClock \/ CollectIdle \/ CollectMarked \/ CollectOldest \/ SweepEnds
            \/ RequestShutdown \/ Undrain \/ Tick \/ UNCHANGED vars
  <2>1. /\ config' = config /\ tenant_runtimes' = tenant_runtimes /\ built' = built
        /\ pending_destroy' = pending_destroy /\ runtime_of' = runtime_of /\ at' = at
    BY <1>11 DEF ReadClock, CollectIdle, CollectMarked, CollectOldest, SweepEnds, RequestShutdown, Undrain,
              Tick, vars
  <2>2. Parts'
    BY <1>b, <2>1
  <2> QED
    BY <1>0, <2>2 DEF StaleInv
<1>12. ASSUME NEW r \in Runtimes, Remove(r) PROVE Parts'
  <2>1. sweep \notin {"asleep", "waiting"}
    BY <1>0, <1>12 DEF Sound, NothingLeft, Remove
  <2>2. \A q \in Requests : at'[q] \notin {"seed", "put"}
    BY <1>0, <1>12, <2>1 DEF Sound, OneHolder, Remove
  <2>3. StaleIsMarked'
    BY <1>0, <1>12, DestroyStale DEF StaleInv, Remove
  <2> QED
    BY <2>2, <2>3 DEF Separate, Fresh
<1>13. ASSUME NEW u \in Users, Invalidate(u) PROVE Parts'
  <2>1. \A q \in Requests : at'[q] \notin {"seed", "put"}
    BY <1>13, FreeMutex DEF Invalidate
  <2>2. StaleIsMarked'
    BY <1>0, <1>13, DestroyStale DEF StaleInv, Invalidate
  <2> QED
    BY <2>1, <2>2 DEF Separate, Fresh
<1>14. CASE Teardown
  <2>1. \A q \in Requests : at'[q] \notin {"seed", "put"}
    BY <1>14, <1>a DEF Teardown, AtRest
  <2>2. StaleIsMarked'
    BY <1>0, <1>14, DestroyStale DEF StaleInv, Teardown
  <2> QED
    BY <1>0, <2>1, <2>2 DEF StaleInv, Separate, Fresh
<1> QED
  BY <1>0, <1>1, <1>2, <1>3, <1>4, <1>5, <1>6, <1>7, <1>8, <1>9, <1>10, <1>11, <1>12, <1>13, <1>14
  DEF Next, StaleInv

(* A cached runtime that was built from other settings than the stored ones   *)
(* is marked, or a PATCH is about to mark it: a build that runs between the   *)
(* write and the mark cannot slip through, because the mark waits for it.     *)
THEOREM SettingsTakeEffect == Spec => []StaleIsMarked
<1>1. Init => StaleInv
  BY InitSound, NoneAssumption DEF Init, StaleInv, Separate, Fresh, StaleIsMarked, Threads
<1>2. StaleInv => StaleIsMarked
  BY DEF StaleInv
<1> QED
  BY <1>1, <1>2, NextStale, PTL DEF Spec

-----------------------------------------------------------------------------
(* Edits of the settings                                                      *)

Answered(p) == at[p] \in {"mark", "done"}

(* Writers of a row that are at it together have all been noticed.            *)
WritersNoticed ==
    \A x, y \in Threads :
        /\ x # y /\ UserOf[x] = UserOf[y]
        /\ at[x] \in {"write", "seed"} /\ at[y] \in {"write", "seed"}
        => x \in overlapped

(* What a writer is about to store has the edits that were stored before it   *)
(* came; a build that seeds a row came before them all.                       *)
ReadKept ==
    \A p \in Patches \ overlapped : Answered(p) =>
        /\ \A o \in Patches : at[o] = "write" /\ UserOf[o] = UserOf[p] => p \in based_on[o]
        /\ \A q \in Requests : at[q] = "seed" => UserOf[q] # UserOf[p]

EditsInv == TypeOK /\ NothingLeft /\ WritersNoticed /\ ReadKept /\ EditsKept

(* Every step keeps the answered PATCHes in the stored settings.              *)
LEMMA NextEdits == EditsInv /\ [Next]_vars => EditsInv'
<1> SUFFICES ASSUME EditsInv, [Next]_vars PROVE EditsInv'
  OBVIOUS
<1> DEFINE Parts == WritersNoticed /\ ReadKept /\ EditsKept
<1> USE DEF rows, cache, requests, maintenance, Goto, Answered
<1>0. TypeOK /\ TypeOK' /\ NothingLeft'
  BY NextType DEF EditsInv
<1>a. /\ \A q \in Requests : UserOf[q] \in Users /\ q \in Threads /\ q \notin Patches
      /\ \A p \in Patches : UserOf[p] \in Users /\ p \in Threads
  BY UserOfAssumption, KindsDisjoint DEF Threads
(* Steps at which nobody begins or ends to write.                             *)
<1>b. ASSUME config' = config, based_on' = based_on, overlapped' = overlapped,
             \A p \in Patches : at'[p] = at[p],
             \A q \in Requests : at'[q] \in {"write", "seed"} => at'[q] = at[q]
      PROVE  Parts'
  BY <1>b DEF EditsInv, WritersNoticed, ReadKept, EditsKept, Threads
<1>1. ASSUME NEW q \in Requests,
             Arrive(q) \/ Hit(q) \/ Miss(q) \/ Replace(q) \/ Put(q) \/ BuildFails(q) \/ Finish(q)
      PROVE  Parts'
  <2>1. /\ config' = config /\ based_on' = based_on /\ overlapped' = overlapped
        /\ \A x \in Threads \ {q} : at'[x] = at[x]
        /\ at'[q] \notin {"write", "seed"}
    BY <1>0, <1>a, <1>1 DEF TypeOK, Arrive, Hit, Miss, Replace, Put, BuildFails, Finish
  <2> QED
    BY <1>a, <1>b, <2>1
<1>2. ASSUME NEW x \in Threads, BeginsToWrite(x), at' = [at EXCEPT ![x] = "write"] \/ at' = [at EXCEPT ![x] = "seed"],
             at[x] \notin {"write", "seed"}
      PROVE  WritersNoticed' /\ overlapped \subseteq overlapped'
  BY <1>0, <1>2 DEF EditsInv, TypeOK, WritersNoticed, BeginsToWrite, Writers
<1>3. ASSUME NEW q \in Requests, Build(q) PROVE Parts'
  <2>1. PICK c \in {config[UserOf[q]], None} :
            \/ c = {} /\ at' = [at EXCEPT ![q] = "seed"] /\ BeginsToWrite(q)
            \/ c # {} /\ at' = [at EXCEPT ![q] = "put"] /\ overlapped' = overlapped
    BY <1>3 DEF Build
  <2>2. at[q] = "build" /\ config' = config /\ based_on' = based_on
    BY <1>3 DEF Build
  <2>3. CASE c # {}
    <3>1. /\ \A x \in Threads \ {q} : at'[x] = at[x]
          /\ at'[q] \notin {"write", "seed"} /\ overlapped' = overlapped
      BY <1>0, <1>a, <2>1, <2>3 DEF TypeOK
    <3> QED
      BY <1>a, <1>b, <2>2, <3>1
  <2>4. CASE c = {}
    <3>1. at' = [at EXCEPT ![q] = "seed"] /\ BeginsToWrite(q) /\ config[UserOf[q]] = {}
      BY <2>1, <2>4, NoneAssumption
    <3>2. WritersNoticed' /\ overlapped \subseteq overlapped'
      BY <1>a, <1>2, <2>2, <3>1
    <3>3. ReadKept' /\ EditsKept'
      BY <1>0, <1>a, <2>2, <3>1, <3>2 DEF EditsInv, ReadKept, EditsKept, TypeOK
    <3> QED
      BY <3>2, <3>3
  <2> QED
    BY <2>3, <2>4
<1>4. ASSUME NEW q \in Requests, SeedRow(q) PROVE Parts'
  <2>1. /\ at' = [at EXCEPT ![q] = "put"] /\ at[q] = "seed"
        /\ based_on' = based_on /\ overlapped' = overlapped
        /\ config' = [config EXCEPT ![UserOf[q]] = {Seed}] \/ config' = config
    BY <1>4 DEF SeedRow
  <2>2. /\ \A x \in Threads \ {q} : at'[x] = at[x]
        /\ at'[q] = "put"
        /\ \A u \in Users \ {UserOf[q]} : config'[u] = config[u]
    BY <1>0, <1>a, <2>1 DEF TypeOK
  <2>3. WritersNoticed' /\ ReadKept'
    BY <1>a, <2>1, <2>2 DEF EditsInv, WritersNoticed, ReadKept
  <2>4. EditsKept'
    BY <1>a, <2>1, <2>2 DEF EditsInv, ReadKept, EditsKept
  <2> QED
    BY <2>3, <2>4
<1>5. ASSUME NEW t \in Turns, Touch(t) \/ Pin(t) \/ Unpin(t) PROVE Parts'
  <2>1. /\ config' = config /\ based_on' = based_on /\ overlapped' = overlapped
        /\ \A x \in Threads \ {t} : at'[x] = at[x]
        /\ at'[t] \notin {"write", "seed"} /\ t \in Requests
    BY <1>0, <1>a, <1>5 DEF TypeOK, Touch, Pin, Unpin, Requests
  <2> QED
    BY <1>a, <1>b, <2>1
<1>6. ASSUME NEW q \in Readers, Peek(q) PROVE Parts'
  <2>1. /\ config' = config /\ based_on' = based_on /\ overlapped' = overlapped
        /\ \A x \in Threads \ {q} : at'[x] = at[x]
        /\ at'[q] \notin {"write", "seed"} /\ q \in Requests
    BY <1>0, <1>a, <1>6 DEF TypeOK, Peek, Requests
  <2> QED
    BY <1>a, <1>b, <2>1
<1>7. ASSUME NEW p \in Patches, ReadConfig(p) PROVE Parts'
  <2>1. /\ at' = [at EXCEPT ![p] = "write"] /\ at[p] = "idle" /\ BeginsToWrite(p) /\ config' = config
        /\ based_on' = [based_on EXCEPT ![p] = config[UserOf[p]]]
    BY <1>7 DEF ReadConfig
  <2>2. WritersNoticed' /\ overlapped \subseteq overlapped'
    BY <1>a, <1>2, <2>1
  <2>3. ReadKept' /\ EditsKept'
    BY <1>0, <1>a, <2>1, <2>2 DEF EditsInv, ReadKept, EditsKept, TypeOK
  <2> QED
    BY <2>2, <2>3
<1>8. ASSUME NEW p \in Patches, WriteConfig(p) PROVE Parts'
  <2>1. /\ at[p] = "write" /\ overlapped' = overlapped
        /\ based_on' = [based_on EXCEPT ![p] = {}]
        /\ \/ at' = [at EXCEPT ![p] = "mark"] /\ config' = [config EXCEPT ![UserOf[p]] = based_on[p] \cup {p}]
           \/ at' = [at EXCEPT ![p] = "failed"] /\ config' = config
    BY <1>8 DEF WriteConfig, Merged
  <2>2. WritersNoticed'
    BY <1>0, <1>a, <2>1 DEF EditsInv, WritersNoticed, TypeOK
  <2>3. ReadKept'
    BY <1>0, <1>a, <2>1 DEF EditsInv, WritersNoticed, ReadKept, TypeOK
  <2>4. EditsKept'
    BY <1>0, <1>a, <2>1 DEF EditsInv, ReadKept, EditsKept, TypeOK
  <2> QED
    BY <2>2, <2>3, <2>4
<1>9. ASSUME NEW p \in Patches, markTenantRuntimeForDestroy(p) PROVE Parts'
  <2>1. /\ config' = config /\ based_on' = based_on /\ overlapped' = overlapped
        /\ \A x \in Threads \ {p} : at'[x] = at[x]
        /\ at[p] = "mark" /\ at'[p] = "done"
    BY <1>0, <1>a, <1>9 DEF TypeOK, markTenantRuntimeForDestroy
  <2> QED
    BY <1>a, <2>1 DEF EditsInv, WritersNoticed, ReadKept, EditsKept
<1>10. CASE \/ ReadClock \/ CollectIdle \/ CollectMarked \/ CollectOldest \/ SweepEnds
            \/ (\E r \in Runtimes : Remove(r)) \/ (\E u \in Users : Invalidate(u))
            \/ RequestShutdown \/ Undrain \/ Teardown \/ Tick \/ UNCHANGED vars
  <2>1. config' = config /\ based_on' = based_on /\ overlapped' = overlapped /\ at' = at
    BY <1>10 DEF ReadClock, CollectIdle, CollectMarked, CollectOldest, SweepEnds, Remove, Invalidate,
                 RequestShutdown, Undrain, Teardown, Tick, vars
  <2>2. Parts'
    BY <1>b, <2>1
  <2> QED
    BY <1>0, <2>2 DEF EditsInv
<1> QED
  BY <1>0, <1>1, <1>3, <1>4, <1>5, <1>6, <1>7, <1>8, <1>9, <1>10 DEF Next, EditsInv

(* A PATCH that was answered stays in the stored settings, unless another     *)
(* writer of the row was at it in the same time.                              *)
THEOREM EditsSurvive == Spec => []EditsKept
<1>1. Init => EditsInv
  BY InitType DEF Init, EditsInv, WritersNoticed, ReadKept, EditsKept, Answered, Threads
<1>2. EditsInv => EditsKept
  BY DEF EditsInv
<1> QED
  BY <1>1, <1>2, NextEdits, PTL DEF Spec

-----------------------------------------------------------------------------
(* The session manager in the composition.                                    *)

ManagerProofs == INSTANCE SessionManagerProofs

(* Both instances count the same map.                                         *)
LEMMA SameCount == Manager!MapCount = ManagerProofs!MapCount
  BY DEF Manager!MapCount, ManagerProofs!MapCount, Manager!Cardinality, ManagerProofs!Cardinality

(* The manager proved about is the manager composed: its users,               *)
LEMMA SameCallers ==
    /\ \A t : (Manager!TurnStep(t) <=> ManagerProofs!TurnStep(t))
    /\ \A t : (Manager!CancelStep(t) <=> ManagerProofs!CancelStep(t))
    /\ \A t : (Manager!PeekStep(t) <=> ManagerProofs!PeekStep(t))
    /\ \A t : (Manager!ProbeStep(t) <=> ManagerProofs!ProbeStep(t))
  BY SameCount DEF Manager!Starts, ManagerProofs!Starts, Manager!At, ManagerProofs!At, Manager!Goto,
     ManagerProofs!Goto,
   Manager!Return, ManagerProofs!Return, Manager!evict, ManagerProofs!evict, Manager!stop,
   ManagerProofs!stop, Manager!Freed, ManagerProofs!Freed, Manager!Retained, ManagerProofs!Retained,
   Manager!FindSession, ManagerProofs!FindSession, Manager!BelowLimit, ManagerProofs!BelowLimit,
   Manager!CreateSession, ManagerProofs!CreateSession, Manager!getOrCreateInternal,
   ManagerProofs!getOrCreateInternal, Manager!LockSession, ManagerProofs!LockSession, Manager!TurnedAway,
   ManagerProofs!TurnedAway, Manager!SpawnWorker, ManagerProofs!SpawnWorker, Manager!UnlockSession,
   ManagerProofs!UnlockSession, Manager!DropRef, ManagerProofs!DropRef, Manager!releaseSessionRef,
   ManagerProofs!releaseSessionRef, Manager!CancelPin, ManagerProofs!CancelPin, Manager!CancelUnpin,
   ManagerProofs!CancelUnpin, Manager!PeekFind, ManagerProofs!PeekFind, Manager!PeekLock,
   ManagerProofs!PeekLock, Manager!TurnStep, ManagerProofs!TurnStep, Manager!CancelStep,
   ManagerProofs!CancelStep, Manager!PeekStep, ManagerProofs!PeekStep, Manager!ProbeStep,
   ManagerProofs!ProbeStep

(* its evictors and deletes,                                                  *)
LEMMA SameEvictors ==
    /\ \A e : (Manager!SweepStep(e) <=> ManagerProofs!SweepStep(e))
    /\ \A e : (Manager!PurgeStep(e) <=> ManagerProofs!PurgeStep(e))
    /\ \A e : (Manager!DeleteStep(e) <=> ManagerProofs!DeleteStep(e))
  BY DEF Manager!Starts, ManagerProofs!Starts, Manager!At, ManagerProofs!At, Manager!Goto, ManagerProofs!Goto,
   Manager!Return, ManagerProofs!Return, Manager!evict, ManagerProofs!evict, Manager!stop,
   ManagerProofs!stop, Manager!Freed, ManagerProofs!Freed, Manager!Mapped, ManagerProofs!Mapped,
   Manager!DeinitWaits, ManagerProofs!DeinitWaits, Manager!Unmap, ManagerProofs!Unmap, Manager!Free,
   ManagerProofs!Free, Manager!Evictable, ManagerProofs!Evictable, Manager!Victims, ManagerProofs!Victims,
   Manager!Intact, ManagerProofs!Intact, Manager!Collect, ManagerProofs!Collect, Manager!SweepCollect,
   ManagerProofs!SweepCollect, Manager!SweepVisit, ManagerProofs!SweepVisit, Manager!SweepBail,
   ManagerProofs!SweepBail, Manager!Visited, ManagerProofs!Visited, Manager!SweepCheckpoint,
   ManagerProofs!SweepCheckpoint, Manager!JoinTimesOut, ManagerProofs!JoinTimesOut, Manager!SweepDefer,
   ManagerProofs!SweepDefer, Manager!Remove, ManagerProofs!Remove, Manager!SweepRemove,
   ManagerProofs!SweepRemove, Manager!PurgeCollect, ManagerProofs!PurgeCollect, Manager!PurgeUnlock,
   ManagerProofs!PurgeUnlock, Manager!StillUnused, ManagerProofs!StillUnused, Manager!PurgeRemove,
   ManagerProofs!PurgeRemove, Manager!DeleteUnmap, ManagerProofs!DeleteUnmap, Manager!DeleteDestroy,
   ManagerProofs!DeleteDestroy, Manager!SweepStep, ManagerProofs!SweepStep, Manager!PurgeStep,
   ManagerProofs!PurgeStep, Manager!DeleteStep, ManagerProofs!DeleteStep

(* and the rest.                                                              *)
LEMMA SameRest ==
    /\ \A o : (Manager!WorkerDone(o) <=> ManagerProofs!WorkerDone(o))
    /\ (Manager!ShutdownStep <=> ManagerProofs!ShutdownStep)
    /\ (Manager!UseAfterFree <=> ManagerProofs!UseAfterFree)
  BY DEF Manager!WorkerDone, ManagerProofs!WorkerDone, Manager!Intact, ManagerProofs!Intact, Manager!evict,
   ManagerProofs!evict, Manager!stop, ManagerProofs!stop, Manager!Unmap, ManagerProofs!Unmap, Manager!Freed,
   ManagerProofs!Freed, Manager!Mapped, ManagerProofs!Mapped, Manager!Threads, ManagerProofs!Threads,
   Manager!Pinners, ManagerProofs!Pinners, Manager!Evictors, ManagerProofs!Evictors,
   Manager!RequestShutdown, ManagerProofs!RequestShutdown, Manager!Undrain, ManagerProofs!Undrain,
   Manager!BeginFlush, ManagerProofs!BeginFlush,
   Manager!FlushSession, ManagerProofs!FlushSession, Manager!BeginDeinit, ManagerProofs!BeginDeinit,
   Manager!Abandoned, ManagerProofs!Abandoned, Manager!DeinitSession, ManagerProofs!DeinitSession,
   Manager!Dangling, ManagerProofs!Dangling, Manager!UseAfterFree, ManagerProofs!UseAfterFree,
   Manager!ShutdownStep, ManagerProofs!ShutdownStep

(* They start alike and take the same steps.                                  *)
LEMMA SameManager == (Manager!Init <=> ManagerProofs!Init) /\ (Manager!Next <=> ManagerProofs!Next)
<1>1. Manager!Init <=> ManagerProofs!Init
  BY DEF Manager!Init, Manager!Evictors, Manager!Threads, Manager!Pinners,
         ManagerProofs!Init, ManagerProofs!Evictors, ManagerProofs!Threads, ManagerProofs!Pinners
<1>2. Manager!Next <=> ManagerProofs!Next
  BY SameCallers, SameEvictors, SameRest DEF Manager!Next, ManagerProofs!Next
<1> QED
  BY <1>1, <1>2

(* What SessionManager assumes of its constants, as the proofs about it do.   *)
LEMMA ManagerAssumed ==
    /\ Turns \cap Cancels = {}
    /\ (Turns \cup Cancels) \cap (Peekers \cup Probes) = {}
    /\ Peekers \cap Probes = {}
    /\ (Turns \cup Cancels \cup Peekers \cup Probes) \cap (Sweepers \cup Purgers \cup Deleters) = {}
    /\ Sweepers \cap Purgers = {} /\ Sweepers \cap Deleters = {} /\ Purgers \cap Deleters = {}
    /\ None \notin Objects \cup ManagerProofs!Threads \cup Keys
    /\ ManagerProofs!IsFiniteSet(ManagerProofs!Pinners) /\ ManagerProofs!IsFiniteSet(Keys)
    /\ MaxSessionsPerUser \in Nat /\ WorkersMayHang \in BOOLEAN
<1>1. None \notin Objects \cup ManagerProofs!Threads \cup Keys
  BY ManagerAssumption DEF Manager!Threads, Manager!Pinners, Manager!Evictors,
     ManagerProofs!Threads, ManagerProofs!Pinners, ManagerProofs!Evictors
<1>2. \A S : ManagerProofs!IsFiniteSet(S) <=> IsFiniteSet(S)
  BY DEF ManagerProofs!IsFiniteSet, IsFiniteSet
<1>3. ManagerProofs!IsFiniteSet(ManagerProofs!Pinners) /\ ManagerProofs!IsFiniteSet(Keys)
  BY <1>2, ManagerAssumption DEF Manager!Pinners, ManagerProofs!Pinners
<1> QED
  BY <1>1, <1>3, ManagerAssumption DEF Manager!Pinners, Manager!Evictors

(* A step of the composition is one of the manager's or leaves it alone.      *)
LEMMA StepOfManager ==
    ASSUME [LevelsNext]_<<level, runtimes, manager>>
    PROVE  [ManagerProofs!Next]_(ManagerProofs!vars)
  BY SameManager DEF LevelsNext, manager, ManagerProofs!vars, ManagerProofs!evict, ManagerProofs!stop

(* The invariant of the proofs about SessionManager holds in the composition. *)
LEMMA ManagerSafe ==
    ASSUME ManagerProofs!Spared
    PROVE  LevelsSpec /\ []ManagerProofs!PurgesAlone => []ManagerProofs!SafeInv
<1>1. LevelsInit => ManagerProofs!SafeInv
  BY ManagerAssumed, SameManager, ManagerProofs!InitSafe DEF LevelsInit
<1>2. /\ ManagerProofs!SafeInv /\ ManagerProofs!PurgesAlone /\ ManagerProofs!PurgesAlone'
      /\ [LevelsNext]_<<level, runtimes, manager>>
      => ManagerProofs!SafeInv'
  BY ManagerAssumed, StepOfManager, ManagerProofs!SafeNext
<1> QED
  BY <1>1, <1>2, PTL DEF LevelsSpec

(* With the manager in its runtime, too: however turns, cancels, reads,       *)
(* deletes, purges and the shutdown interleave, none of them touches a        *)
(* destroyed session.                                                         *)
THEOREM PinnedSessionsKept ==
    ASSUME ManagerProofs!Spared
    PROVE  LevelsSpec /\ []ManagerProofs!PurgesAlone => []NoUseAfterFree
<1>1. ManagerProofs!SafeInv => NoUseAfterFree
  BY DEF ManagerProofs!SafeInv, ManagerProofs!Quiet, ManagerProofs!NoUseAfterFree,
         NoUseAfterFree, Manager!NoUseAfterFree
<1> QED
  BY <1>1, ManagerSafe, PTL

(* A conversation is run by one turn at a time, although its session may be   *)
(* deleted or purged and created anew while turns for it keep arriving.       *)
THEOREM OneTurnAtATime ==
    ASSUME ManagerProofs!Spared
    PROVE  LevelsSpec /\ []ManagerProofs!PurgesAlone => []OneTurnPerKey
<1>1. ManagerProofs!SafeInv => OneTurnPerKey
  BY ManagerAssumed, ManagerProofs!SafeOneTurn
  DEF ManagerProofs!OneTurnPerKey, OneTurnPerKey, Manager!OneTurnPerKey
<1> QED
  BY <1>1, ManagerSafe, PTL
=============================================================================
