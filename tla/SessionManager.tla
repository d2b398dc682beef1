--------------------------- MODULE SessionManager ---------------------------
(* The lifetime of the in-memory sessions of one tenant (src/src/session.zig  *)
(* and the session routes of src/src/gateway.zig).  A session is a heap       *)
(* object reached through the manager's map.  Users pin it (active_refs, kept *)
(* under the manager's mutex), lock its own mutex, or just keep the pointer;  *)
(* sweeps, purges and deletes take it out of the map and free it.  What is at *)
(* stake is that nobody touches a freed object and that one conversation is   *)
(* never run by two turns at once.                                            *)
(*                                                                            *)
(* A section of the manager's mutex is one step.  The mutex is a variable     *)
(* because the read routes keep it while they wait for a session's mutex.     *)
(* How turns queue for a session's mutex is SessionQueue's subject: here a    *)
(* turn waits for the mutex or is turned away.                                *)
EXTENDS Integers, FiniteSets

CONSTANTS
    Keys,           \* session keys of one user
    Objects,        \* heap addresses; a freed one is not used again
    Turns,          \* threads in processMessage or appendAssistantMessage
    Cancels,        \* threads in cancelActiveTurn
    Peekers,        \* threads in the lock-escalating routes (get, context, compact, export)
    Probes,         \* threads in captureOriginSnapshot or the diagnostics routes
    Sweepers,       \* threads in evictIdle
    Purgers,        \* threads in evictUserSessions
    Deleters,       \* threads in handleSessionDelete
    MaxSessionsPerUser,
    WorkersMayHang, \* a lifecycle worker may outlive the 90 s Agent.deinit waits
    None

Pinners == Turns \cup Cancels
Evictors == Sweepers \cup Purgers
Threads == Pinners \cup Peekers \cup Probes \cup Evictors \cup Deleters

ASSUME ThreadKindsDisjoint ==
    /\ Turns \cap Cancels = {}
    /\ (Turns \cup Cancels) \cap (Peekers \cup Probes) = {}
    /\ Peekers \cap Probes = {}
    /\ (Turns \cup Cancels \cup Peekers \cup Probes) \cap (Sweepers \cup Purgers \cup Deleters) = {}
    /\ Sweepers \cap Purgers = {} /\ Sweepers \cap Deleters = {} /\ Purgers \cap Deleters = {}
ASSUME NoneAssumption == None \notin Objects \cup Threads \cup Keys
ASSUME PinnersFinite == IsFiniteSet(Pinners) /\ IsFiniteSet(Keys)
ASSUME LimitAssumption == MaxSessionsPerUser \in Nat
ASSUME HangAssumption == WorkersMayHang \in BOOLEAN

VARIABLES
    sessions,       \* the map: sessions[k] is the object of key k, or None
    mutex,          \* who keeps the manager's mutex between steps, or None
    phase,          \* phase[o]: "unborn", "live", "freed" or "leaked"
    keyOf,          \* keyOf[o]: its session_key
    active_refs,    \* active_refs[o]
    lock,           \* lock[o]: who holds the session's mutex, or None
    worker,         \* worker[o]: its agent's lifecycle_in_flight
    pc, ptr,        \* per thread: where it is and the session it points to
    candidates,     \* candidates[e]: sessions evictor e collected and keeps locked
    to_remove,      \* to_remove[e]: sessions whose keys evictor e will remove
    shutdown,       \* "up", "requested", "flush" or "deinit"
    flushed,        \* sessions the shutdown flush has passed
    crashed         \* some thread touched a freed session

evict == <<candidates, to_remove>>
stop == <<shutdown, flushed>>
vars == <<sessions, mutex, phase, keyOf, active_refs, lock, worker, pc, ptr,
          evict, stop, crashed>>

Freed(o) == phase[o] = "freed"
Mapped == {o \in Objects : \E k \in Keys : sessions[k] = o}
MapCount == Cardinality({k \in Keys : sessions[k] # None})

Init ==
    /\ sessions = [k \in Keys |-> None]
    /\ mutex = None
    /\ phase = [o \in Objects |-> "unborn"]
    /\ keyOf = [o \in Objects |-> None]
    /\ active_refs = [o \in Objects |-> 0]
    /\ lock = [o \in Objects |-> None]
    /\ worker = [o \in Objects |-> FALSE]
    /\ pc = [t \in Threads |-> "idle"]
    /\ ptr = [t \in Threads |-> None]
    /\ candidates = [e \in Evictors |-> {}]
    /\ to_remove = [e \in Evictors |-> {}]
    /\ shutdown = "up"
    /\ flushed = {}
    /\ crashed = FALSE

(* A call starts while the request queue is open; one that has started runs   *)
(* on.  Everything a thread does to its session needs the session to exist.   *)
Starts(t) == pc[t] = "idle" /\ shutdown = "up" /\ ~crashed
At(t, where) == pc[t] = where /\ ~Freed(ptr[t]) /\ ~crashed
Goto(t, where) == pc' = [pc EXCEPT ![t] = where]
Return(t) == Goto(t, "idle") /\ ptr' = [ptr EXCEPT ![t] = None]

-----------------------------------------------------------------------------
(* getOrCreateInternal: turns retain a reference, captureOriginSnapshot does  *)
(* not.  The map lookup, the limit, the creation and the pin are one section. *)

Retained(t) == IF t \in Turns THEN 1 ELSE 0

FindSession(t, k) ==
    /\ sessions[k] # None
    /\ active_refs' = [active_refs EXCEPT ![sessions[k]] = @ + Retained(t)]
    /\ ptr' = [ptr EXCEPT ![t] = sessions[k]]
    /\ UNCHANGED <<sessions, phase, keyOf>>

MutantBelowLimit == MapCount <= MaxSessionsPerUser  \* off by one
BelowLimit == MapCount < MaxSessionsPerUser

CreateSession(t, k) ==
    /\ sessions[k] = None
    /\ BelowLimit
    /\ \E o \in Objects :
        /\ phase[o] = "unborn"
        /\ phase' = [phase EXCEPT ![o] = "live"]
        /\ keyOf' = [keyOf EXCEPT ![o] = k]
        /\ active_refs' = [active_refs EXCEPT ![o] = Retained(t)]
        /\ sessions' = [sessions EXCEPT ![k] = o]
        /\ ptr' = [ptr EXCEPT ![t] = o]

getOrCreateInternal(t, k) ==
    /\ Starts(t) /\ mutex = None
    /\ FindSession(t, k) \/ CreateSession(t, k)
    /\ Goto(t, "found")
    /\ UNCHANGED <<mutex, lock, worker, evict, stop, crashed>>

(* processMessage and appendAssistantMessage, once the session is pinned.     *)

LockSession(t) ==
    /\ At(t, "found")
    /\ lock[ptr[t]] = None
    /\ lock' = [lock EXCEPT ![ptr[t]] = t]
    /\ Goto(t, "inside")
    /\ UNCHANGED <<sessions, mutex, phase, keyOf, active_refs, worker, ptr, evict, stop, crashed>>

(* The session is busy and its queue turns the message away.                  *)
TurnedAway(t) ==
    /\ At(t, "found")
    /\ lock[ptr[t]] # None
    /\ Goto(t, "leaving")
    /\ UNCHANGED <<sessions, mutex, phase, keyOf, active_refs, lock, worker, ptr, evict, stop, crashed>>

(* persistSessionCheckpointAsync: at most one lifecycle worker per agent.     *)
SpawnWorker(t) ==
    /\ At(t, "inside")
    /\ ~worker[ptr[t]]
    /\ worker' = [worker EXCEPT ![ptr[t]] = TRUE]
    /\ UNCHANGED <<sessions, mutex, phase, keyOf, active_refs, lock, pc, ptr, evict, stop, crashed>>

WorkerDone(o) ==
    /\ worker[o] /\ ~Freed(o) /\ ~crashed
    /\ worker' = [worker EXCEPT ![o] = FALSE]
    /\ UNCHANGED <<sessions, mutex, phase, keyOf, active_refs, lock, pc, ptr, evict, stop, crashed>>

UnlockSession(t) ==
    /\ At(t, "inside")
    /\ lock' = [lock EXCEPT ![ptr[t]] = None]
    /\ IF t \in Turns THEN Goto(t, "leaving") /\ UNCHANGED ptr ELSE Return(t)
    /\ UNCHANGED <<sessions, mutex, phase, keyOf, active_refs, worker, evict, stop, crashed>>

MutantDropRef(o) == active_refs                     \* the deferred release is missing
DropRef(o) == [active_refs EXCEPT ![o] = IF @ > 0 THEN @ - 1 ELSE @]

releaseSessionRef(t) ==
    /\ At(t, "leaving") /\ mutex = None
    /\ active_refs' = DropRef(ptr[t])
    /\ Return(t)
    /\ UNCHANGED <<sessions, mutex, phase, keyOf, lock, worker, evict, stop, crashed>>

(* cancelActiveTurn: pin, set the token without any lock, unpin.              *)

CancelPin(t, k) ==
    /\ Starts(t) /\ mutex = None
    /\ sessions[k] # None
    /\ active_refs' = [active_refs EXCEPT ![sessions[k]] = @ + 1]
    /\ ptr' = [ptr EXCEPT ![t] = sessions[k]]
    /\ Goto(t, "found")
    /\ UNCHANGED <<sessions, mutex, phase, keyOf, lock, worker, evict, stop, crashed>>

CancelUnpin(t) ==
    /\ At(t, "found") /\ mutex = None
    /\ active_refs' = DropRef(ptr[t])
    /\ Return(t)
    /\ UNCHANGED <<sessions, mutex, phase, keyOf, lock, worker, evict, stop, crashed>>

(* The read routes: the manager's mutex is kept until the session's is held.  *)

PeekFind(t, k) ==
    /\ Starts(t) /\ mutex = None
    /\ sessions[k] # None
    /\ mutex' = t
    /\ ptr' = [ptr EXCEPT ![t] = sessions[k]]
    /\ Goto(t, "escalating")
    /\ UNCHANGED <<sessions, phase, keyOf, active_refs, lock, worker, evict, stop, crashed>>

PeekLock(t) ==
    /\ At(t, "escalating")
    /\ lock[ptr[t]] = None
    /\ lock' = [lock EXCEPT ![ptr[t]] = t]
    /\ mutex' = None
    /\ Goto(t, "inside")
    /\ UNCHANGED <<sessions, phase, keyOf, active_refs, worker, ptr, evict, stop, crashed>>

-----------------------------------------------------------------------------
(* Freeing.  Session.deinit waits for the lifecycle worker at most 90 s and   *)
(* ignores whether it drained; the caller then destroys the session.          *)

DeinitWaits(gone) ==
    \E hung \in SUBSET {o \in gone : worker[o]} :
        /\ hung # {} => WorkersMayHang
        /\ worker' = [o \in Objects |-> worker[o] /\ (o \in gone => o \in hung)]

MutantUnmap(gone) == sessions' = sessions           \* destroyed, yet still in the map
Unmap(gone) == sessions' = [k \in Keys |-> IF sessions[k] \in gone THEN None ELSE sessions[k]]
Free(gone) == phase' = [o \in Objects |-> IF o \in gone THEN "freed" ELSE phase[o]]

(* What an evictor can take: nobody has it pinned and its mutex is free.      *)
MutantEvictable == {o \in Mapped : lock[o] = None}  \* the test of active_refs is missing
Evictable == {o \in Mapped : active_refs[o] = 0 /\ lock[o] = None}

(* The keys in to_remove belong to the sessions themselves; what goes is      *)
(* whatever the map holds under those keys now.                               *)
Victims(e) == {sessions[keyOf[o]] : o \in to_remove[e]} \ {None}
Intact(e) == \A o \in candidates[e] \cup to_remove[e] : ~Freed(o)

Collect(e, found) ==
    /\ Starts(e) /\ mutex = None
    /\ found # {}
    /\ candidates' = [candidates EXCEPT ![e] = found]
    /\ lock' = [o \in Objects |-> IF o \in found THEN e ELSE lock[o]]
    /\ Goto(e, "collected")
    /\ UNCHANGED <<sessions, mutex, phase, keyOf, active_refs, worker, ptr, to_remove, stop, crashed>>

(* evictIdle: any of the evictable sessions may be idle or past its TTL.      *)
SweepCollect(e) == \E idle \in SUBSET Evictable : Collect(e, idle)

(* Between two sessions the sweep looks at the shutdown flag: it either goes  *)
(* on to the next session, or unlocks what is left and goes to the removal.   *)
SweepVisit(e) ==
    /\ pc[e] = "collected" /\ Intact(e) /\ ~crashed
    /\ candidates[e] # {} /\ shutdown = "up"
    /\ Goto(e, "visiting")
    /\ UNCHANGED <<sessions, mutex, phase, keyOf, active_refs, lock, worker, ptr, evict, stop, crashed>>

SweepBail(e) ==
    /\ pc[e] = "collected" /\ Intact(e) /\ ~crashed
    /\ candidates[e] # {} /\ shutdown # "up"
    /\ lock' = [o \in Objects |-> IF o \in candidates[e] THEN None ELSE lock[o]]
    /\ candidates' = [candidates EXCEPT ![e] = {}]
    /\ UNCHANGED <<sessions, mutex, phase, keyOf, active_refs, worker, pc, ptr, to_remove, stop, crashed>>

Visited(e, o) == pc[e] = "visiting" /\ o \in candidates[e] /\ Intact(e) /\ ~crashed

(* The lifecycle worker has drained: the checkpoint is written.               *)
SweepCheckpoint(e, o) ==
    /\ Visited(e, o)
    /\ ~worker[o]
    /\ candidates' = [candidates EXCEPT ![e] = @ \ {o}]
    /\ to_remove' = [to_remove EXCEPT ![e] = @ \cup {o}]
    /\ lock' = [lock EXCEPT ![o] = None]
    /\ Goto(e, "collected")
    /\ UNCHANGED <<sessions, mutex, phase, keyOf, active_refs, worker, ptr, stop, crashed>>

MutantJoinTimesOut(o) == FALSE                      \* the join of the worker is unbounded
JoinTimesOut(o) == worker[o]

(* The bounded join of the lifecycle worker timed out: left for a later sweep.*)
SweepDefer(e, o) ==
    /\ Visited(e, o)
    /\ JoinTimesOut(o)
    /\ candidates' = [candidates EXCEPT ![e] = @ \ {o}]
    /\ lock' = [lock EXCEPT ![o] = None]
    /\ Goto(e, "collected")
    /\ UNCHANGED <<sessions, mutex, phase, keyOf, active_refs, worker, ptr, to_remove, stop, crashed>>

Remove(e, gone) ==
    /\ pc[e] = "collected" /\ candidates[e] = {} /\ Intact(e) /\ ~crashed
    /\ mutex = None
    /\ Unmap(gone) /\ Free(gone) /\ DeinitWaits(gone)
    /\ to_remove' = [to_remove EXCEPT ![e] = {}]
    /\ Goto(e, "idle")
    /\ UNCHANGED <<mutex, keyOf, active_refs, lock, ptr, candidates, stop, crashed>>

SweepRemove(e) == Remove(e, Victims(e))

(* evictUserSessions: every session of the user, checked again before it goes.*)
PurgeCollect(e) == Collect(e, Evictable)

PurgeUnlock(e) ==
    /\ pc[e] = "collected" /\ candidates[e] # {} /\ Intact(e) /\ ~crashed
    /\ to_remove' = [to_remove EXCEPT ![e] = candidates[e]]
    /\ candidates' = [candidates EXCEPT ![e] = {}]
    /\ lock' = [o \in Objects |-> IF o \in candidates[e] THEN None ELSE lock[o]]
    /\ UNCHANGED <<sessions, mutex, phase, keyOf, active_refs, worker, pc, ptr, stop, crashed>>

MutantStillUnused(o) == TRUE                        \* the re-check of phase 3 is missing
StillUnused(o) == active_refs[o] = 0

PurgeRemove(e) == Remove(e, {o \in Victims(e) : StillUnused(o)})

(* handleSessionDelete: unmapped under both mutexes, destroyed after them.    *)
DeleteUnmap(d, k) ==
    /\ Starts(d) /\ mutex = None
    /\ sessions[k] \in Evictable
    /\ ptr' = [ptr EXCEPT ![d] = sessions[k]]
    /\ sessions' = [sessions EXCEPT ![k] = None]
    /\ Goto(d, "removed")
    /\ UNCHANGED <<mutex, phase, keyOf, active_refs, lock, worker, evict, stop, crashed>>

DeleteDestroy(d) ==
    /\ At(d, "removed")
    /\ Free({ptr[d]}) /\ DeinitWaits({ptr[d]})
    /\ Return(d)
    /\ UNCHANGED <<sessions, mutex, keyOf, active_refs, lock, evict, stop, crashed>>

-----------------------------------------------------------------------------
(* Shutdown: the gateway sets the flag, joins its threads, and deinit flushes *)
(* every session and then tears each one down before a shared deadline.       *)

RequestShutdown ==
    /\ shutdown = "up" /\ ~crashed
    /\ shutdown' = "requested"
    /\ UNCHANGED <<sessions, mutex, phase, keyOf, active_refs, lock, worker, pc, ptr, evict, flushed, crashed>>

(* An undrain, taken while requests are still served, takes the flag back.    *)
Undrain ==
    /\ shutdown = "requested" /\ ~crashed
    /\ shutdown' = "up"
    /\ UNCHANGED <<sessions, mutex, phase, keyOf, active_refs, lock, worker, pc, ptr, evict, flushed, crashed>>

BeginFlush ==
    /\ shutdown = "requested" /\ ~crashed
    /\ \A t \in Threads : pc[t] = "idle"
    /\ shutdown' = "flush"
    /\ UNCHANGED <<sessions, mutex, phase, keyOf, active_refs, lock, worker, pc, ptr, evict, flushed, crashed>>

(* The flush writes the checkpoint, or leaves it to a worker still in flight.*)
FlushSession(o) ==
    /\ shutdown = "flush" /\ ~crashed
    /\ o \in Mapped \ flushed
    /\ flushed' = flushed \cup {o}
    /\ UNCHANGED <<sessions, mutex, phase, keyOf, active_refs, lock, worker, pc, ptr, evict, shutdown, crashed>>

BeginDeinit ==
    /\ shutdown = "flush" /\ Mapped = flushed /\ ~crashed
    /\ shutdown' = "deinit"
    /\ UNCHANGED <<sessions, mutex, phase, keyOf, active_refs, lock, worker, pc, ptr, evict, flushed, crashed>>

Abandoned(o) == IF worker[o] THEN "leaked" ELSE "freed"

(* A session whose worker is still in flight at the deadline is leaked.       *)
DeinitSession(o) ==
    /\ shutdown = "deinit" /\ ~crashed
    /\ o \in Mapped
    /\ Unmap({o})
    /\ phase' = [phase EXCEPT ![o] = Abandoned(o)]
    /\ UNCHANGED <<mutex, keyOf, active_refs, lock, worker, pc, ptr, evict, stop, crashed>>

-----------------------------------------------------------------------------
(* Undefined behaviour: a thread is about to touch a freed session.  The      *)
(* process does nothing further that the model describes.                     *)

Dangling(t) ==
    \/ ptr[t] # None /\ Freed(ptr[t])
    \/ t \in Evictors /\ ~Intact(t)

UseAfterFree ==
    /\ ~crashed
    /\ (\E t \in Threads : Dangling(t)) \/ (\E o \in Objects : worker[o] /\ Freed(o))
    /\ crashed' = TRUE
    /\ UNCHANGED <<sessions, mutex, phase, keyOf, active_refs, lock, worker, pc, ptr, evict, stop>>

TurnStep(t) ==
    \/ \E k \in Keys : getOrCreateInternal(t, k)
    \/ LockSession(t) \/ TurnedAway(t) \/ SpawnWorker(t) \/ UnlockSession(t) \/ releaseSessionRef(t)
CancelStep(t) == (\E k \in Keys : CancelPin(t, k)) \/ CancelUnpin(t)
PeekStep(t) == (\E k \in Keys : PeekFind(t, k)) \/ PeekLock(t) \/ UnlockSession(t)
ProbeStep(t) == (\E k \in Keys : getOrCreateInternal(t, k)) \/ LockSession(t) \/ UnlockSession(t)
SweepStep(e) ==
    \/ SweepCollect(e) \/ SweepVisit(e) \/ SweepBail(e) \/ SweepRemove(e)
    \/ \E o \in Objects : SweepCheckpoint(e, o) \/ SweepDefer(e, o)
PurgeStep(e) == PurgeCollect(e) \/ PurgeUnlock(e) \/ PurgeRemove(e)
DeleteStep(d) == (\E k \in Keys : DeleteUnmap(d, k)) \/ DeleteDestroy(d)
ShutdownStep ==
    \/ RequestShutdown \/ Undrain \/ BeginFlush \/ BeginDeinit
    \/ \E o \in Objects : FlushSession(o) \/ DeinitSession(o)

Next ==
    \/ \E t \in Turns : TurnStep(t)
    \/ \E t \in Cancels : CancelStep(t)
    \/ \E t \in Peekers : PeekStep(t)
    \/ \E t \in Probes : ProbeStep(t)
    \/ \E e \in Sweepers : SweepStep(e)
    \/ \E e \in Purgers : PurgeStep(e)
    \/ \E d \in Deleters : DeleteStep(d)
    \/ \E o \in Objects : WorkerDone(o)
    \/ ShutdownStep
    \/ UseAfterFree

Spec == Init /\ [][Next]_vars

(* Calls that have started are finished by the scheduler, and shutdown goes   *)
(* on once requested.  Nothing is assumed of the start of a call, of the      *)
(* request to shut down and its being taken back, or of lifecycle workers,    *)
(* which may hang.                                                            *)
Finish(t) ==
    \/ LockSession(t) \/ UnlockSession(t) \/ TurnedAway(t) \/ releaseSessionRef(t)
Fairness ==
    /\ \A t \in Turns : WF_vars(Finish(t))
    /\ \A t \in Probes : WF_vars(LockSession(t) \/ UnlockSession(t))
    /\ \A t \in Cancels : WF_vars(CancelUnpin(t))
    /\ \A t \in Peekers : WF_vars(PeekLock(t) \/ UnlockSession(t))
    /\ \A e \in Sweepers :
        /\ WF_vars(SweepVisit(e) \/ SweepBail(e) \/ SweepRemove(e))
        /\ WF_vars(\E o \in Objects : SweepCheckpoint(e, o) \/ SweepDefer(e, o))
    /\ \A e \in Purgers : WF_vars(PurgeUnlock(e) \/ PurgeRemove(e))
    /\ \A d \in Deleters : WF_vars(DeleteDestroy(d))
    /\ WF_vars(BeginFlush \/ BeginDeinit \/ \E o \in Objects : FlushSession(o) \/ DeinitSession(o))
    /\ WF_vars(UseAfterFree)

FairSpec == Spec /\ Fairness

-----------------------------------------------------------------------------

(* Type correctness: active_refs never becomes negative, pointers are null or *)
(* addresses, and only a read route keeps the manager's mutex.                *)
TypeOK ==
    /\ sessions \in [Keys -> Objects \cup {None}]
    /\ mutex \in Peekers \cup {None}
    /\ phase \in [Objects -> {"unborn", "live", "freed", "leaked"}]
    /\ keyOf \in [Objects -> Keys \cup {None}]
    /\ active_refs \in [Objects -> Nat]
    /\ lock \in [Objects -> Threads \cup {None}]
    /\ worker \in [Objects -> BOOLEAN]
    /\ pc \in [Threads -> {"idle", "found", "escalating", "inside", "leaving", "collected", "visiting", "removed"}]
    /\ ptr \in [Threads -> Objects \cup {None}]
    /\ candidates \in [Evictors -> SUBSET Objects]
    /\ to_remove \in [Evictors -> SUBSET Objects]
    /\ shutdown \in {"up", "requested", "flush", "deinit"}
    /\ flushed \subseteq Objects
    /\ crashed \in BOOLEAN

(* The map holds live sessions only, each under its own key.                  *)
MapSound ==
    \A k \in Keys : sessions[k] # None => phase[sessions[k]] = "live" /\ keyOf[sessions[k]] = k

Pins(o) == {t \in Pinners : ptr[t] = o}

(* active_refs counts the turns and cancels that point at the session: no     *)
(* return path of processMessage, appendAssistantMessage or cancelActiveTurn  *)
(* leaks a pin (the session could never be evicted) or drops another's.       *)
RefsMatchPins == \A o \in Objects : phase[o] = "live" => active_refs[o] = Cardinality(Pins(o))

(* No thread or lifecycle worker ever touches a session that was destroyed.   *)
NoUseAfterFree == ~crashed

(* One conversation is run by one turn at a time, also when its session was   *)
(* evicted and created again in between.                                      *)
OneTurnPerKey ==
    \A t, u \in Turns :
        (pc[t] = "inside" /\ pc[u] = "inside" /\ t # u) => keyOf[ptr[t]] # keyOf[ptr[u]]

(* A purge at work is the only evictor, and there is no reader without a pin. *)
PurgesAlone ==
    \A e \in Purgers : pc[e] # "idle" => \A u \in Threads \ (Pinners \cup {e}) : pc[u] = "idle"

(* MAX_SESSIONS_PER_USER bounds the sessions of a user whatever the order of  *)
(* creations and evictions.                                                   *)
SessionLimit == MapCount <= MaxSessionsPerUser

(* The tenant's teardown always gets through, hung lifecycle workers or not,  *)
(* and whatever sweep was running when shutdown was requested, unless the     *)
(* request is taken back.                                                     *)
ShutdownCompletes ==
    (shutdown = "requested") ~> (shutdown = "up" \/ (shutdown = "deinit" /\ Mapped = {}) \/ crashed)

=============================================================================
