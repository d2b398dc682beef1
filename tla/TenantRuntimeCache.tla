-------------------------- MODULE TenantRuntimeCache --------------------------
(* The cache of tenant runtimes of one gateway (src/src/gateway.zig): which   *)
(* requests get which runtime, when a runtime is built, marked and freed, and *)
(* with which settings it was built.  A request holds a plain pointer; what   *)
(* is known of it is whether a turn of it is pinned in the runtime's session  *)
(* manager (hasActiveTurns), and that is a later step than getTenantRuntime.  *)
EXTENDS Naturals, FiniteSets

CONSTANTS
    Users,
    Turns,    \* requests that run a turn: chats, webhooks
    Readers,  \* requests that use a runtime without a turn: event streams, tasks, graph
    Patches,  \* settings PATCHes; each stands for the setting it changes as well
    UserOf,   \* whose request it is
    Runtimes, \* addresses; one that was freed and nobody points to is used again
    IdleTtl,  \* tenant_runtime_idle_ttl_secs; 0 switches the idle prune off
    MaxUsers, \* tenant_runtime_cache_max_users; 0 counts as 1
    MaxNow,   \* bound of the clock
    Seed,     \* what is in a row of settings that was written by a build
    None

Requests == Turns \cup Readers
Threads == Requests \cup Patches

ASSUME KindsDisjoint == Turns \cap Readers = {} /\ Requests \cap Patches = {}
ASSUME UserOfAssumption == UserOf \in [Threads -> Users]
ASSUME NoneAssumption == None \notin Runtimes /\ None # {}
ASSUME BoundsAssumption == IdleTtl \in Nat /\ MaxUsers \in Nat /\ MaxNow \in Nat

VARIABLES
    config,          \* per user: the stored settings; {} is a row yet to be seeded
    tenant_runtimes, \* the cache: per user a runtime or None
    built,           \* per runtime: the settings it was built from, or None without them
    pending_destroy, \* per runtime
    last_used_s,     \* per runtime
    fate,            \* per runtime: "unused", "live", or what freed it
    at,              \* per request: the step it makes next
    runtime_of,      \* per request: the runtime it points to
    since,           \* per request: the time getTenantRuntime read before its lock
    based_on,        \* per PATCH: the settings it read
    sweep,           \* the maintenance thread: "asleep", "waiting", or its part of the prune
    sweep_now,       \* the time it read before its lock
    doomed,          \* the keys this part has collected
    now,             \* the clock, in seconds
    gateway,         \* "up", "stopping" (shutdown_requested) or "down"
    settled,         \* history: turns that pinned while nobody held the cache's mutex
    overlapped,      \* history: writers of a row that were at it at the same time
    overtaken        \* history: runtimes whose last use was moved back

rows == <<config, based_on, overlapped>>
cache == <<tenant_runtimes, built, pending_destroy, last_used_s, fate, overtaken>>
requests == <<at, runtime_of, since, settled>>
maintenance == <<sweep, sweep_now, doomed>>
vars == <<rows, cache, requests, maintenance, now, gateway>>

Init ==
    /\ config = [u \in Users |-> {}]
    /\ tenant_runtimes = [u \in Users |-> None]
    /\ built = [r \in Runtimes |-> None]
    /\ pending_destroy = [r \in Runtimes |-> FALSE]
    /\ last_used_s = [r \in Runtimes |-> 0]
    /\ fate = [r \in Runtimes |-> "unused"]
    /\ at = [q \in Threads |-> "idle"]
    /\ runtime_of = [q \in Requests |-> None]
    /\ since = [q \in Requests |-> 0]
    /\ based_on = [p \in Patches |-> {}]
    /\ sweep = "asleep" /\ sweep_now = 0 /\ doomed = {}
    /\ now = 0
    /\ gateway = "up"
    /\ settled = {} /\ overlapped = {} /\ overtaken = {}

Goto(q, here, there) == at[q] = here /\ at' = [at EXCEPT ![q] = there]

(* tenant_runtime_mutex is held while a runtime is replaced or built, and by  *)
(* the prune.                                                                 *)
MutexFree ==
    /\ \A q \in Requests : at[q] \notin {"replace", "build", "seed", "put"}
    /\ sweep \in {"asleep", "waiting"}

InCache == {tenant_runtimes[u] : u \in Users} \ {None}

MutantHasActiveTurns(r) == FALSE                    \* nobody asks the session manager
HasActiveTurns(r) == \E t \in Turns : at[t] = "turn" /\ runtime_of[t] = r

(* removeTenantRuntime and its variants: out of the map, then freed.          *)
PointedTo(r) == \E q \in Requests : runtime_of[q] = r
Destroy(rs, why) ==
    /\ tenant_runtimes' = [u \in Users |-> IF tenant_runtimes[u] \in rs THEN None ELSE tenant_runtimes[u]]
    /\ fate' = [r \in Runtimes |-> IF r \notin rs THEN fate[r] ELSE IF PointedTo(r) THEN why ELSE "unused"]
    /\ built' = [r \in Runtimes |-> IF r \in rs THEN None ELSE built[r]]
    /\ pending_destroy' = [r \in Runtimes |-> pending_destroy[r] /\ r \notin rs]
    /\ last_used_s' = [r \in Runtimes |-> IF r \in rs THEN 0 ELSE last_used_s[r]]
    /\ overtaken' = {r \in overtaken : r \in rs => PointedTo(r)}

(* Two writers that read a row before either wrote it lose an update.         *)
Writers(u) == {x \in Threads : at[x] \in {"write", "seed"} /\ UserOf[x] = u}
BeginsToWrite(x) ==
    overlapped' = IF Writers(UserOf[x]) = {} THEN overlapped
                  ELSE overlapped \cup Writers(UserOf[x]) \cup {x}

-----------------------------------------------------------------------------
(* getTenantRuntime                                                           *)

Cached(q) == tenant_runtimes[UserOf[q]]

Arrive(q) ==
    /\ gateway # "down"
    /\ Goto(q, "idle", "get")
    /\ since' = [since EXCEPT ![q] = now]
    /\ UNCHANGED <<rows, cache, runtime_of, settled, maintenance, now, gateway>>

Doomed(r) == pending_destroy[r] /\ ~HasActiveTurns(r)

(* A marked runtime in use is handed out as well.                             *)
Hit(q) ==
    /\ MutexFree
    /\ Cached(q) # None /\ ~Doomed(Cached(q))
    /\ Goto(q, "get", "fetched")
    /\ runtime_of' = [runtime_of EXCEPT ![q] = Cached(q)]
    /\ last_used_s' = [last_used_s EXCEPT ![Cached(q)] = since[q]]
    /\ overtaken' = IF since[q] < last_used_s[Cached(q)] THEN overtaken \cup {Cached(q)} ELSE overtaken
    /\ UNCHANGED <<rows, tenant_runtimes, built, pending_destroy, fate, since, settled, maintenance,
                   now, gateway>>

Miss(q) ==
    /\ MutexFree
    /\ \/ Cached(q) = None /\ Goto(q, "get", "build")
       \/ Cached(q) # None /\ Doomed(Cached(q)) /\ Goto(q, "get", "replace")
    /\ UNCHANGED <<rows, cache, runtime_of, since, settled, maintenance, now, gateway>>

Replace(q) ==
    /\ Goto(q, "replace", "build")
    /\ Destroy({Cached(q)}, "replaced")
    /\ UNCHANGED <<rows, runtime_of, since, settled, maintenance, now, gateway>>

(* Which of the free addresses the allocator takes is indifferent.            *)
Unused == {r \in Runtimes : fate[r] = "unused"}
Allocated == IF Unused = {} THEN {} ELSE {CHOOSE r \in Unused : TRUE}

(* TenantRuntime.init.  Settings that cannot be read are done without; a row  *)
(* that is empty is seeded.                                                   *)
Build(q) ==
    /\ \E r \in Allocated, c \in {config[UserOf[q]], None} :
        /\ fate' = [fate EXCEPT ![r] = "live"]
        /\ runtime_of' = [runtime_of EXCEPT ![q] = r]
        /\ built' = [built EXCEPT ![r] = c]
        /\ last_used_s' = [last_used_s EXCEPT ![r] = now]
        /\ IF c = {} THEN Goto(q, "build", "seed") /\ BeginsToWrite(q)
                     ELSE Goto(q, "build", "put") /\ UNCHANGED overlapped
    /\ UNCHANGED <<config, based_on, tenant_runtimes, pending_destroy, overtaken, since, settled,
                   maintenance, now, gateway>>

SeedRow(q) ==
    /\ Goto(q, "seed", "put")
    /\ \/ /\ config' = [config EXCEPT ![UserOf[q]] = {Seed}]
          /\ built' = [built EXCEPT ![runtime_of[q]] = {Seed}]
       \/ /\ built' = [built EXCEPT ![runtime_of[q]] = None]
          /\ UNCHANGED config
    /\ UNCHANGED <<based_on, overlapped, tenant_runtimes, pending_destroy, last_used_s, fate, overtaken,
                   runtime_of, since, settled, maintenance, now, gateway>>

Put(q) ==
    /\ Goto(q, "put", "fetched")
    /\ tenant_runtimes' = [tenant_runtimes EXCEPT ![UserOf[q]] = runtime_of[q]]
    /\ UNCHANGED <<rows, built, pending_destroy, last_used_s, fate, overtaken, runtime_of, since, settled,
                   maintenance, now, gateway>>

(* What was built so far is freed again and the request answered with an      *)
(* error.                                                                     *)
BuildFails(q) ==
    /\ Goto(q, "build", "done")
    /\ UNCHANGED <<rows, cache, runtime_of, since, settled, maintenance, now, gateway>>

-----------------------------------------------------------------------------
(* What requests do with a runtime.  What becomes of one whose runtime was    *)
(* freed is undefined, and it is followed no further.                         *)

Dangling(q) == runtime_of[q] # None /\ fate[runtime_of[q]] # "live"

(* processMessageWithTurnOptions, before it reaches the session manager       *)
Touch(t) ==
    /\ ~Dangling(t)
    /\ Goto(t, "fetched", "ready")
    /\ last_used_s' = [last_used_s EXCEPT ![runtime_of[t]] = now]
    /\ UNCHANGED <<rows, tenant_runtimes, built, pending_destroy, fate, overtaken, runtime_of, since, settled,
                   maintenance, now, gateway>>

Pin(t) ==
    /\ ~Dangling(t)
    /\ Goto(t, "ready", "turn")
    /\ settled' = IF MutexFree THEN settled \cup {t} ELSE settled
    /\ UNCHANGED <<rows, cache, runtime_of, since, maintenance, now, gateway>>

(* The trace and the usage of the runtime are used after the turn.            *)
Unpin(t) ==
    /\ ~Dangling(t)
    /\ Goto(t, "turn", "using")
    /\ settled' = settled \ {t}
    /\ UNCHANGED <<rows, cache, runtime_of, since, maintenance, now, gateway>>

(* A route that looks the runtime up and neither builds nor refreshes it.     *)
Peek(q) ==
    /\ gateway # "down" /\ MutexFree
    /\ Goto(q, "idle", IF Cached(q) = None THEN "done" ELSE "peeking")
    /\ runtime_of' = [runtime_of EXCEPT ![q] = Cached(q)]
    /\ UNCHANGED <<rows, cache, since, settled, maintenance, now, gateway>>

Finish(q) ==
    /\ ~Dangling(q)
    /\ \/ Goto(q, "using", "done")
       \/ q \in Readers /\ (Goto(q, "fetched", "done") \/ Goto(q, "peeking", "done"))
    /\ runtime_of' = [runtime_of EXCEPT ![q] = None]
    /\ since' = [since EXCEPT ![q] = 0]
    /\ UNCHANGED <<rows, cache, settled, maintenance, now, gateway>>

-----------------------------------------------------------------------------
(* A settings PATCH reads the row, writes it with the change, and marks the   *)
(* runtime it finds.                                                          *)

ReadConfig(p) ==
    /\ gateway # "down"
    /\ Goto(p, "idle", "write")
    /\ based_on' = [based_on EXCEPT ![p] = config[UserOf[p]]]
    /\ BeginsToWrite(p)
    /\ UNCHANGED <<config, cache, runtime_of, since, settled, maintenance, now, gateway>>

MutantMerged(p) == {p}                 \* written without what the row had
Merged(p) == based_on[p] \cup {p}

WriteConfig(p) ==
    /\ \/ Goto(p, "write", "mark") /\ config' = [config EXCEPT ![UserOf[p]] = Merged(p)]
       \/ Goto(p, "write", "failed") /\ UNCHANGED config
    /\ based_on' = [based_on EXCEPT ![p] = {}]
    /\ UNCHANGED <<overlapped, cache, runtime_of, since, settled, maintenance, now, gateway>>

MutantToMark(p) == {r \in InCache : r = Cached(p) /\ HasActiveTurns(r)}   \* an idle one is left as it is
ToMark(p) == {r \in InCache : r = Cached(p)}

markTenantRuntimeForDestroy(p) ==
    /\ MutexFree
    /\ Goto(p, "mark", "done")
    /\ pending_destroy' = [r \in Runtimes |-> pending_destroy[r] \/ r \in ToMark(p)]
    /\ UNCHANGED <<rows, tenant_runtimes, built, last_used_s, fate, overtaken, runtime_of, since, settled,
                   maintenance, now, gateway>>

-----------------------------------------------------------------------------
(* The maintenance thread: pruneTenantRuntimeCache, in its three parts.       *)

MutantStale(r) == IdleTtl > 0 /\ sweep_now + IdleTtl > last_used_s[r]   \* the sign is lost
Stale(r) == IdleTtl > 0 /\ sweep_now > last_used_s[r] + IdleTtl

ReadClock ==
    /\ gateway = "up"
    /\ sweep = "asleep" /\ sweep' = "waiting"
    /\ sweep_now' = now
    /\ UNCHANGED <<rows, cache, requests, doomed, now, gateway>>

CollectIdle ==
    /\ MutexFree
    /\ sweep = "waiting"
    /\ IF gateway = "up"
       THEN sweep' = "idle" /\ doomed' = {r \in InCache : Stale(r)}
       ELSE sweep' = "asleep" /\ UNCHANGED doomed
    /\ UNCHANGED <<rows, cache, requests, sweep_now, now, gateway>>

CollectMarked ==
    /\ sweep = "idle" /\ doomed = {}
    /\ sweep' = "pending_destroy"
    /\ doomed' = {r \in InCache : Doomed(r)}
    /\ UNCHANGED <<rows, cache, requests, sweep_now, now, gateway>>

TooMany == Cardinality(InCache) > (IF MaxUsers = 0 THEN 1 ELSE MaxUsers)

CollectOldest ==
    /\ sweep \in {"pending_destroy", "capacity"} /\ doomed = {}
    /\ TooMany
    /\ sweep' = "capacity"
    /\ \E r \in InCache :
        /\ \A s \in InCache : last_used_s[r] <= last_used_s[s]
        /\ doomed' = {r}
    /\ UNCHANGED <<rows, cache, requests, sweep_now, now, gateway>>

Remove(r) ==
    /\ r \in doomed
    /\ doomed' = doomed \ {r}
    /\ Destroy({r}, sweep)
    /\ UNCHANGED <<rows, requests, sweep, sweep_now, now, gateway>>

SweepEnds ==
    /\ sweep \in {"pending_destroy", "capacity"} /\ doomed = {}
    /\ ~TooMany
    /\ sweep' = "asleep" /\ sweep_now' = 0
    /\ UNCHANGED <<rows, cache, requests, doomed, now, gateway>>

-----------------------------------------------------------------------------

(* The administrator's route frees at once.                                   *)
Invalidate(u) ==
    /\ gateway # "down" /\ MutexFree
    /\ tenant_runtimes[u] # None
    /\ Destroy({tenant_runtimes[u]}, "admin")
    /\ UNCHANGED <<rows, requests, maintenance, now, gateway>>

RequestShutdown ==
    /\ gateway = "up" /\ gateway' = "stopping"
    /\ UNCHANGED <<rows, cache, requests, maintenance, now>>

(* An undrain takes the request back.  The maintenance thread may have ended  *)
(* by then and is not started again: no sweep has to come at any time.        *)
Undrain ==
    /\ gateway = "stopping" /\ gateway' = "up"
    /\ UNCHANGED <<rows, cache, requests, maintenance, now>>

AtRest(q) == at[q] \in {"idle", "done", "failed"}

(* Accepting ends when no request is in flight; the maintenance thread and    *)
(* the workers are joined before the state is freed.                          *)
Teardown ==
    /\ gateway = "stopping" /\ gateway' = "down"
    /\ sweep = "asleep" /\ \A q \in Threads : AtRest(q)
    /\ Destroy(InCache, "shutdown")
    /\ UNCHANGED <<rows, requests, maintenance, now>>

Tick ==
    /\ now < MaxNow
    /\ now' = now + 1
    /\ UNCHANGED <<rows, cache, requests, maintenance, gateway>>

Next ==
    \/ \E q \in Requests :
        \/ Arrive(q) \/ Hit(q) \/ Miss(q) \/ Replace(q) \/ Build(q) \/ SeedRow(q) \/ Put(q)
        \/ BuildFails(q) \/ Finish(q)
    \/ \E t \in Turns : Touch(t) \/ Pin(t) \/ Unpin(t)
    \/ \E q \in Readers : Peek(q)
    \/ \E p \in Patches : ReadConfig(p) \/ WriteConfig(p) \/ markTenantRuntimeForDestroy(p)
    \/ ReadClock \/ CollectIdle \/ CollectMarked \/ CollectOldest \/ SweepEnds
    \/ \E r \in Runtimes : Remove(r)
    \/ \E u \in Users : Invalidate(u)
    \/ RequestShutdown \/ Undrain \/ Teardown \/ Tick

Spec == Init /\ [][Next]_vars

-----------------------------------------------------------------------------

(* Type correctness: pointers point to runtimes, settings are sets of edits.  *)
TypeOK ==
    /\ config \in [Users -> SUBSET (Patches \cup {Seed})]
    /\ tenant_runtimes \in [Users -> Runtimes \cup {None}]
    /\ built \in [Runtimes -> {None} \cup SUBSET (Patches \cup {Seed})]
    /\ pending_destroy \in [Runtimes -> BOOLEAN]
    /\ last_used_s \in [Runtimes -> Nat]
    /\ fate \in [Runtimes -> {"unused", "live", "replaced", "idle", "pending_destroy",
                              "capacity", "admin", "shutdown"}]
    /\ at \in [Threads -> {"idle", "get", "replace", "build", "seed", "put", "fetched", "ready", "turn",
                           "using", "peeking", "write", "mark", "failed", "done"}]
    /\ runtime_of \in [Requests -> Runtimes \cup {None}]
    /\ since \in [Requests -> Nat]
    /\ based_on \in [Patches -> SUBSET (Patches \cup {Seed})]
    /\ sweep \in {"asleep", "waiting", "idle", "pending_destroy", "capacity"}
    /\ sweep_now \in Nat /\ doomed \subseteq Runtimes
    /\ now \in Nat
    /\ gateway \in {"up", "stopping", "down"}
    /\ settled \subseteq Turns /\ overlapped \subseteq Threads /\ overtaken \subseteq Runtimes

(* "Prevents use-after-free if a concurrent request thread holds a pointer"   *)
(* (gateway.zig:21328), as far as it holds: a turn that was pinned before the *)
(* destroyer took the cache's mutex keeps its runtime, unless an idle or a    *)
(* capacity prune or the administrator freed it.  The replacement of marked   *)
(* runtimes and the teardown never take it away.                              *)
TurnsInFlightSpared ==
    \A t \in settled :
        at[t] = "turn" => fate[runtime_of[t]] \in {"live", "idle", "capacity", "admin"}

(* The idle prune takes a runtime away only from requests that asked for it   *)
(* longer ago than the idle time, turns that run on or not, unless its last   *)
(* use was moved back by a request that had read the clock earlier and got    *)
(* the mutex later.                                                           *)
IdleSparesRecent ==
    \A q \in Requests :
        at[q] \in {"fetched", "ready", "turn", "using"} /\ fate[runtime_of[q]] = "idle"
            => now > since[q] + IdleTtl \/ runtime_of[q] \in overtaken

(* Settings take effect: a runtime in the cache that was built from other     *)
(* settings than the stored ones is marked, or a PATCH is about to mark it.   *)
(* One that could not read its settings when it was built is not.             *)
StaleIsMarked ==
    \A u \in Users :
        tenant_runtimes[u] # None =>
            \/ built[tenant_runtimes[u]] \in {config[u], None}
            \/ pending_destroy[tenant_runtimes[u]]
            \/ \E p \in Patches : at[p] = "mark" /\ UserOf[p] = u

(* A PATCH that was answered stays in the stored settings, unless another     *)
(* writer of the row, a PATCH or a build that seeds it, was at it as well.    *)
EditsKept == \A p \in Patches \ overlapped : at[p] \in {"mark", "done"} => p \in config[UserOf[p]]

=============================================================================
