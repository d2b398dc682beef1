# Verification of nullALIS

TLA+ models of the concurrent core of nullALIS (a multi-tenant agent runtime
written in Zig) and of the scripts an operator runs against a live gateway, the TLC
configurations that check them on small instances, and TLAPS proofs of what matters
most for every size. Paths are relative to the repository; line numbers are those
of the commit the models were written from. `PROJECT.json` maps every definition to
its lines.

## Inventory of the system

A process runs a gateway (HTTP, `src/src/gateway.zig`), channel threads that
receive and send chat messages, a daemon that runs heartbeats and scheduled jobs,
and one runtime per tenant (user) with a session manager. A session is one
conversation: an agent with its history, a provider, tools and memory.

| component | state | operations | interaction |
| --- | --- | --- | --- |
| message bus (`bus.zig`) | three ring buffers with a mutex and two conditions each | publish, consume, close | channel threads publish, the agent and the dispatcher consume; close ends them |
| session manager (`session.zig`) | map from key to session, `active_refs` per session, one mutex | look-up or creation, pin, cancel, evictIdle, evictUserSessions, flush, deinit | called by gateway workers, the maintenance thread, purge and delete routes |
| session queue (`session.zig`) | per session: mutex, waiter count, sequence numbers, drop threshold, pending notices | register, drop, unregister, TTL recycle | turns of the same session meet here; settings come from the agent |
| agent (`agent/root.zig`, `agent/commands.zig`) | history, settings, cancellation token, lifecycle worker | turn, slash commands, checkpoint, deinit with deadlines | runs under the session's mutex; its lifecycle worker and cancels do not |
| tenant runtime cache (`gateway.zig` 2576–2950) | map from user to runtime, last use, pending destroy; the stored settings | get, build, mark, prune, invalidate | every request passes it before it reaches a session; a settings PATCH marks what it makes stale |
| ownership lease (`zaki_state.zig`, `gateway.zig`) | one row per user with owner, token, expiry | acquire with retries, release | instances share the database |
| ownership lock file (`tenant_lock.zig`) | one file per user | acquire, release | gateways without Postgres, and the daemon's sweeps always |
| streamed chat route (`gateway.zig` 11302–11973) | one HTTP stream under a mutex, a stop flag, a frame counter | run the turn and stream its tokens, keepalive frames from a second thread, error frames, termination | its client is a script or a browser; its turn is the agent's |
| inbound identity (`inbound_canonicalizer.zig`, webhooks and binding routes of `gateway.zig`, `zaki_state.zig`) | bindings and seen updates in Postgres; a process-wide cache of two maps with expiries | look up, store, purge, invalidate; record an update; bind, unbind | every inbound message asks; binding routes and private chats change the answer |
| operator scripts (`scripts/*.py`) | responses, counters read before and after, result lists, an exit code | strict canaries, load generator, tool surface probe; `vault-code-graph.py` writes notes | HTTP clients of the gateway, beside other traffic |
| jobs and heartbeats (`cron.zig`, `daemon.zig`, `heartbeat_wake.zig`, `zaki_state.zig` 14959–15080) | jobs with a claim, a wake queue | claim, run, complete, enqueue, drain | several instances claim the same jobs |
| subagents and tasks (`subagent*.zig`, `tasks/`) | task ledger, batches, results | spawn, finish, cancel, sweep, deliver | threads started by turns, results announced on the bus |
| vector outbox, circuit breaker (`memory/vector/`) | pending rows with retries, breaker state | enqueue, drain, dead-letter; allow, record | background drain against an unreliable service |
| extension hub (`extension_ws/`), HTTP pool (`http_native/pool.zig`), provider retries (`providers/reliable.zig`) | pending commands, idle connections, attempt counts | send, answer, time out; acquire, release; retry, fall back | network peers |
| the rest | see `PROJECT.json` | adapters, parsing, rendering, storage | mostly I/O |

What makes it hard: sessions are freed by four different paths, and the runtimes
they live in by six, while turns, cancels, readers and lifecycle workers hold
pointers to them; turns of one session
queue under a policy that the running turn may change; a setting is stored in one
place and at work in another; checks are made in one
critical section and acted on in another; leases run out while their holder works;
a file is created, written, read and deleted by separate system calls; workers may
hang, and every wait for one has a deadline that may pass first. The stream of a
chat is written by two threads, whose client may stop reading or vanish at every
frame. A cached identity may be put back by a look-up that was overtaken by the
change. A script judges a gateway by counters that others move as well.

What makes each part correct: the bus loses, duplicates and strands nothing; no
session is touched after it was freed and no conversation is run twice at once;
pins are counted exactly; shutdown gets through; a stored setting takes effect; the queue's counters match the
waiting turns, its drops are justified, its notices are given once, and each turn
returns; a cancel stops what it finds running and nothing later; two instances do
not both hold an unexpired lease; a stream ends once, after everything that
belongs to it, and brings the whole reply or no success; a stale identity is gone
within one life of a cache entry, and an update is worked on once; a script that
reports success has seen what it claims. `PROJECT.json` lists the hazards at their lines.

## Modules

| module | what it is |
| --- | --- |
| `FifoChannel` | abstract specification: a closable bounded FIFO |
| `BoundedQueue` | the ring buffer of `bus.zig`; refines `FifoChannel` |
| `SessionManager` | lifetime of sessions: map, pins, readers, evictors, delete route, shutdown |
| `TenantRuntimeCache` | the runtimes of the tenants: requests, settings PATCHes, prune, teardown |
| `TenantSessions` | the two levels a turn runs on: extends `TenantRuntimeCache`, instantiates `SessionManager` |
| `SessionQueue` | the turns of one session, from the pin to its release, and cancels |
| `UserLease` | the Postgres ownership lease and its retry loop |
| `FileLock` | the ownership lock file, one step per system call |
| `TenantOwnership` | the choice between the two: extends `UserLease`, instantiates `FileLock` |
| `ChatStream` | one streamed chat request: handler, keepalive thread, connection, client |
| `InboundIdentity` | identity cache, webhooks, record of updates, binding routes |
| `StrictCanary` | the two strict canaries; extends `InboundIdentity` |
| `LoadBurst` | the load generator: pool, probe thread, gate, counters |
| `ToolSurfaceProbe` | the tool surface probe and the turns of its session |
| `OperatorScripts` | `StrictCanary` with instances of `LoadBurst` and `ToolSurfaceProbe` |
| `MC…` | instances for TLC: settings, sets of calls, symmetry, constraints |
| `…Proofs` | theorems and proofs about the module of the same name (`TenantOwnershipProofs`: about `UserLease` too; `TenantSessionsProofs`: about `TenantRuntimeCache` too; `OperatorScriptsProofs`: about all three scripts) |

### BoundedQueue

`buf`, `head`, `tail`, `len`, `closed` are the fields of the struct. A critical
section of the queue's mutex is one step. A call that waits on a condition is a
thread in `asleep`; it wakes by `signal` (one thread of the class), by `close`
(all), or spuriously. `MaxPublish` bounds the calls of each producer. `depth` only
reads. `Channel` is the refinement mapping: the live region of the ring is the
abstract queue.

### SessionManager

Sessions are `Objects` with a `phase`; a freed address is not used again, so that
a dangling pointer is recognisable. `active_refs`, the session mutex (`lock`), and
the lifecycle worker's flag (`worker`) are per object; `pc` and `ptr` per thread.
Threads come in kinds, one per way of using a session:

- turns (`processMessage`, `appendAssistantMessage`): pin, lock, work, unlock, unpin;
- cancels (`cancelActiveTurn`): pin, set the token, unpin;
- peekers (session get, context, compact, export): lock escalation, no pin;
- probes (`captureOriginSnapshot`, diagnostics): neither;
- sweepers (`evictIdleShutdownAware`), purgers (`evictUserSessions`) and deleters
  (`handleSessionDelete`): collect or unmap in one section, free in a later one. A
  sweep is the gateway's: between two sessions it reads the shutdown flag, and during
  a session's bounded join it does not (the sweeps of `channel_loop.zig` pass no flag);
- the shutdown: request, join, flush, deinit by a deadline. An `undrain` takes the
  request back as long as requests are served (`gateway.zig:25354`).

`DeinitWaits` is the wait of `Agent.deinit` for the worker: it ends when the worker
did, or, if `WorkersMayHang`, after 90 s. `UseAfterFree` stands for undefined
behaviour: when some thread or worker is about to touch a freed session, `crashed`
becomes true and nothing else happens. How turns queue for the session's mutex is
left to `SessionQueue`: here a turn waits or is turned away.

### TenantRuntimeCache and TenantSessions

`tenant_runtimes` is the map, `pending_destroy` and `last_used_s` are fields of a
runtime, `built` is the settings its `init` read, `config` the row they are stored
in. `fate` says whether a runtime lives or what freed it; an address is used again
once nobody points to it. Requests are of two kinds, turns, which pin a session in the
runtime some time after `getTenantRuntime` has returned it, and readers, which
never do (event streams, tasks, and the trace route, which looks a runtime up without
refreshing it: `Peek`). `tenant_runtime_mutex` is
held from `Miss` to `Put` and through the three parts of the prune (idle, marked, over
capacity), so these are several steps with the pin, the unpin and the PATCHes between
them; `since` and `sweep_now` are the times read before the mutex was asked for. A
PATCH reads the row, writes it and marks the runtime in three steps; a build that
finds the row empty writes a seed, and one that cannot read it does without. A
request whose runtime was freed is followed no further. `settled`, `overlapped` and
`overtaken` are history variables. `MaxNow` bounds the clock.

What joins the levels is `hasActiveTurns`: each frees what it keeps while requests
point to it and asks the level below whether a turn is at work. In `TenantSessions`
a behaviour is that of one level, so that one configuration checks both without the
product of their states.

### SessionQueue

One session, `Turns` that are each called once, and `Cancels`. `pc` names the place
in `processMessageResultWithContext`; the five `queue_…` variables are the fields
under `queue_mutex`. Settings are read by newcomers without the session's mutex,
as the code does, and changed by `/queue`, by a reset and by a TTL recycle.
`history` and `transcript` are the turns in the agent's memory and in the store.
Debounce is a wait like any other. Persisting may fail, which is logged.
`arrivals`, `announced`, `killer`, `past` and `struck` are history variables; the
first is the order of registration, with whether the newcomer met mode latest and
whether the cap had room for it. What a drop promises is said over that order:
`SupersededByNewer` and `OldestByOverflow` hold for every setting and state how weak
the promise is. A superseded turn was followed by one in mode latest; a turn dropped
as the oldest was followed by one that the cap had no room for and that was let in.
Behind either, one turn is not dropped from the queue, or was refused at the door
in mode latest. That last exception belongs to the code: a newcomer raises
`queue_latest_sequence` before the cap is looked at.

### UserLease and FileLock

`TenantOwnership` fixes the `backend` when a behaviour begins, as the deployment
does, and keeps the file lock's variables beside the lease's (`path`, `content`,
`fd`, `exposed`, `file_…`). `UserLease` takes each SQL statement as one step and separates it from the reading
of the clock before it. `FileLock` takes each system call as one step and tells the
path from the file behind it: an unlinked file that is still open is written to
without effect on the path. A record is written by one `write`, so the reader sees
an empty file or a whole record. Each of the calls may fail: a read that fails reads
as no record (`readRecordOwned`), in `acquireUserOwnershipLock`, which then deletes the file, as in
`release`, which then leaves it; a failing delete is ignored; a failing creation or
write ends the call. Crashes keep rows and files and drop everything
else; an instance that is started again has the same owner id. The models share
one clock between the instances.

With so much allowed the file excludes nobody unconditionally. `exposed` is a
history variable: the locks that some call may take for none, because it failed to
read their record, truncated it to write its own, or was already past the creation
of the file when the lock was granted (`Settled`). A lock `Stands` from its grant
until it runs out, is let go, or is exposed. `BlocksOthers` says that other instances
are refused while it stands, `StandingOnRecord` that its record is on the path all
the while, whatever stale locks are released, expired ones reclaimed or files left
empty around it.

### ChatStream

One request, its handler (`handler` is the place in
`handleApiChatStreamSseConnection`), the keepalive thread, the `wire` of frames on
their way, and the client's `run_one`. A frame is sent under the stream's mutex, so
a send is one step; it fails on a closed stream or a connection that is down, and
on the latter may also seem to succeed, its bytes lost. Zig's deferred calls are
the successors of a failing step: the stop and join of the keepalive thread once it
exists, `finish()` last. The turn is what the callback sees of it: rounds of
streamed chunks, tools, and a reply that was streamed, brought at once, composed
outside the provider's stream, or missing. `MaxRounds`, `MaxChunks` and `MaxBeats`
are bounds of the model.

### InboundIdentity and StrictCanary

Each SQL statement and each hold of the cache's mutex is one step, so that a change
of a binding and the invalidation after it, and a look-up and the store of its
answer, are apart. `now_s` is the time read before the look-up, from which the life
of the stored entry is counted. `raced` (history) is the set of identities for
which an answer was stored that was no longer true, `changed` the time of the last
change. A restart empties the cache and the metrics and drops the requests in
progress; rows stay. `StrictCanary` adds the script: one step per request made and
per response received, or its absence, while other deliveries, an edit by somebody
else, refusals on other channels and the restart happen in between. The two
scripts are one module with a `channel`; they differ in the secret token, the kinds
of chat and the sign they take for a refusal.

### LoadBurst, ToolSurfaceProbe and OperatorScripts

`LoadBurst` follows `main`: baseline probes, the first diagnostics, the probe
thread, submission, the pool's workers, collection, the join, the second
diagnostics, the report with its percentile and its gate. A request is
`ChatStream` seen from outside. `ToolSurfaceProbe` sends messages to one session
whose turns outlive the script's patience; the session's mutex is not first come,
first served. `OperatorScripts` puts the three side by side: a behaviour is that of
one of them, which is how an operator runs them and lets one configuration check
them all without the product of their states.

## Runs

| run | instance | shows |
| --- | --- | --- |
| `bounded_queue` | 3 producers with 2 calls each, 2 consumers, 2 slots | `NoStrandedSleeper`, `ImplementsFifo`, `CloseDrains`, `EveryItemDelivered` |
| `session_all` | one thread of each kind, 2 keys, 2 objects, limit 1, workers may hang, fairness | `MapSound`, `RefsMatchPins`, `SessionLimit`, `ShutdownCompletes` |
| `tenant_sessions` | sessions: 2 turns, a cancel, a reader, 2 deletes, a purge, 2 keys, 3 objects; runtimes: 2 tenants, 2 turns, a reader, 2 PATCHes, 2 runtimes, a cache of 1, idle time 1, clock to 2 | `NoUseAfterFree`, `OneTurnPerKey`, `TurnsInFlightSpared`, `IdleSparesRecent`, `StaleIsMarked`, `EditsKept` |
| `queue_switch` | 4 turns, of which at most one sends `/queue` and one a reset; serial, cap 2, oldest, and from there latest, cap 1, newest or serial, cap 1, summarize, or the agent's reset settings; recycles | `WaitersCounted`, `SequencesDistinct`, `SupersededByNewer`, `OldestByOverflow`, `NoticeAtMostOnce`, `PlainResetIsWhole` |
| `queue_returns` | 3 turns of which 2 may be refused, a cancel, fairness | `NoStaleCancel`, `EveryTurnReturns`, `CancelEndsTurn` |
| `tenant_ownership` | 2 instances, 3 calls, lease 2; Postgres with the clock to 6, or the file with 4 inodes and the clock to 2 | `ExclusiveOwners`, `BlocksOthers`, `StandingOnRecord` |
| `chat_stream` | 2 rounds, 2 chunks, 1 keepalive frame, fairness | `KeepaliveJoined`, `StreamEndsOnce`, `SuccessHasReply`, `RequestReturns`, `HandlerUnwinds` |
| `operator_scripts` | 3 deliveries, 2 edits, one failure or restart; 2 load requests, up to 2 probes; 3 messages | `StaleIsBounded`, `StaleOnlyByRace`, `ProcessedAtMostOnce`, `SuccessMeansStrict`, `BindingTakesEffect`, `RefusalsCounted`, `GateSound`, `DiagnosticsBracket`, `ContextIsOwn` |
| `session_sweep_race` | a turn and a sweeper | violates `NoUseAfterFree` |
| `queue_reset_notice` | 4 turns, cap 1, drop=summarize | violates `ResetIsWhole` |
| `user_lease_overlap` | as `tenant_ownership` with Postgres, overlapping requests | violates `ExclusiveOwners` |
| `chat_lost_reply` | as `chat_stream` | violates `OkHasReply` |

### Why the bounds are enough

The bus needs a full and an empty ring, an index that wraps, and more than one
sleeper on each condition: two slots, three producers and two consumers give all of
these together. A session race needs an evictor between two of its sections, a
user, and a second object under the same key to find a conversation run twice; two
turns, two keys and three objects allow that with one more to spare. The queue's
decisions compare a newcomer with waiting turns while another holds the mutex: with
four turns a cap of 2 is exceeded, so that a threshold reaches turns that would have
fitted, a turn that waits is superseded by one that is refused at the door, and a
turn that was dropped, one that carries its notice and one that was persisted earlier
meet (`queue_reset_notice`). `FewCommands` in `MCSessionQueue` allows `queue_switch`
one change of the settings and one reset; the proofs have no such bound. The lease
and the lock need two instances, one of them asking twice or being started again,
and a clock that passes an expiry; the file's clock stops where a lock granted at
the start has just run out.

A chat needs a round that streams before one that does not, a second chunk to be
lost alone, and a keepalive frame at each place where the handler may be told to
fail: two rounds, two chunks and one beat. The canary needs one delivery from the
bound identity beside its own (which is also the duplicate of its update), one
foreign edit, an entry that outlives its change (a life of one tick) and one
failure or restart at a time. The load generator needs a worker that is behind
another, a probe that asks twice, and latencies just under and just over the gate's
15 % of the baseline (20 000, 23 001 and 23 002, where the rounding decides). The
tool surface probe needs a message that was given up, one that overtakes it and one
that is shown the wrong turn: three.

The runtime cache needs a tenant whose turns, PATCHes and builds meet, another whose
runtime makes the cache too large, a second runtime to replace the first, and a clock
that passes the idle time.

`tenant_sessions` has two constraints in `MCTenantSessions`. `PurgesAlone`: while a
purge is at work no other evictor, delete or unpinned reader is. Without it the
races listed below are found. `FewRequests` bounds how many requests and PATCHes a
behaviour starts: three while the clock stands, two while it moves, which is as many
as any of the properties' exceptions needs; the proofs have no such bound. `CHECK_DEADLOCK FALSE` is used where the system may
stop: the bus after it was drained, the manager after its teardown or a crash, the
gateway after its teardown, the
lock models when each call has been made, a chat once client and handler are
through, and a script once it has exited. `SessionQueue` has an explicit last
step instead, so that a turn that is stuck is a deadlock.

### Fairness

`BoundedQueue`: a thread that is awake inside a call gets the mutex in the end
(weak fairness of publish and consume). Consumers call consume until it returns
null, as the loops in the code do; nothing is assumed of close.

`SessionManager`: calls that have started are run on by the scheduler, and the
shutdown goes on once requested. Nothing is assumed of the start of a call, of the
request to shut down and its being taken back, or of lifecycle workers. `ShutdownCompletes` therefore shows
that no wait in the sweep or the teardown depends on a worker: a request to shut down
is carried through or taken back.

`SessionQueue`: a turn that was called is run on. The choice between another
iteration and an answer is the model's, so `EveryTurnReturns` has the hypothesis
`ModelStops`: a turn that can answer again and again does so in the end. The code
bounds the loop by `max_tool_iterations`, which defaults to the largest `u32`.
`CancelEndsTurn` does not need it.

`ChatStream`: the handler runs on once its turn is over, the keepalive thread is
scheduled, time passes, the client reads what arrives, and the request is made.
The turn itself is free to hang, the connection is free to break or not, and the
server need not answer: `RequestReturns` rests on the client's own deadline and its
socket timeout, `HandlerUnwinds` on a keepalive thread that sees its stop flag or
a failed send. No liveness is claimed of the scripts beyond that.

## Where code and documentation disagree

Four disagreements have a run whose counterexample shows them:

1. `evictIdle` does not look at `active_refs` again before it frees
   (`session.zig:1735`), though the comment on the same step of `evictUserSessions`
   says why it must (1870).
2. A `/new`, `/reset` or `/restart` that carries an overflow notice is not seen as
   a command by the agent, while the store erases the transcript
   (`session.zig:1306`, 1508).
3. Overlapping requests of one instance share one lease row, and the release of the
   newer one opens the user to other instances (`zaki_state.zig:14717`).
4. A reply that was not streamed is dropped when the round before it streamed a
   preamble: `live_streamed` asks whether any token of the last round was sent, not
   whether the reply was (`gateway.zig:11783`). The client sees a normal success.

Others were met while modelling and are reached by other values of the constants:

- `NoUseAfterFree` fails with one peeker and one purger (`Peekers = {r1}`,
  `Purgers = {e1}`, no constraint): phase 3 tests only `active_refs`
  (`session.zig:1889`), while `gateway.zig:15448` says that lock escalation
  "prevents use-after-free". It fails with one probe and one purger
  (`session.zig:1597`), and with one turn, one purger and `WorkersMayHang`:
  `Agent.deinit` ignores that the worker did not drain (`agent/root.zig:1448`).
  It also fails with two evictors, whose collected keys belong to the sessions.
- Comments say that the mark "prevents use-after-free" of a runtime a request holds
  (`gateway.zig:2584`, 21329) and that the idle sweep is gated on `hasActiveTurns`
  (2866). Only the replacement and the prune of marked runtimes are. The idle and the
  capacity prune (2704, 2749) and the administrator's route (25273) free a runtime under
  its turns: each of the exceptions in `TurnsInFlightSpared` is needed. A turn that
  works for longer than `tenant_runtime_idle_ttl_secs` is within the idle prune's reach.
  A request that has not pinned yet, and one that never pins, is not seen by any of
  them, which is why the property speaks of turns pinned before the mutex was taken.
- `getTenantRuntime` reads the clock before the mutex (2813) and may store a time
  older than the one that is there: `IdleSparesRecent` needs its exception.
- Two settings PATCHes at once, or a PATCH and the build that seeds the row, lose an
  update (21289 and 21325, 1800): `EditsKept` needs `overlapped`.
- A build that fails to read the settings goes on without them (1762) and is cached like
  any other; nothing marks it. `StaleIsMarked` excepts it.
- A record of the lock file that cannot be read counts as none
  (`tenant_lock.zig:109`): whatever the error (too many open files, no memory, more
  than 1024 bytes), the call deletes another instance's live lock and takes it (127,
  132), without any overlap. "blocks other owner while active" (275) holds only of
  locks that stand.
- With calls that overlap the file lock is given to two instances: it is created and written by two
  system calls, and judged and deleted by two (211, 216; 109, 127; 23, 31).
- `release` counts a lock as let go when the record cannot be read or deleted (24,
  31): the record keeps others away until it runs out.
- drop=oldest with a cap of 2 or more drops turns that fit: the first newcomer over
  the cap has an overflow of 1, and its `sequence - overflow` makes every earlier
  turn too old (`session.zig:1076`, 1101). `OldestByOverflow` therefore promises a
  turn behind the dropped one, not `queue_cap` of them.
- Mode latest with a cap and drop newest (the "fast" preset of `user_settings.zig`)
  or summarize (the default): a newcomer that is turned away has already superseded
  the waiting turns (`session.zig:1047`, 1058), and both messages are lost.
- The maintenance thread leaves its loop when it sees a request to shut down
  (`gateway.zig:25689`) and is not started again when an undrain takes the request
  back (25354): from then on nothing is pruned, and no idle session is evicted.
- A cancel that comes while its turn waits or prepares is wiped by the reset in
  `turnOutcome` (`agent/root.zig:4602`) and reported as having hit an active
  session (`session.zig:794`).
- A notice taken by a turn that `activation_mode` refuses is lost
  (`session.zig:1117`, 1357).
- The shutdown flush counts a session as flushed without a write when its worker is
  in flight (`session.zig:649`); its comment says "always all of them" (600).

## Proofs

All proofs are checked by TLAPS for every value of the constants that satisfies
the named assumptions (finite sets of turns and of producers, disjoint kinds of
threads, None none of the values it stands beside, a positive capacity).

**BoundedQueueProofs.** `TypeCorrect` and `RingImplementsFifo`. `TypeOK` alone is
not inductive for the refinement: `RingOK` adds that `tail` is `head + len` modulo
the capacity and that the slots of the live region hold items. `StoreInv` and
`TakeInv` prove that a store appends to `Contents` and a take removes its head,
from the arithmetic of `Wrap`; all other steps leave `Contents` alone.
`NobodyStranded` is the absence of lost wakeups. That some producer is awake while a
slot is free is not inductive, for that producer may be about to return from its last
call. `SlotsCovered` is: while a producer sleeps, there are at least as many awake
producers as free slots. A take frees a slot and wakes one, a store uses one of each.

**SessionManagerProofs.** `TypeCorrect`, `MapCorrect`, `RefsCorrect` and
`LimitHolds` for every mix of threads, including the racy ones. `RefInv` joins
`TypeOK`, `MapSound` and `RefsMatchPins` with what makes them inductive: a caller
points somewhere exactly when it is not idle, evictors point nowhere, nobody points
at an address that was not yet used (so that a created session starts without
pins), and a session being deleted is not in the map. `PinnedNeverFreed` and
`OneTurnAtATime` cover turns, cancels, the read routes that lock, deletes, purges and
the shutdown. They need `Spared`: no sweep, which frees without a second look (run
`session_sweep_race`), no probe, which neither pins nor locks, and lifecycle workers
that end in time. And they need `PurgesAlone`, as the run `tenant_sessions` does, for
a purge looks at the pins again but not at the mutex a reader holds, and keeps keys
that belong to sessions a delete may free. `SafeInv` adds that pointers and collected
sessions are live, that who uses a session found it in the map and it is there still
(`PointToMapped`; only a delete keeps what is no longer there, and keeps it alone,
`OneDelete`), that who is inside holds the session's mutex, and that threads are idle
during the flush. The heart is `UnpinnedUnused`: what has `active_refs` 0 has no
turn or cancel that points at it, by `RefsMatchPins`; a delete, which holds the
manager's mutex and finds the session's free, thereby knows of no reader either.
`OneTurnAtATime` follows, for two turns with one key point at one session, and its
mutex has one holder.

**SessionQueueProofs.** `TypeCorrect`; `WaitersCorrect` and `SequencesCorrect` from
`QueueInv` (who is not in the queue has no sequence number; the restart of the
numbering needs that nobody is registered, which is what `queue_waiting = 0` says);
`StaleCancelsHarmless` from `CancelInv` (the token seen by a running turn was not
set by a cancel of its past, because `turnOutcome` reset it after they were over);
`NoticesOnce` from `NoticeInv` (notices told, pending and carried by the one turn
that holds the mutex are at most the dropped turns), which needs `MutualExclusion`.
`ResetsAreWhole` from `ResetSeen`: a reset without a notice never iterates, and once
answered has left nothing in the history, to which only the turn inside adds.
Who is dropped for whom is a matter of the order of arrivals (`ArrivalInv`: a turn
registers once, one that is turned away is gone, no threshold is ahead of the
numbering, for which `WaitingBound` counts the waiters by the pigeonhole principle).
`LatestBehind` and `OverflowBehind` say what the two numbers a
waiter is compared with remember: that somebody came after it in mode latest, or came
after it over the cap and was let in. A recycle forgets the second, and restarts the
first only when nobody waits (`Recycling`). `DropInv` contains the two properties
themselves: a turn that is dropped now may be the one that stood behind another, but
what is behind it is behind the other too, and one of these stays or was refused in
mode latest (`DroppedHasNewer`, `AfterClosed`).
`SupersededForNewer` and `OldestForOverflow` follow for every setting, every change of
the settings by a running turn, and every recycle.

**TenantSessionsProofs.** Those about the runtimes rest on `Sound`: the mutex has one holder
(`OneHolder`), requests point to live runtimes until something is freed (`Pointing`),
what is in the map lives, a runtime is built into an empty slot, and a free address has
no pointer. `PinnedTurnsSpared`: no settled turn works on what is about to be
replaced (`ReplaceSafe`) or was collected as marked (`SweepSafe`), because the
question to `hasActiveTurns` was asked under the same hold of the mutex, and a turn
that pinned during it is not settled. `RecentSpared`: `last_used_s` is at least the time a user asked for
the runtime unless it was moved back (`LastUse`), and no time read lies in the future.
`SettingsTakeEffect`: a runtime about to be put was built from the stored settings or a
PATCH that will mark it waits for the mutex (`Fresh`). `EditsSurvive`: what an answered
PATCH changed is in what every later writer has read (`ReadKept`). The theorems
about sessions are carried over to the composition: a step of it is one of the manager's
or leaves the manager alone, so `SafeInv` of `SessionManagerProofs` holds there
(`PinnedSessionsKept`, `OneTurnAtATime`), under the same hypotheses.

**TenantOwnershipProofs.** The lock alone, under
`Sized` (what its constants are): `LockInv` says that what was read of the clock
lies in the past, that a call about to write has a file open, and that the record of
every lock that stands is the one on the path, with every other call `Clear` of it:
not where it would delete, recreate, reread or write the file, and if where it would
truncate it, then of the same instance. A step keeps that because a call gets past
reading a live record of another instance only by failing to read it, which exposes the
lock (`KeptByOthers`); a grant establishes it because `Settled` asks for just this
(`KeptFromGrant`). It holds for every overlap, crash and failure. The lease alone:
`TypeCorrect`, and `LeaseExcludes` under `~Overlap`, for which `IInv` adds that an
instance has one request in progress, that no call has read a time in the future, and
that a request with an unexpired lease is the one the row names. Both are
carried over to the composition (`OwnershipTypeCorrect`, `LockExcludes`, `LockKeepsRecord`,
`OwnershipExcludes`): a step of the deployment is one of its backend or a stutter.

**InboundIdentityProofs.** The theorems are about `IdentitySpec`, the gateway
without a script, whose restarts and failures are bounded by `MaxFaults`.
`CacheIsConsistent`: of all steps only `Store` makes an entry, and it clears the
other map. `StalenessIsBounded` needs `StaleInv`: no time read lies in the future
(`NoFuture`), no entry lives longer than one life from now (`LivesBounded`), and
what a look-up found was true no earlier than the last change or its time was read
before that change (`FoundWasTrue`); the last is where it matters that the clock is
read before the query. `StalenessIsARace`: an entry that disagrees with the
database is one a pending invalidation will drop, or was stored by a look-up that
the change overtook. `UpdatesOnce`: what was worked on is in the record of updates
(`Recorded`), whose insertion is one statement, so a second delivery finds it.

**ChatStreamProofs.** `TypeCorrect`, whose strengthening `Types` adds where the
handler has a turn, a reply and a keepalive thread. `ThreadJoined`: the thread is
gone when the handler's frame is. `StreamEnds`, from `StreamInv`: the stream is
closed only by `finish()` or by a failed send, nothing is on the wire before the
status, `done` precedes `end`, and nothing follows `end`, with two threads writing.
`SuccessBringsReply` counts: `Arriving(t)` is what the client has read of a text and
what is still on the wire. While the connection is up, the callback's `live_seq` is
what arrives of the round's text and nothing arrives of any other to come
(`Streaming`), so a reply that was streamed is whole when it is announced and one that
was not is replayed from its beginning (`Answered`, `Replaying`). A `done` without an
error in front of it is therefore sent for a whole reply only (`DoneExplained`); that
it stays so when the connection breaks needs `Ordered`, that no token follows `done`.

**OperatorScriptsProofs.** One invariant for each script; a step of the composition is one of
the script that runs (`StepOfOne`). The assumptions are named in `StrictCanary` and `OperatorScripts`:
the canary's two deliveries are distinct and its edit binds the identity its mapped message comes
from, arguments and latencies are numbers, and None is none of the values it stands beside.

- `ProbeMixesNoTurns` from `ProbeInv`: messages are sent in order, a good row's turn is answered,
  and once a later turn is answered an earlier one with a good row is not the last turn any more
  (`GoodIsPast`), because its turn was over by then.
- `CounterBracketsRun` from `BurstInv`: the load begins after the first reading and is over before the
  second (`Phases`), nothing is reported before its response (`Reported`), and every success in
  between has been counted (`Bracket`, a cardinality).
- `GatePassesOnEvidence` adds arithmetic: `PercentileIsSlowest` computes the 95th percentile as the
  script rounds it, `RoundBound` undoes the rounding of the quotient. It is stated for at most eleven probes a series;
  from twelve on the percentile is not the slowest probe and an outlier may pass the gate.
- `CanarySeesEnforcement`, `CounterCoversRefusals` and `AcknowledgedBindingHolds` from `CanaryInv`: the script was told
  nothing but the gateway's answer (`Told`), the gateway refuses on strict channels only (`Enforced`), each refusal was counted
  after the first reading (`Tallied`), and as long as nobody else edits and no look-up was overtaken, the
  script's binding is in the database from its `changed` on and its negative entry is gone from the cache
  once it is acknowledged (`Bound`).
- `InboundHoldsUnderScripts` carries the theorems of `InboundIdentityProofs` over, since the scripts and the
  refusals elsewhere leave the inbound path's state to its own steps (`InboundSteps`).

## Only model-checked

Liveness under fairness (`CloseDrains`, `EveryItemDelivered`, `ShutdownCompletes`,
`EveryTurnReturns`, `CancelEndsTurn`, `RequestReturns`, `HandlerUnwinds`) is out of
the prover's reach. Every other property of a passing run is a theorem; those whose
theorem has a hypothesis (a mix of threads, requests that do not overlap, a number of
probes) name it.

## Left out

Failures of allocation; a zero `deinit_budget_ms`; clocks that differ between
instances; a record of another length over a longer one and short writes;
contents of messages, histories, checkpoints and the store; the effects of a turn
after its lease ran out.

Of the runtime cache: the branch for an entry under another user's key (2821–2895),
which no operation modelled can produce; the write-back of the autonomy migration
(1774), a writer of the row like the seed; the heartbeat route, which writes the row
as a PATCH does; writers of the row in other processes; a runtime that is leaked
because its workers hang; and what a freed runtime's users do next.

Of the streamed chat: the `audio_reply` frame, frames dropped for want of memory in
the callback, run events, and the checks before the stream, which are one step
(`Refuse`). Of the client: the branch of `run_one` for a status other than 200,
which its library never lets it reach, and what the frames say. Of the inbound
path: the channels other than Telegram and Slack, which ask the same function, the
in-memory table of updates used without Postgres, and deployments that need no
mapping. Of the load generator: lanes, session keys and labels, a gateway that
restarts, and other people's traffic. `vault-code-graph.py` is one pass over source
files without state. The gateway's lease and the file lock the daemon takes beside
it do not exclude each other, and no property says so. Components without a module
are listed with their reason in `PROJECT.json`.

## Plan

Done: the bus, the session manager, the tenant runtime cache, the session queue,
both ownership locks and their composition, the streamed chat with its client, the
identity cache with the webhooks and the binding routes, the operator scripts, and
the theorems above, which state every safety property of the passing runs.
Next, in this order:

1. `JobClaims` (`zaki_state.zig` 14959–15080, `cron.zig`) with crashes and expiring
   claims: at most one completion per claim, no job lost; proof of exclusion as for
   `UserLease`.
2. `TaskLedger` and delivery with subagents and batches: a task gets one terminal
   status and one announcement; abstract automaton and refinement.
3. `VectorOutbox` with `CircuitBreaker`: delivery at least once or dead-lettered;
   one probe per half-open window.
4. `WakeQueue`, the HTTP pool, the extension hub, provider retries, approvals and
   usage reservation, as far as their state is concurrent.
5. Proofs: the exclusion of claims and the refinement of the task automaton.
