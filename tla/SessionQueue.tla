---------------------------- MODULE SessionQueue ----------------------------
(* One session's turns (src/src/session.zig, processMessageResultWithContext) *)
(* from the pin to its release: how they wait for the session's mutex under   *)
(* the session's queue policy, what a TTL recycle does to the queue, the      *)
(* overflow notice, slash commands, the transcript, and cancelActiveTurn.     *)
(*                                                                            *)
(* The mutex is unfair.  The counters below have a mutex of their own         *)
(* (queue_mutex): each use of them is one step, at any time.  The settings    *)
(* belong to the agent; newcomers read them without a lock.                   *)
EXTENDS Naturals, FiniteSets, Sequences

CONSTANTS
    Turns,        \* calls of processMessage; each is made once
    Cancels,      \* calls of cancelActiveTurn; each is made once
    Unmentioned,  \* turns that activation_mode "mention" refuses
    Messages,     \* what a message may be: "chat", "reset" (/new, /reset, /restart), "queue"
    Settings,     \* queue settings a /queue command may choose
    Configured,   \* the settings of a new agent
    MayExpire,    \* the session may be past its TTL when a turn gets it
    None

Modes == {"off", "serial", "latest", "debounce"}
Drops == {"summarize", "oldest", "newest"}
SettingsType == [mode : Modes, cap : Nat, drop : Drops]
ResetSettings == [mode |-> "off", cap |-> 0, drop |-> "summarize"]

ASSUME TurnsFinite == IsFiniteSet(Turns)
ASSUME SettingsAssumption == Settings \subseteq SettingsType /\ Configured \in SettingsType
ASSUME UnmentionedAssumption == Unmentioned \subseteq Turns
ASSUME MessagesAssumption == Messages \subseteq {"chat", "reset", "queue"}
ASSUME NobodyAssumption == None \notin Turns \cup Cancels
ASSUME NoFateAssumption == None \notin Drops \cup {"superseded"}

VARIABLES
    pc, msg, seq,      \* per turn: where it is, its message, waiter_sequence (0: not registered)
    note,              \* per turn: the number in its queue_summary_prefix
    fate,              \* per turn: how it ended, or None
    holder,            \* who holds session.mutex, or None
    queue_waiting, queue_sequence, queue_latest_sequence,
    queue_drop_oldest_before_sequence, queue_summarize_pending_count,
    settings,          \* the agent's queue_mode, queue_cap and queue_drop
    history,           \* turns in the agent's history
    transcript,        \* turns in the session store
    token,             \* who set the agent's cancellation_token, or None
    cpc,               \* per cancel: where it is
    arrivals,          \* history: who registered, in order, in mode latest or not, over the cap or not
    announced,         \* history: dropped turns that agents were told of
    killer, past,      \* history: per turn, who cancelled it, and cancels that had returned before it
    struck             \* history: per cancel, the turns that were in the agent loop at its signal

turn == <<pc, msg, seq, note, fate>>
queue == <<queue_waiting, queue_sequence, queue_latest_sequence,
           queue_drop_oldest_before_sequence, queue_summarize_pending_count>>
agent == <<settings, history, token>>
ghosts == <<arrivals, announced, killer, past, struck>>
vars == <<turn, holder, queue, agent, transcript, cpc, ghosts>>

Init ==
    /\ pc = [t \in Turns |-> "new"]
    /\ msg \in [Turns -> Messages]
    /\ seq = [t \in Turns |-> 0]
    /\ note = [t \in Turns |-> 0]
    /\ fate = [t \in Turns |-> None]
    /\ holder = None
    /\ queue_waiting = 0 /\ queue_sequence = 0 /\ queue_latest_sequence = 0
    /\ queue_drop_oldest_before_sequence = 0 /\ queue_summarize_pending_count = 0
    /\ settings = Configured
    /\ history = {} /\ transcript = {}
    /\ token = None
    /\ cpc = [c \in Cancels |-> "idle"]
    /\ arrivals = <<>> /\ announced = 0
    /\ killer = [t \in Turns |-> None]
    /\ past = [t \in Turns |-> {}]
    /\ struck = [c \in Cancels |-> {}]

Goto(t, here, there) == pc[t] = here /\ pc' = [pc EXCEPT ![t] = there]
End(t, how) == fate' = [fate EXCEPT ![t] = how]

-----------------------------------------------------------------------------
(* Getting the session's mutex.                                               *)

acquireSessionForTurn(t) ==
    /\ Goto(t, "new", "pinned")
    /\ past' = [past EXCEPT ![t] = {c \in Cancels : cpc[c] = "done"}]
    /\ UNCHANGED <<msg, seq, note, fate, holder, queue, agent, transcript, cpc,
                   arrivals, announced, killer, struck>>

tryLock(t) ==
    /\ IF holder = None
       THEN Goto(t, "pinned", "acquired") /\ holder' = t
       ELSE Goto(t, "pinned", "busy") /\ UNCHANGED holder
    /\ UNCHANGED <<msg, seq, note, fate, queue, agent, transcript, cpc, ghosts>>

ReadMode(t) ==
    /\ Goto(t, "busy", IF settings.mode = "off" THEN "waiting" ELSE "registering")
    /\ UNCHANGED <<msg, seq, note, fate, holder, queue, agent, transcript, cpc, ghosts>>

MutantDropBefore(s, over) == s                      \* the newcomer counts as older than itself
DropBefore(s, over) == IF s > over THEN s - over ELSE 1
MutantNewestLeaves(w) == w                          \* the dropped newcomer stays counted
NewestLeaves(w) == w - 1

queueRegisterWaiter(t) ==
    LET s == queue_sequence + 1
        waiting == queue_waiting + 1
        fits == settings.cap = 0 \/ waiting <= settings.cap
        dropped == ~fits /\ settings.drop # "oldest"
    IN
    /\ Goto(t, "registering", IF dropped THEN "releasing" ELSE "waiting")
    /\ queue_sequence' = s
    /\ queue_latest_sequence' = IF settings.mode = "latest" THEN s ELSE queue_latest_sequence
    /\ queue_waiting' = IF dropped THEN NewestLeaves(waiting) ELSE waiting
    /\ queue_summarize_pending_count' =
         queue_summarize_pending_count + (IF dropped /\ settings.drop = "summarize" THEN 1 ELSE 0)
    /\ queue_drop_oldest_before_sequence' =
         LET before == DropBefore(s, waiting - settings.cap) IN
         IF ~fits /\ settings.drop = "oldest" /\ before > queue_drop_oldest_before_sequence
         THEN before ELSE queue_drop_oldest_before_sequence
    /\ seq' = [seq EXCEPT ![t] = IF dropped THEN 0 ELSE s]
    /\ fate' = IF dropped THEN [fate EXCEPT ![t] = settings.drop] ELSE fate
    /\ arrivals' = Append(arrivals, [turn |-> t, latest |-> settings.mode = "latest", full |-> ~fits])
    /\ UNCHANGED <<msg, note, holder, agent, transcript, cpc, announced, killer, past, struck>>

(* Debounce sleeps first: a wait like any other.                              *)
lock(t) ==
    /\ Goto(t, "waiting", "acquired")
    /\ holder = None /\ holder' = t
    /\ UNCHANGED <<msg, seq, note, fate, queue, agent, transcript, cpc, ghosts>>

MutantSuperseded(s) == settings.mode = "latest" /\ s <= queue_latest_sequence
Superseded(s) == settings.mode = "latest" /\ s < queue_latest_sequence
TooOld(s) == queue_drop_oldest_before_sequence # 0 /\ s <= queue_drop_oldest_before_sequence

MutantDropExit == "releasing"                       \* the early return skips the deferred unlock
DropExit == "leaving"

queueDropAfterAcquire(t) ==
    /\ \/ /\ seq[t] # 0 /\ Superseded(seq[t])
          /\ Goto(t, "acquired", DropExit) /\ End(t, "superseded")
       \/ /\ seq[t] # 0 /\ ~Superseded(seq[t]) /\ TooOld(seq[t])
          /\ Goto(t, "acquired", DropExit) /\ End(t, "oldest")
       \/ /\ seq[t] = 0 \/ (~Superseded(seq[t]) /\ ~TooOld(seq[t]))
          /\ Goto(t, "acquired", "admitted") /\ UNCHANGED fate
    /\ UNCHANGED <<msg, seq, note, holder, queue, agent, transcript, cpc, ghosts>>

-----------------------------------------------------------------------------
(* The turn itself, under session.mutex.                                      *)

MutantSequenceAfterRecycle(n) == 0                  \* restarted although turns are waiting
SequenceAfterRecycle(n) == IF queue_waiting = 0 THEN 0 ELSE n

(* The TTL has passed and no lifecycle worker is in flight: a new agent.      *)
recycleSessionInPlace(t) ==
    /\ Goto(t, "admitted", "refreshed")
    /\ MayExpire
    /\ settings' = Configured /\ history' = {} /\ token' = None
    /\ queue_drop_oldest_before_sequence' = 0
    /\ queue_summarize_pending_count' = 0
    /\ queue_sequence' = SequenceAfterRecycle(queue_sequence)
    /\ queue_latest_sequence' = SequenceAfterRecycle(queue_latest_sequence)
    /\ UNCHANGED <<msg, seq, note, fate, holder, queue_waiting, transcript, cpc, ghosts>>

KeepAgent(t) ==
    /\ Goto(t, "admitted", "refreshed")
    /\ UNCHANGED <<msg, seq, note, fate, holder, queue, agent, transcript, cpc, ghosts>>

MutantTaken == queue_summarize_pending_count        \* the count is read and not zeroed
Taken == 0

takeQueueSummaryPrefix(t) ==
    /\ Goto(t, "refreshed", "prefixed")
    /\ note' = [note EXCEPT ![t] = queue_summarize_pending_count]
    /\ queue_summarize_pending_count' = Taken
    /\ UNCHANGED <<msg, seq, fate, holder, queue_waiting, queue_sequence, queue_latest_sequence,
                   queue_drop_oldest_before_sequence, agent, transcript, cpc, ghosts>>

activationBlocked(t) ==
    /\ t \in Unmentioned
    /\ Goto(t, "prefixed", "leaving") /\ End(t, "blocked")
    /\ UNCHANGED <<msg, seq, note, holder, queue, agent, transcript, cpc, ghosts>>

MutantFreshToken == token                           \* turnOutcome does not reset the token
FreshToken == None

turnOutcome(t) ==
    /\ t \notin Unmentioned
    /\ Goto(t, "prefixed", "running")
    /\ token' = FreshToken
    /\ announced' = announced + note[t]
    /\ UNCHANGED <<msg, seq, note, fate, holder, queue, settings, history, transcript, cpc,
                   arrivals, killer, past, struck>>

(* A message with a notice in front of it no longer starts with a slash.      *)
IsCommand(t) == msg[t] # "chat" /\ note[t] = 0

MutantClearedHistory(t) == history                  \* the command keeps the conversation
ClearedHistory(t) == IF msg[t] = "reset" THEN {} ELSE history

handleSlashCommand(t) ==
    /\ IsCommand(t)
    /\ Goto(t, "running", "answered") /\ End(t, "answered")
    /\ history' = ClearedHistory(t)
    /\ settings' \in IF msg[t] = "queue" THEN Settings ELSE {settings, ResetSettings}
    /\ UNCHANGED <<msg, seq, note, holder, queue, token, transcript, cpc, ghosts>>

(* The head of an iteration looks at the token.                               *)
Iteration(t) ==
    /\ ~IsCommand(t)
    /\ history' = history \cup {t}
    /\ IF token # None
       THEN Goto(t, "running", "answered") /\ End(t, "cancelled") /\ killer' = [killer EXCEPT ![t] = token]
       ELSE Goto(t, "running", "iterating") /\ UNCHANGED <<fate, killer>>
    /\ UNCHANGED <<msg, seq, note, holder, queue, settings, token, transcript, cpc,
                   arrivals, announced, past, struck>>

MutantNextIteration(t) ==                           \* every iteration starts with a reset token
    /\ Goto(t, "iterating", "running")
    /\ token' = None
    /\ UNCHANGED <<msg, seq, note, fate, holder, queue, settings, history, transcript, cpc, ghosts>>
NextIteration(t) ==
    /\ Goto(t, "iterating", "running")
    /\ UNCHANGED <<msg, seq, note, fate, holder, queue, agent, transcript, cpc, ghosts>>

Answer(t) ==
    /\ Goto(t, "iterating", "answered") /\ End(t, "answered")
    /\ UNCHANGED <<msg, seq, note, holder, queue, agent, transcript, cpc, ghosts>>

(* No agent could be built, or the provider failed: every defer still runs.   *)
Fail(t) ==
    /\ (MayExpire /\ Goto(t, "admitted", "leaving")) \/ Goto(t, "iterating", "leaving")
    /\ End(t, "failed")
    /\ UNCHANGED <<msg, seq, note, holder, queue, agent, transcript, cpc, ghosts>>

Persisted(t) ==
    CASE msg[t] = "chat" -> transcript \cup {t}
      [] msg[t] = "reset" -> {}
      [] msg[t] = "queue" -> transcript

(* The store decides by the message as it was sent; its failures are logged.  *)
PersistMessages(t) ==
    /\ Goto(t, "answered", "leaving")
    /\ transcript' \in {Persisted(t), transcript}
    /\ UNCHANGED <<msg, seq, note, fate, holder, queue, agent, cpc, ghosts>>

queueUnregisterWaiter(t) ==
    /\ Goto(t, "leaving", "unlocking")
    /\ IF seq[t] = 0 THEN UNCHANGED <<queue, seq>>
       ELSE /\ queue_waiting' = IF queue_waiting > 0 THEN queue_waiting - 1 ELSE 0
            /\ queue_drop_oldest_before_sequence' =
                 IF queue_waiting' = 0 /\ seq[t] >= queue_latest_sequence
                 THEN 0 ELSE queue_drop_oldest_before_sequence
            /\ seq' = [seq EXCEPT ![t] = 0]
            /\ UNCHANGED <<queue_sequence, queue_latest_sequence, queue_summarize_pending_count>>
    /\ UNCHANGED <<msg, note, fate, holder, agent, transcript, cpc, ghosts>>

unlock(t) ==
    /\ Goto(t, "unlocking", "releasing")
    /\ holder' = None
    /\ UNCHANGED <<msg, seq, note, fate, queue, agent, transcript, cpc, ghosts>>

releaseSessionRef(t) ==
    /\ Goto(t, "releasing", "done")
    /\ UNCHANGED <<msg, seq, note, fate, holder, queue, agent, transcript, cpc, ghosts>>

-----------------------------------------------------------------------------
(* cancelActiveTurn: look up and pin, set the token, unpin.                   *)

InLoop(t) == pc[t] \in {"running", "iterating"}

CancelPin(c) ==
    /\ cpc[c] = "idle"
    /\ cpc' = [cpc EXCEPT ![c] = "pinned"]
    /\ UNCHANGED <<turn, holder, queue, agent, transcript, ghosts>>

CancelSignal(c) ==
    /\ cpc[c] = "pinned"
    /\ cpc' = [cpc EXCEPT ![c] = "signalled"]
    /\ token' = c
    /\ struck' = [struck EXCEPT ![c] = {t \in Turns : InLoop(t)}]
    /\ UNCHANGED <<turn, holder, queue, settings, history, transcript, arrivals, announced, killer, past>>

CancelUnpin(c) ==
    /\ cpc[c] = "signalled"
    /\ cpc' = [cpc EXCEPT ![c] = "done"]
    /\ UNCHANGED <<turn, holder, queue, agent, transcript, ghosts>>

TurnStep(t) ==
    \/ acquireSessionForTurn(t) \/ tryLock(t) \/ ReadMode(t) \/ queueRegisterWaiter(t) \/ lock(t)
    \/ queueDropAfterAcquire(t) \/ recycleSessionInPlace(t) \/ KeepAgent(t)
    \/ takeQueueSummaryPrefix(t) \/ activationBlocked(t) \/ turnOutcome(t)
    \/ handleSlashCommand(t) \/ Iteration(t) \/ NextIteration(t) \/ Answer(t) \/ Fail(t)
    \/ PersistMessages(t) \/ queueUnregisterWaiter(t) \/ unlock(t) \/ releaseSessionRef(t)

AllDone == (\A t \in Turns : pc[t] = "done") /\ (\A c \in Cancels : cpc[c] = "done")

Next ==
    \/ \E t \in Turns : TurnStep(t)
    \/ \E c \in Cancels : CancelPin(c) \/ CancelSignal(c) \/ CancelUnpin(c)
    \/ AllDone /\ UNCHANGED vars

Spec == Init /\ [][Next]_vars

(* A turn that has been called is run on by the scheduler.  Nothing is said   *)
(* of the choices in it: the model may go on asking for tools.                *)
Called(t) == TurnStep(t) /\ pc[t] # "new"
FairSpec == Spec /\ \A t \in Turns : WF_vars(Called(t))

-----------------------------------------------------------------------------

Places == {"new", "pinned", "busy", "registering", "waiting", "acquired", "admitted", "refreshed",
           "prefixed", "running", "iterating", "answered", "leaving", "unlocking", "releasing", "done"}
Fates == {"superseded", "blocked", "answered", "cancelled", "failed", None} \cup Drops

Arrival == [turn : Turns, latest : BOOLEAN, full : BOOLEAN]

(* Type correctness: none of the queue's counters goes below zero, and who    *)
(* holds the session's mutex is a turn.                                       *)
TypeOK ==
    /\ pc \in [Turns -> Places]
    /\ msg \in [Turns -> {"chat", "reset", "queue"}]
    /\ seq \in [Turns -> Nat] /\ note \in [Turns -> Nat]
    /\ fate \in [Turns -> Fates]
    /\ holder \in Turns \cup {None}
    /\ queue_waiting \in Nat /\ queue_sequence \in Nat /\ queue_latest_sequence \in Nat
    /\ queue_drop_oldest_before_sequence \in Nat /\ queue_summarize_pending_count \in Nat
    /\ settings \in SettingsType
    /\ history \subseteq Turns /\ transcript \subseteq Turns
    /\ token \in Cancels \cup {None}
    /\ cpc \in [Cancels -> {"idle", "pinned", "signalled", "done"}]
    /\ arrivals \in Seq(Arrival) /\ announced \in Nat
    /\ killer \in [Turns -> Cancels \cup {None}] /\ past \in [Turns -> SUBSET Cancels]
    /\ struck \in [Cancels -> SUBSET Turns]

Registered == {t \in Turns : seq[t] # 0}

(* queue_waiting counts the registered turns: were it to drift, the queue     *)
(* would drop messages of an idle session or stop bounding a busy one.        *)
WaitersCounted == queue_waiting = Cardinality(Registered)

(* Registered turns have distinct sequences that queue_sequence has reached,  *)
(* also when a TTL recycle restarts the numbering.                            *)
SequencesDistinct ==
    \A t, u \in Registered : seq[t] <= queue_sequence /\ (seq[t] = seq[u] => t = u)

After(t) == {arrivals[j] : j \in {k \in DOMAIN arrivals : \E i \in 1..(k - 1) : arrivals[i].turn = t}}
AtDoor(t) == fate[t] \in {"newest", "summarize"}

(* Of the turns that arrived after t, one is not dropped from the queue.  If  *)
(* that one was turned away at the door it came in mode latest: its sequence  *)
(* is recorded before the cap is looked at, and both messages may be lost.    *)
Succeeded(t) == \E a \in After(t) : fate[a.turn] \notin {"superseded", "oldest"} /\ (AtDoor(a.turn) => a.latest)

(* "this older queued turn was superseded by a newer request" (session.zig    *)
(* 156), whatever the settings were changed to and the session recycled       *)
(* meanwhile: a newer one came in mode latest, and not all are dropped.       *)
SupersededByNewer ==
    \A t \in Turns : fate[t] = "superseded" => (\E a \in After(t) : a.latest) /\ Succeeded(t)

(* "Older queued turn dropped" (session.zig:157): a turn is dropped as the    *)
(* oldest for a newer one that the cap had no room for and that was let in,   *)
(* and the policy does not empty the queue.                                   *)
OldestByOverflow ==
    \A t \in Turns : fate[t] = "oldest" => (\E a \in After(t) : a.full /\ ~AtDoor(a.turn)) /\ Succeeded(t)

(* "a stale cancel never silently cancels a future user message"              *)
(* (session.zig:809): a cancel that returned before a turn was called does    *)
(* not cancel it.                                                             *)
NoStaleCancel == \A t \in Turns : killer[t] \notin past[t]

Summarized == {t \in Turns : fate[t] = "summarize"}

(* Agents are told of each turn dropped with "summarize" at most once, by the *)
(* notice takeQueueSummaryPrefix puts before a message.                       *)
NoticeAtMostOnce == announced + queue_summarize_pending_count <= Cardinality(Summarized)

(* The store's transcript is erased only when the conversation is over: the   *)
(* agent's history has been cleared too.                                      *)
ResetIsWhole == [][transcript # {} /\ transcript' = {} => history' = {}]_vars

Noticed == {t \in Turns : pc[t] = "answered" /\ note[t] > 0}

(* The same of a reset without an overflow notice in front of it: whatever    *)
(* waits, is dropped or recycled around it, agent and store forget together.  *)
PlainResetIsWhole ==
    [][transcript # {} /\ transcript' = {} /\ Noticed = {} => history' = {}]_vars

(* The model does not ask for tools for ever: max_tool_iterations bounds it.  *)
ModelStops == \A t \in Turns : SF_vars(Answer(t))

(* Every message is answered, dropped or refused in the end: no path through  *)
(* the queue keeps the session's mutex or leaves a turn waiting for it.       *)
EveryTurnReturns == ModelStops => \A t \in Turns : (pc[t] = "pinned") ~> (pc[t] = "done")

(* A cancel that finds a turn in the agent loop ends it, also when the model  *)
(* would ask for tools for ever; no reset of the token comes in between.      *)
CancelEndsTurn == \A c \in Cancels, t \in Turns : (t \in struck[c]) ~> (pc[t] = "done")

=============================================================================
