---------------------------- MODULE InboundIdentity ----------------------------
(* Which user an inbound webhook message belongs to: the bindings of channel  *)
(* identities to users in Postgres, the process-wide cache of lookups in      *)
(* front of them (src/src/inbound_canonicalizer.zig), the Telegram and Slack  *)
(* webhooks that ask, with Telegram's record of the updates it has seen, and  *)
(* the binding routes that change the answer (src/src/gateway.zig).           *)
(*                                                                            *)
(* A lookup that misses the cache asks the database without the cache's       *)
(* mutex, and stores what it was told with a life counted from the time it    *)
(* read before.  Each SQL statement, and each hold of the mutex, is one step. *)
EXTENDS Naturals

CONSTANTS
    Deliveries, \* webhook calls; each is made once (a retry is another one)
    Edits,      \* calls of the binding routes
    Ids,        \* channel identities: channel, account, principal, scope, thread
    Users,
    IdOf,       \* per delivery: the identity it comes from
    UserOf,     \* per delivery: the user named in a Telegram webhook's URL
    UpdateOf,   \* per delivery: its update_id, of that user's bot
    EditOf,     \* per edit: [kind |-> "upsert" or "delete", id |-> .., user |-> ..]
    PositiveTtl,
    NegativeTtl,
    MaxNow,     \* bound of the clock
    MaxFaults, \* bound of the calls that fail and the restarts, together
    StrictSettings, \* values of identity_mapping_strict_channels to start from
    None

Kinds == {"private", "group", "slack"}

ASSUME IdentityAssumption ==
    /\ IdOf \in [Deliveries -> Ids] /\ UserOf \in [Deliveries -> Users]
    /\ EditOf \in [Edits -> [kind : {"upsert", "delete"}, id : Ids, user : Users]]
    /\ None \notin Users /\ StrictSettings \subseteq SUBSET {"telegram", "slack"}
ASSUME TimesAssumption == PositiveTtl \in Nat /\ NegativeTtl \in Nat /\ MaxNow \in Nat /\ MaxFaults \in Nat

VARIABLES
    kind,     \* per delivery: a Telegram chat ("private" or "group") or "slack"
    strict,   \* identity_mapping_strict_channels
    db,       \* per identity: the user it is bound to, or None
    changed,  \* per identity: when its binding last changed
    updates,  \* telegram_updates: the updates seen
    positive, \* cache: per identity, None or the user and when the entry expires
    negative, \* cache: per identity, None or when the entry expires
    raced,    \* identities of which an answer was stored that was no longer true
    rejected, \* METRICS.strict_rejected
    now,
    restarted, \* the gateway has restarted
    faults,
    pc,       \* per delivery: where its handler stands
    now_s,    \* per delivery: the time it read before the lookup
    found,    \* per delivery: the user looked up, or None
    answer,   \* per delivery: what it was answered, None before
    edit      \* per edit: "idle", "changed", "ok", "failed" or "lost"

stored == <<db, changed, updates>>
cache == <<positive, negative, raced>>
lookup == <<pc, now_s, found, answer>>
identityVars == <<kind, strict, stored, cache, rejected, now, restarted, faults, lookup, edit>>

Positive(user, expires) == [user |-> user, expires |-> expires]
ChannelOf(w) == IF kind[w] = "slack" THEN "slack" ELSE "telegram"
Answers == {"ok", "duplicate", "unauthorized", "strict_reject", "forbidden", "failed", "lost"}

ASSUME NoneAnswerAssumption == None \notin Answers

IdentityInit ==
    /\ kind \in [Deliveries -> Kinds]
    /\ strict \in StrictSettings
    /\ db = [i \in Ids |-> None] /\ changed = [i \in Ids |-> 0]
    /\ updates = {}
    /\ positive = [i \in Ids |-> None] /\ negative = [i \in Ids |-> None] /\ raced = {}
    /\ rejected = 0 /\ now = 0 /\ restarted = FALSE /\ faults = 0
    /\ pc = [w \in Deliveries |-> "idle"] /\ now_s = [w \in Deliveries |-> 0]
    /\ found = [w \in Deliveries |-> None] /\ answer = [w \in Deliveries |-> None]
    /\ edit = [e \in Edits |-> "idle"]

-----------------------------------------------------------------------------
Goto(w, where) == pc' = [pc EXCEPT ![w] = where]
Answer(w, what) ==                                  \* the handler's locals end with it
    /\ Goto(w, "answered")
    /\ answer' = [answer EXCEPT ![w] = what]
    /\ now_s' = [now_s EXCEPT ![w] = 0] /\ found' = [found EXCEPT ![w] = None]
Fail == faults < MaxFaults /\ faults' = faults + 1
NoFault == faults' = faults
GoOn(w, where) == Goto(w, where) /\ UNCHANGED <<now_s, found, answer>>
Bind(i, user) == db' = [db EXCEPT ![i] = user] /\ changed' = [changed EXCEPT ![i] = now]
Forget(i) ==
    /\ positive' = [positive EXCEPT ![i] = None]
    /\ negative' = [negative EXCEPT ![i] = None]
    /\ raced' = raced

(* The secret token (Telegram) or the signature (Slack) is checked first; the *)
(* tenant's ownership and state may fail the request too.                     *)
Receive(w) ==
    /\ pc[w] = "idle"
    /\ \/ Fail /\ \E r \in {"forbidden", "failed"} : Answer(w, r)
       \/ NoFault /\ GoOn(w, IF kind[w] = "slack" THEN "canonicalize" ELSE "dedupe")
    /\ UNCHANGED <<kind, strict, stored, cache, rejected, now, restarted, edit>>

(* recordTelegramUpdate inserts the user's update or finds it there, in one   *)
(* statement, before anything is done for it.                                 *)
Update(w) == <<UserOf[w], UpdateOf[w]>>
MutantSeen(w) == FALSE                              \* the conflict is not noticed
Seen(w) == Update(w) \in updates
Dedupe(w) ==
    /\ pc[w] = "dedupe"
    /\ \/ Fail /\ Answer(w, "failed") /\ updates' = updates
       \/ Seen(w) /\ NoFault /\ Answer(w, "duplicate") /\ updates' = updates
       \/ /\ ~Seen(w)
          /\ updates' = updates \cup {Update(w)}
          /\ \/ Fail /\ Answer(w, "unauthorized")                \* allow_from, after the record
             \/ NoFault /\ GoOn(w, IF kind[w] = "private" THEN "bind" ELSE "canonicalize")
    /\ UNCHANGED <<kind, strict, db, changed, cache, rejected, now, restarted, edit>>

(* A private chat binds itself to the user of the webhook's URL; that the     *)
(* statement failed is only logged.                                           *)
BindOwn(w) ==
    /\ pc[w] = "bind"
    /\ \/ NoFault /\ Bind(IdOf[w], UserOf[w])
       \/ Fail /\ UNCHANGED <<db, changed>>
    /\ GoOn(w, "invalidate")
    /\ UNCHANGED <<kind, strict, updates, cache, rejected, now, restarted, edit>>

InvalidateOwn(w) ==
    /\ pc[w] = "invalidate"
    /\ Forget(IdOf[w])
    /\ GoOn(w, "canonicalize")
    /\ UNCHANGED <<kind, strict, stored, rejected, now, restarted, faults, edit>>

ReadClock(w) ==
    /\ pc[w] = "canonicalize"
    /\ Goto(w, "lookup")
    /\ now_s' = [now_s EXCEPT ![w] = now]
    /\ UNCHANGED <<kind, strict, stored, cache, rejected, now, restarted, faults, found, answer, edit>>

(* Under the mutex: what has expired by now is dropped, then an entry that    *)
(* has not expired by now_s answers.                                          *)
PurgedPositive == [i \in Ids |-> IF positive[i] # None /\ positive[i].expires > now THEN positive[i] ELSE None]
PurgedNegative == [i \in Ids |-> IF negative[i] # None /\ negative[i] > now THEN negative[i] ELSE None]
LookInCache(w) ==
    LET i == IdOf[w]
    IN /\ pc[w] = "lookup"
       /\ positive' = PurgedPositive
       /\ negative' = PurgedNegative
       /\ \/ /\ positive'[i] # None
             /\ found' = [found EXCEPT ![w] = positive'[i].user]
             /\ Goto(w, "decide")
          \/ /\ positive'[i] = None /\ negative'[i] # None
             /\ found' = [found EXCEPT ![w] = None]
             /\ Goto(w, "decide")
          \/ /\ positive'[i] = None /\ negative'[i] = None
             /\ found' = found
             /\ Goto(w, "query")
       /\ UNCHANGED <<kind, strict, stored, rejected, raced, now, restarted, faults, now_s, answer, edit>>

Query(w) ==
    /\ pc[w] = "query"
    /\ \/ Fail /\ Answer(w, "failed")                            \* canonicalization_failed
       \/ NoFault /\ Goto(w, "store") /\ found' = [found EXCEPT ![w] = db[IdOf[w]]] /\ UNCHANGED <<now_s, answer>>
    /\ UNCHANGED <<kind, strict, stored, cache, rejected, now, restarted, edit>>

MutantExpiry(w, ttl) == now + ttl                   \* the clock is read again
Expiry(w, ttl) == now_s[w] + ttl
Store(w) ==
    LET i == IdOf[w]
    IN /\ pc[w] = "store"
       /\ positive' = [positive EXCEPT ![i] = IF found[w] # None THEN Positive(found[w], Expiry(w, PositiveTtl))
                                              ELSE None]
       /\ negative' = [negative EXCEPT ![i] = IF found[w] = None THEN Expiry(w, NegativeTtl) ELSE None]
       /\ raced' = IF found[w] # db[i] THEN raced \cup {i} ELSE raced
       /\ GoOn(w, "decide")
       /\ UNCHANGED <<kind, strict, stored, rejected, now, restarted, faults, edit>>

(* A mapped message gets its user's session and its turn, an unmapped one a   *)
(* compatibility session, or on a strict channel a refusal, counted before it *)
(* is answered.                                                               *)
Rejects(w) == found[w] = None /\ ChannelOf(w) \in strict
MutantCounted(w) ==                                 \* a refusal from the cache is not counted
    IF Rejects(w) /\ negative[IdOf[w]] = None THEN rejected + 1 ELSE rejected
Counted(w) == IF Rejects(w) THEN rejected + 1 ELSE rejected
Decide(w) ==
    /\ pc[w] = "decide"
    /\ rejected' = Counted(w)
    /\ GoOn(w, IF Rejects(w) THEN "refusing" ELSE "turn")
    /\ UNCHANGED <<kind, strict, stored, cache, now, restarted, faults, edit>>
Reply(w) ==
    /\ \/ pc[w] = "refusing" /\ NoFault /\ Answer(w, "strict_reject")
       \/ pc[w] = "turn" /\ NoFault /\ Answer(w, "ok")
       \/ pc[w] = "turn" /\ kind[w] # "slack" /\ Fail /\ Answer(w, "failed")       \* no runtime, or a delegated one
    /\ UNCHANGED <<kind, strict, stored, cache, rejected, now, restarted, edit>>

Webhook(w) ==
    \/ Dedupe(w) \/ BindOwn(w) \/ InvalidateOwn(w) \/ ReadClock(w) \/ LookInCache(w)
    \/ Query(w) \/ Store(w) \/ Decide(w) \/ Reply(w)

-----------------------------------------------------------------------------
(* The binding routes: change the row, then drop what the cache says of it    *)
(* (one identity after an upsert, everything after a delete).                 *)
ChangeBinding(e) ==
    LET i == EditOf[e].id
    IN /\ edit[e] = "idle"
       /\ \/ Fail /\ edit' = [edit EXCEPT ![e] = "failed"] /\ UNCHANGED <<db, changed>>
          \/ /\ NoFault
             /\ \/ EditOf[e].kind = "upsert" /\ Bind(i, EditOf[e].user)
                \/ EditOf[e].kind = "delete" /\ db[i] = EditOf[e].user /\ Bind(i, None)
             /\ edit' = [edit EXCEPT ![e] = "changed"]
       /\ UNCHANGED <<kind, strict, updates, cache, rejected, now, restarted, lookup>>

MutantInvalidate(e) ==                              \* the cache is not told
    /\ edit[e] = "changed"
    /\ edit' = [edit EXCEPT ![e] = "ok"]
    /\ UNCHANGED <<kind, strict, stored, cache, rejected, now, restarted, faults, lookup>>
Invalidate(e) ==
    /\ edit[e] = "changed"
    /\ \/ EditOf[e].kind = "upsert" /\ Forget(EditOf[e].id)
       \/ /\ EditOf[e].kind = "delete"
          /\ positive' = [i \in Ids |-> None] /\ negative' = [i \in Ids |-> None] /\ raced' = raced
    /\ edit' = [edit EXCEPT ![e] = "ok"]
    /\ UNCHANGED <<kind, strict, stored, rejected, now, restarted, faults, lookup>>

-----------------------------------------------------------------------------
Tick == now < MaxNow /\ now' = now + 1
        /\ UNCHANGED <<kind, strict, stored, cache, rejected, restarted, faults, lookup, edit>>

(* The gateway restarts: the cache and the metrics are the process's, the     *)
(* bindings and the record of updates are not; requests in progress are lost. *)
Restart ==
    /\ Fail /\ restarted' = TRUE
    /\ positive' = [i \in Ids |-> None] /\ negative' = [i \in Ids |-> None] /\ raced' = raced
    /\ rejected' = 0
    /\ pc' = [w \in Deliveries |-> IF pc[w] = "idle" THEN "idle" ELSE "answered"]
    /\ answer' = [w \in Deliveries |-> IF pc[w] \in {"idle", "answered"} THEN answer[w] ELSE "lost"]
    /\ now_s' = [w \in Deliveries |-> 0] /\ found' = [w \in Deliveries |-> None]
    /\ edit' = [e \in Edits |-> IF edit[e] = "changed" THEN "lost" ELSE edit[e]]
    /\ UNCHANGED <<kind, strict, stored, now>>

IdentityStep ==
    \/ \E w \in Deliveries : Receive(w) \/ Webhook(w)
    \/ \E e \in Edits : ChangeBinding(e) \/ Invalidate(e)
    \/ Tick \/ Restart

IdentitySpec == IdentityInit /\ [][IdentityStep]_identityVars

-----------------------------------------------------------------------------
(* Rows, cache entries, clocks and the handlers' locals keep their types.     *)
IdentityTypeOK ==
    /\ kind \in [Deliveries -> Kinds] /\ strict \subseteq {"telegram", "slack"}
    /\ db \in [Ids -> Users \cup {None}] /\ changed \in [Ids -> 0..MaxNow]
    /\ positive \in [Ids -> {None} \cup [user : Users, expires : Nat]]
    /\ negative \in [Ids -> {None} \cup Nat]
    /\ raced \subseteq Ids /\ rejected \in Nat /\ now \in 0..MaxNow /\ restarted \in BOOLEAN /\ faults \in 0..MaxFaults
    /\ pc \in [Deliveries -> {"idle", "dedupe", "bind", "invalidate", "canonicalize", "lookup", "query", "store",
                              "decide", "refusing", "turn", "answered"}]
    /\ now_s \in [Deliveries -> 0..MaxNow] /\ found \in [Deliveries -> Users \cup {None}]
    /\ answer \in [Deliveries -> Answers \cup {None}]
    /\ edit \in [Edits -> {"idle", "changed", "ok", "failed", "lost"}]

(* The cache never says of one identity both that it is mapped and that it    *)
(* is not, whatever lookups and invalidations overlap.                        *)
OneAnswer == \A i \in Ids : positive[i] = None \/ negative[i] = None

(* A cached answer outlives the binding it was read from by less than its     *)
(* time to live: an entry that disagrees with the database expires no later   *)
(* than one life after the last change, because that life was counted from    *)
(* before the query.  So a stale refusal, or a session of a user the identity *)
(* no longer belongs to, is bounded in time even when the invalidation was    *)
(* overtaken by a lookup already under way.                                   *)
StaleIsBounded ==
    \A i \in Ids :
        /\ positive[i] # None /\ positive[i].user # db[i] => positive[i].expires <= changed[i] + PositiveTtl
        /\ negative[i] # None /\ db[i] # None => negative[i] <= changed[i] + NegativeTtl

(* Outside that race the cache follows the bindings: an entry that disagrees  *)
(* with the database is one a change is about to drop, or was overtaken.      *)
ChangePending(i) ==
    \/ \E e \in Edits : edit[e] = "changed" /\ (EditOf[e].id = i \/ EditOf[e].kind = "delete")
    \/ \E w \in Deliveries : pc[w] = "invalidate" /\ IdOf[w] = i
StaleOnlyByRace ==
    \A i \in Ids \ raced :
        /\ positive[i] # None /\ positive[i].user # db[i] => ChangePending(i)
        /\ negative[i] # None /\ db[i] # None => ChangePending(i)

(* However often Telegram delivers an update, and whether or not the gateway  *)
(* restarts in between, it gets past the record of updates once.              *)
Worked(w) == pc[w] \in {"bind", "invalidate", "canonicalize", "lookup", "query", "store", "decide", "refusing", "turn"}
             \/ answer[w] \in {"ok", "strict_reject"}
ProcessedAtMostOnce ==
    \A v, w \in Deliveries :
        v # w /\ kind[v] # "slack" /\ kind[w] # "slack" /\ Update(v) = Update(w) => ~(Worked(v) /\ Worked(w))
=============================================================================
