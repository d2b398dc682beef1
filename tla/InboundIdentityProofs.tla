------------------------ MODULE InboundIdentityProofs ------------------------
(* Proofs about InboundIdentity, for every set of deliveries, edits,          *)
(* identities and users, every life of a cached answer, and any number of     *)
(* failures and restarts.                                                     *)
EXTENDS InboundIdentity, TLAPS

Places == {"idle", "dedupe", "bind", "invalidate", "canonicalize", "lookup", "query", "store",
           "decide", "refusing", "turn", "answered"}

USE IdentityAssumption, TimesAssumption DEF IdentityAssumption, TimesAssumption

-----------------------------------------------------------------------------
(* Type correctness.                                                          *)

LEMMA IdentityInitType == IdentityInit => IdentityTypeOK
<1> SUFFICES ASSUME IdentityInit PROVE IdentityTypeOK
  OBVIOUS
<1>1. strict \subseteq {"telegram", "slack"}
  BY DEF IdentityInit
<1>2. changed \in [Ids -> 0..MaxNow] /\ now \in 0..MaxNow /\ now_s \in [Deliveries -> 0..MaxNow] /\ faults \in 0..MaxFaults
  BY DEF IdentityInit
<1>3. kind \in [Deliveries -> Kinds] /\ rejected \in Nat /\ restarted \in BOOLEAN /\ raced \subseteq Ids
  BY DEF IdentityInit
<1>4. pc \in [Deliveries -> Places] /\ answer \in [Deliveries -> Answers \cup {None}]
      /\ edit \in [Edits -> {"idle", "changed", "ok", "failed", "lost"}]
  BY DEF IdentityInit, Places
<1>5. db \in [Ids -> Users \cup {None}] /\ found \in [Deliveries -> Users \cup {None}]
      /\ positive \in [Ids -> {None} \cup [user : Users, expires : Nat]] /\ negative \in [Ids -> {None} \cup Nat]
  BY DEF IdentityInit
<1> QED
  BY <1>1, <1>2, <1>3, <1>4, <1>5 DEF IdentityTypeOK, Places

(* What the shared parts of the handlers do to the types.                     *)
LookupType ==
    /\ pc \in [Deliveries -> Places] /\ now_s \in [Deliveries -> 0..MaxNow]
    /\ found \in [Deliveries -> Users \cup {None}] /\ answer \in [Deliveries -> Answers \cup {None}]
BindingType == db \in [Ids -> Users \cup {None}] /\ changed \in [Ids -> 0..MaxNow]
CacheType ==
    /\ positive \in [Ids -> {None} \cup [user : Users, expires : Nat]]
    /\ negative \in [Ids -> {None} \cup Nat] /\ raced \subseteq Ids
EditType == edit \in [Edits -> {"idle", "changed", "ok", "failed", "lost"}]
RestType ==
    /\ kind \in [Deliveries -> Kinds] /\ strict \subseteq {"telegram", "slack"}
    /\ rejected \in Nat /\ now \in 0..MaxNow /\ restarted \in BOOLEAN /\ faults \in 0..MaxFaults

LEMMA TypeParts == IdentityTypeOK <=> LookupType /\ BindingType /\ CacheType /\ EditType /\ RestType
BY DEF IdentityTypeOK, LookupType, BindingType, CacheType, EditType, RestType, Places

LEMMA TypePartsPrime == IdentityTypeOK' <=> LookupType' /\ BindingType' /\ CacheType' /\ EditType' /\ RestType'
BY DEF IdentityTypeOK, LookupType, BindingType, CacheType, EditType, RestType, Places

LEMMA AnswerType ==
    ASSUME LookupType, NEW w \in Deliveries, NEW what \in Answers, Answer(w, what) PROVE LookupType'
BY DEF LookupType, Answer, Goto, Places

LEMMA GoOnType ==
    ASSUME LookupType, NEW w \in Deliveries, NEW where \in Places, GoOn(w, where) PROVE LookupType'
BY DEF LookupType, GoOn, Goto

LEMMA BindType ==
    ASSUME BindingType, RestType, NEW i \in Ids, NEW user \in Users \cup {None}, Bind(i, user) PROVE BindingType'
BY DEF BindingType, RestType, Bind

LEMMA ForgetType == ASSUME CacheType, NEW i \in Ids, Forget(i) PROVE CacheType'
BY DEF CacheType, Forget

LEMMA CountType == ASSUME RestType, Fail \/ NoFault PROVE faults' \in 0..MaxFaults
BY DEF RestType, Fail, NoFault

LEMMA TypeReceive ==
    ASSUME IdentityTypeOK, NEW w \in Deliveries, Receive(w) PROVE IdentityTypeOK'
<1>1. LookupType /\ BindingType /\ CacheType /\ EditType /\ RestType
  BY TypeParts
<1>2. LookupType'
  <2>1. (\E r \in {"forbidden", "failed"} : Answer(w, r)) \/ GoOn(w, "canonicalize") \/ GoOn(w, "dedupe")
    BY DEF Receive
  <2> QED
    BY <1>1, <2>1, AnswerType, GoOnType DEF Answers, Places
<1>3. RestType'
  BY <1>1, CountType DEF Receive, RestType
<1>4. BindingType' /\ CacheType' /\ EditType'
  BY <1>1 DEF Receive, BindingType, CacheType, EditType, stored, cache
<1> QED
  BY <1>2, <1>3, <1>4, TypePartsPrime

LEMMA TypeDedupe ==
    ASSUME IdentityTypeOK, NEW w \in Deliveries, Dedupe(w) PROVE IdentityTypeOK'
<1>1. LookupType /\ BindingType /\ CacheType /\ EditType /\ RestType
  BY TypeParts
<1>2. LookupType'
  <2>1. \/ \E r \in {"failed", "duplicate", "unauthorized"} : Answer(w, r)
        \/ GoOn(w, "bind") \/ GoOn(w, "canonicalize")
    BY DEF Dedupe
  <2> QED
    BY <1>1, <2>1, AnswerType, GoOnType DEF Answers, Places
<1>3. RestType'
  BY <1>1, CountType DEF Dedupe, RestType
<1>4. BindingType' /\ CacheType' /\ EditType'
  BY <1>1 DEF Dedupe, BindingType, CacheType, EditType, cache
<1> QED
  BY <1>2, <1>3, <1>4, TypePartsPrime

LEMMA TypeBindOwn ==
    ASSUME IdentityTypeOK, NEW w \in Deliveries, BindOwn(w) PROVE IdentityTypeOK'
<1>1. LookupType /\ BindingType /\ CacheType /\ EditType /\ RestType
  BY TypeParts
<1>2. LookupType'
  BY <1>1, GoOnType DEF BindOwn, Places
<1>3. BindingType'
  <2>1. Bind(IdOf[w], UserOf[w]) \/ UNCHANGED <<db, changed>>
    BY DEF BindOwn
  <2>2. IdOf[w] \in Ids /\ UserOf[w] \in Users \cup {None}
    OBVIOUS
  <2>3. CASE UNCHANGED <<db, changed>>
    BY <1>1, <2>3 DEF BindingType
  <2> QED
    BY <1>1, <2>1, <2>2, <2>3, BindType
<1>4. RestType'
  BY <1>1, CountType DEF BindOwn, RestType
<1>5. CacheType' /\ EditType'
  BY <1>1 DEF BindOwn, CacheType, EditType, cache
<1> QED
  BY <1>2, <1>3, <1>4, <1>5, TypePartsPrime

LEMMA TypeInvalidateOwn ==
    ASSUME IdentityTypeOK, NEW w \in Deliveries, InvalidateOwn(w) PROVE IdentityTypeOK'
<1>1. LookupType /\ BindingType /\ CacheType /\ EditType /\ RestType
  BY TypeParts
<1>2. LookupType'
  BY <1>1, GoOnType DEF InvalidateOwn, Places
<1>3. CacheType'
  <2>1. IdOf[w] \in Ids /\ Forget(IdOf[w])
    BY DEF InvalidateOwn
  <2> QED
    BY <1>1, <2>1, ForgetType
<1>4. BindingType' /\ EditType' /\ RestType'
  BY <1>1 DEF InvalidateOwn, BindingType, EditType, RestType, stored
<1> QED
  BY <1>2, <1>3, <1>4, TypePartsPrime

LEMMA TypeReadClock ==
    ASSUME IdentityTypeOK, NEW w \in Deliveries, ReadClock(w) PROVE IdentityTypeOK'
<1>1. LookupType /\ BindingType /\ CacheType /\ EditType /\ RestType
  BY TypeParts
<1>2. LookupType'
  BY <1>1 DEF ReadClock, LookupType, RestType, Goto, Places
<1>3. BindingType' /\ CacheType' /\ EditType' /\ RestType'
  BY <1>1 DEF ReadClock, BindingType, CacheType, EditType, RestType, stored, cache
<1> QED
  BY <1>2, <1>3, TypePartsPrime

LEMMA TypeLookInCache ==
    ASSUME IdentityTypeOK, NEW w \in Deliveries, LookInCache(w) PROVE IdentityTypeOK'
<1>1. LookupType /\ BindingType /\ CacheType /\ EditType /\ RestType
  BY TypeParts
<1>2. CacheType'
  BY <1>1 DEF LookInCache, CacheType, PurgedPositive, PurgedNegative
<1>3. LookupType'
  <2>1. IdOf[w] \in Ids
    OBVIOUS
  <2>2. positive'[IdOf[w]] # None => positive'[IdOf[w]].user \in Users
    BY <1>2, <2>1 DEF CacheType
  <2>3. found' \in [Deliveries -> Users \cup {None}]
    BY <1>1, <2>2 DEF LookupType, LookInCache
  <2>4. pc' \in [Deliveries -> Places]
    BY <1>1 DEF LookupType, LookInCache, Goto, Places
  <2> QED
    BY <1>1, <2>3, <2>4 DEF LookupType, LookInCache
<1>4. BindingType' /\ EditType' /\ RestType'
  BY <1>1 DEF LookInCache, BindingType, EditType, RestType, stored
<1> QED
  BY <1>2, <1>3, <1>4, TypePartsPrime

LEMMA TypeQuery ==
    ASSUME IdentityTypeOK, NEW w \in Deliveries, Query(w) PROVE IdentityTypeOK'
<1>1. LookupType /\ BindingType /\ CacheType /\ EditType /\ RestType
  BY TypeParts
<1>2. LookupType'
  <2>1. CASE Answer(w, "failed")
    BY <1>1, <2>1, AnswerType DEF Answers
  <2>2. CASE Goto(w, "store") /\ found' = [found EXCEPT ![w] = db[IdOf[w]]] /\ UNCHANGED <<now_s, answer>>
    BY <1>1, <2>2 DEF LookupType, BindingType, Goto, Places
  <2> QED
    BY <2>1, <2>2 DEF Query
<1>3. RestType'
  BY <1>1, CountType DEF Query, RestType
<1>4. BindingType' /\ CacheType' /\ EditType'
  BY <1>1 DEF Query, BindingType, CacheType, EditType, stored, cache
<1> QED
  BY <1>2, <1>3, <1>4, TypePartsPrime

LEMMA TypeStore ==
    ASSUME IdentityTypeOK, NEW w \in Deliveries, Store(w) PROVE IdentityTypeOK'
<1>1. LookupType /\ BindingType /\ CacheType /\ EditType /\ RestType
  BY TypeParts
<1>2. CacheType'
  <2>1. IdOf[w] \in Ids
    OBVIOUS
  <2>2. Expiry(w, PositiveTtl) \in Nat /\ Expiry(w, NegativeTtl) \in Nat
    BY <1>1 DEF LookupType, Expiry
  <2>3. found[w] # None => Positive(found[w], Expiry(w, PositiveTtl)) \in [user : Users, expires : Nat]
    BY <1>1, <2>2 DEF LookupType, Positive
  <2>4. positive' \in [Ids -> {None} \cup [user : Users, expires : Nat]]
    BY <1>1, <2>1, <2>3 DEF CacheType, Store
  <2>5. negative' \in [Ids -> {None} \cup Nat] /\ raced' \subseteq Ids
    BY <1>1, <2>1, <2>2 DEF CacheType, Store
  <2> QED
    BY <2>4, <2>5 DEF CacheType
<1>3. LookupType'
  BY <1>1, GoOnType DEF Store, Places
<1>4. BindingType' /\ EditType' /\ RestType'
  BY <1>1 DEF Store, BindingType, EditType, RestType, stored
<1> QED
  BY <1>2, <1>3, <1>4, TypePartsPrime

LEMMA TypeDecide ==
    ASSUME IdentityTypeOK, NEW w \in Deliveries, Decide(w) PROVE IdentityTypeOK'
<1>1. LookupType /\ BindingType /\ CacheType /\ EditType /\ RestType
  BY TypeParts
<1>2. LookupType'
  <2>1. GoOn(w, "refusing") \/ GoOn(w, "turn")
    BY DEF Decide
  <2> QED
    BY <1>1, <2>1, GoOnType DEF Places
<1>3. RestType'
  BY <1>1 DEF Decide, Counted, RestType
<1>4. BindingType' /\ CacheType' /\ EditType'
  BY <1>1 DEF Decide, BindingType, CacheType, EditType, stored, cache
<1> QED
  BY <1>2, <1>3, <1>4, TypePartsPrime

LEMMA TypeReply ==
    ASSUME IdentityTypeOK, NEW w \in Deliveries, Reply(w) PROVE IdentityTypeOK'
<1>1. LookupType /\ BindingType /\ CacheType /\ EditType /\ RestType
  BY TypeParts
<1>2. LookupType'
  <2>1. \E r \in {"strict_reject", "ok", "failed"} : Answer(w, r)
    BY DEF Reply
  <2> QED
    BY <1>1, <2>1, AnswerType DEF Answers
<1>3. RestType'
  BY <1>1, CountType DEF Reply, RestType
<1>4. BindingType' /\ CacheType' /\ EditType'
  BY <1>1 DEF Reply, BindingType, CacheType, EditType, stored, cache
<1> QED
  BY <1>2, <1>3, <1>4, TypePartsPrime

LEMMA TypeEdit ==
    ASSUME IdentityTypeOK, NEW e \in Edits, ChangeBinding(e) \/ Invalidate(e) PROVE IdentityTypeOK'
<1>1. LookupType /\ BindingType /\ CacheType /\ EditType /\ RestType
  BY TypeParts
<1>2. EditOf[e].id \in Ids /\ EditOf[e].user \in Users
  OBVIOUS
<1>3. EditType' /\ LookupType'
  BY <1>1 DEF ChangeBinding, Invalidate, EditType, LookupType, lookup
<1>4. CASE ChangeBinding(e)
  <2>1. UNCHANGED <<db, changed>> \/ Bind(EditOf[e].id, EditOf[e].user) \/ Bind(EditOf[e].id, None)
    BY <1>4 DEF ChangeBinding
  <2>2. ASSUME UNCHANGED <<db, changed>> PROVE BindingType'
    BY <1>1, <2>2 DEF BindingType
  <2>3. BindingType'
    BY <1>1, <1>2, <2>1, <2>2, BindType
  <2>4. CacheType' /\ RestType'
    BY <1>1, <1>4, CountType DEF ChangeBinding, CacheType, RestType, cache
  <2> QED
    BY <1>3, <2>3, <2>4, TypePartsPrime
<1>5. CASE Invalidate(e)
  <2>1. ASSUME Forget(EditOf[e].id) PROVE CacheType'
    BY <1>1, <1>2, <2>1, ForgetType
  <2>2. ASSUME positive' = [i \in Ids |-> None], negative' = [i \in Ids |-> None], raced' = raced PROVE CacheType'
    BY <1>1, <2>2 DEF CacheType
  <2>3. CacheType'
    BY <1>5, <2>1, <2>2 DEF Invalidate
  <2>4. BindingType' /\ RestType'
    BY <1>1, <1>5 DEF Invalidate, BindingType, RestType, stored
  <2> QED
    BY <1>3, <2>3, <2>4, TypePartsPrime
<1> QED
  BY <1>4, <1>5

LEMMA TypeTick == ASSUME IdentityTypeOK, Tick PROVE IdentityTypeOK'
<1>1. LookupType /\ BindingType /\ CacheType /\ EditType /\ RestType
  BY TypeParts
<1>2. LookupType' /\ BindingType' /\ CacheType' /\ EditType' /\ RestType'
  BY <1>1 DEF Tick, LookupType, BindingType, CacheType, EditType, RestType, stored, cache, lookup
<1> QED
  BY <1>2, TypePartsPrime

LEMMA TypeRestart == ASSUME IdentityTypeOK, Restart PROVE IdentityTypeOK'
<1>1. LookupType /\ BindingType /\ CacheType /\ EditType /\ RestType
  BY TypeParts
<1>2. pc' \in [Deliveries -> Places] /\ answer' \in [Deliveries -> Answers \cup {None}]
  BY <1>1 DEF Restart, LookupType, Places, Answers
<1>3. now_s' \in [Deliveries -> 0..MaxNow] /\ found' \in [Deliveries -> Users \cup {None}]
  BY DEF Restart
<1>4. EditType' /\ BindingType'
  BY <1>1 DEF Restart, EditType, BindingType, stored
<1>5. CacheType' /\ RestType'
  BY <1>1, CountType DEF Restart, CacheType, RestType
<1> QED
  BY <1>2, <1>3, <1>4, <1>5, TypePartsPrime DEF LookupType

LEMMA TypeStutter == ASSUME IdentityTypeOK, UNCHANGED identityVars PROVE IdentityTypeOK'
<1>1. LookupType /\ BindingType /\ CacheType /\ EditType /\ RestType
  BY TypeParts
<1>2. LookupType' /\ BindingType' /\ CacheType' /\ EditType' /\ RestType'
  BY <1>1 DEF identityVars, LookupType, BindingType, CacheType, EditType, RestType, stored, cache, lookup
<1> QED
  BY <1>2, TypePartsPrime

LEMMA IdentityTypeStep == IdentityTypeOK /\ [IdentityStep]_identityVars => IdentityTypeOK'
BY TypeReceive, TypeDedupe, TypeBindOwn, TypeInvalidateOwn, TypeReadClock, TypeLookInCache, TypeQuery, TypeStore,
   TypeDecide, TypeReply, TypeEdit, TypeTick, TypeRestart, TypeStutter
   DEF IdentityStep, Webhook

(* Every variable of the inbound path keeps its type: the clock's bound, the  *)
(* lives in the cache and the users in it are those of the database.          *)
THEOREM IdentityTypeCorrect == IdentitySpec => []IdentityTypeOK
BY IdentityInitType, IdentityTypeStep, PTL DEF IdentitySpec

-----------------------------------------------------------------------------
(* The cache and the database.                                                *)

KeptOrDropped(i) == positive'[i] \in {None, positive[i]} /\ negative'[i] \in {None, negative[i]}

(* Only Store makes an entry; every other step keeps it or drops it.          *)
LEMMA CacheSteps ==
    ASSUME IdentityTypeOK, [IdentityStep]_identityVars, NEW i \in Ids,
           \A w \in Deliveries : Store(w) => IdOf[w] # i
    PROVE  KeptOrDropped(i)
<1> USE DEF IdentityTypeOK, KeptOrDropped, cache
<1>1. ASSUME NEW w \in Deliveries, Receive(w) \/ Dedupe(w) \/ BindOwn(w) \/ ReadClock(w) PROVE KeptOrDropped(i)
  BY <1>1 DEF Receive, Dedupe, BindOwn, ReadClock
<1>2. ASSUME NEW w \in Deliveries, Query(w) \/ Decide(w) \/ Reply(w) PROVE KeptOrDropped(i)
  BY <1>2 DEF Query, Decide, Reply
<1>3. ASSUME NEW w \in Deliveries, InvalidateOwn(w) PROVE KeptOrDropped(i)
  BY <1>3 DEF InvalidateOwn, Forget
<1>4. ASSUME NEW w \in Deliveries, LookInCache(w) PROVE KeptOrDropped(i)
  BY <1>4 DEF LookInCache, PurgedPositive, PurgedNegative
<1>5. ASSUME NEW w \in Deliveries, Store(w) PROVE KeptOrDropped(i)
  BY <1>5 DEF Store
<1>6. ASSUME NEW e \in Edits, ChangeBinding(e) \/ Invalidate(e) PROVE KeptOrDropped(i)
  BY <1>6 DEF ChangeBinding, Invalidate, Forget
<1>7. CASE Tick \/ Restart \/ UNCHANGED identityVars
  BY <1>7 DEF Tick, Restart, identityVars
<1> QED
  BY <1>1, <1>2, <1>3, <1>4, <1>5, <1>6, <1>7 DEF IdentityStep, Webhook

LEMMA StoreEntry ==
    ASSUME IdentityTypeOK, NEW w \in Deliveries, Store(w)
    PROVE  /\ positive'[IdOf[w]] = IF found[w] # None THEN Positive(found[w], now_s[w] + PositiveTtl) ELSE None
           /\ negative'[IdOf[w]] = IF found[w] = None THEN now_s[w] + NegativeTtl ELSE None
BY DEF IdentityTypeOK, Store, Expiry

LEMMA OneAnswerStep == IdentityTypeOK /\ OneAnswer /\ [IdentityStep]_identityVars => OneAnswer'
<1> SUFFICES ASSUME IdentityTypeOK, OneAnswer, [IdentityStep]_identityVars, NEW i \in Ids
             PROVE  positive'[i] = None \/ negative'[i] = None
  BY DEF OneAnswer
<1>1. CASE \E w \in Deliveries : Store(w) /\ IdOf[w] = i
  BY <1>1, StoreEntry
<1>2. CASE \A w \in Deliveries : Store(w) => IdOf[w] # i
  <2>1. KeptOrDropped(i)
    BY <1>2, CacheSteps
  <2> QED
    BY <2>1 DEF KeptOrDropped, OneAnswer
<1> QED
  BY <1>1, <1>2

(* The cache never holds both a mapped and an unmapped answer for one         *)
(* identity, whatever lookups, binding changes and restarts overlap.          *)
THEOREM CacheIsConsistent == IdentitySpec => []OneAnswer
<1>1. IdentityInit => OneAnswer
  BY DEF IdentityInit, OneAnswer
<1> QED
  BY <1>1, IdentityTypeCorrect, OneAnswerStep, PTL DEF IdentitySpec

-----------------------------------------------------------------------------
(* How stale an entry can be.                                                 *)

(* The strengthening: no time is in the future, no entry outlives a life that *)
(* began now, and what a lookup has found was true when it was asked, so that *)
(* if it no longer is, the binding changed after the lookup read the clock.   *)
NoFuture ==
    /\ \A w \in Deliveries : now_s[w] <= now
    /\ \A i \in Ids : changed[i] <= now
LivesBounded ==
    \A i \in Ids :
        /\ positive[i] # None => positive[i].expires <= now + PositiveTtl
        /\ negative[i] # None => negative[i] <= now + NegativeTtl
FoundWasTrue ==
    \A w \in Deliveries : pc[w] = "store" /\ found[w] # db[IdOf[w]] => now_s[w] <= changed[IdOf[w]]
StaleInv == IdentityTypeOK /\ NoFuture /\ LivesBounded /\ FoundWasTrue /\ StaleIsBounded

LEMMA ClockSteps ==
    ASSUME IdentityTypeOK, [IdentityStep]_identityVars
    PROVE  /\ now' \in {now, now + 1}
           /\ \A w \in Deliveries : now_s'[w] \in {0, now_s[w], now}
<1> USE DEF IdentityTypeOK, lookup
<1>1. ASSUME NEW v \in Deliveries, Receive(v) \/ Dedupe(v) \/ BindOwn(v) \/ InvalidateOwn(v)
      PROVE  now' = now /\ \A w \in Deliveries : now_s'[w] \in {0, now_s[w], now}
  BY <1>1 DEF Receive, Dedupe, BindOwn, InvalidateOwn, Answer, GoOn
<1>2. ASSUME NEW v \in Deliveries, ReadClock(v) \/ LookInCache(v)
      PROVE  now' = now /\ \A w \in Deliveries : now_s'[w] \in {0, now_s[w], now}
  BY <1>2 DEF ReadClock, LookInCache
<1>3. ASSUME NEW v \in Deliveries, Query(v) \/ Store(v) \/ Decide(v) \/ Reply(v)
      PROVE  now' = now /\ \A w \in Deliveries : now_s'[w] \in {0, now_s[w], now}
  BY <1>3 DEF Query, Store, Decide, Reply, Answer, GoOn
<1>4. ASSUME NEW e \in Edits, ChangeBinding(e) \/ Invalidate(e)
      PROVE  now' = now /\ \A w \in Deliveries : now_s'[w] \in {0, now_s[w], now}
  BY <1>4 DEF ChangeBinding, Invalidate
<1>5. CASE Tick \/ Restart \/ UNCHANGED identityVars
  BY <1>5 DEF Tick, Restart, identityVars
<1> QED
  BY <1>1, <1>2, <1>3, <1>4, <1>5 DEF IdentityStep, Webhook

LEMMA BindingSteps ==
    ASSUME IdentityTypeOK, [IdentityStep]_identityVars, NEW i \in Ids
    PROVE  (db'[i] = db[i] /\ changed'[i] = changed[i]) \/ (changed'[i] = now /\ now' = now /\ UNCHANGED cache)
<1> USE DEF IdentityTypeOK, stored
<1>1. ASSUME NEW v \in Deliveries, Receive(v) \/ Dedupe(v) \/ InvalidateOwn(v) \/ ReadClock(v) \/ LookInCache(v)
      PROVE  db' = db /\ changed' = changed
  BY <1>1 DEF Receive, Dedupe, InvalidateOwn, ReadClock, LookInCache
<1>2. ASSUME NEW v \in Deliveries, Query(v) \/ Store(v) \/ Decide(v) \/ Reply(v)
      PROVE  db' = db /\ changed' = changed
  BY <1>2 DEF Query, Store, Decide, Reply
<1>3. ASSUME NEW j, NEW user, Bind(j, user), UNCHANGED <<now, cache>>
      PROVE  (db'[i] = db[i] /\ changed'[i] = changed[i]) \/ (changed'[i] = now /\ now' = now /\ UNCHANGED cache)
  BY <1>3 DEF Bind
<1>4. ASSUME NEW v \in Deliveries, BindOwn(v)
      PROVE  (db' = db /\ changed' = changed) \/ (Bind(IdOf[v], UserOf[v]) /\ UNCHANGED <<now, cache>>)
  BY <1>4 DEF BindOwn
<1>5. ASSUME NEW e \in Edits, ChangeBinding(e)
      PROVE  \/ db' = db /\ changed' = changed
             \/ Bind(EditOf[e].id, EditOf[e].user) /\ UNCHANGED <<now, cache>>
             \/ Bind(EditOf[e].id, None) /\ UNCHANGED <<now, cache>>
  BY <1>5 DEF ChangeBinding
<1>6. CASE Tick \/ Restart \/ UNCHANGED identityVars \/ \E e \in Edits : Invalidate(e)
  BY <1>6 DEF Tick, Restart, identityVars, Invalidate
<1> QED
  BY <1>1, <1>2, <1>3, <1>4, <1>5, <1>6 DEF IdentityStep, Webhook

LEMMA FoundSteps ==
    ASSUME IdentityTypeOK, [IdentityStep]_identityVars, NEW w \in Deliveries, pc'[w] = "store"
    PROVE  \/ pc[w] = "store" /\ found'[w] = found[w] /\ now_s'[w] = now_s[w]
           \/ found'[w] = db[IdOf[w]] /\ db' = db
<1> USE DEF IdentityTypeOK, Goto, lookup
<1>1. ASSUME NEW v \in Deliveries, Receive(v) \/ Dedupe(v) \/ BindOwn(v) \/ InvalidateOwn(v)
      PROVE  pc[w] = "store" /\ found'[w] = found[w] /\ now_s'[w] = now_s[w]
  BY <1>1 DEF Receive, Dedupe, BindOwn, InvalidateOwn, Answer, GoOn
<1>2. ASSUME NEW v \in Deliveries, ReadClock(v) \/ LookInCache(v)
      PROVE  pc[w] = "store" /\ found'[w] = found[w] /\ now_s'[w] = now_s[w]
  BY <1>2 DEF ReadClock, LookInCache
<1>3. ASSUME NEW v \in Deliveries, Store(v) \/ Decide(v) \/ Reply(v)
      PROVE  pc[w] = "store" /\ found'[w] = found[w] /\ now_s'[w] = now_s[w]
  BY <1>3 DEF Store, Decide, Reply, Answer, GoOn
<1>4. ASSUME NEW v \in Deliveries, Query(v)
      PROVE  \/ pc[w] = "store" /\ found'[w] = found[w] /\ now_s'[w] = now_s[w]
             \/ found'[w] = db[IdOf[w]] /\ db' = db
  BY <1>4 DEF Query, Answer, stored
<1>5. CASE Tick \/ UNCHANGED identityVars \/ \E e \in Edits : ChangeBinding(e) \/ Invalidate(e)
  BY <1>5 DEF Tick, identityVars, ChangeBinding, Invalidate
<1>6. CASE Restart
  BY <1>6 DEF Restart
<1> QED
  BY <1>1, <1>2, <1>3, <1>4, <1>5, <1>6 DEF IdentityStep, Webhook

LEMMA NoFutureStep == IdentityTypeOK /\ NoFuture /\ [IdentityStep]_identityVars => NoFuture'
<1> SUFFICES ASSUME IdentityTypeOK, NoFuture, [IdentityStep]_identityVars PROVE NoFuture'
  OBVIOUS
<1>1. now \in Nat /\ \A w \in Deliveries : now_s[w] \in Nat
  BY DEF IdentityTypeOK
<1>2. \A w \in Deliveries : now_s'[w] <= now'
  BY <1>1, ClockSteps DEF NoFuture
<1>3. \A i \in Ids : changed[i] \in Nat
  BY DEF IdentityTypeOK
<1>4. ASSUME NEW i \in Ids PROVE changed'[i] <= now'
  BY <1>1, <1>3, ClockSteps, BindingSteps DEF NoFuture
<1> QED
  BY <1>2, <1>4 DEF NoFuture

LEMMA FoundWasTrueStep ==
    IdentityTypeOK /\ NoFuture /\ FoundWasTrue /\ [IdentityStep]_identityVars => FoundWasTrue'
<1> SUFFICES ASSUME IdentityTypeOK, NoFuture, FoundWasTrue, [IdentityStep]_identityVars, NEW w \in Deliveries,
                    pc'[w] = "store", found'[w] # db'[IdOf[w]]
             PROVE  now_s'[w] <= changed'[IdOf[w]]
  BY DEF FoundWasTrue
<1>1. pc[w] = "store" /\ found'[w] = found[w] /\ now_s'[w] = now_s[w]
  BY FoundSteps
<1>2. IdOf[w] \in Ids
  OBVIOUS
<1>3. now_s[w] <= now
  BY DEF NoFuture
<1> QED
  BY <1>1, <1>2, <1>3, BindingSteps DEF FoundWasTrue

(* A new entry is as old as its lookup.                                       *)
LEMMA EntryTimes ==
    ASSUME IdentityTypeOK, NoFuture, NEW i \in Ids, NEW w \in Deliveries, Store(w), IdOf[w] = i
    PROVE  /\ now' = now /\ now_s[w] \in Nat /\ now_s[w] <= now
           /\ positive'[i] # None => positive'[i].user = found[w] /\ positive'[i].expires = now_s[w] + PositiveTtl
           /\ negative'[i] # None => found[w] = None /\ negative'[i] = now_s[w] + NegativeTtl
<1>1. now' = now
  BY DEF Store
<1>2. now_s[w] \in Nat /\ now_s[w] <= now
  BY DEF IdentityTypeOK, NoFuture
<1>3. positive'[i] # None => positive'[i] = [user |-> found[w], expires |-> now_s[w] + PositiveTtl]
  BY StoreEntry DEF Positive
<1>4. negative'[i] # None => found[w] = None /\ negative'[i] = now_s[w] + NegativeTtl
  BY StoreEntry
<1> QED
  BY <1>1, <1>2, <1>3, <1>4

LEMMA EntryTypes ==
    ASSUME IdentityTypeOK, NEW i \in Ids
    PROVE  /\ positive[i] # None => positive[i].user \in Users /\ positive[i].expires \in Nat
           /\ negative[i] # None => negative[i] \in Nat
<1>1. positive[i] \in {None} \cup [user : Users, expires : Nat]
  BY DEF IdentityTypeOK
<1>2. negative[i] \in {None} \cup Nat
  BY DEF IdentityTypeOK
<1> QED
  BY <1>1, <1>2

LEMMA LivesBoundedStep ==
    IdentityTypeOK /\ NoFuture /\ LivesBounded /\ [IdentityStep]_identityVars => LivesBounded'
<1> SUFFICES ASSUME IdentityTypeOK, NoFuture, LivesBounded, [IdentityStep]_identityVars, NEW i \in Ids
             PROVE  /\ positive'[i] # None => positive'[i].expires <= now' + PositiveTtl
                    /\ negative'[i] # None => negative'[i] <= now' + NegativeTtl
  BY DEF LivesBounded
<1>1. now \in Nat /\ now' \in {now, now + 1}
  BY ClockSteps DEF IdentityTypeOK
<1>2. CASE \E w \in Deliveries : Store(w) /\ IdOf[w] = i
  <2>1. PICK w \in Deliveries : Store(w) /\ IdOf[w] = i
    BY <1>2
  <2>2. /\ now' = now /\ now_s[w] \in Nat /\ now_s[w] <= now
        /\ positive'[i] # None => positive'[i].expires = now_s[w] + PositiveTtl
        /\ negative'[i] # None => negative'[i] = now_s[w] + NegativeTtl
    BY <2>1, EntryTimes
  <2> QED
    BY <1>1, <2>2
<1>3. CASE \A w \in Deliveries : Store(w) => IdOf[w] # i
  <2>1. KeptOrDropped(i)
    BY <1>3, CacheSteps
  <2>2. /\ positive[i] # None => positive[i].expires <= now + PositiveTtl
        /\ negative[i] # None => negative[i] <= now + NegativeTtl
    BY DEF LivesBounded
  <2>5. /\ positive[i] # None => positive[i].expires \in Nat
        /\ negative[i] # None => negative[i] \in Nat
    BY EntryTypes
  <2>3. positive'[i] # None => positive'[i] = positive[i] /\ positive[i] # None
    BY <2>1 DEF KeptOrDropped
  <2>4. negative'[i] # None => negative'[i] = negative[i] /\ negative[i] # None
    BY <2>1 DEF KeptOrDropped
  <2> QED
    BY <1>1, <2>2, <2>3, <2>4, <2>5
<1> QED
  BY <1>2, <1>3

(* Of the steps that change no binding: only Store matters, and it stores     *)
(* what was true no earlier than the last change.                             *)
LEMMA StaleStep == StaleInv /\ [IdentityStep]_identityVars => StaleIsBounded'
<1> SUFFICES ASSUME StaleInv, [IdentityStep]_identityVars, NEW i \in Ids
             PROVE  /\ positive'[i] # None /\ positive'[i].user # db'[i]
                            => positive'[i].expires <= changed'[i] + PositiveTtl
                    /\ negative'[i] # None /\ db'[i] # None => negative'[i] <= changed'[i] + NegativeTtl
  BY DEF StaleIsBounded
<1>1. IdentityTypeOK /\ NoFuture /\ LivesBounded /\ FoundWasTrue /\ StaleIsBounded
  BY DEF StaleInv
<1>2. /\ positive[i] # None => positive[i].expires <= now + PositiveTtl
      /\ negative[i] # None => negative[i] <= now + NegativeTtl
  BY <1>1 DEF LivesBounded
<1>3. (db'[i] = db[i] /\ changed'[i] = changed[i]) \/ (changed'[i] = now /\ UNCHANGED cache)
  BY <1>1, BindingSteps
<1>4. CASE changed'[i] = now /\ UNCHANGED cache
  BY <1>2, <1>4 DEF cache
<1>5. CASE db'[i] = db[i] /\ changed'[i] = changed[i] /\ \E w \in Deliveries : Store(w) /\ IdOf[w] = i
  <2>1. PICK w \in Deliveries : Store(w) /\ IdOf[w] = i
    BY <1>5
  <2>2. pc[w] = "store"
    BY <2>1 DEF Store
  <2>3. found[w] # db[i] => now_s[w] <= changed[i]
    BY <1>1, <2>1, <2>2 DEF FoundWasTrue
  <2>4. /\ now_s[w] \in Nat
        /\ positive'[i] # None => positive'[i].user = found[w] /\ positive'[i].expires = now_s[w] + PositiveTtl
        /\ negative'[i] # None => found[w] = None /\ negative'[i] = now_s[w] + NegativeTtl
    BY <1>1, <2>1, EntryTimes
  <2>5. changed[i] \in Nat
    BY <1>1 DEF IdentityTypeOK
  <2>6. positive'[i] # None /\ positive'[i].user # db'[i] => positive'[i].expires <= changed'[i] + PositiveTtl
    <3> SUFFICES ASSUME positive'[i] # None, positive'[i].user # db'[i]
                 PROVE  positive'[i].expires <= changed'[i] + PositiveTtl
      OBVIOUS
    <3>1. positive'[i].user = found[w] /\ positive'[i].expires = now_s[w] + PositiveTtl
      BY <2>4
    <3>2. now_s[w] <= changed[i]
      BY <1>5, <2>3, <3>1
    <3> QED
      BY <1>5, <2>4, <2>5, <3>1, <3>2
  <2>7. negative'[i] # None /\ db'[i] # None => negative'[i] <= changed'[i] + NegativeTtl
    BY <1>5, <2>3, <2>4, <2>5
  <2> QED
    BY <2>6, <2>7
<1>6. CASE db'[i] = db[i] /\ changed'[i] = changed[i] /\ \A w \in Deliveries : Store(w) => IdOf[w] # i
  <2>1. KeptOrDropped(i)
    BY <1>1, <1>6, CacheSteps
  <2>2. positive'[i] # None => positive'[i] = positive[i] /\ positive[i] # None
    BY <2>1 DEF KeptOrDropped
  <2>3. negative'[i] # None => negative'[i] = negative[i] /\ negative[i] # None
    BY <2>1 DEF KeptOrDropped
  <2> QED
    BY <1>1, <1>6, <2>2, <2>3 DEF StaleIsBounded
<1> QED
  BY <1>3, <1>4, <1>5, <1>6

LEMMA StaleInit == IdentityInit => StaleInv
<1> SUFFICES ASSUME IdentityInit PROVE StaleInv
  OBVIOUS
<1>1. IdentityTypeOK
  BY IdentityInitType
<1>2. NoFuture /\ LivesBounded /\ FoundWasTrue /\ StaleIsBounded
  BY DEF IdentityInit, NoFuture, LivesBounded, FoundWasTrue, StaleIsBounded
<1> QED
  BY <1>1, <1>2 DEF StaleInv

LEMMA StaleInvStep == StaleInv /\ [IdentityStep]_identityVars => StaleInv'
BY IdentityTypeStep, NoFutureStep, LivesBoundedStep, FoundWasTrueStep, StaleStep DEF StaleInv

(* Whatever lookups, binding changes, failures and restarts overlap, a cached *)
(* answer that contradicts the database is gone at most one life after the    *)
(* binding changed.                                                           *)
THEOREM StalenessIsBounded == IdentitySpec => []StaleIsBounded
<1>1. StaleInv => StaleIsBounded
  BY DEF StaleInv
<1> QED
  BY <1>1, StaleInit, StaleInvStep, PTL DEF IdentitySpec

-----------------------------------------------------------------------------
(* Why an entry can be stale.                                                 *)

Justified(i) ==
    /\ positive[i] # None /\ positive[i].user # db[i] => ChangePending(i)
    /\ negative[i] # None /\ db[i] # None => ChangePending(i)

(* A step that makes no entry, changes no binding and ends no invalidation    *)
(* leaves nothing to explain.                                                 *)
LEMMA StillJustified ==
    ASSUME NEW i \in Ids, Justified(i), KeptOrDropped(i), db'[i] = db[i], ChangePending(i) => ChangePending(i)'
    PROVE  Justified(i)'
BY DEF Justified, KeptOrDropped

LEMMA PendingKept ==
    ASSUME NEW i \in Ids, ChangePending(i),
           \A e \in Edits : edit[e] = "changed" => edit'[e] = "changed",
           \A w \in Deliveries : pc[w] = "invalidate" => pc'[w] = "invalidate"
    PROVE  ChangePending(i)'
BY DEF ChangePending

LEMMA StaleOnlyByRaceStep == IdentityTypeOK /\ StaleOnlyByRace /\ [IdentityStep]_identityVars => StaleOnlyByRace'
<1> SUFFICES ASSUME IdentityTypeOK, StaleOnlyByRace, [IdentityStep]_identityVars, NEW i \in Ids, i \notin raced'
             PROVE  Justified(i)'
  BY DEF StaleOnlyByRace, Justified
<1>0. CASE Restart
  BY <1>0 DEF Restart, Justified
<1>a. i \notin raced => Justified(i)
  BY DEF StaleOnlyByRace, Justified
<1>b. (\A w \in Deliveries : ~Store(w)) => KeptOrDropped(i)
  BY CacheSteps
<1> USE DEF IdentityTypeOK, Goto, GoOn, Answer, stored, cache, lookup
<1>1. ASSUME NEW w \in Deliveries, Receive(w) \/ Dedupe(w) \/ ReadClock(w) \/ Query(w) \/ Decide(w) \/ Reply(w)
      PROVE  Justified(i)'
  <2>1. UNCHANGED <<db, edit, positive, negative, raced>>
    BY <1>1 DEF Receive, Dedupe, ReadClock, Query, Decide, Reply
  <2>2. \A v \in Deliveries : pc[v] = "invalidate" => pc'[v] = "invalidate"
    BY <1>1 DEF Receive, Dedupe, ReadClock, Query, Decide, Reply
  <2> QED
    BY <1>a, <2>1, <2>2, StillJustified, PendingKept DEF KeptOrDropped
<1>2. ASSUME NEW w \in Deliveries, BindOwn(w) PROVE Justified(i)'
  <2>1. UNCHANGED <<edit, positive, negative, raced>> /\ pc'[w] = "invalidate"
        /\ \A v \in Deliveries : pc[v] = "invalidate" => pc'[v] = "invalidate"
    BY <1>2 DEF BindOwn
  <2>2. CASE IdOf[w] = i
    BY <2>1, <2>2 DEF Justified, ChangePending
  <2>3. CASE IdOf[w] # i
    <3>1. db'[i] = db[i]
      BY <1>2, <2>3 DEF BindOwn, Bind
    <3> QED
      BY <1>a, <2>1, <3>1, StillJustified, PendingKept DEF KeptOrDropped
  <2> QED
    BY <2>2, <2>3
<1>3. ASSUME NEW w \in Deliveries, InvalidateOwn(w) PROVE Justified(i)'
  <2>1. CASE IdOf[w] = i
    BY <1>3, <2>1 DEF InvalidateOwn, Forget, Justified
  <2>2. CASE IdOf[w] # i
    <3>1. UNCHANGED <<db, edit, raced>> /\ positive'[i] = positive[i] /\ negative'[i] = negative[i]
      BY <1>3, <2>2 DEF InvalidateOwn, Forget
    <3>2. ChangePending(i) => ChangePending(i)'
      BY <1>3, <2>2, <3>1 DEF InvalidateOwn, ChangePending
    <3> QED
      BY <1>a, <3>1, <3>2, StillJustified DEF KeptOrDropped
  <2> QED
    BY <2>1, <2>2
<1>4. ASSUME NEW w \in Deliveries, LookInCache(w) PROVE Justified(i)'
  <2>1. UNCHANGED <<db, edit, raced>> /\ \A v \in Deliveries : pc[v] = "invalidate" => pc'[v] = "invalidate"
    BY <1>4 DEF LookInCache
  <2>2. KeptOrDropped(i)
    BY <1>4 DEF LookInCache, PurgedPositive, PurgedNegative, KeptOrDropped
  <2> QED
    BY <1>a, <2>1, <2>2, StillJustified, PendingKept
<1>5. ASSUME NEW w \in Deliveries, Store(w) PROVE Justified(i)'
  <2>1. UNCHANGED <<db, edit>> /\ \A v \in Deliveries : pc[v] = "invalidate" => pc'[v] = "invalidate"
    BY <1>5 DEF Store
  <2>2. CASE IdOf[w] = i
    <3>1. found[w] = db[i]
      BY <1>5, <2>2 DEF Store
    <3>2. positive'[i] # None => positive'[i] = [user |-> found[w], expires |-> now_s[w] + PositiveTtl]
      BY <1>5, <2>2, StoreEntry DEF Positive
    <3>3. negative'[i] # None => found[w] = None
      BY <1>5, <2>2, StoreEntry
    <3> QED
      BY <2>1, <3>1, <3>2, <3>3 DEF Justified
  <2>3. CASE IdOf[w] # i
    <3>1. i \notin raced /\ positive'[i] = positive[i] /\ negative'[i] = negative[i]
      BY <1>5, <2>3 DEF Store
    <3> QED
      BY <1>a, <2>1, <3>1, StillJustified, PendingKept DEF KeptOrDropped
  <2> QED
    BY <2>2, <2>3
<1>6. ASSUME NEW e \in Edits, ChangeBinding(e) PROVE Justified(i)'
  <2>1. UNCHANGED <<positive, negative, raced, pc>> /\ edit[e] = "idle"
        /\ \A d \in Edits : edit[d] = "changed" => edit'[d] = "changed"
    BY <1>6 DEF ChangeBinding
  <2>2. CASE db'[i] = db[i]
    BY <1>a, <2>1, <2>2, StillJustified, PendingKept DEF KeptOrDropped
  <2>3. CASE db'[i] # db[i]
    <3>1. edit'[e] = "changed" /\ EditOf[e].id = i
      BY <1>6, <2>3 DEF ChangeBinding, Bind
    <3> QED
      BY <3>1 DEF Justified, ChangePending
  <2> QED
    BY <2>2, <2>3
<1>7. ASSUME NEW e \in Edits, Invalidate(e) PROVE Justified(i)'
  <2>1. UNCHANGED <<db, raced, pc>>
    BY <1>7 DEF Invalidate, Forget
  <2>2. CASE EditOf[e].kind = "delete" \/ EditOf[e].id = i
    BY <1>7, <2>2 DEF Invalidate, Forget, Justified
  <2>3. CASE EditOf[e].kind # "delete" /\ EditOf[e].id # i
    <3>1. positive'[i] = positive[i] /\ negative'[i] = negative[i]
      BY <1>7, <2>3 DEF Invalidate, Forget
    <3>2. ChangePending(i) => ChangePending(i)'
      BY <1>7, <2>1, <2>3 DEF Invalidate, ChangePending
    <3> QED
      BY <1>a, <2>1, <3>1, <3>2, StillJustified DEF KeptOrDropped
  <2> QED
    BY <2>2, <2>3
<1>8. CASE Tick \/ UNCHANGED identityVars
  <2>1. UNCHANGED <<db, edit, positive, negative, raced, pc>>
    BY <1>8 DEF Tick, identityVars
  <2> QED
    BY <1>a, <2>1, StillJustified, PendingKept DEF KeptOrDropped
<1> QED
  BY <1>0, <1>1, <1>2, <1>3, <1>4, <1>5, <1>6, <1>7, <1>8 DEF IdentityStep, Webhook

(* An entry that disagrees with the database is about to be dropped by the    *)
(* change that made it stale, or was stored by a lookup that the change       *)
(* overtook; no other interleaving leaves one, for any number of each.        *)
THEOREM StalenessIsARace == IdentitySpec => []StaleOnlyByRace
<1>1. IdentityInit => StaleOnlyByRace
  BY DEF IdentityInit, StaleOnlyByRace
<1> QED
  BY <1>1, IdentityTypeCorrect, StaleOnlyByRaceStep, PTL DEF IdentitySpec

-----------------------------------------------------------------------------
(* Repeated updates.                                                          *)

(* What is worked on was recorded.                                            *)
Recorded == \A w \in Deliveries : kind[w] # "slack" /\ Worked(w) => Update(w) \in updates
OnceInv == Recorded /\ ProcessedAtMostOnce

(* Only Telegram's deduplication lets a delivery of Telegram pass.            *)
LEMMA WorkedSteps ==
    ASSUME IdentityTypeOK, [IdentityStep]_identityVars
    PROVE  /\ kind' = kind /\ updates \subseteq updates'
           /\ \A w \in Deliveries : kind[w] # "slack" /\ Worked(w)' /\ ~Worked(w)
                    => Update(w) \notin updates /\ Update(w) \in updates'
           /\ \A v, w \in Deliveries : Worked(v)' /\ ~Worked(v) /\ Worked(w)' /\ ~Worked(w) => v = w
<1> USE DEF IdentityTypeOK, Goto, GoOn, Answer, stored, lookup, Worked
<1>1. ASSUME NEW v \in Deliveries, Receive(v)
      PROVE  /\ UNCHANGED <<kind, updates>>
             /\ \A w \in Deliveries : Worked(w)' /\ ~Worked(w) => w = v /\ kind[w] = "slack"
  BY <1>1 DEF Receive
<1>2. ASSUME NEW v \in Deliveries, Dedupe(v)
      PROVE  /\ kind' = kind /\ updates \subseteq updates'
             /\ \A w \in Deliveries : Worked(w)' /\ ~Worked(w)
                    => w = v /\ Update(w) \notin updates /\ Update(w) \in updates'
  BY <1>2 DEF Dedupe, Seen
<1>3. ASSUME NEW v \in Deliveries, BindOwn(v) \/ InvalidateOwn(v) \/ ReadClock(v) \/ LookInCache(v)
      PROVE  UNCHANGED <<kind, updates>> /\ \A w \in Deliveries : Worked(w)' => Worked(w)
  BY <1>3 DEF BindOwn, InvalidateOwn, ReadClock, LookInCache
<1>4. ASSUME NEW v \in Deliveries, Query(v) \/ Store(v) \/ Decide(v) \/ Reply(v)
      PROVE  UNCHANGED <<kind, updates>> /\ \A w \in Deliveries : Worked(w)' => Worked(w)
  BY <1>4 DEF Query, Store, Decide, Reply
<1>5. CASE Restart
  <2>1. UNCHANGED <<kind, updates>> /\ \A w \in Deliveries : Worked(w)' => Worked(w)
    BY <1>5 DEF Restart
  <2> QED
    BY <2>1
<1>6. CASE Tick \/ UNCHANGED identityVars \/ \E e \in Edits : ChangeBinding(e) \/ Invalidate(e)
  BY <1>6 DEF Tick, identityVars, ChangeBinding, Invalidate
<1> QED
  BY <1>1, <1>2, <1>3, <1>4, <1>5, <1>6 DEF IdentityStep, Webhook

LEMMA OnceStep == IdentityTypeOK /\ OnceInv /\ [IdentityStep]_identityVars => OnceInv'
<1> SUFFICES ASSUME IdentityTypeOK, OnceInv, [IdentityStep]_identityVars PROVE OnceInv'
  OBVIOUS
<1>1. Recorded'
  BY WorkedSteps DEF OnceInv, Recorded, Update
<1>2. ASSUME NEW v \in Deliveries, NEW w \in Deliveries, v # w, kind[v] # "slack", kind[w] # "slack",
             Update(v) = Update(w), Worked(v)', Worked(w)'
      PROVE  FALSE
  BY <1>2, WorkedSteps DEF OnceInv, Recorded, ProcessedAtMostOnce
<1> QED
  BY <1>1, <1>2, WorkedSteps DEF OnceInv, ProcessedAtMostOnce, Update

LEMMA OnceInit == IdentityInit => OnceInv
<1>1. None # "ok" /\ None # "strict_reject"
  BY NoneAnswerAssumption DEF Answers
<1>2. ASSUME IdentityInit, NEW w \in Deliveries PROVE ~Worked(w)
  BY <1>1, <1>2 DEF IdentityInit, Worked
<1> QED
  BY <1>2 DEF OnceInv, Recorded, ProcessedAtMostOnce

(* However many times Telegram delivers an update, at whatever distance and   *)
(* across restarts, one delivery of it at most gets past the record.          *)
THEOREM UpdatesOnce == IdentitySpec => []ProcessedAtMostOnce
<1>1. OnceInv => ProcessedAtMostOnce
  BY DEF OnceInv
<1> QED
  BY <1>1, OnceInit, IdentityTypeCorrect, OnceStep, PTL DEF IdentitySpec
=============================================================================
