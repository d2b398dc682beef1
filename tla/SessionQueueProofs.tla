-------------------------- MODULE SessionQueueProofs --------------------------
(* What the queue of one session guarantees for every number of turns and of  *)
(* cancels, every queue setting and every order of their steps.               *)
EXTENDS SessionQueue, FiniteSetTheorems, TLAPS

(* The turns between tryLock or lock and the deferred unlock.                 *)
Inside(t) == pc[t] \in {"acquired", "admitted", "refreshed", "prefixed", "running", "iterating",
                        "answered", "leaving", "unlocking"}
MutualExclusion == \A t \in Turns : Inside(t) <=> holder = t

(* A turn is registered from queueRegisterWaiter to queueUnregisterWaiter.    *)
Unqueued(t) == pc[t] \in {"new", "pinned", "busy", "registering", "unlocking", "releasing", "done"}
RegisteredInQueue == \A t \in Turns : Unqueued(t) => seq[t] = 0

QueueInv == TypeOK /\ RegisteredInQueue /\ WaitersCounted /\ SequencesDistinct

(* The cancels that had returned before a turn was called do not come back,   *)
(* and none of them is behind the token while the turn looks at it.           *)
PastIsOver == \A t \in Turns : past[t] \subseteq {c \in Cancels : cpc[c] = "done"}
TokenIsFresh == \A t \in Turns : pc[t] \in {"running", "iterating"} => token \notin past[t]
NotKilledYet == \A t \in Turns : pc[t] = "new" => killer[t] = None

CancelInv == PastIsOver /\ TokenIsFresh /\ NotKilledYet /\ NoStaleCancel

(* The notice the running turn has taken and not yet given to its agent.      *)
Carried == IF holder # None /\ pc[holder] = "prefixed" THEN note[holder] ELSE 0
SummarizedAreGone == \A t \in Turns : fate[t] = "summarize" => pc[t] \in {"releasing", "done"}
NoticesCounted == announced + queue_summarize_pending_count + Carried <= Cardinality(Summarized)

NoticeInv == MutualExclusion /\ SummarizedAreGone /\ NoticesCounted

-----------------------------------------------------------------------------

(* Init is well typed.                                                        *)
LEMMA InitType == Init => TypeOK
<1> SUFFICES ASSUME Init PROVE TypeOK
  OBVIOUS
<1>1. msg \in [Turns -> {"chat", "reset", "queue"}]
  BY MessagesAssumption DEF Init
<1>2. settings \in SettingsType
  BY SettingsAssumption DEF Init
<1>3. arrivals \in Seq(Arrival)
  BY DEF Init
<1>4. QED
  BY <1>1, <1>2, <1>3 DEF Init, TypeOK, queue, Places, Fates

(* Every step keeps the types.                                                *)
LEMMA NextType == TypeOK /\ [Next]_vars => TypeOK'
<1> SUFFICES ASSUME TypeOK, [Next]_vars PROVE TypeOK'
  OBVIOUS
<1> USE DEF TypeOK, SettingsType, Modes, Drops, Goto, turn, queue, agent, ghosts
<1>1. ASSUME NEW t \in Turns, acquireSessionForTurn(t) PROVE TypeOK'
  BY <1>1 DEF acquireSessionForTurn, Places, Fates
<1>2. ASSUME NEW t \in Turns, tryLock(t) PROVE TypeOK'
  BY <1>2 DEF tryLock, Places, Fates
<1>3. ASSUME NEW t \in Turns, ReadMode(t) PROVE TypeOK'
  BY <1>3 DEF ReadMode, Places, Fates
<1>4. ASSUME NEW t \in Turns, queueRegisterWaiter(t) PROVE TypeOK'
  <2> USE <1>4 DEF queueRegisterWaiter, NewestLeaves, DropBefore
  <2>1. settings.drop \in Drops /\ settings.cap \in Nat
    OBVIOUS
  <2>2. pc' \in [Turns -> Places]
    BY DEF Places
  <2>3. /\ queue_waiting' \in Nat /\ queue_sequence' \in Nat /\ queue_latest_sequence' \in Nat
        /\ queue_summarize_pending_count' \in Nat
    OBVIOUS
  <2>8. queue_drop_oldest_before_sequence' \in Nat
    BY <2>1
  <2>4. seq' \in [Turns -> Nat]
    OBVIOUS
  <2>5. fate' \in [Turns -> Fates]
    BY <2>1 DEF Fates
  <2>6. arrivals' \in Seq(Arrival)
    BY DEF Arrival
  <2>7. QED
    BY <2>2, <2>3, <2>4, <2>5, <2>6, <2>8
<1>5. ASSUME NEW t \in Turns, lock(t) PROVE TypeOK'
  BY <1>5 DEF lock, Places, Fates
<1>6. ASSUME NEW t \in Turns, queueDropAfterAcquire(t) PROVE TypeOK'
  <2>1. fate' \in [Turns -> Fates]
    BY <1>6 DEF queueDropAfterAcquire, End, Fates
  <2>2. pc' = [pc EXCEPT ![t] = "leaving"] \/ pc' = [pc EXCEPT ![t] = "admitted"]
    BY <1>6 DEF queueDropAfterAcquire, DropExit
  <2>3. pc' \in [Turns -> Places]
    BY <2>2 DEF Places
  <2>4. QED
    BY <1>6, <2>1, <2>3 DEF queueDropAfterAcquire
<1>7. ASSUME NEW t \in Turns, recycleSessionInPlace(t) PROVE TypeOK'
  BY <1>7, SettingsAssumption DEF recycleSessionInPlace, SequenceAfterRecycle, Places
<1>8. ASSUME NEW t \in Turns, KeepAgent(t) PROVE TypeOK'
  BY <1>8 DEF KeepAgent, Places, Fates
<1>9. ASSUME NEW t \in Turns, takeQueueSummaryPrefix(t) PROVE TypeOK'
  BY <1>9 DEF takeQueueSummaryPrefix, Taken, Places, Fates
<1>10. ASSUME NEW t \in Turns, activationBlocked(t) PROVE TypeOK'
  BY <1>10 DEF activationBlocked, End, Places, Fates
<1>11. ASSUME NEW t \in Turns, turnOutcome(t) PROVE TypeOK'
  BY <1>11 DEF turnOutcome, FreshToken, Places, Fates
<1>12. ASSUME NEW t \in Turns, handleSlashCommand(t) PROVE TypeOK'
  <2>1. settings' \in SettingsType
    BY <1>12, SettingsAssumption DEF handleSlashCommand, ResetSettings
  <2>2. history' \subseteq Turns
    BY <1>12 DEF handleSlashCommand, ClearedHistory
  <2>3. QED
    BY <1>12, <2>1, <2>2 DEF handleSlashCommand, End, Places, Fates
<1>13. ASSUME NEW t \in Turns, Iteration(t) PROVE TypeOK'
  <2>1. fate' \in [Turns -> Fates]
    BY <1>13 DEF Iteration, End, Fates
  <2>2. killer' \in [Turns -> Cancels \cup {None}]
    BY <1>13 DEF Iteration
  <2>3. QED
    BY <1>13, <2>1, <2>2 DEF Iteration, Places
<1>14. ASSUME NEW t \in Turns, NextIteration(t) PROVE TypeOK'
  BY <1>14 DEF NextIteration, Places, Fates
<1>15. ASSUME NEW t \in Turns, Answer(t) PROVE TypeOK'
  BY <1>15 DEF Answer, End, Places, Fates
<1>16. ASSUME NEW t \in Turns, Fail(t) PROVE TypeOK'
  BY <1>16 DEF Fail, End, Places, Fates
<1>17. ASSUME NEW t \in Turns, PersistMessages(t) PROVE TypeOK'
  <2>1. transcript' \subseteq Turns
    BY <1>17 DEF PersistMessages, Persisted
  <2>2. QED
    BY <1>17, <2>1 DEF PersistMessages, Places
<1>18. ASSUME NEW t \in Turns, queueUnregisterWaiter(t) PROVE TypeOK'
  BY <1>18 DEF queueUnregisterWaiter, Places, Fates
<1>19. ASSUME NEW t \in Turns, unlock(t) PROVE TypeOK'
  BY <1>19 DEF unlock, Places, Fates
<1>20. ASSUME NEW t \in Turns, releaseSessionRef(t) PROVE TypeOK'
  BY <1>20 DEF releaseSessionRef, Places, Fates
<1>21. ASSUME NEW c \in Cancels, CancelPin(c) PROVE TypeOK'
  BY <1>21 DEF CancelPin, Places, Fates
<1>22. ASSUME NEW c \in Cancels, CancelSignal(c) PROVE TypeOK'
  BY <1>22 DEF CancelSignal, Places, Fates
<1>23. ASSUME NEW c \in Cancels, CancelUnpin(c) PROVE TypeOK'
  BY <1>23 DEF CancelUnpin, Places, Fates
<1>24. CASE UNCHANGED vars
  BY <1>24 DEF vars
<1>25. QED
  BY <1>1, <1>2, <1>3, <1>4, <1>5, <1>6, <1>7, <1>8, <1>9, <1>10, <1>11, <1>12, <1>13, <1>14,
     <1>15, <1>16, <1>17, <1>18, <1>19, <1>20, <1>21, <1>22, <1>23, <1>24 DEF Next, TurnStep

(* Type correctness of the session's queue and of its turns.                  *)
THEOREM TypeCorrect == Spec => []TypeOK
  BY InitType, NextType, PTL DEF Spec

-----------------------------------------------------------------------------
(* The waiters and their sequences.                                           *)

(* Every step keeps a turn outside the queue unregistered.                    *)
LEMMA NextRegistered == TypeOK /\ RegisteredInQueue /\ [Next]_vars => RegisteredInQueue'
<1> SUFFICES ASSUME TypeOK, RegisteredInQueue, [Next]_vars PROVE RegisteredInQueue'
  OBVIOUS
<1> USE DEF TypeOK, RegisteredInQueue, Unqueued, Goto, turn, queue, agent, ghosts
<1>1. ASSUME NEW t \in Turns, acquireSessionForTurn(t) PROVE RegisteredInQueue'
  BY <1>1 DEF acquireSessionForTurn
<1>2. ASSUME NEW t \in Turns, tryLock(t) PROVE RegisteredInQueue'
  BY <1>2 DEF tryLock
<1>3. ASSUME NEW t \in Turns, ReadMode(t) PROVE RegisteredInQueue'
  BY <1>3 DEF ReadMode
<1>4. ASSUME NEW t \in Turns, queueRegisterWaiter(t) PROVE RegisteredInQueue'
  BY <1>4 DEF queueRegisterWaiter, NewestLeaves, DropBefore, End
<1>5. ASSUME NEW t \in Turns, lock(t) PROVE RegisteredInQueue'
  BY <1>5 DEF lock
<1>6. ASSUME NEW t \in Turns, queueDropAfterAcquire(t) PROVE RegisteredInQueue'
  BY <1>6 DEF queueDropAfterAcquire, Superseded, TooOld, End, DropExit
<1>7. ASSUME NEW t \in Turns, recycleSessionInPlace(t) PROVE RegisteredInQueue'
  BY <1>7 DEF recycleSessionInPlace, SequenceAfterRecycle
<1>8. ASSUME NEW t \in Turns, KeepAgent(t) PROVE RegisteredInQueue'
  BY <1>8 DEF KeepAgent
<1>9. ASSUME NEW t \in Turns, takeQueueSummaryPrefix(t) PROVE RegisteredInQueue'
  BY <1>9 DEF takeQueueSummaryPrefix, Taken
<1>10. ASSUME NEW t \in Turns, activationBlocked(t) PROVE RegisteredInQueue'
  BY <1>10 DEF activationBlocked, End
<1>11. ASSUME NEW t \in Turns, turnOutcome(t) PROVE RegisteredInQueue'
  BY <1>11 DEF turnOutcome, FreshToken
<1>12. ASSUME NEW t \in Turns, handleSlashCommand(t) PROVE RegisteredInQueue'
  BY <1>12 DEF handleSlashCommand, IsCommand, ClearedHistory, ResetSettings, End
<1>13. ASSUME NEW t \in Turns, Iteration(t) PROVE RegisteredInQueue'
  BY <1>13 DEF Iteration, IsCommand, End
<1>14. ASSUME NEW t \in Turns, NextIteration(t) PROVE RegisteredInQueue'
  BY <1>14 DEF NextIteration
<1>15. ASSUME NEW t \in Turns, Answer(t) PROVE RegisteredInQueue'
  BY <1>15 DEF Answer, End
<1>16. ASSUME NEW t \in Turns, Fail(t) PROVE RegisteredInQueue'
  BY <1>16 DEF Fail, End
<1>17. ASSUME NEW t \in Turns, PersistMessages(t) PROVE RegisteredInQueue'
  BY <1>17 DEF PersistMessages, Persisted
<1>18. ASSUME NEW t \in Turns, queueUnregisterWaiter(t) PROVE RegisteredInQueue'
  BY <1>18 DEF queueUnregisterWaiter
<1>19. ASSUME NEW t \in Turns, unlock(t) PROVE RegisteredInQueue'
  BY <1>19 DEF unlock
<1>20. ASSUME NEW t \in Turns, releaseSessionRef(t) PROVE RegisteredInQueue'
  BY <1>20 DEF releaseSessionRef
<1>21. ASSUME NEW c \in Cancels, CancelPin(c) PROVE RegisteredInQueue'
  BY <1>21 DEF CancelPin
<1>22. ASSUME NEW c \in Cancels, CancelSignal(c) PROVE RegisteredInQueue'
  BY <1>22 DEF CancelSignal
<1>23. ASSUME NEW c \in Cancels, CancelUnpin(c) PROVE RegisteredInQueue'
  BY <1>23 DEF CancelUnpin
<1>24. CASE UNCHANGED vars
  BY <1>24 DEF vars
<1>25. QED
  BY <1>1, <1>2, <1>3, <1>4, <1>5, <1>6, <1>7, <1>8, <1>9, <1>10, <1>11, <1>12, <1>13, <1>14,
     <1>15, <1>16, <1>17, <1>18, <1>19, <1>20, <1>21, <1>22, <1>23, <1>24 DEF Next, TurnStep

(* The steps that touch what the count and the sequences are about.           *)
LEMMA QueueSteps ==
  [Next]_vars => \/ UNCHANGED <<seq, queue_waiting, queue_sequence>>
                 \/ \E t \in Turns : queueRegisterWaiter(t) \/ queueUnregisterWaiter(t) \/ recycleSessionInPlace(t)
<1> USE DEF turn, queue, agent, ghosts
<1>1. ASSUME NEW t \in Turns, TurnStep(t)
      PROVE  \/ UNCHANGED <<seq, queue_waiting, queue_sequence>>
             \/ queueRegisterWaiter(t) \/ queueUnregisterWaiter(t) \/ recycleSessionInPlace(t)
  BY <1>1 DEF TurnStep, acquireSessionForTurn, tryLock, ReadMode, lock, queueDropAfterAcquire,
     KeepAgent,
     takeQueueSummaryPrefix, activationBlocked, turnOutcome, handleSlashCommand, Iteration, NextIteration,
     Answer, Fail, PersistMessages, unlock, releaseSessionRef
<1>2. ASSUME NEW c \in Cancels, CancelPin(c) \/ CancelSignal(c) \/ CancelUnpin(c)
      PROVE  UNCHANGED <<seq, queue_waiting, queue_sequence>>
  BY <1>2 DEF CancelPin, CancelSignal, CancelUnpin
<1>3. CASE UNCHANGED vars
  BY <1>3 DEF vars
<1>4. QED
  BY <1>1, <1>2, <1>3 DEF Next

(* There are finitely many turns to count.                                    *)
LEMMA RegisteredFinite == IsFiniteSet(Registered) /\ IsFiniteSet(Registered')
<1>1. Registered \subseteq Turns /\ Registered' \subseteq Turns
  BY DEF Registered
<1>2. QED
  BY <1>1, TurnsFinite, FS_Subset

(* Every step keeps the count and the sequences right.                        *)
LEMMA NextQueue == QueueInv /\ [Next]_vars => QueueInv'
<1> SUFFICES ASSUME QueueInv, [Next]_vars PROVE QueueInv'
  OBVIOUS
<1>0. TypeOK /\ TypeOK' /\ RegisteredInQueue /\ RegisteredInQueue' /\ WaitersCounted /\ SequencesDistinct
  BY NextType, NextRegistered DEF QueueInv
<1> SUFFICES WaitersCounted' /\ SequencesDistinct'
  BY <1>0 DEF QueueInv
<1>1. CASE UNCHANGED <<seq, queue_waiting, queue_sequence>>
  BY <1>0, <1>1 DEF WaitersCounted, SequencesDistinct, Registered
<1>2. ASSUME NEW t \in Turns, queueRegisterWaiter(t) PROVE WaitersCounted' /\ SequencesDistinct'
  <2> DEFINE s == queue_sequence + 1
             dropped == ~(settings.cap = 0 \/ queue_waiting + 1 <= settings.cap) /\ settings.drop # "oldest"
  <2>1. seq[t] = 0 /\ t \notin Registered
    BY <1>0, <1>2 DEF queueRegisterWaiter, Goto, RegisteredInQueue, Unqueued, Registered
  <2>2. queue_sequence' = s /\ s \in Nat /\ s # 0
    BY <1>0, <1>2 DEF queueRegisterWaiter, TypeOK
  <2>3. CASE dropped
    (* The newcomer leaves again: nothing about the waiters has changed.      *)
    <3>1. seq' = seq /\ queue_waiting' = queue_waiting
      BY <1>0, <1>2, <2>1, <2>3 DEF queueRegisterWaiter, NewestLeaves, TypeOK
    <3>2. Registered' = Registered
      BY <3>1 DEF Registered
    <3>3. WaitersCounted'
      BY <1>0, <3>1, <3>2 DEF WaitersCounted
    <3>4. queue_sequence \in Nat /\ \A u \in Registered : seq[u] \in Nat
      BY <1>0 DEF TypeOK, Registered
    <3>5. \A u \in Registered : seq[u] <= queue_sequence'
      BY <1>0, <2>2, <3>4 DEF SequencesDistinct
    <3>7. SequencesDistinct'
      BY <1>0, <3>1, <3>2, <3>5 DEF SequencesDistinct
    <3>6. QED
      BY <3>3, <3>7
  <2>4. CASE ~dropped
    <3>1. seq' = [seq EXCEPT ![t] = s] /\ queue_waiting' = queue_waiting + 1
      BY <1>2, <2>4 DEF queueRegisterWaiter
    <3>2. Registered' = Registered \cup {t}
      BY <1>0, <2>2, <3>1 DEF Registered, TypeOK
    <3>3. Cardinality(Registered') = Cardinality(Registered) + 1
      BY <2>1, <3>2, RegisteredFinite, FS_AddElement
    <3>4. WaitersCounted'
      BY <1>0, <3>1, <3>3 DEF WaitersCounted
    <3>5. \A u \in Registered : seq'[u] = seq[u] /\ seq[u] \in Nat /\ seq[u] < s
      BY <1>0, <2>1, <3>1 DEF SequencesDistinct, Registered, TypeOK
    <3>6. seq'[t] = s
      BY <1>0, <3>1 DEF TypeOK
    <3>7. SequencesDistinct'
      BY <1>0, <2>2, <3>2, <3>5, <3>6 DEF SequencesDistinct
    <3>8. QED
      BY <3>4, <3>7
  <2>5. QED
    BY <2>3, <2>4
<1>3. ASSUME NEW t \in Turns, queueUnregisterWaiter(t) PROVE WaitersCounted' /\ SequencesDistinct'
  <2>1. CASE seq[t] = 0
    BY <1>0, <1>3, <2>1 DEF queueUnregisterWaiter, queue, WaitersCounted, SequencesDistinct,
       Registered
  <2>2. CASE seq[t] # 0
    <3>1. seq' = [seq EXCEPT ![t] = 0] /\ queue_sequence' = queue_sequence
      BY <1>3, <2>2 DEF queueUnregisterWaiter
    <3>2. t \in Registered /\ Registered' = Registered \ {t}
      BY <1>0, <2>2, <3>1 DEF Registered, TypeOK
    <3>3. Cardinality(Registered') = Cardinality(Registered) - 1
      BY <3>2, RegisteredFinite, FS_RemoveElement
    <3>4. Cardinality(Registered') \in Nat
      BY RegisteredFinite, FS_CardinalityType
    <3>5. queue_waiting' = queue_waiting - 1
      BY <1>0, <1>3, <2>2, <3>3, <3>4 DEF queueUnregisterWaiter, WaitersCounted, TypeOK
    <3>6. SequencesDistinct'
      BY <1>0, <3>1, <3>2 DEF SequencesDistinct, Registered, TypeOK
    <3>7. QED
      BY <1>0, <3>3, <3>5, <3>6 DEF WaitersCounted
  <2>3. QED
    BY <2>1, <2>2
<1>4. ASSUME NEW t \in Turns, recycleSessionInPlace(t) PROVE WaitersCounted' /\ SequencesDistinct'
  <2>1. seq' = seq /\ queue_waiting' = queue_waiting /\ Registered' = Registered
    BY <1>4 DEF recycleSessionInPlace, Registered
  <2>2. CASE queue_waiting = 0
    (* Nobody is waiting, so the numbering may start again.                   *)
    <3>1. Registered = {}
      BY <1>0, <2>2, RegisteredFinite, FS_EmptySet DEF WaitersCounted
    <3>2. QED
      BY <1>0, <2>1, <3>1 DEF WaitersCounted, SequencesDistinct
  <2>3. CASE queue_waiting # 0
    <3>1. queue_sequence' = queue_sequence
      BY <1>4, <2>3 DEF recycleSessionInPlace, SequenceAfterRecycle
    <3>2. QED
      BY <1>0, <2>1, <3>1 DEF WaitersCounted, SequencesDistinct, Registered
  <2>4. QED
    BY <2>2, <2>3
<1>5. QED
  BY <1>1, <1>2, <1>3, <1>4, QueueSteps

(* Init establishes the invariant: nobody waits.                              *)
LEMMA InitQueue == Init => QueueInv
<1> SUFFICES ASSUME Init PROVE QueueInv
  OBVIOUS
<1>1. Registered = {}
  BY DEF Init, Registered
<1>2. QED
  BY <1>1, InitType, FS_EmptySet DEF Init, QueueInv, RegisteredInQueue, WaitersCounted,
     SequencesDistinct

(* The count and the sequences are right in every reachable state.            *)
LEMMA QueueInvariant == Spec => []QueueInv
  BY InitQueue, NextQueue, PTL DEF Spec

(* queue_waiting is the number of registered turns at all times: no path      *)
(* through processMessage counts a waiter twice or forgets one.               *)
THEOREM WaitersCorrect == Spec => []WaitersCounted
  BY QueueInvariant, PTL DEF QueueInv

(* Two waiting turns never have the same sequence, TTL recycles included.     *)
THEOREM SequencesCorrect == Spec => []SequencesDistinct
  BY QueueInvariant, PTL DEF QueueInv

-----------------------------------------------------------------------------
(* Cancels.                                                                   *)

(* Every step keeps the invariant: turnOutcome empties the token.             *)
LEMMA NextCancel == TypeOK /\ CancelInv /\ [Next]_vars => CancelInv'
<1> SUFFICES ASSUME TypeOK, CancelInv, [Next]_vars PROVE CancelInv'
  OBVIOUS
<1> USE DEF TypeOK, CancelInv, PastIsOver, TokenIsFresh, NotKilledYet, NoStaleCancel, Goto, turn, queue, agent, ghosts
<1>1. ASSUME NEW t \in Turns, acquireSessionForTurn(t) PROVE CancelInv'
  BY <1>1, NobodyAssumption DEF acquireSessionForTurn
<1>2. ASSUME NEW t \in Turns, tryLock(t) PROVE CancelInv'
  BY <1>2, NobodyAssumption DEF tryLock
<1>3. ASSUME NEW t \in Turns, ReadMode(t) PROVE CancelInv'
  BY <1>3, NobodyAssumption DEF ReadMode
<1>4. ASSUME NEW t \in Turns, queueRegisterWaiter(t) PROVE CancelInv'
  BY <1>4, NobodyAssumption DEF queueRegisterWaiter, NewestLeaves, DropBefore, End
<1>5. ASSUME NEW t \in Turns, lock(t) PROVE CancelInv'
  BY <1>5, NobodyAssumption DEF lock
<1>6. ASSUME NEW t \in Turns, queueDropAfterAcquire(t) PROVE CancelInv'
  BY <1>6, NobodyAssumption DEF queueDropAfterAcquire, Superseded, TooOld, End, DropExit
<1>7. ASSUME NEW t \in Turns, recycleSessionInPlace(t) PROVE CancelInv'
  BY <1>7, NobodyAssumption DEF recycleSessionInPlace, SequenceAfterRecycle
<1>8. ASSUME NEW t \in Turns, KeepAgent(t) PROVE CancelInv'
  BY <1>8, NobodyAssumption DEF KeepAgent
<1>9. ASSUME NEW t \in Turns, takeQueueSummaryPrefix(t) PROVE CancelInv'
  BY <1>9, NobodyAssumption DEF takeQueueSummaryPrefix, Taken
<1>10. ASSUME NEW t \in Turns, activationBlocked(t) PROVE CancelInv'
  BY <1>10, NobodyAssumption DEF activationBlocked, End
<1>11. ASSUME NEW t \in Turns, turnOutcome(t) PROVE CancelInv'
  BY <1>11, NobodyAssumption DEF turnOutcome, FreshToken
<1>12. ASSUME NEW t \in Turns, handleSlashCommand(t) PROVE CancelInv'
  BY <1>12, NobodyAssumption DEF handleSlashCommand, IsCommand, ClearedHistory, ResetSettings, End
<1>13. ASSUME NEW t \in Turns, Iteration(t) PROVE CancelInv'
  <2>1. UNCHANGED <<past, cpc, token>> /\ pc[t] = "running"
    BY <1>13 DEF Iteration
  <2>2. pc'[t] # "new" /\ \A u \in Turns : u # t => pc'[u] = pc[u] /\ killer'[u] = killer[u]
    BY <1>13 DEF Iteration
  <2>3. killer'[t] = killer[t] \/ killer'[t] = token
    BY <1>13 DEF Iteration
  <2>4. PastIsOver' /\ TokenIsFresh' /\ NotKilledYet'
    BY <2>1, <2>2
  <2>5. NoStaleCancel'
    <3>1. killer'[t] \notin past'[t]
      BY <2>1, <2>3
    <3>2. \A u \in Turns : u # t => killer'[u] \notin past'[u]
      BY <2>1, <2>2
    <3>3. QED
      BY <3>1, <3>2
  <2>6. QED
    BY <2>4, <2>5
<1>14. ASSUME NEW t \in Turns, NextIteration(t) PROVE CancelInv'
  BY <1>14, NobodyAssumption DEF NextIteration
<1>15. ASSUME NEW t \in Turns, Answer(t) PROVE CancelInv'
  BY <1>15, NobodyAssumption DEF Answer, End
<1>16. ASSUME NEW t \in Turns, Fail(t) PROVE CancelInv'
  BY <1>16, NobodyAssumption DEF Fail, End
<1>17. ASSUME NEW t \in Turns, PersistMessages(t) PROVE CancelInv'
  BY <1>17, NobodyAssumption DEF PersistMessages, Persisted
<1>18. ASSUME NEW t \in Turns, queueUnregisterWaiter(t) PROVE CancelInv'
  BY <1>18, NobodyAssumption DEF queueUnregisterWaiter
<1>19. ASSUME NEW t \in Turns, unlock(t) PROVE CancelInv'
  BY <1>19, NobodyAssumption DEF unlock
<1>20. ASSUME NEW t \in Turns, releaseSessionRef(t) PROVE CancelInv'
  BY <1>20, NobodyAssumption DEF releaseSessionRef
<1>21. ASSUME NEW c \in Cancels, CancelPin(c) PROVE CancelInv'
  BY <1>21, NobodyAssumption DEF CancelPin
<1>22. ASSUME NEW c \in Cancels, CancelSignal(c) PROVE CancelInv'
  BY <1>22, NobodyAssumption DEF CancelSignal
<1>23. ASSUME NEW c \in Cancels, CancelUnpin(c) PROVE CancelInv'
  BY <1>23, NobodyAssumption DEF CancelUnpin
<1>24. CASE UNCHANGED vars
  BY <1>24 DEF vars
<1>25. QED
  BY <1>1, <1>2, <1>3, <1>4, <1>5, <1>6, <1>7, <1>8, <1>9, <1>10, <1>11, <1>12, <1>13, <1>14,
     <1>15, <1>16, <1>17, <1>18, <1>19, <1>20, <1>21, <1>22, <1>23, <1>24 DEF Next, TurnStep

(* Init establishes the invariant: no cancel was made.                        *)
LEMMA InitCancel == Init => CancelInv
  BY DEF Init, CancelInv, PastIsOver, TokenIsFresh, NotKilledYet, NoStaleCancel

(* "a stale cancel never silently cancels a future user message": a cancel    *)
(* that returned before a message was sent does not end that message's turn.  *)
THEOREM StaleCancelsHarmless == Spec => []NoStaleCancel
<1>1. TypeOK /\ CancelInv /\ [Next]_vars => (TypeOK /\ CancelInv)'
  BY NextType, NextCancel
<1>2. Spec => [](TypeOK /\ CancelInv)
  BY <1>1, InitType, InitCancel, PTL DEF Spec
<1>3. QED
  BY <1>2, PTL DEF CancelInv

-----------------------------------------------------------------------------
(* The overflow notice.                                                       *)

(* Every step keeps the holder of the mutex the only one inside.              *)
LEMMA NextExclusion == TypeOK /\ MutualExclusion /\ [Next]_vars => MutualExclusion'
<1> SUFFICES ASSUME TypeOK, MutualExclusion, [Next]_vars PROVE MutualExclusion'
  OBVIOUS
<1> USE DEF TypeOK, MutualExclusion, Inside, Goto, turn, queue, agent, ghosts
<1>1. ASSUME NEW t \in Turns, acquireSessionForTurn(t) PROVE MutualExclusion'
  BY <1>1, NobodyAssumption DEF acquireSessionForTurn
<1>2. ASSUME NEW t \in Turns, tryLock(t) PROVE MutualExclusion'
  BY <1>2, NobodyAssumption DEF tryLock
<1>3. ASSUME NEW t \in Turns, ReadMode(t) PROVE MutualExclusion'
  BY <1>3, NobodyAssumption DEF ReadMode
<1>4. ASSUME NEW t \in Turns, queueRegisterWaiter(t) PROVE MutualExclusion'
  BY <1>4, NobodyAssumption DEF queueRegisterWaiter, NewestLeaves, DropBefore, End
<1>5. ASSUME NEW t \in Turns, lock(t) PROVE MutualExclusion'
  BY <1>5, NobodyAssumption DEF lock
<1>6. ASSUME NEW t \in Turns, queueDropAfterAcquire(t) PROVE MutualExclusion'
  BY <1>6, NobodyAssumption DEF queueDropAfterAcquire, Superseded, TooOld, End, DropExit
<1>7. ASSUME NEW t \in Turns, recycleSessionInPlace(t) PROVE MutualExclusion'
  BY <1>7, NobodyAssumption DEF recycleSessionInPlace, SequenceAfterRecycle
<1>8. ASSUME NEW t \in Turns, KeepAgent(t) PROVE MutualExclusion'
  BY <1>8, NobodyAssumption DEF KeepAgent
<1>9. ASSUME NEW t \in Turns, takeQueueSummaryPrefix(t) PROVE MutualExclusion'
  BY <1>9, NobodyAssumption DEF takeQueueSummaryPrefix, Taken
<1>10. ASSUME NEW t \in Turns, activationBlocked(t) PROVE MutualExclusion'
  BY <1>10, NobodyAssumption DEF activationBlocked, End
<1>11. ASSUME NEW t \in Turns, turnOutcome(t) PROVE MutualExclusion'
  BY <1>11, NobodyAssumption DEF turnOutcome, FreshToken
<1>12. ASSUME NEW t \in Turns, handleSlashCommand(t) PROVE MutualExclusion'
  BY <1>12, NobodyAssumption DEF handleSlashCommand, IsCommand, ClearedHistory, ResetSettings, End
<1>13. ASSUME NEW t \in Turns, Iteration(t) PROVE MutualExclusion'
  BY <1>13, NobodyAssumption DEF Iteration, IsCommand, End
<1>14. ASSUME NEW t \in Turns, NextIteration(t) PROVE MutualExclusion'
  BY <1>14, NobodyAssumption DEF NextIteration
<1>15. ASSUME NEW t \in Turns, Answer(t) PROVE MutualExclusion'
  BY <1>15, NobodyAssumption DEF Answer, End
<1>16. ASSUME NEW t \in Turns, Fail(t) PROVE MutualExclusion'
  BY <1>16, NobodyAssumption DEF Fail, End
<1>17. ASSUME NEW t \in Turns, PersistMessages(t) PROVE MutualExclusion'
  BY <1>17, NobodyAssumption DEF PersistMessages, Persisted
<1>18. ASSUME NEW t \in Turns, queueUnregisterWaiter(t) PROVE MutualExclusion'
  BY <1>18, NobodyAssumption DEF queueUnregisterWaiter
<1>19. ASSUME NEW t \in Turns, unlock(t) PROVE MutualExclusion'
  BY <1>19, NobodyAssumption DEF unlock
<1>20. ASSUME NEW t \in Turns, releaseSessionRef(t) PROVE MutualExclusion'
  BY <1>20, NobodyAssumption DEF releaseSessionRef
<1>21. ASSUME NEW c \in Cancels, CancelPin(c) PROVE MutualExclusion'
  BY <1>21, NobodyAssumption DEF CancelPin
<1>22. ASSUME NEW c \in Cancels, CancelSignal(c) PROVE MutualExclusion'
  BY <1>22, NobodyAssumption DEF CancelSignal
<1>23. ASSUME NEW c \in Cancels, CancelUnpin(c) PROVE MutualExclusion'
  BY <1>23, NobodyAssumption DEF CancelUnpin
<1>24. CASE UNCHANGED vars
  BY <1>24 DEF vars
<1>25. QED
  BY <1>1, <1>2, <1>3, <1>4, <1>5, <1>6, <1>7, <1>8, <1>9, <1>10, <1>11, <1>12, <1>13, <1>14,
     <1>15, <1>16, <1>17, <1>18, <1>19, <1>20, <1>21, <1>22, <1>23, <1>24 DEF Next, TurnStep

(* Every step keeps dropped messages out of the session.                      *)
LEMMA NextGone == TypeOK /\ SummarizedAreGone /\ [Next]_vars => SummarizedAreGone'
<1> SUFFICES ASSUME TypeOK, SummarizedAreGone, [Next]_vars PROVE SummarizedAreGone'
  OBVIOUS
<1> USE DEF TypeOK, SummarizedAreGone, Goto, turn, queue, agent, ghosts
<1>1. ASSUME NEW t \in Turns, acquireSessionForTurn(t) PROVE SummarizedAreGone'
  BY <1>1 DEF acquireSessionForTurn
<1>2. ASSUME NEW t \in Turns, tryLock(t) PROVE SummarizedAreGone'
  BY <1>2 DEF tryLock
<1>3. ASSUME NEW t \in Turns, ReadMode(t) PROVE SummarizedAreGone'
  BY <1>3 DEF ReadMode
<1>4. ASSUME NEW t \in Turns, queueRegisterWaiter(t) PROVE SummarizedAreGone'
  BY <1>4 DEF queueRegisterWaiter, NewestLeaves, DropBefore, End
<1>5. ASSUME NEW t \in Turns, lock(t) PROVE SummarizedAreGone'
  BY <1>5 DEF lock
<1>6. ASSUME NEW t \in Turns, queueDropAfterAcquire(t) PROVE SummarizedAreGone'
  BY <1>6 DEF queueDropAfterAcquire, Superseded, TooOld, End, DropExit
<1>7. ASSUME NEW t \in Turns, recycleSessionInPlace(t) PROVE SummarizedAreGone'
  BY <1>7 DEF recycleSessionInPlace, SequenceAfterRecycle
<1>8. ASSUME NEW t \in Turns, KeepAgent(t) PROVE SummarizedAreGone'
  BY <1>8 DEF KeepAgent
<1>9. ASSUME NEW t \in Turns, takeQueueSummaryPrefix(t) PROVE SummarizedAreGone'
  BY <1>9 DEF takeQueueSummaryPrefix, Taken
<1>10. ASSUME NEW t \in Turns, activationBlocked(t) PROVE SummarizedAreGone'
  BY <1>10 DEF activationBlocked, End
<1>11. ASSUME NEW t \in Turns, turnOutcome(t) PROVE SummarizedAreGone'
  BY <1>11 DEF turnOutcome, FreshToken
<1>12. ASSUME NEW t \in Turns, handleSlashCommand(t) PROVE SummarizedAreGone'
  BY <1>12 DEF handleSlashCommand, IsCommand, ClearedHistory, ResetSettings, End
<1>13. ASSUME NEW t \in Turns, Iteration(t) PROVE SummarizedAreGone'
  BY <1>13 DEF Iteration, IsCommand, End
<1>14. ASSUME NEW t \in Turns, NextIteration(t) PROVE SummarizedAreGone'
  BY <1>14 DEF NextIteration
<1>15. ASSUME NEW t \in Turns, Answer(t) PROVE SummarizedAreGone'
  BY <1>15 DEF Answer, End
<1>16. ASSUME NEW t \in Turns, Fail(t) PROVE SummarizedAreGone'
  BY <1>16 DEF Fail, End
<1>17. ASSUME NEW t \in Turns, PersistMessages(t) PROVE SummarizedAreGone'
  BY <1>17 DEF PersistMessages, Persisted
<1>18. ASSUME NEW t \in Turns, queueUnregisterWaiter(t) PROVE SummarizedAreGone'
  BY <1>18 DEF queueUnregisterWaiter
<1>19. ASSUME NEW t \in Turns, unlock(t) PROVE SummarizedAreGone'
  BY <1>19 DEF unlock
<1>20. ASSUME NEW t \in Turns, releaseSessionRef(t) PROVE SummarizedAreGone'
  BY <1>20 DEF releaseSessionRef
<1>21. ASSUME NEW c \in Cancels, CancelPin(c) PROVE SummarizedAreGone'
  BY <1>21 DEF CancelPin
<1>22. ASSUME NEW c \in Cancels, CancelSignal(c) PROVE SummarizedAreGone'
  BY <1>22 DEF CancelSignal
<1>23. ASSUME NEW c \in Cancels, CancelUnpin(c) PROVE SummarizedAreGone'
  BY <1>23 DEF CancelUnpin
<1>24. CASE UNCHANGED vars
  BY <1>24 DEF vars
<1>25. QED
  BY <1>1, <1>2, <1>3, <1>4, <1>5, <1>6, <1>7, <1>8, <1>9, <1>10, <1>11, <1>12, <1>13, <1>14,
     <1>15, <1>16, <1>17, <1>18, <1>19, <1>20, <1>21, <1>22, <1>23, <1>24 DEF Next, TurnStep

(* There are finitely many dropped turns to count.                            *)
LEMMA SummarizedFinite == IsFiniteSet(Summarized)
<1>1. Summarized \subseteq Turns
  BY DEF Summarized
<1>2. QED
  BY <1>1, TurnsFinite, FS_Subset

(* What has been told, is to be told and is being told: only a dropped        *)
(* message makes it more.                                                     *)
Told == announced + queue_summarize_pending_count + Carried

(* What is told is a number.                                                  *)
LEMMA CarriedType == TypeOK => Carried \in Nat /\ Told \in Nat
  BY DEF TypeOK, Carried, Told

(* The same of the state a step reaches.                                     *)
LEMMA CarriedNextType == TypeOK' => Told' \in Nat
<1> SUFFICES ASSUME TypeOK' PROVE Told' \in Nat
  OBVIOUS
<1>1. /\ holder' \in Turns \cup {None} /\ note' \in [Turns -> Nat]
      /\ announced' \in Nat /\ queue_summarize_pending_count' \in Nat
  BY DEF TypeOK
<1>2. QED
  BY <1>1 DEF Told, Carried

NoticeStep ==
    \/ Summarized' = Summarized /\ Told' <= Told
    \/ Told' = Told + 1 /\ \E t \in Turns \ Summarized : Summarized' = Summarized \cup {t}

(* A turn that ends otherwise than by "summarize" leaves that set as it is.   *)
LEMMA FateKept ==
  ASSUME TypeOK, NEW t \in Turns, t \notin Summarized, NEW how, how # "summarize", End(t, how)
  PROVE  Summarized' = Summarized
  BY DEF TypeOK, Summarized, End

(* Every step keeps that balance.                                             *)
LEMMA ToldSteps == TypeOK /\ MutualExclusion /\ SummarizedAreGone /\ [Next]_vars => NoticeStep
<1> SUFFICES ASSUME TypeOK, MutualExclusion, SummarizedAreGone, [Next]_vars PROVE NoticeStep
  OBVIOUS
<1> USE DEF TypeOK, MutualExclusion, Inside, SummarizedAreGone, Told, Carried, Goto, turn, queue, agent, ghosts
<1>1. ASSUME NEW t \in Turns, acquireSessionForTurn(t) PROVE NoticeStep
  BY <1>1, NobodyAssumption DEF acquireSessionForTurn, NoticeStep, Summarized
<1>2. ASSUME NEW t \in Turns, tryLock(t) PROVE NoticeStep
  BY <1>2, NobodyAssumption DEF tryLock, NoticeStep, Summarized
<1>3. ASSUME NEW t \in Turns, ReadMode(t) PROVE NoticeStep
  BY <1>3, NobodyAssumption DEF ReadMode, NoticeStep, Summarized
<1>4. ASSUME NEW t \in Turns, queueRegisterWaiter(t) PROVE NoticeStep
  <2>1. t \notin Summarized
    BY <1>4 DEF queueRegisterWaiter, Summarized
  <2>2. Carried' = Carried
    BY <1>4, NobodyAssumption DEF queueRegisterWaiter
  <2>3. announced' = announced
    BY <1>4 DEF queueRegisterWaiter
  <2> DEFINE dropped == ~(settings.cap = 0 \/ queue_waiting + 1 <= settings.cap) /\ settings.drop # "oldest"
  <2>4. CASE dropped /\ settings.drop = "summarize"
    <3>1. fate' = [fate EXCEPT ![t] = "summarize"]
      BY <1>4, <2>4 DEF queueRegisterWaiter
    <3>2. Summarized' = Summarized \cup {t}
      BY <3>1 DEF Summarized
    <3>3. queue_summarize_pending_count' = queue_summarize_pending_count + 1
      BY <1>4, <2>4 DEF queueRegisterWaiter
    <3>4. Told' = Told + 1
      BY <2>2, <2>3, <3>3
    <3>5. QED
      BY <2>1, <3>2, <3>4 DEF NoticeStep
  <2>5. CASE ~(dropped /\ settings.drop = "summarize")
    <3>1. fate' = fate \/ (fate' = [fate EXCEPT ![t] = settings.drop] /\ settings.drop # "summarize")
      BY <1>4, <2>5 DEF queueRegisterWaiter
    <3>2. Summarized' = Summarized
      BY <2>1, <3>1 DEF Summarized
    <3>3. queue_summarize_pending_count' = queue_summarize_pending_count
      BY <1>4, <2>5 DEF queueRegisterWaiter
    <3>4. Told' = Told
      BY <2>2, <2>3, <3>3
    <3>5. QED
      BY <3>2, <3>4, CarriedType DEF NoticeStep
  <2>6. QED
    BY <2>4, <2>5
<1>5. ASSUME NEW t \in Turns, lock(t) PROVE NoticeStep
  BY <1>5, NobodyAssumption DEF lock, NoticeStep, Summarized
<1>6. ASSUME NEW t \in Turns, queueDropAfterAcquire(t) PROVE NoticeStep
  <2>1. t \notin Summarized
    BY <1>6 DEF queueDropAfterAcquire, Summarized
  <2>2. Summarized' = Summarized
    BY <1>6, <2>1, FateKept DEF queueDropAfterAcquire, Summarized
  <2>3. Told' <= Told
    BY <1>6, NobodyAssumption DEF queueDropAfterAcquire, DropExit
  <2>4. QED
    BY <2>2, <2>3 DEF NoticeStep
<1>7. ASSUME NEW t \in Turns, recycleSessionInPlace(t) PROVE NoticeStep
  BY <1>7, NobodyAssumption DEF recycleSessionInPlace, SequenceAfterRecycle, NoticeStep, Summarized
<1>8. ASSUME NEW t \in Turns, KeepAgent(t) PROVE NoticeStep
  BY <1>8, NobodyAssumption DEF KeepAgent, NoticeStep, Summarized
<1>9. ASSUME NEW t \in Turns, takeQueueSummaryPrefix(t) PROVE NoticeStep
  BY <1>9, NobodyAssumption DEF takeQueueSummaryPrefix, Taken, NoticeStep, Summarized
<1>10. ASSUME NEW t \in Turns, activationBlocked(t) PROVE NoticeStep
  <2>1. t \notin Summarized
    BY <1>10 DEF activationBlocked, Summarized
  <2>2. Summarized' = Summarized
    BY <1>10, <2>1, FateKept DEF activationBlocked
  <2>3. Told' <= Told
    BY <1>10, NobodyAssumption DEF activationBlocked
  <2>4. QED
    BY <2>2, <2>3 DEF NoticeStep
<1>11. ASSUME NEW t \in Turns, turnOutcome(t) PROVE NoticeStep
  BY <1>11, NobodyAssumption DEF turnOutcome, FreshToken, NoticeStep, Summarized
<1>12. ASSUME NEW t \in Turns, handleSlashCommand(t) PROVE NoticeStep
  <2>1. t \notin Summarized
    BY <1>12 DEF handleSlashCommand, Summarized
  <2>2. Summarized' = Summarized
    BY <1>12, <2>1, FateKept DEF handleSlashCommand
  <2>3. Told' <= Told
    BY <1>12, NobodyAssumption DEF handleSlashCommand
  <2>4. QED
    BY <2>2, <2>3 DEF NoticeStep
<1>13. ASSUME NEW t \in Turns, Iteration(t) PROVE NoticeStep
  <2>1. t \notin Summarized
    BY <1>13 DEF Iteration, Summarized
  <2>2. Summarized' = Summarized
    BY <1>13, <2>1, FateKept DEF Iteration, Summarized
  <2>3. Told' <= Told
    BY <1>13, NobodyAssumption DEF Iteration
  <2>4. QED
    BY <2>2, <2>3 DEF NoticeStep
<1>14. ASSUME NEW t \in Turns, NextIteration(t) PROVE NoticeStep
  BY <1>14, NobodyAssumption DEF NextIteration, NoticeStep, Summarized
<1>15. ASSUME NEW t \in Turns, Answer(t) PROVE NoticeStep
  <2>1. t \notin Summarized
    BY <1>15 DEF Answer, Summarized
  <2>2. Summarized' = Summarized
    BY <1>15, <2>1, FateKept DEF Answer
  <2>3. Told' <= Told
    BY <1>15, NobodyAssumption DEF Answer
  <2>4. QED
    BY <2>2, <2>3 DEF NoticeStep
<1>16. ASSUME NEW t \in Turns, Fail(t) PROVE NoticeStep
  <2>1. t \notin Summarized
    BY <1>16 DEF Fail, Summarized
  <2>2. Summarized' = Summarized
    BY <1>16, <2>1, FateKept DEF Fail
  <2>3. Told' <= Told
    BY <1>16, NobodyAssumption DEF Fail
  <2>4. QED
    BY <2>2, <2>3 DEF NoticeStep
<1>17. ASSUME NEW t \in Turns, PersistMessages(t) PROVE NoticeStep
  BY <1>17, NobodyAssumption DEF PersistMessages, Persisted, NoticeStep, Summarized
<1>18. ASSUME NEW t \in Turns, queueUnregisterWaiter(t) PROVE NoticeStep
  BY <1>18, NobodyAssumption DEF queueUnregisterWaiter, NoticeStep, Summarized
<1>19. ASSUME NEW t \in Turns, unlock(t) PROVE NoticeStep
  BY <1>19, NobodyAssumption DEF unlock, NoticeStep, Summarized
<1>20. ASSUME NEW t \in Turns, releaseSessionRef(t) PROVE NoticeStep
  BY <1>20, NobodyAssumption DEF releaseSessionRef, NoticeStep, Summarized
<1>21. ASSUME NEW c \in Cancels, CancelPin(c) PROVE NoticeStep
  BY <1>21, NobodyAssumption DEF CancelPin, NoticeStep, Summarized
<1>22. ASSUME NEW c \in Cancels, CancelSignal(c) PROVE NoticeStep
  BY <1>22, NobodyAssumption DEF CancelSignal, NoticeStep, Summarized
<1>23. ASSUME NEW c \in Cancels, CancelUnpin(c) PROVE NoticeStep
  BY <1>23, NobodyAssumption DEF CancelUnpin, NoticeStep, Summarized
<1>24. CASE UNCHANGED vars
  BY <1>24 DEF vars, NoticeStep, Summarized
<1>25. QED
  BY <1>1, <1>2, <1>3, <1>4, <1>5, <1>6, <1>7, <1>8, <1>9, <1>10, <1>11, <1>12, <1>13, <1>14,
     <1>15, <1>16, <1>17, <1>18, <1>19, <1>20, <1>21, <1>22, <1>23, <1>24 DEF Next, TurnStep

(* Every step keeps the invariant.                                            *)
LEMMA NextNotice == TypeOK /\ NoticeInv /\ [Next]_vars => NoticeInv'
<1> SUFFICES ASSUME TypeOK, NoticeInv, [Next]_vars PROVE NoticeInv'
  OBVIOUS
<1>1. TypeOK' /\ MutualExclusion' /\ SummarizedAreGone'
  BY NextType, NextExclusion, NextGone DEF NoticeInv
<1>2. NoticeStep
  BY ToldSteps DEF NoticeInv
<1>3. Told \in Nat /\ Told <= Cardinality(Summarized)
  BY CarriedType DEF NoticeInv, NoticesCounted, Told
<1>4. Told' \in Nat
  BY <1>1, CarriedNextType
<1>5. Cardinality(Summarized) \in Nat
  BY SummarizedFinite, FS_CardinalityType
<1>6. CASE Summarized' = Summarized /\ Told' <= Told
  BY <1>1, <1>3, <1>4, <1>5, <1>6 DEF NoticeInv, NoticesCounted, Told
<1>7. CASE Told' = Told + 1 /\ \E t \in Turns \ Summarized : Summarized' = Summarized \cup {t}
  <2>1. Cardinality(Summarized') = Cardinality(Summarized) + 1
    BY <1>7, SummarizedFinite, FS_AddElement
  <2>2. Told' <= Cardinality(Summarized')
    BY <1>3, <1>4, <1>5, <1>7, <2>1
  <2>3. QED
    BY <1>1, <2>2 DEF NoticeInv, NoticesCounted, Told
<1>8. QED
  BY <1>2, <1>6, <1>7 DEF NoticeStep

(* Init establishes the invariant: nothing was dropped.                       *)
LEMMA InitNotice == Init => NoticeInv
<1> SUFFICES ASSUME Init PROVE NoticeInv
  OBVIOUS
<1>1. MutualExclusion /\ SummarizedAreGone
  BY NobodyAssumption, NoFateAssumption DEF Init, MutualExclusion, Inside, SummarizedAreGone, Drops
<1>2. announced + queue_summarize_pending_count + Carried = 0
  BY DEF Init, Carried
<1>3. Cardinality(Summarized) \in Nat
  BY SummarizedFinite, FS_CardinalityType
<1>4. QED
  BY <1>1, <1>2, <1>3 DEF NoticeInv, NoticesCounted

(* Agents are told of every dropped message at most once, in whatever order   *)
(* messages overflow the queue, take the notice, are refused or recycle the   *)
(* session.                                                                   *)
THEOREM NoticesOnce == Spec => []NoticeAtMostOnce
<1>1. TypeOK /\ NoticeInv /\ [Next]_vars => (TypeOK /\ NoticeInv)'
  BY NextType, NextNotice
<1>2. TypeOK /\ NoticeInv => NoticeAtMostOnce
  <2> SUFFICES ASSUME TypeOK, NoticeInv PROVE NoticeAtMostOnce
    OBVIOUS
  <2>1. Carried \in Nat
    BY CarriedType
  <2>2. Cardinality(Summarized) \in Nat
    BY SummarizedFinite, FS_CardinalityType
  <2>3. QED
    BY <2>1, <2>2 DEF NoticeInv, NoticesCounted, NoticeAtMostOnce, TypeOK
<1>3. QED
  BY <1>1, <1>2, InitType, InitNotice, PTL DEF Spec

-----------------------------------------------------------------------------
(* Resets.                                                                    *)

(* A reset without a notice in front of it is seen as a command: it does not  *)
(* iterate, and once answered it has left nothing of the conversation.        *)
ResetSeen == \A t \in Turns : msg[t] = "reset" /\ note[t] = 0 =>
                 pc[t] # "iterating" /\ (pc[t] = "answered" => history = {})

(* The turns whose step is neither an answer nor a change of the history.     *)
LEMMA ResetKept ==
    ASSUME TypeOK, ResetSeen, NEW t \in Turns, history' = history \/ history' = {}, msg' = msg, note' = note,
           pc'[t] \notin {"iterating", "answered"}, \A u \in Turns \ {t} : pc'[u] = pc[u]
    PROVE  ResetSeen'
BY DEF ResetSeen

(* Every step keeps it, because only the turn that holds the mutex adds to    *)
(* the history.                                                               *)
LEMMA NextReset == TypeOK /\ MutualExclusion /\ ResetSeen /\ [Next]_vars => ResetSeen'
<1> SUFFICES ASSUME TypeOK, MutualExclusion, ResetSeen, [Next]_vars PROVE ResetSeen'
  OBVIOUS
<1> USE DEF TypeOK, Goto, turn, queue, agent, ghosts
<1>1. ASSUME NEW t \in Turns, acquireSessionForTurn(t) \/ tryLock(t) \/ ReadMode(t) \/ queueRegisterWaiter(t) \/ lock(t)
      PROVE  ResetSeen'
  BY <1>1, ResetKept DEF acquireSessionForTurn, tryLock, ReadMode, queueRegisterWaiter, lock
<1>2. ASSUME NEW t \in Turns, queueDropAfterAcquire(t) \/ recycleSessionInPlace(t) \/ KeepAgent(t)
      PROVE  ResetSeen'
  BY <1>2, ResetKept DEF queueDropAfterAcquire, DropExit, recycleSessionInPlace, KeepAgent
<1>3. ASSUME NEW t \in Turns, takeQueueSummaryPrefix(t) PROVE ResetSeen'
  BY <1>3 DEF takeQueueSummaryPrefix, ResetSeen
<1>4. ASSUME NEW t \in Turns, activationBlocked(t) \/ turnOutcome(t) \/ NextIteration(t) \/ Fail(t)
      PROVE  ResetSeen'
  BY <1>4, ResetKept DEF activationBlocked, turnOutcome, NextIteration, Fail
<1>5. ASSUME NEW t \in Turns, handleSlashCommand(t) PROVE ResetSeen'
  BY <1>5 DEF handleSlashCommand, ClearedHistory, ResetSeen
<1>6. ASSUME NEW t \in Turns, Iteration(t) PROVE ResetSeen'
  <2>1. \A u \in Turns \ {t} : pc[u] # "answered" /\ pc'[u] = pc[u]
    BY <1>6 DEF Iteration, MutualExclusion, Inside
  <2>2. ~(msg[t] = "reset" /\ note[t] = 0)
    BY <1>6 DEF Iteration, IsCommand
  <2> QED
    BY <1>6, <2>1, <2>2 DEF Iteration, ResetSeen
<1>7. ASSUME NEW t \in Turns, Answer(t) PROVE ResetSeen'
  BY <1>7 DEF Answer, ResetSeen
<1>8. ASSUME NEW t \in Turns, PersistMessages(t) \/ queueUnregisterWaiter(t) \/ unlock(t) \/ releaseSessionRef(t)
      PROVE  ResetSeen'
  BY <1>8, ResetKept DEF PersistMessages, queueUnregisterWaiter, unlock, releaseSessionRef
<1>9. ASSUME NEW c \in Cancels, CancelPin(c) \/ CancelSignal(c) \/ CancelUnpin(c) PROVE ResetSeen'
  BY <1>9 DEF CancelPin, CancelSignal, CancelUnpin, ResetSeen
<1>10. CASE UNCHANGED vars
  BY <1>10 DEF vars, ResetSeen
<1> QED
  BY <1>1, <1>2, <1>3, <1>4, <1>5, <1>6, <1>7, <1>8, <1>9, <1>10 DEF Next, TurnStep

(* The transcript changes only when messages are persisted.                   *)
LEMMA TranscriptSteps ==
    [Next]_vars => transcript' = transcript \/ \E t \in Turns : PersistMessages(t)
<1> USE DEF turn, queue, agent, ghosts
<1>1. ASSUME NEW t \in Turns, TurnStep(t) PROVE transcript' = transcript \/ PersistMessages(t)
  BY <1>1 DEF TurnStep, acquireSessionForTurn, tryLock, ReadMode, queueRegisterWaiter, lock, queueDropAfterAcquire,
     recycleSessionInPlace, KeepAgent, takeQueueSummaryPrefix, activationBlocked, turnOutcome, handleSlashCommand,
     Iteration, NextIteration, Answer, Fail, queueUnregisterWaiter, unlock, releaseSessionRef
<1>2. ASSUME NEW c \in Cancels, CancelPin(c) \/ CancelSignal(c) \/ CancelUnpin(c) PROVE transcript' = transcript
  BY <1>2 DEF CancelPin, CancelSignal, CancelUnpin
<1> QED
  BY <1>1, <1>2 DEF Next, vars

(* Whatever waits, is dropped, recycled or cancelled around it, a reset that  *)
(* carries no notice empties the store only when the agent forgot as well.    *)
THEOREM ResetsAreWhole == Spec => PlainResetIsWhole
<1> DEFINE ResetInv == TypeOK /\ MutualExclusion /\ ResetSeen
<1>1. Init => ResetInv
  <2> SUFFICES ASSUME Init PROVE MutualExclusion /\ ResetSeen
    BY InitType
  <2> QED
    BY InitNotice DEF NoticeInv, Init, ResetSeen
<1>2. ResetInv /\ [Next]_vars => ResetInv'
  BY NextType, NextExclusion, NextReset
<1>3. ResetInv /\ [Next]_vars => [transcript # {} /\ transcript' = {} /\ Noticed = {} => history' = {}]_vars
  <2> SUFFICES ASSUME ResetInv, [Next]_vars, transcript # {}, transcript' = {}, Noticed = {} PROVE history' = {}
    OBVIOUS
  <2>1. PICK t \in Turns : PersistMessages(t)
    BY TranscriptSteps
  <2>2. pc[t] = "answered" /\ history' = history /\ transcript' = Persisted(t)
    BY <2>1 DEF PersistMessages, Goto, agent
  <2>3. msg[t] = "reset"
    BY <2>2 DEF Persisted, TypeOK
  <2>4. note[t] = 0
    BY <2>2 DEF Noticed, TypeOK
  <2> QED
    BY <2>2, <2>3, <2>4 DEF ResetSeen
<1> HIDE DEF ResetInv
<1> QED
  BY <1>1, <1>2, <1>3, PTL DEF Spec, PlainResetIsWhole

-----------------------------------------------------------------------------
(* Who is dropped for whom.                                                   *)

Early == {"new", "pinned", "busy", "registering"}
Gone == {"releasing", "done"}
Ends == {"blocked", "answered", "cancelled", "failed"}
Lost == {"superseded", "oldest"}

(* A turn registers once, and leaves the door at once when it is turned away; *)
(* no threshold is ahead of the numbering.                                    *)
Arrived(t) == \E i \in 1..Len(arrivals) : arrivals[i].turn = t
ArrivedOnce == \A i, j \in 1..Len(arrivals) : arrivals[i].turn = arrivals[j].turn => i = j
ArrivedAreIn == \A t \in Turns : Arrived(t) => pc[t] \notin Early
QueuedArrived == \A t \in Turns : seq[t] # 0 => Arrived(t)
DoorIsOut == \A t \in Turns : AtDoor(t) => pc[t] \in Gone
Thresholds == queue_latest_sequence <= queue_sequence /\ queue_drop_oldest_before_sequence <= queue_sequence
ArrivalInv == ArrivedOnce /\ ArrivedAreIn /\ QueuedArrived /\ DoorIsOut /\ Thresholds

(* What the two numbers a waiter is compared with remember: that a turn came  *)
(* after it in mode latest, or came after it over the cap and was let in.     *)
LatestBehind ==
    \A t \in Turns : seq[t] # 0 /\ seq[t] < queue_latest_sequence => \E a \in After(t) : a.latest
OverflowBehind ==
    \A t \in Turns : seq[t] # 0 /\ seq[t] <= queue_drop_oldest_before_sequence
        => \E a \in After(t) : a.full /\ ~AtDoor(a.turn)
DropInv == QueueInv /\ ArrivalInv /\ LatestBehind /\ OverflowBehind /\ SupersededByNewer /\ OldestByOverflow

(* Waiters have distinct sequences from 1 on.                                 *)
LEMMA WaitingBound == ASSUME QueueInv PROVE queue_waiting \in Nat /\ queue_waiting <= queue_sequence
<1> DEFINE f == [t \in Registered |-> seq[t]]
<1>1. queue_waiting \in Nat /\ queue_sequence \in Nat /\ queue_waiting = Cardinality(Registered)
  BY DEF QueueInv, TypeOK, WaitersCounted
<1>2. f \in [Registered -> 1..queue_sequence]
  BY <1>1 DEF Registered, QueueInv, TypeOK, SequencesDistinct
<1>3. IsFiniteSet(1..queue_sequence) /\ Cardinality(1..queue_sequence) = queue_sequence
  <2>1. 1 \in Int /\ queue_sequence \in Int
    BY <1>1
  <2>2. /\ IsFiniteSet(1..queue_sequence)
        /\ Cardinality(1..queue_sequence) = IF 1 > queue_sequence THEN 0 ELSE queue_sequence - 1 + 1
    BY <2>1, FS_Interval
  <2> QED
    BY <1>1, <2>2
<1>4. ASSUME Cardinality(1..queue_sequence) < Cardinality(Registered) PROVE FALSE
  <2> HIDE DEF f
  <2>1. \E x, y \in Registered : x # y /\ f[x] = f[y]
    BY <1>2, <1>3, <1>4, RegisteredFinite, FS_PigeonHole
  <2> QED
    BY <2>1 DEF f, QueueInv, SequencesDistinct
<1> QED
  BY <1>1, <1>3, <1>4

(* What the steps do to where turns are, to their fates and to the numbering. *)
LEMMA PlaceSteps ==
    ASSUME TypeOK, [Next]_vars, NEW t \in Turns
    PROVE  (pc[t] \notin Early => pc'[t] \notin Early) /\ (pc[t] \in Gone => pc'[t] \in Gone)
<1> DEFINE Onward == (pc[t] \notin Early => pc'[t] \notin Early) /\ (pc[t] \in Gone => pc'[t] \in Gone)
<1> USE DEF TypeOK, Goto, Early, Gone, turn
<1>1. ASSUME NEW u \in Turns, acquireSessionForTurn(u) \/ tryLock(u) \/ ReadMode(u) \/ queueRegisterWaiter(u) \/ lock(u)
      PROVE  Onward
  BY <1>1 DEF acquireSessionForTurn, tryLock, ReadMode, queueRegisterWaiter, lock
<1>2. ASSUME NEW u \in Turns, queueDropAfterAcquire(u) \/ recycleSessionInPlace(u) \/ KeepAgent(u) \/ takeQueueSummaryPrefix(u)
      PROVE  Onward
  BY <1>2 DEF queueDropAfterAcquire, DropExit, recycleSessionInPlace, KeepAgent, takeQueueSummaryPrefix
<1>3. ASSUME NEW u \in Turns, activationBlocked(u) \/ turnOutcome(u) \/ handleSlashCommand(u) \/ Iteration(u)
      PROVE  Onward
  BY <1>3 DEF activationBlocked, turnOutcome, handleSlashCommand, Iteration
<1>4. ASSUME NEW u \in Turns, NextIteration(u) \/ Answer(u) \/ Fail(u) \/ PersistMessages(u) PROVE Onward
  BY <1>4 DEF NextIteration, Answer, Fail, PersistMessages
<1>5. ASSUME NEW u \in Turns, queueUnregisterWaiter(u) \/ unlock(u) \/ releaseSessionRef(u) PROVE Onward
  BY <1>5 DEF queueUnregisterWaiter, unlock, releaseSessionRef
<1>6. ASSUME NEW c \in Cancels, CancelPin(c) \/ CancelSignal(c) \/ CancelUnpin(c) PROVE Onward
  BY <1>6 DEF CancelPin, CancelSignal, CancelUnpin
<1>7. CASE UNCHANGED vars
  BY <1>7 DEF vars
<1> QED
  BY <1>1, <1>2, <1>3, <1>4, <1>5, <1>6, <1>7 DEF Next, TurnStep

LEMMA FateSteps ==
    ASSUME TypeOK, [Next]_vars, NEW t \in Turns, fate'[t] # fate[t]
    PROVE  pc[t] \notin Gone /\ (fate'[t] \in Ends \/ queueDropAfterAcquire(t) \/ queueRegisterWaiter(t))
<1> USE DEF TypeOK, Goto, Gone, Ends, End
<1>1. ASSUME NEW u \in Turns, acquireSessionForTurn(u) \/ tryLock(u) \/ ReadMode(u) \/ lock(u) PROVE FALSE
  BY <1>1 DEF acquireSessionForTurn, tryLock, ReadMode, lock
<1>2. ASSUME NEW u \in Turns, queueRegisterWaiter(u) PROVE u = t /\ pc[t] \notin Gone
  BY <1>2 DEF queueRegisterWaiter
<1>3. ASSUME NEW u \in Turns, queueDropAfterAcquire(u) PROVE u = t /\ pc[t] \notin Gone
  BY <1>3 DEF queueDropAfterAcquire
<1>4. ASSUME NEW u \in Turns, recycleSessionInPlace(u) \/ KeepAgent(u) \/ takeQueueSummaryPrefix(u) \/ turnOutcome(u)
      PROVE  FALSE
  BY <1>4 DEF recycleSessionInPlace, KeepAgent, takeQueueSummaryPrefix, turnOutcome
<1>5. ASSUME NEW u \in Turns, activationBlocked(u) \/ handleSlashCommand(u) \/ Iteration(u) \/ Answer(u) \/ Fail(u)
      PROVE  pc[t] \notin Gone /\ fate'[t] \in Ends
  BY <1>5 DEF activationBlocked, handleSlashCommand, Iteration, Answer, Fail
<1>6. ASSUME NEW u \in Turns, NextIteration(u) \/ PersistMessages(u) \/ queueUnregisterWaiter(u) \/ unlock(u)
                              \/ releaseSessionRef(u)
      PROVE  FALSE
  BY <1>6 DEF NextIteration, PersistMessages, queueUnregisterWaiter, unlock, releaseSessionRef
<1>7. ASSUME NEW c \in Cancels, CancelPin(c) \/ CancelSignal(c) \/ CancelUnpin(c) PROVE FALSE
  BY <1>7 DEF CancelPin, CancelSignal, CancelUnpin, turn
<1>8. CASE UNCHANGED vars
  BY <1>8 DEF vars, turn
<1> QED
  BY <1>1, <1>2, <1>3, <1>4, <1>5, <1>6, <1>7, <1>8 DEF Next, TurnStep

numbering == <<queue_sequence, queue_latest_sequence, queue_drop_oldest_before_sequence>>
LEMMA ArrivalSteps ==
    ASSUME [Next]_vars
    PROVE  \/ UNCHANGED <<seq, arrivals, numbering>>
           \/ \E t \in Turns : queueRegisterWaiter(t)
           \/ \E t \in Turns : arrivals' = arrivals /\ (queueUnregisterWaiter(t) \/ recycleSessionInPlace(t))
<1> USE DEF turn, queue, agent, ghosts, numbering
<1>1. ASSUME NEW t \in Turns, TurnStep(t)
      PROVE  \/ UNCHANGED <<seq, arrivals, numbering>>
             \/ queueRegisterWaiter(t)
             \/ arrivals' = arrivals /\ (queueUnregisterWaiter(t) \/ recycleSessionInPlace(t))
  BY <1>1 DEF TurnStep, acquireSessionForTurn, tryLock, ReadMode, lock, queueDropAfterAcquire, KeepAgent,
     takeQueueSummaryPrefix, activationBlocked, turnOutcome, handleSlashCommand, Iteration, NextIteration,
     Answer, Fail, PersistMessages, unlock, releaseSessionRef, queueUnregisterWaiter, recycleSessionInPlace
<1>2. ASSUME NEW c \in Cancels, CancelPin(c) \/ CancelSignal(c) \/ CancelUnpin(c)
      PROVE  UNCHANGED <<seq, arrivals, numbering>>
  BY <1>2 DEF CancelPin, CancelSignal, CancelUnpin
<1>3. CASE UNCHANGED vars
  BY <1>3 DEF vars
<1> QED
  BY <1>1, <1>2, <1>3 DEF Next

(* What registering does: the newcomer is the last, and either turned away at *)
(* once, or ahead of every threshold.                                         *)
Full == ~(settings.cap = 0 \/ queue_waiting + 1 <= settings.cap)
Newcomer(t) == [turn |-> t, latest |-> settings.mode = "latest", full |-> Full]
Admitted(t) ==
    /\ seq' = [seq EXCEPT ![t] = queue_sequence + 1] /\ fate' = fate
    /\ queue_drop_oldest_before_sequence' < queue_sequence + 1
    /\ queue_drop_oldest_before_sequence' # queue_drop_oldest_before_sequence => Full
TurnedAway(t) ==
    /\ fate' = [fate EXCEPT ![t] = settings.drop] /\ settings.drop \in {"newest", "summarize"}
    /\ seq' = seq /\ UNCHANGED queue_drop_oldest_before_sequence
LEMMA Registering ==
    ASSUME QueueInv, ArrivalInv, NEW t \in Turns, queueRegisterWaiter(t)
    PROVE  /\ arrivals' = Append(arrivals, Newcomer(t)) /\ queue_sequence' = queue_sequence + 1
           /\ queue_latest_sequence' = IF settings.mode = "latest" THEN queue_sequence + 1 ELSE queue_latest_sequence
           /\ seq[t] = 0 /\ pc[t] = "registering"
           /\ Admitted(t) \/ TurnedAway(t)
<1> DEFINE s == queue_sequence + 1
           fits == settings.cap = 0 \/ queue_waiting + 1 <= settings.cap
           over == queue_waiting + 1 - settings.cap
<1>1. /\ queue_sequence \in Nat /\ queue_latest_sequence \in Nat /\ queue_drop_oldest_before_sequence \in Nat
      /\ queue_waiting \in Nat /\ queue_waiting <= queue_sequence
      /\ settings.cap \in Nat /\ settings.drop \in Drops /\ seq \in [Turns -> Nat]
  BY WaitingBound DEF QueueInv, TypeOK, SettingsType
<1>2. pc[t] = "registering" /\ seq[t] = 0
  BY DEF queueRegisterWaiter, Goto, QueueInv, RegisteredInQueue, Unqueued
<1>3. queue_latest_sequence <= queue_sequence /\ queue_drop_oldest_before_sequence <= queue_sequence
  BY DEF ArrivalInv, Thresholds
<1>4. ASSUME ~fits PROVE DropBefore(s, over) < s
  BY <1>1, <1>4 DEF DropBefore
<1>5. ASSUME fits \/ settings.drop = "oldest" PROVE Admitted(t)
  <2>1. seq' = [seq EXCEPT ![t] = s] /\ fate' = fate
    BY <1>5 DEF queueRegisterWaiter
  <2>3. \/ queue_drop_oldest_before_sequence' = queue_drop_oldest_before_sequence
        \/ ~fits /\ queue_drop_oldest_before_sequence' = DropBefore(s, over)
    <3>1. queue_drop_oldest_before_sequence' =
              IF ~fits /\ settings.drop = "oldest" /\ DropBefore(s, over) > queue_drop_oldest_before_sequence
              THEN DropBefore(s, over) ELSE queue_drop_oldest_before_sequence
      BY <1>1 DEF queueRegisterWaiter, DropBefore
    <3> QED
      BY <3>1
  <2>5. queue_drop_oldest_before_sequence' < s
    BY <1>1, <1>3, <1>4, <2>3
  <2> QED
    BY <2>1, <2>3, <2>5 DEF Admitted, Full
<1>6. ASSUME ~(fits \/ settings.drop = "oldest") PROVE TurnedAway(t)
  <2>1. seq' = [seq EXCEPT ![t] = 0] /\ fate' = [fate EXCEPT ![t] = settings.drop]
    BY <1>6 DEF queueRegisterWaiter
  <2>2. seq' = seq
    BY <1>1, <1>2, <2>1
  <2>3. settings.drop \in {"newest", "summarize"}
    BY <1>1, <1>6 DEF Drops
  <2>4. UNCHANGED queue_drop_oldest_before_sequence
    BY <1>6 DEF queueRegisterWaiter
  <2> QED
    BY <2>1, <2>2, <2>3, <2>4 DEF TurnedAway
<1>7. arrivals' = Append(arrivals, Newcomer(t)) /\ queue_sequence' = s
      /\ queue_latest_sequence' = IF settings.mode = "latest" THEN s ELSE queue_latest_sequence
  BY DEF queueRegisterWaiter, Newcomer, Full
<1> QED
  BY <1>2, <1>5, <1>6, <1>7

(* Turns that unregister or recycle the session only take away.               *)
LEMMA Unregistering ==
    ASSUME TypeOK, NEW t \in Turns, queueUnregisterWaiter(t)
    PROVE  /\ UNCHANGED <<queue_sequence, queue_latest_sequence>>
           /\ queue_drop_oldest_before_sequence' \in {0, queue_drop_oldest_before_sequence}
           /\ \A u \in Turns : seq'[u] \in {0, seq[u]}
BY DEF queueUnregisterWaiter, TypeOK, queue

LEMMA Recycling ==
    ASSUME QueueInv, NEW t \in Turns, recycleSessionInPlace(t)
    PROVE  /\ seq' = seq /\ queue_drop_oldest_before_sequence' = 0
           /\ \/ \A u \in Turns : seq[u] = 0
              \/ UNCHANGED <<queue_sequence, queue_latest_sequence>>
           /\ queue_latest_sequence <= queue_sequence => queue_latest_sequence' <= queue_sequence'
<1>1. CASE queue_waiting = 0
  <2>1. Registered = {}
    BY <1>1, RegisteredFinite, FS_EmptySet DEF QueueInv, WaitersCounted
  <2> QED
    BY <1>1, <2>1 DEF recycleSessionInPlace, SequenceAfterRecycle, Registered
<1>2. CASE queue_waiting # 0
  BY <1>2 DEF recycleSessionInPlace, SequenceAfterRecycle
<1> QED
  BY <1>1, <1>2

(* The turns after t only grow, include every later newcomer, and are closed: *)
(* who came after one of them came after t.                                   *)
LEMMA AfterSpelled ==
    ASSUME TypeOK, NEW t \in Turns, NEW a
    PROVE  a \in After(t) <=>
               \E i, k \in 1..Len(arrivals) : i < k /\ arrivals[i].turn = t /\ arrivals[k] = a
<1>1. arrivals \in Seq(Arrival)
  BY DEF TypeOK
<1>2. DOMAIN arrivals = 1..Len(arrivals) /\ Len(arrivals) \in Nat
  BY <1>1
<1> QED
  BY <1>2 DEF After

LEMMA AfterArrived ==
    ASSUME TypeOK, NEW t \in Turns, NEW a \in After(t)
    PROVE  a.turn \in Turns /\ Arrived(a.turn)
<1>1. PICK k \in 1..Len(arrivals) : arrivals[k] = a
  BY AfterSpelled
<1>2. arrivals[k] \in Arrival
  BY DEF TypeOK
<1> QED
  BY <1>1, <1>2 DEF Arrived, Arrival

LEMMA AfterClosed ==
    ASSUME TypeOK, ArrivedOnce, NEW t \in Turns, NEW a \in After(t)
    PROVE  a.turn # t /\ After(a.turn) \subseteq After(t)
<1>1. PICK i, k \in 1..Len(arrivals) : i < k /\ arrivals[i].turn = t /\ arrivals[k] = a
  BY AfterSpelled
<1>2. a.turn # t
  BY <1>1 DEF ArrivedOnce
<1>3. ASSUME NEW b \in After(a.turn) PROVE b \in After(t)
  <2>1. PICK j, l \in 1..Len(arrivals) : j < l /\ arrivals[j].turn = a.turn /\ arrivals[l] = b
    BY AfterArrived, AfterSpelled
  <2>2. j = k
    BY <1>1, <2>1 DEF ArrivedOnce
  <2>3. i < l
    BY <1>1, <2>1, <2>2
  <2> QED
    BY <1>1, <2>1, <2>3, AfterSpelled
<1> QED
  BY <1>2, <1>3

LEMMA AfterGrows ==
    ASSUME TypeOK, TypeOK', NEW t \in Turns,
           arrivals' = arrivals \/ \E r \in Arrival : arrivals' = Append(arrivals, r)
    PROVE  After(t) \subseteq After(t)'
<1>1. CASE arrivals' = arrivals
  BY <1>1 DEF After
<1>2. ASSUME NEW r \in Arrival, arrivals' = Append(arrivals, r), NEW a \in After(t) PROVE a \in After(t)'
  <2>1. PICK i, k \in 1..Len(arrivals) : i < k /\ arrivals[i].turn = t /\ arrivals[k] = a
    BY AfterSpelled
  <2>2. arrivals \in Seq(Arrival)
    BY DEF TypeOK
  <2>3. Len(arrivals') = Len(arrivals) + 1 /\ arrivals'[i] = arrivals[i] /\ arrivals'[k] = arrivals[k]
    BY <1>2, <2>1, <2>2
  <2>4. DOMAIN arrivals' = 1..Len(arrivals') /\ Len(arrivals) \in Nat
    BY <2>2 DEF TypeOK
  <2> QED
    BY <2>1, <2>3, <2>4 DEF After
<1> QED
  BY <1>1, <1>2

LEMMA AfterNew ==
    ASSUME TypeOK, TypeOK', NEW t \in Turns, Arrived(t), NEW r \in Arrival, arrivals' = Append(arrivals, r)
    PROVE  r \in After(t)'
<1>1. PICK i \in 1..Len(arrivals) : arrivals[i].turn = t
  BY DEF Arrived
<1>2. arrivals \in Seq(Arrival)
  BY DEF TypeOK
<1>3. Len(arrivals') = Len(arrivals) + 1 /\ arrivals'[i] = arrivals[i] /\ arrivals'[Len(arrivals) + 1] = r
  BY <1>1, <1>2
<1>4. DOMAIN arrivals' = 1..Len(arrivals') /\ Len(arrivals) \in Nat
  BY <1>2 DEF TypeOK
<1>5. Len(arrivals) + 1 \in DOMAIN arrivals' /\ i \in 1..(Len(arrivals) + 1 - 1)
  BY <1>1, <1>3, <1>4
<1> QED
  BY <1>1, <1>3, <1>5 DEF After

(* Every step keeps the facts about arrivals.                                 *)
LEMMA NewcomerType == ASSUME QueueInv, NEW t \in Turns PROVE Newcomer(t) \in Arrival
BY DEF Newcomer, Arrival, Full

LEMMA ArrivalsStep ==
    ASSUME QueueInv, ArrivalInv, [Next]_vars
    PROVE  arrivals' = arrivals \/ \E r \in Arrival : arrivals' = Append(arrivals, r)
BY ArrivalSteps, Registering, NewcomerType

LEMMA ArrivalStep == ASSUME QueueInv, ArrivalInv, [Next]_vars PROVE ArrivalInv'
<1>0. TypeOK /\ TypeOK' /\ arrivals \in Seq(Arrival)
  BY NextType DEF QueueInv, TypeOK
<1>1. ASSUME arrivals' = arrivals PROVE ArrivedOnce' /\ ArrivedAreIn'
  BY <1>0, <1>1, PlaceSteps DEF ArrivalInv, ArrivedOnce, ArrivedAreIn, Arrived
<1>2. DoorIsOut'
  <2> SUFFICES ASSUME NEW t \in Turns, AtDoor(t)' PROVE pc'[t] \in Gone
    BY DEF DoorIsOut
  <2>1. CASE fate'[t] = fate[t]
    <3>1. AtDoor(t)
      BY <2>1 DEF AtDoor
    <3> QED
      BY <1>0, <3>1, PlaceSteps DEF ArrivalInv, DoorIsOut
  <2>2. CASE fate'[t] # fate[t]
    <3>1. ~queueDropAfterAcquire(t) /\ fate'[t] \notin Ends
      BY <1>0, <2>2 DEF AtDoor, Ends, queueDropAfterAcquire, End, TypeOK
    <3>2. queueRegisterWaiter(t)
      BY <1>0, <2>2, <3>1, FateSteps
    <3>3. TurnedAway(t)
      BY <2>2, <3>2, Registering DEF Admitted
    <3>4. pc'[t] = "releasing"
      <4>1. settings.drop # "oldest"
        BY <3>3 DEF TurnedAway
      <4>2. fate' # fate
        BY <2>2
      <4> QED
        BY <1>0, <3>2, <4>1, <4>2 DEF queueRegisterWaiter, Goto, TypeOK
    <3> QED
      BY <3>4 DEF Gone
  <2> QED
    BY <2>1, <2>2
<1>3. CASE UNCHANGED <<seq, arrivals, numbering>>
  BY <1>1, <1>2, <1>3 DEF ArrivalInv, QueuedArrived, Thresholds, Arrived, numbering
<1>4. ASSUME NEW t \in Turns, queueRegisterWaiter(t) PROVE ArrivalInv'
  <2>1. /\ arrivals' = Append(arrivals, Newcomer(t)) /\ queue_sequence' = queue_sequence + 1
        /\ queue_latest_sequence' = IF settings.mode = "latest" THEN queue_sequence + 1 ELSE queue_latest_sequence
        /\ seq[t] = 0 /\ pc[t] = "registering"
        /\ Admitted(t) \/ TurnedAway(t)
    BY <1>4, Registering
  <2>2. /\ Len(arrivals') = Len(arrivals) + 1 /\ Len(arrivals) \in Nat
        /\ \A i \in 1..Len(arrivals) : arrivals'[i] = arrivals[i]
        /\ arrivals'[Len(arrivals) + 1] = Newcomer(t)
    BY <1>0, <2>1
  <2>3. Newcomer(t).turn = t
    BY DEF Newcomer
  <2>4. \A i \in 1..Len(arrivals') : i \in 1..Len(arrivals) \/ i = Len(arrivals) + 1
    BY <2>2
  <2>5. ~Arrived(t)
    BY <2>1 DEF ArrivalInv, ArrivedAreIn, Early
  <2>6. ArrivedOnce'
    BY <2>2, <2>3, <2>4, <2>5 DEF ArrivedOnce, Arrived, ArrivalInv
  <2>7. ArrivedAreIn'
    <3> SUFFICES ASSUME NEW u \in Turns, Arrived(u)' PROVE pc'[u] \notin Early
      BY DEF ArrivedAreIn
    <3>1. CASE u = t
      BY <1>0, <1>4, <3>1 DEF queueRegisterWaiter, Goto, Early, TypeOK
    <3>2. CASE u # t
      <4>1. Arrived(u)
        BY <2>2, <2>3, <2>4, <3>2 DEF Arrived
      <4> QED
        BY <1>0, <4>1, PlaceSteps DEF ArrivalInv, ArrivedAreIn
    <3> QED
      BY <3>1, <3>2
  <2>8. QueuedArrived'
    <3> SUFFICES ASSUME NEW u \in Turns, seq'[u] # 0 PROVE Arrived(u)'
      BY DEF QueuedArrived
    <3>1. CASE u = t
      <4>1. Len(arrivals) + 1 \in 1..Len(arrivals')
        BY <2>2
      <4> QED
        BY <2>2, <2>3, <3>1, <4>1 DEF Arrived
    <3>2. CASE u # t
      <4>1. seq[u] # 0
        BY <1>0, <2>1, <3>2 DEF Admitted, TurnedAway, TypeOK
      <4>2. PICK i \in 1..Len(arrivals) : arrivals[i].turn = u
        BY <4>1 DEF ArrivalInv, QueuedArrived, Arrived
      <4>3. i \in 1..Len(arrivals')
        BY <2>2
      <4> QED
        BY <2>2, <4>2, <4>3 DEF Arrived
    <3> QED
      BY <3>1, <3>2
  <2>9. Thresholds'
    <3>1. queue_sequence \in Nat /\ queue_latest_sequence \in Nat /\ queue_drop_oldest_before_sequence \in Nat
          /\ queue_drop_oldest_before_sequence' \in Nat
      BY <1>0 DEF TypeOK
    <3> QED
      BY <2>1, <3>1 DEF ArrivalInv, Thresholds, Admitted, TurnedAway
  <2> QED
    BY <1>2, <2>6, <2>7, <2>8, <2>9 DEF ArrivalInv
<1>5. ASSUME NEW t \in Turns, arrivals' = arrivals, queueUnregisterWaiter(t) PROVE ArrivalInv'
  <2>1. /\ UNCHANGED <<queue_sequence, queue_latest_sequence>>
        /\ queue_drop_oldest_before_sequence' \in {0, queue_drop_oldest_before_sequence}
        /\ \A u \in Turns : seq'[u] \in {0, seq[u]}
    BY <1>0, <1>5, Unregistering
  <2>2. Thresholds'
    BY <1>0, <2>1 DEF ArrivalInv, Thresholds, TypeOK
  <2>3. QueuedArrived'
    BY <1>5, <2>1 DEF ArrivalInv, QueuedArrived, Arrived
  <2> QED
    BY <1>1, <1>2, <1>5, <2>2, <2>3 DEF ArrivalInv
<1>6. ASSUME NEW t \in Turns, arrivals' = arrivals, recycleSessionInPlace(t) PROVE ArrivalInv'
  <2>1. /\ seq' = seq /\ queue_drop_oldest_before_sequence' = 0
        /\ queue_latest_sequence <= queue_sequence => queue_latest_sequence' <= queue_sequence'
    BY <1>6, Recycling
  <2>2. Thresholds'
    BY <1>0, <2>1 DEF ArrivalInv, Thresholds, TypeOK
  <2>3. QueuedArrived'
    BY <1>6, <2>1 DEF ArrivalInv, QueuedArrived, Arrived
  <2> QED
    BY <1>1, <1>2, <1>6, <2>2, <2>3 DEF ArrivalInv
<1> QED
  BY <1>3, <1>4, <1>5, <1>6, ArrivalSteps

(* Who has arrived was turned away then or never.                             *)
LEMMA DoorSettled ==
    ASSUME QueueInv, ArrivalInv, [Next]_vars, NEW t \in Turns, Arrived(t)
    PROVE  AtDoor(t)' <=> AtDoor(t)
<1>0. TypeOK
  BY DEF QueueInv
<1>1. CASE fate'[t] = fate[t]
  BY <1>1 DEF AtDoor
<1>2. CASE fate'[t] # fate[t]
  <2>1. pc[t] \notin Gone /\ pc[t] \notin Early
    BY <1>0, <1>2, FateSteps DEF ArrivalInv, ArrivedAreIn
  <2>2. ~AtDoor(t)
    BY <2>1 DEF ArrivalInv, DoorIsOut
  <2>3. ~queueRegisterWaiter(t)
    BY <2>1 DEF queueRegisterWaiter, Goto, Early
  <2>4. fate'[t] \in Ends \/ queueDropAfterAcquire(t)
    BY <1>0, <1>2, <2>3, FateSteps
  <2>5. ~AtDoor(t)'
    BY <1>0, <2>2, <2>4 DEF AtDoor, Ends, queueDropAfterAcquire, End, TypeOK
  <2> QED
    BY <2>2, <2>5
<1> QED
  BY <1>1, <1>2

(* Every step keeps what the two numbers remember.                            *)
LEMMA BehindStep ==
    ASSUME DropInv, [Next]_vars, ArrivalInv', TypeOK'
    PROVE  LatestBehind' /\ OverflowBehind'
<1>0. TypeOK /\ QueueInv /\ ArrivalInv
  BY DEF DropInv, QueueInv
<1>1. \A t \in Turns : After(t) \subseteq After(t)'
  BY <1>0, ArrivalsStep, AfterGrows
<1>2. ASSUME NEW t \in Turns, NEW a \in After(t) PROVE AtDoor(a.turn)' <=> AtDoor(a.turn)
  BY <1>0, AfterArrived, DoorSettled
<1>3. ASSUME NEW t \in Turns, seq[t] # 0, seq[t] < queue_latest_sequence PROVE \E a \in After(t)' : a.latest
  BY <1>1, <1>3 DEF DropInv, LatestBehind
<1>4. ASSUME NEW t \in Turns, seq[t] # 0, seq[t] <= queue_drop_oldest_before_sequence
      PROVE  \E a \in After(t)' : a.full /\ ~AtDoor(a.turn)'
  <2>1. PICK a \in After(t) : a.full /\ ~AtDoor(a.turn)
    BY <1>4 DEF DropInv, OverflowBehind
  <2>2. a \in After(t)' /\ ~AtDoor(a.turn)'
    BY <1>1, <1>2, <2>1
  <2> QED
    BY <2>1, <2>2
<1>5. CASE UNCHANGED <<seq, arrivals, numbering>>
  BY <1>3, <1>4, <1>5 DEF LatestBehind, OverflowBehind, numbering
<1>6. ASSUME NEW t \in Turns, queueUnregisterWaiter(t) PROVE LatestBehind' /\ OverflowBehind'
  <2>1. /\ UNCHANGED <<queue_sequence, queue_latest_sequence>>
        /\ queue_drop_oldest_before_sequence' \in {0, queue_drop_oldest_before_sequence}
        /\ \A u \in Turns : seq'[u] \in {0, seq[u]}
    BY <1>0, <1>6, Unregistering
  <2>2. \A u \in Turns : seq[u] \in Nat
    BY <1>0 DEF TypeOK
  <2> QED
    BY <1>3, <1>4, <2>1, <2>2 DEF LatestBehind, OverflowBehind
<1>7. ASSUME NEW t \in Turns, recycleSessionInPlace(t) PROVE LatestBehind' /\ OverflowBehind'
  <2>1. /\ seq' = seq /\ queue_drop_oldest_before_sequence' = 0
        /\ (\A u \in Turns : seq[u] = 0) \/ UNCHANGED queue_latest_sequence
    BY <1>0, <1>7, Recycling
  <2>2. \A u \in Turns : seq[u] \in Nat
    BY <1>0 DEF TypeOK
  <2> QED
    BY <1>3, <2>1, <2>2 DEF LatestBehind, OverflowBehind
<1>8. ASSUME NEW t \in Turns, queueRegisterWaiter(t) PROVE LatestBehind' /\ OverflowBehind'
  <2>1. /\ arrivals' = Append(arrivals, Newcomer(t)) /\ queue_sequence' = queue_sequence + 1
        /\ queue_latest_sequence' = IF settings.mode = "latest" THEN queue_sequence + 1 ELSE queue_latest_sequence
        /\ seq[t] = 0
        /\ Admitted(t) \/ TurnedAway(t)
    BY <1>0, <1>8, Registering
  <2>2. \A u \in Turns : Arrived(u) => Newcomer(t) \in After(u)'
    BY <1>0, <2>1, AfterNew, NewcomerType
  <2>3. Newcomer(t).turn = t /\ Newcomer(t).latest = (settings.mode = "latest") /\ Newcomer(t).full = Full
    BY DEF Newcomer
  <2>4. queue_sequence \in Nat /\ queue_latest_sequence \in Nat /\ queue_latest_sequence' <= queue_sequence + 1
        /\ seq \in [Turns -> Nat] /\ queue_latest_sequence' \in Nat
    BY <1>0, <2>1 DEF TypeOK, ArrivalInv, Thresholds
  <2>5. ASSUME NEW u \in Turns, seq'[u] # 0, u # t PROVE seq'[u] = seq[u] /\ Arrived(u)
    BY <1>0, <2>1, <2>4, <2>5 DEF Admitted, TurnedAway, ArrivalInv, QueuedArrived
  <2>6. seq'[t] # 0 => seq'[t] = queue_sequence + 1 /\ Admitted(t)
    BY <2>1, <2>4 DEF Admitted, TurnedAway
  <2>7. LatestBehind'
    <3> SUFFICES ASSUME NEW u \in Turns, seq'[u] # 0, seq'[u] < queue_latest_sequence'
                 PROVE  \E a \in After(u)' : a.latest
      BY DEF LatestBehind
    <3>1. u # t
      BY <2>4, <2>6
    <3>2. CASE settings.mode = "latest"
      BY <2>2, <2>3, <2>5, <3>1, <3>2
    <3>3. CASE settings.mode # "latest"
      BY <1>3, <2>1, <2>5, <3>1, <3>3
    <3> QED
      BY <3>2, <3>3
  <2>8. OverflowBehind'
    <3> SUFFICES ASSUME NEW u \in Turns, seq'[u] # 0, seq'[u] <= queue_drop_oldest_before_sequence'
                 PROVE  \E a \in After(u)' : a.full /\ ~AtDoor(a.turn)'
      BY DEF OverflowBehind
    <3>1. u # t
      <4>1. queue_drop_oldest_before_sequence' \in Nat
        BY DEF TypeOK
      <4> QED
        BY <2>4, <2>6, <4>1 DEF Admitted
    <3>2. CASE queue_drop_oldest_before_sequence' = queue_drop_oldest_before_sequence
      BY <1>4, <2>5, <3>1, <3>2
    <3>3. CASE queue_drop_oldest_before_sequence' # queue_drop_oldest_before_sequence
      <4>1. Admitted(t) /\ Full
        BY <2>1, <3>3 DEF Admitted, TurnedAway
      <4>2. ~AtDoor(t)
        <5>1. pc[t] = "registering"
          BY <1>0, <1>8, Registering
        <5> QED
          BY <1>0, <5>1 DEF ArrivalInv, DoorIsOut, Gone
      <4>3. ~AtDoor(t)'
        BY <4>1, <4>2 DEF Admitted, AtDoor
      <4> QED
        BY <2>2, <2>3, <2>5, <3>1, <4>1, <4>3
    <3> QED
      BY <3>2, <3>3
  <2> QED
    BY <2>7, <2>8
<1> QED
  BY <1>5, <1>6, <1>7, <1>8, ArrivalSteps

(* A turn that queueDropAfterAcquire drops has a later one that is kept, and  *)
(* so has every turn that was dropped before it.                              *)
LEMMA DroppedHasNewer ==
    ASSUME DropInv, NEW d \in Turns, queueDropAfterAcquire(d), fate'[d] # fate[d]
    PROVE  /\ fate'[d] = "superseded" => \E a \in After(d) : a.latest
           /\ fate'[d] = "oldest" => \E a \in After(d) : a.full /\ ~AtDoor(a.turn)
           /\ \E a \in After(d) : a.latest \/ ~AtDoor(a.turn)
<1>0. TypeOK
  BY DEF DropInv, QueueInv
<1>1. CASE seq[d] # 0 /\ Superseded(seq[d]) /\ End(d, "superseded")
  <2>1. seq[d] < queue_latest_sequence /\ fate'[d] = "superseded"
    BY <1>0, <1>1 DEF Superseded, End, TypeOK
  <2> QED
    BY <1>1, <2>1 DEF DropInv, LatestBehind
<1>2. CASE seq[d] # 0 /\ TooOld(seq[d]) /\ End(d, "oldest")
  <2>1. seq[d] <= queue_drop_oldest_before_sequence /\ fate'[d] = "oldest"
    BY <1>0, <1>2 DEF TooOld, End, TypeOK
  <2> QED
    BY <1>2, <2>1 DEF DropInv, OverflowBehind
<1> QED
  BY <1>1, <1>2 DEF queueDropAfterAcquire

LEMMA DropStep ==
    ASSUME DropInv, [Next]_vars, ArrivalInv', TypeOK'
    PROVE  SupersededByNewer' /\ OldestByOverflow'
<1>0. TypeOK /\ QueueInv /\ ArrivalInv
  BY DEF DropInv, QueueInv
<1>1. \A t \in Turns : After(t) \subseteq After(t)'
  BY <1>0, ArrivalsStep, AfterGrows
<1>2. ASSUME NEW t \in Turns, NEW a \in After(t)
      PROVE  a.turn \in Turns /\ (AtDoor(a.turn)' <=> AtDoor(a.turn)) /\ a.turn # t /\ After(a.turn) \subseteq After(t)
  BY <1>0, AfterArrived, AfterClosed, DoorSettled DEF ArrivalInv
<1>3. ASSUME NEW t \in Turns, fate'[t] \in Lost, fate'[t] # fate[t] PROVE queueDropAfterAcquire(t)
  <2>1. fate'[t] \notin Ends
    BY <1>3 DEF Lost, Ends
  <2>2. ASSUME queueRegisterWaiter(t) PROVE FALSE
    <3>1. TurnedAway(t)
      BY <1>0, <1>3, <2>2, Registering DEF Admitted
    <3> QED
      BY <1>0, <1>3, <3>1 DEF TurnedAway, Lost, TypeOK
  <2> QED
    BY <1>0, <1>3, <2>1, <2>2, FateSteps
<1>4. ASSUME NEW d \in Turns, fate'[d] \in Lost, fate'[d] # fate[d]
      PROVE  Succeeded(d)' /\ \A t \in Turns : After(t)' = After(t)
  <2>1. queueDropAfterAcquire(d)
    BY <1>3, <1>4
  <2>2. \A t \in Turns : t # d => fate'[t] = fate[t]
    BY <1>0, <2>1 DEF queueDropAfterAcquire, End, TypeOK
  <2>3. PICK a \in After(d) : a.latest \/ ~AtDoor(a.turn)
    BY <1>4, <2>1, DroppedHasNewer
  <2>4. PICK b \in After(d) : fate[b.turn] \notin Lost /\ (AtDoor(b.turn) => b.latest)
    <3>1. CASE fate[a.turn] \notin Lost
      BY <2>3, <3>1
    <3>2. CASE fate[a.turn] \in Lost
      <4>1. a.turn \in Turns /\ Succeeded(a.turn)
        BY <1>2, <3>2 DEF DropInv, SupersededByNewer, OldestByOverflow, Lost
      <4>2. PICK b \in After(a.turn) : fate[b.turn] \notin Lost /\ (AtDoor(b.turn) => b.latest)
        BY <4>1 DEF Succeeded, Lost
      <4>3. b \in After(d)
        BY <1>2, <4>2
      <4> QED
        BY <4>2, <4>3
    <3> QED
      BY <3>1, <3>2
  <2>5. b.turn \in Turns /\ b.turn # d /\ b \in After(d)' /\ (AtDoor(b.turn)' <=> AtDoor(b.turn))
    BY <1>1, <1>2
  <2>6. fate'[b.turn] \notin Lost
    BY <2>2, <2>4, <2>5
  <2>7. \A t \in Turns : After(t)' = After(t)
    BY <2>1 DEF queueDropAfterAcquire, ghosts, After
  <2> QED
    BY <2>4, <2>5, <2>6, <2>7 DEF Succeeded, Lost
<1>5. ASSUME NEW t \in Turns, Succeeded(t) PROVE Succeeded(t)'
  <2>1. PICK a \in After(t) : fate[a.turn] \notin Lost /\ (AtDoor(a.turn) => a.latest)
    BY <1>5 DEF Succeeded, Lost
  <2>2. a.turn \in Turns /\ a \in After(t)' /\ (AtDoor(a.turn)' <=> AtDoor(a.turn))
    BY <1>1, <1>2
  <2>3. CASE fate'[a.turn] \notin Lost
    BY <2>1, <2>2, <2>3 DEF Succeeded, Lost
  <2>4. CASE fate'[a.turn] \in Lost
    <3>1. Succeeded(a.turn)'
      BY <1>4, <2>1, <2>2, <2>4
    <3>2. After(a.turn)' \subseteq After(t)'
      BY <1>2, <1>4, <2>1, <2>2, <2>4
    <3> QED
      BY <3>1, <3>2 DEF Succeeded
  <2> QED
    BY <2>3, <2>4
<1>6. ASSUME NEW t \in Turns, fate'[t] \in Lost PROVE Succeeded(t)'
  <2>1. CASE fate'[t] # fate[t]
    BY <1>4, <1>6, <2>1
  <2>2. CASE fate'[t] = fate[t]
    BY <1>5, <1>6, <2>2 DEF DropInv, SupersededByNewer, OldestByOverflow, Lost
  <2> QED
    BY <2>1, <2>2
<1>7. ASSUME NEW t \in Turns, fate'[t] = "superseded" PROVE \E a \in After(t)' : a.latest
  <2>1. \E a \in After(t) : a.latest
    BY <1>3, <1>7, DroppedHasNewer DEF DropInv, SupersededByNewer, Lost
  <2> QED
    BY <1>1, <2>1
<1>8. ASSUME NEW t \in Turns, fate'[t] = "oldest" PROVE \E a \in After(t)' : a.full /\ ~AtDoor(a.turn)'
  <2>1. PICK a \in After(t) : a.full /\ ~AtDoor(a.turn)
    BY <1>3, <1>8, DroppedHasNewer DEF DropInv, OldestByOverflow, Lost
  <2>2. a \in After(t)' /\ ~AtDoor(a.turn)'
    BY <1>1, <1>2, <2>1
  <2> QED
    BY <2>1, <2>2
<1> QED
  BY <1>6, <1>7, <1>8 DEF SupersededByNewer, OldestByOverflow, Lost

LEMMA DropInit == Init => DropInv
<1> SUFFICES ASSUME Init PROVE DropInv
  OBVIOUS
<1>1. Len(arrivals) = 0 /\ 1..0 = {}
  BY DEF Init
<1>2. ASSUME NEW t \in Turns PROVE ~AtDoor(t) /\ fate[t] \notin Lost /\ seq[t] = 0
  BY NoFateAssumption DEF Init, AtDoor, Lost, Drops
<1>3. ArrivalInv
  <2>1. ArrivedOnce /\ ArrivedAreIn
    BY <1>1 DEF ArrivedOnce, ArrivedAreIn, Arrived
  <2>2. QueuedArrived /\ DoorIsOut
    BY <1>2 DEF QueuedArrived, DoorIsOut
  <2>3. Thresholds
    BY DEF Init, Thresholds
  <2> QED
    BY <2>1, <2>2, <2>3 DEF ArrivalInv
<1>4. LatestBehind /\ OverflowBehind
  BY <1>2 DEF LatestBehind, OverflowBehind
<1>5. SupersededByNewer /\ OldestByOverflow
  BY <1>2 DEF SupersededByNewer, OldestByOverflow, Lost
<1> QED
  BY <1>3, <1>4, <1>5, InitQueue DEF DropInv

LEMMA DropInvariant == Spec => []DropInv
<1>1. DropInv /\ [Next]_vars => DropInv'
  <2> SUFFICES ASSUME DropInv, [Next]_vars PROVE DropInv'
    OBVIOUS
  <2>1. QueueInv' /\ TypeOK'
    BY NextQueue DEF DropInv, QueueInv
  <2>2. ArrivalInv'
    BY ArrivalStep DEF DropInv
  <2> QED
    BY <2>1, <2>2, BehindStep, DropStep DEF DropInv
<1> QED
  BY <1>1, DropInit, PTL DEF Spec

(* Whatever the settings, however often they change and however often the     *)
(* session is recycled meanwhile: a superseded turn gives way to one that     *)
(* came after it in mode latest, and of the later ones not all are dropped    *)
(* while they wait.                                                           *)
THEOREM SupersededForNewer == Spec => []SupersededByNewer
BY DropInvariant, PTL DEF DropInv

(* As generally: a turn is dropped as the oldest only for one that came after *)
(* it, over the cap, and was let in; no threshold outlives a recycle and hits *)
(* a turn nobody came after.                                                  *)
THEOREM OldestForOverflow == Spec => []OldestByOverflow
BY DropInvariant, PTL DEF DropInv
=============================================================================
