---------------------------- MODULE TenantSessions ----------------------------
(* What a turn runs on: the runtime of its tenant, which the gateway keeps in *)
(* a cache (TenantRuntimeCache), and in it the session, which the runtime's   *)
(* session manager keeps (SessionManager).  Each level frees what it keeps    *)
(* while requests point to it, and asks the level below whether a turn is at  *)
(* work: hasActiveTurns is TRUE while a turn has pinned a session.  A         *)
(* behaviour is that of one level.                                            *)
EXTENDS TenantRuntimeCache

CONSTANTS Keys, Objects, Cancels, Peekers, Probes, Sweepers, Purgers, Deleters, MaxSessionsPerUser, WorkersMayHang

VARIABLES
    level, \* "runtimes" or "sessions"
    sessions, mutex, phase, keyOf, active_refs, lock, worker, pc, ptr, candidates, to_remove, shutdown,
    flushed, crashed

Manager == INSTANCE SessionManager

(* What SessionManager says of its constants.                                 *)
ASSUME ManagerAssumption ==
    /\ Turns \cap Cancels = {} /\ Peekers \cap Probes = {} /\ Sweepers \cap Purgers = {}
    /\ Manager!Pinners \cap (Peekers \cup Probes) = {} /\ Manager!Evictors \cap Deleters = {}
    /\ (Manager!Pinners \cup Peekers \cup Probes) \cap (Manager!Evictors \cup Deleters) = {}
    /\ None \notin Objects \cup Manager!Threads \cup Keys
    /\ IsFiniteSet(Manager!Pinners) /\ IsFiniteSet(Keys)
    /\ MaxSessionsPerUser \in Nat /\ WorkersMayHang \in BOOLEAN

runtimes == vars
manager == <<sessions, mutex, phase, keyOf, active_refs, lock, worker, pc, ptr, candidates, to_remove, shutdown,
             flushed, crashed>>

LevelsInit == level \in {"runtimes", "sessions"} /\ Init /\ Manager!Init

LevelsNext ==
    /\ level' = level
    /\ \/ level = "runtimes" /\ Next /\ UNCHANGED manager
       \/ level = "sessions" /\ Manager!Next /\ UNCHANGED runtimes

LevelsSpec == LevelsInit /\ [][LevelsNext]_<<level, runtimes, manager>>

-----------------------------------------------------------------------------
(* No thread or lifecycle worker ever touches a session that was destroyed.   *)
NoUseAfterFree == Manager!NoUseAfterFree

(* One conversation is run by one turn at a time, also when its session was   *)
(* evicted and created again in between.                                      *)
OneTurnPerKey == Manager!OneTurnPerKey
=============================================================================
