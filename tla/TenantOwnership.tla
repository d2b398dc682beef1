---------------------------- MODULE TenantOwnership ----------------------------
(* Whose requests may work for a user: maybeAcquireTenantOwnershipLock        *)
(* (src/src/gateway.zig) asks for a lease in Postgres (UserLease) or, on a    *)
(* deployment without it, for the lock in a file (FileLock).                  *)
EXTENDS UserLease

CONSTANTS Files, MaxFileNow

ASSUME FileLockAssumption == LeaseSecs # 0 /\ MaxFileNow \in Nat /\ None \notin Files

VARIABLES
    backend, \* tenantOwnershipUsesPostgresLease: "postgres" or "file"
    path, content, fd, exposed, file_now, file_pc, file_seen, file_until

File == INSTANCE FileLock
        WITH now <- file_now, pc <- file_pc, seen <- file_seen, until <- file_until, MaxNow <- MaxFileNow

lease == vars
file == <<path, content, fd, exposed, file_now, file_pc, file_seen, file_until>>

OwnershipInit == backend \in {"postgres", "file"} /\ Init /\ File!Init

OwnershipNext ==
    /\ backend' = backend
    /\ \/ backend = "postgres" /\ Next /\ UNCHANGED file
       \/ backend = "file" /\ File!Next /\ UNCHANGED lease

OwnershipSpec == OwnershipInit /\ [][OwnershipNext]_<<backend, lease, file>>

-----------------------------------------------------------------------------
(* "blocks other owner while active" (tenant_lock.zig:275): while a file lock *)
(* stands, no other instance is given it; crashes, failing writes and failing *)
(* deletes do not weaken it, a failing read of its record does.               *)
BlocksOthers == File!BlocksOthers

(* "release from stale same-owner lock does not drop active lock"             *)
(* (tenant_lock.zig:324): whatever is released, refreshed, reclaimed or dies, *)
(* the record of a file lock that stands is the one other instances read.     *)
StandingOnRecord == File!StandingOnRecord
=============================================================================
