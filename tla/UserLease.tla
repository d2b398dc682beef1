------------------------------ MODULE UserLease ------------------------------
(* Which instance of the gateway may work for a user, arbitrated by one row   *)
(* of tenant_user_leases (src/src/zaki_state.zig) and used by                 *)
(* maybeAcquireTenantOwnershipLock (src/src/gateway.zig).  A lease has a time *)
(* limit and nothing renews it or fences its holder off: what it promises is  *)
(* that two instances never both hold a lease that has not run out.           *)
(*                                                                            *)
(* Each SQL statement is one step.  All instances read the same clock.        *)
EXTENDS Naturals

CONSTANTS
    Owners,    \* instances (owner_instance_id)
    Calls,     \* requests for the user: <<owner, number>>; each is made once
    LeaseSecs, \* ownership_lock_lease_secs
    Overlap,   \* an instance may have two requests for the user in progress
    MaxNow,    \* bound of the clock
    None

ASSUME CallsAssumption == Calls \subseteq Owners \X Nat
ASSUME LeaseAssumption == LeaseSecs \in Nat /\ MaxNow \in Nat
ASSUME OverlapAssumption == Overlap \in BOOLEAN
ASSUME RowAssumption == None \notin [owner : Owners, token : Calls, until : Nat]

VARIABLES
    row,   \* the user's row of tenant_user_leases, or None
    now,   \* the clock, in seconds
    pc,    \* per call: "idle", "asking", "held", "refused", "done" or "dead"
    seen,  \* per call: the time it read before it asked
    until  \* per call: when the lease it was given runs out

vars == <<row, now, pc, seen, until>>

Row == [owner : Owners, token : Calls, until : Nat]
Owner(c) == c[1]

Init ==
    /\ row = None
    /\ now = 0
    /\ pc = [c \in Calls |-> "idle"]
    /\ seen = [c \in Calls |-> 0]
    /\ until = [c \in Calls |-> 0]

Goto(c, where) == pc' = [pc EXCEPT ![c] = where]
InProgress(c) == pc[c] \in {"asking", "held"}

(* Every attempt reads the clock first; the statement may reach the database  *)
(* later.                                                                     *)
ReadClock(c) ==
    /\ pc[c] = "idle"
    /\ Overlap \/ \A d \in Calls : Owner(d) = Owner(c) => ~InProgress(d)
    /\ Goto(c, "asking")
    /\ seen' = [seen EXCEPT ![c] = now]
    /\ UNCHANGED <<row, now, until>>

MutantReclaimable(c) == row.until <= seen[c]        \* taken in its last second
Reclaimable(c) == row.until < seen[c]
Grantable(c) == row # None => (Reclaimable(c) \/ row.owner = Owner(c))

LeaseUntil(s) == s + LeaseSecs

acquireUserOwnershipLease(c) ==
    /\ pc[c] = "asking"
    /\ Grantable(c)
    /\ row' = [owner |-> Owner(c), token |-> c, until |-> LeaseUntil(seen[c])]
    /\ until' = [until EXCEPT ![c] = LeaseUntil(seen[c])]
    /\ Goto(c, "held")
    /\ UNCHANGED <<now, seen>>

(* LockHeld: sleep and ask again, or report the conflict at the deadline.     *)
Conflict(c) ==
    /\ pc[c] = "asking"
    /\ ~Grantable(c)
    /\ Goto(c, "idle") \/ Goto(c, "refused")
    /\ UNCHANGED <<row, now, seen, until>>

OwnRow(c) == row # None /\ row.owner = Owner(c) /\ row.token = c

(* A delete that fails is logged and leaves the row to run out.               *)
releaseUserOwnershipLease(c) ==
    /\ pc[c] = "held"
    /\ row' = row \/ (OwnRow(c) /\ row' = None)
    /\ Goto(c, "done")
    /\ UNCHANGED <<now, seen, until>>

(* The instance dies; started again, it has the same owner id and new calls.  *)
Crash(o) ==
    /\ \E c \in Calls : Owner(c) = o /\ InProgress(c)
    /\ pc' = [c \in Calls |-> IF Owner(c) = o /\ InProgress(c) THEN "dead" ELSE pc[c]]
    /\ UNCHANGED <<row, now, seen, until>>

Tick ==
    /\ now < MaxNow
    /\ now' = now + 1
    /\ UNCHANGED <<row, pc, seen, until>>

Next ==
    \/ \E c \in Calls :
        \/ ReadClock(c) \/ acquireUserOwnershipLease(c) \/ Conflict(c)
        \/ releaseUserOwnershipLease(c)
    \/ \E o \in Owners : Crash(o)
    \/ Tick

Spec == Init /\ [][Next]_vars

-----------------------------------------------------------------------------

(* Type correctness: the table has at most one row for the user.              *)
TypeOK ==
    /\ row \in Row \cup {None}
    /\ now \in Nat
    /\ pc \in [Calls -> {"idle", "asking", "held", "refused", "done", "dead"}]
    /\ seen \in [Calls -> Nat]
    /\ until \in [Calls -> Nat]

Valid(c) == pc[c] = "held" /\ now <= until[c]

(* While a request works under a lease that has not run out, no other         *)
(* instance is given one: retries, late statements, failed deletes, crashes   *)
(* and restarts included.                                                     *)
ExclusiveOwners == \A c, d \in Calls : Valid(c) /\ Valid(d) => Owner(c) = Owner(d)

=============================================================================
