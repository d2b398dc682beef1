------------------------------- MODULE FileLock -------------------------------
(* The ownership lock kept in a file of the user's directory                  *)
(* (src/src/tenant_lock.zig): what the gateway uses without Postgres, and the *)
(* heartbeat and scheduler sweeps of the daemon always.  Every system call is *)
(* one step, but that opening and reading a file are one.  A file that was    *)
(* unlinked while it was open is still written to, so the path and the file   *)
(* behind it are told apart.  A record is written by one write, and the last  *)
(* write to a file is what is read from it.                                   *)
EXTENDS Naturals

CONSTANTS
    Owners,    \* instances (owner_id)
    Calls,     \* calls of acquireUserOwnershipLock: <<owner, number>>
    Files,     \* inodes; one that nobody refers to is used again
    LeaseSecs, \* lease_secs, at least 1
    MaxNow,    \* bound of the clock
    None

VARIABLES
    path,    \* the file the lock's path names, or None
    content, \* per file: its record, or None while it is empty
    fd,      \* per call: the file it has open for writing, or None
    now,     \* the clock, in seconds
    pc,      \* per call: the system call it makes next, or how it ended
    seen,    \* per call: the time it read when it started
    until,   \* per call: when the lock it was given runs out
    exposed  \* history: calls whose lock another call may have taken for none

vars == <<path, content, fd, now, pc, seen, until, exposed>>

Record == [owner : Owners, token : Calls, until : Nat]
Owner(c) == c[1]

Init ==
    /\ path = None
    /\ content = [f \in Files |-> None]
    /\ fd = [c \in Calls |-> None]
    /\ now = 0
    /\ pc = [c \in Calls |-> "idle"]
    /\ seen = [c \in Calls |-> 0]
    /\ until = [c \in Calls |-> 0]
    /\ exposed = {}

Goto(c, here, there) == pc[c] = here /\ pc' = [pc EXCEPT ![c] = there]
Acquiring(c) == pc[c] \in {"create", "read", "truncate", "delete", "recreate", "reread", "write"}
Releasing(c) == pc[c] \in {"releasing", "unlink"}
InProgress(c) == Acquiring(c) \/ Releasing(c) \/ pc[c] = "held"

Start(c) ==
    /\ Goto(c, "idle", "create")
    /\ seen' = [seen EXCEPT ![c] = now]
    /\ UNCHANGED <<path, content, fd, now, until, exposed>>

-----------------------------------------------------------------------------
(* What the system calls do.                                                  *)

Unused(f) == f # path /\ \A c \in Calls : fd[c] # f
NewFile(c) ==
    \E f \in Files :
        /\ Unused(f)
        /\ path' = f
        /\ content' = [content EXCEPT ![f] = None]
        /\ fd' = [fd EXCEPT ![c] = f]

(* The record the path leads to: none where there is no file or an empty one. *)
Existing == IF path = None THEN None ELSE content[path]
OnRecord == IF Existing = None THEN {} ELSE {Existing.token}

(* readRecordOwned: any error of the open or the read reads as no record.     *)
readRecordOwned == {Existing, None}
Mine(c, record) == record # None /\ record.owner = Owner(c)

MutantStillHeld(c, record) == FALSE                 \* the record is ignored
StillHeld(c, record) == record # None /\ record.until > seen[c]

createRecordExclusive(c, here, otherwise) ==
    /\ IF path = None
       THEN Goto(c, here, "write") /\ NewFile(c)
       ELSE Goto(c, here, otherwise) /\ UNCHANGED <<path, content, fd>>
    /\ UNCHANGED <<now, seen, until, exposed>>

Create(c) == createRecordExclusive(c, "create", "read")

Refused(c, here) == Goto(c, here, "idle") \/ Goto(c, here, "refused")

(* Another owner's live record refuses the call, which the gateway repeats    *)
(* until its deadline; an own record is overwritten; the rest is deleted, and *)
(* so is a live record that could not be read.                                *)
ReadExisting(c) ==
    \E record \in readRecordOwned :
        /\ \/ Mine(c, record) /\ Goto(c, "read", "truncate")
           \/ ~Mine(c, record) /\ StillHeld(c, record) /\ Refused(c, "read")
           \/ ~Mine(c, record) /\ ~StillHeld(c, record) /\ Goto(c, "read", "delete")
        /\ exposed' = IF record = Existing THEN exposed ELSE exposed \cup OnRecord
        /\ UNCHANGED <<path, content, fd, now, seen, until>>

(* writeRecord opens the path with truncation, creating the file if need be.  *)
Truncate(c) ==
    /\ Goto(c, "truncate", "write")
    /\ exposed' = exposed \cup OnRecord
    /\ IF path = None THEN NewFile(c)
       ELSE /\ content' = [content EXCEPT ![path] = None]
            /\ fd' = [fd EXCEPT ![c] = path]
            /\ UNCHANGED path
    /\ UNCHANGED <<now, seen, until>>

(* An error of the delete is ignored.                                         *)
Delete(c) ==
    /\ Goto(c, "delete", "recreate")
    /\ path' \in {None, path}
    /\ UNCHANGED <<content, fd, now, seen, until, exposed>>

Recreate(c) == createRecordExclusive(c, "recreate", "reread")

ReadAfterRace(c) ==
    \E record \in readRecordOwned :
        /\ \/ Mine(c, record) /\ Goto(c, "reread", "truncate")
           \/ ~Mine(c, record) /\ Refused(c, "reread")
        /\ UNCHANGED <<path, content, fd, now, seen, until, exposed>>

ExpiresAt(s) == s + LeaseSecs

(* No other call has read the file, or begun to, and not yet acted on it, and *)
(* the lock is in the file the path names.                                    *)
Settled(c) ==
    /\ path = fd[c]
    /\ \A d \in Calls \ {c} : pc[d] # "create" => ~Acquiring(d) /\ ~Releasing(d)

writeRecordToFile(c) ==
    /\ Goto(c, "write", "held")
    /\ content' = [content EXCEPT ![fd[c]] =
                     [owner |-> Owner(c), token |-> c, until |-> ExpiresAt(seen[c])]]
    /\ fd' = [fd EXCEPT ![c] = None]
    /\ until' = [until EXCEPT ![c] = ExpiresAt(seen[c])]
    /\ exposed' = IF Settled(c) THEN exposed ELSE exposed \cup {c}
    /\ UNCHANGED <<path, now, seen>>

(* An error of creating, opening or writing the file is returned; a file that *)
(* was opened stays behind empty.                                             *)
WriteFails(c) ==
    /\ \E here \in {"create", "truncate", "recreate", "write"} : Goto(c, here, "failed")
    /\ fd' = [fd EXCEPT ![c] = None]
    /\ UNCHANGED <<path, content, now, seen, until, exposed>>

(* release: the file is deleted if it still has this lock's token.  The lock  *)
(* counts as let go when the read or the delete fails, too: its record stays. *)
MutantStillMine(c, record) == Mine(c, record)       \* the token is not compared
StillMine(c, record) == Mine(c, record) /\ record.token = c

release(c) ==
    /\ Goto(c, "held", "releasing")
    /\ UNCHANGED <<path, content, fd, now, seen, until, exposed>>

ReadOwn(c) ==
    \E record \in readRecordOwned :
        /\ Goto(c, "releasing", IF StillMine(c, record) THEN "unlink" ELSE "done")
        /\ UNCHANGED <<path, content, fd, now, seen, until, exposed>>

Unlink(c) ==
    /\ Goto(c, "unlink", "done")
    /\ path' \in {None, path}
    /\ UNCHANGED <<content, fd, now, seen, until, exposed>>

(* The instance dies; its files stay, its descriptors do not.                 *)
Crash(o) ==
    /\ \E c \in Calls : Owner(c) = o /\ InProgress(c)
    /\ pc' = [c \in Calls |-> IF Owner(c) = o /\ InProgress(c) THEN "dead" ELSE pc[c]]
    /\ fd' = [c \in Calls |-> IF Owner(c) = o THEN None ELSE fd[c]]
    /\ UNCHANGED <<path, content, now, seen, until, exposed>>

Tick ==
    /\ now < MaxNow
    /\ now' = now + 1
    /\ UNCHANGED <<path, content, fd, pc, seen, until, exposed>>

Next ==
    \/ \E c \in Calls :
        \/ Start(c) \/ Create(c) \/ ReadExisting(c) \/ Truncate(c) \/ Delete(c) \/ Recreate(c)
        \/ ReadAfterRace(c) \/ writeRecordToFile(c) \/ WriteFails(c)
        \/ release(c) \/ ReadOwn(c) \/ Unlink(c)
    \/ \E o \in Owners : Crash(o)
    \/ Tick

Spec == Init /\ [][Next]_vars

-----------------------------------------------------------------------------

(* Type correctness: the path names a file, the file holds one record.        *)
TypeOK ==
    /\ path \in Files \cup {None}
    /\ content \in [Files -> Record \cup {None}]
    /\ fd \in [Calls -> Files \cup {None}]
    /\ now \in Nat
    /\ pc \in [Calls -> {"idle", "create", "read", "truncate", "delete", "recreate", "reread",
                         "write", "held", "releasing", "unlink", "refused", "failed", "done",
                         "dead"}]
    /\ seen \in [Calls -> Nat] /\ until \in [Calls -> Nat]
    /\ exposed \subseteq Calls

Valid(c) == pc[c] = "held" /\ now < until[c]

(* A lock stands from its grant until it runs out, is released, is refreshed  *)
(* by its own instance or meets a call that may have seen no record: one that *)
(* was past the file's creation when the lock was granted, or failed to read. *)
Stands(c) == Valid(c) /\ c \notin exposed

(* "blocks other owner while active" (tenant_lock.zig:275): while a lock      *)
(* stands, no other instance is given it.                                     *)
BlocksOthers ==
    [][\A c, d \in Calls :
        Stands(c) /\ Owner(d) # Owner(c) => ~(pc[d] # "held" /\ pc'[d] = "held")]_vars

(* "release from stale same-owner lock does not drop active lock"             *)
(* (tenant_lock.zig:324): whatever is released, refreshed, reclaimed or dies, *)
(* the record of a lock that stands is the one other instances will read.     *)
StandingOnRecord == \A c \in Calls : Stands(c) => Existing # None /\ Existing.token = c

=============================================================================
