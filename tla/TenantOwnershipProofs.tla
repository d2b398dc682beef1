------------------------ MODULE TenantOwnershipProofs ------------------------
(* Whichever backend a deployment has, its ownership excludes other instances *)
(* as far as that backend promises: the lease, for every set of instances and *)
(* calls, every length of the lease and every clock, provided that an         *)
(* instance has one request for the user in progress at a time; the lock in a *)
(* file, for every set of instances, calls and files, as long as it stands:   *)
(* until another call may have taken it for no lock.  Both hold of their      *)
(* composition.                                                               *)
EXTENDS TenantOwnership, TLAPS


(* A call in progress is the only one of its instance.                        *)
OneAtATime ==
    \A c, d \in Calls : InProgress(c) /\ InProgress(d) /\ Owner(c) = Owner(d) => c = d

(* No call has read a time that is still to come.                             *)
ClocksPast == \A c \in Calls : seen[c] <= now

(* The row is the one its holder wrote, for as long as the lease has not run  *)
(* out: this is what rules a second holder out.                               *)
RowOfHolder ==
    \A c \in Calls : Valid(c) => row # None /\ row.owner = Owner(c) /\ row.token = c /\ row.until = until[c]

IInv == TypeOK /\ OneAtATime /\ ClocksPast /\ RowOfHolder

(* The first part of a call is an instance.                                   *)
LEMMA OwnerType == ASSUME NEW c \in Calls PROVE Owner(c) \in Owners
  BY CallsAssumption DEF Owner

(* Init is well typed.                                                        *)
LEMMA InitType == Init => TypeOK
  BY DEF Init, TypeOK

(* Every step keeps the types.                                                *)
LEMMA NextType == TypeOK /\ [Next]_vars => TypeOK'
<1> SUFFICES ASSUME TypeOK, [Next]_vars PROVE TypeOK'
  OBVIOUS
<1> USE DEF TypeOK, Row, Goto
<1>1. CASE \E c \in Calls : ReadClock(c)
  BY <1>1 DEF ReadClock
<1>2. CASE \E c \in Calls : acquireUserOwnershipLease(c)
  BY <1>2, OwnerType, LeaseAssumption DEF acquireUserOwnershipLease, LeaseUntil
<1>3. CASE \E c \in Calls : Conflict(c)
  BY <1>3 DEF Conflict
<1>4. CASE \E c \in Calls : releaseUserOwnershipLease(c)
  BY <1>4 DEF releaseUserOwnershipLease
<1>5. CASE \E o \in Owners : Crash(o)
  BY <1>5 DEF Crash
<1>6. CASE Tick
  BY <1>6 DEF Tick
<1>7. CASE UNCHANGED vars
  BY <1>7 DEF vars
<1>8. QED
  BY <1>1, <1>2, <1>3, <1>4, <1>5, <1>6, <1>7 DEF Next

(* Type correctness of the lease table and of its users.                      *)
THEOREM TypeCorrect == Spec => []TypeOK
  BY InitType, NextType, PTL DEF Spec

(* Init establishes the invariant: nobody has a lease.                        *)
LEMMA InitInv == Init => IInv
  BY InitType DEF Init, IInv, OneAtATime, ClocksPast, RowOfHolder, InProgress, Valid

(* Every step keeps the invariant.                                            *)
LEMMA NextInv == ASSUME ~Overlap PROVE IInv /\ [Next]_vars => IInv'
<1> SUFFICES ASSUME IInv, [Next]_vars PROVE IInv'
  OBVIOUS
<1>0. TypeOK /\ TypeOK'
  BY NextType DEF IInv
<1> USE <1>0 DEF TypeOK, Goto, InProgress, Valid
<1>1. ASSUME NEW c \in Calls, ReadClock(c) PROVE IInv'
  <2>1. OneAtATime'
    BY <1>1 DEF IInv, OneAtATime, ReadClock
  <2>2. ClocksPast'
    BY <1>1 DEF IInv, ClocksPast, ReadClock
  <2>3. RowOfHolder'
    BY <1>1 DEF IInv, RowOfHolder, ReadClock
  <2>4. QED
    BY <2>1, <2>2, <2>3 DEF IInv
<1>2. ASSUME NEW c \in Calls, acquireUserOwnershipLease(c) PROVE IInv'
  <2>1. OneAtATime'
    BY <1>2 DEF IInv, OneAtATime, acquireUserOwnershipLease
  <2>2. ClocksPast'
    BY <1>2 DEF IInv, ClocksPast, acquireUserOwnershipLease
  <2>3. ASSUME NEW d \in Calls, d # c PROVE ~Valid(d)
    (* d's lease would be in the row, neither run out nor of c's instance.    *)
    <3> SUFFICES ASSUME Valid(d) PROVE FALSE
      OBVIOUS
    <3>1. row # None /\ row.owner = Owner(d) /\ row.until = until[d]
      BY DEF IInv, RowOfHolder
    <3>2. row.owner # Owner(c)
      BY <1>2, <2>3, <3>1 DEF IInv, OneAtATime, acquireUserOwnershipLease
    <3>3. ~(row.until < seen[c])
      BY <3>1 DEF IInv, ClocksPast
    <3>4. QED
      BY <1>2, <3>1, <3>2, <3>3 DEF acquireUserOwnershipLease, Grantable, Reclaimable
  <2>4. row' = [owner |-> Owner(c), token |-> c, until |-> LeaseUntil(seen[c])] /\ until'[c] = LeaseUntil(seen[c])
    BY <1>2 DEF acquireUserOwnershipLease
  <2>5. row' # None
    BY <2>4, <1>0, OwnerType, RowAssumption, LeaseAssumption DEF LeaseUntil
  <2>6. ASSUME NEW d \in Calls, Valid(d)' PROVE d = c
    BY <1>2, <2>3, <2>6 DEF acquireUserOwnershipLease
  <2>7. RowOfHolder'
    BY <2>4, <2>5, <2>6 DEF RowOfHolder
  <2>8. QED
    BY <2>1, <2>2, <2>7 DEF IInv
<1>3. ASSUME NEW c \in Calls, Conflict(c) PROVE IInv'
  <2>1. OneAtATime'
    BY <1>3 DEF IInv, OneAtATime, Conflict
  <2>2. ClocksPast' /\ RowOfHolder'
    BY <1>3 DEF IInv, ClocksPast, RowOfHolder, Conflict
  <2>3. QED
    BY <2>1, <2>2 DEF IInv
<1>4. ASSUME NEW c \in Calls, releaseUserOwnershipLease(c) PROVE IInv'
  <2>1. OneAtATime' /\ ClocksPast'
    BY <1>4 DEF IInv, OneAtATime, ClocksPast, releaseUserOwnershipLease
  <2>2. ASSUME NEW d \in Calls, Valid(d)' PROVE d # c /\ Valid(d)
    BY <1>4, <2>2 DEF releaseUserOwnershipLease
  <2>3. ASSUME NEW d \in Calls, Valid(d)' PROVE row' = row
    BY <1>4, <2>2, <2>3 DEF IInv, RowOfHolder, releaseUserOwnershipLease, OwnRow
  <2>4. RowOfHolder'
    BY <1>4, <2>2, <2>3 DEF IInv, RowOfHolder, releaseUserOwnershipLease
  <2>5. QED
    BY <2>1, <2>4 DEF IInv
<1>5. ASSUME NEW o \in Owners, Crash(o) PROVE IInv'
  <2>1. OneAtATime' /\ ClocksPast'
    BY <1>5 DEF IInv, OneAtATime, ClocksPast, Crash
  <2>2. RowOfHolder'
    BY <1>5 DEF IInv, RowOfHolder, Crash
  <2>3. QED
    BY <2>1, <2>2 DEF IInv
<1>6. ASSUME Tick PROVE IInv'
  <2>1. OneAtATime' /\ ClocksPast'
    BY <1>6 DEF IInv, OneAtATime, ClocksPast, Tick
  <2>2. RowOfHolder'
    BY <1>6 DEF IInv, RowOfHolder, Tick
  <2>3. QED
    BY <2>1, <2>2 DEF IInv
<1>7. CASE UNCHANGED vars
  BY <1>7 DEF vars, IInv, OneAtATime, ClocksPast, RowOfHolder
<1>8. QED
  BY <1>1, <1>2, <1>3, <1>4, <1>5, <1>6, <1>7 DEF Next

(* Two instances never both work for the user under leases that have not run  *)
(* out, when neither has two requests in progress: whatever the delays, the   *)
(* failed releases, the crashes and the restarts.                             *)
THEOREM LeaseExcludes ==
  ASSUME ~Overlap
  PROVE  Spec => []ExclusiveOwners
<1>1. IInv => ExclusiveOwners
  BY DEF IInv, RowOfHolder, ExclusiveOwners
<1>2. QED
  BY <1>1, InitInv, NextInv, PTL DEF Spec

-----------------------------------------------------------------------------
(* The lock file, for every number of instances, calls and files: a lock that *)
(* stands keeps its record in the file and keeps other instances away.        *)

(* A call is one of an instance, and None is neither a file nor a record.     *)
LEMMA FileConstants ==
    /\ Calls \subseteq Owners \X Nat
    /\ LeaseSecs \in Nat
    /\ None \notin Files /\ None \notin File!Record
BY FileLockAssumption, CallsAssumption, LeaseAssumption, RowAssumption DEF File!Record

(* The first part of a call is its instance.                                  *)
LEMMA FileOwnerType == ASSUME NEW c \in Calls PROVE File!Owner(c) \in Owners
BY FileConstants DEF File!Owner

LEMMA RecordType ==
    ASSUME NEW c \in Calls, NEW s \in Nat
    PROVE  /\ File!ExpiresAt(s) \in Nat
           /\ [owner |-> File!Owner(c), token |-> c, until |-> File!ExpiresAt(s)] \in File!Record
BY FileConstants, FileOwnerType DEF File!ExpiresAt, File!Record

-----------------------------------------------------------------------------
LEMMA LockInitType == File!Init => File!TypeOK
<1> SUFFICES ASSUME File!Init PROVE File!TypeOK
  OBVIOUS
<1>1. exposed \subseteq Calls
  BY DEF File!Init
<1>2. path \in Files \cup {None} /\ content \in [Files -> File!Record \cup {None}]
      /\ fd \in [Calls -> Files \cup {None}]
  BY DEF File!Init
<1>3. file_now \in Nat /\ file_seen \in [Calls -> Nat] /\ file_until \in [Calls -> Nat]
  BY DEF File!Init
<1> QED
  BY <1>1, <1>2, <1>3 DEF File!Init, File!TypeOK

LEMMA OnRecordType == File!TypeOK => File!Existing \in File!Record \cup {None} /\ File!OnRecord \subseteq Calls
BY DEF File!TypeOK, File!Existing, File!OnRecord, File!Record

(* Every step keeps the types.                                                *)
LEMMA LockNextType == File!TypeOK /\ [File!Next]_(File!vars) => File!TypeOK'
<1> SUFFICES ASSUME File!TypeOK, [File!Next]_(File!vars) PROVE File!TypeOK'
  OBVIOUS
<1> USE DEF File!TypeOK, File!Goto, File!NewFile
<1>1. ASSUME NEW c \in Calls, File!Start(c) PROVE File!TypeOK'
  BY <1>1 DEF File!Start
<1>2. ASSUME NEW c \in Calls, File!Create(c) \/ File!Recreate(c) PROVE File!TypeOK'
  BY <1>2 DEF File!Create, File!Recreate, File!createRecordExclusive
<1>3. ASSUME NEW c \in Calls, File!ReadExisting(c) \/ File!ReadAfterRace(c) PROVE File!TypeOK'
  <2>1. exposed' \subseteq Calls
    BY <1>3, OnRecordType DEF File!ReadExisting, File!ReadAfterRace
  <2>2. UNCHANGED <<path, content, fd, file_now, file_seen, file_until>>
    BY <1>3 DEF File!ReadExisting, File!ReadAfterRace
  <2>3. \E there \in {"truncate", "idle", "refused", "delete"} : file_pc' = [file_pc EXCEPT ![c] = there]
    BY <1>3 DEF File!ReadExisting, File!ReadAfterRace, File!Refused
  <2> QED
    BY <2>1, <2>2, <2>3
<1>4. ASSUME NEW c \in Calls, File!Truncate(c) PROVE File!TypeOK'
  BY <1>4, OnRecordType DEF File!Truncate
<1>5. ASSUME NEW c \in Calls, File!Delete(c) PROVE File!TypeOK'
  BY <1>5 DEF File!Delete
<1>6. ASSUME NEW c \in Calls, File!writeRecordToFile(c) PROVE File!TypeOK'
  BY <1>6, RecordType DEF File!writeRecordToFile
<1>7. ASSUME NEW c \in Calls, File!WriteFails(c) PROVE File!TypeOK'
  BY <1>7 DEF File!WriteFails
<1>8. ASSUME NEW c \in Calls, File!release(c) \/ File!ReadOwn(c) PROVE File!TypeOK'
  BY <1>8 DEF File!release, File!ReadOwn
<1>9. ASSUME NEW c \in Calls, File!Unlink(c) PROVE File!TypeOK'
  BY <1>9 DEF File!Unlink
<1>10. CASE \E o \in Owners : File!Crash(o)
  BY <1>10 DEF File!Crash
<1>11. CASE File!Tick \/ UNCHANGED File!vars
  BY <1>11 DEF File!Tick, File!vars
<1> QED
  BY <1>1, <1>2, <1>3, <1>4, <1>5, <1>6, <1>7, <1>8, <1>9, <1>10, <1>11 DEF File!Next

-----------------------------------------------------------------------------
(* What a lock that stands rests on: its record is the one the path leads to, *)
(* and no other call is between seeing no lock and acting on it.  A call that *)
(* is about to overwrite the file is one of the same instance.                *)

LockClocksPast == \A c \in Calls : file_seen[c] <= file_now
WriterOpen == \A c \in Calls : file_pc[c] = "write" => fd[c] \in Files

OnPath(c) ==
    /\ path # None
    /\ content[path] = [owner |-> File!Owner(c), token |-> c, until |-> file_until[c]]
Clear(c, d) ==
    /\ file_pc[d] \notin {"delete", "recreate", "reread", "write", "unlink"}
    /\ file_pc[d] = "truncate" => File!Owner(d) = File!Owner(c)
Kept(c) == OnPath(c) /\ \A d \in Calls \ {c} : Clear(c, d)

LockInv == File!TypeOK /\ LockClocksPast /\ WriterOpen /\ \A c \in Calls : File!Stands(c) => Kept(c)

LEMMA ClocksStep == File!TypeOK /\ LockClocksPast /\ [File!Next]_(File!vars) => LockClocksPast'
<1> SUFFICES ASSUME File!TypeOK, LockClocksPast, [File!Next]_(File!vars), NEW c \in Calls
             PROVE  file_seen'[c] <= file_now'
  BY DEF LockClocksPast
<1>1. file_now \in Nat /\ file_now' \in {file_now, file_now + 1} /\ file_seen[c] \in Nat
  BY DEF File!TypeOK, File!Next, File!vars, File!Start, File!Create, File!Recreate, File!createRecordExclusive,
         File!ReadExisting, File!ReadAfterRace, File!Truncate, File!Delete, File!writeRecordToFile, File!WriteFails,
         File!release, File!ReadOwn, File!Unlink, File!Crash, File!Tick
<1>2. file_seen'[c] \in {file_seen[c], file_now}
  BY DEF File!TypeOK, File!Next, File!vars, File!Start, File!Create, File!Recreate, File!createRecordExclusive,
         File!ReadExisting, File!ReadAfterRace, File!Truncate, File!Delete, File!writeRecordToFile, File!WriteFails,
         File!release, File!ReadOwn, File!Unlink, File!Crash, File!Tick
<1> QED
  BY <1>1, <1>2 DEF LockClocksPast

LEMMA WriterStep == File!TypeOK /\ WriterOpen /\ [File!Next]_(File!vars) => WriterOpen'
<1> SUFFICES ASSUME File!TypeOK, WriterOpen, [File!Next]_(File!vars), NEW c \in Calls, file_pc'[c] = "write"
             PROVE  fd'[c] \in Files
  BY DEF WriterOpen
<1> USE DEF File!TypeOK, WriterOpen, File!Goto
<1>1. ASSUME NEW d \in Calls, File!Create(d) \/ File!Recreate(d) \/ File!Truncate(d) PROVE fd'[c] \in Files
  BY <1>1 DEF File!Create, File!Recreate, File!Truncate, File!createRecordExclusive, File!NewFile
<1>2. ASSUME NEW d \in Calls, File!writeRecordToFile(d) \/ File!WriteFails(d) PROVE fd'[c] \in Files
  BY <1>2 DEF File!writeRecordToFile, File!WriteFails
<1>3. ASSUME NEW d \in Calls, File!Start(d) \/ File!Delete(d) \/ File!release(d) \/ File!ReadOwn(d) \/ File!Unlink(d)
      PROVE  fd'[c] \in Files
  BY <1>3 DEF File!Start, File!Delete, File!release, File!ReadOwn, File!Unlink
<1>4. ASSUME NEW d \in Calls, File!ReadExisting(d) \/ File!ReadAfterRace(d) PROVE fd'[c] \in Files
  BY <1>4 DEF File!ReadExisting, File!ReadAfterRace, File!Refused
<1>5. CASE \E o \in Owners : File!Crash(o)
  BY <1>5 DEF File!Crash, File!InProgress, File!Acquiring
<1>6. CASE File!Tick \/ UNCHANGED File!vars
  BY <1>6 DEF File!Tick, File!vars
<1> QED
  BY <1>1, <1>2, <1>3, <1>4, <1>5, <1>6 DEF File!Next

(* A lock that stands after a step stood before it, or was granted by it      *)
(* while no other call could have taken it for none.                          *)
LEMMA StoodBefore ==
    ASSUME File!TypeOK, [File!Next]_(File!vars), NEW c \in Calls, File!Stands(c)'
    PROVE  (File!Stands(c) /\ file_until'[c] = file_until[c]) \/ (File!writeRecordToFile(c) /\ File!Settled(c))
<1> USE DEF File!TypeOK, File!Goto, File!Stands, File!Valid
<1> DEFINE Goal == (File!Stands(c) /\ file_until'[c] = file_until[c]) \/ (File!writeRecordToFile(c) /\ File!Settled(c))
<1>1. ASSUME NEW d \in Calls, File!Start(d) \/ File!Create(d) \/ File!Recreate(d) \/ File!Delete(d) PROVE Goal
  BY <1>1 DEF File!Start, File!Create, File!Recreate, File!createRecordExclusive, File!Delete
<1>2. ASSUME NEW d \in Calls, File!ReadExisting(d) \/ File!ReadAfterRace(d) PROVE Goal
  BY <1>2 DEF File!ReadExisting, File!ReadAfterRace, File!Refused
<1>3. ASSUME NEW d \in Calls, File!Truncate(d) \/ File!WriteFails(d) PROVE Goal
  BY <1>3 DEF File!Truncate, File!WriteFails
<1>4. ASSUME NEW d \in Calls, File!release(d) \/ File!ReadOwn(d) \/ File!Unlink(d) PROVE Goal
  BY <1>4 DEF File!release, File!ReadOwn, File!Unlink
<1>5. ASSUME NEW d \in Calls, File!writeRecordToFile(d) PROVE Goal
  <2>1. CASE d = c
    BY <1>5, <2>1 DEF File!writeRecordToFile
  <2>2. CASE d # c
    BY <1>5, <2>2 DEF File!writeRecordToFile
  <2> QED
    BY <2>1, <2>2
<1>6. CASE \E o \in Owners : File!Crash(o)
  BY <1>6 DEF File!Crash
<1>7. CASE File!Tick \/ UNCHANGED File!vars
  BY <1>7 DEF File!Tick, File!vars
<1> QED
  BY <1>1, <1>2, <1>3, <1>4, <1>5, <1>6, <1>7 DEF File!Next

(* A lock that is granted so rests on its record.                             *)
LEMMA KeptFromGrant ==
    ASSUME File!TypeOK, WriterOpen, NEW c \in Calls, File!writeRecordToFile(c), File!Settled(c)
    PROVE  Kept(c)'
<1>1. path' \in Files /\ path' = path /\ fd[c] = path
  BY FileConstants DEF File!writeRecordToFile, File!Settled, WriterOpen, File!Goto
<1>2. OnPath(c)'
  BY <1>1, FileConstants DEF OnPath, File!writeRecordToFile, File!TypeOK, File!Owner
<1>3. ASSUME NEW d \in Calls \ {c} PROVE Clear(c, d)'
  BY <1>3 DEF File!Settled, File!writeRecordToFile, File!Goto, File!TypeOK, Clear, File!Acquiring, File!Releasing
<1> QED
  BY <1>2, <1>3 DEF Kept

(* While a lock stands, what another call does leaves its record where it is, *)
(* and no call of another instance gets past reading it.                      *)
LEMMA KeptByOthers ==
    ASSUME LockInv, NEW c \in Calls, File!Stands(c), File!Stands(c)', NEW d \in Calls \ {c},
           File!Start(d) \/ File!Create(d) \/ File!ReadExisting(d) \/ File!Truncate(d) \/ File!Delete(d)
           \/ File!Recreate(d) \/ File!ReadAfterRace(d) \/ File!writeRecordToFile(d) \/ File!WriteFails(d)
           \/ File!release(d) \/ File!ReadOwn(d) \/ File!Unlink(d),
           file_until'[c] = file_until[c]
    PROVE  Kept(c)'
<1>1. Kept(c) /\ OnPath(c) /\ Clear(c, d) /\ File!TypeOK
  BY DEF LockInv, Kept
<1>2. File!Existing # None /\ File!Existing = content[path] /\ File!Existing.owner = File!Owner(c)
      /\ File!Existing.token = c /\ File!Existing.until = file_until[c] /\ File!OnRecord = {c}
  <2>1. content[path] # None
    BY <1>1, FileConstants, FileOwnerType DEF OnPath, File!Record, File!TypeOK
  <2> QED
    BY <1>1, <2>1 DEF OnPath, File!Existing, File!OnRecord
<1>3. c \notin exposed' /\ file_pc[c] = "held" /\ file_now < file_until[c]
  BY DEF File!Stands, File!Valid
<1>4. ~(File!Delete(d) \/ File!Recreate(d) \/ File!ReadAfterRace(d) \/ File!writeRecordToFile(d) \/ File!Unlink(d))
  BY <1>1 DEF Clear, File!Delete, File!Recreate, File!createRecordExclusive, File!ReadAfterRace, File!Refused,
              File!writeRecordToFile, File!Unlink, File!Goto
<1>5. ~File!Truncate(d)
  BY <1>2, <1>3 DEF File!Truncate
<1> DEFINE Only(there) == file_pc' = [file_pc EXCEPT ![d] = there]
<1>6. ASSUME UNCHANGED <<path, content>>,
             NEW there \in {"create", "idle", "refused", "read", "failed", "releasing", "done", "truncate"}, Only(there),
             there = "truncate" => File!Owner(d) = File!Owner(c)
      PROVE  Kept(c)'
  BY <1>1, <1>6 DEF Kept, OnPath, Clear, File!TypeOK, File!Owner
<1>7. CASE File!Start(d) \/ File!WriteFails(d) \/ File!release(d)
  BY <1>6, <1>7 DEF File!Start, File!WriteFails, File!release, File!Goto
<1>8. CASE File!Create(d)
  BY <1>1, <1>6, <1>8 DEF File!Create, File!createRecordExclusive, File!Goto, OnPath
<1>9. CASE File!ReadOwn(d)
  <2>1. PICK record \in File!readRecordOwned :
            File!Goto(d, "releasing", IF File!StillMine(d, record) THEN "unlink" ELSE "done")
    BY <1>9 DEF File!ReadOwn
  <2>2. ~File!StillMine(d, record)
    BY <1>2 DEF File!readRecordOwned, File!StillMine, File!Mine
  <2> QED
    BY <1>6, <1>9, <2>1, <2>2 DEF File!ReadOwn, File!Goto
<1>10. CASE File!ReadExisting(d)
  <2>1. PICK record \in File!readRecordOwned :
            /\ \/ File!Mine(d, record) /\ File!Goto(d, "read", "truncate")
               \/ ~File!Mine(d, record) /\ File!StillHeld(d, record) /\ File!Refused(d, "read")
               \/ ~File!Mine(d, record) /\ ~File!StillHeld(d, record) /\ File!Goto(d, "read", "delete")
            /\ exposed' = IF record = File!Existing THEN exposed ELSE exposed \cup File!OnRecord
    BY <1>10 DEF File!ReadExisting
  <2>2. record = File!Existing
    BY <1>2, <1>3, <2>1
  <2>3. file_seen[d] <= file_now /\ file_seen[d] \in Nat /\ file_now \in Nat /\ file_until[c] \in Nat
    BY DEF LockInv, LockClocksPast, File!TypeOK
  <2>4. File!StillHeld(d, record)
    BY <1>2, <1>3, <2>2, <2>3 DEF File!StillHeld
  <2>5. File!Mine(d, record) => File!Owner(d) = File!Owner(c)
    BY <1>2, <2>2 DEF File!Mine
  <2> QED
    BY <1>6, <1>10, <2>1, <2>4, <2>5 DEF File!ReadExisting, File!Refused, File!Goto
<1> QED
  BY <1>4, <1>5, <1>7, <1>8, <1>9, <1>10

LEMMA LockInit == File!Init => LockInv
<1> SUFFICES ASSUME File!Init PROVE LockInv
  OBVIOUS
<1>1. \A c \in Calls : file_pc[c] = "idle" /\ file_seen[c] = 0 /\ file_now = 0
  BY DEF File!Init
<1> QED
  BY <1>1, LockInitType DEF LockInv, LockClocksPast, WriterOpen, File!Stands, File!Valid

LEMMA LockNext == LockInv /\ [File!Next]_(File!vars) => LockInv'
<1> SUFFICES ASSUME LockInv, [File!Next]_(File!vars) PROVE LockInv'
  OBVIOUS
<1>1. File!TypeOK' /\ LockClocksPast' /\ WriterOpen'
  BY LockNextType, ClocksStep, WriterStep DEF LockInv
<1>2. ASSUME NEW c \in Calls, File!Stands(c)' PROVE Kept(c)'
  <2>1. CASE File!writeRecordToFile(c) /\ File!Settled(c)
    BY <2>1, KeptFromGrant DEF LockInv
  <2>2. CASE File!Stands(c) /\ file_until'[c] = file_until[c]
    <3>1. Kept(c) /\ File!TypeOK
      BY <2>2 DEF LockInv
    <3>2. file_pc[c] = "held" /\ file_pc'[c] = "held"
      BY <1>2, <2>2 DEF File!Stands, File!Valid
    <3>3. ASSUME NEW d \in Calls,
                 File!Start(d) \/ File!Create(d) \/ File!ReadExisting(d) \/ File!Truncate(d) \/ File!Delete(d)
                 \/ File!Recreate(d) \/ File!ReadAfterRace(d) \/ File!writeRecordToFile(d) \/ File!WriteFails(d)
                 \/ File!release(d) \/ File!ReadOwn(d) \/ File!Unlink(d)
          PROVE  Kept(c)'
      <4>1. d # c
        BY <3>1, <3>2, <3>3 DEF File!TypeOK, File!Start, File!Create, File!ReadExisting, File!Truncate, File!Delete,
           File!Recreate, File!createRecordExclusive, File!ReadAfterRace, File!Refused, File!writeRecordToFile,
           File!WriteFails, File!release, File!ReadOwn, File!Unlink, File!Goto
      <4> QED
        BY <1>2, <2>2, <3>3, <4>1, KeptByOthers
    <3>4. CASE \E o \in Owners : File!Crash(o)
      BY <2>2, <3>1, <3>4 DEF File!Crash, Kept, OnPath, Clear, File!Owner
    <3>5. CASE File!Tick \/ UNCHANGED File!vars
      BY <2>2, <3>1, <3>5 DEF File!Tick, File!vars, Kept, OnPath, Clear, File!Owner
    <3> QED
      BY <3>3, <3>4, <3>5 DEF File!Next
  <2> QED
    BY <1>2, <2>1, <2>2, StoodBefore DEF LockInv
<1> QED
  BY <1>1, <1>2 DEF LockInv

(* No step grants the lock to another instance while one stands: the writer   *)
(* would have to be past reading the file.                                    *)
LEMMA NobodyElse ==
    ASSUME LockInv, [File!Next]_(File!vars), NEW c \in Calls, NEW d \in Calls,
           File!Stands(c), File!Owner(d) # File!Owner(c), file_pc[d] # "held"
    PROVE  file_pc'[d] # "held"
<1>1. d # c /\ File!TypeOK /\ Kept(c) /\ file_pc[d] # "write"
  BY DEF LockInv, Kept, Clear, File!Stands, File!Valid
<1> USE <1>1 DEF File!TypeOK, File!Goto
<1>2. ASSUME NEW e \in Calls, File!Start(e) \/ File!Create(e) \/ File!Recreate(e) \/ File!Truncate(e) \/ File!Delete(e)
      PROVE  file_pc'[d] # "held"
  BY <1>2 DEF File!Start, File!Create, File!Recreate, File!createRecordExclusive, File!Truncate, File!Delete
<1>3. ASSUME NEW e \in Calls, File!ReadExisting(e) \/ File!ReadAfterRace(e) PROVE file_pc'[d] # "held"
  BY <1>3 DEF File!ReadExisting, File!ReadAfterRace, File!Refused
<1>4. ASSUME NEW e \in Calls, File!writeRecordToFile(e) \/ File!WriteFails(e) PROVE file_pc'[d] # "held"
  BY <1>4 DEF File!writeRecordToFile, File!WriteFails
<1>5. ASSUME NEW e \in Calls, File!release(e) \/ File!ReadOwn(e) \/ File!Unlink(e) PROVE file_pc'[d] # "held"
  BY <1>5 DEF File!release, File!ReadOwn, File!Unlink
<1>6. CASE \E o \in Owners : File!Crash(o)
  BY <1>6 DEF File!Crash
<1>7. CASE File!Tick \/ UNCHANGED File!vars
  BY <1>7 DEF File!Tick, File!vars
<1> QED
  BY <1>2, <1>3, <1>4, <1>5, <1>6, <1>7 DEF File!Next

LEMMA StandingInv == LockInv => StandingOnRecord
<1> SUFFICES ASSUME LockInv, NEW c \in Calls, File!Stands(c) PROVE File!Existing # None /\ File!Existing.token = c
  BY DEF StandingOnRecord, File!StandingOnRecord
<1>1. File!TypeOK /\ OnPath(c)
  BY DEF LockInv, Kept
<1>2. content[path] # None
  BY <1>1, FileConstants, FileOwnerType DEF OnPath, File!Record, File!TypeOK
<1> QED
  BY <1>1, <1>2 DEF OnPath, File!Existing

-----------------------------------------------------------------------------
(* The composition                                                           *)

(* A step of the deployment is one of its backend; the other's state stays.   *)
LEMMA StepOfOne ==
    ASSUME [OwnershipNext]_<<backend, lease, file>>
    PROVE  [Next]_vars /\ [File!Next]_(File!vars)
BY DEF OwnershipNext, lease, file, File!vars, vars

LEMMA StartOfBoth == OwnershipInit => Init /\ File!Init
BY DEF OwnershipInit

(* Both backends keep their types.                                            *)
THEOREM OwnershipTypeCorrect == OwnershipSpec => [](TypeOK /\ File!TypeOK)
<1>1. OwnershipInit => TypeOK /\ File!TypeOK
  BY StartOfBoth, InitType, LockInitType
<1>2. TypeOK /\ File!TypeOK /\ [OwnershipNext]_<<backend, lease, file>> => (TypeOK /\ File!TypeOK)'
  BY StepOfOne, NextType, LockNextType
<1> QED
  BY <1>1, <1>2, PTL DEF OwnershipSpec

(* Under the lease: what was proved of it above, with the other backend       *)
(* beside it.                                                                 *)
THEOREM OwnershipExcludes == ASSUME ~Overlap PROVE OwnershipSpec => []ExclusiveOwners
<1>1. OwnershipInit => IInv
  BY StartOfBoth, InitInv
<1>2. IInv /\ [OwnershipNext]_<<backend, lease, file>> => IInv'
  BY StepOfOne, NextInv
<1>3. IInv => ExclusiveOwners
  BY DEF IInv, RowOfHolder, ExclusiveOwners
<1> QED
  BY <1>1, <1>2, <1>3, PTL DEF OwnershipSpec

(* Under the file lock: while a lock stands, no other instance is given it;   *)
(* crashes inside a call, failing writes and failing deletes do not weaken    *)
(* it.                                                                        *)
THEOREM LockExcludes == OwnershipSpec => BlocksOthers
<1> DEFINE Blocks == \A c, d \in Calls :
        File!Stands(c) /\ File!Owner(d) # File!Owner(c) => ~(file_pc[d] # "held" /\ file_pc'[d] = "held")
<1>1. OwnershipInit => LockInv
  BY StartOfBoth, LockInit
<1>2. LockInv /\ [OwnershipNext]_<<backend, lease, file>> => LockInv'
  BY StepOfOne, LockNext
<1>3. LockInv /\ [OwnershipNext]_<<backend, lease, file>> => [Blocks]_(File!vars)
  BY StepOfOne, NobodyElse
<1> QED
  BY <1>1, <1>2, <1>3, PTL DEF OwnershipSpec, BlocksOthers, File!BlocksOthers

(* Under the file lock: whatever is released, refreshed, reclaimed or dies,   *)
(* the record of a lock that stands is the one other instances read.          *)
THEOREM LockKeepsRecord == OwnershipSpec => []StandingOnRecord
<1>1. OwnershipInit => LockInv
  BY StartOfBoth, LockInit
<1>2. LockInv /\ [OwnershipNext]_<<backend, lease, file>> => LockInv'
  BY StepOfOne, LockNext
<1> QED
  BY <1>1, <1>2, StandingInv, PTL DEF OwnershipSpec
=============================================================================
