--------------------------- MODULE ControllerLock ---------------------------
(***************************************************************************)
(* The file lock every durable store of the controller takes before it     *)
(* reads and rewrites its files (src/cli/repositories/locks.ts).           *)
(*                                                                         *)
(* A lock is one file.  Taking it is an exclusive create ("wx") followed by *)
(* a separate write of the record; giving it back is a read followed by an *)
(* unlink by path; a record whose owner is dead, or whose time-to-live has *)
(* passed, is removed by whoever reads it, under a guard file named after  *)
(* the observed lock id.  Every system call is a step here, because the    *)
(* callers are separate operating-system processes.                        *)
(***************************************************************************)
EXTENDS Naturals, FiniteSets

CONSTANTS
    Procs,      \* the processes (one pid each) that use this lock
    Ttl,        \* time-to-live of a record, 0 when the caller passes none
    MaxTime,    \* bound of the clock
    Prompt,     \* TRUE: the clock stands still between a check and its unlink
    NoLock      \* the absent file, and the record of a process holding none

ASSUME TtlAssumption == Ttl \in Nat
ASSUME MaxTimeAssumption == MaxTime \in Nat
ASSUME PromptAssumption == Prompt \in BOOLEAN

(* A record: its lockId is the pair (pid, at); ready is FALSE between the   *)
(* exclusive create and the write, when a reader finds malformed JSON.      *)
LockRecord == [pid : Procs, at : 0..MaxTime, ready : BOOLEAN]

ASSUME NoLockAssumption == NoLock \notin LockRecord

VARIABLES
    now,        \* Date.now()
    file,       \* the lock file: NoLock when it does not exist
    guards,     \* the lock ids whose ".reap-<lockId>.guard" file exists
    pc,         \* where each process is, "dead" when it does not exist
    mine,       \* the record a process built for its current acquisition
    obs,        \* the stale record a process is about to reap
    ret         \* where a process goes on when its reap returns

vars == <<now, file, guards, pc, mine, obs, ret>>

LockId(r) == <<r.pid, r.at>>
LockIds == Procs \X (0..MaxTime)

(* The callers hold the lock while in one of these. *)
Holding == {"critical", "relread", "unlink"}
Reaping == {"guard", "reread", "rm", "unguard"}
Locations == {"idle", "read", "create", "write", "contend", "dead"}
                 \union Holding \union Reaping

(* isExpired and isPidAlive, and the test readControllerLock makes of both. *)
Expired(r) == Ttl > 0 /\ r.at + Ttl <= now
Alive(q) == pc[q] # "dead"
Stale(r) == Expired(r) \/ ~Alive(r.pid)

(* readControllerLockRecord: an unreadable record reads as none. *)
Readable == file # NoLock /\ file.ready

Init ==
    /\ now = 0
    /\ file = NoLock
    /\ guards = {}
    /\ pc = [p \in Procs |-> "idle"]
    /\ mine = [p \in Procs |-> NoLock]
    /\ obs = [p \in Procs |-> NoLock]
    /\ ret = [p \in Procs |-> "idle"]

-----------------------------------------------------------------------------
(* A process that wants the lock makes one attempt. *)
StartAcquire(p) ==
    /\ pc[p] = "idle"
    /\ pc' = [pc EXCEPT ![p] = "read"]
    /\ UNCHANGED <<now, file, guards, mine, obs, ret>>

(* Where the caller of readControllerLock goes on when it returns nothing:  *)
(* an attempt builds its record and creates the file, a failed attempt and  *)
(* a release return.                                                        *)
NewRecord(p) == [pid |-> p, at |-> now, ready |-> FALSE]

Continue(p, next) ==
    /\ pc' = [pc EXCEPT ![p] = next]
    /\ mine' = [mine EXCEPT ![p] = CASE next = "create" -> NewRecord(p)
                                     [] next = "idle"   -> NoLock
                                     [] OTHER           -> @]

(* The reap's locals go out of scope when it returns. *)
ForgetReap(p) ==
    /\ obs' = [obs EXCEPT ![p] = NoLock]
    /\ ret' = [ret EXCEPT ![p] = "idle"]

AfterNothing(loc) == IF loc = "read" THEN "create" ELSE "idle"

(* The read inside an attempt, inside a failed attempt, and inside a        *)
(* release.  A stale record starts a reap and reads as nothing.             *)
ReadNothing(p) ==
    /\ pc[p] \in {"read", "contend", "relread"}
    /\ ~Readable
    /\ Continue(p, AfterNothing(pc[p]))
    /\ UNCHANGED <<now, file, guards, obs, ret>>

ReadStale(p) ==
    /\ pc[p] \in {"read", "contend", "relread"}
    /\ Readable /\ Stale(file)
    /\ obs' = [obs EXCEPT ![p] = file]
    /\ ret' = [ret EXCEPT ![p] = AfterNothing(pc[p])]
    /\ pc' = [pc EXCEPT ![p] = "guard"]
    /\ UNCHANGED <<now, file, guards, mine>>

(* Mutant: a release unlinks the live lock without comparing lock ids. *)
MutReadLiveNoCompare(p) ==
    /\ pc[p] \in {"read", "contend", "relread"}
    /\ Readable /\ ~Stale(file)
    /\ Continue(p, IF pc[p] = "relread" THEN "unlink" ELSE "idle")
    /\ UNCHANGED <<now, file, guards, obs, ret>>

(* A live record is contention for an attempt; a release compares lock ids  *)
(* and throws LOCK_OWNERSHIP_MISMATCH when the lock is someone else's.      *)
ReadLive(p) ==
    /\ pc[p] \in {"read", "contend", "relread"}
    /\ Readable /\ ~Stale(file)
    /\ Continue(p, IF pc[p] = "relread" /\ LockId(file) = LockId(mine[p])
                   THEN "unlink" ELSE "idle")
    /\ UNCHANGED <<now, file, guards, obs, ret>>

-----------------------------------------------------------------------------
(* reapControllerLockIfUnchanged, one system call at a time. *)
(* Mutant: the guard is not exclusive, so two reapers of one id proceed. *)
MutTakeGuardShared(p) ==
    /\ pc[p] = "guard"
    /\ guards' = guards \union {LockId(obs[p])}
    /\ pc' = [pc EXCEPT ![p] = "reread"]
    /\ UNCHANGED <<now, file, mine, obs, ret>>

TakeGuard(p) ==
    /\ pc[p] = "guard"
    /\ IF LockId(obs[p]) \in guards
       THEN Continue(p, ret[p]) /\ ForgetReap(p) /\ UNCHANGED guards
       ELSE /\ guards' = guards \union {LockId(obs[p])}
            /\ pc' = [pc EXCEPT ![p] = "reread"]
            /\ UNCHANGED <<mine, obs, ret>>
    /\ UNCHANGED <<now, file>>

Reread(p) ==
    /\ pc[p] = "reread"
    /\ pc' = [pc EXCEPT ![p] =
                 IF Readable /\ LockId(file) = LockId(obs[p]) /\ Stale(file)
                 THEN "rm" ELSE "unguard"]
    /\ UNCHANGED <<now, file, guards, mine, obs, ret>>

(* rmSync by path: it removes whatever file is there now. *)
RemoveStale(p) ==
    /\ pc[p] = "rm"
    /\ file' = NoLock
    /\ pc' = [pc EXCEPT ![p] = "unguard"]
    /\ UNCHANGED <<now, guards, mine, obs, ret>>

DropGuard(p) ==
    /\ pc[p] = "unguard"
    /\ guards' = guards \ {LockId(obs[p])}
    /\ Continue(p, ret[p])
    /\ ForgetReap(p)
    /\ UNCHANGED <<now, file>>

-----------------------------------------------------------------------------
(* openSync(path, "wx"): fails when the file exists, malformed or not. *)
CreateExclusive(p) ==
    /\ pc[p] = "create"
    /\ IF file = NoLock
       THEN file' = mine[p] /\ pc' = [pc EXCEPT ![p] = "write"]
       ELSE pc' = [pc EXCEPT ![p] = "contend"] /\ UNCHANGED file
    /\ UNCHANGED <<now, guards, mine, obs, ret>>

Written(r) == [pid |-> r.pid, at |-> r.at, ready |-> TRUE]

(* The write goes to the descriptor: it completes the file this process     *)
(* created, and is lost when another process has unlinked that file.        *)
WriteRecord(p) ==
    /\ pc[p] = "write"
    /\ file' = IF file # NoLock /\ LockId(file) = LockId(mine[p])
               THEN Written(file) ELSE file
    /\ mine' = [mine EXCEPT ![p] = Written(@)]
    /\ pc' = [pc EXCEPT ![p] = "critical"]
    /\ UNCHANGED <<now, guards, obs, ret>>

(* A failed write is reported as contention and leaves the file malformed. *)
WriteFails(p) ==
    /\ pc[p] = "write"
    /\ pc' = [pc EXCEPT ![p] = "contend"]
    /\ UNCHANGED <<now, file, guards, mine, obs, ret>>

(* The operation of withControllerLock ends and its finally block releases. *)
StartRelease(p) ==
    /\ pc[p] = "critical"
    /\ pc' = [pc EXCEPT ![p] = "relread"]
    /\ UNCHANGED <<now, file, guards, mine, obs, ret>>

(* rmSync by path after the comparison: again, whatever file is there now. *)
Unlink(p) ==
    /\ pc[p] = "unlink"
    /\ file' = NoLock
    /\ Continue(p, "idle")
    /\ UNCHANGED <<now, guards, obs, ret>>

-----------------------------------------------------------------------------
(* A process may die anywhere; its files stay.  A later process may be      *)
(* given the same pid.                                                      *)
Crash(p) ==
    /\ pc[p] # "dead"
    /\ pc' = [pc EXCEPT ![p] = "dead"]
    /\ mine' = [mine EXCEPT ![p] = NoLock]
    /\ ForgetReap(p)
    /\ UNCHANGED <<now, file, guards>>

Respawn(p) ==
    /\ pc[p] = "dead"
    /\ pc' = [pc EXCEPT ![p] = "idle"]
    /\ UNCHANGED <<now, file, guards, mine, obs, ret>>

Tick ==
    /\ now < MaxTime
    /\ Prompt => \A p \in Procs : pc[p] \notin {"rm", "unlink"}
    /\ now' = now + 1
    /\ UNCHANGED <<file, guards, pc, mine, obs, ret>>

AcquireStep(p) ==
    \/ ReadNothing(p) \/ ReadStale(p) \/ ReadLive(p)
    \/ TakeGuard(p) \/ Reread(p) \/ RemoveStale(p) \/ DropGuard(p)
    \/ CreateExclusive(p) \/ WriteRecord(p)

Step(p) ==
    \/ StartAcquire(p) \/ AcquireStep(p) \/ WriteFails(p)
    \/ StartRelease(p) \/ Unlink(p)

Next ==
    \/ \E p \in Procs : Step(p) \/ Crash(p) \/ Respawn(p)
    \/ Tick

Spec == Init /\ [][Next]_vars

-----------------------------------------------------------------------------
TypeOK ==
    /\ now \in 0..MaxTime
    /\ file \in LockRecord \union {NoLock}
    /\ guards \subseteq LockIds
    /\ pc \in [Procs -> Locations]
    /\ mine \in [Procs -> LockRecord \union {NoLock}]
    /\ obs \in [Procs -> LockRecord \union {NoLock}]
    /\ ret \in [Procs -> {"create", "idle"}]

(* Two processes are both inside the operation withControllerLock protects  *)
(* only when the record of one of them has run out, whatever crashes,       *)
(* half-written records and reaps surround it; never without a              *)
(* time-to-live.                                                            *)
MutualExclusion ==
    \A p, q \in Procs :
        pc[p] \in Holding /\ pc[q] \in Holding /\ p # q =>
            Expired(mine[p]) \/ Expired(mine[q])

(* What makes it so, and is inductive when the clock stands still between a *)
(* check and its unlink, or when no record can expire.  The file names the  *)
(* process that owns the lock: one between its create and its unlink, until *)
(* its record runs out.  The guard of a lock id admits one reaper; a reaper *)
(* about to unlink still has before it a record that names no owner.        *)
Owner(p) == \/ pc[p] \in {"write", "unlink"}
            \/ pc[p] \in {"critical", "relread"} /\ ~Expired(mine[p])
Guarding == {"reread", "rm", "unguard"}

OwnRecords ==
    \A p \in Procs :
        /\ pc[p] \in {"create", "write"} \union Holding =>
               mine[p] # NoLock /\ mine[p].pid = p
        /\ pc[p] \in {"create", "write"} => ~mine[p].ready
        /\ pc[p] = "guard" => obs[p] # NoLock
OwnersInFile ==
    \A p \in Procs :
        /\ Owner(p) => file # NoLock /\ LockId(file) = LockId(mine[p])
        /\ pc[p] = "write" => ~file.ready
        /\ pc[p] = "unlink" => ~Expired(mine[p])
OneGuardHolder ==
    \A p, q \in Procs :
        /\ pc[p] \in Guarding => obs[p] # NoLock /\ LockId(obs[p]) \in guards
        /\ pc[p] \in Guarding /\ pc[q] \in Guarding
             /\ LockId(obs[p]) = LockId(obs[q]) => p = q
ReaperFacesOrphan ==
    \A p \in Procs : pc[p] = "rm" =>
        /\ file # NoLock /\ LockId(file) = LockId(obs[p])
        /\ ~Owner(file.pid)

LockInv == TypeOK /\ OwnRecords /\ OwnersInFile /\ OneGuardHolder /\ ReaperFacesOrphan

(* The comment of reapControllerLockIfUnchanged: "an owner that replaced    *)
(* the stale record is never deleted from an old observation".  The reaper  *)
(* removes the record it observed, or finds the file gone already.          *)
ReapRemove(p) == pc[p] = "rm" /\ pc'[p] = "unguard"
ReapsOnlyObserved ==
    [][\A p \in Procs :
          ReapRemove(p) /\ file # NoLock => LockId(file) = LockId(obs[p])]_vars

(* releaseControllerLock compares lock ids so that a late release does not  *)
(* free a successor's lock: the file removed is the releaser's own.         *)
ReleasesOnlyOwn ==
    [][\A p \in Procs :
          pc[p] = "unlink" /\ pc'[p] = "idle" /\ file # NoLock =>
              LockId(file) = LockId(mine[p])]_vars

(* The lock promises what LeasedLock says: one process at a time comes in,  *)
(* only when no other is there in time, and nobody is put out but by its    *)
(* own leaving, its own death or its own record running out.                *)
Owners == {p \in Procs : Owner(p)}
Late == {p \in Procs : pc[p] \in {"critical", "relread"} /\ Expired(mine[p])}

Promise == INSTANCE LeasedLock
    WITH Leased <- Ttl > 0, inTime <- Owners, late <- Late

KeepsPromise == Promise!Spec
=============================================================================
