------------------------ MODULE ControllerLockProofs ------------------------
(* Mutual exclusion of the controller file lock, for any set of processes,  *)
(* when the lock has no time-to-live, or the clock stands still between a   *)
(* check and the unlink that follows it.                                    *)
EXTENDS ControllerLock, TLAPS

LEMMA InitLockInv == Init => LockInv
BY MaxTimeAssumption DEF Init, LockInv, TypeOK, Locations, Holding, Reaping,
   Owner, Guarding, OwnRecords, OwnersInFile, OneGuardHolder, ReaperFacesOrphan

(* Going on after a read that found nothing moves one process and builds    *)
(* its record exactly when it is about to create the file.                  *)
LEMMA ContinueMovesOne ==
    ASSUME TypeOK, NEW p \in Procs, NEW next \in {"create", "idle", "unlink"},
           Continue(p, next)
    PROVE  /\ pc' = [pc EXCEPT ![p] = next]
           /\ mine' \in [Procs -> LockRecord \union {NoLock}]
           /\ \A q \in Procs \ {p} : mine'[q] = mine[q]
           /\ next = "create" => mine'[p] # NoLock /\ mine'[p].pid = p /\ ~mine'[p].ready
           /\ next = "unlink" => mine'[p] = mine[p]
<1> USE DEF Continue, TypeOK
<1>1. NewRecord(p) \in LockRecord /\ NewRecord(p).pid = p /\ ~NewRecord(p).ready
  BY DEF NewRecord, LockRecord
<1>2. CASE next = "create"
  BY <1>1, <1>2, NoLockAssumption
<1>3. CASE next = "idle"
  BY <1>3
<1>4. CASE next = "unlink"
  BY <1>4
<1>5. QED
  BY <1>2, <1>3, <1>4

LEMMA NextLockInv ==
    ASSUME Ttl = 0 \/ Prompt, LockInv, [Next]_vars PROVE LockInv'
<1> USE NoLockAssumption, MaxTimeAssumption, TtlAssumption
<1> USE DEF LockInv, TypeOK, Locations, Holding, Reaping, Owner, Expired, Guarding,
            OwnRecords, OwnersInFile, OneGuardHolder, ReaperFacesOrphan, LockId, LockIds,
            LockRecord
<1>1. ASSUME NEW p \in Procs, StartAcquire(p) PROVE LockInv'
  BY <1>1 DEF StartAcquire
<1>2. ASSUME NEW p \in Procs, ReadNothing(p) PROVE LockInv'
  <2>1. /\ Continue(p, AfterNothing(pc[p]))
        /\ AfterNothing(pc[p]) \in {"create", "idle"}
        /\ UNCHANGED <<now, file, guards, obs, ret>>
    BY <1>2 DEF ReadNothing, AfterNothing
  <2>2. TypeOK'
    BY <2>1, <1>2, ContinueMovesOne DEF ReadNothing
  <2>8. OwnRecords'
    BY <2>1, <1>2, ContinueMovesOne DEF ReadNothing
  <2>3. OneGuardHolder'
    BY <2>1, <1>2, ContinueMovesOne DEF ReadNothing
  <2>4. pc'[p] \in {"create", "idle"} /\ \A q \in Procs \ {p} : pc'[q] = pc[q] /\ mine'[q] = mine[q]
    BY <2>1, <1>2, ContinueMovesOne DEF ReadNothing
  <2>5. OwnersInFile'
    BY <2>1, <2>4
  <2>6. ReaperFacesOrphan'
    BY <2>1, <2>4
  <2>7. QED
    BY <2>2, <2>8, <2>3, <2>5, <2>6
<1>3. ASSUME NEW p \in Procs, ReadStale(p) PROVE LockInv'
  BY <1>3 DEF ReadStale, AfterNothing, Readable
<1>4. ASSUME NEW p \in Procs, ReadLive(p) PROVE LockInv'
  <2>1. file \in LockRecord /\ ~Expired(file) /\ UNCHANGED <<now, file, guards, obs, ret>>
    BY <1>4 DEF ReadLive, Readable, Stale
  <2>2. CASE pc[p] = "relread" /\ LockId(file) = LockId(mine[p])
    <3>1. pc' = [pc EXCEPT ![p] = "unlink"] /\ mine' = mine
      BY <1>4, <2>2 DEF ReadLive, Continue
    <3>2. ~Expired(mine[p]) /\ Owner(p)
      BY <2>1, <2>2
    <3>3. QED
      BY <1>4, <2>1, <2>2, <3>1, <3>2
  <2>3. CASE ~(pc[p] = "relread" /\ LockId(file) = LockId(mine[p]))
    <3>1. pc' = [pc EXCEPT ![p] = "idle"] /\ mine' = [mine EXCEPT ![p] = NoLock]
      BY <1>4, <2>3 DEF ReadLive, Continue
    <3>2. TypeOK' /\ OwnRecords' /\ OneGuardHolder'
      BY <1>4, <2>1, <3>1 DEF ReadLive
    <3>3. \A q \in Procs : Owner(q)' => q # p /\ Owner(q) /\ mine'[q] = mine[q]
      BY <2>1, <3>1
    <3>4. OwnersInFile' /\ ReaperFacesOrphan'
      BY <2>1, <3>1, <3>3
    <3>5. QED
      BY <3>2, <3>4
  <2>4. QED
    BY <2>2, <2>3
<1>5. ASSUME NEW p \in Procs, TakeGuard(p) PROVE LockInv'
  <2>1. CASE LockId(obs[p]) \in guards
    <3>1. Continue(p, ret[p]) /\ ForgetReap(p) /\ UNCHANGED <<now, file, guards>>
      BY <2>1, <1>5 DEF TakeGuard
    <3>2. TypeOK'
      BY <3>1, <1>5, ContinueMovesOne DEF TakeGuard, ForgetReap
    <3>3. OneGuardHolder' /\ OwnersInFile' /\ ReaperFacesOrphan'
      BY <3>1, <1>5, ContinueMovesOne DEF TakeGuard, ForgetReap
    <3>4. OwnRecords'
      BY <3>1, <1>5, ContinueMovesOne DEF TakeGuard, ForgetReap
    <3>5. QED
      BY <3>2, <3>3, <3>4
  <2>2. CASE LockId(obs[p]) \notin guards
    BY <2>2, <1>5 DEF TakeGuard
  <2>3. QED
    BY <2>1, <2>2
<1>6. ASSUME NEW p \in Procs, Reread(p) PROVE LockInv'
  <2>1. CASE Readable /\ LockId(file) = LockId(obs[p]) /\ Stale(file)
    <3>1. file \in LockRecord /\ file.ready
      BY <2>1 DEF Readable
    <3>2. ~Owner(file.pid)
      BY <2>1, <3>1 DEF Stale, Alive
    <3>3. QED
      BY <1>6, <2>1, <3>1, <3>2 DEF Reread
  <2>2. CASE ~(Readable /\ LockId(file) = LockId(obs[p]) /\ Stale(file))
    BY <1>6, <2>2 DEF Reread
  <2>3. QED
    BY <2>1, <2>2
<1>7. ASSUME NEW p \in Procs, RemoveStale(p) PROVE LockInv'
  <2>1. TypeOK' /\ OwnRecords' /\ OneGuardHolder'
    BY <1>7 DEF RemoveStale
  <2>2. ASSUME NEW q \in Procs PROVE ~Owner(q) /\ pc[q] \notin {"write", "unlink"}
    <3>1. file.pid \in Procs /\ ~Owner(file.pid)
      BY <1>7 DEF RemoveStale
    <3>2. Owner(q) => file.pid = q
      OBVIOUS
    <3>3. QED
      BY <3>1, <3>2
  <2>3. ASSUME NEW q \in Procs PROVE pc'[q] # "rm"
    <3>1. pc[q] = "rm" => LockId(obs[q]) = LockId(obs[p])
      BY <1>7 DEF RemoveStale
    <3>2. pc[q] = "rm" => q = p
      BY <1>7, <3>1 DEF RemoveStale
    <3>3. QED
      BY <1>7, <3>2 DEF RemoveStale
  <2>4. OwnersInFile'
    BY <1>7, <2>2 DEF RemoveStale
  <2>5. ReaperFacesOrphan'
    BY <2>3
  <2>6. QED
    BY <2>1, <2>4, <2>5
<1>8. ASSUME NEW p \in Procs, DropGuard(p) PROVE LockInv'
  <2>1. Continue(p, ret[p]) /\ ForgetReap(p) /\ UNCHANGED <<now, file>>
    BY <1>8 DEF DropGuard
  <2>2. TypeOK'
    BY <2>1, <1>8, ContinueMovesOne DEF DropGuard, ForgetReap
  <2>3. OneGuardHolder'
    BY <2>1, <1>8, ContinueMovesOne DEF DropGuard, ForgetReap
  <2>4. OwnRecords'
    BY <2>1, <1>8, ContinueMovesOne DEF DropGuard, ForgetReap
  <2>5. pc'[p] \in {"create", "idle"} /\ \A q \in Procs \ {p} : pc'[q] = pc[q] /\ mine'[q] = mine[q]
    BY <2>1, <1>8, ContinueMovesOne DEF DropGuard
  <2>6. OwnersInFile'
    BY <2>1, <2>5
  <2>7. ReaperFacesOrphan'
    BY <2>1, <2>5, <1>8 DEF ForgetReap
  <2>8. QED
    BY <2>2, <2>3, <2>4, <2>6, <2>7
<1>9. ASSUME NEW p \in Procs, CreateExclusive(p) PROVE LockInv'
  <2>1. CASE file = NoLock
    <3>1. file' # NoLock /\ file'.pid = p /\ TypeOK'
      BY <2>1, <1>9 DEF CreateExclusive
    <3>2. QED
      BY <3>1, <2>1, <1>9 DEF CreateExclusive
  <2>2. CASE file # NoLock
    BY <2>2, <1>9 DEF CreateExclusive
  <2>3. QED
    BY <2>1, <2>2
<1>10. ASSUME NEW p \in Procs, WriteRecord(p) PROVE LockInv'
  <2>1. \A r \in LockRecord : /\ Written(r) \in LockRecord
                             /\ LockId(Written(r)) = LockId(r)
                             /\ Written(r).pid = r.pid /\ Written(r).at = r.at
    BY DEF Written
  <2>2. /\ Owner(p) /\ file \in LockRecord /\ LockId(file) = LockId(mine[p])
        /\ mine[p] \in LockRecord /\ mine[p].pid = p
    BY <1>10 DEF WriteRecord
  <2>3. file' = Written(file) /\ mine' = [mine EXCEPT ![p] = Written(mine[p])]
    BY <1>10, <2>2 DEF WriteRecord
  <2>4. TypeOK' /\ OwnRecords' /\ OneGuardHolder'
    BY <1>10, <2>1, <2>2, <2>3 DEF WriteRecord
  <2>5. \A q \in Procs \ {p} : ~Owner(q)
    BY <2>2
  <2>6. \A q \in Procs : pc[q] # "rm"
    BY <2>2
  <2>7. OwnersInFile'
    BY <1>10, <2>1, <2>2, <2>3, <2>5 DEF WriteRecord
  <2>8. ReaperFacesOrphan'
    BY <1>10, <2>6 DEF WriteRecord
  <2>9. QED
    BY <2>4, <2>7, <2>8
<1>11. ASSUME NEW p \in Procs, WriteFails(p) PROVE LockInv'
  BY <1>11 DEF WriteFails
<1>12. ASSUME NEW p \in Procs, StartRelease(p) PROVE LockInv'
  BY <1>12 DEF StartRelease
<1>13. ASSUME NEW p \in Procs, Unlink(p) PROVE LockInv'
  BY <1>13 DEF Unlink, Continue, NewRecord
<1>14. ASSUME NEW p \in Procs, Crash(p) PROVE LockInv'
  BY <1>14 DEF Crash, ForgetReap
<1>15. ASSUME NEW p \in Procs, Respawn(p) PROVE LockInv'
  BY <1>15 DEF Respawn
<1>16. ASSUME Tick PROVE LockInv'
  BY <1>16 DEF Tick
<1>17. ASSUME UNCHANGED vars PROVE LockInv'
  BY <1>17 DEF vars
<1>18. QED
  BY <1>1, <1>2, <1>3, <1>4, <1>5, <1>6, <1>7, <1>8, <1>9, <1>10, <1>11,
     <1>12, <1>13, <1>14, <1>15, <1>16, <1>17 DEF Next, Step, AcquireStep

(* LockInv holds of every reachable state. *)
THEOREM LockInvariant ==
    ASSUME Ttl = 0 \/ Prompt PROVE Spec => []LockInv
<1>1. Init => LockInv
  BY InitLockInv
<1>2. LockInv /\ [Next]_vars => LockInv'
  BY NextLockInv
<1>3. QED
  BY <1>1, <1>2, PTL DEF Spec

(* Two processes are never both inside the operation withControllerLock     *)
(* protects (locks.ts), for a lock without a time-to-live or checks that    *)
(* are prompt, unless the record of one of the two has expired.             *)
THEOREM LockMutualExclusion ==
    ASSUME Ttl = 0 \/ Prompt PROVE Spec => []MutualExclusion
<1>1. LockInv => MutualExclusion
  BY DEF LockInv, TypeOK, OwnRecords, OwnersInFile, Owner, Holding, LockId, MutualExclusion
<1>2. QED
  BY <1>1, LockInvariant, PTL

(* The claim of reapControllerLockIfUnchanged, under the same condition: a  *)
(* reaper removes only the record it observed.                              *)
THEOREM LockReapsOnlyObserved ==
    ASSUME Ttl = 0 \/ Prompt PROVE Spec => ReapsOnlyObserved
<1>1. LockInv /\ [Next]_vars =>
        [\A p \in Procs :
            ReapRemove(p) /\ file # NoLock => LockId(file) = LockId(obs[p])]_vars
  BY DEF LockInv, ReaperFacesOrphan, ReapRemove
<1>2. QED
  BY <1>1, LockInvariant, PTL DEF Spec, ReapsOnlyObserved

(* A release removes only the releaser's own record (releaseControllerLock),*)
(* under the same condition.                                                *)
THEOREM LockReleasesOnlyOwn ==
    ASSUME Ttl = 0 \/ Prompt PROVE Spec => ReleasesOnlyOwn
<1>1. LockInv /\ [Next]_vars =>
        [\A p \in Procs :
            pc[p] = "unlink" /\ pc'[p] = "idle" /\ file # NoLock =>
                LockId(file) = LockId(mine[p])]_vars
  BY DEF LockInv, OwnersInFile, Owner
<1>2. QED
  BY <1>1, LockInvariant, PTL DEF Spec, ReleasesOnlyOwn

(* Every step of one process, and every tick, is a step of the promise or   *)
(* leaves it as it is: how the owners and the late ones change, by the only *)
(* process that moves.                                                      *)
LEMMA OneOwner ==
    ASSUME LockInv, NEW p \in Procs, NEW q \in Procs, Owner(p), Owner(q) PROVE p = q
BY DEF LockInv, TypeOK, OwnRecords, OwnersInFile, Owner, Holding, LockId

LEMMA MoverKeepsPromise ==
    ASSUME LockInv, NEW p \in Procs,
           \A q \in Procs \ {p} : (Owner(q)' <=> Owner(q)) /\ (q \in Late' <=> q \in Late),
           \/ (Owner(p)' <=> Owner(p)) /\ (p \in Late' <=> p \in Late)
           \/ ~Owner(p) /\ Owner(p)' /\ Owners = {} /\ p \notin Late /\ p \notin Late'
           \/ Owner(p) /\ ~Owner(p)' /\ p \notin Late /\ p \notin Late'
           \/ ~Owner(p) /\ ~Owner(p)' /\ p \in Late /\ p \notin Late'
           \/ Ttl > 0 /\ Owner(p) /\ ~Owner(p)' /\ p \notin Late /\ p \in Late'
    PROVE  [Promise!Next]_(Promise!vars)
<1>0. Owners \in SUBSET Procs /\ Late \in SUBSET Procs /\ Owners' \in SUBSET Procs /\ Late' \in SUBSET Procs
  BY DEF Owners, Late
<1>1. \A q \in Procs : (q \in Owners <=> Owner(q)) /\ (q \in Owners' <=> Owner(q)')
  BY DEF Owners
<1>2. CASE (Owner(p)' <=> Owner(p)) /\ (p \in Late' <=> p \in Late)
  <2>1. Owners' = Owners /\ Late' = Late
    BY <1>0, <1>1, <1>2
  <2>2. QED
    BY <2>1 DEF Promise!vars
<1>3. CASE ~Owner(p) /\ Owner(p)' /\ Owners = {} /\ p \notin Late /\ p \notin Late'
  <2>1. Owners' = {p} /\ Late' = Late
    BY <1>0, <1>1, <1>3
  <2>2. Promise!Take(p)
    BY <2>1, <1>3 DEF Promise!Take
  <2>3. QED
    BY <2>2 DEF Promise!Next
<1>4. CASE Owner(p) /\ ~Owner(p)' /\ p \notin Late /\ p \notin Late'
  <2>1. Owners' = Owners \ {p} /\ Late' = Late /\ p \in Owners
    BY <1>0, <1>1, <1>4
  <2>2. Promise!Leave(p)
    BY <2>1 DEF Promise!Leave
  <2>3. QED
    BY <2>2 DEF Promise!Next
<1>5. CASE ~Owner(p) /\ ~Owner(p)' /\ p \in Late /\ p \notin Late'
  <2>1. Owners' = Owners /\ Late' = Late \ {p}
    BY <1>0, <1>1, <1>5
  <2>2. Promise!LeaveLate(p)
    BY <2>1, <1>5 DEF Promise!LeaveLate
  <2>3. QED
    BY <2>2 DEF Promise!Next
<1>6. CASE Ttl > 0 /\ Owner(p) /\ ~Owner(p)' /\ p \notin Late /\ p \in Late'
  <2>1. Owners' = Owners \ {p} /\ Late' = Late \union {p} /\ p \in Owners
    BY <1>0, <1>1, <1>6
  <2>2. Promise!RunOut(p)
    BY <2>1, <1>6 DEF Promise!RunOut
  <2>3. QED
    BY <2>2 DEF Promise!Next
<1>7. QED
  BY <1>2, <1>3, <1>4, <1>5, <1>6

LEMMA NextKeepsPromise ==
    ASSUME LockInv, [Next]_vars PROVE [Promise!Next]_(Promise!vars)
<1> USE NoLockAssumption, MaxTimeAssumption, TtlAssumption
<1> DEFINE Others(p) ==
        \A q \in Procs \ {p} : (Owner(q)' <=> Owner(q)) /\ (q \in Late' <=> q \in Late)
    Same(p) == (Owner(p)' <=> Owner(p)) /\ (p \in Late' <=> p \in Late)
    Leaves(p) == ~Owner(p)' /\ p \notin Late'
<1>0. TypeOK
  BY DEF LockInv
<1>a. ASSUME NEW p \in Procs PROVE p \in Late => ~Owner(p)
  BY DEF Late, Owner
(* A step that moves one process only, and lets neither time nor another    *)
(* record change, leaves the others where they are in the promise.          *)
<1>b. ASSUME NEW p \in Procs, now' = now,
             \A q \in Procs \ {p} : pc'[q] = pc[q] /\ mine'[q] = mine[q]
      PROVE  Others(p)
  BY <1>b DEF Owner, Late, Expired
<1>c. ASSUME NEW p \in Procs, Others(p), Same(p) \/ Leaves(p) PROVE [Promise!Next]_(Promise!vars)
  <2>1. CASE Same(p)
    BY <2>1, <1>c, MoverKeepsPromise
  <2>2. CASE Leaves(p)
    BY <2>2, <1>c, <1>a, MoverKeepsPromise
  <2>3. QED
    BY <1>c, <2>1, <2>2
<1>d. ASSUME NEW p \in Procs, NEW next \in {"create", "idle"}, Continue(p, next), now' = now
      PROVE  [Promise!Next]_(Promise!vars)
  <2>1. pc'[p] = next /\ \A q \in Procs \ {p} : pc'[q] = pc[q] /\ mine'[q] = mine[q]
    BY <1>0, <1>d, ContinueMovesOne DEF TypeOK
  <2>2. Leaves(p)
    BY <2>1 DEF Owner, Late
  <2>3. QED
    BY <1>b, <1>c, <1>d, <2>1, <2>2
<1>1. ASSUME NEW p \in Procs, StartAcquire(p) \/ Reread(p) \/ RemoveStale(p) \/ WriteFails(p)
                                \/ ReadStale(p) \/ StartRelease(p) \/ Respawn(p) \/ Crash(p)
      PROVE  [Promise!Next]_(Promise!vars)
  <2>1. now' = now /\ \A q \in Procs \ {p} : pc'[q] = pc[q] /\ mine'[q] = mine[q]
    BY <1>0, <1>1 DEF TypeOK, StartAcquire, Reread, RemoveStale, WriteFails, ReadStale, StartRelease,
                      Respawn, Crash
  <2>2. CASE StartRelease(p)
    BY <2>1, <2>2, <1>0, <1>b, <1>c DEF TypeOK, StartRelease, Owner, Late, Expired
  <2>3. CASE ~StartRelease(p)
    <3>1. pc'[p] \notin {"write", "unlink", "critical", "relread"}
      BY <2>3, <1>0, <1>1 DEF TypeOK, StartAcquire, Reread, RemoveStale, WriteFails, ReadStale,
                              Respawn, Crash
    <3>2. Leaves(p)
      BY <3>1 DEF Owner, Late
    <3>3. QED
      BY <3>2, <2>1, <1>b, <1>c
  <2>4. QED
    BY <2>2, <2>3
<1>2. ASSUME NEW p \in Procs, ReadNothing(p) PROVE [Promise!Next]_(Promise!vars)
  BY <1>2, <1>d DEF ReadNothing, AfterNothing
<1>3. ASSUME NEW p \in Procs, ReadLive(p) PROVE [Promise!Next]_(Promise!vars)
  <2>1. CASE pc[p] = "relread" /\ LockId(file) = LockId(mine[p])
    <3>0. Continue(p, "unlink") /\ now' = now
      BY <1>3, <2>1 DEF ReadLive
    <3>1. pc' = [pc EXCEPT ![p] = "unlink"] /\ mine' = mine
      BY <3>0, <1>0 DEF Continue, TypeOK
    <3>2. ~Expired(mine[p])
      BY <1>3, <2>1 DEF ReadLive, Stale, Expired, LockId
    <3>3. Same(p)
      BY <3>1, <3>2, <2>1, <1>0 DEF TypeOK, Owner, Late
    <3>4. QED
      BY <3>0, <3>1, <3>3, <1>0, <1>b, <1>c DEF TypeOK
  <2>2. CASE ~(pc[p] = "relread" /\ LockId(file) = LockId(mine[p]))
    BY <2>2, <1>3, <1>d DEF ReadLive
  <2>3. QED
    BY <2>1, <2>2
<1>4. ASSUME NEW p \in Procs, TakeGuard(p) PROVE [Promise!Next]_(Promise!vars)
  <2>1. CASE LockId(obs[p]) \in guards
    BY <2>1, <1>4, <1>0, <1>d DEF TakeGuard, TypeOK
  <2>2. CASE LockId(obs[p]) \notin guards
    <3>1. pc' = [pc EXCEPT ![p] = "reread"] /\ mine' = mine /\ now' = now
      BY <2>2, <1>4 DEF TakeGuard
    <3>2. Leaves(p)
      BY <3>1, <1>0 DEF TypeOK, Owner, Late
    <3>3. QED
      BY <3>1, <3>2, <1>0, <1>b, <1>c DEF TypeOK
  <2>3. QED
    BY <2>1, <2>2
<1>5. ASSUME NEW p \in Procs, DropGuard(p) PROVE [Promise!Next]_(Promise!vars)
  BY <1>5, <1>0, <1>d DEF DropGuard, TypeOK
<1>6. ASSUME NEW p \in Procs, CreateExclusive(p) PROVE [Promise!Next]_(Promise!vars)
  <2>1. CASE file = NoLock
    <3>1. pc' = [pc EXCEPT ![p] = "write"] /\ mine' = mine /\ now' = now
      BY <2>1, <1>6 DEF CreateExclusive
    <3>2. Owners = {}
      BY <2>1 DEF Owners, LockInv, OwnersInFile
    <3>3. ~Owner(p) /\ Owner(p)' /\ p \notin Late /\ p \notin Late'
      BY <3>1, <1>6, <1>0 DEF CreateExclusive, TypeOK, Owner, Late
    <3>4. Others(p)
      BY <3>1, <1>0, <1>b DEF TypeOK
    <3>5. QED
      BY <3>2, <3>3, <3>4, MoverKeepsPromise
  <2>2. CASE file # NoLock
    <3>1. pc' = [pc EXCEPT ![p] = "contend"] /\ mine' = mine /\ now' = now
      BY <2>2, <1>6 DEF CreateExclusive
    <3>2. Leaves(p)
      BY <3>1, <1>0 DEF TypeOK, Owner, Late
    <3>3. QED
      BY <3>1, <3>2, <1>0, <1>b, <1>c DEF TypeOK
  <2>3. QED
    BY <2>1, <2>2
<1>7. ASSUME NEW p \in Procs, WriteRecord(p) PROVE [Promise!Next]_(Promise!vars)
  <2>1. /\ pc' = [pc EXCEPT ![p] = "critical"] /\ now' = now
        /\ mine' = [mine EXCEPT ![p] = Written(mine[p])]
    BY <1>7 DEF WriteRecord
  <2>2. mine'[p].at = mine[p].at /\ Owner(p) /\ p \notin Late
    BY <2>1, <1>7, <1>0 DEF WriteRecord, TypeOK, Written, Owner, Late
  <2>3. Others(p)
    BY <2>1, <1>0, <1>b DEF TypeOK
  <2>4. CASE Expired(mine[p])
    <3>1. Ttl > 0 /\ ~Owner(p)' /\ p \in Late'
      BY <2>1, <2>2, <2>4, <1>0 DEF TypeOK, Owner, Late, Expired
    <3>2. QED
      BY <3>1, <2>2, <2>3, MoverKeepsPromise
  <2>5. CASE ~Expired(mine[p])
    <3>1. Same(p)
      BY <2>1, <2>2, <2>5, <1>0 DEF TypeOK, Owner, Late, Expired
    <3>2. QED
      BY <3>1, <2>3, <1>c
  <2>6. QED
    BY <2>4, <2>5
<1>8. ASSUME NEW p \in Procs, Unlink(p) PROVE [Promise!Next]_(Promise!vars)
  BY <1>8, <1>d DEF Unlink
<1>9. ASSUME Tick PROVE [Promise!Next]_(Promise!vars)
  <2>1. pc' = pc /\ mine' = mine /\ now' = now + 1
    BY <1>9 DEF Tick
  <2>2. \A q \in Procs :
            /\ Owner(q)' => Owner(q)
            /\ q \in Late => q \in Late'
            /\ q \in Late' /\ q \notin Late => Ttl > 0 /\ Owner(q) /\ ~Owner(q)'
            /\ Owner(q) /\ ~Owner(q)' => q \in Late' /\ q \notin Late
    <3> SUFFICES ASSUME NEW q \in Procs
                 PROVE  /\ Owner(q)' => Owner(q)
                        /\ q \in Late => q \in Late'
                        /\ q \in Late' /\ q \notin Late => Ttl > 0 /\ Owner(q) /\ ~Owner(q)'
                        /\ Owner(q) /\ ~Owner(q)' => q \in Late' /\ q \notin Late
      OBVIOUS
    <3>1. (q \in Late <=> pc[q] \in {"critical", "relread"} /\ Expired(mine[q]))
          /\ (q \in Late' <=> pc[q] \in {"critical", "relread"} /\ Expired(mine[q])')
      BY <2>1 DEF Late
    <3>2. pc[q] \in {"critical", "relread"} => mine[q] \in LockRecord
      BY DEF LockInv, TypeOK, OwnRecords, Holding
    <3>3. pc[q] \in {"critical", "relread"} => (Expired(mine[q]) => Expired(mine[q])')
      BY <2>1, <3>2, <1>0 DEF Expired, LockRecord, TypeOK
    <3>4. Expired(mine[q])' => Ttl > 0
      BY DEF Expired
    <3>5. QED
      BY <2>1, <3>1, <3>3, <3>4 DEF Owner
  <2>3. CASE \E p \in Procs : Owner(p) /\ ~Owner(p)'
    <3>1. PICK p \in Procs : Owner(p) /\ ~Owner(p)'
      BY <2>3
    <3>2. \A q \in Procs \ {p} : ~Owner(q)
      BY <3>1, OneOwner
    <3>3. Others(p)
      BY <2>2, <3>2
    <3>4. Ttl > 0 /\ p \notin Late /\ p \in Late'
      BY <2>2, <3>1
    <3>5. QED
      BY <3>1, <3>3, <3>4, MoverKeepsPromise
  <2>4. CASE ~\E p \in Procs : Owner(p) /\ ~Owner(p)'
    <3>1. Owners' = Owners /\ Late' = Late
      <4>1. \A q \in Procs : (Owner(q)' <=> Owner(q)) /\ (q \in Late' <=> q \in Late)
        BY <2>2, <2>4
      <4>2. Late \subseteq Procs /\ Late' \subseteq Procs
        BY DEF Late
      <4>3. QED
        BY <4>1, <4>2 DEF Owners
    <3>2. QED
      BY <3>1 DEF Promise!vars
  <2>5. QED
    BY <2>3, <2>4
<1>10. ASSUME UNCHANGED vars PROVE [Promise!Next]_(Promise!vars)
  <2>1. Owners' = Owners /\ Late' = Late
    BY <1>10 DEF vars, Owners, Late, Owner, Expired
  <2>2. QED
    BY <2>1 DEF Promise!vars
<1>11. QED
  BY <1>1, <1>2, <1>3, <1>4, <1>5, <1>6, <1>7, <1>8, <1>9, <1>10 DEF Next, Step, AcquireStep

(* The file lock implements the lock its callers rely on: for any set of    *)
(* processes, with the same condition as mutual exclusion, each of its      *)
(* system calls is a step of LeasedLock or none.                            *)
THEOREM LockKeepsPromise ==
    ASSUME Ttl = 0 \/ Prompt PROVE Spec => KeepsPromise
<1>1. Init => Promise!Init
  BY DEF Init, Promise!Init, Owners, Late, Owner
<1>2. LockInv /\ [Next]_vars => [Promise!Next]_(Promise!vars)
  BY NextKeepsPromise
<1>3. QED
  BY <1>1, <1>2, LockInvariant, PTL DEF Spec, KeepsPromise, Promise!Spec
=============================================================================
