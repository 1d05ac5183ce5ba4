---------------------------- MODULE RuntimeProofs ----------------------------
(* What runs outside the runtime and which runtime owns the home: the       *)
(* outcome of a process is its own, one process counts for a check, and a   *)
(* command under its runner is left alone; one runtime owns the home while  *)
(* nobody is disturbed between two calls on the owner file, and a fenced    *)
(* claim stays fenced whoever is disturbed.                                 *)
EXTENDS RuntimeOwnership, ProcessRuntime, TLAPS

(* What a record, a task and a new task are.                                *)
LEMMA RecordTypes ==
    ASSUME ProcessTypeOK, NEW p \in Procs, rec[p] # None
    PROVE  /\ rec[p] \in Record
           /\ rec[p].status \in Active \union Terminal /\ rec[p].refs \in BOOLEAN
           /\ rec[p].identity \in Identity /\ rec[p].released \in BOOLEAN
BY DEF ProcessTypeOK, Record

LEMMA TaskTypes ==
    ASSUME ProcessTypeOK, NEW l \in Actors, task[l] # None
    PROVE  /\ task[l] \in Task
           /\ task[l].of \in Procs /\ task[l].seen \in Identity
           /\ task[l].as \in Terminal
           /\ task[l].at \in {"identity", "write", "release", "stop"}
BY DEF ProcessTypeOK, Task

LEMMA NewTasks ==
    ASSUME ProcessTypeOK, NEW p \in Procs
    PROVE  /\ \A status \in Terminal : Completing(p, status) \in Task
           /\ Releasing(p) \in Task /\ Stopping(p) \in Task
BY DEF Completing, Releasing, Stopping, Task, Identity, Terminal

LEMMA LookingTypes ==
    ASSUME ProcessTypeOK, NEW p \in Procs, rec[p] # None
    PROVE  Looking(p) \in Task
<1>1. Outcome(receipt[p]) \in Terminal
  BY DEF Outcome, Terminal
<1>2. [of |-> p, seen |-> rec[p].identity, as |-> "unknown", at |-> "identity"] \in Task
  BY RecordTypes DEF Task, Terminal
<1>. QED
  BY <1>1, <1>2, NewTasks DEF Looking

(* What is written to a record is a record, and a completed one is terminal.*)
LEMMA RecordsWritten ==
    ASSUME NEW r \in Record
    PROVE  /\ \A status \in Terminal : Completed(r, status) \in Record
           /\ Updated(r, [r EXCEPT !.refs = TRUE]) \in Record
           /\ \A identity \in Identity :
                 Updated(r, [r EXCEPT !.status = "running", !.identity = identity]) \in Record
           /\ [r EXCEPT !.released = TRUE] \in Record
BY DEF Record, Completed, Updated, Active

LEMMA CompletedIsTerminal ==
    ASSUME NEW r \in Record, NEW status \in Terminal
    PROVE  Completed(r, status) # None /\ Completed(r, status).status \in Terminal
<1>1. Completed(r, status) # None
  BY RecordsWritten, ProcessAbsent
<1>2. CASE r.status \in Terminal
  BY <1>1, <1>2 DEF Completed
<1>3. CASE r.status \notin Terminal
  BY <1>1, <1>3 DEF Completed, Record
<1>. QED  BY <1>2, <1>3

(* A record is there whenever it is updated, so that every step has types.  *)
LEMMA ProcessTypes ==
    ASSUME ProcessTypeOK, RecordsLinked, [ProcessNext]_processVars
    PROVE  ProcessTypeOK'
<1>. USE DEF disk, run, processVars, Phase, InTurn
<1>1. ASSUME NEW p \in Procs, Ask(p) PROVE ProcessTypeOK'
  <2>1. binding # None /\ NeedsLook(Runtime, binding) => Looking(binding) \in Task
    BY LookingTypes DEF NeedsLook, IsActive, ProcessTypeOK
  <2>. QED  BY <1>1, <2>1 DEF Ask, LooksAt, ProcessTypeOK, Actors, NeedsLook, IsActive
<1>2. ASSUME NEW p \in Procs, CreateRecord(p) PROVE ProcessTypeOK'
  BY <1>2 DEF CreateRecord, ProcessTypeOK, Record, Active, Identity
<1>3. ASSUME NEW p \in Procs, Acquire(p) PROVE ProcessTypeOK'
  BY <1>3 DEF Acquire, ProcessTypeOK
<1>4. ASSUME NEW p \in Procs, Blocked(p) PROVE ProcessTypeOK'
  <2>1. \A q \in lease : NeedsLook(Runtime, q) => Looking(q) \in Task
    BY LookingTypes DEF NeedsLook, IsActive, ProcessTypeOK
  <2>2. call' \in [Procs -> Phase] /\ UNCHANGED <<disk, run, monitors, stop, faults>>
    BY <1>4 DEF Blocked, ProcessTypeOK
  <2>3. \/ UNCHANGED <<task, early>>
        \/ \E q \in lease : NeedsLook(Runtime, q) /\ LooksAt(Runtime, q)
    BY <1>4 DEF Blocked
  <2>4. task' \in [Actors -> Task \union {None}] /\ early' \subseteq Procs
    BY <2>1, <2>3 DEF LooksAt, ProcessTypeOK, Actors
  <2>. QED  BY <2>2, <2>4 DEF ProcessTypeOK
<1>5. ASSUME NEW p \in Procs, LeaseConflict(p) \/ LaunchFails(p) \/ Abandon(p) \/ Settle(p)
      PROVE  ProcessTypeOK'
  <2>1. "failed" \in Terminal
    BY DEF Terminal
  <2>2. Completing(p, "failed") \in Task /\ Releasing(p) \in Task
    BY <2>1, NewTasks
  <2>. QED
    BY <1>5, <2>2, ProcessBounds
       DEF LeaseConflict, LaunchFails, Abandon, Settle, ProcessTypeOK, Actors
<1>6. ASSUME NEW p \in Procs, Refs(p) PROVE ProcessTypeOK'
  <2>1. rec[p] # None
    BY <1>6 DEF Refs, RecordsLinked
  <2>2. Updated(rec[p], [rec[p] EXCEPT !.refs = TRUE]) \in Record
    BY <2>1, RecordTypes, RecordsWritten
  <2>. QED  BY <1>6, <2>2 DEF Refs, ProcessTypeOK
<1>7. ASSUME NEW p \in Procs, Launch(p) PROVE ProcessTypeOK'
  BY <1>7 DEF Launch, ProcessTypeOK
<1>8. ASSUME NEW p \in Procs, Identify(p) PROVE ProcessTypeOK'
  <2>1. PICK identity \in Identity :
          rec' = [rec EXCEPT ![p] =
                    Updated(@, [@ EXCEPT !.status = "running", !.identity = identity])]
    BY <1>8 DEF Identify
  <2>2. rec[p] # None
    BY <1>8 DEF Identify, RecordsLinked
  <2>3. Updated(rec[p], [rec[p] EXCEPT !.status = "running", !.identity = identity])
          \in Record
    BY <2>2, RecordTypes, RecordsWritten
  <2>. QED  BY <1>8, <2>1, <2>3 DEF Identify, ProcessTypeOK
<1>9. ASSUME NEW p \in Procs, Close(p) PROVE ProcessTypeOK'
  <2>1. Outcome(receipt'[p]) \in Terminal
    BY DEF Outcome, Terminal
  <2>2. Completing(p, Outcome(receipt'[p])) \in Task
    BY <2>1, NewTasks
  <2>. QED  BY <1>9, <2>2 DEF Close, ProcessTypeOK, Receipt, Actors
<1>10. ASSUME NEW p \in Procs, Expire(p) \/ TimeOut(p) \/ RunnerKills(p) \/ CmdEnds(p)
       PROVE  ProcessTypeOK'
  <2>1. CASE Expire(p)
    BY <2>1 DEF Expire, ProcessTypeOK
  <2>2. CASE TimeOut(p)
    BY <2>2 DEF TimeOut, ProcessTypeOK
  <2>3. CASE RunnerKills(p)
    BY <2>3 DEF RunnerKills, ProcessTypeOK
  <2>4. CASE CmdEnds(p)
    BY <2>4 DEF CmdEnds, ProcessTypeOK
  <2>. QED  BY <1>10, <2>1, <2>2, <2>3, <2>4
<1>11. ASSUME NEW p \in Procs, RunnerStarts(p) \/ RunnerReports(p) \/ RunnerDies(p)
       PROVE  ProcessTypeOK'
  <2>1. CASE RunnerStarts(p)
    BY <2>1 DEF RunnerStarts, Gone, ProcessTypeOK
  <2>2. CASE RunnerReports(p)
    BY <2>2 DEF RunnerReports, Gone, Receipt, ProcessTypeOK
  <2>3. CASE RunnerDies(p)
    BY <2>3, ProcessBounds DEF RunnerDies, Gone, ProcessTypeOK
  <2>. QED  BY <1>11, <2>1, <2>2, <2>3
<1>12. ASSUME NEW l \in Actors, LookIdentity(l) \/ StopWrites(l)
       PROVE  ProcessTypeOK'
  <2>1. task[l] \in Task /\ task[l].of \in Procs
    BY <1>12, TaskTypes DEF LookIdentity, StopWrites
  <2>2. "unknown" \in Terminal
    BY DEF Terminal
  <2>3. Completing(task[l].of, "unknown") \in Task /\ [task[l] EXCEPT !.at = "write"] \in Task
    BY <2>1, <2>2, NewTasks DEF Task
  <2>. QED  BY <1>12, <2>1, <2>3 DEF LookIdentity, StopWrites, ProcessTypeOK, Receipt
<1>13. ASSUME NEW l \in Actors, CompleteRecord(l) PROVE ProcessTypeOK'
  <2>1. task[l].of \in Procs /\ task[l].as \in Terminal
    BY <1>13, TaskTypes DEF CompleteRecord
  <2>2. Releasing(task[l].of) \in Task
    BY <2>1, NewTasks
  <2>3. rec[task[l].of] # None
    BY <1>13 DEF CompleteRecord, RecordsLinked
  <2>4. Completed(rec[task[l].of], task[l].as) \in Record
    BY <2>1, <2>3, RecordTypes, RecordsWritten
  <2>. QED  BY <1>13, <2>1, <2>2, <2>4 DEF CompleteRecord, ProcessTypeOK
<1>14. ASSUME NEW l \in Actors, Release(l) PROVE ProcessTypeOK'
  <2>1. task[l].of \in Procs
    BY <1>14, TaskTypes DEF Release
  <2>2. rec[task[l].of] # None
    BY <1>14 DEF Release, RecordsLinked
  <2>3. [rec[task[l].of] EXCEPT !.released = TRUE] \in Record
    BY <2>1, <2>2, RecordTypes, RecordsWritten
  <2>. QED  BY <1>14, <2>1, <2>3 DEF Release, ProcessTypeOK
<1>15. ASSUME NEW l \in Actors, ActorDies(l) PROVE ProcessTypeOK'
  BY <1>15, ProcessBounds DEF ActorDies, ProcessTypeOK
<1>16. ASSUME NEW l \in Actors, NEW p \in Procs, Look(l, p) PROVE ProcessTypeOK'
  <2>1. Looking(p) \in Task
    BY <1>16, LookingTypes DEF Look, NeedsLook, IsActive
  <2>. QED  BY <1>16, <2>1 DEF Look, LooksAt, ProcessTypeOK
<1>17. ASSUME NEW l \in Actors, NEW p \in Procs, StopBegins(l, p) PROVE ProcessTypeOK'
  <2>1. "unknown" \in Terminal
    BY DEF Terminal
  <2>2. Stopping(p) \in Task /\ Completing(p, "unknown") \in Task
    BY <2>1, NewTasks
  <2>3. [of |-> p, by |-> l, watched |-> Watches(l, p)] \in Cancel
    BY DEF Cancel, Watches
  <2>4. told' \in [Procs -> BOOLEAN]
    BY <1>17 DEF StopBegins, ProcessTypeOK, RunnerAlive
  <2>5. stop' \in Cancel \union {None} /\ task' \in [Actors -> Task \union {None}]
    BY <1>17, <2>2, <2>3 DEF StopBegins, ProcessTypeOK
  <2>6. faults' \in 0 .. MaxFaults /\ early' \subseteq Procs
    BY <1>17, ProcessBounds DEF StopBegins, ProcessTypeOK
  <2>. QED  BY <1>17, <2>4, <2>5, <2>6 DEF StopBegins, ProcessTypeOK
<1>18. ASSUME StopKills PROVE ProcessTypeOK'
  BY <1>18 DEF StopKills, Gone, ProcessTypeOK, Cancel
<1>19. ASSUME StopEnds PROVE ProcessTypeOK'
  <2>1. Stopping(stop.of) \in Task /\ stop.by \in Actors
    <3>1. stop \in Cancel
      BY <1>19 DEF StopEnds, ProcessTypeOK
    <3>2. stop.of \in Procs /\ stop.by \in Actors
      BY <3>1 DEF Cancel
    <3>3. "failed" \in Terminal
      BY DEF Terminal
    <3>. QED  BY <3>2, <3>3, NewTasks
  <2>. QED  BY <1>19, <2>1 DEF StopEnds, ProcessTypeOK
<1>20. CASE UNCHANGED processVars
  BY <1>20 DEF ProcessTypeOK
<1>. QED
  BY <1>1, <1>2, <1>3, <1>4, <1>5, <1>6, <1>7, <1>8, <1>9, <1>10, <1>11, <1>12, <1>13,
     <1>14, <1>15, <1>16, <1>17, <1>18, <1>19, <1>20
     DEF ProcessNext, RunnerProceeds, Proceeds, StopProceeds

(* A step that writes records neither makes one nor unmakes one, and a      *)
(* terminal record keeps its status.                                        *)
RecordKept(q) ==
    /\ (rec'[q] = None) <=> (rec[q] = None)
    /\ rec[q] # None =>
         /\ rec'[q].identity = rec[q].identity \/ (call[q] # "over" /\ call'[q] = "over")
         /\ IsTerminal(q) => rec'[q].status = rec[q].status

LEMMA RecordsKept ==
    ASSUME ProcessTypeOK, RecordsLinked,
           \/ \E p \in Procs : Refs(p) \/ Identify(p)
           \/ \E l \in Actors : CompleteRecord(l) \/ Release(l),
           NEW q \in Procs
    PROVE  RecordKept(q)
<1>. USE DEF RecordKept, IsTerminal, Active, Terminal
<1>1. rec[q] # None => rec[q] \in Record
  BY RecordTypes
<1>2. ASSUME NEW p \in Procs, Refs(p), rec[q] # None
      PROVE  /\ rec'[q] \in Record /\ rec'[q].identity = rec[q].identity
             /\ rec'[q].status = rec[q].status
  BY <1>1, <1>2 DEF ProcessTypeOK, Record, Refs, Updated
<1>3. ASSUME NEW p \in Procs, Identify(p), rec[q] # None
      PROVE  /\ rec'[q] \in Record
             /\ rec'[q].identity = rec[q].identity \/ (call[q] # "over" /\ call'[q] = "over")
             /\ IsTerminal(q) => rec'[q].status = rec[q].status
  <2>1. PICK identity \in Identity :
          rec' = [rec EXCEPT ![p] =
                    Updated(@, [@ EXCEPT !.status = "running", !.identity = identity])]
    BY <1>3 DEF Identify
  <2>2. CASE q = p
    <3>1. rec'[p] = Updated(rec[p], [rec[p] EXCEPT !.status = "running",
                                                   !.identity = identity])
      BY <2>1 DEF ProcessTypeOK
    <3>2. rec'[p] \in Record /\ (IsTerminal(p) => rec'[p] = rec[p])
      BY <1>1, <1>3, <2>2, <3>1, RecordsWritten DEF Updated
    <3>3. call[p] # "over" /\ call'[p] = "over"
      BY <1>3 DEF Identify, ProcessTypeOK
    <3>. QED  BY <2>2, <3>2, <3>3
  <2>3. CASE q # p
    BY <1>1, <1>3, <2>1, <2>3 DEF ProcessTypeOK
  <2>. QED  BY <2>2, <2>3
<1>4. ASSUME NEW l \in Actors, CompleteRecord(l), rec[q] # None
      PROVE  /\ rec'[q] \in Record /\ rec'[q].identity = rec[q].identity
             /\ IsTerminal(q) => rec'[q] = rec[q]
  <2>1. task[l].of \in Procs /\ task[l].as \in Terminal
    BY <1>4, TaskTypes DEF CompleteRecord
  <2>. QED
    BY <1>1, <1>4, <2>1 DEF ProcessTypeOK, Record, CompleteRecord, Completed
<1>5. ASSUME NEW l \in Actors, Release(l), rec[q] # None
      PROVE  /\ rec'[q] \in Record /\ rec'[q].identity = rec[q].identity
             /\ rec'[q].status = rec[q].status
  <2>1. task[l].of \in Procs
    BY <1>5, TaskTypes DEF Release
  <2>2. PICK p \in Procs :
          rec' = rec \/ rec' = [rec EXCEPT ![p] = [@ EXCEPT !.released = TRUE]]
    BY <1>5, <2>1 DEF Release
  <2>3. CASE rec' # rec /\ q = p
    <3>1. rec'[q] = [rec[q] EXCEPT !.released = TRUE]
      BY <2>2, <2>3 DEF ProcessTypeOK
    <3>. QED  BY <1>1, <1>5, <3>1 DEF Record
  <2>4. CASE rec' = rec \/ q # p
    BY <1>1, <1>5, <2>2, <2>4 DEF ProcessTypeOK
  <2>. QED  BY <2>3, <2>4
<1>6. ASSUME rec[q] = None PROVE rec'[q] = None
  <2>1. \A p \in Procs : Refs(p) \/ Identify(p) => p # q
    BY <1>6 DEF Refs, Identify, RecordsLinked, InTurn
  <2>2. \A l \in Actors : CompleteRecord(l) \/ Release(l) => task[l].of # q
    BY <1>6 DEF CompleteRecord, Release, RecordsLinked
  <2>. QED
    BY <1>6, <2>1, <2>2 DEF ProcessTypeOK, Refs, Identify, CompleteRecord, Release
<1>. QED
  BY <1>2, <1>3, <1>4, <1>5, <1>6, ProcessAbsent

(* Success is written only of a command that succeeded, and leases are      *)
(* released only of what is over.                                           *)
LEMMA OutcomeStep ==
    ASSUME ProcessInv, [ProcessNext]_processVars PROVE TrueOutcome'
<1>. USE DEF disk, run, processVars, InTurn, IsActive, IsTerminal, Active, Terminal,
   RecordsLinked, Record
<1>0. ProcessTypeOK /\ ProcessTypeOK' /\ TrueOutcome /\ RecordsLinked /\ ClearUntouched
  BY ProcessTypes DEF ProcessInv
<1>1. ASSUME NEW p \in Procs, Ask(p) PROVE TrueOutcome'
  BY <1>0, <1>1, ProcessActors, ProcessAbsent
     DEF ProcessTypeOK, TrueOutcome, Ask, LooksAt, Looking, NeedsLook, Reusable
<1>2. ASSUME NEW p \in Procs, CreateRecord(p) PROVE TrueOutcome'
  BY <1>0, <1>2, ProcessActors, ProcessAbsent
     DEF ProcessTypeOK, TrueOutcome, CreateRecord, Active
<1>3. ASSUME NEW p \in Procs, Acquire(p) PROVE TrueOutcome'
  BY <1>0, <1>3, ProcessActors, ProcessAbsent
     DEF ProcessTypeOK, TrueOutcome, Acquire, Turn
<1>4. ASSUME NEW p \in Procs, Blocked(p) PROVE TrueOutcome'
  BY <1>0, <1>4, ProcessActors, ProcessAbsent
     DEF ProcessTypeOK, TrueOutcome, Blocked, Turn, LooksAt, Looking, NeedsLook,
         Completing, Outcome
<1>5. ASSUME NEW p \in Procs, LeaseConflict(p) \/ LaunchFails(p) \/ Abandon(p) \/ Settle(p)
      PROVE  TrueOutcome'
  BY <1>0, <1>5, ProcessActors, ProcessAbsent
     DEF ProcessTypeOK, TrueOutcome, LeaseConflict, LaunchFails, Abandon, Settle,
         Completing, Releasing
<1>6. ASSUME NEW p \in Procs, Refs(p) PROVE TrueOutcome'
  BY <1>0, <1>6, ProcessActors, ProcessAbsent
     DEF ProcessTypeOK, TrueOutcome, Refs, Updated
<1>7. ASSUME NEW p \in Procs, Launch(p) PROVE TrueOutcome'
  BY <1>0, <1>7, ProcessActors, ProcessAbsent DEF ProcessTypeOK, TrueOutcome, Launch
<1>8. ASSUME NEW p \in Procs, Identify(p) PROVE TrueOutcome'
  BY <1>0, <1>8, ProcessActors, ProcessAbsent
     DEF ProcessTypeOK, TrueOutcome, Identify, Updated, Active
<1>9. ASSUME NEW p \in Procs, Close(p) PROVE TrueOutcome'
  BY <1>0, <1>9, ProcessActors, ProcessAbsent
     DEF ProcessTypeOK, TrueOutcome, Close, Completing, Outcome
<1>10. ASSUME NEW p \in Procs, Expire(p) \/ TimeOut(p) \/ RunnerKills(p) \/ CmdEnds(p)
       PROVE  TrueOutcome'
  BY <1>0, <1>10, ProcessActors, ProcessAbsent
     DEF ProcessTypeOK, TrueOutcome, Expire, TimeOut, RunnerKills, CmdEnds
<1>11. ASSUME NEW p \in Procs, RunnerStarts(p) PROVE TrueOutcome'
  BY <1>0, <1>11, ProcessActors, ProcessAbsent
     DEF ProcessTypeOK, TrueOutcome, RunnerStarts, Gone
<1>12. ASSUME NEW p \in Procs, RunnerReports(p) \/ RunnerDies(p) PROVE TrueOutcome'
  BY <1>0, <1>12, ProcessActors, ProcessAbsent
     DEF ProcessTypeOK, TrueOutcome, RunnerReports, RunnerDies, Gone
<1>13. ASSUME NEW l \in Actors, LookIdentity(l) PROVE TrueOutcome'
  BY <1>0, <1>13, ProcessActors, ProcessAbsent
     DEF ProcessTypeOK, TrueOutcome, LookIdentity, Completing
<1>14. ASSUME NEW l \in Actors, StopWrites(l) PROVE TrueOutcome'
  BY <1>0, <1>14, ProcessActors, ProcessAbsent
     DEF ProcessTypeOK, TrueOutcome, StopWrites
<1>15. ASSUME NEW l \in Actors, CompleteRecord(l) PROVE TrueOutcome'
  <2>1. task[l] # None /\ task[l].of \in Procs /\ task[l].as \in Terminal
    BY <1>0, <1>15, TaskTypes DEF CompleteRecord
  <2>2. rec[task[l].of] # None /\ (task[l].as = "succeeded" => cmd[task[l].of] = "ok")
    BY <1>0, <2>1 DEF RecordsLinked
  <2>3. rec[task[l].of] \in Record
    BY <1>0, <2>1, <2>2, RecordTypes
  <2>4. /\ rec' = [rec EXCEPT ![task[l].of] = Completed(rec[task[l].of], task[l].as)]
        /\ cmd' = cmd
    BY <1>15 DEF CompleteRecord
  <2>5. \A p \in Procs : p # task[l].of => rec'[p] = rec[p]
    BY <1>0, <2>4 DEF ProcessTypeOK
  <2>6. rec'[task[l].of] = Completed(rec[task[l].of], task[l].as)
    BY <1>0, <2>1, <2>4 DEF ProcessTypeOK
  <2>7. LET r == rec'[task[l].of] IN
        /\ r.status \in Terminal
        /\ r.status = "succeeded" => cmd[task[l].of] = "ok"
    BY <1>0, <2>1, <2>2, <2>3, <2>6 DEF TrueOutcome, Completed
  <2>. QED
    BY <1>0, <2>4, <2>5, <2>7 DEF TrueOutcome
<1>16. ASSUME NEW l \in Actors, Release(l) PROVE TrueOutcome'
  BY <1>0, <1>16, ProcessActors, ProcessAbsent DEF ProcessTypeOK, TrueOutcome, Release
<1>17. ASSUME NEW l \in Actors, ActorDies(l) PROVE TrueOutcome'
  BY <1>0, <1>17, ProcessActors, ProcessAbsent
     DEF ProcessTypeOK, TrueOutcome, ActorDies
<1>18. ASSUME NEW l \in Actors, NEW p \in Procs, Look(l, p) PROVE TrueOutcome'
  BY <1>0, <1>18, ProcessActors, ProcessAbsent
     DEF ProcessTypeOK, TrueOutcome, Look, LooksAt, Looking, NeedsLook, Completing,
         Outcome
<1>19. ASSUME NEW l \in Actors, NEW p \in Procs, StopBegins(l, p) PROVE TrueOutcome'
  BY <1>0, <1>19, ProcessActors, ProcessAbsent
     DEF ProcessTypeOK, TrueOutcome, StopBegins, Stopping, Completing
<1>20. ASSUME StopKills PROVE TrueOutcome'
  BY <1>0, <1>20, ProcessActors, ProcessAbsent
     DEF ProcessTypeOK, TrueOutcome, StopKills, Gone
<1>21. ASSUME StopEnds PROVE TrueOutcome'
  BY <1>0, <1>21, ProcessActors, ProcessAbsent
     DEF ProcessTypeOK, TrueOutcome, StopEnds, Stopping
<1>22. ASSUME UNCHANGED processVars PROVE TrueOutcome'
  BY <1>0, <1>22, ProcessActors, ProcessAbsent
     DEF ProcessTypeOK, TrueOutcome, ProcessTypeOK
<1>. QED
  BY <1>1, <1>2, <1>3, <1>4, <1>5, <1>6, <1>7, <1>8, <1>9, <1>10, <1>11, <1>12, <1>13,
     <1>14, <1>15, <1>16, <1>17, <1>18, <1>19, <1>20, <1>21, <1>22
     DEF ProcessNext, RunnerProceeds, Proceeds, StopProceeds

(* What is linked to the record of a process, and to that of a task.        *)
CallLinked(p) ==
    /\ call[p] \in {"idle", "bound"} => rec[p] = None
    /\ call[p] = "bound" => binding = p
    /\ call[p] \in {"created", "retry", "wait", "have", "refs", "launched"} => rec[p] # None
    /\ rec[p] = None => receipt[p] = "none" /\ runner[p] = "none" /\ p \notin monitors
    /\ rec[p] # None /\ rec[p].identity = "good" => call[p] = "over"
    /\ call[p] \notin {"launched", "over"} => runner[p] = "none"
    /\ p \in monitors => call[p] = "over"
    /\ runner[p] \in {"none", "spawned"} => cmd[p] = "none"
    /\ receipt[p] = "ok" => cmd[p] = "ok"
TaskLinked(t) ==
    /\ rec[t.of] # None
    /\ t.as = "succeeded" => cmd[t.of] = "ok"
    /\ t.at = "release" => IsTerminal(t.of)

LEMMA Linked ==
    /\ RecordsLinked => /\ \A p \in Procs : CallLinked(p)
                        /\ \A l \in Actors : task[l] # None => TaskLinked(task[l])
    /\ /\ \A p \in Procs : CallLinked(p)'
       /\ \A l \in Actors : task'[l] # None => TaskLinked(task[l])'
       /\ stop' # None => rec'[stop'.of] # None
       => RecordsLinked'
BY DEF RecordsLinked, CallLinked, TaskLinked

(* A task stays linked while the records are kept and no command is undone. *)
LEMMA TasksLinked ==
    ASSUME RecordsLinked, NEW l \in Actors, task[l] # None, task[l].of \in Procs,
           RecordKept(task[l].of), cmd' = cmd, task'[l] = task[l]
    PROVE  TaskLinked(task[l])'
<1>1. TaskLinked(task[l])
  BY Linked
<1>. QED  BY <1>1 DEF TaskLinked, RecordKept, IsTerminal

(* Who does something with records but not to them or to processes.         *)
LEMMA TasksOnly ==
    ASSUME RecordsLinked,
           UNCHANGED <<binding, rec, call, runner, cmd, receipt, monitors>>,
           stop' # None => rec'[stop'.of] # None,
           \A l \in Actors : task'[l] = task[l] \/ (task'[l] # None => TaskLinked(task[l])')
    PROVE  RecordsLinked'
<1>1. \A p \in Procs : CallLinked(p)'
  BY Linked DEF CallLinked
<1>2. ASSUME NEW l \in Actors, task'[l] = task[l], task[l] # None PROVE TaskLinked(task[l])'
  <2>1. TaskLinked(task[l])
    BY <1>2, Linked
  <2>. QED  BY <1>2, <2>1 DEF TaskLinked, IsTerminal
<1>. QED  BY <1>1, <1>2, Linked

(* How far a call is says what is recorded and who may have looked.         *)
LEMMA LinkStep ==
    ASSUME ProcessInv, [ProcessNext]_processVars PROVE RecordsLinked'
<1>. USE DEF RecordKept, disk, run, processVars, InTurn, IsActive, IsTerminal, Active,
   Terminal, TrueOutcome, Record, Task, Cancel
<1>0. ProcessTypeOK /\ ProcessTypeOK' /\ TrueOutcome /\ RecordsLinked /\ ClearUntouched
  BY ProcessTypes DEF ProcessInv
<1>1. ASSUME NEW p \in Procs, Ask(p) PROVE RecordsLinked'
  <2>1. binding # None /\ NeedsLook(Runtime, binding) =>
          LET looking == Looking(binding) IN
          /\ looking.of = binding /\ looking.at # "release"
          /\ looking.as = "succeeded" => receipt[binding] = "ok"
    BY DEF Looking, Completing, Outcome
  <2>. QED
    BY <1>0, <1>1, <2>1, ProcessActors, ProcessAbsent
       DEF ProcessTypeOK, RecordsLinked, Ask, Idle, LooksAt, NeedsLook, Reusable
<1>2. ASSUME NEW p \in Procs, CreateRecord(p) PROVE RecordsLinked'
  <2>1. rec'[p] # None /\ rec'[p].identity = "none" /\ \A q \in Procs \ {p} : rec'[q] = rec[q]
    <3>. DEFINE r == [status |-> "starting", refs |-> FALSE,
                      identity |-> "none", released |-> FALSE]
    <3>1. rec' = [rec EXCEPT ![p] = r]
      BY <1>2 DEF CreateRecord
    <3>2. r \in Record /\ r.identity = "none"
      BY DEF Identity
    <3>. HIDE DEF r
    <3>3. rec'[p] = r /\ \A q \in Procs \ {p} : rec'[q] = rec[q]
      BY <1>0, <3>1 DEF ProcessTypeOK
    <3>. QED  BY <3>2, <3>3, ProcessAbsent
  <2>2. \A q \in Procs : call'[q] = IF q = p THEN "created" ELSE call[q]
    BY <1>0, <1>2 DEF ProcessTypeOK, CreateRecord
  <2>3. /\ UNCHANGED <<binding, runner, cmd, receipt, monitors, task, stop>>
        /\ rec[p] = None /\ runner[p] = "none" /\ p \notin monitors
    BY <1>0, <1>2 DEF CreateRecord, RecordsLinked
  <2>4. \A l \in Actors : task[l] # None => task[l].of # p
    BY <1>0, <2>3 DEF RecordsLinked
  <2>5. \A q \in Procs : q # p => rec'[q] = rec[q] /\ call'[q] = call[q]
    BY <2>1, <2>2
  <2>6. \A l \in Actors : task[l] # None => rec'[task[l].of] = rec[task[l].of]
    <3>1. \A l \in Actors : task[l] # None => task[l].of \in Procs
      BY <1>0 DEF ProcessTypeOK
    <3>. QED  BY <2>4, <2>5, <3>1
  <2>7. stop # None => rec'[stop.of] # None
    <3>1. stop # None => stop.of \in Procs /\ stop.of # p
      BY <1>0, <2>3 DEF ProcessTypeOK, RecordsLinked
    <3>. QED  BY <1>0, <2>5, <3>1 DEF RecordsLinked
  <2>8. cmd[p] = "none" /\ receipt[p] # "ok" /\ call'[p] = "created"
    BY <1>0, <2>2, <2>3 DEF RecordsLinked
  <2>. HIDE DEF Record, Task, Cancel
  <2>. QED
    BY <1>0, <2>1, <2>3, <2>5, <2>6, <2>7, <2>8, ProcessAbsent DEF RecordsLinked
<1>3. ASSUME NEW p \in Procs, Acquire(p) PROVE RecordsLinked'
  BY <1>0, <1>3, ProcessActors, ProcessAbsent
     DEF ProcessTypeOK, RecordsLinked, Acquire, Turn
<1>4. ASSUME NEW p \in Procs, Blocked(p) PROVE RecordsLinked'
  BY <1>0, <1>4, ProcessActors, ProcessAbsent
     DEF ProcessTypeOK, RecordsLinked, Blocked, Turn, LooksAt, Looking, NeedsLook,
         Completing, Outcome
<1>5. ASSUME NEW p \in Procs, LeaseConflict(p) \/ LaunchFails(p) \/ Abandon(p) \/ Settle(p)
      PROVE  RecordsLinked'
  <2>1. CASE LeaseConflict(p)
    BY <1>0, <2>1, ProcessActors, ProcessAbsent
       DEF ProcessTypeOK, RecordsLinked, LeaseConflict, Completing
  <2>2. CASE LaunchFails(p)
    BY <1>0, <2>2, ProcessActors, ProcessAbsent
       DEF ProcessTypeOK, RecordsLinked, LaunchFails, Completing
  <2>3. CASE Abandon(p) \/ Settle(p)
    BY <1>0, <2>3, ProcessActors, ProcessAbsent
       DEF ProcessTypeOK, RecordsLinked, Abandon, Settle, Completing, Releasing
  <2>. QED  BY <1>5, <2>1, <2>2, <2>3
<1>6. ASSUME NEW p \in Procs, Refs(p) PROVE RecordsLinked'
  <2>1. \A q \in Procs : RecordKept(q)
    BY <1>0, <1>6, RecordsKept
  <2>2. \A q \in Procs : call'[q] = IF q = p THEN "refs" ELSE call[q]
    BY <1>0, <1>6 DEF ProcessTypeOK, Refs
  <2>3. /\ UNCHANGED <<binding, runner, cmd, receipt, monitors, task, stop>>
        /\ call[p] = "have"
    BY <1>6 DEF Refs
  <2>. QED
    BY <1>0, <2>1, <2>2, <2>3, ProcessAbsent DEF ProcessTypeOK, RecordsLinked
<1>7. ASSUME NEW p \in Procs, Launch(p) PROVE RecordsLinked'
  BY <1>0, <1>7, ProcessActors, ProcessAbsent DEF ProcessTypeOK, RecordsLinked, Launch
<1>8. ASSUME NEW p \in Procs, Identify(p) PROVE RecordsLinked'
  <2>1. \A q \in Procs : RecordKept(q)
    BY <1>0, <1>8, RecordsKept
  <2>2. /\ UNCHANGED <<binding, runner, cmd, receipt, task, stop>>
        /\ monitors' = monitors \union {p} /\ call[p] = "launched"
    BY <1>8 DEF Identify
  <2>3. \A r \in Procs : call'[r] = IF r = p THEN "over" ELSE call[r]
    BY <1>0, <1>8 DEF ProcessTypeOK, Identify
  <2>4. ASSUME NEW r \in Procs PROVE CallLinked(r)'
    <3>1. CallLinked(r) /\ RecordKept(r)
      BY <1>0, <2>1, Linked
    <3>. QED  BY <2>2, <2>3, <3>1, ProcessAbsent DEF CallLinked
  <2>5. ASSUME NEW l \in Actors, task'[l] # None PROVE TaskLinked(task[l])'
    <3>1. task'[l] = task[l] /\ task[l].of \in Procs
      BY <1>0, <2>2, <2>5, TaskTypes
    <3>. QED  BY <1>0, <2>1, <2>2, <2>5, <3>1, TasksLinked
  <2>6. stop' # None => rec'[stop'.of] # None
    <3>1. stop # None => stop.of \in Procs
      BY <1>0 DEF ProcessTypeOK
    <3>. QED  BY <1>0, <2>1, <2>2, <3>1 DEF RecordsLinked
  <2>. QED  BY <2>4, <2>5, <2>6, Linked
<1>9. ASSUME NEW p \in Procs, Close(p) PROVE RecordsLinked'
  <2>1. /\ UNCHANGED <<binding, rec, call, runner, cmd, stop>>
        /\ monitors' = monitors \ {p} /\ p \in monitors
        /\ receipt' = [receipt EXCEPT ![p] = IF receipt[p] = "none" THEN "bad" ELSE receipt[p]]
        /\ task' = [task EXCEPT ![Runtime] = Completing(p, Outcome(receipt'[p]))]
    BY <1>9 DEF Close
  <2>2. rec[p] # None /\ (receipt'[p] = "ok" => cmd[p] = "ok")
    BY <1>0, <2>1 DEF ProcessTypeOK, RecordsLinked
  <2>3. ASSUME NEW r \in Procs PROVE CallLinked(r)'
    <3>1. CallLinked(r)
      BY <1>0, Linked
    <3>2. receipt'[r] = receipt[r] \/ r = p
      BY <1>0, <2>1 DEF ProcessTypeOK
    <3>. QED  BY <2>1, <2>2, <3>1, <3>2 DEF CallLinked
  <2>. DEFINE t == Completing(p, Outcome(receipt'[p]))
  <2>4. t.of = p /\ t.at = "write" /\ (t.as = "succeeded" => cmd[p] = "ok")
    BY <2>2 DEF Completing, Outcome
  <2>5. \A k \in Actors : task'[k] = IF k = Runtime THEN t ELSE task[k]
    BY <1>0, <2>1 DEF ProcessTypeOK
  <2>. HIDE DEF t
  <2>6. ASSUME NEW k \in Actors, task'[k] # None PROVE TaskLinked(task[k])'
    <3>1. CASE k = Runtime
      BY <2>1, <2>2, <2>4, <2>5, <3>1 DEF TaskLinked
    <3>2. CASE k # Runtime
      <4>1. TaskLinked(task[k]) /\ task'[k] = task[k]
        BY <1>0, <2>5, <2>6, <3>2, Linked
      <4>. QED  BY <2>1, <4>1 DEF TaskLinked
    <3>. QED  BY <3>1, <3>2
  <2>. QED
    BY <1>0, <2>1, <2>3, <2>6, Linked DEF RecordsLinked
<1>10. ASSUME NEW p \in Procs, Expire(p) \/ TimeOut(p) \/ RunnerKills(p) \/ CmdEnds(p)
       PROVE  RecordsLinked'
  BY <1>0, <1>10, ProcessActors, ProcessAbsent
     DEF ProcessTypeOK, RecordsLinked, Expire, TimeOut, RunnerKills, CmdEnds
<1>11. ASSUME NEW p \in Procs, RunnerStarts(p) PROVE RecordsLinked'
  BY <1>0, <1>11, ProcessActors, ProcessAbsent
     DEF ProcessTypeOK, RecordsLinked, RunnerStarts, Gone
<1>12. ASSUME NEW p \in Procs, RunnerReports(p) \/ RunnerDies(p) PROVE RecordsLinked'
  BY <1>0, <1>12, ProcessActors, ProcessAbsent
     DEF ProcessTypeOK, RecordsLinked, RunnerReports, RunnerDies, Gone
<1>13. ASSUME NEW l \in Actors, LookIdentity(l) PROVE RecordsLinked'
  <2>1. UNCHANGED <<binding, rec, call, runner, cmd, receipt, monitors, stop>>
    BY <1>13 DEF LookIdentity
  <2>2. \A k \in Actors : task'[k] \in {task[k], None, Completing(task[l].of, "unknown")}
    BY <1>0, <1>13 DEF ProcessTypeOK, LookIdentity
  <2>3. rec[task[l].of] # None
    BY <1>0, <1>13 DEF LookIdentity, RecordsLinked
  <2>4. \A k \in Actors : task'[k] = Completing(task[l].of, "unknown") => TaskLinked(task[k])'
    BY <2>1, <2>3 DEF TaskLinked, Completing
  <2>. QED  BY <1>0, <2>1, <2>2, <2>4, TasksOnly DEF RecordsLinked
<1>14. ASSUME NEW l \in Actors, StopWrites(l) PROVE RecordsLinked'
  <2>1. /\ UNCHANGED <<binding, rec, call, runner, cmd, monitors, stop>>
        /\ task[l] # None
    BY <1>14 DEF StopWrites
  <2>2. task[l] \in Task /\ task[l].of \in Procs /\ TaskLinked(task[l])
    BY <1>0, <2>1, TaskTypes, Linked
  <2>3. \A p \in Procs :
           receipt'[p] = receipt[p] \/ (receipt'[p] = "stopped" /\ p = task[l].of)
    BY <1>0, <1>14 DEF ProcessTypeOK, StopWrites
  <2>4. ASSUME NEW p \in Procs PROVE CallLinked(p)'
    <3>1. CallLinked(p)
      BY <1>0, Linked
    <3>2. rec[task[l].of] # None
      BY <2>2 DEF TaskLinked
    <3>. QED  BY <2>1, <2>3, <3>1, <3>2 DEF CallLinked
  <2>5. /\ task'[l] = [task[l] EXCEPT !.at = "write"]
        /\ \A k \in Actors \ {l} : task'[k] = task[k]
    BY <1>0, <1>14 DEF ProcessTypeOK, StopWrites
  <2>6. TaskLinked(task[l])'
    BY <2>1, <2>2, <2>5 DEF TaskLinked
  <2>7. ASSUME NEW k \in Actors, k # l, task'[k] # None PROVE TaskLinked(task[k])'
    <3>1. TaskLinked(task[k]) /\ task'[k] = task[k]
      BY <1>0, <2>5, <2>7, Linked
    <3>. QED  BY <2>1, <3>1 DEF TaskLinked
  <2>. QED
    BY <1>0, <2>1, <2>4, <2>6, <2>7, Linked DEF RecordsLinked
<1>15. ASSUME NEW l \in Actors, CompleteRecord(l) PROVE RecordsLinked'
  <2>1. \A q \in Procs : RecordKept(q)
    BY <1>0, <1>15, RecordsKept
  <2>2. task[l].of \in Procs /\ task[l].as \in Terminal /\ rec[task[l].of] # None
    BY <1>0, <1>15, TaskTypes DEF CompleteRecord, RecordsLinked
  <2>3. rec'[task[l].of] # None /\ rec'[task[l].of].status \in Terminal
    <3>1. rec'[task[l].of] = Completed(rec[task[l].of], task[l].as)
      BY <1>0, <1>15, <2>2 DEF ProcessTypeOK, CompleteRecord
    <3>2. rec[task[l].of] \in Record
      BY <1>0, <2>2, RecordTypes
    <3>. QED  BY <2>2, <3>1, <3>2, CompletedIsTerminal
  <2>4. \A k \in Actors : task'[k] = IF k = l THEN Releasing(task[l].of) ELSE task[k]
    BY <1>0, <1>15 DEF ProcessTypeOK, CompleteRecord
  <2>5. UNCHANGED <<binding, call, runner, cmd, receipt, monitors, stop>>
    BY <1>15 DEF CompleteRecord
  <2>6. ASSUME NEW p \in Procs PROVE CallLinked(p)'
    <3>1. CallLinked(p) /\ RecordKept(p)
      BY <1>0, <2>1, Linked
    <3>. QED  BY <2>5, <3>1, ProcessAbsent DEF CallLinked
  <2>7. TaskLinked(task[l])'
    BY <2>3, <2>4 DEF TaskLinked, Releasing
  <2>8. ASSUME NEW k \in Actors, k # l, task'[k] # None PROVE TaskLinked(task[k])'
    <3>1. task'[k] = task[k] /\ task[k].of \in Procs
      BY <1>0, <2>4, <2>8, TaskTypes
    <3>. QED  BY <1>0, <2>1, <2>5, <2>8, <3>1, TasksLinked
  <2>9. stop' # None => rec'[stop'.of] # None
    <3>1. stop # None => stop.of \in Procs
      BY <1>0 DEF ProcessTypeOK
    <3>. QED  BY <1>0, <2>1, <2>5, <3>1 DEF RecordsLinked
  <2>. QED  BY <2>6, <2>7, <2>8, <2>9, Linked
<1>16. ASSUME NEW l \in Actors, Release(l) PROVE RecordsLinked'
  <2>1. \A q \in Procs : RecordKept(q)
    BY <1>0, <1>16, RecordsKept
  <2>2. /\ UNCHANGED <<binding, call, runner, cmd, receipt, monitors, stop>>
        /\ \A k \in Actors : task'[k] \in {task[k], None}
    BY <1>0, <1>16 DEF ProcessTypeOK, Release
  <2>3. ASSUME NEW p \in Procs PROVE CallLinked(p)'
    <3>1. CallLinked(p) /\ RecordKept(p)
      BY <1>0, <2>1, Linked
    <3>. QED  BY <2>2, <3>1, ProcessAbsent DEF CallLinked
  <2>4. ASSUME NEW k \in Actors, task'[k] # None PROVE TaskLinked(task[k])'
    <3>1. task'[k] = task[k] /\ task[k].of \in Procs
      BY <1>0, <2>2, <2>4, TaskTypes
    <3>. QED  BY <1>0, <2>1, <2>2, <2>4, <3>1, TasksLinked
  <2>5. stop' # None => rec'[stop'.of] # None
    <3>1. stop # None => stop.of \in Procs
      BY <1>0 DEF ProcessTypeOK
    <3>. QED  BY <1>0, <2>1, <2>2, <3>1 DEF RecordsLinked
  <2>. QED  BY <2>3, <2>4, <2>5, Linked
<1>17. ASSUME NEW l \in Actors, ActorDies(l) PROVE RecordsLinked'
  BY <1>0, <1>17, ProcessActors, ProcessAbsent
     DEF ProcessTypeOK, RecordsLinked, ActorDies
<1>18. ASSUME NEW l \in Actors, NEW p \in Procs, Look(l, p) PROVE RecordsLinked'
  <2>1. /\ UNCHANGED <<binding, rec, call, runner, cmd, receipt, monitors, stop>>
        /\ rec[p] # None
    BY <1>18 DEF Look, NeedsLook
  <2>2. \A k \in Actors : task'[k] = IF k = l THEN Looking(p) ELSE task[k]
    BY <1>0, <1>18 DEF ProcessTypeOK, Look, LooksAt
  <2>3. CallLinked(p)
    BY <1>0, Linked
  <2>4. /\ Looking(p).of = p /\ Looking(p).at # "release"
        /\ Looking(p).as = "succeeded" => cmd[p] = "ok"
    BY <2>3 DEF Looking, Completing, Outcome, CallLinked
  <2>5. TaskLinked(task[l])'
    BY <2>1, <2>2, <2>4 DEF TaskLinked
  <2>. QED  BY <1>0, <2>1, <2>2, <2>5, TasksOnly DEF RecordsLinked
<1>19. ASSUME NEW l \in Actors, NEW p \in Procs, StopBegins(l, p) PROVE RecordsLinked'
  BY <1>0, <1>19, ProcessActors, ProcessAbsent
     DEF ProcessTypeOK, RecordsLinked, StopBegins, Stopping, Completing
<1>20. ASSUME StopKills PROVE RecordsLinked'
  BY <1>0, <1>20, ProcessAbsent
     DEF ProcessTypeOK, RecordsLinked, StopKills, Gone, RunnerAlive
<1>21. ASSUME StopEnds PROVE RecordsLinked'
  <2>1. /\ UNCHANGED <<binding, rec, call, runner, cmd, receipt, monitors>>
        /\ stop' = None
        /\ stop # None /\ stop.by \in Actors
    BY <1>0, <1>21 DEF StopEnds, ProcessTypeOK
  <2>2. \A k \in Actors : task'[k] \in {task[k], None, Stopping(stop.of)}
    BY <1>0, <1>21 DEF StopEnds, ProcessTypeOK
  <2>3. \A k \in Actors : task'[k] = Stopping(stop.of) => TaskLinked(task[k])'
    BY <1>0, <2>1 DEF RecordsLinked, TaskLinked, Stopping
  <2>. QED
    BY <1>0, <2>1, <2>2, <2>3, TasksOnly
<1>22. ASSUME UNCHANGED processVars PROVE RecordsLinked'
  BY <1>0, <1>22, ProcessActors, ProcessAbsent
     DEF ProcessTypeOK, RecordsLinked, ProcessTypeOK
<1>. QED
  BY <1>1, <1>2, <1>3, <1>4, <1>5, <1>6, <1>7, <1>8, <1>9, <1>10, <1>11, <1>12, <1>13,
     <1>14, <1>15, <1>16, <1>17, <1>18, <1>19, <1>20, <1>21, <1>22
     DEF ProcessNext, RunnerProceeds, Proceeds, StopProceeds

(* A process stays untouched while nothing of it changes but that a task is *)
(* dropped.                                                                 *)
LEMMA UntouchedKept ==
    ASSUME NEW q \in Procs, Untouched(q),
           rec'[q] = rec[q], call'[q] = call[q], receipt'[q] = receipt[q],
           q \in lease => q \in lease',
           stop' \in {stop, None},
           \A l \in Actors : task'[l] \in {task[l], None} \/ task'[l].of # q
    PROVE  Untouched(q)'
<1>1. (Launching(q) <=> Launching(q)') /\ (IsActive(q) <=> IsActive(q)')
  BY DEF Launching, IsActive
<1>2. \A l \in Actors : task'[l] # None /\ task'[l].of = q =>
         ~Launching(q)' /\ task'[l].at = "identity" /\ task'[l].seen = "good"
  BY <1>1 DEF Untouched
<1>3. stop' # None /\ stop'.of = q => ~Launching(q)'
  BY <1>1 DEF Untouched
<1>. QED
  BY <1>1, <1>2, <1>3 DEF Untouched

(* Whoever settles, stops, expires or releases leaves alone a process that  *)
(* is on its way to the launch or under its identified runner.              *)
LEMMA ClearStep ==
    ASSUME ProcessInv, [ProcessNext]_processVars, NEW q \in Procs, Clear(q)'
    PROVE  Untouched(q)'
<1>. USE DEF disk, run, processVars, InTurn, IsActive, IsTerminal, RunnerAlive,
   Launching, Active, Terminal
<1>0. ProcessTypeOK /\ ProcessTypeOK' /\ RecordsLinked /\ RecordsLinked' /\ (Clear(q) => Untouched(q))
  BY ProcessTypes, LinkStep DEF ProcessInv, ClearUntouched
<1>1. ASSUME NEW p \in Procs, Ask(p) PROVE Untouched(q)'
  <2>1. CASE call'[p] = "over"
    <3>1. UNCHANGED <<rec, lease, run, monitors, stop>>
      BY <1>1 DEF Ask
    <3>2. call[p] = "idle" /\ \A r \in Procs \ {p} : call'[r] = call[r]
      BY <1>0, <1>1 DEF ProcessTypeOK, Ask
    <3>3. early \subseteq early'
      BY <1>1 DEF Ask, LooksAt
    <3>4. q # p /\ Clear(q) /\ Untouched(q) /\ call'[q] = call[q]
      BY <1>0, <2>1, <3>1, <3>2, <3>3 DEF RecordsLinked, Clear
    <3>5. \/ UNCHANGED task
          \/ NeedsLook(Runtime, binding) /\ LooksAt(Runtime, binding)
      BY <1>1 DEF Ask
    <3>. QED
      BY <1>0, <3>1, <3>4, <3>5, ProcessAbsent
         DEF ProcessTypeOK, Untouched, Clear, NeedsLook, LooksAt, Looking, Completing
  <2>2. CASE call'[p] # "over"
    <3>1. /\ UNCHANGED <<rec, lease, run, task, stop, early>>
          /\ call[p] = "idle" /\ call' = [call EXCEPT ![p] = "bound"]
      BY <1>0, <1>1, <2>2 DEF ProcessTypeOK, Ask
    <3>2. CASE q = p
      <4>1. rec[q] = None /\ receipt[q] = "none" /\ call'[q] = "bound"
        BY <1>0, <3>1, <3>2 DEF ProcessTypeOK, RecordsLinked
      <4>2. /\ \A l \in Actors : task[l] # None => task[l].of # q
            /\ stop # None => stop.of # q
        BY <1>0, <4>1 DEF RecordsLinked
      <4>. QED  BY <3>1, <4>1, <4>2 DEF Untouched
    <3>3. CASE q # p
      <4>1. call'[q] = call[q]
        BY <1>0, <3>1, <3>3 DEF ProcessTypeOK
      <4>2. Clear(q) /\ Untouched(q)
        BY <1>0, <3>1, <4>1 DEF Clear
      <4>. QED  BY <3>1, <4>1, <4>2, UntouchedKept
    <3>. QED  BY <3>2, <3>3
  <2>. QED  BY <2>1, <2>2
<1>2. ASSUME NEW p \in Procs, CreateRecord(p) PROVE Untouched(q)'
  BY <1>0, <1>2, ProcessActors, ProcessAbsent
     DEF ProcessTypeOK, RecordsLinked, Clear, Untouched, CreateRecord
<1>3. ASSUME NEW p \in Procs, Acquire(p) PROVE Untouched(q)'
  BY <1>0, <1>3, ProcessActors, ProcessAbsent
     DEF ProcessTypeOK, RecordsLinked, Clear, Untouched, Acquire, Turn, Idle
<1>4. ASSUME NEW p \in Procs, Blocked(p) PROVE Untouched(q)'
  BY <1>0, <1>4, ProcessActors, ProcessAbsent
     DEF ProcessTypeOK, RecordsLinked, Clear, Untouched, Blocked, Turn, Idle, LooksAt,
         Looking, NeedsLook, Completing, Outcome
<1>5. ASSUME NEW p \in Procs, LeaseConflict(p) \/ LaunchFails(p) PROVE Untouched(q)'
  BY <1>0, <1>5, ProcessActors, ProcessAbsent
     DEF ProcessTypeOK, RecordsLinked, Clear, Untouched, LeaseConflict, LaunchFails,
         Completing
<1>6. ASSUME NEW p \in Procs, Abandon(p) \/ Settle(p) PROVE Untouched(q)'
  BY <1>0, <1>6, ProcessActors, ProcessAbsent
     DEF ProcessTypeOK, RecordsLinked, Clear, Untouched, Abandon, Settle, Completing,
         Releasing
<1>7. ASSUME NEW p \in Procs, Refs(p) PROVE Untouched(q)'
  <2>1. /\ UNCHANGED <<lease, runner, receipt, task, stop, early>>
        /\ rec' = [rec EXCEPT ![p] = Updated(rec[p], [rec[p] EXCEPT !.refs = TRUE])]
        /\ call' = [call EXCEPT ![p] = "refs"] /\ call[p] = "have"
    BY <1>7 DEF Refs
  <2>2. CASE q = p
    <3>1. Clear(q) /\ Untouched(q) /\ Launching(q) /\ Launching(q)'
      BY <1>0, <2>1, <2>2 DEF ProcessTypeOK, Clear
    <3>2. rec[q] \in Record /\ rec[q].status \in Active
      BY <1>0, <2>1, <2>2, <3>1, RecordTypes DEF RecordsLinked, Untouched
    <3>3. rec'[q] = [rec[q] EXCEPT !.refs = TRUE]
      BY <1>0, <2>1, <2>2, <3>2 DEF ProcessTypeOK, Updated
    <3>4. rec'[q].status \in Active
      BY <3>2, <3>3 DEF Record
    <3>. QED  BY <2>1, <2>2, <3>1, <3>4 DEF Untouched
  <2>3. CASE q # p
    <3>1. rec'[q] = rec[q] /\ call'[q] = call[q]
      BY <1>0, <2>1, <2>3 DEF ProcessTypeOK
    <3>2. Clear(q) /\ Untouched(q)
      BY <1>0, <2>1, <3>1 DEF Clear
    <3>. QED  BY <2>1, <3>1, <3>2, UntouchedKept
  <2>. QED  BY <2>2, <2>3
<1>8. ASSUME NEW p \in Procs, Launch(p) PROVE Untouched(q)'
  BY <1>0, <1>8, ProcessActors, ProcessAbsent
     DEF ProcessTypeOK, RecordsLinked, Clear, Untouched, Launch
<1>9. ASSUME NEW p \in Procs, Identify(p) PROVE Untouched(q)'
  <2>1. /\ UNCHANGED <<lease, runner, receipt, task, stop, early>>
        /\ call' = [call EXCEPT ![p] = "over"] /\ call[p] = "launched"
        /\ \E identity \in Identity :
             rec' = [rec EXCEPT ![p] = Updated(rec[p], [rec[p] EXCEPT !.status = "running",
                                                                 !.identity = identity])]
    BY <1>9 DEF Identify
  <2>2. CASE q = p
    <3>1. Clear(q) /\ Untouched(q) /\ Launching(q) /\ q \in lease
      BY <1>0, <2>1, <2>2 DEF Clear, Untouched
    <3>2. rec[q] \in Record /\ rec[q].status \in Active
      BY <1>0, <2>1, <2>2, <3>1, RecordTypes DEF RecordsLinked, Untouched
    <3>3. \E identity \in Identity :
             rec'[q] = [rec[q] EXCEPT !.status = "running", !.identity = identity]
      BY <1>0, <2>1, <2>2, <3>2 DEF ProcessTypeOK, Updated
    <3>4. rec'[q].status \in Active
      BY <3>2, <3>3 DEF Record
    <3>. QED  BY <2>1, <2>2, <3>1, <3>4 DEF Untouched
  <2>3. CASE q # p
    <3>1. rec'[q] = rec[q] /\ call'[q] = call[q]
      BY <1>0, <2>1, <2>3 DEF ProcessTypeOK
    <3>2. Clear(q) /\ Untouched(q)
      BY <1>0, <2>1, <3>1 DEF Clear
    <3>. QED  BY <2>1, <3>1, <3>2, UntouchedKept
  <2>. QED  BY <2>2, <2>3
<1>10. ASSUME NEW p \in Procs, Close(p) PROVE Untouched(q)'
  <2>1. UNCHANGED <<rec, lease, call, runner, stop, early>>
    BY <1>10 DEF Close
  <2>2. Clear(q) /\ Untouched(q)
    BY <1>0, <2>1 DEF Clear
  <2>3. q # p
    BY <1>0, <1>10, <2>2 DEF Close, Clear, RecordsLinked
  <2>4. receipt'[q] = receipt[q]
    BY <1>0, <1>10, <2>3 DEF Close, ProcessTypeOK
  <2>5. \A k \in Actors : task'[k] = task[k] \/ task'[k].of # q
    BY <1>0, <1>10, <2>3 DEF Close, ProcessTypeOK, Completing
  <2>. QED  BY <2>1, <2>2, <2>4, <2>5, UntouchedKept
<1>11. ASSUME NEW p \in Procs, Expire(p) \/ TimeOut(p) \/ RunnerKills(p) \/ CmdEnds(p)
       PROVE  Untouched(q)'
  BY <1>0, <1>11, ProcessActors, ProcessAbsent
     DEF ProcessTypeOK, RecordsLinked, Clear, Untouched, Expire, TimeOut, RunnerKills,
         CmdEnds
<1>12. ASSUME NEW p \in Procs, RunnerStarts(p) PROVE Untouched(q)'
  BY <1>0, <1>12, ProcessActors, ProcessAbsent
     DEF ProcessTypeOK, RecordsLinked, Clear, Untouched, RunnerStarts, Gone
<1>13. ASSUME NEW p \in Procs, RunnerReports(p) \/ RunnerDies(p) PROVE Untouched(q)'
  BY <1>0, <1>13, ProcessActors, ProcessAbsent
     DEF ProcessTypeOK, RecordsLinked, Clear, Untouched, RunnerReports, RunnerDies,
         Gone
<1>14. ASSUME NEW l \in Actors, LookIdentity(l) PROVE Untouched(q)'
  <2>1. UNCHANGED <<rec, call, receipt, lease, runner, stop, early>> /\ task[l] # None
    BY <1>14 DEF LookIdentity
  <2>2. Clear(q) /\ Untouched(q)
    BY <1>0, <2>1 DEF Clear
  <2>3. task' = [task EXCEPT ![l] =
                   IF Matches(task[l].of, task[l].seen) THEN None
                   ELSE Completing(task[l].of, "unknown")]
    BY <1>14 DEF LookIdentity
  <2>4. task[l].of = q => Matches(task[l].of, task[l].seen)
    BY <2>1, <2>2 DEF Clear, Untouched, Matches
  <2>5. \A k \in Actors : task'[k] \in {task[k], None} \/ task'[k].of # q
    BY <1>0, <2>3, <2>4 DEF ProcessTypeOK, Completing
  <2>. QED  BY <2>1, <2>2, <2>5, UntouchedKept
<1>15. ASSUME NEW l \in Actors, StopWrites(l) PROVE Untouched(q)'
  <2>1. /\ UNCHANGED <<rec, lease, call, runner, stop, early>>
        /\ task[l] # None /\ task[l].at = "stop"
    BY <1>15 DEF StopWrites
  <2>2. Clear(q) /\ Untouched(q)
    BY <1>0, <2>1 DEF Clear
  <2>3. task[l].of # q
    BY <2>1, <2>2 DEF Untouched
  <2>4. receipt'[q] = receipt[q]
    BY <1>0, <1>15, <2>3 DEF StopWrites, ProcessTypeOK
  <2>5. task'[l].of = task[l].of /\ \A k \in Actors \ {l} : task'[k] = task[k]
    <3>1. task[l] \in Task /\ task' = [task EXCEPT ![l] = [task[l] EXCEPT !.at = "write"]]
      BY <1>0, <1>15, TaskTypes DEF StopWrites
    <3>. QED  BY <1>0, <3>1 DEF ProcessTypeOK, Task
  <2>. QED  BY <2>1, <2>2, <2>3, <2>4, <2>5, UntouchedKept
<1>16. ASSUME NEW l \in Actors, CompleteRecord(l) PROVE Untouched(q)'
  <2>1. UNCHANGED <<call, receipt, lease, runner, stop, early>>
    BY <1>16 DEF CompleteRecord
  <2>2. task[l].of \in Procs /\ RecordKept(q)
    BY <1>0, <1>16, TaskTypes, RecordsKept DEF CompleteRecord
  <2>3. Clear(q) /\ Untouched(q)
    BY <1>0, <2>1, <2>2 DEF Clear, RecordKept, RecordsLinked
  <2>4. task[l].of # q
    BY <1>16, <2>3 DEF CompleteRecord, Untouched
  <2>5. rec'[q] = rec[q]
    BY <1>0, <1>16, <2>4 DEF CompleteRecord, ProcessTypeOK
  <2>6. \A k \in Actors : task'[k] \in {task[k], None} \/ task'[k].of # q
    BY <1>0, <1>16, <2>4 DEF CompleteRecord, ProcessTypeOK, Releasing
  <2>. QED  BY <2>1, <2>3, <2>5, <2>6, UntouchedKept
<1>17. ASSUME NEW l \in Actors, Release(l) PROVE Untouched(q)'
  <2>1. task[l].of \in Procs /\ RecordKept(q)
    BY <1>0, <1>17, TaskTypes, RecordsKept DEF Release
  <2>2. Clear(q) /\ Untouched(q)
    BY <1>0, <1>17, <2>1 DEF Release, Clear, RecordKept, RecordsLinked
  <2>3. task[l].of # q
    BY <1>0, <1>17, <2>2 DEF Release, RecordsLinked, Untouched
  <2>4. rec'[q] = rec[q] /\ (q \in lease => q \in lease')
    BY <1>0, <1>17, <2>3 DEF ProcessTypeOK, Release
  <2>5. UNCHANGED <<call, receipt, stop>>
    BY <1>17 DEF Release
  <2>6. \A k \in Actors : task'[k] \in {task[k], None}
    BY <1>0, <1>17 DEF ProcessTypeOK, Release
  <2>. QED  BY <2>2, <2>4, <2>5, <2>6, UntouchedKept
<1>18. ASSUME NEW l \in Actors, ActorDies(l) PROVE Untouched(q)'
  BY <1>0, <1>18, ProcessActors, ProcessAbsent
     DEF ProcessTypeOK, RecordsLinked, Clear, Untouched, ActorDies
<1>19. ASSUME NEW l \in Actors, NEW p \in Procs, Look(l, p) PROVE Untouched(q)'
  <2>1. /\ UNCHANGED <<rec, lease, call, runner, receipt, stop>>
        /\ task' = [task EXCEPT ![l] = Looking(p)]
        /\ early' = IF Launching(p) THEN early \union {p} ELSE early
    BY <1>19 DEF Look, LooksAt
  <2>2. Clear(q) /\ Untouched(q) /\ (q = p => ~Launching(q))
    BY <1>0, <2>1 DEF Clear
  <2>3. \A k \in Actors : task'[k] = IF k = l THEN Looking(p) ELSE task[k]
    BY <1>0, <2>1 DEF ProcessTypeOK
  <2>4. Looking(p).of = p
    BY DEF Looking, Completing
  <2>5. CASE q = p
    <3>1. Looking(q).at = "identity" /\ Looking(q).seen = "good" /\ ~Launching(q)
      BY <2>2, <2>5 DEF Clear, Untouched, Looking
    <3>. QED  BY <2>1, <2>2, <2>3, <2>5, <3>1 DEF Untouched
  <2>6. CASE q # p
    BY <2>1, <2>2, <2>3, <2>4, <2>6, UntouchedKept
  <2>. QED  BY <2>5, <2>6
<1>20. ASSUME NEW l \in Actors, NEW p \in Procs, StopBegins(l, p) PROVE Untouched(q)'
  <2>1. /\ UNCHANGED <<rec, lease, call, runner, receipt>>
        /\ early' = IF Launching(p) THEN early \union {p} ELSE early
    BY <1>20 DEF StopBegins
  <2>2. Clear(q) /\ Untouched(q) /\ (q = p => ~Launching(q))
    BY <1>0, <2>1 DEF Clear
  <2>3. \/ /\ stop' = [of |-> p, by |-> l, watched |-> Watches(l, p)]
           /\ UNCHANGED task
        \/ /\ ~Matches(p, rec[p].identity) /\ UNCHANGED stop
           /\ \/ task' = [task EXCEPT ![l] = Stopping(p)]
              \/ task' = [task EXCEPT ![l] = Completing(p, "unknown")]
    BY <1>20 DEF StopBegins
  <2>4. CASE stop' = [of |-> p, by |-> l, watched |-> Watches(l, p)] /\ UNCHANGED task
    <3>1. stop'.of = p
      BY <2>4
    <3>. QED  BY <2>1, <2>2, <2>4, <3>1 DEF Untouched
  <2>5. CASE /\ ~Matches(p, rec[p].identity) /\ UNCHANGED stop
             /\ \/ task' = [task EXCEPT ![l] = Stopping(p)]
                \/ task' = [task EXCEPT ![l] = Completing(p, "unknown")]
    <3>1. q # p
      BY <2>2, <2>5 DEF Clear, Matches
    <3>2. \A k \in Actors : task'[k] = task[k] \/ task'[k].of = p
      BY <1>0, <2>5 DEF ProcessTypeOK, Stopping, Completing
    <3>. QED  BY <2>1, <2>2, <2>5, <3>1, <3>2, UntouchedKept
  <2>. QED  BY <2>3, <2>4, <2>5
<1>21. ASSUME StopKills PROVE Untouched(q)'
  BY <1>0, <1>21, ProcessActors, ProcessAbsent
     DEF ProcessTypeOK, RecordsLinked, Clear, Untouched, StopKills, Gone
<1>22. ASSUME StopEnds PROVE Untouched(q)'
  <2>1. /\ UNCHANGED <<rec, call, receipt, lease, runner, early>>
        /\ stop # None /\ ~RunnerAlive(stop.of) /\ stop' = None
    BY <1>22 DEF StopEnds
  <2>2. Clear(q) /\ Untouched(q)
    BY <1>0, <2>1 DEF Clear
  <2>3. stop.of # q
    BY <2>1, <2>2 DEF Clear, Untouched
  <2>4. \A k \in Actors : task'[k] \in {task[k], None, Stopping(stop.of)}
    BY <1>0, <1>22 DEF StopEnds, ProcessTypeOK
  <2>5. Stopping(stop.of).of # q
    BY <2>3 DEF Stopping
  <2>. QED  BY <2>1, <2>2, <2>4, <2>5, UntouchedKept
<1>23. ASSUME UNCHANGED processVars PROVE Untouched(q)'
  BY <1>0, <1>23, ProcessActors, ProcessAbsent
     DEF ProcessTypeOK, RecordsLinked, Clear, Untouched, ProcessTypeOK
<1>. QED
  BY <1>1, <1>2, <1>3, <1>4, <1>5, <1>6, <1>7, <1>8, <1>9, <1>10, <1>11, <1>12, <1>13,
     <1>14, <1>15, <1>16, <1>17, <1>18, <1>19, <1>20, <1>21, <1>22, <1>23
     DEF ProcessNext, RunnerProceeds, Proceeds, StopProceeds

(* What is recorded as over is over, and a process on its way to the launch *)
(* or under its identified runner is left alone by whoever settles others.  *)
THEOREM ProcessInvariant == ProcessSpec => []ProcessInv
<1>1. ProcessInit => ProcessInv
  BY ProcessBounds, ProcessActors
     DEF ProcessInit, ProcessInv, ProcessTypeOK, TrueOutcome, RecordsLinked,
         ClearUntouched, Clear, Launching, InTurn, RunnerAlive, Phase, Receipt
<1>2. ProcessInv /\ [ProcessNext]_processVars => ProcessInv'
  <2>. SUFFICES ASSUME ProcessInv, [ProcessNext]_processVars PROVE ProcessInv'
    OBVIOUS
  <2>1. ProcessTypeOK' /\ TrueOutcome' /\ RecordsLinked'
    BY ProcessTypes, OutcomeStep, LinkStep DEF ProcessInv
  <2>2. ClearUntouched'
    BY ClearStep DEF ClearUntouched
  <2>. QED  BY <2>1, <2>2 DEF ProcessInv
<1>. QED
  BY <1>1, <1>2, PTL DEF ProcessSpec

(* Only the request that binds the check moves the binding, and only a      *)
(* bound process gets a record.                                             *)
LEMMA OneValidStep ==
    ASSUME ProcessInv, OneValid, [ProcessNext]_processVars PROVE OneValid'
<1>. SUFFICES ASSUME NEW q \in Procs, Reusable(q)' PROVE binding' = q
  BY DEF OneValid
<1>. USE DEF disk, run, processVars, InTurn, Active, Terminal, Reusable
<1>0. ProcessTypeOK /\ RecordsLinked /\ (Reusable(q) => binding = q)
  BY DEF ProcessInv, OneValid
<1>1. ASSUME NEW p \in Procs, Ask(p) PROVE binding' = q
  <2>1. Reusable(q)
    BY <1>1 DEF Ask
  <2>. QED  BY <1>0, <1>1, <2>1, ProcessActors DEF Ask, OneValid
<1>2. ASSUME NEW p \in Procs, CreateRecord(p) PROVE binding' = q
  BY <1>0, <1>2 DEF ProcessTypeOK, RecordsLinked, CreateRecord
<1>3. ASSUME \/ \E p \in Procs : Refs(p) \/ Identify(p)
             \/ \E l \in Actors : CompleteRecord(l) \/ Release(l)
      PROVE  binding' = q
  <2>1. RecordKept(q) /\ rec[q] # None /\ UNCHANGED binding
    BY <1>0, <1>3, RecordsKept DEF RecordKept, Refs, Identify, CompleteRecord, Release
  <2>2. rec[q].status \in Active \union Terminal
    BY <1>0, <2>1, RecordTypes
  <2>. QED  BY <1>0, <2>1, <2>2 DEF RecordKept, IsTerminal
<1>4. ASSUME UNCHANGED <<binding, rec>> PROVE binding' = q
  BY <1>0, <1>4
<1>5. ASSUME NEW p \in Procs,
             \/ Acquire(p) \/ Blocked(p) \/ LeaseConflict(p) \/ Launch(p)
             \/ LaunchFails(p) \/ Settle(p) \/ Abandon(p) \/ Close(p) \/ Expire(p)
             \/ RunnerStarts(p) \/ TimeOut(p) \/ RunnerKills(p) \/ RunnerReports(p)
             \/ CmdEnds(p) \/ RunnerDies(p)
      PROVE  UNCHANGED <<binding, rec>>
  BY <1>5 DEF Acquire, Blocked, LeaseConflict, Launch, LaunchFails, Settle, Abandon,
     Close, Expire, RunnerStarts, TimeOut, RunnerKills, RunnerReports, CmdEnds, RunnerDies
<1>6. ASSUME \/ \E l \in Actors :
                  \/ LookIdentity(l) \/ StopWrites(l) \/ ActorDies(l)
                  \/ \E p \in Procs : Look(l, p) \/ StopBegins(l, p)
             \/ StopProceeds \/ UNCHANGED processVars
      PROVE  UNCHANGED <<binding, rec>>
  BY <1>6 DEF LookIdentity, StopWrites, ActorDies, Look, StopBegins, StopProceeds,
     StopKills, StopEnds
<1>. QED
  BY <1>1, <1>2, <1>3, <1>4, <1>5, <1>6 DEF ProcessNext, RunnerProceeds, Proceeds

(* However many ask for the check, at most one process is at work on it or  *)
(* has passed it, and it is the one claimProcessCheckExecution has bound.   *)
THEOREM OneValidProcess == ProcessSpec => []OneValid
<1>1. ProcessInit => OneValid
  BY DEF ProcessInit, OneValid, Reusable
<1>2. ProcessInv /\ OneValid /\ [ProcessNext]_processVars => OneValid'
  BY OneValidStep
<1>. QED
  BY <1>1, <1>2, ProcessInvariant, PTL DEF ProcessSpec

(* Whoever looks at the record, dies, expires leases or cancels others, a   *)
(* command under an identified runner keeps an active record and its lease. *)
THEOREM CommandAttended == ProcessSpec => []Attended
<1>1. ProcessInv => Attended
  <2>. SUFFICES ASSUME ProcessInv, NEW p \in Procs,
                       runner[p] = "running", cmd[p] = "running",
                       rec[p] # None, rec[p].identity = "good", p \notin early
                PROVE  IsActive(p) /\ p \in lease
    BY DEF Attended
  <2>1. Clear(p) /\ call[p] = "over"
    BY DEF ProcessInv, RecordsLinked, Clear, RunnerAlive
  <2>. QED  BY <2>1 DEF ProcessInv, ClearUntouched, Untouched
<1>. QED
  BY <1>1, ProcessInvariant, PTL

(* A lease is taken only when there is none (acquireExecutionLeases).       *)
OneLease == \A p, q \in lease : p = q

LEMMA OneLeaseStep == OneLease /\ [ProcessNext]_processVars => OneLease'
<1>. SUFFICES ASSUME OneLease, [ProcessNext]_processVars PROVE OneLease'
  OBVIOUS
<1>. USE DEF disk, run, processVars
<1>1. ASSUME lease' \subseteq lease PROVE OneLease'
  BY <1>1 DEF OneLease
<1>2. ASSUME NEW p \in Procs, Acquire(p) PROVE OneLease'
  BY <1>2 DEF Acquire, OneLease
<1>3. ASSUME NEW p \in Procs,
             \/ Ask(p) \/ CreateRecord(p) \/ Blocked(p) \/ LeaseConflict(p)
             \/ Launch(p) \/ LaunchFails(p) \/ Settle(p) \/ Abandon(p) \/ Close(p) \/ Expire(p)
      PROVE  lease' \subseteq lease
  BY <1>3 DEF Ask, CreateRecord, Blocked, LeaseConflict, Launch, LaunchFails,
     Settle, Abandon, Close, Expire
<1>4. ASSUME NEW p \in Procs, Refs(p) \/ Identify(p) PROVE UNCHANGED lease
  BY <1>4, Zenon DEF Refs, Identify
<1>5. ASSUME NEW p \in Procs, RunnerProceeds(p) \/ CmdEnds(p) \/ RunnerDies(p)
      PROVE  lease' \subseteq lease
  BY <1>5 DEF RunnerProceeds, RunnerStarts, TimeOut, RunnerKills, RunnerReports,
     CmdEnds, RunnerDies
<1>6. ASSUME NEW l \in Actors,
             \/ Proceeds(l) \/ ActorDies(l)
             \/ \E p \in Procs : Look(l, p) \/ StopBegins(l, p)
      PROVE  lease' \subseteq lease
  BY <1>6 DEF Proceeds, LookIdentity, CompleteRecord, Release, StopWrites, ActorDies,
     Look, StopBegins
<1>7. ASSUME StopProceeds \/ UNCHANGED processVars PROVE lease' \subseteq lease
  BY <1>7 DEF StopProceeds, StopKills, StopEnds
<1>. QED
  BY <1>1, <1>2, <1>3, <1>4, <1>5, <1>6, <1>7 DEF ProcessNext

(* Commands exclude each other: a process that has a runner, that is being  *)
(* launched or was identified, and that nobody looked at early, is the one  *)
(* claimProcessCheckExecution has bound, and nobody else has a lease.       *)
THEOREM RunnersExclude ==
    ProcessSpec => [](\A p \in Procs :
                        Clear(p) /\ RunnerAlive(p) => binding = p /\ lease = {p})
<1>1. ProcessInv /\ OneValid /\ OneLease =>
        \A p \in Procs : Clear(p) /\ RunnerAlive(p) => binding = p /\ lease = {p}
  <2>. SUFFICES ASSUME ProcessInv, OneValid, OneLease,
                       NEW p \in Procs, Clear(p), RunnerAlive(p)
                PROVE  binding = p /\ lease = {p}
    OBVIOUS
  <2>1. Untouched(p)
    BY DEF ProcessInv, ClearUntouched
  <2>2. rec[p] # None /\ call[p] \in {"launched", "over"}
    BY DEF ProcessInv, ProcessTypeOK, RecordsLinked, RunnerAlive
  <2>3. IsActive(p) /\ p \in lease
    BY <2>1, <2>2 DEF Untouched
  <2>4. binding = p
    BY <2>3 DEF OneValid, Reusable, IsActive
  <2>5. lease = {p}
    BY <2>3 DEF OneLease
  <2>. QED  BY <2>4, <2>5
<1>2. ProcessInit => OneLease
  BY DEF ProcessInit, OneLease
<1>. QED
  BY <1>1, <1>2, OneLeaseStep, ProcessInvariant, OneValidProcess, PTL DEF ProcessSpec

-----------------------------------------------------------------------------
USE DEF At, ownership, releases

LEMMA AuthorityTypes ==
    ASSUME TypeOK, NEW r \in Releases, NEW f \in Authority \union {NoAuthority},
           NEW b \in Publishers \union Runtimes, NewAuthority(r, f, b)
    PROVE  /\ authority' \in Authority /\ tokens' \in Nat /\ tokens' = tokens + 1
           /\ authority'.token = tokens
<1>1. tokens \in Nat
  BY DEF TypeOK
<1>2. CASE f = NoAuthority
  BY <1>1, <1>2 DEF NewAuthority, Authority
<1>3. CASE f # NoAuthority
  BY <1>1, <1>3 DEF NewAuthority, Authority
<1>. QED  BY <1>2, <1>3

LEMMA TypeStep == TypeOK /\ [Next]_vars => TypeOK'
<1>. SUFFICES ASSUME TypeOK, [Next]_vars PROVE TypeOK'
  OBVIOUS
<1>1. ASSUME NEW p \in Runtimes,
             \/ Start(p) \/ Create(p) \/ Write(p) \/ ReadOwner(p) \/ Rename(p)
             \/ Stop(p) \/ ReadOwn(p) \/ Unlink(p) \/ Crash(p)
      PROVE  TypeOK'
  BY <1>1 DEF TypeOK, Stages, Start, Create, Write, ReadOwner, Rename, Stop, ReadOwn,
     Unlink, Crash
<1>2. ASSUME NEW p \in Runtimes, Ensure(p) PROVE TypeOK'
  <2>1. CASE Has(authority) /\ authority.active = release[p]
    BY <1>2, <2>1 DEF TypeOK, Stages, Ensure, Has
  <2>2. CASE ~(Has(authority) /\ authority.active = release[p])
    BY <1>2, <2>2 DEF TypeOK, Stages, Ensure, Has
  <2>. QED  BY <2>1, <2>2
<1>3. ASSUME NEW p \in Runtimes, WriteFirst(p) PROVE TypeOK'
  <2>1. authority' \in Authority /\ tokens' \in Nat
    BY <1>3, AuthorityTypes DEF WriteFirst, TypeOK
  <2>2. /\ stage' = [stage EXCEPT ![p] = "bind"]
        /\ ensured' = [ensured EXCEPT ![p] = authority']
        /\ UNCHANGED <<owner, written, attempts, release, reading, claims>>
    BY <1>3 DEF WriteFirst
  <2>3. Has(authority')
    BY <2>1, NoAuthorityAssumption DEF Has
  <2>4. \A q \in Runtimes : (stage[q] = "bind" => Has(ensured[q]))'
    BY <2>2, <2>3 DEF TypeOK, Has
  <2>. QED  BY <2>1, <2>2, <2>4 DEF TypeOK, Stages
<1>4. ASSUME NEW p \in Runtimes, Bind(p) PROVE TypeOK'
  <2>1. ensured[p] \in Authority
    BY <1>4 DEF TypeOK, Bind, Has
  <2>2. [owner |-> p, rev |-> ensured[p].rev, token |-> ensured[p].token,
         active |-> ensured[p].active] \in WriteClaim
    BY <2>1 DEF Authority, WriteClaim
  <2>. QED  BY <1>4, <2>2 DEF TypeOK, Stages, Bind
<1>5. ASSUME NEW u \in Publishers,
             \/ \E r \in Releases : BeginPublish(u, r)
             \/ BeginRollback(u) \/ BeginRevert(u)
      PROVE  TypeOK'
  BY <1>5 DEF TypeOK, BeginPublish, BeginRollback, BeginRevert, Has, Authority
<1>6. ASSUME NEW u \in Publishers, Commit(u) PROVE TypeOK'
  <2>1. reading[u].to \in Releases /\ reading[u].from \in Authority \union {NoAuthority}
    BY <1>6 DEF TypeOK, Commit
  <2>2. authority' \in Authority /\ tokens' \in Nat
    BY <1>6, <2>1, AuthorityTypes DEF Commit
  <2>. QED  BY <1>6, <2>2 DEF TypeOK, Commit
<1>7. ASSUME NEW u \in Publishers, CommitRevert(u) \/ GiveUp(u) PROVE TypeOK'
  BY <1>7 DEF TypeOK, CommitRevert, GiveUp
<1>8. CASE UNCHANGED vars
  BY <1>8 DEF TypeOK, vars
<1>9. CASE \E p \in Runtimes :
            \/ Start(p) \/ Create(p) \/ Write(p) \/ ReadOwner(p) \/ Rename(p)
            \/ Ensure(p) \/ WriteFirst(p) \/ Bind(p)
            \/ Stop(p) \/ ReadOwn(p) \/ Unlink(p) \/ Crash(p)
  BY <1>1, <1>2, <1>3, <1>4, <1>9
<1>10. CASE \E u \in Publishers :
             \/ \E r \in Releases : BeginPublish(u, r)
             \/ BeginRollback(u) \/ BeginRevert(u)
             \/ Commit(u) \/ CommitRevert(u) \/ GiveUp(u)
  BY <1>5, <1>6, <1>7, <1>10
<1>. QED
  BY <1>8, <1>9, <1>10 DEF Next

(* The running owner's record is in the file: nobody moves or replaces a    *)
(* record that they have not just seen dead, malformed or their own.        *)
LEMMA OwnerStep == Prompt = TRUE /\ OwnerInv /\ [Next]_vars => OwnerInv'
<1>. SUFFICES ASSUME Prompt = TRUE, OwnerInv, [Next]_vars PROVE OwnerInv'
  OBVIOUS
<1>0. TypeOK /\ TypeOK'
  BY TypeStep DEF OwnerInv
<1>. USE <1>0, AbsentAssumption DEF Recorded, Alive, LiveRecord, Owning, Undisturbed
<1>1. ASSUME NEW p \in Runtimes, Start(p) PROVE OwnerInv'
  BY <1>1 DEF OwnerInv, TypeOK, Start
<1>2. ASSUME NEW p \in Runtimes, Create(p) PROVE OwnerInv'
  BY <1>2 DEF OwnerInv, TypeOK, Create
<1>3. ASSUME NEW p \in Runtimes, Write(p) PROVE OwnerInv'
  BY <1>3 DEF OwnerInv, TypeOK, Write
<1>4. ASSUME NEW p \in Runtimes, ReadOwner(p) PROVE OwnerInv'
  BY <1>4 DEF OwnerInv, TypeOK, ReadOwner
<1>5. ASSUME NEW p \in Runtimes, Rename(p) PROVE OwnerInv'
  BY <1>5 DEF OwnerInv, TypeOK, Rename
<1>6. ASSUME NEW p \in Runtimes, Ensure(p) \/ WriteFirst(p) \/ Bind(p) \/ Stop(p)
      PROVE  OwnerInv'
  BY <1>6 DEF OwnerInv, TypeOK, Ensure, WriteFirst, Bind, Stop
<1>7. ASSUME NEW p \in Runtimes, ReadOwn(p) PROVE OwnerInv'
  BY <1>7 DEF OwnerInv, TypeOK, ReadOwn
<1>8. ASSUME NEW p \in Runtimes, Unlink(p) PROVE OwnerInv'
  BY <1>8 DEF OwnerInv, TypeOK, Unlink
<1>9. ASSUME NEW p \in Runtimes, Crash(p) PROVE OwnerInv'
  BY <1>9 DEF OwnerInv, TypeOK, Crash
<1>10. ASSUME UNCHANGED <<ownership, stage>> PROVE OwnerInv'
  BY <1>10 DEF OwnerInv
<1>11. ASSUME NEW u \in Publishers,
              \/ \E r \in Releases : BeginPublish(u, r)
              \/ BeginRollback(u) \/ BeginRevert(u)
              \/ Commit(u) \/ CommitRevert(u) \/ GiveUp(u)
       PROVE  UNCHANGED <<ownership, stage>>
  BY <1>11 DEF BeginPublish, BeginRollback, BeginRevert, Commit, CommitRevert, GiveUp
<1>. QED
  BY <1>1, <1>2, <1>3, <1>4, <1>5, <1>6, <1>7, <1>8, <1>9, <1>10, <1>11 DEF Next, vars

(* While nobody else looks at the owner file between the two calls of a     *)
(* process that creates, replaces or removes it, OwnerInv holds.            *)
THEOREM OwnerInvariant == ASSUME Prompt = TRUE PROVE Spec => []OwnerInv
<1>1. Init => OwnerInv
  BY AbsentAssumption
     DEF Init, OwnerInv, TypeOK, Stages, Owning, Recorded, LiveRecord, Alive
<1>2. OwnerInv /\ [Next]_vars => OwnerInv'
  BY OwnerStep
<1>. QED
  BY <1>1, <1>2, PTL DEF Spec

(* Of the runtimes that have taken the controller home (acquireRuntime-     *)
(* Ownership returned and the handle is not released) one is running.       *)
THEOREM OneRuntimeOwns == ASSUME Prompt = TRUE PROVE Spec => []OneOwner
<1>1. OwnerInv => OneOwner
  BY DEF OwnerInv, OneOwner, Recorded
<1>. QED
  BY <1>1, OwnerInvariant, PTL

-----------------------------------------------------------------------------
(* What a step does to the authority: nothing, removes it, or replaces it   *)
(* under a token never drawn before.                                        *)
LEMMA AuthorityStep ==
    ASSUME TypeOK, [Next]_vars
    PROVE  /\ tokens' \in Nat /\ tokens' >= tokens
           /\ \/ authority' = authority
              \/ authority' = NoAuthority
              \/ tokens' = tokens + 1 /\ authority'.token = tokens
<1>1. tokens \in Nat
  BY DEF TypeOK
<1>2. ASSUME NEW p \in Runtimes, WriteFirst(p)
      PROVE  tokens' = tokens + 1 /\ authority'.token = tokens
  BY <1>2, AuthorityTypes DEF WriteFirst, TypeOK
<1>3. ASSUME NEW u \in Publishers, Commit(u)
      PROVE  tokens' = tokens + 1 /\ authority'.token = tokens
  <2>1. reading[u].to \in Releases /\ reading[u].from \in Authority \union {NoAuthority}
    BY <1>3 DEF TypeOK, Commit
  <2>. QED  BY <1>3, <2>1, AuthorityTypes DEF Commit
<1>4. ASSUME NEW p \in Runtimes,
             \/ Start(p) \/ Create(p) \/ Write(p) \/ ReadOwner(p) \/ Rename(p)
             \/ Ensure(p) \/ Bind(p) \/ Stop(p) \/ ReadOwn(p) \/ Unlink(p) \/ Crash(p)
      PROVE  UNCHANGED <<authority, tokens>>
  BY <1>4 DEF Start, Create, Write, ReadOwner, Rename, Ensure, Bind, Stop, ReadOwn,
     Unlink, Crash
<1>5. ASSUME NEW u \in Publishers,
             \/ \E r \in Releases : BeginPublish(u, r)
             \/ BeginRollback(u) \/ BeginRevert(u) \/ GiveUp(u)
      PROVE  UNCHANGED <<authority, tokens>>
  BY <1>5 DEF BeginPublish, BeginRollback, BeginRevert, GiveUp
<1>6. ASSUME NEW u \in Publishers, CommitRevert(u)
      PROVE  authority' = NoAuthority /\ UNCHANGED tokens
  BY <1>6 DEF CommitRevert
<1>. QED
  BY <1>1, <1>2, <1>3, <1>4, <1>5, <1>6 DEF Next, vars

LEMMA FenceStep == FenceInv /\ [Next]_vars => FenceInv'
<1>. SUFFICES ASSUME FenceInv, [Next]_vars PROVE FenceInv'
  OBVIOUS
<1>0. TypeOK /\ TypeOK' /\ tokens \in Nat
  BY TypeStep DEF FenceInv, TypeOK
<1>1. /\ tokens' \in Nat /\ tokens' >= tokens
      /\ \/ authority' = authority
         \/ authority' = NoAuthority
         \/ tokens' = tokens + 1 /\ authority'.token = tokens
  BY <1>0, AuthorityStep
<1>2. (Has(authority) => authority.token < tokens)'
  <2>1. authority \in Authority => authority.token \in Nat
    BY DEF Authority
  <2>. QED  BY <1>0, <1>1, <2>1 DEF FenceInv, Has, TypeOK
<1>3. ASSUME NEW p \in Runtimes
      PROVE  ensured'[p] = ensured[p] \/ ensured'[p] = authority'
  BY <1>0 DEF Next, vars, TypeOK, Start, Create, Write, ReadOwner, Rename, Ensure,
     WriteFirst, Bind, Stop, ReadOwn, Unlink, Crash, BeginPublish, BeginRollback,
     BeginRevert, Commit, CommitRevert, GiveUp
<1>4. \A p \in Runtimes : (Has(ensured[p]) => ensured[p].token < tokens)'
  <2>1. \A p \in Runtimes : Has(ensured[p]) => ensured[p].token \in Nat
    BY <1>0 DEF TypeOK, Authority, Has
  <2>. QED  BY <1>0, <1>1, <1>2, <1>3, <2>1 DEF FenceInv, Has
<1>5. ASSUME NEW c \in claims', c \notin claims
      PROVE  /\ c.owner \in Runtimes /\ stage'[c.owner] = "serving"
             /\ Has(ensured[c.owner]) /\ c.token = ensured[c.owner].token
  <2>1. PICK p \in Runtimes : Bind(p)
    BY <1>5 DEF Next, vars, Start, Create, Write, ReadOwner, Rename, Ensure,
       WriteFirst, Stop, ReadOwn, Unlink, Crash, BeginPublish, BeginRollback,
       BeginRevert, Commit, CommitRevert, GiveUp
  <2>. QED  BY <1>0, <1>5, <2>1 DEF Bind, TypeOK
<1>6. \A c \in claims : c.owner \in Runtimes /\ c.token \in Nat
  BY <1>0 DEF TypeOK, WriteClaim
<1>7. (\A c \in claims : c.token < tokens)'
  <2>1. \A p \in Runtimes : Has(ensured[p]) => ensured[p].token \in Nat
    BY <1>0 DEF TypeOK, Authority, Has
  <2>. QED  BY <1>0, <1>1, <1>5, <1>6, <2>1 DEF FenceInv
<1>8. ASSUME NEW p \in Runtimes,
             stage[p] \notin {"off", "create", "write", "read", "rename"}
      PROVE  stage'[p] \notin {"off", "create", "write", "read", "rename"}
  BY <1>0, <1>8 DEF Next, vars, TypeOK, Start, Create, Write, ReadOwner, Rename,
     Ensure,
     WriteFirst, Bind, Stop, ReadOwn, Unlink, Crash, BeginPublish, BeginRollback,
     BeginRevert, Commit, CommitRevert, GiveUp
<1>9. (\A c \in claims :
         stage[c.owner] \notin {"off", "create", "write", "read", "rename"})'
  BY <1>5, <1>6, <1>8 DEF FenceInv
<1>. QED
  BY <1>0, <1>2, <1>4, <1>7, <1>9 DEF FenceInv

(* Tokens are drawn once, and a runtime that has bound a claim has written  *)
(* its owner record and never writes it again, whoever is disturbed.        *)
THEOREM FenceInvariant == Spec => []FenceInv
<1>1. Init => FenceInv
  BY DEF Init, FenceInv, TypeOK, Stages, Has
<1>2. FenceInv /\ [Next]_vars => FenceInv'
  BY FenceStep
<1>. QED
  BY <1>1, <1>2, PTL DEF Spec

(* A fenced claim is fenced for good: assertRuntimeMayWrite, once it has    *)
(* refused a claim, refuses it ever after, whatever takes the home over and *)
(* whatever is published, rolled back or reverted.                          *)
THEOREM FencedStaysFenced == Spec => FencedForGood
<1>1. FenceInv /\ [Next]_vars =>
        [\A c \in claims : ~MayWrite(c) => ~MayWrite(c)']_vars
  <2>. SUFFICES ASSUME FenceInv, [Next]_vars, NEW c \in claims, MayWrite(c)'
                PROVE  MayWrite(c)
    OBVIOUS
  <2>1. /\ c.owner \in Runtimes /\ c.token \in Nat /\ c.token < tokens /\ tokens \in Nat
        /\ stage[c.owner] \notin {"off", "create", "write", "read", "rename"}
    BY DEF FenceInv, TypeOK, WriteClaim
  <2>2. authority' = authority
    BY <2>1, AuthorityStep DEF MayWrite, Has, FenceInv
  <2>3. (Recorded(c.owner) /\ Alive(c.owner))' => Recorded(c.owner) /\ Alive(c.owner)
    <3>1. TypeOK
      BY DEF FenceInv
    <3>2. owner' = c.owner => owner = c.owner
      BY <2>1, <3>1, AbsentAssumption DEF Next, vars, TypeOK, Start, Create,
         Write, ReadOwner, Rename, Ensure, WriteFirst, Bind, Stop, ReadOwn, Unlink, Crash,
         BeginPublish, BeginRollback, BeginRevert, Commit, CommitRevert, GiveUp
    <3>3. c.owner \in written' => c.owner \in written
      BY <2>1, <3>1 DEF Next, vars, TypeOK, Start, Create,
         Write, ReadOwner, Rename, Ensure, WriteFirst, Bind, Stop, ReadOwn, Unlink, Crash,
         BeginPublish, BeginRollback, BeginRevert, Commit, CommitRevert, GiveUp
    <3>4. stage'[c.owner] \notin {"off", "stopped", "dead"} =>
            stage[c.owner] \notin {"off", "stopped", "dead"}
      BY <2>1, <3>1 DEF Next, vars, TypeOK, Start, Create,
         Write, ReadOwner, Rename, Ensure, WriteFirst, Bind, Stop, ReadOwn, Unlink, Crash,
         BeginPublish, BeginRollback, BeginRevert, Commit, CommitRevert, GiveUp
    <3>. QED  BY <3>2, <3>3, <3>4 DEF Recorded, Alive
  <2>. QED  BY <2>2, <2>3 DEF MayWrite, Has
<1>. QED
  BY <1>1, FenceInvariant, PTL DEF Spec, FencedForGood

-----------------------------------------------------------------------------
(* The claim bindRuntimeWriteClaim makes of what a runtime was given.       *)
ClaimOf(p) ==
    [owner |-> p, rev |-> ensured[p].rev, token |-> ensured[p].token, active |-> ensured[p].active]

ServingBound ==
    \A p \in Runtimes : stage[p] = "serving" => Has(ensured[p]) /\ ClaimOf(p) \in claims

LEMMA ServingStep == TypeOK /\ ServingBound /\ [Next]_vars => ServingBound'
<1>. SUFFICES ASSUME TypeOK, ServingBound, [Next]_vars, NEW q \in Runtimes, stage'[q] = "serving"
              PROVE  Has(ensured'[q]) /\ (ClaimOf(q) \in claims)'
  BY DEF ServingBound, Has
<1>1. ASSUME stage[q] = "serving", ensured'[q] = ensured[q], claims \subseteq claims'
      PROVE  Has(ensured'[q]) /\ (ClaimOf(q) \in claims)'
  BY <1>1 DEF ServingBound, Has, ClaimOf
<1>2. ASSUME NEW p \in Runtimes, Bind(p)
      PROVE  Has(ensured'[q]) /\ (ClaimOf(q) \in claims)'
  <2>1. /\ stage[p] = "bind" /\ stage' = [stage EXCEPT ![p] = "serving"]
        /\ claims' = claims \union {ClaimOf(p)} /\ ensured' = ensured
    BY <1>2 DEF Bind, ClaimOf
  <2>2. CASE q = p
    BY <2>1, <2>2 DEF TypeOK, Has, ClaimOf
  <2>3. CASE q # p
    BY <1>1, <2>1, <2>3 DEF TypeOK
  <2>. QED  BY <2>2, <2>3
<1>3. ASSUME NEW p \in Runtimes,
             \/ Start(p) \/ Create(p) \/ Write(p) \/ ReadOwner(p) \/ Rename(p)
             \/ Stop(p) \/ ReadOwn(p) \/ Unlink(p) \/ Crash(p)
      PROVE  stage[q] = "serving" /\ ensured' = ensured /\ claims' = claims
  BY <1>3 DEF TypeOK, Start, Create, Write, ReadOwner, Rename, Stop, ReadOwn, Unlink, Crash
<1>4. ASSUME NEW p \in Runtimes, Ensure(p) \/ WriteFirst(p)
      PROVE  stage[q] = "serving" /\ ensured'[q] = ensured[q] /\ claims' = claims
  <2>1. stage[p] \in {"ensure", "first"} /\ claims' = claims
    BY <1>4 DEF Ensure, WriteFirst
  <2>2. /\ stage'[p] # "serving"
        /\ q # p => stage'[q] = stage[q] /\ ensured'[q] = ensured[q]
    BY <1>4 DEF TypeOK, Ensure, WriteFirst
  <2>. QED  BY <2>1, <2>2
<1>5. ASSUME NEW u \in Publishers,
             \/ \E r \in Releases : BeginPublish(u, r)
             \/ BeginRollback(u) \/ BeginRevert(u)
             \/ Commit(u) \/ CommitRevert(u) \/ GiveUp(u)
      PROVE  stage' = stage /\ ensured' = ensured /\ claims' = claims
  BY <1>5 DEF BeginPublish, BeginRollback, BeginRevert, Commit, CommitRevert, GiveUp
<1>. QED
  BY <1>1, <1>2, <1>3, <1>4, <1>5 DEF Next, vars

(* The fence lets the rightful owner through and nobody else: while a       *)
(* runtime serves under the authority it was given, assertRuntimeMayWrite   *)
(* admits the claim it has bound and no other claim that was ever bound.    *)
THEOREM OwnerAloneWrites ==
    ASSUME Prompt = TRUE
    PROVE  Spec => [](\A p \in Runtimes : stage[p] = "serving" /\ authority = ensured[p]
                                            => {c \in claims : MayWrite(c)} = {ClaimOf(p)})
<1>1. OwnerInv /\ ServingBound =>
        \A p \in Runtimes : stage[p] = "serving" /\ authority = ensured[p]
                              => {c \in claims : MayWrite(c)} = {ClaimOf(p)}
  <2>. SUFFICES ASSUME OwnerInv, ServingBound,
                       NEW p \in Runtimes, stage[p] = "serving", authority = ensured[p]
                PROVE  {c \in claims : MayWrite(c)} = {ClaimOf(p)}
    OBVIOUS
  <2>1. Recorded(p) /\ Alive(p) /\ Has(authority) /\ ClaimOf(p) \in claims
    BY DEF OwnerInv, ServingBound, Owning, Alive
  <2>2. MayWrite(ClaimOf(p))
    BY <2>1 DEF MayWrite, ClaimOf
  <2>3. ASSUME NEW c \in claims, MayWrite(c) PROVE c = ClaimOf(p)
    <3>1. c \in WriteClaim
      BY DEF OwnerInv, TypeOK
    <3>2. /\ c.owner = p
          /\ c.rev = ensured[p].rev /\ c.token = ensured[p].token
          /\ c.active = ensured[p].active
      BY <2>1, <2>3 DEF MayWrite, Recorded
    <3>3. c = [owner |-> c.owner, rev |-> c.rev, token |-> c.token, active |-> c.active]
      BY <3>1 DEF WriteClaim
    <3>. QED  BY <3>2, <3>3 DEF ClaimOf
  <2>. QED  BY <2>1, <2>2, <2>3
<1>2. Init => ServingBound
  BY DEF Init, ServingBound
<1>3. OwnerInv => TypeOK
  BY DEF OwnerInv
<1>. QED
  BY <1>1, <1>2, <1>3, ServingStep, OwnerInvariant, PTL DEF Spec
=============================================================================
