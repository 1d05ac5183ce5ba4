---------------------------- MODULE WorkDelivery ----------------------------
(***************************************************************************)
(* How the change of one Work is checked, reviewed and delivered           *)
(* (src/runtime/control-plane/execution/work-operation-service.ts,         *)
(* work-validation-reconciler.ts and work-finalization-service.ts, and the *)
(* Work kernel under src/packages/kernel/work).                            *)
(*                                                                         *)
(* Two records are kept.  The contract says what the Work has reached, and *)
(* by what authority; the handle says what has been done to the worktree   *)
(* and to the branches.  Validation starts a process and settles its       *)
(* answer, in the request that started it or in a periodic sweep.          *)
(* Finalization commits, merges and cleans up, and writes a stage of the   *)
(* handle after each effect.  It does not yield, to other requests or to   *)
(* the scheduler of its process, but the worktree is edited, checks end    *)
(* and the process dies between any two of its effects.                    *)
(*                                                                         *)
(* One managed worktree, one check, a target nobody else moves.  A content *)
(* is the number of edits in it; base and target start at 0.               *)
(***************************************************************************)
EXTENDS Naturals, FiniteSets

CONSTANTS
    MaxMade,      \* bound on edits
    MaxChecks,    \* bound on the validations that are asked for
    MaxFaults,    \* bound on crashes, lost checks and commits by hand
    None

ASSUME DeliveryNumbers == {MaxMade, MaxChecks, MaxFaults} \subseteq Nat

VARIABLES
    contract, handle,
    indexed,      \* the sweep knows that the handle is validating
    tree,         \* content of the worktree, or None once it is removed
    head,         \* content of the branch, or None once it is deleted
    target,       \* content of the target branch
    process,      \* the process of the check, or None
    val,          \* the validateWork that waits for it, or None
    fin,          \* the finalizeWork under way, or None
    made, checks, faults,
    approved,     \* the contents a reviewer approved
    proven,       \* the contents a check passed for
    sneaked       \* a commit was made by hand as the branch was being merged

disk == <<tree, head, target>>
bounds == <<made, checks, faults>>
ghosts == <<approved, proven, sneaked>>
vars == <<contract, handle, indexed, disk, process, val, fin, bounds, ghosts>>

Versions == 0 .. MaxMade
Candidate == [head : Versions, tree : Versions]
Terminal == {"completed", "cancelled", "failed"}
Decisions == {"approved", "changes_required", "blocked"}
Review == [of : Candidate, decision : Decisions]
Contract ==
    [status : {"running", "blocked", "ready"} \union Terminal,
     live : BOOLEAN,        \* its dispatch is not terminal
     phase : {"implementation", "verification", "review", "delivery", "cleanup"},
     evidence : {"none", "partial", "valid", "stale", "failed"},
     review : Review \union {None},
     passed : SUBSET Candidate,   \* the candidates the check passed for
     receipt : BOOLEAN]
Stage == {"pending", "done", "skipped", "failed"}
ValidationRun == [of : Candidate, bound : BOOLEAN, resume : {"editing", "committed", "merged"}]
Handle ==
    [state : {"editing", "validating", "committed", "merged", "cleaned", "failed", "ending"},
     validation : Stage, commit : Stage, merge : Stage, worktree : Stage, branch : Stage,
     expected : Versions, run : ValidationRun \union {None},
     validated : Candidate \union {None}]
Process == [of : Candidate, result : {"running", "ok", "bad", "lost"}]
Wants == {{}, {"commit"}, {"cleanup"}, {"merge", "cleanup"}, {"commit", "merge", "cleanup"}}
Finalize == [wants : Wants, of : Candidate \union {None},
             at : {"check", "commit", "committing", "committed", "merge", "merging",
                   "merged", "tree", "removed", "branch", "deleted", "finish", "complete"}]

ASSUME DeliveryNone ==
    None \notin Versions \union Candidate \union Review \union ValidationRun \union Process

Init ==
    /\ contract = [status |-> "running", live |-> TRUE, phase |-> "implementation",
                   evidence |-> "none", review |-> None, passed |-> {}, receipt |-> FALSE]
    /\ handle = [state |-> "editing", validation |-> "pending", commit |-> "pending",
                 merge |-> "pending", worktree |-> "pending", branch |-> "pending",
                 expected |-> 0, run |-> None, validated |-> None]
    /\ indexed = FALSE
    /\ tree = 0 /\ head = 0 /\ target = 0
    /\ process = None /\ val = None /\ fin = None
    /\ made = 0 /\ checks = 0 /\ faults = 0
    /\ approved = {} /\ proven = {} /\ sneaked = FALSE

-----------------------------------------------------------------------------
Fault == faults < MaxFaults /\ faults' = faults + 1

Current == [head |-> head, tree |-> tree]
Clean == tree = head

(* validateWorkSemanticTransition: a terminal dispatch stays so, but for a  *)
(* failed Work that goes on; what has a receipt stays completed.            *)
(* Mutant: a receipt is no obstacle.                                        *)
MutMayTurn(c, status) ==
    c.live \/ status \in Terminal \union {"ready"} \/ c.status = "failed"

MayTurn(c, status) ==
    /\ ~c.receipt
    /\ c.live \/ status \in Terminal \union {"ready"} \/ c.status = "failed"

(* transitionWorkContractPhase, and dispatchStateForStatusUpdate            *)
Turn(c, phase, status) ==
    [c EXCEPT !.phase = phase, !.status = status,
              !.live = IF status = "ready" THEN @ ELSE status \notin Terminal]

(* writeWorkHandle, and updateValidationIndexMembership after it: somebody  *)
(* else's validateWork has an outdated revision from now on.                *)
Outdated == IF val = None THEN None ELSE [val EXCEPT !.fresh = FALSE]
Pending(h) == h.state = "validating" /\ h.run # None
Wrote(h) == handle' = h /\ indexed' = Pending(h)

(* markWorkValidationPending                                                *)
Rearmed(c) ==
    IF c.receipt THEN c
    ELSE [c EXCEPT !.evidence = IF @ \in {"valid", "stale"} THEN "stale" ELSE "partial"]

Approves(c, candidate) ==
    c.review # None /\ c.review.decision = "approved" /\ c.review.of = candidate

(* assertPhysicalImplementationReviewGate: the last review approved exactly *)
(* this, and the check has passed for exactly this.                         *)
(* Mutant: that there is an approved review is enough.                      *)
MutGate(candidate) ==
    /\ candidate \in contract.passed
    /\ contract.review # None /\ contract.review.decision = "approved"

Gate(candidate) ==
    /\ candidate \in contract.passed
    /\ Approves(contract, candidate)

-----------------------------------------------------------------------------
(* The agent's commands: they edit, and they may commit, in which case the  *)
(* handle learns of the new head or does not.                               *)
Edit ==
    /\ tree # None /\ made < MaxMade
    /\ made' = made + 1 /\ tree' = made + 1
    /\ UNCHANGED <<contract, handle, indexed, head, target, process, val, fin, checks, faults, ghosts>>

HandCommit ==
    /\ Fault
    /\ tree # None /\ tree # head
    /\ head' = tree
    /\ sneaked' = (sneaked \/ (fin # None /\ fin.at = "merging"))
    /\ \/ UNCHANGED <<handle, indexed, val>>
       \/ /\ handle.state = "editing" /\ fin = None
          /\ Wrote([handle EXCEPT !.expected = tree])
          /\ val' = Outdated
    /\ UNCHANGED <<contract, tree, target, process, fin, made, checks, approved, proven>>

-----------------------------------------------------------------------------
(* projectWorkValidationOutcome.  Where the contract may not turn, it       *)
(* throws, when the handle has been written already.                        *)
Authoritative(c, candidate) ==
    \/ c.phase = "review" /\ c.evidence = "valid"
    \/ /\ c.phase = "delivery"
       /\ c.evidence \notin {"stale", "partial"} \/ Approves(c, candidate)

Projected(c, result, candidate) ==
    IF c.receipt THEN c
    ELSE IF result = "ok" /\ Authoritative(c, candidate)
    THEN IF c.phase = "delivery" /\ Approves(c, candidate) THEN [c EXCEPT !.evidence = "valid"] ELSE c
    ELSE IF result = "bad" THEN [Turn(c, "cleanup", "failed") EXCEPT !.evidence = "failed"]
    ELSE IF ~MayTurn(c, "running") THEN c
    ELSE IF result = "ok" THEN [Turn(c, "review", "running") EXCEPT !.evidence = "valid"]
    ELSE Rearmed(Turn(c, "verification", "running"))

Answered(h, result) ==
    [h EXCEPT !.state = IF result = "ok" THEN h.run.resume ELSE "failed",
              !.validation = IF result = "ok" THEN "done" ELSE "failed",
              !.validated = IF result = "ok" THEN h.run.of ELSE @,
              !.run = None]

(* The handle is written first, the contract second, and a crash may come   *)
(* between the two.                                                         *)
Settle(h, c, result, candidate) ==
    /\ Wrote(Answered(h, result))
    /\ \/ contract' = Projected(c, result, candidate) /\ UNCHANGED faults
       \/ contract' = c /\ Fault

(* validateWorkHandle: the worktree is there, on the branch, and the branch *)
(* has what the handle expects.                                             *)
HandleValid == tree # None /\ head # None /\ head >= handle.expected

(* terminalCleanupOutcome                                                   *)
Ended == contract.status \in Terminal \/ handle.state = "ending"

(* validateWork up to its await.  A Work that has ended is cleaned up       *)
(* instead, unless the request says not to.  With a record of a pass for    *)
(* the very candidate nothing is run.                                       *)
StartedRun ==
    IF handle.run # None /\ handle.run.of = Current THEN handle.run
    ELSE [of |-> Current, bound |-> FALSE,
          resume |-> IF handle.state \in {"committed", "merged"} THEN handle.state ELSE "editing"]

Started == [handle EXCEPT !.state = "validating", !.validation = "pending", !.run = StartedRun]

ValidateStart ==
    /\ val = None /\ fin = None
    /\ checks < MaxChecks /\ checks' = checks + 1
    /\ handle.state \in {"editing", "validating", "committed", "failed"}
    /\ HandleValid
    /\ LET running == StartedRun.bound /\ process # None /\ process.result = "running"
       IN \/ /\ Current \in contract.passed
             /\ Settle(Started, [contract EXCEPT !.evidence = IF contract.receipt THEN @ ELSE "valid"],
                       "ok", Current)
             /\ UNCHANGED <<process, val>>
          \/ /\ Current \notin contract.passed /\ ~running
             /\ Wrote(Started)
             /\ contract' = Rearmed(contract)
             /\ process' = IF process # None /\ process.of = Current /\ process.result \in {"running", "ok"}
                           THEN process ELSE [of |-> Current, result |-> "running"]
             /\ val' = [fresh |-> TRUE, of |-> Current]
             /\ UNCHANGED faults
          \/ /\ Current \notin contract.passed /\ running
             /\ Wrote(Started)
             /\ contract' = Rearmed(contract)
             /\ UNCHANGED <<process, val, faults>>
          \/ /\ Fault                       \* before the index is written
             /\ handle' = Started
             /\ UNCHANGED <<contract, indexed, process, val>>
    /\ UNCHANGED <<disk, fin, made, ghosts>>

ProcessEnds ==
    /\ process # None /\ process.result = "running"
    /\ \E result \in {"ok", "bad", "lost"} :
          /\ process' = [process EXCEPT !.result = result]
          /\ proven' = IF result = "ok" THEN proven \union {process.of.tree} ELSE proven
          /\ IF result = "lost" THEN Fault ELSE UNCHANGED faults
    /\ UNCHANGED <<contract, handle, indexed, disk, val, fin, made, checks, approved, sneaked>>

(* validateWork after its await: it binds the process to the run of the     *)
(* handle it wrote, and settles the answer if there is one.                 *)
ValidateReturn ==
    /\ val # None /\ fin = None
    /\ val' = None
    /\ LET bound == [handle EXCEPT !.run.bound = TRUE]
           result == process.result
           record == IF result = "ok" THEN [contract EXCEPT !.passed = @ \union {val.of}] ELSE contract
       IN \/ /\ ~val.fresh
             /\ UNCHANGED <<contract, handle, indexed, faults>>
          \/ /\ val.fresh /\ result = "running"
             /\ Wrote(bound)
             /\ UNCHANGED <<contract, faults>>
          \/ /\ val.fresh /\ result # "running"
             /\ Settle(bound, record, result, val.of)
          \/ /\ val.fresh /\ result # "running" /\ Fault
             /\ Wrote(bound)
             /\ contract' \in {contract, record}
    /\ UNCHANGED <<disk, process, fin, made, checks, ghosts>>

(* reconcilePendingWorkValidations, by the scheduler: no record of the      *)
(* answer is made.                                                          *)
Swept ==
    /\ fin = None
    /\ indexed /\ Pending(handle) /\ handle.run.bound
    /\ process # None /\ process.result # "running"

(* Mutant: only what a request waits for is settled.                        *)
MutSweep ==
    /\ Swept /\ val # None
    /\ Settle(handle, contract, process.result, None)
    /\ val' = Outdated
    /\ UNCHANGED <<disk, process, fin, made, checks, ghosts>>

Sweep ==
    /\ Swept
    /\ Settle(handle, contract, process.result, None)
    /\ val' = Outdated
    /\ UNCHANGED <<disk, process, fin, made, checks, ghosts>>

-----------------------------------------------------------------------------
(* reviewGoalWorkloop: the candidate as it is now, which the check must     *)
(* have passed for.                                                         *)
DecideReview(decision) ==
    /\ fin = None
    /\ contract.status \notin Terminal /\ contract.phase = "review"
    /\ tree # None /\ Current \in contract.passed
    /\ LET next == CASE decision = "approved" -> Turn(contract, "delivery", "running")
                     [] decision = "changes_required" -> Turn(contract, "implementation", "running")
                     [] decision = "blocked" -> Turn(contract, "review", "blocked")
       IN /\ MayTurn(contract, next.status)
          /\ contract' = [next EXCEPT !.review = [of |-> Current, decision |-> decision]]
    /\ approved' = IF decision = "approved" THEN approved \union {tree} ELSE approved
    /\ UNCHANGED <<handle, indexed, disk, process, val, fin, bounds, proven, sneaked>>

(* finalizeGoalWorkloop: what the contract says of a Work that has no       *)
(* receipt is brought in line with the candidate.                           *)
Judge ==
    /\ fin = None
    /\ contract.status # "cancelled" /\ ~contract.receipt
    /\ tree # None
    /\ \/ /\ Current \notin contract.passed
          /\ MayTurn(contract, "running")
          /\ contract' = Turn(contract, "verification", "running")
       \/ /\ Current \in contract.passed /\ ~Approves(contract, Current)
          /\ MayTurn(contract, "running")
          /\ contract' = Turn(contract, "review", "running")
       \/ /\ Gate(Current)
          /\ contract' = Turn(contract, "cleanup", "failed")       \* forceFailed
       \/ /\ Gate(Current) /\ contract.phase = "delivery"
          /\ contract' = Turn(contract, "delivery", "ready")
    /\ UNCHANGED <<handle, indexed, disk, process, val, fin, bounds, ghosts>>

(* stopGoalWorkloop                                                         *)
Stop ==
    /\ fin = None
    /\ MayTurn(contract, "cancelled")
    /\ contract' = Turn(contract, "cleanup", "cancelled")
    /\ UNCHANGED <<handle, indexed, disk, process, val, fin, bounds, ghosts>>

(* cleanupTerminalWork, at the end of which the WorkCleanup module stands:  *)
(* its processes are stopped and its worktree and its branch are gone.      *)
Cleanup ==
    /\ fin = None
    /\ Ended /\ handle.state # "cleaned"
    /\ tree' = None /\ head' = None
    /\ process' = IF process # None /\ process.result = "running"
                  THEN [process EXCEPT !.result = "lost"] ELSE process
    /\ Wrote([handle EXCEPT !.state = "cleaned"])
    /\ val' = Outdated
    /\ UNCHANGED <<contract, target, fin, bounds, ghosts>>

-----------------------------------------------------------------------------
At(place) == fin # None /\ fin.at = place
Go(place) == fin' = [fin EXCEPT !.at = place]
Quit == fin' = None
Wanted(stage) == fin # None /\ stage \in fin.wants

(* failStage                                                                *)
RetryPhase(stage) == IF stage \in {"commit", "merge"} THEN "delivery" ELSE "cleanup"

FailStage(stage) ==
    /\ Wrote([handle EXCEPT !.state = "failed", ![stage] = "failed"])
    /\ val' = Outdated
    /\ contract' =
          IF contract.receipt THEN contract
          ELSE IF stage = "validation" THEN Turn(contract, "cleanup", "failed")
          ELSE IF MayTurn(contract, "blocked")
                  /\ (RetryPhase(stage) = "delivery" => contract.phase = "delivery")
               THEN Turn(contract, RetryPhase(stage), "blocked")
               ELSE contract
    /\ Quit

(* requestedFailedFinalizationRetry                                         *)
RetryStage(wants) ==
    IF handle.state # "failed" \/ handle.validation = "failed" THEN None
    ELSE IF "commit" \in wants /\ handle.commit = "failed" THEN "commit"
    ELSE IF "merge" \in wants /\ handle.merge = "failed" THEN "merge"
    ELSE IF "cleanup" \in wants /\ handle.worktree = "failed" THEN "worktree"
    ELSE IF "cleanup" \in wants /\ handle.branch = "failed" THEN "branch"
    ELSE None

(* resetFinalizationStagesForRequest, and retryHandleStateForFinalization   *)
Reset(h, wants) ==
    LET again(stage, on) == IF on /\ h[stage] = "failed" THEN "pending" ELSE h[stage]
    IN [h EXCEPT
          !.validation = again("validation", TRUE),
          !.commit = again("commit", "commit" \in wants),
          !.merge = again("merge", "merge" \in wants),
          !.worktree = again("worktree", "cleanup" \in wants),
          !.branch = again("branch", "cleanup" \in wants),
          !.state = IF @ # "failed" THEN @
                    ELSE IF h.merge = "done" THEN "merged"
                    ELSE IF h.commit = "done" THEN "committed" ELSE "validating"]

(* finalizeWork up to its first write                                       *)
FinalizeBegin(wants) ==
    /\ fin = None
    /\ handle.state # "cleaned"
    /\ LET stage == RetryStage(wants)
           retried == stage # None /\ contract.status = "failed"
       IN /\ retried => RetryPhase(stage) = "cleanup"
          /\ retried \/ ~Ended
          /\ contract' = IF retried THEN Turn(contract, "cleanup", "running") ELSE contract
          /\ ~(handle.state = "failed" /\ wants = {"cleanup"} /\ stage = None)
          /\ Wrote(Reset(handle, wants))
          /\ val' = Outdated
          /\ fin' = [wants |-> wants, of |-> None, at |-> "check"]
    /\ UNCHANGED <<disk, process, bounds, ghosts>>

(* The cleanup of a failed handle whose Work has not ended: nothing was     *)
(* changed, or the target has it.                                           *)
FailedCleanup ==
    /\ fin = None /\ ~Ended
    /\ handle.state = "failed" /\ RetryStage({"cleanup"}) = None
    /\ tree # None /\ Clean /\ head = handle.expected /\ head <= target
    /\ tree' = None /\ head' = None
    /\ Wrote([handle EXCEPT !.state = "cleaned", !.validation = "failed", !.worktree = "done",
                            !.branch = "done",
                            !.commit = IF @ = "pending" THEN "skipped" ELSE @,
                            !.merge = IF @ = "pending" THEN "skipped" ELSE @])
    /\ val' = Outdated
    /\ UNCHANGED <<contract, target, process, fin, bounds, ghosts>>

(* inspectCleanupOnlyMergedHead                                             *)
Contained ==
    IF tree # None
    THEN head # None /\ head <= target /\ Clean /\ head = handle.expected
    ELSE /\ handle.worktree = "done"
         /\ handle.state = "merged" \/ handle.merge = "done"
         /\ IF head # None THEN head <= target
            ELSE handle.branch = "done" /\ handle.expected <= target

(* hasCurrentWorkValidationAuthority                                        *)
Authority == /\ handle.validation = "done" /\ handle.validated = Current
             /\ contract.evidence = "valid"

FinalizeCheck ==
    /\ At("check")
    /\ LET cleanupOnly == fin.wants = {"cleanup"}
           Refuse == Quit /\ UNCHANGED <<contract, handle, indexed, val>>
       IN \/ /\ cleanupOnly /\ Contained
             /\ Wrote([handle EXCEPT !.state = "merged", !.validation = "done", !.merge = "done",
                                     !.commit = IF @ = "done" THEN @ ELSE "skipped",
                                     !.branch = IF @ = "done" THEN @ ELSE "pending"])
             /\ val' = Outdated
             /\ Go("tree")
             /\ UNCHANGED contract
          \/ /\ cleanupOnly /\ ~Contained /\ handle.state # "merged"
             /\ Refuse
          \/ /\ cleanupOnly => ~Contained /\ handle.state = "merged"
             /\ ~HandleValid
             /\ FailStage("validation")
          \/ /\ cleanupOnly => ~Contained /\ handle.state = "merged"
             /\ HandleValid
             /\ IF ~Authority
                THEN /\ Wrote([handle EXCEPT !.validation = "pending", !.validated = None])
                     /\ val' = Outdated
                     /\ contract' = Rearmed(contract)
                     /\ Quit
                ELSE IF "merge" \in fin.wants /\ ~Wanted("commit") /\ ~Clean THEN Refuse
                ELSE /\ IF Wanted("commit") /\ handle.commit = "done" /\ ~Clean
                        THEN /\ Wrote([handle EXCEPT !.state = "validating", !.commit = "pending",
                                                     !.merge = IF @ = "done" THEN "pending" ELSE @])
                             /\ val' = Outdated
                        ELSE UNCHANGED <<handle, indexed, val>>
                     /\ fin' = [fin EXCEPT !.at = "commit", !.of = Current]
                     /\ UNCHANGED contract
    /\ UNCHANGED <<disk, process, bounds, ghosts>>

(* The commit stage up to the commit.  What is committed is what was        *)
(* checked and reviewed, and then all of the worktree.                      *)
FinalizeCommit ==
    /\ At("commit")
    /\ \/ /\ Wanted("commit") /\ handle.commit = "pending"
          /\ IF ~HandleValid \/ Current # fin.of \/ ~Gate(Current)
             THEN Quit /\ UNCHANGED <<contract, handle, indexed, val>>
             ELSE IF Clean THEN FailStage("commit")
             ELSE Go("committing") /\ UNCHANGED <<contract, handle, indexed, val>>
       \/ /\ ~Wanted("commit") /\ handle.commit = "pending"
          /\ IF ~HandleValid THEN Quit /\ UNCHANGED <<handle, indexed, val>>
             ELSE /\ Wrote(IF Clean /\ head = handle.expected /\ head # 0
                           THEN [handle EXCEPT !.commit = "done", !.state = "committed"]
                           ELSE [handle EXCEPT !.commit = "skipped"])
                  /\ val' = Outdated
                  /\ Go("merge")
          /\ UNCHANGED contract
       \/ /\ handle.commit # "pending"
          /\ Go("merge")
          /\ UNCHANGED <<contract, handle, indexed, val>>
    /\ UNCHANGED <<disk, process, bounds, ghosts>>

Committing ==
    /\ At("committing")
    /\ head' = tree
    /\ Go("committed")
    /\ UNCHANGED <<contract, handle, indexed, tree, target, process, val, bounds, ghosts>>

(* Whether the files are still those that were reviewed decides whether the *)
(* check and the review count for the commit too.                           *)
(* Mutant: they always do.                                                  *)
MutCommitted ==
    /\ At("committed")
    /\ LET h == [handle EXCEPT !.state = "committed", !.expected = head, !.commit = "done",
                               !.validation = "done", !.validated = Current]
       IN /\ Wrote(h) /\ val' = Outdated
          /\ contract' = [contract EXCEPT !.passed = @ \union {Current},
                                          !.review = [of |-> Current, decision |-> "approved"]]
          /\ Go("merge")
          /\ UNCHANGED faults
    /\ UNCHANGED <<disk, process, made, checks, ghosts>>

Committed ==
    /\ At("committed")
    /\ LET kept == tree = fin.of.tree
           h == [handle EXCEPT !.state = "committed", !.expected = head, !.commit = "done",
                               !.validation = IF kept THEN "done" ELSE "pending",
                               !.validated = IF kept THEN Current ELSE None]
       IN /\ Wrote(h) /\ val' = Outdated
          /\ \/ /\ ~kept
                /\ contract' = Rearmed(contract)
                /\ Quit
                /\ UNCHANGED faults
             \/ /\ kept /\ contract.phase = "delivery"
                /\ contract' = [Turn(contract, "delivery", "running") EXCEPT
                                   !.passed = @ \union {Current},
                                   !.review = [of |-> Current, decision |-> "approved"]]
                /\ Go("merge")
                /\ UNCHANGED faults
             \/ /\ kept /\ contract.phase # "delivery"
                /\ contract' = [contract EXCEPT !.passed = @ \union {Current}]
                /\ Quit
                /\ UNCHANGED faults
             \/ /\ Fault
                /\ contract' = contract
                /\ Quit
    /\ UNCHANGED <<disk, process, made, checks, ghosts>>

(* The merge stage up to the merge.  A head the handle does not know is     *)
(* adopted, and must have been checked and reviewed like any other.         *)
FinalizeMerge ==
    /\ At("merge")
    /\ \/ /\ Wanted("merge") /\ handle.merge = "pending"
          /\ IF ~HandleValid THEN Quit /\ UNCHANGED <<handle, indexed, val>>
             ELSE /\ IF head # handle.expected
                     THEN Wrote([handle EXCEPT !.expected = head]) /\ val' = Outdated
                     ELSE UNCHANGED <<handle, indexed, val>>
                  /\ IF Gate(Current) THEN Go("merging") ELSE Quit
       \/ /\ ~Wanted("merge") /\ handle.merge = "pending"
          /\ Wrote([handle EXCEPT !.merge = "skipped", !.branch = "skipped"])
          /\ val' = Outdated
          /\ Go("tree")
       \/ /\ handle.merge # "pending"
          /\ Go("tree")
          /\ UNCHANGED <<handle, indexed, val>>
    /\ UNCHANGED <<contract, disk, process, bounds, ghosts>>

Merging ==
    /\ At("merging")
    /\ \/ /\ target' = IF head > target THEN head ELSE target
          /\ Go("merged")
          /\ UNCHANGED <<contract, handle, indexed, val, faults>>
       \/ /\ Fault
          /\ FailStage("merge")
          /\ UNCHANGED target
    /\ UNCHANGED <<tree, head, process, made, checks, ghosts>>

Merged ==
    /\ At("merged")
    /\ Wrote([handle EXCEPT !.state = "merged", !.merge = "done",
                            !.branch = IF Wanted("cleanup") THEN "pending" ELSE @])
    /\ val' = Outdated
    /\ Go("tree")
    /\ UNCHANGED <<contract, disk, process, bounds, ghosts>>

(* The cleanup of the worktree: git refuses a worktree that is not clean,   *)
(* and one that is gone counts as removed.                                  *)
FinalizeTree ==
    /\ At("tree")
    /\ \/ /\ Wanted("cleanup") /\ handle.worktree = "pending"
          /\ IF contract.status \notin {"cancelled", "failed"} /\ ~(tree # None /\ Gate(Current))
             THEN Quit /\ UNCHANGED <<contract, handle, indexed, val, tree>>
             ELSE IF tree # None /\ ~Clean
             THEN FailStage("worktree") /\ UNCHANGED tree
             ELSE tree' = None /\ Go("removed") /\ UNCHANGED <<contract, handle, indexed, val>>
       \/ /\ ~Wanted("cleanup") /\ handle.worktree = "pending"
          /\ Wrote([handle EXCEPT !.worktree = "skipped"]) /\ val' = Outdated
          /\ Go("branch")
          /\ UNCHANGED <<contract, tree>>
       \/ /\ handle.worktree # "pending"
          /\ Go("branch")
          /\ UNCHANGED <<contract, handle, indexed, val, tree>>
    /\ UNCHANGED <<head, target, process, bounds, ghosts>>

Removed ==
    /\ At("removed")
    /\ Wrote([handle EXCEPT !.worktree = "done"]) /\ val' = Outdated
    /\ Go("branch")
    /\ UNCHANGED <<contract, disk, process, bounds, ghosts>>

(* assertPhysicalBranchCleanupImplementationReviewGate, and git branch -d   *)
FinalizeBranch ==
    /\ At("branch")
    /\ LET reviewed == IF contract.review = None THEN None ELSE contract.review.of
       IN \/ /\ Wanted("cleanup") /\ handle.branch = "pending" /\ handle.merge = "done"
             /\ IF contract.status \notin {"cancelled", "failed"}
                   /\ ~(reviewed # None /\ reviewed.head = head /\ Gate(reviewed))
                THEN Quit /\ UNCHANGED <<contract, handle, indexed, val, head>>
                ELSE IF head = None \/ head > target \/ tree # None
                THEN FailStage("branch") /\ UNCHANGED head
                ELSE head' = None /\ Go("deleted") /\ UNCHANGED <<contract, handle, indexed, val>>
          \/ /\ ~(Wanted("cleanup") /\ handle.branch = "pending" /\ handle.merge = "done")
             /\ Go("finish")
             /\ UNCHANGED <<contract, handle, indexed, val, head>>
    /\ UNCHANGED <<tree, target, process, bounds, ghosts>>

Deleted ==
    /\ At("deleted")
    /\ Wrote([handle EXCEPT !.branch = "done"]) /\ val' = Outdated
    /\ Go("finish")
    /\ UNCHANGED <<contract, disk, process, bounds, ghosts>>

(* finalizationComplete, and the handle's last state                        *)
Complete == /\ handle.validation = "done"
            /\ \A stage \in {"commit", "merge", "worktree", "branch"} : handle[stage] \in {"done", "skipped"}

FinalState == IF handle.worktree = "done" THEN "cleaned"
              ELSE IF handle.merge = "done" THEN "merged"
              ELSE IF handle.commit = "done" THEN "committed" ELSE handle.state

FinalizeFinish ==
    /\ At("finish")
    /\ IF Complete /\ (FinalState = "cleaned" => handle.state \notin {"editing", "validating"})
       THEN Wrote([handle EXCEPT !.state = FinalState]) /\ val' = Outdated /\ Go("complete")
       ELSE Quit /\ UNCHANGED <<handle, indexed, val>>
    /\ UNCHANGED <<contract, disk, process, bounds, ghosts>>

(* recordWorkCompletionReceipt, when the target has what the handle expects *)
(* and the review phase was satisfied or left behind.                       *)
MayComplete(c) ==
    /\ handle.expected <= target
    /\ c.phase \in {"delivery", "cleanup"}

WithReceipt(c) == [Turn(c, "cleanup", "completed") EXCEPT !.evidence = "valid", !.receipt = TRUE]

FinalizeComplete ==
    /\ At("complete")
    /\ contract' = IF MayComplete(contract) /\ contract.status # "cancelled" /\ ~contract.receipt
                   THEN WithReceipt(contract) ELSE contract
    /\ Quit
    /\ UNCHANGED <<handle, indexed, disk, process, val, bounds, ghosts>>

(* cleanedCompletionRecovery: the handle was finished and the contract not. *)
RecoverCompletion ==
    /\ fin = None
    /\ handle.state = "cleaned" /\ Complete
    /\ contract.status \notin Terminal /\ contract.live
    /\ contract.phase \in {"verification", "review", "delivery"}
    /\ contract.review # None /\ contract.review.of.head = handle.expected
    /\ Gate(contract.review.of)
    /\ handle.expected <= target
    /\ contract' = WithReceipt(contract)
    /\ UNCHANGED <<handle, indexed, disk, process, val, fin, bounds, ghosts>>

(* The gateway dies, and with it the requests it was serving.               *)
Crash ==
    /\ Fault
    /\ val # None \/ fin # None
    /\ val' = None /\ fin' = None
    /\ UNCHANGED <<contract, handle, indexed, disk, process, made, checks, ghosts>>

-----------------------------------------------------------------------------
Finalizing == \/ FinalizeCheck \/ FinalizeCommit \/ Committing \/ Committed \/ FinalizeMerge
              \/ Merging \/ Merged \/ FinalizeTree \/ Removed \/ FinalizeBranch \/ Deleted
              \/ FinalizeFinish \/ FinalizeComplete

Next == \/ Edit \/ HandCommit
        \/ ValidateStart \/ ProcessEnds \/ ValidateReturn \/ Sweep
        \/ \E decision \in Decisions : DecideReview(decision)
        \/ Judge \/ Stop \/ Cleanup
        \/ \E wants \in Wants : FinalizeBegin(wants)
        \/ FailedCleanup \/ Finalizing \/ RecoverCompletion
        \/ Crash

(* A check ends, by its own time limit if need be.  Finalization goes on    *)
(* unless the process dies, and the event loop comes round to the           *)
(* scheduler, whatever requests come in between.                            *)
Fairness == WF_vars(ProcessEnds) /\ WF_vars(Finalizing) /\ SF_vars(Sweep)

Spec == Init /\ [][Next]_vars /\ Fairness
-----------------------------------------------------------------------------
TypeOK ==
    /\ contract \in Contract /\ handle \in Handle /\ indexed \in BOOLEAN
    /\ tree \in Versions \union {None} /\ head \in Versions \union {None} /\ target \in Versions
    /\ process \in Process \union {None}
    /\ val \in [fresh : BOOLEAN, of : Candidate] \union {None}
    /\ fin \in Finalize \union {None}
    /\ made \in Versions /\ checks \in 0 .. MaxChecks /\ faults \in 0 .. MaxFaults
    /\ approved \subseteq Versions /\ proven \subseteq Versions /\ sneaked \in BOOLEAN

(* What the records claim is so: a candidate the check is said to have      *)
(* passed for was checked, one said to be approved was approved, and        *)
(* finalization is under way with what passed and was approved.             *)
BooksTrue ==
    /\ \A c \in contract.passed : c.tree \in proven
    /\ contract.review # None /\ contract.review.decision = "approved"
          => contract.review.of.tree \in approved
    /\ process # None /\ process.result = "ok" => process.of.tree \in proven
    /\ val # None /\ val.fresh => process # None /\ process.of = val.of
    /\ fin # None /\ fin.at \in {"committing", "committed"}
          => fin.of # None /\ fin.of.tree \in approved \intersect proven
    /\ contract.receipt => contract.status = "completed" /\ contract.phase = "cleanup"

(* From its check to its merge a finalization has the worktree, and what it *)
(* is about to merge is in the branch, unless it was edited meanwhile: then *)
(* it is a content nobody has approved.                                     *)
Building == {"commit", "committing", "committed", "merge", "merging", "merged"}
Unmixed == tree = head \/ tree \notin approved

SkippedBefore == fin # None /\ "commit" \in fin.wants /\ handle.commit = "skipped"

UnderWay ==
    /\ tree # None => head # None /\ tree <= made
    /\ approved \subseteq 0 .. made
    /\ val # None /\ val.fresh => handle.run # None
    /\ fin # None =>
          /\ fin.at \in Building => tree # None
          /\ "commit" \in fin.wants =>
                /\ handle.commit # "failed"
                /\ fin.at = "merge" => handle.commit # "pending"
          /\ fin.at \in {"commit", "merge"} =>
                /\ "commit" \in fin.wants /\ handle.commit = "done" => Unmixed
                /\ "commit" \notin fin.wants /\ "merge" \in fin.wants => Unmixed
          /\ fin.at = "committed" => Unmixed
          /\ fin.at = "merging" /\ ~sneaked /\ ~SkippedBefore => head \in approved \intersect proven

RecordsInv == TypeOK /\ BooksTrue /\ UnderWay

(* Contents and heads only go forward, and no candidate on record has a     *)
(* head that the branch has not reached.                                    *)
OnRecord(c) ==
    \/ c \in contract.passed
    \/ contract.review # None /\ c = contract.review.of
    \/ handle.validated # None /\ c = handle.validated
    \/ handle.run # None /\ c = handle.run.of
    \/ val # None /\ c = val.of

Forward ==
    head # None =>
        /\ handle.expected <= head /\ target <= head
        /\ tree # None => head <= tree
        /\ \A c \in Candidate : OnRecord(c) => c.head <= head

(* What the stages say of each other, and of the place of a finalization.   *)
StagesAgree ==
    /\ handle.state = "merged" => handle.merge = "done"
    /\ handle.merge = "done" => handle.branch # "skipped"
    /\ handle.run # None => handle.run.resume # "merged"
    /\ val # None /\ val.fresh => handle.state = "validating"
    /\ fin # None =>
          /\ contract.status \notin Terminal
          /\ fin.at \in {"merging", "merged"} => "merge" \in fin.wants /\ handle.merge = "pending"
          /\ fin.at = "complete" => Complete

(* A merge that took more than it was to take, because of a commit made in  *)
(* its midst: nothing on record knows of that head, so that neither the     *)
(* worktree nor the branch is removed.                                      *)
NewHead == \A c \in Candidate : OnRecord(c) => c.head # head

MergedMore ==
    /\ fin # None /\ fin.at \in {"merging", "merged"} /\ handle.expected # head => NewHead
    /\ handle.merge = "done" /\ tree # None /\ head = target /\ handle.expected # head =>
          /\ handle.state = "merged" /\ NewHead
          /\ fin # None => \/ fin.at = "check"
                           \/ /\ fin.at \in {"tree", "branch"}
                              /\ "cleanup" \in fin.wants /\ handle.branch = "pending"

(* What a branch without worktree has, and what a deleted branch had.  The  *)
(* cleanup of a failed handle is the other way to delete a branch: it ends  *)
(* with a check that failed, with which nothing is completed.               *)
Delivered == handle.expected <= target /\ handle.expected \in approved

BranchHad ==
    /\ tree = None /\ head # None /\ head <= target /\ handle.merge = "done" =>
          handle.expected = head /\ head \in approved
    /\ fin # None /\ fin.at = "deleted" => head = None /\ Delivered
    /\ handle.branch = "done" =>
          /\ head = None
          /\ Delivered \/ (fin = None /\ handle.state = "cleaned" /\ handle.validation = "failed")
    /\ contract.receipt /\ handle.merge = "done" => head = None /\ Delivered

ReachInv == Forward /\ StagesAgree /\ MergedMore /\ BranchHad

(* The books of the Work are true (assertPhysicalImplementationReviewGate), *)
(* and branches, worktree and stages are such that what is completed was    *)
(* delivered (finalizationComplete).                                        *)
DeliveryInv == RecordsInv /\ ReachInv

(* A Work that has its completion receipt is never anything but completed   *)
(* again, however late a check, a sweep or a retry comes                    *)
(* (projectWorkValidationOutcome: "if (contract.completionReceipt) return").*)
CompletedForGood ==
    [][contract.receipt => contract'.receipt /\ contract'.status = "completed"]_vars

(* Nothing reaches the target branch that was not approved as it is and for *)
(* which the check did not pass as it is                                    *)
(* (assertPhysicalImplementationReviewGate: "The finalizer is an            *)
(* independent physical gate"), but for a commit made by hand in the midst  *)
(* of the merge, and for a commit that is wanted and was skipped before.    *)
DeliveryReviewed ==
    [][target' # target /\ ~sneaked /\ ~SkippedBefore
         => target' \in approved \intersect proven]_vars

(* A Work that says it was merged is completed only when the target has     *)
(* what it expects, and that was reviewed (completionReceiptForFinalizedWork*)
(* throws WORK_COMPLETION_RECEIPT_DELIVERY_NOT_PROVEN).                     *)
CompletedDelivered == contract.receipt /\ handle.merge = "done" => Delivered

(* A check that has a process is settled without anybody asking: in the     *)
(* sweep if not by the request that started it.                             *)
Bound == Pending(handle) /\ handle.run.bound

SettlesUnattended ==
    indexed /\ Bound ~> ~Bound

(* Whatever stages were asked for, a completed Work has delivered what was  *)
(* reviewed ("Delivery authority is always the Work's own revision").       *)
CompletedIsDelivered == contract.receipt => Delivered

(* A Work that was stopped does not run again unless it is resumed          *)
(* (work-contract-store.ts: "Generic mutation APIs intentionally cannot     *)
(* perform terminal -> running").                                           *)
StoppedStaysStopped ==
    [](contract.status = "cancelled" => [](contract.status # "running"))
=============================================================================
