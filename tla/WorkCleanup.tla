----------------------------- MODULE WorkCleanup -----------------------------
(***************************************************************************)
(* What becomes of the worktree and the branch of a Work that has ended    *)
(* (src/runtime/control-plane/execution/work-terminal-cleanup.ts).         *)
(*                                                                         *)
(* A cleanup reads the handle of the Work, waits for its processes to      *)
(* stop, and then archives, removes and deletes, persisting a receipt in   *)
(* the handle as it goes.  It is run by the periodic sweep, a process of   *)
(* its own, and by requests of the controller; it may die between any two  *)
(* steps, and it starts from the persisted receipt when it is run again.   *)
(*                                                                         *)
(* The files of the Work are one number, the number of edits they contain: *)
(* base is 0, and of two contents the larger one contains the smaller.     *)
(***************************************************************************)
EXTENDS Naturals, FiniteSets

CONSTANTS
    Sweeper,      \* the process of the periodic sweep
    Requesters,   \* requests for a cleanup that may be in flight
    MaxMade,      \* bound on edits
    MaxFaults,    \* bound on the things that go wrong or are done by hand
    MaxAsked,     \* bound on the cleanups that are requested
    None

Cleaners == Requesters \union {Sweeper}

ASSUME CleanupSweeper == Sweeper \notin Requesters
ASSUME CleanupNumbers == {MaxMade, MaxFaults, MaxAsked} \subseteq Nat

VARIABLES
    contract,     \* status of the Work
    handle,       \* the durable handle, with the receipt of its cleanup
    tree,         \* content of the worktree, or None once it is removed
    branch,       \* content of the branch, or None once it is deleted
    target,       \* the content the target branch has
    picked,       \* it got there by other commits than those of the branch
    bundle,       \* content of branch.bundle, or None
    patch,        \* worktree.patch.json: its base and its content, or None
    registered,   \* the checkout is in the registry
    made,         \* edits so far
    resuming,     \* the resume between its two writes, or None
    run,          \* the cleanups in flight
    faults, asked,
    intact        \* no edit after the end, no archived Work brought back, and
                  \* every proof was about the commit the branch is at

artifacts == <<target, picked, bundle, patch>>
disk == <<tree, branch, artifacts, registered>>
ghosts == <<made, intact>>
vars == <<contract, handle, disk, ghosts, resuming, run, faults, asked>>

Versions == 0 .. MaxMade
Ended == {"completed", "cancelled", "failed"}
Receipt == [outcome : {"blocked", "other"}, checkpoint : Versions \union {None},
            patched : BOOLEAN, kept : {"no", "bundle", "retired"},
            archived : BOOLEAN, complete : BOOLEAN]
Handle == [state : {"open", "committed", "merged", "ending", "cleaned"},
           head : Versions, commit : BOOLEAN, merge : {"pending", "done", "failed"},
           retained : BOOLEAN, receipt : Receipt \union {None}]
Run == [at : {"settle", "preserve", "preserved", "archive", "archived", "remove",
              "unregister", "delete", "finish", "release"},
        receipt : Receipt, landed : BOOLEAN,
        unique : BOOLEAN,     \* the branch has commits the target has not
        blocked : BOOLEAN, fresh : BOOLEAN]  \* nobody wrote the handle since
Patch == [base : Versions, content : Versions]

ASSUME CleanupNone ==
    None \notin Versions \union Receipt \union Run \union Patch \union {"cancelled", "archived"}

Init ==
    /\ contract = "running"
    /\ handle = [state |-> "open", head |-> 0, commit |-> FALSE, merge |-> "pending",
                 retained |-> FALSE, receipt |-> None]
    /\ tree = 0 /\ branch = 0 /\ target = 0 /\ picked = FALSE
    /\ bundle = None /\ patch = None /\ registered = TRUE
    /\ made = 0 /\ intact = TRUE
    /\ resuming = None
    /\ run = [c \in Cleaners |-> None]
    /\ faults = 0 /\ asked = 0

-----------------------------------------------------------------------------
Fault == faults < MaxFaults /\ faults' = faults + 1

(* writeWorkHandle carries the revision the handle was read at: it refuses  *)
(* to write over what somebody else has written since.                      *)
Outdated == [c \in Cleaners |-> IF run[c] = None THEN None ELSE [run[c] EXCEPT !.fresh = FALSE]]

Save(c, h, r) ==
    /\ run[c].fresh
    /\ handle' = h
    /\ run' = [Outdated EXCEPT ![c] = r]

At(c, place) == run[c] # None /\ run[c].at = place
Go(c, place) == run' = [run EXCEPT ![c].at = place]
With(h, r) == [h EXCEPT !.receipt = r]
Quit(c) == run' = [run EXCEPT ![c] = None]

-----------------------------------------------------------------------------
(* What happens to the Work before it ends; another module's concern, and   *)
(* here no more than what it does to the files and to the handle.           *)
Unended == handle.state \in {"open", "committed"}
Working == contract \in {"running", "blocked"} /\ Unended

Edit ==
    /\ Working
    /\ tree # None /\ made < MaxMade
    /\ made' = made + 1 /\ tree' = made + 1
    /\ UNCHANGED <<contract, handle, branch, artifacts, registered, intact, resuming, run, faults, asked>>

Commit ==
    /\ Working /\ tree # None
    /\ branch' = tree
    /\ contract' = "running"
    /\ handle' = [handle EXCEPT !.state = "committed", !.head = tree, !.commit = TRUE]
    /\ run' = Outdated
    /\ UNCHANGED <<tree, artifacts, registered, ghosts, resuming, faults, asked>>

(* A commit by a command that failed, or by hand: settleWorkHead records    *)
(* the new head for commands that succeed and for no others.                *)
CommitUnseen ==
    /\ Fault
    /\ Working /\ tree # None /\ tree # branch
    /\ branch' = tree
    /\ UNCHANGED <<contract, handle, tree, artifacts, registered, ghosts, resuming, run, asked>>

Deliver ==
    /\ Working /\ handle.commit
    /\ tree = branch /\ branch = handle.head
    /\ target' = IF branch > target THEN branch ELSE target
    /\ picked' = FALSE
    /\ contract' = "running"
    /\ handle' = [handle EXCEPT !.state = "merged", !.merge = "done"]
    /\ run' = Outdated
    /\ UNCHANGED <<tree, branch, bundle, patch, registered, ghosts, resuming, faults, asked>>

(* Somebody cherry-picks the commits of the branch.                         *)
CherryPick ==
    /\ Fault
    /\ branch # None /\ branch > target
    /\ target' = branch /\ picked' = TRUE
    /\ UNCHANGED <<contract, handle, tree, branch, bundle, patch, registered, ghosts, resuming, run, asked>>

MergeFails ==
    /\ Working /\ handle.commit /\ handle.merge # "done"
    /\ tree = branch /\ branch = handle.head
    /\ contract' = "blocked"
    /\ handle' = [handle EXCEPT !.state = "open", !.merge = "failed"]
    /\ run' = Outdated
    /\ UNCHANGED <<disk, ghosts, resuming, faults, asked>>

(* A delivered Work whose own cleanup failed has a failed handle.           *)
CleanupStageFails ==
    /\ contract = "running" /\ handle.state = "merged"
    /\ contract' = "blocked"
    /\ handle' = [handle EXCEPT !.state = "open"]
    /\ run' = Outdated
    /\ UNCHANGED <<disk, ghosts, resuming, faults, asked>>

End(status) ==
    /\ contract \in {"running", "blocked"}
    /\ status = "completed" => handle.merge = "done"
    /\ contract' = status
    /\ UNCHANGED <<handle, disk, ghosts, resuming, run, faults, asked>>

(* validateWork, when it was asked to leave the resources alone: the checks  *)
(* of a failed Work pass at another attempt, and the Work goes on.          *)
Revalidate ==
    /\ contract = "failed" /\ Unended
    /\ tree # None
    /\ contract' = "running"
    /\ run' = Outdated
    /\ UNCHANGED <<handle, disk, ghosts, resuming, faults, asked>>

LateEdit ==
    /\ Fault
    /\ contract \in Ended \/ handle.state = "ending"
    /\ tree # None /\ made < MaxMade
    /\ made' = made + 1 /\ tree' = made + 1
    /\ intact' = FALSE
    /\ UNCHANGED <<contract, handle, branch, artifacts, registered, resuming, run, asked>>

(* finalizeWork of an ended Work with cleanup refused.                      *)
Retain ==
    /\ contract \in Ended /\ ~handle.retained
    /\ handle' = [handle EXCEPT !.retained = TRUE]
    /\ run' = Outdated
    /\ UNCHANGED <<contract, disk, ghosts, resuming, faults, asked>>

(* reauthorizeRetainedCancelledRepositoryWork: the handle is written first, *)
(* the contract second.  Requests are served by one process, one at a time. *)
(* Mutant: a cleanup under way is no reason to refuse.                      *)
MutResume ==
    /\ contract = "cancelled" /\ tree # None /\ registered
    /\ run' = Outdated
    /\ resuming' = "cancelled"
    /\ UNCHANGED <<contract, handle, disk, ghosts, faults, asked>>

Resume ==
    /\ contract = "cancelled" /\ tree # None /\ registered
    /\ handle.state = "open" /\ ~handle.commit /\ handle.merge # "done"
    /\ run' = Outdated
    /\ resuming' = "cancelled"
    /\ UNCHANGED <<contract, handle, disk, ghosts, faults, asked>>

(* restoreArchivedBlockedDeliveryCheckout: a new worktree and a new branch  *)
(* at the commit in the bundle, which must be the one the handle expects.   *)
(* A cleanup still in flight is about the old ones, which are gone: nothing *)
(* it does from here on changes anything.                                   *)
Rehydrate ==
    /\ contract = "blocked" /\ handle.state = "cleaned"
    /\ handle.receipt.outcome = "blocked"
    /\ handle.receipt.complete /\ handle.receipt.archived
    /\ handle.commit /\ handle.merge = "failed"
    /\ bundle = handle.head /\ ~(target >= handle.head /\ ~picked)
    /\ contract' = "running"
    /\ tree' = handle.head /\ branch' = handle.head /\ registered' = TRUE
    /\ intact' = FALSE
    /\ run' = [c \in Cleaners |-> None]
    /\ resuming' = "archived"
    /\ UNCHANGED <<handle, artifacts, made, faults, asked>>

Resumed ==
    /\ resuming # None
    /\ resuming' = None
    /\ CASE resuming = "cancelled" ->
              contract' = "running" /\ UNCHANGED <<handle, run>>
         [] resuming = "archived" ->
              /\ handle' = [handle EXCEPT !.state = "open", !.merge = "pending", !.receipt = None]
              /\ run' = Outdated
              /\ UNCHANGED contract
    /\ UNCHANGED <<disk, ghosts, faults, asked>>

-----------------------------------------------------------------------------
NewReceipt == [outcome |-> IF contract = "blocked" THEN "blocked" ELSE "other",
               checkpoint |-> None, patched |-> FALSE, kept |-> "no",
               archived |-> FALSE, complete |-> FALSE]

Cleaned == handle.state = "cleaned" /\ handle.receipt # None /\ handle.receipt.complete

(* Mutant: only a Work whose handle says so has landed.                     *)
MutLanded == handle.state = "merged"
Landed == handle.state = "merged" \/ handle.merge = "done"

(* cleanupTerminalWork up to its await.  A cleaned handle has no way back   *)
(* to failed_terminal_cleanup, but for the delivered Work.                  *)
Begin(c) ==
    /\ run[c] = None
    /\ ~Cleaned
    /\ Landed \/ handle.state # "cleaned"
    /\ LET receipt == IF handle.receipt = None THEN NewReceipt ELSE handle.receipt
       IN /\ handle' = [handle EXCEPT !.state = IF Landed THEN "merged" ELSE "ending",
                                      !.merge = IF Landed THEN "done" ELSE @,
                                      !.receipt = receipt]
          /\ run' = [Outdated EXCEPT ![c] =
                [at |-> "settle", receipt |-> receipt, landed |-> Landed,
                 unique |-> FALSE, blocked |-> FALSE, fresh |-> TRUE]]
    /\ UNCHANGED <<contract, disk, ghosts, resuming, faults>>

(* reconcileTerminalWorkCleanups, in a process of its own, which the        *)
(* scheduler does not start twice.  It leaves alone what was written within *)
(* the last minute, and so a Work that is being resumed.                    *)
(* Mutant: whether the Work was retained is not looked at.                  *)
MutSweep ==
    /\ contract \in Ended /\ resuming = None
    /\ Begin(Sweeper)
    /\ UNCHANGED asked

(* Mutant: a Work that was in the way once is not tried again.              *)
MutSweepOnce ==
    /\ contract \in Ended /\ ~handle.retained /\ resuming = None
    /\ handle.receipt = None
    /\ Begin(Sweeper)
    /\ UNCHANGED asked

Sweep ==
    /\ contract \in Ended /\ ~handle.retained /\ resuming = None
    /\ Begin(Sweeper)
    /\ UNCHANGED asked

(* reconcileTerminalCleanup, when terminalCleanupOutcome has an answer: for *)
(* a blocked Work, when the word terminal is in the reason of its failure.  *)
Request(c) ==
    /\ resuming = None /\ asked < MaxAsked /\ asked' = asked + 1
    /\ \/ handle.receipt # None \/ contract \in Ended \/ handle.state = "ending"
       \/ contract = "blocked"
    /\ Begin(c)

(* The processes of the Work are gone; or one of them is there still, or a  *)
(* process of another Work is, or another Work lives in the worktree.       *)
Settle(c) ==
    /\ At(c, "settle")
    /\ \/ /\ Save(c, With(handle, run[c].receipt), [run[c] EXCEPT !.at = "preserve"])
          /\ UNCHANGED faults
       \/ /\ Fault
          /\ Save(c, With(handle, run[c].receipt), None)
    /\ UNCHANGED <<contract, disk, ghosts, resuming, asked>>

(* preserveDirtyWorktree: a commit, or a patch when there can be no commit  *)
(* or has been one already.  A patch that exists is not written again.      *)
Preserve(c) ==
    /\ At(c, "preserve")
    /\ LET r == run[c].receipt
           dirty == tree # None /\ tree # branch
           archive == IF patch = None THEN [base |-> branch, content |-> tree] ELSE patch
       IN \/ /\ ~dirty \/ (r.patched /\ r.checkpoint = None)
             /\ Go(c, "preserved")
             /\ UNCHANGED <<branch, patch, faults>>
          \/ /\ dirty /\ ~r.patched /\ r.checkpoint = None
             /\ branch' = tree
             /\ run' = [run EXCEPT ![c].at = "preserved", ![c].receipt.checkpoint = tree]
             /\ UNCHANGED <<patch, faults>>
          \/ /\ dirty
             /\ \/ r.checkpoint # None /\ UNCHANGED faults
                \/ r.checkpoint = None /\ ~r.patched /\ Fault
             /\ patch' = archive
             /\ run' = [run EXCEPT ![c].at = "preserved", ![c].receipt.patched = TRUE]
             /\ UNCHANGED branch
          \/ /\ Fault
             /\ run' = [run EXCEPT ![c].at = "preserved", ![c].blocked = TRUE]
             /\ UNCHANGED <<branch, patch>>
    /\ UNCHANGED <<contract, handle, tree, target, picked, bundle, registered, ghosts, resuming, asked>>

(* The head of a checkpoint is written to the handle with the receipt.      *)
Preserved(c) ==
    /\ At(c, "preserved")
    /\ LET r == run[c].receipt
           h == [handle EXCEPT !.receipt = r, !.head = IF r.checkpoint # None THEN r.checkpoint ELSE @]
       IN Save(c, h, IF run[c].blocked THEN None ELSE [run[c] EXCEPT !.at = "archive"])
    /\ UNCHANGED <<contract, disk, ghosts, resuming, faults, asked>>

Unique == branch # None /\ (branch > target \/ (picked /\ branch > 0))

(* proveWorkPreservationContained: the commit to protect changes nothing,   *)
(* or the target, here and at the remote, has what it changes.              *)
Protected(r) == IF r.checkpoint # None THEN r.checkpoint ELSE handle.head

Decided(c, kept) == run' = [run EXCEPT ![c].at = "archived", ![c].unique = Unique,
                                       ![c].receipt.kept = kept]

(* A bundle for the commits that only the branch has.                       *)
(* Mutant: a Work that is not delivered has nothing worth a bundle.         *)
MutArchive(c) ==
    /\ At(c, "archive")
    /\ run' = [run EXCEPT ![c].at = "archived", ![c].unique = Unique]
    /\ UNCHANGED <<contract, handle, disk, ghosts, resuming, faults, asked>>

Archive(c) ==
    /\ At(c, "archive")
    /\ LET r == run[c].receipt
           undecided == Unique /\ r.kept = "no"
       IN /\ \/ /\ ~undecided
                /\ Decided(c, r.kept)
                /\ UNCHANGED <<bundle, faults>>
             \/ /\ undecided /\ Protected(r) <= target
                /\ Decided(c, "retired")
                /\ UNCHANGED <<bundle, faults>>
             \/ /\ undecided /\ Protected(r) # 0
                /\ Decided(c, "bundle")
                /\ bundle' = IF bundle = None THEN branch ELSE bundle
                /\ UNCHANGED faults
             \/ /\ Unique /\ Fault
                /\ run' = [run EXCEPT ![c].at = "archived", ![c].blocked = TRUE]
                /\ UNCHANGED bundle
          /\ intact' = (intact /\ (undecided => Protected(r) = branch))
    /\ UNCHANGED <<contract, handle, tree, branch, target, picked, patch, registered, made,
                   resuming, asked>>

Archived(c) ==
    /\ At(c, "archived")
    /\ Save(c, With(handle, run[c].receipt),
            IF run[c].blocked THEN None ELSE [run[c] EXCEPT !.at = "remove"])
    /\ UNCHANGED <<contract, disk, ghosts, resuming, faults, asked>>

Remove(c) ==
    /\ At(c, "remove")
    /\ \/ /\ tree' = None
          /\ Go(c, "unregister")
          /\ UNCHANGED <<handle, faults>>
       \/ /\ tree # None /\ Fault
          /\ Save(c, With(handle, run[c].receipt), None)
          /\ UNCHANGED tree
    /\ UNCHANGED <<contract, branch, artifacts, registered, ghosts, resuming, asked>>

Unregister(c) ==
    /\ At(c, "unregister")
    /\ \/ /\ registered' = FALSE
          /\ Go(c, "delete")
          /\ UNCHANGED faults
       \/ /\ Fault
          /\ run' = [run EXCEPT ![c].at = "delete", ![c].blocked = TRUE]
          /\ UNCHANGED registered
    /\ UNCHANGED <<contract, handle, tree, branch, artifacts, ghosts, resuming, asked>>

Delete(c) ==
    /\ At(c, "delete")
    /\ \/ /\ branch = None
          /\ Go(c, "finish")
          /\ UNCHANGED <<branch, faults>>
       \/ /\ branch # None
          /\ branch' = None
          /\ run' = [run EXCEPT ![c].at = "finish", ![c].receipt.archived =
                                  run[c].unique /\ run[c].receipt.kept = "bundle"]
          /\ UNCHANGED faults
       \/ /\ branch # None /\ Fault
          /\ run' = [run EXCEPT ![c].at = "finish", ![c].blocked = TRUE]
          /\ UNCHANGED branch
    /\ UNCHANGED <<contract, handle, tree, artifacts, registered, ghosts, resuming, asked>>

Finish(c) ==
    /\ At(c, "finish")
    /\ LET r == [run[c].receipt EXCEPT !.complete = ~run[c].blocked]
           state == IF r.complete THEN "cleaned" ELSE IF run[c].landed THEN "merged" ELSE "ending"
       IN Save(c, [handle EXCEPT !.state = state, !.receipt = r],
               IF r.complete THEN [run[c] EXCEPT !.at = "release", !.receipt = r] ELSE None)
    /\ UNCHANGED <<contract, disk, ghosts, resuming, faults, asked>>

(* The controller of the Work is let go, unless somebody took over since it *)
(* was looked up: then the sweep takes its word back, and a request throws. *)
Release(c) ==
    /\ At(c, "release")
    /\ \/ /\ Save(c, With(handle, run[c].receipt), None)
          /\ UNCHANGED faults
       \/ /\ c = Sweeper /\ Fault
          /\ Save(c, With(handle, [run[c].receipt EXCEPT !.complete = FALSE]), None)
       \/ /\ c # Sweeper /\ Fault
          /\ Quit(c)
          /\ UNCHANGED handle
    /\ UNCHANGED <<contract, disk, ghosts, resuming, asked>>

(* CONTROL_PLANE_REVISION_CONFLICT                                          *)
Outrun(c) ==
    /\ run[c] # None /\ ~run[c].fresh
    /\ run[c].at \in {"settle", "preserved", "archived", "finish", "release"}
    /\ Quit(c)
    /\ UNCHANGED <<contract, handle, disk, ghosts, resuming, faults, asked>>

Crash ==
    /\ Fault
    /\ \E c \in Cleaners :
          run' = [d \in Cleaners |-> IF d = c THEN None ELSE run[d]]
    /\ resuming' = None
    /\ UNCHANGED <<contract, handle, disk, ghosts, asked>>

(* cleanupWorkPreservationArtifacts drops a bundle once its content is in   *)
(* the target, here and at the remote.                                      *)
Retire ==
    /\ Cleaned /\ handle.receipt.kept = "bundle" /\ bundle # None
    /\ Protected(handle.receipt) <= target
    /\ bundle' = None
    /\ handle' = [handle EXCEPT !.receipt.kept = "retired"]
    /\ run' = Outdated
    /\ UNCHANGED <<contract, tree, branch, target, picked, patch, registered, ghosts,
                   resuming, faults, asked>>

-----------------------------------------------------------------------------
Step(c) == \/ Settle(c) \/ Preserve(c) \/ Preserved(c) \/ Archive(c) \/ Archived(c)
           \/ Remove(c) \/ Unregister(c) \/ Delete(c) \/ Finish(c) \/ Release(c)
           \/ Outrun(c)

World == \/ Edit \/ Commit \/ CommitUnseen \/ Deliver \/ CherryPick \/ MergeFails
         \/ CleanupStageFails \/ (\E status \in Ended : End(status)) \/ LateEdit
         \/ Retain \/ Revalidate \/ Resume \/ Rehydrate \/ Resumed \/ Retire

Next == \/ World \/ Crash
        \/ Sweep
        \/ \E c \in Requesters : Request(c)
        \/ \E c \in Cleaners : Step(c)

(* The scheduler runs the sweep again and again, a process that is not      *)
(* killed goes on.                                                          *)
Fairness == /\ \A c \in Cleaners : WF_vars(Step(c))
            /\ WF_vars(Sweep)
            /\ WF_vars(Resumed)

Spec == Init /\ [][Next]_vars /\ Fairness

-----------------------------------------------------------------------------
TypeOK ==
    /\ contract \in {"running", "blocked"} \union Ended
    /\ handle \in Handle
    /\ tree \in Versions \union {None} /\ branch \in Versions \union {None}
    /\ target \in Versions /\ bundle \in Versions \union {None}
    /\ patch \in Patch \union {None}
    /\ {picked, registered, intact} \subseteq BOOLEAN
    /\ resuming \in {None, "cancelled", "archived"}
    /\ made \in Versions /\ faults \in 0 .. MaxFaults /\ asked \in 0 .. MaxAsked
    /\ run \in [Cleaners -> Run \union {None}]

(* A cleanup has the Work to itself: from its first write on the Work does  *)
(* not run, its handle is past the point of no return, and what the receipt *)
(* in memory says was kept has been kept.                                   *)
CleanupOwns ==
    /\ \A c \in Cleaners : run[c] # None =>
          /\ contract # "running"
          /\ handle.state \in {"ending", "merged", "cleaned"}
          /\ run[c].landed <=> handle.merge = "done"
    /\ handle.state = "ending" => contract # "running"
    /\ handle.receipt # None => contract # "running" \/ Cleaned
    /\ handle.receipt # None => handle.state \in {"ending", "merged", "cleaned"}
    /\ handle.state \in {"ending", "cleaned"} => handle.receipt # None
    /\ resuming = "cancelled" => contract = "cancelled" /\ handle.state = "open"
    /\ resuming # None => \A c \in Cleaners : run[c] = None
    /\ handle.state = "merged" => handle.merge = "done"

(* What a cleanup has behind it is done, and a receipt is complete only     *)
(* once all of it is.                                                       *)
CleanupDone ==
    /\ tree # None => branch # None
    /\ \A c \in Cleaners : run[c] # None =>
          /\ run[c].at \in {"unregister", "delete", "finish", "release"} => tree = None
          /\ run[c].at \in {"delete", "finish", "release"} /\ ~run[c].blocked => ~registered
          /\ run[c].at = "release" => ~run[c].blocked /\ (run[c].fresh => handle.state = "cleaned")
          /\ run[c].receipt.complete <=> run[c].at = "release"
    /\ handle.receipt # None /\ handle.receipt.complete => handle.state = "cleaned"

OwnInv == TypeOK /\ CleanupOwns /\ CleanupDone

Held(v) == target >= v \/ (bundle # None /\ bundle >= v)
Committed(v) == Held(v) \/ (branch # None /\ branch >= v)

Recoverable(v) ==
    \/ Committed(v) \/ tree = v
    \/ patch # None /\ patch.content = v /\ Committed(patch.base)

(* The last edit is safe without the worktree, and without the branch.      *)
Safe == Committed(made) \/ patch # None
SafeWithout == Held(made) \/ (patch # None /\ Held(patch.base))

(* With the protected commit in the target, a bundle can be dropped.        *)
Covers(v) == made <= target \/ made <= v
             \/ (patch # None /\ (patch.base <= target \/ patch.base <= v))

(* What a receipt says was preserved and kept has been, whether it has been *)
(* persisted or not.                                                        *)
ReceiptHolds(r) ==
    /\ r.checkpoint # None => r.checkpoint = made
    /\ r.patched => patch # None
    /\ r.kept # "no" /\ branch # None => SafeWithout
    /\ r.kept = "bundle" => Covers(Protected(r))

(* A cleanup that has preserved may remove the worktree, one that has       *)
(* archived may delete the branch, one that has finished has.               *)
HasPreserved(r) ==
    \/ r.at \in {"archive", "archived", "remove", "unregister", "delete", "finish", "release"}
    \/ r.at = "preserved" /\ ~r.blocked

HasArchived(r) ==
    \/ r.at \in {"remove", "unregister", "delete"}
    \/ r.at = "archived" /\ ~r.blocked

RunHolds(r) ==
    /\ ReceiptHolds(r.receipt)
    /\ HasPreserved(r) => Safe
    /\ HasArchived(r) /\ branch # None => SafeWithout
    /\ r.at \in {"finish", "release"} /\ ~r.blocked => branch = None

(* From its first write on, a cleanup works on a Work that is edited no     *)
(* more.  What was archived by an attempt that died stays, and what a later *)
(* one finds there is good enough for it.                                   *)
FilesKept ==
    /\ handle.receipt = None =>
          /\ tree # None /\ bundle = None /\ patch = None
          /\ \A c \in Cleaners : run[c] = None
    /\ tree # None => tree = made
    /\ tree = None => Safe
    /\ branch # None =>
          /\ branch <= made
          /\ bundle # None => bundle <= branch /\ SafeWithout
    /\ patch # None => /\ patch.content = made /\ patch.base <= made
                       /\ Committed(patch.base)
    /\ Cleaned => branch = None
    /\ handle.receipt # None => ReceiptHolds(handle.receipt)
    /\ \A c \in Cleaners : run[c] # None => RunHolds(run[c])

KeptInv == (resuming = "archived" => ~intact) /\ (intact => FilesKept)

(* A cleanup has the ended Work to itself, what it has behind it is done,   *)
(* and what it is about to take away is kept elsewhere.                     *)
CleanupInv == OwnInv /\ KeptInv

(* "After that target-branch proof (or a verified archive for unique        *)
(* commits), delete the ref directly": whatever is removed, in whatever     *)
(* order attempts fail, die and are made again, the last edit of the Work   *)
(* can be recovered, from the worktree, the branch, the target, the bundle, *)
(* or the patch and the commit it applies to.                               *)
NothingLost == intact => Recoverable(made)

(* The same comment of the ref alone, without the condition: no branch is   *)
(* deleted unless the target or the bundle has what it is at.  The proof    *)
(* is about the commit that the handle expects and the receipt remembers,   *)
(* the deletion about the one the branch is at.                             *)
DeletedIsArchived ==
    [][branch # None /\ branch' = None =>
         target >= branch \/ (bundle # None /\ bundle >= branch)]_vars

(* "automatic terminal cleanup must not reclaim them": a sweep removes a    *)
(* retained worktree only if it looked at the handle for the last time      *)
(* before the controller had it retained.                                   *)
RetainedIsKept ==
    [][tree # None /\ tree' = None /\ handle.retained =>
         \E c \in Cleaners : /\ At(c, "remove") /\ ~At(c, "remove")'
                             /\ c # Sweeper \/ ~run[c].fresh]_vars

(* "a process/lease/worktree blocker must not downgrade delivery".          *)
DeliveryStands == handle.merge = "done" => handle.state # "ending"

(* A complete receipt of a cleaned Work says the truth: nothing is left.    *)
CleanedIsGone ==
    Cleaned /\ intact => tree = None /\ ~registered

(* "the explicit point of no return": no cleanup takes away the worktree of *)
(* a Work that runs, and so none is under way when a Work is resumed.       *)
RunningUntouched == [][contract = "running" /\ tree # None => tree' # None]_vars

(* Once nothing more goes wrong, the sweep gets rid of what an ended Work   *)
(* has left behind, unless it was retained or resumed.  An archived Work    *)
(* whose resume died half way is the exception: its handle says cleaned.    *)
Gone == tree = None /\ branch = None /\ ~registered
Reclaimed == (contract \in Ended /\ intact) ~> (Gone \/ handle.retained \/ contract \notin Ended \/ ~intact)
=============================================================================
