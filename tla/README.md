# Verification of the Forge controller runtime

TLA+ modules, TLC runs and TLAPS proofs about the coordination core of Forge
(`repo-harness-controller-runtime`): an external controller decides what to do
with a repository, Forge executes it, and everything Forge must remember between
two calls lives in files and in one SQLite database that several operating-system
processes read and write. The hard part of the program is that coordination:
locks, leases, ownership claims, the relay of rounds between controllers, which
of two runtimes may write, and what becomes of a plan and of the change of a
Work between the first edit and the deletion of its branch.

## 1. The system and its parts

Paths are relative to `src/`, the root of the repository.

| Component | Where | State | Operations | Hard behaviour |
|---|---|---|---|---|
| Controller file locks | `src/cli/repositories/locks.ts` | one JSON file per lock, one guard file per reap | try-acquire, poll, read, reap, release | exclusive create and write are two calls, unlink by path after a check, owners die, records expire |
| Resource claims | `src/runtime/resources/claims/conflicts.ts` | none (pure) | normalise, overlap, conflict | the relation is asked in one direction only |
| Execution leases | `src/runtime/resources/leases/store.ts` | one file per lease, one counter file per resource | acquire, renew, release, release exact, release of a terminal Process, assert token, list | expiry races renewal, readers remove files without the lock, a crash in the middle of an acquisition |
| Runtime ownership and write fence | `src/runtime/root/ownership.ts`, `write-fence.ts`, `release-store.ts` | one owner record, one release authority record | acquire, release, activate, fence a write | two starters find one dead owner; half-written records; an old runtime goes on writing |
| Control-plane records | `src/runtime/control-plane/persistence/sqlite-store.ts` | rows with a revision | read, write with or without the expected revision, transact | last writer wins when the revision is not given |
| Controller sessions | `packages/kernel/controller/infrastructure/controller-session-store.ts` | one index record per repository, retained identities | claim, resume, bind, release, terminalize | one index under per-Work locks; expiry; generations; takeover |
| Controller rounds (relay) | `packages/kernel/controller/infrastructure/controller-round-store.ts` | one record per Work | disposition, dispatch, finish, acknowledge, recover, reconcile | a dispatch answered late, a stalled round, budgets, one open round per scope |
| Process runtime | `src/runtime/execution/process-runtime/*` | process records, resource claims, logs | start, observe, cancel, terminalize, collect | the child outlives the controller, exit races cancel |
| Work kernel | `packages/kernel/work/*` | Work contracts, events | transitions, reviews, completion receipts | a late answer to a Work that ended, what may follow a terminal status |
| Work delivery | `src/runtime/control-plane/execution/work-operation-service.ts`, `work-validation-reconciler.ts`, `work-finalization-service.ts` | Work handles with one stage for each effect, the validation under way | validate, sweep, review, finalize, retry a stage, complete | checks outlive requests, the worktree is edited meanwhile, a crash between Git and the record of it |
| Work cleanup | `src/runtime/control-plane/execution/work-terminal-cleanup.ts` | the cleanup receipt in the handle, archives | clean up, retain, resume, sweep | effects that cannot be undone, attempts that die and start over, two attempts at once |
| Plan contracts | `src/runtime/control-plane/facade/plan-contract-store.ts`, `semantic-admission.ts`, `goal-workloop.ts` | plans, their steps, the Work each step is bound to | create, extend, redraft, approve, supersede, claim, complete, accept, repair, retire | plan and Work are two records, a successor takes the Works of its predecessor over, answers for a plan that ended |
| Schedules | `packages/kernel/scheduler/*`, `src/runtime/workflow/schedules/*` | schedules, occurrences, settlements | plan, fire, settle, continue | missed ticks, one firing per occurrence |
| Global scheduler | `src/runtime/control-plane/global-scheduler/*` | wake signal, worker table | tick, reconcile, recover | maintenance concurrent with calls |
| Launch reservations | `src/runtime/control-plane/launcher/launch-reservation-store.ts` | reservations | reserve, commit, expire | a launch that never reports |
| Requests and mutations | `src/runtime/execution/thin-harness/*` | request ledger, gates, savepoints | admit, replay, gate | retry of a request already done |
| File transactions, edit sessions | `src/effects/fs-transaction.ts`, `src/cli/editing/edit-session.ts` | journals | stage, apply, roll back | crash between two renames |
| Execution jobs (retired) | `src/runtime/execution/jobs/store.ts` | job records | read, cancel | creation is refused; only old records remain |
| Facade and gateway | `src/adapters/mcp/runtime-gateway/*`, `src/runtime/control-plane/facade/*` | none of their own, plan contracts, handoff inbox | tool calls that compose the stores | the order of the calls they compose |
| MCP transports | `src/adapters/mcp/transports/*` | session registry | open, resume, evict | idle eviction races a request |
| Standalone recovery | `src/runtime/recovery/*`, `src/runtime/standalone-recovery/*` | operation lock, recovery journal | repair, activate | recovery concurrent with a runtime |
| Everything else | CLI, health, diagnostics, projections, evidence, browser and plugin bridges, mobile app, evaluation, templates, scripts | read-only views, I/O | | not coordination |

How they interact. A tool call enters the gateway, which reads the session and
Work records, asks the write fence whether this runtime may write, takes file
locks or leases, and rewrites records. The global scheduler runs the same store
operations from timers. Providers and child processes are started outside every
lock and report later through further store operations. Nothing is called back
in memory across processes: files and rows are the only shared state.

## 2. What must hold

* Locks: one holder at a time; a reap or a late release never removes a
  successor's record.
* Claims and leases: two owners never hold conflicting leases at once; the
  fencing tokens of a resource only grow; a lease set is released whole or not
  at all where the code says exact.
* Runtime ownership: at most one runtime passes the write fence.
* Sessions: a live claim excludes every other controller; the generation of a
  claim tells two owners apart.
* Rounds: one open round per scope; budgets end every relay; the answer to an
  old dispatch does not change a newer one; a dead dispatch is retried.
* Delivery: what reaches the target branch was checked and approved as it is; a
  completion receipt is given for that and stays; a check that has a process is
  settled although nobody waits for it any more.
* Cleanup: nothing is lost that the Work produced; a running Work keeps its
  worktree, a retained one too; what an ended Work left behind goes in the end.
* Processes: one process at most is at work on a check or valid for it; a
  command at work has its record and its leases; whatever dies, every process is
  recorded as over in the end, without a lease.
* Plans: one plan of a scope is committed; a Work at work keeps its step; a step
  says the truth of its Work; a Work whose plan ended does not go on for ever.

## 3. Modules and the code they stand for

| Module | Stands for | State in the model | State in the code |
|---|---|---|---|
| `ControllerLock` | `src/cli/repositories/locks.ts` | `file`, `guards`, and where each process is between two system calls (`pc`, `mine`, `obs`, `ret`) | the lock file, the `.reap-<lockId>.guard` files, the local variables of the functions |
| `LeasedLock` | what `withControllerLock` promises its callers; `ControllerLock` implements it | `inTime`, `late` | none: an abstract specification |
| `ResourceClaims` | `src/runtime/resources/claims/conflicts.ts` | none | none |
| `ClaimFootprints` (extends `ExecutionLeases`) | what a claim stands for, as a set of files, indexes, heads and references | none | none: the reference the conflict relation is compared with |
| `ExecutionLeases` (extends `ResourceClaims`) | `src/runtime/resources/leases/store.ts` | `files`, `counter`, the operation each process is in (`op`), what owners were told and go on doing (`told`, `using`), files a reader is about to remove (`doomed`) | lease files, counter files, local variables, the `resourceLeases` of a Process record |
| `LeaseTable` | what the lease store promises; `ExecutionLeases` implements it | `table`, `last` | none: an abstract specification |
| `RuntimeOwnership` | `src/runtime/root/ownership.ts`, `release-store.ts`, `write-fence.ts`, start and stop of `runtime.ts` | `owner`, `written`, `authority`, `tokens`, `claims`, and where each runtime and publisher is | the owner file, the release authority file, the claim bound in each process |
| `ControllerSession` | `packages/kernel/controller/infrastructure/controller-session-store.ts`, the terminalization fence as `src/runtime/recovery/maintenance-executor.ts` uses it | `sessions`, `retained`, `terminal`, the change in the hands of the holder of each Work's lock (`hand`), what callers saw and were told | the record of all claims, the retained identities, Work status |
| `OwnershipRegister` | what the record of claims promises; `ControllerSession` implements it | `owns`, `knows`, `ended` | none: an abstract specification |
| `ControllerRound` | `packages/kernel/controller/infrastructure/controller-round-store.ts`, the handlers of launch, claim, disposition and release in `adapters/mcp/runtime-gateway/runtime-tools.ts`, round recovery in `src/runtime/control-plane/global-scheduler/maintenance.ts` | `round`, `budget`, `timer`, `latest`, `successor`, `session`, `flights`, `told` | the round record of each Work, its claim, the promises that wait for a provider |
| `WorkDelivery` | `work-operation-service.ts`, `work-validation-reconciler.ts`, `work-finalization-service.ts` under `src/runtime/control-plane/execution`, the state machine, reviews and receipts of `packages/kernel/work`, the verdict and the stop of `goal-workloop.ts` | `contract`, `handle`, `indexed`, `tree`, `head`, `target`, `process`, the request that waits for a check (`val`) and the finalization under way (`fin`) | the Work contract, the Work handle, the index of validating handles, the worktree, the branch, the target branch, the Process of the check, the local variables of `validateWork` and `finalizeWork` |
| `WorkCleanup` | `work-terminal-cleanup.ts`, resume and retain, the sweep | `contract`, `handle`, `tree`, `branch`, `target`, `picked`, `bundle`, `patch`, `registered`, `resuming`, and each cleanup in flight (`run`) | the Work contract, the handle with its cleanup receipt, the worktree, the refs, the archive files, the registry entry, the local variables of `cleanupTerminalWork` |
| `ProcessRuntime` | `src/runtime/execution/process-runtime/` (`runtime.ts`, `store.ts`, `process-runner-entry.ts`, maintenance in `gc.ts`), `settleProcesses` of the cleanup | `binding`, `rec`, `lease`, how far each spawn is (`call`), `runner`, `cmd`, `told`, `receipt`, `monitors`, what the runtime and the cleanup worker do with a record (`task`), the cancellation under way (`stop`) | the binding of the check, the process record, its execution leases, the call stack of `spawnManagedProcess`, the detached runner and its command, the signals it has, the exit receipt, `liveMonitors`, the local variables of readers and of `cancelProcess` |
| `PlanContracts` | `plan-contract-store.ts`, the admission, and start, stop and repair in `goal-workloop.ts` and the gateway | `plan`, `work`, `head`, and what the request under way has still to write (`call`) | plan contracts, Work contracts, the source revision of the repository, the call stack of the gateway |

`MC<module>` gives TLC the constants and symmetry sets of a module;
`<module>Proofs` holds its theorems, and `RuntimeProofs` those of
`RuntimeOwnership` and `ProcessRuntime` (it extends both, which is why names that
both would use are spelled out in the second). `PROJECT.json` maps every definition to the
lines it stands for.

How the modules fit. `ExecutionLeases` and `ControllerSession` are built on
locks: each takes the lock of `ControllerLock` as given and has a switch for what
happens when it does not do what its user hopes. `LockLapses` lets the
repository lock of the leases expire under its holder (it has a time-to-live of
ten seconds); `Serial` says whether another process may look between a read and
a write, because the locks of two Works do not exclude one another.
`ControllerRound` takes what a claim promises from `ControllerSession`: the
generation of a live claim, any generation after a release or an expiry.
`ControllerLock` implements `LeasedLock` by a refinement mapping (`Promise ==
INSTANCE LeasedLock WITH inTime <- ..., late <- ...`; the run `lock` checks
`KeepsPromise`, and `LockKeepsPromise` proves it). `ExecutionLeases` implements
`LeaseTable`, in which a set of claims is taken in one step (`Table == INSTANCE
LeaseTable WITH table <- Grants, last <- counter, ...`: what is held is what is
live together with what the operation under way has yet to write or to remove;
the run `leases` checks `KeepsTable`, and `StoreKeepsTable` proves it).
`ControllerSession` implements `OwnershipRegister`, in which a Work is taken, lost
or ended without any other being touched (`Register == INSTANCE OwnershipRegister
WITH owns <- InTime(sessions), knows <- InTime(believed), ended <- terminal`: what
is stored, and told, and has not expired; the run `sessions` checks
`KeepsRegister`, and `RecordKeepsRegister` proves it). The three modules about Works
cut one life into three: `PlanContracts` has a Work from its start to its end as
one of four statuses and asks who it works for; `WorkDelivery` has one Work in
detail until it is delivered, stopped or failed; `WorkCleanup` takes it up there
and starts with the handle in every state that `WorkDelivery` can leave it in.
What each of them takes from the others is an action that may happen at any
time: in `PlanContracts` a Work fails late and goes on (`Fail`, `GoOn`) because
`WorkDelivery` shows that it does; in `WorkDelivery` a cleanup may have the
handle (`Ended`, `Cleanup`); in `WorkCleanup` a Work is resumed and edited again.
`ProcessRuntime` is what the last two take for granted of a process: that a check
ends and is recorded (`Settles`), and that there is one of it (`OneValid`). It
takes the leases as `ExecutionLeases` has them, one set for each process and each
excluding the other.

What is atomic. Where the code makes two system calls on a file, the model has
two actions: exclusive create and write, read and unlink, read and rename, guard
and unlink, list and remove, read and replace. Where it writes several files or
records one after another, each write is an action and the process may die
before any of them. A function of the round store that runs under the lock of
its scope, and whose record is one row, is one action; the provider is started
outside the lock, so its answer is another action that finds the round as it is
by then. `claim` and `acknowledge`, and `release` and the dispatch that follows,
are called by one synchronous handler of a single gateway process: they are one
step, unless that process dies between them, for which there is a disjunct.
`finalizeWork` does not yield, so no other request of its process comes in
between, but the worktree, the check and the process itself do: every Git
command and every record after it are actions of their own. `validateWork` and
`cleanupTerminalWork` do yield, and their writes fail on a handle that was
written meanwhile (a comparison of `recordRevision`), which the models keep. The
cleanup sweep is a process of its own; the sweep of validations runs in the
gateway and waits while a finalization is under way.

Abstractions. In `ResourceClaims` a path is a short sequence of names with a
trailing glob or without; a glob inside a segment is not distinguished from a
plain segment (the code does not either). Lease ids and lock ids are
random in the code and are built from what is unique in the model. In
`RuntimeOwnership` a release is a model value and its manifest is left out. In
`ControllerSession` an owner merges controller id, controller type and
principal; the grace of inactivity that a takeover waits for is not counted, so
that it may happen at any moment. In `ControllerRound` there is one scope, one
principal and one controller type; whether a fingerprint equals the last one is
a free choice; `wait`, `wait_for_user` and `goal_complete` close a round alike;
an execution and recent activity of a session are both `busy`; times are
reduced to whether the grace is over. A dispatch gives up after 30-second waits,
long before the grace (ten minutes unless configured), which is why `Age`
waits for `Quiet`. In `WorkDelivery` and `WorkCleanup` the content of a worktree
is the number of edits in it, so that a commit contains another when its number
is not smaller; there is one check and one reviewer, and nobody else moves the
target. In `PlanContracts` there is one scope, so that every plan wants to be
its authority, and a requirement is fulfilled by each step; a plan has any
subset of the steps, and the steps that a successor keeps unchanged are any that
`samePlanStepExecutionContract` can hold of. In `ProcessRuntime` the write fence
lets both actors pass (`RuntimeOwnership` has what it refuses); a record and the
receipt are read in one step, a record is read and replaced in one step, and a
runner reports and exits in one; an identity that is not to be trusted counts as
none, since nothing is ever concluded from it but that; being cancelled and being
timed out are one status; a lease does not expire while the runner lives, since
its time is the timeout of the command and half a minute more.

## 4. What each run checks

| Run | Instance | Properties |
|---|---|---|
| `lock` | 3 processes, records expire after 1 tick, clock to 1, `Prompt` | `LockInv`, `MutualExclusion`, `KeepsPromise` |
| `leases` | 2 processes, 2 owners, 3 claim sets (a reader of the workspace, a patch, a patch with the index), 3 acquisitions, clock to 3; and all pairs and triples of claims over 2 checkouts and paths to depth 2 | `LeaseInv` (with `LaterTokenIsHigher`), `ActiveLeasesCompatible`, `KeepsTable`; `ConflictIsSharedWrite`, `MergeKeepsConflicts` |
| `owner` | 3 runtimes, 2 releases, 1 publisher, 3 authorities, `Prompt` | `OwnerInv`, `OneOwner`, `FencedForGood` |
| `sessions` | 2 Works, 2 owners, 2 transports, 1 bind request, 2 runtime instances, 3 claims, `Serial` | `SessionInv`, `OneController`, `AuthorityCounts`, `TerminalExcludesClaims`, `KeepsRegister` |
| `rounds` | 2 Works, the second planned after the first, 2 rounds, 1 repeated state, 1 failure, launches while fewer than 2 authorities were issued, `InTurn` | `RoundInv`, `OneOpen`, `HandedOutOnce` |
| `rounds_live` | 2 Works, 2 rounds, 1 repeated state, 2 failures, one lost call and one new authority by the user | `Bounded`, `RoundEnds` |
| `delivery` | 2 edits, 2 validations, 1 fault (a crash, a lost check, a commit by hand) | `DeliveryInv`, `CompletedDelivered`, `CompletedForGood`, `DeliveryReviewed`, `SettlesUnattended` |
| `cleanup` | the sweep and one request, 2 edits, 1 fault (a crash, a failing step, a thing done by hand), 1 cleanup asked for | `CleanupInv`, `NothingLost`, `DeliveryStands`, `RetainedIsKept`, `RunningUntouched`, `Reclaimed` |
| `plans` | 2 plans, 2 steps (the second waits for the first), 2 Works, 2 source revisions, 1 fault | `PlanInv`, `OneScopeAuthority`, `HolderKeepsStep`, `StrandedRetired` |
| `processes` | 2 requests for one check, the runtime and the cleanup worker, 1 fault (a death, a failed launch or a cancellation) | `ProcessInv`, `OneValid`, `Attended`, `Settles` |
| `cleanup_unseen_commit`, `processes_fabricated` | the same modules, the smallest instance that shows it | one property each, violated (section 7) |

Why the bounds are enough to be interesting. Three processes are the fewest
that show a reaper, the owner it observed and a successor at once, and that let
a guard outlive its reaper; one tick lets a record expire under an owner and
be reaped. Three acquisitions give one
owner a lease, take it away, and give it back with an operation cut off in
between; a clock of 3 with leases of 2 lets a lease be renewed and expire. The
properties of claims have no state in them, so that one instance of the paths is
one case of each kind: none, a directory, two files in it, a file beside it, with
a glob and without. Three
runtimes make one that dies, one that takes over and one that looks meanwhile;
three tokens give a revert followed by the publication of the same release with
the same revision, the case only the token tells apart, and a rollback; the
publisher's read goes stale when a starting runtime writes the first authority
before it commits. With two
Works and three claims a claim is written, expires, is taken over and is purged
by the other Work. In `rounds` a relay uses up a budget, hands its round on to
the successor, is launched again, and a blocked round is armed again. Both runs
have one generation of claims; two generations (a controller that comes back
with another runtime instance) make `rounds` too large, and there the theorems of
section 5 hold for all. `Bounded` and `RoundEnds` also pass with
`MaxGeneration = 2` and `MaxRekeys = 0`.

In `delivery` two edits give a content that was approved and one that was not
(or was approved and superseded), two validations a check whose answer comes
after the next one was asked for, and the fault a crash between any two effects,
followed by a retry. In `cleanup` the second edit is the one that a resumed Work
adds to what was archived; the fault lets an attempt die or fail between any two
steps, and another attempt finish what it began. In `processes` two requests
are one that runs the check and one that comes at any moment of it, is given the
same process, or replaces one that failed and waits for its lease; ids are fresh,
so that requests come in order; the fault is what makes somebody but the monitor
settle a process. With two plans a plan is staged, approved, superseded
explicitly, extended and revived; two Works compete for a step, or have one
each; a second revision lets the source drift. Three plans, two Works and one
revision pass the invariants, too (five million states).

The runs are kept small enough to take a few minutes at most. Larger instances
of the same modules pass with the same properties, in a few minutes: `lock` with
the clock to 2, where the record of a successor expires as well (5.3 million
states); `leases` with the clock to 4 (2.0 million); `delivery` and `cleanup` with
two faults, a crash and another one in the retry, or a commit by hand and a crash
(2.5 and 3.1 million); `plans` with two steps in any order, `Before <- Free`
(2.3 million); the invariants of `processes` with a fault and a cancellation in
one run (5.5 million).

Fairness. Safety runs assume none. `RoundEnds` assumes what the code's own
timers give: a dispatch is answered or given up (each wait has a timeout), the
scheduler's maintenance runs again and again, and time passes, so that a grace,
a retry delay and a lull of activity are over at some point. Nothing is assumed
of a controller: it may never claim, never dispose, never release, and a claim
need not expire for the property, which exempts a Work that is held.
`SettlesUnattended` assumes that a check ends (the Process runtime has a
timeout), that a finalization which has begun goes on (it is synchronous code),
and that the sweep, a timer, gets its turn; strongly fair, since a finalization
holds it off again and again. Nobody need retry or answer. `Reclaimed` assumes
that an attempt goes on, that the periodic sweep starts another one, and that a
resume which has begun writes its second record. `StrandedRetired` assumes that
the maintenance, which the scheduler starts periodically, runs while there is
something for it to do, and nothing else. `Settles` assumes that a runner goes on
and kills its command when the timeout is over, that leases expire, that a
cancellation which has begun ends, and that the cleanup worker comes back to the
record of a running process (strongly fair, since the record may be settled
meanwhile) and finishes what it began; nothing of the runtime, which may be dead,
nor of the command, nor of anybody who asks.

Deadlock is checked in `lock` only. In the other instances the bounds stop the
clock, the tokens, the claims, the edits or the Works, and what is over has
nothing more to do.

## 5. What is proved

All theorems hold for any set of processes, owners, Works, runtimes and any
values of the bounds, since the bounds appear in guards only.

* `ControllerLockProofs`: `LockInv` is inductive, and mutual exclusion, exact
  reaping and exact release follow, **assuming `Ttl = 0 \/ Prompt`**. The
  invariant has four parts: the file names its owner for as long as the owner's
  record has not expired; two processes do not hold the guard of one lock id; a
  process about to remove the file faces a record whose owner is dead or
  expired; and what a process keeps as its own record is its own. The
  assumption is needed: without it a reaper unlinks
  another's record (section 7). `LockKeepsPromise`: the lock implements `LeasedLock`. A
  process has the lock in time from the system call that makes its record
  readable until it unlinks it, dies, or the record's time runs out; then it is
  late. That nobody takes the lock while another is in time is the invariant's
  first part; that a late process takes it from nobody is its third.
* `ExecutionLeasesProofs`: `LeaseInv` is inductive **assuming
  `LockLapses = FALSE`**. `ActiveLeasesCompatible` alone is not: an acquisition
  has leases still to write, so the invariant speaks of the live files together
  with what is in hand, and says that only one operation has anything in hand.
  For the tokens it bounds every lease ever known by its counter
  (`TokensFence`). Readers that remove files late only ever take leases away,
  which neither part minds. `StoreKeepsTable`: the store implements `LeaseTable`.
  The step that takes the tokens is the abstract acquisition, since nobody else
  has anything in hand while the lock is free; every other step makes nothing
  held that is not like something that was (`Covered`), so that a renewal,
  though it writes files anew, revives nothing. `NothingRevived` says so of each
  lease: what is not held under a token that was already drawn is not held under
  it again, since the table only grants under tokens that are new.
  The relation between claims is proved with no state: `ConflictsAreSharedWrites`
  (`ConflictIsSharedWrite`, for all checkouts and paths **assuming
  `NoneIsWhole`**, that no path is `**`; section 7 has why), from the footprint of
  a key in three parts and from two paths having a file in common exactly when
  one is a prefix of the other; and `MergeKeepsEveryConflict`, for any number of
  claims and with no assumption, since a conflict depends on the normalised key
  and grows with the mode, and a strongest claim of a key exists
  (`MergesKeepConflicts` is `MergeKeepsConflicts`).
* `RuntimeProofs`, of the ownership: `OneOwner` by `OwnerInv` **assuming
  `Prompt`**; and, with no assumption at all, `FencedForGood` by `FenceInv`:
  tokens are drawn once, and a runtime that has bound a claim never again
  creates or writes the owner file, so neither of the two comparisons of the
  fence can turn true again. `OwnerAloneWrites`, again assuming `Prompt`, is the
  other half: while a runtime serves under the authority it was given, the fence
  admits its claim and nobody else's.
* `RuntimeProofs`, of the processes: `ProcessInv` is inductive with no assumption,
  for any number of requests and faults, and `OneValid` and `Attended` follow.
  `RecordsLinked` ties how far a spawn is to what is on record of it, and says
  that an outcome on its way to a record or a receipt is that of the command,
  so that a late answer cannot contradict it. `ClearUntouched` is about a process
  that nobody looked at early, on its way to the launch or under its identified
  runner: it has no outcome yet, and whoever has read its record is not about to
  give it one or to take its lease. `OneValid` is inductive relative to these: a
  request binds another process only when it finds the bound one over and
  without success, and no record of a process that is over turns to a success.
  From the two, and from a lease being taken only when there is none, commands
  exclude each other (`RunnersExclude`): a process that has a runner, is
  being launched or was identified, and that nobody looked at early, is the
  bound one and alone has a lease.
* `ControllerSessionProofs`: `SessionInv` is inductive **assuming `Serial`**, and
  `OneController`, `AuthorityCounts` and `TerminalExcludesClaims` follow. The
  invariant relates what is in hand to what is stored (nothing about to be
  written loses a live claim) and what callers were told to what is stored.
  `RecordKeepsRegister`: the record implements `OwnershipRegister`. The abstract
  step is the write of the record, where the whole of it is replaced: the
  invariant says of what is in hand that it has every live claim on another Work
  and, unless it is a recovery, none of a new owner on this one. The return to
  the caller is the step that tells; expiry and release only lose, and a
  rebind changes nothing of who owns what. `GenerationFollows`: the entry of a
  Work is replaced only by one of the same epoch or a higher generation. It is
  what remains of `GenerationAdvances` (section 7), which also looks across the
  removal of an entry.
* `ControllerRoundProofs`: `RoundInv`, `OneOpen` and `Bounded` **assuming
  `InTurn`**: a round blocked for repeating its state is claimed again
  only while it is the latest of its scope. The core is that an open round is the
  record written last in its scope; whatever opens one either closes the latest
  or finds it closed. Without the assumption the last entry of rounds in section
  7 breaks it. `Bounded` needs two more parts. `TriesSpent`: a dispatch that was
  counted is paid for by a failure on record, by a loss, or is the one under way,
  and a round is found overdue only when no call has a dispatch under way, or two
  answers could come for one payment. `WithinRounds`: a round that is open, or
  that a claim or a retry may open again, is within the rounds of its relay,
  since the budget is looked at when a round is made and not when it is reopened.
  `HandedOutOnce` needs no order and **no assumption**: what was issued bounds
  what any round, any call under way and any conversation has (`AuthOK`), and
  whatever dispatches without a retry draws a new authority first.
* `WorkDeliveryProofs`: `DeliveryBooks` (`DeliveryInv` is inductive),
  `CompletionStands` (`CompletedForGood`), `ReviewedReaches` (`DeliveryReviewed`)
  and `CompletionDelivered` (`CompletedDelivered`), with no assumption. What is to
  be merged is decided at the gate and merged several steps later, while the
  worktree is edited: the invariant says of each of these steps that the branch
  has what was approved and checked, or that the worktree has something that
  nobody has approved, which the next look at it refuses (`Unmixed`). Edits only
  ever make a content that is new, so that an edited tree is not approved by
  accident. That a completed Work was delivered needs to know what Git had done
  before each stage was written (`ReachInv`): heads only grow (`Forward`); the
  stages agree with each other and with the place of the finalization
  (`StagesAgree`); a merge that took a commit made by hand in its midst has a head
  that no record knows, so that neither the worktree nor the branch is removed
  after it (`MergedMore`); and a branch without worktree, or one that was
  deleted, had what is approved and the target has it (`BranchHad`).
* `WorkCleanupProofs`: `CleanupInvariant`, `NothingIsLost`, `DeliveryKept`,
  `ReceiptIsTrue`, `RunningKept` and `RetainedKept`, with no assumption.
  `CleanupOwns` says that from its first write on a cleanup has the Work to
  itself, `CleanupDone` that what it has behind it is done. `CleanedIsGone` needs
  more: a complete receipt is the last write, when the checkout was already found
  gone. `RetainedIsKept` needs what the sweep last looked at: while its copy of
  the handle is fresh, it has seen that the Work is not retained. `NothingLost`
  needs `KeptInv`: what an attempt that died has left behind is good enough for
  the next one. Each attempt in flight, and each receipt, is tied to what it may
  take away: the worktree only when the last edit is safe without it (`Safe`), the
  branch only when it is safe without that (`SafeWithout`), the bundle only when
  the target has the commit it protects and with it all that is needed
  (`Covers`). Like the property it is about a Work that is `intact`: not edited
  after its end, not resumed after it was archived, and with a branch that is at
  the commit the proofs are about (section 7 has what happens otherwise).
* `PlanContractsProofs`: `PlansTrue` (`PlanInv`), `OneAuthority`
  (`OneScopeAuthority`) and `StepIsKept` (`HolderKeepsStep`), with no assumption.
  A step under validation or completed names a Work that was completed, and
  completed Works stay so; a draft has bound nothing, so that a plan which is
  written for the sake of one of its steps was committed or had ended, and in
  the second case becomes `revived`. From there `OneAuthority` has two cases for
  each action: no plan gets authority that had it not, or one takes it and every
  other is without. `StepIsKept` rests on it: an explicit supersession writes a
  Work of the old plan over a step of the successor, and that the successor has
  no Work there follows from the two plans not being committed at once.

Every safety property that a run checks is thus proved. Only model-checked: the
liveness properties (`RoundEnds`, `SettlesUnattended`, `Reclaimed`,
`StrandedRetired`, `Settles`), which are out of the prover's reach. The exact
reaping and release of the lock, the order of the tokens on its own and the
truth of a cleanup receipt (`ReapsOnlyObserved`, `ReleasesOnlyOwn`,
`LaterTokenIsHigher`, `CleanedIsGone`), the inductive invariant of the fence
(`FenceInv`) and the theorems without a name in a run (`NothingRevived`,
`RunnersExclude`, `OwnerAloneWrites`, `GenerationFollows`) are the other way
round: they are proved, and no run states them apart from what they follow from.

## 6. Not modelled

`PROJECT.json` lists every component with the reason. Inside the modelled ones:
`releaseControllerSession` (which only tests call), the capability digest, and
the writers of a terminal Work that do not use the fence; unbound and unmanaged
write claims and claims of another home; malformed release authorities and the
database backups of a publication; requirement state, handoff checks, per-call
tightening of budgets, legacy records without an authority and prompt rendering
of rounds; a hand-off to a successor that has an open round of its own; `EPERM`
from `kill(pid, 0)`, which the lock takes for a dead owner. Of the delivery: a
target that others advance, with rebase and conflict; the push to a remote; a
change without a diff; direct edits; the verification through the facade;
retention of a Work that ended. Of the cleanup: `delete_branch: false`, the
details of remote containment, unmanaged checkouts, the recovery of a lost
handle and legacy branches. Of the processes: bindings by request id, the wait
for a compatible Work, direct and interactive waits, the retention of records,
logs and check results, a write fence that refuses, the abort signal of a caller,
two cancellations at once, and `recoverManagedProcesses`, which only tests and
scripts call. Of the plans: more than one scope or requirement,
plans related in parallel, Works without an owner, changes of acceptance
criteria, the repair of a dangling binding, and the Work statuses between
running and finished.

## 7. Where the code and its promises part

Two runs keep a counterexample; PROJECT.json quotes the promise each one
contradicts.

* `cleanup_unseen_commit`: that a branch needs no bundle is proved for the commit
  in the receipt or the handle, and `git branch -D` deletes the branch at
  whatever commit it is. A commit which the handle never recorded (made by hand,
  or by a finalization that died before its record) is lost.
* `processes_fabricated`: when a runner leaves no receipt, the close handler of
  its monitor says `completed_unknown`, "do not fabricate a deterministic
  failure"; `finalizeMonitor` writes a receipt with exit code 1 and takes the
  status from it. A check that passed is recorded as failed.

More of the same kind, for which no run is kept. Each is reproduced by checking
the property with the constants given; every other constant is as in the run of
the same module.

| Property | Module | Constants | What happens |
|---|---|---|---|
| `ReapsOnlyObserved` | `MCControllerLock` | `Prompt = FALSE` | the re-read and the unlink of a reap are two calls; with a time-to-live the record may be a successor's by then |
| `BelievedCompatible` | `MCExecutionLeases` | as they are | a reader outside the lock removes, by name, a lease that was renewed after it was read as expired |
| `ActiveLeasesCompatible` | `MCExecutionLeases` | `LockLapses = TRUE` | an acquisition stopped for longer than the lock's ten seconds writes its leases beside conflicting ones |
| `ConflictIsSharedWrite` | `MCExecutionLeases` | `Paths <- GlobPaths` | the path `**` is stripped to the empty string and covers nothing |
| `OneOwner` | `MCRuntimeOwnership` | `Prompt = FALSE` | a starting owner reads as malformed, and a contender renames whatever is at the path by then |
| `OneController` | `MCControllerSession` | `Serial = FALSE` | one record of all claims, written under the locks of different Works without its revision |
| `GenerationAdvances` | `MCControllerSession` | `Transports = {t1}`, `Requests = {}`, `MaxRuntime = 1` | a release, or the purge of an expired claim, removes the entry the generation counts from |
| `RebindsForward` | `MCControllerSession` | as they are | a bind request that looked before a release finds the generation begun anew, and moves the Work back to the old runtime |
| `NoBlindReplay` | `MCControllerRound` | as in `rounds_live` | the scheduler records an unknown outcome as a failure and sends the prompt again |
| `StaleHostShutOut` | `MCControllerRound` | `Works = {w1}`, `MaxRounds = 2`, `MaxRepeated = 3`, `MaxFailures = 2`, `MaxLost = 1` | the conversation of an earlier round closes the present one |
| `OwnAnswer` | `MCControllerRound` | the same, `MaxRekeys = 1` | the answer to a dispatch made before a new authority confirms the round with the new one |
| `OneOpen` | `MCControllerRound` | `InTurn = FALSE` | a round blocked for repeating itself is armed again while another Work of the scope has an open one |
| `CompletedIsDelivered` | `MCWorkDelivery` | as they are | a reviewed change that was not committed counts as complete when no stage is asked for, or only the commit after it was skipped (`finalizationComplete`, "Delivery authority is always the Work's own revision", `work-finalization-service.ts:939`) |
| `StoppedStaysStopped` | `MCWorkDelivery` | `MaxFaults = 2` | a check that fails after the Work was stopped turns cancelled into failed (`work-validation-reconciler.ts:156`), and a failed Work may run again |
| `EndedForGood` | `MCPlanContracts` | as they are | `completePlanStepForWork` and `acceptPlanStepEvidence` do not ask whether the plan has ended: the repair of a step, or a late acceptance, opens a superseded plan beside its successor, and both may have Works |
| `RetiresOnlyObsolete` | `MCPlanContracts` | as they are | a replan of one Work moves that Work only; the others keep the plan that is superseded, and the maintenance cancels them |

What else was met while the code was translated, without a property of its own.

* Delivery. A commit stage that was skipped is never armed again, and a
  finalization that asks for the commit only makes the merge skipped for good. A
  crash between the cleanup of a delivered Work and its stage leaves it recorded
  as failed; one between `git commit` and its stage makes the retry refuse. The
  sweep settles a passed check without a verification record, so that a review
  asks for another check. A failed contract cannot have its merge retried. With
  the stdio server, which is a process of its own, the sweep is not held off by
  a finalization.
* Cleanup. An archived Work that is resumed, edited and cleaned again keeps the
  bundle and the patch of the first time. An edit between `git status` and
  `worktree remove --force` is gone. A crash in the resume of an archived Work
  between contract and handle leaves a worktree nothing will remove. Who else
  uses the checkout is asked before the wait for its processes and not after.
  A Work retained between the last write of the sweep and its removal is removed.
  A failed Work whose validation takes more than a minute can be reclaimed
  while it is validated.
* Processes. `getProcessHandle` completes a record that is still `starting` as
  unknown, without the five minutes that the maintenance waits; the spawner looks
  at its record no more and launches all the same, with leases the record does
  not name (`Attended` exempts a process looked at so early). A cancellation
  while it waits for its lease has the same effect. A receipt that is written
  between the look for it and the probe of the identity comes too late: the
  process is recorded as unknown, though its outcome is on disk; `waitForProcess`
  waits for it and `getProcessHandle` does not. A cancellation signals the group
  of the runner, and its command has a group of its own: when the runner is
  killed before it has killed the command, the command goes on without leases. A
  process whose spawner died between the leases and the launch stays `starting`
  until somebody asks for it: the maintenance takes only those without leases, or
  with an identity.
* Plans. Every write of the store replaces all plans with revisions read a moment
  before, so that a conflict is not noticed. Admission and plan writes take
  different locks. An explicit supersession makes a successor that nobody
  approved `executing`. A delivery whose plan was not told is not carried to an
  extension and is made again. An acceptance moves the source revision of the
  plan, after which a parallel Work no longer counts as coherent and an
  extension cancels it. One Work started on a drifted source invalidates the
  plan under the other Works.

## 8. What is left

The coordination core (locks, leases, ownership, sessions, rounds), the life of a
Work (plan, delivery, cleanup) and the processes it starts are modelled. What
comes next, in the order of how much rests on it:

1. `Schedules`: plan, fire, settle, with a crash between each: one firing for
   each occurrence, and every occurrence settles.
2. `LaunchReservation` and `RequestLedger`: a request done is not done again.
3. `FileTransaction`: after a crash at any rename the tree is the old or the new.
