--------------------------- MODULE ProcessRuntime ---------------------------
(***************************************************************************)
(* How a command is run outside the runtime                                *)
(* (src/runtime/execution/process-runtime/runtime.ts, store.ts,            *)
(* process-runner-entry.ts and gc.ts).                                     *)
(*                                                                         *)
(* A request for a check is bound to a process, which gets a record, then  *)
(* the leases of its claims, then a detached runner, and last the identity *)
(* of that runner.  The runner starts the command, kills it when it is     *)
(* told to or when its time is over, and leaves a receipt.  Whoever looks  *)
(* at the record of a process settles it: from the receipt, or, when there *)
(* is none and the runner is not there either, without an outcome.  The    *)
(* runtime looks when it is asked, and watches the runners it has started. *)
(* The cleanup worker, another process, looks on its own and watches none. *)
(*                                                                         *)
(* The requests here all want the same check, and every process claims     *)
(* what excludes the others.  The runtime is a single thread: what it does *)
(* without awaiting is cut into the effects that others see, and nothing   *)
(* else of it comes in between but its death.                              *)
(***************************************************************************)
EXTENDS Naturals, FiniteSets

CONSTANTS
    MaxProcs,     \* bound on the requests, each of which proposes a process
    Runtime,
    Sweep,        \* the cleanup worker
    MaxFaults,    \* bound on deaths, failed launches and cancellations
    None

Procs == 1 .. MaxProcs

ASSUME ProcessBounds == {MaxProcs, MaxFaults} \subseteq Nat
ASSUME ProcessActors == Runtime # Sweep /\ None \notin Procs \union {Runtime, Sweep}

VARIABLES
    binding,      \* the process bound to the check, or None
    rec,          \* the record of each process, or None
    lease,        \* the processes that have an active lease
    call,         \* how far spawnManagedProcess is for each process
    runner, cmd, told, receipt,
    monitors,     \* the runners that the runtime watches
    task,         \* what each actor is doing with one record
    stop,         \* the cancellation under way, or None
    faults,
    early         \* the processes looked at on their way to the launch

disk == <<binding, rec, lease>>
run == <<runner, cmd, told, receipt>>
processVars == <<disk, call, run, monitors, task, stop, faults, early>>

Actors == {Runtime, Sweep}
Active == {"starting", "running"}
Terminal == {"succeeded", "failed", "stopped", "unknown"}
Identity == {"none", "good"}    \* none: unknown, or one not to be trusted
Record == [status : Active \union Terminal, refs : BOOLEAN,
           identity : Identity, released : BOOLEAN]
(* What happens within one turn of the event loop, and what awaits.         *)
InTurn == {"bound", "created", "retry", "have", "refs", "launched"}
Phase == {"idle", "wait", "over"} \union InTurn
Task == [of : Procs, seen : Identity, as : Terminal,
         at : {"identity", "write", "release", "stop"}]
Cancel == [of : Procs, by : Actors, watched : BOOLEAN]
Receipt == {"none", "ok", "bad", "stopped"}

ASSUME ProcessAbsent == None \notin Record \union Task \union Cancel

ProcessInit ==
    /\ binding = None /\ lease = {}
    /\ rec = [p \in Procs |-> None]
    /\ call = [p \in Procs |-> "idle"]
    /\ runner = [p \in Procs |-> "none"]
    /\ cmd = [p \in Procs |-> "none"]
    /\ told = [p \in Procs |-> FALSE]
    /\ receipt = [p \in Procs |-> "none"]
    /\ monitors = {}
    /\ task = [l \in Actors |-> None]
    /\ stop = None
    /\ faults = 0
    /\ early = {}

-----------------------------------------------------------------------------
IsActive(p) == rec[p] # None /\ rec[p].status \in Active
Running(p) == rec[p] # None /\ rec[p].status = "running"
IsTerminal(p) == rec[p] # None /\ rec[p].status \in Terminal
RunnerAlive(p) == runner[p] \in {"spawned", "running"}

(* The end of a runner, with what it was told.                              *)
Gone(p) ==
    /\ runner' = [runner EXCEPT ![p] = "gone"]
    /\ told' = [told EXCEPT ![p] = FALSE]
    /\ early' = early \ {p}

(* The event loop of an actor is between two turns.                         *)
Idle(l) ==
    /\ task[l] = None
    /\ l = Runtime => \A p \in Procs : call[p] \notin InTurn

(* statusFromReceipt                                                        *)
(* Mutant: that a run was told to stop does not count.                      *)
MutOutcome(r) == IF r = "bad" THEN "failed" ELSE "succeeded"

Outcome(r) ==
    CASE r = "ok" -> "succeeded" [] r = "bad" -> "failed" [] OTHER -> "stopped"

(* tryCompleteProcessRecord: a terminal record stays as it is, and one      *)
(* without references to leases has none to release.                        *)
(* Mutant: the last one to complete it wins.                                *)
MutCompleted(r, status) == [r EXCEPT !.status = status, !.released = ~r.refs]

Completed(r, status) ==
    IF r.status \in Terminal THEN r
    ELSE [r EXCEPT !.status = status, !.released = ~r.refs]

(* The patches of updateProcessRecord, which a terminal record ignores.     *)
Updated(r, new) == IF r.status \in Terminal THEN r ELSE new

Completing(p, status) == [of |-> p, seen |-> "none", as |-> status, at |-> "write"]
Releasing(p) == [of |-> p, seen |-> "none", as |-> "unknown", at |-> "release"]
Stopping(p) == [of |-> p, seen |-> "none", as |-> "stopped", at |-> "stop"]

(* getProcessHandle of a process the actor does not watch, and              *)
(* reconcileStaleManagedProcessForMaintenance, up to the identity: the      *)
(* record and the receipt are read now (applyReceiptIfPresent).             *)
Looking(p) ==
    IF receipt[p] # "none" THEN Completing(p, Outcome(receipt[p]))
    ELSE [of |-> p, seen |-> rec[p].identity, as |-> "unknown", at |-> "identity"]
Watches(l, p) == l = Runtime /\ p \in monitors
NeedsLook(l, p) == IsActive(p) /\ ~Watches(l, p)
Launching(p) == call[p] \in InTurn \union {"wait"}
LooksAt(l, p) ==
    /\ task' = [task EXCEPT ![l] = Looking(p)]
    /\ early' = IF Launching(p) THEN early \union {p} ELSE early

-----------------------------------------------------------------------------
(* spawnManagedProcess for the check: claimProcessCheckExecution keeps a    *)
(* process that is active or has succeeded.  One without a record was       *)
(* bound by a runtime that died, and is replaced after five seconds.        *)
Reusable(p) == rec[p] # None /\ rec[p].status \in Active \union {"succeeded"}

Ask(p) ==
    /\ call[p] = "idle" /\ \A q \in 1 .. p - 1 : call[q] # "idle"
    /\ Idle(Runtime)
    /\ \/ /\ binding # None
          /\ rec[binding] # None => Reusable(binding)
          /\ call' = [call EXCEPT ![p] = "over"]
          /\ IF NeedsLook(Runtime, binding)
             THEN LooksAt(Runtime, binding) ELSE UNCHANGED <<task, early>>
          /\ UNCHANGED binding
       \/ /\ binding # None => ~Reusable(binding)
          /\ binding' = p
          /\ call' = [call EXCEPT ![p] = "bound"]
          /\ UNCHANGED <<task, early>>
    /\ UNCHANGED <<rec, lease, run, monitors, stop, faults>>

CreateRecord(p) ==
    /\ call[p] = "bound"
    /\ rec' = [rec EXCEPT ![p] = [status |-> "starting", refs |-> FALSE,
                                  identity |-> "none", released |-> FALSE]]
    /\ call' = [call EXCEPT ![p] = "created"]
    /\ UNCHANGED <<binding, lease, run, monitors, task, stop, faults, early>>

(* acquireExecutionLeases: at once, after a look at the process that has    *)
(* the lease, or in the loop that waits for it.  The other reason to wait,  *)
(* evaluateManagedProcessWorkCompatibility, is one with elsewhere.          *)
Turn(p) ==
    \/ call[p] \in {"created", "retry"} /\ task[Runtime] = None
    \/ call[p] = "wait" /\ Idle(Runtime)

Acquire(p) ==
    /\ Turn(p)
    /\ lease = {}
    /\ lease' = {p}
    /\ call' = [call EXCEPT ![p] = "have"]
    /\ UNCHANGED <<binding, rec, run, monitors, task, stop, faults, early>>

Blocked(p) ==
    /\ Turn(p) /\ call[p] # "wait"
    /\ lease # {}
    /\ call' = [call EXCEPT ![p] = IF @ = "created" THEN "retry" ELSE "wait"]
    /\ LET holders == {q \in lease : NeedsLook(Runtime, q)} IN
       IF call[p] = "created" /\ holders # {}
       THEN \E q \in holders : LooksAt(Runtime, q)
       ELSE UNCHANGED <<task, early>>
    /\ UNCHANGED <<disk, run, monitors, stop, faults>>

(* The time to wait is over: PROCESS_LEASE_CONFLICT.                        *)
LeaseConflict(p) ==
    /\ call[p] = "wait" /\ Idle(Runtime)
    /\ task' = [task EXCEPT ![Runtime] = Completing(p, "failed")]
    /\ call' = [call EXCEPT ![p] = "over"]
    /\ UNCHANGED <<disk, run, monitors, stop, faults, early>>

Refs(p) ==
    /\ call[p] = "have"
    /\ rec' = [rec EXCEPT ![p] = Updated(@, [@ EXCEPT !.refs = TRUE])]
    /\ call' = [call EXCEPT ![p] = "refs"]
    /\ UNCHANGED <<binding, lease, run, monitors, task, stop, faults, early>>

(* spawnProcessRunner, whatever the record says by now.                     *)
Launch(p) ==
    /\ call[p] = "refs"
    /\ runner' = [runner EXCEPT ![p] = "spawned"]
    /\ call' = [call EXCEPT ![p] = "launched"]
    /\ UNCHANGED <<disk, cmd, told, receipt, monitors, task, stop, faults, early>>

(* ... or it throws, or there is no process: releaseProcessLeasesOnce does  *)
(* nothing as long as the record is active, and again after it is complete. *)
LaunchFails(p) ==
    /\ call[p] = "refs" /\ faults < MaxFaults
    /\ faults' = faults + 1
    /\ task' = [task EXCEPT ![Runtime] = Completing(p, "failed")]
    /\ call' = [call EXCEPT ![p] = "over"]
    /\ UNCHANGED <<disk, run, monitors, stop, early>>

(* captureIdentity of the runner, which may have exited, and whose start    *)
(* time may be out of reach; the record; attachRunnerMonitor.               *)
Identify(p) ==
    /\ call[p] = "launched"
    /\ \E identity \in Identity :
         rec' = [rec EXCEPT ![p] =
                   Updated(@, [@ EXCEPT !.status = "running", !.identity = identity])]
    /\ monitors' = monitors \union {p}
    /\ call' = [call EXCEPT ![p] = "over"]
    /\ UNCHANGED <<binding, lease, run, task, stop, faults, early>>

-----------------------------------------------------------------------------
(* An actor asks for a process that it does not watch.                      *)
Free(l) == Idle(l) /\ ~(l = Sweep /\ stop # None /\ stop.by = Sweep)

Look(l, p) ==
    /\ Free(l) /\ NeedsLook(l, p)
    /\ LooksAt(l, p)
    /\ UNCHANGED <<disk, call, run, monitors, stop, faults>>

(* identityStillMatches of the identity that was in the record              *)
(* Mutant: a runner that has not started the command yet is not there.      *)
MutMatches(p, seen) == seen = "good" /\ cmd[p] = "none"

(* Mutant: that there was one is enough.                                    *)
MutTrusts(p, seen) == seen = "good"

Matches(p, seen) == seen = "good" /\ RunnerAlive(p)

LookIdentity(l) ==
    /\ task[l] # None /\ task[l].at = "identity"
    /\ task' = [task EXCEPT ![l] =
                  IF Matches(@.of, @.seen) THEN None ELSE Completing(@.of, "unknown")]
    /\ UNCHANGED <<disk, call, run, monitors, stop, faults, early>>

(* completeProcessFromEvidence: the record, then releaseProcessLeasesOnce.  *)
CompleteRecord(l) ==
    /\ task[l] # None /\ task[l].at = "write"
    /\ LET p == task[l].of IN rec' = [rec EXCEPT ![p] = Completed(@, task[l].as)]
    /\ task' = [task EXCEPT ![l] = Releasing(@.of)]
    /\ UNCHANGED <<binding, lease, call, run, monitors, stop, faults, early>>

Release(l) ==
    /\ task[l] # None /\ task[l].at = "release"
    /\ LET p == task[l].of IN
       IF rec[p].released THEN UNCHANGED <<rec, lease>>
       ELSE /\ lease' = lease \ {p}
            /\ rec' = [rec EXCEPT ![p].released = TRUE]
    /\ task' = [task EXCEPT ![l] = None]
    /\ UNCHANGED <<binding, call, run, monitors, stop, faults, early>>

(* settleProcesses, for a process that is terminal and has its leases yet   *)
Settle(p) ==
    /\ Free(Sweep) /\ IsTerminal(p) /\ ~rec[p].released
    /\ task' = [task EXCEPT ![Sweep] = Releasing(p)]
    /\ UNCHANGED <<disk, call, run, monitors, stop, faults, early>>

(* reconcileAbandonedPreSpawnProcess, five minutes after the last write     *)
Abandon(p) ==
    /\ Free(Sweep) /\ call[p] = "over"
    /\ rec[p] # None /\ rec[p].status = "starting"
    /\ rec[p].identity = "none" /\ ~rec[p].refs /\ receipt[p] = "none"
    /\ task' = [task EXCEPT ![Sweep] = Completing(p, "failed")]
    /\ UNCHANGED <<disk, call, run, monitors, stop, faults, early>>

(* The runner's close event, and finalizeMonitor: without a receipt of the  *)
(* runner it writes one of its own, with exit code 1.                       *)
Close(p) ==
    /\ Idle(Runtime) /\ p \in monitors /\ ~RunnerAlive(p)
    /\ receipt' = [receipt EXCEPT ![p] = IF @ = "none" THEN "bad" ELSE @]
    /\ monitors' = monitors \ {p}
    /\ task' = [task EXCEPT ![Runtime] = Completing(p, Outcome(receipt'[p]))]
    /\ UNCHANGED <<disk, call, runner, cmd, told, stop, faults, early>>

-----------------------------------------------------------------------------
(* cancelProcess: it signals a runner it watches or can identify, awaits    *)
(* its end, and writes the receipt and the record of a cancellation.        *)
StopBegins(l, p) ==
    /\ Free(l) /\ stop = None /\ IsActive(p) /\ faults < MaxFaults
    /\ faults' = faults + 1
    /\ early' = IF Launching(p) THEN early \union {p} ELSE early
    /\ \/ /\ Watches(l, p) \/ Matches(p, rec[p].identity)
          /\ told' = [told EXCEPT ![p] = @ \/ RunnerAlive(p)]
          /\ stop' = [of |-> p, by |-> l, watched |-> Watches(l, p)]
          /\ UNCHANGED task
       \/ /\ ~Watches(l, p) /\ ~Matches(p, rec[p].identity)
          /\ \/ task' = [task EXCEPT ![l] = Stopping(p)]
             \/ /\ rec[p].status = "running" /\ rec[p].identity = "none"
                /\ task' = [task EXCEPT ![l] = Completing(p, "unknown")]
          /\ UNCHANGED <<told, stop>>
    /\ UNCHANGED <<disk, call, runner, cmd, receipt, monitors>>

(* killTree or terminateProcessTree: SIGKILL, to the runner's group only    *)
StopKills ==
    /\ stop # None /\ RunnerAlive(stop.of)
    /\ Gone(stop.of)
    /\ UNCHANGED <<disk, call, cmd, receipt, monitors, task, stop, faults>>

StopEnds ==
    /\ stop # None /\ ~RunnerAlive(stop.of) /\ Idle(stop.by)
    /\ task' = [task EXCEPT ![stop.by] =
                  IF stop.watched /\ IsTerminal(stop.of) THEN None
                  ELSE Stopping(stop.of)]
    /\ stop' = None
    /\ UNCHANGED <<disk, call, run, monitors, faults, early>>

StopWrites(l) ==
    /\ task[l] # None /\ task[l].at = "stop"
    /\ receipt' = [receipt EXCEPT ![task[l].of] = IF @ = "none" THEN "stopped" ELSE @]
    /\ task' = [task EXCEPT ![l].at = "write"]
    /\ UNCHANGED <<disk, call, runner, cmd, told, monitors, stop, faults, early>>

-----------------------------------------------------------------------------
(* runProcessRunnerFromDescriptor: a receipt is an order not to start.  A   *)
(* signal before that ends the runner.                                      *)
RunnerStarts(p) ==
    /\ runner[p] = "spawned"
    /\ IF told[p] \/ receipt[p] # "none"
       THEN Gone(p) /\ UNCHANGED cmd
       ELSE /\ runner' = [runner EXCEPT ![p] = "running"]
            /\ cmd' = [cmd EXCEPT ![p] = "running"]
            /\ UNCHANGED <<told, early>>
    /\ UNCHANGED <<disk, call, receipt, monitors, task, stop, faults>>

TimeOut(p) ==
    /\ runner[p] = "running" /\ cmd[p] = "running" /\ ~told[p]
    /\ told' = [told EXCEPT ![p] = TRUE]
    /\ UNCHANGED <<disk, call, runner, cmd, receipt, monitors, task, stop, faults, early>>

(* killTree of the command                                                  *)
RunnerKills(p) ==
    /\ runner[p] = "running" /\ cmd[p] = "running" /\ told[p]
    /\ cmd' = [cmd EXCEPT ![p] = "bad"]
    /\ UNCHANGED <<disk, call, runner, told, receipt, monitors, task, stop, faults, early>>

CmdEnds(p) ==
    /\ cmd[p] = "running"
    /\ \E result \in {"ok", "bad"} : cmd' = [cmd EXCEPT ![p] = result]
    /\ UNCHANGED <<disk, call, runner, told, receipt, monitors, task, stop, faults, early>>

RunnerReports(p) ==
    /\ runner[p] = "running" /\ cmd[p] \in {"ok", "bad"}
    /\ receipt' = [receipt EXCEPT ![p] = IF told[p] THEN "stopped" ELSE cmd[p]]
    /\ Gone(p)
    /\ UNCHANGED <<disk, call, cmd, monitors, task, stop, faults>>

-----------------------------------------------------------------------------
(* What dies: a runner, whose command has a process group of its own and    *)
(* goes on, or an actor, with all it was doing.                             *)
RunnerDies(p) ==
    /\ runner[p] \in {"spawned", "running"} /\ faults < MaxFaults
    /\ faults' = faults + 1
    /\ Gone(p)
    /\ UNCHANGED <<disk, call, cmd, receipt, monitors, task, stop>>

ActorDies(l) ==
    /\ faults < MaxFaults
    /\ faults' = faults + 1
    /\ task' = [task EXCEPT ![l] = None]
    /\ stop' = IF stop # None /\ stop.by = l THEN None ELSE stop
    /\ IF l = Sweep THEN UNCHANGED <<call, monitors>>
       ELSE /\ monitors' = {}
            /\ call' = [p \in Procs |-> IF call[p] = "idle" THEN "idle" ELSE "over"]
    /\ UNCHANGED <<disk, run, early>>

(* The leases outlast the timeout of the command by half a minute.          *)
Expire(p) ==
    /\ p \in lease /\ ~Launching(p) /\ runner[p] \notin {"spawned", "running"}
    /\ lease' = lease \ {p}
    /\ UNCHANGED <<binding, rec, call, run, monitors, task, stop, faults, early>>

Proceeds(l) == LookIdentity(l) \/ CompleteRecord(l) \/ Release(l) \/ StopWrites(l)
RunnerProceeds(p) == RunnerStarts(p) \/ TimeOut(p) \/ RunnerKills(p) \/ RunnerReports(p)
StopProceeds == StopKills \/ StopEnds

ProcessNext ==
    \/ \E p \in Procs :
         \/ Ask(p) \/ CreateRecord(p) \/ Acquire(p) \/ Blocked(p) \/ LeaseConflict(p)
         \/ Refs(p) \/ Launch(p) \/ LaunchFails(p) \/ Identify(p)
         \/ Settle(p) \/ Abandon(p) \/ Close(p) \/ Expire(p)
         \/ RunnerProceeds(p) \/ CmdEnds(p) \/ RunnerDies(p)
    \/ \E l \in Actors :
         \/ Proceeds(l) \/ ActorDies(l)
         \/ \E p \in Procs : Look(l, p) \/ StopBegins(l, p)
    \/ StopProceeds

(* The runner goes on and has a timeout, time passes for the leases, the    *)
(* worker comes back to the record of a running process and goes on, and a  *)
(* cancellation does not wait for ever.                                     *)
Fairness ==
    /\ \A p \in Procs :
         /\ WF_processVars(RunnerProceeds(p)) /\ WF_processVars(Expire(p))
         /\ SF_processVars(Running(p) /\ Look(Sweep, p))
    /\ WF_processVars(Proceeds(Sweep)) /\ WF_processVars(StopProceeds)

ProcessSpec == ProcessInit /\ [][ProcessNext]_processVars /\ Fairness

-----------------------------------------------------------------------------
ProcessTypeOK ==
    /\ binding \in Procs \union {None}
    /\ rec \in [Procs -> Record \union {None}]
    /\ lease \subseteq Procs
    /\ call \in [Procs -> Phase]
    /\ runner \in [Procs -> {"none", "spawned", "running", "gone"}]
    /\ cmd \in [Procs -> {"none", "running", "ok", "bad"}]
    /\ told \in [Procs -> BOOLEAN]
    /\ receipt \in [Procs -> Receipt]
    /\ monitors \subseteq Procs
    /\ task \in [Actors -> Task \union {None}]
    /\ stop \in Cancel \union {None}
    /\ faults \in 0 .. MaxFaults
    /\ early \subseteq Procs

(* What a record says of the outcome is so: success only of a command that  *)
(* succeeded, and leases are released of what is over.                      *)
TrueOutcome ==
    \A p \in Procs : rec[p] # None =>
        /\ rec[p].status = "succeeded" => cmd[p] = "ok"
        /\ rec[p].released => rec[p].status \in Terminal

(* What is settled is on record; a process is bound before it is recorded,  *)
(* recorded before it is launched, and identified last; and an outcome on   *)
(* its way to a record or a receipt is that of the command.                 *)
RecordsLinked ==
    /\ \A p \in Procs :
         /\ call[p] \in {"idle", "bound"} => rec[p] = None
         /\ call[p] = "bound" => binding = p
         /\ call[p] \in {"created", "retry", "wait", "have", "refs", "launched"} => rec[p] # None
         /\ rec[p] = None => receipt[p] = "none" /\ runner[p] = "none" /\ p \notin monitors
         /\ rec[p] # None /\ rec[p].identity = "good" => call[p] = "over"
         /\ call[p] \notin {"launched", "over"} => runner[p] = "none"
         /\ p \in monitors => call[p] = "over"
         /\ runner[p] \in {"none", "spawned"} => cmd[p] = "none"
         /\ receipt[p] = "ok" => cmd[p] = "ok"
    /\ \A l \in Actors : task[l] # None =>
         /\ rec[task[l].of] # None
         /\ task[l].as = "succeeded" => cmd[task[l].of] = "ok"
         /\ task[l].at = "release" => IsTerminal(task[l].of)
    /\ stop # None => rec[stop.of] # None

(* A process that is on its way to the launch, or has a runner and is       *)
(* identified, and was not looked at too early: it has no outcome yet, and  *)
(* nobody is about to give it one or to take its lease.                     *)
Clear(p) ==
    /\ p \notin early /\ runner[p] # "gone"
    /\ Launching(p) \/ (RunnerAlive(p) /\ rec[p].identity = "good")
Untouched(p) ==
    /\ receipt[p] = "none"
    /\ rec[p] # None => IsActive(p)
    /\ call[p] \notin {"bound", "created", "retry", "wait"} => p \in lease
    /\ \A l \in Actors : task[l] # None /\ task[l].of = p =>
          ~Launching(p) /\ task[l].at = "identity" /\ task[l].seen = "good"
    /\ stop # None /\ stop.of = p => ~Launching(p)
ClearUntouched == \A p \in Procs : Clear(p) => Untouched(p)

ProcessInv == ProcessTypeOK /\ TrueOutcome /\ RecordsLinked /\ ClearUntouched

(* However many ask, and whoever settles what at the same time, one process *)
(* at most is at work on the check or has passed it, and that is the bound  *)
(* one, which the next request will be given.                               *)
OneValid ==
    \A p \in Procs : Reusable(p) => binding = p

(* A command that runs under its runner, and was identified before anybody  *)
(* looked at it, has an active record and its lease, whatever is lost or    *)
(* looked at meanwhile.                                                     *)
Attended ==
    \A p \in Procs :
        /\ runner[p] = "running" /\ cmd[p] = "running"
        /\ rec[p] # None /\ rec[p].identity = "good" /\ p \notin early
        => IsActive(p) /\ p \in lease

(* Once a process was started, there is a moment when every process that    *)
(* was is recorded as over and has no lease any more, though the runtime,   *)
(* the runner or the worker may die, and nobody asks.                       *)
Settles ==
    (\E p \in Procs : Running(p))
        ~> \A p \in Procs : ~Running(p) /\ (IsTerminal(p) => p \notin lease)

(* runtime.ts: "do not fabricate a deterministic failure"                   *)
FailureIsReal ==
    \A p \in Procs :
        rec[p] # None /\ rec[p].status = "failed" => cmd[p] # "ok"
=============================================================================
