---------------------------- MODULE PlanContracts ----------------------------
(***************************************************************************)
(* Plans, their steps and the Works that carry the steps out               *)
(* (src/runtime/control-plane/facade/plan-contract-store.ts, with          *)
(* startGoalWorkloop, stopGoalWorkloop and the repairs of the gateway).    *)
(*                                                                         *)
(* A step is claimed by one Work, released when that Work fails, put under *)
(* semantic validation when it is delivered, and completed when the        *)
(* controller accepts it.  A plan is replaced by a successor, at once or,  *)
(* while one of its steps is being carried out, when the successor is      *)
(* approved; a Work whose step stands in the successor is rebound to it,   *)
(* the others are retired.                                                 *)
(*                                                                         *)
(* The gateway does not yield within a request, but it dies between the    *)
(* record of a Work and the record of its plan; the maintenance runs in a  *)
(* process of its own.  One scope: every plan wants to be its authority.   *)
(***************************************************************************)
EXTENDS Naturals, FiniteSets

CONSTANTS
    Steps,        \* the steps a plan of this scope can have
    Before,       \* the steps each step depends on
    MaxPlans,     \* bound on plans
    MaxWorks,     \* bound on Works
    MaxHead,      \* bound on the source revisions
    MaxFaults,    \* bound on crashes, and on failed Works that go on
    None

ASSUME PlanNumbers == {MaxPlans, MaxWorks, MaxHead, MaxFaults} \subseteq Nat
ASSUME PlanSteps == Before \in [Steps -> SUBSET Steps]

VARIABLES
    plan,         \* plan contracts, by their number, or None
    work,         \* Work contracts, by their number, or None
    head,         \* the source revision of the repository
    call,         \* what the request under way has still to do, or None
    faults,
    revived       \* the plans that were terminal and are open again, and
                  \* the plans that take their place

vars == <<plan, work, head, call, faults, revived>>

Plans == 1 .. MaxPlans
Works == 1 .. MaxWorks
Heads == 0 .. MaxHead

Finished == {"finalized", "superseded", "invalidated"}
Committed == {"approved", "executing", "replanning", "verifying"}
PlanStatus == {"draft"} \union Committed \union Finished
Step == [status : {"pending", "ready", "executing", "validating", "completed"},
         work : Works \union {None}]
Plan ==
    [status : PlanStatus, source : Heads,
     own : SUBSET Steps,                    \* the steps it has
     step : [Steps -> Step],
     from : Plans \union {None},            \* the plan it supersedes
     kept : SUBSET Steps,                   \* the steps it has unchanged from there
     covers : SUBSET Steps,                 \* the obligations it disposes of
     carried : [Steps -> Works \union {None}]]
Work == [status : {"active", "completed", "failed", "cancelled"},
         plan : Plans, step : Steps, source : Heads,
         at : Heads]                        \* the revision that has its delivery
Call == [op : {"claim", "project"}, work : Works]

ASSUME PlanNone == None \notin Nat \union Plan \union Work \union Call

Init ==
    /\ plan = [p \in Plans |-> None]
    /\ work = [w \in Works |-> None]
    /\ head = 0 /\ call = None /\ faults = 0 /\ revived = {}

-----------------------------------------------------------------------------
(* The gateway answers one request at a time.                               *)
Ready == call = None

Made == {p \in Plans : plan[p] # None}
Open(p) == p \in Made /\ plan[p].status \notin Finished
Started == {w \in Works : work[w] # None}
Active == {w \in Started : work[w].status = "active"}

NewPlan(p) == p \in Plans \ Made /\ \A r \in Plans \ Made : p <= r
NewWork(w) == w \in Works \ Started /\ \A v \in Works \ Started : w <= v

Unbound(status) == [status |-> status, work |-> None]
Needs(pl, s) == Before[s] \intersect pl.own
Done(pl) == {s \in pl.own : pl.step[s].status = "completed"}
DependenciesDone(pl, s) == Needs(pl, s) \subseteq Done(pl)

(* projectDependencyReadySteps                                              *)
Projected(pl) ==
    [pl EXCEPT !.step = [s \in Steps |->
        IF s \in pl.own /\ @[s].status = "pending" /\ DependenciesDone(pl, s)
        THEN Unbound("ready") ELSE @[s]]]

(* listUnresolvedPlanObligations: what a successor has to dispose of.       *)
Obligations(pl) == pl.own \ Done(pl)

(* workMatchesPlanStep                                                      *)
Matches(w, p, s) ==
    /\ s \in plan[p].own
    /\ plan[p].step[s] = [status |-> "executing", work |-> w]
    /\ work[w].plan = p /\ work[w].step = s /\ work[w].source = plan[p].source

(* hasCoherentActivePlanBoundWork                                           *)
Coherent(p) == \E w \in Active, s \in Steps : Matches(w, p, s)

(* deliveryCarryForStep: the delivery that a step of the successor reuses.  *)
Carry(p, s, kept, source) ==
    LET w == plan[p].step[s].work
    IN IF /\ s \in kept /\ plan[p].step[s].status = "validating"
          /\ work[w].status = "completed" /\ work[w].plan = p /\ work[w].step = s
          /\ work[w].source = plan[p].source /\ work[w].at <= source
       THEN w ELSE None

(* buildPlanContract, with the lineage and the carries of                   *)
(* replacePlanContractUnlocked and repairDraftPlanContractUnlocked          *)
Draft(from, own, kept, source) ==
    [status |-> "draft", source |-> source, own |-> own,
     step |-> [s \in Steps |-> Unbound("pending")],
     from |-> from, kept |-> kept,
     covers |-> IF from = None THEN {} ELSE Obligations(plan[from]),
     carried |-> [s \in Steps |->
        IF from = None THEN None ELSE Carry(from, s, kept, source)]]

(* samePlanStepExecutionContract can hold of these steps only.              *)
Keepable(p, own) ==
    {s \in own \intersect plan[p].own :
        Before[s] \intersect own = Needs(plan[p], s)}

(* writePlanSupersessionWithWorkRetirement: q takes the place of p, in one  *)
(* transaction with the Works of p.                                         *)
(* Mutant: the Work is rebound, the step of the successor is left alone.    *)
MutSupersededBy(p, q, successor) ==
    LET of(w) == w \in Active /\ work[w].plan = p
        moves(w) == of(w) /\ \E s \in successor.kept : Matches(w, p, s)
    IN /\ plan' = [plan EXCEPT ![p].status = "superseded", ![q] =
              [successor EXCEPT
                  !.status = IF \E w \in Works : moves(w) THEN "executing" ELSE @]]
       /\ work' = [w \in Works |->
              IF moves(w) THEN [work[w] EXCEPT !.plan = q, !.source = successor.source]
              ELSE IF of(w) THEN [work[w] EXCEPT !.status = "cancelled"] ELSE work[w]]

SupersededBy(p, q, successor) ==
    LET of(w) == w \in Active /\ work[w].plan = p
        moves(w) == of(w) /\ \E s \in successor.kept : Matches(w, p, s)
        mover(s) == {w \in Works : moves(w) /\ work[w].step = s}
    IN /\ plan' = [plan EXCEPT ![p].status = "superseded", ![q] =
              [successor EXCEPT
                  !.status = IF \E w \in Works : moves(w) THEN "executing" ELSE @,
                  !.step = [s \in Steps |->
                      IF mover(s) = {} THEN @[s]
                      ELSE [status |-> "executing",
                            work |-> CHOOSE w \in mover(s) : TRUE]]]]
       /\ work' = [w \in Works |->
              IF moves(w) THEN [work[w] EXCEPT !.plan = q, !.source = successor.source]
              ELSE IF of(w) THEN [work[w] EXCEPT !.status = "cancelled"] ELSE work[w]]

Reopens(p, status) == plan[p].status \in Finished /\ status \notin Finished
Reopened(p, status) ==
    revived' = IF Reopens(p, status) THEN revived \union {p} ELSE revived

-----------------------------------------------------------------------------
(* createPlanContract, and the admission of a plan that extends none        *)
Create(p) ==
    /\ Ready /\ NewPlan(p)
    /\ \A r \in Made : ~Open(r)
    /\ plan' = [plan EXCEPT ![p] = Draft(None, Steps, {}, head)]
    /\ UNCHANGED <<work, head, call, faults, revived>>

(* replacePlanContractUnlocked: while a Work of the predecessor is at work  *)
(* the successor is staged.                                                 *)
Extendable(p) == Open(p) \/ (p \in Made /\ plan[p].status = "invalidated")

Extend(p, q) ==
    /\ Ready /\ NewPlan(q) /\ Extendable(p)
    /\ \A r \in Made \ {p} : ~Open(r)
    /\ \E own \in SUBSET Steps \ {{}} : \E kept \in SUBSET Keepable(p, own) :
          IF Coherent(p)
          THEN /\ plan' = [plan EXCEPT ![p].status = "replanning", ![q] = Draft(p, own, kept, head)]
               /\ UNCHANGED work
          ELSE SupersededBy(p, q, Draft(p, own, kept, head))
    /\ UNCHANGED <<head, call, faults, revived>>

(* repairDraftPlanContractUnlocked: with a new source revision or the old.  *)
Redraft(q) ==
    /\ Ready /\ q \in Made /\ plan[q].status = "draft"
    /\ \A r \in Made \ {q} : Open(r) => r = plan[q].from
    /\ \E own \in SUBSET Steps \ {{}}, source \in {plan[q].source, head} :
       \E kept \in SUBSET IF plan[q].from = None THEN {} ELSE Keepable(plan[q].from, own) :
          plan' = [plan EXCEPT ![q] = Draft(plan[q].from, own, kept, source)]
    /\ UNCHANGED <<work, head, call, faults, revived>>

(* approvalErrors                                                           *)
(* Mutant: the other plans of the scope are not looked at.                  *)
MutApprovable(q) ==
    plan[q].from # None => plan[q].covers = Obligations(plan[plan[q].from])

Approvable(q) ==
    LET p == plan[q].from
    IN /\ \A r \in Made \ {q} :
             plan[r].status \in Committed => r = p /\ plan[r].status = "replanning"
       /\ p # None => plan[q].covers = Obligations(plan[p])

(* approvePlanContractUnlocked, with materializePlanStepDeliveryCarries:    *)
(* a carry must still be the one that was recorded.                         *)
Approve(q) ==
    LET p == plan[q].from
        brought == {s \in Steps : plan[q].carried[s] # None}
        next == Projected([plan[q] EXCEPT
                    !.status = IF brought = {} THEN "approved" ELSE "verifying",
                    !.step = [s \in Steps |->
                        IF s \in brought
                        THEN [status |-> "validating", work |-> plan[q].carried[s]]
                        ELSE @[s]]])
    IN /\ Ready /\ q \in Made /\ plan[q].status = "draft"
       /\ Approvable(q)
       /\ \A s \in brought :
             plan[q].carried[s] = Carry(p, s, plan[q].kept, plan[q].source)
       /\ IF p # None /\ plan[p].status = "replanning"
          THEN SupersededBy(p, q, next)
          ELSE plan' = [plan EXCEPT ![q] = next] /\ UNCHANGED work
       /\ UNCHANGED <<head, call, faults, revived>>

(* supersedePlanContract: the successor is taken as it is, approved or not. *)
Supersede(p, q) ==
    /\ Ready /\ Open(p) /\ q \in Made /\ plan[q].from = p
    /\ plan[q].covers = Obligations(plan[p])
    /\ SupersededBy(p, q, plan[q])
    /\ revived' = IF Reopens(q, plan'[q].status) \/ p \in revived
                  THEN revived \union {q} ELSE revived
    /\ UNCHANGED <<head, call, faults>>

-----------------------------------------------------------------------------
(* startGoalWorkloop: the Work is recorded, then it claims the step.  The   *)
(* caller may ask for a second Work beside the one that has the step.       *)
Start(w, p, s) ==
    LET at == plan[p].step[s]
    IN /\ Ready /\ NewWork(w) /\ p \in Made /\ s \in plan[p].own
       /\ plan[p].status \in {"approved", "executing"}
       /\ Cardinality({v \in Active : work[v].plan = p /\ work[v].step = s}) <= 1
       /\ at.work # None => at.work \in Active
       /\ IF plan[p].source # head
          THEN /\ plan' = [plan EXCEPT ![p].status = "invalidated"]
               /\ UNCHANGED <<work, call>>
          ELSE /\ DependenciesDone(plan[p], s) /\ at.status # "completed"
               /\ work' = [work EXCEPT ![w] = [status |-> "active", plan |-> p,
                              step |-> s, source |-> head, at |-> 0]]
               /\ call' = [op |-> "claim", work |-> w]
               /\ UNCHANGED plan
       /\ UNCHANGED <<head, faults, revived>>

(* claimPlanStepForWork; a caller that is refused keeps its Work.           *)
Claimable(pl, s) ==
    /\ pl.status \in {"approved", "executing"}
    /\ pl.step[s].status \notin {"executing", "completed"} /\ pl.step[s].work = None
    /\ DependenciesDone(pl, s)

Claim(w) ==
    LET p == work[w].plan
        s == work[w].step
    IN /\ call = [op |-> "claim", work |-> w]
       /\ call' = None
       /\ plan' = IF ~Claimable(plan[p], s) THEN plan
                  ELSE [plan EXCEPT ![p].status = "executing",
                           ![p].step[s] = [status |-> "executing", work |-> w]]
       /\ UNCHANGED <<work, head, faults, revived>>

(* A Work ends: completeWorkWithReceipt, stopGoalWorkloop, and the verdict  *)
(* of finalizeGoalWorkloop.  The delivery of a change moves the head.       *)
End(w, status, moved) ==
    /\ Ready /\ w \in Active /\ status \in {"completed", "failed", "cancelled"}
    /\ moved => status = "completed" /\ head < MaxHead
    /\ head' = IF moved THEN head + 1 ELSE head
    /\ work' = [work EXCEPT ![w].status = status, ![w].at = head']
    /\ call' = [op |-> "project", work |-> w]
    /\ UNCHANGED <<plan, faults, revived>>

(* completePlanStepForWork: nothing asks whether the plan is terminal.      *)
(* Mutant: any Work of the step speaks for it.                              *)
MutHolds(p, s, w) == p \in Made /\ s \in plan[p].own
Holds(p, s, w) == p \in Made /\ s \in plan[p].own /\ plan[p].step[s].work = w

Projection(p, s, w) ==
    LET ok == work[w].status = "completed"
        status == IF ok THEN "verifying" ELSE "replanning"
    IN IF Holds(p, s, w) /\ plan[p].step[s].status # "completed"
       THEN /\ plan' = [plan EXCEPT ![p].status = status,
                   ![p].step[s] = IF ok THEN [status |-> "validating", work |-> @.work]
                                  ELSE Unbound("ready")]
            /\ Reopened(p, status)
       ELSE UNCHANGED <<plan, revived>>

Project(w) ==
    /\ call = [op |-> "project", work |-> w]
    /\ call' = None
    /\ Projection(work[w].plan, work[w].step, w)
    /\ UNCHANGED <<work, head, faults>>

(* The repair of a step whose Work is terminal (runWorkRepair), and         *)
(* finalizeGoalWorkloop asked again of a completed Work.                    *)
Repair(p, s) ==
    /\ Ready /\ p \in Made /\ s \in plan[p].own
    /\ plan[p].step[s].work \in Started \ Active
    /\ Projection(p, s, plan[p].step[s].work)
    /\ UNCHANGED <<work, head, call, faults>>

(* acceptPlanStepEvidence                                                   *)
Accept(p, s) ==
    LET now == [plan[p] EXCEPT !.step[s].status = "completed", !.source = head]
        all == Done(now) = now.own
    IN /\ Ready /\ p \in Made /\ s \in plan[p].own /\ plan[p].step[s].status = "validating"
       /\ plan' = [plan EXCEPT ![p] =
              IF all THEN [now EXCEPT !.status = "finalized"]
              ELSE Projected([now EXCEPT !.status = "executing"])]
       /\ Reopened(p, IF all THEN "finalized" ELSE "executing")
       /\ UNCHANGED <<work, head, call, faults>>

(* repairPlanStepForTechnicalRetry                                          *)
TechnicalRetry(w) ==
    LET p == work[w].plan
        s == work[w].step
    IN /\ Ready /\ w \in Started /\ work[w].status \in {"failed", "cancelled"}
       /\ plan[p].status = "replanning" /\ plan[p].source = work[w].source
       /\ plan[p].step[s] = Unbound("ready") /\ DependenciesDone(plan[p], s)
       /\ ~ \E v \in Active : work[v].plan = p /\ work[v].step = s
       /\ plan' = [plan EXCEPT ![p].status = "executing"]
       /\ UNCHANGED <<work, head, call, faults, revived>>

(* replanActivePlanBoundWorkScope: one Work moves to a copy of its plan.    *)
ScopeReplan(p, q, s) ==
    LET w == plan[p].step[s].work
    IN /\ Ready /\ NewPlan(q) /\ p \in Made /\ s \in plan[p].own
       /\ plan[p].status \in {"executing", "replanning"}
       /\ plan[p].step[s].status = "executing" /\ w \in Active
       /\ work[w].plan = p /\ work[w].step = s
       /\ plan' = [plan EXCEPT ![p].status = "superseded",
                      ![q] = [plan[p] EXCEPT !.status = "executing", !.source = head,
                                 !.from = p, !.kept = {}, !.covers = {},
                                 !.carried = [t \in Steps |-> None]]]
       /\ work' = [work EXCEPT ![w].plan = q, ![w].source = head]
       /\ revived' = IF p \in revived THEN revived \union {q} ELSE revived
       /\ UNCHANGED <<head, call, faults>>

-----------------------------------------------------------------------------
(* A check that fails late, and a failed Work that is validated again: the  *)
(* plan is not told.                                                        *)
Fail(w) ==
    /\ Ready /\ w \in Active
    /\ work' = [work EXCEPT ![w].status = "failed"]
    /\ UNCHANGED <<plan, head, call, faults, revived>>

GoOn(w) ==
    /\ Ready /\ w \in Started /\ work[w].status = "failed" /\ faults < MaxFaults
    /\ faults' = faults + 1
    /\ work' = [work EXCEPT ![w].status = "active"]
    /\ UNCHANGED <<plan, head, call, revived>>

Drift ==
    /\ head < MaxHead /\ head' = head + 1
    /\ UNCHANGED <<plan, work, call, faults, revived>>

(* The process dies before the second record is written.                    *)
Crash ==
    /\ call # None /\ faults < MaxFaults
    /\ faults' = faults + 1
    /\ call' = None
    /\ UNCHANGED <<plan, work, head, revived>>

(* retireTerminalPlanBoundWorkAuthorities                                   *)
(* Mutant: a plan that drifted away is taken for one that goes on.          *)
MutStranded == {w \in Active : plan[work[w].plan].status \in Finished \ {"invalidated"}}
Stranded == {w \in Active : plan[work[w].plan].status \in Finished}

Retire ==
    /\ Stranded # {}
    /\ work' = [w \in Works |->
          IF w \in Stranded THEN [work[w] EXCEPT !.status = "cancelled"] ELSE work[w]]
    /\ UNCHANGED <<plan, head, call, faults, revived>>

Next ==
    \/ \E p \in Plans :
          \/ Create(p) \/ Redraft(p) \/ Approve(p)
          \/ \E q \in Plans : Extend(p, q) \/ Supersede(p, q)
          \/ \E s \in Steps :
                \/ Repair(p, s) \/ Accept(p, s)
                \/ \E q \in Plans : ScopeReplan(p, q, s)
                \/ \E w \in Works : Start(w, p, s)
    \/ \E w \in Works :
          \/ Claim(w) \/ Project(w) \/ TechnicalRetry(w) \/ Fail(w) \/ GoOn(w)
          \/ \E status \in {"completed", "failed", "cancelled"}, moved \in BOOLEAN :
                End(w, status, moved)
    \/ Drift \/ Crash \/ Retire

Spec == Init /\ [][Next]_vars

(* The cleanup process is started periodically by the global scheduler.     *)
Fairness == WF_vars(Retire)
FairSpec == Spec /\ Fairness

-----------------------------------------------------------------------------
TypeOK ==
    /\ plan \in [Plans -> Plan \union {None}]
    /\ work \in [Works -> Work \union {None}]
    /\ head \in Heads /\ faults \in Nat
    /\ call \in Call \union {None}
    /\ revived \subseteq Plans

(* What a step says of its Work: it was delivered, if the step is under     *)
(* validation or completed; and it is not bound before it is executed.      *)
StepsTrue ==
    \A p \in Made, s \in Steps :
       LET at == plan[p].step[s]
       IN /\ at.status \in {"pending", "ready"} <=> at.work = None
          /\ at.work # None => at.work \in Started /\ s \in plan[p].own
          /\ at.status \in {"validating", "completed"} => work[at.work].status = "completed"

(* What the records refer to is there: a successor has a predecessor other  *)
(* than itself, a draft has bound nothing, and a Work is of a step that its *)
(* plan, which was approved once, has.                                      *)
RecordsLinked ==
    /\ \A p \in Made :
          /\ plan[p].from # None => plan[p].from \in Made \ {p}
          /\ plan[p].kept \subseteq plan[p].own
          /\ plan[p].from = None => \A s \in Steps : plan[p].carried[s] = None
          /\ plan[p].status = "draft" => \A s \in Steps : plan[p].step[s] = Unbound("pending")
    /\ \A w \in Started :
          /\ work[w].plan \in Made /\ plan[work[w].plan].status # "draft"
          /\ work[w].step \in plan[work[w].plan].own
    /\ call # None => /\ call.work \in Started
                      /\ call.op = "project" => call.work \notin Active
PlanInv == TypeOK /\ StepsTrue /\ RecordsLinked

(* "An explicit extension is a serial replan, not a second active Plan":    *)
(* of the plans of a scope at most one is committed.  A plan that was       *)
(* terminal and is written again is no longer under this rule (see          *)
(* EndedForGood).                                                           *)
OneScopeAuthority ==
    \A p, q \in Made \ revived :
       plan[p].status \in Committed /\ plan[q].status \in Committed => p = q

(* "Competing callers cannot bind the same step": a Work that is at work    *)
(* keeps its step.  Whatever happens to plans and to other Works, the step  *)
(* it holds in its plan is not given away before it ends, and when it is    *)
(* moved to a successor, it holds the step there.                           *)
HolderKeepsStep ==
    [][\A w \in Active :
          LET held == Holds(work[w].plan, work[w].step, w)
          IN held /\ work'[w].status = "active" /\ work'[w].plan \notin revived'
                => held']_vars

(* A Work whose plan is terminal does not stay at work, although it may     *)
(* have been recorded, revived or left behind after its plan had ended.     *)
StrandedRetired ==
    \A w \in Works :
       LET stray == w \in Active /\ ~Open(work[w].plan)
       IN stray ~> ~stray

(* A plan that is superseded or finalized is history.                       *)
EndedForGood ==
    [][\A p \in Made :
          plan[p].status \in {"superseded", "finalized"} => plan'[p].status = plan[p].status]_vars

(* The maintenance "never touches Work bound to a current Plan".            *)
RetiresOnlyObsolete ==
    [][\A w \in Active, p \in Plans, s \in Steps :
          (Retire /\ work'[w].status = "cancelled") => ~(Open(p) /\ Holds(p, s, w))]_vars
=============================================================================
