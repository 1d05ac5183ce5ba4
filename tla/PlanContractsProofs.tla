------------------------- MODULE PlanContractsProofs -------------------------
(* What plans, steps and Works say of each other, that one plan of a scope  *)
(* has authority and that a Work keeps its step, for any steps, any         *)
(* dependencies between them, and any number of plans, Works and faults.    *)
EXTENDS PlanContracts, TLAPS

(* The invariant, plan by plan and Work by Work.                            *)
StepGood(pl, s) ==
    /\ pl.step[s].status \in {"pending", "ready"} <=> pl.step[s].work = None
    /\ pl.step[s].work # None => pl.step[s].work \in Started /\ s \in pl.own
    /\ pl.step[s].status \in {"validating", "completed"} =>
          work[pl.step[s].work].status = "completed"
PlanGood(p, pl) ==
    /\ pl \in Plan
    /\ pl.from # None => pl.from \in Made \ {p}
    /\ pl.kept \subseteq pl.own
    /\ pl.from = None => \A s \in Steps : pl.carried[s] = None
    /\ pl.status = "draft" => \A s \in Steps : pl.step[s] = Unbound("pending")
    /\ \A s \in Steps : StepGood(pl, s)
WorkGood(w) ==
    /\ work[w] \in Work
    /\ work[w].plan \in Made /\ plan[work[w].plan].status # "draft"
    /\ work[w].step \in plan[work[w].plan].own
CallGood ==
    call # None => /\ call \in Call /\ call.work \in Started
                   /\ call.op = "project" => call.work \notin Active

LEMMA Parts ==
    ASSUME PlanInv
    PROVE  /\ \A p \in Made : p \in Plans /\ PlanGood(p, plan[p])
           /\ \A w \in Started : w \in Works /\ WorkGood(w)
           /\ CallGood
<1>1. ASSUME NEW p \in Made PROVE p \in Plans /\ plan[p] \in Plan
  BY <1>1 DEF PlanInv, TypeOK, Made
<1>2. ASSUME NEW w \in Started PROVE w \in Works /\ work[w] \in Work
  BY <1>2 DEF PlanInv, TypeOK, Started
<1>3. QED
  BY <1>1, <1>2 DEF PlanInv, TypeOK, StepsTrue, RecordsLinked, PlanGood, StepGood, WorkGood, CallGood

LEMMA Assembled ==
    ASSUME (\A p \in Made : PlanGood(p, plan[p]))', (\A w \in Started : WorkGood(w))', CallGood',
           plan' \in [Plans -> Plan \union {None}], work' \in [Works -> Work \union {None}],
           head' \in Heads, faults' \in Nat, revived' \subseteq Plans
    PROVE  PlanInv'
<1>1. TypeOK'
  BY DEF TypeOK, CallGood
<1>2. StepsTrue'
  BY DEF StepsTrue, PlanGood, StepGood
<1>3. RecordsLinked'
  BY DEF RecordsLinked, PlanGood, WorkGood, CallGood
<1>4. QED
  BY <1>1, <1>2, <1>3 DEF PlanInv

LEMMA InitPlans == Init => PlanInv
<1> SUFFICES ASSUME Init PROVE PlanInv
  OBVIOUS
<1>1. Made = {} /\ Started = {}
  BY DEF Init, Made, Started
<1>2. 0 \in Heads
  BY PlanNumbers DEF Heads
<1>3. QED
  BY <1>1, <1>2 DEF Init, PlanInv, TypeOK, StepsTrue, RecordsLinked

LEMMA NoneApart ==
    /\ \A p \in Plans : p # None
    /\ \A w \in Works : w # None
    /\ \A r \in Plan : r # None
    /\ \A r \in Work : r # None
    /\ \A r \in Call : r # None
BY PlanNone, PlanNumbers DEF Plans, Works

(* The Works go on: none disappears and what is completed stays completed.  *)
WorksGoOn == \A w \in Started : /\ w \in Started'
                                /\ work[w].status = "completed" => work'[w].status = "completed"
PlansStay == Made \subseteq Made'

(* What is good of a plan stays good, and a plan may get another status.    *)
LEMMA PlanStands ==
    ASSUME WorksGoOn, PlansStay, NEW p, NEW pl, PlanGood(p, pl)
    PROVE  PlanGood(p, pl)'
<1>1. ASSUME NEW s \in Steps PROVE StepGood(pl, s)'
  BY NoneApart DEF PlanGood, StepGood, WorksGoOn, Plan, Step
<1>2. QED
  BY <1>1 DEF PlanGood, PlansStay

LEMMA StatusGood ==
    ASSUME NEW p, NEW pl, PlanGood(p, pl), NEW status \in PlanStatus \ {"draft"}
    PROVE  PlanGood(p, [pl EXCEPT !.status = status])
<1> DEFINE new == [pl EXCEPT !.status = status]
<1>1. /\ new \in Plan /\ new.status = status /\ new.from = pl.from /\ new.kept = pl.kept
      /\ new.own = pl.own /\ new.carried = pl.carried /\ new.step = pl.step
  BY DEF PlanGood, Plan
<1> HIDE DEF new
<1>2. PlanGood(p, new)
  BY <1>1 DEF PlanGood, StepGood
<1>3. QED
  BY <1>2 DEF new

-----------------------------------------------------------------------------
LEMMA DraftParts ==
    ASSUME PlanInv, NEW from \in Made \union {None}, NEW own \in SUBSET Steps, NEW kept \in SUBSET own,
           NEW source \in Heads, NEW q \in Plans, q # from
    PROVE  /\ PlanGood(q, Draft(from, own, kept, source))
           /\ Draft(from, own, kept, source).status = "draft"
           /\ Draft(from, own, kept, source).own = own
           /\ Draft(from, own, kept, source).from = from
<1> DEFINE d == Draft(from, own, kept, source)
           covers == IF from = None THEN {} ELSE Obligations(plan[from])
           carried == [s \in Steps |-> IF from = None THEN None ELSE Carry(from, s, kept, source)]
<1>1. covers \in SUBSET Steps
  BY Parts DEF Obligations, PlanGood, Plan
<1>2. carried \in [Steps -> Works \union {None}]
  <2>1. ASSUME NEW s \in Steps, from # None PROVE Carry(from, s, kept, source) \in Works \union {None}
    <3>1. plan[from] \in Plan
      BY <2>1, Parts DEF PlanGood
    <3>2. plan[from].step[s].work \in Works \union {None}
      BY <3>1 DEF Plan, Step
    <3>3. QED
      BY <3>2 DEF Carry
  <2>2. QED
    BY <2>1
<1>3. from = None => \A s \in Steps : carried[s] = None
  OBVIOUS
<1>4. [s \in Steps |-> Unbound("pending")] \in [Steps -> Step]
  BY DEF Unbound, Step
<1>5. d = [status |-> "draft", source |-> source, own |-> own,
           step |-> [s \in Steps |-> Unbound("pending")],
           from |-> from, kept |-> kept, covers |-> covers, carried |-> carried]
  BY DEF Draft
<1> HIDE DEF covers, carried
<1>6. from \in Plans \union {None} /\ (from # None => from \in Made \ {q})
  BY DEF Made
<1>7. /\ d \in Plan /\ d.status = "draft" /\ d.own = own /\ d.from = from /\ d.kept = kept
      /\ d.carried = carried /\ \A s \in Steps : d.step[s] = Unbound("pending")
  BY <1>1, <1>2, <1>4, <1>5, <1>6 DEF Plan, PlanStatus
<1> HIDE DEF d
<1>8. \A s \in Steps : StepGood(d, s)
  BY <1>7 DEF StepGood, Unbound
<1>9. PlanGood(q, d)
  BY <1>3, <1>6, <1>7, <1>8 DEF PlanGood
<1>10. QED
  BY <1>7, <1>9 DEF d

(* One plan is written or made, and no Work.                                *)
LEMMA OnePlanStep ==
    ASSUME PlanInv, NEW q \in Plans, NEW pl, PlanGood(q, pl), plan' = [plan EXCEPT ![q] = pl],
           UNCHANGED work, q \in Made => (pl.status = "draft" => plan[q].status = "draft"),
           q \in Made => plan[q].own = pl.own \/ plan[q].status = "draft",
           call' = None \/ UNCHANGED call,
           head' \in Heads, faults' \in Nat, revived' \subseteq Plans
    PROVE  PlanInv'
<1>1. plan' \in [Plans -> Plan \union {None}] /\ plan'[q] = pl /\ pl # None
      /\ \A p \in Plans : p # q => plan'[p] = plan[p]
  BY NoneApart DEF PlanInv, TypeOK, PlanGood
<1>2. Made' = Made \union {q} /\ Started' = Started
  BY <1>1 DEF Made, Started
<1>3. WorksGoOn /\ PlansStay
  BY <1>2 DEF WorksGoOn, PlansStay
<1>4. ASSUME NEW p \in Made' PROVE PlanGood(p, plan[p])'
  <2>1. PICK r : r = plan'[p] /\ PlanGood(p, r)
    BY <1>1, <1>2, Parts
  <2>2. PlanGood(p, r)'
    BY <1>3, <2>1, PlanStands
  <2>3. QED
    BY <2>1, <2>2
<1>5. ASSUME NEW w \in Started' PROVE WorkGood(w)'
  BY <1>1, <1>2, Parts DEF WorkGood
<1>6. CallGood'
  BY <1>2, Parts DEF CallGood, Active
<1>7. work' \in [Works -> Work \union {None}]
  BY DEF PlanInv, TypeOK
<1>8. QED
  BY <1>1, <1>4, <1>5, <1>6, <1>7, Assembled

(* A step is put to another use, and the plan gets another status.          *)
Put(pl, status, source, s, at) ==
    [pl EXCEPT !.status = status, !.source = source, !.step = [@ EXCEPT ![s] = at]]

LEMMA StepPut ==
    ASSUME NEW p, NEW pl, PlanGood(p, pl), NEW s \in Steps, NEW at \in Step,
           NEW status \in PlanStatus \ {"draft"},
           at.status \in {"pending", "ready"} <=> at.work = None,
           at.work # None => at.work \in Started /\ s \in pl.own,
           at.status \in {"validating", "completed"} => work[at.work].status = "completed",
           NEW source \in Heads
    PROVE  /\ PlanGood(p, Put(pl, status, source, s, at))
           /\ Put(pl, status, source, s, at).own = pl.own
           /\ Put(pl, status, source, s, at).status = status
<1> DEFINE step == [pl.step EXCEPT ![s] = at]
           new == [pl EXCEPT !.status = status, !.source = source, !.step = step]
<1>1. step \in [Steps -> Step] /\ step[s] = at /\ \A t \in Steps : t # s => step[t] = pl.step[t]
  BY DEF PlanGood, Plan
<1> HIDE DEF step
<1>2. /\ new \in Plan /\ new.status = status /\ new.from = pl.from /\ new.kept = pl.kept
      /\ new.own = pl.own /\ new.carried = pl.carried /\ new.step = step
  BY <1>1 DEF PlanGood, Plan
<1> HIDE DEF new
<1>3. \A t \in Steps : StepGood(new, t)
  BY <1>1, <1>2 DEF PlanGood, StepGood
<1>4. PlanGood(p, new)
  BY <1>2, <1>3 DEF PlanGood
<1>5. QED
  BY <1>2, <1>4 DEF new, step, Put

LEMMA ProjectedGood ==
    ASSUME NEW p, NEW pl, PlanGood(p, pl), pl.status # "draft"
    PROVE  /\ PlanGood(p, Projected(pl))
           /\ Projected(pl).own = pl.own /\ Projected(pl).status = pl.status
<1> DEFINE step == [s \in Steps |-> IF s \in pl.own /\ pl.step[s].status = "pending" /\ DependenciesDone(pl, s)
                                    THEN Unbound("ready") ELSE pl.step[s]]
           new == [pl EXCEPT !.step = step]
<1>1. step \in [Steps -> Step] /\ \A s \in Steps : step[s] = pl.step[s] \/ step[s] = Unbound("ready")
  BY DEF PlanGood, Plan, Step, Unbound
<1>2. Projected(pl) = new
  BY DEF Projected, PlanGood, Plan
<1> HIDE DEF step
<1>3. /\ new \in Plan /\ new.status = pl.status /\ new.from = pl.from /\ new.kept = pl.kept
      /\ new.own = pl.own /\ new.carried = pl.carried /\ new.step = step
  BY <1>1 DEF PlanGood, Plan
<1> HIDE DEF new
<1>4. \A s \in Steps : StepGood(new, s)
  BY <1>1, <1>3 DEF PlanGood, StepGood, Unbound
<1>5. PlanGood(p, new)
  BY <1>3, <1>4 DEF PlanGood
<1>6. QED
  BY <1>2, <1>3, <1>5

-----------------------------------------------------------------------------
LEMMA CreateStep == ASSUME PlanInv, NEW p \in Plans, Create(p) PROVE PlanInv'
<1>1. head \in Heads /\ faults \in Nat /\ revived \subseteq Plans /\ p # None /\ p \notin Made
  BY NoneApart DEF PlanInv, TypeOK, Create, NewPlan
<1>2. PICK pl : pl = Draft(None, Steps, {}, head) /\ PlanGood(p, pl)
  BY <1>1, DraftParts
<1>3. QED
  BY <1>1, <1>2, OnePlanStep DEF Create

LEMMA RedraftStep == ASSUME PlanInv, NEW q \in Plans, Redraft(q) PROVE PlanInv'
<1>1. head \in Heads /\ faults \in Nat /\ revived \subseteq Plans
  BY DEF PlanInv, TypeOK
<1>2. PlanGood(q, plan[q]) /\ plan[q].status = "draft" /\ q \in Made
  BY Parts DEF Redraft
<1>3. PICK own \in SUBSET Steps, source \in {plan[q].source, head} :
         \E kept \in SUBSET IF plan[q].from = None THEN {} ELSE Keepable(plan[q].from, own) :
            plan' = [plan EXCEPT ![q] = Draft(plan[q].from, own, kept, source)]
  BY DEF Redraft
<1>4. PICK kept \in SUBSET own : plan' = [plan EXCEPT ![q] = Draft(plan[q].from, own, kept, source)]
  BY <1>3 DEF Keepable
<1>5. source \in Heads
  BY <1>1, <1>2 DEF PlanGood, Plan
<1>6. plan[q].from \in Made \union {None} /\ plan[q].from # q
  BY <1>2, NoneApart DEF PlanGood
<1>7. PICK pl : /\ pl = Draft(plan[q].from, own, kept, source) /\ PlanGood(q, pl)
                /\ pl.status = "draft"
  BY <1>5, <1>6, DraftParts
<1>8. QED
  BY <1>1, <1>2, <1>4, <1>7, OnePlanStep DEF Redraft

LEMMA TechnicalRetryStep == ASSUME PlanInv, NEW w \in Works, TechnicalRetry(w) PROVE PlanInv'
<1>1. head \in Heads /\ faults \in Nat /\ revived \subseteq Plans
  BY DEF PlanInv, TypeOK
<1> DEFINE p == work[w].plan
<1>2. p \in Made /\ p \in Plans /\ PlanGood(p, plan[p])
  BY Parts DEF TechnicalRetry, WorkGood
<1> HIDE DEF p
<1>3. plan' = [plan EXCEPT ![p] = [plan[p] EXCEPT !.status = "executing"]]
  BY DEF TechnicalRetry, p
<1>4. PICK pl : pl = [plan[p] EXCEPT !.status = "executing"] /\ PlanGood(p, pl)
  BY <1>2, StatusGood DEF PlanStatus, Committed
<1>5. pl.status = "executing" /\ pl.own = plan[p].own
  BY <1>2, <1>4 DEF PlanGood, Plan
<1>6. QED
  BY <1>1, <1>2, <1>3, <1>4, <1>5, OnePlanStep DEF TechnicalRetry

LEMMA ClaimStep == ASSUME PlanInv, NEW w \in Works, Claim(w) PROVE PlanInv'
<1>1. head \in Heads /\ faults \in Nat /\ revived \subseteq Plans
  BY DEF PlanInv, TypeOK
<1> DEFINE p == work[w].plan
           s == work[w].step
<1>2. w \in Started /\ p \in Made /\ p \in Plans /\ s \in plan[p].own /\ PlanGood(p, plan[p])
  BY Parts, NoneApart DEF Claim, WorkGood, CallGood, Call
<1>3. s \in Steps
  BY <1>2 DEF PlanGood, Plan
<1>4. CASE plan' = plan
  <2>1. plan' = [plan EXCEPT ![p] = plan[p]]
    BY <1>4 DEF PlanInv, TypeOK
  <2>2. PICK pl : pl = plan[p] /\ PlanGood(p, pl)
    BY <1>2
  <2>3. QED
    BY <1>1, <1>2, <2>1, <2>2, OnePlanStep DEF Claim
<1>5. CASE plan' = [plan EXCEPT ![p].status = "executing",
                       ![p].step[s] = [status |-> "executing", work |-> w]]
  <2> DEFINE at == [status |-> "executing", work |-> w]
  <2>1. at \in Step /\ at.status = "executing" /\ at.work = w /\ w # None
    BY NoneApart DEF Step
  <2>2. plan' = [plan EXCEPT ![p].status = "executing", ![p].step[s] = at]
    BY <1>5
  <2> HIDE DEF p, s, at
  <2>3. plan[p].source \in Heads /\ "executing" \in PlanStatus \ {"draft"}
    BY <1>2 DEF PlanGood, Plan, PlanStatus, Committed
  <2>4. PICK pl : /\ pl = Put(plan[p], "executing", plan[p].source, s, at)
                  /\ PlanGood(p, pl) /\ pl.own = plan[p].own /\ pl.status = "executing"
    BY <1>2, <1>3, <2>1, <2>3, StepPut
  <2>5. pl = [plan[p] EXCEPT !.status = "executing", !.step = [@ EXCEPT ![s] = at]]
    BY <1>2, <2>4 DEF PlanGood, Plan, Put
  <2>6. plan' = [plan EXCEPT ![p] = pl]
    BY <1>2, <2>2, <2>5 DEF PlanGood, Plan, PlanInv, TypeOK
  <2>7. QED
    BY <1>1, <1>2, <2>4, <2>6, OnePlanStep DEF Claim
<1>6. QED
  BY <1>4, <1>5 DEF Claim

LEMMA ProjectionStep ==
    ASSUME PlanInv, NEW p, NEW s \in Steps, NEW w \in Started, Projection(p, s, w),
           UNCHANGED <<work, head, faults>>, call' = None \/ UNCHANGED call
    PROVE  PlanInv'
<1>1. head' \in Heads /\ faults' \in Nat /\ revived \subseteq Plans
  BY DEF PlanInv, TypeOK
<1>2. CASE UNCHANGED <<plan, revived>>
  <2>1. /\ Made' = Made /\ Started' = Started /\ Active' = Active
    BY <1>2 DEF Made, Started, Active
  <2>2. /\ plan' = plan /\ work' = work /\ head' = head /\ faults' = faults /\ revived' = revived
    BY <1>2
  <2>3. QED
    BY <2>1, <2>2 DEF PlanInv, TypeOK, StepsTrue, RecordsLinked
<1>3. CASE Holds(p, s, w) /\ ~UNCHANGED <<plan, revived>>
  <2> DEFINE ok == work[w].status = "completed"
             status == IF ok THEN "verifying" ELSE "replanning"
             at == IF ok THEN [status |-> "validating", work |-> plan[p].step[s].work] ELSE Unbound("ready")
  <2>1. p \in Made /\ p \in Plans /\ s \in plan[p].own /\ plan[p].step[s].work = w
        /\ PlanGood(p, plan[p]) /\ w \in Works /\ w # None
    BY <1>3, Parts, NoneApart DEF Holds
  <2>2. /\ plan' = [plan EXCEPT ![p].status = status, ![p].step[s] =
                         IF ok THEN [status |-> "validating", work |-> @.work] ELSE Unbound("ready")]
        /\ Reopened(p, status)
    BY <1>3 DEF Projection
  <2>3. /\ at \in Step /\ at.work = (IF ok THEN w ELSE None)
        /\ at.status = (IF ok THEN "validating" ELSE "ready")
    BY <2>1 DEF Step, Unbound
  <2>4. status \in PlanStatus \ {"draft"} /\ plan[p].source \in Heads
    BY <2>1 DEF PlanGood, Plan, PlanStatus, Committed
  <2>5. plan' = [plan EXCEPT ![p].status = status, ![p].step[s] = at]
    BY <2>2
  <2>6. ok => work[w].status = "completed"
    OBVIOUS
  <2>7. revived' \subseteq Plans
    BY <1>1, <2>1, <2>2 DEF Reopened
  <2> HIDE DEF at, status, ok
  <2>8. PICK pl : /\ pl = Put(plan[p], status, plan[p].source, s, at)
                  /\ PlanGood(p, pl) /\ pl.own = plan[p].own /\ pl.status = status
    <3>1. /\ at.status \in {"pending", "ready"} <=> at.work = None
          /\ at.work # None => at.work \in Started /\ s \in plan[p].own
          /\ at.status \in {"validating", "completed"} => work[at.work].status = "completed"
      BY <2>1, <2>3, <2>6
    <3>2. QED
      BY <2>1, <2>3, <2>4, <3>1, StepPut
  <2>9. pl = [plan[p] EXCEPT !.status = status, !.step = [@ EXCEPT ![s] = at]]
    BY <2>1, <2>8 DEF PlanGood, Plan, Put
  <2>10. plan' = [plan EXCEPT ![p] = pl]
    BY <2>1, <2>5, <2>9 DEF PlanGood, Plan, PlanInv, TypeOK
  <2>11. QED
    BY <1>1, <2>1, <2>4, <2>7, <2>8, <2>10, OnePlanStep
<1>4. QED
  BY <1>2, <1>3 DEF Projection

LEMMA ProjectStep == ASSUME PlanInv, NEW w \in Works, Project(w) PROVE PlanInv'
<1>1. w \in Started
  BY Parts, NoneApart DEF Project, CallGood, Call
<1>2. work[w].step \in Steps
  BY <1>1, Parts DEF WorkGood, Work
<1>3. QED
  BY <1>1, <1>2, ProjectionStep DEF Project

LEMMA RepairStep == ASSUME PlanInv, NEW p \in Plans, NEW s \in Steps, Repair(p, s) PROVE PlanInv'
BY ProjectionStep DEF Repair

LEMMA AcceptStep == ASSUME PlanInv, NEW p \in Plans, NEW s \in Steps, Accept(p, s) PROVE PlanInv'
<1> DEFINE at == [plan[p].step[s] EXCEPT !.status = "completed"]
           now == [plan[p] EXCEPT !.step[s].status = "completed", !.source = head]
           all == Done(now) = now.own
           status == IF all THEN "finalized" ELSE "executing"
           next == IF all THEN [now EXCEPT !.status = "finalized"]
                   ELSE Projected([now EXCEPT !.status = "executing"])
<1>1. /\ head \in Heads /\ faults \in Nat /\ revived \subseteq Plans
  BY DEF PlanInv, TypeOK
<1>2. p \in Made /\ s \in plan[p].own /\ plan[p].step[s].status = "validating" /\ PlanGood(p, plan[p])
  BY Parts DEF Accept
<1>3. /\ at \in Step /\ at.status = "completed" /\ at.work = plan[p].step[s].work
  BY <1>2 DEF PlanGood, Plan, Step
<1>4. /\ at.work # None /\ at.work \in Started /\ work[at.work].status = "completed"
  BY <1>2, <1>3 DEF PlanGood, StepGood
<1>5. plan' = [plan EXCEPT ![p] = next] /\ Reopened(p, status)
  BY DEF Accept
<1>6. status \in {"finalized", "executing"} /\ status \in PlanStatus \ {"draft"}
  BY DEF PlanStatus, Finished, Committed
<1>7. now = [plan[p] EXCEPT !.source = head, !.step = [@ EXCEPT ![s] = at]]
  BY <1>2 DEF PlanGood, Plan
<1>8. [now EXCEPT !.status = status] = Put(plan[p], status, head, s, at)
  <2> HIDE DEF status, at
  <2>1. now = [plan[p] EXCEPT !.source = head, !.step = [plan[p].step EXCEPT ![s] = at]]
    BY <1>7
  <2> HIDE DEF now
  <2>2. QED
    BY <1>2, <2>1 DEF Put, PlanGood, Plan
<1> HIDE DEF now, at
<1>9. next = (IF all THEN [now EXCEPT !.status = status] ELSE Projected([now EXCEPT !.status = status]))
  OBVIOUS
<1> HIDE DEF next, status, all
<1>10. PICK pl : /\ pl = Put(plan[p], status, head, s, at)
                 /\ PlanGood(p, pl) /\ pl.own = plan[p].own /\ pl.status = status
  BY <1>1, <1>2, <1>3, <1>4, <1>6, StepPut
<1>11. PICK pr : pr = next /\ PlanGood(p, pr) /\ pr.own = plan[p].own /\ pr.status = status
  BY <1>6, <1>8, <1>9, <1>10, ProjectedGood
<1>12. revived' \subseteq Plans
  BY <1>1, <1>5 DEF Reopened
<1>13. QED
  BY <1>1, <1>2, <1>5, <1>6, <1>11, <1>12, OnePlanStep DEF Accept

(* The Works are written, and no plan.                                      *)
LEMMA WorksStep ==
    ASSUME PlanInv, UNCHANGED plan, work' \in [Works -> Work \union {None}],
           \A w \in Works : work[w] = None <=> work'[w] = None,
           \A w \in Started : /\ work'[w].plan = work[w].plan /\ work'[w].step = work[w].step
                              /\ work[w].status = "completed" => work'[w].status = "completed",
           CallGood', head' \in Heads, faults' \in Nat, UNCHANGED revived
    PROVE  PlanInv'
<1>1. Made' = Made /\ Started' = Started /\ WorksGoOn /\ PlansStay
  BY DEF Made, Started, WorksGoOn, PlansStay
<1>2. ASSUME NEW p \in Made' PROVE PlanGood(p, plan[p])'
  <2>1. PICK pl : pl = plan[p] /\ PlanGood(p, pl)
    BY <1>1, Parts
  <2>2. PlanGood(p, pl)' /\ pl = plan'[p]
    BY <1>1, <2>1, PlanStands
  <2>3. QED
    BY <2>2
<1>3. ASSUME NEW w \in Started' PROVE WorkGood(w)'
  BY <1>1, Parts DEF WorkGood, Started
<1>4. QED
  BY <1>2, <1>3, Assembled DEF PlanInv, TypeOK

LEMMA EndStep ==
    ASSUME PlanInv, NEW w \in Works, NEW status, NEW moved \in BOOLEAN, End(w, status, moved)
    PROVE  PlanInv'
<1>1. w \in Active /\ w \in Started /\ status \in {"completed", "failed", "cancelled"} /\ WorkGood(w)
  BY Parts DEF End, Active
<1>2. head' \in Heads
  BY PlanNumbers DEF End, Heads, PlanInv, TypeOK
<1> DEFINE new == [work[w] EXCEPT !.status = status, !.at = head']
<1>3. new \in Work /\ new.plan = work[w].plan /\ new.step = work[w].step /\ new.status = status
  BY <1>1, <1>2 DEF WorkGood, Work
<1>4. work' = [work EXCEPT ![w] = new]
  BY <1>1 DEF End, PlanInv, TypeOK, Work
<1> HIDE DEF new
<1>5. /\ work' \in [Works -> Work \union {None}] /\ work'[w] = new /\ new # None
      /\ \A v \in Works : v # w => work'[v] = work[v]
  BY <1>3, <1>4, NoneApart DEF PlanInv, TypeOK
<1>6. work[w] # None /\ work[w].status = "active"
  BY <1>1 DEF Started, Active
<1>7. CallGood'
  <2>1. call' = [op |-> "project", work |-> w] /\ call' \in Call
    BY DEF End, Call
  <2>2. w \in Started' /\ w \notin Active'
    BY <1>1, <1>3, <1>5 DEF Started, Active
  <2>3. QED
    BY <2>1, <2>2 DEF CallGood
<1>8. /\ \A v \in Works : work[v] = None <=> work'[v] = None
      /\ \A v \in Started : /\ work'[v].plan = work[v].plan /\ work'[v].step = work[v].step
                            /\ work[v].status = "completed" => work'[v].status = "completed"
  BY <1>3, <1>5, <1>6 DEF Started
<1>9. faults' \in Nat /\ UNCHANGED <<plan, revived>>
  BY DEF End, PlanInv, TypeOK
<1>10. QED
  BY <1>2, <1>5, <1>7, <1>8, <1>9, WorksStep

(* A Work gets another status: it was not completed.                        *)
LEMMA StatusesStep ==
    ASSUME PlanInv, UNCHANGED <<plan, head, call, revived>>, faults' \in Nat,
           NEW ws \in SUBSET Started, NEW status \in {"active", "failed", "cancelled"},
           \A w \in ws : work[w].status # "completed",
           status = "active" => call = None,
           work' = [w \in Works |-> IF w \in ws THEN [work[w] EXCEPT !.status = status] ELSE work[w]]
    PROVE  PlanInv'
<1>1. ASSUME NEW w \in Started PROVE w \in Works /\ work[w] \in Work /\ work[w] # None
  BY <1>1, Parts DEF WorkGood, Started
<1>2. ASSUME NEW w \in ws
      PROVE  /\ work'[w] \in Work /\ work'[w] # None /\ work'[w].plan = work[w].plan
             /\ work'[w].step = work[w].step /\ work'[w].status = status
  BY <1>1, <1>2, NoneApart DEF Work
<1>3. \A w \in Works : w \notin ws => work'[w] = work[w]
  OBVIOUS
<1>4. work' \in [Works -> Work \union {None}]
  BY <1>1, <1>2, <1>3 DEF PlanInv, TypeOK
<1>5. /\ \A v \in Works : work[v] = None <=> work'[v] = None
      /\ \A v \in Started : /\ work'[v].plan = work[v].plan /\ work'[v].step = work[v].step
                            /\ work[v].status = "completed" => work'[v].status = "completed"
  BY <1>1, <1>2, <1>3
<1>6. CallGood'
  <2>1. Started' = Started
    BY <1>5 DEF Started
  <2>2. status # "active" => Active' \subseteq Active
    BY <1>2, <1>3, <2>1 DEF Active, Started
  <2>3. QED
    BY <2>1, <2>2, Parts DEF CallGood
<1>7. QED
  BY <1>4, <1>5, <1>6, WorksStep DEF PlanInv, TypeOK

LEMMA OneStatusStep ==
    ASSUME PlanInv, UNCHANGED <<plan, head, call, revived>>, faults' \in Nat,
           NEW w \in Started, NEW status \in {"active", "failed", "cancelled"},
           work[w].status # "completed", status = "active" => call = None,
           work' = [work EXCEPT ![w].status = status]
    PROVE  PlanInv'
<1>1. w \in Works /\ work \in [Works -> Work \union {None}]
  BY Parts DEF PlanInv, TypeOK
<1>2. work' = [v \in Works |-> IF v \in {w} THEN [work[v] EXCEPT !.status = status] ELSE work[v]]
  BY <1>1
<1>3. {w} \in SUBSET Started /\ \A v \in {w} : work[v].status # "completed"
  OBVIOUS
<1>4. QED
  BY <1>2, <1>3, StatusesStep

LEMMA FailStep == ASSUME PlanInv, NEW w \in Works, Fail(w) PROVE PlanInv'
BY OneStatusStep DEF Fail, Active, PlanInv, TypeOK

LEMMA GoOnStep == ASSUME PlanInv, NEW w \in Works, GoOn(w) PROVE PlanInv'
<1>1. faults' \in Nat
  BY DEF GoOn, PlanInv, TypeOK
<1>2. QED
  BY <1>1, OneStatusStep DEF GoOn, Ready

LEMMA RetireStep == ASSUME PlanInv, Retire PROVE PlanInv'
<1>1. Stranded \in SUBSET Started /\ \A w \in Stranded : work[w].status # "completed"
  BY DEF Stranded, Active
<1>2. faults' \in Nat
  BY DEF Retire, PlanInv, TypeOK
<1>3. QED
  BY <1>1, <1>2, StatusesStep DEF Retire

LEMMA DriftStep == ASSUME PlanInv, Drift PROVE PlanInv'
<1>1. head' \in Heads
  BY PlanNumbers DEF Drift, Heads, PlanInv, TypeOK
<1>2. Started' = Started /\ Active' = Active
  BY DEF Drift, Started, Active
<1>3. CallGood'
  BY <1>2, Parts DEF CallGood, Drift
<1>4. QED
  BY <1>1, <1>3, WorksStep DEF Drift, PlanInv, TypeOK

LEMMA CrashStep == ASSUME PlanInv, Crash PROVE PlanInv'
<1>1. faults' \in Nat /\ CallGood'
  BY DEF Crash, CallGood, PlanInv, TypeOK
<1>2. QED
  BY <1>1, WorksStep DEF Crash, PlanInv, TypeOK

LEMMA StartStep ==
    ASSUME PlanInv, NEW p \in Plans, NEW s \in Steps, NEW w \in Works, Start(w, p, s)
    PROVE  PlanInv'
<1>1. /\ head \in Heads /\ head' = head /\ faults' \in Nat /\ revived' \subseteq Plans
      /\ UNCHANGED <<faults, revived>>
  BY DEF PlanInv, TypeOK, Start
<1>2. /\ p \in Made /\ s \in plan[p].own /\ plan[p].status \in {"approved", "executing"}
      /\ w \notin Started /\ PlanGood(p, plan[p])
  BY Parts DEF Start, NewWork
<1>3. CASE plan[p].source # head
  <2>1. plan' = [plan EXCEPT ![p] = [plan[p] EXCEPT !.status = "invalidated"]] /\ UNCHANGED <<work, call>>
    BY <1>3 DEF Start
  <2>2. PICK pl : pl = [plan[p] EXCEPT !.status = "invalidated"] /\ PlanGood(p, pl)
    BY <1>2, StatusGood DEF PlanStatus, Finished
  <2>3. pl.status = "invalidated" /\ pl.own = plan[p].own
    BY <1>2, <2>2 DEF PlanGood, Plan
  <2>4. QED
    BY <1>1, <1>2, <2>1, <2>2, <2>3, OnePlanStep
<1>4. CASE plan[p].source = head
  <2> DEFINE new == [status |-> "active", plan |-> p, step |-> s, source |-> head, at |-> 0]
  <2>1. new \in Work /\ new.plan = p /\ new.step = s
    BY <1>1, PlanNumbers DEF Work, Heads
  <2>2. work' = [work EXCEPT ![w] = new] /\ UNCHANGED plan /\ call' = [op |-> "claim", work |-> w]
    BY <1>4 DEF Start
  <2> HIDE DEF new
  <2>3. /\ work' \in [Works -> Work \union {None}] /\ work'[w] = new /\ new # None
        /\ \A v \in Works : v # w => work'[v] = work[v]
    BY <2>1, <2>2, NoneApart DEF PlanInv, TypeOK
  <2>4. Made' = Made /\ Started' = Started \union {w}
    BY <2>2, <2>3 DEF Made, Started
  <2>5. WorksGoOn /\ PlansStay
    BY <1>2, <2>3, <2>4, Parts DEF WorksGoOn, PlansStay
  <2>6. ASSUME NEW q \in Made' PROVE PlanGood(q, plan[q])'
    <3>1. PICK pl : pl = plan[q] /\ PlanGood(q, pl)
      BY <2>4, Parts
    <3>2. PlanGood(q, pl)' /\ pl = plan'[q]
      BY <2>2, <2>5, <3>1, PlanStands
    <3>3. QED
      BY <3>2
  <2>7. ASSUME NEW v \in Started' PROVE WorkGood(v)'
    <3>1. CASE v = w
      BY <1>2, <2>1, <2>2, <2>3, <2>4, <3>1 DEF WorkGood
    <3>2. CASE v # w
      BY <2>2, <2>3, <2>4, <3>2, Parts DEF WorkGood
    <3>3. QED
      BY <3>1, <3>2
  <2>8. CallGood'
    BY <2>2, <2>4 DEF CallGood, Call
  <2>9. QED
    BY <1>1, <2>2, <2>3, <2>6, <2>7, <2>8, Assembled DEF PlanInv, TypeOK
<1>5. QED
  BY <1>3, <1>4

-----------------------------------------------------------------------------
(* A successor takes the place of p.                                        *)
Moves(p, successor, w) ==
    (w \in Active /\ work[w].plan = p) /\ \E s \in successor.kept : Matches(w, p, s)
Mover(p, successor, s) == {w \in Works : Moves(p, successor, w) /\ work[w].step = s}
SomeMoves(p, successor) == \E w \in Works : Moves(p, successor, w)
Heir(p, successor) ==
    [successor EXCEPT
        !.status = IF SomeMoves(p, successor) THEN "executing" ELSE @,
        !.step = [s \in Steps |->
            IF Mover(p, successor, s) = {} THEN @[s]
            ELSE [status |-> "executing", work |-> CHOOSE w \in Mover(p, successor, s) : TRUE]]]

Rebound(w, q, source) == [work[w] EXCEPT !.plan = q, !.source = source]

LEMMA SupersededByMeans ==
    ASSUME NEW p, NEW q, NEW successor, SupersededBy(p, q, successor)
    PROVE  /\ plan' = [plan EXCEPT ![p].status = "superseded", ![q] = Heir(p, successor)]
           /\ \A S : (\A w \in Works : work'[w] \in S) => work' \in [Works -> S]
           /\ \A w \in Works :
                 /\ Moves(p, successor, w) =>
                       work'[w] = Rebound(w, q, successor.source)
                 /\ ~Moves(p, successor, w) /\ (w \in Active /\ work[w].plan = p) =>
                       work'[w] = [work[w] EXCEPT !.status = "cancelled"]
                 /\ ~Moves(p, successor, w) /\ ~(w \in Active /\ work[w].plan = p) =>
                       work'[w] = work[w]
<1>1. plan' = [plan EXCEPT ![p].status = "superseded", ![q] = Heir(p, successor)]
  BY Zenon DEF SupersededBy, Heir, SomeMoves, Mover, Moves
<1>2. work' = [w \in Works |->
         IF Moves(p, successor, w) THEN Rebound(w, q, successor.source)
         ELSE IF w \in Active /\ work[w].plan = p THEN [work[w] EXCEPT !.status = "cancelled"]
         ELSE work[w]]
  BY Zenon DEF SupersededBy, Moves, Rebound
<1>3. \A S : (\A w \in Works : work'[w] \in S) => work' \in [Works -> S]
  BY <1>2, Zenon
<1>4. QED
  BY <1>1, <1>2, <1>3, Zenon

LEMMA MoverOf ==
    ASSUME PlanInv, NEW p \in Made, NEW q, NEW successor, PlanGood(q, successor),
           NEW w, Moves(p, successor, w)
    PROVE  /\ w \in Works /\ w \in Started /\ work[w].status = "active" /\ work[w].plan = p
           /\ work[w].step \in successor.own /\ work[w].step \in Steps
           /\ plan[p].step[work[w].step] = [status |-> "executing", work |-> w]
           /\ SomeMoves(p, successor)
<1>1. w \in Works /\ w \in Started /\ work[w].status = "active" /\ work[w].plan = p
  BY DEF Moves, Active, Started
<1>2. PICK s \in successor.kept : Matches(w, p, s)
  BY DEF Moves
<1>3. work[w].step = s /\ plan[p].step[s] = [status |-> "executing", work |-> w]
  BY <1>2 DEF Matches
<1>4. s \in successor.own /\ s \in Steps
  BY <1>2 DEF PlanGood, Plan
<1>5. QED
  BY <1>1, <1>3, <1>4 DEF SomeMoves

LEMMA HeirGood ==
    ASSUME PlanInv, NEW p \in Made, NEW q, NEW successor, PlanGood(q, successor)
    PROVE  /\ PlanGood(q, Heir(p, successor))
           /\ Heir(p, successor).own = successor.own
           /\ Heir(p, successor).status = IF SomeMoves(p, successor) THEN "executing" ELSE successor.status
<1> DEFINE status == IF SomeMoves(p, successor) THEN "executing" ELSE successor.status
           step == [s \in Steps |->
              IF Mover(p, successor, s) = {} THEN successor.step[s]
              ELSE [status |-> "executing", work |-> CHOOSE w \in Mover(p, successor, s) : TRUE]]
           new == [successor EXCEPT !.status = status, !.step = step]
<1>1. \A s \in Steps : \/ Mover(p, successor, s) = {} /\ step[s] = successor.step[s]
                       \/ \E w \in Mover(p, successor, s) :
                             step[s] = [status |-> "executing", work |-> w]
  OBVIOUS
<1>2. ASSUME NEW s \in Steps, NEW w \in Mover(p, successor, s)
      PROVE  w \in Works /\ w \in Started /\ s \in successor.own /\ SomeMoves(p, successor)
  <2>1. Moves(p, successor, w) /\ work[w].step = s
    BY <1>2 DEF Mover
  <2>2. QED
    BY <2>1, MoverOf
<1>3. step \in [Steps -> Step]
  <2>1. ASSUME NEW s \in Steps PROVE step[s] \in Step
    BY <1>1, <1>2 DEF PlanGood, Plan, Step
  <2> HIDE DEF step
  <2>2. step = [s \in Steps |-> step[s]]
    BY DEF step
  <2>3. QED
    BY <2>1, <2>2
<1>4. status \in PlanStatus
  BY DEF PlanGood, Plan, PlanStatus, Committed
<1>5. Heir(p, successor) = new
  BY DEF Heir, PlanGood, Plan
<1> HIDE DEF status, step
<1>6. /\ new \in Plan /\ new.status = status /\ new.from = successor.from /\ new.kept = successor.kept
      /\ new.own = successor.own /\ new.carried = successor.carried /\ new.step = step
  BY <1>3, <1>4 DEF PlanGood, Plan
<1> HIDE DEF new
<1>7. ASSUME NEW s \in Steps PROVE StepGood(new, s)
  <2>1. CASE step[s] = successor.step[s]
    BY <1>6, <2>1 DEF PlanGood, StepGood
  <2>2. ASSUME NEW w \in Mover(p, successor, s), step[s] = [status |-> "executing", work |-> w]
        PROVE  StepGood(new, s)
    BY <1>2, <1>6, <2>2, NoneApart DEF StepGood
  <2>3. QED
    BY <1>1, <2>1, <2>2
<1>8. new.status = "draft" => \A s \in Steps : new.step[s] = Unbound("pending")
  <2> SUFFICES ASSUME new.status = "draft", NEW s \in Steps PROVE new.step[s] = Unbound("pending")
    OBVIOUS
  <2>1. ~SomeMoves(p, successor) /\ successor.status = "draft"
    BY <1>6 DEF status
  <2>2. Mover(p, successor, s) = {}
    BY <1>2, <2>1
  <2>3. QED
    BY <1>1, <1>6, <2>1, <2>2 DEF PlanGood
<1>9. PlanGood(q, new)
  BY <1>6, <1>7, <1>8 DEF PlanGood
<1>10. QED
  BY <1>5, <1>6, <1>9 DEF status

LEMMA SupersededByStep ==
    ASSUME PlanInv, NEW p \in Made, NEW q \in Plans, q # p, NEW successor, PlanGood(q, successor),
           SupersededBy(p, q, successor),
           q \in Made => /\ successor.own = plan[q].own \/ plan[q].status = "draft"
                         /\ successor.status = "draft" => plan[q].status = "draft",
           UNCHANGED <<head, faults>>, call = None, call' = None, revived' \subseteq Plans
    PROVE  PlanInv'
<1>0. /\ plan' = [plan EXCEPT ![p].status = "superseded", ![q] = Heir(p, successor)]
      /\ \A S : (\A w \in Works : work'[w] \in S) => work' \in [Works -> S]
      /\ \A w \in Works :
            /\ Moves(p, successor, w) =>
                  work'[w] = Rebound(w, q, successor.source)
            /\ ~Moves(p, successor, w) /\ (w \in Active /\ work[w].plan = p) =>
                  work'[w] = [work[w] EXCEPT !.status = "cancelled"]
            /\ ~Moves(p, successor, w) /\ ~(w \in Active /\ work[w].plan = p) =>
                  work'[w] = work[w]
  BY SupersededByMeans
<1> DEFINE heir == Heir(p, successor)
           old == [plan[p] EXCEPT !.status = "superseded"]
<1>1. /\ PlanGood(q, heir) /\ heir.own = successor.own
      /\ heir.status = IF SomeMoves(p, successor) THEN "executing" ELSE successor.status
  BY HeirGood
<1>14. PlanGood(p, plan[p]) /\ "superseded" \in PlanStatus \ {"draft"} /\ p \in Plans
  BY Parts DEF PlanStatus, Finished
<1>15. PlanGood(p, old)
  BY <1>14, StatusGood
<1>2. plan' = [plan EXCEPT ![p] = old, ![q] = heir]
  BY <1>0
<1>16. old.own = plan[p].own /\ old.status = "superseded"
  BY <1>14 DEF PlanGood, Plan
<1> HIDE DEF heir, old
<1>3. old.own = plan[p].own /\ old.status = "superseded" /\ p \in Plans
  BY <1>14, <1>16
<1>4. /\ plan' \in [Plans -> Plan \union {None}] /\ plan'[p] = old /\ plan'[q] = heir
      /\ old # None /\ heir # None
      /\ \A r \in Plans : r # p /\ r # q => plan'[r] = plan[r]
  BY <1>1, <1>15, <1>2, <1>3, NoneApart DEF PlanInv, TypeOK, PlanGood
<1>5. Made' = Made \union {q}
  BY <1>4 DEF Made
<1>6. ASSUME NEW w \in Started
      PROVE  /\ work'[w] \in Work /\ work'[w] # None /\ work'[w].step = work[w].step
             /\ work[w].status = "completed" => work'[w].status = "completed"
             /\ \/ work'[w].plan = work[w].plan
                \/ work'[w].plan = q /\ Moves(p, successor, w)
  <2>1. w \in Works /\ work[w] \in Work /\ successor.source \in Heads
    BY <1>6, Parts DEF WorkGood, PlanGood, Plan
  <2>2. CASE Moves(p, successor, w)
    <3>1. work'[w] = Rebound(w, q, successor.source)
      BY <1>0, <2>1, <2>2
    <3>2. work[w].status = "active"
      BY <2>2 DEF Moves, Active
    <3>3. QED
      BY <2>1, <2>2, <3>1, <3>2, NoneApart DEF Work, Rebound
  <2>3. CASE ~Moves(p, successor, w) /\ w \in Active /\ work[w].plan = p
    <3>1. work'[w] = [work[w] EXCEPT !.status = "cancelled"] /\ work[w].status = "active"
      BY <1>0, <2>1, <2>3 DEF Active
    <3>2. QED
      BY <2>1, <3>1, NoneApart DEF Work
  <2>4. CASE ~Moves(p, successor, w) /\ ~(w \in Active /\ work[w].plan = p)
    <3>1. work'[w] = work[w]
      BY <1>0, <2>1, <2>4
    <3>2. QED
      BY <2>1, <3>1, NoneApart
  <2>5. QED
    BY <2>2, <2>3, <2>4
<1>7. \A w \in Works : w \notin Started => work'[w] = None
  BY <1>0 DEF Moves, Active, Started
<1>8. work' \in [Works -> Work \union {None}] /\ Started' = Started
  <2>1. \A w \in Works : work'[w] \in Work \union {None}
    BY <1>6, <1>7
  <2>2. QED
    BY <1>0, <1>6, <1>7, <2>1 DEF Started
<1>9. WorksGoOn /\ PlansStay
  BY <1>5, <1>6, <1>8 DEF WorksGoOn, PlansStay
<1>10. ASSUME NEW r \in Made' PROVE PlanGood(r, plan[r])'
  <2>1. PICK pl : pl = plan'[r] /\ PlanGood(r, pl)
    BY <1>1, <1>15, <1>4, <1>5, Parts
  <2>2. PlanGood(r, pl)' /\ pl = plan'[r]
    BY <1>9, <2>1, PlanStands
  <2>3. QED
    BY <2>2
<1>11. ASSUME NEW w \in Started' PROVE WorkGood(w)'
  <2>1. WorkGood(w)
    BY <1>8, <1>11, Parts
  <2>2. CASE work'[w].plan = q /\ Moves(p, successor, w)
    <3>3. work[w].step \in successor.own /\ SomeMoves(p, successor)
      BY <2>2, MoverOf
    <3>1. work[w].step \in heir.own /\ heir.status = "executing"
      BY <1>1, <3>3
    <3>2. QED
      BY <1>4, <1>5, <1>6, <1>8, <2>2, <3>1 DEF WorkGood
  <2>3. CASE work'[w].plan = work[w].plan
    BY <1>1, <1>3, <1>4, <1>5, <1>6, <1>8, <2>1, <2>3, Parts DEF WorkGood
  <2>4. QED
    BY <1>6, <1>8, <2>2, <2>3
<1>12. CallGood'
  BY DEF CallGood
<1>13. QED
  BY <1>4, <1>8, <1>10, <1>11, <1>12, Assembled DEF PlanInv, TypeOK

LEMMA ExtendStep == ASSUME PlanInv, NEW p \in Plans, NEW q \in Plans, Extend(p, q) PROVE PlanInv'
<1>1. /\ head \in Heads /\ faults \in Nat /\ revived \subseteq Plans /\ UNCHANGED <<head, call, faults, revived>>
      /\ p \in Made /\ q \notin Made /\ q # p /\ call = None
  BY DEF PlanInv, TypeOK, Extend, NewPlan, Extendable, Open, Ready
<1>8. PICK own \in SUBSET Steps : \E kept \in SUBSET Keepable(p, own) :
         IF Coherent(p)
         THEN /\ plan' = [plan EXCEPT ![p].status = "replanning", ![q] = Draft(p, own, kept, head)]
              /\ UNCHANGED work
         ELSE SupersededBy(p, q, Draft(p, own, kept, head))
  BY DEF Extend
<1>2. PICK kept \in SUBSET Keepable(p, own) :
         IF Coherent(p)
         THEN /\ plan' = [plan EXCEPT ![p].status = "replanning", ![q] = Draft(p, own, kept, head)]
              /\ UNCHANGED work
         ELSE SupersededBy(p, q, Draft(p, own, kept, head))
  BY <1>8
<1>3. kept \in SUBSET own
  BY DEF Keepable
<1>4. PICK pl : /\ pl = Draft(p, own, kept, head) /\ PlanGood(q, pl)
  BY <1>1, <1>3, DraftParts
<1>5. CASE ~Coherent(p)
  BY <1>1, <1>2, <1>4, <1>5, SupersededByStep
<1>6. CASE Coherent(p)
  <2>1. PICK old : old = [plan[p] EXCEPT !.status = "replanning"] /\ PlanGood(p, old)
    BY <1>1, Parts, StatusGood DEF PlanStatus, Committed
  <2>2. old.own = plan[p].own /\ old.status = "replanning"
    BY <1>1, <2>1, Parts DEF PlanGood, Plan
  <2>3. plan' = [plan EXCEPT ![p] = old, ![q] = pl] /\ UNCHANGED work
    BY <1>2, <1>4, <1>6, <2>1
  <2>4. /\ plan' \in [Plans -> Plan \union {None}] /\ plan'[p] = old /\ plan'[q] = pl
        /\ old # None /\ pl # None
        /\ \A r \in Plans : r # p /\ r # q => plan'[r] = plan[r]
    BY <1>1, <1>4, <2>1, <2>3, NoneApart DEF PlanInv, TypeOK, PlanGood
  <2>5. Made' = Made \union {q} /\ Started' = Started /\ Active' = Active
    BY <1>1, <2>3, <2>4 DEF Made, Started, Active
  <2>6. WorksGoOn /\ PlansStay
    BY <2>3, <2>5 DEF WorksGoOn, PlansStay
  <2>7. ASSUME NEW r \in Made' PROVE PlanGood(r, plan[r])'
    <3>1. PICK new : new = plan'[r] /\ PlanGood(r, new)
      BY <1>4, <2>1, <2>4, <2>5, Parts
    <3>2. PlanGood(r, new)' /\ new = plan'[r]
      BY <2>6, <3>1, PlanStands
    <3>3. QED
      BY <3>2
  <2>8. ASSUME NEW w \in Started' PROVE WorkGood(w)'
    BY <1>1, <2>2, <2>3, <2>4, <2>5, Parts DEF WorkGood
  <2>9. CallGood'
    BY <1>1 DEF CallGood
  <2>10. QED
    BY <1>1, <2>3, <2>4, <2>7, <2>8, <2>9, Assembled DEF PlanInv, TypeOK
<1>7. QED
  BY <1>5, <1>6

LEMMA SupersedeStep == ASSUME PlanInv, NEW p \in Plans, NEW q \in Plans, Supersede(p, q) PROVE PlanInv'
<1>1. /\ p \in Made /\ q \in Made /\ plan[q].from = p /\ call = None /\ UNCHANGED <<head, call, faults>>
      /\ revived \subseteq Plans
  BY DEF Supersede, Open, Ready, PlanInv, TypeOK
<1>2. q # p
  BY <1>1, Parts, NoneApart DEF PlanGood
<1>3. PICK pl : pl = plan[q] /\ PlanGood(q, pl)
  BY <1>1, Parts
<1>4. revived' \subseteq Plans
  BY <1>1 DEF Supersede
<1>5. QED
  BY <1>1, <1>2, <1>3, <1>4, SupersededByStep DEF Supersede

(* What a draft becomes when it is approved.                                *)
Brought(q) == {s \in Steps : plan[q].carried[s] # None}
Approved(q) ==
    Projected([plan[q] EXCEPT
        !.status = IF Brought(q) = {} THEN "approved" ELSE "verifying",
        !.step = [s \in Steps |->
            IF s \in Brought(q)
            THEN [status |-> "validating", work |-> plan[q].carried[s]]
            ELSE @[s]]])

LEMMA ApprovedGood ==
    ASSUME PlanInv, NEW q \in Made, plan[q].status = "draft",
           \A s \in Brought(q) :
              plan[q].carried[s] = Carry(plan[q].from, s, plan[q].kept, plan[q].source)
    PROVE  /\ PlanGood(q, Approved(q)) /\ Approved(q).own = plan[q].own
           /\ Approved(q).status = IF Brought(q) = {} THEN "approved" ELSE "verifying"
<1> DEFINE pl == plan[q]
           status == IF Brought(q) = {} THEN "approved" ELSE "verifying"
           step == [s \in Steps |->
                      IF s \in Brought(q) THEN [status |-> "validating", work |-> pl.carried[s]]
                      ELSE pl.step[s]]
           new == [pl EXCEPT !.status = status, !.step = step]
<1>1. PlanGood(q, pl) /\ pl \in Plan
  BY Parts DEF PlanGood
<1>2. ASSUME NEW s \in Brought(q)
      PROVE  /\ s \in Steps /\ s \in pl.own /\ pl.carried[s] \in Works /\ pl.carried[s] # None
             /\ pl.carried[s] \in Started /\ work[pl.carried[s]].status = "completed"
  <2> DEFINE p == pl.from
             w == plan[p].step[s].work
  <2>1. s \in Steps /\ pl.carried[s] # None
    BY <1>2 DEF Brought
  <2>2. p # None /\ p \in Made
    BY <1>1, <2>1 DEF PlanGood
  <2>3. /\ s \in pl.kept /\ plan[p].step[s].status = "validating"
        /\ work[w].status = "completed" /\ pl.carried[s] = w
    BY <1>2, <2>1 DEF Carry
  <2>4. StepGood(plan[p], s) /\ plan[p].step[s] \in Step
    BY <2>1, <2>2, Parts DEF PlanGood, Plan
  <2>5. w \in Started
    BY <2>3, <2>4 DEF StepGood
  <2>6. QED
    BY <1>1, <2>1, <2>3, <2>5 DEF PlanGood, Started
<1>3. step \in [Steps -> Step]
  <2>1. ASSUME NEW s \in Steps PROVE step[s] \in Step
    <3>1. CASE s \in Brought(q)
      BY <1>2, <3>1 DEF Step
    <3>2. CASE s \notin Brought(q)
      BY <1>1, <3>2 DEF Plan
    <3>3. QED
      BY <3>1, <3>2
  <2>2. QED
    BY <2>1
<1>4. status \in PlanStatus /\ status # "draft"
  BY DEF PlanStatus, Committed
<1>5. Approved(q) = Projected(new)
  BY <1>1 DEF Approved, Plan
<1>6. ASSUME NEW s \in Steps
      PROVE  \/ s \in Brought(q) /\ step[s] = [status |-> "validating", work |-> pl.carried[s]]
             \/ step[s] = pl.step[s]
  BY <1>6
<1> HIDE DEF step, status
<1>7. /\ new \in Plan /\ new.status = status /\ new.from = pl.from /\ new.kept = pl.kept
      /\ new.own = pl.own /\ new.carried = pl.carried /\ new.step = step
  BY <1>1, <1>3, <1>4 DEF Plan
<1> HIDE DEF new
<1>8. ASSUME NEW s \in Steps PROVE StepGood(new, s)
  <2>1. CASE s \in Brought(q) /\ step[s] = [status |-> "validating", work |-> pl.carried[s]]
    BY <1>2, <1>7, <2>1 DEF StepGood
  <2>2. CASE step[s] = pl.step[s]
    BY <1>1, <1>7, <2>2 DEF PlanGood, StepGood
  <2>3. QED
    BY <1>6, <2>1, <2>2
<1>9. PlanGood(q, new)
  BY <1>1, <1>4, <1>7, <1>8 DEF PlanGood
<1>10. new.status # "draft"
  BY <1>4, <1>7
<1>11. QED
  BY <1>5, <1>7, <1>9, <1>10, ProjectedGood DEF status

LEMMA ApproveStep == ASSUME PlanInv, NEW q \in Plans, Approve(q) PROVE PlanInv'
<1>1. /\ q \in Made /\ plan[q].status = "draft" /\ call = None /\ UNCHANGED <<head, call, faults, revived>>
      /\ \A s \in Brought(q) :
              plan[q].carried[s] = Carry(plan[q].from, s, plan[q].kept, plan[q].source)
  BY DEF Approve, Ready, Brought
<1>2. /\ head \in Heads /\ faults \in Nat /\ revived \subseteq Plans
  BY DEF PlanInv, TypeOK
<1>3. PICK next : /\ next = Approved(q) /\ PlanGood(q, next) /\ next.own = plan[q].own
                  /\ next.status # "draft"
  BY <1>1, ApprovedGood
<1>4. \/ /\ plan[q].from # None /\ SupersededBy(plan[q].from, q, next)
      \/ plan' = [plan EXCEPT ![q] = next] /\ UNCHANGED work
  BY <1>3, Zenon DEF Approve, Approved, Brought
<1>5. plan[q].from # None => plan[q].from \in Made \ {q}
  BY <1>1, Parts DEF PlanGood
<1>6. CASE plan[q].from # None /\ SupersededBy(plan[q].from, q, next)
  <2>1. PICK p \in Made : p = plan[q].from /\ p # q
    BY <1>5, <1>6
  <2>2. QED
    BY <1>1, <1>2, <1>3, <1>6, <2>1, SupersededByStep
<1>7. CASE plan' = [plan EXCEPT ![q] = next] /\ UNCHANGED work
  BY <1>1, <1>2, <1>3, <1>7, OnePlanStep
<1>8. QED
  BY <1>4, <1>6, <1>7

(* The plan that one Work moves to.                                         *)
Copy(p) ==
    [plan[p] EXCEPT !.status = "executing", !.source = head, !.from = p, !.kept = {}, !.covers = {},
                    !.carried = [t \in Steps |-> None]]

LEMMA CopyGood ==
    ASSUME PlanInv, NEW p \in Made, NEW q \in Plans \ Made
    PROVE  /\ PlanGood(q, Copy(p)) /\ Copy(p).own = plan[p].own /\ Copy(p).status = "executing"
           /\ Copy(p).step = plan[p].step
<1> DEFINE carried == [t \in Steps |-> None]
           new == [plan[p] EXCEPT !.status = "executing", !.source = head, !.from = p, !.kept = {},
                                  !.covers = {}, !.carried = carried]
<1>1. PlanGood(p, plan[p]) /\ plan[p] \in Plan /\ p \in Plans /\ p # q /\ head \in Heads
  BY Parts DEF PlanGood, PlanInv, TypeOK
<1>2. carried \in [Steps -> Works \union {None}]
  OBVIOUS
<1> HIDE DEF carried
<1>3. /\ new \in Plan /\ new.status = "executing" /\ new.from = p /\ new.kept = {}
      /\ new.own = plan[p].own /\ new.step = plan[p].step
  BY <1>1, <1>2 DEF Plan, PlanStatus, Committed
<1>4. new = Copy(p)
  BY DEF Copy, carried
<1> HIDE DEF new
<1>5. \A s \in Steps : StepGood(new, s)
  BY <1>1, <1>3 DEF PlanGood, StepGood
<1>6. PlanGood(q, new)
  BY <1>1, <1>3, <1>5, NoneApart DEF PlanGood
<1>7. QED
  BY <1>3, <1>4, <1>6

LEMMA ScopeReplanStep ==
    ASSUME PlanInv, NEW p \in Plans, NEW q \in Plans, NEW s \in Steps, ScopeReplan(p, q, s)
    PROVE  PlanInv'
<1> DEFINE w == plan[p].step[s].work
<1>1. /\ p \in Made /\ q \in Plans \ Made /\ s \in plan[p].own /\ w \in Active /\ w \in Started /\ w \in Works
      /\ work[w].plan = p /\ work[w].step = s /\ call = None
      /\ UNCHANGED <<head, call, faults>> /\ head \in Heads /\ faults \in Nat /\ revived \subseteq Plans
  BY DEF ScopeReplan, NewPlan, Ready, Active, Started, PlanInv, TypeOK
<1>2. /\ plan' = [plan EXCEPT ![p] = [plan[p] EXCEPT !.status = "superseded"], ![q] = Copy(p)]
      /\ work' = [work EXCEPT ![w] = [work[w] EXCEPT !.plan = q, !.source = head]]
  BY <1>1 DEF ScopeReplan, Copy, PlanInv, TypeOK
<1>3. revived' \subseteq Plans
  BY <1>1 DEF ScopeReplan
<1>4. PICK copy : copy = Copy(p) /\ PlanGood(q, copy) /\ copy.own = plan[p].own /\ copy.status = "executing"
  BY <1>1, CopyGood
<1>5. "superseded" \in PlanStatus \ {"draft"} /\ PlanGood(p, plan[p])
  BY <1>1, Parts DEF PlanStatus, Finished
<1>6. PICK old : old = [plan[p] EXCEPT !.status = "superseded"] /\ PlanGood(p, old)
  BY <1>5, StatusGood
<1>7. old.own = plan[p].own /\ old.status = "superseded"
  BY <1>5, <1>6 DEF PlanGood, Plan
<1>8. /\ plan' \in [Plans -> Plan \union {None}] /\ plan'[p] = old /\ plan'[q] = copy
      /\ old # None /\ copy # None
      /\ \A r \in Plans : r # p /\ r # q => plan'[r] = plan[r]
  <2>1. plan \in [Plans -> Plan \union {None}]
    BY DEF PlanInv, TypeOK
  <2>2. plan' = [plan EXCEPT ![p] = old, ![q] = copy]
    BY <1>2, <1>4, <1>6
  <2>3. old \in Plan /\ copy \in Plan
    BY <1>4, <1>6 DEF PlanGood
  <2>4. p \in Plans /\ q \in Plans /\ p # q
    BY <1>1
  <2>5. QED
    BY <2>1, <2>2, <2>3, <2>4, NoneApart
<1>9. PICK new : new = [work[w] EXCEPT !.plan = q, !.source = head]
  OBVIOUS
<1>10. /\ new \in Work /\ new.plan = q /\ new.step = s /\ new.status = work[w].status
  <2>1. work[w] \in Work
    BY <1>1, Parts DEF WorkGood
  <2>2. QED
    BY <1>1, <1>9, <2>1 DEF Work
<1>11. work' = [work EXCEPT ![w] = new]
  BY <1>2, <1>9
<1> HIDE DEF w
<1>12. /\ work' \in [Works -> Work \union {None}] /\ work'[w] = new /\ new # None
       /\ \A v \in Works : v # w => work'[v] = work[v]
  BY <1>1, <1>10, <1>11, NoneApart DEF PlanInv, TypeOK
<1>13. Made' = Made \union {q} /\ Started' = Started
  BY <1>1, <1>8, <1>12 DEF Made, Started
<1>14. WorksGoOn /\ PlansStay
  BY <1>1, <1>10, <1>12, <1>13 DEF WorksGoOn, PlansStay, Started
<1>15. ASSUME NEW r \in Made' PROVE PlanGood(r, plan[r])'
  <2>1. PICK pl : pl = plan'[r] /\ PlanGood(r, pl)
    BY <1>4, <1>6, <1>8, <1>13, Parts
  <2>2. PlanGood(r, pl)' /\ pl = plan'[r]
    BY <1>14, <2>1, PlanStands
  <2>3. QED
    BY <2>2
<1>16. ASSUME NEW v \in Started' PROVE WorkGood(v)'
  <2>1. CASE v = w
    <3>1. /\ work'[v] = new /\ new.plan \in Made' /\ plan'[new.plan] = copy
          /\ new.step \in copy.own /\ copy.status = "executing"
      BY <1>1, <1>4, <1>8, <1>10, <1>12, <1>13, <2>1
    <3>2. QED
      BY <1>1, <1>10, <3>1 DEF WorkGood
  <2>2. CASE v # w
    BY <1>1, <1>7, <1>8, <1>12, <1>13, <2>2, Parts DEF WorkGood
  <2>3. QED
    BY <2>1, <2>2
<1>17. CallGood'
  BY <1>1 DEF CallGood
<1>18. QED
  BY <1>1, <1>3, <1>8, <1>12, <1>15, <1>16, <1>17, Assembled

LEMMA StillPlans == ASSUME PlanInv, UNCHANGED vars PROVE PlanInv'
<1>1. Made' = Made /\ Started' = Started /\ Active' = Active
  BY DEF vars, Made, Started, Active
<1>2. UNCHANGED <<plan, work, head, call, faults, revived>>
  BY DEF vars
<1>3. QED
  BY <1>1, <1>2 DEF PlanInv, TypeOK, StepsTrue, RecordsLinked

LEMMA NextPlans == ASSUME PlanInv, [Next]_vars PROVE PlanInv'
<1>1. CASE UNCHANGED vars
  BY <1>1, StillPlans
<1>2. ASSUME NEW p \in Plans, Create(p) \/ Redraft(p) \/ Approve(p) PROVE PlanInv'
  BY <1>2, CreateStep, RedraftStep, ApproveStep
<1>3. ASSUME NEW p \in Plans, NEW q \in Plans, Extend(p, q) \/ Supersede(p, q) PROVE PlanInv'
  BY <1>3, ExtendStep, SupersedeStep
<1>4. ASSUME NEW p \in Plans, NEW s \in Steps,
             \/ Repair(p, s) \/ Accept(p, s)
             \/ \E q \in Plans : ScopeReplan(p, q, s)
             \/ \E w \in Works : Start(w, p, s)
      PROVE  PlanInv'
  BY <1>4, RepairStep, AcceptStep, ScopeReplanStep, StartStep
<1>5. ASSUME NEW w \in Works,
             \/ Claim(w) \/ Project(w) \/ TechnicalRetry(w) \/ Fail(w) \/ GoOn(w)
             \/ \E status \in {"completed", "failed", "cancelled"}, moved \in BOOLEAN :
                   End(w, status, moved)
      PROVE  PlanInv'
  BY <1>5, ClaimStep, ProjectStep, TechnicalRetryStep, FailStep, GoOnStep, EndStep
<1>6. QED
  BY <1>1, <1>2, <1>3, <1>4, <1>5, DriftStep, CrashStep, RetireStep DEF Next

(* PlanInv: a step that is bound names a Work that exists, a step under     *)
(* validation or completed names one that was delivered, a draft has bound  *)
(* nothing, and a Work is of a step that its plan has.                      *)
THEOREM PlansTrue == Spec => []PlanInv
<1>1. PlanInv /\ [Next]_vars => PlanInv'
  BY NextPlans
<1>2. QED
  BY InitPlans, <1>1, PTL DEF Spec

-----------------------------------------------------------------------------
(* One plan has authority.  Either no plan gets it that had it not, or one  *)
(* plan takes it and every other is without.                                *)
LEMMA NoNewAuthority ==
    ASSUME OneScopeAuthority,
           \A p \in Made' \ revived' :
              plan'[p].status \in Committed => p \in Made \ revived /\ plan[p].status \in Committed
    PROVE  OneScopeAuthority'
BY DEF OneScopeAuthority

LEMMA OneTakes ==
    ASSUME NEW q, \A p \in Made' \ revived' : plan'[p].status \in Committed => p = q
    PROVE  OneScopeAuthority'
BY DEF OneScopeAuthority

LEMMA Kinds ==
    ASSUME PlanInv, NEW p \in Made
    PROVE  /\ plan[p].status \in {"draft"} \union Committed \union Finished
           /\ plan[p].status \in Committed <=> Open(p) /\ plan[p].status # "draft"
           /\ \A s \in Steps : plan[p].step[s] # Unbound("pending") => plan[p].status # "draft"
<1>1. PlanGood(p, plan[p])
  BY Parts
<1>2. plan[p].status \in {"draft"} \union Committed \union Finished
  BY <1>1 DEF PlanGood, Plan, PlanStatus
<1>3. \A c \in Committed : c \notin Finished /\ c # "draft"
  BY DEF Committed, Finished
<1>4. QED
  BY <1>1, <1>2, <1>3 DEF PlanGood, Open, Finished

(* A plan is written: the others are what they were.                        *)
LEMMA PlanWritten ==
    ASSUME PlanInv, NEW p \in Plans, NEW pl \in Plan, plan' = [plan EXCEPT ![p] = pl]
    PROVE  /\ plan'[p] = pl /\ Made' = Made \union {p}
           /\ \A r \in Made : r # p => plan'[r] = plan[r]
<1>1. plan'[p] = pl /\ pl # None /\ \A r \in Plans : r # p => plan'[r] = plan[r]
  BY NoneApart DEF PlanInv, TypeOK
<1>2. QED
  BY <1>1 DEF Made

LEMMA PlanReplaced ==
    ASSUME PlanInv, NEW p \in Made, NEW q \in Plans, q # p, NEW successor, PlanGood(q, successor),
           SupersededBy(p, q, successor)
    PROVE  /\ Made' = Made \union {q} /\ plan'[p].status = "superseded"
           /\ plan'[q] = Heir(p, successor)
           /\ plan'[q].status = IF SomeMoves(p, successor) THEN "executing" ELSE successor.status
           /\ \A r \in Made : r # p /\ r # q => plan'[r] = plan[r]
<1> DEFINE heir == Heir(p, successor)
           old == [plan[p] EXCEPT !.status = "superseded"]
<1>1. plan' = [plan EXCEPT ![p] = old, ![q] = heir]
  BY SupersededByMeans
<1>2. PlanGood(p, plan[p]) /\ p \in Plans /\ "superseded" \in PlanStatus \ {"draft"}
  BY Parts DEF PlanStatus, Finished
<1>3. PlanGood(p, old)
  BY <1>2, StatusGood
<1>4. PlanGood(q, heir) /\ heir.status = IF SomeMoves(p, successor) THEN "executing" ELSE successor.status
  BY HeirGood
<1>5. old.status = "superseded"
  BY <1>2 DEF PlanGood, Plan
<1> HIDE DEF heir, old
<1>6. /\ plan'[p] = old /\ plan'[q] = heir /\ old # None /\ heir # None
      /\ \A r \in Plans : r # p /\ r # q => plan'[r] = plan[r]
  BY <1>1, <1>2, <1>3, <1>4, NoneApart DEF PlanInv, TypeOK, PlanGood
<1>7. Made' = Made \union {q}
  BY <1>2, <1>6 DEF Made
<1>8. QED
  BY <1>4, <1>5, <1>6, <1>7 DEF heir, Made

-----------------------------------------------------------------------------
LEMMA CreateAuthority ==
    ASSUME PlanInv, OneScopeAuthority, NEW p \in Plans, Create(p)
    PROVE  OneScopeAuthority'
<1>1. head \in Heads /\ p # None /\ p \notin Made /\ UNCHANGED revived
  BY NoneApart DEF PlanInv, TypeOK, Create, NewPlan
<1>2. PICK pl : pl = Draft(None, Steps, {}, head) /\ PlanGood(p, pl) /\ pl.status = "draft"
  BY <1>1, DraftParts
<1>3. pl \in Plan /\ plan' = [plan EXCEPT ![p] = pl]
  BY <1>2 DEF Create, PlanGood
<1>4. Made' = Made \union {p} /\ plan'[p] = pl /\ \A r \in Made : r # p => plan'[r] = plan[r]
  BY <1>3, PlanWritten
<1>5. "draft" \notin Committed
  BY DEF Committed
<1>6. QED
  BY <1>1, <1>2, <1>4, <1>5, NoNewAuthority

LEMMA RedraftAuthority ==
    ASSUME PlanInv, OneScopeAuthority, NEW q \in Plans, Redraft(q)
    PROVE  OneScopeAuthority'
<1>1. plan[q].from \in Made \union {None} /\ plan[q].from # q
  BY Parts, NoneApart DEF Redraft, PlanGood
<1>2. PICK own \in SUBSET Steps, source \in {plan[q].source, head} :
         \E kept \in SUBSET IF plan[q].from = None THEN {} ELSE Keepable(plan[q].from, own) :
            plan' = [plan EXCEPT ![q] = Draft(plan[q].from, own, kept, source)]
  BY DEF Redraft
<1>3. PICK kept \in SUBSET own : plan' = [plan EXCEPT ![q] = Draft(plan[q].from, own, kept, source)]
  BY <1>2 DEF Keepable
<1>4. source \in Heads
  BY Parts DEF Redraft, PlanGood, Plan, PlanInv, TypeOK
<1>5. PICK pl : /\ pl = Draft(plan[q].from, own, kept, source) /\ PlanGood(q, pl)
                /\ pl.status = "draft"
  BY <1>1, <1>4, DraftParts
<1>6. pl \in Plan /\ plan' = [plan EXCEPT ![q] = pl]
  BY <1>3, <1>5 DEF PlanGood
<1>7. Made' = Made \union {q} /\ plan'[q] = pl /\ \A r \in Made : r # q => plan'[r] = plan[r]
  BY <1>6, PlanWritten
<1>8. "draft" \notin Committed /\ q \in Made /\ UNCHANGED revived
  BY DEF Committed, Redraft
<1>9. QED
  BY <1>5, <1>7, <1>8, NoNewAuthority

LEMMA ExtendAuthority ==
    ASSUME PlanInv, OneScopeAuthority, NEW p \in Plans, NEW q \in Plans, Extend(p, q)
    PROVE  OneScopeAuthority'
<1>1. /\ p \in Made /\ q \notin Made /\ p # q /\ head \in Heads
      /\ \A r \in Made : r # p => plan[r].status \notin Committed
  BY Kinds DEF Extend, Extendable, Open, NewPlan, PlanInv, TypeOK
<1>2. PICK own \in SUBSET Steps : \E kept \in SUBSET Keepable(p, own) :
         IF Coherent(p)
         THEN plan' = [plan EXCEPT ![p].status = "replanning", ![q] = Draft(p, own, kept, head)]
         ELSE SupersededBy(p, q, Draft(p, own, kept, head))
  BY DEF Extend
<1>3. PICK kept \in SUBSET own :
         IF Coherent(p)
         THEN plan' = [plan EXCEPT ![p].status = "replanning", ![q] = Draft(p, own, kept, head)]
         ELSE SupersededBy(p, q, Draft(p, own, kept, head))
  BY <1>2 DEF Keepable
<1>4. PICK pl : pl = Draft(p, own, kept, head) /\ PlanGood(q, pl) /\ pl.status = "draft"
  BY <1>1, DraftParts
<1>5. CASE Coherent(p)
  <2>1. PICK old : old = [plan[p] EXCEPT !.status = "replanning"] /\ PlanGood(p, old)
    BY <1>1, Parts, StatusGood DEF PlanStatus, Committed
  <2>2. plan' = [plan EXCEPT ![p] = old, ![q] = pl]
    BY <1>3, <1>4, <1>5, <2>1
  <2>3. /\ plan'[q] = pl /\ \A r \in Plans : r # p /\ r # q => plan'[r] = plan[r]
    BY <1>1, <2>2 DEF PlanInv, TypeOK
  <2>4. \A r \in Made' : r # p => plan'[r].status \notin Committed
    BY <1>1, <1>4, <2>3 DEF Made, Committed
  <2>5. QED
    BY <2>4, OneTakes
<1>6. CASE ~Coherent(p)
  <2>1. SupersededBy(p, q, pl)
    BY <1>3, <1>4, <1>6
  <2>2. /\ Made' = Made \union {q} /\ plan'[p].status = "superseded"
        /\ \A r \in Made : r # p /\ r # q => plan'[r] = plan[r]
    BY <1>1, <1>4, <2>1, PlanReplaced
  <2>3. \A r \in Made' : r # q => plan'[r].status \notin Committed
    BY <1>1, <2>2 DEF Committed
  <2>4. QED
    BY <2>3, OneTakes
<1>7. QED
  BY <1>5, <1>6

LEMMA ApproveAuthority ==
    ASSUME PlanInv, OneScopeAuthority, NEW q \in Plans, Approve(q)
    PROVE  OneScopeAuthority'
<1>1. /\ q \in Made /\ plan[q].status = "draft"
      /\ \A r \in Made \ {q} : plan[r].status \in Committed =>
              r = plan[q].from /\ plan[r].status = "replanning"
      /\ \A s \in Brought(q) :
              plan[q].carried[s] = Carry(plan[q].from, s, plan[q].kept, plan[q].source)
  BY DEF Approve, Approvable, Brought
<1>2. PICK next : next = Approved(q) /\ PlanGood(q, next)
  BY <1>1, ApprovedGood
<1>3. \/ /\ plan[q].from # None /\ SupersededBy(plan[q].from, q, next)
      \/ /\ ~(plan[q].from # None /\ plan[plan[q].from].status = "replanning")
         /\ plan' = [plan EXCEPT ![q] = next]
  BY <1>2, Zenon DEF Approve, Approved, Brought
<1>4. plan[q].from # None => plan[q].from \in Made \ {q}
  BY <1>1, Parts DEF PlanGood
<1>5. CASE plan[q].from # None /\ SupersededBy(plan[q].from, q, next)
  <2>1. PICK p \in Made : p = plan[q].from /\ p # q
    BY <1>4, <1>5
  <2>2. /\ Made' = Made \union {q} /\ plan'[p].status = "superseded"
        /\ \A r \in Made : r # p /\ r # q => plan'[r] = plan[r]
    BY <1>2, <1>5, <2>1, PlanReplaced
  <2>3. \A r \in Made' : r # q => plan'[r].status \notin Committed
    BY <1>1, <2>1, <2>2 DEF Committed
  <2>4. QED
    BY <2>3, OneTakes
<1>6. CASE /\ ~(plan[q].from # None /\ plan[plan[q].from].status = "replanning")
           /\ plan' = [plan EXCEPT ![q] = next]
  <2>1. Made' = Made \union {q} /\ \A r \in Made : r # q => plan'[r] = plan[r]
    BY <1>2, <1>6, PlanWritten DEF PlanGood
  <2>2. \A r \in Made : r # q => plan[r].status \notin Committed
    BY <1>1, <1>6, NoneApart DEF Made
  <2>3. QED
    BY <2>1, <2>2, OneTakes
<1>7. QED
  BY <1>3, <1>5, <1>6

LEMMA SupersedeAuthority ==
    ASSUME PlanInv, OneScopeAuthority, NEW p \in Plans, NEW q \in Plans, Supersede(p, q)
    PROVE  OneScopeAuthority'
<1>1. /\ p \in Made /\ Open(p) /\ q \in Made /\ p # q /\ PlanGood(q, plan[q])
      /\ SupersededBy(p, q, plan[q])
      /\ revived' = IF Reopens(q, plan'[q].status) \/ p \in revived
                    THEN revived \union {q} ELSE revived
  BY Parts, NoneApart DEF Supersede, Open, PlanGood
<1>2. /\ Made' = Made \union {q} /\ plan'[p].status = "superseded"
      /\ plan'[q].status = IF SomeMoves(p, plan[q]) THEN "executing" ELSE plan[q].status
      /\ \A r \in Made : r # p /\ r # q => plan'[r] = plan[r]
  BY <1>1, PlanReplaced
<1>3. "superseded" \notin Committed /\ "executing" \notin Finished
  BY DEF Committed, Finished
<1>4. CASE plan[q].status \in Committed \/ ~SomeMoves(p, plan[q]) \/ q \in revived'
  BY <1>1, <1>2, <1>3, <1>4, NoNewAuthority
<1>5. CASE plan[q].status \notin Committed /\ SomeMoves(p, plan[q]) /\ q \notin revived'
  <2>1. PICK w \in Works : Moves(p, plan[q], w)
    BY <1>5 DEF SomeMoves
  <2>2. work[w].step \in Steps /\ plan[p].step[work[w].step] = [status |-> "executing", work |-> w]
    BY <1>1, <2>1, MoverOf
  <2>3. p \notin revived /\ plan[p].status \in Committed
    BY <1>1, <1>5, <2>2, Kinds DEF Unbound
  <2>4. \A r \in Made' \ revived' : plan'[r].status \in Committed => r = q
    BY <1>1, <1>2, <1>3, <2>3 DEF OneScopeAuthority
  <2>5. QED
    BY <2>4, OneTakes
<1>6. QED
  BY <1>4, <1>5

LEMMA ScopeReplanAuthority ==
    ASSUME PlanInv, OneScopeAuthority, NEW p \in Plans, NEW q \in Plans, NEW s \in Steps,
           ScopeReplan(p, q, s)
    PROVE  OneScopeAuthority'
<1>1. /\ p \in Made /\ q \in Plans \ Made /\ p # q /\ plan[p].status \in Committed
      /\ revived' = IF p \in revived THEN revived \union {q} ELSE revived
      /\ plan' = [plan EXCEPT ![p] = [plan[p] EXCEPT !.status = "superseded"], ![q] = Copy(p)]
  BY DEF ScopeReplan, NewPlan, Committed, Copy, PlanInv, TypeOK
<1>2. PICK copy : copy = Copy(p)
  OBVIOUS
<1>3. PICK old : old = [plan[p] EXCEPT !.status = "superseded"]
  OBVIOUS
<1>4. old.status = "superseded"
  BY <1>1, <1>3, Parts DEF PlanGood, Plan
<1>5. /\ plan'[p] = old /\ \A r \in Plans : r # p /\ r # q => plan'[r] = plan[r]
  BY <1>1, <1>2, <1>3 DEF PlanInv, TypeOK
<1>6. CASE p \in revived
  BY <1>1, <1>4, <1>5, <1>6, NoNewAuthority DEF Made, Committed
<1>7. CASE p \notin revived
  <2>1. \A r \in Made' \ revived' : plan'[r].status \in Committed => r = q
    BY <1>1, <1>4, <1>5, <1>7 DEF Made, Committed, OneScopeAuthority
  <2>2. QED
    BY <2>1, OneTakes
<1>8. QED
  BY <1>6, <1>7

LEMMA ProjectionAuthority ==
    ASSUME PlanInv, OneScopeAuthority, NEW p, NEW s \in Steps, NEW w \in Started, Projection(p, s, w)
    PROVE  OneScopeAuthority'
<1>1. CASE UNCHANGED <<plan, revived>>
  BY <1>1, NoNewAuthority DEF Made
<1>2. CASE Holds(p, s, w) /\ ~UNCHANGED <<plan, revived>>
  <2>1. PICK status :
          /\ plan' = [plan EXCEPT ![p].status = status, ![p].step[s] =
                         IF work[w].status = "completed" THEN [status |-> "validating", work |-> @.work]
                         ELSE Unbound("ready")]
          /\ status \in Committed /\ Reopened(p, status)
    BY <1>2 DEF Projection, Committed
  <2>2. p \in Made /\ p \in Plans /\ plan[p].step[s].work = w /\ w # None
    BY <1>2, NoneApart, Parts DEF Holds
  <2>3. plan[p].status \in Committed \union Finished
    BY <2>2, Kinds DEF Unbound
  <2>4. status \notin Finished
    BY <2>1 DEF Committed, Finished
  <2>5. \A r \in Plans : r # p => plan'[r] = plan[r]
    BY <2>1 DEF PlanInv, TypeOK
  <2>6. revived \subseteq revived' /\ (plan[p].status \in Finished => p \in revived')
    BY <2>1, <2>4 DEF Reopened, Reopens
  <2>7. QED
    BY <2>2, <2>3, <2>5, <2>6, NoNewAuthority DEF Made
<1>3. QED
  BY <1>1, <1>2 DEF Projection

LEMMA AcceptAuthority ==
    ASSUME PlanInv, OneScopeAuthority, NEW p \in Plans, NEW s \in Steps, Accept(p, s)
    PROVE  OneScopeAuthority'
<1> DEFINE now == [plan[p] EXCEPT !.step[s].status = "completed", !.source = head]
           all == Done(now) = now.own
           new == IF all THEN [now EXCEPT !.status = "finalized"]
                  ELSE Projected([now EXCEPT !.status = "executing"])
<1>1. /\ p \in Made /\ plan[p].step[s].status = "validating" /\ plan' = [plan EXCEPT ![p] = new]
      /\ Reopened(p, IF all THEN "finalized" ELSE "executing")
  BY DEF Accept
<1>2. plan[p].status \in Committed \union Finished
  BY <1>1, Kinds DEF Unbound
<1>3. plan[p] \in Plan
  BY <1>1, Parts DEF PlanGood
<1>4. now.status = plan[p].status /\ DOMAIN now = DOMAIN plan[p]
  BY <1>3 DEF Plan
<1>5. all => new.status = "finalized"
  BY <1>3, <1>4 DEF Plan
<1> HIDE DEF new
<1>6. \A r \in Plans : r # p => plan'[r] = plan[r]
  BY <1>1 DEF PlanInv, TypeOK
<1>7. plan'[p] = new
  BY <1>1 DEF PlanInv, TypeOK
<1> HIDE DEF all, now
<1>8. /\ revived \subseteq revived' /\ (plan[p].status \in Finished /\ ~all => p \in revived')
  BY <1>1 DEF Reopened, Reopens, Finished
<1>9. all => plan'[p].status \notin Committed
  BY <1>5, <1>7 DEF Committed
<1>10. QED
  BY <1>1, <1>2, <1>6, <1>8, <1>9, NoNewAuthority DEF Made

(* A plan that is committed, or loses its authority.                        *)
LEMMA RestatedAuthority ==
    ASSUME PlanInv, OneScopeAuthority, NEW p \in Made, NEW status, UNCHANGED revived,
           \A r \in Plans : r # p => plan'[r] = plan[r],
           plan[p].status \in Committed
    PROVE  OneScopeAuthority'
BY NoNewAuthority DEF Made

LEMMA NextAuthority ==
    ASSUME PlanInv, OneScopeAuthority, [Next]_vars
    PROVE  OneScopeAuthority'
<1>1. CASE UNCHANGED <<plan, revived>>
  BY <1>1, NoNewAuthority DEF Made
<1>2. ASSUME NEW p \in Plans, Create(p) \/ Redraft(p) \/ Approve(p) PROVE OneScopeAuthority'
  BY <1>2, CreateAuthority, RedraftAuthority, ApproveAuthority
<1>3. ASSUME NEW p \in Plans, NEW q \in Plans, Extend(p, q) \/ Supersede(p, q)
      PROVE  OneScopeAuthority'
  BY <1>3, ExtendAuthority, SupersedeAuthority
<1>4. ASSUME NEW p \in Plans, NEW s \in Steps, Repair(p, s) PROVE OneScopeAuthority'
  <2>1. plan[p].step[s].work \in Started /\ Projection(p, s, plan[p].step[s].work)
    BY <1>4 DEF Repair
  <2>2. QED
    BY <2>1, ProjectionAuthority
<1>5. ASSUME NEW p \in Plans, NEW s \in Steps, NEW w \in Works, Start(w, p, s)
      PROVE  OneScopeAuthority'
  <2>1. p \in Made /\ plan[p].status \in Committed /\ UNCHANGED revived
    BY <1>5 DEF Start, Committed
  <2>2. \A r \in Plans : r # p => plan'[r] = plan[r]
    BY <1>5 DEF Start, PlanInv, TypeOK
  <2>3. QED
    BY <2>1, <2>2, RestatedAuthority
<1>6. ASSUME NEW w \in Works, Claim(w) PROVE OneScopeAuthority'
  <2> DEFINE p == work[w].plan
  <2>1. CASE plan' = plan
    BY <1>1, <1>6, <2>1 DEF Claim
  <2>2. CASE Claimable(plan[p], work[w].step)
    <3>1. plan[p].status \in Committed /\ UNCHANGED revived
      BY <1>6, <2>2 DEF Claim, Claimable, Committed
    <3>2. p \in Made
      BY <1>6, Parts, NoneApart DEF Claim, WorkGood, CallGood, Call
    <3>3. \A r \in Plans : r # p => plan'[r] = plan[r]
      BY <1>6 DEF Claim, PlanInv, TypeOK
    <3>4. QED
      BY <3>1, <3>2, <3>3, RestatedAuthority
  <2>3. QED
    BY <1>6, <2>1, <2>2 DEF Claim
<1>7. ASSUME NEW w \in Works, Project(w) PROVE OneScopeAuthority'
  <2>1. w \in Started /\ work[w].step \in Steps
    BY <1>7, Parts, NoneApart DEF Project, CallGood, Call, WorkGood, Work
  <2>2. QED
    BY <1>7, <2>1, ProjectionAuthority DEF Project
<1>8. ASSUME NEW w \in Works, TechnicalRetry(w) PROVE OneScopeAuthority'
  <2> DEFINE p == work[w].plan
  <2>1. p \in Made /\ plan[p].status \in Committed /\ UNCHANGED revived
    BY <1>8, Parts DEF TechnicalRetry, WorkGood, Committed
  <2>2. \A r \in Plans : r # p => plan'[r] = plan[r]
    BY <1>8 DEF TechnicalRetry, PlanInv, TypeOK
  <2>3. QED
    BY <2>1, <2>2, RestatedAuthority
<1>9. ASSUME NEW p \in Plans, NEW s \in Steps, NEW q \in Plans, ScopeReplan(p, q, s)
      PROVE  OneScopeAuthority'
  BY <1>9, ScopeReplanAuthority
<1>10. ASSUME NEW p \in Plans, NEW s \in Steps, Accept(p, s) PROVE OneScopeAuthority'
  BY <1>10, AcceptAuthority
<1>11. ASSUME NEW w \in Works, Fail(w) \/ GoOn(w) PROVE OneScopeAuthority'
  BY <1>1, <1>11 DEF Fail, GoOn
<1>12. ASSUME NEW w \in Works, NEW status, NEW moved, End(w, status, moved) PROVE OneScopeAuthority'
  BY <1>1, <1>12 DEF End
<1>13. CASE Drift \/ Crash \/ Retire
  BY <1>1, <1>13 DEF Drift, Crash, Retire
<1>14. CASE UNCHANGED vars
  BY <1>1, <1>14 DEF vars
<1>15. QED
  BY <1>2, <1>3, <1>4, <1>5, <1>6, <1>7, <1>8, <1>9, <1>10, <1>11, <1>12, <1>13, <1>14 DEF Next

(* OneScopeAuthority: of the plans of a scope, except those that were       *)
(* written again after they had ended, at most one is committed.            *)
THEOREM OneAuthority == Spec => []OneScopeAuthority
<1>1. Init => OneScopeAuthority
  BY DEF Init, OneScopeAuthority, Made
<1>2. PlanInv /\ OneScopeAuthority /\ [Next]_vars => OneScopeAuthority'
  BY NextAuthority
<1>3. QED
  BY <1>1, <1>2, PlansTrue, PTL DEF Spec

-----------------------------------------------------------------------------
(* A Work that is at work keeps the step that it holds.                     *)
Held(w) == Holds(work[w].plan, work[w].step, w)
HoldsOn(w) == Held(w) /\ work'[w].status = "active" /\ work'[w].plan \notin revived' => Held(w)'

LEMMA Holder ==
    ASSUME PlanInv, NEW w \in Active, Held(w)
    PROVE  /\ w \in Works /\ w \in Started /\ w # None
           /\ work[w].plan \in Made /\ work[w].plan \in Plans
           /\ PlanGood(work[w].plan, plan[work[w].plan]) /\ plan[work[w].plan] \in Plan
           /\ work[w].step \in Steps /\ work[w].step \in plan[work[w].plan].own
           /\ plan[work[w].plan].step[work[w].step].work = w
           /\ plan[work[w].plan].status # "draft"
<1>1. w \in Started /\ w \in Works
  BY DEF Active, Started
<1>2. WorkGood(w) /\ PlanGood(work[w].plan, plan[work[w].plan]) /\ work[w].plan \in Plans
  BY <1>1, Parts DEF WorkGood
<1>3. QED
  BY <1>1, <1>2, NoneApart DEF WorkGood, PlanGood, Held, Holds, Plan

(* The Work is left where it is, and so is its step.                        *)
LEMMA LeftHeld ==
    ASSUME PlanInv, NEW w \in Active,
           Held(w) => /\ work[w].plan \in Made'
                      /\ work'[w].plan = work[w].plan /\ work'[w].step = work[w].step
                      /\ plan'[work[w].plan].own = plan[work[w].plan].own
                      /\ plan'[work[w].plan].step[work[w].step].work = w
    PROVE  HoldsOn(w)
BY Holder DEF HoldsOn, Held, Holds

(* The Works are left alone and one plan is written, which keeps the steps  *)
(* that Works at work hold in it.                                           *)
LEMMA OthersHold ==
    ASSUME PlanInv, PlanInv', NEW p \in Plans, NEW w \in Active,
           \A r \in Plans : r # p => plan'[r] = plan[r],
           work'[w] = work[w],
           Held(w) /\ work[w].plan = p =>
              plan'[p].own = plan[p].own /\ plan'[p].step[work[w].step].work = w
    PROVE  HoldsOn(w)
<1>1. Held(w) => work[w].plan \in Made'
  BY Holder DEF PlanInv, RecordsLinked, Started
<1>2. QED
  BY <1>1, Holder, LeftHeld

LEMMA NothingHappens ==
    ASSUME PlanInv, NEW w \in Active, plan' = plan, work'[w] = work[w] \/ work'[w].status # "active"
    PROVE  HoldsOn(w)
<1>1. CASE work'[w] = work[w]
  BY <1>1, Holder, LeftHeld DEF Made
<1>2. QED
  BY <1>1 DEF HoldsOn

LEMMA HeirSteps ==
    ASSUME PlanInv, NEW p \in Made, NEW q, NEW successor, PlanGood(q, successor)
    PROVE  /\ Heir(p, successor).own = successor.own
           /\ \A s \in Steps :
                 \/ Mover(p, successor, s) = {} /\ Heir(p, successor).step[s] = successor.step[s]
                 \/ \E w \in Mover(p, successor, s) :
                       Heir(p, successor).step[s] = [status |-> "executing", work |-> w]
<1> DEFINE status == IF SomeMoves(p, successor) THEN "executing" ELSE successor.status
           step == [s \in Steps |->
              IF Mover(p, successor, s) = {} THEN successor.step[s]
              ELSE [status |-> "executing", work |-> CHOOSE w \in Mover(p, successor, s) : TRUE]]
<1>1. \A s \in Steps : \/ Mover(p, successor, s) = {} /\ step[s] = successor.step[s]
                       \/ \E w \in Mover(p, successor, s) :
                             step[s] = [status |-> "executing", work |-> w]
  OBVIOUS
<1>2. Heir(p, successor) = [successor EXCEPT !.status = status, !.step = step]
  BY DEF Heir, PlanGood, Plan
<1> HIDE DEF status, step
<1>3. Heir(p, successor).own = successor.own /\ Heir(p, successor).step = step
  BY <1>2 DEF PlanGood, Plan
<1>4. QED
  BY <1>1, <1>3

LEMMA SupersededHolds ==
    ASSUME PlanInv, NEW p \in Made, NEW q \in Plans, p # q, NEW successor, PlanGood(q, successor),
           SupersededBy(p, q, successor), NEW w \in Active,
           (Held(w) /\ work[w].plan = q /\ plan'[q].step[work[w].step].work # w) => q \in revived',
           (Held(w) /\ work[w].plan = q) => successor.own = plan[q].own
    PROVE  HoldsOn(w)
<1> SUFFICES ASSUME Held(w), work'[w].status = "active", work'[w].plan \notin revived'
             PROVE  Held(w)'
  BY DEF HoldsOn
<1> DEFINE r == work[w].plan
           s == work[w].step
<1>1. /\ w \in Works /\ r \in Made /\ s \in Steps /\ s \in plan[r].own /\ plan[r].step[s].work = w
      /\ work[w] \in Work
  BY Holder, Parts DEF WorkGood
<1>2. /\ Made' = Made \union {q} /\ plan'[q] = Heir(p, successor)
      /\ \A t \in Made : t # p /\ t # q => plan'[t] = plan[t]
  BY PlanReplaced
<1>3. /\ Moves(p, successor, w) => work'[w] = Rebound(w, q, successor.source)
      /\ ~Moves(p, successor, w) /\ r = p => work'[w] = [work[w] EXCEPT !.status = "cancelled"]
      /\ ~Moves(p, successor, w) /\ r # p => work'[w] = work[w]
  BY <1>1, SupersededByMeans
<1>4. /\ Heir(p, successor).own = successor.own
      /\ \/ Mover(p, successor, s) = {} /\ Heir(p, successor).step[s] = successor.step[s]
         \/ \E v \in Mover(p, successor, s) :
               Heir(p, successor).step[s] = [status |-> "executing", work |-> v]
  BY <1>1, HeirSteps
<1>5. CASE Moves(p, successor, w)
  <2>1. work'[w].plan = q /\ work'[w].step = s
    BY <1>1, <1>3, <1>5 DEF Rebound, Work
  <2>2. r = p /\ s \in successor.own /\ w \in Mover(p, successor, s)
    BY <1>1, <1>5, MoverOf DEF Mover
  <2>3. ASSUME NEW v \in Mover(p, successor, s) PROVE v = w
    <3>1. Moves(p, successor, v) /\ work[v].step = s
      BY <2>3 DEF Mover
    <3>2. plan[p].step[s] = [status |-> "executing", work |-> v]
      BY <3>1, MoverOf
    <3>3. QED
      BY <1>1, <2>2, <3>2
  <2>4. Heir(p, successor).step[s] = [status |-> "executing", work |-> w]
    BY <1>4, <2>2, <2>3
  <2>5. QED
    BY <1>1, <1>2, <1>4, <2>1, <2>2, <2>4 DEF Held, Holds
<1>6. CASE ~Moves(p, successor, w) /\ r = p
  <2>1. work'[w].status = "cancelled"
    BY <1>1, <1>3, <1>6 DEF Work
  <2>2. QED
    BY <2>1
<1>7. CASE ~Moves(p, successor, w) /\ r # p
  <2>1. work'[w] = work[w]
    BY <1>3, <1>7
  <2>2. CASE r = q
    <3>1. plan'[q].step[s].work = w /\ plan'[q].own = plan[q].own
      BY <1>2, <1>4, <2>1, <2>2
    <3>2. QED
      BY <1>1, <1>2, <2>1, <2>2, <3>1 DEF Held, Holds
  <2>3. CASE r # q
    BY <1>1, <1>2, <1>7, <2>1, <2>3 DEF Held, Holds
  <2>4. QED
    BY <2>2, <2>3
<1>8. QED
  BY <1>5, <1>6, <1>7

-----------------------------------------------------------------------------
LEMMA ExtendHolds ==
    ASSUME PlanInv, NEW p \in Plans, NEW q \in Plans, Extend(p, q), NEW w \in Active
    PROVE  HoldsOn(w)
<1>1. p \in Made /\ q \notin Made /\ p # q /\ head \in Heads
  BY DEF Extend, Extendable, Open, NewPlan, PlanInv, TypeOK
<1>2. PICK own \in SUBSET Steps : \E kept \in SUBSET Keepable(p, own) :
         IF Coherent(p)
         THEN /\ plan' = [plan EXCEPT ![p].status = "replanning", ![q] = Draft(p, own, kept, head)]
              /\ UNCHANGED work
         ELSE SupersededBy(p, q, Draft(p, own, kept, head))
  BY DEF Extend
<1>3. PICK kept \in SUBSET own :
         IF Coherent(p)
         THEN /\ plan' = [plan EXCEPT ![p].status = "replanning", ![q] = Draft(p, own, kept, head)]
              /\ UNCHANGED work
         ELSE SupersededBy(p, q, Draft(p, own, kept, head))
  BY <1>2 DEF Keepable
<1>4. PICK pl : pl = Draft(p, own, kept, head) /\ PlanGood(q, pl)
  BY <1>1, DraftParts
<1>5. Held(w) => work[w].plan # q
  BY <1>1, Holder
<1>6. CASE Coherent(p)
  <2>1. PICK old : old = [plan[p] EXCEPT !.status = "replanning"]
    OBVIOUS
  <2>2. old.own = plan[p].own /\ old.step = plan[p].step /\ old # None
    <3>1. PlanGood(p, old)
      BY <1>1, <2>1, Parts, StatusGood DEF PlanStatus, Committed
    <3>2. QED
      BY <1>1, <2>1, <3>1, Parts, NoneApart DEF PlanGood, Plan
  <2>3. plan' = [plan EXCEPT ![p] = old, ![q] = pl] /\ work' = work
    BY <1>3, <1>4, <1>6, <2>1
  <2>4. plan'[p] = old /\ \A r \in Plans : r # p /\ r # q => plan'[r] = plan[r]
    BY <1>1, <2>3 DEF PlanInv, TypeOK
  <2>5. Made \subseteq Made'
    BY <1>1, <2>2, <2>4 DEF Made
  <2>6. ASSUME Held(w)
        PROVE  /\ plan'[work[w].plan].own = plan[work[w].plan].own
               /\ plan'[work[w].plan].step[work[w].step].work = w
    BY <1>5, <2>2, <2>4, <2>6, Holder
  <2>7. QED
    BY <2>3, <2>5, <2>6, Holder, LeftHeld
<1>7. CASE ~Coherent(p)
  <2>1. SupersededBy(p, q, pl)
    BY <1>3, <1>4, <1>7
  <2>2. QED
    BY <1>1, <1>4, <1>5, <2>1, SupersededHolds
<1>8. QED
  BY <1>6, <1>7

LEMMA ApproveHolds ==
    ASSUME PlanInv, PlanInv', NEW q \in Plans, Approve(q), NEW w \in Active
    PROVE  HoldsOn(w)
<1>1. /\ q \in Made /\ plan[q].status = "draft"
      /\ \A s \in Brought(q) :
              plan[q].carried[s] = Carry(plan[q].from, s, plan[q].kept, plan[q].source)
  BY DEF Approve, Brought
<1>2. PICK next : next = Approved(q) /\ PlanGood(q, next)
  BY <1>1, ApprovedGood
<1>3. \/ /\ plan[q].from # None /\ SupersededBy(plan[q].from, q, next)
      \/ plan' = [plan EXCEPT ![q] = next] /\ UNCHANGED work
  BY <1>2, Zenon DEF Approve, Approved, Brought
<1>4. plan[q].from # None => plan[q].from \in Made \ {q}
  BY <1>1, Parts DEF PlanGood
<1>5. Held(w) => work[w].plan # q
  BY <1>1, Holder
<1>6. CASE plan[q].from # None /\ SupersededBy(plan[q].from, q, next)
  <2>1. PICK p \in Made : p = plan[q].from /\ p # q
    BY <1>4, <1>6
  <2>2. QED
    BY <1>2, <1>5, <1>6, <2>1, SupersededHolds
<1>7. CASE plan' = [plan EXCEPT ![q] = next] /\ UNCHANGED work
  <2>1. Made' = Made \union {q} /\ \A r \in Plans : r # q => plan'[r] = plan[r]
    BY <1>2, <1>7, PlanWritten DEF PlanGood, PlanInv, TypeOK
  <2>2. QED
    BY <1>5, <1>7, <2>1, OthersHold
<1>8. QED
  BY <1>3, <1>6, <1>7

LEMMA SupersedeHolds ==
    ASSUME PlanInv, OneScopeAuthority, NEW p \in Plans, NEW q \in Plans, Supersede(p, q),
           NEW w \in Active
    PROVE  HoldsOn(w)
<1>1. /\ p \in Made /\ Open(p) /\ q \in Made /\ p # q /\ PlanGood(q, plan[q])
      /\ SupersededBy(p, q, plan[q])
      /\ revived' = IF Reopens(q, plan'[q].status) \/ p \in revived
                    THEN revived \union {q} ELSE revived
  BY Parts, NoneApart DEF Supersede, Open, PlanGood
<1>2. ASSUME Held(w), work[w].plan = q, plan'[q].step[work[w].step].work # w
      PROVE  q \in revived'
  <2> DEFINE s == work[w].step
  <2>1. s \in Steps /\ plan[q].step[s].work = w /\ plan[q].status # "draft"
    BY <1>2, Holder
  <2>2. plan'[q] = Heir(p, plan[q])
    BY <1>1, PlanReplaced
  <2>3. Mover(p, plan[q], s) # {}
    BY <1>1, <1>2, <2>1, <2>2, HeirSteps
  <2>4. PICK v : v \in Works /\ Moves(p, plan[q], v)
    BY <2>3 DEF Mover
  <2>5. /\ work[v].step \in Steps
        /\ plan[p].step[work[v].step] = [status |-> "executing", work |-> v]
        /\ SomeMoves(p, plan[q])
    BY <1>1, <2>4, MoverOf
  <2>6. plan[p].status \in Committed
    BY <1>1, <2>5, Kinds DEF Unbound
  <2>7. plan'[q].status = "executing" /\ "executing" \notin Finished
    BY <1>1, <2>5, PlanReplaced DEF Finished
  <2>8. SUFFICES ASSUME q \notin revived' PROVE FALSE
    OBVIOUS
  <2>9. p \notin revived /\ q \notin revived /\ plan[q].status \notin Finished
    BY <1>1, <2>7, <2>8 DEF Reopens
  <2>10. plan[q].status \in Committed
    BY <1>1, <2>1, <2>9, Kinds
  <2>11. QED
    BY <1>1, <2>6, <2>9, <2>10 DEF OneScopeAuthority
<1>3. QED
  BY <1>1, <1>2, SupersededHolds

LEMMA ProjectionHolds ==
    ASSUME PlanInv, PlanInv', NEW p, NEW s \in Steps, NEW v, v \notin Active, Projection(p, s, v),
           UNCHANGED work, NEW w \in Active
    PROVE  HoldsOn(w)
<1>1. CASE plan' = plan
  BY <1>1, NothingHappens
<1>2. CASE Holds(p, s, v) /\ plan' # plan
  <2>1. p \in Made /\ p \in Plans /\ plan[p].step[s].work = v /\ plan[p] \in Plan
    BY <1>2, Parts DEF Holds, PlanGood
  <2> DEFINE ok == work[v].status = "completed"
             status == IF ok THEN "verifying" ELSE "replanning"
             at == IF ok THEN [status |-> "validating", work |-> plan[p].step[s].work] ELSE Unbound("ready")
  <2>2. plan' = [plan EXCEPT ![p].status = status, ![p].step[s] =
                    IF ok THEN [status |-> "validating", work |-> @.work] ELSE Unbound("ready")]
    BY <1>2 DEF Projection
  <2>3. plan' = [plan EXCEPT ![p].status = status, ![p].step[s] = at]
    BY <2>2
  <2> HIDE DEF ok, status, at
  <2>4. /\ \A r \in Plans : r # p => plan'[r] = plan[r]
        /\ plan'[p].own = plan[p].own
        /\ \A t \in Steps : t # s => plan'[p].step[t] = plan[p].step[t]
    BY <2>1, <2>3 DEF PlanInv, TypeOK, Plan
  <2>5. Held(w) /\ work[w].plan = p =>
           plan'[p].own = plan[p].own /\ plan'[p].step[work[w].step].work = w
    BY <2>1, <2>4, Holder
  <2>6. QED
    BY <2>1, <2>4, <2>5, OthersHold
<1>3. QED
  BY <1>1, <1>2 DEF Projection

LEMMA AcceptHolds ==
    ASSUME PlanInv, PlanInv', NEW p \in Plans, NEW s \in Steps, Accept(p, s), NEW w \in Active
    PROVE  HoldsOn(w)
<1> DEFINE now == [plan[p] EXCEPT !.step[s].status = "completed", !.source = head]
           all == Done(now) = now.own
           done == [now EXCEPT !.status = "finalized"]
           on == [now EXCEPT !.status = "executing"]
           new == IF all THEN done ELSE Projected(on)
<1>1. /\ p \in Made /\ plan[p].step[s].status = "validating" /\ plan' = [plan EXCEPT ![p] = new]
      /\ UNCHANGED work
  BY DEF Accept
<1>2. plan[p] \in Plan /\ PlanGood(p, plan[p])
  BY <1>1, Parts DEF PlanGood
<1>3. /\ now.own = plan[p].own
      /\ \A t \in Steps : now.step[t].work = plan[p].step[t].work
      /\ \A t \in Steps : t # s => now.step[t] = plan[p].step[t]
      /\ now.step[s].status = "completed"
  BY <1>2 DEF Plan, Step
<1>4. done.own = now.own /\ done.step = now.step /\ on.own = now.own /\ on.step = now.step
  BY <1>2 DEF Plan
<1>5. /\ Projected(on).own = now.own
      /\ \A t \in Steps : \/ Projected(on).step[t] = now.step[t]
                          \/ now.step[t].status = "pending"
  BY <1>2, <1>4 DEF Projected, Plan
<1> HIDE DEF now, done, on
<1>6. /\ new.own = plan[p].own
      /\ \A t \in Steps : \/ new.step[t].work = plan[p].step[t].work
                          \/ plan[p].step[t].status = "pending"
  BY <1>3, <1>4, <1>5
<1> HIDE DEF new
<1>7. plan'[p] = new /\ \A r \in Plans : r # p => plan'[r] = plan[r]
  BY <1>1 DEF PlanInv, TypeOK
<1>8. Held(w) /\ work[w].plan = p =>
           plan'[p].own = plan[p].own /\ plan'[p].step[work[w].step].work = w
  <2>1. SUFFICES ASSUME Held(w), work[w].plan = p
                 PROVE  plan'[p].own = plan[p].own /\ plan'[p].step[work[w].step].work = w
    OBVIOUS
  <2>2. /\ work[w].step \in Steps /\ w # None
        /\ plan[p].step[work[w].step].work = w
    BY <2>1, Holder
  <2>3. plan[p].step[work[w].step].status # "pending"
    BY <1>2, <2>2 DEF PlanGood, StepGood
  <2>4. QED
    BY <1>6, <1>7, <2>2, <2>3
<1>9. QED
  BY <1>1, <1>7, <1>8, OthersHold

(* One plan is written and the Works are left alone: the simple cases.      *)
LEMMA WrittenHolds ==
    ASSUME PlanInv, PlanInv', NEW w \in Active,
           \/ \E p \in Plans : Create(p) \/ Redraft(p)
           \/ \E v \in Works : Claim(v) \/ TechnicalRetry(v)
    PROVE  HoldsOn(w)
<1>1. ASSUME NEW p \in Plans, Create(p) PROVE HoldsOn(w)
  <2>1. p \notin Made /\ work' = work /\ \A r \in Plans : r # p => plan'[r] = plan[r]
    BY <1>1 DEF Create, NewPlan, PlanInv, TypeOK
  <2>2. QED
    BY <2>1, Holder, OthersHold
<1>2. ASSUME NEW p \in Plans, Redraft(p) PROVE HoldsOn(w)
  <2>1. /\ plan[p].status = "draft" /\ work' = work
        /\ \A r \in Plans : r # p => plan'[r] = plan[r]
    BY <1>2 DEF Redraft, PlanInv, TypeOK
  <2>2. QED
    BY <2>1, Holder, OthersHold
<1>3. ASSUME NEW v \in Works, Claim(v) PROVE HoldsOn(w)
  <2> DEFINE p == work[v].plan
             s == work[v].step
  <2>1. work' = work /\ p \in Plans /\ plan[p] \in Plan
    BY <1>3, Parts, NoneApart DEF Claim, WorkGood, CallGood, Call, PlanGood
  <2>2. CASE plan' = plan
    BY <2>1, <2>2, NothingHappens
  <2>3. CASE /\ plan[p].step[s].work = None
             /\ plan' = [plan EXCEPT ![p].status = "executing",
                            ![p].step[s] = [status |-> "executing", work |-> v]]
    <3> HIDE DEF p, s
    <3>1. /\ \A r \in Plans : r # p => plan'[r] = plan[r]
          /\ plan'[p].own = plan[p].own
          /\ \A t \in Steps : t # s => plan'[p].step[t] = plan[p].step[t]
      BY <2>1, <2>3 DEF PlanInv, TypeOK, Plan
    <3>2. plan[p].step[s].work = None
      BY <2>3
    <3>3. Held(w) /\ work[w].plan = p => work[w].step # s /\ work[w].step \in Steps
      BY <3>2, Holder
    <3>4. Held(w) /\ work[w].plan = p =>
             plan'[p].own = plan[p].own /\ plan'[p].step[work[w].step].work = w
      BY <3>1, <3>3, Holder
    <3>5. QED
      BY <2>1, <3>1, <3>4, OthersHold
  <2>4. \/ plan' = plan
        \/ /\ Claimable(plan[p], s)
           /\ plan' = [plan EXCEPT ![p].status = "executing",
                          ![p].step[s] = [status |-> "executing", work |-> v]]
    BY <1>3, Zenon DEF Claim
  <2>5. Claimable(plan[p], s) => plan[p].step[s].work = None
    BY DEF Claimable
  <2> HIDE DEF p, s
  <2>6. QED
    BY <2>2, <2>3, <2>4, <2>5
<1>4. ASSUME NEW v \in Works, TechnicalRetry(v) PROVE HoldsOn(w)
  <2> DEFINE p == work[v].plan
  <2>1. work' = work /\ p \in Plans /\ plan[p] \in Plan
    BY <1>4, Parts DEF TechnicalRetry, WorkGood, PlanGood
  <2>2. plan' = [plan EXCEPT ![p].status = "executing"]
    BY <1>4 DEF TechnicalRetry
  <2> HIDE DEF p
  <2>3. /\ \A r \in Plans : r # p => plan'[r] = plan[r]
        /\ plan'[p].own = plan[p].own /\ plan'[p].step = plan[p].step
    BY <2>1, <2>2 DEF PlanInv, TypeOK, Plan
  <2>4. QED
    BY <2>1, <2>3, Holder, OthersHold
<1>5. QED
  BY <1>1, <1>2, <1>3, <1>4

LEMMA StartHolds ==
    ASSUME PlanInv, PlanInv', NEW p \in Plans, NEW s \in Steps, NEW v \in Works, Start(v, p, s),
           NEW w \in Active
    PROVE  HoldsOn(w)
<1>1. CASE plan[p].source # head
  <2>1. work' = work /\ plan[p] \in Plan /\ plan' = [plan EXCEPT ![p].status = "invalidated"]
    BY <1>1, Parts DEF Start, PlanGood
  <2>2. /\ \A r \in Plans : r # p => plan'[r] = plan[r]
        /\ plan'[p].own = plan[p].own /\ plan'[p].step = plan[p].step
    BY <2>1 DEF PlanInv, TypeOK, Plan
  <2>3. QED
    BY <2>1, <2>2, Holder, OthersHold
<1>2. CASE plan[p].source = head
  <2>1. plan' = plan /\ v \notin Started
    BY <1>2 DEF Start, NewWork
  <2>2. w # v /\ w \in Works /\ work \in [Works -> Work \union {None}]
    BY <2>1 DEF Active, Started, PlanInv, TypeOK
  <2>3. PICK new : work' = [work EXCEPT ![v] = new]
    BY <1>2, Zenon DEF Start
  <2>4. work'[w] = work[w]
    BY <2>2, <2>3
  <2>5. QED
    BY <2>1, <2>4, NothingHappens
<1>3. QED
  BY <1>1, <1>2

LEMMA ScopeReplanHolds ==
    ASSUME PlanInv, NEW p \in Plans, NEW q \in Plans, NEW s \in Steps, ScopeReplan(p, q, s),
           NEW w \in Active
    PROVE  HoldsOn(w)
<1> DEFINE v == plan[p].step[s].work
<1>1. /\ p \in Made /\ q \in Plans \ Made /\ p # q /\ v \in Works /\ s \in plan[p].own
      /\ work[v].plan = p /\ work[v].step = s /\ work[v] \in Work
  BY Parts DEF ScopeReplan, NewPlan, Active, Started, WorkGood
<1>2. /\ plan' = [plan EXCEPT ![p] = [plan[p] EXCEPT !.status = "superseded"], ![q] = Copy(p)]
      /\ work' = [work EXCEPT ![v].plan = q, ![v].source = head]
  BY <1>1 DEF ScopeReplan, Copy, PlanInv, TypeOK
<1>3. PICK copy : copy = Copy(p) /\ copy.own = plan[p].own /\ copy.step = plan[p].step /\ copy # None
  BY <1>1, CopyGood, NoneApart DEF PlanGood
<1>4. PICK old : old = [plan[p] EXCEPT !.status = "superseded"] /\ PlanGood(p, old)
  BY <1>1, Parts, StatusGood DEF PlanStatus, Finished
<1>5. old.own = plan[p].own /\ old.step = plan[p].step /\ old # None
  BY <1>1, <1>4, Parts, NoneApart DEF PlanGood, Plan
<1>6. plan'[p] = old /\ plan'[q] = copy /\ \A r \in Plans : r # p /\ r # q => plan'[r] = plan[r]
  BY <1>1, <1>2, <1>3, <1>4 DEF PlanInv, TypeOK
<1>7. q \in Made' /\ Made \subseteq Made'
  <2> HIDE DEF v
  <2>1. QED
    BY <1>1, <1>3, <1>5, <1>6 DEF Made
<1>8. /\ work'[v].plan = q /\ work'[v].step = s
      /\ \A u \in Works : u # v => work'[u] = work[u]
  <2> HIDE DEF v
  <2>1. QED
    BY <1>1, <1>2 DEF PlanInv, TypeOK, Work
<1>9. plan'[q].step[s].work = v /\ s \in plan'[q].own
  BY <1>1, <1>3, <1>6
<1> HIDE DEF v
<1>10. CASE w = v
  BY <1>7, <1>8, <1>9, <1>10 DEF HoldsOn, Held, Holds
<1>11. CASE w # v
  <2>1. ASSUME Held(w)
        PROVE  /\ work[w].plan \in Made' /\ work'[w] = work[w]
               /\ plan'[work[w].plan].own = plan[work[w].plan].own
               /\ plan'[work[w].plan].step[work[w].step].work = w
    <3> DEFINE r == work[w].plan
    <3>1. w \in Works /\ r \in Made /\ r \in Plans /\ plan[r].step[work[w].step].work = w
      BY <2>1, Holder
    <3> HIDE DEF r
    <3>2. plan'[r].own = plan[r].own /\ plan'[r].step = plan[r].step
      <4>1. CASE r = p
        BY <1>5, <1>6, <4>1
      <4>2. CASE r # p
        BY <1>1, <1>6, <3>1, <4>2
      <4>3. QED
        BY <4>1, <4>2
    <3>3. QED
      BY <1>7, <1>8, <1>11, <3>1, <3>2 DEF r
  <2>2. QED
    BY <2>1, LeftHeld
<1>12. QED
  BY <1>10, <1>11

LEMMA NextHolds ==
    ASSUME PlanInv, PlanInv', OneScopeAuthority, [Next]_vars, NEW w \in Active
    PROVE  HoldsOn(w)
<1>1. w \in Works /\ w \in Started /\ work[w].status = "active"
  BY DEF Active, Started
<1>2. CASE UNCHANGED vars
  BY <1>2, NothingHappens DEF vars
<1>3. ASSUME NEW p \in Plans, Create(p) \/ Redraft(p) \/ Approve(p) PROVE HoldsOn(w)
  BY <1>3, WrittenHolds, ApproveHolds
<1>4. ASSUME NEW p \in Plans, NEW q \in Plans, Extend(p, q) \/ Supersede(p, q) PROVE HoldsOn(w)
  BY <1>4, ExtendHolds, SupersedeHolds
<1>5. ASSUME NEW p \in Plans, NEW s \in Steps,
             \/ Accept(p, s)
             \/ \E q \in Plans : ScopeReplan(p, q, s)
             \/ \E v \in Works : Start(v, p, s)
      PROVE  HoldsOn(w)
  BY <1>5, AcceptHolds, ScopeReplanHolds, StartHolds
<1>6. ASSUME NEW p \in Plans, NEW s \in Steps, Repair(p, s) PROVE HoldsOn(w)
  BY <1>6, ProjectionHolds DEF Repair
<1>7. ASSUME NEW v \in Works, Project(v) PROVE HoldsOn(w)
  <2>1. v \notin Active /\ work[v].step \in Steps /\ UNCHANGED work
    BY <1>7, Parts, NoneApart DEF Project, CallGood, Call, WorkGood, Work
  <2>2. Projection(work[v].plan, work[v].step, v)
    BY <1>7 DEF Project
  <2>3. QED
    BY <2>1, <2>2, ProjectionHolds
<1>8. ASSUME NEW v \in Works, Claim(v) \/ TechnicalRetry(v) PROVE HoldsOn(w)
  BY <1>8, WrittenHolds
<1>9. ASSUME NEW v \in Works, NEW status, NEW moved, End(v, status, moved) PROVE HoldsOn(w)
  <2>1. plan' = plan
    BY <1>9 DEF End
  <2>2. work'[w] = work[w] \/ work'[w].status # "active"
    BY <1>1, <1>9, Parts DEF End, WorkGood, Work, PlanInv, TypeOK
  <2>3. QED
    BY <2>1, <2>2, NothingHappens
<1>10. ASSUME NEW v \in Works, Fail(v) \/ GoOn(v) PROVE HoldsOn(w)
  <2>1. plan' = plan
    BY <1>10 DEF Fail, GoOn
  <2>2. work'[w] = work[w] \/ work'[w].status # "active"
    BY <1>1, <1>10, Parts DEF Fail, GoOn, WorkGood, Work, PlanInv, TypeOK
  <2>3. QED
    BY <2>1, <2>2, NothingHappens
<1>11. CASE Drift \/ Crash \/ Retire
  <2>1. plan' = plan
    BY <1>11 DEF Drift, Crash, Retire
  <2>2. work'[w] = work[w] \/ work'[w].status # "active"
    BY <1>1, <1>11, Parts DEF Drift, Crash, Retire, WorkGood, Work
  <2>3. QED
    BY <2>1, <2>2, NothingHappens
<1>12. QED
  BY <1>2, <1>3, <1>4, <1>5, <1>6, <1>7, <1>8, <1>9, <1>10, <1>11 DEF Next

(* HolderKeepsStep: a Work that is at work keeps its step, whatever happens *)
(* to plans and to other Works.                                             *)
THEOREM StepIsKept == Spec => HolderKeepsStep
<1>1. ASSUME PlanInv, PlanInv', OneScopeAuthority, [Next]_vars
      PROVE  [\A w \in Active :
                LET held == Holds(work[w].plan, work[w].step, w)
                IN held /\ work'[w].status = "active" /\ work'[w].plan \notin revived'
                      => held']_vars
  BY <1>1, NextHolds DEF HoldsOn, Held
<1>2. QED
  BY <1>1, PlansTrue, OneAuthority, PTL DEF Spec, HolderKeepsStep
=============================================================================
