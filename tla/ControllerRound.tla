--------------------------- MODULE ControllerRound ---------------------------
(***************************************************************************)
(* The relay of rounds between provider conversations                      *)
(* (packages/kernel/controller/infrastructure/controller-round-store.ts),  *)
(* with the callers that start the provider: launcher_start and            *)
(* controller_release of the gateway, and the scheduler's recovery.        *)
(*                                                                         *)
(* Works are the Works of one relay scope, whose lock makes each operation *)
(* on a round one step; starting the provider happens outside the lock and *)
(* is answered later.  There is one principal.  A host is a conversation   *)
(* that was given the authority of a round, and is named by it; host 0 is  *)
(* nobody.  Whether the semantic state is the same as in the last round is *)
(* left open wherever the code compares fingerprints.  The dispositions    *)
(* wait, wait_for_user and goal_complete close a round alike.              *)
(***************************************************************************)
EXTENDS Naturals, FiniteSets

CONSTANTS
    Works,
    Successor,      \* the Work a plan admits after each Work, or None
    MaxRounds, MaxRepeated, MaxFailures,    \* the budgets of a relay
    MaxGeneration,  \* bound on claim generations
    MaxLaunches,    \* authorities issued after which launcher_start is not tried
    MaxLost,        \* bound on dispatches whose process dies
    MaxRekeys,      \* bound on recoverControllerRoundRelayAuthority
    InTurn,         \* TRUE: a blocked round is not claimed again once another
                    \* Work of the scope has had a round
    None

ASSUME BudgetAssumption ==
    /\ {MaxRounds, MaxRepeated, MaxFailures} \subseteq Nat \ {0}
    /\ {MaxGeneration, MaxLaunches, MaxLost, MaxRekeys} \subseteq Nat
ASSUME SuccessorAssumption == Successor \in [Works -> Works \union {None}]
ASSUME InTurnAssumption == InTurn \in BOOLEAN
ASSUME NoneAssumption == None \notin Works

VARIABLES
    round,      \* the record of each Work: status, authority, and who claimed it
    budget,     \* its rounds, repeated states and failures
    timer,      \* when it was dispatched, whether the grace is over, and its retry
    successor,  \* the successor bound to it
    latest,     \* the Work whose record was written last
    session,    \* the generation of the live ControllerSession of each Work, or 0
    busy,       \* Works with an execution or recent controller activity
    ended,      \* "no", "completed" or "cancelled", for each Work
    flights,    \* dispatches the provider has not answered
    told,       \* the authorities that some host was given
    issued,     \* authorities issued so far
    tries,      \* dispatches since the latest round was opened or rekeyed
    count       \* lost dispatches and rekeys so far

relay == <<round, budget, timer, successor, latest>>
owners == <<session, busy, ended>>
provider == <<flights, told, issued, tries>>
vars == <<relay, owners, provider, count>>

OpenStatus == {"pending_release", "dispatching", "dispatched", "claimed"}
Status == OpenStatus \union
    {"none", "closed", "handed_off", "failed", "abandoned", "blocked", "blocked_repeated",
     "blocked_unknown"}
Nobody == 0
Flight == [work : Works, auth : Nat, by : {"call", "scheduler"}, delivered : BOOLEAN]

Round(s, a, h, g) == [status |-> s, auth |-> a, host |-> h, gen |-> g]
Budget(c, r, f) == [count |-> c, repeated |-> r, failures |-> f]
Timer(sent, aged, retry) == [sent |-> sent, aged |-> aged, retry |-> retry]
Fresh == Timer("never", FALSE, "no")

Init ==
    /\ round = [w \in Works |-> Round("none", 0, 0, 0)]
    /\ budget = [w \in Works |-> Budget(0, 0, 0)]
    /\ timer = [w \in Works |-> Fresh]
    /\ successor = [w \in Works |-> None]
    /\ latest = None
    /\ session = [w \in Works |-> Nobody]
    /\ busy = {}
    /\ ended = [w \in Works |-> "no"]
    /\ flights = {} /\ told = {}
    /\ issued = 0 /\ tries = 0
    /\ count = [lost |-> 0, rekeys |-> 0]

-----------------------------------------------------------------------------
Open(w) == round[w].status \in OpenStatus
Live(w) == session[w] # Nobody
Active == {w \in Works : ended[w] = "no"}
Pending(w) == {f \in flights : f.work = w}

(* The record of w, its budget and its timer are written; it is the latest. *)
Put(w, r, b, t) ==
    /\ round' = [round EXCEPT ![w] = r]
    /\ budget' = [budget EXCEPT ![w] = b]
    /\ timer' = [timer EXCEPT ![w] = t]
    /\ latest' = w

(* Dispatches are counted as far as Bounded looks. *)
Tried(n) == IF n > MaxFailures + MaxLost THEN n ELSE n + 1

Dispatch(w, a, by) ==
    flights' = flights \union {[work |-> w, auth |-> a, by |-> by, delivered |-> FALSE]}

(* The status of a round that is to continue with the given budget.         *)
Continue(c, r, f, status) ==
    IF c > MaxRounds THEN "blocked"
    ELSE IF r >= MaxRepeated THEN "blocked_repeated"
    ELSE IF f >= MaxFailures THEN "blocked" ELSE status

(* The generations a claim may get: the next one for another runtime        *)
(* instance, any after a release or an expiry (see ControllerSession).      *)
Generations(w) ==
    IF Live(w) THEN {session[w], session[w] + 1} \intersect 1 .. MaxGeneration
    ELSE 1 .. MaxGeneration

-----------------------------------------------------------------------------
(* launcher_start: beginInitialControllerRoundDispatch, then the provider.  *)
(* Only a relay abandoned without disposition continues on its budget.      *)
(* Mutant: the round that is open is not looked at.                         *)
MutMayLaunch(w) == w \in Active
MayLaunch(w) ==
    /\ w \in Active
    /\ latest # None =>
          round[latest].status \notin OpenStatus \union {"blocked_unknown"}

Launch(w, same) ==
    /\ MayLaunch(w)
    /\ issued < MaxLaunches
    /\ LET again == latest # None /\ round[latest].status = "abandoned"
           c == IF again THEN budget[latest].count + 1 ELSE 1
           r == IF again /\ same THEN budget[latest].repeated + 1 ELSE 0
           f == IF again THEN budget[latest].failures ELSE 0
           status == Continue(c, r, f, "dispatching")
       IN /\ Put(w, Round(status, issued + 1, 0, 0), Budget(c, r, f), Fresh)
          /\ IF status = "dispatching" THEN Dispatch(w, issued + 1, "call") /\ tries' = 1
             ELSE UNCHANGED <<flights, tries>>
    /\ successor' = [successor EXCEPT ![w] = None]
    /\ issued' = issued + 1
    /\ UNCHANGED <<owners, told, count>>

(* The provider accepts the prompt, which carries the authority.            *)
Deliver(f) ==
    /\ ~f.delivered
    /\ flights' = (flights \ {f}) \union
           {[work |-> f.work, auth |-> f.auth, by |-> f.by, delivered |-> TRUE]}
    /\ told' = told \union {f.auth}
    /\ UNCHANGED <<relay, owners, issued, tries, count>>

(* finishControllerRoundRelayDispatch, for whatever round of the Work is    *)
(* dispatching by then.  The scheduler does not tell an unknown outcome     *)
(* from a failure.                                                          *)
Finished(f, outcome) ==
    LET w == f.work
        r == round[w]
        b == budget[w]
        t == timer[w]
        Becomes(status, failures, sent, retry) ==
            Put(w, Round(status, r.auth, 0, 0), Budget(b.count, b.repeated, failures),
                Timer(sent, FALSE, retry))
    IN IF r.status # "dispatching" THEN UNCHANGED <<round, budget, timer, latest>>
       ELSE CASE outcome = "ok" -> Becomes("dispatched", 0, "new", "no")
              [] outcome = "unknown" /\ f.by = "call" ->
                    Becomes("blocked_unknown", b.failures + 1, t.sent, "no")
              [] outcome = "user" /\ f.by = "call" ->
                    Becomes("closed", b.failures, t.sent, "no")
              [] outcome # "ok" /\ f.by = "scheduler" ->
                    IF b.failures + 1 >= MaxFailures
                    THEN Becomes("blocked", b.failures + 1, t.sent, "no")
                    ELSE Becomes("dispatching", b.failures + 1, t.sent, "later")
              [] OTHER -> Becomes("failed", b.failures + 1, t.sent, "no")

Answer(f, outcome) ==
    /\ outcome \in IF f.delivered THEN {"ok", "unknown"} ELSE {"failed", "user", "unknown"}
    /\ Finished(f, outcome)
    /\ flights' = flights \ {f}
    /\ UNCHANGED <<successor, owners, told, issued, tries, count>>

(* The process that waits for the provider dies.                            *)
Lose(f) ==
    /\ count.lost < MaxLost
    /\ flights' = flights \ {f}
    /\ count' = [lost |-> count.lost + 1, rekeys |-> count.rekeys]
    /\ UNCHANGED <<relay, owners, told, issued, tries>>

-----------------------------------------------------------------------------
(* acknowledgeControllerRoundClaim by the host that has just been given the *)
(* Work.  A round blocked for repeating itself is armed again if the state  *)
(* has changed since.                                                       *)
MayAcknowledge(w, h, g) ==
    \/ round[w].status \in {"dispatching", "dispatched"}
    \/ round[w].status = "claimed" /\ <<round[w].host, round[w].gen>> # <<h, g>>

Acknowledge(w, h, g, changed) ==
    LET b == budget[w]
        rearmed == round[w].status = "blocked_repeated" /\ changed /\ b.failures < MaxFailures
    IN IF MayAcknowledge(w, h, g) \/ rearmed
       THEN Put(w, Round("claimed", round[w].auth, h, g),
                Budget(b.count, IF rearmed THEN 0 ELSE b.repeated, b.failures),
                Timer(timer[w].sent, FALSE, timer[w].retry))
       ELSE UNCHANGED <<round, budget, timer, latest>>

(* controller_claim: a host with the authority of the round claims the Work *)
(* and acknowledges the round, unless its process dies before it does.      *)
Own(w, g) ==
    /\ w \in Active /\ g \in Generations(w)
    /\ session' = [session EXCEPT ![w] = g]
    /\ busy' = busy \union {w}
    /\ UNCHANGED <<successor, ended, provider, count>>

Claim(w, h, g, changed) ==
    /\ h \in told /\ round[w].auth = h
    /\ InTurn /\ round[w].status = "blocked_repeated" => latest = w
    /\ Own(w, g) /\ Acknowledge(w, h, g, changed)

ClaimUnacknowledged(w, h, g) ==
    /\ h \in told /\ round[w].auth = h
    /\ Own(w, g) /\ UNCHANGED <<round, budget, timer, latest>>

(* The gateway binds the Work to the transport session of a caller of the   *)
(* same principal, whatever becomes of the call.                            *)
Bind(w, h, g) ==
    /\ h \in told /\ Live(w)
    /\ Own(w, g) /\ UNCHANGED <<round, budget, timer, latest>>

(* controller_disposition: the Work is bound to the caller, and             *)
(* submitControllerRoundDisposition closes the round.  The authority is     *)
(* asked for when the Work has completed and nobody owns it.                *)
MayDispose(w, h, g) ==
    /\ round[w].status = "claimed" /\ h \in told
    /\ \/ w \in Active /\ Live(w) /\ g = round[w].gen /\ g \in Generations(w)
       \/ ended[w] = "completed" /\ (Live(w) \/ h = round[w].auth) /\ g = session[w]

Closed(w, h, status, b) ==
    /\ Put(w, Round(status, round[w].auth, h, round[w].gen), b, Fresh)
    /\ IF w \in Active
       THEN session' = [session EXCEPT ![w] = round[w].gen] /\ busy' = busy \union {w}
       ELSE UNCHANGED <<session, busy>>
    /\ UNCHANGED <<successor, ended, flights, told, issued, count>>

DisposeContinue(w, h, g, same) ==
    /\ MayDispose(w, h, g)
    /\ w \in Active \/ (successor[w] # None /\ successor[w] \in Active)
    /\ LET p == budget[latest]
           c == p.count + 1
           r == IF same THEN p.repeated + 1 ELSE 0
       IN Closed(w, h, Continue(c, r, p.failures, "pending_release"), Budget(c, r, p.failures))
    /\ tries' = 0

DisposeEnd(w, h, g) ==
    /\ MayDispose(w, h, g)
    /\ LET p == budget[latest]
       IN Closed(w, h, "closed", Budget(p.count, p.repeated, p.failures))
    /\ UNCHANGED tries

(* bindControllerRoundSuccessorWork, with the authority of the round.       *)
BindSuccessor(w, s) ==
    /\ ended[w] = "completed" /\ round[w].status = "claimed" /\ round[w].auth \in told
    /\ s \in Active /\ s # w /\ successor[w] = None
    /\ Successor[w] = s
    /\ successor' = [successor EXCEPT ![w] = s]
    /\ latest' = w
    /\ UNCHANGED <<round, budget, timer, owners, provider, count>>

-----------------------------------------------------------------------------
(* beginControllerRoundRelayAfterRelease for a session of generation g that *)
(* was released, then the provider.                                         *)
(* Mutant: the round keeps its authority.                                   *)
MutRedispatch(w, g) ==
    /\ round[w].status = "pending_release" /\ round[w].gen = g /\ successor[w] = None
    /\ Put(w, Round("dispatching", round[w].auth, 0, 0), budget[w], Fresh)
    /\ Dispatch(w, round[w].auth, "call")
    /\ tries' = Tried(tries) /\ issued' = issued
Redispatch(w, g) ==
    /\ round[w].status = "pending_release" /\ round[w].gen = g /\ successor[w] = None
    /\ Put(w, Round("dispatching", issued + 1, 0, 0), budget[w], Fresh)
    /\ Dispatch(w, issued + 1, "call")
    /\ tries' = Tried(tries) /\ issued' = issued + 1

(* With a successor bound, the round is handed to it.  A successor that has *)
(* an open round itself takes two open rounds in one scope: left out.       *)
HandOff(w, g) ==
    LET s == successor[w]
        b == budget[w]
    IN /\ round[w].status = "pending_release" /\ round[w].gen = g
       /\ s # None /\ s \in Active /\ ended[w] = "completed" /\ round[s].status = "none"
       /\ round' = [round EXCEPT ![w] = Round("handed_off", 0, 0, 0),
                                 ![s] = Round("dispatching", issued + 1, 0, 0)]
       /\ budget' = [budget EXCEPT ![s] = Budget(b.count, 0, b.failures)]
       /\ timer' = [timer EXCEPT ![w] = Fresh, ![s] = Fresh]
       /\ latest' = s
       /\ Dispatch(s, issued + 1, "call")
       /\ tries' = Tried(tries) /\ issued' = issued + 1

(* reconcileControllerRoundAfterAbandonedRelease.                           *)
Abandon(w, g) ==
    /\ round[w].status = "claimed" /\ round[w].gen = g /\ ended[w] # "completed"
    /\ Put(w, Round("abandoned", round[w].auth, 0, 0), budget[w],
           Timer(timer[w].sent, FALSE, timer[w].retry))
    /\ UNCHANGED <<flights, tries, issued>>

Released(w, g) ==
    /\ session' = [session EXCEPT ![w] = Nobody]
    /\ UNCHANGED <<successor, busy, ended, told, count>>
    /\ \/ Redispatch(w, g) \/ HandOff(w, g) \/ Abandon(w, g)
       \/ UNCHANGED <<round, budget, timer, latest, flights, tries, issued>>

(* controller_release: the claim is released first; the process may die     *)
(* before the relay moves on.  A caller without the authority is let        *)
(* through when the runtime instance has changed.                           *)
Release(w, h, g) ==
    /\ h \in told /\ Live(w)
    /\ IF w \in Active THEN g \in Generations(w) ELSE g = session[w]
    /\ round[w].auth = h \/ g # session[w]
    /\ Released(w, g)

(* A release repeated, or a stop, with nobody left to release: the retained *)
(* identity stands for the session.                                         *)
Witness(w) ==
    /\ ~Live(w)
    /\ \/ ended[w] = "completed" /\ round[w].status = "pending_release"
       \/ ended[w] = "cancelled" /\ round[w].status = "claimed"
    /\ Released(w, round[w].gen)

-----------------------------------------------------------------------------
(* recoverControllerRoundRelayAuthority: the user asks for a new authority. *)
Rekey(w) ==
    /\ count.rekeys < MaxRekeys
    /\ w \in Active /\ latest = w
    /\ Open(w) \/ round[w].status \in {"failed", "abandoned"}
    /\ \A v \in Active : v \notin busy /\ ~Live(v)
    /\ Put(w, Round(IF round[w].status = "dispatched" THEN "dispatched" ELSE "dispatching",
                    issued + 1, 0, 0), budget[w],
           Timer(timer[w].sent, FALSE, "no"))
    /\ issued' = issued + 1
    /\ told' = told \union {issued + 1}
    /\ tries' = 0
    /\ count' = [lost |-> count.lost, rekeys |-> count.rekeys + 1]
    /\ UNCHANGED <<successor, owners, flights>>

(* A retry that is due, or a grace that is over since the round was claimed *)
(* or dispatched; without either, since it was written.                     *)
(* Mutant: a round neither claimed nor dispatched is not overdue.           *)
MutOverdue(w) ==
    IF timer[w].retry # "no" THEN timer[w].retry = "due"
    ELSE IF round[w].status = "claimed" THEN timer[w].aged ELSE timer[w].sent = "old"
Overdue(w) ==
    LET t == timer[w]
    IN CASE t.retry # "no" -> t.retry = "due"
         [] t.retry = "no" /\ round[w].status # "claimed" /\ t.sent # "never" -> t.sent = "old"
         [] OTHER -> t.aged

(* claimStalledControllerRoundRelays and the dispatch that follows: the     *)
(* scheduler waits for one before it looks for the next.                    *)
(* Mutant: failures are forgotten.                                          *)
MutStalled(w, same) ==
    LET undispatched == round[w].status \in {"pending_release", "dispatching"}
    IN Budget(IF undispatched THEN budget[w].count ELSE budget[w].count + 1, 0, 0)
Stalled(w, same) ==
    LET b == budget[w]
        undispatched == round[w].status \in {"pending_release", "dispatching"}
    IN Budget(IF undispatched THEN b.count ELSE b.count + 1,
              IF undispatched THEN b.repeated ELSE IF same THEN b.repeated + 1 ELSE 0,
              b.failures)

Stall(w, same) ==
    LET r == round[w]
        b == Stalled(w, same)
        status == Continue(b.count, b.repeated, 0, "dispatching")
        a == IF status # "dispatching" \/ r.status = "dispatching" THEN r.auth ELSE issued + 1
    IN /\ latest = w /\ Open(w) /\ Overdue(w)
       /\ Active # {} /\ Active \intersect busy = {}
       /\ \A f \in flights : f.by # "scheduler"
       /\ Put(w, Round(status, a, 0, 0), b, Timer(timer[w].sent, FALSE, "no"))
       /\ issued' = IF a = r.auth THEN issued ELSE a
       /\ tries' = IF status # "dispatching" THEN tries
                   ELSE IF b.count = budget[w].count THEN Tried(tries) ELSE 1
       /\ IF status = "dispatching" THEN Dispatch(w, a, "scheduler") ELSE UNCHANGED flights
       /\ UNCHANGED <<successor, owners, told, count>>

-----------------------------------------------------------------------------
(* Time: the grace passes, for the last dispatch first; a retry falls due;  *)
(* activity ceases; a claim expires.  A dispatch is given up long before    *)
(* the grace is over.                                                       *)
Quiet(w) == Pending(w) = {}

Age(w, all) ==
    /\ Quiet(w)
    /\ LET t == timer[w]
           next == Timer(IF t.sent = "new" THEN "old" ELSE t.sent, t.aged \/ all, t.retry)
       IN next # t /\ timer' = [timer EXCEPT ![w] = next]
    /\ UNCHANGED <<round, budget, successor, latest, owners, provider, count>>

RetryDue(w) ==
    /\ Quiet(w) /\ timer[w].retry = "later"
    /\ timer' = [timer EXCEPT ![w] = Timer(timer[w].sent, timer[w].aged, "due")]
    /\ UNCHANGED <<round, budget, successor, latest, owners, provider, count>>

Idle(w) ==
    /\ w \in busy
    /\ busy' = busy \ {w}
    /\ UNCHANGED <<relay, session, ended, provider, count>>

Expire(w) ==
    /\ Live(w)
    /\ session' = [session EXCEPT ![w] = Nobody]
    /\ UNCHANGED <<relay, busy, ended, provider, count>>

(* The Work ends, by its owner if it has one (see ControllerSession).       *)
End(w, how) ==
    /\ w \in Active
    /\ ended' = [ended EXCEPT ![w] = how]
    /\ UNCHANGED <<relay, session, busy, provider, count>>

Next ==
    \/ \E f \in flights :
          \/ Deliver(f) \/ Lose(f)
          \/ \E outcome \in {"ok", "failed", "user", "unknown"} : Answer(f, outcome)
    \/ \E w \in Works, same \in BOOLEAN :
          Launch(w, same) \/ Stall(w, same) \/ Age(w, same)
    \/ \E w \in Works, h \in told, g \in 0 .. MaxGeneration :
          \/ ClaimUnacknowledged(w, h, g) \/ Bind(w, h, g) \/ Release(w, h, g)
          \/ DisposeEnd(w, h, g)
          \/ \E same \in BOOLEAN : Claim(w, h, g, same) \/ DisposeContinue(w, h, g, same)
    \/ \E w \in Works :
          \/ Witness(w) \/ Rekey(w) \/ RetryDue(w) \/ Idle(w) \/ Expire(w)
          \/ \E s \in Works : BindSuccessor(w, s)
          \/ \E how \in {"completed", "cancelled"} : End(w, how)

Spec == Init /\ [][Next]_vars

(* A dispatch is answered within its timeout, the scheduler runs on a       *)
(* timer, and time passes.                                                  *)
Fairness ==
    /\ WF_vars(\E f \in flights, o \in {"ok", "failed", "user", "unknown"} : Answer(f, o))
    /\ \A w \in Works :
          /\ WF_vars(\E same \in BOOLEAN : Stall(w, same))
          /\ WF_vars(Age(w, TRUE)) /\ WF_vars(RetryDue(w)) /\ WF_vars(Idle(w))

FairSpec == Spec /\ Fairness

-----------------------------------------------------------------------------
TypeOK ==
    /\ round \in [Works -> [status : Status, auth : Nat, host : Nat, gen : Nat]]
    /\ budget \in [Works -> [count : Nat, repeated : Nat, failures : Nat]]
    /\ timer \in [Works -> [sent : {"never", "new", "old"}, aged : BOOLEAN,
                           retry : {"no", "later", "due"}]]
    /\ successor \in [Works -> Works \union {None}]
    /\ latest \in Works \union {None}
    /\ session \in [Works -> Nat]
    /\ busy \subseteq Works
    /\ ended \in [Works -> {"no", "completed", "cancelled"}]
    /\ flights \subseteq Flight
    /\ told \subseteq Nat /\ issued \in Nat /\ tries \in Nat
    /\ count \in [lost : Nat, rekeys : Nat]

(* An open round was written last in its scope, so that the lookups that    *)
(* ask for the latest record of a scope find it; no authority is known that *)
(* was not issued; and a round only repeats the state of an earlier one.    *)
OpenIsLatest == \A w \in Works : Open(w) => latest = w
Issued ==
    /\ told \subseteq 0 .. issued
    /\ \A w \in Works : round[w].auth <= issued
    /\ \A f \in flights : f.auth <= issued
Counted ==
    \A w \in Works : round[w].status # "none" => budget[w].repeated < budget[w].count
RelayInv == TypeOK /\ OpenIsLatest /\ Issued /\ Counted

(* What bounds the dispatches of a round: none is counted before it is      *)
(* released; each later one follows a failure, a loss, or the first; and a  *)
(* round is overdue only with no dispatch of a call under way.              *)
Spent(w) == IF budget[w].failures < MaxFailures THEN budget[w].failures ELSE MaxFailures - 1
TriesSpent ==
    \A w \in Works :
        /\ round[w].status = "pending_release" => tries = 0
        /\ round[w].status = "dispatching" =>
              tries <= Spent(w) + count.lost + IF Pending(w) = {} THEN 0 ELSE 1
        /\ timer[w].sent = "old" \/ timer[w].aged \/ timer[w].retry = "due" =>
              \A f \in Pending(w) : f.by = "scheduler"
(* A round that is open, or may be opened again, is within its relay's.     *)
WithinRounds ==
    \A w \in Works :
        round[w].status \in OpenStatus \union {"blocked_repeated", "failed", "abandoned"}
            => budget[w].count <= MaxRounds
RoundInv == RelayInv /\ TriesSpent /\ WithinRounds

(* A relay scope has at most one round that is open: launcher_start refuses *)
(* to open another (CONTROLLER_RELAY_ROUND_ALREADY_OPEN), a hand-off closes *)
(* one and opens the next, a claim arms a blocked one again.  The last is   *)
(* why it needs claims in turn.                                             *)
OneOpen == \A v, w \in Works : Open(v) /\ Open(w) => v = w

(* The provider is not started for ever on one round: between two answers   *)
(* of a controller there are at most as many dispatches as failures are     *)
(* allowed, and one for each that was lost with its process; and an open    *)
(* round is within the number of rounds of its relay.                       *)
Bounded ==
    /\ tries <= MaxFailures + count.lost
    /\ \A w \in Works : Open(w) => budget[w].count <= MaxRounds

(* Only a retry of a dispatch whose outcome was not recorded carries an     *)
(* authority that was handed out before; every other dispatch has a new one *)
(* that no earlier conversation knows (claimStalledControllerRoundRelays).  *)
HandedOutOnce ==
    [][\A f \in flights' \ flights :
          ~f.delivered /\ f.auth \in told
             => round[f.work].status = "dispatching" /\ round[f.work].auth = f.auth]_vars

(* A disposition is made by the host that has the authority of the round.   *)
StaleHostShutOut ==
    [][\A w \in Works :
          (/\ round[w].status = "claimed"
           /\ round'[w].status \in {"pending_release", "closed"})
             => round'[w].host = round[w].auth]_vars

(* A prompt that reached a conversation is not sent again, when no process  *)
(* dies and no authority is asked for by the user (claimStalled... after    *)
(* finishControllerRoundRelayDispatch).                                     *)
NoBlindReplay ==
    count = [lost |-> 0, rekeys |-> 0]
        => \A f \in flights : ~f.delivered => f.auth \notin told

(* A round becomes dispatched by an answer to a dispatch made for it.       *)
OwnAnswer ==
    [][\A w \in Works :
          (round[w].status = "dispatching" /\ round'[w].status = "dispatched")
             => \E f \in flights \ flights' : f.work = w /\ f.auth = round[w].auth]_vars

(* A relay does not stay open with nobody at work: again and again no round *)
(* is open, a controller holds a Work, or there is no Work left to do.      *)
RoundEnds ==
    []<>((\A w \in Works : ~Open(w)) \/ (\E w \in Works : Live(w)) \/ Active = {})
=============================================================================
