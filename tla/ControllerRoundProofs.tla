------------------------ MODULE ControllerRoundProofs ------------------------
(* A relay scope has one open round, and no round is dispatched for ever,   *)
(* as long as blocked rounds are claimed in turn; in whatever order they    *)
(* are, an authority is handed out again only to retry a dispatch.          *)
EXTENDS ControllerRound, TLAPS

Rounds == [status : Status, auth : Nat, host : Nat, gen : Nat]
Budgets == [count : Nat, repeated : Nat, failures : Nat]
Timers == [sent : {"never", "new", "old"}, aged : BOOLEAN, retry : {"no", "later", "due"}]

(* The part of the invariant that writing a round has to preserve.          *)
RelayOK ==
    /\ round \in [Works -> Rounds]
    /\ budget \in [Works -> Budgets]
    /\ timer \in [Works -> Timers]
    /\ latest \in Works \union {None}
    /\ issued \in Nat
    /\ \A w \in Works : round[w].auth <= issued
    /\ OpenIsLatest /\ Counted

OthersOK ==
    /\ successor \in [Works -> Works \union {None}]
    /\ session \in [Works -> Nat]
    /\ busy \subseteq Works
    /\ ended \in [Works -> {"no", "completed", "cancelled"}]
    /\ tries \in Nat
    /\ count \in [lost : Nat, rekeys : Nat]

(* What was sent carries an authority that was issued.                      *)
SentOK ==
    /\ flights \subseteq Flight
    /\ \A f \in flights : f.auth <= issued
    /\ told \subseteq 0 .. issued

LEMMA InvParts == RelayInv <=> RelayOK /\ OthersOK /\ SentOK
<1>1. RelayInv => RelayOK /\ OthersOK /\ SentOK
  BY DEF RelayInv, TypeOK, Issued, RelayOK, OthersOK, SentOK, Rounds, Budgets, Timers
<1>2. ASSUME RelayOK, OthersOK, SentOK PROVE RelayInv
  <2>1. told \subseteq Nat
    BY <1>2 DEF RelayOK, SentOK
  <2>. QED
    BY <1>2, <2>1 DEF RelayInv, TypeOK, Issued, RelayOK, OthersOK, SentOK, Rounds, Budgets, Timers
<1>. QED  BY <1>1, <1>2

-----------------------------------------------------------------------------
(* Writing a round of the only Work that may have an open one keeps the     *)
(* relay well-formed.                                                       *)
LEMMA PutKeeps ==
    ASSUME RelayOK, NEW w \in Works, NEW r \in Rounds, NEW b \in Budgets, NEW t \in Timers,
           Put(w, r, b, t), \A v \in Works : Open(v) => v = w,
           issued' \in Nat, issued <= issued', r.auth <= issued',
           b.repeated < b.count
    PROVE  RelayOK'
<1>1. /\ round' = [round EXCEPT ![w] = r] /\ budget' = [budget EXCEPT ![w] = b]
      /\ timer' = [timer EXCEPT ![w] = t] /\ latest' = w
  BY DEF Put
<1>2. /\ round' \in [Works -> Rounds] /\ budget' \in [Works -> Budgets]
      /\ timer' \in [Works -> Timers] /\ latest' \in Works \union {None}
  BY <1>1 DEF RelayOK
<1>3. ASSUME NEW v \in Works
      PROVE  /\ round'[v].auth <= issued'
             /\ round'[v].status \in OpenStatus => latest' = v
             /\ round'[v].status # "none" => budget'[v].repeated < budget'[v].count
  <2>1. CASE v = w
    <3>1. round'[v] = r /\ budget'[v] = b
      BY <2>1, <1>1 DEF RelayOK
    <3>. QED  BY <2>1, <3>1, <1>1
  <2>2. CASE v # w
    <3>1. round'[v] = round[v] /\ budget'[v] = budget[v]
      BY <2>2, <1>1 DEF RelayOK
    <3>2. round[v].auth <= issued /\ round[v].auth \in Nat
      BY DEF RelayOK, Rounds
    <3>3. round[v].status \notin OpenStatus
      BY <2>2 DEF Open
    <3>4. round[v].status # "none" => budget[v].repeated < budget[v].count
      BY DEF RelayOK, Counted
    <3>5. issued \in Nat
      BY DEF RelayOK
    <3>6. round[v].auth <= issued'
      BY <3>2, <3>5
    <3>. QED  BY <3>1, <3>3, <3>4, <3>6
  <2>. QED  BY <2>1, <2>2
<1>. QED  BY <1>2, <1>3 DEF RelayOK, OpenIsLatest, Counted, Open

LEMMA RelayStutters ==
    ASSUME RelayOK, UNCHANGED <<round, budget, timer, latest, issued>>
    PROVE  RelayOK'
BY DEF RelayOK, OpenIsLatest, Counted, Open

LEMMA OpenAlone ==
    ASSUME RelayOK, NEW w \in Works, Open(w)
    PROVE  /\ \A v \in Works : Open(v) => v = w
           /\ latest = w
BY DEF RelayOK, OpenIsLatest

LEMMA RecordTypes ==
    /\ \A s \in Status, a \in Nat, h \in Nat, g \in Nat : Round(s, a, h, g) \in Rounds
    /\ \A s, a, h, g : Round(s, a, h, g).auth = a /\ Round(s, a, h, g).status = s
    /\ \A c \in Nat, r \in Nat, f \in Nat : Budget(c, r, f) \in Budgets
    /\ \A c, r, f : Budget(c, r, f).count = c /\ Budget(c, r, f).repeated = r
    /\ \A s \in {"never", "new", "old"}, o \in BOOLEAN, y \in {"no", "later", "due"} :
          Timer(s, o, y) \in Timers
    /\ Fresh \in Timers
BY DEF Round, Rounds, Budget, Budgets, Timer, Timers, Fresh

LEMMA RelayTypes ==
    ASSUME RelayOK, NEW w \in Works
    PROVE  /\ round[w].status \in Status /\ round[w].auth \in Nat
           /\ round[w].host \in Nat /\ round[w].gen \in Nat
           /\ round[w].auth <= issued /\ issued \in Nat
           /\ budget[w] \in Budgets
           /\ budget[w].count \in Nat /\ budget[w].repeated \in Nat /\ budget[w].failures \in Nat
           /\ timer[w] \in Timers
           /\ timer[w].sent \in {"never", "new", "old"}
           /\ timer[w].retry \in {"no", "later", "due"}
           /\ timer[w].aged \in BOOLEAN
           /\ round[w].status # "none" => budget[w].repeated < budget[w].count
BY DEF RelayOK, Rounds, Budgets, Timers, Counted

LEMMA ContinueType ==
    ASSUME NEW c, NEW r, NEW f, NEW s \in Status PROVE Continue(c, r, f, s) \in Status
BY DEF Continue, Status

-----------------------------------------------------------------------------
(* One lemma for each action.                                               *)
LEMMA DispatchKeeps ==
    ASSUME SentOK, issued \in Nat, NEW w \in Works, NEW a \in Nat, NEW by \in {"call", "scheduler"},
           Dispatch(w, a, by), issued' \in Nat, issued <= issued', a <= issued', UNCHANGED told
    PROVE  SentOK'
<1>. DEFINE n == [work |-> w, auth |-> a, by |-> by, delivered |-> FALSE]
<1>1. n \in Flight /\ n.auth = a
  BY DEF Flight
<1>2. flights' = flights \union {n}
  BY DEF Dispatch
<1>. HIDE DEF n
<1>3. flights' \subseteq Flight
  BY <1>1, <1>2 DEF SentOK
<1>4. ASSUME NEW f \in flights' PROVE f.auth <= issued'
  <2>1. CASE f = n
    BY <2>1, <1>1
  <2>2. CASE f \in flights
    <3>1. f.auth \in Nat /\ f.auth <= issued
      BY <2>2 DEF SentOK, Flight
    <3>. QED  BY <3>1
  <2>. QED  BY <1>2, <2>1, <2>2
<1>5. told' \subseteq 0 .. issued'
  BY DEF SentOK
<1>. QED  BY <1>3, <1>4, <1>5 DEF SentOK

LEMMA SentStays ==
    ASSUME SentOK, issued \in Nat, flights' \subseteq flights, issued' \in Nat, issued <= issued',
           UNCHANGED told
    PROVE  SentOK'
<1>1. ASSUME NEW f \in flights' PROVE f.auth <= issued'
  BY DEF SentOK, Flight
<1>. QED  BY <1>1 DEF SentOK

LEMMA LaunchKeeps ==
    ASSUME RelayOK, OthersOK, SentOK,
           NEW w \in Works, NEW same \in BOOLEAN, Launch(w, same)
    PROVE  RelayOK' /\ OthersOK' /\ SentOK'
<1>. DEFINE again == latest # None /\ round[latest].status = "abandoned"
            c == IF again THEN budget[latest].count + 1 ELSE 1
            r == IF again /\ same THEN budget[latest].repeated + 1 ELSE 0
            f == IF again THEN budget[latest].failures ELSE 0
            status == Continue(c, r, f, "dispatching")
<1>1. c \in Nat /\ r \in Nat /\ f \in Nat /\ r < c
  <2>1. CASE again
    <3>1. latest \in Works
      BY <2>1 DEF RelayOK
    <3>2. /\ budget[latest].count \in Nat /\ budget[latest].repeated \in Nat
          /\ budget[latest].failures \in Nat
          /\ budget[latest].repeated < budget[latest].count
      BY <2>1, <3>1, RelayTypes
    <3>. QED  BY <2>1, <3>2
  <2>2. CASE ~again
    BY <2>2
  <2>. QED  BY <2>1, <2>2
<1>2. /\ Put(w, Round(status, issued + 1, 0, 0), Budget(c, r, f), Fresh)
      /\ IF status = "dispatching" THEN Dispatch(w, issued + 1, "call") /\ tries' = 1
         ELSE UNCHANGED <<flights, tries>>
      /\ successor' = [successor EXCEPT ![w] = None]
      /\ issued' = issued + 1
      /\ UNCHANGED <<owners, told, count>>
  BY DEF Launch
<1>3. \A v \in Works : ~Open(v)
  <2>1. latest # None => round[latest].status \notin OpenStatus
    BY DEF Launch, MayLaunch
  <2>. QED  BY <2>1, NoneAssumption DEF RelayOK, OpenIsLatest, Open
<1>. HIDE DEF c, r, f
<1>4. status \in Status
  <2>1. "dispatching" \in Status
    BY DEF Status, OpenStatus
  <2>. QED  BY <1>1, <2>1, ContinueType
<1>. HIDE DEF status
<1>5. issued \in Nat
  BY DEF RelayOK
<1>6. RelayOK'
  <2>1. /\ Round(status, issued + 1, 0, 0) \in Rounds
        /\ Round(status, issued + 1, 0, 0).auth = issued + 1
        /\ Round(status, issued + 1, 0, 0).status = status
    BY <1>4, <1>5, RecordTypes
  <2>2. /\ Budget(c, r, f) \in Budgets /\ Budget(c, r, f).count = c /\ Budget(c, r, f).repeated = r
    BY <1>1, RecordTypes
  <2>3. Fresh \in Timers
    BY RecordTypes
  <2>. QED  BY <1>1, <1>2, <1>3, <1>4, <1>5, <2>1, <2>2, <2>3, PutKeeps
<1>7. OthersOK'
  <2>1. tries' \in Nat
    BY <1>2 DEF OthersOK
  <2>. QED  BY <1>2, <2>1 DEF OthersOK, owners
<1>8. SentOK'
  <2>1. CASE status = "dispatching"
    BY <1>2, <1>5, <2>1, DispatchKeeps
  <2>2. CASE status # "dispatching"
    BY <1>2, <1>5, <2>2, SentStays
  <2>. QED  BY <2>1, <2>2
<1>. QED  BY <1>6, <1>7, <1>8

LEMMA DeliverKeeps ==
    ASSUME RelayOK, OthersOK, SentOK, NEW f \in flights, Deliver(f)
    PROVE  RelayOK' /\ OthersOK' /\ SentOK'
<1>. DEFINE n == [work |-> f.work, auth |-> f.auth, by |-> f.by, delivered |-> TRUE]
<1>1. RelayOK'
  BY RelayStutters DEF Deliver, relay
<1>2. OthersOK'
  BY DEF Deliver, OthersOK, relay, owners
<1>3. n \in Flight /\ n.auth \in 0 .. issued
  BY DEF SentOK, Flight, RelayOK
<1>4. /\ flights' = (flights \ {f}) \union {n}
      /\ told' = told \union {n.auth} /\ issued' = issued
  BY DEF Deliver
<1>. HIDE DEF n
<1>5. flights' \subseteq Flight /\ told' \subseteq 0 .. issued'
  BY <1>3, <1>4 DEF SentOK
<1>6. \A g \in flights' : g.auth <= issued'
  BY <1>3, <1>4 DEF SentOK, RelayOK
<1>. QED  BY <1>1, <1>2, <1>5, <1>6 DEF SentOK

LEMMA LatestKeeps ==
    ASSUME RelayOK, NEW w \in Works, latest = w, NEW s \in Status,
           NEW a \in Nat, NEW h \in Nat, NEW g \in Nat,
           NEW c \in Nat, NEW r \in Nat, NEW f \in Nat, r < c, NEW t \in Timers,
           Put(w, Round(s, a, h, g), Budget(c, r, f), t),
           issued' \in Nat, issued <= issued', a <= issued'
    PROVE  RelayOK'
<1>1. \A v \in Works : Open(v) => v = w
  BY DEF RelayOK, OpenIsLatest
<1>2. /\ Round(s, a, h, g) \in Rounds /\ Round(s, a, h, g).auth = a
      /\ Round(s, a, h, g).status = s
  BY RecordTypes
<1>3. /\ Budget(c, r, f) \in Budgets /\ Budget(c, r, f).count = c
      /\ Budget(c, r, f).repeated = r
  BY RecordTypes
<1>. QED  BY <1>1, <1>2, <1>3, PutKeeps

LEMMA SameBudget ==
    ASSUME RelayOK, NEW w \in Works
    PROVE  budget[w] = Budget(budget[w].count, budget[w].repeated, budget[w].failures)
BY DEF RelayOK, Budgets, Budget

LEMMA TimerKeeps ==
    ASSUME RelayOK, NEW w \in Works, NEW t \in Timers, timer' = [timer EXCEPT ![w] = t],
           UNCHANGED <<round, budget, latest, issued>>
    PROVE  RelayOK'
<1>1. timer' \in [Works -> Timers]
  BY DEF RelayOK
<1>. QED  BY <1>1 DEF RelayOK, OpenIsLatest, Counted, Open

LEMMA FinishedKeeps ==
    ASSUME RelayOK, NEW f \in Flight, NEW outcome \in {"ok", "failed", "user", "unknown"},
           Finished(f, outcome), issued' = issued
    PROVE  RelayOK'
<1>. DEFINE w == f.work
            Becomes(status, failures, sent, retry) ==
               Put(w, Round(status, round[w].auth, 0, 0),
                   Budget(budget[w].count, budget[w].repeated, failures),
                   Timer(sent, FALSE, retry))
<1>1. w \in Works
  BY DEF Flight
<1>2. CASE round[w].status # "dispatching"
  BY <1>2, RelayStutters DEF Finished
<1>3. CASE round[w].status = "dispatching"
  <2>1. latest = w
    BY <1>1, <1>3, OpenAlone DEF Open, OpenStatus
  <2>2. /\ round[w].auth \in Nat /\ round[w].auth <= issued /\ issued \in Nat
        /\ budget[w].count \in Nat /\ budget[w].repeated \in Nat /\ budget[w].failures \in Nat
        /\ budget[w].repeated < budget[w].count
        /\ timer[w].sent \in {"never", "new", "old"}
    BY <1>1, <1>3, RelayTypes
  <2>3. PICK status \in {"dispatched", "blocked_unknown", "closed", "blocked",
                         "dispatching", "failed"},
             failures \in {0, budget[w].failures, budget[w].failures + 1},
             sent \in {"new", timer[w].sent}, retry \in {"no", "later"} :
             Becomes(status, failures, sent, retry)
    <3>1. CASE outcome = "ok"
      BY <1>3, <3>1 DEF Finished
    <3>2. CASE outcome = "unknown" /\ f.by = "call"
      BY <1>3, <3>2 DEF Finished
    <3>3. CASE outcome = "user" /\ f.by = "call"
      BY <1>3, <3>3 DEF Finished
    <3>4. CASE outcome # "ok" /\ f.by = "scheduler"
      BY <1>3, <3>4 DEF Finished
    <3>5. CASE outcome = "failed" /\ f.by = "call"
      BY <1>3, <3>5 DEF Finished
    <3>. QED  BY <3>1, <3>2, <3>3, <3>4, <3>5 DEF Flight
  <2>4. status \in Status /\ failures \in Nat
    BY <2>2 DEF Status, OpenStatus
  <2>5. Timer(sent, FALSE, retry) \in Timers
    BY <2>2, RecordTypes
  <2>6. Put(w, Round(status, round[w].auth, 0, 0),
            Budget(budget[w].count, budget[w].repeated, failures), Timer(sent, FALSE, retry))
    BY <2>3
  <2>7. issued' \in Nat /\ issued <= issued' /\ round[w].auth <= issued'
    BY <2>2
  <2>. HIDE DEF w, Becomes
  <2>. QED  BY <1>1, <2>1, <2>2, <2>4, <2>5, <2>6, <2>7, LatestKeeps
<1>. QED  BY <1>2, <1>3

LEMMA AnswerKeeps ==
    ASSUME RelayOK, OthersOK, SentOK, NEW f \in flights,
           NEW outcome \in {"ok", "failed", "user", "unknown"}, Answer(f, outcome)
    PROVE  RelayOK' /\ OthersOK' /\ SentOK'
<1>1. f \in Flight /\ f.auth \in Nat /\ issued \in Nat
  BY DEF SentOK, Flight, RelayOK
<1>2. RelayOK'
  BY <1>1, FinishedKeeps DEF Answer
<1>3. OthersOK'
  BY <1>1 DEF Answer, OthersOK, owners
<1>4. SentOK'
  BY <1>1, SentStays DEF Answer
<1>. QED  BY <1>2, <1>3, <1>4

LEMMA LoseKeeps ==
    ASSUME RelayOK, OthersOK, SentOK, NEW f \in flights, Lose(f)
    PROVE  RelayOK' /\ OthersOK' /\ SentOK'
<1>1. RelayOK'
  BY RelayStutters DEF Lose, relay
<1>2. OthersOK'
  BY DEF Lose, OthersOK, relay, owners
<1>3. SentOK'
  BY SentStays DEF Lose, RelayOK
<1>. QED  BY <1>1, <1>2, <1>3

-----------------------------------------------------------------------------
(* Claims, dispositions and releases.                                       *)
LEMMA AcknowledgeKeeps ==
    ASSUME RelayOK, NEW w \in Works, NEW h \in Nat, NEW g \in Nat, NEW changed \in BOOLEAN,
           Acknowledge(w, h, g, changed), issued' = issued,
           round[w].status = "blocked_repeated" => latest = w
    PROVE  RelayOK'
<1>. DEFINE rearmed == /\ round[w].status = "blocked_repeated" /\ changed
                       /\ budget[w].failures < MaxFailures
            r == IF rearmed THEN 0 ELSE budget[w].repeated
<1>1. CASE ~MayAcknowledge(w, h, g) /\ ~rearmed
  BY <1>1, RelayStutters DEF Acknowledge
<1>2. CASE MayAcknowledge(w, h, g) \/ rearmed
  <2>1. Put(w, Round("claimed", round[w].auth, h, g),
            Budget(budget[w].count, r, budget[w].failures),
            Timer(timer[w].sent, FALSE, timer[w].retry))
    BY <1>2 DEF Acknowledge
  <2>2. latest = w /\ round[w].status # "none"
    <3>1. CASE MayAcknowledge(w, h, g)
      <4>1. Open(w) /\ round[w].status # "none"
        BY <3>1 DEF MayAcknowledge, Open, OpenStatus
      <4>. QED  BY <4>1, OpenAlone
    <3>2. CASE rearmed
      BY <3>2
    <3>. QED  BY <1>2, <3>1, <3>2
  <2>3. /\ round[w].auth \in Nat /\ round[w].auth <= issued /\ issued \in Nat
        /\ budget[w].count \in Nat /\ budget[w].repeated \in Nat /\ budget[w].failures \in Nat
        /\ budget[w].repeated < budget[w].count
        /\ Timer(timer[w].sent, FALSE, timer[w].retry) \in Timers
    BY <2>2, RelayTypes, RecordTypes
  <2>4. r \in Nat /\ r < budget[w].count
    BY <2>3
  <2>5. issued' \in Nat /\ issued <= issued' /\ round[w].auth <= issued'
    BY <2>3
  <2>6. "claimed" \in Status
    BY DEF Status, OpenStatus
  <2>. HIDE DEF r
  <2>. QED  BY <2>1, <2>2, <2>3, <2>4, <2>5, <2>6, LatestKeeps
<1>. QED  BY <1>1, <1>2

LEMMA OwnKeeps ==
    ASSUME RelayOK, OthersOK, SentOK, NEW w \in Works, NEW g \in Nat, Own(w, g)
    PROVE  OthersOK' /\ SentOK' /\ issued' = issued
<1>1. OthersOK' /\ issued' = issued
  BY DEF Own, OthersOK, provider
<1>2. SentOK'
  BY SentStays DEF Own, provider, RelayOK
<1>. QED  BY <1>1, <1>2

LEMMA ClaimKeeps ==
    ASSUME InTurn, RelayOK, OthersOK, SentOK, NEW w \in Works, NEW h \in told,
           NEW g \in 0 .. MaxGeneration,
           \/ \E changed \in BOOLEAN : Claim(w, h, g, changed)
           \/ ClaimUnacknowledged(w, h, g) \/ Bind(w, h, g)
    PROVE  RelayOK' /\ OthersOK' /\ SentOK'
<1>1. h \in Nat /\ g \in Nat
  BY BudgetAssumption DEF SentOK
<1>2. Own(w, g)
  BY DEF Claim, ClaimUnacknowledged, Bind
<1>3. OthersOK' /\ SentOK' /\ issued' = issued
  BY <1>1, <1>2, OwnKeeps
<1>4. RelayOK'
  <2>1. CASE \E changed \in BOOLEAN : Claim(w, h, g, changed)
    <3>1. PICK changed \in BOOLEAN :
             /\ Acknowledge(w, h, g, changed)
             /\ round[w].status = "blocked_repeated" => latest = w
      BY <2>1 DEF Claim
    <3>. QED  BY <1>1, <1>3, <3>1, AcknowledgeKeeps
  <2>2. CASE ClaimUnacknowledged(w, h, g) \/ Bind(w, h, g)
    BY <1>3, <2>2, RelayStutters DEF ClaimUnacknowledged, Bind
  <2>. QED  BY <2>1, <2>2
<1>. QED  BY <1>3, <1>4

LEMMA ClosedKeeps ==
    ASSUME RelayOK, OthersOK, SentOK, NEW w \in Works, round[w].status = "claimed",
           NEW h \in told, NEW status \in Status,
           NEW c \in Nat, NEW r \in Nat, NEW f \in Nat, r < c,
           Closed(w, h, status, Budget(c, r, f)), tries' \in Nat
    PROVE  RelayOK' /\ OthersOK' /\ SentOK'
<1>1. latest = w
  BY OpenAlone DEF Open, OpenStatus
<1>2. /\ round[w].auth \in Nat /\ round[w].gen \in Nat /\ round[w].auth <= issued
      /\ issued \in Nat /\ h \in Nat /\ Fresh \in Timers
  <2>1. round[w].auth \in Nat /\ round[w].gen \in Nat /\ round[w].auth <= issued /\ issued \in Nat
    BY RelayTypes
  <2>2. h \in Nat
    BY <2>1 DEF SentOK
  <2>. QED  BY <2>1, <2>2, RecordTypes
<1>3. RelayOK'
  <2>1. Put(w, Round(status, round[w].auth, h, round[w].gen), Budget(c, r, f), Fresh)
        /\ issued' = issued
    BY DEF Closed
  <2>2. issued' \in Nat /\ issued <= issued' /\ round[w].auth <= issued'
    BY <1>2, <2>1
  <2>. QED  BY <1>1, <1>2, <2>1, <2>2, LatestKeeps
<1>4. OthersOK'
  <2>1. session' \in [Works -> Nat] /\ busy' \subseteq Works
    <3>1. CASE w \in Active
      BY <1>2, <3>1 DEF Closed, OthersOK
    <3>2. CASE w \notin Active
      BY <3>2 DEF Closed, OthersOK
    <3>. QED  BY <3>1, <3>2
  <2>. QED  BY <2>1 DEF Closed, OthersOK
<1>5. SentOK'
  BY <1>2, SentStays DEF Closed
<1>. QED  BY <1>3, <1>4, <1>5

LEMMA DisposeKeeps ==
    ASSUME RelayOK, OthersOK, SentOK,
           NEW w \in Works, NEW h \in told, NEW g \in 0 .. MaxGeneration,
           \/ \E same \in BOOLEAN : DisposeContinue(w, h, g, same)
           \/ DisposeEnd(w, h, g)
    PROVE  RelayOK' /\ OthersOK' /\ SentOK'
<1>1. round[w].status = "claimed"
  BY DEF DisposeContinue, DisposeEnd, MayDispose
<1>2. latest = w
  BY <1>1, OpenAlone DEF Open, OpenStatus
<1>3. /\ budget[w].count \in Nat /\ budget[w].repeated \in Nat /\ budget[w].failures \in Nat
      /\ budget[w].repeated < budget[w].count
  BY <1>1, RelayTypes
<1>4. CASE \E same \in BOOLEAN : DisposeContinue(w, h, g, same)
  <2>1. PICK same \in BOOLEAN : DisposeContinue(w, h, g, same)
    BY <1>4
  <2>. DEFINE c == budget[w].count + 1
              r == IF same THEN budget[w].repeated + 1 ELSE 0
              f == budget[w].failures
              status == Continue(c, r, f, "pending_release")
  <2>2. Closed(w, h, status, Budget(c, r, f)) /\ tries' = 0
    BY <1>2, <2>1 DEF DisposeContinue
  <2>3. c \in Nat /\ r \in Nat /\ f \in Nat /\ r < c
    BY <1>3
  <2>. HIDE DEF c, r, f
  <2>4. status \in Status
    <3>1. "pending_release" \in Status
      BY DEF Status, OpenStatus
    <3>. QED  BY <2>3, <3>1, ContinueType
  <2>. HIDE DEF status
  <2>5. tries' \in Nat
    BY <2>2
  <2>. QED  BY <1>1, <2>2, <2>3, <2>4, <2>5, ClosedKeeps
<1>5. CASE DisposeEnd(w, h, g)
  <2>1. Closed(w, h, "closed", Budget(budget[w].count, budget[w].repeated, budget[w].failures))
    BY <1>2, <1>5 DEF DisposeEnd
  <2>2. tries' \in Nat
    BY <1>5 DEF DisposeEnd, OthersOK
  <2>3. "closed" \in Status
    BY DEF Status
  <2>. QED  BY <1>1, <1>3, <2>1, <2>2, <2>3, ClosedKeeps
<1>. QED  BY <1>4, <1>5

LEMMA BindSuccessorKeeps ==
    ASSUME RelayOK, OthersOK, SentOK, NEW w \in Works, NEW s \in Works, BindSuccessor(w, s)
    PROVE  RelayOK' /\ OthersOK' /\ SentOK'
<1>1. latest = w
  BY OpenAlone DEF BindSuccessor, Open, OpenStatus
<1>2. RelayOK'
  BY <1>1 DEF BindSuccessor, provider, RelayOK, OpenIsLatest, Open, Counted, Issued
<1>3. OthersOK'
  BY DEF BindSuccessor, OthersOK, owners, provider
<1>4. SentOK'
  BY SentStays DEF BindSuccessor, provider, RelayOK
<1>. QED  BY <1>2, <1>3, <1>4

LEMMA HandOffKeeps ==
    ASSUME RelayOK, SentOK, OthersOK, NEW w \in Works, NEW g \in Nat, HandOff(w, g),
           UNCHANGED told
    PROVE  RelayOK' /\ SentOK' /\ tries' \in Nat
<1>. DEFINE s == successor[w]
            r1 == Round("handed_off", 0, 0, 0)
            r2 == Round("dispatching", issued + 1, 0, 0)
            b == Budget(budget[w].count, 0, budget[w].failures)
<1>1. /\ round[w].status = "pending_release" /\ round[s].status = "none" /\ s \in Works
      /\ round' = [round EXCEPT ![w] = r1, ![s] = r2]
      /\ budget' = [budget EXCEPT ![s] = b]
      /\ timer' = [timer EXCEPT ![w] = Fresh, ![s] = Fresh]
      /\ latest' = s /\ issued' = issued + 1
      /\ Dispatch(s, issued + 1, "call") /\ tries' = Tried(tries)
  BY DEF HandOff, Active
<1>2. issued \in Nat /\ issued' \in Nat
  BY <1>1 DEF RelayOK
<1>3. /\ budget[w].count \in Nat /\ budget[w].failures \in Nat /\ 0 < budget[w].count
  BY <1>1, RelayTypes
<1>4. /\ r1 \in Rounds /\ r1.status = "handed_off" /\ r1.auth = 0
      /\ r2 \in Rounds /\ r2.status = "dispatching" /\ r2.auth = issued + 1
      /\ Fresh \in Timers
  <2>1. /\ "handed_off" \in Status /\ "dispatching" \in Status
        /\ 0 \in Nat /\ issued + 1 \in Nat
    BY <1>2 DEF Status, OpenStatus
  <2>2. r1 \in Rounds /\ r2 \in Rounds
    BY <2>1, RecordTypes
  <2>. QED  BY <2>2, RecordTypes
<1>5. b \in Budgets /\ b.count = budget[w].count /\ b.repeated = 0
  BY <1>3, RecordTypes
<1>6. \A v \in Works : Open(v) => v = w
  BY <1>1, OpenAlone DEF Open, OpenStatus
<1>. HIDE DEF s, r1, r2, b
<1>7. /\ round' \in [Works -> Rounds] /\ budget' \in [Works -> Budgets]
      /\ timer' \in [Works -> Timers] /\ latest' \in Works \union {None}
  BY <1>1, <1>4, <1>5 DEF RelayOK
<1>8. ASSUME NEW v \in Works
      PROVE  /\ round'[v].auth <= issued'
             /\ round'[v].status \in OpenStatus => latest' = v
             /\ round'[v].status # "none" => budget'[v].repeated < budget'[v].count
  <2>1. CASE v = s
    <3>1. round'[v] = r2 /\ budget'[v] = b
      BY <1>1, <2>1 DEF RelayOK
    <3>. QED  BY <1>1, <1>2, <1>3, <1>4, <1>5, <2>1, <3>1
  <2>2. CASE v = w /\ v # s
    <3>1. round'[v] = r1 /\ budget'[v] = budget[v]
      BY <1>1, <2>2 DEF RelayOK
    <3>2. budget[v].repeated < budget[v].count
      BY <1>1, <2>2, RelayTypes
    <3>. QED  BY <1>1, <1>2, <1>4, <3>1, <3>2 DEF OpenStatus
  <2>3. CASE v # w /\ v # s
    <3>1. round'[v] = round[v] /\ budget'[v] = budget[v]
      BY <1>1, <2>3 DEF RelayOK
    <3>2. round[v].auth <= issued /\ round[v].auth \in Nat
      BY RelayTypes
    <3>3. round[v].status \notin OpenStatus
      BY <1>6, <2>3 DEF Open
    <3>4. round[v].status # "none" => budget[v].repeated < budget[v].count
      BY DEF RelayOK, Counted
    <3>5. round[v].auth <= issued'
      BY <1>1, <1>2, <3>2
    <3>. QED  BY <3>1, <3>3, <3>4, <3>5
  <2>. QED  BY <2>1, <2>2, <2>3
<1>9. RelayOK'
  BY <1>2, <1>7, <1>8 DEF RelayOK, OpenIsLatest, Counted, Open
<1>10. SentOK'
  <2>1. issued + 1 \in Nat /\ issued <= issued' /\ issued + 1 <= issued'
    BY <1>1, <1>2
  <2>. QED  BY <1>1, <1>2, <2>1, DispatchKeeps
<1>11. tries' \in Nat
  BY <1>1 DEF Tried, OthersOK
<1>. QED  BY <1>9, <1>10, <1>11

LEMMA ReleasedKeeps ==
    ASSUME RelayOK, OthersOK, SentOK, NEW w \in Works, NEW g \in Nat, Released(w, g)
    PROVE  RelayOK' /\ OthersOK' /\ SentOK'
<1>1. RelayOK' /\ SentOK' /\ tries' \in Nat
  <2>1. CASE Redispatch(w, g)
    <3>1. latest = w
      BY <2>1, OpenAlone DEF Redispatch, Open, OpenStatus
    <3>2. /\ issued \in Nat
          /\ budget[w].count \in Nat /\ budget[w].repeated \in Nat /\ budget[w].failures \in Nat
          /\ budget[w].repeated < budget[w].count
      BY <2>1, RelayTypes DEF Redispatch
    <3>3. /\ issued' = issued + 1 /\ issued' \in Nat /\ issued <= issued' /\ issued + 1 <= issued'
      BY <2>1, <3>2 DEF Redispatch
    <3>4. Put(w, Round("dispatching", issued + 1, 0, 0),
              Budget(budget[w].count, budget[w].repeated, budget[w].failures), Fresh)
      BY <2>1, SameBudget DEF Redispatch
    <3>5. "dispatching" \in Status /\ Fresh \in Timers /\ issued + 1 \in Nat
      BY <3>2, RecordTypes DEF Status, OpenStatus
    <3>6. RelayOK'
      BY <3>1, <3>2, <3>3, <3>4, <3>5, LatestKeeps
    <3>7. SentOK'
      BY <2>1, <3>2, <3>3, <3>5, DispatchKeeps DEF Redispatch, Released
    <3>8. tries' \in Nat
      BY <2>1 DEF Redispatch, Tried, OthersOK
    <3>. QED  BY <3>6, <3>7, <3>8
  <2>2. CASE HandOff(w, g)
    BY <2>2, HandOffKeeps DEF Released
  <2>3. CASE Abandon(w, g)
    <3>1. latest = w
      BY <2>3, OpenAlone DEF Abandon, Open, OpenStatus
    <3>2. /\ round[w].auth \in Nat /\ round[w].auth <= issued /\ issued \in Nat
          /\ budget[w].count \in Nat /\ budget[w].repeated \in Nat /\ budget[w].failures \in Nat
          /\ budget[w].repeated < budget[w].count
          /\ Timer(timer[w].sent, FALSE, timer[w].retry) \in Timers
      BY <2>3, RelayTypes, RecordTypes DEF Abandon
    <3>3. issued' = issued /\ issued' \in Nat /\ issued <= issued' /\ round[w].auth <= issued'
      BY <2>3, <3>2 DEF Abandon
    <3>4. Put(w, Round("abandoned", round[w].auth, 0, 0),
              Budget(budget[w].count, budget[w].repeated, budget[w].failures),
              Timer(timer[w].sent, FALSE, timer[w].retry))
      BY <2>3, SameBudget DEF Abandon
    <3>5. "abandoned" \in Status
      BY DEF Status
    <3>6. RelayOK'
      BY <3>1, <3>2, <3>3, <3>4, <3>5, LatestKeeps
    <3>7. SentOK'
      BY <2>3, <3>2, <3>3, SentStays DEF Abandon, Released
    <3>8. tries' \in Nat
      BY <2>3 DEF Abandon, OthersOK
    <3>. QED  BY <3>6, <3>7, <3>8
  <2>4. CASE UNCHANGED <<round, budget, timer, latest, flights, tries, issued>>
    <3>1. RelayOK'
      BY <2>4, RelayStutters
    <3>2. SentOK'
      BY <2>4, SentStays DEF Released, RelayOK
    <3>. QED  BY <2>4, <3>1, <3>2 DEF OthersOK
  <2>. QED  BY <2>1, <2>2, <2>3, <2>4 DEF Released
<1>2. OthersOK'
  BY <1>1 DEF Released, OthersOK, Nobody
<1>. QED  BY <1>1, <1>2

-----------------------------------------------------------------------------
(* Recovery, and time.                                                      *)
LEMMA RekeyKeeps ==
    ASSUME RelayOK, OthersOK, SentOK, NEW w \in Works, Rekey(w)
    PROVE  RelayOK' /\ OthersOK' /\ SentOK'
<1>. DEFINE s == IF round[w].status = "dispatched" THEN "dispatched" ELSE "dispatching"
<1>1. latest = w /\ round[w].status # "none"
  BY DEF Rekey, Open, OpenStatus
<1>2. /\ issued \in Nat
      /\ budget[w].count \in Nat /\ budget[w].repeated \in Nat /\ budget[w].failures \in Nat
      /\ budget[w].repeated < budget[w].count
      /\ Timer(timer[w].sent, FALSE, "no") \in Timers
  BY <1>1, RelayTypes, RecordTypes
<1>3. /\ issued' = issued + 1 /\ issued' \in Nat /\ issued <= issued' /\ issued + 1 <= issued'
      /\ issued + 1 \in Nat
  BY <1>2 DEF Rekey
<1>4. Put(w, Round(s, issued + 1, 0, 0),
          Budget(budget[w].count, budget[w].repeated, budget[w].failures),
          Timer(timer[w].sent, FALSE, "no"))
  BY SameBudget DEF Rekey
<1>5. s \in Status
  BY DEF Status, OpenStatus
<1>. HIDE DEF s
<1>6. RelayOK'
  BY <1>1, <1>2, <1>3, <1>4, <1>5, LatestKeeps
<1>7. OthersOK'
  BY DEF Rekey, OthersOK, owners
<1>8. SentOK'
  <2>1. told' = told \union {issued + 1} /\ flights' = flights
    BY DEF Rekey
  <2>2. \A f \in flights : f.auth \in Nat
    BY DEF SentOK, Flight
  <2>3. flights' \subseteq Flight /\ \A f \in flights' : f.auth <= issued'
    BY <1>2, <1>3, <2>1, <2>2 DEF SentOK
  <2>4. told' \subseteq 0 .. issued'
    <3>1. \A h \in told : h \in 0 .. issued'
      BY <1>2, <1>3 DEF SentOK
    <3>2. issued + 1 \in 0 .. issued'
      BY <1>2, <1>3
    <3>. QED  BY <2>1, <3>1, <3>2
  <2>. QED  BY <2>3, <2>4 DEF SentOK
<1>. QED  BY <1>6, <1>7, <1>8

LEMMA StallKeeps ==
    ASSUME RelayOK, OthersOK, SentOK,
           NEW w \in Works, NEW same \in BOOLEAN, Stall(w, same)
    PROVE  RelayOK' /\ OthersOK' /\ SentOK'
<1>. DEFINE undispatched == round[w].status \in {"pending_release", "dispatching"}
            c == IF undispatched THEN budget[w].count ELSE budget[w].count + 1
            r == IF undispatched THEN budget[w].repeated
                 ELSE IF same THEN budget[w].repeated + 1 ELSE 0
            f == budget[w].failures
            status == Continue(c, r, 0, "dispatching")
            a == IF status # "dispatching" \/ round[w].status = "dispatching"
                 THEN round[w].auth ELSE issued + 1
<1>1. latest = w /\ round[w].status # "none"
  BY DEF Stall, Open, OpenStatus
<1>2. /\ round[w].auth \in Nat /\ round[w].auth <= issued /\ issued \in Nat
      /\ budget[w].count \in Nat /\ budget[w].repeated \in Nat /\ budget[w].failures \in Nat
      /\ budget[w].repeated < budget[w].count
      /\ Timer(timer[w].sent, FALSE, "no") \in Timers
  BY <1>1, RelayTypes, RecordTypes
<1>3. c \in Nat /\ r \in Nat /\ f \in Nat /\ r < c
  BY <1>2
<1>4. Stalled(w, same) = Budget(c, r, f) /\ Stalled(w, same).count = c
      /\ Stalled(w, same).repeated = r
  BY RecordTypes DEF Stalled
<1>5. /\ Put(w, Round(status, a, 0, 0), Budget(c, r, f), Timer(timer[w].sent, FALSE, "no"))
      /\ issued' = IF a = round[w].auth THEN issued ELSE a
      /\ tries' = IF status # "dispatching" THEN tries
                  ELSE IF c = budget[w].count THEN Tried(tries) ELSE 1
      /\ IF status = "dispatching" THEN Dispatch(w, a, "scheduler") ELSE UNCHANGED flights
      /\ UNCHANGED <<successor, owners, told, count>>
  <2>. HIDE DEF c, r, f
  <2>. QED  BY <1>4 DEF Stall
<1>. HIDE DEF c, r, f
<1>6. status \in Status
  <2>1. "dispatching" \in Status
    BY DEF Status, OpenStatus
  <2>. QED  BY <1>3, <2>1, ContinueType
<1>7. a \in Nat /\ issued' \in Nat /\ issued <= issued' /\ a <= issued'
  BY <1>2, <1>5
<1>. HIDE DEF status, a
<1>8. RelayOK'
  BY <1>1, <1>2, <1>3, <1>5, <1>6, <1>7, LatestKeeps
<1>9. OthersOK'
  <2>1. tries' \in Nat
    BY <1>5 DEF Tried, OthersOK
  <2>. QED  BY <1>5, <2>1 DEF OthersOK, owners
<1>10. SentOK'
  <2>1. CASE status = "dispatching"
    <3>1. Dispatch(w, a, "scheduler") /\ UNCHANGED told
      BY <1>5, <2>1
    <3>. QED  BY <1>2, <1>7, <3>1, DispatchKeeps
  <2>2. CASE status # "dispatching"
    BY <1>2, <1>5, <1>7, <2>2, SentStays
  <2>. QED  BY <2>1, <2>2
<1>. QED  BY <1>8, <1>9, <1>10

LEMMA TimeKeeps ==
    ASSUME RelayOK, OthersOK, SentOK, NEW w \in Works,
           (\E all \in BOOLEAN : Age(w, all)) \/ RetryDue(w)
    PROVE  RelayOK' /\ OthersOK' /\ SentOK'
<1>1. timer[w].sent \in {"never", "new", "old"} /\ timer[w].aged \in BOOLEAN
      /\ timer[w].retry \in {"no", "later", "due"}
  BY RelayTypes
<1>2. UNCHANGED <<round, budget, successor, latest, owners, provider, count>>
  BY DEF Age, RetryDue
<1>3. RelayOK'
  <2>1. CASE \E all \in BOOLEAN : Age(w, all)
    <3>1. PICK all \in BOOLEAN : Age(w, all)
      BY <2>1
    <3>. DEFINE t == Timer(IF timer[w].sent = "new" THEN "old" ELSE timer[w].sent,
                           timer[w].aged \/ all, timer[w].retry)
    <3>2. timer' = [timer EXCEPT ![w] = t]
      BY <3>1 DEF Age
    <3>3. (IF timer[w].sent = "new" THEN "old" ELSE timer[w].sent) \in {"never", "new", "old"}
          /\ (timer[w].aged \/ all) \in BOOLEAN
      BY <1>1
    <3>4. t \in Timers
      BY <1>1, <3>3, RecordTypes
    <3>. HIDE DEF t
    <3>. QED  BY <1>2, <3>2, <3>4, TimerKeeps DEF provider
  <2>2. CASE RetryDue(w)
    <3>1. Timer(timer[w].sent, timer[w].aged, "due") \in Timers
      BY <1>1, RecordTypes
    <3>. QED  BY <1>2, <2>2, <3>1, TimerKeeps DEF RetryDue, provider
  <2>. QED  BY <2>1, <2>2
<1>4. OthersOK'
  BY <1>2 DEF OthersOK, owners, provider
<1>5. SentOK'
  BY <1>2, SentStays DEF provider, RelayOK
<1>. QED  BY <1>3, <1>4, <1>5

LEMMA WorkKeeps ==
    ASSUME RelayOK, OthersOK, SentOK, NEW w \in Works,
           \/ Idle(w) \/ Expire(w)
           \/ \E how \in {"completed", "cancelled"} : End(w, how)
    PROVE  RelayOK' /\ OthersOK' /\ SentOK'
<1>1. UNCHANGED <<relay, provider, count>>
  BY DEF Idle, Expire, End
<1>2. RelayOK'
  BY <1>1, RelayStutters DEF relay, provider
<1>3. session' \in [Works -> Nat] /\ busy' \subseteq Works
      /\ ended' \in [Works -> {"no", "completed", "cancelled"}]
  BY DEF Idle, Expire, End, OthersOK, Nobody
<1>4. OthersOK'
  BY <1>1, <1>3 DEF OthersOK, relay, provider
<1>5. SentOK'
  BY <1>1, SentStays DEF provider, RelayOK
<1>. QED  BY <1>2, <1>4, <1>5

-----------------------------------------------------------------------------
LEMMA InitKeeps == ASSUME Init PROVE RelayOK /\ OthersOK /\ SentOK
<1>1. Fresh \in Timers
  BY RecordTypes
<1>2. Round("none", 0, 0, 0) \in Rounds /\ Budget(0, 0, 0) \in Budgets
  <2>1. "none" \in Status
    BY DEF Status
  <2>. QED  BY <2>1, RecordTypes
<1>3. RelayOK
  BY <1>1, <1>2, RecordTypes DEF Init, RelayOK, OpenIsLatest, Counted, Open, OpenStatus
<1>4. OthersOK
  BY DEF Init, OthersOK, Nobody
<1>5. SentOK
  BY DEF Init, SentOK
<1>. QED  BY <1>3, <1>4, <1>5

LEMMA NextKeeps ==
    ASSUME InTurn, RelayOK, OthersOK, SentOK, [Next]_vars
    PROVE  RelayOK' /\ OthersOK' /\ SentOK'
<1>1. CASE \E f \in flights :
             \/ Deliver(f) \/ Lose(f)
             \/ \E outcome \in {"ok", "failed", "user", "unknown"} : Answer(f, outcome)
  <2>1. PICK f \in flights :
             \/ Deliver(f) \/ Lose(f)
             \/ \E outcome \in {"ok", "failed", "user", "unknown"} : Answer(f, outcome)
    BY <1>1
  <2>2. CASE Deliver(f)
    BY <2>2, DeliverKeeps
  <2>3. CASE Lose(f)
    BY <2>3, LoseKeeps
  <2>4. CASE \E outcome \in {"ok", "failed", "user", "unknown"} : Answer(f, outcome)
    BY <2>4, AnswerKeeps
  <2>. QED  BY <2>1, <2>2, <2>3, <2>4
<1>2. ASSUME NEW w \in Works, NEW same \in BOOLEAN,
             Launch(w, same) \/ Stall(w, same) \/ Age(w, same)
      PROVE  RelayOK' /\ OthersOK' /\ SentOK'
  <2>1. CASE Launch(w, same)
    BY <2>1, LaunchKeeps
  <2>2. CASE Stall(w, same)
    BY <2>2, StallKeeps
  <2>3. CASE Age(w, same)
    BY <2>3, TimeKeeps
  <2>. QED  BY <1>2, <2>1, <2>2, <2>3
<1>3. ASSUME NEW w \in Works, NEW h \in told, NEW g \in 0 .. MaxGeneration,
             \/ ClaimUnacknowledged(w, h, g) \/ Bind(w, h, g) \/ Release(w, h, g)
             \/ \E same \in BOOLEAN : Claim(w, h, g, same) \/ DisposeContinue(w, h, g, same)
             \/ DisposeEnd(w, h, g)
      PROVE  RelayOK' /\ OthersOK' /\ SentOK'
  <2>1. CASE \/ \E same \in BOOLEAN : Claim(w, h, g, same)
             \/ ClaimUnacknowledged(w, h, g) \/ Bind(w, h, g)
    BY <2>1, ClaimKeeps
  <2>2. CASE \/ \E same \in BOOLEAN : DisposeContinue(w, h, g, same)
             \/ DisposeEnd(w, h, g)
    BY <2>2, DisposeKeeps
  <2>3. CASE Release(w, h, g)
    <3>1. g \in Nat /\ Released(w, g)
      BY <2>3, BudgetAssumption DEF Release
    <3>. QED  BY <3>1, ReleasedKeeps
  <2>. QED  BY <1>3, <2>1, <2>2, <2>3
<1>4. ASSUME NEW w \in Works,
             \/ Witness(w) \/ Rekey(w) \/ RetryDue(w) \/ Idle(w) \/ Expire(w)
             \/ \E s \in Works : BindSuccessor(w, s)
             \/ \E how \in {"completed", "cancelled"} : End(w, how)
      PROVE  RelayOK' /\ OthersOK' /\ SentOK'
  <2>1. CASE Witness(w)
    <3>1. round[w].gen \in Nat /\ Released(w, round[w].gen)
      BY <2>1, RelayTypes DEF Witness
    <3>. QED  BY <3>1, ReleasedKeeps
  <2>2. CASE Rekey(w)
    BY <2>2, RekeyKeeps
  <2>3. CASE RetryDue(w)
    BY <2>3, TimeKeeps
  <2>4. CASE Idle(w) \/ Expire(w) \/ \E how \in {"completed", "cancelled"} : End(w, how)
    BY <2>4, WorkKeeps
  <2>5. CASE \E s \in Works : BindSuccessor(w, s)
    BY <2>5, BindSuccessorKeeps
  <2>. QED  BY <1>4, <2>1, <2>2, <2>3, <2>4, <2>5
<1>5. CASE UNCHANGED vars
  <2>1. UNCHANGED <<relay, owners, provider, count>>
    BY <1>5 DEF vars
  <2>2. RelayOK'
    BY <2>1, RelayStutters DEF relay, provider
  <2>3. OthersOK'
    BY <2>1 DEF OthersOK, relay, owners, provider
  <2>4. SentOK'
    BY <2>1, SentStays DEF provider, RelayOK
  <2>. QED  BY <2>2, <2>3, <2>4
<1>6. CASE Next
  BY <1>1, <1>2, <1>3, <1>4, <1>6 DEF Next
<1>. QED  BY <1>5, <1>6

-----------------------------------------------------------------------------
(* What bounds the dispatches of a round, and the rounds of a relay.        *)
Continuable == OpenStatus \union {"blocked_repeated", "failed", "abandoned"}
Spend(f) == IF f < MaxFailures THEN f ELSE MaxFailures - 1
SpentAt(v) ==
    /\ round[v].status \in Continuable => budget[v].count <= MaxRounds
    /\ round[v].status = "pending_release" => tries = 0
    /\ round[v].status = "dispatching" =>
          tries <= Spend(budget[v].failures) + count.lost
                      + (IF \A f \in flights : f.work # v THEN 0 ELSE 1)
    /\ timer[v].sent = "old" \/ timer[v].aged \/ timer[v].retry = "due" =>
          \A f \in flights : f.work = v => f.by = "scheduler"
SpentOK ==
    /\ tries <= MaxFailures + count.lost
    /\ \A v \in Works : SpentAt(v)

LEMMA SpentParts == SpentOK <=> TriesSpent /\ WithinRounds /\ Bounded
<1>1. ASSUME NEW v \in Works
      PROVE  /\ Pending(v) = {} <=> \A f \in flights : f.work # v
             /\ (\A f \in Pending(v) : f.by = "scheduler")
                   <=> \A f \in flights : f.work = v => f.by = "scheduler"
             /\ Spent(v) = Spend(budget[v].failures)
             /\ Open(v) => round[v].status \in Continuable
             /\ round[v].status \in Continuable <=>
                   round[v].status \in OpenStatus \union
                                         {"blocked_repeated", "failed", "abandoned"}
  BY DEF Pending, Spent, Spend, Open, Continuable
<1>2. SpentOK => TriesSpent /\ WithinRounds /\ Bounded
  <2>. SUFFICES ASSUME SpentOK PROVE TriesSpent /\ WithinRounds /\ Bounded
    OBVIOUS
  <2>1. TriesSpent
    BY <1>1 DEF SpentOK, SpentAt, TriesSpent
  <2>2. WithinRounds
    BY <1>1 DEF SpentOK, SpentAt, WithinRounds
  <2>3. Bounded
    BY <1>1 DEF SpentOK, SpentAt, Bounded
  <2>. QED  BY <2>1, <2>2, <2>3
<1>3. TriesSpent /\ WithinRounds /\ Bounded => SpentOK
  <2>. SUFFICES ASSUME TriesSpent, WithinRounds, Bounded PROVE SpentOK
    OBVIOUS
  <2>1. ASSUME NEW v \in Works PROVE SpentAt(v)
    BY <1>1 DEF SpentAt, TriesSpent, WithinRounds
  <2>. QED  BY <2>1 DEF SpentOK, Bounded
<1>. QED  BY <1>2, <1>3

LEMMA SpendRange ==
    ASSUME NEW f \in Nat
    PROVE  /\ Spend(f) \in Nat /\ Spend(f) + 1 <= MaxFailures
           /\ f + 1 < MaxFailures => Spend(f + 1) = Spend(f) + 1
BY BudgetAssumption DEF Spend

LEMMA ContinueWithin ==
    ASSUME NEW c \in Nat, NEW r \in Nat, NEW f \in Nat, NEW s,
           Continue(c, r, f, s) \in Continuable
    PROVE  c <= MaxRounds
BY BudgetAssumption DEF Continue, Continuable, OpenStatus

LEMMA RoundIs ==
    /\ \A s \in Status, a \in Nat, h \in Nat, g \in Nat : Round(s, a, h, g) \in Rounds
    /\ \A s, a, h, g : Round(s, a, h, g).status = s
BY DEF Round, Rounds

LEMMA BudgetIs ==
    /\ \A c \in Nat, r \in Nat, f \in Nat : Budget(c, r, f) \in Budgets
    /\ \A c, r, f : Budget(c, r, f).count = c /\ Budget(c, r, f).failures = f
BY DEF Budget, Budgets

LEMMA TimerIs ==
    ASSUME NEW s \in {"never", "new", "old"}, NEW y \in {"no", "later", "due"}
    PROVE  /\ Timer(s, FALSE, y) \in Timers
           /\ Timer(s, FALSE, y).sent = s /\ ~Timer(s, FALSE, y).aged
           /\ Timer(s, FALSE, y).retry = y
BY DEF Timer, Timers

LEMMA FreshIs == Fresh \in Timers /\ Fresh.sent = "never" /\ ~Fresh.aged /\ Fresh.retry = "no"
BY DEF Fresh, Timer, Timers

LEMMA DispatchAdds ==
    ASSUME NEW w, NEW a, NEW by, Dispatch(w, a, by)
    PROVE  /\ \A g \in flights' \ flights : g.work = w /\ g.by = by
           /\ \E g \in flights' : g.work = w
<1>. DEFINE n == [work |-> w, auth |-> a, by |-> by, delivered |-> FALSE]
<1>1. flights' = flights \union {n} /\ n.work = w /\ n.by = by
  BY DEF Dispatch
<1>. HIDE DEF n
<1>. QED  BY <1>1

(* Writing the round of the only Work that may have an open one.            *)
LEMMA PutSpends ==
    ASSUME RelayOK, SpentOK, NEW w \in Works, NEW r \in Rounds, NEW b \in Budgets,
           NEW t \in Timers, Put(w, r, b, t),
           \A v \in Works : Open(v) => v = w,
           count'.lost = count.lost, \A f \in flights' \ flights : f.work = w,
           r.status \in Continuable => b.count <= MaxRounds,
           r.status = "pending_release" => tries' = 0,
           r.status = "dispatching" =>
              tries' <= Spend(b.failures) + count.lost
                           + (IF \A f \in flights' : f.work # w THEN 0 ELSE 1),
           t.sent = "old" \/ t.aged \/ t.retry = "due" =>
              \A f \in flights' : f.work = w => f.by = "scheduler",
           tries' <= MaxFailures + count.lost
    PROVE  SpentOK'
<1>1. /\ round' = [round EXCEPT ![w] = r] /\ budget' = [budget EXCEPT ![w] = b]
      /\ timer' = [timer EXCEPT ![w] = t]
  BY DEF Put
<1>2. ASSUME NEW v \in Works PROVE SpentAt(v)'
  <2>1. CASE v = w
    <3>1. round'[v] = r /\ budget'[v] = b /\ timer'[v] = t
      BY <1>1, <2>1 DEF RelayOK
    <3>. QED  BY <2>1, <3>1 DEF SpentAt
  <2>2. CASE v # w
    <3>1. round'[v] = round[v] /\ budget'[v] = budget[v] /\ timer'[v] = timer[v]
      BY <1>1, <2>2 DEF RelayOK
    <3>2. round[v].status # "pending_release" /\ round[v].status # "dispatching"
      BY <2>2 DEF Open, OpenStatus
    <3>3. \A f \in flights' : f.work = v => f \in flights
      BY <2>2
    <3>4. SpentAt(v)
      BY DEF SpentOK
    <3>. QED  BY <3>1, <3>2, <3>3, <3>4 DEF SpentAt
  <2>. QED  BY <2>1, <2>2
<1>. QED  BY <1>2 DEF SpentOK

(* A step that writes no round, and answers nothing that a round awaits.    *)
LEMMA SpentStays ==
    ASSUME RelayOK, SpentOK, UNCHANGED <<round, budget, timer, tries, count>>,
           \A f \in flights' : \E g \in flights : g.work = f.work /\ g.by = f.by,
           \A f \in flights : \/ round[f.work].status # "dispatching"
                              \/ \E g \in flights' : g.work = f.work
    PROVE  SpentOK'
<1>1. ASSUME NEW v \in Works PROVE SpentAt(v)'
  <2>1. SpentAt(v)
    BY DEF SpentOK
  <2>2. round[v].status = "dispatching" /\ (\A f \in flights' : f.work # v)
           => \A f \in flights : f.work # v
    OBVIOUS
  <2>3. (\A f \in flights : f.work = v => f.by = "scheduler")
           => \A f \in flights' : f.work = v => f.by = "scheduler"
    OBVIOUS
  <2>4. budget[v].failures \in Nat
    BY RelayTypes
  <2>5. round[v].status = "dispatching" =>
          tries <= Spend(budget[v].failures) + count.lost
                      + (IF \A f \in flights' : f.work # v THEN 0 ELSE 1)
    <3>1. CASE \A f \in flights' : f.work # v
      BY <2>1, <2>2, <3>1 DEF SpentAt
    <3>2. CASE \A f \in flights : f.work # v
      <4>1. \A f \in flights' : f.work # v
        BY <3>2
      <4>. QED  BY <3>1, <4>1
    <3>3. CASE ~(\A f \in flights' : f.work # v) /\ ~(\A f \in flights : f.work # v)
      BY <2>1, <3>3 DEF SpentAt
    <3>. QED  BY <3>1, <3>2, <3>3
  <2>. QED  BY <2>1, <2>3, <2>5 DEF SpentAt
<1>. QED  BY <1>1 DEF SpentOK

LEMMA SpentIdle ==
    ASSUME RelayOK, SpentOK, UNCHANGED <<round, budget, timer, tries, count, flights>>
    PROVE  SpentOK'
BY SpentStays

LEMMA LaunchSpends ==
    ASSUME RelayOK, OthersOK, SpentOK, NEW w \in Works, NEW same \in BOOLEAN, Launch(w, same)
    PROVE  SpentOK'
<1>. DEFINE again == latest # None /\ round[latest].status = "abandoned"
            c == IF again THEN budget[latest].count + 1 ELSE 1
            r == IF again /\ same THEN budget[latest].repeated + 1 ELSE 0
            f == IF again THEN budget[latest].failures ELSE 0
            status == Continue(c, r, f, "dispatching")
<1>1. c \in Nat /\ r \in Nat /\ f \in Nat
  <2>1. CASE again
    <3>1. latest \in Works
      BY <2>1 DEF RelayOK
    <3>. QED  BY <2>1, <3>1, RelayTypes
  <2>2. CASE ~again
    BY <2>2
  <2>. QED  BY <2>1, <2>2
<1>2. /\ Put(w, Round(status, issued + 1, 0, 0), Budget(c, r, f), Fresh)
      /\ IF status = "dispatching" THEN Dispatch(w, issued + 1, "call") /\ tries' = 1
         ELSE UNCHANGED <<flights, tries>>
      /\ count' = count
  BY DEF Launch
<1>3. \A v \in Works : ~Open(v)
  <2>1. latest # None => round[latest].status \notin OpenStatus
    BY DEF Launch, MayLaunch
  <2>. QED  BY <2>1, NoneAssumption DEF RelayOK, OpenIsLatest, Open
<1>. HIDE DEF c, r, f
<1>4. status \in Status
  <2>1. "dispatching" \in Status
    BY DEF Status, OpenStatus
  <2>. QED  BY <1>1, <2>1, ContinueType
<1>5. status \in Continuable => c <= MaxRounds
  BY <1>1, ContinueWithin
<1>6. status \in {"dispatching", "blocked", "blocked_repeated"}
  BY DEF Continue
<1>. HIDE DEF status
<1>7. issued + 1 \in Nat
  BY DEF RelayOK
<1>8. /\ Round(status, issued + 1, 0, 0) \in Rounds
      /\ Round(status, issued + 1, 0, 0).status = status
      /\ Budget(c, r, f) \in Budgets /\ Budget(c, r, f).count = c /\ Budget(c, r, f).failures = f
      /\ Fresh \in Timers /\ Fresh.sent = "never" /\ ~Fresh.aged /\ Fresh.retry = "no"
  <2>1. Round(status, issued + 1, 0, 0) \in Rounds
    BY <1>4, <1>7, RoundIs
  <2>2. Round(status, issued + 1, 0, 0).status = status
    BY RoundIs
  <2>3. Budget(c, r, f) \in Budgets
    BY <1>1, BudgetIs
  <2>4. Budget(c, r, f).count = c /\ Budget(c, r, f).failures = f
    BY BudgetIs
  <2>. QED  BY <2>1, <2>2, <2>3, <2>4, FreshIs
<1>9. /\ \A g \in flights' \ flights : g.work = w
      /\ status = "dispatching" => ~(\A g \in flights' : g.work # w)
  <2>1. CASE status = "dispatching"
    BY <1>2, <2>1, DispatchAdds
  <2>2. CASE status # "dispatching"
    BY <1>2, <2>2
  <2>. QED  BY <2>1, <2>2
<1>10. count.lost \in Nat /\ tries \in Nat /\ tries <= MaxFailures + count.lost
  BY DEF OthersOK, SpentOK
<1>11. /\ status = "dispatching" => tries' = 1 /\ tries' <= Spend(f) + count.lost + 1
       /\ tries' <= MaxFailures + count.lost
  BY <1>1, <1>2, <1>10, SpendRange, BudgetAssumption
<1>. QED
  BY <1>2, <1>3, <1>5, <1>6, <1>8, <1>9, <1>11, PutSpends

LEMMA DeliverSpends ==
    ASSUME RelayOK, SpentOK, NEW f \in flights, Deliver(f)
    PROVE  SpentOK'
<1>. DEFINE n == [work |-> f.work, auth |-> f.auth, by |-> f.by, delivered |-> TRUE]
<1>1. flights' = (flights \ {f}) \union {n} /\ n.work = f.work /\ n.by = f.by
  BY DEF Deliver
<1>2. UNCHANGED <<round, budget, timer, tries, count>>
  BY DEF Deliver, relay
<1>. HIDE DEF n
<1>3. \A g \in flights' : \E h \in flights : h.work = g.work /\ h.by = g.by
  BY <1>1
<1>4. \A g \in flights : \E h \in flights' : h.work = g.work
  BY <1>1
<1>. QED  BY <1>2, <1>3, <1>4, SpentStays

(* A dispatch that was lost with its process is paid for by the loss.       *)
LEMMA LoseSpends ==
    ASSUME RelayOK, OthersOK, SpentOK, NEW f \in flights, Lose(f)
    PROVE  SpentOK'
<1>1. /\ count'.lost = count.lost + 1 /\ count.lost \in Nat /\ tries \in Nat
      /\ UNCHANGED <<round, budget, timer, tries>> /\ flights' \subseteq flights
  BY DEF Lose, relay, OthersOK
<1>2. ASSUME NEW v \in Works PROVE SpentAt(v)'
  <2>1. Spend(budget[v].failures) \in Nat
    BY RelayTypes, SpendRange
  <2>. QED  BY <1>1, <2>1 DEF SpentOK, SpentAt
<1>. QED  BY <1>1, <1>2, BudgetAssumption DEF SpentOK

(* An answer that is not the last but one the round may fail leaves the     *)
(* round waiting for a retry, which the failure pays for.                   *)
LEMMA AnswerSpends ==
    ASSUME RelayOK, OthersOK, SentOK, SpentOK, NEW f \in flights,
           NEW outcome \in {"ok", "failed", "user", "unknown"}, Answer(f, outcome)
    PROVE  SpentOK'
<1>. DEFINE w == f.work
<1>1. w \in Works /\ f \in Flight
  BY DEF SentOK, Flight
<1>2. Finished(f, outcome) /\ flights' = flights \ {f} /\ UNCHANGED <<tries, count>>
  BY DEF Answer
<1>3. SpentAt(w)
  BY <1>1 DEF SpentOK
<1>4. CASE round[w].status # "dispatching"
  <2>1. UNCHANGED <<round, budget, timer>>
    BY <1>2, <1>4 DEF Finished
  <2>2. \A g \in flights : round[g.work].status # "dispatching" \/ g \in flights'
    BY <1>2, <1>4
  <2>. QED  BY <1>2, <2>1, <2>2, SpentStays
<1>5. CASE round[w].status = "dispatching"
  <2>1. /\ round[w].auth \in Nat /\ budget[w].count \in Nat /\ budget[w].repeated \in Nat
        /\ budget[w].failures \in Nat /\ timer[w].sent \in {"never", "new", "old"}
    BY <1>1, RelayTypes
  <2>2. PICK status \in {"dispatched", "blocked_unknown", "closed", "blocked",
                         "dispatching", "failed"},
             failures \in {0, budget[w].failures, budget[w].failures + 1},
             sent \in {"new", timer[w].sent}, retry \in {"no", "later"} :
             /\ Put(w, Round(status, round[w].auth, 0, 0),
                    Budget(budget[w].count, budget[w].repeated, failures),
                    Timer(sent, FALSE, retry))
             /\ status = "dispatching" => /\ failures = budget[w].failures + 1
                                          /\ failures < MaxFailures
    <3>1. CASE outcome = "ok"
      BY <1>2, <1>5, <3>1 DEF Finished
    <3>2. CASE outcome = "unknown" /\ f.by = "call"
      BY <1>2, <1>5, <3>2 DEF Finished
    <3>3. CASE outcome = "user" /\ f.by = "call"
      BY <1>2, <1>5, <3>3 DEF Finished
    <3>4. CASE outcome # "ok" /\ f.by = "scheduler" /\ budget[w].failures + 1 >= MaxFailures
      BY <1>2, <1>5, <3>4 DEF Finished
    <3>5. CASE outcome # "ok" /\ f.by = "scheduler" /\ ~(budget[w].failures + 1 >= MaxFailures)
      <4>1. budget[w].failures + 1 < MaxFailures
        BY <2>1, <3>5, BudgetAssumption
      <4>. QED  BY <1>2, <1>5, <3>5, <4>1 DEF Finished
    <3>6. CASE outcome = "failed" /\ f.by = "call"
      BY <1>2, <1>5, <3>6 DEF Finished
    <3>. QED  BY <1>1, <3>1, <3>2, <3>3, <3>4, <3>5, <3>6 DEF Flight
  <2>. DEFINE r == Round(status, round[w].auth, 0, 0)
              b == Budget(budget[w].count, budget[w].repeated, failures)
              t == Timer(sent, FALSE, retry)
  <2>. HIDE DEF w
  <2>3. status \in Status /\ failures \in Nat
    BY <2>1 DEF Status, OpenStatus
  <2>4. /\ r \in Rounds /\ r.status = status
        /\ b \in Budgets /\ b.count = budget[w].count /\ b.failures = failures
        /\ t \in Timers /\ t.sent = sent /\ ~t.aged /\ t.retry = retry
    <3>1. r \in Rounds /\ r.status = status
      <4>1. round[w].auth \in Nat /\ 0 \in Nat
        BY <2>1
      <4>. QED  BY <2>3, <4>1, RoundIs
    <3>2. b \in Budgets /\ b.count = budget[w].count /\ b.failures = failures
      <4>1. b \in Budgets
        <5>1. budget[w].count \in Nat /\ budget[w].repeated \in Nat
          BY <2>1
        <5>. QED  BY <2>3, <5>1, BudgetIs
      <4>. QED  BY <4>1, BudgetIs
    <3>3. t \in Timers /\ t.sent = sent /\ ~t.aged /\ t.retry = retry
      <4>1. sent \in {"never", "new", "old"} /\ retry \in {"no", "later", "due"}
        BY <2>1
      <4>. QED  BY <4>1, TimerIs
    <3>. QED  BY <3>1, <3>2, <3>3
  <2>5. \A v \in Works : Open(v) => v = w
    BY <1>1, <1>5, OpenAlone DEF Open, OpenStatus
  <2>6. budget[w].count <= MaxRounds
    BY <1>3, <1>5 DEF SpentAt, Continuable, OpenStatus
  <2>7. /\ count.lost \in Nat /\ tries \in Nat /\ tries <= MaxFailures + count.lost
        /\ tries <= Spend(budget[w].failures) + count.lost + 1
    <3>1. count.lost \in Nat /\ tries \in Nat /\ tries <= MaxFailures + count.lost
      BY DEF OthersOK, SpentOK
    <3>2. Spend(budget[w].failures) \in Nat
      BY <2>1, SpendRange
    <3>. QED  BY <1>3, <1>5, <3>1, <3>2 DEF SpentAt
  <2>8. status = "dispatching" => tries' <= Spend(failures) + count.lost
    <3>1. ASSUME status = "dispatching" PROVE Spend(failures) = Spend(budget[w].failures) + 1
      BY <2>1, <2>2, <3>1, SpendRange
    <3>2. Spend(budget[w].failures) \in Nat /\ Spend(failures) \in Nat
      BY <2>1, <2>3, SpendRange
    <3>. QED  BY <1>2, <2>7, <3>1, <3>2
  <2>9. sent = "old" => \A g \in flights' : g.work = w => g.by = "scheduler"
    BY <1>2, <1>3 DEF SpentAt
  <2>10. Spend(failures) \in Nat
    BY <2>3, SpendRange
  <2>11. /\ Put(w, r, b, t) /\ \A g \in flights' \ flights : g.work = w
         /\ count' = count /\ tries' = tries
    BY <1>2, <2>2
  <2>. HIDE DEF r, b, t
  <2>12. r.status = "dispatching" =>
            tries' <= Spend(b.failures) + count.lost
                         + (IF \A g \in flights' : g.work # w THEN 0 ELSE 1)
    BY <2>4, <2>7, <2>8, <2>10, <2>11
  <2>. QED
    BY <1>1, <2>4, <2>5, <2>6, <2>7, <2>9, <2>11, <2>12, PutSpends
<1>. QED  BY <1>4, <1>5

(* Writing the round of the latest Work, without a dispatch: the budget of  *)
(* failures stays, and the timer is stopped or left.                        *)
LEMMA LatestSpends ==
    ASSUME RelayOK, OthersOK, SpentOK, NEW w \in Works, latest = w, NEW s \in Status,
           NEW a \in Nat, NEW h \in Nat, NEW g \in Nat,
           NEW c \in Nat, NEW r \in Nat, NEW f \in Nat, NEW t \in Timers,
           Put(w, Round(s, a, h, g), Budget(c, r, f), t),
           flights' = flights, count'.lost = count.lost,
           t.sent = "old" \/ t.aged \/ t.retry = "due" =>
              timer[w].sent = "old" \/ timer[w].aged \/ timer[w].retry = "due",
           s \in Continuable => c <= MaxRounds,
           tries' = 0 \/ (tries' = tries /\ s \notin {"pending_release", "dispatching"})
    PROVE  SpentOK'
<1>1. \A v \in Works : Open(v) => v = w
  BY DEF RelayOK, OpenIsLatest
<1>2. /\ Round(s, a, h, g) \in Rounds /\ Round(s, a, h, g).status = s
      /\ Budget(c, r, f) \in Budgets /\ Budget(c, r, f).count = c /\ Budget(c, r, f).failures = f
  <2>1. Round(s, a, h, g) \in Rounds /\ Round(s, a, h, g).status = s
    BY RoundIs
  <2>. QED  BY <2>1, BudgetIs
<1>3. count.lost \in Nat /\ tries \in Nat /\ tries <= MaxFailures + count.lost
  BY DEF OthersOK, SpentOK
<1>4. Spend(f) \in Nat /\ MaxFailures \in Nat
  BY SpendRange, BudgetAssumption
<1>5. t.sent = "old" \/ t.aged \/ t.retry = "due" =>
          \A x \in flights' : x.work = w => x.by = "scheduler"
  BY DEF SpentOK, SpentAt
<1>6. s = "dispatching" =>
         tries' <= Spend(f) + count.lost + (IF \A x \in flights' : x.work # w THEN 0 ELSE 1)
  BY <1>3, <1>4
<1>7. tries' <= MaxFailures + count.lost
  BY <1>3, <1>4
<1>8. \A x \in flights' \ flights : x.work = w
  OBVIOUS
<1>. QED  BY <1>1, <1>2, <1>5, <1>6, <1>7, <1>8, PutSpends

LEMMA ClaimSpends ==
    ASSUME InTurn, RelayOK, OthersOK, SentOK, SpentOK, NEW w \in Works, NEW h \in told,
           NEW g \in 0 .. MaxGeneration,
           \/ \E changed \in BOOLEAN : Claim(w, h, g, changed)
           \/ ClaimUnacknowledged(w, h, g) \/ Bind(w, h, g)
    PROVE  SpentOK'
<1>1. h \in Nat /\ g \in Nat
  BY BudgetAssumption DEF SentOK
<1>2. UNCHANGED <<flights, tries, count>>
  BY DEF Claim, ClaimUnacknowledged, Bind, Own, provider
<1>3. CASE UNCHANGED <<round, budget, timer>>
  BY <1>2, <1>3, SpentIdle
<1>4. ASSUME NEW changed \in BOOLEAN, Claim(w, h, g, changed),
             ~UNCHANGED <<round, budget, timer>>
      PROVE  SpentOK'
  <2>. DEFINE rearmed == /\ round[w].status = "blocked_repeated" /\ changed
                         /\ budget[w].failures < MaxFailures
              r == IF rearmed THEN 0 ELSE budget[w].repeated
  <2>1. /\ Put(w, Round("claimed", round[w].auth, h, g),
               Budget(budget[w].count, r, budget[w].failures),
               Timer(timer[w].sent, FALSE, timer[w].retry))
        /\ MayAcknowledge(w, h, g) \/ rearmed
    BY <1>4 DEF Claim, Acknowledge
  <2>2. latest = w /\ round[w].status \in Continuable
    <3>1. CASE MayAcknowledge(w, h, g)
      BY <3>1, OpenAlone DEF MayAcknowledge, Open, OpenStatus, Continuable
    <3>2. CASE rearmed
      BY <1>4, <3>2 DEF Continuable, Claim
    <3>. QED  BY <2>1, <3>1, <3>2
  <2>3. /\ round[w].auth \in Nat
        /\ budget[w].count \in Nat /\ budget[w].repeated \in Nat /\ budget[w].failures \in Nat
    BY RelayTypes
  <2>4. budget[w].count <= MaxRounds
    BY <2>2 DEF SpentOK, SpentAt
  <2>5. r \in Nat /\ "claimed" \in Status
    BY <2>3 DEF Status, OpenStatus
  <2>. DEFINE t == Timer(timer[w].sent, FALSE, timer[w].retry)
  <2>6. /\ t \in Timers
        /\ t.sent = "old" \/ t.aged \/ t.retry = "due" =>
              timer[w].sent = "old" \/ timer[w].aged \/ timer[w].retry = "due"
    BY RelayTypes, TimerIs
  <2>7. Put(w, Round("claimed", round[w].auth, h, g),
               Budget(budget[w].count, r, budget[w].failures), t)
    BY <2>1
  <2>. HIDE DEF r, t
  <2>. QED  BY <1>1, <1>2, <2>2, <2>3, <2>4, <2>5, <2>6, <2>7, LatestSpends
<1>. QED  BY <1>3, <1>4 DEF ClaimUnacknowledged, Bind

LEMMA DisposeSpends ==
    ASSUME RelayOK, OthersOK, SentOK, SpentOK,
           NEW w \in Works, NEW h \in told, NEW g \in 0 .. MaxGeneration,
           \/ \E same \in BOOLEAN : DisposeContinue(w, h, g, same)
           \/ DisposeEnd(w, h, g)
    PROVE  SpentOK'
<1>1. round[w].status = "claimed"
  BY DEF DisposeContinue, DisposeEnd, MayDispose
<1>2. latest = w
  BY <1>1, OpenAlone DEF Open, OpenStatus
<1>3. /\ budget[w].count \in Nat /\ budget[w].repeated \in Nat /\ budget[w].failures \in Nat
      /\ round[w].auth \in Nat /\ round[w].gen \in Nat /\ issued \in Nat
  BY RelayTypes
<1>4. h \in Nat
  BY <1>3 DEF SentOK
<1>5. CASE \E same \in BOOLEAN : DisposeContinue(w, h, g, same)
  <2>1. PICK same \in BOOLEAN : DisposeContinue(w, h, g, same)
    BY <1>5
  <2>. DEFINE c == budget[w].count + 1
              r == IF same THEN budget[w].repeated + 1 ELSE 0
              f == budget[w].failures
              status == Continue(c, r, f, "pending_release")
  <2>2. /\ Put(w, Round(status, round[w].auth, h, round[w].gen), Budget(c, r, f), Fresh)
        /\ UNCHANGED <<flights, count>> /\ tries' = 0
    BY <1>2, <2>1 DEF DisposeContinue, Closed
  <2>3. c \in Nat /\ r \in Nat /\ f \in Nat
    BY <1>3
  <2>. HIDE DEF c, r, f
  <2>4. status \in Status /\ (status \in Continuable => c <= MaxRounds)
    <3>1. "pending_release" \in Status
      BY DEF Status, OpenStatus
    <3>. QED  BY <2>3, <3>1, ContinueType, ContinueWithin
  <2>. HIDE DEF status
  <2>. QED  BY <1>2, <1>3, <1>4, <2>2, <2>3, <2>4, FreshIs, LatestSpends
<1>6. CASE DisposeEnd(w, h, g)
  <2>1. /\ Put(w, Round("closed", round[w].auth, h, round[w].gen),
               Budget(budget[w].count, budget[w].repeated, budget[w].failures), Fresh)
        /\ UNCHANGED <<flights, count, tries>>
    BY <1>2, <1>6 DEF DisposeEnd, Closed
  <2>2. "closed" \in Status /\ "closed" \notin Continuable
    BY DEF Status, Continuable, OpenStatus
  <2>. QED  BY <1>2, <1>3, <1>4, <2>1, <2>2, FreshIs, LatestSpends
<1>. QED  BY <1>5, <1>6

(* A round is released with no dispatch counted, and the first is counted.  *)
LEMMA FirstTry ==
    ASSUME OthersOK, tries = 0, tries' = Tried(tries)
    PROVE  /\ tries' = 1 /\ tries' <= MaxFailures + count.lost
           /\ \A f \in Nat : tries' <= Spend(f) + count.lost + 1
<1>1. MaxFailures \in Nat \ {0} /\ MaxLost \in Nat /\ count.lost \in Nat
  BY BudgetAssumption DEF OthersOK
<1>2. tries' = 1
  BY <1>1 DEF Tried
<1>. QED  BY <1>1, <1>2, SpendRange

LEMMA RedispatchSpends ==
    ASSUME RelayOK, OthersOK, SpentOK, NEW w \in Works, NEW g \in Nat, Redispatch(w, g),
           count' = count
    PROVE  SpentOK'
<1>1. round[w].status = "pending_release" /\ SpentAt(w)
  BY DEF Redispatch, SpentOK
<1>2. \A v \in Works : Open(v) => v = w
  BY <1>1, OpenAlone DEF Open, OpenStatus
<1>3. /\ issued + 1 \in Nat
      /\ budget[w] \in Budgets /\ budget[w].count \in Nat /\ budget[w].failures \in Nat
  BY RelayTypes
<1>4. /\ Put(w, Round("dispatching", issued + 1, 0, 0), budget[w], Fresh)
      /\ Dispatch(w, issued + 1, "call") /\ tries' = Tried(tries)
  BY DEF Redispatch
<1>5. tries = 0 /\ budget[w].count <= MaxRounds
  BY <1>1 DEF SpentAt, Continuable, OpenStatus
<1>6. /\ \A f \in flights' \ flights : f.work = w
      /\ ~(\A f \in flights' : f.work # w)
  BY <1>4, DispatchAdds
<1>7. /\ Round("dispatching", issued + 1, 0, 0) \in Rounds
      /\ Round("dispatching", issued + 1, 0, 0).status = "dispatching"
  <2>1. "dispatching" \in Status
    BY DEF Status, OpenStatus
  <2>. QED  BY <1>3, <2>1, RoundIs
<1>8. tries' <= MaxFailures + count.lost /\ tries' <= Spend(budget[w].failures) + count.lost + 1
  BY <1>3, <1>4, <1>5, FirstTry
<1>. QED
  BY <1>2, <1>3, <1>4, <1>5, <1>6, <1>7, <1>8, FreshIs, PutSpends

LEMMA HandOffSpends ==
    ASSUME RelayOK, OthersOK, SpentOK, NEW w \in Works, NEW g \in Nat, HandOff(w, g),
           count' = count
    PROVE  SpentOK'
<1>. DEFINE s == successor[w]
            r1 == Round("handed_off", 0, 0, 0)
            r2 == Round("dispatching", issued + 1, 0, 0)
            b == Budget(budget[w].count, 0, budget[w].failures)
<1>1. /\ round[w].status = "pending_release" /\ round[s].status = "none" /\ s \in Works
      /\ round' = [round EXCEPT ![w] = r1, ![s] = r2]
      /\ budget' = [budget EXCEPT ![s] = b]
      /\ timer' = [timer EXCEPT ![w] = Fresh, ![s] = Fresh]
      /\ Dispatch(s, issued + 1, "call") /\ tries' = Tried(tries)
  BY DEF HandOff, Active
<1>2. budget[w].count \in Nat /\ budget[w].failures \in Nat /\ issued \in Nat
  BY RelayTypes
<1>3. /\ r1.status = "handed_off" /\ r2.status = "dispatching"
      /\ b.count = budget[w].count /\ b.failures = budget[w].failures
  BY DEF Round, Budget
<1>4. \A v \in Works : Open(v) => v = w
  BY <1>1, OpenAlone DEF Open, OpenStatus
<1>5. tries = 0 /\ budget[w].count <= MaxRounds
  BY <1>1 DEF SpentOK, SpentAt, Continuable, OpenStatus
<1>6. /\ tries' <= MaxFailures + count.lost
      /\ tries' <= Spend(budget[w].failures) + count.lost + 1
  BY <1>1, <1>2, <1>5, FirstTry
<1>7. /\ \A f \in flights' \ flights : f.work = s
      /\ \E f \in flights' : f.work = s
  BY <1>1, DispatchAdds
<1>. HIDE DEF s, r1, r2, b
<1>8. ASSUME NEW v \in Works PROVE SpentAt(v)'
  <2>1. CASE v = s
    <3>1. round'[v] = r2 /\ budget'[v] = b /\ timer'[v] = Fresh
      BY <1>1, <2>1 DEF RelayOK
    <3>. QED  BY <1>3, <1>5, <1>6, <1>7, <2>1, <3>1, FreshIs DEF SpentAt
  <2>2. CASE v = w /\ v # s
    <3>1. round'[v] = r1 /\ timer'[v] = Fresh
      BY <1>1, <2>2 DEF RelayOK
    <3>. QED  BY <1>3, <3>1, FreshIs DEF SpentAt, Continuable, OpenStatus
  <2>3. CASE v # w /\ v # s
    <3>1. round'[v] = round[v] /\ budget'[v] = budget[v] /\ timer'[v] = timer[v]
      BY <1>1, <2>3 DEF RelayOK
    <3>2. round[v].status # "pending_release" /\ round[v].status # "dispatching"
      BY <1>4, <2>3 DEF Open, OpenStatus
    <3>3. SpentAt(v) /\ \A f \in flights' : f.work = v => f \in flights
      BY <1>7, <2>3 DEF SpentOK
    <3>. QED  BY <3>1, <3>2, <3>3 DEF SpentAt
  <2>. QED  BY <2>1, <2>2, <2>3
<1>. QED  BY <1>6, <1>8 DEF SpentOK

LEMMA AbandonSpends ==
    ASSUME RelayOK, OthersOK, SpentOK, NEW w \in Works, NEW g \in Nat, Abandon(w, g),
           count' = count
    PROVE  SpentOK'
<1>1. latest = w
  BY OpenAlone DEF Abandon, Open, OpenStatus
<1>2. /\ round[w].auth \in Nat /\ timer[w].sent \in {"never", "new", "old"}
      /\ timer[w].retry \in {"no", "later", "due"}
      /\ budget[w].count \in Nat /\ budget[w].repeated \in Nat /\ budget[w].failures \in Nat
  BY RelayTypes
<1>. DEFINE t == Timer(timer[w].sent, FALSE, timer[w].retry)
<1>3. /\ Put(w, Round("abandoned", round[w].auth, 0, 0),
             Budget(budget[w].count, budget[w].repeated, budget[w].failures), t)
      /\ UNCHANGED <<flights, tries>>
  BY SameBudget DEF Abandon
<1>4. t \in Timers /\ t.sent = timer[w].sent /\ ~t.aged /\ t.retry = timer[w].retry
  BY <1>2, TimerIs
<1>5. budget[w].count <= MaxRounds
  BY DEF Abandon, SpentOK, SpentAt, Continuable, OpenStatus
<1>6. "abandoned" \in Status
  BY DEF Status
<1>. HIDE DEF t
<1>. QED  BY <1>1, <1>2, <1>3, <1>4, <1>5, <1>6, LatestSpends

LEMMA ReleasedSpends ==
    ASSUME RelayOK, OthersOK, SpentOK, NEW w \in Works, NEW g \in Nat, Released(w, g)
    PROVE  SpentOK'
<1>1. count' = count
  BY DEF Released
<1>2. CASE UNCHANGED <<round, budget, timer, latest, flights, tries, issued>>
  BY <1>1, <1>2, SpentIdle
<1>. QED
  BY <1>1, <1>2, RedispatchSpends, HandOffSpends, AbandonSpends DEF Released

LEMMA RekeySpends ==
    ASSUME RelayOK, OthersOK, SpentOK, NEW w \in Works, Rekey(w)
    PROVE  SpentOK'
<1>. DEFINE s == IF round[w].status = "dispatched" THEN "dispatched" ELSE "dispatching"
            t == Timer(timer[w].sent, FALSE, "no")
<1>1. latest = w /\ round[w].status \in Continuable
  BY DEF Rekey, Open, Continuable
<1>2. /\ issued + 1 \in Nat /\ timer[w].sent \in {"never", "new", "old"}
      /\ budget[w].count \in Nat /\ budget[w].repeated \in Nat /\ budget[w].failures \in Nat
  BY RelayTypes
<1>3. Put(w, Round(s, issued + 1, 0, 0),
          Budget(budget[w].count, budget[w].repeated, budget[w].failures), t)
  BY SameBudget DEF Rekey
<1>4. s \in Status
  BY DEF Status, OpenStatus
<1>5. tries' = 0 /\ flights' = flights /\ count'.lost = count.lost
  BY DEF Rekey
<1>6. budget[w].count <= MaxRounds
  BY <1>1 DEF SpentOK, SpentAt
<1>7. t \in Timers /\ t.sent = timer[w].sent /\ ~t.aged /\ t.retry = "no"
  BY <1>2, TimerIs
<1>. HIDE DEF s, t
<1>. QED  BY <1>1, <1>2, <1>3, <1>4, <1>5, <1>6, <1>7, LatestSpends

(* A round that is overdue has no dispatch under way: those of a call are   *)
(* answered or lost by then, and the scheduler waits for its own.           *)
LEMMA StallSpends ==
    ASSUME RelayOK, OthersOK, SentOK, SpentOK,
           NEW w \in Works, NEW same \in BOOLEAN, Stall(w, same)
    PROVE  SpentOK'
<1>. DEFINE undispatched == round[w].status \in {"pending_release", "dispatching"}
            c == IF undispatched THEN budget[w].count ELSE budget[w].count + 1
            r == IF undispatched THEN budget[w].repeated
                 ELSE IF same THEN budget[w].repeated + 1 ELSE 0
            f == budget[w].failures
            status == Continue(c, r, 0, "dispatching")
            a == IF status # "dispatching" \/ round[w].status = "dispatching"
                 THEN round[w].auth ELSE issued + 1
            t == Timer(timer[w].sent, FALSE, "no")
<1>1. Open(w) /\ latest = w /\ Overdue(w) /\ \A x \in flights : x.by # "scheduler"
  BY DEF Stall
<1>2. /\ round[w].auth \in Nat /\ issued \in Nat
      /\ budget[w].count \in Nat /\ budget[w].repeated \in Nat /\ budget[w].failures \in Nat
      /\ timer[w].sent \in {"never", "new", "old"}
  BY RelayTypes
<1>3. SpentAt(w) /\ count.lost \in Nat /\ tries \in Nat /\ tries <= MaxFailures + count.lost
  BY DEF SpentOK, OthersOK
<1>4. \A x \in flights : x.work # w
  <2>1. timer[w].sent = "old" \/ timer[w].aged \/ timer[w].retry = "due"
    BY <1>1 DEF Overdue
  <2>. QED  BY <1>1, <1>3, <2>1 DEF SpentAt
<1>5. c \in Nat /\ r \in Nat /\ f \in Nat /\ (c = budget[w].count <=> undispatched)
  BY <1>2
<1>6. Stalled(w, same) = Budget(c, r, f) /\ Stalled(w, same).count = c
      /\ Stalled(w, same).repeated = r
  <2>1. Stalled(w, same) = Budget(c, r, f)
    BY DEF Stalled
  <2>. HIDE DEF c, r, f
  <2>. QED  BY <2>1 DEF Budget
<1>7. /\ Put(w, Round(status, a, 0, 0), Budget(c, r, f), t)
      /\ tries' = IF status # "dispatching" THEN tries
                  ELSE IF c = budget[w].count THEN Tried(tries) ELSE 1
      /\ IF status = "dispatching" THEN Dispatch(w, a, "scheduler") ELSE UNCHANGED flights
      /\ count' = count
  <2>. HIDE DEF c, r, f
  <2>. QED  BY <1>6 DEF Stall
<1>8. undispatched => tries <= Spend(f) + count.lost
  <2>1. CASE round[w].status = "dispatching"
    <3>1. tries <= Spend(f) + count.lost + (IF \A x \in flights : x.work # w THEN 0 ELSE 1)
      BY <1>3, <2>1 DEF SpentAt
    <3>2. Spend(f) \in Nat
      BY <1>2, SpendRange
    <3>. QED  BY <1>3, <1>4, <3>1, <3>2
  <2>2. CASE round[w].status = "pending_release"
    <3>1. tries = 0 /\ Spend(f) \in Nat
      BY <1>2, <1>3, <2>2, SpendRange DEF SpentAt
    <3>. QED  BY <1>3, <3>1
  <2>. QED  BY <2>1, <2>2
<1>. HIDE DEF undispatched, c, r, f
<1>9. /\ status \in Status /\ status \in {"dispatching", "blocked", "blocked_repeated"}
      /\ status \in Continuable => c <= MaxRounds
  <2>1. "dispatching" \in Status
    BY DEF Status, OpenStatus
  <2>2. status \in {"dispatching", "blocked", "blocked_repeated"}
    BY DEF Continue
  <2>. QED  BY <1>5, <2>1, <2>2, ContinueType, ContinueWithin
<1>. HIDE DEF status
<1>10. a \in Nat
  BY <1>2
<1>. HIDE DEF a
<1>11. Spend(f) \in Nat /\ MaxFailures \in Nat /\ MaxLost \in Nat /\ Spend(f) + 1 <= MaxFailures
  BY <1>5, SpendRange, BudgetAssumption
<1>12. CASE status = "dispatching"
  <2>1. /\ \A x \in flights' \ flights : x.work = w /\ x.by = "scheduler"
        /\ ~(\A x \in flights' : x.work # w)
    BY <1>7, <1>12, DispatchAdds
  <2>2. \A x \in flights' : x.work = w => x.by = "scheduler"
    BY <1>4, <2>1
  <2>3. tries' \in Nat /\ tries' <= Spend(f) + count.lost + 1
    <3>1. CASE undispatched
      <4>1. tries' \in Nat /\ tries' <= tries + 1
        BY <1>3, <1>5, <1>7, <1>11, <1>12, <3>1 DEF Tried
      <4>. QED  BY <1>3, <1>8, <1>11, <3>1, <4>1
    <3>2. CASE ~undispatched
      BY <1>3, <1>5, <1>7, <1>11, <1>12, <3>2
    <3>. QED  BY <3>1, <3>2
  <2>4. tries' <= MaxFailures + count.lost
    BY <1>3, <1>11, <2>3
  <2>5. /\ Round(status, a, 0, 0) \in Rounds /\ Round(status, a, 0, 0).status = status
        /\ Budget(c, r, f) \in Budgets /\ Budget(c, r, f).count = c /\ Budget(c, r, f).failures = f
    BY <1>5, <1>9, <1>10, RoundIs, BudgetIs
  <2>6. t \in Timers
    BY <1>2, TimerIs
  <2>7. \A v \in Works : Open(v) => v = w
    BY <1>1 DEF RelayOK, OpenIsLatest
  <2>. HIDE DEF t
  <2>8. Put(w, Round(status, a, 0, 0), Budget(c, r, f), t) /\ count'.lost = count.lost
    BY <1>7
  <2>9. \A x \in flights' \ flights : x.work = w
    BY <2>1
  <2>. QED  BY <1>9, <1>12, <2>1, <2>2, <2>3, <2>4, <2>5, <2>6, <2>7, <2>8, <2>9, PutSpends
<1>13. CASE status # "dispatching"
  <2>1. flights' = flights /\ tries' = tries /\ count'.lost = count.lost
    BY <1>7, <1>13
  <2>2. t \in Timers /\ t.sent = timer[w].sent /\ ~t.aged /\ t.retry = "no"
    BY <1>2, TimerIs
  <2>3. Put(w, Round(status, a, 0, 0), Budget(c, r, f), t)
    BY <1>7
  <2>. HIDE DEF t
  <2>. QED  BY <1>1, <1>5, <1>9, <1>10, <1>13, <2>1, <2>2, <2>3, LatestSpends
<1>. QED  BY <1>12, <1>13

(* Time passes for a round only when every dispatch of it is answered.      *)
LEMMA TimeSpends ==
    ASSUME RelayOK, SpentOK, NEW w \in Works,
           (\E all \in BOOLEAN : Age(w, all)) \/ RetryDue(w)
    PROVE  SpentOK'
<1>1. \A f \in flights : f.work # w
  BY DEF Age, RetryDue, Quiet, Pending
<1>2. UNCHANGED <<round, budget, flights, tries, count>>
  BY DEF Age, RetryDue, provider
<1>3. PICK t : timer' = [timer EXCEPT ![w] = t]
  BY DEF Age, RetryDue
<1>4. ASSUME NEW v \in Works PROVE SpentAt(v)'
  <2>1. SpentAt(v)
    BY DEF SpentOK
  <2>2. CASE v = w
    BY <1>1, <1>2, <2>1, <2>2 DEF SpentAt
  <2>3. CASE v # w
    <3>1. timer'[v] = timer[v]
      BY <1>3, <2>3 DEF RelayOK
    <3>. QED  BY <1>2, <2>1, <3>1 DEF SpentAt
  <2>. QED  BY <2>2, <2>3
<1>. QED  BY <1>2, <1>4 DEF SpentOK

LEMMA InitSpends == ASSUME Init PROVE SpentOK
<1>1. MaxFailures \in Nat
  BY BudgetAssumption
<1>2. ASSUME NEW v \in Works PROVE SpentAt(v)
  BY FreshIs DEF Init, SpentAt, Round, Continuable, OpenStatus
<1>. QED  BY <1>1, <1>2 DEF Init, SpentOK

LEMMA NextSpends ==
    ASSUME InTurn, RelayOK, OthersOK, SentOK, SpentOK, [Next]_vars
    PROVE  SpentOK'
<1>1. CASE \E f \in flights :
             \/ Deliver(f) \/ Lose(f)
             \/ \E outcome \in {"ok", "failed", "user", "unknown"} : Answer(f, outcome)
  BY <1>1, DeliverSpends, LoseSpends, AnswerSpends
<1>2. ASSUME NEW w \in Works, NEW same \in BOOLEAN,
             Launch(w, same) \/ Stall(w, same) \/ Age(w, same)
      PROVE  SpentOK'
  <2>1. CASE Launch(w, same)
    BY <2>1, LaunchSpends
  <2>2. CASE Stall(w, same)
    BY <2>2, StallSpends
  <2>3. CASE Age(w, same)
    BY <2>3, TimeSpends
  <2>. QED  BY <1>2, <2>1, <2>2, <2>3
<1>3. ASSUME NEW w \in Works, NEW h \in told, NEW g \in 0 .. MaxGeneration,
             \/ ClaimUnacknowledged(w, h, g) \/ Bind(w, h, g) \/ Release(w, h, g)
             \/ \E same \in BOOLEAN : Claim(w, h, g, same) \/ DisposeContinue(w, h, g, same)
             \/ DisposeEnd(w, h, g)
      PROVE  SpentOK'
  <2>1. CASE \/ \E same \in BOOLEAN : Claim(w, h, g, same)
             \/ ClaimUnacknowledged(w, h, g) \/ Bind(w, h, g)
    BY <2>1, ClaimSpends
  <2>2. CASE \/ \E same \in BOOLEAN : DisposeContinue(w, h, g, same)
             \/ DisposeEnd(w, h, g)
    BY <2>2, DisposeSpends
  <2>3. CASE Release(w, h, g)
    <3>1. g \in Nat /\ Released(w, g)
      BY <2>3, BudgetAssumption DEF Release
    <3>. QED  BY <3>1, ReleasedSpends
  <2>. QED  BY <1>3, <2>1, <2>2, <2>3
<1>4. ASSUME NEW w \in Works,
             \/ Witness(w) \/ Rekey(w) \/ RetryDue(w) \/ Idle(w) \/ Expire(w)
             \/ \E s \in Works : BindSuccessor(w, s)
             \/ \E how \in {"completed", "cancelled"} : End(w, how)
      PROVE  SpentOK'
  <2>1. CASE Witness(w)
    <3>1. round[w].gen \in Nat /\ Released(w, round[w].gen)
      BY <2>1, RelayTypes DEF Witness
    <3>. QED  BY <3>1, ReleasedSpends
  <2>2. CASE Rekey(w)
    BY <2>2, RekeySpends
  <2>3. CASE RetryDue(w)
    BY <2>3, TimeSpends
  <2>4. CASE \/ Idle(w) \/ Expire(w) \/ \E s \in Works : BindSuccessor(w, s)
             \/ \E how \in {"completed", "cancelled"} : End(w, how)
    <3>1. UNCHANGED <<round, budget, timer, tries, count, flights>>
      BY <2>4 DEF Idle, Expire, End, BindSuccessor, relay, provider
    <3>. QED  BY <3>1, SpentIdle
  <2>. QED  BY <1>4, <2>1, <2>2, <2>3, <2>4
<1>5. CASE UNCHANGED vars
  <2>1. UNCHANGED <<round, budget, timer, tries, count, flights>>
    BY <1>5 DEF vars, relay, provider
  <2>. QED  BY <2>1, SpentIdle
<1>6. CASE Next
  BY <1>1, <1>2, <1>3, <1>4, <1>6 DEF Next
<1>. QED  BY <1>5, <1>6

LEMMA AlwaysSpent ==
    ASSUME InTurn
    PROVE  Spec => [](RelayInv /\ SpentOK)
<1>. DEFINE Inv == RelayInv /\ SpentOK
<1>1. Init => Inv
  BY InitKeeps, InitSpends, InvParts
<1>2. Inv /\ [Next]_vars => Inv'
  <2>1. ASSUME Inv, [Next]_vars PROVE RelayOK' /\ OthersOK' /\ SentOK'
    BY <2>1, InvParts, NextKeeps
  <2>2. ASSUME Inv, [Next]_vars PROVE SpentOK'
    BY <2>2, InvParts, NextSpends
  <2>3. RelayOK' /\ OthersOK' /\ SentOK' => RelayInv'
    BY InvParts, PTL
  <2>. QED  BY <2>1, <2>2, <2>3
<1>. QED  BY <1>1, <1>2, PTL DEF Spec

(* RoundInv is an invariant of a relay whose blocked rounds are claimed in  *)
(* turn, for any Works, successors and budgets.                             *)
THEOREM RoundInvariant ==
    ASSUME InTurn
    PROVE  Spec => []RoundInv
<1>1. RelayInv /\ SpentOK => RoundInv
  BY SpentParts DEF RoundInv
<1>. QED  BY <1>1, AlwaysSpent, PTL

(* Between two answers of a controller a round is dispatched at most once   *)
(* for each failure it is allowed and each dispatch that was lost, and a    *)
(* relay stays within its rounds (claimStalledControllerRoundRelays,        *)
(* submitControllerRoundDisposition), under the same condition.             *)
THEOREM RoundsBounded ==
    ASSUME InTurn
    PROVE  Spec => []Bounded
<1>1. RelayInv /\ SpentOK => Bounded
  BY SpentParts
<1>. QED  BY <1>1, AlwaysSpent, PTL

(* A relay scope has at most one open round (beginInitialControllerRound-   *)
(* Dispatch), under the same condition.                                     *)
THEOREM OneOpenRound ==
    ASSUME InTurn
    PROVE  Spec => []OneOpen
<1>1. RoundInv => OneOpen
  BY DEF RoundInv, RelayInv, OpenIsLatest, OneOpen
<1>. QED  BY <1>1, RoundInvariant, PTL

-----------------------------------------------------------------------------
(* For the authorities the order of the claims does not matter: whatever is *)
(* recorded, sent or told carries one that was issued, and only the next    *)
(* one is ever new.                                                         *)
AuthOK ==
    /\ issued \in Nat
    /\ DOMAIN round = Works
    /\ \A w \in Works : round[w].auth \in 0 .. issued
    /\ \A f \in flights : f.work \in Works /\ f.auth \in 0 .. issued
    /\ told \subseteq 0 .. issued

(* A record is written with the authority it had, none, or the next one.    *)
Rewrites(w, a) == \E s, h, g : round' = [round EXCEPT ![w] = Round(s, a, h, g)]

LEMMA PutRewrites ==
    ASSUME NEW w, NEW s, NEW a, NEW h, NEW g, NEW b, NEW t, Put(w, Round(s, a, h, g), b, t)
    PROVE  Rewrites(w, a)
BY DEF Put, Rewrites

LEMMA AuthWritten ==
    ASSUME AuthOK, NEW w \in Works, NEW a, Rewrites(w, a),
           issued' \in {issued, issued + 1}, a \in {0, round[w].auth, issued'}
    PROVE  /\ DOMAIN round' = Works /\ \A v \in Works : round'[v].auth \in 0 .. issued'
           /\ round'[w].auth = a
<1>1. PICK s, h, g : round' = [round EXCEPT ![w] = Round(s, a, h, g)]
  BY DEF Rewrites
<1>2. DOMAIN round' = Works /\ \A v \in Works : round'[v] = IF v = w THEN Round(s, a, h, g) ELSE round[v]
  BY <1>1 DEF AuthOK
<1>3. \A v \in Works : round'[v].auth = IF v = w THEN a ELSE round[v].auth
  BY <1>2 DEF Round
<1>4. a \in 0 .. issued'
  BY DEF AuthOK
<1>. QED  BY <1>2, <1>3, <1>4 DEF AuthOK

(* The provider is told an authority on record.                             *)
LEMMA AuthSent ==
    ASSUME AuthOK, issued' \in {issued, issued + 1},
           DOMAIN round' = Works, \A v \in Works : round'[v].auth \in 0 .. issued',
           told' \subseteq told \union 0 .. issued',
           \/ flights' \subseteq flights
           \/ \E w \in Works : \E by : Dispatch(w, round'[w].auth, by)
    PROVE  AuthOK'
<1>1. 0 .. issued \subseteq 0 .. issued' /\ issued' \in Nat
  BY DEF AuthOK
<1>2. \A f \in flights' : f.work \in Works /\ f.auth \in 0 .. issued'
  BY <1>1 DEF AuthOK, Dispatch
<1>. QED  BY <1>1, <1>2 DEF AuthOK

(* So it is when a record is rewritten, or none is, and nothing is sent.    *)
LEMMA AuthKept ==
    ASSUME AuthOK, UNCHANGED <<issued, told>>, flights' \subseteq flights,
           \/ round' = round
           \/ \E w \in Works : Rewrites(w, round[w].auth)
    PROVE  AuthOK'
<1>1. CASE round' = round
  BY <1>1 DEF AuthOK
<1>2. ASSUME NEW w \in Works, Rewrites(w, round[w].auth) PROVE AuthOK'
  BY <1>2, AuthWritten, AuthSent
<1>. QED  BY <1>1, <1>2

LEMMA AuthAnswer ==
    ASSUME AuthOK, NEW f \in flights,
           \/ Deliver(f) \/ Lose(f)
           \/ \E outcome \in {"ok", "failed", "user", "unknown"} : Answer(f, outcome)
    PROVE  AuthOK'
<1>1. CASE Deliver(f)
  <2>1. /\ UNCHANGED <<round, issued>> /\ told' = told \union {f.auth}
        /\ \A g \in flights' : g \in flights \/ (g.work = f.work /\ g.auth = f.auth)
    BY <1>1 DEF Deliver, relay
  <2>. QED  BY <2>1 DEF AuthOK
<1>2. CASE Lose(f)
  BY <1>2, AuthKept DEF Lose, relay
<1>3. ASSUME NEW outcome, Answer(f, outcome) PROVE AuthOK'
  <2>1. /\ UNCHANGED <<issued, told>> /\ flights' \subseteq flights
        /\ Finished(f, outcome)
    BY <1>3 DEF Answer
  <2>2. \/ round' = round
        \/ \E s, b, t : Put(f.work, Round(s, round[f.work].auth, 0, 0), b, t)
    BY <2>1 DEF Finished
  <2>3. round' = round \/ Rewrites(f.work, round[f.work].auth)
    BY <2>2, PutRewrites
  <2>4. f.work \in Works
    BY DEF AuthOK
  <2>. QED  BY <2>1, <2>3, <2>4, AuthKept
<1>. QED  BY <1>1, <1>2, <1>3

LEMMA AuthNew ==
    ASSUME AuthOK, NEW w \in Works, NEW same \in BOOLEAN,
           Launch(w, same) \/ Stall(w, same) \/ Rekey(w)
    PROVE  AuthOK'
<1>1. CASE Launch(w, same)
  <2>1. /\ issued' = issued + 1 /\ told' = told
        /\ Dispatch(w, issued + 1, "call") \/ flights' = flights
    BY <1>1 DEF Launch
  <2>2. \E s, b, t : Put(w, Round(s, issued + 1, 0, 0), b, t)
    BY <1>1 DEF Launch
  <2>3. Rewrites(w, issued')
    BY <2>1, <2>2, PutRewrites
  <2>. QED  BY <2>1, <2>3, AuthWritten, AuthSent
<1>2. CASE Stall(w, same)
  <2>1. PICK a : /\ a \in {round[w].auth, issued + 1}
                 /\ issued' = IF a = round[w].auth THEN issued ELSE a
                 /\ \E s, b, t : Put(w, Round(s, a, 0, 0), b, t)
                 /\ Dispatch(w, a, "scheduler") \/ flights' = flights
    BY <1>2 DEF Stall
  <2>2. told' = told
    BY <1>2 DEF Stall
  <2>3. issued' \in {issued, issued + 1} /\ a \in {round[w].auth, issued'}
    BY <2>1
  <2>4. Rewrites(w, a)
    BY <2>1, PutRewrites
  <2>5. /\ DOMAIN round' = Works /\ \A v \in Works : round'[v].auth \in 0 .. issued'
        /\ round'[w].auth = a
    BY <2>3, <2>4, AuthWritten
  <2>. QED  BY <2>1, <2>2, <2>3, <2>5, AuthSent
<1>3. CASE Rekey(w)
  <2>1. issued' = issued + 1 /\ told' = told \union {issued + 1} /\ flights' = flights
    BY <1>3 DEF Rekey
  <2>2. \E s, b, t : Put(w, Round(s, issued + 1, 0, 0), b, t)
    BY <1>3 DEF Rekey
  <2>3. Rewrites(w, issued')
    BY <2>1, <2>2, PutRewrites
  <2>4. issued + 1 \in 0 .. issued'
    BY <2>1 DEF AuthOK
  <2>. QED  BY <2>1, <2>3, <2>4, AuthWritten, AuthSent
<1>. QED  BY <1>1, <1>2, <1>3

LEMMA AuthHost ==
    ASSUME AuthOK, NEW w \in Works, NEW h, NEW g, NEW same,
           \/ ClaimUnacknowledged(w, h, g) \/ Bind(w, h, g) \/ Claim(w, h, g, same)
           \/ DisposeContinue(w, h, g, same) \/ DisposeEnd(w, h, g)
    PROVE  AuthOK'
<1>1. UNCHANGED <<issued, told, flights>>
  BY DEF ClaimUnacknowledged, Bind, Claim, Own, provider, DisposeContinue, DisposeEnd, Closed
<1>2. ASSUME NEW status, NEW b, Closed(w, h, status, b)
      PROVE  Rewrites(w, round[w].auth)
  BY <1>2, PutRewrites DEF Closed
<1>3. ASSUME Acknowledge(w, h, g, same)
      PROVE  round' = round \/ Rewrites(w, round[w].auth)
  BY <1>3, PutRewrites DEF Acknowledge
<1>4. round' = round \/ Rewrites(w, round[w].auth)
  BY <1>2, <1>3 DEF ClaimUnacknowledged, Bind, Claim, DisposeContinue, DisposeEnd
<1>. QED  BY <1>1, <1>4, AuthKept

LEMMA AuthReleased ==
    ASSUME AuthOK, NEW w \in Works, NEW g, Released(w, g)
    PROVE  AuthOK'
<1>0. told' = told
  BY DEF Released
<1>1. CASE Redispatch(w, g)
  <2>1. /\ Put(w, Round("dispatching", issued + 1, 0, 0), budget[w], Fresh)
        /\ Dispatch(w, issued + 1, "call") /\ issued' = issued + 1
    BY <1>1 DEF Redispatch
  <2>2. Rewrites(w, issued')
    BY <2>1, PutRewrites
  <2>. QED  BY <1>0, <2>1, <2>2, AuthWritten, AuthSent
<1>2. CASE HandOff(w, g)
  <2>. DEFINE s == successor[w]
  <2>1. /\ round' = [round EXCEPT ![w] = Round("handed_off", 0, 0, 0),
                                  ![s] = Round("dispatching", issued + 1, 0, 0)]
        /\ s \in Works /\ Dispatch(s, issued + 1, "call") /\ issued' = issued + 1
    BY <1>2 DEF HandOff, Active
  <2>. HIDE DEF s
  <2>2. DOMAIN round' = Works
    BY <2>1 DEF AuthOK
  <2>3. \A v \in Works : round'[v] = IF v = s THEN Round("dispatching", issued + 1, 0, 0)
                                     ELSE IF v = w THEN Round("handed_off", 0, 0, 0)
                                     ELSE round[v]
    BY <2>1 DEF AuthOK
  <2>4. round'[s].auth = issued + 1
    <3>1. round'[s] = Round("dispatching", issued + 1, 0, 0)
      BY <2>1, <2>3
    <3>. QED  BY <3>1 DEF Round
  <2>5. \A v \in Works : round'[v].auth \in {0, round[v].auth, issued + 1}
    BY <2>3 DEF Round
  <2>6. \A v \in Works : round'[v].auth \in 0 .. issued'
    BY <2>1, <2>5 DEF AuthOK
  <2>. QED  BY <1>0, <2>1, <2>2, <2>4, <2>6, AuthSent
<1>3. CASE Abandon(w, g)
  <2>1. Rewrites(w, round[w].auth)
    BY <1>3, PutRewrites DEF Abandon
  <2>. QED  BY <1>0, <1>3, <2>1, AuthKept DEF Abandon
<1>4. CASE UNCHANGED <<round, flights, issued>>
  BY <1>0, <1>4, AuthKept
<1>. QED  BY <1>1, <1>2, <1>3, <1>4 DEF Released

LEMMA AuthInvariant == Spec => []AuthOK
<1>1. Init => AuthOK
  BY DEF Init, AuthOK, Round
<1>2. AuthOK /\ [Next]_vars => AuthOK'
  <2>. SUFFICES ASSUME AuthOK, [Next]_vars PROVE AuthOK'
    OBVIOUS
  <2>1. CASE \E f \in flights :
                \/ Deliver(f) \/ Lose(f)
                \/ \E outcome \in {"ok", "failed", "user", "unknown"} : Answer(f, outcome)
    BY <2>1, AuthAnswer
  <2>2. ASSUME NEW w \in Works, NEW same \in BOOLEAN,
               Launch(w, same) \/ Stall(w, same) \/ Age(w, same)
        PROVE  AuthOK'
    <3>1. Age(w, same) => AuthOK'
      BY AuthKept DEF Age, provider
    <3>. QED  BY <2>2, <3>1, AuthNew
  <2>3. ASSUME NEW w \in Works, NEW h \in told, NEW g \in 0 .. MaxGeneration,
               \/ ClaimUnacknowledged(w, h, g) \/ Bind(w, h, g) \/ Release(w, h, g)
               \/ \E same \in BOOLEAN : Claim(w, h, g, same) \/ DisposeContinue(w, h, g, same)
               \/ DisposeEnd(w, h, g)
        PROVE  AuthOK'
    <3>1. Release(w, h, g) => AuthOK'
      BY AuthReleased DEF Release
    <3>. QED  BY <2>3, <3>1, AuthHost
  <2>4. ASSUME NEW w \in Works,
               \/ Witness(w) \/ Rekey(w) \/ RetryDue(w) \/ Idle(w) \/ Expire(w)
               \/ \E s \in Works : BindSuccessor(w, s)
               \/ \E how \in {"completed", "cancelled"} : End(w, how)
        PROVE  AuthOK'
    <3>1. Witness(w) => AuthOK'
      BY AuthReleased DEF Witness
    <3>2. Rekey(w) => AuthOK'
      BY AuthNew
    <3>3. CASE UNCHANGED <<round, flights, issued, told>>
      BY <3>3, AuthKept
    <3>. QED
      BY <2>4, <3>1, <3>2, <3>3
         DEF RetryDue, Idle, Expire, BindSuccessor, End, relay, provider
  <2>5. CASE UNCHANGED vars
    BY <2>5, AuthKept DEF vars, relay, provider
  <2>6. CASE Next
    BY <2>1, <2>2, <2>3, <2>4, <2>6 DEF Next
  <2>. QED  BY <2>5, <2>6
<1>. QED  BY <1>1, <1>2, PTL DEF Spec

(* A dispatch that is not a retry carries an authority that was never       *)
(* handed out (claimStalledControllerRoundRelays, beginControllerRound-     *)
(* RelayAfterRelease), in whatever order rounds are claimed.                *)
THEOREM AuthorityHandedOutOnce == Spec => HandedOutOnce
<1>. DEFINE Retry(f) == round[f.work].status = "dispatching" /\ round[f.work].auth = f.auth
            Once(f) == ~f.delivered /\ f.auth \in told => Retry(f)
<1>1. ASSUME AuthOK, [Next]_vars, NEW f \in flights' \ flights PROVE Once(f)
  <2>1. told \subseteq 0 .. issued /\ issued \in Nat
    BY <1>1 DEF AuthOK
  <2>2. ASSUME NEW w, NEW a, NEW by, Dispatch(w, a, by), a = issued + 1 PROVE Once(f)
    <3>1. f.auth = issued + 1
      BY <1>1, <2>2 DEF Dispatch
    <3>. QED  BY <2>1, <3>1
  <2>3. CASE \E g \in flights :
                \/ Deliver(g) \/ Lose(g)
                \/ \E outcome \in {"ok", "failed", "user", "unknown"} : Answer(g, outcome)
    BY <1>1, <2>3 DEF Deliver, Lose, Answer
  <2>4. ASSUME NEW w \in Works, NEW same \in BOOLEAN,
               Launch(w, same) \/ Stall(w, same) \/ Age(w, same)
        PROVE  Once(f)
    <3>1. CASE Launch(w, same)
      BY <1>1, <2>2, <3>1 DEF Launch
    <3>2. CASE Stall(w, same)
      <4>1. PICK a : /\ Dispatch(w, a, "scheduler")
                     /\ (round[w].status = "dispatching" /\ a = round[w].auth) \/ a = issued + 1
        BY <1>1, <3>2 DEF Stall
      <4>2. CASE a = issued + 1
        BY <2>2, <4>1, <4>2
      <4>3. CASE round[w].status = "dispatching" /\ a = round[w].auth
        BY <1>1, <4>1, <4>3 DEF Dispatch
      <4>. QED  BY <4>1, <4>2, <4>3
    <3>3. CASE Age(w, same)
      BY <1>1, <3>3 DEF Age, provider
    <3>. QED  BY <2>4, <3>1, <3>2, <3>3
  <2>5. ASSUME NEW w \in Works, NEW g, Released(w, g) PROVE Once(f)
    BY <1>1, <2>2, <2>5 DEF Released, Redispatch, HandOff, Abandon
  <2>6. ASSUME NEW w \in Works, NEW h \in told, NEW g \in 0 .. MaxGeneration,
               \/ ClaimUnacknowledged(w, h, g) \/ Bind(w, h, g) \/ Release(w, h, g)
               \/ \E same \in BOOLEAN : Claim(w, h, g, same) \/ DisposeContinue(w, h, g, same)
               \/ DisposeEnd(w, h, g)
        PROVE  Once(f)
    <3>1. CASE Release(w, h, g)
      BY <2>5, <3>1 DEF Release
    <3>2. CASE Own(w, g)
      BY <1>1, <3>2 DEF Own, provider
    <3>3. CASE flights' = flights
      BY <1>1, <3>3
    <3>. QED
      BY <2>6, <3>1, <3>2, <3>3
         DEF ClaimUnacknowledged, Bind, Claim, DisposeContinue, DisposeEnd, Closed
  <2>7. ASSUME NEW w \in Works,
               \/ Witness(w) \/ Rekey(w) \/ RetryDue(w) \/ Idle(w) \/ Expire(w)
               \/ \E s \in Works : BindSuccessor(w, s)
               \/ \E how \in {"completed", "cancelled"} : End(w, how)
        PROVE  Once(f)
    <3>1. CASE Witness(w)
      BY <2>5, <3>1 DEF Witness
    <3>2. CASE ~Witness(w)
      BY <1>1, <2>7, <3>2 DEF Rekey, RetryDue, Idle, Expire, BindSuccessor, End, provider
    <3>. QED  BY <3>1, <3>2
  <2>8. CASE UNCHANGED vars
    BY <1>1, <2>8 DEF vars, provider
  <2>9. CASE Next
    BY <2>3, <2>4, <2>6, <2>7, <2>9 DEF Next
  <2>. QED  BY <1>1, <2>8, <2>9
<1>2. AuthOK /\ [Next]_vars => [\A f \in flights' \ flights : Once(f)]_vars
  BY <1>1
<1>3. (\A f \in flights' \ flights : Once(f)) <=>
      (\A f \in flights' \ flights :
          ~f.delivered /\ f.auth \in told
             => round[f.work].status = "dispatching" /\ round[f.work].auth = f.auth)
  OBVIOUS
<1>. QED  BY <1>2, <1>3, AuthInvariant, PTL DEF Spec, HandedOutOnce
=============================================================================
