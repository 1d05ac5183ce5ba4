----------------------- MODULE ControllerSessionProofs -----------------------
(* While one process at a time reads and writes the record of claims, an    *)
(* owner that was told it holds a Work is the only one, its authority is    *)
(* accepted, and a Work does not become terminal under it.                  *)
EXTENDS ControllerSession, TLAPS

USE DEF stores

LEMMA ClaimedSessionType ==
    ASSUME TypeOK, NEW w \in Works, NEW o \in Owners, NEW t \in Transports, NEW i \in Instances
    PROVE  /\ ClaimedSession(w, o, t, i) \in Session
           /\ ClaimedSession(w, o, t, i).work = w
           /\ ClaimedSession(w, o, t, i).owner = o
<1>1. Generation(w, o, i) \in Nat \ {0}
  <2>1. CASE Entries(w) = {}
    BY <2>1 DEF Generation
  <2>2. CASE Entries(w) # {}
    <3>1. PICK e \in Entries(w) : e = CHOOSE x \in Entries(w) : TRUE
      BY <2>2
    <3>2. e.gen \in Nat \ {0}
      BY <3>1 DEF TypeOK, Session, Entries
    <3>. QED  BY <2>2, <3>1, <3>2 DEF Generation
  <2>. QED  BY <2>1, <2>2
<1>2. now + LeaseTime \in Nat
  BY NumberAssumption DEF TypeOK
<1>. QED
  BY <1>1, <1>2 DEF ClaimedSession, Session

LEMMA GrantType ==
    ASSUME TypeOK, NEW w \in Works, NEW o \in Owners, NEW t \in Transports, NEW i \in Instances,
           NEW op \in {"claim", "take"}, Grant(w, o, t, i, op)
    PROVE  /\ hand' \in [Works -> Change \union {None}]
           /\ claimed' \in Nat
           /\ UNCHANGED <<stores, runtime, now>>
<1>. DEFINE s == ClaimedSession(w, o, t, i)
<1>1. s \in Session
  BY ClaimedSessionType
<1>2. AfterClaim(s) \subseteq Session
  BY <1>1 DEF AfterClaim, TypeOK
<1>3. [op |-> op, session |-> s, next |-> AfterClaim(s)] \in Change
  BY <1>1, <1>2, NoneAssumption DEF Change
<1>4. /\ hand' = [hand EXCEPT ![w] = [op |-> op, session |-> s, next |-> AfterClaim(s)]]
      /\ UNCHANGED <<stores, runtime, now>> /\ claimed' = claimed + 1
  BY DEF Grant, Decide
<1>. HIDE DEF s
<1>. QED
  BY <1>3, <1>4 DEF TypeOK

LEMMA StepType ==
    ASSUME TypeOK, NEW w \in Works, NEW from,
           NEW to \in {"idle", "told", "released"}, Step(w, from, to),
           from # "end" \/ to = "idle"
    PROVE  /\ hand[w] \in Change /\ hand[w].op = from
           /\ hand' \in [Works -> Change \union {None}]
           /\ UNCHANGED <<seen, runtime, now, claimed>>
<1>1. hand[w] \in Change /\ hand[w].op = from
  BY DEF TypeOK, Step
<1>2. /\ hand[w].session \in Session \union {None} /\ hand[w].next \in SUBSET Session
      /\ from # "end" => hand[w].session # None
  BY <1>1 DEF Change
<1>3. ASSUME to # "idle"
      PROVE  [op |-> to, session |-> hand[w].session, next |-> hand[w].next] \in Change
  BY <1>2, <1>3 DEF Change
<1>. QED
  BY <1>1, <1>3 DEF Step, TypeOK

LEMMA TypeStep == TypeOK /\ [Next]_vars => TypeOK'
<1>. SUFFICES ASSUME TypeOK, [Next]_vars PROVE TypeOK'
  OBVIOUS
<1>1. 1 .. runtime \subseteq Instances
  BY NumberAssumption DEF TypeOK, Instances
<1>2. ASSUME NEW w \in Works, NEW o \in Owners, NEW t \in Transports, NEW i \in 1 .. runtime,
             Claim(w, o, t, i) \/ Resume(w, o, t, i) \/ Recover(w, o, t, i)
      PROVE  TypeOK'
  <2>1. i \in Instances
    BY <1>1
  <2>2. /\ Grant(w, o, t, i, "claim") \/ Grant(w, o, t, i, "take")
        /\ UNCHANGED seen
    BY <1>2 DEF Claim, Resume, Recover
  <2>3. /\ hand' \in [Works -> Change \union {None}] /\ claimed' \in Nat
        /\ UNCHANGED <<stores, runtime, now>>
    BY <2>1, <2>2, GrantType
  <2>. QED  BY <2>2, <2>3 DEF TypeOK
<1>3. ASSUME NEW w \in Works, NEW o \in Owners, NEW t \in Transports, NEW i \in 1 .. runtime,
             NEW q \in Requests, Observe(q, w, o, t, i)
      PROVE  TypeOK'
  <2>1. i \in Instances
    BY <1>1
  <2>2. PICK s \in Live(w) :
          seen' = [seen EXCEPT ![q] = [work |-> w, owner |-> o, sid |-> t,
                                       inst |-> i, gen |-> s.gen, was |-> s.inst]]
    BY <1>3 DEF Observe
  <2>3. s \in Session
    BY <2>2 DEF Live, Entries, TypeOK
  <2>4. [work |-> w, owner |-> o, sid |-> t, inst |-> i, gen |-> s.gen, was |-> s.inst]
          \in Observation
    BY <2>1, <2>3 DEF Session, Observation
  <2>. QED  BY <1>3, <2>2, <2>4 DEF Observe, TypeOK
<1>4. ASSUME NEW q \in Requests, Rebind(q) PROVE TypeOK'
  <2>1. seen[q] \in Observation
    BY <1>4 DEF Rebind, TypeOK
  <2>2. /\ hand' \in [Works -> Change \union {None}] /\ claimed' \in Nat
        /\ UNCHANGED <<stores, runtime, now>>
    BY <1>4, <2>1, GrantType DEF Rebind, Observation
  <2>. QED  BY <1>4, <2>2 DEF Rebind, TypeOK
<1>5. ASSUME NEW q \in Requests, RebindRefused(q) PROVE TypeOK'
  BY <1>5 DEF RebindRefused, TypeOK
<1>6. ASSUME NEW w \in Works, Release(w) \/ Terminalize(w) PROVE TypeOK'
  <2>1. PICK op \in {"release", "end"}, s \in Session \union {None}, next \in SUBSET Session :
          Decide(w, op, s, next) /\ (op = "end" \/ s \in Session)
    BY <1>6 DEF Release, Terminalize, Live, Entries, TypeOK
  <2>2. [op |-> op, session |-> s, next |-> next] \in Change
    BY <2>1, NoneAssumption DEF Change
  <2>3. UNCHANGED <<claimed, seen>>
    BY <1>6 DEF Release, Terminalize
  <2>. QED  BY <2>1, <2>2, <2>3 DEF Decide, TypeOK
<1>7. ASSUME NEW w \in Works, WriteClaims(w) PROVE TypeOK'
  <2>1. /\ hand[w] \in Change /\ hand' \in [Works -> Change \union {None}]
        /\ UNCHANGED <<seen, runtime, now, claimed>>
    BY <1>7, StepType DEF WriteClaims
  <2>2. hand[w].next \subseteq Session
    BY <2>1 DEF Change
  <2>. QED  BY <1>7, <2>1, <2>2 DEF WriteClaims, TypeOK
<1>8. ASSUME NEW w \in Works, ClaimReturns(w) \/ RetainReleased(w) PROVE TypeOK'
  <2>1. /\ hand[w] \in Change /\ hand[w].op # "end"
        /\ hand' \in [Works -> Change \union {None}]
        /\ UNCHANGED <<seen, runtime, now, claimed>>
    <3>1. Step(w, "told", "idle") \/ Step(w, "release", "released")
      BY <1>8 DEF ClaimReturns, RetainReleased
    <3>. QED  BY <3>1, StepType
  <2>2. hand[w].session \in Session
    BY <2>1 DEF Change
  <2>3. /\ [session |-> hand[w].session, released |-> FALSE] \in Identity
        /\ [session |-> hand[w].session, released |-> TRUE] \in Identity
    BY <2>2 DEF Identity
  <2>4. retained' \in [Works -> Identity \union {None}]
    BY <1>8, <2>3 DEF ClaimReturns, RetainReleased, Retain, TypeOK
  <2>. QED  BY <1>8, <2>1, <2>2, <2>4 DEF ClaimReturns, RetainReleased, TypeOK
<1>9. ASSUME NEW w \in Works, WriteReleased(w) PROVE TypeOK'
  <2>1. /\ hand[w] \in Change /\ hand' \in [Works -> Change \union {None}]
        /\ UNCHANGED <<seen, runtime, now, claimed>>
    BY <1>9, StepType DEF WriteReleased
  <2>2. hand[w].next \subseteq Session
    BY <2>1 DEF Change
  <2>. QED  BY <1>9, <2>1, <2>2 DEF WriteReleased, TypeOK
<1>10. ASSUME NEW w \in Works, WriteTerminal(w) PROVE TypeOK'
  <2>1. /\ hand' \in [Works -> Change \union {None}]
        /\ UNCHANGED <<seen, runtime, now, claimed>>
    BY <1>10, StepType DEF WriteTerminal
  <2>. QED  BY <1>10, <2>1 DEF WriteTerminal, TypeOK
<1>11. ASSUME NEW w \in Works, Crash(w) PROVE TypeOK'
  BY <1>11 DEF Crash, TypeOK
<1>12. ASSUME RuntimeRestarts \/ Tick PROVE TypeOK'
  BY <1>12, NumberAssumption DEF RuntimeRestarts, Tick, TypeOK, Instances
<1>13. CASE UNCHANGED vars
  BY <1>13 DEF vars, TypeOK
<1>. QED
  BY <1>2, <1>3, <1>4, <1>5, <1>6, <1>7, <1>8, <1>9, <1>10, <1>11, <1>12, <1>13 DEF Next

-----------------------------------------------------------------------------
(* A decision taken while no hand is out holds if it holds for its Work.    *)
LEMMA DecideStep ==
    ASSUME Serial = TRUE, SessionInv, TypeOK',
           NEW w \in Works, NEW op, NEW s, NEW next, Decide(w, op, s, next),
           HandOK(w, [op |-> op, session |-> s, next |-> next])
    PROVE  SessionInv'
<1>. DEFINE h == [op |-> op, session |-> s, next |-> next]
<1>1. /\ UNCHANGED <<sessions, retained, terminal, believed, runtime, now>>
      /\ \A v \in Works : hand[v] = None
      /\ hand' = [hand EXCEPT ![w] = h]
  BY DEF Decide, LockFree
<1>2. \A v \in Works : hand'[v] # None => v = w
  BY <1>1 DEF SessionInv, TypeOK
<1>3. hand'[w] = h
  BY <1>1 DEF SessionInv, TypeOK
<1>4. HandOK(w, h)'
  <2>. HIDE DEF h
  <2>. QED  BY <1>1 DEF HandOK, Live, Entries, h
<1>. HIDE DEF h
<1>5. OneHand'
  BY <1>2 DEF OneHand
<1>6. HandInv'
  BY <1>2, <1>3, <1>4 DEF HandInv
<1>7. OneEntry' /\ BelievedInv'
  BY <1>1 DEF SessionInv, OneEntry, BelievedInv, Epoch
<1>. QED
  BY <1>5, <1>6, <1>7 DEF SessionInv

(* A write is made while no other hand is out.                              *)
LEMMA OnlyHand ==
    ASSUME SessionInv, NEW w \in Works, NEW from, NEW to, Step(w, from, to)
    PROVE  /\ hand[w] # None /\ hand[w].op = from /\ HandOK(w, hand[w])
           /\ \A v \in Works : v # w => hand'[v] = None
           /\ to = "idle" => hand'[w] = None
           /\ to # "idle" => hand'[w] = [op |-> to, session |-> hand[w].session,
                                        next |-> hand[w].next]
           /\ UNCHANGED now
           /\ OneHand'
<1>1. hand[w] # None /\ hand[w].op = from
  BY DEF Step
<1>2. \A v \in Works : v # w => hand[v] = None
  BY <1>1 DEF SessionInv, OneHand
<1>3. \A v \in Works : v # w => hand'[v] = None
  BY <1>2 DEF Step, SessionInv, TypeOK
<1>. QED
  BY <1>1, <1>3 DEF Step, SessionInv, TypeOK, HandInv, OneHand

LEMMA GrantStep ==
    ASSUME Serial = TRUE, SessionInv, TypeOK',
           NEW w \in Works, NEW o \in Owners, NEW t \in Transports, NEW i \in Instances,
           NEW op \in {"claim", "take"}, Grant(w, o, t, i, op),
           op = "claim" => \A x \in Live(w) : x.owner = o
    PROVE  SessionInv'
<1>. DEFINE s == ClaimedSession(w, o, t, i)
<1>1. s \in Session /\ s.work = w /\ s.owner = o
  BY ClaimedSessionType DEF SessionInv
<1>2. w \notin terminal /\ Decide(w, op, s, AfterClaim(s))
  BY DEF Grant
<1>. HIDE DEF s
<1>3. HandOK(w, [op |-> op, session |-> s, next |-> AfterClaim(s)])
  BY <1>1, <1>2 DEF HandOK, AfterClaim
<1>. QED
  BY <1>2, <1>3, DecideStep

(* What an owner was told is stored, by the same owner's only.              *)
LEMMA SessionStep == Serial = TRUE /\ SessionInv /\ [Next]_vars => SessionInv'
<1>. SUFFICES ASSUME Serial = TRUE, SessionInv, [Next]_vars PROVE SessionInv'
  OBVIOUS
<1>0. TypeOK /\ TypeOK'
  BY TypeStep DEF SessionInv
<1>1. 1 .. runtime \subseteq Instances
  BY <1>0, NumberAssumption DEF TypeOK, Instances
<1>2. ASSUME NEW w \in Works, NEW o \in Owners, NEW t \in Transports, NEW i \in 1 .. runtime,
             Claim(w, o, t, i) \/ Resume(w, o, t, i) \/ Recover(w, o, t, i)
      PROVE  SessionInv'
  <2>1. i \in Instances
    BY <1>1
  <2>. QED  BY <1>0, <1>2, <2>1, GrantStep DEF Claim, Resume, Recover
<1>3. ASSUME NEW q \in Requests, Rebind(q) PROVE SessionInv'
  <2>1. seen[q] \in Observation
    BY <1>0, <1>3 DEF Rebind, TypeOK
  <2>2. \A x \in Live(seen[q].work) : x.owner = seen[q].owner
    BY <1>3 DEF Rebind, SessionInv, OneEntry, Live, Entries
  <2>. QED  BY <1>0, <1>3, <2>1, <2>2, GrantStep DEF Rebind, Observation
<1>4. ASSUME NEW w \in Works, Release(w) PROVE SessionInv'
  <2>1. PICK s \in Live(w) : Decide(w, "release", s, sessions \ Entries(w))
    BY <1>4 DEF Release
  <2>2. HandOK(w, [op |-> "release", session |-> s, next |-> sessions \ Entries(w)])
    BY <2>1 DEF HandOK, Live, Entries
  <2>. QED  BY <1>0, <2>1, <2>2, DecideStep
<1>5. ASSUME NEW w \in Works, Terminalize(w) PROVE SessionInv'
  <2>1. PICK s : /\ Decide(w, "end", s, sessions)
                 /\ \A x \in Live(w) : x = s
    BY <1>5 DEF Terminalize, SessionInv, OneEntry, Live, Entries
  <2>2. HandOK(w, [op |-> "end", session |-> s, next |-> sessions])
    BY <2>1 DEF HandOK
  <2>. QED  BY <1>0, <2>1, <2>2, DecideStep
<1>6. ASSUME NEW w \in Works, WriteClaims(w) PROVE SessionInv'
  <2>. DEFINE h == hand[w]
  <2>1. /\ h # None /\ HandOK(w, h) /\ h.op \in {"claim", "take"}
        /\ \A v \in Works : v # w => hand'[v] = None
        /\ hand'[w] = [op |-> "told", session |-> h.session, next |-> h.next]
        /\ UNCHANGED now /\ OneHand'
    <3>1. Step(w, "claim", "told") \/ Step(w, "take", "told")
      BY <1>6 DEF WriteClaims
    <3>. QED  BY <3>1, OnlyHand
  <2>2. /\ sessions' = h.next /\ UNCHANGED <<retained, terminal>>
        /\ believed' = {x \in believed : x.work # w \/
                           (h.op = "claim" /\ x.owner # h.session.owner)}
    BY <1>6 DEF WriteClaims
  <2>. HIDE DEF h
  <2>3. HandInv'
    BY <2>1, <2>2 DEF HandInv, HandOK
  <2>4. OneEntry'
    BY <2>1, <2>2 DEF HandOK, OneEntry, SessionInv
  <2>5. ASSUME NEW s \in believed', s.exp > now
        PROVE  \E t \in sessions' : Epoch(t) = Epoch(s) /\ t.exp >= s.exp
    <3>1. s \in believed
      BY <2>2, <2>5
    <3>2. PICK t \in sessions : Epoch(t) = Epoch(s) /\ t.exp >= s.exp
      BY <2>5, <3>1 DEF SessionInv, BelievedInv
    <3>3. /\ t.exp \in Nat /\ s.exp \in Nat /\ now \in Nat
      BY <1>0, <3>1, <3>2 DEF TypeOK, Session
    <3>4. t.work = s.work /\ t.owner = s.owner /\ t.exp > now
      BY <2>5, <3>2, <3>3 DEF Epoch
    <3>5. s.work # w
      BY <2>1, <2>2, <2>5, <3>2, <3>4 DEF HandOK, Live, Entries
    <3>6. t \in sessions'
      BY <2>1, <2>2, <3>2, <3>4, <3>5 DEF HandOK
    <3>. QED  BY <3>2, <3>6
  <2>6. BelievedInv'
    <3>. HIDE DEF Epoch
    <3>1. now' = now
      BY <2>1
    <3>. QED  BY <2>5, <3>1 DEF BelievedInv, Epoch
  <2>. QED  BY <1>0, <2>1, <2>3, <2>4, <2>6 DEF SessionInv
<1>7. ASSUME NEW w \in Works, ClaimReturns(w) PROVE SessionInv'
  <2>1. /\ hand[w].session \in sessions
        /\ \A v \in Works : hand'[v] = None
        /\ UNCHANGED now /\ OneHand'
    <3>1. Step(w, "told", "idle")
      BY <1>7 DEF ClaimReturns
    <3>2. /\ hand[w].op = "told" /\ HandOK(w, hand[w])
          /\ \A v \in Works : v # w => hand'[v] = None
          /\ hand'[w] = None
          /\ UNCHANGED now /\ OneHand'
      BY <3>1, OnlyHand
    <3>3. hand[w].session \in sessions
      BY <3>2 DEF HandOK
    <3>. QED  BY <3>2, <3>3
  <2>2. UNCHANGED sessions /\ believed' = believed \union {hand[w].session}
    BY <1>7 DEF ClaimReturns
  <2>3. HandInv' /\ OneEntry'
    BY <2>1, <2>2 DEF HandInv, OneEntry, SessionInv
  <2>4. hand[w].session.exp \in Nat
    BY <1>0, <2>1 DEF TypeOK, Session
  <2>5. BelievedInv'
    BY <2>1, <2>2, <2>4 DEF BelievedInv, SessionInv, Epoch
  <2>. QED  BY <1>0, <2>1, <2>3, <2>5 DEF SessionInv
<1>8. ASSUME NEW w \in Works, RetainReleased(w) PROVE SessionInv'
  <2>. DEFINE h == hand[w]
  <2>1. /\ HandOK(w, h) /\ h.op = "release"
        /\ \A v \in Works : v # w => hand'[v] = None
        /\ hand'[w] = [op |-> "released", session |-> h.session, next |-> h.next]
        /\ UNCHANGED now /\ OneHand'
    <3>1. Step(w, "release", "released")
      BY <1>8 DEF RetainReleased
    <3>. QED  BY <3>1, OnlyHand
  <2>2. UNCHANGED <<sessions, terminal, believed>>
    BY <1>8 DEF RetainReleased
  <2>. HIDE DEF h
  <2>3. HandInv'
    BY <2>1, <2>2 DEF HandInv, HandOK, Live, Entries
  <2>4. OneEntry' /\ BelievedInv'
    BY <2>1, <2>2 DEF OneEntry, BelievedInv, SessionInv, Epoch
  <2>. QED  BY <1>0, <2>1, <2>3, <2>4 DEF SessionInv
<1>9. ASSUME NEW w \in Works, WriteReleased(w) PROVE SessionInv'
  <2>. DEFINE h == hand[w]
  <2>1. /\ h.session \in sessions /\ h.session.work = w
        /\ h.next = sessions \ Entries(w)
        /\ \A v \in Works : hand'[v] = None
        /\ UNCHANGED now /\ OneHand'
    <3>1. Step(w, "released", "idle")
      BY <1>9 DEF WriteReleased
    <3>2. /\ HandOK(w, h) /\ h.op = "released" /\ UNCHANGED now /\ OneHand'
          /\ \A v \in Works : hand'[v] = None
      BY <3>1, OnlyHand
    <3>. QED  BY <3>2 DEF HandOK
  <2>2. sessions' = h.next /\ believed' = {x \in believed : Epoch(x) # Epoch(h.session)}
    BY <1>9 DEF WriteReleased
  <2>. HIDE DEF h
  <2>3. HandInv' /\ OneEntry'
    BY <2>1, <2>2 DEF HandInv, OneEntry, SessionInv
  <2>4. ASSUME NEW s \in believed', s.exp > now
        PROVE  \E t \in sessions' : Epoch(t) = Epoch(s) /\ t.exp >= s.exp
    <3>1. s \in believed /\ Epoch(s) # Epoch(h.session)
      BY <2>2, <2>4
    <3>2. PICK t \in sessions : Epoch(t) = Epoch(s) /\ t.exp >= s.exp
      BY <2>4, <3>1 DEF SessionInv, BelievedInv
    <3>3. t.work # w
      BY <2>1, <3>1, <3>2 DEF SessionInv, OneEntry
    <3>4. t \in sessions'
      BY <2>1, <2>2, <3>2, <3>3 DEF Entries
    <3>. QED  BY <3>2, <3>4
  <2>5. BelievedInv'
    <3>1. now' = now
      BY <2>1
    <3>. QED  BY <2>4, <3>1 DEF BelievedInv, Epoch
  <2>. QED  BY <1>0, <2>1, <2>3, <2>5 DEF SessionInv
<1>10. ASSUME NEW w \in Works, WriteTerminal(w) PROVE SessionInv'
  <2>1. /\ \A v \in Works : hand'[v] = None
        /\ UNCHANGED now /\ OneHand'
    <3>1. Step(w, "end", "idle")
      BY <1>10 DEF WriteTerminal
    <3>. QED  BY <3>1, OnlyHand
  <2>2. UNCHANGED <<sessions, believed>>
    BY <1>10 DEF WriteTerminal
  <2>3. HandInv' /\ OneEntry' /\ BelievedInv'
    BY <2>1, <2>2 DEF HandInv, OneEntry, BelievedInv, SessionInv, Epoch
  <2>. QED  BY <1>0, <2>1, <2>3 DEF SessionInv
<1>11. ASSUME NEW w \in Works, Crash(w) PROVE SessionInv'
  <2>1. /\ hand' = [hand EXCEPT ![w] = None]
        /\ UNCHANGED <<sessions, terminal, believed, now>>
    BY <1>11 DEF Crash
  <2>2. \A v \in Works : hand'[v] # None => hand'[v] = hand[v]
    BY <1>0, <2>1 DEF TypeOK
  <2>3. OneHand' /\ HandInv'
    BY <2>1, <2>2 DEF OneHand, HandInv, HandOK, Live, Entries, SessionInv
  <2>4. OneEntry' /\ BelievedInv'
    BY <2>1 DEF OneEntry, BelievedInv, SessionInv, Epoch
  <2>. QED  BY <1>0, <2>3, <2>4 DEF SessionInv
<1>12. ASSUME Tick PROVE SessionInv'
  <2>1. /\ now \in Nat /\ now' = now + 1
        /\ UNCHANGED <<sessions, terminal, believed, hand>>
    BY <1>0, <1>12 DEF Tick, TypeOK
  <2>2. \A s \in sessions \union believed : s.exp \in Nat
    BY <1>0 DEF TypeOK, Session
  <2>3. \A w \in Works, s \in sessions :
          /\ s.exp > now' => s.exp > now
          /\ s \in Live(w)' => s \in Live(w)
    BY <2>1, <2>2 DEF Live, Entries
  <2>4. ASSUME NEW w \in Works, hand[w] # None PROVE HandOK(w, hand[w])'
    <3>1. HandOK(w, hand[w])
      BY <2>4 DEF SessionInv, HandInv
    <3>2. Live(w)' \subseteq Live(w) /\ Entries(w)' = Entries(w)
      BY <2>1, <2>3 DEF Live, Entries
    <3>. QED  BY <2>1, <2>3, <3>1, <3>2 DEF HandOK
  <2>5. OneHand' /\ HandInv' /\ OneEntry'
    BY <2>1, <2>4 DEF OneHand, HandInv, OneEntry, SessionInv
  <2>6. BelievedInv'
    BY <2>1, <2>2 DEF BelievedInv, SessionInv, Epoch
  <2>. QED  BY <1>0, <2>5, <2>6 DEF SessionInv
<1>13. ASSUME UNCHANGED <<stores, hand, now>> PROVE SessionInv'
  BY <1>0, <1>13
     DEF SessionInv, OneHand, OneEntry, HandInv, HandOK, BelievedInv, Live, Entries, Epoch
<1>14. ASSUME NEW q \in Requests,
              \/ RebindRefused(q)
              \/ \E w \in Works, o \in Owners, t \in Transports, i \in 1 .. runtime :
                    Observe(q, w, o, t, i)
       PROVE  UNCHANGED <<stores, hand, now>>
  BY <1>14 DEF RebindRefused, Observe
<1>15. RuntimeRestarts \/ UNCHANGED vars => UNCHANGED <<stores, hand, now>>
  BY DEF RuntimeRestarts, vars
<1>. QED
  BY <1>2, <1>3, <1>4, <1>5, <1>6, <1>7, <1>8, <1>9, <1>10, <1>11, <1>12, <1>13, <1>14,
     <1>15 DEF Next

(* While one process at a time works on the record of claims, SessionInv    *)
(* holds, for any Works, owners, transports, instances and lease time.      *)
THEOREM SessionInvariant == ASSUME Serial = TRUE PROVE Spec => []SessionInv
<1>1. Init => SessionInv
  BY NumberAssumption
     DEF Init, SessionInv, TypeOK, Instances, OneHand, OneEntry, HandInv, BelievedInv
<1>2. SessionInv /\ [Next]_vars => SessionInv'
  BY SessionStep
<1>. QED
  BY <1>1, <1>2, PTL DEF Spec

(* Of the owners that were told they hold a Work, and whose claim has not   *)
(* expired, been released or been taken by a recovery, there is one.        *)
THEOREM ClaimsExclude == ASSUME Serial = TRUE PROVE Spec => []OneController
<1>1. SessionInv => OneController
  <2>. SUFFICES ASSUME SessionInv, NEW s \in believed, NEW t \in believed,
                       s.work = t.work, s.exp > now, t.exp > now
                PROVE  s.owner = t.owner
    BY DEF OneController
  <2>1. PICK x \in sessions : Epoch(x) = Epoch(s)
    BY DEF SessionInv, BelievedInv
  <2>2. PICK y \in sessions : Epoch(y) = Epoch(t)
    BY DEF SessionInv, BelievedInv
  <2>. QED  BY <2>1, <2>2 DEF SessionInv, OneEntry, Epoch
<1>. QED
  BY <1>1, SessionInvariant, PTL

(* Its authority is the one the store compares with.                        *)
THEOREM AuthorityIsStored == ASSUME Serial = TRUE PROVE Spec => []AuthorityCounts
<1>1. SessionInv => AuthorityCounts
  <2>. SUFFICES ASSUME SessionInv, NEW s \in believed, s.exp > now
                PROVE  \E t \in Live(s.work) : Epoch(t) = Epoch(s)
    BY DEF AuthorityCounts
  <2>1. PICK t \in sessions : Epoch(t) = Epoch(s) /\ t.exp >= s.exp
    BY DEF SessionInv, BelievedInv
  <2>2. t.exp \in Nat /\ s.exp \in Nat /\ now \in Nat
    BY <2>1 DEF SessionInv, TypeOK, Session
  <2>. QED  BY <2>1, <2>2 DEF Live, Entries, Epoch
<1>. QED
  BY <1>1, SessionInvariant, PTL

(* What ends and what is believed changes in four actions only.             *)
LEMMA Untouched ==
    ASSUME Next
    PROVE  \/ UNCHANGED <<terminal, believed>>
           \/ \E v \in Works : \/ WriteClaims(v) \/ ClaimReturns(v)
                             \/ WriteReleased(v) \/ WriteTerminal(v)
<1>1. ASSUME NEW w \in Works, NEW o \in Owners, NEW t \in Transports, NEW i \in 1 .. runtime,
             \/ Claim(w, o, t, i) \/ Resume(w, o, t, i) \/ Recover(w, o, t, i)
             \/ \E q \in Requests : Observe(q, w, o, t, i)
      PROVE  UNCHANGED <<terminal, believed>>
  BY <1>1 DEF Claim, Resume, Recover, Observe, Grant, Decide
<1>2. ASSUME NEW q \in Requests, Rebind(q) \/ RebindRefused(q)
      PROVE  UNCHANGED <<terminal, believed>>
  BY <1>2 DEF Rebind, RebindRefused, Grant, Decide
<1>3. ASSUME NEW w \in Works, Release(w) \/ Terminalize(w) \/ RetainReleased(w) \/ Crash(w)
      PROVE  UNCHANGED <<terminal, believed>>
  BY <1>3 DEF Release, Terminalize, Decide, RetainReleased, Crash
<1>4. RuntimeRestarts \/ Tick => UNCHANGED <<terminal, believed>>
  BY DEF RuntimeRestarts, Tick
<1>. QED
  BY <1>1, <1>2, <1>3, <1>4 DEF Next

(* A Work becomes terminal under no owner but the one whose authority was   *)
(* presented, and no claim on a terminal Work is ever granted.              *)
THEOREM TerminalizationFenced == ASSUME Serial = TRUE PROVE Spec => TerminalExcludesClaims
<1>1. ASSUME SessionInv, Next, NEW w \in Works, w \in terminal', w \notin terminal,
             NEW s \in believed, s.work = w, s.exp > now
      PROVE  hand[w].session # None /\ s.owner = hand[w].session.owner
  <2>1. WriteTerminal(w)
    <3>1. \A v \in Works : WriteClaims(v) \/ ClaimReturns(v) \/ WriteReleased(v)
                             => UNCHANGED terminal
      BY DEF WriteClaims, ClaimReturns, WriteReleased
    <3>2. \A v \in Works : WriteTerminal(v) => terminal' = terminal \union {v}
      BY DEF WriteTerminal
    <3>. QED  BY <1>1, <3>1, <3>2, Untouched
  <2>2. HandOK(w, hand[w]) /\ hand[w].op = "end"
    BY <1>1, <2>1, OnlyHand DEF WriteTerminal
  <2>3. PICK t \in Live(w) : Epoch(t) = Epoch(s)
    <3>1. PICK t \in sessions : Epoch(t) = Epoch(s) /\ t.exp >= s.exp
      BY <1>1 DEF SessionInv, BelievedInv
    <3>2. t.exp \in Nat /\ s.exp \in Nat /\ now \in Nat
      BY <1>1, <3>1 DEF SessionInv, TypeOK, Session
    <3>. QED  BY <1>1, <3>1, <3>2 DEF Live, Entries, Epoch
  <2>4. t = hand[w].session /\ t \in Session
    BY <1>1, <2>2, <2>3 DEF HandOK, Live, Entries, SessionInv, TypeOK
  <2>. QED  BY <2>3, <2>4, NoneAssumption DEF Epoch
<1>2. ASSUME SessionInv, Next, NEW w \in Works, w \in terminal,
             NEW s \in believed', s.work = w
      PROVE  s \in believed
  <2>1. CASE \E v \in Works : ClaimReturns(v)
    <3>1. PICK v \in Works : ClaimReturns(v)
      BY <2>1
    <3>2. HandOK(v, hand[v]) /\ hand[v].op = "told"
      BY <1>2, <3>1, OnlyHand DEF ClaimReturns
    <3>3. hand[v].session.work = v /\ v \notin terminal
      BY <3>2 DEF HandOK
    <3>. QED  BY <1>2, <3>1, <3>3 DEF ClaimReturns
  <2>2. CASE ~\E v \in Works : ClaimReturns(v)
    <3>1. \A v \in Works : WriteClaims(v) \/ WriteReleased(v) \/ WriteTerminal(v)
                             => believed' \subseteq believed
      BY DEF WriteClaims, WriteReleased, WriteTerminal
    <3>. QED  BY <1>2, <2>2, <3>1, Untouched
  <2>. QED  BY <2>1, <2>2
<1>3. SessionInv /\ [Next]_vars =>
        [\A w \in Works :
          /\ w \in terminal' \ terminal =>
                \A s \in believed : s.work = w /\ s.exp > now =>
                    hand[w].session # None /\ s.owner = hand[w].session.owner
          /\ w \in terminal => {s \in believed' : s.work = w} \subseteq believed]_vars
  BY <1>1, <1>2
<1>. QED
  BY <1>3, SessionInvariant, PTL DEF Spec, TerminalExcludesClaims

-----------------------------------------------------------------------------
(* The record of claims as a register: which pairs are in time.             *)
LEMMA InTimeIs ==
    ASSUME NEW S, NEW w, NEW o
    PROVE  <<w, o>> \in InTime(S) <=> \E x \in S : x.exp > now /\ x.work = w /\ x.owner = o
BY DEF InTime

KnownOwned == InTime(believed) \subseteq InTime(sessions)

LEMMA KnownIsOwned == SessionInv => KnownOwned
<1>. SUFFICES ASSUME SessionInv, NEW s \in believed, s.exp > now
              PROVE  \E t \in sessions : t.exp > now /\ t.work = s.work /\ t.owner = s.owner
  BY DEF KnownOwned, InTime
<1>1. PICK t \in sessions : Epoch(t) = Epoch(s) /\ t.exp >= s.exp
  BY DEF SessionInv, BelievedInv
<1>2. t.exp \in Nat /\ s.exp \in Nat /\ now \in Nat
  BY <1>1 DEF SessionInv, TypeOK, Session
<1>. QED  BY <1>1, <1>2 DEF Epoch

(* What no longer is stored was no longer believed either.                  *)
LEMMA LosesClaims ==
    ASSUME SessionInv', UNCHANGED terminal,
           InTime(sessions)' \subseteq InTime(sessions),
           InTime(believed)' \subseteq InTime(believed)
    PROVE  Register!Lose
<1>1. KnownOwned'
  BY KnownIsOwned, PTL
<1>. QED  BY <1>1 DEF KnownOwned, Register!Lose

(* The write of a claim or of a recovery, which keeps what others have.     *)
LEMMA WriteRegisters ==
    ASSUME SessionInv, SessionInv', NEW w \in Works, WriteClaims(w)
    PROVE  Register!Next
<1>. DEFINE h == hand[w]
            s == h.session
            o == s.owner
<1>1. /\ h # None /\ h.op \in {"claim", "take"} /\ HandOK(w, h) /\ UNCHANGED now
  <2>1. Step(w, "claim", "told") \/ Step(w, "take", "told")
    BY DEF WriteClaims
  <2>. QED  BY <2>1, OnlyHand
<1>2. /\ sessions' = h.next /\ UNCHANGED terminal
      /\ believed' = {x \in believed : x.work # w \/ (h.op = "claim" /\ x.owner # o)}
  BY DEF WriteClaims
<1>3. h \in Change /\ s \in Session
  BY <1>1 DEF SessionInv, TypeOK, Change
<1>. HIDE DEF h
<1>4. /\ s \in h.next /\ s.work = w /\ o \in Owners /\ w \notin terminal
      /\ \A x \in sessions : x.work # w /\ x.exp > now => x \in h.next
      /\ \A x \in h.next : x = s \/ (x \in sessions /\ x.work # w)
      /\ h.op = "claim" => \A x \in Live(w) : x.owner = o
  BY <1>1, <1>3 DEF HandOK, Session
<1>. HIDE DEF s
<1>5. ASSUME NEW v, NEW p
      PROVE  /\ <<v, p>> \in InTime(sessions)' <=>
                    \/ v = w /\ p = o /\ s.exp > now
                    \/ v # w /\ <<v, p>> \in InTime(sessions)
             /\ <<v, p>> \in InTime(believed)' <=>
                    /\ <<v, p>> \in InTime(believed)
                    /\ v # w \/ (h.op = "claim" /\ p # o)
  BY <1>1, <1>2, <1>4 DEF InTime
<1>6. h.op = "claim" => \A p : <<w, p>> \in InTime(sessions) => p = o
  BY <1>4 DEF InTime, Live, Entries
<1>7. \A x \in InTime(sessions) \union InTime(believed) \union InTime(sessions)'
                \union InTime(believed)' : x = <<x[1], x[2]>>
  BY DEF InTime
<1>8. CASE s.exp > now /\ h.op = "claim"
  <2>1. Register!Of(w, InTime(sessions)) \subseteq {<<w, o>>}
    BY <1>6, <1>7, <1>8 DEF Register!Of
  <2>2. InTime(sessions)' = InTime(sessions) \union {<<w, o>>}
    BY <1>5, <1>6, <1>7, <1>8
  <2>3. InTime(believed)' = InTime(believed) \ {<<w, o>>}
    BY <1>5, <1>7, <1>8
  <2>. QED  BY <1>2, <1>4, <2>1, <2>2, <2>3 DEF Register!Take, Register!Next
<1>9. CASE s.exp > now /\ h.op = "take"
  <2>1. /\ InTime(sessions)' = (InTime(sessions) \ Register!Of(w, InTime(sessions))) \union {<<w, o>>}
    BY <1>5, <1>7, <1>9 DEF Register!Of
  <2>2. InTime(believed)' = InTime(believed) \ Register!Of(w, InTime(believed))
    BY <1>5, <1>7, <1>9 DEF Register!Of
  <2>. QED  BY <1>2, <1>4, <2>1, <2>2 DEF Register!TakeAway, Register!Next
<1>10. CASE ~(s.exp > now)
  <2>1. /\ InTime(sessions)' \subseteq InTime(sessions)
        /\ InTime(believed)' \subseteq InTime(believed)
    BY <1>5, <1>7, <1>10
  <2>. QED  BY <1>2, <2>1, LosesClaims DEF Register!Next
<1>. QED  BY <1>1, <1>8, <1>9, <1>10

(* Its caller is told, unless it has expired by then.                       *)
LEMMA ReturnTells ==
    ASSUME SessionInv, NEW w \in Works, ClaimReturns(w)
    PROVE  [Register!Next]_(Register!vars)
<1>. DEFINE s == hand[w].session
<1>1. s \in sessions /\ s.work = w /\ w \notin terminal /\ UNCHANGED now
  <2>1. Step(w, "told", "idle")
    BY DEF ClaimReturns
  <2>2. hand[w].op = "told" /\ HandOK(w, hand[w]) /\ UNCHANGED now
    BY <2>1, OnlyHand
  <2>. QED  BY <2>2 DEF HandOK
<1>2. UNCHANGED <<sessions, terminal>> /\ believed' = believed \union {s}
  BY DEF ClaimReturns
<1>3. s.owner \in Owners
  BY <1>1 DEF SessionInv, TypeOK, Session
<1>. HIDE DEF s
<1>4. InTime(sessions)' = InTime(sessions)
  BY <1>1, <1>2 DEF InTime
<1>5. CASE s.exp > now
  <2>1. <<w, s.owner>> \in InTime(sessions)
    BY <1>1, <1>5, InTimeIs
  <2>2. InTime(believed)' = InTime(believed) \union {<<w, s.owner>>}
    BY <1>1, <1>2, <1>5 DEF InTime
  <2>. QED  BY <1>1, <1>2, <1>3, <1>4, <2>1, <2>2 DEF Register!Tell, Register!Next
<1>6. CASE ~(s.exp > now)
  <2>1. InTime(believed)' = InTime(believed)
    BY <1>1, <1>2, <1>6 DEF InTime
  <2>. QED  BY <1>2, <1>4, <2>1 DEF Register!vars
<1>. QED  BY <1>5, <1>6

LEMMA RegisterStep ==
    ASSUME Serial = TRUE, SessionInv, [Next]_vars
    PROVE  [Register!Next]_(Register!vars)
<1>0. SessionInv'
  BY SessionStep
<1>1. ASSUME UNCHANGED <<sessions, believed, terminal, now>>
      PROVE  [Register!Next]_(Register!vars)
  BY <1>1 DEF Register!vars, InTime
<1>2. ASSUME NEW w \in Works, WriteReleased(w) PROVE Register!Lose
  <2>1. UNCHANGED now /\ HandOK(w, hand[w]) /\ hand[w].op = "released"
    <3>1. Step(w, "released", "idle")
      BY <1>2 DEF WriteReleased
    <3>. QED  BY <3>1, OnlyHand
  <2>2. /\ sessions' = sessions \ Entries(w) /\ UNCHANGED terminal
        /\ believed' \subseteq believed
    BY <1>2, <2>1 DEF WriteReleased, HandOK
  <2>3. /\ InTime(sessions)' \subseteq InTime(sessions)
        /\ InTime(believed)' \subseteq InTime(believed)
    BY <2>1, <2>2 DEF InTime
  <2>. QED  BY <1>0, <2>2, <2>3, LosesClaims
<1>3. ASSUME NEW w \in Works, WriteTerminal(w) PROVE Register!End(w)
  <2>1. UNCHANGED <<sessions, believed, now>> /\ terminal' = terminal \union {w}
    BY <1>3 DEF WriteTerminal, Step
  <2>. QED  BY <2>1 DEF Register!End, InTime
<1>4. ASSUME Tick PROVE Register!Lose
  <2>1. /\ UNCHANGED <<sessions, believed, terminal>> /\ now' = now + 1 /\ now \in Nat
        /\ \A x \in sessions \union believed : x.exp \in Nat
    BY <1>4 DEF Tick, SessionInv, TypeOK, Session
  <2>2. /\ InTime(sessions)' \subseteq InTime(sessions)
        /\ InTime(believed)' \subseteq InTime(believed)
    BY <2>1 DEF InTime
  <2>. QED  BY <1>0, <2>1, <2>2, LosesClaims
<1>5. ASSUME NEW w \in Works, NEW o \in Owners, NEW t \in Transports, NEW i \in 1 .. runtime,
             \/ Claim(w, o, t, i) \/ Resume(w, o, t, i) \/ Recover(w, o, t, i)
             \/ \E q \in Requests : Observe(q, w, o, t, i)
      PROVE  UNCHANGED <<sessions, believed, terminal, now>>
  BY <1>5 DEF Claim, Resume, Recover, Observe, Grant, Decide
<1>6. ASSUME NEW q \in Requests, Rebind(q) \/ RebindRefused(q)
      PROVE  UNCHANGED <<sessions, believed, terminal, now>>
  BY <1>6 DEF Rebind, RebindRefused, Grant, Decide
<1>7. ASSUME NEW w \in Works, Release(w) \/ Terminalize(w) \/ RetainReleased(w) \/ Crash(w)
      PROVE  UNCHANGED <<sessions, believed, terminal, now>>
  BY <1>7 DEF Release, Terminalize, Decide, RetainReleased, Step, Crash
<1>8. RuntimeRestarts \/ UNCHANGED vars => UNCHANGED <<sessions, believed, terminal, now>>
  BY DEF RuntimeRestarts, vars
<1>9. Register!Lose \/ (\E w \in Works : Register!End(w)) => Register!Next
  BY DEF Register!Next
<1>. QED
  BY <1>0, <1>1, <1>2, <1>3, <1>4, <1>5, <1>6, <1>7, <1>8, <1>9, WriteRegisters, ReturnTells
     DEF Next

(* The record of claims implements the register: whatever else a write      *)
(* carries along, it takes, takes away, tells, loses or ends one Work, or   *)
(* changes nothing, for any Works, owners, transports and lease time.       *)
THEOREM RecordKeepsRegister == ASSUME Serial = TRUE PROVE Spec => KeepsRegister
<1>1. Init => Register!Init
  BY DEF Init, Register!Init, InTime
<1>2. SessionInv /\ [Next]_vars => [Register!Next]_(Register!vars)
  BY RegisterStep
<1>. QED
  BY <1>1, <1>2, SessionInvariant, PTL DEF Spec, KeepsRegister, Register!Spec

-----------------------------------------------------------------------------
(* The generation of a Work, for as long as the Work has an entry.          *)
Follows(s, t) == Epoch(t) = Epoch(s) \/ t.gen > s.gen
HandFollows ==
    \A w \in Works : hand[w] # None /\ hand[w].op \in {"claim", "take"} =>
        \A s \in Entries(w) : Follows(s, hand[w].session)

LEMMA GrantFollows ==
    ASSUME SessionInv, NEW w \in Works, NEW o, NEW t, NEW i, NEW s \in Entries(w)
    PROVE  Follows(s, ClaimedSession(w, o, t, i))
<1>1. s.work = w /\ s.gen \in Nat /\ \A e \in Entries(w) : e = s
  BY DEF Entries, SessionInv, OneEntry, TypeOK, Session
<1>2. Generation(w, o, i) = IF s.owner = o /\ s.inst = i THEN s.gen ELSE s.gen + 1
  <2>1. (CHOOSE e \in Entries(w) : TRUE) = s
    BY <1>1
  <2>. QED  BY <2>1 DEF Generation
<1>3. ClaimedSession(w, o, t, i).gen = Generation(w, o, i)
      /\ Epoch(ClaimedSession(w, o, t, i)) = <<w, o, i, Generation(w, o, i)>>
  BY DEF ClaimedSession, Epoch
<1>4. CASE s.owner = o /\ s.inst = i
  BY <1>1, <1>2, <1>3, <1>4 DEF Follows, Epoch
<1>5. CASE ~(s.owner = o /\ s.inst = i)
  BY <1>1, <1>2, <1>3, <1>5 DEF Follows
<1>. QED  BY <1>4, <1>5

LEMMA HandFollowsStep ==
    ASSUME Serial = TRUE, SessionInv, HandFollows, [Next]_vars
    PROVE  HandFollows'
<1>. SUFFICES ASSUME NEW v \in Works, hand'[v] # None, hand'[v].op \in {"claim", "take"},
                     NEW s \in Entries(v)'
              PROVE  Follows(s, hand'[v].session)
  BY DEF HandFollows, Follows, Epoch
<1>1. ASSUME hand'[v] = hand[v], UNCHANGED sessions PROVE Follows(s, hand'[v].session)
  BY <1>1 DEF HandFollows, Entries
<1>2. ASSUME NEW w \in Works, NEW o, NEW t, NEW i, NEW op, Grant(w, o, t, i, op)
      PROVE  Follows(s, hand'[v].session)
  <2>1. /\ hand' = [hand EXCEPT ![w] = [op |-> op, session |-> ClaimedSession(w, o, t, i),
                                        next |-> AfterClaim(ClaimedSession(w, o, t, i))]]
        /\ UNCHANGED sessions
    BY <1>2 DEF Grant, Decide
  <2>2. CASE v = w
    <3>1. hand'[v].session = ClaimedSession(w, o, t, i)
      BY <2>1, <2>2 DEF SessionInv, TypeOK
    <3>2. s \in Entries(w)
      BY <2>1, <2>2 DEF Entries
    <3>. QED  BY <3>1, <3>2, GrantFollows
  <2>3. CASE v # w
    <3>1. hand'[v] = hand[v]
      BY <2>1, <2>3 DEF SessionInv, TypeOK
    <3>. QED  BY <1>1, <2>1, <3>1
  <2>. QED  BY <2>2, <2>3
<1>3. ASSUME NEW w \in Works, NEW o \in Owners, NEW t \in Transports, NEW i \in 1 .. runtime,
             Claim(w, o, t, i) \/ Resume(w, o, t, i) \/ Recover(w, o, t, i)
      PROVE  Follows(s, hand'[v].session)
  BY <1>2, <1>3 DEF Claim, Resume, Recover
<1>4. ASSUME NEW q \in Requests, Rebind(q) PROVE Follows(s, hand'[v].session)
  <2>1. seen[q].work \in Works
    BY <1>4 DEF Rebind, SessionInv, TypeOK, Observation
  <2>. QED  BY <1>2, <1>4, <2>1 DEF Rebind
<1>5. ASSUME NEW w \in Works, Release(w) \/ Terminalize(w) PROVE Follows(s, hand'[v].session)
  <2>1. ASSUME NEW op, NEW x, NEW next, Decide(w, op, x, next), op \notin {"claim", "take"}
        PROVE  Follows(s, hand'[v].session)
    <3>. DEFINE h == [op |-> op, session |-> x, next |-> next]
    <3>1. hand' = [hand EXCEPT ![w] = h] /\ UNCHANGED sessions
      BY <2>1 DEF Decide
    <3>2. h.op = op
      OBVIOUS
    <3>. HIDE DEF h
    <3>3. hand'[w] = h /\ (v # w => hand'[v] = hand[v])
      BY <3>1 DEF SessionInv, TypeOK
    <3>4. v # w
      BY <2>1, <3>2, <3>3
    <3>. QED  BY <1>1, <3>1, <3>3, <3>4
  <2>. QED  BY <1>5, <2>1 DEF Release, Terminalize
<1>6. ASSUME NEW w \in Works,
             \/ WriteClaims(w) \/ ClaimReturns(w)
             \/ RetainReleased(w) \/ WriteReleased(w) \/ WriteTerminal(w)
      PROVE  FALSE
  <2>1. ASSUME NEW from, NEW to \in {"told", "idle", "released"}, Step(w, from, to)
        PROVE  FALSE
    <3>1. /\ \A x \in Works : x # w => hand'[x] = None
          /\ to = "idle" => hand'[w] = None
          /\ to # "idle" => hand'[w] = [op |-> to, session |-> hand[w].session,
                                       next |-> hand[w].next]
      BY <2>1, OnlyHand
    <3>2. v = w /\ to # "idle"
      BY <3>1
    <3>. QED  BY <3>1, <3>2
  <2>. QED
    BY <1>6, <2>1 DEF WriteClaims, ClaimReturns, RetainReleased, WriteReleased, WriteTerminal
<1>7. ASSUME NEW w \in Works, Crash(w) PROVE Follows(s, hand'[v].session)
  <2>1. hand' = [hand EXCEPT ![w] = None] /\ UNCHANGED sessions
    BY <1>7 DEF Crash
  <2>2. hand'[v] = hand[v]
    BY <2>1 DEF SessionInv, TypeOK
  <2>. QED  BY <1>1, <2>1, <2>2
<1>8. ASSUME \/ RuntimeRestarts \/ Tick \/ UNCHANGED vars
             \/ \E q \in Requests :
                  \/ RebindRefused(q)
                  \/ \E w \in Works, o \in Owners, t \in Transports, i \in 1 .. runtime :
                        Observe(q, w, o, t, i)
      PROVE  Follows(s, hand'[v].session)
  BY <1>1, <1>8 DEF RuntimeRestarts, Tick, vars, RebindRefused, Observe
<1>. QED
  BY <1>3, <1>4, <1>5, <1>6, <1>7, <1>8 DEF Next

(* Only a claim, a resumption or a recovery adds to the record.             *)
LEMMA NewEntry ==
    ASSUME SessionInv, [Next]_vars, NEW t \in sessions', t \notin sessions
    PROVE  \E w \in Works : WriteClaims(w)
<1>1. ASSUME NEW w \in Works, WriteReleased(w) PROVE FALSE
  <2>1. HandOK(w, hand[w]) /\ hand[w].op = "released"
    <3>1. Step(w, "released", "idle")
      BY <1>1 DEF WriteReleased
    <3>. QED  BY <3>1, OnlyHand
  <2>2. sessions' \subseteq sessions
    BY <1>1, <2>1 DEF WriteReleased, HandOK
  <2>. QED  BY <2>2
<1>2. ASSUME NEW w \in Works, NEW o \in Owners, NEW t1 \in Transports, NEW i \in 1 .. runtime,
             \/ Claim(w, o, t1, i) \/ Resume(w, o, t1, i) \/ Recover(w, o, t1, i)
             \/ \E q \in Requests : Observe(q, w, o, t1, i)
      PROVE  UNCHANGED sessions
  BY <1>2 DEF Claim, Resume, Recover, Observe, Grant, Decide
<1>3. ASSUME NEW q \in Requests, Rebind(q) \/ RebindRefused(q) PROVE UNCHANGED sessions
  BY <1>3 DEF Rebind, RebindRefused, Grant, Decide
<1>4. ASSUME NEW w \in Works,
             \/ Release(w) \/ Terminalize(w) \/ RetainReleased(w) \/ Crash(w)
             \/ ClaimReturns(w) \/ WriteTerminal(w)
      PROVE  UNCHANGED sessions
  BY <1>4 DEF Release, Terminalize, Decide, RetainReleased, Crash, ClaimReturns, WriteTerminal
<1>5. RuntimeRestarts \/ Tick \/ UNCHANGED vars => UNCHANGED sessions
  BY DEF RuntimeRestarts, Tick, vars
<1>. QED
  BY <1>1, <1>2, <1>3, <1>4, <1>5 DEF Next

(* "It changes only when ownership moves": as long as a Work has an entry,  *)
(* the next one has the same epoch or a higher generation, renewal,         *)
(* resumption, recovery and rebinding alike (claimedSession).               *)
THEOREM GenerationFollows ==
    ASSUME Serial = TRUE
    PROVE  Spec => [][\A s \in sessions, t \in sessions' :
                        s.work = t.work => Epoch(t) = Epoch(s) \/ t.gen > s.gen]_vars
<1>1. ASSUME SessionInv, HandFollows, [Next]_vars,
             NEW s \in sessions, NEW t \in sessions', s.work = t.work
      PROVE  Epoch(t) = Epoch(s) \/ t.gen > s.gen
  <2>1. t \in sessions => s = t
    BY <1>1 DEF SessionInv, OneEntry
  <2>2. CASE t \notin sessions
    <3>1. PICK w \in Works : WriteClaims(w)
      BY <1>1, <2>2, NewEntry
    <3>2. /\ hand[w] # None /\ hand[w].op \in {"claim", "take"} /\ HandOK(w, hand[w])
      <4>1. Step(w, "claim", "told") \/ Step(w, "take", "told")
        BY <3>1 DEF WriteClaims
      <4>. QED  BY <1>1, <4>1, OnlyHand
    <3>3. t = hand[w].session
      BY <1>1, <2>2, <3>1, <3>2 DEF WriteClaims, HandOK
    <3>4. s \in Entries(w)
      <4>1. hand[w].session.work = w
        BY <3>2 DEF HandOK
      <4>. QED  BY <1>1, <3>3, <4>1 DEF Entries
    <3>. QED  BY <1>1, <3>2, <3>3, <3>4 DEF HandFollows, Follows
  <2>. QED  BY <2>1, <2>2
<1>2. Init => HandFollows
  BY DEF Init, HandFollows
<1>3. SessionInv /\ HandFollows /\ [Next]_vars => HandFollows'
  BY HandFollowsStep
<1>4. SessionInv /\ HandFollows /\ [Next]_vars =>
        [\A s \in sessions, t \in sessions' :
           s.work = t.work => Epoch(t) = Epoch(s) \/ t.gen > s.gen]_vars
  BY <1>1
<1>. QED  BY <1>2, <1>3, <1>4, SessionInvariant, PTL DEF Spec
=============================================================================
