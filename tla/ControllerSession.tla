-------------------------- MODULE ControllerSession --------------------------
(***************************************************************************)
(* Which controller owns which Work                                        *)
(* (packages/kernel/controller/infrastructure/controller-session-store.ts).*)
(*                                                                         *)
(* The claims on all Works of a repository are one record of the control-  *)
(* plane store, read, changed and written back whole under a lock of the   *)
(* Work concerned: hand[w] is what the holder of the lock of w has decided *)
(* and has still to write.  The lock itself is ControllerLock with Ttl 0.  *)
(* A second record per Work, the retained identity, outlives the claim.    *)
(* An owner stands for controller id, controller type and principal.       *)
(***************************************************************************)
EXTENDS Naturals, FiniteSets

CONSTANTS
    Works,
    Owners,
    Transports,    \* MCP transport sessions
    Requests,      \* requests of bindControllerSessionToCurrentRuntime in flight
    LeaseTime,
    MaxRuntime,    \* bound on runtime instances, numbered from 1
    MaxTime,       \* bound on the clock
    MaxClaims,     \* bound on claims persisted
    Serial,        \* TRUE: one process serves the repository, so that nobody
                   \* reads the claims between the read and the write of another
    None

ASSUME NumberAssumption == /\ {LeaseTime, MaxTime, MaxClaims} \subseteq Nat
                           /\ MaxRuntime \in Nat \ {0}
ASSUME SerialAssumption == Serial \in BOOLEAN

VARIABLES
    sessions,   \* the record of claims
    retained,   \* the identity retained for each Work
    terminal,   \* the Works that are completed, failed or cancelled
    hand,       \* what the holder of the lock of each Work is about to write
    seen,       \* what each bind request has observed before taking the lock
    runtime,    \* the live runtime instance
    now,
    claimed,    \* claims persisted so far
    believed    \* the claims that callers were told they hold

vars == <<sessions, retained, terminal, hand, seen, runtime, now, claimed, believed>>
stores == <<sessions, retained, terminal, believed>>

Instances == 1 .. MaxRuntime
Session == [work : Works, owner : Owners, sid : Transports, inst : Instances,
            gen : Nat \ {0}, exp : Nat]
Identity == [session : Session, released : BOOLEAN]
Change == {h \in [op : {"claim", "take", "told", "release", "released", "end"},
                  session : Session \union {None}, next : SUBSET Session] :
             h.op # "end" => h.session # None}
Observation == [work : Works, owner : Owners, sid : Transports, inst : Instances,
                gen : Nat \ {0}, was : Instances]

ASSUME NoneAssumption == None \notin Session \union Change \union Observation

Init ==
    /\ sessions = {}
    /\ retained = [w \in Works |-> None]
    /\ terminal = {}
    /\ hand = [w \in Works |-> None]
    /\ seen = [q \in Requests |-> None]
    /\ runtime = 1
    /\ now = 0
    /\ claimed = 0
    /\ believed = {}

-----------------------------------------------------------------------------
Entries(w) == {s \in sessions : s.work = w}
Live(w) == {s \in Entries(w) : s.exp > now}
Epoch(s) == <<s.work, s.owner, s.inst, s.gen>>

(* The same owner keeps the generation, any other gets the next one; there  *)
(* is nothing to count from once the entry of the Work is gone.             *)
(* Mutant: a first claim has generation 0.                                  *)
MutGeneration(w, o, i) ==
    IF Entries(w) = {} THEN 0
    ELSE LET e == CHOOSE e \in Entries(w) : TRUE
         IN IF e.owner = o /\ e.inst = i THEN e.gen ELSE e.gen + 1

Generation(w, o, i) ==
    IF Entries(w) = {} THEN 1
    ELSE LET e == CHOOSE e \in Entries(w) : TRUE
         IN IF e.owner = o /\ e.inst = i THEN e.gen ELSE e.gen + 1

ClaimedSession(w, o, t, i) ==
    [work |-> w, owner |-> o, sid |-> t, inst |-> i,
     gen |-> Generation(w, o, i), exp |-> now + LeaseTime]

(* A claim drops the expired claims on other Works as well.                 *)
(* Mutant: it keeps no claim but its own.                                   *)
MutAfterClaim(s) == {s}
AfterClaim(s) == {x \in sessions : x.work # s.work /\ x.exp > now} \union {s}

(* Mutant: the lock is not taken.                                           *)
MutLockFree(w) == TRUE
LockFree(w) ==
    /\ hand[w] = None
    /\ Serial => \A v \in Works : hand[v] = None

Decide(w, op, s, next) ==
    /\ LockFree(w)
    /\ hand' = [hand EXCEPT ![w] = [op |-> op, session |-> s, next |-> next]]
    /\ UNCHANGED <<stores, runtime, now>>

Grant(w, o, t, i, op) ==
    /\ w \notin terminal
    /\ claimed < MaxClaims
    /\ claimed' = claimed + 1
    /\ LET s == ClaimedSession(w, o, t, i) IN Decide(w, op, s, AfterClaim(s))

(* claimControllerSession: a live claim is renewed by its own transport     *)
(* session, and by nobody else.                                             *)
(* Mutant: whoever the live claim belongs to.                               *)
MutClaim(w, o, t, i) == Grant(w, o, t, i, "claim") /\ UNCHANGED seen

Claim(w, o, t, i) ==
    /\ \A s \in Live(w) : s.owner = o /\ s.sid = t
    /\ Grant(w, o, t, i, "claim")
    /\ UNCHANGED seen

(* resumeControllerSession: its owner, from any transport and instance.     *)
Resume(w, o, t, i) ==
    /\ \A s \in Live(w) : s.owner = o
    /\ Grant(w, o, t, i, "claim")
    /\ UNCHANGED seen

(* The same with allowStaleRecovery, once the owner has shown no activity   *)
(* for the grace period, which is not modelled: the claim is taken away.    *)
Recover(w, o, t, i) ==
    /\ \E s \in Live(w) : s.owner # o
    /\ Grant(w, o, t, i, "take")
    /\ UNCHANGED seen

(* bindControllerSessionToCurrentRuntime looks before it takes the lock.    *)
Observe(q, w, o, t, i) ==
    /\ seen[q] = None
    /\ \E s \in Live(w) :
          /\ s.owner = o
          /\ s.inst # i => i = runtime
          /\ <<s.inst, s.sid>> # <<i, t>>
          /\ seen' = [seen EXCEPT ![q] = [work |-> w, owner |-> o, sid |-> t,
                                          inst |-> i, gen |-> s.gen, was |-> s.inst]]
    /\ UNCHANGED <<stores, hand, runtime, now, claimed>>

(* Mutant: it does not look again under the lock.                           *)
MutRebind(q) ==
    /\ seen[q] # None
    /\ Grant(seen[q].work, seen[q].owner, seen[q].sid, seen[q].inst, "claim")
    /\ seen' = [seen EXCEPT ![q] = None]

(* It then resumes with the generation it saw, under the lock.              *)
Rebind(q) ==
    /\ seen[q] # None
    /\ \E s \in Live(seen[q].work) : s.gen = seen[q].gen /\ s.owner = seen[q].owner
    /\ Grant(seen[q].work, seen[q].owner, seen[q].sid, seen[q].inst, "claim")
    /\ seen' = [seen EXCEPT ![q] = None]

RebindRefused(q) ==
    /\ seen[q] # None
    /\ LockFree(seen[q].work)
    /\ \/ seen[q].work \in terminal
       \/ \A s \in Live(seen[q].work) : s.gen # seen[q].gen \/ s.owner # seen[q].owner
    /\ seen' = [seen EXCEPT ![q] = None]
    /\ UNCHANGED <<stores, hand, runtime, now, claimed>>

(* releaseControllerSessionWithAuthority, by whoever knows the exact epoch. *)
Release(w) ==
    /\ \E s \in Live(w) : Decide(w, "release", s, sessions \ Entries(w))
    /\ UNCHANGED <<claimed, seen>>

(* withControllerSessionTerminalizationFence: without an authority where    *)
(* there is no owner, and with that of the owner where there is one.        *)
Terminalize(w) ==
    /\ w \notin terminal
    /\ \/ Live(w) = {} /\ Decide(w, "end", None, sessions)
       \/ \E s \in Live(w) : Decide(w, "end", s, sessions)
    /\ UNCHANGED <<claimed, seen>>

-----------------------------------------------------------------------------
(* The writes.  A claim writes the claims and then the retained identity; a *)
(* release the other way round.                                             *)
Step(w, from, to) ==
    /\ hand[w] # None /\ hand[w].op = from
    /\ hand' = [hand EXCEPT ![w] =
                   IF to = "idle" THEN None
                   ELSE [op |-> to, session |-> hand[w].session, next |-> hand[w].next]]
    /\ UNCHANGED <<seen, runtime, now, claimed>>

Retain(w, released) ==
    retained' = [retained EXCEPT ![w] = [session |-> hand[w].session, released |-> released]]

(* The same owner no longer relies on what it was told before, and a        *)
(* recovery leaves nothing to the owner it takes the Work from.             *)
WriteClaims(w) ==
    /\ Step(w, "claim", "told") \/ Step(w, "take", "told")
    /\ sessions' = hand[w].next
    /\ believed' = {x \in believed : x.work # w \/
                       (hand[w].op = "claim" /\ x.owner # hand[w].session.owner)}
    /\ UNCHANGED <<retained, terminal>>

ClaimReturns(w) ==
    /\ Step(w, "told", "idle")
    /\ Retain(w, FALSE)
    /\ believed' = believed \union {hand[w].session}
    /\ UNCHANGED <<sessions, terminal>>

RetainReleased(w) ==
    /\ Step(w, "release", "released")
    /\ Retain(w, TRUE)
    /\ UNCHANGED <<sessions, terminal, believed>>

WriteReleased(w) ==
    /\ Step(w, "released", "idle")
    /\ sessions' = hand[w].next
    /\ believed' = {x \in believed : Epoch(x) # Epoch(hand[w].session)}
    /\ UNCHANGED <<retained, terminal>>

WriteTerminal(w) ==
    /\ Step(w, "end", "idle")
    /\ terminal' = terminal \union {w}
    /\ UNCHANGED <<sessions, retained, believed>>

(* The process dies; its lock is reaped.                                    *)
Crash(w) ==
    /\ hand[w] # None
    /\ hand' = [hand EXCEPT ![w] = None]
    /\ UNCHANGED <<stores, seen, runtime, now, claimed>>

RuntimeRestarts ==
    /\ runtime < MaxRuntime
    /\ runtime' = runtime + 1
    /\ UNCHANGED <<stores, hand, seen, now, claimed>>

Tick ==
    /\ now < MaxTime
    /\ now' = now + 1
    /\ UNCHANGED <<stores, hand, seen, runtime, claimed>>

Next ==
    \/ \E w \in Works, o \in Owners, t \in Transports, i \in 1 .. runtime :
          \/ Claim(w, o, t, i) \/ Resume(w, o, t, i) \/ Recover(w, o, t, i)
          \/ \E q \in Requests : Observe(q, w, o, t, i)
    \/ \E q \in Requests : Rebind(q) \/ RebindRefused(q)
    \/ \E w \in Works :
          \/ Release(w) \/ Terminalize(w)
          \/ WriteClaims(w) \/ ClaimReturns(w)
          \/ RetainReleased(w) \/ WriteReleased(w) \/ WriteTerminal(w) \/ Crash(w)
    \/ RuntimeRestarts \/ Tick

Spec == Init /\ [][Next]_vars

-----------------------------------------------------------------------------
TypeOK ==
    /\ sessions \subseteq Session
    /\ retained \in [Works -> Identity \union {None}]
    /\ terminal \subseteq Works
    /\ hand \in [Works -> Change \union {None}]
    /\ seen \in [Requests -> Observation \union {None}]
    /\ runtime \in Instances
    /\ now \in Nat /\ claimed \in Nat
    /\ believed \subseteq Session

(* With one process at a time between its read and its write: the record    *)
(* has one entry for each Work, what is about to be written keeps every     *)
(* live claim on another Work, what was decided still holds, and whoever    *)
(* believes that it holds a Work has the epoch that is stored.              *)
OneHand == \A v, w \in Works : hand[v] # None /\ hand[w] # None => v = w

OneEntry == \A s, t \in sessions : s.work = t.work => s = t

HandOK(w, h) ==
    /\ h.op \in {"claim", "take"} =>
          /\ h.session \in h.next
          /\ \A x \in sessions : x.work # w /\ x.exp > now => x \in h.next
          /\ \A x \in h.next : x = h.session \/ (x \in sessions /\ x.work # w)
    /\ h.op = "claim" => \A s \in Live(w) : s.owner = h.session.owner
    /\ h.op \in {"told", "release", "released"} => h.session \in sessions
    /\ h.op \in {"release", "released"} => h.next = sessions \ Entries(w)
    /\ h.op \in {"claim", "take", "told"} => w \notin terminal
    /\ h.op # "end" => h.session.work = w
    /\ h.op = "end" => \A s \in Live(w) : s = h.session

HandInv == \A w \in Works : hand[w] # None => HandOK(w, hand[w])

BelievedInv ==
    \A s \in believed : s.exp > now =>
        \E t \in sessions : Epoch(t) = Epoch(s) /\ t.exp >= s.exp

SessionInv == TypeOK /\ OneHand /\ OneEntry /\ HandInv /\ BelievedInv

(* "A live claim with any different controller ... remains fenced": until   *)
(* it has expired, is released or is taken by a recovery, the owner that    *)
(* was told it holds the Work is the only one that was.                     *)
OneController ==
    \A s, t \in believed :
        s.work = t.work /\ s.exp > now /\ t.exp > now => s.owner = t.owner

(* While nobody is writing about the Work, what an owner was told is what   *)
(* the store compares its authority with: it can release and complete it.   *)
AuthorityCounts ==
    \A s \in believed :
        s.exp > now /\ hand[s.work] = None => \E t \in Live(s.work) : Epoch(t) = Epoch(s)

(* "There is no check-then-cancel gap" (recovery/maintenance-executor.ts):  *)
(* a Work becomes terminal under no owner but the one that presented its    *)
(* authority, and nobody is granted a terminal Work.                        *)
TerminalExcludesClaims ==
    [][\A w \in Works :
          /\ w \in terminal' \ terminal =>
                \A s \in believed : s.work = w /\ s.exp > now =>
                    hand[w].session # None /\ s.owner = hand[w].session.owner
          /\ w \in terminal => {s \in believed' : s.work = w} \subseteq believed]_vars

(* "Monotonic ownership fence. It changes only when ownership moves"        *)
(* (domain/types.ts): of the identities retained for a Work, the next one   *)
(* has the same epoch or a higher generation.                               *)
GenerationAdvances ==
    [][\A w \in Works : retained[w] # None /\ retained'[w] # None =>
          LET old == retained[w].session  new == retained'[w].session
          IN Epoch(new) = Epoch(old) \/ new.gen > old.gen]_vars

(* Of the claims stored and told, those that have not expired.              *)
InTime(S) == {<<s.work, s.owner>> : s \in {x \in S : x.exp > now}}
Register == INSTANCE OwnershipRegister WITH
                owns <- InTime(sessions), knows <- InTime(believed), ended <- terminal

(* The record of claims, rewritten whole, is a register of one owner for    *)
(* each Work: no write about one Work disturbs another, none changes owners *)
(* but a recovery, and what an owner was told is true while it is in time.  *)
KeepsRegister == Register!Spec

(* bindControllerSessionToCurrentRuntime "prevents a stale old Runtime      *)
(* request from migrating ownership backwards".                             *)
RebindsForward ==
    [][\A q \in Requests : Rebind(q) => \A s \in Live(seen[q].work) : s.inst <= seen[q].inst]_vars
=============================================================================
