-------------------------- MODULE ExecutionLeases --------------------------
(***************************************************************************)
(* The leases of one repository (src/runtime/resources/leases/store.ts).   *)
(*                                                                         *)
(* A lease is a file; its fencing token comes from a counter file per      *)
(* resource key.  Acquire, renew and release list the leases and then      *)
(* write or remove them one at a time, under the repository's file lock    *)
(* (ControllerLock).  Listing removes what has expired, and everybody      *)
(* lists: projections, maintenance and the token assertion without the     *)
(* lock.                                                                   *)
(*                                                                         *)
(* Agents are the processes that execute store operations, owners the      *)
(* owner job ids they do it for: the monitor of a Process renews for it    *)
(* while another runtime may be releasing what it left.                    *)
(***************************************************************************)
EXTENDS ResourceClaims

CONSTANTS
    Agents, Owners,
    NoOwner,      \* the owner of an idle agent
    ClaimSets,    \* the sets of claims asked for together
    Ttl,          \* time-to-live of a lease
    MaxTime,      \* bound of the clock
    MaxAcquires,  \* bound on the acquisitions granted
    LockLapses    \* TRUE: the lock may expire under an operation that is slow

ASSUME ClaimSetsAssumption ==
    /\ ClaimSets \subseteq SUBSET Claim
    /\ \A C \in ClaimSets : C # {} /\ \A c, d \in C : c.key = d.key => c = d
ASSUME NoOwnerAssumption == NoOwner \notin Owners
ASSUME TtlAssumption == Ttl \in Nat \ {0}
ASSUME BoundsAssumption == MaxTime \in Nat /\ MaxAcquires \in Nat
ASSUME LockLapsesAssumption == LockLapses \in BOOLEAN

VARIABLES
    now,      \* Date.now()
    files,    \* the lease files
    counter,  \* the counter file of each resource key
    serial,   \* acquisitions granted so far
    op,       \* the operation each agent is in
    told,     \* the leases each owner was last told it holds
    using,    \* whether the owner goes on mutating
    doomed    \* leases a reader outside the lock read as expired

vars == <<now, files, counter, serial, op, told, using, doomed>>

(* A leaseId is random; here it is the acquisition and the claim.           *)
Lease == [serial : Nat, claim : Claim, owner : Owners, token : Nat, exp : Nat]
LeaseId(l) == <<l.serial, l.claim>>
WithExp(l, e) == [serial |-> l.serial, claim |-> l.claim, owner |-> l.owner,
                  token |-> l.token, exp |-> e]

Live == {l \in files : l.exp > now}
OwnedLive(o) == {l \in Live : l.owner = o}

Without(S, l) == {m \in S : LeaseId(m) # LeaseId(l)}

AskedKeys == {c.key : c \in UNION ClaimSets}

(* An operation: the leases it works on, and those it has still to do.      *)
Op == [kind : {"idle", "acquire", "renew", "release"}, owner : Owners \union {NoOwner},
       batch : SUBSET Lease, left : SUBSET Lease, since : Nat]
NewOp(k, o, S) == [kind |-> k, owner |-> o, batch |-> S, left |-> S, since |-> now]
Going(x, b, s) == [kind |-> x.kind, owner |-> x.owner, batch |-> b, left |-> s,
                   since |-> x.since]
Idle == [kind |-> "idle", owner |-> NoOwner, batch |-> {}, left |-> {}, since |-> 0]
Busy(a) == op[a].kind # "idle"

Init ==
    /\ now = 0
    /\ files = {}
    /\ counter = [k \in AskedKeys |-> 0]
    /\ serial = 0
    /\ op = [a \in Agents |-> Idle]
    /\ told = [o \in Owners |-> {}]
    /\ using = [o \in Owners |-> FALSE]
    /\ doomed = {}

-----------------------------------------------------------------------------
(* The repository lock: free, or its record has run out under its holder.   *)
Lapsed(a) == LockLapses /\ op[a].since < now

(* Mutant: the acquisition does not take the repository lock.               *)
MutLockFreeAlways(a) == ~Busy(a)

LockFree(a) == ~Busy(a) /\ \A b \in Agents : Busy(b) => Lapsed(b)

(* The leases another owner holds against a set of claims.                  *)
Blockers(o, C) ==
    {l \in Live : l.owner # o
                    /\ \E c \in C : ResourceClaimsConflict(c, l.claim)}

(* Mutant: the token is counted from the active leases, not from the file.  *)
MutNewLeaseFromActive(o, c) ==
    LET taken == {l.token : l \in {m \in Live : m.claim.key = c.key}} IN
    [serial |-> serial, claim |-> c, owner |-> o,
     token |-> 1 + CHOOSE t \in taken \union {0} : \A u \in taken : t >= u,
     exp |-> now + Ttl]

NewLease(o, c) ==
    [serial |-> serial, claim |-> c, owner |-> o,
     token |-> counter[c.key] + 1, exp |-> now + Ttl]

(* acquireExecutionLeases: under the lock, list, look for blockers, then    *)
(* take a token for every claim.  The leases are written one by one after.  *)
AcquireBlocked(a, o, C) ==
    /\ LockFree(a)
    /\ told[o] = {}
    /\ Blockers(o, C) # {}
    /\ files' = Live
    /\ UNCHANGED <<now, counter, serial, op, told, using, doomed>>

AcquireGranted(a, o, C) ==
    /\ LockFree(a)
    /\ told[o] = {}
    /\ Blockers(o, C) = {}
    /\ serial < MaxAcquires
    /\ files' = Live
    /\ serial' = serial + 1
    /\ counter' = [k \in AskedKeys |->
                      IF \E c \in C : c.key = k THEN counter[k] + 1 ELSE counter[k]]
    /\ op' = [op EXCEPT ![a] = NewOp("acquire", o, {NewLease(o, c) : c \in C})]
    /\ UNCHANGED <<now, told, using, doomed>>

WriteAcquired(a) ==
    /\ op[a].kind = "acquire"
    /\ \E l \in op[a].left :
          LET rest == op[a].left \ {l} IN
          /\ files' = Without(files, l) \union {l}
          /\ IF rest = {}
             THEN /\ op' = [op EXCEPT ![a] = Idle]
                  /\ told' = [told EXCEPT ![op[a].owner] = op[a].batch]
                  /\ using' = [using EXCEPT ![op[a].owner] = TRUE]
             ELSE /\ op' = [op EXCEPT ![a] = Going(op[a], op[a].batch, rest)]
                  /\ UNCHANGED <<told, using>>
    /\ UNCHANGED <<now, counter, serial, doomed>>

(* Mutant: a lease that has expired is renewed while its file is there.     *)
MutMatchingExpired(o) ==
    {l \in files : l.owner = o
                     /\ \E t \in told[o] : LeaseId(t) = LeaseId(l) /\ t.token = l.token}

(* The leases of the owner that are live and match what it was told         *)
(* (leaseMatchesExpected: the id and the fencing token).                    *)
Matching(o) == {l \in OwnedLive(o) :
                  \E t \in told[o] : LeaseId(t) = LeaseId(l) /\ t.token = l.token}

(* renewExecutionLeases: all the leases it was told, or FENCING_TOKEN_STALE.*)
RenewRefused(a, o) ==
    /\ LockFree(a)
    /\ using[o]
    /\ Cardinality(Matching(o)) # Cardinality(told[o])
    /\ files' = Live
    /\ UNCHANGED <<now, counter, serial, op, told, using, doomed>>

RenewGranted(a, o) ==
    /\ LockFree(a)
    /\ using[o]
    /\ Cardinality(Matching(o)) = Cardinality(told[o])
    /\ files' = Live
    /\ op' = [op EXCEPT ![a] = NewOp("renew", o, Matching(o))]
    /\ UNCHANGED <<now, counter, serial, told, using, doomed>>

WriteRenewed(a) ==
    /\ op[a].kind = "renew"
    /\ \E l \in op[a].left :
          LET next == WithExp(l, now + Ttl)
              rest == op[a].left \ {l}
              done == Without(op[a].batch, l) \union {next}
          IN
          /\ files' = Without(files, l) \union {next}
          /\ IF rest = {}
             THEN /\ op' = [op EXCEPT ![a] = Idle]
                  /\ told' = [told EXCEPT ![op[a].owner] = done]
             ELSE /\ op' = [op EXCEPT ![a] = Going(op[a], done, rest)]
                  /\ UNCHANGED told
    /\ UNCHANGED <<now, counter, serial, using, doomed>>

(* The three releases remove the same leases and differ in when they        *)
(* refuse: releaseExecutionLeases never does, releaseExactExecutionLeases   *)
(* unless the owner holds exactly what it was told, and                     *)
(* releaseTerminalProcessLeases unless it was told all that it holds.       *)
Releases == {"matching", "exact", "terminal"}
Allowed(r, o) ==
    /\ r \in {"exact", "terminal"} => OwnedLive(o) = Matching(o)
    /\ r = "exact" => Cardinality(OwnedLive(o)) = Cardinality(told[o])

(* Its caller, the owner or whoever cleans up after it, calls a release     *)
(* when the owner has stopped mutating.                                     *)
ReleaseRefused(a, o) ==
    /\ LockFree(a)
    /\ told[o] # {}
    /\ \E r \in Releases : ~Allowed(r, o)
    /\ files' = Live
    /\ using' = [using EXCEPT ![o] = FALSE]
    /\ UNCHANGED <<now, counter, serial, op, told, doomed>>

ReleaseGranted(a, o) ==
    /\ LockFree(a)
    /\ told[o] # {}
    /\ \E r \in Releases : Allowed(r, o)
    /\ files' = Live
    /\ using' = [using EXCEPT ![o] = FALSE]
    /\ IF Matching(o) = {}
       THEN told' = [told EXCEPT ![o] = {}] /\ UNCHANGED op
       ELSE op' = [op EXCEPT ![a] = NewOp("release", o, Matching(o))] /\ UNCHANGED told
    /\ UNCHANGED <<now, counter, serial, doomed>>

RemoveReleased(a) ==
    /\ op[a].kind = "release"
    /\ \E l \in op[a].left :
          LET rest == op[a].left \ {l} IN
          /\ files' = Without(files, l)
          /\ IF rest = {}
             THEN /\ op' = [op EXCEPT ![a] = Idle]
                  /\ told' = [told EXCEPT ![op[a].owner] = {}]
             ELSE /\ op' = [op EXCEPT ![a] = Going(op[a], op[a].batch, rest)]
                  /\ UNCHANGED told
    /\ UNCHANGED <<now, counter, serial, using, doomed>>

-----------------------------------------------------------------------------
(* A write throws, or the process dies: what was written stays, and the     *)
(* lock is given back or reaped.                                            *)
Interrupted(a) ==
    /\ Busy(a)
    /\ op' = [op EXCEPT ![a] = Idle]
    /\ UNCHANGED <<now, files, counter, serial, told, using, doomed>>

(* The owner stops without releasing; what it was told is on record.        *)
OwnerStops(o) ==
    /\ using[o]
    /\ using' = [using EXCEPT ![o] = FALSE]
    /\ UNCHANGED <<now, files, counter, serial, op, told, doomed>>

(* Outside the lock a reader finds a lease expired and then removes its     *)
(* file, by name.                                                           *)
ReapUnlocked(S) ==
    /\ doomed' = doomed \union {LeaseId(l) : l \in S}
    /\ UNCHANGED files

(* listActiveLeases. *)
ReaderLists ==
    /\ \E l \in files \ Live : ReapUnlocked({l})
    /\ UNCHANGED <<now, counter, serial, op, told, using>>

(* assertFencingToken throws, and the owner stops, when the lease is gone,  *)
(* has expired or carries another token.                                    *)
AssertFails(o) ==
    /\ using[o]
    /\ \E t \in told[o] :
          LET found == {l \in files : LeaseId(l) = LeaseId(t)} IN
          /\ \A l \in found \intersect Live : l.token # t.token
          /\ ReapUnlocked(found \ Live)
    /\ using' = [using EXCEPT ![o] = FALSE]
    /\ UNCHANGED <<now, counter, serial, op, told>>

ReaderRemoves ==
    /\ \E id \in doomed : /\ files' = {l \in files : LeaseId(l) # id}
                          /\ doomed' = doomed \ {id}
    /\ UNCHANGED <<now, counter, serial, op, told, using>>

Tick ==
    /\ now < MaxTime
    /\ now' = now + 1
    /\ UNCHANGED <<files, counter, serial, op, told, using, doomed>>

Next ==
    \/ \E a \in Agents :
          \/ \E o \in Owners :
                \/ \E C \in ClaimSets : AcquireBlocked(a, o, C) \/ AcquireGranted(a, o, C)
                \/ RenewRefused(a, o) \/ RenewGranted(a, o)
                \/ ReleaseRefused(a, o) \/ ReleaseGranted(a, o)
          \/ WriteAcquired(a) \/ WriteRenewed(a) \/ RemoveReleased(a)
          \/ Interrupted(a)
    \/ \E o \in Owners : OwnerStops(o) \/ AssertFails(o)
    \/ ReaderLists \/ ReaderRemoves
    \/ Tick

Spec == Init /\ [][Next]_vars

-----------------------------------------------------------------------------
TypeOK ==
    /\ now \in Nat /\ serial \in Nat
    /\ files \subseteq Lease
    /\ counter \in [AskedKeys -> Nat]
    /\ op \in [Agents -> Op]
    /\ told \in [Owners -> SUBSET Lease]
    /\ using \in [Owners -> BOOLEAN]

Compatible(l, m) == l.owner # m.owner => ~ResourceClaimsConflict(l.claim, m.claim)

(* "Claims, leases, and fencing prevent two actors from silently mutating   *)
(* the same state" (docs/wiki/Work-Lifecycle.md): whatever the store is in  *)
(* the middle of, two leases that have not expired and belong to different  *)
(* owners never conflict.                                                   *)
ActiveLeasesCompatible == \A l, m \in Live : Compatible(l, m)

(* What the store holds, is about to write, or was told to somebody.        *)
InHand == UNION {op[a].left : a \in Agents}
Worked == UNION {op[a].batch : a \in Agents}
Told == UNION {told[o] : o \in Owners}
Known == files \union InHand \union Worked \union Told

(* Fencing: of two leases ever granted on a key the later has the higher    *)
(* token, although tokens are taken before the leases are written, an       *)
(* acquisition may die in between, and the earlier lease may be long gone   *)
(* from the store while its owner still carries its token.                  *)
LaterTokenIsHigher ==
    \A l, m \in Known :
        l.claim.key = m.claim.key /\ l.serial < m.serial => l.token < m.token

(* The parts of the invariant: one operation at a time has leases in hand,  *)
(* they are compatible with what is live, and no token is above the counter.*)
OneOperation ==
    /\ \A a \in Agents : ~Busy(a) => op[a].batch = {} /\ op[a].left = {}
    /\ \A a, b \in Agents : Busy(a) /\ Busy(b) => a = b
InHandCompatible == \A l, m \in Live \union InHand : Compatible(l, m)
TokensCounted ==
    \A l \in Known : /\ l.serial < serial
                     /\ l.claim.key \in AskedKeys
                     /\ l.token <= counter[l.claim.key]

(* Throughout a half-done acquisition, renewal or release the store's files *)
(* together with what is still to be written stay free of conflicts.        *)
LeaseInv == /\ TypeOK
            /\ OneOperation
            /\ InHandCompatible
            /\ TokensCounted
            /\ LaterTokenIsHigher

-----------------------------------------------------------------------------
(* What is held: what is live, and what the operation under way has yet to  *)
(* write or to remove.                                                      *)
Grants == {[claim |-> l.claim, owner |-> l.owner, token |-> l.token] : l \in Live \union InHand}
Table == INSTANCE LeaseTable WITH
             Keys <- AskedKeys, Conflict <- ResourceClaimsConflict,
             table <- Grants, last <- counter

(* The store is a table in which a set of claims is taken in one step, and  *)
(* nothing is revived that was lost: though tokens, leases and renewals are *)
(* written one at a time, with readers that remove files in between.        *)
KeepsTable == Table!Spec

(* What an owner that goes on mutating has reason to think it holds: the    *)
(* leases it was told, until they expire as it was told.                    *)
Believed(o) == {l \in told[o] : using[o] /\ l.exp > now}

(* No two owners act on conflicting leases at once.                         *)
BelievedCompatible ==
    \A o, p \in Owners : \A l \in Believed(o), m \in Believed(p) : Compatible(l, m)
=============================================================================
