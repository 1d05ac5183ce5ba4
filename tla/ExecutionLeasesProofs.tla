------------------------ MODULE ExecutionLeasesProofs ------------------------
(* The lease store excludes conflicting owners, for every set of claims,    *)
(* agents and owners, whatever readers outside the lock remove, as long as  *)
(* the repository lock does not expire under an operation, and implements   *)
(* the table of leases; the relation it goes by means what it should, for   *)
(* all claims.                                                              *)
EXTENDS ClaimFootprints, SequenceTheorems, TLAPS

(* The store asks whether the new claim conflicts with the old lease and    *)
(* never the converse: the answer is the same.                              *)
LEMMA ClaimConflictSymmetric ==
    ASSUME NEW c, NEW d
    PROVE  ResourceClaimsConflict(c, d) <=> ResourceClaimsConflict(d, c)
<1>1. ASSUME NEW p, NEW q PROVE PathOverlaps(p, q) <=> PathOverlaps(q, p)
  BY Zenon DEF PathOverlaps
<1>2. ASSUME NEW l, NEW r PROVE PathsMeet(l, r) <=> PathsMeet(r, l)
  BY <1>1, Zenon DEF PathsMeet
<1>3. ASSUME NEW l, NEW r
      PROVE  OverlapOfNormalized(l, r) <=> OverlapOfNormalized(r, l)
  BY <1>2, Zenon DEF OverlapOfNormalized
<1>4. ResourceKeysOverlap(c.key, d.key) <=> ResourceKeysOverlap(d.key, c.key)
  BY <1>3 DEF ResourceKeysOverlap
<1>5. {c, d} = {d, c}
  OBVIOUS
<1>. QED
  BY <1>4, <1>5, Zenon DEF ResourceClaimsConflict

LEMMA CompatibleSymmetric ==
    ASSUME NEW l, NEW m, Compatible(l, m) PROVE Compatible(m, l)
BY ClaimConflictSymmetric DEF Compatible

(* Two leases the invariant cannot tell apart: an expiry is all that a      *)
(* renewal changes.                                                         *)
Alike(l, m) == /\ l.serial = m.serial /\ l.claim = m.claim
               /\ l.owner = m.owner /\ l.token = m.token

LEMMA LeaseFields ==
    ASSUME NEW l \in Lease, NEW e \in Nat
    PROVE  /\ WithExp(l, e) \in Lease
           /\ Alike(WithExp(l, e), l)
           /\ WithExp(l, e).exp = e
BY DEF Lease, WithExp, Alike

Covered(S, T) == \A l \in S : \E k \in T : Alike(l, k)

LEMMA SubsetCovered ==
    ASSUME NEW S, NEW T, S \subseteq T PROVE Covered(S, T)
BY DEF Covered, Alike

LEMMA LiveIsKnown == /\ Live \union InHand \subseteq Known
                     /\ files \subseteq Known
                     /\ \A a \in Agents : op[a].left \subseteq InHand
                     /\ \A a \in Agents : op[a].batch \subseteq Known
                     /\ \A o \in Owners : told[o] \subseteq Known
BY DEF Live, InHand, Worked, Told, Known

(* A step that takes no token and only replaces leases by their like keeps  *)
(* the invariant: what is live or in hand comes from what was live or in    *)
(* hand, and what is known from what was known.                             *)
LEMMA CoveredStep ==
    ASSUME LeaseInv, TypeOK', OneOperation',
           UNCHANGED <<counter, serial>>,
           Covered(Live', Live \union InHand),
           \A a \in Agents : Covered(op'[a].left, Live \union InHand),
           Covered(files', Known),
           \A a \in Agents : Covered(op'[a].batch, Known),
           \A o \in Owners : Covered(told'[o], Known)
    PROVE  LeaseInv'
<1>1. Covered((Live \union InHand)', Live \union InHand)
  BY DEF Covered, InHand
<1>2. Covered(Known', Known)
  <2>1. \A a \in Agents : Covered(op'[a].left, Known)
    BY LiveIsKnown, Zenon DEF Covered
  <2>. QED  BY <2>1 DEF Covered, Known, InHand, Worked, Told
<1>3. InHandCompatible'
  BY <1>1 DEF Covered, Alike, Compatible, LeaseInv, InHandCompatible
<1>4. TokensCounted'
  BY <1>2 DEF Covered, Alike, LeaseInv, TokensCounted
<1>5. LaterTokenIsHigher'
  BY <1>2 DEF Covered, Alike, LeaseInv, LaterTokenIsHigher
<1>. QED
  BY <1>3, <1>4, <1>5 DEF LeaseInv

(* A step in which files only go and the clock only advances.               *)
LEMMA QuietStep ==
    ASSUME LeaseInv, TypeOK', now' >= now, files' \subseteq files,
           UNCHANGED <<op, told, counter, serial>>
    PROVE  LeaseInv'
<1>1. OneOperation'
  BY DEF LeaseInv, OneOperation, Busy
<1>2. Live' \subseteq Live
  BY DEF Live, LeaseInv, TypeOK, Lease
<1>3. \A a \in Agents : op'[a].left \subseteq Live \union InHand
  BY LiveIsKnown
<1>. QED
  BY <1>1, <1>2, <1>3, LiveIsKnown, SubsetCovered, CoveredStep

-----------------------------------------------------------------------------
(* An agent takes the free lock and sets to work on live leases.            *)
LEMMA GrantedStep ==
    ASSUME LeaseInv, LockLapses = FALSE, TypeOK',
           NEW a \in Agents, NEW o \in Owners, NEW k \in {"renew", "release"},
           NEW M, M \subseteq Live, LockFree(a),
           op' = [op EXCEPT ![a] = NewOp(k, o, M)],
           files' = Live,
           UNCHANGED <<now, counter, serial, told>>
    PROVE  LeaseInv'
<1>1. \A b \in Agents : ~Busy(b)
  BY DEF LockFree, Lapsed
<1>2. \A b \in Agents : op'[b] = IF b = a THEN NewOp(k, o, M) ELSE op[b]
  BY DEF LeaseInv, TypeOK
<1>3. OneOperation'
  BY <1>1, <1>2 DEF LeaseInv, OneOperation, Busy, NewOp
<1>4. M \subseteq Known /\ Live' \subseteq Live /\ files' \subseteq Known
  BY LiveIsKnown DEF Live
<1>5. \A b \in Agents : op'[b].left \subseteq Live \union InHand
  BY <1>2, LiveIsKnown DEF NewOp
<1>6. \A b \in Agents : op'[b].batch \subseteq Known
  BY <1>2, <1>4, LiveIsKnown DEF NewOp
<1>7. \A p \in Owners : told'[p] \subseteq Known
  BY LiveIsKnown
<1>. QED
  BY <1>3, <1>4, <1>5, <1>6, <1>7, SubsetCovered, CoveredStep

(* The running operation does its next lease l as n, which is like it, or   *)
(* removes it, and goes on with the rest or returns.                        *)
LEMMA WorkStep ==
    ASSUME LeaseInv, TypeOK',
           NEW a \in Agents, Busy(a), NEW l \in op[a].left, NEW n, Alike(n, l),
           NEW x, op' = [op EXCEPT ![a] = x],
           x = Idle \/ x.kind = op[a].kind,
           x.left \subseteq op[a].left,
           x.batch \subseteq op[a].batch \union {n},
           files' \subseteq files \union {n},
           \A o \in Owners : told'[o] \subseteq told[o] \union op[a].batch \union {n},
           UNCHANGED <<now, counter, serial>>
    PROVE  LeaseInv'
<1>1. \A b \in Agents : op'[b] = IF b = a THEN x ELSE op[b]
  BY DEF LeaseInv, TypeOK
<1>2. OneOperation'
  BY <1>1 DEF LeaseInv, OneOperation, Busy, Idle
<1>3. l \in InHand /\ l \in Known
  BY LiveIsKnown
<1>4. Covered({n}, InHand) /\ Covered({n}, Known)
  BY <1>3 DEF Covered
<1>5. Covered(Live', Live \union InHand)
  <2>1. Live' \subseteq Live \union {n}
    BY DEF Live
  <2>. QED  BY <2>1, <1>4 DEF Covered, Alike
<1>6. \A b \in Agents : op'[b].left \subseteq Live \union InHand
  BY <1>1, LiveIsKnown
<1>7. Covered(files', Known)
  BY <1>4, LiveIsKnown DEF Covered, Alike
<1>8. \A b \in Agents : op'[b].batch \subseteq Known \union {n}
  BY <1>1, LiveIsKnown
<1>9. \A b \in Agents : Covered(op'[b].batch, Known)
  BY <1>8, <1>4 DEF Covered, Alike
<1>10. \A o \in Owners : told'[o] \subseteq Known \union {n}
  BY LiveIsKnown
<1>11. \A o \in Owners : Covered(told'[o], Known)
  BY <1>10, <1>4 DEF Covered, Alike
<1>. QED
  BY <1>2, <1>5, <1>6, <1>7, <1>9, <1>11, SubsetCovered, CoveredStep
-----------------------------------------------------------------------------
(* The operations keep their types.                                         *)
LEMMA OpTypes ==
    /\ Idle \in Op
    /\ \A k \in {"acquire", "renew", "release"}, o \in Owners, M \in SUBSET Lease :
          TypeOK => NewOp(k, o, M) \in Op
    /\ \A x \in Op, b \in SUBSET Lease, s \in SUBSET Lease : Going(x, b, s) \in Op
BY DEF Idle, NewOp, Going, Op, TypeOK

LEMMA OpFields ==
    ASSUME TypeOK, NEW a \in Agents
    PROVE  /\ op[a] \in Op
           /\ op[a].left \subseteq Lease /\ op[a].batch \subseteq Lease
BY DEF TypeOK, Op

LEMMA NewLeaseType ==
    ASSUME TypeOK, NEW o \in Owners, NEW C \in ClaimSets, NEW c \in C
    PROVE  NewLease(o, c) \in Lease /\ c.key \in AskedKeys
<1>1. c \in Claim /\ c.key \in AskedKeys
  BY ClaimSetsAssumption DEF AskedKeys
<1>2. counter[c.key] \in Nat /\ now + Ttl \in Nat
  BY <1>1, TtlAssumption DEF TypeOK
<1>. QED
  BY <1>1, <1>2 DEF TypeOK, NewLease, Lease

(* The new leases are compatible with what is live, because no blocker was  *)
(* found and the conflict relation is symmetric; nothing else is in hand.   *)
LEMMA AcquireStep ==
    ASSUME LeaseInv, LockLapses = FALSE, TypeOK',
           NEW a \in Agents, NEW o \in Owners, NEW C \in ClaimSets,
           AcquireGranted(a, o, C)
    PROVE  LeaseInv'
<1>. DEFINE N == {NewLease(o, c) : c \in C}
<1>. USE DEF AcquireGranted
<1>1. \A b \in Agents : ~Busy(b)
  BY DEF LockFree, Lapsed
<1>2. \A b \in Agents : op'[b] = IF b = a THEN NewOp("acquire", o, N) ELSE op[b]
  BY DEF LeaseInv, TypeOK
<1>3. OneOperation'
  BY <1>1, <1>2 DEF LeaseInv, OneOperation, Busy, NewOp
<1>4. InHand = {} /\ InHand' = N
  <2>1. InHand = {}
    BY <1>1 DEF LeaseInv, OneOperation, InHand
  <2>2. op'[a].left = N
    <3>1. op'[a] = NewOp("acquire", o, N)
      BY <1>2
    <3>. HIDE DEF N
    <3>. QED  BY <3>1 DEF NewOp
  <2>3. \A b \in Agents : b # a => op'[b].left = {}
    BY <1>1, <1>2 DEF LeaseInv, OneOperation
  <2>. QED  BY <2>1, <2>2, <2>3, Zenon DEF InHand
<1>5. Live' \subseteq Live /\ Live \subseteq Known
  BY LiveIsKnown DEF Live
<1>6. \A n \in N : /\ n.owner = o /\ n.serial = serial
                   /\ \E c \in C : n.claim = c
                   /\ n.claim.key \in AskedKeys
                   /\ n.token = counter[n.claim.key] + 1
  BY NewLeaseType DEF NewLease, LeaseInv
<1>7. Known' \subseteq Known \union N
  <2>1. Worked' \subseteq Worked \union N
    BY <1>2 DEF Worked, NewOp
  <2>2. Told' = Told /\ files' \subseteq files
    BY <1>5 DEF Told, Live
  <2>. QED  BY <2>1, <2>2, <1>4 DEF Known
<1>8. InHandCompatible'
  <2>1. \A n \in N, l \in Live : Compatible(n, l)
    BY <1>6 DEF Compatible, Blockers
  <2>2. \A n \in N, l \in Live : Compatible(l, n)
    BY <2>1, CompatibleSymmetric
  <2>3. \A n, m \in N : Compatible(n, m)
    BY <1>6 DEF Compatible
  <2>4. \A l, m \in Live : Compatible(l, m)
    BY DEF LeaseInv, InHandCompatible
  <2>. QED
    BY <2>1, <2>2, <2>3, <2>4, <1>4, <1>5 DEF InHandCompatible, Compatible
<1>9. \A k \in AskedKeys : /\ counter[k] \in Nat /\ counter'[k] \in Nat
                            /\ counter[k] <= counter'[k]
  BY DEF LeaseInv, TypeOK
<1>10. \A n \in N : counter'[n.claim.key] = counter[n.claim.key] + 1
  BY <1>6
<1>11. \A l \in Known : l.serial \in Nat /\ l.token \in Nat
  BY DEF Known, InHand, Worked, Told, LeaseInv, TypeOK, Op, Lease
<1>12. serial \in Nat /\ serial' = serial + 1
  BY DEF LeaseInv, TypeOK
<1>13. TokensCounted'
  BY <1>6, <1>7, <1>9, <1>10, <1>11, <1>12 DEF LeaseInv, TokensCounted
<1>14. LaterTokenIsHigher'
  <2>. SUFFICES ASSUME NEW l \in Known', NEW m \in Known',
                       l.claim.key = m.claim.key, l.serial < m.serial
                PROVE  l.token < m.token
    BY DEF LaterTokenIsHigher
  <2>1. CASE l \in Known /\ m \in Known
    BY <2>1 DEF LeaseInv, LaterTokenIsHigher
  <2>2. CASE l \in Known /\ m \in N
    BY <2>2, <1>6, <1>9, <1>11 DEF LeaseInv, TokensCounted
  <2>3. CASE l \in N
    BY <2>3, <1>6, <1>7, <1>11, <1>12 DEF LeaseInv, TokensCounted
  <2>. QED  BY <1>7, <2>1, <2>2, <2>3
<1>. QED
  BY <1>3, <1>8, <1>13, <1>14 DEF LeaseInv

-----------------------------------------------------------------------------
LEMMA TypeStep ==
    ASSUME TypeOK, [Next]_vars PROVE TypeOK'
<1>. USE DEF TypeOK
<1>1. ASSUME NEW a \in Agents, NEW o \in Owners, NEW C \in ClaimSets, AcquireBlocked(a, o, C)
      PROVE  TypeOK'
  BY <1>1 DEF AcquireBlocked, Live
<1>2. ASSUME NEW a \in Agents, NEW o \in Owners, NEW C \in ClaimSets, AcquireGranted(a, o, C)
      PROVE  TypeOK'
  <2>1. {NewLease(o, c) : c \in C} \in SUBSET Lease
    BY NewLeaseType
  <2>2. NewOp("acquire", o, {NewLease(o, c) : c \in C}) \in Op
    BY <2>1, OpTypes
  <2>. QED  BY <1>2, <2>2 DEF AcquireGranted, Live
<1>3. ASSUME NEW a \in Agents, WriteAcquired(a) PROVE TypeOK'
  <2>. PICK l \in op[a].left : WriteAcquired(a)!2!(l)
    BY <1>3 DEF WriteAcquired
  <2>1. files' \subseteq Lease /\ UNCHANGED <<now, counter, serial>>
    BY <1>3, OpFields DEF WriteAcquired, Without
  <2>2. CASE op[a].left \ {l} = {}
    BY <2>1, <2>2, OpFields, OpTypes
  <2>3. CASE op[a].left \ {l} # {}
    <3>1. Going(op[a], op[a].batch, op[a].left \ {l}) \in Op
      BY OpFields, OpTypes
    <3>. QED  BY <2>1, <2>3, <3>1
  <2>. QED  BY <2>2, <2>3
<1>4. ASSUME NEW a \in Agents, WriteRenewed(a) PROVE TypeOK'
  <2>. PICK l \in op[a].left : WriteRenewed(a)!2!(l)
    BY <1>4 DEF WriteRenewed
  <2>. DEFINE n == WithExp(l, now + Ttl)
              done == Without(op[a].batch, l) \union {n}
  <2>1. n \in Lease
    BY OpFields, LeaseFields, TtlAssumption
  <2>2. /\ files' \subseteq Lease /\ done \subseteq Lease
        /\ UNCHANGED <<now, counter, serial, using>>
    BY <1>4, <2>1, OpFields DEF WriteRenewed, Without
  <2>3. CASE op[a].left \ {l} = {}
    <3>1. /\ op' = [op EXCEPT ![a] = Idle]
          /\ told' = [told EXCEPT ![op[a].owner] = done]
      BY <2>3
    <3>. HIDE DEF done
    <3>. QED  BY <2>2, <3>1, OpTypes
  <2>4. CASE op[a].left \ {l} # {}
    <3>1. Going(op[a], done, op[a].left \ {l}) \in Op
      BY <2>2, OpFields, OpTypes
    <3>. QED  BY <2>2, <2>4, <3>1
  <2>. QED  BY <2>3, <2>4
<1>5. ASSUME NEW a \in Agents, RemoveReleased(a) PROVE TypeOK'
  <2>. PICK l \in op[a].left : RemoveReleased(a)!2!(l)
    BY <1>5 DEF RemoveReleased
  <2>1. files' \subseteq Lease /\ UNCHANGED <<now, counter, serial, using>>
    BY <1>5, OpFields DEF RemoveReleased, Without
  <2>2. CASE op[a].left \ {l} = {}
    BY <2>1, <2>2, OpFields, OpTypes
  <2>3. CASE op[a].left \ {l} # {}
    <3>1. Going(op[a], op[a].batch, op[a].left \ {l}) \in Op
      BY OpFields, OpTypes
    <3>. QED  BY <2>1, <2>3, <3>1
  <2>. QED  BY <2>2, <2>3
<1>6. ASSUME NEW a \in Agents, NEW o \in Owners,
             RenewRefused(a, o) \/ ReleaseRefused(a, o)
      PROVE  TypeOK'
  BY <1>6 DEF RenewRefused, ReleaseRefused, Live
<1>7. ASSUME NEW a \in Agents, NEW o \in Owners,
             RenewGranted(a, o) \/ ReleaseGranted(a, o)
      PROVE  TypeOK'
  <2>1. Matching(o) \in SUBSET Lease
    BY DEF Matching, OwnedLive, Live
  <2>2. \A k \in {"renew", "release"} : NewOp(k, o, Matching(o)) \in Op
    BY <2>1, OpTypes
  <2>3. files' \subseteq Lease
    BY <1>7 DEF RenewGranted, ReleaseGranted, Live
  <2>4. CASE RenewGranted(a, o)
    BY <2>2, <2>3, <2>4 DEF RenewGranted
  <2>5. CASE ReleaseGranted(a, o) /\ Matching(o) = {}
    BY <2>3, <2>5 DEF ReleaseGranted
  <2>6. CASE ReleaseGranted(a, o) /\ Matching(o) # {}
    BY <2>2, <2>3, <2>6 DEF ReleaseGranted
  <2>. QED  BY <1>7, <2>4, <2>5, <2>6
<1>8. ASSUME NEW a \in Agents, Interrupted(a) PROVE TypeOK'
  BY <1>8, OpTypes DEF Interrupted
<1>9. ASSUME NEW o \in Owners, OwnerStops(o) \/ AssertFails(o) PROVE TypeOK'
  BY <1>9 DEF OwnerStops, AssertFails, ReapUnlocked
<1>10. CASE ReaderLists \/ ReaderRemoves
  BY <1>10 DEF ReaderLists, ReaderRemoves, ReapUnlocked
<1>11. CASE Tick
  BY <1>11 DEF Tick
<1>12. CASE UNCHANGED vars
  BY <1>12 DEF vars
<1>. QED
  BY <1>1, <1>2, <1>3, <1>4, <1>5, <1>6, <1>7, <1>8, <1>9, <1>10, <1>11, <1>12
     DEF Next

-----------------------------------------------------------------------------
LEMMA InvStep ==
    ASSUME LeaseInv, LockLapses = FALSE, [Next]_vars PROVE LeaseInv'
<1>t. TypeOK /\ TypeOK'
  BY TypeStep DEF LeaseInv
<1>1. ASSUME NEW a \in Agents, NEW o \in Owners, NEW C \in ClaimSets, AcquireGranted(a, o, C)
      PROVE  LeaseInv'
  BY <1>1, <1>t, AcquireStep
<1>2. ASSUME files' \subseteq files, now' >= now, UNCHANGED <<op, told, counter, serial>>
      PROVE  LeaseInv'
  BY <1>2, <1>t, QuietStep
<1>3. now >= now /\ Live \subseteq files
  BY <1>t DEF TypeOK, Live
<1>4. ASSUME NEW a \in Agents, NEW o \in Owners, NEW C \in ClaimSets,
             AcquireBlocked(a, o, C)
      PROVE  LeaseInv'
  BY <1>2, <1>3, <1>4 DEF AcquireBlocked
<1>5. ASSUME NEW a \in Agents, NEW o \in Owners,
             RenewRefused(a, o) \/ ReleaseRefused(a, o)
      PROVE  LeaseInv'
  BY <1>2, <1>3, <1>5 DEF RenewRefused, ReleaseRefused
<1>6. ASSUME NEW a \in Agents, NEW o \in Owners, RenewGranted(a, o)
      PROVE  LeaseInv'
  <2>1. Matching(o) \subseteq Live
    BY DEF Matching, OwnedLive
  <2>. QED  BY <1>6, <1>t, <2>1, GrantedStep DEF RenewGranted
<1>7. ASSUME NEW a \in Agents, NEW o \in Owners, ReleaseGranted(a, o)
      PROVE  LeaseInv'
  <2>1. Matching(o) \subseteq Live
    BY DEF Matching, OwnedLive
  <2>2. CASE Matching(o) # {}
    BY <1>7, <1>t, <2>1, <2>2, GrantedStep DEF ReleaseGranted
  <2>3. CASE Matching(o) = {}
    <3>1. /\ told' = [told EXCEPT ![o] = {}] /\ UNCHANGED <<op, now, counter, serial>>
          /\ files' \subseteq files
      BY <1>7, <1>3, <2>3 DEF ReleaseGranted
    <3>2. OneOperation'
      BY <3>1 DEF LeaseInv, OneOperation, Busy
    <3>3. Live' \subseteq Live
      BY <3>1 DEF Live
    <3>4. \A p \in Owners : told'[p] \subseteq told[p]
      BY <3>1, <1>t DEF TypeOK
    <3>5. \A b \in Agents : op'[b].left \subseteq Live \union InHand
      BY <3>1, LiveIsKnown
    <3>. QED
      BY <1>t, <3>1, <3>2, <3>3, <3>4, <3>5, LiveIsKnown, SubsetCovered, CoveredStep
  <2>. QED  BY <2>2, <2>3
<1>8. ASSUME NEW a \in Agents, WriteAcquired(a) PROVE LeaseInv'
  <2>. PICK l \in op[a].left : WriteAcquired(a)!2!(l)
    BY <1>8 DEF WriteAcquired
  <2>1. /\ files' \subseteq files \union {l} /\ UNCHANGED <<now, counter, serial>>
        /\ Busy(a) /\ Alike(l, l)
    BY <1>8 DEF WriteAcquired, Without, Busy, Alike
  <2>2. CASE op[a].left \ {l} = {}
    <3>1. \A o \in Owners : told'[o] \subseteq told[o] \union op[a].batch \union {l}
      BY <2>2, <1>t DEF TypeOK
    <3>. QED  BY <1>t, <2>1, <2>2, <3>1, WorkStep DEF Idle
  <2>3. CASE op[a].left \ {l} # {}
    BY <1>t, <2>1, <2>3, WorkStep DEF Going
  <2>. QED  BY <2>2, <2>3
<1>9. ASSUME NEW a \in Agents, WriteRenewed(a) PROVE LeaseInv'
  <2>. PICK l \in op[a].left : WriteRenewed(a)!2!(l)
    BY <1>9 DEF WriteRenewed
  <2>. DEFINE n == WithExp(l, now + Ttl)
              done == Without(op[a].batch, l) \union {n}
  <2>1. /\ files' \subseteq files \union {n} /\ UNCHANGED <<now, counter, serial>>
        /\ Busy(a) /\ done \subseteq op[a].batch \union {n}
    BY <1>9 DEF WriteRenewed, Without, Busy
  <2>2. Alike(n, l)
    BY DEF Alike, WithExp
  <2>. HIDE DEF n
  <2>3. CASE op[a].left \ {l} = {}
    <3>1. told' = [told EXCEPT ![op[a].owner] = done] /\ op' = [op EXCEPT ![a] = Idle]
      BY <2>3 DEF n
    <3>2. \A o \in Owners : told'[o] \subseteq told[o] \union op[a].batch \union {n}
      BY <3>1, <2>1, <1>t DEF TypeOK
    <3>3. Idle.left = {} /\ Idle.batch = {}
      BY DEF Idle
    <3>. HIDE DEF done
    <3>. QED  BY <1>t, <2>1, <2>2, <3>1, <3>2, <3>3, WorkStep
  <2>4. CASE op[a].left \ {l} # {}
    <3>1. UNCHANGED told /\ op' = [op EXCEPT ![a] = Going(op[a], done, op[a].left \ {l})]
      BY <2>4 DEF n
    <3>. DEFINE x == Going(op[a], done, op[a].left \ {l})
    <3>2. /\ x.kind = op[a].kind /\ x.left \subseteq op[a].left
          /\ x.batch \subseteq op[a].batch \union {n}
      BY <2>1 DEF Going
    <3>. HIDE DEF done, x
    <3>3. op' = [op EXCEPT ![a] = x]
      BY <3>1 DEF x
    <3>4. \A o \in Owners : told'[o] \subseteq told[o] \union op[a].batch \union {n}
      BY <3>1
    <3>. QED  BY <1>t, <2>1, <2>2, <3>2, <3>3, <3>4, WorkStep
  <2>. QED  BY <2>3, <2>4
<1>10. ASSUME NEW a \in Agents, RemoveReleased(a) PROVE LeaseInv'
  <2>. PICK l \in op[a].left : RemoveReleased(a)!2!(l)
    BY <1>10 DEF RemoveReleased
  <2>1. /\ files' \subseteq files \union {l} /\ UNCHANGED <<now, counter, serial>>
        /\ Busy(a) /\ Alike(l, l)
    BY <1>10 DEF RemoveReleased, Without, Busy, Alike
  <2>2. CASE op[a].left \ {l} = {}
    <3>1. \A o \in Owners : told'[o] \subseteq told[o]
      BY <2>2, <1>t DEF TypeOK
    <3>. QED  BY <1>t, <2>1, <2>2, <3>1, WorkStep DEF Idle
  <2>3. CASE op[a].left \ {l} # {}
    BY <1>t, <2>1, <2>3, WorkStep DEF Going
  <2>. QED  BY <2>2, <2>3
<1>11. ASSUME NEW a \in Agents, Interrupted(a) PROVE LeaseInv'
  <2>1. \A b \in Agents : op'[b] = IF b = a THEN Idle ELSE op[b]
    BY <1>11, <1>t DEF Interrupted, TypeOK
  <2>2. OneOperation'
    BY <2>1 DEF LeaseInv, OneOperation, Busy, Idle
  <2>3. \A b \in Agents : op'[b].left \subseteq op[b].left /\ op'[b].batch \subseteq op[b].batch
    BY <2>1 DEF Idle
  <2>4. Live' = Live /\ UNCHANGED <<files, counter, serial, told>>
    BY <1>11 DEF Interrupted, Live
  <2>. QED
    BY <1>t, <2>2, <2>3, <2>4, LiveIsKnown, SubsetCovered, CoveredStep
<1>12. ASSUME NEW o \in Owners, OwnerStops(o) \/ AssertFails(o) PROVE LeaseInv'
  BY <1>2, <1>3, <1>12 DEF OwnerStops, AssertFails, ReapUnlocked
<1>13. CASE ReaderLists \/ ReaderRemoves
  BY <1>2, <1>3, <1>13 DEF ReaderLists, ReaderRemoves, ReapUnlocked
<1>14. CASE Tick
  BY <1>2, <1>14, <1>t DEF Tick, TypeOK
<1>15. CASE UNCHANGED vars
  BY <1>2, <1>3, <1>15 DEF vars
<1>. QED
  BY <1>1, <1>4, <1>5, <1>6, <1>7, <1>8, <1>9, <1>10, <1>11, <1>12, <1>13, <1>14,
     <1>15 DEF Next

LEMMA InvInit == Init => LeaseInv
<1>. SUFFICES ASSUME Init PROVE LeaseInv
  OBVIOUS
<1>1. TypeOK
  BY OpTypes DEF Init, TypeOK, Idle, Op
<1>2. Known = {} /\ InHand = {} /\ Live = {}
  BY DEF Init, Known, InHand, Worked, Told, Live, Idle
<1>3. OneOperation
  BY DEF Init, OneOperation, Busy, Idle
<1>. QED
  BY <1>1, <1>2, <1>3 DEF LeaseInv, InHandCompatible, TokensCounted, LaterTokenIsHigher

-----------------------------------------------------------------------------
(* Whatever is written, half written, renewed, removed or interrupted, and  *)
(* whatever readers outside the lock delete, the store and the operation    *)
(* under way keep their invariant while the repository lock does not run    *)
(* out under an operation.                                                  *)
THEOREM LeaseInvariant ==
    ASSUME LockLapses = FALSE PROVE Spec => []LeaseInv
<1>1. LeaseInv /\ [Next]_vars => LeaseInv'
  BY InvStep
<1>. QED
  BY <1>1, InvInit, PTL DEF Spec

(* Two live leases of different owners never conflict.                      *)
THEOREM LeasesExclude ==
    ASSUME LockLapses = FALSE PROVE Spec => []ActiveLeasesCompatible
<1>1. LeaseInv => ActiveLeasesCompatible
  BY DEF LeaseInv, InHandCompatible, ActiveLeasesCompatible
<1>. QED
  BY <1>1, LeaseInvariant, PTL

(* The fencing token of a later acquisition of a key is the higher one.     *)
THEOREM TokensFence ==
    ASSUME LockLapses = FALSE PROVE Spec => []LaterTokenIsHigher
<1>1. LeaseInv => LaterTokenIsHigher
  BY DEF LeaseInv
<1>. QED
  BY <1>1, LeaseInvariant, PTL

-----------------------------------------------------------------------------
(* Whatever is held afterwards is like something that was: leases only go.  *)
LEMMA LoseStep ==
    ASSUME counter' = counter,
           Covered(Live', Live \union InHand),
           \A a \in Agents : Covered(op'[a].left, Live \union InHand)
    PROVE  Table!Lose
<1>1. Covered((Live \union InHand)', Live \union InHand)
  BY DEF Covered, InHand
<1>2. Grants' \subseteq Grants
  BY <1>1 DEF Covered, Alike, Grants
<1>3. QED
  BY <1>2 DEF Table!Lose

LEMMA StillStep ==
    ASSUME UNCHANGED <<counter, op>>, Live' \subseteq Live
    PROVE  Table!Lose
<1>1. \A a \in Agents : op'[a].left \subseteq Live \union InHand
  BY LiveIsKnown
<1>2. QED
  BY <1>1, SubsetCovered, LoseStep

(* The running operation writes its next lease, removes it, or stops.       *)
LEMMA WorkLoses ==
    ASSUME TypeOK, counter' = counter, now' = now, NEW a \in Agents,
           NEW l \in op[a].left, NEW n, Alike(n, l), files' \subseteq files \union {n},
           NEW x, op' = [op EXCEPT ![a] = x], x.left \subseteq op[a].left
    PROVE  Table!Lose
<1>1. l \in InHand
  BY LiveIsKnown
<1>2. Live' \subseteq Live \union {n}
  BY DEF Live
<1>3. Covered(Live', Live \union InHand)
  BY <1>1, <1>2 DEF Covered, Alike
<1>4. \A b \in Agents : op'[b].left \subseteq op[b].left
  BY DEF TypeOK
<1>5. \A b \in Agents : op'[b].left \subseteq Live \union InHand
  BY <1>4, LiveIsKnown
<1>6. QED
  BY <1>3, <1>5, SubsetCovered, LoseStep

(* An acquisition is granted by what is in the table as a whole, since      *)
(* nobody has anything in hand while the lock is free.                      *)
LEMMA GrantIsGrant ==
    ASSUME LeaseInv, LockLapses = FALSE, NEW a \in Agents, NEW o \in Owners,
           NEW C \in ClaimSets, AcquireGranted(a, o, C)
    PROVE  Table!Grant(o, C)
<1> DEFINE New == {NewLease(o, c) : c \in C}
<1>1. InHand = {}
  BY DEF AcquireGranted, LockFree, Lapsed, LeaseInv, OneOperation, InHand
<1>2. \A b \in Agents : op'[b].left = IF b = a THEN New ELSE {}
  <2>1. op' = [op EXCEPT ![a] = NewOp("acquire", o, New)] /\ op \in [Agents -> Op]
    BY DEF AcquireGranted, LeaseInv, TypeOK
  <2>2. NewOp("acquire", o, New).left = New
    BY DEF NewOp
  <2> HIDE DEF New
  <2>3. \A b \in Agents : op[b].left = {}
    BY <1>1 DEF InHand
  <2>4. QED
    BY <2>1, <2>2, <2>3
<1>3. InHand' = New
  <2> HIDE DEF New
  <2>1. QED
    BY <1>2 DEF InHand
<1>4. Live' = Live
  BY DEF AcquireGranted, Live
<1>5. \A m \in Live, c \in C : m.owner # o => ~ResourceClaimsConflict(c, m.claim)
  BY DEF AcquireGranted, Blockers
<1>6. \A c \in C : /\ NewLease(o, c).claim = c /\ NewLease(o, c).owner = o
                   /\ NewLease(o, c).token = counter[c.key] + 1
  BY DEF NewLease
<1>7. Grants' = Grants \union {[claim |-> c, owner |-> o, token |-> counter[c.key] + 1] : c \in C}
  <2>1. Grants' = {[claim |-> l.claim, owner |-> l.owner, token |-> l.token] : l \in Live \union New}
    BY <1>3, <1>4 DEF Grants
  <2>2. Grants = {[claim |-> l.claim, owner |-> l.owner, token |-> l.token] : l \in Live}
    BY <1>1 DEF Grants
  <2> HIDE DEF New
  <2>3. {[claim |-> l.claim, owner |-> l.owner, token |-> l.token] : l \in New}
          = {[claim |-> c, owner |-> o, token |-> counter[c.key] + 1] : c \in C}
    BY <1>6 DEF New
  <2>4. QED
    BY <2>1, <2>2, <2>3
<1>8. \A g \in Grants, c \in C : g.owner # o => ~ResourceClaimsConflict(c, g.claim)
  BY <1>1, <1>5 DEF Grants
<1>9. counter' = [k \in AskedKeys |-> IF \E c \in C : c.key = k THEN counter[k] + 1 ELSE counter[k]]
  BY DEF AcquireGranted
<1>10. QED
  BY <1>7, <1>8, <1>9 DEF Table!Grant

LEMMA TableStep ==
    ASSUME LeaseInv, LockLapses = FALSE, [Next]_vars PROVE Table!Next
<1>t. TypeOK /\ TypeOK'
  BY TypeStep DEF LeaseInv
<1>1. ASSUME NEW a \in Agents, NEW o \in Owners, NEW C \in ClaimSets, AcquireGranted(a, o, C)
      PROVE  Table!Next
  BY <1>1, GrantIsGrant DEF Table!Next
<1>2. Table!Lose => Table!Next
  BY DEF Table!Next
<1>3. ASSUME files' \subseteq files, now' >= now, UNCHANGED <<op, counter>> PROVE Table!Lose
  <2>1. Live' \subseteq Live
    BY <1>3, <1>t DEF Live, TypeOK, Lease
  <2>2. QED
    BY <1>3, <2>1, StillStep
<1>4. now >= now /\ Live \subseteq files
  BY <1>t DEF TypeOK, Live
<1>5. ASSUME NEW a \in Agents, NEW o \in Owners,
             \/ \E C \in ClaimSets : AcquireBlocked(a, o, C)
             \/ RenewRefused(a, o) \/ ReleaseRefused(a, o)
      PROVE  Table!Lose
  BY <1>3, <1>4, <1>5 DEF AcquireBlocked, RenewRefused, ReleaseRefused
<1>6. ASSUME NEW a \in Agents, NEW o \in Owners, RenewGranted(a, o) \/ ReleaseGranted(a, o)
      PROVE  Table!Lose
  <2>1. Matching(o) \subseteq Live
    BY DEF Matching, OwnedLive
  <2>2. Live' \subseteq Live /\ counter' = counter
    BY <1>6 DEF RenewGranted, ReleaseGranted, Live
  <2>3. \A b \in Agents : op'[b].left \subseteq op[b].left \union Matching(o)
    BY <1>6, <1>t DEF RenewGranted, ReleaseGranted, TypeOK, NewOp
  <2>4. \A b \in Agents : op'[b].left \subseteq Live \union InHand
    BY <2>1, <2>3, LiveIsKnown
  <2>5. QED
    BY <2>2, <2>4, SubsetCovered, LoseStep
<1>7. ASSUME NEW a \in Agents, WriteAcquired(a) PROVE Table!Lose
  <2>. PICK l \in op[a].left : WriteAcquired(a)!2!(l)
    BY <1>7 DEF WriteAcquired
  <2>1. /\ files' \subseteq files \union {l} /\ UNCHANGED <<now, counter>> /\ Alike(l, l)
    BY <1>7 DEF WriteAcquired, Without, Alike
  <2>2. \E x : op' = [op EXCEPT ![a] = x] /\ x.left \subseteq op[a].left
    BY DEF Idle, Going
  <2>. QED  BY <1>t, <2>1, <2>2, WorkLoses
<1>8. ASSUME NEW a \in Agents, WriteRenewed(a) PROVE Table!Lose
  <2>. PICK l \in op[a].left : WriteRenewed(a)!2!(l)
    BY <1>8 DEF WriteRenewed
  <2>. DEFINE n == WithExp(l, now + Ttl)
  <2>1. files' \subseteq files \union {n} /\ UNCHANGED <<now, counter>>
    BY <1>8 DEF WriteRenewed, Without
  <2>2. Alike(n, l)
    BY DEF Alike, WithExp
  <2>3. \E x : op' = [op EXCEPT ![a] = x] /\ x.left \subseteq op[a].left
    BY DEF Idle, Going
  <2>. HIDE DEF n
  <2>. QED  BY <1>t, <2>1, <2>2, <2>3, WorkLoses
<1>9. ASSUME NEW a \in Agents, RemoveReleased(a) PROVE Table!Lose
  <2>. PICK l \in op[a].left : RemoveReleased(a)!2!(l)
    BY <1>9 DEF RemoveReleased
  <2>1. /\ files' \subseteq files \union {l} /\ UNCHANGED <<now, counter>> /\ Alike(l, l)
    BY <1>9 DEF RemoveReleased, Without, Alike
  <2>2. \E x : op' = [op EXCEPT ![a] = x] /\ x.left \subseteq op[a].left
    BY DEF Idle, Going
  <2>. QED  BY <1>t, <2>1, <2>2, WorkLoses
<1>10. ASSUME NEW a \in Agents, Interrupted(a) PROVE Table!Lose
  <2>1. Live' = Live /\ counter' = counter
    BY <1>10 DEF Interrupted, Live
  <2>2. \A b \in Agents : op'[b].left \subseteq op[b].left
    BY <1>10, <1>t DEF Interrupted, TypeOK, Idle
  <2>3. \A b \in Agents : op'[b].left \subseteq Live \union InHand
    BY <2>2, LiveIsKnown
  <2>. QED  BY <2>1, <2>3, SubsetCovered, LoseStep
<1>11. ASSUME NEW o \in Owners, OwnerStops(o) \/ AssertFails(o) PROVE Table!Lose
  BY <1>3, <1>4, <1>11 DEF OwnerStops, AssertFails, ReapUnlocked
<1>12. ASSUME ReaderLists \/ ReaderRemoves PROVE Table!Lose
  BY <1>3, <1>4, <1>12 DEF ReaderLists, ReaderRemoves, ReapUnlocked
<1>13. ASSUME Tick PROVE Table!Lose
  BY <1>3, <1>13, <1>t DEF Tick, TypeOK
<1>14. ASSUME UNCHANGED vars PROVE Table!Lose
  BY <1>3, <1>4, <1>14 DEF vars
<1>. QED
  BY <1>1, <1>2, <1>5, <1>6, <1>7, <1>8, <1>9, <1>10, <1>11, <1>12, <1>13, <1>14 DEF Next

(* The store implements the table of leases: for any claims, owners and     *)
(* agents, each of its steps takes a whole set of claims that is compatible *)
(* with everything held, or only takes leases away.                         *)
THEOREM StoreKeepsTable ==
    ASSUME LockLapses = FALSE PROVE Spec => KeepsTable
<1>1. Init => Table!Init
  BY DEF Init, Table!Init, Grants, Live, InHand, Idle
<1>2. LeaseInv /\ [Next]_vars => [Table!Next]_(Table!vars)
  BY TableStep
<1>3. QED
  BY <1>1, <1>2, LeaseInvariant, PTL DEF Spec, KeepsTable, Table!Spec

(* A lease that was granted under a token and is no longer held.            *)
Lost(c, o, t) ==
    t <= counter[c.key] /\ [claim |-> c, owner |-> o, token |-> t] \notin Grants

(* What is lost stays lost: no renewal that was on its way when the lease   *)
(* expired, was released or removed brings it back (renewExecutionLeases),  *)
(* and a token is never given twice (nextFencingToken).                     *)
THEOREM NothingRevived ==
    ASSUME LockLapses = FALSE
    PROVE  Spec => [][\A c \in UNION ClaimSets, o \in Owners, t \in Nat :
                         Lost(c, o, t) => Lost(c, o, t)']_vars
<1>1. ASSUME LeaseInv, [Next]_vars, NEW c \in UNION ClaimSets, NEW o \in Owners, NEW t \in Nat,
             Lost(c, o, t)
      PROVE  Lost(c, o, t)'
  <2>. DEFINE g == [claim |-> c, owner |-> o, token |-> t]
  <2>1. c.key \in AskedKeys /\ counter[c.key] \in Nat
    BY <1>1 DEF AskedKeys, LeaseInv, TypeOK
  <2>2. t <= counter[c.key] /\ g \notin Grants
    BY <1>1 DEF Lost
  <2>3. CASE Table!Lose
    BY <2>2, <2>3 DEF Table!Lose, Lost
  <2>4. ASSUME NEW p \in Owners, NEW C \in ClaimSets, Table!Grant(p, C) PROVE Lost(c, o, t)'
    <3>1. /\ Grants' = Grants \union
                {[claim |-> d, owner |-> p, token |-> counter[d.key] + 1] : d \in C}
          /\ counter' = [k \in AskedKeys |->
                            IF \E d \in C : d.key = k THEN counter[k] + 1 ELSE counter[k]]
      BY <2>4 DEF Table!Grant
    <3>2. ASSUME NEW d \in C, g = [claim |-> d, owner |-> p, token |-> counter[d.key] + 1]
          PROVE  FALSE
      <4>1. c = d /\ t = counter[d.key] + 1
        BY <3>2
      <4>. QED  BY <2>1, <2>2, <4>1
    <3>3. g \notin Grants'
      BY <2>2, <3>1, <3>2
    <3>4. counter'[c.key] \in {counter[c.key], counter[c.key] + 1}
      BY <2>1, <3>1
    <3>5. t <= counter'[c.key]
      BY <2>1, <2>2, <3>4
    <3>. QED  BY <3>3, <3>5 DEF Lost
  <2>5. Table!Next
    BY <1>1, TableStep
  <2>. QED  BY <2>3, <2>4, <2>5 DEF Table!Next
<1>2. LeaseInv /\ [Next]_vars =>
        [\A c \in UNION ClaimSets, o \in Owners, t \in Nat : Lost(c, o, t) => Lost(c, o, t)']_vars
  BY <1>1
<1>. QED
  BY <1>2, LeaseInvariant, PTL DEF Spec

-----------------------------------------------------------------------------
(* The relation between claims.  A path without segments, which is what is  *)
(* left of "**", overlaps no other that is safe, though it has every file;  *)
(* what follows is about claims that do without it.                         *)
NoneIsWhole == \A p \in Paths : p.unsafe \/ p.segs # <<>>

(* A prefix, place by place.                                                *)
LEMMA PrefixAt ==
    ASSUME NEW s \in Seq(STRING), NEW t \in Seq(STRING), Len(s) <= Len(t)
    PROVE  SubSeq(t, 1, Len(s)) = s <=> \A i \in 1 .. Len(s) : s[i] = t[i]
<1>1. Len(s) \in Nat /\ Len(t) \in Nat /\ 1 \in Int /\ Len(s) \in Int
  BY LenProperties
<1>2. \A i \in 1 .. Len(s) : t[i] \in STRING
  BY <1>1, ElementOfSeq
<1>3. /\ SubSeq(t, 1, Len(s)) \in Seq(STRING)
      /\ Len(SubSeq(t, 1, Len(s))) = Len(s)
      /\ \A i \in 1 .. Len(s) : SubSeq(t, 1, Len(s))[i] = t[i]
  <2>1. PICK n \in Int : n = Len(s) /\ n >= 0
    BY <1>1
  <2>2. /\ SubSeq(t, 1, n) \in Seq(STRING)
        /\ Len(SubSeq(t, 1, n)) = IF 1 <= n THEN n - 1 + 1 ELSE 0
        /\ \A i \in 1 .. n - 1 + 1 : SubSeq(t, 1, n)[i] = t[1 + i - 1]
    BY <1>1, <1>2, <2>1, SubSeqProperties
  <2>3. n - 1 + 1 = n /\ \A i \in 1 .. n : 1 + i - 1 = i
    BY <2>1
  <2>4. QED
    BY <2>1, <2>2, <2>3
<1>4. (\A i \in 1 .. Len(s) : s[i] = t[i]) => SubSeq(t, 1, Len(s)) = s
  BY <1>3, SeqEqual
<1>5. QED
  BY <1>3, <1>4

LEMMA PathTypes ==
    ASSUME NEW p \in Paths
    PROVE  p.segs \in Seq(STRING) /\ Len(p.segs) \in Nat /\ p.unsafe \in BOOLEAN
BY PathsAssumption, LenProperties DEF Path

(* A file is at a path when the path is a prefix of its name.               *)
LEMMA FilesOfPath ==
    ASSUME NEW p \in Paths
    PROVE  /\ FilesAt(p) # {} /\ FilesAt(p) \subseteq Files
           /\ p.unsafe => FilesAt(p) = Files
           /\ ~p.unsafe => \A f \in Files : f \in FilesAt(p) <=>
                 Len(p.segs) <= Len(f) /\ \A i \in 1 .. Len(p.segs) : p.segs[i] = f[i]
<1>1. FilesAt(p) # {}
  BY FootprintAssumption
<1>2. ASSUME NEW f \in Files, Len(p.segs) <= Len(f)
      PROVE  SubSeq(f, 1, Len(p.segs)) = p.segs <=> \A i \in 1 .. Len(p.segs) : p.segs[i] = f[i]
  BY <1>2, PathTypes, PrefixAt, FootprintAssumption
<1>3. QED
  BY <1>1, <1>2 DEF FilesAt

(* A path below another starts with all its segments, and has more.         *)
LEMMA BelowIs ==
    ASSUME NEW s \in Seq(STRING), NEW t \in Seq(STRING)
    PROVE  Below(s, t) <=> /\ Len(t) > 0 /\ Len(t) < Len(s)
                           /\ \A i \in 1 .. Len(t) : t[i] = s[i]
<1>1. Len(s) \in Nat /\ Len(t) \in Nat
  BY LenProperties
<1>2. Len(t) <= Len(s) => (SubSeq(s, 1, Len(t)) = t <=> \A i \in 1 .. Len(t) : t[i] = s[i])
  BY PrefixAt
<1>3. QED
  BY <1>1, <1>2 DEF Below

(* Two paths overlap exactly when some file is at both (pathOverlaps).      *)
LEMMA PathsShare ==
    ASSUME NoneIsWhole, NEW p \in Paths, NEW q \in Paths
    PROVE  PathOverlaps(p, q) <=> FilesAt(p) \intersect FilesAt(q) # {}
<1>1. CASE p.unsafe \/ q.unsafe
  BY <1>1, FilesOfPath DEF PathOverlaps
<1>2. CASE ~p.unsafe /\ ~q.unsafe
  <2>1. /\ p.segs \in Seq(STRING) /\ q.segs \in Seq(STRING)
        /\ Len(p.segs) \in Nat /\ Len(q.segs) \in Nat
    BY PathTypes
  <2>2. Len(p.segs) > 0 /\ Len(q.segs) > 0
    BY <1>2, <2>1, EmptySeq DEF NoneIsWhole
  <2>3. \A f \in Files : Len(f) \in Nat
    BY FootprintAssumption, LenProperties
  <2>4. ASSUME p.segs = q.segs PROVE FilesAt(p) \intersect FilesAt(q) # {}
    BY <1>2, <2>4, FilesOfPath
  <2>5. ASSUME Below(p.segs, q.segs) PROVE FilesAt(p) \intersect FilesAt(q) # {}
    <3>1. PICK f \in Files : f \in FilesAt(p)
      BY FilesOfPath
    <3>2. Len(q.segs) < Len(p.segs) /\ \A i \in 1 .. Len(q.segs) : q.segs[i] = p.segs[i]
      BY <2>1, <2>5, BelowIs
    <3>3. Len(p.segs) <= Len(f) /\ \A i \in 1 .. Len(p.segs) : p.segs[i] = f[i]
      BY <1>2, <3>1, FilesOfPath
    <3>4. Len(q.segs) <= Len(f) /\ \A i \in 1 .. Len(q.segs) : q.segs[i] = f[i]
      BY <2>1, <2>3, <3>2, <3>3
    <3>5. f \in FilesAt(q)
      BY <1>2, <3>4, FilesOfPath
    <3>6. QED
      BY <3>1, <3>5
  <2>6. ASSUME Below(q.segs, p.segs) PROVE FilesAt(p) \intersect FilesAt(q) # {}
    <3>1. PICK f \in Files : f \in FilesAt(q)
      BY FilesOfPath
    <3>2. Len(p.segs) < Len(q.segs) /\ \A i \in 1 .. Len(p.segs) : p.segs[i] = q.segs[i]
      BY <2>1, <2>6, BelowIs
    <3>3. Len(q.segs) <= Len(f) /\ \A i \in 1 .. Len(q.segs) : q.segs[i] = f[i]
      BY <1>2, <3>1, FilesOfPath
    <3>4. Len(p.segs) <= Len(f) /\ \A i \in 1 .. Len(p.segs) : p.segs[i] = f[i]
      BY <2>1, <2>3, <3>2, <3>3
    <3>5. f \in FilesAt(p)
      BY <1>2, <3>4, FilesOfPath
    <3>6. QED
      BY <3>1, <3>5
  <2>7. ASSUME NEW f \in Files, f \in FilesAt(p), f \in FilesAt(q) PROVE PathOverlaps(p, q)
    <3>1. /\ \A i \in 1 .. Len(p.segs) : p.segs[i] = f[i]
          /\ \A i \in 1 .. Len(q.segs) : q.segs[i] = f[i]
      BY <1>2, <2>7, FilesOfPath
    <3>2. CASE Len(p.segs) = Len(q.segs)
      <4>1. p.segs = q.segs
        BY <2>1, <3>1, <3>2, SeqEqual
      <4>2. QED
        BY <4>1 DEF PathOverlaps
    <3>3. CASE Len(p.segs) < Len(q.segs)
      <4>1. \A i \in 1 .. Len(p.segs) : p.segs[i] = q.segs[i]
        BY <2>1, <3>1, <3>3
      <4>2. QED
        BY <2>1, <2>2, <3>3, <4>1, BelowIs DEF PathOverlaps
    <3>4. CASE Len(q.segs) < Len(p.segs)
      <4>1. \A i \in 1 .. Len(q.segs) : q.segs[i] = p.segs[i]
        BY <2>1, <3>1, <3>4
      <4>2. QED
        BY <2>1, <2>2, <3>4, <4>1, BelowIs DEF PathOverlaps
    <3>5. QED
      BY <2>1, <3>2, <3>3, <3>4
  <2>8. FilesAt(p) \subseteq Files
    BY FilesOfPath
  <2>9. QED
    BY <1>2, <2>4, <2>5, <2>6, <2>7, <2>8 DEF PathOverlaps
<1>3. QED
  BY <1>1, <1>2

(* A footprint by its parts: files, the other parts of a checkout, and the  *)
(* references.                                                              *)
FilesOf(k) == IF k.kind \in {"repo-content", "workspace"} THEN Files
              ELSE IF k.kind = "path" THEN FilesAt(k.path) ELSE {}
PartsOf(k) == IF k.kind \in {"repo-content", "workspace"} THEN {"index", "head"}
              ELSE IF k.kind = "git-index" THEN {"index"}
              ELSE IF k.kind = "git-head" THEN {"head"}
              ELSE IF k.kind = "other" THEN {"other"} ELSE {}
HasRefs(k) == k.kind \in {"repo-content", "git-ref"}

(* What NormalizeResourceKey returns, but for releases.                     *)
Normal == {k \in Keys : k.kind \notin {"release", "workspace-read"}}

LEMMA KeyFields ==
    ASSUME NEW k \in Normal
    PROVE  /\ k.kind \in {"repo-content", "workspace", "path", "git-index", "git-head", "git-ref",
                          "other"}
           /\ k.kind = "repo-content" => k.at = Unscoped /\ k.path = NoPath
           /\ k.kind = "path" => k.at \in Names \union {Unscoped} /\ k.path \in Paths
           /\ k.kind \notin {"repo-content", "path"} => k.at \in Names /\ k.path = NoPath
           /\ k = [kind |-> k.kind, at |-> k.at, path |-> k.path]
BY DEF Normal, Keys

(* Normalising a key changes nothing of what it stands for.                 *)
LEMMA NormalKey ==
    ASSUME NEW k \in Keys, k.kind # "release"
    PROVE  /\ NormalizeResourceKey(k) \in Normal
           /\ Footprint(NormalizeResourceKey(k)) = Footprint(k)
<1>1. CASE k.kind = "workspace-read"
  <2>1. k \in [kind : {"workspace", "workspace-read", "git-index", "git-head", "git-ref", "other"},
               at : Names, path : {NoPath}]
    BY <1>1 DEF Keys
  <2> DEFINE n == NormalizeResourceKey(k)
  <2>2. n = [k EXCEPT !.kind = "workspace"]
    BY <1>1 DEF NormalizeResourceKey
  <2>3. /\ n \in [kind : {"workspace", "workspace-read", "git-index", "git-head", "git-ref", "other"},
                  at : Names, path : {NoPath}]
        /\ n.kind = "workspace" /\ n.at = k.at
    BY <2>1, <2>2
  <2>4. n \in Normal
    BY <2>3 DEF Normal, Keys
  <2>5. Footprint(n) = Footprint(k)
    BY <1>1, <2>3, Zenon DEF Footprint, CheckoutsOf
  <2>6. QED
    BY <2>4, <2>5
<1>2. CASE k.kind # "workspace-read"
  BY <1>2 DEF NormalizeResourceKey, Normal
<1>3. QED
  BY <1>1, <1>2

(* The footprint has those parts and no others.                             *)
LEMMA InFootprint ==
    ASSUME NEW k \in Normal, NEW e
    PROVE  e \in Footprint(k) <=>
              \/ e \in CheckoutsOf(k) \X {"file"} \X FilesOf(k)
              \/ e \in CheckoutsOf(k) \X PartsOf(k) \X {<<>>}
              \/ HasRefs(k) /\ e = <<Unscoped, "refs", <<>>>>
<1>1. \A C, x, y : C \X {x} \X {<<>>} \union C \X {y} \X {<<>>} = C \X {x, y} \X {<<>>}
  OBVIOUS
<1>2. \A C : C \X {"file"} \X {} = {} /\ C \X {} \X {<<>>} = {}
  OBVIOUS
<1> DEFINE C == CheckoutsOf(k)
<1> HIDE DEF C
<1>3. CASE k.kind = "repo-content"
  <2>1. Footprint(k) = C \X {"file"} \X Files \union C \X {"index"} \X {<<>>}
                          \union C \X {"head"} \X {<<>>} \union {<<Unscoped, "refs", <<>>>>}
    BY <1>3 DEF Footprint, C
  <2>2. FilesOf(k) = Files /\ PartsOf(k) = {"index", "head"} /\ HasRefs(k)
    BY <1>3 DEF FilesOf, PartsOf, HasRefs
  <2>3. QED
    BY <1>1, <2>1, <2>2 DEF C
<1>4. CASE k.kind = "workspace"
  <2>1. Footprint(k) = C \X {"file"} \X Files \union C \X {"index"} \X {<<>>}
                          \union C \X {"head"} \X {<<>>}
    BY <1>4 DEF Footprint, C
  <2>2. FilesOf(k) = Files /\ PartsOf(k) = {"index", "head"} /\ ~HasRefs(k)
    BY <1>4 DEF FilesOf, PartsOf, HasRefs
  <2>3. QED
    BY <1>1, <2>1, <2>2 DEF C
<1>5. CASE k.kind = "path"
  <2>1. Footprint(k) = C \X {"file"} \X FilesAt(k.path)
    BY <1>5 DEF Footprint, C
  <2>2. FilesOf(k) = FilesAt(k.path) /\ PartsOf(k) = {} /\ ~HasRefs(k)
    BY <1>5 DEF FilesOf, PartsOf, HasRefs
  <2>3. QED
    BY <1>2, <2>1, <2>2 DEF C
<1>6. CASE k.kind = "git-ref"
  <2>1. Footprint(k) = {<<Unscoped, "refs", <<>>>>}
    BY <1>6 DEF Footprint
  <2>2. FilesOf(k) = {} /\ PartsOf(k) = {} /\ HasRefs(k)
    BY <1>6 DEF FilesOf, PartsOf, HasRefs
  <2>3. QED
    BY <1>2, <2>1, <2>2 DEF C
<1>7. ASSUME NEW x, <<k.kind, x>> \in {<<"git-index", "index">>, <<"git-head", "head">>,
                                      <<"other", "other">>}
      PROVE  e \in Footprint(k) <=>
              \/ e \in CheckoutsOf(k) \X {"file"} \X FilesOf(k)
              \/ e \in CheckoutsOf(k) \X PartsOf(k) \X {<<>>}
              \/ HasRefs(k) /\ e = <<Unscoped, "refs", <<>>>>
  <2>1. Footprint(k) = C \X {x} \X {<<>>}
    BY <1>7 DEF Footprint, C
  <2>2. FilesOf(k) = {} /\ PartsOf(k) = {x} /\ ~HasRefs(k)
    BY <1>7 DEF FilesOf, PartsOf, HasRefs
  <2>3. QED
    BY <1>2, <2>1, <2>2 DEF C
<1>8. QED
  BY <1>3, <1>4, <1>5, <1>6, <1>7, KeyFields

(* Two keys share a file, another part of a checkout, or the references.    *)
Meet(l, r) == l.at = Unscoped \/ r.at = Unscoped \/ l.at = r.at

LEMMA ShareByParts ==
    ASSUME NEW l \in Normal, NEW r \in Normal
    PROVE  Footprint(l) \intersect Footprint(r) # {} <=>
              \/ Meet(l, r) /\ FilesOf(l) \intersect FilesOf(r) # {}
              \/ Meet(l, r) /\ PartsOf(l) \intersect PartsOf(r) # {}
              \/ HasRefs(l) /\ HasRefs(r)
<1>1. Meet(l, r) <=> CheckoutsOf(l) \intersect CheckoutsOf(r) # {}
  BY KeyFields, FootprintAssumption DEF Meet, CheckoutsOf
<1>2. "file" \notin PartsOf(l) \union PartsOf(r) /\ "refs" \notin PartsOf(l) \union PartsOf(r)
  BY DEF PartsOf
<1>3. ASSUME NEW e, e \in Footprint(l), e \in Footprint(r)
      PROVE  \/ Meet(l, r) /\ FilesOf(l) \intersect FilesOf(r) # {}
             \/ Meet(l, r) /\ PartsOf(l) \intersect PartsOf(r) # {}
             \/ HasRefs(l) /\ HasRefs(r)
  <2>1. /\ \/ e \in CheckoutsOf(l) \X {"file"} \X FilesOf(l)
           \/ e \in CheckoutsOf(l) \X PartsOf(l) \X {<<>>}
           \/ HasRefs(l) /\ e = <<Unscoped, "refs", <<>>>>
        /\ \/ e \in CheckoutsOf(r) \X {"file"} \X FilesOf(r)
           \/ e \in CheckoutsOf(r) \X PartsOf(r) \X {<<>>}
           \/ HasRefs(r) /\ e = <<Unscoped, "refs", <<>>>>
    BY <1>3, InFootprint
  <2>2. QED
    BY <1>1, <1>2, <2>1
<1>4. ASSUME Meet(l, r), NEW f, f \in FilesOf(l), f \in FilesOf(r)
      PROVE  Footprint(l) \intersect Footprint(r) # {}
  <2>1. PICK n : n \in CheckoutsOf(l) /\ n \in CheckoutsOf(r)
    BY <1>1, <1>4
  <2>2. <<n, "file", f>> \in Footprint(l) /\ <<n, "file", f>> \in Footprint(r)
    BY <1>4, <2>1, InFootprint
  <2>3. QED
    BY <2>2
<1>5. ASSUME Meet(l, r), NEW x, x \in PartsOf(l), x \in PartsOf(r)
      PROVE  Footprint(l) \intersect Footprint(r) # {}
  <2>1. PICK n : n \in CheckoutsOf(l) /\ n \in CheckoutsOf(r)
    BY <1>1, <1>5
  <2>2. <<n, x, <<>>>> \in Footprint(l) /\ <<n, x, <<>>>> \in Footprint(r)
    BY <1>5, <2>1, InFootprint
  <2>3. QED
    BY <2>2
<1>6. ASSUME HasRefs(l), HasRefs(r) PROVE Footprint(l) \intersect Footprint(r) # {}
  BY <1>6, InFootprint
<1>7. QED
  BY <1>3, <1>4, <1>5, <1>6

(* Two keys overlap exactly when they share something (resourceKeysOverlap).*)
LEMMA OverlapIsShare ==
    ASSUME NoneIsWhole, NEW l \in Normal, NEW r \in Normal
    PROVE  OverlapOfNormalized(l, r) <=> Footprint(l) \intersect Footprint(r) # {}
<1> DEFINE Shared == Footprint(l) \intersect Footprint(r) # {}
<1> HIDE DEF Shared
<1>1. ASSUME HasRefs(l), HasRefs(r) PROVE Shared
  BY <1>1, ShareByParts DEF Shared
<1>2. ASSUME Meet(l, r), NEW x, x \in PartsOf(l), x \in PartsOf(r) PROVE Shared
  BY <1>2, ShareByParts DEF Shared
<1>3. ASSUME Meet(l, r), NEW f, f \in FilesOf(l), f \in FilesOf(r) PROVE Shared
  BY <1>3, ShareByParts DEF Shared
<1>4. ASSUME Shared
      PROVE  \/ Meet(l, r) /\ FilesOf(l) \intersect FilesOf(r) # {}
             \/ Meet(l, r) /\ PartsOf(l) \intersect PartsOf(r) # {}
             \/ HasRefs(l) /\ HasRefs(r)
  BY <1>4, ShareByParts DEF Shared
<1>5. l.kind = "path" => FilesOf(l) = FilesAt(l.path) /\ FilesOf(l) # {} /\ FilesOf(l) \subseteq Files
  BY KeyFields, FilesOfPath DEF FilesOf
<1>6. r.kind = "path" => FilesOf(r) = FilesAt(r.path) /\ FilesOf(r) # {} /\ FilesOf(r) \subseteq Files
  BY KeyFields, FilesOfPath DEF FilesOf
<1>7. l.kind = "path" /\ r.kind = "path" =>
        (PathOverlaps(l.path, r.path) <=> FilesOf(l) \intersect FilesOf(r) # {})
  BY <1>5, <1>6, KeyFields, PathsShare
<1>8. /\ l.kind \in {"repo-content", "workspace"} => FilesOf(l) = Files
      /\ r.kind \in {"repo-content", "workspace"} => FilesOf(r) = Files
      /\ l.kind \notin {"repo-content", "workspace", "path"} => FilesOf(l) = {}
      /\ r.kind \notin {"repo-content", "workspace", "path"} => FilesOf(r) = {}
  BY DEF FilesOf
<1>9. ASSUME OverlapOfNormalized(l, r) PROVE Shared
  <2>1. CASE l = r
    <3>1. Meet(l, r)
      BY <2>1 DEF Meet
    <3>2. CASE l.kind = "path"
      BY <1>3, <1>5, <2>1, <3>1, <3>2
    <3>3. CASE l.kind = "git-ref"
      BY <1>1, <2>1, <3>3 DEF HasRefs
    <3>4. CASE l.kind \notin {"path", "git-ref"}
      BY <1>2, <2>1, <3>1, <3>4, KeyFields DEF PartsOf
    <3>5. QED
      BY <3>2, <3>3, <3>4
  <2>2. CASE l.kind = "repo-content" /\ r.kind \in Content
    <3>1. Meet(l, r)
      BY <2>2, KeyFields DEF Meet
    <3>2. CASE r.kind = "path"
      BY <1>3, <1>6, <1>8, <2>2, <3>1, <3>2
    <3>3. CASE r.kind = "git-ref"
      BY <1>1, <2>2, <3>3 DEF HasRefs
    <3>4. CASE r.kind \notin {"path", "git-ref"}
      BY <1>2, <2>2, <3>1, <3>4 DEF PartsOf, Content
    <3>5. QED
      BY <3>2, <3>3, <3>4
  <2>3. CASE r.kind = "repo-content" /\ l.kind \in Content
    <3>1. Meet(l, r)
      BY <2>3, KeyFields DEF Meet
    <3>2. CASE l.kind = "path"
      BY <1>3, <1>5, <1>8, <2>3, <3>1, <3>2
    <3>3. CASE l.kind = "git-ref"
      BY <1>1, <2>3, <3>3 DEF HasRefs
    <3>4. CASE l.kind \notin {"path", "git-ref"}
      BY <1>2, <2>3, <3>1, <3>4 DEF PartsOf, Content
    <3>5. QED
      BY <3>2, <3>3, <3>4
  <2>4. CASE WorkspaceCovers(l, r)
    <3>1. l.kind = "workspace" /\ Meet(l, r) /\ r.kind \in {"workspace", "path", "git-index", "git-head"}
      BY <2>4 DEF WorkspaceCovers, Meet
    <3>2. CASE r.kind = "path"
      BY <1>3, <1>6, <1>8, <3>1, <3>2
    <3>3. CASE r.kind # "path"
      BY <1>2, <3>1, <3>3 DEF PartsOf
    <3>4. QED
      BY <3>2, <3>3
  <2>5. CASE WorkspaceCovers(r, l)
    <3>1. r.kind = "workspace" /\ Meet(l, r) /\ l.kind \in {"workspace", "path", "git-index", "git-head"}
      BY <2>5 DEF WorkspaceCovers, Meet
    <3>2. CASE l.kind = "path"
      BY <1>3, <1>5, <1>8, <3>1, <3>2
    <3>3. CASE l.kind # "path"
      BY <1>2, <3>1, <3>3 DEF PartsOf
    <3>4. QED
      BY <3>2, <3>3
  <2>6. CASE PathsMeet(l, r)
    BY <1>3, <1>7, <2>6 DEF PathsMeet, Meet
  <2>7. CASE l.kind = "git-ref" /\ r.kind = "git-ref"
    BY <1>1, <2>7 DEF HasRefs
  <2>8. QED
    BY <1>9, <2>1, <2>2, <2>3, <2>4, <2>5, <2>6, <2>7, Zenon DEF OverlapOfNormalized
<1>10. ASSUME Shared PROVE OverlapOfNormalized(l, r)
  <2>1. CASE Meet(l, r) /\ FilesOf(l) \intersect FilesOf(r) # {}
    <3>1. /\ l.kind \in {"repo-content", "workspace", "path"}
          /\ r.kind \in {"repo-content", "workspace", "path"}
      BY <1>8, <2>1
    <3>2. CASE l.kind = "repo-content" \/ r.kind = "repo-content"
      BY <3>1, <3>2 DEF OverlapOfNormalized, Content
    <3>3. CASE l.kind = "workspace" \/ r.kind = "workspace"
      BY <2>1, <3>1, <3>2, <3>3, KeyFields, FootprintAssumption
      DEF OverlapOfNormalized, WorkspaceCovers, Meet
    <3>4. CASE l.kind = "path" /\ r.kind = "path"
      BY <1>7, <2>1, <3>4 DEF OverlapOfNormalized, PathsMeet, Meet
    <3>5. QED
      BY <3>1, <3>2, <3>3, <3>4
  <2>2. CASE Meet(l, r) /\ PartsOf(l) \intersect PartsOf(r) # {}
    <3>1. CASE l.kind = "repo-content" \/ r.kind = "repo-content"
      BY <2>2, <3>1, KeyFields DEF OverlapOfNormalized, PartsOf, Content
    <3>2. CASE l.kind # "repo-content" /\ r.kind # "repo-content"
      <4>1. /\ l.kind \in {"workspace", "git-index", "git-head", "other"}
            /\ r.kind \in {"workspace", "git-index", "git-head", "other"}
            /\ l.kind = r.kind \/ (l.kind = "workspace" /\ r.kind \in {"git-index", "git-head"})
                  \/ (r.kind = "workspace" /\ l.kind \in {"git-index", "git-head"})
        BY <2>2, <3>2 DEF PartsOf
      <4>2. /\ l.path = NoPath /\ r.path = NoPath
            /\ l.at = r.at
        BY <2>2, <4>1, KeyFields, FootprintAssumption DEF Meet
      <4>3. CASE l.kind = r.kind
        <5>1. l = r
          BY <4>2, <4>3, KeyFields, Zenon
        <5>2. QED
          BY <5>1 DEF OverlapOfNormalized
      <4>4. CASE l.kind # r.kind
        BY <4>1, <4>2, <4>4 DEF OverlapOfNormalized, WorkspaceCovers
      <4>5. QED
        BY <4>3, <4>4
    <3>3. QED
      BY <3>1, <3>2
  <2>3. CASE HasRefs(l) /\ HasRefs(r)
    BY <2>3 DEF HasRefs, OverlapOfNormalized, Content
  <2>4. QED
    BY <1>4, <1>10, <2>1, <2>2, <2>3
<1>11. QED
  BY <1>9, <1>10 DEF Shared

(* A conflict by the kinds and modes of the two claims.                     *)
LEMMA ConflictIs ==
    ASSUME NEW c, NEW d
    PROVE  ResourceClaimsConflict(c, d) <=>
              IF c.key.kind = "release" \/ d.key.kind = "release"
              THEN /\ c.key.kind = "release" \/ c.mode # "read"
                   /\ d.key.kind = "release" \/ d.mode # "read"
              ELSE ResourceKeysOverlap(c.key, d.key) /\ (c.mode # "read" \/ d.mode # "read")
BY DEF ResourceClaimsConflict

(* Apart from releases, claims conflict exactly when they share something   *)
(* that one of them changes.                                                *)
LEMMA ConflictExact ==
    ASSUME NoneIsWhole
    PROVE  Precision
<1>1. SUFFICES ASSUME NEW a \in Claims, NEW b \in Claims, Ordinary(a), Ordinary(b)
               PROVE  ResourceKeysOverlap(a.key, b.key) <=> Share(a, b)
  BY ConflictIs DEF Precision, Ordinary
<1>2. a.key \in Keys /\ b.key \in Keys /\ a.key.kind # "release" /\ b.key.kind # "release"
  BY <1>1 DEF Claims, Ordinary
<1>3. QED
  BY <1>2, NormalKey, OverlapIsShare DEF ResourceKeysOverlap, Share

(* Two claims exclude each other exactly when they share a file, an index,  *)
(* a head or the references and one of them changes it, for all checkouts   *)
(* and paths: independent checkouts and disjoint paths never exclude each   *)
(* other (resourceClaimsConflict).                                          *)
THEOREM ConflictsAreSharedWrites ==
    ASSUME NoneIsWhole
    PROVE  Spec => []ConflictIsSharedWrite
<1>1. ConflictIsSharedWrite
  BY ConflictExact DEF ConflictIsSharedWrite
<1>2. QED
  BY <1>1, PTL

(* A claim conflicts as its normalised key and its strength tell.           *)
Merged(c) == [key |-> NormalizeResourceKey(c.key), mode |-> c.mode]

LEMMA NormalizedOnce ==
    ASSUME NEW k
    PROVE  /\ NormalizeResourceKey(NormalizeResourceKey(k)) = NormalizeResourceKey(k)
           /\ k \in Keys => (NormalizeResourceKey(k).kind = "release" <=> k.kind = "release")
<1>1. CASE k.kind = "workspace-read"
  <2> DEFINE n == [k EXCEPT !.kind = "workspace"]
  <2>1. NormalizeResourceKey(k) = n
    BY <1>1 DEF NormalizeResourceKey
  <2>2. n.kind # "workspace-read" /\ (k \in Keys => n.kind = "workspace")
    BY <1>1 DEF Keys
  <2>3. QED
    BY <1>1, <2>1, <2>2 DEF NormalizeResourceKey
<1>2. CASE k.kind # "workspace-read"
  BY <1>2 DEF NormalizeResourceKey
<1>3. QED
  BY <1>1, <1>2

(* A claim as strong on the same key conflicts with as much.                *)
LEMMA StrongerConflicts ==
    ASSUME NEW c \in Claims, NEW e \in Claims, NEW d,
           NormalizeResourceKey(c.key) = NormalizeResourceKey(e.key),
           Rank[c.mode] <= Rank[e.mode],
           ResourceClaimsConflict(c, d)
    PROVE  ResourceClaimsConflict(e, d)
<1>1. c.key \in Keys /\ e.key \in Keys /\ c.mode \in Modes /\ e.mode \in Modes
  BY DEF Claims
<1>2. c.key.kind = "release" <=> e.key.kind = "release"
  BY <1>1, NormalizedOnce
<1>3. e.mode = "read" => c.mode = "read"
  BY <1>1 DEF Modes, Rank
<1>4. ResourceKeysOverlap(c.key, d.key) <=> ResourceKeysOverlap(e.key, d.key)
  BY DEF ResourceKeysOverlap
<1>5. QED
  BY <1>2, <1>3, <1>4, ConflictIs

LEMMA MergedConflicts ==
    ASSUME NEW c \in Claims, NEW d
    PROVE  ResourceClaimsConflict(Merged(c), d) <=> ResourceClaimsConflict(c, d)
<1>1. c.key \in Keys
  BY DEF Claims
<1>2. Merged(c).key.kind = "release" <=> c.key.kind = "release"
  BY <1>1, NormalizedOnce DEF Merged
<1>3. ResourceKeysOverlap(Merged(c).key, d.key) <=> ResourceKeysOverlap(c.key, d.key)
  BY NormalizedOnce DEF Merged, ResourceKeysOverlap
<1>4. Merged(c).mode = c.mode
  BY DEF Merged
<1>5. QED
  BY <1>2, <1>3, <1>4, ConflictIs

(* Of the claims on a key one is as strong as all the others.               *)
LEMMA StrongestOfKey ==
    ASSUME NEW S, S \subseteq Claims, NEW c \in S
    PROVE  \E e \in S : /\ NormalizeResourceKey(e.key) = NormalizeResourceKey(c.key)
                        /\ Rank[c.mode] <= Rank[e.mode]
                        /\ \A f \in S : NormalizeResourceKey(f.key) = NormalizeResourceKey(e.key)
                                           => Rank[f.mode] <= Rank[e.mode]
<1> DEFINE T == {e \in S : NormalizeResourceKey(e.key) = NormalizeResourceKey(c.key)}
<1>1. \A e \in S : e.mode \in Modes
  BY DEF Claims
<1>2. Rank["read"] = 1 /\ Rank["write"] = 2 /\ Rank["exclusive"] = 3
  BY DEF Rank
<1>3. c \in T
  OBVIOUS
<1>4. CASE \E e \in T : e.mode = "exclusive"
  BY <1>1, <1>2, <1>4 DEF Modes
<1>5. CASE (\A e \in T : e.mode # "exclusive") /\ \E e \in T : e.mode = "write"
  BY <1>1, <1>2, <1>5 DEF Modes
<1>6. CASE \A e \in T : e.mode \notin {"exclusive", "write"}
  BY <1>1, <1>2, <1>3, <1>6 DEF Modes
<1>7. QED
  BY <1>4, <1>5, <1>6

(* However many claims a command makes, the merged ones conflict with       *)
(* exactly what one of them conflicted with (normalizeClaims).              *)
THEOREM MergeKeepsEveryConflict ==
    ASSUME NEW S, S \subseteq Claims, S # {}, NEW readOnly, NEW d
    PROVE  (\E x \in NormalizeClaims(S, readOnly) : ResourceClaimsConflict(x, d))
              <=> (\E x \in S : ResourceClaimsConflict(x, d))
<1> DEFINE Strongest(e) == \A f \in S : NormalizeResourceKey(f.key) = NormalizeResourceKey(e.key)
                                          => Rank[f.mode] <= Rank[e.mode]
<1>1. NormalizeClaims(S, readOnly) = {Merged(e) : e \in {e \in S : Strongest(e)}}
  BY DEF NormalizeClaims, Merged
<1>2. ASSUME NEW e \in S, ResourceClaimsConflict(Merged(e), d) PROVE ResourceClaimsConflict(e, d)
  BY <1>2, MergedConflicts
<1>3. ASSUME NEW c \in S, ResourceClaimsConflict(c, d)
      PROVE  \E e \in S : Strongest(e) /\ ResourceClaimsConflict(Merged(e), d)
  <2>1. PICK e \in S : /\ NormalizeResourceKey(e.key) = NormalizeResourceKey(c.key)
                       /\ Rank[c.mode] <= Rank[e.mode] /\ Strongest(e)
    BY StrongestOfKey
  <2>2. ResourceClaimsConflict(Merged(e), d)
    BY <1>3, <2>1, StrongerConflicts, MergedConflicts
  <2>3. QED
    BY <2>1, <2>2
<1> HIDE DEF Strongest
<1>4. QED
  BY <1>1, <1>2, <1>3

(* In particular two of them, with whatever a third party asks for.         *)
THEOREM MergesKeepConflicts == Spec => []MergeKeepsConflicts
<1>1. MergeExact
  <2>1. ASSUME NEW a \in Claims, NEW b \in Claims, NEW c
        PROVE  (\E x \in NormalizeClaims({a, b}, FALSE) : ResourceClaimsConflict(x, c))
                  <=> (\E x \in {a, b} : ResourceClaimsConflict(x, c))
    <3>1. {a, b} \subseteq Claims /\ {a, b} # {}
      BY <2>1
    <3>2. QED
      BY <3>1, MergeKeepsEveryConflict, Zenon
  <2>2. QED
    BY <2>1 DEF MergeExact, Probes
<1>2. MergeKeepsConflicts
  BY <1>1 DEF MergeKeepsConflicts
<1>3. QED
  BY <1>2, PTL
=============================================================================
