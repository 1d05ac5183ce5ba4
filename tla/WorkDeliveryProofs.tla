-------------------------- MODULE WorkDeliveryProofs --------------------------
(* The books of a Work are true, its completion is for good, nothing        *)
(* unreviewed is delivered and what is completed was delivered, for any     *)
(* number of edits, checks and faults.                                      *)
EXTENDS WorkDelivery, TLAPS

Statuses == {"running", "blocked", "ready"} \union Terminal
Phases == {"implementation", "verification", "review", "delivery", "cleanup"}

(* What the updates of a contract leave alone.                              *)
LEMMA TurnKeeps ==
    ASSUME NEW c \in Contract, NEW phase \in Phases, NEW status \in Statuses
    PROVE  /\ Turn(c, phase, status) \in Contract
           /\ Turn(c, phase, status).passed = c.passed
           /\ Turn(c, phase, status).review = c.review
           /\ Turn(c, phase, status).receipt = c.receipt
           /\ Turn(c, phase, status).evidence = c.evidence
           /\ Turn(c, phase, status).phase = phase
           /\ Turn(c, phase, status).status = status
           /\ Turn(c, phase, status).live \in BOOLEAN
<1> DEFINE live == IF status = "ready" THEN c.live ELSE status \notin Terminal
<1>1. live \in BOOLEAN
  BY DEF Contract
<1> HIDE DEF live
<1>2. [c EXCEPT !.phase = phase, !.status = status, !.live = live] \in Contract
  BY <1>1 DEF Contract, Phases, Statuses
<1>3. Turn(c, phase, status) = [c EXCEPT !.phase = phase, !.status = status, !.live = live]
  BY DEF Turn, live
<1>4. QED
  BY <1>1, <1>2, <1>3 DEF Contract

LEMMA RearmedKeeps ==
    ASSUME NEW c \in Contract
    PROVE  /\ Rearmed(c) \in Contract
           /\ Rearmed(c).passed = c.passed
           /\ Rearmed(c).review = c.review
           /\ Rearmed(c).receipt = c.receipt
           /\ Rearmed(c).phase = c.phase
           /\ Rearmed(c).status = c.status
BY DEF Rearmed, Contract

LEMMA ProjectedKeeps ==
    ASSUME NEW c \in Contract, NEW result \in {"ok", "bad", "lost"}, NEW candidate
    PROVE  /\ Projected(c, result, candidate) \in Contract
           /\ Projected(c, result, candidate).passed = c.passed
           /\ Projected(c, result, candidate).review = c.review
           /\ Projected(c, result, candidate).receipt = c.receipt
           /\ c.receipt => Projected(c, result, candidate) = c
<1> DEFINE P == Projected(c, result, candidate)
<1>1. CASE c.receipt
  BY <1>1 DEF Projected
<1>2. CASE ~c.receipt /\ result = "ok" /\ Authoritative(c, candidate)
  <2>1. P = [c EXCEPT !.evidence = "valid"] \/ P = c
    BY <1>2 DEF Projected
  <2>2. QED
    BY <2>1, <1>2 DEF Contract
<1>3. CASE ~c.receipt /\ ~(result = "ok" /\ Authoritative(c, candidate)) /\ result = "bad"
  <2>1. P = [Turn(c, "cleanup", "failed") EXCEPT !.evidence = "failed"]
    BY <1>3 DEF Projected
  <2>2. QED
    BY <2>1, <1>3, TurnKeeps DEF Contract, Phases, Statuses, Terminal
<1>4. CASE ~c.receipt /\ ~(result = "ok" /\ Authoritative(c, candidate)) /\ result # "bad"
  <2>1. CASE ~MayTurn(c, "running")
    BY <2>1, <1>4 DEF Projected
  <2>2. CASE MayTurn(c, "running") /\ result = "ok"
    <3>1. P = [Turn(c, "review", "running") EXCEPT !.evidence = "valid"]
      BY <2>2, <1>4 DEF Projected
    <3>2. QED
      BY <3>1, <1>4, TurnKeeps DEF Contract, Phases, Statuses, Terminal
  <2>3. CASE MayTurn(c, "running") /\ result # "ok"
    <3>1. P = Rearmed(Turn(c, "verification", "running"))
      BY <2>3, <1>4 DEF Projected
    <3> DEFINE T == Turn(c, "verification", "running")
    <3>2. /\ T \in Contract /\ T.passed = c.passed /\ T.review = c.review
          /\ T.receipt = c.receipt
      BY TurnKeeps DEF Phases, Statuses
    <3> HIDE DEF T
    <3>3. P = Rearmed(T)
      BY <3>1 DEF T
    <3>4. QED
      BY <3>2, <3>3, <1>4, RearmedKeeps
  <2>4. QED
    BY <2>1, <2>2, <2>3
<1>5. QED
  BY <1>1, <1>2, <1>3, <1>4

LEMMA AnsweredKeeps ==
    ASSUME NEW h \in Handle, h.run # None, NEW result \in {"ok", "bad", "lost"}
    PROVE  /\ Answered(h, result) \in Handle
           /\ Answered(h, result).commit = h.commit
BY DEF Answered, Handle, ValidationRun, Stage

LEMMA OutdatedKeeps ==
    ASSUME TypeOK
    PROVE  /\ Outdated \in [fresh : BOOLEAN, of : Candidate] \union {None}
           /\ Outdated # None => ~Outdated.fresh
BY DEF TypeOK, Outdated

LEMMA InitRecords == Init => RecordsInv
<1> SUFFICES ASSUME Init PROVE RecordsInv
  OBVIOUS
<1>1. 0 \in Versions /\ 0 \in 0 .. MaxChecks /\ 0 \in 0 .. MaxFaults
  BY DeliveryNumbers DEF Versions
<1>2. contract \in Contract
  BY DEF Init, Contract
<1>3. handle \in Handle
  BY <1>1 DEF Init, Handle, Stage
<1>4. TypeOK
  BY <1>1, <1>2, <1>3 DEF Init, TypeOK, disk, bounds, ghosts
<1>5. BooksTrue
  BY DEF Init, BooksTrue
<1>6. UnderWay
  BY DEF Init, UnderWay
<1>7. QED
  BY <1>4, <1>5, <1>6 DEF RecordsInv

LEMMA SettleKeeps ==
    ASSUME TypeOK, NEW h \in Handle, h.run # None, NEW c \in Contract,
           NEW result \in {"ok", "bad", "lost"}, NEW candidate, Settle(h, c, result, candidate)
    PROVE  /\ handle' \in Handle /\ handle'.commit = h.commit
           /\ indexed' \in BOOLEAN
           /\ contract' \in Contract
           /\ contract'.passed = c.passed /\ contract'.review = c.review
           /\ contract'.receipt = c.receipt
           /\ c.receipt => contract' = c
           /\ faults' \in 0 .. MaxFaults
<1>1. handle' = Answered(h, result) /\ indexed' \in BOOLEAN
  BY DEF Settle, Wrote, Pending
<1>2. contract' = Projected(c, result, candidate) \/ contract' = c
  BY DEF Settle
<1>3. faults' \in 0 .. MaxFaults
  BY DeliveryNumbers DEF Settle, Fault, TypeOK
<1>4. QED
  BY <1>1, <1>2, <1>3, AnsweredKeeps, ProjectedKeeps

LEMMA EditStep == ASSUME RecordsInv, Edit PROVE RecordsInv'
<1> USE DEF RecordsInv
<1>1. TypeOK'
  BY DeliveryNumbers DEF Edit, TypeOK, Versions, ghosts
<1>2. BooksTrue'
  BY DEF Edit, BooksTrue, ghosts
<1>3. made \in Nat /\ made + 1 \notin approved /\ tree' = made + 1 /\ made' = made + 1
  BY DeliveryNumbers DEF Edit, TypeOK, UnderWay, Versions
<1>4. UnderWay'
  BY <1>3, DeliveryNone, DeliveryNumbers DEF Edit, UnderWay, Unmixed, SkippedBefore, TypeOK, Versions, ghosts
<1>5. QED
  BY <1>1, <1>2, <1>4

LEMMA HandCommitStep == ASSUME RecordsInv, HandCommit PROVE RecordsInv'
<1> USE DEF RecordsInv
<1>1. /\ contract' = contract /\ tree' = tree /\ head' = tree /\ target' = target /\ process' = process
      /\ fin' = fin /\ made' = made /\ checks' = checks /\ approved' = approved /\ proven' = proven
      /\ tree # None /\ tree \in Versions
      /\ faults' \in 0 .. MaxFaults
      /\ sneaked' = (sneaked \/ (fin # None /\ fin.at = "merging"))
  BY DeliveryNumbers DEF HandCommit, Fault, TypeOK
<1>2. /\ handle' \in Handle /\ handle'.commit = handle.commit
      /\ indexed' \in BOOLEAN
      /\ (val' = val /\ handle' = handle) \/ val' = Outdated
  BY <1>1 DEF HandCommit, TypeOK, Wrote, Pending, Handle
<1>3. val' \in [fresh : BOOLEAN, of : Candidate] \union {None}
  BY <1>2, OutdatedKeeps DEF TypeOK
<1>4. TypeOK'
  BY <1>1, <1>2, <1>3 DEF TypeOK
<1>5. BooksTrue'
  BY <1>1, <1>2, OutdatedKeeps DEF BooksTrue
<1>6. UnderWay'
  BY <1>1, <1>2, OutdatedKeeps, DeliveryNone DEF UnderWay, Unmixed, SkippedBefore
<1>7. QED
  BY <1>4, <1>5, <1>6

LEMMA CandidateHere ==
    ASSUME TypeOK, UnderWay, tree # None
    PROVE  Current \in Candidate /\ tree \in Versions /\ head \in Versions /\ Current.tree = tree
                /\ Current.head = head
BY DEF TypeOK, UnderWay, Current, Candidate

LEMMA ValidateStartStep == ASSUME RecordsInv, ValidateStart PROVE RecordsInv'
<1> USE DEF RecordsInv
<1>1. /\ UNCHANGED <<tree, head, target, fin, made, approved, proven, sneaked>>
      /\ val = None /\ fin = None /\ tree # None /\ checks' \in 0 .. MaxChecks
  BY DeliveryNumbers DEF ValidateStart, HandleValid, disk, ghosts, TypeOK
<1>2. Current \in Candidate
  BY <1>1, CandidateHere
<1>3. /\ StartedRun \in ValidationRun /\ StartedRun # None
      /\ StartedRun.of = Current
  <2>1. CASE handle.run # None /\ handle.run.of = Current
    <3>1. handle.run \in ValidationRun
      BY <2>1 DEF TypeOK, Handle
    <3>2. QED
      BY <2>1, <3>1 DEF StartedRun
  <2>2. CASE ~(handle.run # None /\ handle.run.of = Current)
    <3>1. StartedRun = [of |-> Current, bound |-> FALSE,
                        resume |-> IF handle.state \in {"committed", "merged"} THEN handle.state ELSE "editing"]
      BY <2>2 DEF StartedRun
    <3>2. StartedRun \in ValidationRun
      BY <3>1, <1>2 DEF ValidationRun
    <3>3. QED
      BY <3>1, <3>2, DeliveryNone
  <2>3. QED
    BY <2>1, <2>2
<1>4. Started \in Handle /\ Started.run # None /\ Started.commit = handle.commit
  BY <1>3 DEF Started, TypeOK, Handle, Stage
<1>5. CASE /\ Current \in contract.passed
           /\ Settle(Started, [contract EXCEPT !.evidence = IF contract.receipt THEN @ ELSE "valid"], "ok", Current)
           /\ UNCHANGED <<process, val>>
  <2> DEFINE c == [contract EXCEPT !.evidence = IF contract.receipt THEN @ ELSE "valid"]
  <2>1. c \in Contract /\ c.passed = contract.passed /\ c.review = contract.review
        /\ c.receipt = contract.receipt /\ c.phase = contract.phase /\ c.status = contract.status
    BY DEF TypeOK, Contract
  <2> HIDE DEF c
  <2>2. Settle(Started, c, "ok", Current)
    BY <1>5 DEF c
  <2>3. /\ handle' \in Handle /\ indexed' \in BOOLEAN
        /\ contract' \in Contract /\ contract'.passed = contract.passed
        /\ contract'.review = contract.review /\ contract'.receipt = contract.receipt
        /\ c.receipt => contract' = c
        /\ faults' \in 0 .. MaxFaults
    BY <1>4, <2>1, <2>2, SettleKeeps
  <2>4. TypeOK'
    BY <1>1, <1>5, <2>3 DEF TypeOK
  <2>5. BooksTrue'
    BY <1>1, <1>5, <2>1, <2>3 DEF BooksTrue
  <2>6. UnderWay'
    BY <1>1, <1>5, <2>3 DEF UnderWay
  <2>7. QED
    BY <2>4, <2>5, <2>6
<1>6. CASE /\ Wrote(Started) /\ contract' = Rearmed(contract) /\ UNCHANGED faults
           /\ \/ /\ process' = IF process # None /\ process.of = Current /\ process.result \in {"running", "ok"}
                               THEN process ELSE [of |-> Current, result |-> "running"]
                 /\ val' = [fresh |-> TRUE, of |-> Current]
              \/ UNCHANGED <<process, val>>
  <2>1. handle' = Started /\ indexed' \in BOOLEAN
    BY <1>6 DEF Wrote, Pending
  <2>2. /\ process' \in Process \union {None}
        /\ process' # process => process' # None /\ process'.result = "running" /\ process'.of = Current
        /\ val' = None \/ (val' \in [fresh : BOOLEAN, of : Candidate] /\ val'.of = Current
                             /\ process' # None /\ process'.of = Current)
    <3>1. [of |-> Current, result |-> "running"] \in Process
      BY <1>2 DEF Process
    <3>2. [of |-> Current, result |-> "running"] # None
      BY <3>1, DeliveryNone
    <3>3. CASE UNCHANGED <<process, val>>
      BY <3>3, <1>1 DEF TypeOK
    <3>4. CASE /\ process' = IF process # None /\ process.of = Current /\ process.result \in {"running", "ok"}
                             THEN process ELSE [of |-> Current, result |-> "running"]
               /\ val' = [fresh |-> TRUE, of |-> Current]
      <4>1. val' \in [fresh : BOOLEAN, of : Candidate] /\ val'.of = Current
        BY <3>4, <1>2
      <4>2. \/ process # None /\ process.of = Current /\ process' = process
            \/ process' = [of |-> Current, result |-> "running"]
        BY <3>4
      <4>3. QED
        BY <4>1, <4>2, <3>1, <3>2 DEF TypeOK
    <3>5. QED
      BY <3>3, <3>4, <1>6
  <2>3. TypeOK'
    BY <1>1, <1>4, <1>6, <2>1, <2>2, RearmedKeeps DEF TypeOK
  <2>4. BooksTrue'
    BY <1>1, <1>6, <2>2, RearmedKeeps DEF BooksTrue, TypeOK
  <2>5. UnderWay'
    BY <1>1, <1>4, <1>6, <2>1, RearmedKeeps DEF UnderWay, TypeOK
  <2>6. QED
    BY <2>3, <2>4, <2>5
<1>7. CASE Fault /\ handle' = Started /\ UNCHANGED <<contract, indexed, process, val>>
  <2>1. faults' \in 0 .. MaxFaults
    BY <1>7, DeliveryNumbers DEF Fault, TypeOK
  <2>2. TypeOK'
    BY <1>1, <1>4, <1>7, <2>1 DEF TypeOK
  <2>3. BooksTrue'
    BY <1>1, <1>7 DEF BooksTrue
  <2>4. UnderWay'
    BY <1>1, <1>7 DEF UnderWay
  <2>5. QED
    BY <2>2, <2>3, <2>4
<1>8. QED
  BY <1>5, <1>6, <1>7 DEF ValidateStart

LEMMA ProcessEndsStep == ASSUME RecordsInv, ProcessEnds PROVE RecordsInv'
<1> USE DEF RecordsInv
<1>1. PICK result \in {"ok", "bad", "lost"} :
          /\ process' = [process EXCEPT !.result = result]
          /\ proven' = IF result = "ok" THEN proven \union {process.of.tree} ELSE proven
          /\ IF result = "lost" THEN Fault ELSE UNCHANGED faults
  BY DEF ProcessEnds
<1>2. /\ UNCHANGED <<contract, handle, indexed, tree, head, target, val, fin, made, checks, approved, sneaked>>
      /\ process \in Process
  BY DEF ProcessEnds, disk, TypeOK
<1>3. /\ process' \in Process /\ process'.of = process.of /\ process'.result = result
      /\ process.of.tree \in Versions
  BY <1>1, <1>2 DEF Process, Candidate
<1>4. faults' \in 0 .. MaxFaults
  BY <1>1, DeliveryNumbers DEF Fault, TypeOK
<1>5. TypeOK'
  BY <1>1, <1>2, <1>3, <1>4 DEF TypeOK
<1>6. BooksTrue'
  BY <1>1, <1>2, <1>3, DeliveryNone DEF BooksTrue
<1>7. UnderWay'
  BY <1>1, <1>2 DEF UnderWay, Unmixed, SkippedBefore
<1>8. QED
  BY <1>5, <1>6, <1>7

LEMMA ValidateReturnStep == ASSUME RecordsInv, ValidateReturn PROVE RecordsInv'
<1> USE DEF RecordsInv
<1> DEFINE bound == [handle EXCEPT !.run.bound = TRUE]
           result == process.result
           record == IF result = "ok" THEN [contract EXCEPT !.passed = @ \union {val.of}] ELSE contract
<1>1. /\ UNCHANGED <<tree, head, target, process, fin, made, checks, approved, proven, sneaked>>
      /\ val # None /\ fin = None /\ val' = None /\ val.of \in Candidate
  BY DEF ValidateReturn, disk, ghosts, TypeOK
<1>2. CASE ~val.fresh /\ UNCHANGED <<contract, handle, indexed, faults>>
  <2>1. TypeOK' /\ UnderWay'
    BY <1>1, <1>2 DEF TypeOK, UnderWay
  <2>2. BooksTrue'
    BY <1>1, <1>2 DEF BooksTrue
  <2>3. QED
    BY <2>1, <2>2
<1>3. ASSUME val.fresh
      PROVE  /\ bound \in Handle /\ bound.run # None /\ bound.commit = handle.commit
             /\ process \in Process /\ process # None /\ process.of = val.of
             /\ record \in Contract /\ record.review = contract.review
             /\ record.receipt = contract.receipt /\ record.phase = contract.phase
             /\ record.status = contract.status
             /\ \A c \in record.passed : c.tree \in proven
  <2>1. process \in Process /\ process # None /\ process.of = val.of /\ handle.run # None
    BY <1>1, <1>3 DEF BooksTrue, UnderWay, TypeOK
  <2>2. handle.run \in ValidationRun
    BY <2>1 DEF TypeOK, Handle
  <2>3. bound \in Handle /\ bound.run \in ValidationRun /\ bound.commit = handle.commit
    BY <2>2 DEF TypeOK, Handle, ValidationRun
  <2>4. /\ record \in Contract /\ record.review = contract.review
        /\ record.receipt = contract.receipt /\ record.phase = contract.phase
        /\ record.status = contract.status
        /\ record.passed = contract.passed
             \/ (result = "ok" /\ record.passed = contract.passed \union {val.of})
    BY <1>1 DEF TypeOK, Contract
  <2>5. \A c \in record.passed : c.tree \in proven
    BY <2>1, <2>4 DEF BooksTrue
  <2>6. QED
    BY <2>1, <2>3, <2>4, <2>5, DeliveryNone
<1> HIDE DEF bound, result, record
<1>4. CASE val.fresh /\ result = "running" /\ Wrote(bound) /\ UNCHANGED <<contract, faults>>
  <2>1. handle' = bound /\ indexed' \in BOOLEAN
    BY <1>4 DEF Wrote, Pending
  <2>2. TypeOK'
    BY <1>1, <1>3, <1>4, <2>1 DEF TypeOK
  <2>3. BooksTrue'
    BY <1>1, <1>4 DEF BooksTrue
  <2>4. UnderWay'
    BY <1>1, <1>4 DEF UnderWay
  <2>5. QED
    BY <2>2, <2>3, <2>4
<1>5. CASE val.fresh /\ result # "running" /\ Settle(bound, record, result, val.of)
  <2>1. result \in {"ok", "bad", "lost"}
    BY <1>3, <1>5 DEF result, Process
  <2>2. /\ handle' \in Handle /\ indexed' \in BOOLEAN
        /\ contract' \in Contract /\ contract'.passed = record.passed
        /\ contract'.review = record.review /\ contract'.receipt = record.receipt
        /\ record.receipt => contract' = record
        /\ faults' \in 0 .. MaxFaults
    BY <1>3, <1>5, <2>1, SettleKeeps
  <2>3. TypeOK'
    BY <1>1, <2>2 DEF TypeOK
  <2>4. BooksTrue'
    BY <1>1, <1>3, <1>5, <2>2 DEF BooksTrue
  <2>5. UnderWay'
    BY <1>1 DEF UnderWay
  <2>6. QED
    BY <2>3, <2>4, <2>5
<1>6. CASE val.fresh /\ result # "running" /\ Fault /\ Wrote(bound) /\ contract' \in {contract, record}
  <2>1. handle' = bound /\ indexed' \in BOOLEAN /\ faults' \in 0 .. MaxFaults
    BY <1>6, DeliveryNumbers DEF Wrote, Pending, Fault, TypeOK
  <2>2. TypeOK'
    BY <1>1, <1>3, <1>6, <2>1 DEF TypeOK
  <2>3. BooksTrue'
    BY <1>1, <1>3, <1>6 DEF BooksTrue
  <2>4. UnderWay'
    BY <1>1 DEF UnderWay
  <2>5. QED
    BY <2>2, <2>3, <2>4
<1>7. QED
  BY <1>2, <1>4, <1>5, <1>6 DEF ValidateReturn, bound, result, record

LEMMA SweepStep == ASSUME RecordsInv, Sweep PROVE RecordsInv'
<1> USE DEF RecordsInv
<1>1. /\ UNCHANGED <<tree, head, target, process, fin, made, checks, approved, proven, sneaked>>
      /\ handle.run # None /\ fin = None /\ val' = Outdated
      /\ process.result \in {"ok", "bad", "lost"}
      /\ Settle(handle, contract, process.result, None)
  BY DEF Sweep, Swept, Pending, disk, ghosts, TypeOK, Process
<1>2. /\ handle' \in Handle /\ indexed' \in BOOLEAN
      /\ contract' \in Contract /\ contract'.passed = contract.passed
      /\ contract'.review = contract.review /\ contract'.receipt = contract.receipt
      /\ contract.receipt => contract' = contract
      /\ faults' \in 0 .. MaxFaults
  BY <1>1, SettleKeeps DEF TypeOK
<1>3. TypeOK'
  BY <1>1, <1>2, OutdatedKeeps DEF TypeOK
<1>4. BooksTrue'
  BY <1>1, <1>2, OutdatedKeeps DEF BooksTrue
<1>5. UnderWay'
  BY <1>1, OutdatedKeeps DEF UnderWay
<1>6. QED
  BY <1>3, <1>4, <1>5

LEMMA DecideReviewStep ==
    ASSUME RecordsInv, NEW decision \in Decisions, DecideReview(decision) PROVE RecordsInv'
<1> USE DEF RecordsInv
<1>1. /\ UNCHANGED <<handle, indexed, tree, head, target, process, val, fin, made, checks, faults, proven, sneaked>>
      /\ fin = None /\ tree # None
      /\ approved' = IF decision = "approved" THEN approved \union {tree} ELSE approved
  BY DEF DecideReview, disk, bounds
<1>2. Current \in Candidate /\ Current.tree = tree /\ tree \in Versions
  BY <1>1, CandidateHere
<1>3. \E phase \in Phases, status \in Statuses :
          /\ ~contract.receipt
          /\ contract' = [Turn(contract, phase, status) EXCEPT
                             !.review = [of |-> Current, decision |-> decision]]
  <2>1. CASE decision = "approved"
    <3>1. ~contract.receipt /\ contract' = [Turn(contract, "delivery", "running") EXCEPT
                                              !.review = [of |-> Current, decision |-> decision]]
      BY <2>1 DEF DecideReview, MayTurn
    <3>2. QED
      BY <3>1 DEF Phases, Statuses
  <2>2. CASE decision = "changes_required"
    <3>1. ~contract.receipt /\ contract' = [Turn(contract, "implementation", "running") EXCEPT
                                              !.review = [of |-> Current, decision |-> decision]]
      BY <2>2 DEF DecideReview, MayTurn
    <3>2. QED
      BY <3>1 DEF Phases, Statuses
  <2>3. CASE decision = "blocked"
    <3>1. ~contract.receipt /\ contract' = [Turn(contract, "review", "blocked") EXCEPT
                                              !.review = [of |-> Current, decision |-> decision]]
      BY <2>3 DEF DecideReview, MayTurn
    <3>2. QED
      BY <3>1 DEF Phases, Statuses
  <2>4. QED
    BY <2>1, <2>2, <2>3 DEF Decisions
<1>a. PICK phase \in Phases, status \in Statuses :
          /\ ~contract.receipt
          /\ contract' = [Turn(contract, phase, status) EXCEPT
                             !.review = [of |-> Current, decision |-> decision]]
  BY <1>3
<1> DEFINE t == Turn(contract, phase, status)
<1>4. t \in Contract /\ t.passed = contract.passed /\ t.receipt = contract.receipt /\ ~contract.receipt
  BY <1>a, TurnKeeps DEF TypeOK
<1> HIDE DEF t
<1>5. [of |-> Current, decision |-> decision] \in Review
  BY <1>2 DEF Review
<1>6. /\ contract' \in Contract /\ contract'.passed = contract.passed /\ ~contract'.receipt
      /\ contract'.review = [of |-> Current, decision |-> decision]
  BY <1>a, <1>4, <1>5 DEF t, Contract
<1>7. TypeOK'
  BY <1>1, <1>2, <1>6 DEF TypeOK
<1>8. BooksTrue'
  BY <1>1, <1>2, <1>6 DEF BooksTrue
<1>9. UnderWay'
  <2>1. tree \in 0 .. made
    BY <1>1, <1>2, DeliveryNone, DeliveryNumbers DEF UnderWay, TypeOK, Versions
  <2>2. QED
    BY <1>1, <1>6, <2>1 DEF UnderWay
<1>10. QED
  BY <1>7, <1>8, <1>9

(* An action that turns the contract and nothing else.                      *)
LEMMA TurnedStep ==
    ASSUME RecordsInv, ~contract.receipt, NEW phase \in Phases, NEW status \in Statuses,
           contract' = Turn(contract, phase, status),
           UNCHANGED <<handle, indexed, tree, head, target, process, val, fin, made, checks, faults,
                       approved, proven, sneaked>>
    PROVE  RecordsInv'
<1> USE DEF RecordsInv
<1>1. /\ contract' \in Contract /\ contract'.passed = contract.passed
      /\ contract'.review = contract.review /\ ~contract'.receipt
  BY TurnKeeps DEF TypeOK
<1>2. TypeOK'
  BY <1>1 DEF TypeOK
<1>3. BooksTrue'
  BY <1>1 DEF BooksTrue
<1>4. UnderWay'
  BY <1>1 DEF UnderWay, Unmixed, SkippedBefore
<1>5. QED
  BY <1>2, <1>3, <1>4

LEMMA JudgeStep == ASSUME RecordsInv, Judge PROVE RecordsInv'
<1>1. /\ ~contract.receipt
      /\ UNCHANGED <<handle, indexed, tree, head, target, process, val, fin, made, checks, faults,
                     approved, proven, sneaked>>
  BY DEF Judge, disk, bounds, ghosts
<1>2. \/ contract' = Turn(contract, "verification", "running")
      \/ contract' = Turn(contract, "review", "running")
      \/ contract' = Turn(contract, "cleanup", "failed")
      \/ contract' = Turn(contract, "delivery", "ready")
  BY DEF Judge
<1>3. /\ {"verification", "review", "cleanup", "delivery"} \subseteq Phases
      /\ {"running", "failed", "ready"} \subseteq Statuses
  BY DEF Phases, Statuses, Terminal
<1>4. QED
  BY <1>1, <1>2, <1>3, TurnedStep

LEMMA StopStep == ASSUME RecordsInv, Stop PROVE RecordsInv'
<1>1. /\ ~contract.receipt
      /\ UNCHANGED <<handle, indexed, tree, head, target, process, val, fin, made, checks, faults,
                     approved, proven, sneaked>>
      /\ contract' = Turn(contract, "cleanup", "cancelled")
  BY DEF Stop, MayTurn, disk, bounds, ghosts
<1>2. "cleanup" \in Phases /\ "cancelled" \in Statuses
  BY DEF Phases, Statuses, Terminal
<1>3. QED
  BY <1>1, <1>2, TurnedStep

LEMMA CleanupStep == ASSUME RecordsInv, Cleanup PROVE RecordsInv'
<1> USE DEF RecordsInv
<1>1. /\ UNCHANGED <<contract, target, fin, made, checks, faults, approved, proven, sneaked>>
      /\ fin = None /\ val' = Outdated /\ tree' = None /\ head' = None
      /\ handle' \in Handle /\ indexed' \in BOOLEAN
  BY DEF Cleanup, Wrote, Pending, bounds, ghosts, TypeOK, Handle
<1>2. /\ process' \in Process \union {None}
      /\ process' # None /\ process'.result = "ok" => process' = process
  <2>1. CASE process # None /\ process.result = "running"
    BY <2>1 DEF Cleanup, TypeOK, Process
  <2>2. CASE ~(process # None /\ process.result = "running")
    BY <2>2 DEF Cleanup, TypeOK
  <2>3. QED
    BY <2>1, <2>2
<1>3. TypeOK'
  BY <1>1, <1>2, OutdatedKeeps DEF TypeOK
<1>4. BooksTrue'
  BY <1>1, <1>2, OutdatedKeeps DEF BooksTrue
<1>5. UnderWay'
  BY <1>1, OutdatedKeeps DEF UnderWay
<1>6. QED
  BY <1>3, <1>4, <1>5

LEMMA CrashStep == ASSUME RecordsInv, Crash PROVE RecordsInv'
<1> USE DEF RecordsInv
<1>1. /\ UNCHANGED <<contract, handle, indexed, tree, head, target, process, made, checks, approved, proven, sneaked>>
      /\ val' = None /\ fin' = None /\ faults' \in 0 .. MaxFaults
  BY DeliveryNumbers DEF Crash, Fault, disk, ghosts, TypeOK
<1>2. TypeOK' /\ BooksTrue' /\ UnderWay'
  BY <1>1 DEF TypeOK, BooksTrue, UnderWay
<1>3. QED
  BY <1>2

LEMMA ReceiptKeeps ==
    ASSUME TypeOK
    PROVE  /\ WithReceipt(contract) \in Contract
           /\ WithReceipt(contract).passed = contract.passed
           /\ WithReceipt(contract).review = contract.review
           /\ WithReceipt(contract).receipt
           /\ WithReceipt(contract).status = "completed"
           /\ WithReceipt(contract).phase = "cleanup"
<1> DEFINE t == Turn(contract, "cleanup", "completed")
<1>1. /\ t \in Contract /\ t.passed = contract.passed /\ t.review = contract.review
      /\ t.status = "completed" /\ t.phase = "cleanup"
  BY TurnKeeps DEF TypeOK, Phases, Statuses, Terminal
<1> HIDE DEF t
<1>2. WithReceipt(contract) = [t EXCEPT !.evidence = "valid", !.receipt = TRUE]
  BY DEF WithReceipt, t
<1>3. QED
  BY <1>1, <1>2 DEF Contract

LEMMA RecoverCompletionStep == ASSUME RecordsInv, RecoverCompletion PROVE RecordsInv'
<1> USE DEF RecordsInv
<1>1. /\ UNCHANGED <<handle, indexed, tree, head, target, process, val, fin, made, checks, faults,
                     approved, proven, sneaked>>
      /\ contract' = WithReceipt(contract)
  BY DEF RecoverCompletion, disk, bounds, ghosts
<1>2. TypeOK'
  BY <1>1, ReceiptKeeps DEF TypeOK
<1>3. BooksTrue'
  BY <1>1, ReceiptKeeps DEF BooksTrue
<1>4. UnderWay'
  BY <1>1 DEF UnderWay, Unmixed, SkippedBefore
<1>5. QED
  BY <1>2, <1>3, <1>4

(* A step of a finalization that is past its merge, or gives up: whatever   *)
(* it writes into the handle, the contract keeps its books.                 *)
LatePlaces == {"tree", "removed", "branch", "deleted", "finish", "complete"}

LEMMA LateStep ==
    ASSUME RecordsInv,
           \/ fin' = None
           \/ /\ fin # None
              /\ \E place \in LatePlaces : fin' = [fin EXCEPT !.at = place]
              /\ handle'.commit = handle.commit \/ handle'.commit # "failed",
           val' = Outdated \/ (val' = val /\ handle' = handle),
           handle' \in Handle, indexed' \in BOOLEAN,
           contract' \in Contract, contract'.passed = contract.passed,
           contract'.review = contract.review,
           contract'.receipt => contract' = contract \/ (contract'.status = "completed" /\ contract'.phase = "cleanup"),
           tree' = tree \/ tree' = None, head' = head \/ (head' = None /\ tree' = None),
           UNCHANGED <<target, process, made, checks, approved, proven, sneaked>>,
           faults' \in 0 .. MaxFaults
    PROVE  RecordsInv'
<1> USE DEF RecordsInv
<1>1. fin' \in Finalize \union {None} /\ (fin' # None => fin # None /\ fin'.wants = fin.wants /\ fin'.at \in LatePlaces)
  BY DEF TypeOK, Finalize, LatePlaces
<1>2. TypeOK'
  BY <1>1, OutdatedKeeps DEF TypeOK
<1>3. BooksTrue'
  BY <1>1, OutdatedKeeps DEF BooksTrue, LatePlaces
<1>4. UnderWay'
  BY <1>1, OutdatedKeeps DEF UnderWay, LatePlaces, Building
<1>5. QED
  BY <1>2, <1>3, <1>4

StageNames == {"validation", "commit", "merge", "worktree", "branch"}

LEMMA FailStageStep ==
    ASSUME RecordsInv, NEW stage \in StageNames, FailStage(stage),
           UNCHANGED <<tree, head, target, process, made, checks, approved, proven, sneaked>>,
           faults' \in 0 .. MaxFaults
    PROVE  RecordsInv'
<1> USE DEF RecordsInv
<1>1. /\ fin' = None /\ val' = Outdated
      /\ handle' \in Handle /\ indexed' \in BOOLEAN
  BY DEF FailStage, Quit, Wrote, Pending, TypeOK, Handle, Stage, StageNames
<1>2. /\ RetryPhase(stage) \in Phases /\ "cleanup" \in Phases
      /\ {"failed", "blocked"} \subseteq Statuses
  BY DEF RetryPhase, Phases, Statuses, Terminal
<1>3. /\ contract' \in Contract /\ contract'.passed = contract.passed
      /\ contract'.review = contract.review
      /\ contract'.receipt => contract' = contract
  <2>1. CASE contract' = contract
    BY <2>1 DEF TypeOK
  <2>2. CASE contract' # contract
    <3>1. PICK phase \in Phases, status \in Statuses : contract' = Turn(contract, phase, status)
      BY <1>2, <2>2 DEF FailStage
    <3>2. ~contract.receipt
      BY <2>2 DEF FailStage
    <3>3. QED
      BY <3>1, <3>2, TurnKeeps DEF TypeOK
  <2>3. QED
    BY <2>1, <2>2
<1>4. QED
  BY <1>1, <1>3, LateStep

(* A finalization that gives up without a word, or looks on only.           *)
LEMMA QuitStep ==
    ASSUME RecordsInv, Quit,
           UNCHANGED <<contract, handle, indexed, tree, head, target, process, val, made, checks, faults,
                       approved, proven, sneaked>>
    PROVE  RecordsInv'
<1>1. /\ fin' = None /\ handle' \in Handle /\ indexed' \in BOOLEAN /\ contract' \in Contract
      /\ faults' \in 0 .. MaxFaults
  BY DEF Quit, RecordsInv, TypeOK
<1>2. QED
  BY <1>1, LateStep

LEMMA FinalizeBeginStep ==
    ASSUME RecordsInv, NEW wants \in Wants, FinalizeBegin(wants) PROVE RecordsInv'
<1> USE DEF RecordsInv
<1>1. /\ UNCHANGED <<tree, head, target, process, made, checks, faults, approved, proven, sneaked>>
      /\ fin' = [wants |-> wants, of |-> None, at |-> "check"]
      /\ val' = Outdated /\ handle' = Reset(handle, wants) /\ indexed' \in BOOLEAN
  BY DEF FinalizeBegin, Wrote, Pending, disk, bounds, ghosts
<1> DEFINE again(stage, on) == IF on /\ handle[stage] = "failed" THEN "pending" ELSE handle[stage]
           v == again("validation", TRUE)
           c == again("commit", "commit" \in wants)
           m == again("merge", "merge" \in wants)
           w == again("worktree", "cleanup" \in wants)
           b == again("branch", "cleanup" \in wants)
           s == IF handle.state # "failed" THEN handle.state
                ELSE IF handle.merge = "done" THEN "merged"
                ELSE IF handle.commit = "done" THEN "committed" ELSE "validating"
<1>a. /\ v \in Stage /\ c \in Stage /\ m \in Stage /\ w \in Stage /\ b \in Stage
      /\ s \in {"editing", "validating", "committed", "merged", "cleaned", "failed", "ending"}
      /\ "commit" \in wants => c # "failed"
  BY DEF TypeOK, Handle, Stage
<1>b. Reset(handle, wants) = [handle EXCEPT !.validation = v, !.commit = c, !.merge = m,
                                            !.worktree = w, !.branch = b, !.state = s]
  BY DEF Reset
<1> HIDE DEF v, c, m, w, b, s
<1>2. Reset(handle, wants) \in Handle
  BY <1>a, <1>b DEF TypeOK, Handle
<1>3. "commit" \in wants => Reset(handle, wants).commit # "failed"
  BY <1>a, <1>b DEF TypeOK, Handle
<1>4. fin' \in Finalize /\ fin'.at = "check" /\ fin'.wants = wants
  BY <1>1 DEF Finalize
<1>5. /\ contract' \in Contract /\ contract'.passed = contract.passed
      /\ contract'.review = contract.review
      /\ contract'.receipt => contract' = contract
  <2>1. CASE contract' = contract
    BY <2>1 DEF TypeOK
  <2>2. CASE contract' # contract
    <3>1. contract' = Turn(contract, "cleanup", "running") /\ contract.status = "failed"
      BY <2>2 DEF FinalizeBegin
    <3>2. ~contract.receipt
      BY <3>1 DEF BooksTrue
    <3>3. "cleanup" \in Phases /\ "running" \in Statuses
      BY DEF Phases, Statuses
    <3>4. QED
      BY <3>1, <3>2, <3>3, TurnKeeps DEF TypeOK
  <2>3. QED
    BY <2>1, <2>2
<1>6. TypeOK'
  BY <1>1, <1>2, <1>4, <1>5, OutdatedKeeps DEF TypeOK
<1>7. BooksTrue'
  BY <1>1, <1>4, <1>5, OutdatedKeeps DEF BooksTrue
<1>8. UnderWay'
  BY <1>1, <1>3, <1>4, OutdatedKeeps DEF UnderWay, Building
<1>9. QED
  BY <1>6, <1>7, <1>8

LEMMA FailedCleanupStep == ASSUME RecordsInv, FailedCleanup PROVE RecordsInv'
<1> USE DEF RecordsInv
<1>1. /\ UNCHANGED <<contract, target, process, fin, made, checks, faults, approved, proven, sneaked>>
      /\ fin = None /\ val' = Outdated /\ tree' = None /\ head' = None
      /\ indexed' \in BOOLEAN
  BY DEF FailedCleanup, Wrote, Pending, bounds, ghosts
<1> DEFINE c == IF handle.commit = "pending" THEN "skipped" ELSE handle.commit
           m == IF handle.merge = "pending" THEN "skipped" ELSE handle.merge
<1>a. c \in Stage /\ m \in Stage
  BY DEF TypeOK, Handle, Stage
<1>b. handle' = [handle EXCEPT !.state = "cleaned", !.validation = "failed", !.worktree = "done",
                               !.branch = "done", !.commit = c, !.merge = m]
  BY DEF FailedCleanup, Wrote
<1> HIDE DEF c, m
<1>2. handle' \in Handle
  BY <1>a, <1>b DEF TypeOK, Handle, Stage
<1>3. QED
  BY <1>1, <1>2, LateStep DEF TypeOK

-----------------------------------------------------------------------------
LEMMA FinalizeCheckStep == ASSUME RecordsInv, FinalizeCheck PROVE RecordsInv'
<1> USE DEF RecordsInv
<1>1. /\ UNCHANGED <<tree, head, target, process, made, checks, faults, approved, proven, sneaked>>
      /\ fin # None /\ fin \in Finalize /\ fin.at = "check" /\ faults' \in 0 .. MaxFaults
  BY DEF FinalizeCheck, At, disk, bounds, ghosts, TypeOK
<1>2. CASE /\ Wrote([handle EXCEPT !.state = "merged", !.validation = "done", !.merge = "done",
                                   !.commit = IF @ = "done" THEN @ ELSE "skipped",
                                   !.branch = IF @ = "done" THEN @ ELSE "pending"])
           /\ val' = Outdated /\ Go("tree") /\ UNCHANGED contract
  <2> DEFINE c == IF handle.commit = "done" THEN handle.commit ELSE "skipped"
             b == IF handle.branch = "done" THEN handle.branch ELSE "pending"
  <2>1. c \in Stage /\ b \in Stage /\ c # "failed"
    BY DEF TypeOK, Handle, Stage
  <2>2. handle' = [handle EXCEPT !.state = "merged", !.validation = "done", !.merge = "done",
                                 !.commit = c, !.branch = b]
        /\ indexed' \in BOOLEAN
    BY <1>2 DEF Wrote, Pending
  <2> HIDE DEF c, b
  <2>3. handle' \in Handle /\ handle'.commit # "failed"
    BY <2>1, <2>2 DEF TypeOK, Handle, Stage
  <2>4. "tree" \in LatePlaces /\ fin' = [fin EXCEPT !.at = "tree"]
    BY <1>2 DEF LatePlaces, Go
  <2>5. QED
    BY <1>1, <1>2, <2>2, <2>3, <2>4, LateStep DEF TypeOK
<1>3. CASE Quit /\ UNCHANGED <<contract, handle, indexed, val>>
  BY <1>1, <1>3, QuitStep
<1>4. CASE FailStage("validation")
  BY <1>1, <1>4, FailStageStep DEF StageNames
<1>5. CASE /\ Wrote([handle EXCEPT !.validation = "pending", !.validated = None]) /\ val' = Outdated
           /\ contract' = Rearmed(contract) /\ Quit
  <2>1. handle' \in Handle /\ indexed' \in BOOLEAN /\ fin' = None
    BY <1>5 DEF Wrote, Pending, Quit, TypeOK, Handle, Stage
  <2>2. /\ contract' \in Contract /\ contract'.passed = contract.passed
        /\ contract'.review = contract.review
        /\ contract'.receipt => contract' = contract
    BY <1>5, RearmedKeeps DEF TypeOK, Rearmed
  <2>3. QED
    BY <1>1, <1>5, <2>1, <2>2, LateStep
<1>6. CASE /\ HandleValid
           /\ ~("merge" \in fin.wants /\ ~Wanted("commit") /\ ~Clean)
           /\ IF Wanted("commit") /\ handle.commit = "done" /\ ~Clean
              THEN /\ Wrote([handle EXCEPT !.state = "validating", !.commit = "pending",
                                           !.merge = IF @ = "done" THEN "pending" ELSE @])
                   /\ val' = Outdated
              ELSE UNCHANGED <<handle, indexed, val>>
           /\ fin' = [fin EXCEPT !.at = "commit", !.of = Current]
           /\ UNCHANGED contract
  <2>1. Current \in Candidate /\ tree # None
    BY <1>6, CandidateHere DEF HandleValid
  <2>2. fin' \in Finalize /\ fin'.at = "commit" /\ fin'.wants = fin.wants
    BY <1>1, <1>6, <2>1 DEF Finalize
  <2>3. /\ handle' \in Handle /\ indexed' \in BOOLEAN
        /\ \/ handle'.commit = "pending" /\ val' = Outdated
           \/ /\ UNCHANGED <<handle, indexed, val>>
              /\ ~(Wanted("commit") /\ handle.commit = "done" /\ ~Clean)
    <3>1. CASE Wanted("commit") /\ handle.commit = "done" /\ ~Clean
      <4> DEFINE m == IF handle.merge = "done" THEN "pending" ELSE handle.merge
      <4>1. m \in Stage
        BY DEF TypeOK, Handle, Stage
      <4>2. handle' = [handle EXCEPT !.state = "validating", !.commit = "pending", !.merge = m]
            /\ indexed' \in BOOLEAN /\ val' = Outdated
        BY <1>6, <3>1 DEF Wrote, Pending
      <4> HIDE DEF m
      <4>3. QED
        BY <4>1, <4>2 DEF TypeOK, Handle, Stage
    <3>2. CASE ~(Wanted("commit") /\ handle.commit = "done" /\ ~Clean)
      BY <1>6, <3>2 DEF TypeOK
    <3>3. QED
      BY <3>1, <3>2
  <2>4. TypeOK'
    BY <1>1, <1>6, <2>2, <2>3, OutdatedKeeps DEF TypeOK
  <2>5. BooksTrue'
    BY <1>1, <1>6, <2>2, <2>3, OutdatedKeeps DEF BooksTrue
  <2>6. UnderWay'
    BY <1>1, <1>6, <2>1, <2>2, <2>3, OutdatedKeeps DEF UnderWay, Unmixed, Clean, Wanted, Building
  <2>7. QED
    BY <2>4, <2>5, <2>6
<1>7. QED
  BY <1>2, <1>3, <1>4, <1>5, <1>6 DEF FinalizeCheck

(* A step of a finalization on its way from its check to its merge, at      *)
(* which only the place and a stage of the handle change.                   *)
LEMMA ContractStands ==
    ASSUME RecordsInv, UNCHANGED <<contract, target, process, made, checks, approved, proven, sneaked>>,
           tree' = tree, head' \in Versions, fin' \in Finalize,
           fin'.at \in {"committing", "committed"} => fin'.of # None
                                                   /\ fin'.of.tree \in approved \intersect proven,
           val' = Outdated \/ (val' = val /\ handle' = handle),
           handle' \in Handle, indexed' \in BOOLEAN, faults' \in 0 .. MaxFaults
    PROVE  TypeOK' /\ BooksTrue'
<1> USE DEF RecordsInv
<1>1. TypeOK'
  BY OutdatedKeeps DEF TypeOK
<1>2. BooksTrue'
  BY OutdatedKeeps DEF BooksTrue
<1>3. QED
  BY <1>1, <1>2

LEMMA GateTells ==
    ASSUME RecordsInv, tree # None, Gate(Current)
    PROVE  tree \in approved \intersect proven
BY CandidateHere DEF RecordsInv, BooksTrue, Gate, Approves, Current

LEMMA FinalizeCommitStep == ASSUME RecordsInv, FinalizeCommit PROVE RecordsInv'
<1> USE DEF RecordsInv
<1>1. /\ UNCHANGED <<tree, head, target, process, made, checks, faults, approved, proven, sneaked>>
      /\ fin # None /\ fin \in Finalize /\ fin.at = "commit" /\ faults' \in 0 .. MaxFaults
      /\ tree # None /\ head \in Versions
  BY CandidateHere DEF FinalizeCommit, At, disk, bounds, ghosts, TypeOK, UnderWay, Building
<1>2. CASE Quit /\ UNCHANGED <<contract, handle, indexed, val>>
  BY <1>1, <1>2, QuitStep
<1>3. CASE FailStage("commit")
  BY <1>1, <1>3, FailStageStep DEF StageNames
<1>4. CASE /\ Current = fin.of /\ Gate(Current) /\ Go("committing")
           /\ UNCHANGED <<contract, handle, indexed, val>>
  <2>1. tree \in approved \intersect proven /\ fin.of.tree = tree /\ fin.of \in Candidate
    BY <1>1, <1>4, GateTells, CandidateHere
  <2>2. fin' \in Finalize /\ fin'.at = "committing" /\ fin'.of = fin.of /\ fin'.wants = fin.wants
    BY <1>1, <1>4 DEF Go, Finalize
  <2>3. TypeOK' /\ BooksTrue'
    <3>1. fin'.of # None
      BY <2>1, <2>2, DeliveryNone
    <3>2. QED
      BY <1>1, <1>4, <2>1, <2>2, <3>1, ContractStands DEF TypeOK
  <2>4. UnderWay'
    BY <1>1, <1>4, <2>2 DEF UnderWay, Building
  <2>5. QED
    BY <2>3, <2>4

<1>5. CASE /\ ~Wanted("commit") /\ handle.commit = "pending" /\ HandleValid
           /\ Wrote(IF Clean /\ head = handle.expected /\ head # 0
                    THEN [handle EXCEPT !.commit = "done", !.state = "committed"]
                    ELSE [handle EXCEPT !.commit = "skipped"])
           /\ val' = Outdated /\ Go("merge") /\ UNCHANGED contract
  <2>1. handle' \in Handle /\ indexed' \in BOOLEAN
    <3>1. /\ [handle EXCEPT !.commit = "done", !.state = "committed"] \in Handle
          /\ [handle EXCEPT !.commit = "skipped"] \in Handle
      BY DEF TypeOK, Handle, Stage
    <3>2. QED
      BY <1>5, <3>1 DEF Wrote, Pending
  <2>2. fin' \in Finalize /\ fin'.at = "merge" /\ fin'.wants = fin.wants /\ "commit" \notin fin.wants
    BY <1>1, <1>5 DEF Go, Finalize, Wanted
  <2>3. TypeOK' /\ BooksTrue'
    BY <1>1, <1>5, <2>1, <2>2, ContractStands DEF TypeOK
  <2>4. UnderWay'
    BY <1>1, <1>5, <2>1, <2>2, OutdatedKeeps DEF UnderWay, Unmixed, Building
  <2>5. QED
    BY <2>3, <2>4
<1>6. CASE handle.commit # "pending" /\ Go("merge") /\ UNCHANGED <<contract, handle, indexed, val>>
  <2>1. fin' \in Finalize /\ fin'.at = "merge" /\ fin'.wants = fin.wants
    BY <1>1, <1>6 DEF Go, Finalize
  <2>2. TypeOK' /\ BooksTrue'
    BY <1>1, <1>6, <2>1, ContractStands DEF TypeOK
  <2>3. UnderWay'
    BY <1>1, <1>6, <2>1 DEF UnderWay, Unmixed, Building
  <2>4. QED
    BY <2>2, <2>3
<1>7. QED
  BY <1>2, <1>3, <1>4, <1>5, <1>6 DEF FinalizeCommit

LEMMA CommittingStep == ASSUME RecordsInv, Committing PROVE RecordsInv'
<1> USE DEF RecordsInv
<1>1. /\ UNCHANGED <<contract, handle, indexed, tree, target, process, val, made, checks, faults,
                     approved, proven, sneaked>>
      /\ fin # None /\ fin \in Finalize /\ fin.at = "committing" /\ tree # None /\ tree \in Versions
      /\ head' = tree
  BY DEF Committing, At, bounds, ghosts, TypeOK, UnderWay, Building
<1>2. /\ fin' \in Finalize /\ fin'.at = "committed"
      /\ fin'.wants = fin.wants /\ fin'.of = fin.of
  BY <1>1 DEF Committing, Go, Finalize, TypeOK
<1>3. fin.of # None /\ fin.of.tree \in approved \intersect proven
  BY <1>1 DEF BooksTrue
<1>4. TypeOK' /\ BooksTrue'
  BY <1>1, <1>2, <1>3, ContractStands DEF TypeOK
<1>5. UnderWay'
  BY <1>1, <1>2, DeliveryNone DEF UnderWay, Unmixed, Building, TypeOK
<1>6. QED
  BY <1>4, <1>5

LEMMA CommittedStep == ASSUME RecordsInv, Committed PROVE RecordsInv'
<1> USE DEF RecordsInv
<1> DEFINE kept == tree = fin.of.tree
           v == IF kept THEN "done" ELSE "pending"
           d == IF kept THEN Current ELSE None
<1>1. /\ UNCHANGED <<tree, head, target, process, made, checks, approved, proven, sneaked>>
      /\ fin # None /\ fin \in Finalize /\ fin.at = "committed" /\ tree # None
      /\ faults' \in 0 .. MaxFaults
  <2>1. faults' = faults \/ Fault
    BY DEF Committed
  <2>2. faults' \in 0 .. MaxFaults
    BY <2>1, DeliveryNumbers DEF Fault, TypeOK
  <2>3. QED
    BY <2>2 DEF Committed, At, disk, ghosts, TypeOK, UnderWay, Building
<1>2. Current \in Candidate /\ head \in Versions /\ Unmixed /\ Current.tree = tree
  BY <1>1, CandidateHere DEF UnderWay, TypeOK, Current
<1>3. handle' = [handle EXCEPT !.state = "committed", !.expected = head, !.commit = "done",
                               !.validation = v, !.validated = d]
      /\ indexed' \in BOOLEAN /\ val' = Outdated
  BY DEF Committed, Wrote, Pending
<1>4. v \in Stage /\ d \in Candidate \union {None}
  BY <1>2 DEF Stage
<1> HIDE DEF v, d
<1>5. handle' \in Handle /\ handle'.commit = "done"
  BY <1>2, <1>3, <1>4 DEF TypeOK, Handle, Stage
<1>6. kept => tree \in approved \intersect proven
  BY <1>1 DEF BooksTrue
<1>7. CASE fin' = None /\ UNCHANGED contract
  BY <1>1, <1>3, <1>5, <1>7, LateStep DEF TypeOK
<1>8. CASE fin' = None /\ contract' = Rearmed(contract)
  <2>1. /\ contract' \in Contract /\ contract'.passed = contract.passed
        /\ contract'.review = contract.review
        /\ contract'.receipt => contract' = contract
    BY <1>8, RearmedKeeps DEF TypeOK, Rearmed
  <2>2. QED
    BY <1>1, <1>3, <1>5, <1>8, <2>1, LateStep
<1>9. CASE fin' = None /\ kept /\ contract' = [contract EXCEPT !.passed = @ \union {Current}]
  <2>1. /\ contract' \in Contract /\ contract'.passed = contract.passed \union {Current}
        /\ contract'.review = contract.review /\ contract'.receipt = contract.receipt
        /\ contract'.status = contract.status /\ contract'.phase = contract.phase
    BY <1>2, <1>9 DEF TypeOK, Contract
  <2>2. TypeOK'
    BY <1>1, <1>3, <1>5, <1>9, <2>1, OutdatedKeeps DEF TypeOK
  <2>3. BooksTrue'
    BY <1>1, <1>2, <1>3, <1>6, <1>9, <2>1, OutdatedKeeps DEF BooksTrue
  <2>4. UnderWay'
    BY <1>1, <1>3, <1>9, OutdatedKeeps DEF UnderWay
  <2>5. QED
    BY <2>2, <2>3, <2>4
<1>10. CASE /\ kept /\ contract.phase = "delivery" /\ Go("merge")
            /\ contract' = [Turn(contract, "delivery", "running") EXCEPT
                               !.passed = @ \union {Current},
                               !.review = [of |-> Current, decision |-> "approved"]]
  <2> DEFINE T == Turn(contract, "delivery", "running")
  <2>1. /\ T \in Contract /\ T.passed = contract.passed /\ T.receipt = contract.receipt
    BY TurnKeeps DEF TypeOK, Phases, Statuses
  <2>2. [of |-> Current, decision |-> "approved"] \in Review
    BY <1>2 DEF Review, Decisions
  <2> HIDE DEF T
  <2>3. contract' = [T EXCEPT !.passed = @ \union {Current},
                              !.review = [of |-> Current, decision |-> "approved"]]
    BY <1>10 DEF T
  <2>4. /\ contract' \in Contract /\ contract'.passed = contract.passed \union {Current}
        /\ contract'.review = [of |-> Current, decision |-> "approved"]
        /\ ~contract'.receipt
    <3>1. ~T.receipt
      BY <1>10, <2>1 DEF BooksTrue
    <3>2. T.passed \union {Current} \in SUBSET Candidate
      BY <1>2, <2>1 DEF Contract
    <3>3. QED
      BY <2>1, <2>2, <2>3, <3>1, <3>2 DEF Contract
  <2>5. fin' \in Finalize /\ fin'.at = "merge" /\ fin'.wants = fin.wants
    BY <1>1, <1>10 DEF Go, Finalize
  <2>6. TypeOK'
    BY <1>1, <1>3, <1>5, <2>4, <2>5, OutdatedKeeps DEF TypeOK
  <2>7. BooksTrue'
    BY <1>1, <1>2, <1>3, <1>6, <1>10, <2>4, <2>5, OutdatedKeeps DEF BooksTrue
  <2>8. UnderWay'
    BY <1>1, <1>2, <1>3, <1>5, <2>5, OutdatedKeeps DEF UnderWay, Unmixed, Building
  <2>9. QED
    BY <2>6, <2>7, <2>8
<1>11. QED
  BY <1>7, <1>8, <1>9, <1>10 DEF Committed, Quit

LEMMA FinalizeMergeStep == ASSUME RecordsInv, FinalizeMerge PROVE RecordsInv'
<1> USE DEF RecordsInv
<1>1. /\ UNCHANGED <<contract, tree, head, target, process, made, checks, faults, approved, proven, sneaked>>
      /\ fin # None /\ fin \in Finalize /\ fin.at = "merge" /\ tree # None /\ head \in Versions
  BY CandidateHere DEF FinalizeMerge, At, disk, bounds, ghosts, TypeOK, UnderWay, Building
<1>2. /\ handle' \in Handle /\ indexed' \in BOOLEAN /\ handle'.commit = handle.commit
      /\ val' = Outdated \/ (val' = val /\ handle' = handle)
  <2>1. /\ [handle EXCEPT !.expected = head] \in Handle
        /\ [handle EXCEPT !.merge = "skipped", !.branch = "skipped"] \in Handle
        /\ [handle EXCEPT !.expected = head].commit = handle.commit
        /\ [handle EXCEPT !.merge = "skipped", !.branch = "skipped"].commit = handle.commit
    BY <1>1 DEF TypeOK, Handle, Stage
  <2>2. QED
    BY <2>1 DEF FinalizeMerge, Wrote, Pending, TypeOK
<1>3. CASE Quit
  BY <1>1, <1>2, <1>3, LateStep DEF Quit, TypeOK
<1>4. CASE Go("tree")
  <2>1. "tree" \in LatePlaces
    BY DEF LatePlaces
  <2>2. QED
    BY <1>1, <1>2, <1>4, <2>1, LateStep DEF Go, TypeOK
<1>5. CASE Go("merging") /\ "merge" \in fin.wants /\ Gate(Current)
  <2>1. fin' \in Finalize /\ fin'.at = "merging" /\ fin'.wants = fin.wants
    BY <1>1, <1>5 DEF Go, Finalize
  <2>2. TypeOK' /\ BooksTrue'
    BY <1>1, <1>2, <2>1, ContractStands DEF TypeOK
  <2>3. tree \in approved \intersect proven
    BY <1>1, <1>5, GateTells
  <2>4. ~SkippedBefore => Unmixed
    <3>1. CASE "commit" \in fin.wants
      BY <1>1, <3>1 DEF UnderWay, SkippedBefore, TypeOK, Handle, Stage
    <3>2. CASE "commit" \notin fin.wants
      BY <1>1, <1>5, <3>2 DEF UnderWay
    <3>3. QED
      BY <3>1, <3>2
  <2>5. fin' # None /\ ~SkippedBefore' => head \in approved \intersect proven
    BY <1>1, <1>2, <2>1, <2>3, <2>4 DEF SkippedBefore, Unmixed, TypeOK
  <2>6. val' # None /\ val'.fresh => handle'.run # None
    BY <1>2, OutdatedKeeps DEF UnderWay
  <2>7. QED
    BY <1>1, <1>2, <2>1, <2>2, <2>5, <2>6 DEF UnderWay, Building
<1>6. QED
  BY <1>3, <1>4, <1>5 DEF FinalizeMerge, Wanted

LEMMA MergingStep == ASSUME RecordsInv, Merging PROVE RecordsInv'
<1> USE DEF RecordsInv
<1>1. /\ UNCHANGED <<tree, head, process, made, checks, approved, proven, sneaked>>
      /\ fin # None /\ fin \in Finalize /\ fin.at = "merging" /\ head \in Versions
  BY CandidateHere DEF Merging, At, ghosts, TypeOK, UnderWay, Building
<1>2. CASE /\ target' = IF head > target THEN head ELSE target
           /\ Go("merged") /\ UNCHANGED <<contract, handle, indexed, val, faults>>
  <2>1. fin' \in Finalize /\ fin'.at = "merged" /\ fin'.wants = fin.wants /\ target' \in Versions
    BY <1>1, <1>2 DEF Go, Finalize, TypeOK
  <2>2. TypeOK'
    BY <1>1, <1>2, <2>1 DEF TypeOK
  <2>3. BooksTrue'
    BY <1>1, <1>2, <2>1 DEF BooksTrue
  <2>4. UnderWay'
    BY <1>1, <1>2, <2>1 DEF UnderWay, Building
  <2>5. QED
    BY <2>2, <2>3, <2>4
<1>3. CASE Fault /\ FailStage("merge") /\ UNCHANGED target
  <2>1. faults' \in 0 .. MaxFaults
    BY <1>3, DeliveryNumbers DEF Fault, TypeOK
  <2>2. QED
    BY <1>1, <1>3, <2>1, FailStageStep DEF StageNames
<1>4. QED
  BY <1>2, <1>3 DEF Merging

(* The later stages: what a step of theirs does to the handle, and where it *)
(* goes.                                                                    *)
LEMMA LaterStage ==
    ASSUME RecordsInv, fin # None, NEW place \in LatePlaces, Go(place),
           handle' \in Handle, handle'.commit = handle.commit, indexed' \in BOOLEAN,
           val' = Outdated \/ (val' = val /\ handle' = handle),
           tree' = tree \/ tree' = None, head' = head \/ (head' = None /\ tree' = None),
           UNCHANGED <<contract, target, process, made, checks, faults, approved, proven, sneaked>>
    PROVE  RecordsInv'
<1>1. \E p \in LatePlaces : fin' = [fin EXCEPT !.at = p]
  BY DEF Go
<1>2. contract' \in Contract /\ faults' \in 0 .. MaxFaults
  BY DEF RecordsInv, TypeOK
<1>3. QED
  BY <1>1, <1>2, LateStep

LEMMA MergedStep == ASSUME RecordsInv, Merged PROVE RecordsInv'
<1> DEFINE b == IF Wanted("cleanup") THEN "pending" ELSE handle.branch
<1>1. b \in Stage
  BY DEF RecordsInv, TypeOK, Handle, Stage
<1>2. handle' = [handle EXCEPT !.state = "merged", !.merge = "done", !.branch = b]
      /\ indexed' \in BOOLEAN
  BY DEF Merged, Wrote, Pending
<1> HIDE DEF b
<1>3. handle' \in Handle /\ handle'.commit = handle.commit
  BY <1>1, <1>2 DEF RecordsInv, TypeOK, Handle, Stage
<1>4. QED
  BY <1>2, <1>3, LaterStage DEF Merged, At, LatePlaces, disk, bounds, ghosts

LEMMA FinalizeTreeStep == ASSUME RecordsInv, FinalizeTree PROVE RecordsInv'
<1>1. /\ UNCHANGED <<head, target, process, made, checks, faults, approved, proven, sneaked>>
      /\ fin # None
  BY DEF FinalizeTree, At, bounds, ghosts
<1>2. CASE Quit /\ UNCHANGED <<contract, handle, indexed, val, tree>>
  BY <1>1, <1>2, QuitStep
<1>3. CASE FailStage("worktree") /\ UNCHANGED tree
  <2>1. faults' \in 0 .. MaxFaults
    BY <1>1 DEF RecordsInv, TypeOK
  <2>2. QED
    BY <1>1, <1>3, <2>1, FailStageStep DEF StageNames
<1>4. CASE tree' = None /\ Go("removed") /\ UNCHANGED <<contract, handle, indexed, val>>
  BY <1>1, <1>4, LaterStage DEF LatePlaces, RecordsInv, TypeOK
<1>5. CASE Wrote([handle EXCEPT !.worktree = "skipped"]) /\ val' = Outdated /\ Go("branch")
           /\ UNCHANGED <<contract, tree>>
  <2>1. handle' \in Handle /\ indexed' \in BOOLEAN /\ handle'.commit = handle.commit
    BY <1>5 DEF Wrote, Pending, RecordsInv, TypeOK, Handle, Stage
  <2>2. QED
    BY <1>1, <1>5, <2>1, LaterStage DEF LatePlaces
<1>6. CASE Go("branch") /\ UNCHANGED <<contract, handle, indexed, val, tree>>
  BY <1>1, <1>6, LaterStage DEF LatePlaces, RecordsInv, TypeOK
<1>7. QED
  BY <1>2, <1>3, <1>4, <1>5, <1>6 DEF FinalizeTree

LEMMA RemovedStep == ASSUME RecordsInv, Removed PROVE RecordsInv'
<1>1. handle' \in Handle /\ indexed' \in BOOLEAN /\ handle'.commit = handle.commit
  BY DEF Removed, Wrote, Pending, RecordsInv, TypeOK, Handle, Stage
<1>2. QED
  BY <1>1, LaterStage DEF Removed, At, LatePlaces, disk, bounds, ghosts

LEMMA FinalizeBranchStep == ASSUME RecordsInv, FinalizeBranch PROVE RecordsInv'
<1>1. /\ UNCHANGED <<tree, target, process, made, checks, faults, approved, proven, sneaked>>
      /\ fin # None
  BY DEF FinalizeBranch, At, bounds, ghosts
<1>2. CASE Quit /\ UNCHANGED <<contract, handle, indexed, val, head>>
  BY <1>1, <1>2, QuitStep
<1>3. CASE FailStage("branch") /\ UNCHANGED head
  <2>1. faults' \in 0 .. MaxFaults
    BY <1>1 DEF RecordsInv, TypeOK
  <2>2. QED
    BY <1>1, <1>3, <2>1, FailStageStep DEF StageNames
<1>4. CASE tree = None /\ head' = None /\ Go("deleted") /\ UNCHANGED <<contract, handle, indexed, val>>
  BY <1>1, <1>4, LaterStage DEF LatePlaces, RecordsInv, TypeOK
<1>5. CASE Go("finish") /\ UNCHANGED <<contract, handle, indexed, val, head>>
  BY <1>1, <1>5, LaterStage DEF LatePlaces, RecordsInv, TypeOK
<1>6. QED
  BY <1>2, <1>3, <1>4, <1>5 DEF FinalizeBranch

LEMMA DeletedStep == ASSUME RecordsInv, Deleted PROVE RecordsInv'
<1>1. handle' \in Handle /\ indexed' \in BOOLEAN /\ handle'.commit = handle.commit
  BY DEF Deleted, Wrote, Pending, RecordsInv, TypeOK, Handle, Stage
<1>2. QED
  BY <1>1, LaterStage DEF Deleted, At, LatePlaces, disk, bounds, ghosts

LEMMA FinalizeFinishStep == ASSUME RecordsInv, FinalizeFinish PROVE RecordsInv'
<1>1. /\ UNCHANGED <<contract, tree, head, target, process, made, checks, faults, approved, proven, sneaked>>
      /\ fin # None
  BY DEF FinalizeFinish, At, disk, bounds, ghosts
<1>2. CASE Quit /\ UNCHANGED <<handle, indexed, val>>
  BY <1>1, <1>2, QuitStep
<1>3. CASE Wrote([handle EXCEPT !.state = FinalState]) /\ val' = Outdated /\ Go("complete")
  <2>1. FinalState \in {"editing", "validating", "committed", "merged", "cleaned", "failed", "ending"}
    BY DEF FinalState, RecordsInv, TypeOK, Handle
  <2>2. handle' \in Handle /\ indexed' \in BOOLEAN /\ handle'.commit = handle.commit
    BY <1>3, <2>1 DEF Wrote, Pending, RecordsInv, TypeOK, Handle
  <2>3. QED
    BY <1>1, <1>3, <2>2, LaterStage DEF LatePlaces
<1>4. QED
  BY <1>2, <1>3 DEF FinalizeFinish

LEMMA FinalizeCompleteStep == ASSUME RecordsInv, FinalizeComplete PROVE RecordsInv'
<1> USE DEF RecordsInv
<1>1. /\ UNCHANGED <<handle, indexed, tree, head, target, process, val, made, checks, faults,
                     approved, proven, sneaked>>
      /\ fin' = None
      /\ contract' = WithReceipt(contract) \/ contract' = contract
  BY DEF FinalizeComplete, Quit, disk, bounds, ghosts
<1>2. /\ contract' \in Contract /\ contract'.passed = contract.passed
      /\ contract'.review = contract.review
      /\ contract' = contract \/ (contract'.status = "completed" /\ contract'.phase = "cleanup")
  BY <1>1, ReceiptKeeps DEF TypeOK
<1>3. QED
  BY <1>1, <1>2, LateStep DEF TypeOK

LEMMA NextRecords == ASSUME RecordsInv, [Next]_vars PROVE RecordsInv'
<1>1. CASE Edit
  BY <1>1, EditStep
<1>2. CASE HandCommit
  BY <1>2, HandCommitStep
<1>3. CASE ValidateStart
  BY <1>3, ValidateStartStep
<1>4. CASE ProcessEnds
  BY <1>4, ProcessEndsStep
<1>5. CASE ValidateReturn
  BY <1>5, ValidateReturnStep
<1>6. CASE Sweep
  BY <1>6, SweepStep
<1>7. ASSUME NEW decision \in Decisions, DecideReview(decision) PROVE RecordsInv'
  BY <1>7, DecideReviewStep
<1>8. CASE Judge
  BY <1>8, JudgeStep
<1>9. CASE Stop
  BY <1>9, StopStep
<1>10. CASE Cleanup
  BY <1>10, CleanupStep
<1>11. ASSUME NEW wants \in Wants, FinalizeBegin(wants) PROVE RecordsInv'
  BY <1>11, FinalizeBeginStep
<1>12. CASE FailedCleanup
  BY <1>12, FailedCleanupStep
<1>13. CASE Finalizing
  BY <1>13, FinalizeCheckStep, FinalizeCommitStep, CommittingStep, CommittedStep, FinalizeMergeStep,
     MergingStep, MergedStep, FinalizeTreeStep, RemovedStep, FinalizeBranchStep, DeletedStep,
     FinalizeFinishStep, FinalizeCompleteStep DEF Finalizing
<1>14. CASE RecoverCompletion
  BY <1>14, RecoverCompletionStep
<1>15. CASE Crash
  BY <1>15, CrashStep
<1>16. CASE UNCHANGED vars
  BY <1>16 DEF vars, disk, bounds, ghosts, RecordsInv, TypeOK, BooksTrue, UnderWay, Unmixed,
     SkippedBefore
<1>17. QED
  BY <1>1, <1>2, <1>3, <1>4, <1>5, <1>6, <1>7, <1>8, <1>9, <1>10, <1>11, <1>12, <1>13, <1>14,
     <1>15, <1>16 DEF Next

(* The books of the Work are true, and a finalization has what it is about  *)
(* to deliver in the branch (assertPhysicalImplementationReviewGate).       *)
LEMMA RecordsStand == Spec => []RecordsInv
<1>1. Init => RecordsInv
  BY InitRecords
<1>2. RecordsInv /\ [Next]_vars => RecordsInv'
  BY NextRecords
<1>3. QED
  BY <1>1, <1>2, PTL DEF Spec

-----------------------------------------------------------------------------
(* What was completed stays completed: every way of turning a contract      *)
(* looks for the receipt first, or cannot be on the way with it.            *)
Stands == contract.receipt => contract'.receipt /\ contract'.status = "completed"

LEMMA SettleStands ==
    ASSUME NEW h, NEW c, NEW result, NEW candidate, Settle(h, c, result, candidate), c.receipt
    PROVE  contract' = c
BY DEF Settle, Projected

LEMMA FailStageStands ==
    ASSUME RecordsInv, NEW stage, FailStage(stage)
    PROVE  Stands
BY DEF FailStage, Stands, RecordsInv, BooksTrue

LEMMA FinalizingStands == ASSUME RecordsInv, Finalizing PROVE Stands
<1> USE DEF Stands, RecordsInv, BooksTrue
<1>1. CASE FinalizeCheck
  BY <1>1, FailStageStands DEF FinalizeCheck, Rearmed
<1>2. CASE FinalizeCommit
  BY <1>2, FailStageStands DEF FinalizeCommit
<1>3. CASE Committing \/ FinalizeMerge \/ Merged \/ Removed \/ Deleted \/ FinalizeFinish
  BY <1>3 DEF Committing, FinalizeMerge, Merged, Removed, Deleted, FinalizeFinish
<1>4. CASE Committed
  <2>1. CASE contract' = [contract EXCEPT !.passed = @ \union {Current}]
    BY <2>1 DEF TypeOK, Contract
  <2>2. CASE contract' = Rearmed(contract) \/ contract' = contract \/ contract.phase = "delivery"
    BY <2>2 DEF Rearmed
  <2>3. QED
    BY <1>4, <2>1, <2>2 DEF Committed
<1>5. CASE Merging
  BY <1>5, FailStageStands DEF Merging
<1>6. CASE FinalizeTree
  BY <1>6, FailStageStands DEF FinalizeTree
<1>7. CASE FinalizeBranch
  BY <1>7, FailStageStands DEF FinalizeBranch
<1>8. CASE FinalizeComplete
  BY <1>8 DEF FinalizeComplete
<1>9. QED
  BY <1>1, <1>2, <1>3, <1>4, <1>5, <1>6, <1>7, <1>8 DEF Finalizing

LEMMA NextStands == ASSUME RecordsInv, [Next]_vars PROVE Stands \/ UNCHANGED vars
<1> USE DEF Stands, RecordsInv, BooksTrue
<1>1. CASE Edit \/ HandCommit \/ ProcessEnds \/ Cleanup \/ FailedCleanup \/ Crash
  BY <1>1 DEF Edit, HandCommit, ProcessEnds, Cleanup, FailedCleanup, Crash
<1>2. CASE ValidateStart
  <2>1. CASE contract' = Rearmed(contract) \/ contract' = contract
    BY <2>1 DEF Rearmed
  <2> DEFINE c == [contract EXCEPT !.evidence = IF contract.receipt THEN @ ELSE "valid"]
  <2>2. CASE Settle(Started, c, "ok", Current)
    <3>1. c.receipt = contract.receipt /\ c.status = contract.status
      BY DEF TypeOK, Contract
    <3> HIDE DEF c
    <3>2. QED
      BY <2>2, <3>1, SettleStands
  <2>3. QED
    BY <1>2, <2>1, <2>2 DEF ValidateStart
<1>3. CASE ValidateReturn
  <2> DEFINE record == IF process.result = "ok"
                       THEN [contract EXCEPT !.passed = @ \union {val.of}] ELSE contract
             bound == [handle EXCEPT !.run.bound = TRUE]
  <2>1. record.receipt = contract.receipt /\ record.status = contract.status
    BY DEF TypeOK, Contract
  <2>2. CASE contract' = contract \/ contract' = record
    <3> HIDE DEF record
    <3>1. QED
      BY <2>1, <2>2
  <2>3. CASE Settle(bound, record, process.result, val.of)
    <3> HIDE DEF record, bound
    <3>1. QED
      BY <2>1, <2>3, SettleStands
  <2>4. QED
    BY <1>3, <2>2, <2>3 DEF ValidateReturn
<1>4. CASE Sweep
  BY <1>4, SettleStands DEF Sweep
<1>5. CASE (\E decision \in Decisions : DecideReview(decision)) \/ Judge \/ Stop
  BY <1>5 DEF DecideReview, Judge, Stop, MayTurn
<1>6. CASE \E wants \in Wants : FinalizeBegin(wants)
  BY <1>6 DEF FinalizeBegin
<1>7. CASE RecoverCompletion
  BY <1>7 DEF RecoverCompletion, Terminal
<1>8. CASE UNCHANGED vars
  BY <1>8
<1>9. QED
  BY <1>1, <1>2, <1>3, <1>4, <1>5, <1>6, <1>7, <1>8, FinalizingStands DEF Next

(* A Work that has its receipt is never anything but completed again        *)
(* (projectWorkValidationOutcome: "if (contract.completionReceipt) return").*)
THEOREM CompletionStands == Spec => CompletedForGood
<1>1. RecordsInv /\ [Next]_vars
        => [contract.receipt => contract'.receipt /\ contract'.status = "completed"]_vars
  BY NextStands DEF Stands
<1>2. QED
  BY <1>1, RecordsStand, PTL DEF Spec, CompletedForGood

(* Nothing reaches the target that was not approved and checked as it is    *)
(* (assertPhysicalImplementationReviewGate).                                *)
THEOREM ReviewedReaches == Spec => DeliveryReviewed
<1>1. ASSUME RecordsInv, [Next]_vars
      PROVE  [target' # target /\ ~sneaked /\ ~SkippedBefore
                => target' \in approved \intersect proven]_vars
  <2>1. CASE Merging
    BY <1>1, <2>1 DEF Merging, At, RecordsInv, UnderWay
  <2>2. CASE Edit \/ HandCommit \/ ValidateStart \/ ProcessEnds \/ ValidateReturn \/ Sweep
    BY <2>2 DEF Edit, HandCommit, ValidateStart, ProcessEnds, ValidateReturn, Sweep, disk
  <2>3. CASE \/ \E decision \in Decisions : DecideReview(decision)
             \/ Judge \/ Stop \/ Cleanup
             \/ \E wants \in Wants : FinalizeBegin(wants)
             \/ FailedCleanup \/ RecoverCompletion \/ Crash
    BY <2>3 DEF DecideReview, Judge, Stop, Cleanup, FinalizeBegin, FailedCleanup, RecoverCompletion,
       Crash, disk
  <2>4. CASE \/ FinalizeCheck \/ FinalizeCommit \/ Committing \/ Committed \/ FinalizeMerge
             \/ Merged \/ FinalizeTree \/ Removed \/ FinalizeBranch \/ Deleted
             \/ FinalizeFinish \/ FinalizeComplete
    BY <2>4 DEF FinalizeCheck, FinalizeCommit, Committing, Committed, FinalizeMerge, Merged,
       FinalizeTree, Removed, FinalizeBranch, Deleted, FinalizeFinish, FinalizeComplete, disk
  <2>5. CASE UNCHANGED vars
    BY <2>5
  <2>6. QED
    BY <1>1, <2>1, <2>2, <2>3, <2>4, <2>5 DEF Next, Finalizing
<1>2. QED
  BY <1>1, RecordsStand, PTL DEF Spec, DeliveryReviewed

-----------------------------------------------------------------------------
(* What is completed was delivered.  The steps that may put a candidate on  *)
(* record put one there of the head as it is, so that no head on record is  *)
(* ahead of the branch.                                                     *)
LEMMA InitReach == Init => ReachInv
<1> SUFFICES ASSUME Init PROVE ReachInv
  OBVIOUS
<1>1. \A c \in Candidate : ~OnRecord(c)
  BY DEF Init, OnRecord
<1>2. Forward
  BY <1>1 DEF Init, Forward
<1>3. StagesAgree
  BY DEF Init, StagesAgree, Terminal
<1>4. MergedMore /\ BranchHad
  BY DEF Init, MergedMore, BranchHad
<1>5. QED
  BY <1>2, <1>3, <1>4 DEF ReachInv

(* What may come on record in a step: the candidate d, at most.             *)
LEMMA RecordGrows ==
    ASSUME NEW d,
           contract'.passed \subseteq contract.passed \union {d},
           contract'.review = contract.review \/ contract'.review.of = d,
           handle'.validated \in {handle.validated, None, d},
           \/ handle'.run = None
           \/ handle.run # None /\ handle'.run.of = handle.run.of
           \/ handle'.run.of = d,
           \/ val' = None
           \/ val # None /\ val'.of = val.of
           \/ val'.of = d
    PROVE  \A c \in Candidate : OnRecord(c)' => OnRecord(c) \/ c = d
BY DEF OnRecord

LEMMA RecordStands ==
    ASSUME contract'.passed = contract.passed,
           contract'.review = contract.review,
           handle'.validated \in {handle.validated, None},
           handle'.run = None \/ (handle.run # None /\ handle'.run.of = handle.run.of),
           val' = None \/ (val # None /\ val'.of = val.of)
    PROVE  \A c \in Candidate : OnRecord(c)' => OnRecord(c)
BY DEF OnRecord

LEMMA OutdatedIs ==
    ASSUME TypeOK, val' = Outdated
    PROVE  /\ val' = None \/ (val # None /\ val'.of = val.of)
           /\ ~(val' # None /\ val'.fresh)
BY DEF TypeOK, Outdated

(* With a worktree the branch has what the handle expects.                  *)
LEMMA ValidHere ==
    ASSUME RecordsInv, Forward, tree # None
    PROVE  HandleValid
<1>1. head # None
  BY DEF RecordsInv, UnderWay
<1>2. head \in Nat /\ handle.expected \in Nat
  BY <1>1, DeliveryNumbers DEF RecordsInv, TypeOK, Versions, Handle
<1>3. QED
  BY <1>1, <1>2 DEF HandleValid, Forward

LEMMA GateOnRecord ==
    ASSUME NEW c, Gate(c)
    PROVE  OnRecord(c)
BY DEF Gate, OnRecord

(* A merge that took more than the handle expects.                          *)
Extra == handle.merge = "done" /\ tree # None /\ head = target /\ handle.expected # head

(* A step that leaves the worktree, the branches and what was merged alone. *)
LEMMA QuietStep ==
    ASSUME RecordsInv, ReachInv, RecordsInv',
           UNCHANGED <<tree, head, target>>,
           handle'.expected = handle.expected, handle'.merge = handle.merge,
           handle'.branch = handle.branch,
           approved \subseteq approved',
           contract'.receipt => contract.receipt,
           fin' = None \/ UNCHANGED <<fin, handle, contract, val>>,
           \A c \in Candidate :
              OnRecord(c)' => OnRecord(c) \/ (tree # None /\ handle.state # "merged" /\ c = Current),
           handle'.state = "merged" => handle.state = "merged",
           Extra => handle'.state = handle.state,
           handle'.run # None => handle'.run.resume # "merged",
           val' # None /\ val'.fresh => handle'.state = "validating",
           fin = None /\ handle.state = "cleaned" => handle' = handle
    PROVE  ReachInv'
<1> USE DEF ReachInv, RecordsInv
<1>1. /\ head \in Versions \union {None} /\ (head # None => head \in Nat)
      /\ tree # None => Current \in Candidate /\ Current.head = head /\ head # None
  BY CandidateHere, DeliveryNumbers DEF TypeOK, Versions, UnderWay
<1>2. Forward'
  <2>1. ASSUME head # None, NEW c \in Candidate, OnRecord(c)' PROVE c.head <= head
    BY <1>1, <2>1 DEF Forward
  <2>2. QED
    BY <2>1 DEF Forward
<1>3. StagesAgree'
  BY DEF StagesAgree, Complete
<1>4. Extra /\ NewHead => NewHead'
  <2>1. Extra => handle.state = "merged"
    BY DEF MergedMore, Extra
  <2>2. QED
    BY <2>1 DEF NewHead
<1>5. fin' = fin /\ fin # None /\ fin.at \in {"merging", "merged"} /\ NewHead => NewHead'
  BY DEF NewHead, OnRecord
<1>6. MergedMore'
  BY <1>4, <1>5 DEF MergedMore, Extra
<1>7. BranchHad'
  BY DEF BranchHad, Delivered
<1>8. QED
  BY <1>2, <1>3, <1>6, <1>7

LEMMA EditReach == ASSUME RecordsInv, ReachInv, RecordsInv', Edit PROVE ReachInv'
<1> USE DEF ReachInv, RecordsInv
<1>1. /\ UNCHANGED <<contract, handle, head, target, val, fin, approved>>
      /\ tree # None /\ head # None /\ head \in Nat /\ tree \in Nat /\ tree <= made /\ made \in Nat
      /\ tree' = made + 1 /\ tree' # None
  BY DeliveryNumbers, DeliveryNone DEF Edit, ghosts, TypeOK, Versions, UnderWay
<1>2. \A c \in Candidate : OnRecord(c)' <=> OnRecord(c)
  BY <1>1 DEF OnRecord
<1>3. Forward'
  BY <1>1, <1>2 DEF Forward
<1>4. StagesAgree' /\ BranchHad'
  BY <1>1 DEF StagesAgree, Complete, BranchHad, Delivered
<1>5. NewHead' <=> NewHead
  BY <1>1, <1>2 DEF NewHead
<1>6. MergedMore'
  BY <1>1, <1>5 DEF MergedMore
<1>7. QED
  BY <1>3, <1>4, <1>6

LEMMA HandCommitReach == ASSUME RecordsInv, ReachInv, RecordsInv', HandCommit PROVE ReachInv'
<1> USE DEF ReachInv, RecordsInv
<1>1. /\ UNCHANGED <<contract, tree, target, fin, approved>>
      /\ tree # None /\ head # None /\ head \in Nat /\ tree \in Nat /\ target \in Nat
      /\ handle.expected \in Nat
      /\ head' = tree /\ head < tree
      /\ handle' = handle \/ (handle' = [handle EXCEPT !.expected = tree] /\ fin = None)
      /\ val' = val \/ val' = Outdated
  BY DeliveryNumbers DEF HandCommit, Wrote, TypeOK, Versions, UnderWay, Forward, Handle
<1>2. /\ handle'.run = handle.run /\ handle'.validated = handle.validated
      /\ handle'.state = handle.state /\ handle'.merge = handle.merge /\ handle'.branch = handle.branch
      /\ handle'.validation = handle.validation /\ handle'.worktree = handle.worktree
      /\ handle'.expected \in {handle.expected, tree}
      /\ fin # None => handle' = handle
      /\ handle.branch # "done"
  BY <1>1 DEF TypeOK, Handle, BranchHad
<1>3. \A c \in Candidate : OnRecord(c)' => OnRecord(c)
  <2>1. val' = None \/ (val # None /\ val'.of = val.of)
    BY <1>1, OutdatedIs
  <2>2. QED
    BY <1>1, <1>2, <2>1, RecordStands
<1>4. \A c \in Candidate : c.head \in Nat
  BY DeliveryNumbers DEF Candidate, Versions
<1>5. \A c \in Candidate : OnRecord(c)' => c.head < tree
  BY <1>1, <1>3, <1>4 DEF Forward
<1>6. Forward'
  BY <1>1, <1>2, <1>4, <1>5 DEF Forward
<1>7. NewHead'
  BY <1>1, <1>4, <1>5 DEF NewHead
<1>8. val' # None /\ val'.fresh => handle'.state = "validating"
  BY <1>1, <1>2, OutdatedIs DEF StagesAgree
<1>9. StagesAgree'
  BY <1>1, <1>2, <1>8 DEF StagesAgree, Complete
<1>10. head' # target' /\ target <= head
  BY <1>1 DEF Forward
<1>11. MergedMore'
  BY <1>1, <1>7, <1>10 DEF MergedMore
<1>12. BranchHad'
  BY <1>1, <1>2 DEF BranchHad
<1>13. QED
  BY <1>6, <1>9, <1>11, <1>12

LEMMA ProcessEndsReach == ASSUME RecordsInv, ReachInv, RecordsInv', ProcessEnds PROVE ReachInv'
<1>1. UNCHANGED <<contract, handle, tree, head, target, val, fin, approved>>
  BY DEF ProcessEnds, disk
<1>2. \A c \in Candidate : OnRecord(c)' => OnRecord(c)
  BY <1>1 DEF OnRecord
<1>3. /\ handle.run # None => handle.run.resume # "merged"
      /\ val # None /\ val.fresh => handle.state = "validating"
  BY DEF ReachInv, StagesAgree
<1>4. QED
  BY <1>1, <1>2, <1>3, QuietStep

LEMMA CrashReach == ASSUME RecordsInv, ReachInv, RecordsInv', Crash PROVE ReachInv'
<1>1. UNCHANGED <<contract, handle, tree, head, target, approved>> /\ val' = None /\ fin' = None
  BY DEF Crash, disk, ghosts
<1>2. \A c \in Candidate : OnRecord(c)' => OnRecord(c)
  BY <1>1, RecordStands
<1>3. handle.run # None => handle.run.resume # "merged"
  BY DEF ReachInv, StagesAgree
<1>4. QED
  BY <1>1, <1>2, <1>3, QuietStep

(* A step of the contract alone, between two finalizations.                 *)
LEMMA ContractReach ==
    ASSUME RecordsInv, ReachInv, RecordsInv', fin = None,
           UNCHANGED <<handle, tree, head, target, val, fin>>,
           approved \subseteq approved',
           contract'.passed = contract.passed,
           \/ contract'.review = contract.review
           \/ OnRecord(contract'.review.of),
           contract'.receipt => contract.receipt
    PROVE  ReachInv'
<1>1. \A c \in Candidate : OnRecord(c)' => OnRecord(c)
  BY DEF OnRecord
<1>2. /\ handle.run # None => handle.run.resume # "merged"
      /\ val # None /\ val.fresh => handle.state = "validating"
  BY DEF ReachInv, StagesAgree
<1>3. QED
  BY <1>1, <1>2, QuietStep

LEMMA DecideReviewReach ==
    ASSUME RecordsInv, ReachInv, RecordsInv', NEW decision \in Decisions, DecideReview(decision)
    PROVE  ReachInv'
<1>1. /\ UNCHANGED <<handle, tree, head, target, val, fin>>
      /\ fin = None /\ tree # None /\ approved \subseteq approved' /\ Current \in contract.passed
  BY DEF DecideReview, disk, bounds
<1>2. \E phase \in Phases, status \in Statuses :
          /\ ~contract.receipt
          /\ contract' = [Turn(contract, phase, status) EXCEPT
                             !.review = [of |-> Current, decision |-> decision]]
  <2>1. CASE decision = "approved"
    BY <2>1 DEF DecideReview, MayTurn, Phases, Statuses
  <2>2. CASE decision = "changes_required"
    BY <2>2 DEF DecideReview, MayTurn, Phases, Statuses
  <2>3. CASE decision = "blocked"
    BY <2>3 DEF DecideReview, MayTurn, Phases, Statuses
  <2>4. QED
    BY <2>1, <2>2, <2>3 DEF Decisions
<1>3. PICK phase \in Phases, status \in Statuses :
          /\ ~contract.receipt
          /\ contract' = [Turn(contract, phase, status) EXCEPT
                             !.review = [of |-> Current, decision |-> decision]]
  BY <1>2
<1> DEFINE t == Turn(contract, phase, status)
<1>4. t \in Contract /\ t.passed = contract.passed /\ t.receipt = contract.receipt
  BY TurnKeeps DEF RecordsInv, TypeOK
<1> HIDE DEF t
<1>5. /\ contract'.passed = contract.passed /\ contract'.receipt = contract.receipt
      /\ contract'.review.of = Current
  BY <1>3, <1>4 DEF t, Contract
<1>6. OnRecord(contract'.review.of)
  BY <1>1, <1>5 DEF OnRecord
<1>7. QED
  BY <1>1, <1>5, <1>6, ContractReach

LEMMA JudgeReach == ASSUME RecordsInv, ReachInv, RecordsInv', Judge PROVE ReachInv'
<1>1. /\ UNCHANGED <<handle, tree, head, target, val, fin, approved>> /\ fin = None
      /\ \E phase \in Phases, status \in Statuses : contract' = Turn(contract, phase, status)
  BY DEF Judge, disk, bounds, ghosts, Phases, Statuses, Terminal
<1>2. /\ contract'.passed = contract.passed /\ contract'.receipt = contract.receipt
      /\ contract'.review = contract.review
  BY <1>1, TurnKeeps DEF RecordsInv, TypeOK
<1>3. QED
  BY <1>1, <1>2, ContractReach

LEMMA StopReach == ASSUME RecordsInv, ReachInv, RecordsInv', Stop PROVE ReachInv'
<1>1. /\ UNCHANGED <<handle, tree, head, target, val, fin, approved>> /\ fin = None
      /\ \E phase \in Phases, status \in Statuses : contract' = Turn(contract, phase, status)
  BY DEF Stop, disk, bounds, ghosts, Phases, Statuses, Terminal
<1>2. /\ contract'.passed = contract.passed /\ contract'.receipt = contract.receipt
      /\ contract'.review = contract.review
  BY <1>1, TurnKeeps DEF RecordsInv, TypeOK
<1>3. QED
  BY <1>1, <1>2, ContractReach

LEMMA StartedIs ==
    ASSUME RecordsInv, ReachInv, tree # None, handle.state # "merged"
    PROVE  /\ Started \in Handle /\ Started.run # None
           /\ Started.run.of = Current /\ Started.run.resume # "merged"
           /\ Started.state = "validating" /\ Started.expected = handle.expected
           /\ Started.merge = handle.merge /\ Started.branch = handle.branch
           /\ Started.validated = handle.validated
<1> USE DEF ReachInv, RecordsInv
<1>1. Current \in Candidate
  BY CandidateHere
<1> DEFINE s == IF handle.state \in {"committed", "merged"} THEN handle.state ELSE "editing"
           r == [of |-> Current, bound |-> FALSE, resume |-> s]
<1>2. s \in {"editing", "committed"}
  OBVIOUS
<1> HIDE DEF s
<1>3. r \in ValidationRun /\ r.of = Current /\ r.resume = s
  BY <1>1, <1>2 DEF ValidationRun
<1>4. r # None
  BY <1>3, DeliveryNone
<1> HIDE DEF r
<1>5. CASE handle.run # None /\ handle.run.of = Current
  <2>1. StartedRun = handle.run /\ handle.run \in ValidationRun /\ handle.run.resume # "merged"
    BY <1>5 DEF StartedRun, TypeOK, Handle, StagesAgree
  <2>2. QED
    BY <1>5, <2>1 DEF Started, TypeOK, Handle, Stage
<1>6. CASE ~(handle.run # None /\ handle.run.of = Current)
  <2>1. StartedRun = r
    BY <1>6 DEF StartedRun, r, s
  <2>2. QED
    BY <1>2, <1>3, <1>4, <2>1 DEF Started, TypeOK, Handle, Stage
<1>7. QED
  BY <1>5, <1>6

LEMMA AnsweredIs ==
    ASSUME NEW h \in Handle, h.run # None, NEW result
    PROVE  /\ Answered(h, result).expected = h.expected
           /\ Answered(h, result).merge = h.merge
           /\ Answered(h, result).branch = h.branch
           /\ Answered(h, result).run = None
           /\ Answered(h, result).state \in {h.run.resume, "failed"}
           /\ Answered(h, result).validated \in {h.validated, h.run.of}
BY DEF Answered, Handle

(* The answer to a check is settled: the handle is the one that was waiting *)
(* for it, the contract its own or with the candidate of the check.         *)
LEMMA SettleReach ==
    ASSUME RecordsInv, ReachInv, RecordsInv', fin = None, fin' = None,
           UNCHANGED <<tree, head, target, approved>>,
           val' = None \/ (val # None /\ val'.of = val.of), ~(val' # None /\ val'.fresh),
           handle.state \notin {"merged", "cleaned"},
           NEW h \in Handle, h.run # None, h.run.resume # "merged",
           h.expected = handle.expected, h.merge = handle.merge, h.branch = handle.branch,
           h.validated = handle.validated,
           \/ handle.run # None /\ h.run.of = handle.run.of
           \/ tree # None /\ h.run.of = Current,
           NEW c \in Contract, NEW d,
           c.passed \subseteq contract.passed \union {d},
           c.review = contract.review, c.receipt = contract.receipt,
           OnRecord(d) \/ (tree # None /\ d = Current),
           NEW result \in {"ok", "bad", "lost"}, NEW candidate,
           Settle(h, c, result, candidate)
    PROVE  ReachInv'
<1>1. /\ handle' = Answered(h, result)
      /\ contract' = Projected(c, result, candidate) \/ contract' = c
  BY DEF Settle, Wrote
<1>2. /\ handle'.expected = handle.expected /\ handle'.merge = handle.merge
      /\ handle'.branch = handle.branch
      /\ handle'.run = None
      /\ handle'.state # "merged"
      /\ handle'.validated \in {handle.validated, h.run.of}
  BY <1>1, AnsweredIs
<1>3. /\ contract'.passed = c.passed /\ contract'.review = contract.review
      /\ contract'.receipt = contract.receipt
  BY <1>1, ProjectedKeeps
<1>4. \A e \in Candidate : OnRecord(e)' => OnRecord(e) \/ (tree # None /\ e = Current)
  <2>1. ASSUME NEW e \in Candidate, OnRecord(e)' PROVE OnRecord(e) \/ e = d \/ e = h.run.of
    BY <1>2, <1>3, <2>1 DEF OnRecord
  <2>2. OnRecord(h.run.of) \/ (tree # None /\ h.run.of = Current)
    BY DEF OnRecord
  <2>3. QED
    BY <2>1, <2>2
<1>5. ~Extra
  BY DEF ReachInv, MergedMore, Extra
<1>6. QED
  BY <1>2, <1>3, <1>4, <1>5, QuietStep

LEMMA ValidateStartReach == ASSUME RecordsInv, ReachInv, RecordsInv', ValidateStart PROVE ReachInv'
<1>1. /\ UNCHANGED <<tree, head, target, approved, fin>> /\ fin = None /\ val = None /\ tree # None
      /\ handle.state \notin {"merged", "cleaned"}
  BY DEF ValidateStart, HandleValid, disk, ghosts
<1>2. Current \in Candidate
  BY <1>1, CandidateHere DEF RecordsInv
<1>3. ~Extra
  BY <1>1 DEF ReachInv, MergedMore, Extra
<1>4. CASE Settle(Started, [contract EXCEPT !.evidence = IF contract.receipt THEN @ ELSE "valid"],
                  "ok", Current) /\ UNCHANGED val
  <2> DEFINE c == [contract EXCEPT !.evidence = IF contract.receipt THEN @ ELSE "valid"]
  <2>1. c \in Contract /\ c.passed = contract.passed /\ c.review = contract.review
        /\ c.receipt = contract.receipt
    BY DEF RecordsInv, TypeOK, Contract
  <2> HIDE DEF c
  <2>2. Settle(Started, c, "ok", Current)
    BY <1>4 DEF c
  <2>3. c.passed \subseteq contract.passed \union {Current}
    BY <2>1
  <2>4. /\ Started \in Handle /\ Started.run # None
        /\ Started.run.of = Current /\ Started.run.resume # "merged"
        /\ Started.expected = handle.expected
        /\ Started.merge = handle.merge /\ Started.branch = handle.branch
        /\ Started.validated = handle.validated
    BY <1>1, StartedIs
  <2> HIDE DEF Started
  <2>5. QED
    BY <1>1, <1>4, <2>1, <2>2, <2>3, <2>4, SettleReach
<1>5. CASE /\ handle' = Started
           /\ contract' = Rearmed(contract) \/ contract' = contract
           /\ val' = val \/ val' = [fresh |-> TRUE, of |-> Current]
  <2>1. /\ contract'.passed = contract.passed /\ contract'.review = contract.review
        /\ contract'.receipt = contract.receipt
    BY <1>5, RearmedKeeps DEF RecordsInv, TypeOK
  <2>2. val' = None \/ val'.of = Current
    BY <1>1, <1>5
  <2>3. /\ handle'.run.of = Current /\ handle'.validated = handle.validated
        /\ handle'.run.resume # "merged" /\ handle'.state = "validating"
        /\ handle'.expected = handle.expected /\ handle'.merge = handle.merge
        /\ handle'.branch = handle.branch
    BY <1>1, <1>5, StartedIs
  <2>4. \A e \in Candidate : OnRecord(e)' => OnRecord(e) \/ e = Current
    BY <2>1, <2>2, <2>3, RecordGrows
  <2>5. QED
    BY <1>1, <1>3, <2>1, <2>3, <2>4, QuietStep
<1>6. QED
  BY <1>4, <1>5 DEF ValidateStart, Wrote

LEMMA ValidateReturnReach == ASSUME RecordsInv, ReachInv, RecordsInv', ValidateReturn PROVE ReachInv'
<1> DEFINE bound == [handle EXCEPT !.run.bound = TRUE]
           result == process.result
           record == IF result = "ok" THEN [contract EXCEPT !.passed = @ \union {val.of}] ELSE contract
<1>1. /\ UNCHANGED <<tree, head, target, approved, fin>> /\ fin = None
      /\ val # None /\ val' = None /\ val.of \in Candidate /\ OnRecord(val.of)
  BY DEF ValidateReturn, disk, ghosts, RecordsInv, TypeOK, OnRecord
<1>2. /\ record \in Contract /\ record.passed \subseteq contract.passed \union {val.of}
      /\ record.review = contract.review /\ record.receipt = contract.receipt
  BY <1>1 DEF RecordsInv, TypeOK, Contract
<1>3. handle.run # None => handle.run.resume # "merged"
  BY DEF ReachInv, StagesAgree
<1>4. CASE ~val.fresh /\ UNCHANGED <<contract, handle>>
  <2>1. \A e \in Candidate : OnRecord(e)' => OnRecord(e)
    BY <1>1, <1>4, RecordStands
  <2>2. QED
    BY <1>1, <1>3, <1>4, <2>1, QuietStep
<1>5. ASSUME val.fresh
      PROVE  /\ bound \in Handle /\ bound.run # None /\ bound.run.resume # "merged"
             /\ bound.run.of = handle.run.of /\ handle.run # None
             /\ bound.expected = handle.expected /\ bound.merge = handle.merge
             /\ bound.branch = handle.branch /\ bound.validated = handle.validated
             /\ bound.state = "validating" /\ handle.state = "validating"
             /\ process # None /\ process \in Process
  <2>1. process \in Process /\ process # None /\ handle.run # None /\ handle.state = "validating"
    BY <1>1, <1>5 DEF RecordsInv, ReachInv, BooksTrue, UnderWay, TypeOK, StagesAgree
  <2>2. handle.run \in ValidationRun /\ handle.run.resume # "merged"
    BY <1>3, <2>1 DEF RecordsInv, TypeOK, Handle
  <2> DEFINE r == [handle.run EXCEPT !.bound = TRUE]
  <2>3. r \in ValidationRun /\ r.of = handle.run.of /\ r.resume = handle.run.resume
    BY <2>2 DEF ValidationRun
  <2>4. r # None
    BY <2>3, DeliveryNone
  <2> HIDE DEF r
  <2>5. bound = [handle EXCEPT !.run = r]
    BY DEF r, RecordsInv, TypeOK, Handle
  <2> HIDE DEF bound
  <2>6. QED
    BY <2>1, <2>2, <2>3, <2>4, <2>5 DEF RecordsInv, TypeOK, Handle
<1> HIDE DEF bound, record
<1>6. CASE val.fresh /\ handle' = bound /\ contract' \in {contract, record}
  <2>1. \A e \in Candidate : OnRecord(e)' => OnRecord(e) \/ e = val.of
    BY <1>1, <1>2, <1>5, <1>6, RecordGrows
  <2>2. \A e \in Candidate : OnRecord(e)' => OnRecord(e)
    BY <1>1, <2>1
  <2>3. contract'.receipt = contract.receipt
    BY <1>2, <1>6
  <2>4. QED
    BY <1>1, <1>5, <1>6, <2>2, <2>3, QuietStep
<1>7. CASE val.fresh /\ result # "running" /\ Settle(bound, record, result, val.of)
  <2>1. result \in {"ok", "bad", "lost"}
    BY <1>5, <1>7 DEF Process
  <2> HIDE DEF result
  <2>2. handle.state \notin {"merged", "cleaned"}
    BY <1>5, <1>7
  <2>3. QED
    BY <1>1, <1>2, <1>5, <1>7, <2>1, <2>2, SettleReach
<1>8. QED
  BY <1>4, <1>6, <1>7 DEF ValidateReturn, bound, record, result, Wrote

LEMMA SweepReach == ASSUME RecordsInv, ReachInv, RecordsInv', Sweep PROVE ReachInv'
<1>1. /\ UNCHANGED <<tree, head, target, fin, approved>>
      /\ handle.run # None /\ fin = None /\ val' = Outdated /\ handle.state = "validating"
      /\ process.result \in {"ok", "bad", "lost"}
      /\ Settle(handle, contract, process.result, None)
      /\ handle \in Handle /\ contract \in Contract
  BY DEF Sweep, Swept, Pending, disk, ghosts, RecordsInv, TypeOK, Process
<1>2. val' = None \/ (val # None /\ val'.of = val.of)
  BY <1>1, OutdatedIs DEF RecordsInv
<1>3. ~(val' # None /\ val'.fresh)
  BY <1>1, OutdatedIs DEF RecordsInv
<1>4. handle.run.resume # "merged" /\ OnRecord(handle.run.of)
  BY <1>1 DEF ReachInv, StagesAgree, OnRecord
<1>5. contract.passed \subseteq contract.passed \union {handle.run.of}
  OBVIOUS
<1> DEFINE result == process.result
<1>6. result \in {"ok", "bad", "lost"} /\ Settle(handle, contract, result, None)
  BY <1>1
<1> HIDE DEF result
<1>7. QED
  BY <1>1, <1>2, <1>3, <1>4, <1>5, <1>6, SettleReach

(* A step that puts nothing on record, and may remove the worktree and the  *)
(* branch.                                                                  *)
LEMMA ForwardStands ==
    ASSUME RecordsInv, Forward,
           head' \in {head, None}, head' # None => tree' \in {tree, None},
           target' = target, handle'.expected = handle.expected,
           contract'.passed = contract.passed, contract'.review = contract.review,
           handle'.validated \in {handle.validated, None},
           handle'.run = None \/ (handle.run # None /\ handle'.run.of = handle.run.of),
           val' = val \/ val' = Outdated
    PROVE  /\ Forward'
           /\ NewHead /\ head' = head => NewHead'
<1>1. val' = None \/ (val # None /\ val'.of = val.of)
  BY OutdatedIs DEF RecordsInv
<1>2. \A c \in Candidate : OnRecord(c)' => OnRecord(c)
  BY <1>1, RecordStands
<1>3. Forward'
  BY <1>2 DEF Forward
<1>4. NewHead /\ head' = head => NewHead'
  BY <1>2 DEF NewHead
<1>5. QED
  BY <1>3, <1>4

LEMMA StaleIs ==
    ASSUME RecordsInv, StagesAgree, (val' = val /\ handle' = handle) \/ val' = Outdated
    PROVE  val' # None /\ val'.fresh => handle'.state = "validating"
BY OutdatedIs DEF RecordsInv, StagesAgree

LEMMA NoReceipt ==
    ASSUME RecordsInv, contract.status \notin Terminal
    PROVE  ~contract.receipt
BY DEF RecordsInv, BooksTrue, Terminal

LEMMA CleanupReach == ASSUME RecordsInv, ReachInv, RecordsInv', Cleanup PROVE ReachInv'
<1> USE DEF ReachInv, RecordsInv
<1>1. /\ UNCHANGED <<contract, target, fin, approved>>
      /\ fin = None /\ val' = Outdated /\ tree' = None /\ head' = None /\ handle.state # "cleaned"
      /\ handle' = [handle EXCEPT !.state = "cleaned"]
  BY DEF Cleanup, Wrote, bounds, ghosts
<1>2. /\ handle'.state = "cleaned" /\ handle'.expected = handle.expected
      /\ handle'.merge = handle.merge /\ handle'.branch = handle.branch
      /\ handle'.run = handle.run /\ handle'.validated = handle.validated
  BY <1>1 DEF TypeOK, Handle
<1>3. Forward' /\ MergedMore'
  BY <1>1 DEF Forward, MergedMore
<1>4. StagesAgree'
  BY <1>1, <1>2, OutdatedIs DEF StagesAgree
<1>5. BranchHad'
  BY <1>1, <1>2 DEF BranchHad, Delivered
<1>6. QED
  BY <1>3, <1>4, <1>5

LEMMA FailedCleanupReach == ASSUME RecordsInv, ReachInv, RecordsInv', FailedCleanup PROVE ReachInv'
<1> USE DEF ReachInv, RecordsInv
<1>1. /\ UNCHANGED <<contract, target, fin, approved>>
      /\ fin = None /\ val' = Outdated /\ tree' = None /\ head' = None
      /\ contract.status \notin Terminal
  BY DEF FailedCleanup, Ended, bounds, ghosts
<1> DEFINE c == IF handle.commit = "pending" THEN "skipped" ELSE handle.commit
           m == IF handle.merge = "pending" THEN "skipped" ELSE handle.merge
<1>2. handle' = [handle EXCEPT !.state = "cleaned", !.validation = "failed", !.worktree = "done",
                               !.branch = "done", !.commit = c, !.merge = m]
  BY DEF FailedCleanup, Wrote
<1> HIDE DEF c, m
<1>3. /\ handle'.state = "cleaned" /\ handle'.expected = handle.expected
      /\ handle'.branch = "done" /\ handle'.validation = "failed"
      /\ handle'.run = handle.run
  BY <1>2 DEF TypeOK, Handle
<1>4. Forward' /\ MergedMore'
  BY <1>1 DEF Forward, MergedMore
<1>5. StagesAgree'
  BY <1>1, <1>3, OutdatedIs DEF StagesAgree
<1>6. ~contract.receipt
  BY <1>1, NoReceipt
<1>7. BranchHad'
  BY <1>1, <1>3, <1>6 DEF BranchHad
<1>8. QED
  BY <1>4, <1>5, <1>7

LEMMA RecoverCompletionReach ==
    ASSUME RecordsInv, ReachInv, RecordsInv', RecoverCompletion PROVE ReachInv'
<1> USE DEF ReachInv, RecordsInv
<1>1. /\ UNCHANGED <<handle, tree, head, target, val, fin, approved>>
      /\ fin = None /\ handle.state = "cleaned" /\ Complete
      /\ contract' = WithReceipt(contract)
  BY DEF RecoverCompletion, disk, bounds, ghosts
<1>2. contract'.passed = contract.passed /\ contract'.review = contract.review
  BY <1>1, ReceiptKeeps
<1>3. Forward'
  BY <1>1, <1>2, ForwardStands
<1>4. StagesAgree' /\ MergedMore'
  BY <1>1 DEF StagesAgree, MergedMore
<1>5. handle.merge = "done" => head = None /\ Delivered
  BY <1>1 DEF Complete, StagesAgree, BranchHad
<1>6. BranchHad'
  BY <1>1, <1>5 DEF BranchHad, Delivered
<1>7. QED
  BY <1>3, <1>4, <1>6

LEMMA FinalizeBeginReach ==
    ASSUME RecordsInv, ReachInv, RecordsInv', NEW wants \in Wants, FinalizeBegin(wants)
    PROVE  ReachInv'
<1> USE DEF ReachInv, RecordsInv
<1>1. /\ UNCHANGED <<tree, head, target, approved>>
      /\ fin = None /\ handle.state # "cleaned"
      /\ fin' = [wants |-> wants, of |-> None, at |-> "check"] /\ fin' \in Finalize \union {None}
      /\ val' = Outdated /\ handle' = Reset(handle, wants)
  BY DEF FinalizeBegin, Wrote, disk, bounds, ghosts, TypeOK
<1> DEFINE again(stage, on) == IF on /\ handle[stage] = "failed" THEN "pending" ELSE handle[stage]
           v == again("validation", TRUE)
           c == again("commit", "commit" \in wants)
           m == again("merge", "merge" \in wants)
           w == again("worktree", "cleanup" \in wants)
           b == again("branch", "cleanup" \in wants)
           s == IF handle.state # "failed" THEN handle.state
                ELSE IF handle.merge = "done" THEN "merged"
                ELSE IF handle.commit = "done" THEN "committed" ELSE "validating"
<1>2. /\ m = "done" <=> handle.merge = "done"
      /\ b = "done" <=> handle.branch = "done"
      /\ b = "skipped" => handle.branch = "skipped"
      /\ handle.state # "failed" => s = handle.state
      /\ s = "merged" => handle.merge = "done"
  BY DEF StagesAgree
<1>3. Reset(handle, wants) = [handle EXCEPT !.validation = v, !.commit = c, !.merge = m,
                                            !.worktree = w, !.branch = b, !.state = s]
  BY DEF Reset
<1> HIDE DEF v, c, m, w, b, s
<1>4. /\ handle'.merge = m /\ handle'.branch = b /\ handle'.state = s
      /\ handle'.expected = handle.expected /\ handle'.run = handle.run
      /\ handle'.validated = handle.validated
  BY <1>1, <1>3 DEF TypeOK, Handle
<1>5. /\ contract'.passed = contract.passed /\ contract'.review = contract.review
      /\ contract'.status \notin Terminal /\ contract'.receipt = contract.receipt
  <2>1. CASE contract' = contract /\ ~Ended
    BY <2>1 DEF Ended
  <2>2. CASE contract' = Turn(contract, "cleanup", "running")
    <3>1. "cleanup" \in Phases /\ "running" \in Statuses /\ "running" \notin Terminal
      BY DEF Phases, Statuses, Terminal
    <3>2. QED
      BY <2>2, <3>1, TurnKeeps DEF TypeOK
  <2>3. QED
    BY <2>1, <2>2 DEF FinalizeBegin
<1>6. Forward' /\ (NewHead => NewHead')
  BY <1>1, <1>4, <1>5, ForwardStands
<1>7. fin' # None => fin'.at = "check" /\ fin'.wants = wants
  BY <1>1
<1>8. StagesAgree'
  BY <1>1, <1>2, <1>4, <1>5, <1>7, OutdatedIs DEF StagesAgree
<1>9. MergedMore'
  BY <1>1, <1>2, <1>4, <1>6, <1>7 DEF MergedMore
<1>10. BranchHad'
  BY <1>1, <1>2, <1>4, <1>5, <1>7 DEF BranchHad, Delivered
<1>11. QED
  BY <1>6, <1>8, <1>9, <1>10

LEMMA QuitReach ==
    ASSUME RecordsInv, ReachInv, RecordsInv', Quit,
           UNCHANGED <<contract, handle, tree, head, target, val, approved>>
    PROVE  ReachInv'
<1>1. \A c \in Candidate : OnRecord(c)' => OnRecord(c)
  BY DEF OnRecord
<1>2. /\ handle.run # None => handle.run.resume # "merged"
      /\ val # None /\ val.fresh => handle.state = "validating"
  BY DEF ReachInv, StagesAgree
<1>3. QED
  BY <1>1, <1>2, QuietStep DEF Quit

LEMMA FailStageReach ==
    ASSUME RecordsInv, ReachInv, RecordsInv', NEW stage \in StageNames, FailStage(stage),
           fin # None, ~Extra, UNCHANGED <<tree, head, target, approved>>
    PROVE  ReachInv'
<1> USE DEF ReachInv, RecordsInv
<1>1. /\ fin' = None /\ val' = Outdated
      /\ handle' = [handle EXCEPT !.state = "failed", ![stage] = "failed"]
  BY DEF FailStage, Quit, Wrote
<1>2. /\ handle'.state = "failed" /\ handle'.expected = handle.expected
      /\ handle'.run = handle.run /\ handle'.validated = handle.validated
      /\ handle'.merge \in {handle.merge, "failed"}
      /\ handle'.branch \in {handle.branch, "failed"}
  BY <1>1 DEF TypeOK, Handle, StageNames
<1>3. /\ contract'.passed = contract.passed /\ contract'.review = contract.review
      /\ contract'.receipt = contract.receipt
  <2>1. CASE contract' = contract
    BY <2>1
  <2>2. CASE contract' # contract
    <3>1. RetryPhase(stage) \in Phases /\ "cleanup" \in Phases /\ {"failed", "blocked"} \subseteq Statuses
      BY DEF RetryPhase, Phases, Statuses, Terminal
    <3>2. PICK phase \in Phases, status \in Statuses : contract' = Turn(contract, phase, status)
      BY <2>2, <3>1 DEF FailStage
    <3>3. QED
      BY <3>2, TurnKeeps DEF TypeOK
  <2>3. QED
    BY <2>1, <2>2
<1>4. Forward'
  BY <1>1, <1>2, <1>3, ForwardStands
<1>5. StagesAgree'
  BY <1>1, <1>2, OutdatedIs DEF StagesAgree
<1>6. MergedMore'
  BY <1>1, <1>2 DEF MergedMore, Extra
<1>7. BranchHad'
  BY <1>1, <1>2, <1>3 DEF BranchHad, Delivered
<1>8. QED
  BY <1>4, <1>5, <1>6, <1>7

(* The stages of a finalization.                                            *)
LEMMA FinalizeCheckReach == ASSUME RecordsInv, ReachInv, RecordsInv', FinalizeCheck PROVE ReachInv'
<1> USE DEF ReachInv, RecordsInv
<1>1. /\ UNCHANGED <<tree, head, target, approved>>
      /\ fin # None /\ fin \in Finalize /\ fin.at = "check"
      /\ contract.status \notin Terminal /\ ~contract.receipt
  BY NoReceipt DEF FinalizeCheck, At, disk, ghosts, TypeOK, StagesAgree
<1>2. CASE /\ Contained
           /\ Wrote([handle EXCEPT !.state = "merged", !.validation = "done", !.merge = "done",
                                   !.commit = IF @ = "done" THEN @ ELSE "skipped",
                                   !.branch = IF @ = "done" THEN @ ELSE "pending"])
           /\ val' = Outdated /\ Go("tree") /\ UNCHANGED contract
  <2> DEFINE c == IF handle.commit = "done" THEN handle.commit ELSE "skipped"
             b == IF handle.branch = "done" THEN handle.branch ELSE "pending"
  <2>1. b \in {"done", "pending"} /\ (b = "done" => handle.branch = "done")
    OBVIOUS
  <2>2. handle' = [handle EXCEPT !.state = "merged", !.validation = "done", !.merge = "done",
                                 !.commit = c, !.branch = b]
    BY <1>2 DEF Wrote
  <2> HIDE DEF c, b
  <2>3. /\ handle'.state = "merged" /\ handle'.merge = "done" /\ handle'.branch = b
        /\ handle'.expected = handle.expected /\ handle'.run = handle.run
        /\ handle'.validated = handle.validated
    BY <2>2 DEF TypeOK, Handle
  <2>4. fin' # None => fin'.at = "tree"
    BY <1>1, <1>2 DEF Go, Finalize
  <2>5. Forward'
    BY <1>1, <1>2, <2>3, ForwardStands
  <2>6. StagesAgree'
    BY <1>1, <1>2, <2>1, <2>3, <2>4, OutdatedIs DEF StagesAgree
  <2>7. tree # None => handle.expected = head
    BY <1>2 DEF Contained
  <2>8. MergedMore'
    BY <1>1, <2>3, <2>4, <2>7 DEF MergedMore
  <2>9. tree = None => handle.merge = "done"
    BY <1>2 DEF Contained, StagesAgree
  <2>10. BranchHad'
    BY <1>1, <1>2, <2>1, <2>3, <2>4, <2>9 DEF BranchHad, Delivered
  <2>11. QED
    BY <2>5, <2>6, <2>8, <2>10
<1>3. CASE Quit /\ UNCHANGED <<contract, handle, indexed, val>>
  BY <1>1, <1>3, QuitReach
<1>4. CASE ~HandleValid /\ FailStage("validation")
  <2>1. ~Extra
    BY <1>4, ValidHere DEF Extra
  <2>2. QED
    BY <1>1, <1>4, <2>1, FailStageReach DEF StageNames
<1>5. CASE /\ Wrote([handle EXCEPT !.validation = "pending", !.validated = None]) /\ val' = Outdated
           /\ contract' = Rearmed(contract) /\ Quit
  <2>1. /\ handle'.state = handle.state /\ handle'.merge = handle.merge
        /\ handle'.branch = handle.branch /\ handle'.expected = handle.expected
        /\ handle'.run = handle.run /\ handle'.validated = None /\ fin' = None
    BY <1>5 DEF Wrote, Quit, TypeOK, Handle
  <2>2. /\ contract'.passed = contract.passed /\ contract'.review = contract.review
        /\ contract'.receipt = contract.receipt
    BY <1>5, RearmedKeeps DEF TypeOK
  <2>3. val' = None \/ (val # None /\ val'.of = val.of)
    BY <1>5, OutdatedIs
  <2>4. ~(val' # None /\ val'.fresh)
    BY <1>5, OutdatedIs
  <2>5. \A c \in Candidate : OnRecord(c)' => OnRecord(c)
    BY <2>1, <2>2, <2>3, RecordStands
  <2>6. handle'.run # None => handle'.run.resume # "merged"
    BY <2>1 DEF StagesAgree
  <2>7. QED
    BY <1>1, <2>1, <2>2, <2>4, <2>5, <2>6, QuietStep
<1>6. CASE /\ HandleValid /\ Authority
           /\ IF Wanted("commit") /\ handle.commit = "done" /\ ~Clean
              THEN /\ Wrote([handle EXCEPT !.state = "validating", !.commit = "pending",
                                           !.merge = IF @ = "done" THEN "pending" ELSE @])
                   /\ val' = Outdated
              ELSE UNCHANGED <<handle, indexed, val>>
           /\ fin' = [fin EXCEPT !.at = "commit", !.of = Current]
           /\ UNCHANGED contract
  <2>1. Current \in Candidate /\ tree # None /\ Current.head = head
    BY <1>6, CandidateHere DEF HandleValid
  <2>2. ~Extra
    <3>1. handle.validated = Current /\ handle.validated # None
      BY <1>6, <2>1, DeliveryNone DEF Authority
    <3>2. OnRecord(Current)
      BY <3>1 DEF OnRecord
    <3>3. QED
      BY <2>1, <3>2 DEF Extra, MergedMore, NewHead
  <2>3. fin' # None => fin'.at = "commit"
    BY <1>1, <1>6 DEF Finalize
  <2>4. /\ handle'.state \in {handle.state, "validating"}
        /\ handle'.state = "merged" => handle'.merge = handle.merge
        /\ handle'.merge \in {handle.merge, "pending"}
        /\ handle'.branch = handle.branch /\ handle'.expected = handle.expected
        /\ handle'.run = handle.run /\ handle'.validated = handle.validated
        /\ (val' = val /\ handle' = handle) \/ val' = Outdated
    <3>1. CASE Wanted("commit") /\ handle.commit = "done" /\ ~Clean
      <4> DEFINE m == IF handle.merge = "done" THEN "pending" ELSE handle.merge
      <4>1. m \in {handle.merge, "pending"}
        OBVIOUS
      <4>2. handle' = [handle EXCEPT !.state = "validating", !.commit = "pending", !.merge = m]
            /\ val' = Outdated
        BY <1>6, <3>1 DEF Wrote
      <4> HIDE DEF m
      <4>3. QED
        BY <4>1, <4>2 DEF TypeOK, Handle
    <3>2. CASE ~(Wanted("commit") /\ handle.commit = "done" /\ ~Clean)
      BY <1>6, <3>2
    <3>3. QED
      BY <3>1, <3>2
  <2>5. Forward'
    BY <1>1, <1>6, <2>4, ForwardStands
  <2>6. StagesAgree'
    BY <1>1, <1>6, <2>3, <2>4, StaleIs DEF StagesAgree
  <2>7. MergedMore'
    BY <1>1, <2>2, <2>3, <2>4 DEF MergedMore, Extra
  <2>8. BranchHad'
    BY <1>1, <1>6, <2>1, <2>3, <2>4 DEF BranchHad, Delivered
  <2>9. QED
    BY <2>5, <2>6, <2>7, <2>8
<1>7. QED
  BY <1>2, <1>3, <1>4, <1>5, <1>6 DEF FinalizeCheck

(* At the places of the change itself there is a worktree, and nothing      *)
(* beyond what the handle expects was merged.                               *)
LEMMA BuildingIs ==
    ASSUME RecordsInv, ReachInv, fin # None, fin.at \in Building
    PROVE  /\ tree # None /\ head # None /\ tree \in Nat /\ head \in Nat /\ target \in Nat
           /\ handle.expected \in Nat /\ handle.branch # "done" /\ ~Extra
           /\ contract.status \notin Terminal /\ ~contract.receipt
<1> USE DEF ReachInv, RecordsInv
<1>1. tree # None /\ head # None
  BY DEF UnderWay
<1>2. tree \in Nat /\ head \in Nat /\ target \in Nat /\ handle.expected \in Nat
  BY <1>1, DeliveryNumbers DEF TypeOK, Versions, Handle
<1>3. handle.branch # "done"
  BY <1>1 DEF BranchHad
<1>4. ~Extra
  BY DEF Extra, MergedMore, Building
<1>5. QED
  BY <1>1, <1>2, <1>3, <1>4, NoReceipt DEF StagesAgree

LEMMA FinalizeCommitReach == ASSUME RecordsInv, ReachInv, RecordsInv', FinalizeCommit PROVE ReachInv'
<1> USE DEF ReachInv, RecordsInv
<1>1. /\ UNCHANGED <<tree, head, target, approved>>
      /\ fin # None /\ fin \in Finalize /\ fin.at = "commit"
  BY DEF FinalizeCommit, At, disk, ghosts, TypeOK
<1>2. /\ tree # None /\ handle.branch # "done" /\ ~Extra
      /\ contract.status \notin Terminal /\ ~contract.receipt
  BY <1>1, BuildingIs DEF Building
<1>3. CASE Quit /\ UNCHANGED <<contract, handle, indexed, val>>
  BY <1>1, <1>3, QuitReach
<1>4. CASE FailStage("commit")
  BY <1>1, <1>2, <1>4, FailStageReach DEF StageNames
<1>5. CASE /\ Go("committing") \/ Go("merge")
           /\ UNCHANGED contract
           /\ \/ UNCHANGED <<handle, val>>
              \/ /\ val' = Outdated
                 /\ \/ handle' = [handle EXCEPT !.commit = "done", !.state = "committed"]
                    \/ handle' = [handle EXCEPT !.commit = "skipped"]
  <2>1. /\ handle'.state \in {handle.state, "committed"} /\ handle'.merge = handle.merge
        /\ handle'.branch = handle.branch /\ handle'.expected = handle.expected
        /\ handle'.run = handle.run /\ handle'.validated = handle.validated
        /\ (val' = val /\ handle' = handle) \/ val' = Outdated
    BY <1>5 DEF TypeOK, Handle
  <2>2. fin' # None => fin'.at \in {"committing", "merge"}
    BY <1>1, <1>5 DEF Go, Finalize
  <2>3. Forward'
    BY <1>1, <1>5, <2>1, ForwardStands
  <2>4. StagesAgree'
    BY <1>2, <1>5, <2>1, <2>2, StaleIs DEF StagesAgree
  <2>5. MergedMore'
    BY <1>1, <1>2, <2>1, <2>2 DEF MergedMore, Extra
  <2>6. BranchHad'
    BY <1>1, <1>2, <1>5, <2>1, <2>2 DEF BranchHad
  <2>7. QED
    BY <2>3, <2>4, <2>5, <2>6
<1>6. QED
  BY <1>3, <1>4, <1>5 DEF FinalizeCommit, Wrote

LEMMA CommittingReach == ASSUME RecordsInv, ReachInv, RecordsInv', Committing PROVE ReachInv'
<1> USE DEF ReachInv, RecordsInv
<1>1. /\ UNCHANGED <<contract, handle, tree, target, val, approved>>
      /\ fin # None /\ fin \in Finalize /\ fin.at = "committing" /\ head' = tree
  BY DEF Committing, At, bounds, ghosts, TypeOK
<1>2. /\ tree # None /\ head # None /\ tree \in Nat /\ head \in Nat /\ target \in Nat
      /\ handle.expected \in Nat /\ handle.branch # "done" /\ ~Extra
      /\ contract.status \notin Terminal /\ ~contract.receipt
  BY <1>1, BuildingIs DEF Building
<1>3. fin' # None => fin'.at = "committed"
  BY <1>1 DEF Committing, Go, Finalize
<1>4. \A c \in Candidate : (OnRecord(c)' <=> OnRecord(c)) /\ c.head \in Nat
  BY <1>1, DeliveryNumbers DEF OnRecord, Candidate, Versions
<1>5. Forward'
  BY <1>1, <1>2, <1>4 DEF Forward
<1>6. StagesAgree'
  BY <1>1, <1>3 DEF StagesAgree
<1>7. head' = target' => head = target
  BY <1>1, <1>2 DEF Forward
<1>8. MergedMore'
  BY <1>1, <1>2, <1>3, <1>7 DEF MergedMore, Extra, Forward
<1>9. BranchHad'
  BY <1>1, <1>2, <1>3 DEF BranchHad
<1>10. QED
  BY <1>5, <1>6, <1>8, <1>9

LEMMA CommittedReach == ASSUME RecordsInv, ReachInv, RecordsInv', Committed PROVE ReachInv'
<1> USE DEF ReachInv, RecordsInv
<1> DEFINE kept == tree = fin.of.tree
           v == IF kept THEN "done" ELSE "pending"
           d == IF kept THEN Current ELSE None
<1>1. /\ UNCHANGED <<tree, head, target, approved>>
      /\ fin # None /\ fin \in Finalize /\ fin.at = "committed"
  BY DEF Committed, At, disk, ghosts, TypeOK
<1>2. /\ tree # None /\ head # None /\ head \in Nat /\ target \in Nat
      /\ handle.branch # "done" /\ contract.status \notin Terminal /\ ~contract.receipt
  BY <1>1, BuildingIs DEF Building
<1>3. Current \in Candidate /\ Current.head = head
  BY <1>2, CandidateHere
<1>4. handle' = [handle EXCEPT !.state = "committed", !.expected = head, !.commit = "done",
                               !.validation = v, !.validated = d]
      /\ val' = Outdated
  BY DEF Committed, Wrote
<1>5. d \in {Current, None}
  OBVIOUS
<1> HIDE DEF v, d
<1>6. head \in Versions
  BY <1>2 DEF TypeOK
<1>7. /\ handle'.state = "committed" /\ handle'.expected = head /\ handle'.validated = d
      /\ handle'.merge = handle.merge /\ handle'.branch = handle.branch /\ handle'.run = handle.run
  BY <1>4 DEF TypeOK, Handle
<1>8. /\ contract'.passed \subseteq contract.passed \union {Current}
      /\ contract'.review = contract.review \/ contract'.review.of = Current
      /\ contract'.receipt = contract.receipt
      /\ fin' # None => contract'.status \notin Terminal
      /\ fin' # None => fin'.at = "merge"
  <2>1. CASE Quit /\ (contract' = Rearmed(contract) \/ contract' = contract)
    BY <2>1, RearmedKeeps DEF Quit, TypeOK
  <2>2. CASE Quit /\ contract' = [contract EXCEPT !.passed = @ \union {Current}]
    BY <2>2 DEF Quit, TypeOK, Contract
  <2>3. CASE /\ Go("merge")
             /\ contract' = [Turn(contract, "delivery", "running") EXCEPT
                                !.passed = @ \union {Current},
                                !.review = [of |-> Current, decision |-> "approved"]]
    <3> DEFINE T == Turn(contract, "delivery", "running")
    <3>1. T \in Contract /\ T.passed = contract.passed /\ T.receipt = contract.receipt
          /\ T.status = "running"
      BY TurnKeeps DEF TypeOK, Phases, Statuses
    <3> HIDE DEF T
    <3>2. contract' = [T EXCEPT !.passed = @ \union {Current},
                                !.review = [of |-> Current, decision |-> "approved"]]
      BY <2>3 DEF T
    <3>3. fin' # None => fin'.at = "merge"
      BY <1>1, <2>3 DEF Go, Finalize
    <3>4. QED
      BY <3>1, <3>2, <3>3 DEF Contract, Terminal
  <2>4. QED
    BY <2>1, <2>2, <2>3 DEF Committed
<1>9. val' = None \/ (val # None /\ val'.of = val.of)
  BY <1>4, OutdatedIs
<1>10. \A c \in Candidate : OnRecord(c)' => OnRecord(c) \/ c = Current
  BY <1>5, <1>7, <1>8, <1>9, RecordGrows
<1>11. Forward'
  BY <1>1, <1>2, <1>3, <1>7, <1>10 DEF Forward
<1>12. StagesAgree'
  BY <1>4, <1>7, <1>8, OutdatedIs DEF StagesAgree
<1>13. MergedMore'
  BY <1>1, <1>7, <1>8 DEF MergedMore
<1>14. BranchHad'
  BY <1>1, <1>2, <1>7, <1>8 DEF BranchHad
<1>15. QED
  BY <1>11, <1>12, <1>13, <1>14

LEMMA FinalizeMergeReach == ASSUME RecordsInv, ReachInv, RecordsInv', FinalizeMerge PROVE ReachInv'
<1> USE DEF ReachInv, RecordsInv
<1>1. /\ UNCHANGED <<contract, tree, head, target, approved>>
      /\ fin # None /\ fin \in Finalize /\ fin.at = "merge"
  BY DEF FinalizeMerge, At, disk, bounds, ghosts, TypeOK
<1>2. /\ tree # None /\ head # None /\ head \in Nat /\ target \in Nat
      /\ handle.branch # "done" /\ ~Extra
      /\ contract.status \notin Terminal /\ ~contract.receipt
  BY <1>1, BuildingIs DEF Building
<1>3. head \in Versions
  BY <1>2 DEF TypeOK
<1>4. CASE Quit /\ UNCHANGED <<handle, indexed, val>>
  BY <1>1, <1>4, QuitReach
<1>5. CASE /\ Wanted("merge") /\ handle.merge = "pending"
           /\ \/ handle' = [handle EXCEPT !.expected = head] /\ val' = Outdated
              \/ head = handle.expected /\ UNCHANGED <<handle, val>>
           /\ Go("merging") \/ Quit
  <2>1. /\ handle'.expected = head /\ handle'.state = handle.state /\ handle'.merge = "pending"
        /\ handle'.branch = handle.branch /\ handle'.run = handle.run
        /\ handle'.validated = handle.validated
        /\ (val' = val /\ handle' = handle) \/ val' = Outdated
    BY <1>3, <1>5 DEF TypeOK, Handle
  <2>2. fin' # None => fin'.at = "merging" /\ "merge" \in fin'.wants
    BY <1>1, <1>5 DEF Go, Quit, Wanted, Finalize
  <2>3. \A c \in Candidate : OnRecord(c)' => OnRecord(c)
    <3>1. val' = None \/ (val # None /\ val'.of = val.of)
      BY <2>1, OutdatedIs
    <3>2. QED
      BY <1>1, <2>1, <3>1, RecordStands
  <2>4. Forward'
    BY <1>1, <1>2, <2>1, <2>3 DEF Forward
  <2>5. StagesAgree'
    BY <1>1, <1>2, <1>5, <2>1, <2>2, StaleIs DEF StagesAgree
  <2>6. MergedMore'
    BY <1>1, <2>1 DEF MergedMore
  <2>7. BranchHad'
    BY <1>1, <1>2, <2>1, <2>2 DEF BranchHad
  <2>8. QED
    BY <2>4, <2>5, <2>6, <2>7
<1>6. CASE /\ Go("tree")
           /\ \/ /\ handle.merge = "pending"
                 /\ handle' = [handle EXCEPT !.merge = "skipped", !.branch = "skipped"]
                 /\ val' = Outdated
              \/ UNCHANGED <<handle, val>>
  <2>1. /\ handle'.expected = handle.expected /\ handle'.state = handle.state
        /\ handle'.run = handle.run /\ handle'.validated = handle.validated
        /\ \/ handle'.merge = handle.merge /\ handle'.branch = handle.branch
           \/ handle.merge = "pending" /\ handle'.merge = "skipped" /\ handle'.branch = "skipped"
        /\ (val' = val /\ handle' = handle) \/ val' = Outdated
    BY <1>6 DEF TypeOK, Handle
  <2>2. fin' # None => fin'.at = "tree"
    BY <1>1, <1>6 DEF Go, Finalize
  <2>3. Forward'
    BY <1>1, <2>1, ForwardStands
  <2>4. StagesAgree'
    BY <1>1, <1>2, <2>1, <2>2, StaleIs DEF StagesAgree
  <2>5. MergedMore'
    BY <1>1, <1>2, <2>1, <2>2 DEF MergedMore, Extra
  <2>6. BranchHad'
    BY <1>1, <1>2, <2>1, <2>2 DEF BranchHad
  <2>7. QED
    BY <2>3, <2>4, <2>5, <2>6
<1>7. QED
  BY <1>4, <1>5, <1>6 DEF FinalizeMerge, Wrote

LEMMA MergingReach == ASSUME RecordsInv, ReachInv, RecordsInv', Merging PROVE ReachInv'
<1> USE DEF ReachInv, RecordsInv
<1>1. /\ UNCHANGED <<tree, head, approved>>
      /\ fin # None /\ fin \in Finalize /\ fin.at = "merging"
  BY DEF Merging, At, ghosts, TypeOK
<1>2. /\ tree # None /\ head # None /\ head \in Nat /\ target \in Nat
      /\ handle.branch # "done" /\ ~Extra
      /\ contract.status \notin Terminal /\ ~contract.receipt
  BY <1>1, BuildingIs DEF Building
<1>3. CASE /\ target' = IF head > target THEN head ELSE target
           /\ Go("merged") /\ UNCHANGED <<contract, handle, val>>
  <2>1. target' = head
    BY <1>2, <1>3 DEF Forward
  <2>2. fin' = [fin EXCEPT !.at = "merged"] /\ fin'.at = "merged" /\ fin'.wants = fin.wants
    BY <1>1, <1>3 DEF Go, Finalize
  <2>3. \A c \in Candidate : OnRecord(c)' <=> OnRecord(c)
    BY <1>3 DEF OnRecord
  <2>4. Forward'
    BY <1>1, <1>2, <1>3, <2>1, <2>3 DEF Forward
  <2>5. StagesAgree'
    BY <1>1, <1>3, <2>2 DEF StagesAgree
  <2>6. NewHead => NewHead'
    BY <1>1, <2>3 DEF NewHead
  <2>7. MergedMore'
    BY <1>1, <1>3, <2>2, <2>6 DEF MergedMore, StagesAgree
  <2>8. BranchHad'
    BY <1>1, <1>2, <1>3, <2>2 DEF BranchHad
  <2>9. QED
    BY <2>4, <2>5, <2>7, <2>8
<1>4. CASE FailStage("merge") /\ UNCHANGED target
  BY <1>1, <1>2, <1>4, FailStageReach DEF StageNames
<1>5. QED
  BY <1>3, <1>4 DEF Merging

LEMMA MergedReach == ASSUME RecordsInv, ReachInv, RecordsInv', Merged PROVE ReachInv'
<1> USE DEF ReachInv, RecordsInv
<1>1. /\ UNCHANGED <<contract, tree, head, target, approved>>
      /\ fin # None /\ fin \in Finalize /\ fin.at = "merged" /\ val' = Outdated
  BY DEF Merged, At, disk, bounds, ghosts, TypeOK
<1>2. /\ tree # None /\ head # None /\ handle.branch # "done"
      /\ contract.status \notin Terminal /\ ~contract.receipt
  BY <1>1, BuildingIs DEF Building
<1>3. "cleanup" \in fin.wants
  BY <1>1 DEF StagesAgree, Finalize, Wants
<1>4. handle' = [handle EXCEPT !.state = "merged", !.merge = "done", !.branch = "pending"]
  BY <1>1, <1>3 DEF Merged, Wrote, Wanted
<1>5. /\ handle'.state = "merged" /\ handle'.merge = "done" /\ handle'.branch = "pending"
      /\ handle'.expected = handle.expected /\ handle'.run = handle.run
      /\ handle'.validated = handle.validated
  BY <1>4 DEF TypeOK, Handle
<1>6. fin' # None => fin'.at = "tree" /\ fin'.wants = fin.wants
  BY <1>1 DEF Merged, Go, Finalize
<1>7. Forward' /\ (NewHead => NewHead')
  BY <1>1, <1>5, ForwardStands
<1>8. StagesAgree'
  BY <1>1, <1>2, <1>5, <1>6, OutdatedIs DEF StagesAgree
<1>9. MergedMore'
  BY <1>1, <1>3, <1>5, <1>6, <1>7 DEF MergedMore
<1>10. BranchHad'
  BY <1>1, <1>2, <1>5, <1>6 DEF BranchHad
<1>11. QED
  BY <1>7, <1>8, <1>9, <1>10

(* What finalization takes for reviewed and clean is what was merged.       *)
LEMMA GateHere ==
    ASSUME RecordsInv, ReachInv, NEW c \in Candidate, Gate(c), c.head = head
    PROVE  ~Extra
BY GateOnRecord DEF ReachInv, MergedMore, Extra, NewHead

LEMMA FinalizeTreeReach == ASSUME RecordsInv, ReachInv, RecordsInv', FinalizeTree PROVE ReachInv'
<1> USE DEF ReachInv, RecordsInv
<1>1. /\ UNCHANGED <<head, target, approved>>
      /\ fin # None /\ fin \in Finalize /\ fin.at = "tree"
      /\ contract.status \notin Terminal /\ ~contract.receipt
  BY NoReceipt DEF FinalizeTree, At, bounds, ghosts, TypeOK, StagesAgree
<1>2. CASE Quit /\ UNCHANGED <<contract, handle, indexed, val, tree>>
  BY <1>1, <1>2, QuitReach
<1>3. ASSUME tree # None, Gate(Current)
      PROVE  ~Extra /\ head # None /\ tree \in approved
  <2>1. Current \in Candidate /\ Current.head = head /\ head # None
    BY <1>3, CandidateHere DEF UnderWay
  <2>2. QED
    BY <1>3, <2>1, GateHere, GateTells
<1>4. CASE tree # None /\ Gate(Current) /\ FailStage("worktree") /\ UNCHANGED tree
  BY <1>1, <1>3, <1>4, FailStageReach DEF StageNames
<1>5. CASE /\ tree # None /\ Gate(Current) /\ Clean
           /\ tree' = None /\ Go("removed") /\ UNCHANGED <<contract, handle, indexed, val>>
  <2>1. fin' = [fin EXCEPT !.at = "removed"] /\ fin'.at = "removed"
    BY <1>1, <1>5 DEF Go, Finalize
  <2>2. Forward'
    BY <1>1, <1>5, ForwardStands
  <2>3. StagesAgree'
    BY <1>1, <1>5, <2>1 DEF StagesAgree
  <2>4. MergedMore'
    BY <1>5, <2>1 DEF MergedMore
  <2>5. ~Extra /\ head \in approved /\ head # None
    BY <1>3, <1>5 DEF Clean
  <2>6. head <= target => head = target
    BY <2>5, DeliveryNumbers DEF Forward, TypeOK, Versions
  <2>7. BranchHad'
    BY <1>1, <1>5, <2>1, <2>5, <2>6 DEF BranchHad, Delivered, Extra
  <2>8. QED
    BY <2>2, <2>3, <2>4, <2>7
<1>6. CASE /\ Go("branch") /\ UNCHANGED <<contract, tree>>
           /\ \/ /\ ~Wanted("cleanup")
                 /\ handle' = [handle EXCEPT !.worktree = "skipped"] /\ val' = Outdated
              \/ UNCHANGED <<handle, val>>
  <2>1. /\ handle'.expected = handle.expected /\ handle'.state = handle.state
        /\ handle'.merge = handle.merge /\ handle'.branch = handle.branch
        /\ handle'.run = handle.run /\ handle'.validated = handle.validated
        /\ (val' = val /\ handle' = handle) \/ val' = Outdated
    BY <1>6 DEF TypeOK, Handle
  <2>2. fin' # None => fin'.at = "branch" /\ fin'.wants = fin.wants
    BY <1>1, <1>6 DEF Go, Finalize
  <2>3. Forward' /\ (NewHead => NewHead')
    BY <1>1, <1>6, <2>1, ForwardStands
  <2>4. StagesAgree'
    BY <1>1, <1>6, <2>1, <2>2, StaleIs DEF StagesAgree
  <2>5. MergedMore'
    BY <1>1, <1>6, <2>1, <2>2, <2>3 DEF MergedMore
  <2>6. BranchHad'
    BY <1>1, <1>6, <2>1, <2>2 DEF BranchHad, Delivered
  <2>7. QED
    BY <2>3, <2>4, <2>5, <2>6
<1>7. contract.status \notin {"cancelled", "failed"}
  BY <1>1 DEF Terminal
<1>8. QED
  BY <1>2, <1>4, <1>5, <1>6, <1>7 DEF FinalizeTree, Wrote

LEMMA RemovedReach == ASSUME RecordsInv, ReachInv, RecordsInv', Removed PROVE ReachInv'
<1> USE DEF ReachInv, RecordsInv
<1>1. /\ UNCHANGED <<contract, tree, head, target, approved>>
      /\ fin # None /\ fin \in Finalize /\ fin.at = "removed" /\ val' = Outdated
      /\ handle' = [handle EXCEPT !.worktree = "done"]
  BY DEF Removed, At, Wrote, disk, bounds, ghosts, TypeOK
<1>2. /\ handle'.expected = handle.expected /\ handle'.state = handle.state
      /\ handle'.merge = handle.merge /\ handle'.branch = handle.branch
      /\ handle'.run = handle.run /\ handle'.validated = handle.validated
  BY <1>1 DEF TypeOK, Handle
<1>3. fin' # None => fin'.at = "branch"
  BY <1>1 DEF Removed, Go, Finalize
<1>4. Forward'
  BY <1>1, <1>2, ForwardStands
<1>5. StagesAgree'
  BY <1>1, <1>2, <1>3, OutdatedIs DEF StagesAgree
<1>6. MergedMore'
  BY <1>1, <1>2, <1>3 DEF MergedMore
<1>7. BranchHad'
  BY <1>1, <1>2, <1>3 DEF BranchHad, Delivered
<1>8. QED
  BY <1>4, <1>5, <1>6, <1>7

LEMMA FinalizeBranchReach == ASSUME RecordsInv, ReachInv, RecordsInv', FinalizeBranch PROVE ReachInv'
<1> USE DEF ReachInv, RecordsInv
<1>1. /\ UNCHANGED <<tree, target, approved>>
      /\ fin # None /\ fin \in Finalize /\ fin.at = "branch"
      /\ contract.status \notin Terminal /\ ~contract.receipt
  BY NoReceipt DEF FinalizeBranch, At, bounds, ghosts, TypeOK, StagesAgree
<1> DEFINE reviewed == IF contract.review = None THEN None ELSE contract.review.of
<1>2. CASE Quit /\ UNCHANGED <<contract, handle, indexed, val, head>>
  BY <1>1, <1>2, QuitReach
<1>3. CASE /\ reviewed # None /\ reviewed.head = head /\ Gate(reviewed)
           /\ FailStage("branch") /\ UNCHANGED head
  <2>1. reviewed \in Candidate
    BY <1>3 DEF TypeOK, Contract, Review
  <2> HIDE DEF reviewed
  <2>2. ~Extra
    BY <1>3, <2>1, GateHere
  <2>3. QED
    BY <1>1, <1>3, <2>2, FailStageReach DEF StageNames
<1>4. CASE /\ handle.branch = "pending" /\ handle.merge = "done"
           /\ ~(head = None \/ head > target \/ tree # None)
           /\ head' = None /\ Go("deleted") /\ UNCHANGED <<contract, handle, indexed, val>>
  <2>1. fin' = [fin EXCEPT !.at = "deleted"] /\ fin'.at = "deleted"
    BY <1>1, <1>4 DEF Go, Finalize
  <2>2. head \in Nat /\ target \in Nat
    BY <1>4, DeliveryNumbers DEF TypeOK, Versions
  <2>3. Delivered
    BY <1>4, <2>2 DEF BranchHad, Delivered
  <2>4. Forward' /\ MergedMore'
    BY <1>1, <1>4, <2>1 DEF Forward, MergedMore
  <2>5. StagesAgree'
    BY <1>1, <1>4, <2>1 DEF StagesAgree
  <2>6. BranchHad'
    BY <1>1, <1>4, <2>1, <2>3 DEF BranchHad, Delivered
  <2>7. QED
    BY <2>4, <2>5, <2>6
<1>5. CASE /\ ~(Wanted("cleanup") /\ handle.branch = "pending" /\ handle.merge = "done")
           /\ Go("finish") /\ UNCHANGED <<contract, handle, indexed, val, head>>
  <2>1. fin' = [fin EXCEPT !.at = "finish"] /\ fin'.at = "finish"
    BY <1>1, <1>5 DEF Go, Finalize
  <2>2. ~Extra
    BY <1>1, <1>5 DEF Extra, MergedMore, Wanted
  <2>3. Forward'
    BY <1>1, <1>5, ForwardStands
  <2>4. StagesAgree'
    BY <1>1, <1>5, <2>1 DEF StagesAgree
  <2>5. MergedMore'
    BY <1>1, <1>5, <2>1, <2>2 DEF MergedMore, Extra
  <2>6. BranchHad'
    BY <1>1, <1>5, <2>1 DEF BranchHad, Delivered
  <2>7. QED
    BY <2>3, <2>4, <2>5, <2>6
<1>6. contract.status \notin {"cancelled", "failed"}
  BY <1>1 DEF Terminal
<1>7. QED
  BY <1>2, <1>3, <1>4, <1>5, <1>6 DEF FinalizeBranch

LEMMA DeletedReach == ASSUME RecordsInv, ReachInv, RecordsInv', Deleted PROVE ReachInv'
<1> USE DEF ReachInv, RecordsInv
<1>1. /\ UNCHANGED <<contract, tree, head, target, approved>>
      /\ fin # None /\ fin \in Finalize /\ fin.at = "deleted" /\ val' = Outdated
      /\ handle' = [handle EXCEPT !.branch = "done"]
      /\ contract.status \notin Terminal /\ ~contract.receipt
  BY NoReceipt DEF Deleted, At, Wrote, disk, bounds, ghosts, TypeOK, StagesAgree
<1>2. /\ handle'.expected = handle.expected /\ handle'.state = handle.state
      /\ handle'.merge = handle.merge /\ handle'.branch = "done"
      /\ handle'.run = handle.run /\ handle'.validated = handle.validated
  BY <1>1 DEF TypeOK, Handle
<1>3. fin' # None => fin'.at = "finish"
  BY <1>1 DEF Deleted, Go, Finalize
<1>4. Forward'
  BY <1>1, <1>2, ForwardStands
<1>5. StagesAgree'
  BY <1>1, <1>2, <1>3, OutdatedIs DEF StagesAgree
<1>6. MergedMore'
  BY <1>1, <1>2, <1>3 DEF MergedMore
<1>7. BranchHad'
  BY <1>1, <1>2, <1>3 DEF BranchHad, Delivered
<1>8. QED
  BY <1>4, <1>5, <1>6, <1>7

LEMMA FinalizeFinishReach == ASSUME RecordsInv, ReachInv, RecordsInv', FinalizeFinish PROVE ReachInv'
<1> USE DEF ReachInv, RecordsInv
<1>1. /\ UNCHANGED <<contract, tree, head, target, approved>>
      /\ fin # None /\ fin \in Finalize /\ fin.at = "finish"
      /\ contract.status \notin Terminal /\ ~contract.receipt
  BY NoReceipt DEF FinalizeFinish, At, disk, bounds, ghosts, TypeOK, StagesAgree
<1>2. CASE Quit /\ UNCHANGED <<handle, indexed, val>>
  BY <1>1, <1>2, QuitReach
<1>3. CASE /\ Complete /\ handle' = [handle EXCEPT !.state = FinalState]
           /\ val' = Outdated /\ Go("complete")
  <2>1. FinalState = "merged" => handle.merge = "done"
    BY DEF FinalState, StagesAgree
  <2> HIDE DEF FinalState
  <2>2. /\ handle'.state = FinalState /\ handle'.expected = handle.expected
        /\ handle'.merge = handle.merge /\ handle'.branch = handle.branch
        /\ handle'.commit = handle.commit /\ handle'.worktree = handle.worktree
        /\ handle'.validation = handle.validation
        /\ handle'.run = handle.run /\ handle'.validated = handle.validated
    BY <1>3 DEF TypeOK, Handle
  <2>3. fin' # None => fin'.at = "complete"
    BY <1>1, <1>3 DEF Go, Finalize
  <2>4. Complete'
    BY <1>3, <2>2 DEF Complete
  <2>5. Forward'
    BY <1>1, <1>3, <2>2, ForwardStands
  <2>6. StagesAgree'
    BY <1>1, <1>3, <2>1, <2>2, <2>3, <2>4, OutdatedIs DEF StagesAgree
  <2>7. MergedMore'
    BY <1>1, <2>2, <2>3 DEF MergedMore
  <2>8. BranchHad'
    BY <1>1, <2>2, <2>3 DEF BranchHad, Delivered
  <2>9. QED
    BY <2>5, <2>6, <2>7, <2>8
<1>4. QED
  BY <1>2, <1>3 DEF FinalizeFinish, Wrote

LEMMA FinalizeCompleteReach ==
    ASSUME RecordsInv, ReachInv, RecordsInv', FinalizeComplete PROVE ReachInv'
<1> USE DEF ReachInv, RecordsInv
<1>1. /\ UNCHANGED <<handle, tree, head, target, val, approved>>
      /\ fin # None /\ fin \in Finalize /\ fin.at = "complete" /\ fin' = None
      /\ contract' = WithReceipt(contract) \/ contract' = contract
  BY DEF FinalizeComplete, At, Quit, disk, bounds, ghosts, TypeOK
<1>2. contract'.passed = contract.passed /\ contract'.review = contract.review
  BY <1>1, ReceiptKeeps
<1>3. handle.merge = "done" => head = None /\ Delivered
  BY <1>1 DEF StagesAgree, Complete, BranchHad
<1>4. Forward'
  BY <1>1, <1>2, ForwardStands
<1>5. StagesAgree' /\ MergedMore'
  BY <1>1 DEF StagesAgree, MergedMore
<1>6. BranchHad'
  BY <1>1, <1>3 DEF BranchHad, Delivered
<1>7. QED
  BY <1>4, <1>5, <1>6

LEMMA NextReach == ASSUME RecordsInv, ReachInv, RecordsInv', [Next]_vars PROVE ReachInv'
<1>1. CASE \/ Edit \/ HandCommit \/ ValidateStart \/ ProcessEnds \/ ValidateReturn \/ Sweep
           \/ \E decision \in Decisions : DecideReview(decision)
           \/ Judge \/ Stop \/ Crash
  BY <1>1, EditReach, HandCommitReach, ValidateStartReach, ProcessEndsReach, ValidateReturnReach,
     SweepReach, DecideReviewReach, JudgeReach, StopReach, CrashReach
<1>2. CASE \/ Cleanup \/ FailedCleanup \/ RecoverCompletion
           \/ \E wants \in Wants : FinalizeBegin(wants)
  BY <1>2, CleanupReach, FailedCleanupReach, RecoverCompletionReach, FinalizeBeginReach
<1>3. CASE Finalizing
  BY <1>3, FinalizeCheckReach, FinalizeCommitReach, CommittingReach, CommittedReach,
     FinalizeMergeReach, MergingReach, MergedReach, FinalizeTreeReach, RemovedReach,
     FinalizeBranchReach, DeletedReach, FinalizeFinishReach, FinalizeCompleteReach DEF Finalizing
<1>4. CASE UNCHANGED vars
  BY <1>4 DEF vars, disk, bounds, ghosts, ReachInv, Forward, StagesAgree, MergedMore, NewHead,
     BranchHad, OnRecord, Delivered, Complete
<1>5. QED
  BY <1>1, <1>2, <1>3, <1>4 DEF Next

(* The books of the Work are true, and they and the branches, the worktree  *)
(* and the place of a finalization stand in the relations on which delivery *)
(* relies (assertPhysicalImplementationReviewGate, finalizationComplete).   *)
THEOREM DeliveryBooks == Spec => []DeliveryInv
<1>1. Init => DeliveryInv
  BY InitRecords, InitReach DEF DeliveryInv
<1>2. DeliveryInv /\ [Next]_vars => DeliveryInv'
  BY NextRecords, NextReach DEF DeliveryInv
<1>3. QED
  BY <1>1, <1>2, PTL DEF Spec

(* A Work that says it was merged is completed only when the target has     *)
(* what it expects, and that was reviewed (completionReceiptForFinalizedWork*)
(* throws WORK_COMPLETION_RECEIPT_DELIVERY_NOT_PROVEN).                     *)
THEOREM CompletionDelivered == Spec => []CompletedDelivered
<1>1. DeliveryInv => CompletedDelivered
  BY DEF DeliveryInv, ReachInv, BranchHad, CompletedDelivered
<1>2. QED
  BY <1>1, DeliveryBooks, PTL
=============================================================================
