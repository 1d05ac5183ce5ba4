--------------------------- MODULE WorkCleanupProofs ---------------------------
(* A cleanup has the ended Work to itself, tells the truth about what it    *)
(* did, never downgrades a delivery and loses no edit, for any number of    *)
(* cleaners, edits and faults.                                              *)
EXTENDS WorkCleanup, TLAPS

Owns == {"ending", "merged", "cleaned"}

(* What the invariant says of one run.                                      *)
RunKnows(r) ==
    /\ contract # "running"
    /\ handle.state \in Owns
    /\ r.landed <=> handle.merge = "done"
RunDid(r) ==
    /\ r.at \in {"unregister", "delete", "finish", "release"} => tree = None
    /\ r.at \in {"delete", "finish", "release"} /\ ~r.blocked => ~registered
    /\ r.at = "release" => ~r.blocked /\ (r.fresh => handle.state = "cleaned")
    /\ r.receipt.complete <=> r.at = "release"

LEMMA RunsOf ==
    ASSUME OwnInv, NEW d \in Cleaners, run[d] # None
    PROVE  run[d] \in Run /\ RunKnows(run[d]) /\ RunDid(run[d]) /\ resuming = None
BY DEF OwnInv, TypeOK, CleanupOwns, CleanupDone, RunKnows, RunDid, Owns

(* A run that others write the handle beside.                               *)
LEMMA OutdatedRuns ==
    ASSUME TypeOK
    PROVE  /\ Outdated \in [Cleaners -> Run \union {None}]
           /\ \A d \in Cleaners :
                 /\ run[d] = None => Outdated[d] = None
                 /\ run[d] # None =>
                       /\ Outdated[d] = [run[d] EXCEPT !.fresh = FALSE]
                       /\ Outdated[d] \in Run /\ Outdated[d] # None
<1>1. \A d \in Cleaners : run[d] # None => [run[d] EXCEPT !.fresh = FALSE] \in Run
  BY DEF TypeOK, Run
<1>2. QED
  BY <1>1, CleanupNone DEF Outdated, TypeOK

LEMMA OutdatedRun ==
    ASSUME TypeOK, NEW d \in Cleaners, Outdated[d] # None
    PROVE  /\ run[d] # None /\ run[d] \in Run /\ Outdated[d] \in Run
           /\ Outdated[d].at = run[d].at /\ Outdated[d].receipt = run[d].receipt
           /\ Outdated[d].landed = run[d].landed /\ Outdated[d].blocked = run[d].blocked
           /\ Outdated[d].unique = run[d].unique
           /\ Outdated[d].fresh = FALSE
<1>1. run[d] # None /\ Outdated[d] = [run[d] EXCEPT !.fresh = FALSE] /\ run[d] \in Run
  BY OutdatedRuns DEF TypeOK
<1>2. QED
  BY <1>1, OutdatedRuns DEF Run

(* The world goes on, and no cleanup is under way that it would disturb:    *)
(* the handle may be written, and the runs then know less.                  *)
LEMMA RunsStand ==
    ASSUME OwnInv, NEW d \in Cleaners, run'[d] # None,
           (run'[d] = run[d] /\ handle'.state = handle.state) \/ run'[d] = Outdated[d],
           contract' # "running",
           handle'.state \in Owns, (handle'.merge = "done") <=> (handle.merge = "done"),
           tree = None => tree' = None,
           ~registered => ~registered'
    PROVE  RunKnows(run[d])' /\ RunDid(run[d])'
<1>1. CASE run'[d] = run[d] /\ handle'.state = handle.state
  <2>1. run[d] \in Run /\ RunKnows(run[d]) /\ RunDid(run[d])
    BY <1>1, RunsOf
  <2>2. QED
    BY <1>1, <2>1 DEF RunKnows, RunDid
<1>2. CASE run'[d] = Outdated[d]
  <2>1. /\ run[d] # None /\ run'[d].at = run[d].at /\ run'[d].receipt = run[d].receipt
        /\ run'[d].landed = run[d].landed /\ run'[d].blocked = run[d].blocked
        /\ run'[d].fresh = FALSE
    BY <1>2, OutdatedRun DEF OwnInv
  <2>2. RunKnows(run[d]) /\ RunDid(run[d])
    BY <2>1, RunsOf
  <2>3. QED
    BY <2>1, <2>2 DEF RunKnows, RunDid
<1>3. QED
  BY <1>1, <1>2

LEMMA Assembled ==
    ASSUME TypeOK',
           \A d \in Cleaners : run'[d] # None => RunKnows(run[d])' /\ RunDid(run[d])',
           handle'.state = "ending" => contract' # "running",
           handle'.receipt # None => contract' # "running" \/ Cleaned',
           handle'.receipt # None => handle'.state \in Owns,
           handle'.state \in {"ending", "cleaned"} => handle'.receipt # None,
           resuming' = "cancelled" => contract' = "cancelled" /\ handle'.state = "open",
           resuming' # None => \A d \in Cleaners : run'[d] = None,
           handle'.state = "merged" => handle'.merge = "done",
           handle'.receipt # None /\ handle'.receipt.complete => handle'.state = "cleaned",
           tree' # None => branch' # None
    PROVE  OwnInv'
BY DEF OwnInv, CleanupOwns, CleanupDone, RunKnows, RunDid, Owns

-----------------------------------------------------------------------------
LEMMA InitCleanup == Init => OwnInv
<1> SUFFICES ASSUME Init PROVE OwnInv
  OBVIOUS
<1>1. 0 \in Versions /\ 0 \in 0 .. MaxFaults /\ 0 \in 0 .. MaxAsked
  BY CleanupNumbers DEF Versions
<1>2. handle \in Handle
  BY <1>1 DEF Init, Handle
<1>3. TypeOK
  BY <1>1, <1>2 DEF Init, TypeOK
<1>4. CleanupOwns /\ CleanupDone
  <2>1. /\ handle.state = "open" /\ handle.receipt = None /\ handle.merge = "pending"
        /\ resuming = None /\ None # "cancelled" /\ branch # None
        /\ \A d \in Cleaners : run[d] = None
    BY <1>1, CleanupNone DEF Init
  <2>2. QED
    BY <2>1 DEF CleanupOwns, CleanupDone
<1>5. QED
  BY <1>3, <1>4 DEF OwnInv

(* A step of one cleanup: it goes on with r, and has written the handle or  *)
(* has not.                                                                 *)
LEMMA CleanerGoesOn ==
    ASSUME OwnInv, NEW c \in Cleaners, run[c] # None, NEW r \in Run \union {None},
           \/ run' = [run EXCEPT ![c] = r] /\ handle' = handle
           \/ /\ run' = [Outdated EXCEPT ![c] = r]
              /\ handle' \in Handle /\ handle'.merge = handle.merge
              /\ handle'.receipt # None /\ handle'.state \in Owns
              /\ handle'.state = "merged" => handle.merge = "done"
              /\ handle'.receipt.complete => handle'.state = "cleaned",
           UNCHANGED <<contract, resuming, made, asked>>,
           r # None => r.landed = run[c].landed /\ RunDid(r)',
           tree' = tree \/ tree' = None, tree' # None => branch' # None,
           registered' = registered \/ registered' = FALSE,
           branch' \in Versions \union {None}, target' \in Versions, picked' \in BOOLEAN,
           bundle' \in Versions \union {None}, patch' \in Patch \union {None},
           intact' \in BOOLEAN, faults' \in 0 .. MaxFaults
    PROVE  OwnInv'
<1>1. /\ contract # "running" /\ handle.state \in Owns /\ resuming = None
      /\ run[c].landed <=> handle.merge = "done"
  BY RunsOf DEF RunKnows
<1>2. /\ handle' \in Handle /\ handle'.merge = handle.merge /\ handle'.state \in Owns
      /\ handle'.state \in {"ending", "cleaned"} => handle'.receipt # None
      /\ handle'.state = "merged" => handle'.merge = "done"
      /\ handle'.receipt # None /\ handle'.receipt.complete => handle'.state = "cleaned"
  BY <1>1 DEF OwnInv, TypeOK, CleanupOwns, CleanupDone, Owns
<1>3. run' \in [Cleaners -> Run \union {None}] /\ run'[c] = r
  BY OutdatedRuns DEF OwnInv, TypeOK
<1>4. TypeOK'
  BY <1>2, <1>3 DEF OwnInv, TypeOK
<1>5. ASSUME NEW d \in Cleaners, run'[d] # None PROVE RunKnows(run[d])' /\ RunDid(run[d])'
  <2>1. CASE d = c
    BY <1>1, <1>2, <1>3, <1>5, <2>1 DEF RunKnows
  <2>2. CASE d # c
    <3>1. (run'[d] = run[d] /\ handle' = handle) \/ run'[d] = Outdated[d]
      BY <2>2, OutdatedRuns DEF OwnInv, TypeOK
    <3>2. QED
      BY <1>1, <1>2, <1>5, <3>1, RunsStand
  <2>3. QED
    BY <2>1, <2>2
<1>6. QED
  BY <1>1, <1>2, <1>4, <1>5, CleanupNone, Assembled DEF Owns

Places == {"settle", "preserve", "preserved", "archive", "archived", "remove",
           "unregister", "delete", "finish", "release"}

(* A run at another place, and with another receipt.                        *)
LEMMA RunMoves ==
    ASSUME NEW r \in Run, NEW place \in Places, NEW receipt \in Receipt, NEW blocked \in BOOLEAN,
           NEW unique \in BOOLEAN
    PROVE  /\ [r EXCEPT !.at = place] \in Run
           /\ [r EXCEPT !.at = place, !.receipt = receipt] \in Run
           /\ [r EXCEPT !.at = place, !.blocked = blocked] \in Run
           /\ [r EXCEPT !.at = place, !.unique = unique, !.blocked = blocked] \in Run
           /\ [r EXCEPT !.at = place, !.unique = unique, !.receipt = receipt] \in Run
BY DEF Run, Places

LEMMA FaultCounts == ASSUME TypeOK, Fault \/ UNCHANGED faults PROVE faults' \in 0 .. MaxFaults
BY CleanupNumbers DEF TypeOK, Fault

LEMMA Types ==
    ASSUME OwnInv
    PROVE  /\ tree \in Versions \union {None} /\ branch \in Versions \union {None}
           /\ target \in Versions /\ picked \in BOOLEAN /\ registered \in BOOLEAN
           /\ bundle \in Versions \union {None} /\ patch \in Patch \union {None}
           /\ intact \in BOOLEAN /\ handle \in Handle /\ faults \in 0 .. MaxFaults
           /\ handle.state = "merged" => handle.merge = "done"
           /\ tree # None => branch # None
BY DEF OwnInv, TypeOK, CleanupOwns, CleanupDone

(* A cleanup saves its receipt, before it goes on with r.                   *)
LEMMA ReceiptSaved ==
    ASSUME OwnInv, NEW c \in Cleaners, run[c] # None, NEW q \in Receipt, NEW r,
           Save(c, With(handle, q), r),
           q.complete => handle.state = "cleaned"
    PROVE  /\ run' = [Outdated EXCEPT ![c] = r]
           /\ handle' \in Handle /\ handle'.merge = handle.merge
           /\ handle'.receipt = q /\ handle'.receipt # None
           /\ handle'.state = handle.state /\ handle'.state \in Owns
           /\ handle'.state = "merged" => handle.merge = "done"
           /\ handle'.receipt.complete => handle'.state = "cleaned"
<1>1. handle.state \in Owns
  BY RunsOf DEF RunKnows
<1>2. handle' = [handle EXCEPT !.receipt = q] /\ handle \in Handle /\ run' = [Outdated EXCEPT ![c] = r]
  BY Types DEF Save, With
<1>3. handle' \in Handle /\ handle'.merge = handle.merge /\ handle'.receipt = q
      /\ handle'.state = handle.state
  BY <1>2 DEF Handle
<1>4. QED
  BY <1>1, <1>2, <1>3, CleanupNone, Types

LEMMA SettleStep == ASSUME OwnInv, NEW c \in Cleaners, Settle(c) PROVE OwnInv'
<1>1. /\ run[c] # None /\ run[c] \in Run /\ run[c].receipt \in Receipt
      /\ RunDid(run[c]) /\ run[c].at = "settle" /\ ~run[c].receipt.complete
  BY RunsOf DEF Settle, At, Run, RunDid
<1> DEFINE on == [run[c] EXCEPT !.at = "preserve"]
<1>2. on \in Run /\ on.at = "preserve" /\ on.landed = run[c].landed /\ on.receipt = run[c].receipt
  BY <1>1 DEF Run
<1> HIDE DEF on
<1>3. PICK r \in {None, on} : Save(c, With(handle, run[c].receipt), r)
  BY DEF Settle, on
<1>4. r # None => r.landed = run[c].landed /\ RunDid(r)'
  BY <1>1, <1>2, <1>3 DEF RunDid
<1>5. faults' \in 0 .. MaxFaults
  BY FaultCounts DEF Settle, OwnInv
<1>6. UNCHANGED <<contract, resuming, made, asked, tree, registered, branch, target, picked, bundle,
                  patch, intact>>
  BY DEF Settle, disk, artifacts, ghosts
<1>7. QED
  BY <1>1, <1>2, <1>3, <1>4, <1>5, <1>6, ReceiptSaved, Types, CleanerGoesOn

(* At the places before the removal a run has nothing to show.              *)
Early == {"settle", "preserve", "preserved", "archive", "archived", "remove"}

LEMMA EarlyDid ==
    ASSUME NEW r, r.at \in Early, ~r.receipt.complete
    PROVE  RunDid(r)'
BY DEF RunDid, Early

LEMMA PreserveStep == ASSUME OwnInv, NEW c \in Cleaners, Preserve(c) PROVE OwnInv'
<1>1. /\ run[c] # None /\ run[c] \in Run /\ run[c].receipt \in Receipt
      /\ run[c].at = "preserve" /\ ~run[c].receipt.complete
  BY RunsOf DEF Preserve, At, Run, RunDid
<1>2. /\ UNCHANGED <<contract, handle, resuming, made, asked, tree, registered, target, picked, bundle,
                     intact>>
      /\ faults' \in 0 .. MaxFaults
  BY FaultCounts DEF Preserve, ghosts, OwnInv
<1>3. /\ branch' \in Versions \union {None} /\ patch' \in Patch \union {None}
      /\ tree' # None => branch' # None
      /\ \E r \in Run : /\ run' = [run EXCEPT ![c] = r]
                        /\ r.landed = run[c].landed /\ r.at = "preserved"
                        /\ ~r.receipt.complete
  <2>1. CASE run' = [run EXCEPT ![c].at = "preserved"] /\ UNCHANGED <<branch, patch>>
    <3>1. [run[c] EXCEPT !.at = "preserved"] \in Run
      BY <1>1 DEF Run
    <3>2. run' = [run EXCEPT ![c] = [run[c] EXCEPT !.at = "preserved"]]
      BY <2>1
    <3>3. /\ [run[c] EXCEPT !.at = "preserved"].landed = run[c].landed
          /\ [run[c] EXCEPT !.at = "preserved"].at = "preserved"
          /\ [run[c] EXCEPT !.at = "preserved"].receipt = run[c].receipt
      BY <1>1 DEF Run
    <3>4. QED
      BY <1>1, <2>1, <3>1, <3>2, <3>3, <1>2, Types
  <2>2. CASE /\ tree # None /\ branch' = tree /\ UNCHANGED patch
             /\ run' = [run EXCEPT ![c].at = "preserved", ![c].receipt.checkpoint = tree]
    <3> DEFINE q == [run[c].receipt EXCEPT !.checkpoint = tree]
               r == [run[c] EXCEPT !.at = "preserved", !.receipt = q]
    <3>1. q \in Receipt /\ ~q.complete
      BY <1>1, <2>2, Types DEF Receipt
    <3>2. run' = [run EXCEPT ![c] = r]
      BY <1>1, <2>2 DEF OwnInv, TypeOK, Run
    <3> HIDE DEF q
    <3>3. r \in Run /\ r.landed = run[c].landed /\ r.at = "preserved" /\ r.receipt = q
      BY <1>1, <3>1 DEF Run
    <3>4. QED
      BY <2>2, <3>1, <3>2, <3>3, <1>2, Types
  <2>3. CASE /\ tree # None
             /\ patch' = IF patch = None THEN [base |-> branch, content |-> tree] ELSE patch
             /\ run' = [run EXCEPT ![c].at = "preserved", ![c].receipt.patched = TRUE]
             /\ UNCHANGED branch
    <3> DEFINE q == [run[c].receipt EXCEPT !.patched = TRUE]
               r == [run[c] EXCEPT !.at = "preserved", !.receipt = q]
    <3>1. q \in Receipt /\ ~q.complete
      BY <1>1 DEF Receipt
    <3>2. run' = [run EXCEPT ![c] = r]
      BY <1>1, <2>3 DEF OwnInv, TypeOK, Run
    <3> HIDE DEF q
    <3>3. r \in Run /\ r.landed = run[c].landed /\ r.at = "preserved" /\ r.receipt = q
      BY <1>1, <3>1 DEF Run
    <3>4. branch # None
      BY <2>3 DEF OwnInv, CleanupDone
    <3>5. patch' \in Patch \union {None}
      BY <2>3, <3>4, Types DEF Patch
    <3>6. QED
      BY <2>3, <3>1, <3>2, <3>3, <3>5, <1>2, Types
  <2>4. CASE /\ run' = [run EXCEPT ![c].at = "preserved", ![c].blocked = TRUE]
             /\ UNCHANGED <<branch, patch>>
    <3> DEFINE r == [run[c] EXCEPT !.at = "preserved", !.blocked = TRUE]
    <3>1. run' = [run EXCEPT ![c] = r]
      BY <1>1, <2>4 DEF OwnInv, TypeOK, Run
    <3>2. r \in Run /\ r.landed = run[c].landed /\ r.at = "preserved" /\ r.receipt = run[c].receipt
      BY <1>1 DEF Run
    <3>3. QED
      BY <1>1, <2>4, <3>1, <3>2, <1>2, Types
  <2>5. QED
    BY <2>1, <2>2, <2>3, <2>4 DEF Preserve, Go
<1>4. PICK r \in Run : /\ run' = [run EXCEPT ![c] = r]
                        /\ r.landed = run[c].landed /\ r.at = "preserved"
                        /\ ~r.receipt.complete
  BY <1>3
<1>5. RunDid(r)'
  BY <1>4, EarlyDid DEF Early
<1>6. QED
  BY <1>1, <1>2, <1>3, <1>4, <1>5, Types, CleanerGoesOn

LEMMA PreservedStep == ASSUME OwnInv, NEW c \in Cleaners, Preserved(c) PROVE OwnInv'
<1>1. /\ run[c] # None /\ run[c] \in Run /\ run[c].receipt \in Receipt
      /\ RunKnows(run[c]) /\ run[c].at = "preserved" /\ ~run[c].receipt.complete
  BY RunsOf DEF Preserved, At, Run, RunDid
<1> DEFINE q == run[c].receipt
           head == IF q.checkpoint # None THEN q.checkpoint ELSE handle.head
           on == [run[c] EXCEPT !.at = "archive"]
<1>2. head \in Versions
  BY <1>1, Types DEF Receipt, Handle
<1>3. on \in Run /\ on.at = "archive" /\ on.landed = run[c].landed /\ on.receipt = q
  BY <1>1 DEF Run
<1>4. PICK r \in {None, on} : /\ handle' = [handle EXCEPT !.receipt = q, !.head = head]
                             /\ run' = [Outdated EXCEPT ![c] = r]
  BY DEF Preserved, Save
<1> HIDE DEF on, head, q
<1>5. /\ handle' \in Handle /\ handle'.merge = handle.merge /\ handle'.receipt = q
      /\ handle'.state = handle.state /\ handle'.state \in Owns /\ q # None /\ ~q.complete
  BY <1>1, <1>2, <1>4, CleanupNone, Types DEF Handle, RunKnows, q
<1>6. r # None => r.landed = run[c].landed /\ RunDid(r)'
  <2>1. CASE r = None
    BY <2>1
  <2>2. CASE r = on
    BY <1>3, <1>5, <2>2, EarlyDid DEF Early
  <2>3. QED
    BY <1>4, <2>1, <2>2
<1>7. UNCHANGED <<contract, resuming, made, asked, tree, registered, branch, target, picked, bundle,
                  patch, intact, faults>>
  BY DEF Preserved, disk, artifacts, ghosts
<1>8. QED
  BY <1>1, <1>3, <1>4, <1>5, <1>6, <1>7, Types, CleanerGoesOn

LEMMA ArchiveStep == ASSUME OwnInv, NEW c \in Cleaners, Archive(c) PROVE OwnInv'
<1>1. /\ run[c] # None /\ run[c] \in Run /\ run[c].receipt \in Receipt
      /\ run[c].at = "archive" /\ ~run[c].receipt.complete
  BY RunsOf DEF Archive, At, Run, RunDid
<1>2. /\ UNCHANGED <<contract, handle, resuming, made, asked, tree, branch, registered, target, picked,
                     patch>>
      /\ faults' \in 0 .. MaxFaults /\ intact' \in BOOLEAN
  BY FaultCounts, Types DEF Archive, OwnInv
<1>3. Unique \in BOOLEAN /\ (Unique => branch # None)
  BY DEF Unique
<1>4. bundle' \in Versions \union {None}
  BY <1>3, Types DEF Archive
<1>5. \E r \in Run : /\ run' = [run EXCEPT ![c] = r]
                     /\ r.landed = run[c].landed /\ r.at = "archived"
                     /\ ~r.receipt.complete
  <2>1. ASSUME NEW kept \in {"no", "bundle", "retired"},
               run' = [run EXCEPT ![c].at = "archived", ![c].unique = Unique, ![c].receipt.kept = kept]
        PROVE  \E r \in Run : /\ run' = [run EXCEPT ![c] = r]
                              /\ r.landed = run[c].landed /\ r.at = "archived"
                              /\ ~r.receipt.complete
    <3> DEFINE q == [run[c].receipt EXCEPT !.kept = kept]
               r == [run[c] EXCEPT !.at = "archived", !.unique = Unique, !.receipt = q]
    <3>1. q \in Receipt /\ ~q.complete
      BY <1>1 DEF Receipt
    <3>2. run' = [run EXCEPT ![c] = r]
      BY <1>1, <2>1 DEF OwnInv, TypeOK, Run
    <3> HIDE DEF q
    <3>3. r \in Run /\ r.landed = run[c].landed /\ r.at = "archived" /\ r.receipt = q
      BY <1>1, <1>3, <3>1 DEF Run
    <3>4. QED
      BY <3>1, <3>2, <3>3
  <2>2. CASE run' = [run EXCEPT ![c].at = "archived", ![c].blocked = TRUE]
    <3> DEFINE r == [run[c] EXCEPT !.at = "archived", !.blocked = TRUE]
    <3>1. run' = [run EXCEPT ![c] = r]
      BY <1>1, <2>2 DEF OwnInv, TypeOK, Run
    <3>2. r \in Run /\ r.landed = run[c].landed /\ r.at = "archived" /\ r.receipt = run[c].receipt
      BY <1>1, <1>3 DEF Run
    <3>3. QED
      BY <1>1, <3>1, <3>2
  <2>3. run[c].receipt.kept \in {"no", "bundle", "retired"}
    BY <1>1 DEF Receipt
  <2>4. \/ \E kept \in {"no", "bundle", "retired"} : Decided(c, kept)
        \/ run' = [run EXCEPT ![c].at = "archived", ![c].blocked = TRUE]
    BY <2>3 DEF Archive
  <2>5. QED
    BY <2>1, <2>2, <2>4 DEF Decided
<1>6. PICK r \in Run : /\ run' = [run EXCEPT ![c] = r]
                        /\ r.landed = run[c].landed /\ r.at = "archived"
                        /\ ~r.receipt.complete
  BY <1>5
<1>7. RunDid(r)'
  BY <1>6, EarlyDid DEF Early
<1>8. QED
  BY <1>1, <1>2, <1>4, <1>6, <1>7, Types, CleanerGoesOn

LEMMA ArchivedStep == ASSUME OwnInv, NEW c \in Cleaners, Archived(c) PROVE OwnInv'
<1>1. /\ run[c] # None /\ run[c] \in Run /\ run[c].receipt \in Receipt
      /\ run[c].at = "archived" /\ ~run[c].receipt.complete
  BY RunsOf DEF Archived, At, Run, RunDid
<1> DEFINE on == [run[c] EXCEPT !.at = "remove"]
<1>2. on \in Run /\ on.at = "remove" /\ on.landed = run[c].landed /\ on.receipt = run[c].receipt
  BY <1>1 DEF Run
<1> HIDE DEF on
<1>3. PICK r \in {None, on} : Save(c, With(handle, run[c].receipt), r)
  BY DEF Archived, on
<1>4. r # None => r.landed = run[c].landed /\ RunDid(r)'
  BY <1>1, <1>2, <1>3 DEF RunDid
<1>5. UNCHANGED <<contract, resuming, made, asked, tree, registered, branch, target, picked, bundle,
                  patch, intact, faults>>
  BY DEF Archived, disk, artifacts, ghosts
<1>6. QED
  BY <1>1, <1>2, <1>3, <1>4, <1>5, ReceiptSaved, Types, CleanerGoesOn

LEMMA RemoveStep == ASSUME OwnInv, NEW c \in Cleaners, Remove(c) PROVE OwnInv'
<1>1. /\ run[c] # None /\ run[c] \in Run /\ run[c].receipt \in Receipt
      /\ run[c].at = "remove" /\ ~run[c].receipt.complete
  BY RunsOf DEF Remove, At, Run, RunDid
<1>2. /\ UNCHANGED <<contract, resuming, made, asked, registered, branch, target, picked, bundle,
                     patch, intact>>
      /\ faults' \in 0 .. MaxFaults
  BY FaultCounts DEF Remove, artifacts, ghosts, OwnInv
<1>3. CASE tree' = None /\ Go(c, "unregister") /\ UNCHANGED handle
  <2> DEFINE on == [run[c] EXCEPT !.at = "unregister"]
  <2>1. /\ on \in Run /\ on.at = "unregister" /\ on.landed = run[c].landed
        /\ on.receipt = run[c].receipt /\ run' = [run EXCEPT ![c] = on]
    BY <1>1, <1>3 DEF Run, Go
  <2> HIDE DEF on
  <2>2. PICK r \in Run : r = on
    BY <2>1
  <2>3. RunDid(r)'
    BY <1>1, <1>3, <2>1, <2>2 DEF RunDid
  <2>4. QED
    BY <1>1, <1>2, <1>3, <2>1, <2>2, <2>3, Types, CleanerGoesOn
<1>4. CASE Save(c, With(handle, run[c].receipt), None) /\ UNCHANGED tree
  BY <1>1, <1>2, <1>4, ReceiptSaved, Types, CleanerGoesOn
<1>5. QED
  BY <1>3, <1>4 DEF Remove

LEMMA UnregisterStep == ASSUME OwnInv, NEW c \in Cleaners, Unregister(c) PROVE OwnInv'
<1>1. /\ run[c] # None /\ run[c] \in Run /\ run[c].receipt \in Receipt
      /\ run[c].at = "unregister" /\ ~run[c].receipt.complete /\ tree = None
  BY RunsOf DEF Unregister, At, Run, RunDid
<1>2. /\ UNCHANGED <<contract, handle, resuming, made, asked, tree, branch, target, picked, bundle,
                     patch, intact>>
      /\ faults' \in 0 .. MaxFaults
  BY FaultCounts DEF Unregister, artifacts, ghosts, OwnInv
<1>3. CASE registered' = FALSE /\ Go(c, "delete")
  <2> DEFINE on == [run[c] EXCEPT !.at = "delete"]
  <2>1. /\ on \in Run /\ on.at = "delete" /\ on.landed = run[c].landed
        /\ on.receipt = run[c].receipt /\ run' = [run EXCEPT ![c] = on]
    BY <1>1, <1>3 DEF Run, Go
  <2> HIDE DEF on
  <2>2. PICK r \in Run : r = on
    BY <2>1
  <2>3. RunDid(r)'
    BY <1>1, <1>2, <1>3, <2>1, <2>2 DEF RunDid
  <2>4. QED
    BY <1>1, <1>2, <1>3, <2>1, <2>2, <2>3, Types, CleanerGoesOn
<1>4. CASE run' = [run EXCEPT ![c].at = "delete", ![c].blocked = TRUE] /\ UNCHANGED registered
  <2> DEFINE on == [run[c] EXCEPT !.at = "delete", !.blocked = TRUE]
  <2>1. /\ on \in Run /\ on.at = "delete" /\ on.blocked /\ on.landed = run[c].landed
        /\ on.receipt = run[c].receipt /\ run' = [run EXCEPT ![c] = on]
    BY <1>1, <1>4 DEF OwnInv, TypeOK, Run
  <2> HIDE DEF on
  <2>2. PICK r \in Run : r = on
    BY <2>1
  <2>3. RunDid(r)'
    BY <1>1, <1>2, <2>1, <2>2 DEF RunDid
  <2>4. QED
    BY <1>1, <1>2, <1>4, <2>1, <2>2, <2>3, Types, CleanerGoesOn
<1>5. QED
  BY <1>3, <1>4 DEF Unregister

LEMMA DeleteStep == ASSUME OwnInv, NEW c \in Cleaners, Delete(c) PROVE OwnInv'
<1>1. /\ run[c] # None /\ run[c] \in Run /\ run[c].receipt \in Receipt
      /\ run[c].at = "delete" /\ ~run[c].receipt.complete /\ tree = None
      /\ ~run[c].blocked => ~registered
  BY RunsOf DEF Delete, At, Run, RunDid
<1>2. /\ UNCHANGED <<contract, handle, resuming, made, asked, tree, registered, target, picked, bundle,
                     patch, intact>>
      /\ faults' \in 0 .. MaxFaults /\ branch' \in Versions \union {None}
  BY FaultCounts, Types DEF Delete, artifacts, ghosts, OwnInv
<1>3. \E r \in Run : /\ run' = [run EXCEPT ![c] = r]
                     /\ r.landed = run[c].landed /\ r.at = "finish"
                     /\ ~r.receipt.complete /\ (run[c].blocked => r.blocked)
  <2>1. CASE Go(c, "finish")
    <3> DEFINE r == [run[c] EXCEPT !.at = "finish"]
    <3>1. /\ r \in Run /\ r.at = "finish" /\ r.landed = run[c].landed
          /\ r.receipt = run[c].receipt /\ r.blocked = run[c].blocked
      BY <1>1 DEF Run
    <3>2. run' = [run EXCEPT ![c] = r]
      BY <2>1 DEF Go
    <3>3. QED
      BY <1>1, <3>1, <3>2
  <2>2. CASE run' = [run EXCEPT ![c].at = "finish", ![c].receipt.archived =
                                  run[c].unique /\ run[c].receipt.kept = "bundle"]
    <3> DEFINE q == [run[c].receipt EXCEPT !.archived = run[c].unique /\ run[c].receipt.kept = "bundle"]
               r == [run[c] EXCEPT !.at = "finish", !.receipt = q]
    <3>1. q \in Receipt /\ ~q.complete
      BY <1>1 DEF Receipt, Run
    <3>2. run' = [run EXCEPT ![c] = r]
      BY <1>1, <2>2 DEF OwnInv, TypeOK, Run
    <3> HIDE DEF q
    <3>3. /\ r \in Run /\ r.landed = run[c].landed /\ r.at = "finish" /\ r.receipt = q
          /\ r.blocked = run[c].blocked
      BY <1>1, <3>1 DEF Run
    <3>4. QED
      BY <3>1, <3>2, <3>3
  <2>3. CASE run' = [run EXCEPT ![c].at = "finish", ![c].blocked = TRUE]
    <3> DEFINE r == [run[c] EXCEPT !.at = "finish", !.blocked = TRUE]
    <3>1. run' = [run EXCEPT ![c] = r]
      BY <1>1, <2>3 DEF OwnInv, TypeOK, Run
    <3>2. /\ r \in Run /\ r.landed = run[c].landed /\ r.at = "finish"
          /\ r.receipt = run[c].receipt /\ r.blocked
      BY <1>1 DEF Run
    <3>3. QED
      BY <1>1, <3>1, <3>2
  <2>4. QED
    BY <2>1, <2>2, <2>3 DEF Delete
<1>4. PICK r \in Run : /\ run' = [run EXCEPT ![c] = r]
                        /\ r.landed = run[c].landed /\ r.at = "finish"
                        /\ ~r.receipt.complete /\ (run[c].blocked => r.blocked)
  BY <1>3
<1>5. RunDid(r)'
  BY <1>1, <1>2, <1>4 DEF RunDid
<1>6. QED
  BY <1>1, <1>2, <1>4, <1>5, Types, CleanerGoesOn

LEMMA FinishStep == ASSUME OwnInv, NEW c \in Cleaners, Finish(c) PROVE OwnInv'
<1>1. /\ run[c] # None /\ run[c] \in Run /\ run[c].receipt \in Receipt
      /\ run[c].at = "finish" /\ ~run[c].receipt.complete /\ tree = None
      /\ ~run[c].blocked => ~registered
      /\ run[c].landed <=> handle.merge = "done"
  BY RunsOf DEF Finish, At, Run, RunDid, RunKnows
<1>2. /\ UNCHANGED <<contract, resuming, made, asked, tree, registered, branch, target, picked, bundle,
                     patch, intact, faults>>
  BY DEF Finish, disk, artifacts, ghosts
<1> DEFINE q == [run[c].receipt EXCEPT !.complete = ~run[c].blocked]
           on == [run[c] EXCEPT !.at = "release", !.receipt = q]
           state == IF q.complete THEN "cleaned" ELSE IF run[c].landed THEN "merged" ELSE "ending"
<1>3. q \in Receipt /\ (q.complete <=> ~run[c].blocked)
  BY <1>1 DEF Receipt, Run
<1>4. /\ handle' = [handle EXCEPT !.state = state, !.receipt = q]
      /\ run' = [Outdated EXCEPT ![c] = IF q.complete THEN on ELSE None]
  BY DEF Finish, Save
<1> HIDE DEF q
<1>5. /\ on \in Run /\ on.at = "release" /\ on.landed = run[c].landed /\ on.receipt = q
      /\ on.blocked = run[c].blocked
  BY <1>1, <1>3 DEF Run
<1>6. PICK r \in Run \union {None} : r = IF q.complete THEN on ELSE None
  BY <1>5
<1> HIDE DEF on
<1>7. /\ handle' \in Handle /\ handle'.merge = handle.merge /\ handle'.receipt = q
      /\ handle'.state = state /\ q # None
  BY <1>3, <1>4, CleanupNone, Types DEF Handle
<1>8. r # None => r.landed = run[c].landed /\ RunDid(r)'
  BY <1>1, <1>2, <1>3, <1>5, <1>6, <1>7 DEF RunDid
<1>9. /\ handle'.state \in Owns
      /\ handle'.state = "merged" => handle.merge = "done"
      /\ handle'.receipt # None /\ (handle'.receipt.complete => handle'.state = "cleaned")
  BY <1>1, <1>3, <1>7 DEF Owns
<1>10. run' = [Outdated EXCEPT ![c] = r]
  BY <1>4, <1>6
<1> HIDE DEF state
<1>11. QED
  BY <1>1, <1>2, <1>6, <1>7, <1>8, <1>9, <1>10, Types, CleanerGoesOn

LEMMA ReleaseStep == ASSUME OwnInv, NEW c \in Cleaners, Release(c) PROVE OwnInv'
<1>1. /\ run[c] # None /\ run[c] \in Run /\ run[c].receipt \in Receipt
      /\ run[c].fresh => handle.state = "cleaned"
  BY RunsOf DEF Release, At, Run, RunDid
<1>2. /\ UNCHANGED <<contract, resuming, made, asked, tree, registered, branch, target, picked, bundle,
                     patch, intact>>
      /\ faults' \in 0 .. MaxFaults
  BY FaultCounts DEF Release, disk, artifacts, ghosts, OwnInv
<1>3. CASE Quit(c) /\ UNCHANGED handle
  BY <1>1, <1>2, <1>3, Types, CleanerGoesOn DEF Quit
<1>4. ASSUME NEW q \in Receipt, Save(c, With(handle, q), None) PROVE OwnInv'
  <2>1. handle.state = "cleaned"
    BY <1>1, <1>4 DEF Save
  <2>2. QED
    BY <1>1, <1>2, <1>4, <2>1, ReceiptSaved, Types, CleanerGoesOn
<1>5. [run[c].receipt EXCEPT !.complete = FALSE] \in Receipt
  BY <1>1 DEF Receipt
<1>6. QED
  BY <1>1, <1>3, <1>4, <1>5 DEF Release

LEMMA OutrunStep == ASSUME OwnInv, NEW c \in Cleaners, Outrun(c) PROVE OwnInv'
<1>1. run[c] # None /\ run' = [run EXCEPT ![c] = None]
  BY DEF Outrun, Quit
<1>2. UNCHANGED <<handle, contract, resuming, made, asked, tree, registered, branch, target, picked,
                  bundle, patch, intact, faults>>
  BY DEF Outrun, disk, artifacts, ghosts
<1>3. QED
  BY <1>1, <1>2, Types, CleanerGoesOn

-----------------------------------------------------------------------------
(* Nobody cleans up after a Work that runs, whose handle has not ended or   *)
(* that is being resumed.                                                   *)
LEMMA NobodyCleans ==
    ASSUME OwnInv, contract = "running" \/ handle.state \notin Owns \/ resuming # None
    PROVE  \A d \in Cleaners : run[d] = None /\ Outdated[d] = None
<1>1. \A d \in Cleaners : run[d] = None
  BY RunsOf DEF RunKnows
<1>2. QED
  BY <1>1, OutdatedRuns DEF OwnInv

LEMMA NoReceiptYet ==
    ASSUME OwnInv, handle.state \notin Owns \/ (contract = "running" /\ handle.state # "cleaned")
    PROVE  handle.receipt = None
BY DEF OwnInv, CleanupOwns, Cleaned, Owns

LEMMA RunTypes ==
    ASSUME OwnInv, run' = run \/ run' = Outdated
    PROVE  run' \in [Cleaners -> Run \union {None}]
BY OutdatedRuns DEF OwnInv, TypeOK

(* Something happens to a Work that nobody cleans up after and nobody has.  *)
LEMMA IdleStep ==
    ASSUME OwnInv, contract = "running" \/ handle.state \notin Owns,
           run' = run \/ run' = Outdated,
           handle.receipt = None, resuming # "cancelled", UNCHANGED resuming,
           contract' \in {"running", "blocked"} \union Ended,
           handle' \in Handle, handle'.receipt = None,
           handle'.state \in {"open", "committed", "merged"},
           handle'.state = "merged" => handle'.merge = "done",
           tree' \in Versions \union {None}, branch' \in Versions \union {None},
           tree' # None => branch' # None, target' \in Versions, picked' \in BOOLEAN,
           made' \in Versions, faults' \in 0 .. MaxFaults,
           UNCHANGED <<bundle, patch, registered, intact, asked>>
    PROVE  OwnInv'
<1>1. \A d \in Cleaners : run'[d] = None
  BY NobodyCleans
<1>2. TypeOK'
  BY RunTypes DEF OwnInv, TypeOK
<1>3. QED
  BY <1>1, <1>2, Assembled

LEMMA EditStep == ASSUME OwnInv, Edit PROVE OwnInv'
<1>1. made' \in Versions /\ tree' \in Versions /\ tree # None
  BY CleanupNumbers DEF Edit, OwnInv, TypeOK, Versions
<1>2. handle.state \in {"open", "committed"} /\ handle.receipt = None /\ resuming # "cancelled"
  BY NoReceiptYet DEF Edit, Working, Unended, OwnInv, CleanupOwns, Owns
<1>3. contract \in {"running", "blocked"}
  BY DEF Edit, Working
<1>4. QED
  BY <1>1, <1>2, <1>3, IdleStep, Types DEF Edit, artifacts, Owns

LEMMA CommitStep == ASSUME OwnInv, Commit PROVE OwnInv'
<1>1. handle.state \in {"open", "committed"} /\ handle.receipt = None /\ resuming # "cancelled"
  BY NoReceiptYet DEF Commit, Working, Unended, OwnInv, CleanupOwns, Owns
<1>2. /\ handle' \in Handle /\ handle'.receipt = None /\ handle'.state = "committed"
  BY <1>1, Types DEF Commit, Handle
<1>3. branch' = tree /\ tree # None /\ contract' = "running" /\ run' = Outdated
  BY DEF Commit
<1>4. made' \in Versions
  BY DEF Commit, ghosts, OwnInv, TypeOK
<1>5. QED
  BY <1>1, <1>2, <1>3, <1>4, IdleStep, Types DEF Commit, artifacts, ghosts, Owns

LEMMA CommitUnseenStep == ASSUME OwnInv, CommitUnseen PROVE OwnInv'
<1>1. handle.state \in {"open", "committed"} /\ handle.receipt = None /\ resuming # "cancelled"
  BY NoReceiptYet DEF CommitUnseen, Working, Unended, OwnInv, CleanupOwns, Owns
<1>2. faults' \in 0 .. MaxFaults /\ made' \in Versions
  BY FaultCounts DEF CommitUnseen, OwnInv, TypeOK, ghosts
<1>3. contract \in {"running", "blocked"}
  BY DEF CommitUnseen, Working
<1>4. QED
  BY <1>1, <1>2, <1>3, IdleStep, Types DEF CommitUnseen, artifacts, ghosts, Owns

LEMMA DeliverStep == ASSUME OwnInv, Deliver PROVE OwnInv'
<1>1. handle.state \in {"open", "committed"} /\ handle.receipt = None /\ resuming # "cancelled"
  BY NoReceiptYet DEF Deliver, Working, Unended, OwnInv, CleanupOwns, Owns
<1>2. /\ handle' \in Handle /\ handle'.receipt = None /\ handle'.state = "merged"
      /\ handle'.merge = "done"
  BY <1>1, Types DEF Deliver, Handle
<1>3. target' \in Versions
  BY Types DEF Deliver, Handle
<1>4. made' \in Versions
  BY DEF Deliver, ghosts, OwnInv, TypeOK
<1>5. QED
  BY <1>1, <1>2, <1>3, <1>4, IdleStep, Types DEF Deliver, ghosts, Owns

LEMMA MergeFailsStep == ASSUME OwnInv, MergeFails PROVE OwnInv'
<1>1. handle.state \in {"open", "committed"} /\ handle.receipt = None /\ resuming # "cancelled"
  BY NoReceiptYet DEF MergeFails, Working, Unended, OwnInv, CleanupOwns, Owns
<1>2. /\ handle' \in Handle /\ handle'.receipt = None /\ handle'.state = "open"
  BY <1>1, Types DEF MergeFails, Handle
<1>3. made' \in Versions
  BY DEF MergeFails, ghosts, OwnInv, TypeOK
<1>4. QED
  BY <1>1, <1>2, <1>3, IdleStep, Types DEF MergeFails, disk, artifacts, ghosts, Owns

LEMMA CleanupStageFailsStep == ASSUME OwnInv, CleanupStageFails PROVE OwnInv'
<1>1. handle.state = "merged" /\ handle.receipt = None /\ resuming # "cancelled"
      /\ contract = "running"
  BY NoReceiptYet DEF CleanupStageFails, OwnInv, CleanupOwns, Owns
<1>2. /\ handle' \in Handle /\ handle'.receipt = None /\ handle'.state = "open"
  BY <1>1, Types DEF CleanupStageFails, Handle
<1>3. made' \in Versions
  BY DEF CleanupStageFails, ghosts, OwnInv, TypeOK
<1>4. QED
  BY <1>1, <1>2, <1>3, IdleStep, Types DEF CleanupStageFails, disk, artifacts, ghosts, Owns

LEMMA RevalidateStep == ASSUME OwnInv, Revalidate PROVE OwnInv'
<1>1. /\ handle.state \in {"open", "committed"} /\ handle.receipt = None /\ resuming # "cancelled"
      /\ contract' = "running"
  BY NoReceiptYet DEF Revalidate, Unended, OwnInv, CleanupOwns, Owns
<1>2. made' \in Versions
  BY DEF Revalidate, ghosts, OwnInv, TypeOK
<1>3. QED
  BY <1>1, <1>2, IdleStep, Types DEF Revalidate, disk, artifacts, ghosts, Owns

(* The world goes on beside a cleanup.                                      *)
LEMMA BesideStep ==
    ASSUME OwnInv,
           (run' = run /\ handle'.state = handle.state) \/ run' = Outdated,
           UNCHANGED resuming, resuming # "cancelled" \/ UNCHANGED <<contract, handle.state>>,
           contract' \in {"running", "blocked"} \union Ended,
           contract' # contract => contract' \in Ended,
           handle' \in Handle, UNCHANGED <<handle.state, handle.merge>>,
           handle.receipt = None <=> handle'.receipt = None,
           handle'.receipt # None => handle'.receipt.complete = handle.receipt.complete,
           tree' \in Versions \union {None}, tree' = None <=> tree = None, UNCHANGED branch,
           target' \in Versions, picked' \in BOOLEAN, intact' \in BOOLEAN,
           bundle' \in Versions \union {None},
           made' \in Versions, faults' \in 0 .. MaxFaults,
           UNCHANGED <<patch, registered, asked>>
    PROVE  OwnInv'
<1>1. TypeOK'
  BY RunTypes DEF OwnInv, TypeOK
<1>2. contract # "running" => contract' # "running"
  BY DEF Ended
<1>3. ASSUME NEW d \in Cleaners, run'[d] # None PROVE RunKnows(run[d])' /\ RunDid(run[d])'
  <2>1. run[d] # None
    BY <1>3, OutdatedRuns DEF OwnInv
  <2>2. contract # "running" /\ handle.state \in Owns
    BY <2>1, RunsOf DEF RunKnows
  <2>3. QED
    BY <1>2, <1>3, <2>2, RunsStand
<1>4. resuming' # None => \A d \in Cleaners : run'[d] = None
  BY NobodyCleans
<1>5. QED
  BY <1>1, <1>2, <1>3, <1>4, Assembled DEF OwnInv, CleanupOwns, CleanupDone, Cleaned, Owns

LEMMA CherryPickStep == ASSUME OwnInv, CherryPick PROVE OwnInv'
<1>1. faults' \in 0 .. MaxFaults /\ made' \in Versions /\ contract \in {"running", "blocked"} \union Ended
  BY FaultCounts DEF CherryPick, OwnInv, TypeOK, ghosts
<1>2. QED
  BY <1>1, BesideStep, Types DEF CherryPick, ghosts

LEMMA EndStep == ASSUME OwnInv, NEW status \in Ended, End(status) PROVE OwnInv'
<1>1. resuming # "cancelled"
  BY DEF End, OwnInv, CleanupOwns
<1>2. made' \in Versions
  BY DEF End, OwnInv, TypeOK, ghosts
<1>3. QED
  BY <1>1, <1>2, BesideStep, Types DEF End, disk, artifacts, ghosts

LEMMA LateEditStep == ASSUME OwnInv, LateEdit PROVE OwnInv'
<1>1. /\ faults' \in 0 .. MaxFaults /\ made' \in Versions /\ tree' \in Versions /\ tree # None
      /\ contract \in {"running", "blocked"} \union Ended
  BY FaultCounts, CleanupNumbers DEF LateEdit, OwnInv, TypeOK, Versions
<1>2. tree' # None
  BY <1>1, CleanupNone
<1>3. QED
  BY <1>1, <1>2, BesideStep, Types DEF LateEdit, artifacts

LEMMA RetainStep == ASSUME OwnInv, Retain PROVE OwnInv'
<1>1. /\ handle' \in Handle
      /\ UNCHANGED <<handle.state, handle.merge, handle.receipt>>
  BY Types DEF Retain, Handle
<1>2. made' \in Versions /\ contract \in {"running", "blocked"} \union Ended
  BY DEF Retain, OwnInv, TypeOK, ghosts
<1>3. QED
  BY <1>1, <1>2, BesideStep, Types DEF Retain, disk, artifacts, ghosts

LEMMA RetireStep == ASSUME OwnInv, Retire PROVE OwnInv'
<1>1. handle.receipt \in Receipt /\ handle \in Handle
  BY Types DEF Retire, Cleaned, Handle
<1> DEFINE q == [handle.receipt EXCEPT !.kept = "retired"]
<1>2. q \in Receipt /\ q.complete = handle.receipt.complete
  BY <1>1 DEF Receipt
<1>3. handle' = [handle EXCEPT !.receipt = q]
  BY <1>1 DEF Retire, Handle
<1> HIDE DEF q
<1>4. /\ handle' \in Handle /\ handle'.receipt = q /\ q # None /\ handle.receipt # None
      /\ UNCHANGED <<handle.state, handle.merge>>
  BY <1>1, <1>2, <1>3, CleanupNone DEF Handle
<1>5. made' \in Versions /\ contract \in {"running", "blocked"} \union Ended /\ bundle' = None
  BY DEF Retire, OwnInv, TypeOK, ghosts
<1>6. QED
  BY <1>2, <1>4, <1>5, BesideStep, Types DEF Retire, ghosts

LEMMA ResumeStep == ASSUME OwnInv, Resume PROVE OwnInv'
<1>1. handle.state = "open" /\ handle.receipt = None /\ contract = "cancelled"
  BY NoReceiptYet DEF Resume, Owns
<1>2. \A d \in Cleaners : run'[d] = None
  BY <1>1, NobodyCleans DEF Resume, Owns
<1>3. TypeOK'
  BY RunTypes DEF Resume, disk, artifacts, ghosts, OwnInv, TypeOK
<1>4. QED
  BY <1>1, <1>2, <1>3, Types, Assembled DEF Resume, disk

LEMMA RehydrateStep == ASSUME OwnInv, Rehydrate PROVE OwnInv'
<1>1. handle.state = "cleaned" /\ handle.receipt.complete /\ handle.receipt # None
  BY DEF Rehydrate, OwnInv, CleanupOwns
<1>2. \A d \in Cleaners : run'[d] = None
  BY DEF Rehydrate
<1>3. handle.head \in Versions /\ handle.head # None
  BY Types, CleanupNone DEF Handle
<1>4. TypeOK'
  BY <1>3 DEF Rehydrate, artifacts, OwnInv, TypeOK
<1>5. QED
  BY <1>1, <1>2, <1>3, <1>4, CleanupNone, Assembled DEF Rehydrate, Cleaned, Owns

LEMMA ResumedStep == ASSUME OwnInv, Resumed PROVE OwnInv'
<1>1. /\ \A d \in Cleaners : run'[d] = None
      /\ run' \in [Cleaners -> Run \union {None}]
  <2>1. run' = run \/ run' = Outdated
    BY DEF Resumed, OwnInv, TypeOK
  <2>2. QED
    BY <2>1, NobodyCleans, RunTypes DEF Resumed
<1>2. CASE resuming = "cancelled"
  <2>1. contract' = "running" /\ handle' = handle /\ handle.state = "open" /\ handle.receipt = None
    BY <1>2, NoReceiptYet, CleanupNone DEF Resumed, OwnInv, CleanupOwns, Owns
  <2>2. TypeOK'
    BY <1>1, <2>1 DEF Resumed, disk, artifacts, ghosts, OwnInv, TypeOK
  <2>3. QED
    BY <1>1, <2>1, <2>2, CleanupNone, Types, Assembled DEF Resumed, disk
<1>3. CASE resuming = "archived"
  <2>1. /\ handle' = [handle EXCEPT !.state = "open", !.merge = "pending", !.receipt = None]
        /\ contract' = contract
    BY <1>3 DEF Resumed
  <2>2. handle' \in Handle /\ handle'.state = "open" /\ handle'.receipt = None
    BY <2>1, Types DEF Handle
  <2>3. TypeOK'
    BY <1>1, <2>1, <2>2 DEF Resumed, disk, artifacts, ghosts, OwnInv, TypeOK
  <2>4. QED
    BY <1>1, <2>1, <2>2, <2>3, CleanupNone, Types, Assembled DEF Resumed, disk
<1>4. QED
  BY <1>2, <1>3 DEF Resumed, OwnInv, TypeOK

(* What begins: the Work has ended or has landed, and nobody resumes it.    *)
LEMMA BeginStep ==
    ASSUME OwnInv, NEW c \in Cleaners, Begin(c), resuming = None, asked' \in 0 .. MaxAsked,
           contract # "running" \/ handle.receipt # None
    PROVE  OwnInv'
<1>1. contract # "running"
  BY DEF Begin, OwnInv, CleanupOwns
<1> DEFINE q == IF handle.receipt = None THEN NewReceipt ELSE handle.receipt
           new == [at |-> "settle", receipt |-> q, landed |-> Landed,
                   unique |-> FALSE, blocked |-> FALSE, fresh |-> TRUE]
           state == IF Landed THEN "merged" ELSE "ending"
           merge == IF Landed THEN "done" ELSE handle.merge
<1>2. q \in Receipt /\ q # None
  <2>1. NewReceipt \in Receipt
    BY DEF NewReceipt, Receipt
  <2>2. handle.receipt \in Receipt \union {None}
    BY Types DEF Handle
  <2>3. QED
    BY <2>1, <2>2, CleanupNone
<1>3. ~q.complete
  <2>1. CASE handle.receipt = None
    BY <2>1 DEF NewReceipt
  <2>2. CASE handle.receipt # None
    BY <2>2 DEF Begin, Cleaned, OwnInv, CleanupDone
  <2>3. QED
    BY <2>1, <2>2
<1>4. handle' = [handle EXCEPT !.state = state, !.merge = merge, !.receipt = q]
      /\ run' = [Outdated EXCEPT ![c] = new]
  BY DEF Begin
<1> HIDE DEF q
<1>5. Landed \in BOOLEAN /\ (Landed <=> handle.merge = "done")
  BY Types DEF Landed
<1>6. /\ handle' \in Handle /\ handle'.receipt = q /\ handle'.state = state
      /\ handle'.merge = merge
  BY <1>2, <1>4, Types DEF Handle
<1>7. (handle'.merge = "done") <=> (handle.merge = "done")
  BY <1>5, <1>6
<1>8. handle'.state \in Owns /\ (handle'.state = "merged" => handle'.merge = "done")
      /\ handle'.state # "cleaned"
  BY <1>5, <1>6 DEF Owns
<1> HIDE DEF state, merge
<1>9. new \in Run /\ new.landed = Landed /\ new.at = "settle" /\ new.receipt = q
  BY <1>2, <1>5 DEF Run
<1>10. PICK r \in Run : r = new
  BY <1>9
<1> HIDE DEF new
<1>11. run' \in [Cleaners -> Run \union {None}] /\ run'[c] = r
  BY <1>4, <1>9, <1>10, OutdatedRuns DEF OwnInv
<1>12. UNCHANGED <<contract, tree, branch, target, picked, bundle, patch, registered, made, intact,
                   resuming, faults>>
  BY DEF Begin, disk, artifacts, ghosts
<1>13. TypeOK'
  BY <1>6, <1>11, <1>12 DEF OwnInv, TypeOK
<1>14. ASSUME NEW d \in Cleaners, run'[d] # None PROVE RunKnows(run[d])' /\ RunDid(run[d])'
  <2>1. CASE d = c
    BY <1>1, <1>3, <1>5, <1>7, <1>8, <1>9, <1>10, <1>11, <1>12, <2>1 DEF RunKnows, RunDid
  <2>2. CASE d # c
    <3>1. run'[d] = Outdated[d]
      BY <1>4, <2>2, OutdatedRuns DEF OwnInv
    <3>2. QED
      BY <1>1, <1>7, <1>8, <1>12, <1>14, <3>1, RunsStand
  <2>3. QED
    BY <2>1, <2>2
<1>15. QED
  BY <1>1, <1>2, <1>3, <1>6, <1>8, <1>12, <1>13, <1>14, CleanupNone, Types, Assembled DEF Owns

LEMMA SweepStep == ASSUME OwnInv, Sweep PROVE OwnInv'
<1>1. Sweeper \in Cleaners /\ contract # "running" /\ asked' \in 0 .. MaxAsked
  BY DEF Sweep, Cleaners, Ended, OwnInv, TypeOK
<1>2. QED
  BY <1>1, BeginStep DEF Sweep

LEMMA RequestStep == ASSUME OwnInv, NEW c \in Requesters, Request(c) PROVE OwnInv'
<1>1. c \in Cleaners /\ asked' \in 0 .. MaxAsked
  BY CleanupNumbers DEF Request, Cleaners, OwnInv, TypeOK
<1>2. contract # "running" \/ handle.receipt # None
  BY DEF Request, Ended, OwnInv, CleanupOwns
<1>3. QED
  BY <1>1, <1>2, BeginStep DEF Request

LEMMA CrashStep == ASSUME OwnInv, Crash PROVE OwnInv'
<1>1. /\ run' \in [Cleaners -> Run \union {None}]
      /\ \A d \in Cleaners : run'[d] = None \/ run'[d] = run[d]
  BY DEF Crash, OwnInv, TypeOK
<1>2. faults' \in 0 .. MaxFaults
  BY FaultCounts DEF Crash, OwnInv
<1>3. UNCHANGED <<contract, handle, tree, branch, target, picked, bundle, patch, registered, made,
                  intact, asked>> /\ resuming' = None
  BY DEF Crash, disk, artifacts, ghosts
<1>4. TypeOK'
  BY <1>1, <1>2, <1>3 DEF OwnInv, TypeOK
<1>5. ASSUME NEW d \in Cleaners, run'[d] # None PROVE RunKnows(run[d])' /\ RunDid(run[d])'
  <2>1. run'[d] = run[d] /\ RunKnows(run[d])
    BY <1>1, <1>5, RunsOf
  <2>2. QED
    BY <1>3, <1>5, <2>1, RunsStand DEF RunKnows
<1>6. QED
  BY <1>3, <1>4, <1>5, CleanupNone, Assembled DEF OwnInv, CleanupOwns, CleanupDone, Cleaned, Owns

LEMMA StillCleanup == ASSUME OwnInv, UNCHANGED vars PROVE OwnInv'
BY DEF OwnInv, TypeOK, CleanupOwns, CleanupDone, Cleaned, vars, disk, artifacts, ghosts

LEMMA NextCleanup == ASSUME OwnInv, [Next]_vars PROVE OwnInv'
<1>1. CASE UNCHANGED vars
  BY <1>1, StillCleanup
<1>2. CASE World
  BY <1>2, EditStep, CommitStep, CommitUnseenStep, DeliverStep, CherryPickStep, MergeFailsStep,
     CleanupStageFailsStep, EndStep, LateEditStep, RetainStep, RevalidateStep, ResumeStep,
     RehydrateStep, ResumedStep, RetireStep DEF World
<1>3. ASSUME NEW c \in Cleaners, Step(c) PROVE OwnInv'
  BY <1>3, SettleStep, PreserveStep, PreservedStep, ArchiveStep, ArchivedStep, RemoveStep,
     UnregisterStep, DeleteStep, FinishStep, ReleaseStep, OutrunStep DEF Step
<1>4. QED
  BY <1>1, <1>2, <1>3, CrashStep, SweepStep, RequestStep DEF Next

(* A cleanup has the Work to itself, what it has behind it is done, and a   *)
(* receipt is complete only once all of it is.                              *)
LEMMA OwnStands == Spec => []OwnInv
<1>1. OwnInv /\ [Next]_vars => OwnInv'
  BY NextCleanup
<1>2. QED
  BY InitCleanup, <1>1, PTL DEF Spec

-----------------------------------------------------------------------------
(* A delivery is not downgraded: only a cleanup of a Work that has not      *)
(* landed leaves the handle at "ending".                                    *)
LEMMA DeliveryOfStep ==
    ASSUME OwnInv, DeliveryStands, NEW c \in Cleaners, Step(c)
    PROVE  DeliveryStands'
<1>1. run[c] # None /\ (run[c].landed <=> handle.merge = "done") /\ handle \in Handle
  BY RunsOf, Types DEF Step, Settle, Preserve, Preserved, Archive, Archived, Remove, Unregister, Delete,
     Finish, Release, Outrun, At, RunKnows
<1>2. CASE Finish(c)
  BY <1>1, <1>2 DEF Finish, Save, Handle, DeliveryStands
<1>3. CASE UNCHANGED <<handle.state, handle.merge>>
  BY <1>3 DEF DeliveryStands
<1>4. ASSUME NEW q, NEW r, Save(c, With(handle, q), r) PROVE UNCHANGED <<handle.state, handle.merge>>
  BY <1>1, <1>4 DEF Save, With, Handle
<1>5. CASE Settle(c)
  BY <1>3, <1>4, <1>5 DEF Settle
<1>6. CASE Preserved(c)
  BY <1>1, <1>3, <1>6 DEF Preserved, Save, Handle
<1>7. CASE Archived(c)
  BY <1>3, <1>4, <1>7 DEF Archived
<1>8. CASE Remove(c)
  BY <1>3, <1>4, <1>8 DEF Remove
<1>9. CASE Release(c)
  BY <1>3, <1>4, <1>9 DEF Release
<1>10. CASE UNCHANGED handle
  BY <1>3, <1>10
<1>11. QED
  BY <1>2, <1>5, <1>6, <1>7, <1>8, <1>9, <1>10
     DEF Step, Preserve, Archive, Unregister, Delete, Outrun

LEMMA DeliveryOfWorld ==
    ASSUME OwnInv, DeliveryStands, World
    PROVE  DeliveryStands'
<1>1. handle \in Handle
  BY Types
<1>2. CASE Commit \/ Deliver \/ MergeFails \/ CleanupStageFails \/ Resumed
  <2>1. Commit \/ Deliver \/ MergeFails \/ CleanupStageFails => handle'.state # "ending"
    BY <1>1 DEF Commit, Deliver, MergeFails, CleanupStageFails, Handle
  <2>2. Resumed => handle'.state = "open" \/ handle' = handle
    BY <1>1 DEF Resumed, Handle, OwnInv, TypeOK
  <2>3. QED
    BY <1>2, <2>1, <2>2 DEF DeliveryStands
<1>3. CASE Retain \/ Retire
  <2>1. UNCHANGED <<handle.state, handle.merge>>
    BY <1>1, <1>3 DEF Retain, Retire, Handle
  <2>2. QED
    BY <2>1 DEF DeliveryStands
<1>4. CASE UNCHANGED handle
  BY <1>4 DEF DeliveryStands
<1>5. QED
  BY <1>2, <1>3, <1>4 DEF World, Edit, CommitUnseen, CherryPick, End, LateEdit, Revalidate, Resume,
     Rehydrate

(* "a process/lease/worktree blocker must not downgrade delivery": whatever *)
(* gets in the way of whichever cleanup, the handle of a Work that was      *)
(* merged never becomes failed_terminal_cleanup.                            *)
THEOREM DeliveryKept == Spec => []DeliveryStands
<1>1. Init => DeliveryStands
  BY DEF Init, DeliveryStands
<1>2. OwnInv /\ DeliveryStands /\ [Next]_vars => DeliveryStands'
  <2> SUFFICES ASSUME OwnInv, DeliveryStands, [Next]_vars PROVE DeliveryStands'
    OBVIOUS
  <2>1. ASSUME NEW c \in Cleaners, Begin(c) PROVE DeliveryStands'
    BY <2>1, Types DEF Begin, Landed, Handle, DeliveryStands
  <2>2. CASE Crash \/ UNCHANGED vars
    BY <2>2 DEF Crash, vars, DeliveryStands
  <2>3. Sweeper \in Cleaners /\ \A c \in Requesters : c \in Cleaners
    BY DEF Cleaners
  <2>4. QED
    BY <2>1, <2>2, <2>3, DeliveryOfStep, DeliveryOfWorld DEF Next, Sweep, Request
<1>3. QED
  BY <1>1, <1>2, OwnStands, PTL DEF Spec

-----------------------------------------------------------------------------
LEMMA GoneOfStep ==
    ASSUME OwnInv, CleanedIsGone, NEW c \in Cleaners, Step(c)
    PROVE  CleanedIsGone'
<1>1. run[c] # None /\ RunDid(run[c]) /\ run[c] \in Run /\ handle \in Handle
  BY RunsOf, Types DEF Step, Settle, Preserve, Preserved, Archive, Archived, Remove, Unregister, Delete,
     Finish, Release, Outrun, At
<1>2. /\ intact' => intact
      /\ tree' = tree \/ tree' = None
      /\ registered' = registered \/ registered' = FALSE
  <2>1. CASE Settle(c) \/ Finish(c) \/ Release(c) \/ Outrun(c)
    BY <2>1 DEF Settle, Finish, Release, Outrun, disk, artifacts, ghosts
  <2>2. CASE Preserve(c) \/ Preserved(c)
    BY <2>2, Types DEF Preserve, Preserved, disk, artifacts, ghosts
  <2>3. CASE Archive(c) \/ Archived(c)
    BY <2>3, Types DEF Archive, Archived, disk, artifacts, ghosts
  <2>4. CASE Remove(c) \/ Unregister(c) \/ Delete(c)
    BY <2>4, Types DEF Remove, Unregister, Delete, disk, artifacts, ghosts
  <2>5. QED
    BY <2>1, <2>2, <2>3, <2>4 DEF Step
<1>3. CASE tree = None /\ ~registered
  BY <1>2, <1>3 DEF CleanedIsGone
<1>4. CASE UNCHANGED handle
  BY <1>2, <1>4 DEF CleanedIsGone, Cleaned
<1>5. CASE handle'.receipt.complete = FALSE
  BY <1>5 DEF CleanedIsGone, Cleaned
<1>6. CASE Finish(c)
  <2>1. CASE run[c].blocked
    BY <1>1, <1>5, <1>6, <2>1 DEF Finish, Save, Handle, Run, Receipt
  <2>2. CASE ~run[c].blocked
    BY <1>1, <1>3, <1>6, <2>2 DEF Finish, At, RunDid
  <2>3. QED
    BY <2>1, <2>2
<1>7. CASE Release(c)
  BY <1>1, <1>3, <1>7 DEF Release, At, RunDid
<1>8. ASSUME NEW r, NEW h, h.receipt = run[c].receipt, run[c].at # "release", Save(c, h, r)
      PROVE  handle'.receipt.complete = FALSE
  BY <1>1, <1>8 DEF Save, RunDid, Run, Receipt
<1>9. With(handle, run[c].receipt).receipt = run[c].receipt
  BY <1>1 DEF With, Handle
<1>10. CASE Settle(c) \/ Archived(c) \/ Remove(c)
  BY <1>4, <1>5, <1>8, <1>9, <1>10 DEF Settle, Archived, Remove, At
<1>11. CASE Preserved(c)
  BY <1>1, <1>5, <1>11 DEF Preserved, Save, At, RunDid, Handle, Run, Receipt
<1>12. QED
  BY <1>4, <1>6, <1>7, <1>10, <1>11 DEF Step, Preserve, Archive, Unregister, Delete, Outrun

LEMMA GoneOfWorld ==
    ASSUME OwnInv, CleanedIsGone, World
    PROVE  CleanedIsGone'
<1>1. handle \in Handle
  BY Types
<1>2. CASE Commit \/ Deliver \/ MergeFails \/ CleanupStageFails
  <2>1. handle'.state # "cleaned"
    BY <1>1, <1>2 DEF Commit, Deliver, MergeFails, CleanupStageFails, Handle
  <2>2. QED
    BY <2>1 DEF CleanedIsGone, Cleaned
<1>3. CASE Retain \/ Retire
  <2>1. Cleaned' => Cleaned
    BY <1>1, <1>3 DEF Retain, Retire, Handle, Cleaned
  <2>2. UNCHANGED <<intact, tree, registered>>
    BY <1>3 DEF Retain, Retire, disk, artifacts, ghosts
  <2>3. QED
    BY <2>1, <2>2 DEF CleanedIsGone
<1>4. CASE Resumed
  <2>1. handle'.state = "open" \/ handle' = handle
    BY <1>1, <1>4 DEF Resumed, Handle, OwnInv, TypeOK
  <2>2. UNCHANGED <<intact, tree, registered>>
    BY <1>4 DEF Resumed, disk, artifacts, ghosts
  <2>3. QED
    BY <2>1, <2>2 DEF CleanedIsGone, Cleaned
<1>5. CASE Edit
  BY <1>5 DEF Edit, Working, Unended, CleanedIsGone, Cleaned
<1>6. CASE LateEdit \/ Rehydrate
  BY <1>6 DEF LateEdit, Rehydrate, CleanedIsGone
<1>7. CASE UNCHANGED <<handle, tree, registered, intact>>
  BY <1>7 DEF CleanedIsGone, Cleaned
<1>8. QED
  BY <1>2, <1>3, <1>4, <1>5, <1>6, <1>7 DEF World, CommitUnseen, CherryPick, End, Revalidate, Resume,
     disk, artifacts, ghosts

(* A complete receipt of a cleaned Work says the truth: the worktree and    *)
(* its registration are gone, whoever wrote the receipt last.               *)
THEOREM ReceiptIsTrue == Spec => []CleanedIsGone
<1>1. Init => CleanedIsGone
  BY DEF Init, CleanedIsGone, Cleaned
<1>2. OwnInv /\ CleanedIsGone /\ [Next]_vars => CleanedIsGone'
  <2> SUFFICES ASSUME OwnInv, CleanedIsGone, [Next]_vars PROVE CleanedIsGone'
    OBVIOUS
  <2>1. ASSUME NEW c \in Cleaners, Begin(c) PROVE CleanedIsGone'
    <3>1. handle'.state # "cleaned"
      BY <2>1, Types DEF Begin, Handle
    <3>2. QED
      BY <3>1 DEF CleanedIsGone, Cleaned
  <2>2. CASE Crash \/ UNCHANGED vars
    BY <2>2 DEF Crash, vars, disk, ghosts, CleanedIsGone, Cleaned
  <2>3. Sweeper \in Cleaners /\ \A c \in Requesters : c \in Cleaners
    BY DEF Cleaners
  <2>4. QED
    BY <2>1, <2>2, <2>3, GoneOfStep, GoneOfWorld DEF Next, Sweep, Request
<1>3. QED
  BY <1>1, <1>2, OwnStands, PTL DEF Spec

-----------------------------------------------------------------------------
(* Nothing but the removal step of a cleanup takes a worktree away.         *)
LEMMA OnlyRemoves ==
    ASSUME OwnInv, [Next]_vars, tree # None, tree' = None
    PROVE  \E c \in Cleaners : /\ At(c, "remove") /\ Go(c, "unregister")
                                /\ run[c] # None /\ run[c] \in Run
<1>1. World \/ Crash \/ UNCHANGED vars => tree' # None
  <2>1. Edit \/ LateEdit => tree' # None
    BY CleanupNone, CleanupNumbers DEF Edit, LateEdit, OwnInv, TypeOK, Versions
  <2>2. Rehydrate => tree' # None
    BY CleanupNone, Types DEF Rehydrate, Handle
  <2>3. QED
    BY <2>1, <2>2 DEF World, Crash, Commit, CommitUnseen, Deliver, CherryPick, MergeFails,
       CleanupStageFails, End, Retain, Revalidate, Resume, Resumed, Retire, vars, disk
<1>2. ASSUME NEW c \in Cleaners, Begin(c) PROVE FALSE
  BY <1>2 DEF Begin, disk
<1>3. PICK c \in Cleaners : Step(c)
  BY <1>1, <1>2 DEF Next, Sweep, Request, Cleaners
<1>4. Remove(c)
  BY <1>3 DEF Step, Settle, Preserve, Preserved, Archive, Archived, Unregister, Delete, Finish,
     Release, Outrun, disk
<1>5. At(c, "remove") /\ Go(c, "unregister")
  BY <1>4 DEF Remove
<1>6. QED
  BY <1>5, RunsOf DEF At

(* "the explicit point of no return": whatever is in flight, the worktree   *)
(* of a Work that runs is not taken away.                                   *)
THEOREM RunningKept == Spec => RunningUntouched
<1>1. OwnInv /\ [Next]_vars => [contract = "running" /\ tree # None => tree' # None]_vars
  BY OnlyRemoves, RunsOf DEF RunKnows
<1>2. QED
  BY <1>1, OwnStands, PTL DEF Spec, RunningUntouched

(* As long as nobody wrote the handle since the sweep did, the Work is not  *)
(* retained: the sweep looked before it began, and every later writer makes *)
(* it outdated.                                                             *)
SweepLooked == run[Sweeper] # None /\ run[Sweeper].fresh => ~handle.retained

LEMMA LookedAfterBegin ==
    ASSUME OwnInv, SweepLooked, NEW c \in Cleaners, Begin(c), c = Sweeper => ~handle.retained
    PROVE  SweepLooked'
<1>1. handle'.retained = handle.retained
  BY Types DEF Begin, Handle
<1>2. CASE c = Sweeper
  BY <1>1, <1>2 DEF SweepLooked
<1>3. CASE c # Sweeper
  <2>1. run'[Sweeper] = Outdated[Sweeper]
    BY <1>3, OutdatedRuns DEF Begin, OwnInv, Cleaners
  <2>2. QED
    BY <2>1, OutdatedRun DEF SweepLooked, OwnInv, Cleaners
<1>4. QED
  BY <1>2, <1>3

LEMMA LookedAfterSave ==
    ASSUME OwnInv, SweepLooked, NEW c \in Cleaners, run[c] # None, NEW h, NEW r,
           Save(c, h, r), h.retained = handle.retained
    PROVE  SweepLooked'
<1>1. handle'.retained = handle.retained /\ run[c].fresh
  BY DEF Save
<1>2. CASE c = Sweeper
  BY <1>1, <1>2 DEF SweepLooked
<1>3. CASE c # Sweeper
  <2>1. run'[Sweeper] = Outdated[Sweeper]
    BY <1>3, OutdatedRuns DEF Save, OwnInv, Cleaners
  <2>2. QED
    BY <2>1, OutdatedRun DEF SweepLooked, OwnInv, Cleaners
<1>4. QED
  BY <1>2, <1>3

LEMMA LookedAfterMove ==
    ASSUME OwnInv, SweepLooked, NEW c \in Cleaners, run[c] # None, UNCHANGED handle, NEW r,
           run' = [run EXCEPT ![c] = r], r = None \/ r.fresh = run[c].fresh
    PROVE  SweepLooked'
BY DEF SweepLooked, OwnInv, TypeOK, Cleaners

LEMMA LookedAfterStep ==
    ASSUME OwnInv, SweepLooked, NEW c \in Cleaners, Step(c)
    PROVE  SweepLooked'
<1>1. run[c] # None /\ run[c] \in Run /\ handle \in Handle /\ run \in [Cleaners -> Run \union {None}]
  BY RunsOf, Types DEF Step, Settle, Preserve, Preserved, Archive, Archived, Remove, Unregister, Delete,
     Finish, Release, Outrun, At, OwnInv, TypeOK
<1>2. \A q : With(handle, q).retained = handle.retained
  BY <1>1 DEF With, Handle
<1>3. CASE Settle(c) \/ Archived(c)
  BY <1>1, <1>2, <1>3, LookedAfterSave DEF Settle, Archived
<1>4. CASE Preserved(c)
  <2>1. \A q, n : [handle EXCEPT !.receipt = q, !.head = n].retained = handle.retained
    BY <1>1 DEF Handle
  <2>2. QED
    BY <1>1, <1>4, <2>1, LookedAfterSave DEF Preserved
<1>5. CASE Finish(c)
  <2>1. \A q, n : [handle EXCEPT !.state = n, !.receipt = q].retained = handle.retained
    BY <1>1 DEF Handle
  <2>2. QED
    BY <1>1, <1>5, <2>1, LookedAfterSave DEF Finish
<1>6. ASSUME Quit(c), UNCHANGED handle PROVE SweepLooked'
  BY <1>1, <1>6, LookedAfterMove DEF Quit
<1>7. ASSUME NEW place, Go(c, place), UNCHANGED handle PROVE SweepLooked'
  <2>1. [run[c] EXCEPT !.at = place].fresh = run[c].fresh
    BY <1>1 DEF Run
  <2>2. QED
    BY <1>1, <1>7, <2>1, LookedAfterMove DEF Go
<1>8. CASE Release(c) \/ Outrun(c)
  BY <1>1, <1>2, <1>6, <1>8, LookedAfterSave DEF Release, Outrun
<1>9. CASE Remove(c)
  BY <1>1, <1>2, <1>7, <1>9, LookedAfterSave DEF Remove
<1>10. ASSUME NEW place, run' = [run EXCEPT ![c].at = place, ![c].blocked = TRUE], UNCHANGED handle
       PROVE  SweepLooked'
  <2>1. /\ run' = [run EXCEPT ![c] = [run[c] EXCEPT !.at = place, !.blocked = TRUE]]
        /\ [run[c] EXCEPT !.at = place, !.blocked = TRUE].fresh = run[c].fresh
    BY <1>1, <1>10 DEF Run
  <2>2. QED
    BY <1>1, <1>10, <2>1, LookedAfterMove
<1>11. CASE Unregister(c)
  BY <1>7, <1>10, <1>11 DEF Unregister
<1>12. CASE (Preserve(c) \/ Archive(c)) \/ Delete(c)
  <2>1. UNCHANGED handle
    BY <1>12 DEF Preserve, Archive, Delete
  <2>2. \A d \in Cleaners : d # c => run'[d] = run[d]
    BY <1>1, <1>12 DEF Preserve, Archive, Delete, Decided, Go
  <2>3. run'[c].fresh = run[c].fresh
    BY <1>1, <1>12 DEF Preserve, Archive, Delete, Decided, Go, Run
  <2>4. QED
    BY <1>1, <2>1, <2>2, <2>3 DEF SweepLooked, Cleaners
<1>13. QED
  BY <1>3, <1>4, <1>5, <1>8, <1>9, <1>11, <1>12 DEF Step

LEMMA LookedAfterWorld ==
    ASSUME OwnInv, SweepLooked, World
    PROVE  SweepLooked'
<1>1. Sweeper \in Cleaners /\ handle \in Handle
  BY Types DEF Cleaners
<1>2. CASE run' = Outdated
  BY <1>1, <1>2, OutdatedRun DEF SweepLooked, OwnInv
<1>3. CASE UNCHANGED <<handle, run>>
  BY <1>3 DEF SweepLooked
<1>4. CASE Rehydrate
  BY <1>1, <1>4 DEF Rehydrate, SweepLooked
<1>5. CASE Resumed
  BY <1>2, <1>3, <1>5 DEF Resumed, OwnInv, TypeOK
<1>6. QED
  BY <1>2, <1>3, <1>4, <1>5 DEF World, Edit, Commit, CommitUnseen, Deliver, CherryPick, MergeFails,
     CleanupStageFails, End, LateEdit, Retain, Revalidate, Resume, Retire

(* "automatic terminal cleanup must not reclaim them": a sweep removes a    *)
(* retained worktree only if its last look at the handle came before the    *)
(* retention.                                                               *)
THEOREM RetainedKept == Spec => RetainedIsKept
<1>1. Init => SweepLooked
  BY DEF Init, SweepLooked, Cleaners
<1>2. OwnInv /\ SweepLooked /\ [Next]_vars => SweepLooked'
  <2> SUFFICES ASSUME OwnInv, SweepLooked, [Next]_vars PROVE SweepLooked'
    OBVIOUS
  <2>1. Sweeper \in Cleaners /\ (\A c \in Requesters : c \in Cleaners /\ c # Sweeper)
    BY CleanupSweeper DEF Cleaners
  <2>2. CASE Sweep
    BY <2>1, <2>2, LookedAfterBegin DEF Sweep
  <2>3. ASSUME NEW c \in Requesters, Request(c) PROVE SweepLooked'
    BY <2>1, <2>3, LookedAfterBegin DEF Request
  <2>4. CASE Crash \/ UNCHANGED vars
    BY <2>1, <2>4 DEF Crash, vars, SweepLooked
  <2>5. QED
    BY <2>2, <2>3, <2>4, LookedAfterStep, LookedAfterWorld DEF Next
<1>3. OwnInv /\ SweepLooked /\ [Next]_vars =>
         [tree # None /\ tree' = None /\ handle.retained =>
             \E c \in Cleaners : /\ At(c, "remove") /\ ~At(c, "remove")'
                                 /\ c # Sweeper \/ ~run[c].fresh]_vars
  <2> SUFFICES ASSUME OwnInv, SweepLooked, [Next]_vars, tree # None, tree' = None, handle.retained
               PROVE  \E c \in Cleaners : /\ At(c, "remove") /\ ~At(c, "remove")'
                                          /\ c # Sweeper \/ ~run[c].fresh
    OBVIOUS
  <2>1. PICK c \in Cleaners : /\ At(c, "remove") /\ Go(c, "unregister")
                              /\ run[c] # None /\ run[c] \in Run
    BY OnlyRemoves
  <2>2. run'[c].at = "unregister"
    BY <2>1 DEF Go, OwnInv, TypeOK, Run
  <2>3. c # Sweeper \/ ~run[c].fresh
    BY <2>1 DEF SweepLooked
  <2>4. QED
    BY <2>1, <2>2, <2>3 DEF At
<1>4. QED
  BY <1>1, <1>2, <1>3, OwnStands, PTL DEF Spec, RetainedIsKept

-----------------------------------------------------------------------------
(* What is kept.  A step spares what is recoverable when it takes nothing   *)
(* away but a branch that is not needed any more.                           *)
Spares ==
    /\ made' = made
    /\ target' >= target
    /\ bundle' = bundle \/ bundle = None
    /\ patch' = patch \/ patch = None
    /\ branch' # None => branch # None /\ (branch' = branch \/ branch' = made)
    /\ branch # None /\ branch' = None => SafeWithout

LEMMA Numbers == \A v \in Versions : v \in Nat /\ v # None
BY CleanupNone, CleanupNumbers DEF Versions

LEMMA FileTypes ==
    ASSUME TypeOK
    PROVE  /\ made \in Nat /\ target \in Nat
           /\ branch # None => branch \in Nat
           /\ bundle # None => bundle \in Nat
           /\ patch # None => patch.base \in Nat /\ patch.base \in Versions
           /\ tree # None => tree \in Nat
<1>1. patch # None => patch.base \in Versions
  BY DEF TypeOK, Patch
<1>2. QED
  BY <1>1, Numbers DEF TypeOK

LEMMA StillKept ==
    ASSUME TypeOK, TypeOK', FilesKept, Spares
    PROVE  /\ Safe => Safe'
           /\ SafeWithout => SafeWithout'
           /\ patch # None => patch' = patch /\ Committed(patch.base)'
           /\ \A v \in Versions : Covers(v) => Covers(v)'
<1>1. /\ made' = made /\ made \in Nat /\ target \in Nat /\ target' >= target
      /\ bundle # None => bundle \in Nat /\ bundle' = bundle
      /\ patch # None => patch.base \in Nat /\ patch.base <= made /\ patch' = patch
      /\ branch # None => branch \in Nat /\ branch <= made
  BY FileTypes DEF TypeOK, Spares, FilesKept
<1>10. target' \in Nat
  BY Numbers DEF TypeOK
<1>2. ASSUME NEW v \in Nat, Held(v) PROVE Held(v)'
  BY <1>1, <1>10, <1>2 DEF Held
<1>3. SafeWithout => SafeWithout'
  <2>1. Held(made) => Held(made)'
    BY <1>1, <1>2
  <2>2. patch # None /\ Held(patch.base) => patch' # None /\ Held(patch.base)'
    BY <1>1, <1>2
  <2>3. QED
    BY <2>1, <2>2 DEF SafeWithout
<1>4. ASSUME NEW v \in Nat, v <= made, Committed(v), branch' # None \/ branch = None PROVE Committed(v)'
  <2>1. branch # None /\ branch >= v => branch' # None /\ branch' >= v
    BY <1>1, <1>4 DEF Spares
  <2>2. QED
    BY <1>2, <1>4, <2>1 DEF Committed
<1>5. ASSUME branch # None, branch' = None PROVE SafeWithout
  BY <1>5 DEF Spares
<1>6. patch # None => patch' = patch /\ Committed(patch.base)'
  <2>1. CASE branch' # None \/ branch = None
    BY <1>1, <1>4, <2>1 DEF FilesKept
  <2>2. CASE branch # None /\ branch' = None
    <3>1. patch # None => Held(patch.base)
      BY <1>1, <1>5, <2>2, FileTypes DEF SafeWithout, Held
    <3>2. QED
      BY <1>1, <1>2, <3>1 DEF Committed
  <2>3. QED
    BY <2>1, <2>2
<1>7. Safe => Safe'
  <2>1. CASE patch # None
    BY <1>1, <2>1 DEF Safe
  <2>2. CASE Committed(made) /\ (branch' # None \/ branch = None)
    BY <1>1, <1>4, <2>2 DEF Safe
  <2>3. CASE branch # None /\ branch' = None /\ patch = None
    BY <1>1, <1>2, <1>5, <2>3 DEF Safe, SafeWithout, Committed
  <2>4. QED
    BY <2>1, <2>2, <2>3 DEF Safe
<1>8. ASSUME NEW v \in Versions, Covers(v) PROVE Covers(v)'
  BY <1>1, <1>10, <1>8, Numbers DEF Covers
<1>9. QED
  BY <1>3, <1>6, <1>7, <1>8

(* What a receipt and a run know holds beside such a step, and after the    *)
(* handle was written the head of a checkpoint.                             *)
HeadKept == handle'.head = handle.head \/ handle'.head = made

LEMMA ReceiptStays ==
    ASSUME TypeOK, TypeOK', FilesKept, Spares, HeadKept, NEW q \in Receipt, ReceiptHolds(q)
    PROVE  ReceiptHolds(q)'
<1>1. Protected(q) \in Versions /\ made \in Versions
  BY DEF Protected, Receipt, TypeOK, Handle
<1>2. Protected(q)' = Protected(q) \/ Protected(q)' = made
  BY DEF Protected, HeadKept
<1>3. made' = made /\ made \in Nat
  BY FileTypes DEF Spares
<1>4. Covers(made)'
  BY <1>3 DEF Covers
<1>5. q.kept = "bundle" => Covers(Protected(q))'
  <2>1. q.kept = "bundle" => Covers(Protected(q))
    BY DEF ReceiptHolds
  <2>2. \A v \in Versions : Covers(v) => Covers(v)'
    BY StillKept
  <2>3. Covers(Protected(q)') = Covers(Protected(q)')
    OBVIOUS
  <2>4. CASE Protected(q)' = Protected(q)
    <3>1. PICK v \in Versions : v = Protected(q)
      BY <1>1
    <3>2. q.kept = "bundle" => Covers(v)'
      BY <2>1, <2>2, <3>1
    <3>3. QED
      BY <2>4, <3>1, <3>2 DEF Covers
  <2>5. CASE Protected(q)' = made
    BY <1>4, <1>3, <2>5 DEF Covers
  <2>6. QED
    BY <1>2, <2>4, <2>5
<1>6. (q.checkpoint # None => q.checkpoint = made') /\ (q.patched => patch' # None)
  BY <1>3, StillKept DEF ReceiptHolds
<1>7. q.kept # "no" /\ branch' # None => SafeWithout'
  BY StillKept DEF ReceiptHolds, Spares
<1>8. QED
  BY <1>5, <1>6, <1>7 DEF ReceiptHolds

LEMMA RunStays ==
    ASSUME TypeOK, TypeOK', FilesKept, Spares, HeadKept, NEW r \in Run, RunHolds(r)
    PROVE  RunHolds(r)'
<1>1. r.receipt \in Receipt /\ ReceiptHolds(r.receipt)
  BY DEF RunHolds, Run
<1>2. ReceiptHolds(r.receipt)'
  BY <1>1, ReceiptStays
<1>3. /\ HasPreserved(r) => Safe'
      /\ HasArchived(r) /\ branch' # None => SafeWithout'
      /\ r.at \in {"finish", "release"} /\ ~r.blocked => branch' = None
  BY StillKept DEF RunHolds, Spares
<1>4. QED
  BY <1>2, <1>3 DEF RunHolds, HasPreserved, HasArchived

LEMMA OthersStay ==
    ASSUME OwnInv, TypeOK', FilesKept, Spares, HeadKept, NEW d \in Cleaners, run'[d] # None,
           run'[d] = run[d] \/ run'[d] = Outdated[d]
    PROVE  RunHolds(run[d])'
<1>1. TypeOK
  BY DEF OwnInv
<1>2. /\ run[d] # None /\ run[d] \in Run
      /\ run'[d].at = run[d].at /\ run'[d].receipt = run[d].receipt /\ run'[d].blocked = run[d].blocked
  <2>1. CASE run'[d] = run[d]
    BY <1>1, <2>1 DEF TypeOK
  <2>2. CASE run'[d] = Outdated[d]
    BY <1>1, <2>2, OutdatedRun
  <2>3. QED
    BY <2>1, <2>2
<1>3. PICK r \in Run : r = run[d]
  BY <1>2
<1>4. RunHolds(r)
  BY <1>2, <1>3 DEF FilesKept
<1>5. RunHolds(r)'
  BY <1>1, <1>4, RunStays
<1>6. QED
  BY <1>2, <1>3, <1>5 DEF RunHolds, HasPreserved, HasArchived

(* A step that spares everything, and what else it has to see to.           *)
LEMMA KeptOn ==
    ASSUME OwnInv, TypeOK', FilesKept, Spares, HeadKept,
           tree' = tree \/ (tree' = None /\ Safe),
           bundle' # bundle /\ branch' # None => bundle' <= branch' /\ SafeWithout',
           patch' # patch => /\ patch'.content = made /\ patch'.base = branch
                             /\ branch # None /\ branch' = branch,
           handle'.receipt = None =>
              /\ tree' # None /\ bundle' = None /\ patch' = None
              /\ \A d \in Cleaners : run'[d] = None,
           handle'.receipt = handle.receipt \/ ReceiptHolds(handle.receipt)',
           Cleaned' => branch' = None,
           \A d \in Cleaners : run'[d] # None =>
              run'[d] = run[d] \/ run'[d] = Outdated[d] \/ RunHolds(run[d])'
    PROVE  FilesKept'
<1>1. TypeOK /\ made' = made /\ made \in Nat
  BY FileTypes DEF OwnInv, Spares
<1>2. tree' # None => tree' = made'
  BY <1>1 DEF FilesKept
<1>3. tree' = None => Safe'
  BY <1>1, StillKept DEF FilesKept
<1>4. branch' # None => branch' <= made'
  BY <1>1, FileTypes DEF FilesKept, Spares
<1>5. branch' # None /\ bundle' # None => bundle' <= branch' /\ SafeWithout'
  <2>1. CASE bundle' # bundle
    BY <2>1
  <2>2. CASE bundle' = bundle
    <3>1. branch' # None /\ bundle # None => branch # None /\ branch' >= branch /\ bundle <= branch
          /\ SafeWithout
      BY <1>1, FileTypes DEF FilesKept, Spares
    <3>2. SafeWithout => SafeWithout'
      BY <1>1, StillKept
    <3>3. bundle # None => bundle \in Nat
      BY <1>1, FileTypes
    <3>4. branch' # None => branch' \in Nat
      BY <1>1, FileTypes DEF Spares
    <3>5. branch # None => branch \in Nat
      BY <1>1, FileTypes
    <3>6. QED
      BY <2>2, <3>1, <3>2, <3>3, <3>4, <3>5
  <2>3. QED
    BY <2>1, <2>2
<1>6. patch' # None => patch'.content = made' /\ patch'.base <= made' /\ Committed(patch.base)'
  <2>1. CASE patch' = patch
    BY <1>1, <2>1, StillKept DEF FilesKept
  <2>2. CASE patch' # patch
    <3>1. branch' # None /\ branch' \in Nat /\ patch'.base = branch' /\ branch' <= made'
      BY <1>1, <1>4, <2>2, FileTypes
    <3>2. QED
      BY <1>1, <2>2, <3>1 DEF Committed
  <2>3. QED
    BY <2>1, <2>2
<1>7. handle'.receipt # None => ReceiptHolds(handle.receipt)'
  <2>1. CASE handle'.receipt = handle.receipt /\ handle'.receipt # None
    <3>1. PICK q \in Receipt : q = handle.receipt
      BY <1>1, <2>1 DEF TypeOK, Handle
    <3>2. ReceiptHolds(q)
      BY <2>1, <3>1 DEF FilesKept
    <3>3. ReceiptHolds(q)'
      BY <1>1, <3>2, ReceiptStays
    <3>4. QED
      BY <2>1, <3>1, <3>3
  <2>2. QED
    BY <2>1
<1>8. ASSUME NEW d \in Cleaners, run'[d] # None PROVE RunHolds(run[d])'
  BY <1>8, OthersStay
<1>9. QED
  BY <1>2, <1>3, <1>4, <1>5, <1>6, <1>7, <1>8 DEF FilesKept

(* A Work that nobody has cleaned up after has all of its files.            *)
LEMMA IdleKept ==
    ASSUME OwnInv, FilesKept, handle.receipt = None, handle'.receipt = None,
           run' = run \/ run' = Outdated, UNCHANGED <<bundle, patch>>,
           tree' # None, tree' = made', branch' # None => branch' <= made'
    PROVE  FilesKept'
<1>1. \A d \in Cleaners : run[d] = None
  BY DEF FilesKept
<1>2. \A d \in Cleaners : run'[d] = None
  BY <1>1, OutdatedRuns DEF OwnInv
<1>3. bundle' = None /\ patch' = None
  BY DEF FilesKept
<1>4. ~Cleaned'
  BY DEF Cleaned
<1>5. QED
  BY <1>2, <1>3, <1>4 DEF FilesKept

LEMMA WorkingKept ==
    ASSUME OwnInv, FilesKept, Edit \/ Commit \/ CommitUnseen \/ Deliver \/ MergeFails
    PROVE  FilesKept'
<1>1. /\ handle.receipt = None /\ tree # None /\ tree = made /\ branch # None /\ branch <= made
      /\ made \in Nat /\ branch \in Nat /\ handle \in Handle
  <2>1. handle.receipt = None
    BY NoReceiptYet DEF Edit, Commit, CommitUnseen, Deliver, MergeFails, Working, Unended, Owns
  <2>2. QED
    BY <2>1, FileTypes, Types DEF FilesKept, OwnInv
<1>2. CASE Edit
  <2>1. tree' = made' /\ made' = made + 1 /\ branch' = branch /\ made' \in Versions
    BY <1>2, CleanupNumbers DEF Edit, OwnInv, TypeOK, Versions
  <2>2. tree' # None /\ branch' <= made'
    BY <1>1, <2>1, CleanupNone
  <2>3. UNCHANGED <<bundle, patch, handle, run>>
    BY <1>2 DEF Edit, artifacts
  <2>4. QED
    BY <1>1, <2>1, <2>2, <2>3, IdleKept
<1>3. CASE Commit \/ CommitUnseen \/ Deliver \/ MergeFails
  <2>1. UNCHANGED <<bundle, patch, made, tree>>
    BY <1>3 DEF Commit, CommitUnseen, Deliver, MergeFails, disk, artifacts, ghosts
  <2>2. branch' = branch \/ branch' = tree
    BY <1>3 DEF Commit, CommitUnseen, Deliver, MergeFails, disk
  <2>3. handle'.receipt = None
    BY <1>1, <1>3 DEF Commit, CommitUnseen, Deliver, MergeFails, Handle
  <2>4. run' = run \/ run' = Outdated
    BY <1>3 DEF Commit, CommitUnseen, Deliver, MergeFails
  <2>5. QED
    BY <1>1, <2>1, <2>2, <2>3, <2>4, IdleKept
<1>4. QED
  BY <1>2, <1>3

(* Nothing happens to the files, and nothing to what the receipt says.      *)
LEMMA AsideKept ==
    ASSUME OwnInv, TypeOK', FilesKept, UNCHANGED <<tree, branch, bundle, patch, made>>,
           target' >= target, UNCHANGED <<handle.receipt, handle.head>>,
           Cleaned' => Cleaned,
           \A d \in Cleaners : run'[d] \in {run[d], Outdated[d], None}
    PROVE  FilesKept'
<1>1. Spares /\ HeadKept
  BY DEF Spares, HeadKept
<1>2. handle'.receipt = None => /\ tree' # None /\ bundle' = None /\ patch' = None
                                /\ \A d \in Cleaners : run'[d] = None
  BY OutdatedRuns DEF FilesKept, OwnInv
<1>3. Cleaned' => branch' = None
  BY DEF FilesKept
<1>4. \A d \in Cleaners : run'[d] # None => run'[d] = run[d] \/ run'[d] = Outdated[d]
  OBVIOUS
<1>5. QED
  BY <1>1, <1>2, <1>3, <1>4, KeptOn

LEMMA BesideKept ==
    ASSUME OwnInv, TypeOK', FilesKept,
           CherryPick \/ CleanupStageFails \/ (\E status \in Ended : End(status)) \/ Retain
           \/ Revalidate \/ Resume \/ Crash
    PROVE  FilesKept'
<1>1. UNCHANGED <<tree, branch, bundle, patch, made>>
  BY DEF CherryPick, CleanupStageFails, End, Retain, Revalidate, Resume, Crash, disk, artifacts,
     ghosts
<1>2. target \in Nat /\ handle \in Handle
  BY FileTypes, Types DEF OwnInv
<1>3. target' >= target
  <2>1. CherryPick => target' = branch /\ branch > target /\ branch \in Nat
    BY FileTypes DEF CherryPick, OwnInv
  <2>2. CherryPick \/ target' = target
    BY DEF CherryPick, CleanupStageFails, End, Retain, Revalidate, Resume, Crash, disk, artifacts
  <2>3. QED
    BY <1>2, <2>1, <2>2
<1>4. /\ UNCHANGED <<handle.receipt, handle.head>>
      /\ handle'.state = "cleaned" => handle.state = "cleaned"
  BY <1>2 DEF CherryPick, CleanupStageFails, End, Retain, Revalidate, Resume, Crash, Handle
<1>5. Cleaned' => Cleaned
  BY <1>4 DEF Cleaned
<1>6. \A d \in Cleaners : run'[d] \in {run[d], Outdated[d], None}
  BY DEF CherryPick, CleanupStageFails, End, Retain, Revalidate, Resume, Crash
<1>7. QED
  BY <1>1, <1>3, <1>4, <1>5, <1>6, AsideKept

LEMMA ResumedKept == ASSUME OwnInv, TypeOK', FilesKept, Resumed, resuming # "archived" PROVE FilesKept'
<1>1. /\ UNCHANGED <<tree, branch, bundle, patch, made, target, handle, run>>
  BY DEF Resumed, OwnInv, TypeOK, disk, artifacts, ghosts
<1>2. QED
  BY <1>1, FileTypes, AsideKept DEF Cleaned, OwnInv

(* The bundle of a Work that is cleaned is dropped: the target has what the *)
(* handle protects, and that covers the last edit.                          *)
LEMMA RetireKept == ASSUME OwnInv, TypeOK', FilesKept, Retire PROVE FilesKept'
<1> DEFINE q == handle.receipt
<1>1. /\ q # None /\ q \in Receipt /\ q.kept = "bundle" /\ ReceiptHolds(q) /\ handle \in Handle
      /\ branch = None /\ tree = None /\ Protected(q) <= target
  BY Types DEF Retire, Cleaned, FilesKept, Handle, OwnInv, CleanupDone
<1>2. /\ UNCHANGED <<tree, branch, target, patch, made>> /\ bundle' = None /\ run' = Outdated
      /\ handle' = [handle EXCEPT !.receipt = [q EXCEPT !.kept = "retired"]]
  BY <1>1 DEF Retire, ghosts, Handle, Receipt
<1>3. /\ handle'.receipt = [q EXCEPT !.kept = "retired"] /\ handle'.receipt # None
      /\ handle'.head = handle.head /\ handle'.receipt.kept = "retired"
      /\ handle'.receipt.checkpoint = q.checkpoint /\ handle'.receipt.patched = q.patched
  <2>1. [q EXCEPT !.kept = "retired"] \in Receipt
    BY <1>1 DEF Receipt
  <2>2. QED
    BY <1>1, <1>2, <2>1, CleanupNone DEF Handle, Receipt
<1>4. /\ made \in Nat /\ target \in Nat /\ Protected(q) \in Nat
      /\ patch # None => patch.base \in Nat /\ patch.base <= made
  <2>1. Protected(q) \in Versions
    BY <1>1 DEF Protected, Receipt, Handle
  <2>2. QED
    BY <2>1, FileTypes, Numbers DEF OwnInv, FilesKept
<1>5. made <= target \/ (patch # None /\ patch.base <= target)
  BY <1>1, <1>4 DEF ReceiptHolds, Covers
<1>6. Safe'
  BY <1>2, <1>4, <1>5 DEF Safe, Committed, Held
<1>7. patch # None => Committed(patch.base)'
  BY <1>2, <1>4, <1>5 DEF Committed, Held
<1>8. ReceiptHolds(handle.receipt)'
  BY <1>1, <1>2, <1>3 DEF ReceiptHolds
<1>9. ASSUME NEW d \in Cleaners, run'[d] # None PROVE RunHolds(run[d])'
  <2>1. PICK r \in Run : r = run[d] /\ run[d] # None
    BY <1>2, <1>9, OutdatedRun DEF OwnInv
  <2>2. run'[d].at = r.at /\ run'[d].receipt = r.receipt /\ run'[d].blocked = r.blocked
    BY <1>2, <1>9, <2>1, OutdatedRun DEF OwnInv
  <2>3. RunHolds(r)
    BY <2>1 DEF FilesKept
  <2>4. Protected(r.receipt)' = Protected(r.receipt)
    BY <1>3 DEF Protected
  <2>5. r.receipt.kept = "bundle" => Covers(Protected(r.receipt))'
    <3>1. r.receipt.kept = "bundle" => Covers(Protected(r.receipt))
      BY <2>3 DEF RunHolds, ReceiptHolds
    <3>2. QED
      BY <1>2, <2>4, <3>1 DEF Covers
  <2>6. ReceiptHolds(r.receipt)'
    BY <1>1, <1>2, <2>3, <2>5 DEF RunHolds, ReceiptHolds
  <2>7. RunHolds(r)'
    BY <1>1, <1>2, <1>6, <2>6 DEF RunHolds
  <2>8. QED
    BY <2>2, <2>7 DEF RunHolds, HasPreserved, HasArchived
<1>10. QED
  BY <1>1, <1>2, <1>3, <1>6, <1>7, <1>8, <1>9 DEF FilesKept

(* A cleanup begins with the receipt the last attempt left, or an empty one.*)
LEMMA BeginKept ==
    ASSUME OwnInv, TypeOK', FilesKept, NEW c \in Cleaners, Begin(c)
    PROVE  FilesKept'
<1>1. UNCHANGED <<tree, branch, bundle, patch, made, target>>
  BY DEF Begin, disk, artifacts, ghosts
<1>2. PICK q \in Receipt : q = IF handle.receipt = None THEN NewReceipt ELSE handle.receipt
  <2>1. NewReceipt \in Receipt
    BY DEF NewReceipt, Receipt
  <2>2. QED
    BY <2>1, Types DEF Handle
<1>3. PICK new : /\ new = [at |-> "settle", receipt |-> q, landed |-> Landed,
                           unique |-> FALSE, blocked |-> FALSE, fresh |-> TRUE]
                 /\ run' = [Outdated EXCEPT ![c] = new]
  BY <1>2 DEF Begin
<1>4. /\ handle'.receipt = q /\ handle'.head = handle.head /\ q # None
      /\ handle'.state \in {"merged", "ending"}
  BY <1>2, Types, CleanupNone DEF Begin, Handle
<1>5. Spares /\ HeadKept
  BY <1>1, <1>4, FileTypes DEF Spares, HeadKept, OwnInv
<1>6. ReceiptHolds(q)'
  <2>1. ReceiptHolds(q)
    BY <1>2 DEF FilesKept, ReceiptHolds, NewReceipt
  <2>2. QED
    BY <1>5, <2>1, ReceiptStays DEF OwnInv
<1>7. RunHolds(new)'
  BY <1>3, <1>6 DEF RunHolds, HasPreserved, HasArchived
<1>8. ASSUME NEW d \in Cleaners, run'[d] # None
      PROVE  run'[d] = run[d] \/ run'[d] = Outdated[d] \/ RunHolds(run[d])'
  <2>1. CASE d = c
    <3>1. run'[d] = new
      BY <1>3, <2>1, OutdatedRuns DEF OwnInv
    <3>2. QED
      BY <1>7, <3>1 DEF RunHolds, HasPreserved, HasArchived
  <2>2. CASE d # c
    BY <1>3, <2>2, OutdatedRuns DEF OwnInv
  <2>3. QED
    BY <2>1, <2>2
<1>9. ReceiptHolds(handle.receipt)'
  BY <1>4, <1>6
<1>10. ~Cleaned'
  BY <1>4 DEF Cleaned
<1>11. QED
  BY <1>1, <1>4, <1>5, <1>8, <1>9, <1>10, KeptOn

-----------------------------------------------------------------------------
(* The steps of a cleanup.                                                  *)
LEMMA RunKept ==
    ASSUME OwnInv, FilesKept, NEW c \in Cleaners, run[c] # None
    PROVE  /\ run[c] \in Run /\ run[c].receipt \in Receipt /\ run[c].receipt # None
           /\ RunHolds(run[c]) /\ ReceiptHolds(run[c].receipt)
           /\ run[c].receipt.complete <=> run[c].at = "release"
           /\ handle.receipt # None /\ handle \in Handle
<1>1. run[c] \in Run /\ RunHolds(run[c]) /\ RunDid(run[c]) /\ handle.receipt # None
  BY RunsOf DEF FilesKept
<1>2. run[c].receipt \in Receipt
  BY <1>1 DEF Run
<1>3. QED
  BY <1>1, <1>2, CleanupNone, Types DEF RunHolds, RunDid

(* A cleanup goes on with r, and has not written the handle.                *)
LEMMA MoveKept ==
    ASSUME OwnInv, TypeOK', FilesKept, Spares, NEW c \in Cleaners, run[c] # None, NEW r,
           run' = [run EXCEPT ![c] = r], UNCHANGED handle,
           r # None => RunHolds(r)',
           tree' = tree \/ (tree' = None /\ Safe),
           bundle' # bundle /\ branch' # None => bundle' <= branch' /\ SafeWithout',
           patch' # patch => /\ patch'.content = made /\ patch'.base = branch
                             /\ branch # None /\ branch' = branch
    PROVE  FilesKept'
<1>1. handle'.receipt # None /\ handle'.receipt = handle.receipt /\ HeadKept
  BY RunKept DEF HeadKept
<1>2. Cleaned' => branch' = None
  BY DEF FilesKept, Cleaned, Spares
<1>3. ASSUME NEW d \in Cleaners, run'[d] # None PROVE run'[d] = run[d] \/ RunHolds(run[d])'
  <2>1. CASE d = c
    <3>1. run'[d] = r
      BY <2>1 DEF OwnInv, TypeOK
    <3>2. QED
      BY <1>3, <3>1 DEF RunHolds, HasPreserved, HasArchived
  <2>2. QED
    BY <2>1 DEF OwnInv, TypeOK
<1>4. QED
  BY <1>1, <1>2, <1>3, KeptOn

(* A cleanup writes the handle, its receipt with it, and goes on with r.    *)
LEMMA SaveKept ==
    ASSUME OwnInv, TypeOK', FilesKept, NEW c \in Cleaners, run[c] # None, NEW r,
           UNCHANGED <<disk, made>>, run' = [Outdated EXCEPT ![c] = r], HeadKept,
           handle'.receipt # None, ReceiptHolds(handle.receipt)',
           Cleaned' => branch' = None,
           r # None => RunHolds(r)'
    PROVE  FilesKept'
<1>1. UNCHANGED <<tree, branch, bundle, patch, target>> /\ Spares
  BY FileTypes DEF disk, artifacts, Spares, OwnInv
<1>2. ASSUME NEW d \in Cleaners, run'[d] # None PROVE run'[d] = Outdated[d] \/ RunHolds(run[d])'
  <2>1. CASE d = c
    <3>1. run'[d] = r
      BY <2>1, OutdatedRuns DEF OwnInv
    <3>2. QED
      BY <1>2, <3>1 DEF RunHolds, HasPreserved, HasArchived
  <2>2. QED
    BY <2>1, OutdatedRuns DEF OwnInv
<1>3. QED
  BY <1>1, <1>2, KeptOn

(* The receipt in memory is saved as it is, before the end.                 *)
LEMMA ReceiptKept ==
    ASSUME OwnInv, TypeOK', FilesKept, NEW c \in Cleaners, run[c] # None, NEW r,
           UNCHANGED <<disk, made>>, Save(c, With(handle, run[c].receipt), r),
           run[c].at # "release",
           r = None \/ /\ r.receipt = run[c].receipt
                       /\ HasPreserved(r) => Safe
                       /\ HasArchived(r) /\ branch # None => SafeWithout
                       /\ r.at \notin {"finish", "release"}
    PROVE  FilesKept'
<1>1. PICK q \in Receipt : q = run[c].receipt
  BY RunKept
<1>2. /\ handle'.receipt = q /\ handle'.head = handle.head /\ run' = [Outdated EXCEPT ![c] = r]
      /\ handle'.receipt # None /\ ~q.complete /\ ReceiptHolds(q)
  BY <1>1, RunKept DEF Save, With, Handle
<1>3. HeadKept /\ Spares /\ TypeOK
  BY <1>2, FileTypes DEF HeadKept, Spares, disk, artifacts, OwnInv
<1>4. ReceiptHolds(q)'
  BY <1>2, <1>3, ReceiptStays
<1>5. ReceiptHolds(handle.receipt)' /\ ~Cleaned'
  BY <1>2, <1>4 DEF Cleaned
<1>6. ASSUME r # None PROVE RunHolds(r)'
  <2>1. r.receipt = q /\ r.at \notin {"finish", "release"}
    BY <1>1, <1>6
  <2>2. HasPreserved(r) => Safe'
    BY <1>3, <1>6, StillKept
  <2>3. HasArchived(r) /\ branch' # None => SafeWithout'
    BY <1>3, <1>6, StillKept DEF Spares
  <2>4. QED
    BY <1>4, <2>1, <2>2, <2>3 DEF RunHolds, HasPreserved, HasArchived
<1>7. QED
  BY <1>2, <1>3, <1>5, <1>6, SaveKept

LEMMA SettleKept ==
    ASSUME OwnInv, TypeOK', FilesKept, NEW c \in Cleaners, Settle(c)
    PROVE  FilesKept'
<1>1. run[c] # None /\ run[c].at = "settle" /\ run[c] \in Run
  BY RunsOf DEF Settle, At
<1>2. PICK r : /\ Save(c, With(handle, run[c].receipt), r)
               /\ r = None \/ r = [run[c] EXCEPT !.at = "preserve"]
  BY DEF Settle
<1>3. r = None \/ (r.receipt = run[c].receipt /\ r.at = "preserve")
  BY <1>1, <1>2 DEF Run
<1>4. UNCHANGED <<disk, made>>
  BY DEF Settle, ghosts
<1>5. QED
  BY <1>1, <1>2, <1>3, <1>4, ReceiptKept DEF HasPreserved, HasArchived

LEMMA PreserveKept ==
    ASSUME OwnInv, TypeOK', FilesKept, NEW c \in Cleaners, Preserve(c)
    PROVE  FilesKept'
<1>1. /\ run[c] # None /\ run[c] \in Run /\ run[c].at = "preserve"
      /\ ReceiptHolds(run[c].receipt) /\ run[c].receipt \in Receipt
      /\ TypeOK
      /\ tree # None => branch # None
  BY RunKept, Types DEF Preserve, At, OwnInv
<1>2. UNCHANGED <<handle, tree, target, picked, bundle, made>>
  BY DEF Preserve, ghosts
<1>3. made \in Nat /\ target \in Nat /\ (branch # None => branch \in Nat) /\ HeadKept
  BY <1>1, <1>2, FileTypes DEF HeadKept
<1>4. CASE /\ ~(tree # None /\ tree # branch) \/ run[c].receipt.patched
           /\ Go(c, "preserved") /\ UNCHANGED <<branch, patch>>
  <2>1. PICK r : r = [run[c] EXCEPT !.at = "preserved"]
    OBVIOUS
  <2>2. r.receipt = run[c].receipt /\ r.at = "preserved" /\ run' = [run EXCEPT ![c] = r]
    BY <1>1, <1>4, <2>1 DEF Run, Go
  <2>3. Safe
    BY <1>1, <1>3, <1>4 DEF FilesKept, ReceiptHolds, Safe, Committed
  <2>4. Spares
    BY <1>2, <1>3, <1>4 DEF Spares
  <2>5. Safe' /\ (\A q \in Receipt : ReceiptHolds(q) => ReceiptHolds(q)')
    BY <1>1, <1>3, <2>3, <2>4, StillKept, ReceiptStays
  <2>6. PICK q \in Receipt : q = r.receipt
    BY <1>1, <2>2
  <2>7. RunHolds(r)'
    BY <1>1, <2>2, <2>5, <2>6 DEF RunHolds, HasArchived
  <2>8. QED
    BY <1>1, <1>2, <1>4, <2>2, <2>4, <2>7, MoveKept
<1>5. CASE /\ tree # None /\ branch' = tree /\ UNCHANGED patch
           /\ run' = [run EXCEPT ![c].at = "preserved", ![c].receipt.checkpoint = tree]
  <2>1. PICK q \in Receipt : q = run[c].receipt
    BY <1>1
  <2>2. PICK p : p = [q EXCEPT !.checkpoint = tree]
    OBVIOUS
  <2>3. PICK r : r = [run[c] EXCEPT !.at = "preserved", !.receipt = p]
    OBVIOUS
  <2>4. run' = [run EXCEPT ![c] = r]
    BY <1>1, <1>5, <2>1, <2>2, <2>3 DEF TypeOK, Run
  <2>5. r.receipt = p /\ r.at = "preserved"
    BY <1>1, <2>3 DEF Run
  <2>6. p.checkpoint = tree /\ p.patched = q.patched /\ p.kept = q.kept
    BY <2>2 DEF Receipt
  <2>7. tree = made /\ branch # None /\ branch' = made /\ branch' # None /\ made' = made
    BY <1>1, <1>2, <1>5, FileTypes DEF FilesKept
  <2>8. Spares
    BY <1>2, <1>3, <1>5, <2>7 DEF Spares
  <2>9. ReceiptHolds(q)'
    BY <1>1, <1>3, <2>1, <2>8, ReceiptStays
  <2>10. Covers(Protected(p))'
    BY <1>3, <2>6, <2>7, <1>5 DEF Covers, Protected
  <2>11. ReceiptHolds(p)'
    BY <2>6, <2>7, <2>9, <2>10 DEF ReceiptHolds
  <2>12. Safe'
    BY <1>3, <2>7 DEF Safe, Committed
  <2>13. RunHolds(r)'
    BY <2>5, <2>11, <2>12 DEF RunHolds, HasArchived
  <2>14. QED
    BY <1>1, <1>2, <1>5, <2>4, <2>8, <2>13, MoveKept
<1>6. CASE /\ tree # None
           /\ patch' = IF patch = None THEN [base |-> branch, content |-> tree] ELSE patch
           /\ run' = [run EXCEPT ![c].at = "preserved", ![c].receipt.patched = TRUE]
           /\ UNCHANGED branch
  <2>1. PICK q \in Receipt : q = run[c].receipt
    BY <1>1
  <2>2. PICK p : p = [q EXCEPT !.patched = TRUE]
    OBVIOUS
  <2>3. PICK r : r = [run[c] EXCEPT !.at = "preserved", !.receipt = p]
    OBVIOUS
  <2>4. run' = [run EXCEPT ![c] = r]
    BY <1>1, <1>6, <2>1, <2>2, <2>3 DEF TypeOK, Run
  <2>5. r.receipt = p /\ r.at = "preserved"
    BY <1>1, <2>3 DEF Run
  <2>6. p.checkpoint = q.checkpoint /\ p.kept = q.kept
    BY <2>2 DEF Receipt
  <2>7. tree = made /\ branch # None
    BY <1>1, <1>6 DEF FilesKept
  <2>8. patch' # None
    <3>1. CASE patch = None
      <4>1. patch' = [base |-> branch, content |-> tree]
        BY <1>6, <3>1
      <4>2. patch' \in Patch
        BY <1>1, <2>7, <4>1, <1>6, Types DEF Patch
      <4>3. QED
        BY <4>2, CleanupNone
    <3>2. QED
      BY <1>6, <3>1
  <2>9. Spares
    BY <1>2, <1>3, <1>6 DEF Spares
  <2>10. ReceiptHolds(q)'
    BY <1>1, <1>3, <2>1, <2>9, ReceiptStays
  <2>11. Protected(p)' = Protected(q)'
    BY <2>6 DEF Protected
  <2>12. ReceiptHolds(p)'
    BY <2>6, <2>8, <2>10, <2>11 DEF ReceiptHolds, Covers
  <2>13. Safe'
    BY <2>8 DEF Safe
  <2>14. RunHolds(r)'
    BY <2>5, <2>12, <2>13 DEF RunHolds, HasArchived
  <2>15. patch' # patch => patch'.content = made /\ patch'.base = branch /\ branch' = branch
    BY <1>6, <2>7
  <2>16. QED
    BY <1>1, <1>2, <2>4, <2>7, <2>9, <2>14, <2>15, MoveKept
<1>7. CASE /\ run' = [run EXCEPT ![c].at = "preserved", ![c].blocked = TRUE]
           /\ UNCHANGED <<branch, patch>>
  <2>1. PICK r : r = [run[c] EXCEPT !.at = "preserved", !.blocked = TRUE]
    OBVIOUS
  <2>2. /\ r.receipt = run[c].receipt /\ r.at = "preserved" /\ r.blocked = TRUE
        /\ run' = [run EXCEPT ![c] = r]
    BY <1>1, <1>7, <2>1 DEF Run, TypeOK
  <2>3. Spares
    BY <1>2, <1>3, <1>7 DEF Spares
  <2>4. PICK q \in Receipt : q = r.receipt
    BY <1>1, <2>2
  <2>5. ReceiptHolds(q)'
    BY <1>1, <1>3, <2>2, <2>3, <2>4, ReceiptStays
  <2>6. RunHolds(r)'
    BY <2>2, <2>4, <2>5 DEF RunHolds, HasPreserved, HasArchived
  <2>7. QED
    BY <1>1, <1>2, <1>7, <2>2, <2>3, <2>6, MoveKept
<1>8. QED
  BY <1>4, <1>5, <1>6, <1>7 DEF Preserve

LEMMA PreservedKept ==
    ASSUME OwnInv, TypeOK', FilesKept, NEW c \in Cleaners, Preserved(c)
    PROVE  FilesKept'
<1>1. PICK q \in Receipt : q = run[c].receipt
  BY RunKept DEF Preserved, At
<1>2. /\ run[c] # None /\ run[c] \in Run /\ run[c].at = "preserved" /\ RunHolds(run[c])
      /\ ReceiptHolds(q) /\ q # None /\ ~q.complete /\ handle \in Handle /\ TypeOK
      /\ run[c].blocked \in BOOLEAN
  BY <1>1, RunKept DEF Preserved, At, Run, OwnInv
<1>3. PICK r : /\ run' = [Outdated EXCEPT ![c] = r]
               /\ r = IF run[c].blocked THEN None ELSE [run[c] EXCEPT !.at = "archive"]
  BY DEF Preserved, Save
<1>4. handle' = [handle EXCEPT !.receipt = q,
                               !.head = IF q.checkpoint # None THEN q.checkpoint ELSE @]
  BY <1>1 DEF Preserved, Save
<1>5. /\ handle'.receipt = q
      /\ handle'.head = handle.head \/ (q.checkpoint # None /\ handle'.head = q.checkpoint)
  BY <1>2, <1>4 DEF Handle
<1>6. UNCHANGED <<disk, made>>
  BY DEF Preserved, ghosts
<1>7. HeadKept /\ Spares
  BY <1>2, <1>5, <1>6, FileTypes DEF HeadKept, Spares, disk, artifacts, ReceiptHolds
<1>8. ReceiptHolds(q)'
  BY <1>2, <1>7, ReceiptStays
<1>9. ReceiptHolds(handle.receipt)' /\ ~Cleaned'
  BY <1>2, <1>5, <1>8 DEF Cleaned
<1>10. ASSUME r # None PROVE RunHolds(r)'
  <2>1. r.receipt = q /\ r.at = "archive" /\ ~run[c].blocked
    BY <1>1, <1>2, <1>3, <1>10 DEF Run
  <2>2. Safe'
    BY <1>2, <1>7, <2>1, StillKept DEF RunHolds, HasPreserved
  <2>3. QED
    BY <1>8, <2>1, <2>2 DEF RunHolds, HasArchived
<1>11. QED
  BY <1>2, <1>3, <1>5, <1>6, <1>7, <1>9, <1>10, SaveKept

(* With the branch in the target or in the bundle, it is not needed.        *)
LEMMA NotNeeded ==
    ASSUME TypeOK, FilesKept, Safe, branch # None, NEW v \in Nat, v = branch,
           UNCHANGED <<made, patch>>, target' >= v \/ (bundle' # None /\ bundle' >= v),
           target' = target, bundle' = bundle \/ bundle' = v
    PROVE  SafeWithout'
<1>1. /\ made \in Nat /\ target \in Nat /\ branch \in Nat
      /\ bundle # None => bundle \in Nat /\ bundle <= branch
      /\ patch # None => patch.base \in Nat /\ Committed(patch.base)
  BY FileTypes DEF FilesKept
<1>2. ASSUME NEW w \in Nat, Committed(w) PROVE Held(w)'
  BY <1>1, <1>2 DEF Committed, Held
<1>3. CASE patch # None
  <2>1. PICK w \in Nat : w = patch.base
    BY <1>1, <1>3
  <2>2. Held(w)'
    BY <1>1, <1>2, <1>3, <2>1
  <2>3. QED
    BY <1>3, <2>1, <2>2 DEF SafeWithout, Held
<1>4. CASE patch = None
  <2>1. PICK w \in Nat : w = made
    BY <1>1
  <2>2. Held(w)'
    BY <1>2, <1>4, <2>1 DEF Safe
  <2>3. QED
    BY <2>1, <2>2 DEF SafeWithout, Held
<1>5. QED
  BY <1>3, <1>4

(* What the proof of containment was about is the branch, and the branch    *)
(* has whatever a bundle or the target may lack.                            *)
LEMMA BranchCovers ==
    ASSUME TypeOK, FilesKept, Safe, branch # None, NEW v \in Nat, v = branch,
           UNCHANGED <<made, patch, target>>
    PROVE  Covers(v)'
<1>1. /\ made \in Nat /\ target \in Nat /\ branch \in Nat
      /\ bundle # None => bundle \in Nat /\ bundle <= branch
      /\ patch # None => patch.base \in Nat /\ Committed(patch.base)
  BY FileTypes DEF FilesKept
<1>2. ASSUME NEW w \in Nat, Committed(w) PROVE w <= target \/ w <= v
  BY <1>1, <1>2 DEF Committed, Held
<1>3. QED
  BY <1>1, <1>2 DEF Safe, Covers

LEMMA ArchiveKept ==
    ASSUME OwnInv, TypeOK', FilesKept, NEW c \in Cleaners, Archive(c), intact'
    PROVE  FilesKept'
<1>1. PICK q \in Receipt : q = run[c].receipt
  BY RunKept DEF Archive, At
<1>2. /\ run[c] # None /\ run[c] \in Run /\ run[c].at = "archive"
      /\ ReceiptHolds(q) /\ TypeOK /\ Safe
  BY <1>1, RunKept DEF Archive, At, OwnInv, RunHolds, HasPreserved
<1>3. UNCHANGED <<handle, tree, branch, target, patch, made>>
  BY DEF Archive
<1>4. /\ made \in Nat /\ target \in Nat
      /\ branch # None => branch \in Nat /\ branch <= made
      /\ HeadKept
  BY <1>2, <1>3, FileTypes DEF HeadKept, FilesKept
<1>5. bundle' = bundle \/ (bundle = None /\ bundle' = branch)
  BY DEF Archive
<1>6. Spares
  BY <1>3, <1>4, <1>5 DEF Spares
<1>7. ReceiptHolds(q)' /\ Safe'
  BY <1>2, <1>4, <1>6, ReceiptStays, StillKept
<1>8. Unique /\ q.kept = "no" => Protected(q) = branch /\ branch # None
  BY <1>1 DEF Archive, Unique
<1>9. bundle' # bundle /\ branch' # None => bundle' <= branch' /\ SafeWithout'
  <2> SUFFICES ASSUME bundle' # bundle, branch' # None PROVE bundle' <= branch' /\ SafeWithout'
    OBVIOUS
  <2>1. bundle' = branch /\ branch # None /\ branch \in Nat
    BY <1>3, <1>4, <1>5
  <2>2. PICK v \in Nat : v = branch
    BY <2>1
  <2>3. SafeWithout'
    BY <1>2, <1>3, <2>1, <2>2, NotNeeded
  <2>4. QED
    BY <1>3, <2>1, <2>3
<1>10. SUFFICES ASSUME NEW r, run' = [run EXCEPT ![c] = r], RunHolds(r)' PROVE FilesKept'
  <2>1. ASSUME NEW r, run' = [run EXCEPT ![c] = r], RunHolds(r)' PROVE FilesKept'
    BY <1>10, <2>1
  <2>2. CASE run' = [run EXCEPT ![c].at = "archived", ![c].blocked = TRUE]
    <3>1. PICK r : r = [run[c] EXCEPT !.at = "archived", !.blocked = TRUE]
      OBVIOUS
    <3>2. run' = [run EXCEPT ![c] = r] /\ r.at = "archived" /\ r.blocked = TRUE /\ r.receipt = q
      BY <1>1, <1>2, <2>2, <3>1 DEF Run, TypeOK
    <3>3. RunHolds(r)'
      BY <1>7, <3>2 DEF RunHolds, HasArchived
    <3>4. QED
      BY <1>10, <3>2, <3>3
  <2>3. ASSUME NEW kept \in {"no", "bundle", "retired"}, Decided(c, kept),
               kept = "bundle" => q.kept = "bundle" \/ (Unique /\ q.kept = "no"),
               branch # None => SafeWithout'
        PROVE  FilesKept'
    <3>1. PICK p : p = [q EXCEPT !.kept = kept]
      OBVIOUS
    <3>2. PICK r : r = [run[c] EXCEPT !.at = "archived", !.unique = Unique, !.receipt = p]
      OBVIOUS
    <3>3. run' = [run EXCEPT ![c] = r] /\ r.at = "archived" /\ r.receipt = p
      BY <1>1, <1>2, <2>3, <3>1, <3>2 DEF Decided, Run, TypeOK
    <3>4. p.kept = kept /\ p.checkpoint = q.checkpoint /\ p.patched = q.patched
      BY <3>1 DEF Receipt
    <3>5. Protected(p)' = Protected(q) /\ Protected(q)' = Protected(q)
      BY <1>3, <3>4 DEF Protected
    <3>6. kept = "bundle" => Covers(Protected(p))'
      <4>1. CASE q.kept = "bundle"
        BY <1>7, <3>5, <4>1 DEF ReceiptHolds, Covers
      <4>2. CASE Unique /\ q.kept = "no"
        <5>1. PICK v \in Nat : v = branch
          BY <1>4, <1>8, <4>2
        <5>2. Covers(v)'
          BY <1>2, <1>3, <1>8, <4>2, <5>1, BranchCovers
        <5>3. QED
          BY <1>8, <3>5, <4>2, <5>1, <5>2 DEF Covers
      <4>3. QED
        BY <2>3, <4>1, <4>2
    <3>7. ReceiptHolds(p)'
      BY <1>3, <1>7, <2>3, <3>4, <3>6 DEF ReceiptHolds
    <3>8. RunHolds(r)'
      BY <1>3, <1>7, <2>3, <3>3, <3>7 DEF RunHolds
    <3>9. QED
      BY <1>10, <3>3, <3>8
  <2>4. branch # None /\ branch <= target => SafeWithout'
    <3> SUFFICES ASSUME branch # None, branch <= target PROVE SafeWithout'
      OBVIOUS
    <3>1. PICK v \in Nat : v = branch /\ v <= target
      BY <1>4
    <3>2. bundle' = bundle \/ bundle' = v
      BY <1>5, <3>1
    <3>3. QED
      BY <1>2, <1>3, <1>4, <3>1, <3>2, NotNeeded
  <2>5. CASE ~(Unique /\ q.kept = "no") /\ Decided(c, q.kept)
    <3>1. branch # None => SafeWithout'
      <4>1. CASE q.kept # "no"
        BY <1>3, <1>7, <4>1 DEF ReceiptHolds
      <4>2. CASE ~Unique
        BY <1>4, <2>4, <4>2 DEF Unique
      <4>3. QED
        BY <2>5, <4>1, <4>2
    <3>2. q.kept \in {"no", "bundle", "retired"}
      BY DEF Receipt
    <3>3. QED
      BY <2>3, <2>5, <3>1, <3>2
  <2>6. CASE Unique /\ q.kept = "no" /\ Protected(q) <= target /\ Decided(c, "retired")
    BY <1>8, <2>3, <2>4, <2>6
  <2>7. CASE Unique /\ q.kept = "no" /\ Decided(c, "bundle")
             /\ bundle' = (IF bundle = None THEN branch ELSE bundle)
    <3>1. SafeWithout'
      <4>1. CASE bundle = None /\ branch # None
        <5>1. PICK v \in Nat : v = branch /\ bundle' = v /\ bundle' # None
          BY <1>4, <2>7, <4>1
        <5>2. QED
          BY <1>2, <1>3, <4>1, <5>1, NotNeeded
      <4>2. CASE bundle # None /\ branch # None
        BY <1>2, <1>6, <4>2, StillKept DEF FilesKept
      <4>3. QED
        BY <1>8, <2>7, <4>1, <4>2
    <3>2. QED
      BY <2>3, <2>7, <3>1
  <2>8. QED
    BY <1>1, <2>2, <2>5, <2>6, <2>7 DEF Archive
<1>11. QED
  BY <1>2, <1>3, <1>6, <1>9, <1>10, MoveKept

LEMMA ArchivedKept ==
    ASSUME OwnInv, TypeOK', FilesKept, NEW c \in Cleaners, Archived(c)
    PROVE  FilesKept'
<1>1. run[c] # None /\ run[c].at = "archived" /\ run[c] \in Run /\ RunHolds(run[c])
  BY RunKept DEF Archived, At
<1>2. PICK r : /\ Save(c, With(handle, run[c].receipt), r)
               /\ r = IF run[c].blocked THEN None ELSE [run[c] EXCEPT !.at = "remove"]
  BY DEF Archived
<1>3. r = None \/ (r.receipt = run[c].receipt /\ r.at = "remove" /\ ~run[c].blocked)
  BY <1>1, <1>2 DEF Run
<1>4. UNCHANGED <<disk, made>>
  BY DEF Archived, ghosts
<1>5. r # None => Safe /\ (branch # None => SafeWithout)
  BY <1>1, <1>3 DEF RunHolds, HasPreserved, HasArchived
<1>6. QED
  BY <1>1, <1>2, <1>3, <1>4, <1>5, ReceiptKept

LEMMA RemoveKept ==
    ASSUME OwnInv, TypeOK', FilesKept, NEW c \in Cleaners, Remove(c)
    PROVE  FilesKept'
<1>1. PICK q \in Receipt : q = run[c].receipt
  BY RunKept DEF Remove, At
<1>2. /\ run[c] # None /\ run[c] \in Run /\ run[c].at = "remove" /\ TypeOK
      /\ ReceiptHolds(q) /\ Safe
      /\ branch # None => SafeWithout
  BY <1>1, RunKept DEF Remove, At, OwnInv, RunHolds, HasPreserved, HasArchived
<1>3. CASE Save(c, With(handle, run[c].receipt), None) /\ UNCHANGED tree
  <2>1. UNCHANGED <<disk, made>>
    BY <1>3 DEF Remove, disk, ghosts
  <2>2. QED
    BY <1>2, <1>3, <2>1, ReceiptKept
<1>4. CASE tree' = None /\ Go(c, "unregister") /\ UNCHANGED handle
  <2>1. UNCHANGED <<branch, target, bundle, patch, made>>
    BY DEF Remove, artifacts, ghosts
  <2>2. Spares /\ HeadKept
    BY <1>2, <1>4, <2>1, FileTypes DEF Spares, HeadKept
  <2>3. PICK r : r = [run[c] EXCEPT !.at = "unregister"]
    OBVIOUS
  <2>4. run' = [run EXCEPT ![c] = r] /\ r.at = "unregister" /\ r.receipt = q
    BY <1>1, <1>2, <1>4, <2>3 DEF Go, Run
  <2>5. ReceiptHolds(q)' /\ Safe' /\ (branch' # None => SafeWithout')
    BY <1>2, <2>1, <2>2, ReceiptStays, StillKept
  <2>6. RunHolds(r)'
    BY <2>4, <2>5 DEF RunHolds
  <2>7. QED
    BY <1>2, <1>4, <2>1, <2>2, <2>4, <2>6, MoveKept
<1>5. QED
  BY <1>3, <1>4 DEF Remove

LEMMA UnregisterKept ==
    ASSUME OwnInv, TypeOK', FilesKept, NEW c \in Cleaners, Unregister(c)
    PROVE  FilesKept'
<1>1. PICK q \in Receipt : q = run[c].receipt
  BY RunKept DEF Unregister, At
<1>2. /\ run[c] # None /\ run[c] \in Run /\ run[c].at = "unregister" /\ TypeOK
      /\ ReceiptHolds(q) /\ Safe
      /\ branch # None => SafeWithout
  BY <1>1, RunKept DEF Unregister, At, OwnInv, RunHolds, HasPreserved, HasArchived
<1>3. UNCHANGED <<tree, branch, target, bundle, patch, made, handle>>
  BY DEF Unregister, artifacts, ghosts
<1>4. Spares /\ HeadKept
  BY <1>2, <1>3, FileTypes DEF Spares, HeadKept
<1>5. PICK r : /\ run' = [run EXCEPT ![c] = r]
               /\ \/ r = [run[c] EXCEPT !.at = "delete"]
                  \/ r = [run[c] EXCEPT !.at = "delete", !.blocked = TRUE]
  BY <1>2 DEF Unregister, Go, Run, TypeOK
<1>6. r.at = "delete" /\ r.receipt = q
  BY <1>1, <1>2, <1>5 DEF Run
<1>7. ReceiptHolds(q)' /\ Safe' /\ (branch' # None => SafeWithout')
  BY <1>2, <1>3, <1>4, ReceiptStays, StillKept
<1>8. RunHolds(r)'
  BY <1>6, <1>7 DEF RunHolds
<1>9. QED
  BY <1>2, <1>3, <1>4, <1>5, <1>8, MoveKept

LEMMA DeleteKept ==
    ASSUME OwnInv, TypeOK', FilesKept, NEW c \in Cleaners, Delete(c)
    PROVE  FilesKept'
<1>1. PICK q \in Receipt : q = run[c].receipt
  BY RunKept DEF Delete, At
<1>2. /\ run[c] # None /\ run[c] \in Run /\ run[c].at = "delete" /\ TypeOK
      /\ ReceiptHolds(q) /\ Safe
      /\ branch # None => SafeWithout
  BY <1>1, RunKept DEF Delete, At, OwnInv, RunHolds, HasPreserved, HasArchived
<1>3. UNCHANGED <<tree, target, bundle, patch, made, handle>>
  BY DEF Delete, artifacts, ghosts
<1>4. branch' = branch \/ (branch # None /\ branch' = None)
  BY DEF Delete
<1>5. Spares /\ HeadKept
  BY <1>2, <1>3, <1>4, FileTypes DEF Spares, HeadKept
<1>6. PICK r : /\ run' = [run EXCEPT ![c] = r]
               /\ \/ /\ r = [run[c] EXCEPT !.at = "finish"]
                     /\ branch' = None
                  \/ /\ r = [run[c] EXCEPT !.at = "finish", !.receipt.archived =
                                run[c].unique /\ q.kept = "bundle"]
                     /\ branch' = None
                  \/ r = [run[c] EXCEPT !.at = "finish", !.blocked = TRUE]
  BY <1>1, <1>2 DEF Delete, Go, Run, TypeOK
<1>7. PICK p : p = r.receipt
  OBVIOUS
<1>8. /\ r.at = "finish" /\ (r.blocked = TRUE \/ branch' = None)
      /\ p.checkpoint = q.checkpoint /\ p.patched = q.patched /\ p.kept = q.kept
  <2>1. CASE r = [run[c] EXCEPT !.at = "finish"] /\ branch' = None
    BY <1>1, <1>2, <1>7, <2>1 DEF Run
  <2>2. CASE r = [run[c] EXCEPT !.at = "finish", !.blocked = TRUE]
    BY <1>1, <1>2, <1>7, <2>2 DEF Run
  <2>3. CASE /\ r = [run[c] EXCEPT !.at = "finish", !.receipt.archived =
                        run[c].unique /\ q.kept = "bundle"]
             /\ branch' = None
    <3>1. p = [q EXCEPT !.archived = run[c].unique /\ q.kept = "bundle"] /\ r.at = "finish"
      BY <1>1, <1>2, <1>7, <2>3 DEF Run
    <3>2. QED
      BY <2>3, <3>1 DEF Receipt
  <2>4. QED
    BY <1>6, <2>1, <2>2, <2>3
<1>9. ReceiptHolds(q)' /\ Safe'
  BY <1>2, <1>5, ReceiptStays, StillKept
<1>10. ReceiptHolds(p)'
  BY <1>8, <1>9 DEF ReceiptHolds, Protected
<1>11. RunHolds(r)'
  BY <1>7, <1>8, <1>9, <1>10 DEF RunHolds, HasArchived
<1>12. QED
  BY <1>2, <1>3, <1>5, <1>6, <1>11, MoveKept

LEMMA FinishKept ==
    ASSUME OwnInv, TypeOK', FilesKept, NEW c \in Cleaners, Finish(c)
    PROVE  FilesKept'
<1>1. PICK q \in Receipt : q = run[c].receipt
  BY RunKept DEF Finish, At
<1>2. /\ run[c] # None /\ run[c] \in Run /\ run[c].at = "finish" /\ TypeOK
      /\ ReceiptHolds(q) /\ Safe /\ handle \in Handle
      /\ ~run[c].blocked => branch = None
  BY <1>1, RunKept DEF Finish, At, OwnInv, RunHolds, HasPreserved
<1>3. PICK p \in Receipt : p = [q EXCEPT !.complete = ~run[c].blocked]
  <2>1. run[c].blocked \in BOOLEAN
    BY <1>2 DEF Run
  <2>2. QED
    BY <2>1 DEF Receipt
<1>4. /\ p.checkpoint = q.checkpoint /\ p.patched = q.patched /\ p.kept = q.kept
      /\ p.complete = ~run[c].blocked /\ p # None
  BY <1>3, CleanupNone DEF Receipt
<1>5. PICK r : /\ run' = [Outdated EXCEPT ![c] = r]
               /\ r = IF p.complete THEN [run[c] EXCEPT !.at = "release", !.receipt = p] ELSE None
  BY <1>1, <1>3 DEF Finish, Save
<1>6. handle'.receipt = p /\ handle'.head = handle.head
  BY <1>1, <1>2, <1>3 DEF Finish, Save, Handle
<1>7. UNCHANGED <<disk, made>>
  BY DEF Finish, ghosts
<1>8. Spares /\ HeadKept
  BY <1>2, <1>6, <1>7, FileTypes DEF Spares, HeadKept, disk, artifacts
<1>9. ReceiptHolds(q)' /\ Safe'
  BY <1>2, <1>8, ReceiptStays, StillKept
<1>10. ReceiptHolds(p)'
  BY <1>4, <1>9 DEF ReceiptHolds, Protected
<1>11. p.complete => branch' = None
  BY <1>2, <1>4, <1>7 DEF disk
<1>12. ReceiptHolds(handle.receipt)' /\ (Cleaned' => branch' = None)
  BY <1>6, <1>10, <1>11 DEF Cleaned
<1>13. ASSUME r # None PROVE RunHolds(r)'
  <2>1. p.complete /\ r.at = "release" /\ r.receipt = p
    BY <1>2, <1>5, <1>13 DEF Run
  <2>2. QED
    BY <1>9, <1>10, <1>11, <2>1 DEF RunHolds, HasArchived
<1>14. QED
  BY <1>2, <1>4, <1>5, <1>6, <1>7, <1>8, <1>12, <1>13, SaveKept

(* What was finished stays finished, whoever holds the controller.          *)
LEMMA ReleaseKept ==
    ASSUME OwnInv, TypeOK', FilesKept, NEW c \in Cleaners, Release(c)
    PROVE  FilesKept'
<1>1. PICK q \in Receipt : q = run[c].receipt
  BY RunKept DEF Release, At
<1>2. /\ run[c] # None /\ run[c] \in Run /\ run[c].at = "release" /\ TypeOK
      /\ ReceiptHolds(q) /\ handle \in Handle /\ branch = None
  BY <1>1, RunsOf, RunKept DEF Release, At, OwnInv, RunHolds, RunDid
<1>3. UNCHANGED <<disk, made>> /\ UNCHANGED <<tree, branch, target, bundle, patch>>
  BY DEF Release, disk, artifacts, ghosts
<1>4. Spares
  BY <1>2, <1>3, FileTypes DEF Spares
<1>5. CASE Quit(c) /\ UNCHANGED handle
  BY <1>2, <1>3, <1>4, <1>5, MoveKept DEF Quit
<1>6. CASE \E p \in Receipt : p \in {q, [q EXCEPT !.complete = FALSE]} /\ Save(c, With(handle, p), None)
  <2>1. PICK p \in Receipt : p \in {q, [q EXCEPT !.complete = FALSE]} /\ Save(c, With(handle, p), None)
    BY <1>6
  <2>2. p.checkpoint = q.checkpoint /\ p.patched = q.patched /\ p.kept = q.kept /\ p # None
    BY <2>1, CleanupNone DEF Receipt
  <2>3. handle'.receipt = p /\ handle'.head = handle.head /\ run' = [Outdated EXCEPT ![c] = None]
    BY <1>2, <2>1 DEF Save, With, Handle
  <2>4. HeadKept
    BY <2>3 DEF HeadKept
  <2>5. ReceiptHolds(q)'
    BY <1>2, <1>4, <2>4, ReceiptStays
  <2>6. ReceiptHolds(handle.receipt)'
    BY <2>2, <2>3, <2>5 DEF ReceiptHolds, Protected
  <2>7. QED
    BY <1>2, <1>3, <2>2, <2>3, <2>4, <2>6, SaveKept
<1>7. [q EXCEPT !.complete = FALSE] \in Receipt
  BY DEF Receipt
<1>8. QED
  BY <1>1, <1>5, <1>6, <1>7 DEF Release

LEMMA OutrunKept ==
    ASSUME OwnInv, TypeOK', FilesKept, NEW c \in Cleaners, Outrun(c)
    PROVE  FilesKept'
<1>1. UNCHANGED <<handle, tree, branch, target, bundle, patch, made>>
  BY DEF Outrun, disk, artifacts, ghosts
<1>2. Spares
  BY <1>1, FileTypes DEF Spares, OwnInv
<1>3. QED
  BY <1>1, <1>2, MoveKept DEF Outrun, Quit

-----------------------------------------------------------------------------
LEMMA InitKept == Init => KeptInv
<1> SUFFICES ASSUME Init PROVE KeptInv
  OBVIOUS
<1>1. 0 \in Versions /\ 0 # None
  BY CleanupNumbers, Numbers DEF Versions
<1>2. resuming # "archived"
  BY CleanupNone DEF Init
<1>3. FilesKept
  BY <1>1 DEF Init, FilesKept, Cleaned
<1>4. QED
  BY <1>2, <1>3 DEF KeptInv

LEMMA KeptOfWorld ==
    ASSUME OwnInv, OwnInv', KeptInv, World \/ Crash
    PROVE  KeptInv'
<1>1. TypeOK' /\ TypeOK
  BY DEF OwnInv
<1>2. CASE LateEdit \/ Rehydrate
  BY <1>2 DEF LateEdit, Rehydrate, KeptInv
<1>3. CASE ~(LateEdit \/ Rehydrate)
  <2>1. intact' = intact
    BY <1>3 DEF World, Edit, Commit, CommitUnseen, Deliver, CherryPick, MergeFails,
       CleanupStageFails, End, Retain, Revalidate, Resume, Resumed, Retire, Crash, ghosts
  <2>2. resuming' = "archived" => resuming = "archived"
    <3>1. "archived" # "cancelled" /\ None # "archived"
      BY CleanupNone
    <3>2. QED
      BY <1>3, <3>1 DEF World, Edit, Commit, CommitUnseen, Deliver, CherryPick, MergeFails,
         CleanupStageFails, End, Retain, Revalidate, Resume, Resumed, Retire, Crash
  <2>3. ASSUME FilesKept, resuming # "archived" PROVE FilesKept'
    BY <1>1, <1>3, <2>3, WorkingKept, BesideKept, ResumedKept, RetireKept DEF World
  <2>4. QED
    BY <2>1, <2>2, <2>3 DEF KeptInv
<1>4. QED
  BY <1>2, <1>3

LEMMA KeptOfCleaners ==
    ASSUME OwnInv, OwnInv', KeptInv, NEW c \in Cleaners, Step(c) \/ Begin(c)
    PROVE  KeptInv'
<1>1. TypeOK'
  BY DEF OwnInv
<1>2. UNCHANGED resuming
  BY DEF Begin, Step, Settle, Preserve, Preserved, Archive, Archived, Remove, Unregister, Delete,
     Finish, Release, Outrun
<1>3. intact' => intact
  <2>1. CASE Archive(c)
    BY <2>1 DEF Archive, OwnInv, TypeOK
  <2>2. CASE ~Archive(c)
    BY <2>2 DEF Begin, Step, Settle, Preserve, Preserved, Archived, Remove, Unregister, Delete,
       Finish, Release, Outrun, ghosts
  <2>3. QED
    BY <2>1, <2>2
<1>4. ASSUME FilesKept, intact' PROVE FilesKept'
  BY <1>1, <1>4, BeginKept, SettleKept, PreserveKept, PreservedKept, ArchiveKept, ArchivedKept,
     RemoveKept, UnregisterKept, DeleteKept, FinishKept, ReleaseKept, OutrunKept DEF Step
<1>5. QED
  BY <1>2, <1>3, <1>4 DEF KeptInv

(* A cleanup has the ended Work to itself, what it has behind it is done,   *)
(* and what it is about to take away is kept elsewhere, for any number of   *)
(* attempts that fail, die, overtake one another and are made again.        *)
THEOREM CleanupInvariant == Spec => []CleanupInv
<1>1. Init => CleanupInv
  BY InitCleanup, InitKept DEF CleanupInv
<1>2. CleanupInv /\ [Next]_vars => CleanupInv'
  <2> SUFFICES ASSUME CleanupInv, [Next]_vars PROVE CleanupInv'
    OBVIOUS
  <2>1. OwnInv /\ KeptInv /\ OwnInv'
    BY NextCleanup DEF CleanupInv
  <2>2. CASE UNCHANGED vars
    <3>1. UNCHANGED <<contract, handle, tree, branch, target, bundle, patch, made, resuming, run,
                      intact>>
      BY <2>2 DEF vars, disk, artifacts, ghosts
    <3>2. FilesKept => FilesKept'
      BY <2>1, <3>1, FileTypes, AsideKept DEF Cleaned, OwnInv
    <3>3. QED
      BY <2>1, <3>1, <3>2 DEF CleanupInv, KeptInv
  <2>3. CASE World \/ Crash
    BY <2>1, <2>3, KeptOfWorld DEF CleanupInv
  <2>4. ASSUME NEW c \in Cleaners, Step(c) \/ Begin(c) PROVE CleanupInv'
    BY <2>1, <2>4, KeptOfCleaners DEF CleanupInv
  <2>5. QED
    BY <2>2, <2>3, <2>4 DEF Next, Sweep, Request, Cleaners
<1>3. QED
  BY <1>1, <1>2, PTL DEF Spec

(* Whatever is removed, in whatever order attempts fail, die and are made   *)
(* again, the last edit of the Work can be recovered: from the worktree,    *)
(* the branch, the target, the bundle, or the patch and the commit it       *)
(* applies to.                                                              *)
THEOREM NothingIsLost == Spec => []NothingLost
<1>1. CleanupInv => NothingLost
  <2> SUFFICES ASSUME FilesKept PROVE Recoverable(made)
    BY DEF CleanupInv, KeptInv, NothingLost
  <2>1. CASE tree # None
    BY <2>1 DEF FilesKept, Recoverable
  <2>2. CASE tree = None
    BY <2>2 DEF FilesKept, Safe, Recoverable
  <2>3. QED
    BY <2>1, <2>2
<1>2. QED
  BY <1>1, CleanupInvariant, PTL

=============================================================================
