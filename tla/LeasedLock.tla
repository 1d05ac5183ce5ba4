----------------------------- MODULE LeasedLock -----------------------------
(***************************************************************************)
(* What withControllerLock promises its callers (locks.ts), with no file   *)
(* and no clock: a lock that one process at a time has in time.  Its time  *)
(* may run out while it works, and then the next one may come in beside    *)
(* it; a process that leaves, dies or is late never takes the lock from    *)
(* the one that has it.  ControllerLock implements this.                   *)
(***************************************************************************)
CONSTANTS
    Procs,      \* the processes that use the lock
    Leased      \* TRUE when the lock has a time-to-live

VARIABLES
    inTime,     \* the processes that have the lock, and whose time runs
    late        \* the processes still working after their time ran out

vars == <<inTime, late>>

Init == inTime = {} /\ late = {}

Take(p) ==
    /\ inTime = {}
    /\ p \notin late
    /\ inTime' = {p}
    /\ UNCHANGED late

(* A process gives the lock back, fails to take it up, or dies. *)
Leave(p) ==
    /\ p \in inTime
    /\ inTime' = inTime \ {p}
    /\ UNCHANGED late

LeaveLate(p) ==
    /\ p \in late
    /\ late' = late \ {p}
    /\ UNCHANGED inTime

RunOut(p) ==
    /\ Leased
    /\ p \in inTime
    /\ inTime' = inTime \ {p}
    /\ late' = late \union {p}

Next == \E p \in Procs : Take(p) \/ Leave(p) \/ LeaveLate(p) \/ RunOut(p)

Spec == Init /\ [][Next]_vars
=============================================================================
