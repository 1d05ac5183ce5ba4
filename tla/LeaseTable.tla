----------------------------- MODULE LeaseTable -----------------------------
(***************************************************************************)
(* What the lease store promises (leases/store.ts), with no files and no   *)
(* clock: a table in which an acquisition is one step.  It appears as a    *)
(* whole, compatible with what others have, under tokens that nobody had   *)
(* before; from then on leases only go, one by one or together, and what   *)
(* has gone is never in the table again.  ExecutionLeases implements this. *)
(***************************************************************************)
EXTENDS Naturals

CONSTANTS
    Owners,
    ClaimSets,        \* the sets of claims asked for together
    Keys,             \* the keys they use
    Conflict(_, _)    \* which claims exclude each other

VARIABLES
    table,            \* the leases that are held: claim, owner and token
    last              \* the last token given for each key

vars == <<table, last>>

Init == table = {} /\ last = [k \in Keys |-> 0]

Grant(o, C) ==
    /\ \A l \in table, c \in C : l.owner # o => ~Conflict(c, l.claim)
    /\ table' = table \union
                  {[claim |-> c, owner |-> o, token |-> last[c.key] + 1] : c \in C}
    /\ last' = [k \in Keys |-> IF \E c \in C : c.key = k THEN last[k] + 1 ELSE last[k]]

(* Leases are given back, expire, are removed, or were never written since  *)
(* their acquisition was cut off.                                           *)
Lose == table' \subseteq table /\ UNCHANGED last

Next == (\E o \in Owners, C \in ClaimSets : Grant(o, C)) \/ Lose

Spec == Init /\ [][Next]_vars
=============================================================================
