-------------------------- MODULE OwnershipRegister --------------------------
(***************************************************************************)
(* What the store of controller sessions promises                          *)
(* (controller-session-store.ts), with no record to rewrite, no clock, no  *)
(* transports and no generations: a register of who owns which Work.  A    *)
(* Work is taken when nobody else owns it, or taken away by a recovery;    *)
(* its owner is told, and what it was told is true until it loses the      *)
(* Work.  A terminal Work is neither taken nor given.  What happens to one *)
(* Work says nothing of another.  ControllerSession implements this.       *)
(***************************************************************************)
CONSTANTS Works, Owners

VARIABLES
    owns,     \* the pairs of a Work and its owner
    knows,    \* those of them that the owner was told
    ended     \* the terminal Works

vars == <<owns, knows, ended>>

Init == owns = {} /\ knows = {} /\ ended = {}

Of(w, S) == {x \in S : x[1] = w}

(* A claim or a renewal, which the owner has yet to be told of.             *)
Take(w, o) ==
    /\ w \notin ended
    /\ Of(w, owns) \subseteq {<<w, o>>}
    /\ owns' = owns \union {<<w, o>>}
    /\ knows' = knows \ {<<w, o>>}
    /\ UNCHANGED ended

(* A recovery, which leaves nothing to the owner before.                    *)
TakeAway(w, o) ==
    /\ w \notin ended
    /\ owns' = (owns \ Of(w, owns)) \union {<<w, o>>}
    /\ knows' = knows \ Of(w, knows)
    /\ UNCHANGED ended

Tell(w, o) ==
    /\ w \notin ended
    /\ <<w, o>> \in owns
    /\ knows' = knows \union {<<w, o>>}
    /\ UNCHANGED <<owns, ended>>

(* Claims expire or are given back.                                         *)
Lose ==
    /\ owns' \subseteq owns
    /\ knows' \subseteq knows \intersect owns'
    /\ UNCHANGED ended

End(w) ==
    /\ ended' = ended \union {w}
    /\ UNCHANGED <<owns, knows>>

Next ==
    \/ Lose
    \/ \E w \in Works : End(w)
    \/ \E w \in Works, o \in Owners : Take(w, o) \/ TakeAway(w, o) \/ Tell(w, o)

Spec == Init /\ [][Next]_vars
=============================================================================
