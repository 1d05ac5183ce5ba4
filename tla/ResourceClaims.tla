--------------------------- MODULE ResourceClaims ---------------------------
(***************************************************************************)
(* Which resource claims exclude each other                                *)
(* (src/runtime/resources/claims/conflicts.ts).  The functions are pure;   *)
(* the lease store asks them whether a claim conflicts with a lease, in    *)
(* that order and never in the other.                                      *)
(*                                                                         *)
(* A resource key is a kind, the checkout it names (or, for the kinds      *)
(* without one, the rest of the key) and, for the kind "path", a path.     *)
(***************************************************************************)
EXTENDS Naturals, Sequences, FiniteSets

CONSTANTS
    Names,      \* checkout ids and the like
    Unscoped,   \* a legacy "path:<relative>" key names no checkout
    Paths       \* the paths claims use, see Path

Modes == {"read", "write", "exclusive"}

(* A path as normalizeClaimPath leaves it: unsafe when it returns null,      *)
(* else its segments, without the trailing "**" or "*" that pathOverlaps     *)
(* strips; wild says that one was there.  The path "**" has no segment left. *)
Path == [unsafe : BOOLEAN, segs : Seq(STRING), wild : BOOLEAN]
NoPath == [unsafe |-> FALSE, segs |-> <<>>, wild |-> FALSE]

ASSUME PathsAssumption == Paths \subseteq Path

Kinds == {"repo-content", "workspace", "workspace-read", "path", "git-index",
          "git-head", "git-ref", "release", "other"}
Content == {"repo-content", "workspace", "path", "git-index", "git-head",
            "git-ref"}

Key == [kind : Kinds, at : Names \union {Unscoped}, path : Paths \union {NoPath}]
Claim == [key : Key, mode : Modes]

(* The legacy key workspace-read:<checkout> is workspace:<checkout>. *)
NormalizeResourceKey(k) ==
    IF k.kind = "workspace-read" THEN [k EXCEPT !.kind = "workspace"] ELSE k

(* a.startsWith(b + "/"): the strings, so nothing starts with the path "".  *)
Below(a, b) ==
    /\ Len(b) > 0 /\ Len(b) < Len(a)
    /\ SubSeq(a, 1, Len(b)) = b

(* A path that cannot be compared overlaps every other. *)
PathOverlaps(p, q) ==
    \/ p.unsafe \/ q.unsafe
    \/ p.segs = q.segs
    \/ Below(p.segs, q.segs)
    \/ Below(q.segs, p.segs)

(* A workspace key covers what its checkout holds, and every path that      *)
(* names no checkout.                                                       *)
WorkspaceCovers(w, k) ==
    /\ w.kind = "workspace"
    /\ \/ k.kind \in {"workspace", "path", "git-index", "git-head"} /\ k.at = w.at
       \/ k.kind = "path" /\ k.at = Unscoped

(* Mutant: paths of independent checkouts overlap as well.                  *)
MutPathsMeetAnywhere(l, r) ==
    l.kind = "path" /\ r.kind = "path" /\ PathOverlaps(l.path, r.path)

PathsMeet(l, r) ==
    /\ l.kind = "path" /\ r.kind = "path"
    /\ l.at = Unscoped \/ r.at = Unscoped \/ l.at = r.at
    /\ PathOverlaps(l.path, r.path)

OverlapOfNormalized(l, r) ==
    \/ l = r
    \/ l.kind = "repo-content" /\ r.kind \in Content
    \/ r.kind = "repo-content" /\ l.kind \in Content
    \/ WorkspaceCovers(l, r)
    \/ WorkspaceCovers(r, l)
    \/ PathsMeet(l, r)
    \/ l.kind = "git-ref" /\ r.kind = "git-ref"

ResourceKeysOverlap(l, r) ==
    OverlapOfNormalized(NormalizeResourceKey(l), NormalizeResourceKey(r))

(* A release freeze excludes every claim that is not a read, and every      *)
(* other release; otherwise two claims conflict when their keys overlap and *)
(* one of them is not a read.                                               *)
ResourceClaimsConflict(c, d) ==
    LET releases == {x \in {c, d} : x.key.kind = "release"}
    IN  IF c.key.kind = "release" \/ d.key.kind = "release"
        THEN \A x \in {c, d} \ releases : x.mode # "read"
        ELSE /\ ResourceKeysOverlap(c.key, d.key)
             /\ c.mode # "read" \/ d.mode # "read"

(* normalizeClaims: one claim per normalised key, in the strongest mode     *)
(* asked for; no claim at all means the whole content unless the caller     *)
(* only reads.                                                              *)
Rank == [read |-> 1, write |-> 2, exclusive |-> 3]
WholeContent ==
    [key |-> [kind |-> "repo-content", at |-> Unscoped, path |-> NoPath],
     mode |-> "write"]

(* Mutant: the last claim of a key wins, so a read may replace a write. *)
MutNormalizeClaimsWeakest(claims, readOnly) ==
    IF claims = {} THEN IF readOnly THEN {} ELSE {WholeContent}
    ELSE {[key |-> NormalizeResourceKey(c.key), mode |-> c.mode] :
            c \in {d \in claims : \A e \in claims :
                     NormalizeResourceKey(e.key) = NormalizeResourceKey(d.key)
                        => Rank[e.mode] >= Rank[d.mode]}}

NormalizeClaims(claims, readOnly) ==
    IF claims = {} THEN IF readOnly THEN {} ELSE {WholeContent}
    ELSE {[key |-> NormalizeResourceKey(c.key), mode |-> c.mode] :
            c \in {d \in claims : \A e \in claims :
                     NormalizeResourceKey(e.key) = NormalizeResourceKey(d.key)
                        => Rank[e.mode] <= Rank[d.mode]}}
=============================================================================
