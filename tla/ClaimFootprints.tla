--------------------------- MODULE ClaimFootprints ---------------------------
(***************************************************************************)
(* What the claims of ExecutionLeases stand for: the files of checkouts,   *)
(* their indexes and heads, the references of the repository; and the      *)
(* conflict relation of ResourceClaims compared with it, for every two     *)
(* claims that can be written over the given checkouts and paths.          *)
(***************************************************************************)
EXTENDS ExecutionLeases

CONSTANT Files    \* what there can be in a checkout: sequences of names

Keys ==
    [kind : {"repo-content", "release"}, at : {Unscoped}, path : {NoPath}]
    \union [kind : {"workspace", "workspace-read", "git-index", "git-head",
                    "git-ref", "other"},
            at : Names, path : {NoPath}]
    \union [kind : {"path"}, at : Names \union {Unscoped}, path : Paths]
Claims == [key : Keys, mode : Modes]

(* What a claim stands for: files of checkouts, the index and the head of a *)
(* checkout, the references of the repository, anything else by its name.   *)
FilesAt(p) == IF p.unsafe THEN Files
              ELSE {f \in Files : Len(p.segs) <= Len(f)
                                    /\ SubSeq(f, 1, Len(p.segs)) = p.segs}
CheckoutsOf(k) == IF k.at = Unscoped THEN Names ELSE {k.at}
Footprint(k) ==
    LET file(f) == CheckoutsOf(k) \X {"file"} \X f
        part(x) == CheckoutsOf(k) \X {x} \X {<<>>}
        refs    == {<<Unscoped, "refs", <<>>>>}
    IN  CASE k.kind = "repo-content" -> file(Files) \union part("index")
                                          \union part("head") \union refs
          [] k.kind \in {"workspace", "workspace-read"} ->
                 file(Files) \union part("index") \union part("head")
          [] k.kind = "path"      -> file(FilesAt(k.path))
          [] k.kind = "git-index" -> part("index")
          [] k.kind = "git-head"  -> part("head")
          [] k.kind = "git-ref"   -> refs
          [] OTHER                -> part(k.kind)

ASSUME FootprintAssumption ==
    /\ Names # {} /\ Unscoped \notin Names
    /\ Files \subseteq Seq(STRING)
    /\ \A p \in Paths : FilesAt(p) # {}

Share(x, y) == Footprint(x.key) \intersect Footprint(y.key) # {}
Ordinary(x) == x.key.kind # "release"

Precision ==
    \A a, b \in {x \in Claims : Ordinary(x)} :
        ResourceClaimsConflict(a, b) <=>
            Share(a, b) /\ (a.mode # "read" \/ b.mode # "read")

(* A reader or a writer of a whole checkout or of its index is enough to    *)
(* tell what a set of claims conflicts with.                                *)
Probes == {x \in Claims : x.key.at # Unscoped
                             /\ x.key.kind \in {"workspace", "git-index"}}
MergeExact ==
    \A a, b \in Claims, c \in Probes :
        (\E x \in NormalizeClaims({a, b}, FALSE) : ResourceClaimsConflict(x, c))
          <=> (\E x \in {a, b} : ResourceClaimsConflict(x, c))

(* "Claims, leases, and fencing prevent two actors from silently mutating   *)
(* the same state".  What the store relies on when it compares a new claim  *)
(* with a live lease, in that order only (conflicts.ts): two claims exclude *)
(* each other exactly when they share something that one of them changes,   *)
(* whoever came first, so that independent checkouts and disjoint paths do  *)
(* not exclude each other.                                                  *)
ConflictIsSharedWrite == Live # {} => Precision

(* A command excludes what its claims excluded before they were merged, and *)
(* nothing else (normalizeClaims).                                          *)
MergeKeepsConflicts == Live # {} => MergeExact
=============================================================================
