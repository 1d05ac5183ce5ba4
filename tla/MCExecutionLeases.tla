-------------------------- MODULE MCExecutionLeases --------------------------
(* The claims of a workspace reader, of a patch of one file with the index, *)
(* and of a writer of that file alone.                                      *)
EXTENDS ClaimFootprints, TLC

File == [unsafe |-> FALSE, segs |-> <<"src", "a">>, wild |-> FALSE]

KeyOf(k, n, p) == [kind |-> k, at |-> n, path |-> p]
Asks(k, p, m) == [key |-> KeyOf(k, CHOOSE n \in Names : TRUE, p), mode |-> m]

ReadAll == Asks("workspace", NoPath, "read")
Patch   == Asks("path", File, "write")
Stage   == Asks("git-index", NoPath, "write")

PairClaims == {{ReadAll}, {Patch, Stage}}
AllClaims  == {{ReadAll}, {Patch}, {Patch, Stage}}

Symmetric == Permutations(Agents) \union Permutations(Owners)

(* The paths of a small tree, for the properties of the relation itself.    *)
PathOf(u, s, w) == [unsafe |-> u, segs |-> s, wild |-> w]
PlainPaths ==
    {PathOf(FALSE, <<"src">>, FALSE), PathOf(FALSE, <<"src">>, TRUE), File,
     PathOf(FALSE, <<"doc">>, FALSE), PathOf(TRUE, <<>>, FALSE)}
GlobPaths == PlainPaths \union {PathOf(FALSE, <<>>, TRUE)}

SmallTree == {<<"src">>, <<"src", "a">>, <<"src", "b">>, <<"doc">>}
=============================================================================
