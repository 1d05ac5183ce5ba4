------------------------- MODULE MCRuntimeOwnership -------------------------
EXTENDS RuntimeOwnership, TLC

Symmetric == Permutations(Runtimes) \union Permutations(Publishers)
                \union Permutations(Releases)
=============================================================================
