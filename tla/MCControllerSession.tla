------------------------- MODULE MCControllerSession -------------------------
EXTENDS ControllerSession, TLC

Symmetric == Permutations(Works) \union Permutations(Owners) \union Permutations(Transports)
=============================================================================
