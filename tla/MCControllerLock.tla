-------------------------- MODULE MCControllerLock --------------------------
(* Bounds for model checking ControllerLock. *)
EXTENDS ControllerLock, TLC

Symmetric == Permutations(Procs)
=============================================================================
