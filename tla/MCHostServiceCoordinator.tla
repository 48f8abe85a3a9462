----------------------- MODULE MCHostServiceCoordinator ----------------------
(* Processes are interchangeable. *)
EXTENDS HostServiceCoordinator, TLC

Symmetry == Permutations(Proc)
=============================================================================
