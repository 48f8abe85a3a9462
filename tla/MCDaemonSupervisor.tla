------------------------- MODULE MCDaemonSupervisor -------------------------
(* Small instances of DaemonSupervisor for TLC. *)
EXTENDS DaemonSupervisor, TLC

PidSymmetry == Permutations(Pid)
=============================================================================
