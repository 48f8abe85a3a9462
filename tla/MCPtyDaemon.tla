---------------------------- MODULE MCPtyDaemon ----------------------------
(* Small instances of PtyDaemon for TLC. *)
EXTENDS PtyDaemon, TLC

MCProtocols == {1, 2}
MCSupported == {2}
ConnSymmetry == Permutations(Conn)
=============================================================================
