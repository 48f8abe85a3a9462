------------------------- MODULE MCTerminalSession -------------------------
(* Small instances of TerminalSession for TLC. *)
EXTENDS TerminalSession, TLC

Symmetry == Permutations(Renderer)
=============================================================================
