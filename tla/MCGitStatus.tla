---------------------------- MODULE MCGitStatus ----------------------------
(* Small instances of GitStatus for TLC. *)
EXTENDS GitStatus, TLC

CONSTANT OtherKey

Opt(k, s, sig) == [key |-> k, strategy |-> s, signal |-> sig]
MCOptions == {StatusOption, Opt(OtherKey, "latest-wins", "live"),
              Opt(NoKey, "fifo", "aborted")}
=============================================================================
