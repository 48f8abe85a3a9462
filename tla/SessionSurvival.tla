-------------------------- MODULE SessionSurvival --------------------------
(***************************************************************************)
(* What the daemons of an organization promise for the shells they run,    *)
(* whichever process has them: a shell ends when it exits or is closed,    *)
(* and otherwise only when a process fails or is slower than the time-outs *)
(* of the others allow.  The exception is a shell that is started while an *)
(* upgrade is under way: it may be late for the successor.                 *)
(***************************************************************************)
EXTENDS Naturals

CONSTANT Session

VARIABLES
    held,       \* shells that run
    late,       \* those that are not promised to outlive the upgrade
    upgrading,
    failures    \* processes that failed or were late

vars == <<held, late, upgrading, failures>>

Init == held = {} /\ late = {} /\ upgrading = FALSE /\ failures = 0

Open(s) ==
    /\ s \notin held
    /\ held' = held \cup {s}
    /\ late' \in IF upgrading THEN {late, late \cup {s}} ELSE {{}}
    /\ UNCHANGED <<upgrading, failures>>

\* The shell exits or is closed.
End(s) ==
    /\ held' = held \ {s}
    /\ late' = late \ {s}
    /\ UNCHANGED <<upgrading, failures>>

Prepare ==
    /\ upgrading' = TRUE
    /\ UNCHANGED <<held, late, failures>>

\* The old process goes, a successor gives up or stands alone: shells that
\* were late may end, or belong to the process that is left.
Handover ==
    /\ held' \in {(held \ late) \cup L : L \in SUBSET late}
    /\ late' \in SUBSET (late \cap held')
    /\ upgrading' \in BOOLEAN
    /\ late' # {} => upgrading'
    /\ UNCHANGED failures

\* A process fails or is late, and may take with it what it alone held, at
\* once or when another one depends on it.
Fail ==
    /\ failures' \in {failures, failures + 1}
    /\ failures' > 0
    /\ held' \in SUBSET held
    /\ late' \in SUBSET held'
    /\ upgrading' \in BOOLEAN

Next ==
    \/ \E s \in Session : Open(s) \/ End(s)
    \/ Prepare \/ Handover \/ Fail

Spec == Init /\ [][Next]_vars
=============================================================================
