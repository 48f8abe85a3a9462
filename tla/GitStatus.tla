------------------------------ MODULE GitStatus ------------------------------
(***************************************************************************)
(* The git status of a worktree (getStatus of the changes router, its      *)
(* cache in status-cache.ts and the operations that invalidate it), run as *)
(* coalescing tasks of a WorkerTaskRunner beside other tasks.              *)
(*                                                                         *)
(* A status is the version of the repository that the worker read, and is  *)
(* named after its task.  The continuations of the callers run with the    *)
(* callback that settles their task.                                       *)
(***************************************************************************)
EXTENDS WorkerTaskRunner

CONSTANTS
    StatusKey,   \* the dedupe key and the cache key of the worktree
    MaxVersion   \* bound: changes of the repository

StatusOption == [key |-> StatusKey, strategy |-> "coalesce", signal |-> "none"]

ASSUME StatusAssumption ==
    /\ StatusKey \in Key
    /\ StatusOption \in Options
    /\ \A o \in Options : o.key = StatusKey => o = StatusOption
    /\ MaxVersion \in Nat \ {0}

VARIABLES
    version,     \* of the repository
    invalidated, \* version at the last invalidation
    seen,        \* seen[t]: version the worker of the task read, or 0
    cached,      \* the task whose result is in the cache
    inFlight,    \* the task that the promise in inFlightStatus waits for
    waiting,     \* tasks that some call of getStatus waits for
    joined       \* history: tasks that a second call came to share

statusVars == <<version, invalidated, seen, cached, inFlight, waiting, joined>>
vars == <<runnerVars, statusVars>>

StatusTask(t) == option[t].key = StatusKey

StatusTypeOK ==
    /\ TypeOK
    /\ version \in 1..MaxVersion
    /\ invalidated \in 1..MaxVersion
    /\ seen \in [Task -> 0..MaxVersion]
    /\ cached \in Task \cup {NoTask}
    /\ inFlight \in Task \cup {NoTask}
    /\ waiting \subseteq Task
    /\ joined \subseteq Task

StatusInit ==
    /\ Init
    /\ version = 1 /\ invalidated = 1
    /\ seen = [t \in Task |-> 0]
    /\ cached = NoTask /\ inFlight = NoTask
    /\ waiting = {} /\ joined = {}
-----------------------------------------------------------------------------
\* mutant: a promise that was invalidated fills the cache too
ContinueUnguarded ==
    LET settled == {t \in waiting : state'[t] \in Outcome}
        filled == {t \in settled : state'[t] = "resolved"}
    IN  /\ waiting' = waiting \ settled
        /\ cached' = IF filled = {} THEN cached ELSE CHOOSE t \in filled : TRUE
        /\ inFlight' = IF inFlight \in settled THEN NoTask ELSE inFlight
\* What getStatus does when its task is settled: the promise that is still in
\* flight fills the cache, and is removed.
Continue ==
    LET settled == {t \in waiting : state'[t] \in Outcome}
    IN  /\ waiting' = waiting \ settled
        /\ cached' = IF inFlight \in settled /\ state'[inFlight] = "resolved"
                     THEN inFlight ELSE cached
        /\ inFlight' = IF inFlight \in settled THEN NoTask ELSE inFlight

\* getStatus, with nothing in the cache and no promise in flight: runGitTask
\* makes a task, or gives the promise of the one that runs.
GetStatus(t) ==
    /\ cached = NoTask /\ inFlight = NoTask /\ disposed = "no"
    /\ IF Joins(StatusOption)
       THEN /\ t = inFlightByKey[StatusKey]
            /\ joined' = joined \cup {t}
            /\ UNCHANGED runnerVars
       ELSE RunTask(t, StatusOption) /\ UNCHANGED joined
    /\ inFlight' = t
    /\ waiting' = waiting \cup {t}
    /\ UNCHANGED <<version, invalidated, seen, cached>>

\* The worker reads the repository.
ExecuteGitTask(w) ==
    /\ w \in workerSlots \ ended /\ active[w] # NoTask
    /\ StatusTask(active[w]) /\ seen[active[w]] = 0
    /\ seen' = [seen EXCEPT ![active[w]] = version]
    /\ UNCHANGED <<runnerVars, version, invalidated, cached, inFlight, waiting,
                   joined>>

\* Anyone changes the repository.
Change ==
    /\ version < MaxVersion
    /\ version' = version + 1
    /\ UNCHANGED <<runnerVars, invalidated, seen, cached, inFlight, waiting,
                   joined>>

\* clearStatusCacheForWorktree, at the end of an operation that changed it.
ClearStatusCache ==
    /\ invalidated < version
    /\ invalidated' = version
    /\ cached' = NoTask
    /\ inFlight' = NoTask
    /\ UNCHANGED <<runnerVars, version, seen, waiting, joined>>

\* getCachedStatus, when the entry is too old.
Expire ==
    /\ cached # NoTask
    /\ cached' = NoTask
    /\ UNCHANGED <<runnerVars, version, invalidated, seen, inFlight, waiting,
                   joined>>

\* A step of the runner, in which only getStatus starts a status task, and
\* its result needs the repository to have been read.
RunnerStep ==
    /\ RunnerNext
    /\ \A t \in Task : option'[t].key = StatusKey =>
          /\ state[t] # "unused"
          /\ state'[t] = "resolved" => seen[t] # 0
    /\ Continue
    /\ UNCHANGED <<version, invalidated, seen, joined>>

StatusNext ==
    \/ RunnerStep
    \/ \E t \in Task : GetStatus(t)
    \/ \E w \in Worker : ExecuteGitTask(w)
    \/ Change \/ ClearStatusCache \/ Expire

StatusSpec == StatusInit /\ [][StatusNext]_vars /\ Fairness
-----------------------------------------------------------------------------
(***************************************************************************)
(* Properties.                                                             *)
(***************************************************************************)
\* The cache holds no status older than the last invalidation, unless its
\* task is one that was running then and was joined afterwards.
StaleOnlyIfJoined ==
    cached # NoTask /\ seen[cached] < invalidated => cached \in joined
=============================================================================
