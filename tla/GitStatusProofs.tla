-------------------------- MODULE GitStatusProofs --------------------------
(***************************************************************************)
(* Theorems about the status of a worktree: its runner is a                *)
(* WorkerTaskRunner, so that what is proved of the runner holds, and its   *)
(* cache is not older than the last invalidation unless a call joined a    *)
(* task.                                                                   *)
(***************************************************************************)
EXTENDS GitStatus, WorkerTaskRunnerProofs

USE RunnerAssumption, StatusAssumption
    DEF requests, pool, keys, Task, NoTask, Worker, NoWorker

-----------------------------------------------------------------------------
(***************************************************************************)
(* The runner inside.                                                      *)
(***************************************************************************)
\* Every step of the whole is a step of the runner or leaves it alone.
LEMMA RunnerInside == [StatusNext]_vars => [RunnerNext]_runnerVars
<1> SUFFICES ASSUME [StatusNext]_vars  PROVE [RunnerNext]_runnerVars
  OBVIOUS
<1>1. CASE UNCHANGED vars
  BY <1>1 DEF vars
<1>2. CASE RunnerStep
  BY <1>2 DEF RunnerStep
<1>3. ASSUME NEW t \in Task, GetStatus(t)  PROVE [RunnerNext]_runnerVars
  BY <1>3 DEF GetStatus, RunnerNext
<1>4. ASSUME NEW w \in Worker, ExecuteGitTask(w)  PROVE UNCHANGED runnerVars
  BY <1>4 DEF ExecuteGitTask
<1>5. CASE Change \/ ClearStatusCache \/ Expire
  BY <1>5 DEF Change, ClearStatusCache, Expire
<1>6. QED  BY <1>1, <1>2, <1>3, <1>4, <1>5 DEF StatusNext

\* The specification of the whole implements that of the runner, with the
\* callers of getStatus among its callers.
THEOREM ImplementsRunner == StatusSpec => Spec
<1>1. StatusInit => Init
  BY DEF StatusInit
<1>2. [StatusNext]_vars => [RunnerNext]_runnerVars
  BY RunnerInside
<1>3. QED  BY <1>1, <1>2, PTL DEF StatusSpec, Spec

\* While git status runs on it, the runner keeps custody of every task.
THEOREM StatusCustody == StatusSpec => []Custody
  BY ImplementsRunner, CustodyKeptForever, PTL

\* And gives its callers promises that are still to be settled.
THEOREM StatusShares == StatusSpec => []SharedIsPending
  BY ImplementsRunner, SharedStaysPending, PTL

\* And is disposed completely.
THEOREM StatusDisposes == StatusSpec => []DisposeComplete
  BY ImplementsRunner, DisposeCompletes, PTL

\* And leaves none of them waiting beside a slot that is free or missing.
THEOREM StatusNoneStranded == StatusSpec => []NothingStranded
  BY ImplementsRunner, NoneStranded, PTL

-----------------------------------------------------------------------------
(***************************************************************************)
(* The cache.                                                              *)
(***************************************************************************)
LEMMA CommitUsed ==
  ASSUME NEW Q, NEW S, NEW A, NEW N, NEW F, NEW ends,
         Commit(Q, S, A, N, F, ends),
         \A u \in DOMAIN ends : ends[u] \in {"pending", "resolved", "rejected"},
         NEW t \in Task, state[t] # "unused"
  PROVE  state'[t] # "unused"
  BY DEF Commit

\* A task that was made stays made, with its options.
LEMMA UsedStays ==
  ASSUME TypeOK, [RunnerNext]_runnerVars, NEW t \in Task, state[t] # "unused"
  PROVE  state'[t] # "unused" /\ option'[t] = option[t]
<1>1. CASE UNCHANGED runnerVars
  BY <1>1 DEF runnerVars
<1>2. ASSUME NEW u \in Task, NEW o \in Options, RunTask(u, o)
      PROVE  state'[t] # "unused" /\ option'[t] = option[t]
  <2>1. u # t /\ option' = [option EXCEPT ![u] = o]
    BY <1>2 DEF RunTask, Fresh
  <2>2. state'[t] # "unused"
    BY <1>2, CommitUsed DEF RunTask, DrainQueue
  <2>3. QED  BY <2>1, <2>2 DEF TypeOK
<1>3. ASSUME NEW w, NEW u, Retire(w, u)
      PROVE  state'[t] # "unused" /\ option'[t] = option[t]
  BY <1>3, CommitUsed DEF Retire, Recover
<1>4. ASSUME NEW u \in Task, AbortTask(u)
      PROVE  state'[t] # "unused" /\ option'[t] = option[t]
  BY <1>3, <1>4, CommitUsed DEF AbortTask
<1>5. ASSUME NEW w \in Worker, NEW ok \in BOOLEAN, HandleWorkerMessage(w, ok)
      PROVE  state'[t] # "unused" /\ option'[t] = option[t]
  BY <1>5, CommitUsed DEF HandleWorkerMessage, DrainQueue
<1>6. ASSUME NEW w \in Worker, HandleTaskTimeout(w)
      PROVE  state'[t] # "unused" /\ option'[t] = option[t]
  BY <1>3, <1>6 DEF HandleTaskTimeout
<1>7. ASSUME NEW w \in Worker, HandleWorkerFailure(w)
      PROVE  state'[t] # "unused" /\ option'[t] = option[t]
  BY <1>7, CommitUsed DEF HandleWorkerFailure, Recover
<1>8. ASSUME NEW w \in Worker, WorkerError(w) \/ WorkerExit(w)
      PROVE  state'[t] # "unused" /\ option'[t] = option[t]
  BY <1>7, <1>8 DEF WorkerError, WorkerExit
<1>9. ASSUME NEW R, VisitNext(R)
      PROVE  state'[t] # "unused" /\ option'[t] = option[t]
  BY <1>9, CommitUsed DEF VisitNext
<1>10. CASE Dispose \/ DisposeGoesOn
  BY <1>9, <1>10 DEF Dispose, DisposeGoesOn
<1>11. QED
  BY <1>1, <1>2, <1>4, <1>5, <1>6, <1>8, <1>10 DEF RunnerNext

\* A status that nobody joined late is not older than the invalidation: the
\* one that is in flight, and the one that is cached.
FreshEnough(t) == t \notin joined => seen[t] >= invalidated

CacheInv ==
    /\ StatusTypeOK
    /\ invalidated <= version
    /\ \A t \in Task : state[t] = "unused" => seen[t] = 0
    /\ inFlight # NoTask =>
          /\ state[inFlight] # "unused"
          /\ option[inFlight].key = StatusKey
          /\ seen[inFlight] # 0 => FreshEnough(inFlight)
    /\ cached # NoTask => seen[cached] # 0 /\ FreshEnough(cached)

LEMMA InitCache == StatusInit => CacheInv
<1> SUFFICES ASSUME StatusInit  PROVE CacheInv
  OBVIOUS
<1>1. TypeOK
  BY InitInv DEF StatusInit, IInv
<1>2. QED  BY <1>1 DEF StatusInit, CacheInv, StatusTypeOK

LEMMA RunnerStepCache ==
  ASSUME CacheInv, IInv, IInv', RunnerStep
  PROVE  CacheInv'
<1> DEFINE settled == {t \in waiting : state'[t] \in Outcome}
<1>1. /\ waiting' = waiting \ settled
      /\ cached' = IF inFlight \in settled /\ state'[inFlight] = "resolved"
                   THEN inFlight ELSE cached
      /\ inFlight' = IF inFlight \in settled THEN NoTask ELSE inFlight
      /\ UNCHANGED <<version, invalidated, seen, joined>>
  BY DEF RunnerStep, Continue
<1>2. \A t \in Task : state[t] # "unused" =>
         state'[t] # "unused" /\ option'[t] = option[t]
  BY UsedStays DEF RunnerStep, IInv
<1>3. TypeOK' /\ settled \subseteq Task
  BY DEF IInv, CacheInv, StatusTypeOK
<1>4. StatusTypeOK'
  BY <1>1, <1>3 DEF CacheInv, StatusTypeOK
<1>5. \A t \in Task : state'[t] = "unused" => seen'[t] = 0
  BY <1>1, <1>2 DEF CacheInv
<1>6. inFlight' # NoTask => /\ state'[inFlight'] # "unused"
                            /\ option'[inFlight'].key = StatusKey
                            /\ seen'[inFlight'] # 0 => FreshEnough(inFlight)'
  <2>1. SUFFICES ASSUME inFlight' # NoTask
                 PROVE  /\ state'[inFlight'] # "unused"
                        /\ option'[inFlight'].key = StatusKey
                        /\ seen'[inFlight'] # 0 => FreshEnough(inFlight)'
    OBVIOUS
  <2>2. inFlight' = inFlight /\ inFlight \in Task /\ inFlight # NoTask
    BY <1>1, <2>1 DEF CacheInv, StatusTypeOK
  <2>3. QED  BY <1>1, <1>2, <2>2 DEF CacheInv, FreshEnough
<1>7. cached' # NoTask => seen'[cached'] # 0 /\ FreshEnough(cached)'
  <2>1. CASE inFlight \in settled /\ state'[inFlight] = "resolved"
    <3>1. cached' = inFlight /\ inFlight \in Task /\ inFlight # NoTask
      BY <1>1, <1>3, <2>1
    <3>2. option'[inFlight].key = StatusKey
      BY <1>2, <3>1 DEF CacheInv
    <3>3. seen[inFlight] # 0
      BY <2>1, <3>1, <3>2 DEF RunnerStep
    <3>4. QED  BY <1>1, <3>1, <3>3 DEF CacheInv, FreshEnough
  <2>2. CASE ~(inFlight \in settled /\ state'[inFlight] = "resolved")
    BY <1>1, <2>2 DEF CacheInv, FreshEnough
  <2>3. QED  BY <2>1, <2>2
<1>8. QED  BY <1>1, <1>4, <1>5, <1>6, <1>7 DEF CacheInv

LEMMA GetStatusCache ==
  ASSUME CacheInv, IInv, IInv', NEW t \in Task, GetStatus(t)
  PROVE  CacheInv'
<1>1. /\ cached' = NoTask /\ inFlight' = t
      /\ waiting' = waiting \cup {t}
      /\ UNCHANGED <<version, invalidated, seen>>
  BY DEF GetStatus
<1>2. [RunnerNext]_runnerVars
  BY DEF GetStatus, RunnerNext
<1>3. \A u \in Task : state[u] # "unused" =>
         state'[u] # "unused" /\ option'[u] = option[u]
  BY <1>2, UsedStays DEF IInv
<1>4. \A u \in Task : state'[u] = "unused" => seen'[u] = 0
  BY <1>1, <1>3 DEF CacheInv
<1>5. /\ joined' \subseteq Task
      /\ state'[t] # "unused"
      /\ option'[t].key = StatusKey
      /\ seen[t] # 0 => FreshEnough(t)'
  <2>1. CASE Joins(StatusOption)
    <3>1. t = inFlightByKey[StatusKey] /\ joined' = joined \cup {t} /\ UNCHANGED runnerVars
      BY <2>1 DEF GetStatus
    <3>2. state[t] = "pending" /\ option[t].key = StatusKey
      BY <2>1, <3>1, PendingBasics DEF Joins, StatusOption, Pending
    <3>3. QED  BY <3>1, <3>2 DEF runnerVars, CacheInv, StatusTypeOK, FreshEnough
  <2>2. CASE ~Joins(StatusOption)
    <3>1. RunTask(t, StatusOption) /\ joined' = joined
      BY <2>2 DEF GetStatus
    <3>2. state[t] = "unused" /\ option' = [option EXCEPT ![t] = StatusOption]
      BY <3>1 DEF RunTask, Fresh
    <3>3. option'[t] = StatusOption /\ seen[t] = 0
      BY <3>2 DEF CacheInv, StatusTypeOK, TypeOK
    <3>4. state'[t] # "unused"
      <4> DEFINE dropped == Superseded(StatusOption)
                 ends == [u \in dropped \cup {t} |->
                            IF u = t THEN "pending" ELSE "rejected"]
                 Q == (queue \ dropped) \cup {t}
      <4>1. /\ ends[t] = "pending" /\ t \in DOMAIN ends
            /\ \E N, F : Commit(Q, workerSlots, active, N, F, ends)
        BY <3>1 DEF RunTask, DrainQueue
      <4> HIDE DEF ends, Q
      <4>2. QED  BY <4>1 DEF Commit
    <3>5. QED  BY <3>1, <3>3, <3>4 DEF StatusOption, CacheInv, StatusTypeOK
  <2>3. QED  BY <2>1, <2>2
<1>6. StatusTypeOK'
  BY <1>1, <1>5 DEF CacheInv, StatusTypeOK, IInv
<1>7. QED  BY <1>1, <1>4, <1>5, <1>6 DEF CacheInv, FreshEnough

LEMMA OtherCache ==
  ASSUME CacheInv, IInv, IInv',
         \/ \E w \in Worker : ExecuteGitTask(w)
         \/ Change \/ ClearStatusCache \/ Expire
         \/ UNCHANGED vars
  PROVE  CacheInv'
<1>1. CASE UNCHANGED vars
  BY <1>1 DEF vars, statusVars, runnerVars, CacheInv, StatusTypeOK, FreshEnough, IInv
<1>2. ASSUME NEW w \in Worker, ExecuteGitTask(w)  PROVE CacheInv'
  <2>1. /\ active[w] # NoTask /\ seen[active[w]] = 0
        /\ seen' = [seen EXCEPT ![active[w]] = version]
        /\ UNCHANGED <<state, option, version, invalidated, cached, inFlight,
                       waiting, joined>>
    BY <1>2 DEF ExecuteGitTask, runnerVars
  <2>2. active[w] \in Task /\ state[active[w]] = "pending"
    BY <2>1, PendingBasics DEF Pending
  <2>3. version \in 1..MaxVersion /\ seen \in [Task -> 0..MaxVersion]
        /\ invalidated \in 1..MaxVersion
    BY DEF CacheInv, StatusTypeOK
  <2>4. StatusTypeOK'
    BY <2>1, <2>2, <2>3 DEF CacheInv, StatusTypeOK, IInv
  <2>5. \A t \in Task : state'[t] = "unused" => seen'[t] = 0
    BY <2>1, <2>2, <2>3 DEF CacheInv
  <2>6. inFlight' # NoTask => /\ state'[inFlight'] # "unused"
                              /\ option'[inFlight'].key = StatusKey
                              /\ seen'[inFlight'] # 0 => FreshEnough(inFlight)'
    BY <2>1, <2>2, <2>3 DEF CacheInv, StatusTypeOK, FreshEnough
  <2>7. cached' # NoTask => seen'[cached'] # 0 /\ FreshEnough(cached)'
    BY <2>1, <2>2, <2>3 DEF CacheInv, StatusTypeOK, FreshEnough
  <2>8. QED  BY <2>1, <2>4, <2>5, <2>6, <2>7 DEF CacheInv
<1>3. CASE Change
  <2>1. /\ version' = version + 1 /\ version < MaxVersion
        /\ UNCHANGED <<state, option, invalidated, seen, cached, inFlight,
                       waiting, joined>>
    BY <1>3 DEF Change, runnerVars
  <2>2. QED  BY <2>1 DEF CacheInv, StatusTypeOK, FreshEnough, IInv
<1>4. CASE ClearStatusCache
  <2>1. /\ invalidated' = version /\ cached' = NoTask /\ inFlight' = NoTask
        /\ UNCHANGED <<state, option, version, seen, waiting, joined>>
    BY <1>4 DEF ClearStatusCache, runnerVars
  <2>2. QED  BY <2>1 DEF CacheInv, StatusTypeOK, IInv
<1>5. CASE Expire
  <2>1. /\ cached' = NoTask
        /\ UNCHANGED <<state, option, version, invalidated, seen, inFlight,
                       waiting, joined>>
    BY <1>5 DEF Expire, runnerVars
  <2>2. QED  BY <2>1 DEF CacheInv, StatusTypeOK, FreshEnough, IInv
<1>6. QED  BY <1>1, <1>2, <1>3, <1>4, <1>5

\* The cache keeps its types and its freshness in every behaviour.
THEOREM CacheInvariance == StatusSpec => []CacheInv
<1>1. StatusSpec => []IInv
  BY ImplementsRunner, Invariance, PTL
<1>2. CacheInv /\ IInv /\ IInv' /\ [StatusNext]_vars => CacheInv'
  BY RunnerStepCache, GetStatusCache, OtherCache DEF StatusNext
<1>3. QED  BY InitCache, <1>1, <1>2, PTL DEF StatusSpec

\* Every field has its type.
THEOREM StatusTypeCorrect == StatusSpec => []StatusTypeOK
<1>1. CacheInv => StatusTypeOK
  BY DEF CacheInv
<1>2. QED  BY CacheInvariance, <1>1, PTL

\* What getStatus caches was read after the last invalidation, unless its
\* task is one that a later call joined.
THEOREM NotStale == StatusSpec => []StaleOnlyIfJoined
<1>1. CacheInv => StaleOnlyIfJoined
  BY DEF CacheInv, StaleOnlyIfJoined, StatusTypeOK, FreshEnough
<1>2. QED  BY CacheInvariance, <1>1, PTL
=============================================================================
