-------------------------- MODULE WorkerTaskRunner --------------------------
(***************************************************************************)
(* The pool of worker threads of the desktop application                   *)
(* (WorkerTaskRunner): tasks wait in a queue for one of a fixed number of  *)
(* slots, may share a run by their key or supersede one another, time out, *)
(* are aborted by a signal, or fail with their worker.                     *)
(*                                                                         *)
(* Every action is one callback of the event loop, up to and including the *)
(* `finally' of the promises it settles, which runs before the next one.   *)
(* Tasks are numbered in the order of the calls, which is the order of the *)
(* queue; slots are numbered by workerCounter, which is the order of the   *)
(* map workerSlots.  Results are posted by git-task-worker, which answers  *)
(* every task once: an answer to another task than the active one, which   *)
(* the runner ignores, would be from a thread that was told to end.        *)
(***************************************************************************)
EXTENDS Naturals, FiniteSets

CONSTANTS
    Key,         \* dedupe keys
    NoKey,
    Options,     \* options that callers pass
    Concurrency,
    MaxTasks,    \* bound: calls of runTask that make a task
    MaxWorkers,  \* bound: threads started
    MaxFaults    \* bound: threads that fail

Task == 1..MaxTasks
NoTask == 0
Worker == 1..MaxWorkers
NoWorker == 0

ASSUME RunnerAssumption ==
    /\ NoKey \notin Key
    /\ Options \subseteq [key : Key \cup {NoKey},
                          strategy : {"fifo", "coalesce", "latest-wins"},
                          signal : {"none", "live", "aborted"}]
    /\ Concurrency \in Nat \ {0}
    /\ MaxTasks \in Nat
    /\ MaxWorkers \in Nat
    /\ MaxFaults \in Nat

VARIABLES
    state,           \* state[t]: the promise of the task
    option,          \* option[t]: its options
    generation,      \* generation[t]
    queue,           \* tasks that wait for a slot
    workerSlots,
    active,          \* active[w]: activeTaskId of the slot
    terminating,     \* slots whose thread was told to end
    workerCounter,   \* threads started
    ended,           \* threads that have ended
    inFlightByKey,   \* inFlightByKey[k]: the task callers of k share
    generationByKey,
    disposed,        \* "no", "running" or "done"
    visiting,        \* the slot that dispose awaits
    faults

requests == <<option, generation>>
pool == <<workerSlots, active, terminating, workerCounter, ended>>
keys == <<inFlightByKey, generationByKey>>
runnerVars == <<state, requests, queue, pool, keys, disposed, visiting, faults>>

Outcome == {"resolved", "rejected"}
NoOption == [key |-> NoKey, strategy |-> "fifo", signal |-> "none"]

TypeOK ==
    /\ state \in [Task -> Outcome \cup {"unused", "pending"}]
    /\ option \in [Task -> Options \cup {NoOption}]
    /\ generation \in [Task -> Nat]
    /\ queue \subseteq Task
    /\ workerSlots \subseteq Worker
    /\ active \in [Worker -> Task \cup {NoTask}]
    /\ terminating \subseteq workerSlots
    /\ workerCounter \in 0..MaxWorkers
    /\ ended \subseteq Worker
    /\ inFlightByKey \in [Key -> Task \cup {NoTask}]
    /\ generationByKey \in [Key -> Nat]
    /\ disposed \in {"no", "running", "done"}
    /\ visiting \in Worker \cup {NoWorker}
    /\ faults \in Nat

Init ==
    /\ state = [t \in Task |-> "unused"]
    /\ option = [t \in Task |-> NoOption]
    /\ generation = [t \in Task |-> 0]
    /\ queue = {}
    /\ workerSlots = {}
    /\ active = [w \in Worker |-> NoTask]
    /\ terminating = {}
    /\ workerCounter = 0
    /\ ended = {}
    /\ inFlightByKey = [k \in Key |-> NoTask]
    /\ generationByKey = [k \in Key |-> 0]
    /\ disposed = "no"
    /\ visiting = NoWorker
    /\ faults = 0

\* The map of tasks: a task leaves it when its promise is settled.
Pending == {t \in Task : state[t] = "pending"}
Position(x, S) == Cardinality({y \in S : y < x})

Coalesces(o) == o.strategy = "coalesce" /\ o.key # NoKey
LatestWins(o) == o.strategy = "latest-wins" /\ o.key # NoKey
-----------------------------------------------------------------------------
(***************************************************************************)
(* The end of a callback.  Q, S and A are the queue, the slots and their   *)
(* tasks as it leaves them to drainQueue; ends, a function on tasks, says  *)
(* what becomes of them.                                                   *)
(***************************************************************************)
\* Slots that ensureWorkerCapacity adds.
Missing(S) ==
    {w \in (workerCounter + 1)..(workerCounter + Concurrency) :
       w + Cardinality(S \ terminating') <= workerCounter + Concurrency}

\* Every slot of F, in order, takes the first task of the queue; one whose
\* signal was aborted before the call is rejected and the slot stays free.
Taken(Q, F) == {t \in Q : Position(t, Q) < Cardinality(F)}
AbortedEarly(t) == option'[t].signal = "aborted"
Given(w, Q, F) == {t \in Taken(Q, F) : /\ w \in F
                                       /\ Position(w, F) = Position(t, Q)
                                       /\ ~AbortedEarly(t)}

\* The slots N are added, and the slots F take tasks.
Commit(Q, S, A, N, F, ends) ==
    /\ workerCounter' = workerCounter + Cardinality(N)
    /\ workerCounter' <= MaxWorkers
    /\ workerSlots' = S \cup N
    /\ queue' = Q \ Taken(Q, F)
    /\ active' = [w \in Worker |-> IF Given(w, Q, F) = {} THEN A[w]
                                   ELSE CHOOSE t \in Given(w, Q, F) : TRUE]
    /\ state' = [t \in Task |->
                   IF t \in Taken(Q, F) /\ AbortedEarly(t) THEN "rejected"
                   ELSE IF t \in DOMAIN ends THEN ends[t] ELSE state[t]]

Idle(S, A) == {w \in S : w \notin terminating' /\ A[w] = NoTask}

DrainQueue(Q, S, A, ends) ==
    LET N == IF disposed # "no" \/ Q = {} THEN {} ELSE Missing(S)
        F == IF disposed # "no" THEN {} ELSE Idle(S \cup N, A)
    IN  Commit(Q, S, A, N, F, ends)

\* mutant: the queue waits for the next call
RecoverNot(S, A, ends) == Commit(queue, S, A, {}, {}, ends)
\* After a slot was lost: capacity for the tasks that are left, whether or
\* not the runner is being disposed, and drainQueue.
Recover(S, A, ends) ==
    LET N == IF Pending \subseteq DOMAIN ends THEN {} ELSE Missing(S)
        F == IF disposed # "no" THEN {} ELSE Idle(S \cup N, A)
    IN  Commit(queue, S, A, N, F, ends)

\* mutant: the entry of a key outlives its task
FinallyNot(f, g) == inFlightByKey' = f /\ generationByKey' = g
\* The `finally' of the promises that the callback settled: entries of keys
\* that are still theirs are removed.
Finally(f, g) ==
    LET settled == {t \in Task : state'[t] \in Outcome /\ state[t] \notin Outcome}
    IN  /\ inFlightByKey' = [k \in Key |-> IF f[k] \in settled THEN NoTask ELSE f[k]]
        /\ generationByKey' =
             [k \in Key |-> IF \E t \in settled : /\ LatestWins(option'[t])
                                                  /\ option'[t].key = k
                                                  /\ generation'[t] = g[k]
                            THEN 0 ELSE g[k]]
-----------------------------------------------------------------------------
(***************************************************************************)
(* Callers.                                                                *)
(***************************************************************************)
Fresh(t) == state[t] = "unused" /\ \A u \in Task : u < t => state[u] # "unused"

\* A coalescing call that is given the promise of another one.
Joins(o) == Coalesces(o) /\ inFlightByKey[o.key] # NoTask

\* dropQueuedTasksByKey, whatever their own strategy.
Superseded(o) ==
    {u \in queue : LatestWins(o) /\ option[u].key = o.key}

\* runTask, when it makes a task.
RunTask(t, o) ==
    /\ disposed = "no" /\ Fresh(t) /\ ~Joins(o)
    /\ LET g == IF LatestWins(o)
                THEN [generationByKey EXCEPT ![o.key] = @ + 1]
                ELSE generationByKey
           f == IF LatestWins(o) \/ Coalesces(o)
                THEN [inFlightByKey EXCEPT ![o.key] = t] ELSE inFlightByKey
           dropped == Superseded(o)
       IN  /\ option' = [option EXCEPT ![t] = o]
           /\ generation' = [generation EXCEPT ![t] =
                               IF LatestWins(o) THEN g[o.key] ELSE 0]
           /\ terminating' = terminating
           /\ DrainQueue((queue \ dropped) \cup {t}, workerSlots, active,
                         [u \in dropped \cup {t} |->
                            IF u = t THEN "pending" ELSE "rejected"])
           /\ Finally(f, g)
    /\ UNCHANGED <<ended, disposed, visiting, faults>>

\* The task of a slot ends early and the thread is told to.
Retire(w, t) ==
    /\ terminating' = terminating \cup {w}
    /\ UNCHANGED <<requests, ended>>
    /\ Recover(workerSlots, [active EXCEPT ![w] = NoTask], [u \in {t} |-> "rejected"])
    /\ Finally(inFlightByKey, generationByKey)
    /\ UNCHANGED <<disposed, visiting, faults>>

\* mutant: a task that is rejected stays in the queue
AbortTaskQueued(t) ==
    /\ state[t] = "pending" /\ option[t].signal = "live" /\ t \in queue
    /\ UNCHANGED <<requests, terminating, ended>>
    /\ Commit(queue, workerSlots, active, {}, {}, [u \in {t} |-> "rejected"])
    /\ Finally(inFlightByKey, generationByKey)
    /\ UNCHANGED <<disposed, visiting, faults>>
\* abortTask, when the signal is aborted before the task is settled.
AbortTask(t) ==
    /\ state[t] = "pending" /\ option[t].signal = "live"
    /\ \/ \E w \in workerSlots : active[w] = t /\ Retire(w, t)
       \/ /\ t \in queue
          /\ UNCHANGED <<requests, terminating, ended>>
          /\ Commit(queue \ {t}, workerSlots, active, {}, {},
                    [u \in {t} |-> "rejected"])
          /\ Finally(inFlightByKey, generationByKey)
          /\ UNCHANGED <<disposed, visiting, faults>>
-----------------------------------------------------------------------------
(***************************************************************************)
(* Slots.                                                                  *)
(***************************************************************************)
\* What a result means for a task: one that a later request of its key has
\* overtaken is rejected.
Accepted(t, ok) ==
    ok /\ (LatestWins(option[t]) => generationByKey[option[t].key] = generation[t])

HandleWorkerMessage(w, ok) ==
    /\ w \in workerSlots \ ended /\ active[w] # NoTask
    /\ LET t == active[w] IN
       /\ UNCHANGED <<requests, terminating, ended>>
       /\ DrainQueue(queue, workerSlots, [active EXCEPT ![w] = NoTask],
                     [u \in {t} |-> IF Accepted(t, ok) THEN "resolved"
                                   ELSE "rejected"])
    /\ Finally(inFlightByKey, generationByKey)
    /\ UNCHANGED <<disposed, visiting, faults>>

\* mutant: the slot keeps the task that timed out
HandleTaskTimeoutKept(w) ==
    /\ w \in workerSlots /\ active[w] \in Pending
    /\ UNCHANGED <<requests, terminating, ended>>
    /\ Commit(queue, workerSlots, active, {}, {}, [u \in {active[w]} |-> "rejected"])
    /\ Finally(inFlightByKey, generationByKey)
    /\ UNCHANGED <<disposed, visiting, faults>>
\* handleTaskTimeout: the timer of a task starts when a slot takes it.
HandleTaskTimeout(w) ==
    /\ w \in workerSlots /\ active[w] # NoTask
    /\ Retire(w, active[w])

\* mutant: the slot is still taken for one that ends
HandleWorkerFailureMarked(w) ==
    LET ends == [u \in {active[w]} \ {NoTask} |-> "rejected"]
        A == [active EXCEPT ![w] = NoTask]
    IN  /\ w \in workerSlots \ ended
        /\ ended' = ended \cup {w}
        /\ terminating' = terminating
        /\ UNCHANGED requests
        /\ IF disposed = "no" THEN Recover(workerSlots \ {w}, A, ends)
           ELSE Commit(queue, workerSlots \ {w}, A, {}, {}, ends)
        /\ Finally(inFlightByKey, generationByKey)
        /\ UNCHANGED <<disposed, visiting>>
\* handleWorkerFailure.
HandleWorkerFailure(w) ==
    LET ends == [u \in {active[w]} \ {NoTask} |-> "rejected"]
        A == [active EXCEPT ![w] = NoTask]
    IN  /\ w \in workerSlots \ ended
        /\ ended' = ended \cup {w}
        /\ terminating' = terminating \ {w}
        /\ UNCHANGED requests
        /\ IF disposed = "no" THEN Recover(workerSlots \ {w}, A, ends)
           ELSE Commit(queue, workerSlots \ {w}, A, {}, {}, ends)
        /\ Finally(inFlightByKey, generationByKey)
        /\ UNCHANGED <<disposed, visiting>>

\* A thread fails, when it starts or later: "error", whose "exit" then finds
\* no slot.
WorkerError(w) ==
    /\ faults < MaxFaults
    /\ faults' = faults + 1
    /\ HandleWorkerFailure(w)

\* A thread that was told to ends: "exit", which is ignored once the runner
\* is disposed.
WorkerExit(w) ==
    /\ w \in terminating \ ended
    /\ IF disposed = "no" THEN HandleWorkerFailure(w)
       ELSE /\ ended' = ended \cup {w}
            /\ UNCHANGED <<state, requests, queue, workerSlots, active,
                           terminating, workerCounter, keys, disposed, visiting>>
    /\ UNCHANGED faults
-----------------------------------------------------------------------------
(***************************************************************************)
(* dispose.                                                                *)
(***************************************************************************)
\* mutant: threads are ended, and their tasks left to wait
VisitNextHolding(R) ==
    LET next == {w \in workerSlots : w > visiting /\
                   \A x \in workerSlots : x > visiting => w <= x}
        A == [w \in Worker |-> IF w \in next THEN NoTask ELSE active[w]]
    IN  /\ disposed' = IF next = {} THEN "done" ELSE "running"
        /\ visiting' = IF next = {} THEN visiting ELSE CHOOSE w \in next : TRUE
        /\ terminating' = IF next = {} THEN {} ELSE terminating \cup next
        /\ UNCHANGED <<requests, ended, faults>>
        /\ Commit({}, IF next = {} THEN {} ELSE workerSlots, A, {}, {},
                  [t \in R |-> "rejected"])
        /\ Finally(inFlightByKey, generationByKey)
\* The loop over the map goes on with its next slot, which may have been
\* added meanwhile; R are the queued tasks.
VisitNext(R) ==
    LET next == {w \in workerSlots : w > visiting /\
                   \A x \in workerSlots : x > visiting => w <= x}
        held == {active[w] : w \in next} \ {NoTask}
        ends == [t \in R \cup held |-> "rejected"]
        A == [w \in Worker |-> IF w \in next THEN NoTask ELSE active[w]]
    IN  /\ disposed' = IF next = {} THEN "done" ELSE "running"
        /\ visiting' = IF next = {} THEN visiting ELSE CHOOSE w \in next : TRUE
        /\ terminating' = IF next = {} THEN {} ELSE terminating \cup next
        /\ UNCHANGED <<requests, ended, faults>>
        /\ Commit({}, IF next = {} THEN {} ELSE workerSlots, A, {}, {}, ends)
        /\ Finally(inFlightByKey, generationByKey)

Dispose == disposed = "no" /\ VisitNext(queue)

DisposeGoesOn ==
    /\ disposed = "running" /\ visiting \in ended
    /\ VisitNext({})
-----------------------------------------------------------------------------
RunnerNext ==
    \/ \E t \in Task, o \in Options : RunTask(t, o)
    \/ \E t \in Task : AbortTask(t)
    \/ \E w \in Worker :
         \/ \E ok \in BOOLEAN : HandleWorkerMessage(w, ok)
         \/ HandleTaskTimeout(w)
         \/ WorkerError(w)
         \/ WorkerExit(w)
    \/ Dispose
    \/ DisposeGoesOn

Spec == Init /\ [][RunnerNext]_runnerVars

\* While timers are due or threads were told to end, some timer fires and
\* some thread ends; a worker that is at work may never answer.
Fairness ==
    /\ WF_runnerVars(\E w \in Worker : HandleTaskTimeout(w))
    /\ WF_runnerVars(\E w \in Worker : WorkerExit(w))
    /\ WF_runnerVars(DisposeGoesOn)
FairSpec == Spec /\ Fairness
-----------------------------------------------------------------------------
(***************************************************************************)
(* Properties.                                                             *)
(***************************************************************************)
\* A task that is not settled is in one place: it waits in the queue or one
\* slot, whose thread was not told to end, has it, and with it its timer.
Custody ==
    /\ queue \subseteq Pending
    /\ \A t \in Pending :
          t \notin queue => \E w \in workerSlots \ terminating : active[w] = t
    /\ \A w \in Worker : active[w] # NoTask =>
          /\ w \in workerSlots \ terminating
          /\ active[w] \in Pending \ queue
          /\ \A x \in Worker : active[x] = active[w] => x = w

\* Tasks wait only while every slot works, unless a call came with a signal
\* that was aborted already: such a task takes a turn and leaves it unused.
NothingStranded ==
    queue # {} /\ (\A t \in Task : option[t].signal # "aborted") =>
       /\ \A w \in workerSlots \ terminating : active[w] # NoTask
       /\ Cardinality(workerSlots \ terminating) = Concurrency

\* A caller that coalesces is given a promise that is not settled.
SharedIsPending ==
    \A k \in Key : inFlightByKey[k] # NoTask =>
       inFlightByKey[k] \in Pending /\ option[inFlightByKey[k]].key = k

\* When dispose returns, no task waits for an answer and no thread runs.
DisposeComplete ==
    disposed = "done" =>
       Pending = {} /\ \A w \in 1..workerCounter : w \in ended

\* Tasks do not wait for ever, with the proviso of NothingStranded.
Settles ==
    Pending # {} ~> (Pending = {} \/ \E t \in Task : option[t].signal = "aborted")
=============================================================================
