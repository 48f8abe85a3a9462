---------------------- MODULE WorkerTaskRunnerProofs ----------------------
(***************************************************************************)
(* Theorems about the pool of worker threads, for every number of slots,   *)
(* tasks and keys and every mix of options.                                *)
(***************************************************************************)
EXTENDS WorkerTaskRunner, FiniteSetTheorems, TLAPS

USE RunnerAssumption DEF requests, pool, keys, Task, NoTask, Worker, NoWorker

-----------------------------------------------------------------------------
(***************************************************************************)
(* Positions in a finite set of numbers: what pairs slots and tasks.       *)
(***************************************************************************)
LEMMA PositionType ==
  ASSUME NEW S \in SUBSET Nat, IsFiniteSet(S), NEW x \in Nat
  PROVE  Position(x, S) \in Nat
<1>1. {y \in S : y < x} \in SUBSET S
  OBVIOUS
<1>2. IsFiniteSet({y \in S : y < x})
  BY <1>1, FS_Subset
<1>3. QED  BY <1>2, FS_CardinalityType DEF Position

\* A set with an element more is larger.
LEMMA ProperSubset ==
  ASSUME NEW U, NEW V \in SUBSET U, IsFiniteSet(U), U # V
  PROVE  Cardinality(V) < Cardinality(U)
<1>1. /\ IsFiniteSet(V)
      /\ Cardinality(V) <= Cardinality(U)
      /\ Cardinality(U) # Cardinality(V)
  BY FS_Subset
<1>2. Cardinality(V) \in Nat /\ Cardinality(U) \in Nat
  BY <1>1, FS_CardinalityType
<1>3. QED  BY <1>1, <1>2

LEMMA PositionGrows ==
  ASSUME NEW S \in SUBSET Nat, IsFiniteSet(S), NEW x \in S, NEW y \in S, y < x
  PROVE  Position(y, S) < Position(x, S)
<1> DEFINE U == {z \in S : z < x}
           V == {z \in S : z < y}
<1>1. V \in SUBSET U
  <2>1. \A z \in S : z \in Nat
    OBVIOUS
  <2>2. \A z \in S : z < y => z < x
    BY <2>1
  <2>3. QED  BY <2>2
<1>2. y \in U /\ y \notin V
  OBVIOUS
<1>3. IsFiniteSet(U)
  <2>1. U \in SUBSET S
    OBVIOUS
  <2>2. QED  BY <2>1, FS_Subset
<1>4. U # V
  BY <1>2
<1> HIDE DEF U, V
<1>5. Cardinality(V) < Cardinality(U)
  BY <1>1, <1>3, <1>4, ProperSubset
<1>6. QED  BY <1>5 DEF Position, U, V

LEMMA PositionOne ==
  ASSUME NEW S \in SUBSET Nat, IsFiniteSet(S), NEW x \in S, NEW y \in S,
         Position(x, S) = Position(y, S)
  PROVE  x = y
<1>1. Position(x, S) \in Nat /\ Position(y, S) \in Nat
  BY PositionType
<1>2. CASE x < y
  BY <1>1, <1>2, PositionGrows
<1>3. CASE y < x
  BY <1>1, <1>3, PositionGrows
<1>4. QED  BY <1>2, <1>3

LEMMA PositionBound ==
  ASSUME NEW S \in SUBSET Nat, IsFiniteSet(S), NEW x \in S
  PROVE  Position(x, S) \in 0..(Cardinality(S) - 1)
<1> DEFINE V == {z \in S : z < x}
<1>1. V \in SUBSET S /\ S # V
  <2>1. x \notin V
    OBVIOUS
  <2>2. QED  BY <2>1
<1> HIDE DEF V
<1>2. Cardinality(V) < Cardinality(S)
  BY <1>1, ProperSubset
<1>3. Cardinality(V) = Position(x, S)
  BY DEF V, Position
<1>4. Cardinality(S) \in Nat
  BY FS_CardinalityType
<1>5. QED  BY <1>2, <1>3, <1>4, PositionType

\* Every position up to the size of the set is taken.
LEMMA PositionOnto ==
  ASSUME NEW S \in SUBSET Nat, IsFiniteSet(S), NEW k \in Nat, k < Cardinality(S)
  PROVE  \E x \in S : Position(x, S) = k
<1> DEFINE n == Cardinality(S) - 1
           T == 0..n
           f == [x \in S |-> Position(x, S)]
<1>1. Cardinality(S) \in Nat
  BY FS_CardinalityType
<1>2. IsFiniteSet(T) /\ Cardinality(T) = Cardinality(S)
  <2>1. n \in Int /\ 0 \in Int
    BY <1>1
  <2>2. n + 1 = Cardinality(S) /\ (0 > n => n + 1 = 0) /\ n - 0 + 1 = n + 1
    BY <1>1
  <2> HIDE DEF n
  <2>3. IsFiniteSet(T) /\ Cardinality(T) = IF 0 > n THEN 0 ELSE n - 0 + 1
    BY <2>1, FS_Interval
  <2>4. QED  BY <2>2, <2>3
<1>3. f \in Injection(S, T)
  <2>1. \A x \in S : f[x] \in T
    BY PositionBound
  <2>2. \A x, y \in S : f[x] = f[y] => x = y
    BY PositionOne
  <2>3. f \in [S -> T]
    BY <2>1
  <2> HIDE DEF f, T
  <2>4. QED  BY <2>2, <2>3 DEF Injection, IsInjective
<1>4. f \in Surjection(S, T)
  <2> HIDE DEF f, T
  <2>1. QED  BY <1>2, <1>3, FS_Injection
<1>5. k \in T
  BY <1>1
<1>6. \E x \in S : f[x] = k
  <2> HIDE DEF f, T
  <2>1. QED  BY <1>4, <1>5 DEF Surjection
<1>7. QED  BY <1>6

-----------------------------------------------------------------------------
(***************************************************************************)
(* The end of a callback.                                                  *)
(***************************************************************************)
LEMMA Finite ==
  ASSUME NEW S, S \in SUBSET Worker \/ S \in SUBSET Task
  PROVE  /\ IsFiniteSet(S)
         /\ Cardinality(S) \in Nat
         /\ S \in SUBSET Nat
<1>1. IsFiniteSet(Worker) /\ IsFiniteSet(Task)
  <2>1. 1 \in Int /\ MaxWorkers \in Int /\ MaxTasks \in Int
    OBVIOUS
  <2>2. QED  BY <2>1, FS_Interval
<1>2. IsFiniteSet(S)
  BY <1>1, FS_Subset
<1>3. Worker \subseteq Nat /\ Task \subseteq Nat
  OBVIOUS
<1>4. QED  BY <1>2, <1>3, FS_CardinalityType

\* The slots that are added are the next numbers.
LEMMA MissingSize ==
  ASSUME workerCounter \in Nat, NEW S \in SUBSET Worker
  PROVE  /\ Cardinality(Missing(S)) \in Nat
         /\ Missing(S) =
              (workerCounter + 1)..(workerCounter + Cardinality(Missing(S)))
         /\ Cardinality(S \ terminating') <= Concurrency =>
              Cardinality(Missing(S)) = Concurrency - Cardinality(S \ terminating')
<1> DEFINE k == Cardinality(S \ terminating')
           n == IF k <= Concurrency THEN Concurrency - k ELSE 0
<1>1. k \in Nat
  <2>1. (S \ terminating') \in SUBSET Worker
    OBVIOUS
  <2>2. QED  BY <2>1, Finite
<1>2. n \in Nat
  BY <1>1
<1>3. Missing(S) = (workerCounter + 1)..(workerCounter + n)
  <2>1. Missing(S) = {w \in (workerCounter + 1)..(workerCounter + Concurrency) :
                        w + k <= workerCounter + Concurrency}
    BY DEF Missing
  <2> HIDE DEF k
  <2>2. QED  BY <1>1, <2>1
<1> HIDE DEF n
<1>4. Cardinality((workerCounter + 1)..(workerCounter + n)) = n
  <2> DEFINE a == workerCounter + 1
             b == workerCounter + n
  <2>1. a \in Int /\ b \in Int /\ (a > b => n = 0) /\ b - a + 1 = n
    BY <1>2
  <2> HIDE DEF a, b
  <2>2. Cardinality(a..b) = IF a > b THEN 0 ELSE b - a + 1
    BY <2>1, FS_Interval
  <2>3. Cardinality(a..b) = n
    BY <2>1, <2>2
  <2>4. QED  BY <2>3 DEF a, b
<1>5. k <= Concurrency => n = Concurrency - k
  BY DEF n
<1>6. QED  BY <1>2, <1>3, <1>4, <1>5

LEMMA MissingNext ==
  ASSUME workerCounter \in Nat, NEW S \in SUBSET Worker
  PROVE  /\ Cardinality(Missing(S)) \in Nat
         /\ Missing(S) =
              (workerCounter + 1)..(workerCounter + Cardinality(Missing(S)))
  BY MissingSize, Zenon

\* What has become of a task before drainQueue.
Post(t, ends) == IF t \in DOMAIN ends THEN ends[t] ELSE state[t]

\* Types, and the numbers of the slots, after drainQueue.
Committed(Q, S, N, ends) ==
    /\ queue' \in SUBSET Q
    /\ workerCounter' \in 0..MaxWorkers
    /\ workerCounter <= workerCounter'
    /\ N = (workerCounter + 1)..workerCounter'
    /\ workerSlots' = S \cup N
    /\ workerSlots' \subseteq Worker
    /\ active' \in [Worker -> Task \cup {NoTask}]
    /\ state' \in [Task -> Outcome \cup {"unused", "pending"}]
    /\ \A t \in Task : state'[t] \in {"rejected", Post(t, ends)}

LEMMA CommitType ==
  ASSUME TypeOK,
         NEW Q \in SUBSET Task, NEW S \in SUBSET workerSlots,
         NEW A \in [Worker -> Task \cup {NoTask}],
         NEW N, NEW F, NEW ends,
         N = {} \/ N = Missing(S),
         \A t \in DOMAIN ends : ends[t] \in Outcome \cup {"pending"},
         Commit(Q, S, A, N, F, ends)
  PROVE  Committed(Q, S, N, ends)
<1>1. S \in SUBSET Worker /\ workerCounter \in 0..MaxWorkers
  BY DEF TypeOK
<1>2. Cardinality(N) \in Nat /\ N = (workerCounter + 1)..(workerCounter + Cardinality(N))
  <2>1. CASE N = {}
    <3>1. Cardinality(N) = 0
      BY <2>1, FS_EmptySet
    <3>2. QED  BY <1>1, <2>1, <3>1
  <2>2. CASE N = Missing(S)
    BY <1>1, <2>2, MissingNext
  <2>3. QED  BY <2>1, <2>2
<1>3. /\ workerCounter' = workerCounter + Cardinality(N)
      /\ workerCounter' <= MaxWorkers
      /\ workerSlots' = S \cup N
      /\ queue' = Q \ Taken(Q, F)
  BY DEF Commit
<1>4. /\ workerCounter' \in 0..MaxWorkers
      /\ workerCounter <= workerCounter'
      /\ N = (workerCounter + 1)..workerCounter'
  BY <1>1, <1>2, <1>3
<1>5. workerSlots' \subseteq Worker
  <2>1. ASSUME NEW w \in N  PROVE w \in Worker
    <3>1. w \in (workerCounter + 1)..workerCounter'
      BY <1>4
    <3>2. QED  BY <1>1, <1>4, <3>1
  <2>2. QED  BY <1>1, <1>3, <2>1
<1>6. active' \in [Worker -> Task \cup {NoTask}]
  <2>1. active' = [w \in Worker |-> IF Given(w, Q, F) = {} THEN A[w]
                                    ELSE CHOOSE t \in Given(w, Q, F) : TRUE]
    BY DEF Commit
  <2>2. ASSUME NEW w \in Worker
        PROVE  active'[w] \in Task \cup {NoTask}
    <3>1. Given(w, Q, F) \in SUBSET Task
      BY DEF Given, Taken
    <3>2. CASE Given(w, Q, F) = {}
      BY <2>1, <3>2
    <3>3. CASE Given(w, Q, F) # {}
      <4>1. (CHOOSE t \in Given(w, Q, F) : TRUE) \in Given(w, Q, F)
        BY <3>3
      <4>2. QED  BY <2>1, <3>1, <3>3, <4>1
    <3>4. QED  BY <3>2, <3>3
  <2>3. QED  BY <2>1, <2>2
<1>7. /\ state' \in [Task -> Outcome \cup {"unused", "pending"}]
      /\ \A t \in Task : state'[t] \in {"rejected", Post(t, ends)}
  <2>1. state' = [t \in Task |->
                   IF t \in Taken(Q, F) /\ AbortedEarly(t) THEN "rejected"
                   ELSE Post(t, ends)]
    BY DEF Commit, Post
  <2>2. \A t \in Task : Post(t, ends) \in Outcome \cup {"unused", "pending"}
    BY DEF Post, TypeOK
  <2>3. "rejected" \in Outcome
    BY DEF Outcome
  <2>4. QED  BY <2>1, <2>2, <2>3
<1>8. queue' \in SUBSET Q
  BY <1>3
<1>9. QED  BY <1>3, <1>4, <1>5, <1>6, <1>7, <1>8 DEF Committed

\* The slots that are there, and the ones that visiting has passed.
Numbered ==
    /\ visiting <= workerCounter
    /\ \A w \in workerSlots : w <= workerCounter
    /\ \A w \in workerSlots : w <= visiting => active[w] = NoTask
    /\ \A w \in 1..workerCounter : w \in workerSlots \cup ended
    /\ \A w \in workerSlots : w < visiting => w \in ended

\* A runner that is being disposed takes no more tasks.
Closed ==
    /\ disposed = "no" => visiting = NoWorker
    /\ disposed # "no" => queue = {}
    /\ disposed = "done" => workerSlots = {}

IInv == TypeOK /\ Custody /\ SharedIsPending /\ Numbered /\ Closed

\* What a callback owes to drainQueue: the queue Q and the slots S with their
\* tasks A have custody of what is pending.
CustodyBefore(Q, S, A, ends) ==
    /\ \A t \in Q : Post(t, ends) = "pending"
    /\ \A t \in Task \ Q : Post(t, ends) = "pending" =>
          \E w \in S \ terminating' : A[w] = t
    /\ \A w \in Worker : A[w] # NoTask =>
          /\ w \in S \ terminating'
          /\ A[w] \notin Q
          /\ Post(A[w], ends) = "pending"
          /\ \A x \in Worker : A[x] = A[w] => x = w

\* Then they have it afterwards.
LEMMA CommitCustody ==
  ASSUME TypeOK, \A w \in workerSlots : w <= workerCounter,
         NEW Q \in SUBSET Task, NEW S \in SUBSET workerSlots,
         NEW A \in [Worker -> Task \cup {NoTask}],
         NEW N, NEW F, NEW ends,
         N = {} \/ N = Missing(S),
         F = {} \/ F = Idle(S \cup N, A),
         \A t \in DOMAIN ends : ends[t] \in Outcome \cup {"pending"},
         terminating' \subseteq workerSlots,
         CustodyBefore(Q, S, A, ends),
         Commit(Q, S, A, N, F, ends)
  PROVE  Custody'
<1> USE DEF CustodyBefore
<1>1. /\ N = (workerCounter + 1)..workerCounter'
      /\ workerCounter \in Nat /\ workerCounter' \in Nat
      /\ workerSlots' = S \cup N
      /\ workerSlots' \subseteq Worker
  <2>1. Committed(Q, S, N, ends)
    BY CommitType
  <2>2. workerCounter \in 0..MaxWorkers
    BY DEF TypeOK
  <2>3. QED  BY <2>1, <2>2 DEF Committed
<1>2. /\ queue' = Q \ Taken(Q, F)
      /\ active' = [w \in Worker |-> IF Given(w, Q, F) = {} THEN A[w]
                                     ELSE CHOOSE t \in Given(w, Q, F) : TRUE]
      /\ state' = [t \in Task |->
                     IF t \in Taken(Q, F) /\ AbortedEarly(t) THEN "rejected"
                     ELSE Post(t, ends)]
  BY DEF Commit, Post
<1>3. N \cap terminating' = {}
  <2>1. ASSUME NEW w \in N, w \in terminating'  PROVE FALSE
    <3>1. w <= workerCounter
      BY <2>1
    <3>2. w \in (workerCounter + 1)..workerCounter'
      BY <1>1
    <3>3. QED  BY <1>1, <3>1, <3>2
  <2>2. QED  BY <2>1
<1>4. F \subseteq workerSlots' \ terminating' /\ \A w \in F : A[w] = NoTask
  BY <1>1 DEF Idle
<1>5. /\ IsFiniteSet(F) /\ Cardinality(F) \in Nat /\ F \in SUBSET Nat
      /\ IsFiniteSet(Q) /\ Cardinality(Q) \in Nat /\ Q \in SUBSET Nat
  <2>1. F \in SUBSET Worker /\ Q \in SUBSET Task
    BY <1>1, <1>4
  <2>2. QED  BY <2>1, Finite
<1>6. Taken(Q, F) \subseteq Q
  BY DEF Taken
\* A slot is given one task at most.
<1>7. ASSUME NEW w \in Worker, NEW t \in Given(w, Q, F)
      PROVE  /\ Given(w, Q, F) = {t}
             /\ active'[w] = t
             /\ w \in F /\ t \in Taken(Q, F) /\ ~AbortedEarly(t)
             /\ Position(w, F) = Position(t, Q)
  <2>1. \A u \in Given(w, Q, F) : u \in Q /\ Position(u, Q) = Position(w, F)
    BY <1>6 DEF Given
  <2>2. \A u \in Given(w, Q, F) : u = t
    BY <1>5, <2>1, PositionOne
  <2>3. Given(w, Q, F) = {t}
    BY <2>2
  <2>4. QED  BY <1>2, <2>3 DEF Given
<1>8. ASSUME NEW w \in Worker, Given(w, Q, F) = {}
      PROVE  active'[w] = A[w]
  BY <1>2, <1>8
\* A task that is taken is given to a slot.
<1>9. ASSUME NEW t \in Taken(Q, F), ~AbortedEarly(t)
      PROVE  \E w \in F : t \in Given(w, Q, F)
  <2>1. Position(t, Q) < Cardinality(F) /\ Position(t, Q) \in Nat
    BY <1>5, <1>6, PositionType DEF Taken
  <2>2. PICK w \in F : Position(w, F) = Position(t, Q)
    BY <1>5, <2>1, PositionOnto
  <2>3. t \in Given(w, Q, F)
    BY <1>9, <2>2 DEF Given
  <2>4. QED  BY <2>3
<1>10. queue' \subseteq Pending'
  <2>1. ASSUME NEW t \in queue'  PROVE t \in Task /\ state'[t] = "pending"
    BY <1>2, <2>1
  <2>2. QED  BY <2>1 DEF Pending
<1>11. ASSUME NEW t \in Pending', t \notin queue'
       PROVE  \E w \in workerSlots' \ terminating' : active'[w] = t
  <2>1. t \in Task /\ state'[t] = "pending"
    BY DEF Pending
  <2>2. CASE t \in Taken(Q, F)
    <3>1. ~AbortedEarly(t)
      BY <1>2, <2>1, <2>2
    <3>2. PICK w \in F : t \in Given(w, Q, F)
      BY <1>9, <2>2, <3>1
    <3>3. w \in Worker
      BY <1>1, <1>4
    <3>4. active'[w] = t
      BY <1>7, <3>2, <3>3
    <3>5. QED  BY <1>4, <3>4
  <2>3. CASE t \notin Taken(Q, F)
    <3>1. t \notin Q /\ Post(t, ends) = "pending"
      BY <1>2, <1>11, <2>1, <2>3
    <3>2. PICK w \in S \ terminating' : A[w] = t
      BY <2>1, <3>1
    <3>3. w \in Worker /\ w \in workerSlots' \ terminating'
      BY <1>1
    <3>4. Given(w, Q, F) = {}
      <4>1. A[w] # NoTask
        BY <2>1, <3>2
      <4>2. w \notin F
        BY <1>4, <4>1
      <4>3. QED  BY <4>2 DEF Given
    <3>5. QED  BY <1>8, <3>2, <3>3, <3>4
  <2>4. QED  BY <2>2, <2>3
<1>12. ASSUME NEW w \in Worker, active'[w] # NoTask
       PROVE  /\ w \in workerSlots' \ terminating'
              /\ active'[w] \in Pending' \ queue'
              /\ \A x \in Worker : active'[x] = active'[w] => x = w
  <2>1. CASE Given(w, Q, F) = {}
    <3>1. active'[w] = A[w] /\ A[w] # NoTask /\ A[w] \in Task
      BY <1>8, <1>12, <2>1
    <3>2. /\ w \in S \ terminating'
          /\ A[w] \notin Q
          /\ Post(A[w], ends) = "pending"
          /\ \A x \in Worker : A[x] = A[w] => x = w
      BY <3>1
    <3>3. active'[w] \in Pending' \ queue'
      <4>1. A[w] \notin Taken(Q, F) /\ A[w] \notin queue'
        BY <1>2, <1>6, <3>2
      <4>2. state'[A[w]] = "pending"
        BY <1>2, <3>1, <3>2, <4>1
      <4>3. QED  BY <3>1, <4>1, <4>2 DEF Pending
    <3>4. ASSUME NEW x \in Worker, active'[x] = active'[w]  PROVE x = w
      <4>1. CASE Given(x, Q, F) = {}
        BY <1>8, <3>1, <3>2, <3>4, <4>1
      <4>2. CASE Given(x, Q, F) # {}
        <5>1. PICK u \in Given(x, Q, F) : TRUE
          BY <4>2
        <5>2. active'[x] = u /\ u \in Q
          BY <1>6, <1>7, <5>1
        <5>3. QED  BY <3>1, <3>2, <3>4, <5>2
      <4>3. QED  BY <4>1, <4>2
    <3>5. QED  BY <1>1, <3>2, <3>3, <3>4
  <2>2. CASE Given(w, Q, F) # {}
    <3>1. PICK t \in Given(w, Q, F) : TRUE
      BY <2>2
    <3>2. /\ active'[w] = t /\ w \in F /\ t \in Taken(Q, F) /\ ~AbortedEarly(t)
          /\ Position(w, F) = Position(t, Q)
      BY <1>7, <3>1
    <3>3. t \in Q /\ t \in Task /\ t # NoTask
      <4>1. t \in Q /\ t \in Task
        BY <1>6, <3>2
      <4>2. \A u \in Task : u # NoTask
        OBVIOUS
      <4>3. QED  BY <4>1, <4>2
    <3>4. active'[w] \in Pending' \ queue'
      <4>1. state'[t] = "pending"
        BY <1>2, <3>2, <3>3
      <4>2. t \notin queue'
        BY <1>2, <3>2
      <4>3. QED  BY <3>2, <3>3, <4>1, <4>2 DEF Pending
    <3>5. ASSUME NEW x \in Worker, active'[x] = active'[w]  PROVE x = w
      <4>1. CASE Given(x, Q, F) = {}
        <5>1. A[x] = t
          BY <1>8, <3>2, <3>5, <4>1
        <5>2. QED  BY <3>3, <5>1
      <4>2. CASE Given(x, Q, F) # {}
        <5>1. PICK u \in Given(x, Q, F) : TRUE
          BY <4>2
        <5>2. /\ u = t /\ x \in F /\ Position(x, F) = Position(u, Q)
          BY <1>7, <3>2, <3>5, <5>1
        <5>3. QED  BY <1>5, <3>2, <5>2, PositionOne
      <4>3. QED  BY <4>1, <4>2
    <3>6. QED  BY <1>4, <3>2, <3>4, <3>5
  <2>3. QED  BY <2>1, <2>2
<1>13. QED  BY <1>10, <1>11, <1>12 DEF Custody

LEMMA FinallyShared ==
  ASSUME NEW f \in [Key -> Task \cup {NoTask}], NEW g \in [Key -> Nat],
         \A k \in Key : f[k] # NoTask =>
            /\ state[f[k]] \notin Outcome
            /\ state'[f[k]] \in Outcome \cup {"pending"}
            /\ option'[f[k]].key = k,
         Finally(f, g)
  PROVE  /\ SharedIsPending'
         /\ inFlightByKey' \in [Key -> Task \cup {NoTask}]
         /\ generationByKey' \in [Key -> Nat]
<1> DEFINE settled == {t \in Task : state'[t] \in Outcome /\ state[t] \notin Outcome}
<1>1. inFlightByKey' = [k \in Key |-> IF f[k] \in settled THEN NoTask ELSE f[k]]
  BY DEF Finally
<1>2. generationByKey' \in [Key -> Nat]
  BY DEF Finally
<1>3. ASSUME NEW k \in Key, inFlightByKey'[k] # NoTask
      PROVE  inFlightByKey'[k] \in Pending' /\ option'[inFlightByKey'[k]].key = k
  <2>1. inFlightByKey'[k] = f[k] /\ f[k] \notin settled /\ f[k] \in Task /\ f[k] # NoTask
    BY <1>1, <1>3
  <2>2. state'[f[k]] = "pending"
    BY <2>1
  <2>3. QED  BY <2>1, <2>2 DEF Pending
<1>4. inFlightByKey' \in [Key -> Task \cup {NoTask}]
  BY <1>1
<1>5. QED  BY <1>2, <1>3, <1>4 DEF SharedIsPending

LEMMA CommitNumbered ==
  ASSUME TypeOK, Numbered,
         NEW Q \in SUBSET Task, NEW S \in SUBSET workerSlots,
         NEW A \in [Worker -> Task \cup {NoTask}],
         NEW N, NEW F, NEW ends,
         N = {} \/ N = Missing(S),
         F = {} \/ visiting = NoWorker,
         \A t \in DOMAIN ends : ends[t] \in Outcome \cup {"pending"},
         \A w \in S : A[w] \in {active[w], NoTask},
         ended \subseteq ended', workerSlots \ S \subseteq ended',
         visiting' = visiting,
         Commit(Q, S, A, N, F, ends)
  PROVE  Numbered'
<1>1. /\ N = (workerCounter + 1)..workerCounter'
      /\ workerCounter' \in 0..MaxWorkers
      /\ workerCounter <= workerCounter'
      /\ workerSlots' = S \cup N
      /\ workerSlots' \subseteq Worker
  <2>1. Committed(Q, S, N, ends)
    BY CommitType
  <2>2. QED  BY <2>1 DEF Committed
<1>2. workerCounter \in 0..MaxWorkers /\ visiting \in Worker \cup {NoWorker}
  BY DEF TypeOK
<1>3. visiting' <= workerCounter'
  BY <1>1, <1>2 DEF Numbered
<1>4. \A w \in N : workerCounter < w /\ w <= workerCounter' /\ visiting < w
  BY <1>1, <1>2 DEF Numbered
<1>5. \A w \in workerSlots' : w <= workerCounter'
  BY <1>1, <1>2, <1>4 DEF Numbered
<1>6. ASSUME NEW w \in workerSlots', w <= visiting'  PROVE active'[w] = NoTask
  <2>1. w \in Worker /\ w \notin N /\ w \in S
    <3>1. w \in Worker /\ w \in S \cup N
      BY <1>1
    <3>2. w \notin N
      <4>1. w \in Nat /\ visiting \in Nat /\ w <= visiting
        BY <1>2, <1>6, <3>1
      <4>2. QED  BY <1>4, <4>1
    <3>3. QED  BY <3>1, <3>2
  <2>2. visiting # NoWorker
    BY <1>2, <1>6, <2>1
  <2>3. Given(w, Q, F) = {}
    BY <2>2 DEF Given
  <2>4. active'[w] = A[w]
    BY <2>1, <2>3 DEF Commit
  <2>5. QED  BY <1>6, <2>1, <2>4 DEF Numbered
<1>7. ASSUME NEW w \in 1..workerCounter'  PROVE w \in workerSlots' \cup ended'
  <2>1. CASE w <= workerCounter
    <3>1. w \in 1..workerCounter
      BY <1>1, <1>2, <2>1
    <3>2. QED  BY <1>1, <3>1 DEF Numbered
  <2>2. CASE workerCounter < w
    <3>1. w \in N
      BY <1>1, <1>2, <2>2
    <3>2. QED  BY <1>1, <3>1
  <2>3. QED  BY <1>1, <1>2, <2>1, <2>2
<1>8. ASSUME NEW w \in workerSlots', w < visiting'  PROVE w \in ended'
  <2>1. w \notin N /\ w \in S
    BY <1>1, <1>2, <1>4, <1>8
  <2>2. QED  BY <1>8, <2>1 DEF Numbered
<1>9. QED  BY <1>3, <1>5, <1>6, <1>7, <1>8 DEF Numbered

\* The keys of f share tasks that were not settled before the callback.
SharedBefore(f, ends) ==
    \A k \in Key : f[k] # NoTask =>
       /\ state[f[k]] \notin Outcome
       /\ Post(f[k], ends) \in Outcome \cup {"pending"}
       /\ option'[f[k]].key = k

TypesBefore(Q, S, A, N, F, ends, f, g) ==
    /\ Q \in SUBSET Task
    /\ S \in SUBSET workerSlots
    /\ A \in [Worker -> Task \cup {NoTask}]
    /\ N = {} \/ N = Missing(S)
    /\ F = {} \/ (disposed = "no" /\ F = Idle(S \cup N, A))
    /\ \A t \in DOMAIN ends : ends[t] \in Outcome \cup {"pending"}
    /\ \A w \in S : A[w] \in {active[w], NoTask}
    /\ f \in [Key -> Task \cup {NoTask}]
    /\ g \in [Key -> Nat]

RestBefore(Q, S) ==
    /\ option' \in [Task -> Options \cup {NoOption}]
    /\ generation' \in [Task -> Nat]
    /\ terminating' \subseteq S
    /\ ended \subseteq ended' /\ ended' \subseteq Worker
    /\ workerSlots \ S \subseteq ended'
    /\ disposed # "done"
    /\ disposed # "no" => Q = {}
    /\ UNCHANGED <<disposed, visiting>>
    /\ faults' \in Nat

\* Such a callback keeps the invariant.
LEMMA CallbackStep ==
  ASSUME IInv, NEW Q, NEW S, NEW A, NEW N, NEW F, NEW ends, NEW f, NEW g,
         TypesBefore(Q, S, A, N, F, ends, f, g), RestBefore(Q, S),
         CustodyBefore(Q, S, A, ends), SharedBefore(f, ends),
         Commit(Q, S, A, N, F, ends), Finally(f, g)
  PROVE  IInv'
<1> USE DEF TypesBefore, RestBefore, SharedBefore
<1>1. TypeOK /\ Numbered /\ Closed /\ SharedIsPending
  BY DEF IInv
<1>2. /\ queue' \in SUBSET Q
      /\ workerCounter' \in 0..MaxWorkers
      /\ workerSlots' = S \cup N
      /\ workerSlots' \subseteq Worker
      /\ active' \in [Worker -> Task \cup {NoTask}]
      /\ state' \in [Task -> Outcome \cup {"unused", "pending"}]
      /\ \A t \in Task : state'[t] \in {"rejected", Post(t, ends)}
  <2>1. Committed(Q, S, N, ends)
    BY <1>1, CommitType
  <2>2. QED  BY <2>1 DEF Committed
<1>3. F = {} \/ visiting = NoWorker
  BY <1>1 DEF Closed
<1>4. Custody'
  <2>1. F = {} \/ F = Idle(S \cup N, A)
    OBVIOUS
  <2>2. terminating' \subseteq workerSlots /\ \A w \in workerSlots : w <= workerCounter
    BY <1>1 DEF Numbered
  <2>3. QED  BY <1>1, <2>1, <2>2, CommitCustody
<1>5. /\ SharedIsPending'
      /\ inFlightByKey' \in [Key -> Task \cup {NoTask}]
      /\ generationByKey' \in [Key -> Nat]
  <2>1. ASSUME NEW k \in Key, f[k] # NoTask
        PROVE  state'[f[k]] \in Outcome \cup {"pending"}
    <3>1. f[k] \in Task
      BY <2>1
    <3>2. QED  BY <1>2, <2>1, <3>1 DEF Outcome
  <2>2. QED  BY <2>1, FinallyShared
<1>6. Numbered'
  BY <1>1, <1>3, CommitNumbered
<1>7. Closed'
  BY <1>1, <1>2 DEF Closed
<1>8. TypeOK'
  BY <1>1, <1>2, <1>5 DEF TypeOK
<1>9. QED  BY <1>4, <1>5, <1>6, <1>7, <1>8 DEF IInv

-----------------------------------------------------------------------------
(***************************************************************************)
(* The actions.                                                            *)
(***************************************************************************)
LEMMA PendingBasics ==
  ASSUME IInv
  PROVE  /\ \A t \in Task : t \in Pending <=> state[t] = "pending"
         /\ queue \subseteq Pending
         /\ \A t \in Pending : t \notin queue =>
               \E w \in workerSlots \ terminating : active[w] = t
         /\ \A w \in Worker : active[w] # NoTask =>
               /\ w \in workerSlots \ terminating
               /\ active[w] \in Pending \ queue
               /\ \A x \in Worker : active[x] = active[w] => x = w
         /\ \A k \in Key : inFlightByKey[k] # NoTask =>
               inFlightByKey[k] \in Pending /\ option[inFlightByKey[k]].key = k
  BY DEF IInv, Custody, SharedIsPending, Pending

LEMMA RunTaskStep ==
  ASSUME IInv, NEW t \in Task, NEW o \in Options, RunTask(t, o)
  PROVE  IInv'
<1> DEFINE g == IF LatestWins(o)
                THEN [generationByKey EXCEPT ![o.key] = @ + 1]
                ELSE generationByKey
           f == IF LatestWins(o) \/ Coalesces(o)
                THEN [inFlightByKey EXCEPT ![o.key] = t] ELSE inFlightByKey
           dropped == Superseded(o)
           Q == (queue \ dropped) \cup {t}
           ends == [u \in dropped \cup {t} |-> IF u = t THEN "pending" ELSE "rejected"]
           N == IF disposed # "no" \/ Q = {} THEN {} ELSE Missing(workerSlots)
           F == IF disposed # "no" THEN {} ELSE Idle(workerSlots \cup N, active)
<1>1. /\ disposed = "no" /\ state[t] = "unused"
      /\ option' = [option EXCEPT ![t] = o]
      /\ generation' = [generation EXCEPT ![t] = IF LatestWins(o) THEN g[o.key] ELSE 0]
      /\ terminating' = terminating
      /\ Commit(Q, workerSlots, active, N, F, ends)
      /\ Finally(f, g)
      /\ UNCHANGED <<ended, disposed, visiting, faults>>
  BY DEF RunTask, Fresh, DrainQueue
<1>2. TypeOK
  BY DEF IInv
<1>3. o.key \in Key \cup {NoKey} /\ (LatestWins(o) \/ Coalesces(o) => o.key \in Key)
  BY DEF LatestWins, Coalesces
<1>4. /\ g \in [Key -> Nat]
      /\ f \in [Key -> Task \cup {NoTask}]
      /\ \A k \in Key : f[k] = inFlightByKey[k] \/ (f[k] = t /\ k = o.key)
  BY <1>2, <1>3 DEF TypeOK
<1>5. /\ option' \in [Task -> Options \cup {NoOption}]
      /\ generation' \in [Task -> Nat]
  BY <1>1, <1>2, <1>3, <1>4 DEF TypeOK
<1>6. dropped \subseteq queue /\ queue \subseteq Task /\ t \notin Pending
  BY <1>1, <1>2 DEF Superseded, TypeOK, Pending
<1>7. /\ Post(t, ends) = "pending"
      /\ \A u \in dropped : Post(u, ends) = "rejected"
      /\ \A u \in Task : u # t /\ u \notin dropped => Post(u, ends) = state[u]
      /\ \A u \in DOMAIN ends : ends[u] \in Outcome \cup {"pending"}
  BY <1>6, PendingBasics DEF Post, Outcome
<1> HIDE DEF ends, dropped
<1>8. \A u \in Q : Post(u, ends) = "pending"
  BY <1>6, <1>7, PendingBasics
<1>9. \A u \in Task \ Q : Post(u, ends) = "pending" =>
         \E w \in workerSlots \ terminating' : active[w] = u
  BY <1>1, <1>6, <1>7, PendingBasics
<1>10. \A w \in Worker : active[w] # NoTask =>
         /\ w \in workerSlots \ terminating'
         /\ active[w] \notin Q
         /\ Post(active[w], ends) = "pending"
         /\ \A x \in Worker : active[x] = active[w] => x = w
  <2>1. ASSUME NEW w \in Worker, active[w] # NoTask
        PROVE  /\ active[w] \notin Q
               /\ Post(active[w], ends) = "pending"
    <3>1. active[w] \in Pending \ queue /\ active[w] \in Task
      BY <2>1, PendingBasics DEF Pending
    <3>2. QED  BY <1>6, <1>7, <3>1, PendingBasics
  <2>2. QED  BY <1>1, <2>1, PendingBasics
<1>11. \A k \in Key : f[k] # NoTask =>
          /\ state[f[k]] \notin Outcome
          /\ Post(f[k], ends) \in Outcome \cup {"pending"}
          /\ option'[f[k]].key = k
  <2>1. ASSUME NEW k \in Key, f[k] # NoTask
        PROVE  /\ state[f[k]] \notin Outcome
               /\ Post(f[k], ends) \in Outcome \cup {"pending"}
               /\ option'[f[k]].key = k
    <3>1. CASE f[k] = t /\ k = o.key
      BY <1>1, <1>2, <1>7, <3>1 DEF Outcome, TypeOK
    <3>2. CASE f[k] = inFlightByKey[k] /\ f[k] # t
      <4>1. f[k] \in Pending /\ f[k] \in Task /\ option[f[k]].key = k
        BY <2>1, <3>2, PendingBasics DEF Pending
      <4>2. state[f[k]] = "pending" /\ option'[f[k]].key = k
        BY <1>1, <1>2, <3>2, <4>1, PendingBasics DEF TypeOK
      <4>3. Post(f[k], ends) \in {"pending", "rejected"}
        BY <1>7, <3>2, <4>1, <4>2
      <4>4. QED  BY <4>2, <4>3 DEF Outcome
    <3>3. inFlightByKey[k] # t
      <4>1. t # NoTask
        OBVIOUS
      <4>2. QED  BY <1>6, <4>1, PendingBasics
    <3>4. QED  BY <1>4, <3>1, <3>2, <3>3
  <2>2. QED  BY <2>1
<1>12. CustodyBefore(Q, workerSlots, active, ends) /\ SharedBefore(f, ends)
  BY <1>8, <1>9, <1>10, <1>11 DEF CustodyBefore, SharedBefore
<1>13. TypesBefore(Q, workerSlots, active, N, F, ends, f, g)
  <2>1. Q \in SUBSET Task /\ active \in [Worker -> Task \cup {NoTask}]
    BY <1>2, <1>6 DEF TypeOK
  <2>2. N = {} \/ N = Missing(workerSlots)
    OBVIOUS
  <2>3. F = {} \/ (disposed = "no" /\ F = Idle(workerSlots \cup N, active))
    BY <1>1
  <2> HIDE DEF f, g, Q, N, F
  <2>4. QED  BY <1>4, <1>7, <2>1, <2>2, <2>3 DEF TypesBefore
<1>14. RestBefore(Q, workerSlots)
  BY <1>1, <1>2, <1>5 DEF RestBefore, TypeOK
<1> HIDE DEF f, g, Q, N, F
<1>15. QED
  BY <1>1, <1>12, <1>13, <1>14, CallbackStep

\* The other callbacks settle tasks and release their slots.
LEMMA CustodyKept ==
  ASSUME IInv, NEW Q \in SUBSET queue, NEW S, NEW A, NEW ends,
         \A t \in DOMAIN ends : ends[t] \in Outcome,
         Q \cap DOMAIN ends = {}, queue \ Q \subseteq DOMAIN ends,
         \A w \in Worker : A[w] = NoTask =>
            active[w] = NoTask \/ active[w] \in DOMAIN ends,
         \A w \in Worker : A[w] # NoTask =>
            A[w] = active[w] /\ w \in S \ terminating' /\ A[w] \notin DOMAIN ends
  PROVE  CustodyBefore(Q, S, A, ends)
<1>1. queue \subseteq Task /\ workerSlots \subseteq Worker
  BY DEF IInv, TypeOK
<1>2. \A t \in Task : Post(t, ends) = "pending" <=>
         t \notin DOMAIN ends /\ state[t] = "pending"
  BY DEF Post, Outcome
<1>3. \A t \in Q : Post(t, ends) = "pending"
  BY <1>1, <1>2, PendingBasics
<1>4. ASSUME NEW t \in Task \ Q, Post(t, ends) = "pending"
      PROVE  \E w \in S \ terminating' : A[w] = t
  <2>1. t \notin DOMAIN ends /\ t \in Pending /\ t \notin queue
    BY <1>2, <1>4, PendingBasics
  <2>2. PICK w \in workerSlots : active[w] = t
    BY <2>1, PendingBasics
  <2>3. w \in Worker /\ t # NoTask
    BY <1>1, <2>2
  <2>4. A[w] # NoTask
    BY <2>1, <2>2, <2>3
  <2>5. QED  BY <2>2, <2>3, <2>4
<1>5. ASSUME NEW w \in Worker, A[w] # NoTask
      PROVE  /\ w \in S \ terminating'
             /\ A[w] \notin Q
             /\ Post(A[w], ends) = "pending"
             /\ \A x \in Worker : A[x] = A[w] => x = w
  <2>1. /\ A[w] = active[w] /\ w \in S \ terminating' /\ A[w] \notin DOMAIN ends
        /\ active[w] # NoTask
    BY <1>5
  <2>2. /\ active[w] \in Pending \ queue /\ active[w] \in Task
        /\ \A x \in Worker : active[x] = active[w] => x = w
    BY <2>1, PendingBasics DEF Pending
  <2>3. Post(A[w], ends) = "pending"
    BY <1>2, <2>1, <2>2, PendingBasics
  <2>4. \A x \in Worker : A[x] = A[w] => x = w
    BY <1>5, <2>1, <2>2
  <2>5. QED  BY <2>1, <2>2, <2>3, <2>4
<1>6. QED  BY <1>3, <1>4, <1>5 DEF CustodyBefore

LEMMA SharedKept ==
  ASSUME IInv, option' = option, NEW ends,
         \A t \in DOMAIN ends : ends[t] \in Outcome
  PROVE  SharedBefore(inFlightByKey, ends)
<1>1. SUFFICES ASSUME NEW k \in Key, inFlightByKey[k] # NoTask
               PROVE  /\ state[inFlightByKey[k]] \notin Outcome
                      /\ Post(inFlightByKey[k], ends) \in Outcome \cup {"pending"}
                      /\ option'[inFlightByKey[k]].key = k
  BY DEF SharedBefore
<1>2. state[inFlightByKey[k]] = "pending" /\ option[inFlightByKey[k]].key = k
  BY <1>1, PendingBasics DEF Pending
<1>3. QED  BY <1>2 DEF Post, Outcome

LEMMA RetireStep ==
  ASSUME IInv, NEW w \in workerSlots, active[w] # NoTask, Retire(w, active[w])
  PROVE  IInv'
<1> DEFINE ends == [u \in {active[w]} |-> "rejected"]
           A == [active EXCEPT ![w] = NoTask]
           N == IF Pending \subseteq DOMAIN ends THEN {} ELSE Missing(workerSlots)
           F == IF disposed # "no" THEN {} ELSE Idle(workerSlots \cup N, A)
<1>1. /\ terminating' = terminating \cup {w}
      /\ UNCHANGED <<option, generation, ended, disposed, visiting, faults>>
      /\ Commit(queue, workerSlots, A, N, F, ends)
      /\ Finally(inFlightByKey, generationByKey)
  BY DEF Retire, Recover
<1>2. TypeOK /\ w \in Worker
  BY DEF IInv, TypeOK
<1>3. \A t \in DOMAIN ends : ends[t] \in Outcome
  BY DEF Outcome
<1>4. SharedBefore(inFlightByKey, ends)
  BY <1>1, <1>3, SharedKept
<1>5. CustodyBefore(queue, workerSlots, A, ends)
  <2>1. queue \cap DOMAIN ends = {}
    BY <1>2, PendingBasics
  <2>2. \A x \in Worker : A[x] = IF x = w THEN NoTask ELSE active[x]
    BY <1>2 DEF TypeOK
  <2>3. \A x \in Worker : A[x] # NoTask =>
           A[x] = active[x] /\ x \in workerSlots \ terminating' /\ A[x] \notin DOMAIN ends
    BY <1>1, <1>2, <2>2, PendingBasics
  <2>4. \A x \in Worker : A[x] = NoTask =>
           active[x] = NoTask \/ active[x] \in DOMAIN ends
    BY <2>2
  <2> HIDE DEF A, ends
  <2>5. QED  BY <1>3, <2>1, <2>3, <2>4, CustodyKept
<1>6. TypesBefore(queue, workerSlots, A, N, F, ends, inFlightByKey, generationByKey)
  BY <1>2, <1>3 DEF TypesBefore, TypeOK
<1>7. RestBefore(queue, workerSlots)
  BY <1>1, <1>2 DEF RestBefore, TypeOK, IInv, Closed
<1> HIDE DEF ends, A, N, F
<1>8. QED  BY <1>1, <1>4, <1>5, <1>6, <1>7, CallbackStep

LEMMA AbortTaskStep ==
  ASSUME IInv, NEW t \in Task, AbortTask(t)
  PROVE  IInv'
<1> DEFINE ends == [u \in {t} |-> "rejected"]
           Q == queue \ {t}
<1>1. state[t] = "pending"
  BY DEF AbortTask
<1>2. CASE \E w \in workerSlots : active[w] = t /\ Retire(w, t)
  <2>1. t # NoTask
    OBVIOUS
  <2>2. QED  BY <1>2, <2>1, RetireStep
<1>3. CASE /\ t \in queue
           /\ UNCHANGED <<requests, terminating, ended>>
           /\ Commit(Q, workerSlots, active, {}, {}, ends)
           /\ Finally(inFlightByKey, generationByKey)
           /\ UNCHANGED <<disposed, visiting, faults>>
  <2>1. TypeOK
    BY DEF IInv
  <2>2. \A u \in DOMAIN ends : ends[u] \in Outcome
    BY DEF Outcome
  <2>3. SharedBefore(inFlightByKey, ends)
    BY <1>3, <2>2, SharedKept
  <2>4. CustodyBefore(Q, workerSlots, active, ends)
    <3>1. Q \in SUBSET queue /\ Q \cap DOMAIN ends = {} /\ queue \ Q \subseteq DOMAIN ends
      OBVIOUS
    <3>2. \A x \in Worker : active[x] # NoTask =>
             x \in workerSlots \ terminating' /\ active[x] \notin DOMAIN ends
      BY <1>3, PendingBasics
    <3> HIDE DEF Q, ends
    <3>3. QED  BY <2>2, <3>1, <3>2, CustodyKept
  <2>5. TypesBefore(Q, workerSlots, active, {}, {}, ends, inFlightByKey, generationByKey)
    BY <2>1, <2>2 DEF TypesBefore, TypeOK
  <2>6. RestBefore(Q, workerSlots)
    BY <1>3, <2>1 DEF RestBefore, TypeOK, IInv, Closed
  <2> HIDE DEF ends, Q
  <2>7. QED  BY <1>3, <2>3, <2>4, <2>5, <2>6, CallbackStep
<1>4. QED  BY <1>2, <1>3 DEF AbortTask

LEMMA HandleWorkerMessageStep ==
  ASSUME IInv, NEW w \in Worker, NEW ok \in BOOLEAN, HandleWorkerMessage(w, ok)
  PROVE  IInv'
<1> DEFINE ends == [u \in {active[w]} |-> IF Accepted(active[w], ok) THEN "resolved"
                                          ELSE "rejected"]
           A == [active EXCEPT ![w] = NoTask]
           N == IF disposed # "no" \/ queue = {} THEN {} ELSE Missing(workerSlots)
           F == IF disposed # "no" THEN {} ELSE Idle(workerSlots \cup N, A)
<1>1. /\ w \in workerSlots /\ active[w] # NoTask
      /\ UNCHANGED <<option, generation, terminating, ended, disposed, visiting, faults>>
      /\ Commit(queue, workerSlots, A, N, F, ends)
      /\ Finally(inFlightByKey, generationByKey)
  BY DEF HandleWorkerMessage, DrainQueue
<1>2. TypeOK
  BY DEF IInv
<1>3. \A t \in DOMAIN ends : ends[t] \in Outcome
  BY DEF Outcome
<1>4. SharedBefore(inFlightByKey, ends)
  BY <1>1, <1>3, SharedKept
<1>5. CustodyBefore(queue, workerSlots, A, ends)
  <2>1. queue \cap DOMAIN ends = {}
    BY <1>1, PendingBasics
  <2>2. \A x \in Worker : A[x] = IF x = w THEN NoTask ELSE active[x]
    BY <1>2 DEF TypeOK
  <2>3. \A x \in Worker : A[x] # NoTask =>
           A[x] = active[x] /\ x \in workerSlots \ terminating' /\ A[x] \notin DOMAIN ends
    BY <1>1, <2>2, PendingBasics
  <2>4. \A x \in Worker : A[x] = NoTask =>
           active[x] = NoTask \/ active[x] \in DOMAIN ends
    BY <2>2
  <2> HIDE DEF A, ends
  <2>5. QED  BY <1>3, <2>1, <2>3, <2>4, CustodyKept
<1>6. TypesBefore(queue, workerSlots, A, N, F, ends, inFlightByKey, generationByKey)
  BY <1>2, <1>3 DEF TypesBefore, TypeOK
<1>7. RestBefore(queue, workerSlots)
  BY <1>1, <1>2 DEF RestBefore, TypeOK, IInv, Closed
<1> HIDE DEF ends, A, N, F
<1>8. QED  BY <1>1, <1>4, <1>5, <1>6, <1>7, CallbackStep

LEMMA HandleWorkerFailureStep ==
  ASSUME IInv, NEW w \in Worker, HandleWorkerFailure(w), faults' \in Nat
  PROVE  IInv'
<1> DEFINE ends == [u \in {active[w]} \ {NoTask} |-> "rejected"]
           A == [active EXCEPT ![w] = NoTask]
           S == workerSlots \ {w}
           N == IF disposed # "no" \/ Pending \subseteq DOMAIN ends THEN {} ELSE Missing(S)
           F == IF disposed # "no" THEN {} ELSE Idle(S \cup N, A)
<1>1. /\ w \in workerSlots
      /\ ended' = ended \cup {w}
      /\ terminating' = terminating \ {w}
      /\ UNCHANGED <<option, generation, disposed, visiting>>
      /\ Commit(queue, S, A, N, F, ends)
      /\ Finally(inFlightByKey, generationByKey)
  BY DEF HandleWorkerFailure, Recover
<1>2. TypeOK
  BY DEF IInv
<1>3. \A t \in DOMAIN ends : ends[t] \in Outcome
  BY DEF Outcome
<1>4. SharedBefore(inFlightByKey, ends)
  BY <1>1, <1>3, SharedKept
<1>5. CustodyBefore(queue, S, A, ends)
  <2>1. queue \cap DOMAIN ends = {}
    BY <1>1, PendingBasics
  <2>2. \A x \in Worker : A[x] = IF x = w THEN NoTask ELSE active[x]
    BY <1>2 DEF TypeOK
  <2>3. \A x \in Worker : A[x] # NoTask =>
           A[x] = active[x] /\ x \in S \ terminating' /\ A[x] \notin DOMAIN ends
    BY <1>1, <2>2, PendingBasics
  <2>4. \A x \in Worker : A[x] = NoTask =>
           active[x] = NoTask \/ active[x] \in DOMAIN ends
    BY <2>2
  <2> HIDE DEF A, ends, S
  <2>5. QED  BY <1>3, <2>1, <2>3, <2>4, CustodyKept
<1>6. TypesBefore(queue, S, A, N, F, ends, inFlightByKey, generationByKey)
  <2>1. S \in SUBSET workerSlots /\ S \subseteq Worker
    BY <1>2 DEF TypeOK
  <2>2. \A x \in S : A[x] \in {active[x], NoTask}
    BY <1>2, <2>1 DEF TypeOK
  <2>3. A \in [Worker -> Task \cup {NoTask}] /\ queue \in SUBSET Task
    BY <1>2 DEF TypeOK
  <2>4. N = {} \/ N = Missing(S)
    OBVIOUS
  <2>5. F = {} \/ (disposed = "no" /\ F = Idle(S \cup N, A))
    BY <1>2 DEF TypeOK
  <2> HIDE DEF ends, A, S, N, F
  <2>6. QED  BY <1>2, <1>3, <2>1, <2>2, <2>3, <2>4, <2>5 DEF TypesBefore, TypeOK
<1>7. RestBefore(queue, S)
  BY <1>1, <1>2 DEF RestBefore, TypeOK, IInv, Closed
<1> HIDE DEF ends, A, S, N, F
<1>8. QED  BY <1>1, <1>4, <1>5, <1>6, <1>7, CallbackStep

\* dispose goes on to the next slot, or is done.
LEMMA VisitNextStep ==
  ASSUME IInv, disposed # "done", visiting = NoWorker \/ visiting \in ended,
         VisitNext(queue)
  PROVE  IInv'
<1> DEFINE next == {w \in workerSlots : w > visiting /\
                      \A x \in workerSlots : x > visiting => w <= x}
           held == {active[w] : w \in next} \ {NoTask}
           ends == [t \in queue \cup held |-> "rejected"]
           A == [w \in Worker |-> IF w \in next THEN NoTask ELSE active[w]]
           S == IF next = {} THEN {} ELSE workerSlots
<1>1. /\ disposed' = IF next = {} THEN "done" ELSE "running"
      /\ visiting' = IF next = {} THEN visiting ELSE CHOOSE w \in next : TRUE
      /\ terminating' = IF next = {} THEN {} ELSE terminating \cup next
      /\ UNCHANGED <<option, generation, ended, faults>>
      /\ Commit({}, S, A, {}, {}, ends)
      /\ Finally(inFlightByKey, generationByKey)
  BY DEF VisitNext
<1>2. /\ TypeOK /\ Numbered /\ Closed
      /\ workerSlots \subseteq Worker
      /\ visiting \in Nat /\ workerCounter \in Nat
      /\ next \subseteq workerSlots
  BY DEF IInv, TypeOK
<1>3. \A t \in DOMAIN ends : ends[t] \in Outcome
  BY DEF Outcome
<1>4. SharedBefore(inFlightByKey, ends)
  BY <1>1, <1>3, SharedKept
\* Slots that are not visited yet: the first one is the next.
<1>5. next = {} => \A w \in workerSlots : w <= visiting
  <2>1. SUFFICES ASSUME NEW w \in workerSlots, w > visiting  PROVE next # {}
    BY <1>2
  <2> DEFINE U == {v \in workerSlots : v > visiting}
             P(n) == \E v \in U : v = n
  <2>2. U \in SUBSET Nat /\ U # {} /\ IsFiniteSet(U)
    <3>1. U \in SUBSET Worker /\ w \in U
      BY <1>2, <2>1
    <3>2. QED  BY <3>1, Finite
  <2>3. \E v \in U : Position(v, U) = 0
    <3>1. Cardinality(U) # 0
      BY <2>2, FS_EmptySet
    <3>2. Cardinality(U) \in Nat
      BY <2>2, FS_CardinalityType
    <3>3. 0 \in Nat /\ 0 < Cardinality(U)
      BY <3>1, <3>2
    <3>4. QED  BY <2>2, <3>3, PositionOnto
  <2>4. PICK v \in U : Position(v, U) = 0
    BY <2>3
  <2>5. ASSUME NEW x \in workerSlots, x > visiting  PROVE v <= x
    <3>1. x \in U /\ x \in Nat /\ v \in Nat
      BY <2>2, <2>5
    <3>2. ASSUME x < v  PROVE FALSE
      <4>1. Position(x, U) < Position(v, U)
        BY <2>2, <3>1, <3>2, PositionGrows
      <4>2. Position(x, U) \in Nat
        BY <2>2, <3>1, PositionType
      <4>3. QED  BY <2>4, <4>1, <4>2
    <3>3. QED  BY <3>1, <3>2
  <2>6. v \in next
    BY <2>5
  <2>7. QED  BY <2>6
<1>6. next # {} => /\ visiting' \in next
                   /\ next = {visiting'}
                   /\ visiting' > visiting
                   /\ \A w \in workerSlots : w > visiting => visiting' <= w
  <2>1. SUFFICES ASSUME next # {}
                 PROVE  /\ visiting' \in next
                        /\ next = {visiting'}
                        /\ visiting' > visiting
                        /\ \A w \in workerSlots : w > visiting => visiting' <= w
    OBVIOUS
  <2>2. visiting' \in next
    BY <1>1, <2>1
  <2>3. \A u, v \in next : u <= v /\ v <= u /\ u \in Nat /\ v \in Nat
    BY <1>2
  <2>4. \A u \in next : u = visiting'
    BY <2>2, <2>3
  <2>5. QED  BY <2>2, <2>4
<1>7. next = {} => \A w \in Worker : active[w] = NoTask
  <2>1. \A w \in Worker : active[w] # NoTask => w \in workerSlots
    BY PendingBasics
  <2>2. QED  BY <1>2, <1>5, <2>1 DEF Numbered
<1>8. CustodyBefore({}, S, A, ends)
  <2>1. \A x \in Worker : A[x] # NoTask =>
           A[x] = active[x] /\ x \in S \ terminating' /\ A[x] \notin DOMAIN ends
    <3>1. SUFFICES ASSUME NEW x \in Worker, A[x] # NoTask
                   PROVE  A[x] = active[x] /\ x \in S \ terminating' /\ A[x] \notin DOMAIN ends
      OBVIOUS
    <3>2. x \notin next /\ A[x] = active[x] /\ next # {}
      BY <1>7, <3>1
    <3>3. /\ x \in workerSlots \ terminating
          /\ active[x] \notin queue
          /\ \A y \in Worker : active[y] = active[x] => y = x
      BY <3>1, <3>2, PendingBasics
    <3>4. active[x] \notin held
      BY <1>2, <3>2, <3>3
    <3>5. QED  BY <1>1, <3>2, <3>3, <3>4
  <2>2. \A x \in Worker : A[x] = NoTask =>
           active[x] = NoTask \/ active[x] \in DOMAIN ends
    OBVIOUS
  <2>3. queue \ {} \subseteq DOMAIN ends /\ {} \cap DOMAIN ends = {} /\ {} \in SUBSET queue
    OBVIOUS
  <2> HIDE DEF A, S, ends
  <2>4. QED  BY <1>3, <2>1, <2>2, <2>3, CustodyKept
<1>9. /\ S \in SUBSET workerSlots
      /\ A \in [Worker -> Task \cup {NoTask}]
      /\ \A t \in DOMAIN ends : ends[t] \in Outcome \cup {"pending"}
  BY <1>2, <1>3 DEF TypeOK
<1>10. Committed({}, S, {}, ends)
  <2> HIDE DEF S, A, ends
  <2>1. QED  BY <1>1, <1>2, <1>9, CommitType
<1>11. /\ queue' = {}
       /\ workerCounter' = workerCounter
       /\ workerSlots' = S
       /\ active' = A
  <2>1. active' = [w \in Worker |-> A[w]]
    <3>1. \A w \in Worker : Given(w, {}, {}) = {}
      BY DEF Given
    <3>2. QED  BY <1>1, <3>1 DEF Commit
  <2>2. queue' = {} /\ workerSlots' = S
    BY <1>10 DEF Committed
  <2>3. workerCounter' = workerCounter
    BY <1>1, <1>2, FS_EmptySet DEF Commit
  <2>4. QED  BY <2>1, <2>2, <2>3
<1>12. Custody'
  <2>1. terminating' \subseteq workerSlots /\ \A w \in workerSlots : w <= workerCounter
    BY <1>1, <1>2 DEF TypeOK, Numbered
  <2> HIDE DEF S, A, ends
  <2>2. QED  BY <1>1, <1>2, <1>8, <1>9, <2>1, CommitCustody
<1>13. /\ SharedIsPending'
       /\ inFlightByKey' \in [Key -> Task \cup {NoTask}]
       /\ generationByKey' \in [Key -> Nat]
  <2>1. ASSUME NEW k \in Key, inFlightByKey[k] # NoTask
        PROVE  /\ state[inFlightByKey[k]] \notin Outcome
               /\ state'[inFlightByKey[k]] \in Outcome \cup {"pending"}
               /\ option'[inFlightByKey[k]].key = k
    <3>1. inFlightByKey[k] \in Task
      BY <1>2, <2>1 DEF TypeOK
    <3>2. state'[inFlightByKey[k]] \in {"rejected", Post(inFlightByKey[k], ends)}
      BY <1>10, <3>1 DEF Committed
    <3>3. QED  BY <1>4, <2>1, <3>2 DEF SharedBefore, Outcome
  <2>2. /\ inFlightByKey \in [Key -> Task \cup {NoTask}]
        /\ generationByKey \in [Key -> Nat]
    BY <1>2 DEF TypeOK
  <2>3. QED  BY <1>1, <2>1, <2>2, FinallyShared
<1>14. Numbered'
  <2>1. CASE next = {}
    <3>1. visiting' = visiting /\ workerSlots' = {}
      BY <1>1, <1>11, <2>1
    <3>2. \A w \in workerSlots : w \in ended
      BY <1>2, <1>5, <2>1 DEF Numbered
    <3>3. QED  BY <1>1, <1>2, <1>11, <3>1, <3>2 DEF Numbered
  <2>2. CASE next # {}
    <3>1. workerSlots' = workerSlots /\ visiting' \in workerSlots /\ visiting' \in Nat
      <4>1. workerSlots' = workerSlots
        BY <1>11, <2>2
      <4>2. visiting' \in workerSlots
        BY <1>2, <1>6, <2>2
      <4>3. \A w \in Worker : w \in Nat
        OBVIOUS
      <4>4. QED  BY <1>2, <4>1, <4>2, <4>3
    <3>2. \A w \in workerSlots : w <= visiting' => A[w] = NoTask
      BY <1>2, <1>6, <2>2, <3>1 DEF Numbered
    <3>3. \A w \in workerSlots : w < visiting' => w \in ended
      BY <1>2, <1>6, <2>2, <3>1 DEF Numbered
    <3>4. QED  BY <1>1, <1>2, <1>11, <3>1, <3>2, <3>3 DEF Numbered
  <2>3. QED  BY <2>1, <2>2
<1>15. Closed'
  BY <1>1, <1>11 DEF Closed
<1>16. TypeOK'
  <2>1. /\ visiting' \in Worker \cup {NoWorker}
        /\ terminating' \subseteq workerSlots'
        /\ disposed' \in {"no", "running", "done"}
    BY <1>1, <1>2, <1>6, <1>11 DEF TypeOK
  <2>2. /\ option' = option /\ generation' = generation
        /\ ended' = ended /\ faults' = faults
    BY <1>1
  <2>3. QED  BY <1>2, <1>10, <1>13, <2>1, <2>2 DEF TypeOK, Committed
<1>17. QED  BY <1>12, <1>13, <1>14, <1>15, <1>16 DEF IInv

LEMMA StepInv == IInv /\ [RunnerNext]_runnerVars => IInv'
<1> SUFFICES ASSUME IInv, [RunnerNext]_runnerVars
             PROVE  IInv'
  OBVIOUS
<1>1. CASE UNCHANGED runnerVars
  BY <1>1 DEF runnerVars, IInv, TypeOK, Custody, SharedIsPending, Numbered, Closed,
              Pending
<1>2. ASSUME NEW t \in Task, NEW o \in Options, RunTask(t, o)  PROVE IInv'
  BY <1>2, RunTaskStep
<1>3. ASSUME NEW t \in Task, AbortTask(t)  PROVE IInv'
  BY <1>3, AbortTaskStep
<1>4. ASSUME NEW w \in Worker, NEW ok \in BOOLEAN, HandleWorkerMessage(w, ok)
      PROVE  IInv'
  BY <1>4, HandleWorkerMessageStep
<1>5. ASSUME NEW w \in Worker, HandleTaskTimeout(w)  PROVE IInv'
  BY <1>5, RetireStep DEF HandleTaskTimeout
<1>6. ASSUME NEW w \in Worker, WorkerError(w)  PROVE IInv'
  <2>1. faults' \in Nat
    BY <1>6 DEF WorkerError, IInv, TypeOK
  <2>2. QED  BY <1>6, <2>1, HandleWorkerFailureStep DEF WorkerError
<1>7. ASSUME NEW w \in Worker, WorkerExit(w)  PROVE IInv'
  <2>1. CASE disposed = "no"
    <3>1. faults' \in Nat
      BY <1>7 DEF WorkerExit, IInv, TypeOK
    <3>2. QED  BY <1>7, <2>1, <3>1, HandleWorkerFailureStep DEF WorkerExit
  <2>2. CASE disposed # "no"
    <3>1. /\ UNCHANGED <<state, requests, queue, workerSlots, active, terminating,
                         workerCounter, keys, disposed, visiting, faults>>
          /\ ended' = ended \cup {w}
      BY <1>7, <2>2 DEF WorkerExit
    <3>2. TypeOK'
      BY <3>1 DEF IInv, TypeOK
    <3>3. Custody' /\ SharedIsPending'
      BY <3>1 DEF IInv, Custody, SharedIsPending, Pending
    <3>4. Numbered' /\ Closed'
      BY <3>1 DEF IInv, Numbered, Closed
    <3>5. QED  BY <3>2, <3>3, <3>4 DEF IInv
  <2>3. QED  BY <2>1, <2>2
<1>8. CASE Dispose
  BY <1>8, VisitNextStep DEF Dispose, IInv, Closed
<1>9. CASE DisposeGoesOn
  <2>1. queue = {}
    BY <1>9 DEF DisposeGoesOn, IInv, Closed
  <2>2. QED  BY <1>9, <2>1, VisitNextStep DEF DisposeGoesOn
<1>10. QED
  BY <1>1, <1>2, <1>3, <1>4, <1>5, <1>6, <1>7, <1>8, <1>9 DEF RunnerNext

LEMMA InitInv == Init => IInv
  BY DEF Init, IInv, TypeOK, Custody, SharedIsPending, Numbered, Closed, Pending,
         NoOption

\* The inductive invariant holds throughout, whatever callbacks interleave.
THEOREM Invariance == Spec => []IInv
<1>1. IInv /\ [RunnerNext]_runnerVars => IInv'
  BY StepInv
<1>2. QED  BY InitInv, <1>1, PTL DEF Spec

-----------------------------------------------------------------------------
(***************************************************************************)
(* What follows.                                                           *)
(***************************************************************************)
\* The fields of the runner and of its slots keep their types.
THEOREM TypeCorrect == Spec => []TypeOK
<1>1. IInv => TypeOK
  BY DEF IInv
<1>2. QED  BY Invariance, <1>1, PTL

\* A pending task waits in the queue or is the task of exactly one live slot
\* (runTask, drainQueue, and every way in which a slot is lost).
THEOREM CustodyKeptForever == Spec => []Custody
<1>1. IInv => Custody
  BY DEF IInv
<1>2. QED  BY Invariance, <1>1, PTL

\* inFlightByKey gives out promises that are still to be settled.
THEOREM SharedStaysPending == Spec => []SharedIsPending
<1>1. IInv => SharedIsPending
  BY DEF IInv
<1>2. QED  BY Invariance, <1>1, PTL

\* dispose returns with every promise settled and every thread ended, though
\* slots are lost and replaced while it awaits them.
THEOREM DisposeCompletes == Spec => []DisposeComplete
<1>1. IInv => DisposeComplete
  <2>1. SUFFICES ASSUME IInv, disposed = "done"
                 PROVE  Pending = {} /\ \A w \in 1..workerCounter : w \in ended
    BY DEF DisposeComplete
  <2>2. workerSlots = {} /\ queue = {}
    BY <2>1 DEF IInv, Closed
  <2>3. Pending = {}
    BY <2>1, <2>2, PendingBasics
  <2>4. \A w \in 1..workerCounter : w \in ended
    BY <2>1, <2>2 DEF IInv, Numbered
  <2>5. QED  BY <2>3, <2>4
<1>2. QED  BY Invariance, <1>1, PTL

-----------------------------------------------------------------------------
(***************************************************************************)
(* No slot is idle, and none is missing, while tasks wait.                 *)
(***************************************************************************)
LiveSlots == workerSlots \ terminating

\* The pool never grows past its size, and has it while a task is pending.
Staffed ==
    disposed = "no" =>
       /\ Cardinality(LiveSlots) <= Concurrency
       /\ Pending # {} => Cardinality(LiveSlots) = Concurrency

NoneAbortedEarly == \A t \in Task : option[t].signal # "aborted"
StaffInv == IInv /\ Staffed /\ NothingStranded

\* The slots that are added fill the pool up.
LEMMA MissingFills ==
  ASSUME TypeOK, \A w \in workerSlots : w <= workerCounter,
         NEW S \in SUBSET workerSlots, terminating' \subseteq workerSlots,
         Cardinality(S \ terminating') <= Concurrency
  PROVE  Cardinality((S \cup Missing(S)) \ terminating') = Concurrency
<1> DEFINE N == Missing(S)
           L == S \ terminating'
<1>1. workerSlots \subseteq Worker /\ workerCounter \in Nat
  BY DEF TypeOK
<1>2. N = (workerCounter + 1)..(workerCounter + Cardinality(N)) /\ Cardinality(N) \in Nat
      /\ Cardinality(N) = Concurrency - Cardinality(L)
  BY <1>1, MissingSize
<1> HIDE DEF N
<1>3. N \cap workerSlots = {}
  <2>1. ASSUME NEW w \in N, w \in workerSlots  PROVE FALSE
    <3>1. w \in (workerCounter + 1)..(workerCounter + Cardinality(N))
      BY <1>2, <2>1, Zenon
    <3>2. QED  BY <1>1, <1>2, <2>1, <3>1
  <2>2. QED  BY <2>1
<1>4. (S \cup N) \ terminating' = L \cup N /\ L \cap N = {}
  BY <1>3
<1>5. IsFiniteSet(L) /\ Cardinality(L) \in Nat
  <2>1. L \in SUBSET Worker
    BY <1>1
  <2>2. QED  BY <2>1, Finite
<1> HIDE DEF L
<1>6. IsFiniteSet(N)
  <2>1. workerCounter + 1 \in Int /\ workerCounter + Cardinality(N) \in Int
    BY <1>1, <1>2
  <2>2. QED  BY <1>2, <2>1, FS_Interval, Zenon
<1>7. Cardinality(L \cup N) = Cardinality(L) + Cardinality(N)
  <2>1. Cardinality(L \cup N) = Cardinality(L) + Cardinality(N) - Cardinality(L \cap N)
    BY <1>5, <1>6, FS_Union
  <2>2. Cardinality(L \cap N) = 0
    BY <1>4, FS_EmptySet
  <2>3. QED  BY <1>2, <1>5, <2>1, <2>2
<1>8. Cardinality(L \cup N) = Concurrency
  BY <1>2, <1>5, <1>7
<1>9. QED  BY <1>4, <1>8 DEF N

\* A slot that drainQueue leaves idle has found the queue empty.
LEMMA DrainedBusy ==
  ASSUME TypeOK, NEW Q \in SUBSET Task, NEW S \in SUBSET workerSlots,
         NEW A \in [Worker -> Task \cup {NoTask}], NEW N, NEW ends,
         Commit(Q, S, A, N, Idle(S \cup N, A), ends),
         workerSlots' \subseteq Worker,
         queue' # {}, NoneAbortedEarly',
         NEW w \in LiveSlots'
  PROVE  active'[w] # NoTask
<1> DEFINE F == Idle(S \cup N, A)
<1>1. /\ queue' = Q \ Taken(Q, F)
      /\ workerSlots' = S \cup N
      /\ active' = [x \in Worker |-> IF Given(x, Q, F) = {} THEN A[x]
                                     ELSE CHOOSE t \in Given(x, Q, F) : TRUE]
  BY DEF Commit
<1>2. w \in Worker /\ w \in S \cup N /\ w \notin terminating'
  BY <1>1 DEF LiveSlots
<1>3. Given(w, Q, F) # {} => active'[w] # NoTask
  <2>1. Given(w, Q, F) \subseteq Task
    BY DEF Given, Taken
  <2>2. Given(w, Q, F) # {} => (CHOOSE t \in Given(w, Q, F) : TRUE) \in Given(w, Q, F)
    OBVIOUS
  <2>3. NoTask \notin Task
    OBVIOUS
  <2>4. QED  BY <1>1, <1>2, <2>1, <2>2, <2>3
<1>4. CASE w \notin F
  <2>1. A[w] # NoTask
    BY <1>2, <1>4 DEF Idle
  <2>2. Given(w, Q, F) = {}
    BY <1>4 DEF Given
  <2>3. QED  BY <1>1, <1>2, <2>1, <2>2
<1>5. CASE w \in F
  <2>1. F \in SUBSET Worker
    BY <1>1 DEF Idle
  <2> HIDE DEF F
  <2>2. /\ IsFiniteSet(F) /\ F \in SUBSET Nat /\ Cardinality(F) \in Nat
        /\ IsFiniteSet(Q) /\ Q \in SUBSET Nat /\ Cardinality(Q) \in Nat
    BY <2>1, Finite
  <2>3. PICK u \in Q : ~(Position(u, Q) < Cardinality(F))
    BY <1>1 DEF Taken
  <2>4. Position(u, Q) \in 0..(Cardinality(Q) - 1)
    BY <2>2, PositionBound
  <2>5. Position(w, F) \in 0..(Cardinality(F) - 1)
    BY <1>5, <2>2, PositionBound
  <2>6. Position(w, F) \in Nat /\ Position(w, F) < Cardinality(F)
        /\ Position(w, F) < Cardinality(Q)
    BY <2>2, <2>3, <2>4, <2>5
  <2>7. PICK t \in Q : Position(t, Q) = Position(w, F)
    BY <2>2, <2>6, PositionOnto
  <2>8. ~AbortedEarly(t)
    BY DEF NoneAbortedEarly, AbortedEarly
  <2>9. t \in Given(w, Q, F)
    BY <1>5, <2>6, <2>7, <2>8 DEF Given, Taken
  <2>10. QED  BY <1>3, <2>9
<1>6. QED  BY <1>4, <1>5

\* A callback that ends in drainQueue with the capacity it owes.
LEMMA CallbackStaffed ==
  ASSUME IInv, IInv', NEW Q \in SUBSET Task, NEW S \in SUBSET workerSlots,
         NEW A \in [Worker -> Task \cup {NoTask}], NEW N, NEW ends,
         N = {} \/ N = Missing(S),
         terminating' \subseteq workerSlots,
         S \ terminating' \subseteq LiveSlots,
         Staffed, disposed = "no",
         N = Missing(S) \/ Pending' = {} \/ (Pending # {} /\ S \ terminating' = LiveSlots),
         Commit(Q, S, A, N, Idle(S \cup N, A), ends)
  PROVE  Staffed' /\ NothingStranded'
<1>1. TypeOK /\ TypeOK' /\ \A w \in workerSlots : w <= workerCounter
  BY DEF IInv, Numbered
<1>2. Cardinality(S \ terminating') <= Concurrency
  <2>1. IsFiniteSet(LiveSlots) /\ Cardinality(LiveSlots) \in Nat
    <3>1. LiveSlots \in SUBSET Worker
      BY <1>1 DEF LiveSlots, TypeOK
    <3>2. QED  BY <3>1, Finite
  <2>2. /\ Cardinality(S \ terminating') <= Cardinality(LiveSlots)
        /\ IsFiniteSet(S \ terminating')
    BY <2>1, FS_Subset
  <2>3. Cardinality(S \ terminating') \in Nat
    BY <2>2, FS_CardinalityType
  <2>4. QED  BY <2>1, <2>2, <2>3 DEF Staffed
<1>3. workerSlots' = S \cup N
  BY DEF Commit
<1>4. N = Missing(S) => Cardinality(LiveSlots') = Concurrency
  BY <1>1, <1>2, <1>3, MissingFills DEF LiveSlots
<1>5. N = {} => LiveSlots' = S \ terminating'
  BY <1>3 DEF LiveSlots
<1>6. Staffed'
  <2>1. CASE N = Missing(S)
    <3>1. Cardinality(LiveSlots') = Concurrency
      BY <1>4, <2>1
    <3>2. QED  BY <3>1 DEF Staffed
  <2>2. CASE N # Missing(S)
    <3>1. Cardinality(LiveSlots') <= Concurrency
      BY <1>2, <1>5, <2>2
    <3>2. Pending' # {} => LiveSlots' = LiveSlots /\ Pending # {}
      BY <1>5, <2>2
    <3>3. Pending' # {} => Cardinality(LiveSlots') = Concurrency
      BY <3>2 DEF Staffed
    <3>4. QED  BY <3>1, <3>3 DEF Staffed
  <2>3. QED  BY <2>1, <2>2
<1>7. ASSUME queue' # {}, NoneAbortedEarly'
      PROVE  /\ \A w \in LiveSlots' : active'[w] # NoTask
             /\ Cardinality(LiveSlots') = Concurrency
  <2>1. disposed' = "no" /\ Pending' # {}
    BY <1>7 DEF IInv, Closed, Custody
  <2>2. workerSlots' \subseteq Worker
    BY <1>1 DEF TypeOK
  <2>3. QED  BY <1>1, <1>6, <1>7, <2>1, <2>2, DrainedBusy DEF Staffed
<1>8. QED  BY <1>6, <1>7 DEF NothingStranded, NoneAbortedEarly, LiveSlots

LEMMA DisposedStaffed ==
  ASSUME IInv', disposed' # "no"
  PROVE  Staffed' /\ NothingStranded'
<1>1. queue' = {}
  BY DEF IInv, Closed
<1>2. QED  BY <1>1 DEF Staffed, NothingStranded

\* A callback that settles tasks and makes none.
LEMMA PendingShrinks ==
  ASSUME IInv, NEW Q, NEW S, NEW A, NEW N, NEW F, NEW ends,
         \A t \in DOMAIN ends : ends[t] \in Outcome,
         Commit(Q, S, A, N, F, ends)
  PROVE  Pending' \subseteq Pending \ DOMAIN ends
<1>1. SUFFICES ASSUME NEW t \in Pending'  PROVE t \in Pending /\ t \notin DOMAIN ends
  OBVIOUS
<1>2. t \in Task /\ state'[t] = "pending"
  BY DEF Pending
<1>3. state'[t] \in {"rejected", Post(t, ends)}
  BY <1>2 DEF Commit, Post
<1>4. Post(t, ends) = "pending"
  BY <1>2, <1>3
<1>5. t \notin DOMAIN ends /\ state[t] = "pending"
  BY <1>4 DEF Post, Outcome
<1>6. QED  BY <1>2, <1>5 DEF Pending

\* A slot was lost, and drainQueue follows with capacity for what is left.
LEMMA RecoverStaffed ==
  ASSUME IInv, IInv', Staffed, disposed = "no",
         NEW S \in SUBSET workerSlots, NEW A \in [Worker -> Task \cup {NoTask}], NEW ends,
         \A t \in DOMAIN ends : ends[t] \in Outcome,
         terminating' \subseteq workerSlots,
         S \ terminating' \subseteq LiveSlots,
         Recover(S, A, ends)
  PROVE  Staffed' /\ NothingStranded'
<1> DEFINE N == IF Pending \subseteq DOMAIN ends THEN {} ELSE Missing(S)
<1>1. Commit(queue, S, A, N, Idle(S \cup N, A), ends)
  BY DEF Recover
<1>2. Pending' \subseteq Pending \ DOMAIN ends
  BY <1>1, PendingShrinks
<1>3. N = Missing(S) \/ Pending' = {}
  BY <1>2
<1>4. queue \in SUBSET Task /\ (N = {} \/ N = Missing(S))
  BY DEF IInv, TypeOK
<1> HIDE DEF N
<1>5. QED  BY <1>1, <1>3, <1>4, CallbackStaffed

LEMMA RetireStaffed ==
  ASSUME IInv, IInv', Staffed, NEW w \in workerSlots, NEW t, Retire(w, t)
  PROVE  Staffed' /\ NothingStranded'
<1> DEFINE A == [active EXCEPT ![w] = NoTask]
           ends == [u \in {t} |-> "rejected"]
<1>1. /\ terminating' = terminating \cup {w} /\ UNCHANGED disposed
      /\ Recover(workerSlots, A, ends)
  BY DEF Retire
<1>2. A \in [Worker -> Task \cup {NoTask}] /\ terminating' \subseteq workerSlots
  BY <1>1 DEF IInv, TypeOK
<1>3. /\ \A u \in DOMAIN ends : ends[u] \in Outcome
      /\ workerSlots \ terminating' \subseteq LiveSlots
  BY <1>1 DEF Outcome, LiveSlots
<1> HIDE DEF A, ends
<1>4. CASE disposed = "no"
  BY <1>1, <1>2, <1>3, <1>4, RecoverStaffed
<1>5. CASE disposed # "no"
  BY <1>1, <1>5, DisposedStaffed
<1>6. QED  BY <1>4, <1>5

LEMMA FailureStaffed ==
  ASSUME IInv, IInv', Staffed, NEW w \in Worker, HandleWorkerFailure(w)
  PROVE  Staffed' /\ NothingStranded'
<1> DEFINE A == [active EXCEPT ![w] = NoTask]
           ends == [u \in {active[w]} \ {NoTask} |-> "rejected"]
           S == workerSlots \ {w}
<1>1. /\ terminating' = terminating \ {w} /\ UNCHANGED disposed
      /\ disposed = "no" => Recover(S, A, ends)
  BY DEF HandleWorkerFailure
<1>2. A \in [Worker -> Task \cup {NoTask}] /\ terminating' \subseteq workerSlots
  BY <1>1 DEF IInv, TypeOK
<1>3. /\ \A u \in DOMAIN ends : ends[u] \in Outcome
      /\ S \in SUBSET workerSlots /\ S \ terminating' \subseteq LiveSlots
  BY <1>1 DEF Outcome, LiveSlots
<1> HIDE DEF A, ends, S
<1>4. CASE disposed = "no"
  BY <1>1, <1>2, <1>3, <1>4, RecoverStaffed
<1>5. CASE disposed # "no"
  BY <1>1, <1>5, DisposedStaffed
<1>6. QED  BY <1>4, <1>5

LEMMA RunTaskStaffed ==
  ASSUME IInv, IInv', Staffed, NEW t \in Task, NEW o \in Options, RunTask(t, o)
  PROVE  Staffed' /\ NothingStranded'
<1> DEFINE dropped == Superseded(o)
           Q == (queue \ dropped) \cup {t}
           ends == [u \in dropped \cup {t} |-> IF u = t THEN "pending" ELSE "rejected"]
           N == Missing(workerSlots)
<1>1. /\ disposed = "no" /\ terminating' = terminating
      /\ DrainQueue(Q, workerSlots, active, ends)
  BY DEF RunTask
<1>2. Commit(Q, workerSlots, active, N, Idle(workerSlots \cup N, active), ends)
  BY <1>1 DEF DrainQueue
<1>3. /\ Q \in SUBSET Task /\ active \in [Worker -> Task \cup {NoTask}]
      /\ terminating' \subseteq workerSlots
      /\ workerSlots \ terminating' \subseteq LiveSlots
  BY <1>1 DEF IInv, TypeOK, LiveSlots
<1> HIDE DEF Q, ends
<1>4. QED  BY <1>1, <1>2, <1>3, CallbackStaffed

LEMMA MessageStaffed ==
  ASSUME IInv, IInv', Staffed, NEW w \in Worker, NEW ok \in BOOLEAN,
         HandleWorkerMessage(w, ok)
  PROVE  Staffed' /\ NothingStranded'
<1> DEFINE A == [active EXCEPT ![w] = NoTask]
           ends == [u \in {active[w]} |-> IF Accepted(active[w], ok) THEN "resolved"
                                          ELSE "rejected"]
           N == IF queue = {} THEN {} ELSE Missing(workerSlots)
<1>1. /\ UNCHANGED <<terminating, disposed>>
      /\ DrainQueue(queue, workerSlots, A, ends)
  BY DEF HandleWorkerMessage
<1>2. CASE disposed = "no"
  <2>1. Commit(queue, workerSlots, A, N, Idle(workerSlots \cup N, A), ends)
    BY <1>1, <1>2 DEF DrainQueue
  <2>2. \A u \in DOMAIN ends : ends[u] \in Outcome
    BY DEF Outcome
  <2>3. /\ queue \in SUBSET Task /\ A \in [Worker -> Task \cup {NoTask}]
        /\ terminating' \subseteq workerSlots
        /\ workerSlots \ terminating' = LiveSlots
        /\ N = {} \/ N = Missing(workerSlots)
    BY <1>1 DEF IInv, TypeOK, LiveSlots
  <2> HIDE DEF A, ends, N
  <2>4. Pending' \subseteq Pending
    BY <2>1, <2>2, PendingShrinks
  <2>5. Pending' = {} \/ (Pending # {} /\ workerSlots \ terminating' = LiveSlots)
    BY <2>3, <2>4
  <2>6. QED  BY <1>2, <2>1, <2>3, <2>5, CallbackStaffed
<1>3. CASE disposed # "no"
  BY <1>1, <1>3, DisposedStaffed
<1>4. QED  BY <1>2, <1>3

\* A waiting task that is aborted leaves the slots as they are.
LEMMA AbortStaffed ==
  ASSUME IInv, IInv', Staffed, NothingStranded, NEW t \in Task, AbortTask(t)
  PROVE  Staffed' /\ NothingStranded'
<1> DEFINE ends == [u \in {t} |-> "rejected"]
<1>1. CASE \E w \in workerSlots : active[w] = t /\ Retire(w, t)
  BY <1>1, RetireStaffed
<1>2. CASE /\ UNCHANGED <<requests, terminating, ended>>
           /\ Commit(queue \ {t}, workerSlots, active, {}, {}, ends)
           /\ UNCHANGED <<disposed, visiting, faults>>
  <2>1. \A u \in DOMAIN ends : ends[u] \in Outcome
    BY DEF Outcome
  <2> HIDE DEF ends
  <2>2. Pending' \subseteq Pending
    BY <1>2, <2>1, PendingShrinks
  <2>3. /\ workerSlots' = workerSlots /\ queue' \subseteq queue
        /\ \A w \in Worker : active'[w] = active[w]
    <3>1. \A w \in Worker : Given(w, queue \ {t}, {}) = {}
      BY DEF Given
    <3>2. QED  BY <1>2, <3>1 DEF Commit
  <2>4. LiveSlots' = LiveSlots /\ LiveSlots \subseteq Worker
    BY <1>2, <2>3 DEF LiveSlots, IInv, TypeOK
  <2>5. Staffed'
    BY <1>2, <2>2, <2>4 DEF Staffed
  <2>6. NothingStranded'
    BY <1>2, <2>3, <2>4 DEF NothingStranded, LiveSlots
  <2>7. QED  BY <2>5, <2>6
<1>3. QED  BY <1>1, <1>2 DEF AbortTask

LEMMA StepStaff == StaffInv /\ [RunnerNext]_runnerVars => StaffInv'
<1> SUFFICES ASSUME IInv, Staffed, NothingStranded, [RunnerNext]_runnerVars, IInv'
             PROVE  Staffed' /\ NothingStranded'
  BY StepInv DEF StaffInv
<1>1. CASE UNCHANGED runnerVars
  BY <1>1 DEF runnerVars, Staffed, NothingStranded, LiveSlots, Pending
<1>2. ASSUME NEW t \in Task, NEW o \in Options, RunTask(t, o)
      PROVE  Staffed' /\ NothingStranded'
  BY <1>2, RunTaskStaffed
<1>3. ASSUME NEW t \in Task, AbortTask(t)  PROVE Staffed' /\ NothingStranded'
  BY <1>3, AbortStaffed
<1>4. ASSUME NEW w \in Worker, NEW ok \in BOOLEAN, HandleWorkerMessage(w, ok)
      PROVE  Staffed' /\ NothingStranded'
  BY <1>4, MessageStaffed
<1>5. ASSUME NEW w \in Worker, HandleTaskTimeout(w)  PROVE Staffed' /\ NothingStranded'
  BY <1>5, RetireStaffed DEF HandleTaskTimeout
<1>6. ASSUME NEW w \in Worker, WorkerError(w)  PROVE Staffed' /\ NothingStranded'
  BY <1>6, FailureStaffed DEF WorkerError
<1>7. ASSUME NEW w \in Worker, WorkerExit(w)  PROVE Staffed' /\ NothingStranded'
  <2>1. CASE disposed = "no"
    BY <1>7, <2>1, FailureStaffed DEF WorkerExit
  <2>2. CASE disposed # "no"
    BY <1>7, <2>2, DisposedStaffed DEF WorkerExit
  <2>3. QED  BY <2>1, <2>2
<1>8. CASE Dispose \/ DisposeGoesOn
  <2>1. disposed' # "no"
    BY <1>8 DEF Dispose, DisposeGoesOn, VisitNext
  <2>2. QED  BY <2>1, DisposedStaffed
<1>9. QED
  BY <1>1, <1>2, <1>3, <1>4, <1>5, <1>6, <1>7, <1>8 DEF RunnerNext

LEMMA InitStaff == Init => StaffInv
<1>1. Init => Pending = {} /\ LiveSlots = {} /\ queue = {}
  BY DEF Init, Pending, LiveSlots
<1>2. Cardinality({}) = 0
  BY FS_EmptySet
<1>3. QED  BY <1>1, <1>2, InitInv DEF StaffInv, Staffed, NothingStranded

\* While tasks wait every slot works and no slot is missing, however many were
\* lost to time-outs, aborts and failures: a task is never left in the queue
\* beside a slot that could run it.
THEOREM NoneStranded == Spec => []NothingStranded
<1>1. StaffInv => NothingStranded
  BY DEF StaffInv
<1>2. QED  BY InitStaff, StepStaff, <1>1, PTL DEF Spec
=============================================================================
