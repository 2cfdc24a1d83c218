-------------------------- MODULE TaskRuntimeProofs -------------------------
(***************************************************************************)
(* Proofs about the task runtime, for every set of workers, callers and    *)
(* tasks, every bound and every number of shutdowns.  First TaskPool on    *)
(* its own; then TaskRuntime: the pool, the ring and the JS thread         *)
(* together.                                                               *)
(***************************************************************************)
EXTENDS TaskRuntime, TLAPS

(* The pool: TaskPool.                                                     *)

\* A caller that is inside submit(), with a job it has not enqueued yet.
Submitting(c) == cpc[c] # "out" /\ carg[c] # NoJob

\* The callers hold jobs that no other caller holds and the queue has not
\* admitted: what makes the enqueued job new.
CallersInv ==
    /\ accepted \subseteq offered
    /\ \A c \in Callers : cpc[c] = "enqueue" => carg[c] # NoJob
    /\ \A c \in Callers : Submitting(c) => carg[c] \in offered /\ carg[c] \notin accepted
    /\ \A c, d \in Callers :
          Submitting(c) /\ Submitting(d) /\ carg[c] = carg[d] => c = d

-----------------------------------------------------------------------------
\* The empty sequence is the one of length 0.
LEMMA EmptyLen ==
  ASSUME NEW S, NEW s \in Seq(S)
  PROVE  Len(s) \in Nat /\ (s = <<>> <=> Len(s) = 0)
OBVIOUS

\* A sequence with an element more.
LEMMA Appended ==
  ASSUME NEW S, NEW s \in Seq(S), NEW e \in S
  PROVE  /\ Append(s, e) \in Seq(S)
         /\ Len(Append(s, e)) = Len(s) + 1
         /\ \A i \in 1..Len(s) : Append(s, e)[i] = s[i]
         /\ Append(s, e)[Len(s) + 1] = e
OBVIOUS

\* A sequence without its first element.
LEMMA Headless ==
  ASSUME NEW S, NEW s \in Seq(S), s # <<>>
  PROVE  /\ Len(s) \in Nat \ {0}
         /\ Head(s) = s[1] /\ s[1] \in S
         /\ Tail(s) \in Seq(S)
         /\ Len(Tail(s)) = Len(s) - 1
         /\ \A i \in 1..(Len(s) - 1) : Tail(s)[i] = s[i + 1]
<1>1. Len(s) \in Nat \ {0}
  BY EmptyLen
<1> QED
  BY <1>1

\* There is nothing to count in the empty set.
LEMMA NoneCounted == Cardinality({}) = 0
<1> DEFINE Counts(f) == f = [T \in SUBSET {} |->
                               IF T = {} THEN 0 ELSE 1 + f[T \ {CHOOSE x : x \in T}]]
           count == CHOOSE f : Counts(f)
<1>1. Counts([T \in SUBSET {} |-> 0])
  OBVIOUS
<1>2. Counts(count)
  BY <1>1, Zenon
<1>3. Cardinality({}) = count[{}]
  BY Zenon DEF Cardinality
<1>4. count[{}] = 0
  <2> HIDE DEF count
  <2> QED
    BY <1>2
<1> QED
  BY <1>3, <1>4

\* The locked section of worker() takes a prefix of the queue, between one
\* job and BATCH_POP of them, and nothing only when there is nothing.
LEMMA PopCountBounds ==
  ASSUME PoolTypeOK
  PROVE  /\ PopCount \in 0..Len(queue)
         /\ PopCount <= BatchPop
         /\ PopCount = 0 <=> queue = <<>>
<1>1. Len(queue) \in Nat /\ (queue = <<>> <=> Len(queue) = 0)
  BY EmptyLen DEF PoolTypeOK
<1> QED
  BY <1>1, PoolAssumption DEF PopCount, PoolTypeOK

\* What the two SubSeq of PopBatch are.
SplitsAt(S, s, n) ==
    /\ SubSeq(s, 1, n) \in Seq(S)
    /\ Len(SubSeq(s, 1, n)) = n
    /\ \A i \in 1..n : SubSeq(s, 1, n)[i] = s[i]
    /\ SubSeq(s, n + 1, Len(s)) \in Seq(S)
    /\ Len(SubSeq(s, n + 1, Len(s))) = Len(s) - n
    /\ \A i \in 1..(Len(s) - n) : SubSeq(s, n + 1, Len(s))[i] = s[n + i]

\* A sequence is cut in two at every length it reaches, as PopBatch cuts the
\* queue into the batch and what stays.
LEMMA SplitQueue ==
  ASSUME NEW S, NEW s \in Seq(S), NEW n \in 0..Len(s)
  PROVE  SplitsAt(S, s, n)
<1>1. Len(s) \in Nat
  OBVIOUS
<1>2. /\ SubSeq(s, 1, n) \in Seq(S)
      /\ Len(SubSeq(s, 1, n)) = n
      /\ \A i \in 1..n : SubSeq(s, 1, n)[i] = s[i]
  BY <1>1
<1>3. /\ SubSeq(s, n + 1, Len(s)) \in Seq(S)
      /\ Len(SubSeq(s, n + 1, Len(s))) = Len(s) - n
  BY <1>1
<1>4. \A i \in 1..(Len(s) - n) : SubSeq(s, n + 1, Len(s))[i] = s[n + i]
  BY <1>1, SMTT(30)
<1> QED
  BY <1>2, <1>3, <1>4, Zenon DEF SplitsAt

-----------------------------------------------------------------------------
\* Every step of callers and workers keeps the types.
LEMMA TypeStep ==
  ASSUME PoolTypeOK, BatchesBounded, CallersInv, [PoolNext]_poolVars
  PROVE  PoolTypeOK'
<1> USE DEF PoolTypeOK
<1>1. CASE UNCHANGED poolVars
  BY <1>1 DEF poolVars
<1>2. ASSUME NEW c \in Callers, InitPool(c) PROVE PoolTypeOK'
  BY <1>2, Zenon DEF InitPool, CallerPlaces
<1>3. ASSUME NEW c \in Callers, NEW j \in Jobs, Submit(c, j) PROVE PoolTypeOK'
  BY <1>3 DEF Submit, CallerPlaces
<1>4. ASSUME NEW c \in Callers, StartSwap(c) PROVE PoolTypeOK'
  BY <1>4, Zenon DEF StartSwap, AfterStart, CallerPlaces
<1>5. ASSUME NEW c \in Callers, Spawn(c) PROVE PoolTypeOK'
  BY <1>5, PoolAssumption, Zenon DEF Spawn, AfterStart, CallerPlaces, WorkerPlaces
<1>6. ASSUME NEW c \in Callers, TryEnqueue(c) PROVE PoolTypeOK'
  <2>1. carg[c] \in Jobs
    BY <1>6 DEF TryEnqueue, CallersInv
  <2>2. Append(queue, carg[c]) \in Seq(Jobs)
    BY <2>1, Appended
  <2>3. queue' \in Seq(Jobs) /\ accepted' \in SUBSET Jobs
    BY <1>6, <2>1, <2>2, Zenon DEF TryEnqueue
  <2>4. cpc' \in [Callers -> CallerPlaces]
    BY <1>6 DEF TryEnqueue, CallerPlaces
  <2> QED
    BY <1>6, <2>3, <2>4, Zenon DEF TryEnqueue
<1>7. ASSUME NEW c \in Callers, StopPool(c) PROVE PoolTypeOK'
  <2>1. raced' \in BOOLEAN
    BY <1>7, Zenon DEF StopPool
  <2>2. stops' \in 0..MaxStops
    BY <1>7, PoolAssumption DEF StopPool
  <2> QED
    BY <1>7, <2>1, <2>2, Zenon DEF StopPool
<1>8. ASSUME NEW w \in Workers, PopBatch(w) PROVE PoolTypeOK'
  <2>1. PopCount \in 0..Len(queue)
    BY PopCountBounds
  <2>2. /\ SubSeq(queue, 1, PopCount) \in Seq(Jobs)
        /\ SubSeq(queue, PopCount + 1, Len(queue)) \in Seq(Jobs)
    <3>1. SplitsAt(Jobs, queue, PopCount)
      BY <2>1, SplitQueue, Zenon
    <3> QED BY <3>1, Zenon DEF SplitsAt
  <2> QED
    BY <1>8, <2>2, Zenon DEF PopBatch, WorkerPlaces
<1>9. ASSUME NEW w \in Workers, FinishJob(w) PROVE PoolTypeOK'
  <2>1. batch[w] \in Seq(Jobs) /\ batch[w] # <<>>
    BY <1>9 DEF FinishJob, BatchesBounded
  <2>2. Head(batch[w]) \in Jobs /\ Tail(batch[w]) \in Seq(Jobs)
    BY <2>1
  <2> QED
    BY <1>9, <2>2 DEF FinishJob, WorkerPlaces
<1>10. ASSUME NEW w \in Workers, CheckRunning(w) \/ LeaveIfEmpty(w) \/ Park(w) \/ WakeUp(w)
       PROVE  PoolTypeOK'
  BY <1>10, Zenon DEF CheckRunning, LeaveIfEmpty, Park, WakeUp, WorkerPlaces
<1> QED
  BY <1>1, <1>2, <1>3, <1>4, <1>5, <1>6, <1>7, <1>8, <1>9, <1>10, Zenon
     DEF PoolNext, CallerStep, WorkerLoop

\* Only a caller's own steps move it, and a job is handed to one caller only.
LEMMA CallersStep ==
  ASSUME PoolTypeOK, CallersInv, [PoolNext]_poolVars
  PROVE  CallersInv'
<1> USE DEF PoolTypeOK, CallersInv, Submitting
<1>1. CASE UNCHANGED poolVars
  BY <1>1, Zenon DEF poolVars
<1>2. ASSUME NEW c \in Callers, InitPool(c) PROVE CallersInv'
  <2>1. offered' = offered /\ accepted' = accepted
    BY <1>2, Zenon DEF InitPool
  <2>2. \A d \in Callers :
           \/ cpc'[d] = cpc[d] /\ carg'[d] = carg[d]
           \/ cpc'[d] = "swap" /\ carg'[d] = NoJob
    BY <1>2, Zenon DEF InitPool
  <2> QED
    BY <2>1, <2>2, Zenon
<1>3. ASSUME NEW c \in Callers, NEW j \in Jobs, Submit(c, j) PROVE CallersInv'
  BY <1>3, PoolAssumption DEF Submit
<1>4. ASSUME NEW c \in Callers, StartSwap(c) PROVE CallersInv'
  BY <1>4, Zenon DEF StartSwap, AfterStart
<1>5. ASSUME NEW c \in Callers, Spawn(c) PROVE CallersInv'
  BY <1>5, Zenon DEF Spawn, AfterStart
<1>6. ASSUME NEW c \in Callers, TryEnqueue(c) PROVE CallersInv'
  BY <1>6 DEF TryEnqueue
<1>7. ASSUME NEW c \in Callers, StopPool(c) PROVE CallersInv'
  BY <1>7, Zenon DEF StopPool
<1>8. ASSUME NEW w \in Workers, WorkerLoop(w) \/ FinishJob(w) PROVE CallersInv'
  BY <1>8, Zenon DEF WorkerLoop, FinishJob, PopBatch, CheckRunning, LeaveIfEmpty, Park, WakeUp
<1> QED
  BY <1>1, <1>2, <1>3, <1>4, <1>5, <1>6, <1>7, <1>8, Zenon DEF PoolNext, CallerStep

\* The queue grows only past the admission test, and batches only by PopBatch.
LEMMA BoundsStep ==
  ASSUME PoolTypeOK, QueueBounded, BatchesBounded, [PoolNext]_poolVars
  PROVE  QueueBounded' /\ BatchesBounded'
<1> USE DEF PoolTypeOK, QueueBounded, BatchesBounded
<1>1. CASE UNCHANGED poolVars
  BY <1>1, Zenon DEF poolVars
<1>2. ASSUME NEW c \in Callers, InitPool(c) \/ (\E j \in Jobs : Submit(c, j)) \/ StartSwap(c) \/ StopPool(c)
      PROVE  QueueBounded' /\ BatchesBounded'
  BY <1>2, Zenon DEF InitPool, Submit, StartSwap, StopPool
<1>3. ASSUME NEW c \in Callers, Spawn(c) PROVE QueueBounded' /\ BatchesBounded'
  BY <1>3 DEF Spawn
<1>4. ASSUME NEW c \in Callers, TryEnqueue(c) PROVE QueueBounded' /\ BatchesBounded'
  BY <1>4, PoolAssumption DEF TryEnqueue
<1>5. ASSUME NEW w \in Workers, PopBatch(w) PROVE QueueBounded' /\ BatchesBounded'
  <2> DEFINE n == PopCount
  <2>1. n \in 0..Len(queue) /\ n <= BatchPop /\ (n = 0 <=> queue = <<>>)
    BY PopCountBounds, Zenon
  <2> HIDE DEF n
  <2>2. /\ SubSeq(queue, 1, n) \in Seq(Jobs)
        /\ Len(SubSeq(queue, 1, n)) = n
        /\ Len(SubSeq(queue, n + 1, Len(queue))) = Len(queue) - n
    <3>1. SplitsAt(Jobs, queue, n)
      BY <2>1, SplitQueue, Zenon
    <3> QED BY <3>1, Zenon DEF SplitsAt
  <2>3. SubSeq(queue, 1, n) # <<>> <=> n # 0
    BY <2>2, EmptyLen, Zenon
  <2>4. /\ queue' = SubSeq(queue, n + 1, Len(queue))
        /\ batch' = [batch EXCEPT ![w] = SubSeq(queue, 1, n)]
        /\ wpc' = [wpc EXCEPT ![w] = IF queue = <<>> THEN "idle" ELSE "run"]
    BY <1>5, Zenon DEF PopBatch, n
  <2>5. QueueBounded'
    BY <2>1, <2>2, <2>4, PoolAssumption
  <2>6. \A v \in Workers : v # w => batch'[v] = batch[v] /\ wpc'[v] = wpc[v]
    BY <2>4
  <2>7. batch'[w] = SubSeq(queue, 1, n) /\ wpc'[w] = IF n = 0 THEN "idle" ELSE "run"
    BY <2>1, <2>4, Zenon
  <2>8. Len(batch'[w]) <= BatchPop /\ (batch'[w] # <<>> <=> wpc'[w] = "run")
    BY <2>1, <2>2, <2>3, <2>7
  <2>9. \A v \in Workers : v # w => /\ Len(batch'[v]) <= BatchPop
                                    /\ batch'[v] # <<>> <=> wpc'[v] = "run"
    BY <2>6, Zenon
  <2> QED
    BY <2>5, <2>8, <2>9, Zenon
<1>6. ASSUME NEW w \in Workers, FinishJob(w) PROVE QueueBounded' /\ BatchesBounded'
  <2>1. batch[w] \in Seq(Jobs) /\ batch[w] # <<>>
    BY <1>6 DEF FinishJob
  <2>2. Tail(batch[w]) \in Seq(Jobs) /\ Len(Tail(batch[w])) = Len(batch[w]) - 1
    BY <2>1
  <2>3. Len(batch[w]) \in Nat /\ (Tail(batch[w]) = <<>> <=> Len(Tail(batch[w])) = 0)
    BY <2>1, <2>2, EmptyLen, Zenon
  <2>4. \A v \in Workers : v # w => batch'[v] = batch[v] /\ wpc'[v] = wpc[v]
    BY <1>6, Zenon DEF FinishJob
  <2>5. /\ batch'[w] = Tail(batch[w])
        /\ wpc'[w] = IF Len(batch[w]) = 1 THEN "pop" ELSE "run"
        /\ queue' = queue
    BY <1>6, Zenon DEF FinishJob
  <2>6. Len(batch'[w]) <= BatchPop /\ (wpc'[w] = "run" <=> batch'[w] # <<>>)
    BY <1>6, <2>1, <2>2, <2>3, <2>5, PoolAssumption, SMTT(30)
  <2> QED
    BY <2>4, <2>5, <2>6, Zenon
<1>7. ASSUME NEW w \in Workers, CheckRunning(w) \/ LeaveIfEmpty(w) \/ Park(w) \/ WakeUp(w)
      PROVE  QueueBounded' /\ BatchesBounded'
  BY <1>7, Zenon DEF CheckRunning, LeaveIfEmpty, Park, WakeUp
<1> QED
  BY <1>1, <1>2, <1>3, <1>4, <1>5, <1>6, <1>7, Zenon DEF PoolNext, CallerStep, WorkerLoop

-----------------------------------------------------------------------------
\* An admitted job is in the queue besides those that were there.
LEMMA EnqueueMoves ==
  ASSUME PoolTypeOK, NEW j \in Jobs, queue' = Append(queue, j)
  PROVE  /\ Len(queue) \in Nat
         /\ Len(queue') = Len(queue) + 1
         /\ \A i \in 1..Len(queue) : queue'[i] = queue[i]
         /\ queue'[Len(queue) + 1] = j
         /\ \A k : InQueue(k)' <=> InQueue(k) \/ k = j
<1>1. /\ Len(queue) \in Nat
      /\ Len(queue') = Len(queue) + 1
      /\ \A i \in 1..Len(queue) : queue'[i] = queue[i]
      /\ queue'[Len(queue) + 1] = j
  BY Appended DEF PoolTypeOK
<1> QED
  BY <1>1 DEF InQueue

\* PopBatch moves a prefix of the queue into the batch of its worker.
LEMMA PopMoves ==
  ASSUME PoolTypeOK, NEW w \in Workers, PopBatch(w)
  PROVE  /\ \A v \in Workers : v # w => batch'[v] = batch[v]
         /\ \A v \in Workers : v # w => \A j : InBatch(v, j)' <=> InBatch(v, j)
         /\ \A j : InQueue(j) <=> InQueue(j)' \/ InBatch(w, j)'
<1> DEFINE n == PopCount
<1>1. n \in 0..Len(queue) /\ Len(queue) \in Nat
  BY PopCountBounds DEF PoolTypeOK
<1> HIDE DEF n
<1>2. /\ queue' = SubSeq(queue, n + 1, Len(queue))
      /\ batch' = [batch EXCEPT ![w] = SubSeq(queue, 1, n)]
  BY DEF PopBatch, n
<1>3. /\ Len(queue') = Len(queue) - n
      /\ \A i \in 1..(Len(queue) - n) : queue'[i] = queue[n + i]
  <2>1. SplitsAt(Jobs, queue, n)
    BY <1>1, SplitQueue, Zenon DEF PoolTypeOK
  <2> QED BY <1>2, <2>1, Zenon DEF SplitsAt
<1>4. /\ Len(batch'[w]) = n
      /\ \A i \in 1..n : batch'[w][i] = queue[i]
  <2>1. /\ Len(SubSeq(queue, 1, n)) = n
        /\ \A i \in 1..n : SubSeq(queue, 1, n)[i] = queue[i]
    <3>1. SplitsAt(Jobs, queue, n)
      BY <1>1, SplitQueue, Zenon DEF PoolTypeOK
    <3> QED BY <3>1, Zenon DEF SplitsAt
  <2>2. batch'[w] = SubSeq(queue, 1, n)
    BY <1>2, Zenon DEF PoolTypeOK
  <2> QED
    BY <2>1, <2>2, Zenon
<1>5. \A v \in Workers : v # w => batch'[v] = batch[v]
  BY <1>2 DEF PoolTypeOK
<1>6. ASSUME NEW j, NEW i \in 1..Len(queue), queue[i] = j
      PROVE  InQueue(j)' \/ InBatch(w, j)'
  <2>1. CASE i <= n
    BY <1>1, <1>4, <1>6, <2>1 DEF InBatch
  <2>2. CASE ~(i <= n)
    <3>1. i - n \in 1..(Len(queue) - n) /\ n + (i - n) = i
      BY <1>1, <2>2
    <3> QED
      BY <1>3, <1>6, <3>1 DEF InQueue
  <2> QED
    BY <2>1, <2>2, Zenon
<1>7. ASSUME NEW j, InQueue(j)' \/ InBatch(w, j)' PROVE InQueue(j)
  <2>1. CASE InQueue(j)'
    <3>1. PICK i \in 1..Len(queue') : queue'[i] = j
      BY <2>1, Zenon DEF InQueue
    <3>2. n + i \in 1..Len(queue) /\ queue[n + i] = j
      BY <1>1, <1>3, <3>1
    <3> QED
      BY <3>2, Zenon DEF InQueue
  <2>2. CASE InBatch(w, j)'
    <3>1. PICK i \in 1..Len(batch'[w]) : batch'[w][i] = j
      BY <2>2, Zenon DEF InBatch
    <3>2. i \in 1..Len(queue) /\ queue[i] = j
      BY <1>1, <1>4, <3>1
    <3> QED
      BY <3>2, Zenon DEF InQueue
  <2> QED
    BY <1>7, <2>1, <2>2, Zenon
<1> QED
  BY <1>5, <1>6, <1>7, Zenon DEF InQueue, InBatch

\* The job that has run leaves the batch of its worker, and no other moves.
LEMMA FinishMoves ==
  ASSUME PoolTypeOK, BatchesBounded, EachJobOnce, NEW w \in Workers, FinishJob(w)
  PROVE  /\ Head(batch[w]) \in Jobs
         /\ InBatch(w, Head(batch[w]))
         /\ \A v \in Workers : v # w => batch'[v] = batch[v]
         /\ \A v \in Workers : v # w => \A j : InBatch(v, j)' <=> InBatch(v, j)
         /\ \A j : InBatch(w, j)' <=> InBatch(w, j) /\ j # Head(batch[w])
<1>1. batch[w] \in Seq(Jobs) /\ batch[w] # <<>>
  BY DEF FinishJob, BatchesBounded, PoolTypeOK
<1> PICK h \in Jobs : h = Head(batch[w])
  BY <1>1, Headless, Zenon
<1>2. /\ Len(batch[w]) \in Nat \ {0}
      /\ h = batch[w][1]
      /\ Len(Tail(batch[w])) = Len(batch[w]) - 1
      /\ \A i \in 1..(Len(batch[w]) - 1) : Tail(batch[w])[i] = batch[w][i + 1]
  BY <1>1, EmptyLen, Headless, Zenon
<1>3. batch' = [batch EXCEPT ![w] = Tail(batch[w])]
  BY DEF FinishJob
<1>4. batch'[w] = Tail(batch[w]) /\ \A v \in Workers : v # w => batch'[v] = batch[v]
  BY <1>3, Zenon DEF PoolTypeOK
<1>5. ASSUME NEW j, InBatch(w, j)' PROVE InBatch(w, j) /\ j # h
  BY <1>2, <1>4, <1>5 DEF InBatch, EachJobOnce
<1>6. ASSUME NEW j, InBatch(w, j), j # h PROVE InBatch(w, j)'
  <2>1. PICK i \in 1..Len(batch[w]) : batch[w][i] = j
    BY <1>6, Zenon DEF InBatch
  <2>2. i - 1 \in 1..(Len(batch[w]) - 1) /\ (i - 1) + 1 = i
    BY <1>2, <1>6, <2>1
  <2>3. Len(batch'[w]) = Len(batch[w]) - 1 /\ batch'[w][i - 1] = batch[w][i]
    BY <1>2, <1>4, <2>2, Zenon
  <2> QED
    BY <2>1, <2>2, <2>3, Zenon DEF InBatch
<1>7. InBatch(w, h)
  BY <1>2 DEF InBatch
<1>8. \A v \in Workers : v # w => \A j : InBatch(v, j)' <=> InBatch(v, j)
  BY <1>4 DEF InBatch
<1> QED
  BY <1>4, <1>5, <1>6, <1>7, <1>8, Zenon

-----------------------------------------------------------------------------
\* A job enters the queue when it is nowhere yet.
LEMMA EnqueueOnce ==
  ASSUME PoolTypeOK, CallersInv, EachJobOnce, NEW c \in Callers, TryEnqueue(c)
  PROVE  EachJobOnce'
<1> DEFINE j == carg[c]
<1>1. CASE Len(queue) >= QueueMax
  BY <1>1, SMTT(30) DEF TryEnqueue, EachJobOnce, InQueue, InBatch
<1>2. CASE ~(Len(queue) >= QueueMax)
  <2>1. j \in Jobs /\ j \notin accepted
    BY DEF TryEnqueue, CallersInv, Submitting, PoolTypeOK
  <2>2. /\ queue' = Append(queue, j) /\ accepted' = accepted \cup {j}
        /\ batch' = batch /\ ran' = ran
    BY <1>2, Zenon DEF TryEnqueue
  <2> HIDE DEF j
  <2>3. ~InQueue(j) /\ (\A w \in Workers : ~InBatch(w, j)) /\ ran[j] = 0
    BY <2>1, Zenon DEF EachJobOnce
  <2>4. /\ Len(queue) \in Nat
        /\ Len(queue') = Len(queue) + 1
        /\ \A i \in 1..Len(queue) : queue'[i] = queue[i]
        /\ queue'[Len(queue) + 1] = j
    BY <2>1, <2>2, EnqueueMoves, Zenon
  <2>5. \A k : InQueue(k)' <=> InQueue(k) \/ k = j
    BY <2>1, <2>2, EnqueueMoves, Zenon
  <2>6. \A w \in Workers : \A k : InBatch(w, k)' <=> InBatch(w, k)
    BY <2>2, Zenon DEF InBatch
  <2>7. \A i, k \in 1..Len(queue') : queue'[i] = queue'[k] => i = k
    BY <2>3, <2>4, SMTT(30) DEF EachJobOnce, InQueue
  <2>8. ASSUME NEW k \in Jobs
        PROVE  /\ InQueue(k)' => \A w \in Workers : ~InBatch(w, k)'
               /\ InQueue(k)' \/ (\E w \in Workers : InBatch(w, k)') => k \in accepted' /\ ran'[k] = 0
               /\ k \in accepted' => InQueue(k)' \/ (\E w \in Workers : InBatch(w, k)') \/ ran'[k] = 1
               /\ k \notin accepted' => ran'[k] = 0
    <3>1. /\ InQueue(k) => \A w \in Workers : ~InBatch(w, k)
          /\ InQueue(k) \/ (\E w \in Workers : InBatch(w, k)) => k \in accepted /\ ran[k] = 0
          /\ k \in accepted => InQueue(k) \/ (\E w \in Workers : InBatch(w, k)) \/ ran[k] = 1
          /\ k \notin accepted => ran[k] = 0
      BY Zenon DEF EachJobOnce
    <3>2. CASE k = j
      BY <2>2, <2>3, <2>5, <2>6, <3>2, Zenon
    <3>3. CASE k # j
      BY <2>2, <2>5, <2>6, <3>1, <3>3, Zenon
    <3> QED
      BY <3>2, <3>3
  <2> QED
    BY <2>2, <2>7, <2>8 DEF EachJobOnce
<1> QED
  BY <1>1, <1>2, Zenon

\* PopBatch moves a prefix of the queue into an empty batch.
LEMMA PopOnce ==
  ASSUME PoolTypeOK, BatchesBounded, EachJobOnce, NEW w \in Workers, PopBatch(w)
  PROVE  EachJobOnce'
<1> DEFINE n == PopCount
<1>1. n \in 0..Len(queue) /\ Len(queue) \in Nat
  BY PopCountBounds DEF PoolTypeOK
<1> HIDE DEF n
<1>2. /\ queue' = SubSeq(queue, n + 1, Len(queue))
      /\ batch' = [batch EXCEPT ![w] = SubSeq(queue, 1, n)]
      /\ accepted' = accepted /\ ran' = ran
  BY Zenon DEF PopBatch, n
<1>3. batch[w] = <<>> /\ Len(batch[w]) = 0
  BY SMTT(30) DEF PopBatch, BatchesBounded, PoolTypeOK
<1>4. /\ Len(queue') = Len(queue) - n
      /\ \A i \in 1..(Len(queue) - n) : queue'[i] = queue[n + i]
  <2>1. SplitsAt(Jobs, queue, n)
    BY <1>1, SplitQueue, Zenon DEF PoolTypeOK
  <2> QED BY <1>2, <2>1, Zenon DEF SplitsAt
<1>5. /\ Len(batch'[w]) = n
      /\ \A i \in 1..n : batch'[w][i] = queue[i]
  <2>1. /\ Len(SubSeq(queue, 1, n)) = n
        /\ \A i \in 1..n : SubSeq(queue, 1, n)[i] = queue[i]
    <3>1. SplitsAt(Jobs, queue, n)
      BY <1>1, SplitQueue, Zenon DEF PoolTypeOK
    <3> QED BY <3>1, Zenon DEF SplitsAt
  <2>2. batch'[w] = SubSeq(queue, 1, n)
    BY <1>2, Zenon DEF PoolTypeOK
  <2> QED
    BY <2>1, <2>2, Zenon
<1>6. \A v \in Workers : v # w => batch'[v] = batch[v]
  BY <1>2 DEF PoolTypeOK
<1>7. \A j : InQueue(j)' <=> \E i \in (n + 1)..Len(queue) : queue[i] = j
  <2>1. ASSUME NEW j, NEW i \in (n + 1)..Len(queue), queue[i] = j
        PROVE  InQueue(j)'
    <3>1. i - n \in 1..(Len(queue) - n) /\ n + (i - n) = i
      BY <1>1
    <3> QED
      BY <1>4, <2>1, <3>1 DEF InQueue
  <2>2. ASSUME NEW j, InQueue(j)'
        PROVE  \E i \in (n + 1)..Len(queue) : queue[i] = j
    BY <1>1, <1>4, <2>2 DEF InQueue
  <2> QED
    BY <2>1, <2>2, Zenon
<1>8. \A j : InBatch(w, j)' <=> \E i \in 1..n : queue[i] = j
  BY <1>5, Zenon DEF InBatch
<1>9. \A v \in Workers : v # w => \A j : InBatch(v, j)' <=> InBatch(v, j)
  BY PopMoves
<1>10. \A j : InQueue(j) <=> InQueue(j)' \/ InBatch(w, j)'
  BY PopMoves, Zenon
<1>11. \A j : ~(InQueue(j)' /\ InBatch(w, j)')
  BY <1>1, <1>7, <1>8 DEF EachJobOnce
<1>12. ASSUME NEW i \in 1..Len(queue'), NEW k \in 1..Len(queue'), queue'[i] = queue'[k]
       PROVE  i = k
  <2>1. n + i \in 1..Len(queue) /\ n + k \in 1..Len(queue) /\ queue[n + i] = queue[n + k]
    BY <1>1, <1>4, <1>12, SMTT(30)
  <2>2. n + i = n + k
    BY <2>1, Zenon DEF EachJobOnce
  <2> QED
    BY <1>1, <1>4, <2>2
<1>13. ASSUME NEW v \in Workers, NEW u \in Workers,
              NEW i \in 1..Len(batch'[v]), NEW k \in 1..Len(batch'[u]),
              batch'[v][i] = batch'[u][k]
       PROVE  v = u /\ i = k
  <2>1. CASE v = w /\ u = w
    BY <1>1, <1>5, <1>13, <2>1 DEF EachJobOnce
  <2>2. CASE v = w /\ u # w
    <3>1. i \in 1..Len(queue) /\ k \in 1..Len(batch[u]) /\ queue[i] = batch[u][k]
      BY <1>1, <1>5, <1>6, <1>13, <2>2, SMTT(30)
    <3>2. queue[i] \in Jobs /\ InQueue(queue[i]) /\ InBatch(u, queue[i])
      <4>1. queue \in Seq(Jobs)
        BY Zenon DEF PoolTypeOK
      <4>2. queue[i] \in Jobs
        BY <3>1, <4>1
      <4>3. InQueue(queue[i]) /\ InBatch(u, queue[i])
        BY <3>1, Zenon DEF InQueue, InBatch
      <4> QED
        BY <4>2, <4>3
    <3> QED
      BY <3>2, Zenon DEF EachJobOnce
  <2>3. CASE v # w /\ u = w
    <3>1. k \in 1..Len(queue) /\ i \in 1..Len(batch[v]) /\ queue[k] = batch[v][i]
      BY <1>1, <1>5, <1>6, <1>13, <2>3
    <3>2. queue[k] \in Jobs /\ InQueue(queue[k]) /\ InBatch(v, queue[k])
      <4>1. queue \in Seq(Jobs)
        BY Zenon DEF PoolTypeOK
      <4>2. queue[k] \in Jobs
        BY <3>1, <4>1
      <4>3. InQueue(queue[k]) /\ InBatch(v, queue[k])
        BY <3>1, Zenon DEF InQueue, InBatch
      <4> QED
        BY <4>2, <4>3, Zenon
    <3> QED
      BY <3>2, Zenon DEF EachJobOnce
  <2>4. CASE v # w /\ u # w
    BY <1>6, <1>13, <2>4 DEF EachJobOnce
  <2> QED
    BY <2>1, <2>2, <2>3, <2>4, Zenon
<1>14. ASSUME NEW j \in Jobs
       PROVE  /\ InQueue(j)' => \A v \in Workers : ~InBatch(v, j)'
              /\ InQueue(j)' \/ (\E v \in Workers : InBatch(v, j)') => j \in accepted' /\ ran'[j] = 0
              /\ j \in accepted' => InQueue(j)' \/ (\E v \in Workers : InBatch(v, j)') \/ ran'[j] = 1
              /\ j \notin accepted' => ran'[j] = 0
  <2>1. ~InBatch(w, j)
    BY <1>3 DEF InBatch
  <2> QED
    BY <1>2, <1>9, <1>10, <1>11, <2>1 DEF EachJobOnce
<1> QED
  BY <1>12, <1>13, <1>14, Zenon DEF EachJobOnce

\* A job that has run leaves the batch it was in.
LEMMA FinishOnce ==
  ASSUME PoolTypeOK, BatchesBounded, EachJobOnce, NEW w \in Workers, FinishJob(w)
  PROVE  EachJobOnce'
<1>1. batch[w] \in Seq(Jobs) /\ batch[w] # <<>>
  BY DEF FinishJob, BatchesBounded, PoolTypeOK
<1> PICK h \in Jobs : h = Head(batch[w])
  BY <1>1, Headless
<1>2. /\ Len(batch[w]) \in Nat \ {0}
      /\ h = batch[w][1]
      /\ Len(Tail(batch[w])) = Len(batch[w]) - 1
      /\ \A i \in 1..(Len(batch[w]) - 1) : Tail(batch[w])[i] = batch[w][i + 1]
  BY <1>1, EmptyLen, Headless
<1>3. /\ queue' = queue /\ accepted' = accepted
      /\ batch' = [batch EXCEPT ![w] = Tail(batch[w])]
      /\ ran' = [ran EXCEPT ![h] = ran[h] + 1]
  BY DEF FinishJob
<1>4. batch'[w] = Tail(batch[w]) /\ \A v \in Workers : v # w => batch'[v] = batch[v]
  BY <1>3, Zenon DEF PoolTypeOK
<1>5. InBatch(w, h) /\ ~InQueue(h) /\ h \in accepted /\ ran[h] = 0
  BY <1>2, SMTT(30) DEF InBatch, EachJobOnce
<1>6. ran'[h] = 1 /\ \A j \in Jobs : j # h => ran'[j] = ran[j]
  <2>1. ran \in [Jobs -> Nat]
    BY Zenon DEF PoolTypeOK
  <2>2. ran' = [ran EXCEPT ![h] = ran[h] + 1] /\ ran[h] = 0
    BY <1>3, <1>5, Zenon
  <2> QED
    BY <2>1, <2>2
<1>7. \A v \in Workers : v # w => \A j : InBatch(v, j)' <=> InBatch(v, j)
  BY FinishMoves, Zenon
<1>8. \A j : InBatch(w, j)' <=> InBatch(w, j) /\ j # h
  BY FinishMoves, Zenon
<1>9. \A v \in Workers : ~InBatch(v, h)'
  <2>1. \A v \in Workers : v # w => ~InBatch(v, h)
    BY <1>5 DEF InBatch, EachJobOnce
  <2> QED
    BY <1>7, <1>8, <2>1, Zenon
<1>10. ASSUME NEW v \in Workers, NEW u \in Workers,
              NEW i \in 1..Len(batch'[v]), NEW k \in 1..Len(batch'[u]),
              batch'[v][i] = batch'[u][k]
       PROVE  v = u /\ i = k
  <2> DEFINE old(x, m) == IF x = w THEN m + 1 ELSE m
  <2>1. ASSUME NEW x \in Workers, NEW m \in 1..Len(batch'[x])
        PROVE  old(x, m) \in 1..Len(batch[x]) /\ batch[x][old(x, m)] = batch'[x][m]
    <3>1. CASE x = w
      <4>1. m \in 1..(Len(batch[w]) - 1)
        BY <1>2, <1>4, <3>1, Zenon
      <4>2. m + 1 \in 1..Len(batch[w]) /\ batch'[w][m] = batch[w][m + 1]
        BY <1>2, <1>4, <4>1, SMTT(30)
      <4> QED
        BY <3>1, <4>2
    <3>2. CASE x # w
      BY <1>4, <3>2, Zenon
    <3> QED
      BY <3>1, <3>2, Zenon
  <2> HIDE DEF old
  <2>2. v = u /\ old(v, i) = old(u, k)
    <3>1. /\ old(v, i) \in 1..Len(batch[v])
          /\ old(u, k) \in 1..Len(batch[u])
          /\ batch[v][old(v, i)] = batch[u][old(u, k)]
      BY <1>10, <2>1, Zenon
    <3> QED
      BY <3>1 DEF EachJobOnce
  <2>3. i \in Int /\ k \in Int
    OBVIOUS
  <2> QED
    BY <2>2, <2>3 DEF old
<1>11. ASSUME NEW j \in Jobs
       PROVE  /\ InQueue(j)' => \A v \in Workers : ~InBatch(v, j)'
              /\ InQueue(j)' \/ (\E v \in Workers : InBatch(v, j)') => j \in accepted' /\ ran'[j] = 0
              /\ j \in accepted' => InQueue(j)' \/ (\E v \in Workers : InBatch(v, j)') \/ ran'[j] = 1
              /\ j \notin accepted' => ran'[j] = 0
  <2>1. InQueue(j)' <=> InQueue(j)
    BY <1>3, Zenon DEF InQueue
  <2>2. CASE j = h
    BY <1>3, <1>5, <1>6, <1>9, <2>1, <2>2, Zenon
  <2>3. CASE j # h
    BY <1>3, <1>6, <1>7, <1>8, <2>1, <2>3 DEF EachJobOnce
  <2> QED
    BY <2>2, <2>3, Zenon
<1> QED
  BY <1>3, <1>10, <1>11 DEF EachJobOnce

\* No step loses or repeats a job.
LEMMA OnceStep ==
  ASSUME PoolTypeOK, CallersInv, BatchesBounded, EachJobOnce, [PoolNext]_poolVars
  PROVE  EachJobOnce'
<1>1. ASSUME UNCHANGED <<queue, batch, accepted, ran>> PROVE EachJobOnce'
  BY <1>1, SMTT(30) DEF EachJobOnce, InQueue, InBatch
<1>2. ASSUME NEW c \in Callers,
             InitPool(c) \/ (\E j \in Jobs : Submit(c, j)) \/ StartSwap(c) \/ Spawn(c) \/ StopPool(c)
      PROVE  EachJobOnce'
  BY <1>1, <1>2, Zenon DEF InitPool, Submit, StartSwap, Spawn, StopPool
<1>3. ASSUME NEW w \in Workers, CheckRunning(w) \/ LeaveIfEmpty(w) \/ Park(w) \/ WakeUp(w)
      PROVE  EachJobOnce'
  BY <1>1, <1>3, Zenon DEF CheckRunning, LeaveIfEmpty, Park, WakeUp
<1>4. CASE UNCHANGED poolVars
  BY <1>1, <1>4 DEF poolVars
<1> QED
  BY <1>2, <1>3, <1>4, EnqueueOnce, PopOnce, FinishOnce, Zenon DEF PoolNext, CallerStep, WorkerLoop

-----------------------------------------------------------------------------
\* The inductive invariant of the pool.
PoolInv == PoolTypeOK /\ CallersInv /\ QueueBounded /\ BatchesBounded /\ EachJobOnce

\* TaskPool::new establishes the invariant.
LEMMA PoolInitInv ==
  ASSUME PoolInit
  PROVE  PoolInv
<1>1. PoolTypeOK
  <2>1. <<>> \in Seq(Jobs) /\ 0 \in 0..MaxStops
    BY PoolAssumption
  <2> QED
    BY <2>1, Zenon DEF PoolInit, PoolTypeOK, WorkerPlaces, CallerPlaces
<1>2. CallersInv
  BY Zenon DEF PoolInit, CallersInv, Submitting
<1>3. QueueBounded /\ BatchesBounded
  BY PoolAssumption DEF PoolInit, QueueBounded, BatchesBounded
<1>4. EachJobOnce
  BY DEF PoolInit, EachJobOnce, InQueue, InBatch
<1> QED
  BY <1>1, <1>2, <1>3, <1>4 DEF PoolInv

\* Every step of a caller or of a worker keeps it.
LEMMA PoolStep ==
  ASSUME PoolInv, [PoolNext]_poolVars
  PROVE  PoolInv'
BY TypeStep, CallersStep, BoundsStep, OnceStep DEF PoolInv

\* The invariant holds throughout.
THEOREM PoolInvariant == PoolSpec => []PoolInv
<1>1. PoolInit => PoolInv
  BY PoolInitInv
<1>2. PoolInv /\ [PoolNext]_poolVars => PoolInv'
  BY PoolStep
<1> QED
  BY <1>1, <1>2, PTL DEF PoolSpec

\* The fields of the pool keep their types for any number of threads and jobs.
THEOREM PoolTypes == PoolSpec => []PoolTypeOK
<1>1. PoolInv => PoolTypeOK
  BY DEF PoolInv
<1> QED
  BY <1>1, PoolInvariant, PTL

\* try_enqueue keeps the queue at or below CASTRUM_TASK_QUEUE_MAX, whatever
\* callers race on it.
THEOREM PoolQueueBounded == PoolSpec => []QueueBounded
<1>1. PoolInv => QueueBounded
  BY DEF PoolInv
<1> QED
  BY <1>1, PoolInvariant, PTL

\* A worker never holds more than BATCH_POP jobs and is running a job exactly
\* when it holds some.
THEOREM PoolBatchesBounded == PoolSpec => []BatchesBounded
<1>1. PoolInv => BatchesBounded
  BY DEF PoolInv
<1> QED
  BY <1>1, PoolInvariant, PTL

\* Admitted jobs are never lost and never run twice: each is in the queue, in
\* one batch, or has run once.
THEOREM PoolEachJobOnce == PoolSpec => []EachJobOnce
<1>1. PoolInv => EachJobOnce
  BY DEF PoolInv
<1> QED
  BY <1>1, PoolInvariant, PTL

-----------------------------------------------------------------------------
\* Before the first shutdown the swap of `running` lets one caller spawn, once,
\* and no worker leaves: a pool that does not run has no worker and nobody
\* about to spawn one, and the caller that is about to finds none.
StartInv ==
    stops = 0 =>
        /\ ~running => Live = {} /\ \A c \in Callers : cpc[c] # "spawn"
        /\ \A c \in Callers : cpc[c] = "spawn" => Live = {}
        /\ \A c, d \in Callers : cpc[c] = "spawn" /\ cpc[d] = "spawn" => c = d
        /\ \A w \in Workers : wpc[w] # "leave"
        /\ Cardinality(Live) <= threads

\* The workers after a step that neither spawns one nor ends one.
LEMMA SameLive ==
  ASSUME \A w \in Workers : wpc'[w] = "absent" <=> wpc[w] = "absent"
  PROVE  Live' = Live
BY Zenon DEF Live

\* The steps of a caller keep it: only the caller whose swap saw false spawns.
LEMMA StartCaller ==
  ASSUME PoolTypeOK, StartInv, NEW c \in Callers,
         InitPool(c) \/ (\E j \in Jobs : Submit(c, j)) \/ CallerStep(c) \/ StopPool(c)
  PROVE  StartInv'
<1>1. CASE InitPool(c) \/ \E j \in Jobs : Submit(c, j)
  <2>1. UNCHANGED <<running, threads, wpc, stops>> /\ Live' = Live
    BY <1>1, Zenon DEF InitPool, Submit, Live
  <2>2. \A d \in Callers : cpc'[d] = "spawn" => cpc[d] = "spawn"
    BY <1>1, Zenon DEF InitPool, Submit, PoolTypeOK
  <2> QED
    BY <2>1, <2>2, Zenon DEF StartInv
<1>2. CASE StartSwap(c)
  <2>1. UNCHANGED <<threads, wpc, stops>> /\ Live' = Live /\ running' = TRUE
    BY <1>2, Zenon DEF StartSwap, Live
  <2>2. \A d \in Callers : d # c => cpc'[d] = cpc[d]
    BY <1>2, Zenon DEF StartSwap, PoolTypeOK
  <2>3. running => cpc'[c] # "spawn"
    BY <1>2, Zenon DEF StartSwap, AfterStart, PoolTypeOK
  <2> QED
    BY <2>1, <2>2, <2>3, Zenon DEF StartInv
<1>3. CASE Spawn(c)
  <2> PICK n : n = IF carg[c] = NoJob THEN InitThreads ELSE DefaultThreads
    OBVIOUS
  <2>1. PICK S \in SUBSET {w \in Workers : wpc[w] = "absent"} :
             /\ IF SpawnMayFail THEN Cardinality(S) <= n ELSE Cardinality(S) = n
             /\ wpc' = [w \in Workers |-> IF w \in S THEN "pop" ELSE wpc[w]]
    BY <1>3, Zenon DEF Spawn
  <2>2. threads' = n /\ UNCHANGED <<running, stops>> /\ cpc[c] = "spawn"
    BY <1>3, Zenon DEF Spawn
  <2>3. \A d \in Callers : d # c => cpc'[d] = cpc[d]
    BY <1>3, Zenon DEF Spawn, PoolTypeOK
  <2>4. cpc'[c] # "spawn"
    BY <1>3, Zenon DEF Spawn, AfterStart, PoolTypeOK
  <2>5. n \in Nat
    BY PoolAssumption
  <2>6. ASSUME stops = 0 PROVE Live' = S
    <3>1. \A w \in Workers : wpc[w] = "absent"
      BY <2>2, <2>6, Zenon DEF StartInv, Live
    <3> QED
      BY <2>1, <3>1, Zenon DEF Live
  <2>7. ASSUME stops = 0 PROVE Cardinality(Live') <= threads'
    BY <2>1, <2>2, <2>5, <2>6, <2>7
  <2>8. stops = 0 => \A w \in Workers : wpc'[w] # "leave"
    BY <2>1, <2>2, Zenon DEF StartInv
  <2>9. stops = 0 => running /\ \A d \in Callers : cpc'[d] # "spawn"
    BY <2>2, <2>3, <2>4, Zenon DEF StartInv, PoolTypeOK
  <2> QED
    BY <2>2, <2>7, <2>8, <2>9, Zenon DEF StartInv
<1>4. CASE TryEnqueue(c)
  <2>1. UNCHANGED <<running, threads, wpc, stops>> /\ Live' = Live
    BY <1>4, Zenon DEF TryEnqueue, Live
  <2>2. \A d \in Callers : cpc'[d] = "spawn" => cpc[d] = "spawn"
    BY <1>4, Zenon DEF TryEnqueue, PoolTypeOK
  <2> QED
    BY <2>1, <2>2, Zenon DEF StartInv
<1>5. CASE StopPool(c)
  <2>1. stops' # 0
    BY <1>5 DEF StopPool, PoolTypeOK
  <2> QED
    BY <2>1, Zenon DEF StartInv
<1> QED
  BY <1>1, <1>2, <1>3, <1>4, <1>5, Zenon DEF CallerStep

\* The steps of a worker keep it: while the pool runs, none leaves.
LEMMA StartWorker ==
  ASSUME PoolTypeOK, StartInv, NEW w \in Workers, WorkerLoop(w) \/ FinishJob(w)
  PROVE  StartInv'
<1>1. UNCHANGED <<running, threads, cpc, stops>>
  BY Zenon DEF WorkerLoop, FinishJob, PopBatch, CheckRunning, LeaveIfEmpty, Park, WakeUp
<1>2. ASSUME stops = 0
      PROVE  /\ wpc[w] # "absent" /\ wpc'[w] \notin {"absent", "leave"}
             /\ \A v \in Workers : v # w => wpc'[v] = wpc[v]
  <2>1. wpc[w] # "leave" /\ (~running => Live = {})
    BY <1>2, Zenon DEF StartInv
  <2>2. wpc[w] # "absent"
    BY Zenon DEF WorkerLoop, FinishJob, PopBatch, CheckRunning, LeaveIfEmpty, Park, WakeUp
  <2>3. running
    BY <2>1, <2>2, Zenon DEF Live
  <2>4. PICK p \in {"pop", "run", "idle", "park", "wait"} : wpc' = [wpc EXCEPT ![w] = p]
    BY <2>1, <2>3, Zenon DEF WorkerLoop, FinishJob, PopBatch, CheckRunning, LeaveIfEmpty, Park,
                             WakeUp
  <2> QED
    BY <2>2, <2>4, Zenon DEF PoolTypeOK
<1>3. stops = 0 => Live' = Live
  BY <1>2, SameLive, Zenon
<1> QED
  BY <1>1, <1>2, <1>3, Zenon DEF StartInv

\* "A concurrent init + implicit submit race cannot double the pool": until
\* the first shutdown the live workers are at most `threads`, whichever
\* callers race through init and submit.
THEOREM PoolStartsOnce == PoolSpec => []OnePool
<1>1. PoolInit => StartInv
  <2>1. PoolInit => Live = {} /\ threads = 0 /\ Cardinality({}) = 0
    BY NoneCounted, Zenon DEF PoolInit, Live
  <2>2. PoolInit => Cardinality(Live) <= threads
    BY <2>1
  <2> QED
    BY <2>1, <2>2, Zenon DEF PoolInit, StartInv
<1>2. PoolTypeOK /\ StartInv /\ [PoolNext]_poolVars => StartInv'
  <2>1. UNCHANGED poolVars =>
          UNCHANGED <<running, threads, wpc, cpc, stops>> /\ Live' = Live
    BY Zenon DEF poolVars, Live
  <2>2. UNCHANGED poolVars /\ StartInv => StartInv'
    BY <2>1, Zenon DEF StartInv
  <2> QED
    BY <2>2, StartCaller, StartWorker, Zenon DEF PoolNext
<1>3. StartInv => OnePool
  BY Zenon DEF StartInv, OnePool
<1> QED
  BY <1>1, <1>2, <1>3, PoolTypes, PTL DEF PoolSpec

-----------------------------------------------------------------------------
(* The runtime: TaskRuntime.                                               *)

\* The places of the JS thread inside shutdown(), and those after the native
\* doorbell is taken away.
Muting == {"sh_pool", "sh_ring", "sh_arm", "sh_close"}
Stopping == Muting \cup {"sh_bell"}

\* The trampoline that is open is the one after those that are closed.
BellsInv ==
    /\ bell \in {0, FreshBell}
    /\ doorbell = IF jpc \in Muting THEN 0 ELSE bell

\* A task exists only after it was offered to the pool, and the JS thread
\* submits or cancels a task that is in flight.
TasksInv ==
    /\ \A j \in Jobs : promise[j] # "none" => j \in offered
    /\ Completed \subseteq offered
    /\ jpc \in {"submit", "cancel"} => jarg \in inflight
    /\ jpc \in {"unborn", "create"} \cup Stopping => inflight = {}

\* An armed ring has rung: the ring is on its way, is queued on the event
\* loop, is being answered, or went unheard.
ArmedInv == armed => WakeupComing \/ jpc = "disarm" \/ muted

\* A completion somebody waits for has armed the ring, unless a drain is
\* under way or was cut short.
WaitedInv == inflight \cap Completed # {} => armed \/ Draining \/ cutShort

\* The interval is set for the tasks in flight and for them only, once the JS
\* thread is back in the event loop.
KeepAliveInv ==
    /\ inflight # {} => keepAlive
    /\ jpc \in {"unborn", "create", "idle"} => (keepAlive <=> inflight # {})

\* The inductive invariant of the runtime.
RuntimeInv ==
    /\ TypeOK
    /\ PoolInv
    /\ InflightIsPending
    /\ BellsInv
    /\ TasksInv
    /\ ArmedInv
    /\ WaitedInv
    /\ KeepAliveInv

-----------------------------------------------------------------------------
\* A worker that runs has a job, and it is one the pool has admitted.
LEMMA RunningJob ==
  ASSUME PoolInv, NEW w \in Workers, wpc[w] = "run"
  PROVE  Job(w) \in Jobs /\ Job(w) \in offered
<1>1. batch[w] \in Seq(Jobs) /\ batch[w] # <<>>
  BY Zenon DEF PoolInv, PoolTypeOK, BatchesBounded
<1>2. Len(batch[w]) \in Nat \ {0} /\ Head(batch[w]) = batch[w][1]
  BY <1>1, EmptyLen
<1>3. Job(w) \in Jobs
  BY <1>1, <1>2 DEF Job
<1>4. InBatch(w, Job(w))
  BY <1>2 DEF InBatch, Job
<1>5. Job(w) \in accepted
  BY <1>3, <1>4, Zenon DEF PoolInv, EachJobOnce
<1> QED
  BY <1>3, <1>5, Zenon DEF PoolInv, CallersInv

\* Every step of the runtime is a step of the pool, or leaves the pool alone,
\* or is a submit that never reaches it.
LEMMA PoolPart ==
  ASSUME [Next]_vars
  PROVE  [PoolNext]_poolVars \/ \E j \in Jobs : SubmitInvalid(j)
<1> USE RuntimeAssumption
<1>1. CASE UNCHANGED vars
  BY <1>1, Zenon DEF vars
<1>2. CASE CreateBegin
  BY <1>2, Zenon DEF CreateBegin, PoolNext
<1>3. ASSUME NEW j \in Jobs, NEW k \in Kinds, NEW s \in Signals, SubmitBegin(j, k, s)
      PROVE  PoolNext
  BY <1>3, Zenon DEF SubmitBegin, PoolNext
<1>4. ASSUME NEW j \in Jobs, Abort(j) PROVE UNCHANGED poolVars
  BY <1>4, Zenon DEF Abort
<1>5. CASE DrainBegin \/ ShutdownCancel
  BY <1>5, Zenon DEF DrainBegin, ShutdownCancel
<1>6. CASE CreateEnd \/ SubmitCancel \/ DrainStep
  BY <1>6, Zenon DEF CreateEnd, SubmitCancel, DrainStep, DrainDisarm, DrainEmpty, DrainConsume,
                     DrainGrow, DrainAgain
<1>7. CASE SubmitStart \/ SubmitEnd
  BY <1>7, Zenon DEF SubmitStart, SubmitEnd, PoolNext, CallerStep
<1>8. CASE ShutdownStep
  BY <1>8, Zenon DEF ShutdownStep, ShutdownBell, ShutdownPool, ShutdownRing, ShutdownArm,
                     ShutdownClose, PoolNext
<1>9. ASSUME NEW w \in Workers, WorkerStep(w) PROVE [PoolNext]_poolVars
  BY <1>9, Zenon DEF WorkerStep, CheckCancelled, RunOp, ClearCancelled, PushCompletion, RingLoad,
                     RingCall, EndJob, PoolNext
<1> QED
  BY <1>1, <1>2, <1>3, <1>4, <1>5, <1>6, <1>7, <1>8, <1>9, Zenon DEF Next, JSStep

\* The pool's invariant holds in the runtime.
LEMMA PoolInvStep ==
  ASSUME PoolInv, [Next]_vars
  PROVE  PoolInv'
<1>1. CASE [PoolNext]_poolVars
  BY <1>1, PoolStep, Zenon
<1>2. ASSUME NEW j \in Jobs, SubmitInvalid(j) PROVE PoolInv'
  <2>1. PoolTypeOK'
    BY <1>2, Zenon DEF SubmitInvalid, PoolInv, PoolTypeOK
  <2>2. CallersInv'
    BY <1>2, Zenon DEF SubmitInvalid, PoolInv, CallersInv, Submitting
  <2>3. QueueBounded' /\ BatchesBounded' /\ EachJobOnce'
    <3>1. /\ queue' = queue /\ batch' = batch /\ wpc' = wpc
          /\ accepted' = accepted /\ ran' = ran
      BY <1>2, Zenon DEF SubmitInvalid
    <3>2. QueueBounded /\ BatchesBounded /\ EachJobOnce
      BY Zenon DEF PoolInv
    <3>3. QueueBounded' /\ BatchesBounded'
      BY <3>1, <3>2, Zenon DEF QueueBounded, BatchesBounded
    <3>4. EachJobOnce'
      <4>1. \A i, k \in 1..Len(queue') : queue'[i] = queue'[k] => i = k
        BY <3>1, <3>2, Zenon DEF EachJobOnce
      <4>2. \A u, v \in Workers : \A i \in 1..Len(batch'[u]), k \in 1..Len(batch'[v]) :
               batch'[u][i] = batch'[v][k] => u = v /\ i = k
        <5>1. \A u, v \in Workers : \A i \in 1..Len(batch[u]), k \in 1..Len(batch[v]) :
                 batch[u][i] = batch[v][k] => u = v /\ i = k
          BY <3>2, Zenon DEF EachJobOnce
        <5>2. batch' = batch
          BY <3>1, Zenon
        <5>3. ASSUME NEW u \in Workers, NEW v \in Workers,
                     NEW i \in 1..Len(batch'[u]), NEW k \in 1..Len(batch'[v]),
                     batch'[u][i] = batch'[v][k]
              PROVE  u = v /\ i = k
          <6>1. i \in 1..Len(batch[u]) /\ k \in 1..Len(batch[v]) /\ batch[u][i] = batch[v][k]
            BY <5>2, <5>3, Zenon
          <6> QED BY <5>1, <6>1, ZenonT(30)
        <5> QED BY <5>3, Zenon
      <4>3. \A i \in Jobs : InQueue(i)' <=> InQueue(i)
        BY <3>1, Zenon DEF InQueue
      <4>4. \A i \in Jobs, u \in Workers : InBatch(u, i)' <=> InBatch(u, i)
        BY <3>1, Zenon DEF InBatch
      <4>5. ASSUME NEW i \in Jobs
            PROVE  /\ InQueue(i)' => \A u \in Workers : ~InBatch(u, i)'
                   /\ InQueue(i)' \/ (\E u \in Workers : InBatch(u, i)')
                        => i \in accepted' /\ ran'[i] = 0
                   /\ i \in accepted'
                        => InQueue(i)' \/ (\E u \in Workers : InBatch(u, i)') \/ ran'[i] = 1
                   /\ i \notin accepted' => ran'[i] = 0
        BY <3>1, <3>2, <4>3, <4>4, Zenon DEF EachJobOnce
      <4> QED BY <4>1, <4>2, <4>5, Zenon DEF EachJobOnce
    <3> QED BY <3>3, <3>4
  <2> QED
    BY <2>1, <2>2, <2>3, Zenon DEF PoolInv
<1> QED
  BY <1>1, <1>2, PoolPart, Zenon

-----------------------------------------------------------------------------
\* The status drainNow reads for a completed task is one push() was given.
LEMMA StatusOfCompleted ==
  ASSUME TypeOK, NEW j \in Completed
  PROVE  StatusOf(j) \in Status /\ j \in Jobs
<1>1. PICK i \in 1..Len(ring) : ring[i].id = j
  BY Zenon DEF Completed
<1>2. ring \in Seq([id : Jobs, status : Status])
  BY Zenon DEF TypeOK
<1> DEFINE Entry == [id : Jobs, status : Status]
<1>3. \A k \in 1..Len(ring) : ring[k] \in Entry
  <2> HIDE DEF Entry
  <2>1. ring \in Seq(Entry)
    BY <1>2, Zenon DEF Entry
  <2> QED
    BY <2>1
<1>4. (CHOOSE k \in 1..Len(ring) : ring[k].id = j) \in 1..Len(ring)
  BY <1>1, Zenon
<1> QED
  BY <1>1, <1>3, <1>4, Zenon DEF StatusOf

\* What a drain leaves of the promises and of the map.
LEMMA ConsumeTypes ==
  ASSUME TypeOK, DrainConsume
  PROVE  /\ inflight' \in SUBSET Jobs
         /\ promise' \in [Jobs -> Settlements \cup {"none", "pending"}]
<1>1. \A j \in Completed : StatusOf(j) \in Settlements
  BY StatusOfCompleted, Zenon DEF Settlements
<1>2. promise \in [Jobs -> Settlements \cup {"none", "pending"}] /\ inflight \in SUBSET Jobs
  BY Zenon DEF TypeOK
<1> QED
  BY <1>1, <1>2, Zenon DEF DrainConsume

\* The steps of a worker keep the types.
LEMMA TypeWorker ==
  ASSUME TypeOK, PoolInv, PoolTypeOK', NEW w \in Workers, WorkerStep(w)
  PROVE  TypeOK'
<1> USE DEF TypeOK
<1>1. CASE WorkerLoop(w) /\ UNCHANGED <<ringVars, jobVars, jsVars>>
  BY <1>1, Zenon DEF ringVars, jobVars, jsVars, taskVars, drainVars
<1>2. CASE CheckCancelled(w)
  <2>1. /\ jstep' \in [Workers -> {"check", "exec", "clear", "push", "ring"}]
        /\ jstatus' \in [Workers -> Status]
    BY <1>2, ZenonT(30) DEF CheckCancelled, Status
  <2> QED
    BY <1>2, <2>1, Zenon DEF CheckCancelled, ringVars, jsVars, taskVars, drainVars
<1>3. CASE RunOp(w)
  <2>1. PICK s \in Outcomes(kind[Job(w)]) : jstatus' = [jstatus EXCEPT ![w] = s]
    BY <1>3, Zenon DEF RunOp
  <2>2. s \in Status
    BY RuntimeAssumption, Zenon DEF Outcomes, Status
  <2> QED
    BY <1>3, <2>1, <2>2, Zenon DEF RunOp, ringVars, jsVars, taskVars, drainVars
<1>4. CASE ClearCancelled(w)
  BY <1>4, Zenon DEF ClearCancelled, ringVars, jsVars, taskVars, drainVars
<1>5. ASSUME EndJob(w)
      PROVE  /\ jstep' \in [Workers -> {"check", "exec", "clear", "push", "ring"}]
             /\ jstatus' \in [Workers -> Status]
             /\ UNCHANGED <<cancelled, jsVars>>
  BY <1>5, Zenon DEF EndJob, Status
<1>6. CASE PushCompletion(w)
  <2>1. wpc[w] = "run" /\ Push(w, Job(w), jstatus[w])
    BY <1>6, Zenon DEF PushCompletion
  <2>2. [id |-> Job(w), status |-> jstatus[w]] \in [id : Jobs, status : Status]
    BY <2>1, RunningJob, Zenon
  <2>3. ring' \in Seq([id : Jobs, status : Status])
    BY <2>1, <2>2, Appended, Zenon DEF Push
  <2>4. /\ armed' \in BOOLEAN
        /\ ppc' \in [Workers -> {"out", "load", "call"}]
        /\ UNCHANGED <<doorbell, ptr, closed, bells, muted>>
    BY <2>1, Zenon DEF Push
  <2>5. /\ jstep' \in [Workers -> {"check", "exec", "clear", "push", "ring"}]
        /\ jstatus' \in [Workers -> Status]
        /\ UNCHANGED <<cancelled, jsVars>>
    BY <1>5, <1>6, Zenon DEF PushCompletion
  <2> QED
    BY <2>3, <2>4, <2>5, Zenon DEF jsVars, taskVars, drainVars
<1>7. CASE RingLoad(w) \/ RingCall(w)
  <2>1. LoadBell(w) \/ CallBell(w)
    BY <1>7, Zenon DEF RingLoad, RingCall
  <2>2. UNCHANGED <<ring, armed, doorbell, closed>>
    BY <2>1, Zenon DEF LoadBell, CallBell
  <2>3. ppc' \in [Workers -> {"out", "load", "call"}]
    <3>1. PICK p \in {"out", "load", "call"} : ppc' = [ppc EXCEPT ![w] = p]
      BY <2>1, Zenon DEF LoadBell, CallBell
    <3>2. ppc \in [Workers -> {"out", "load", "call"}]
      OBVIOUS
    <3> HIDE DEF TypeOK
    <3> QED
      BY <3>1, <3>2
  <2>4. ptr' \in [Workers -> Nat]
    <3>1. PICK p \in Nat : ptr' = [ptr EXCEPT ![w] = p]
      BY <2>1, Zenon DEF LoadBell, CallBell
    <3>2. ptr \in [Workers -> Nat]
      BY Zenon
    <3> QED
      BY <3>1, <3>2, Zenon
  <2>5. bells' \in Nat
    BY <2>1 DEF LoadBell, CallBell
  <2>6. muted' \in BOOLEAN
    BY <2>1, Zenon DEF LoadBell, CallBell
  <2>7. /\ jstep' \in [Workers -> {"check", "exec", "clear", "push", "ring"}]
        /\ jstatus' \in [Workers -> Status]
        /\ UNCHANGED <<cancelled, jsVars>>
    BY <1>5, <1>7, Zenon DEF RingLoad, RingCall, jobVars
  <2> QED
    BY <2>2, <2>3, <2>4, <2>5, <2>6, <2>7, Zenon DEF jsVars, taskVars, drainVars
<1> QED
  BY <1>1, <1>2, <1>3, <1>4, <1>6, <1>7, Zenon DEF WorkerStep

\* The JS functions other than drainNow and shutdown keep the types.
LEMMA TypeSubmit ==
  ASSUME TypeOK, PoolInv, TasksInv, PoolTypeOK',
         \/ CreateBegin \/ CreateEnd \/ SubmitStart \/ SubmitEnd \/ SubmitCancel
         \/ \E j \in Jobs :
               \/ \E k \in Kinds, s \in Signals : SubmitBegin(j, k, s)
               \/ SubmitInvalid(j)
               \/ Abort(j)
  PROVE  TypeOK'
<1> USE DEF TypeOK, FreshBell
<1>1. CASE CreateBegin
  BY <1>1, Zenon DEF CreateBegin, JSPlaces, ringVars, jobVars, taskVars, Kept, drainVars
<1>2. CASE CreateEnd
  <2>1. FreshBell \in Nat
    <3>1. closed \in Nat
      BY Zenon
    <3> QED BY <3>1
  <2> HIDE DEF FreshBell
  <2> QED
    BY <1>2, <2>1, Zenon DEF CreateEnd, SetDoorbell, JSPlaces, jobVars, taskVars, drainVars
<1>3. CASE SubmitStart
  BY <1>3, Zenon DEF SubmitStart, ringVars, jobVars, jsVars, taskVars, drainVars
<1>4. CASE SubmitEnd
  <2>1. /\ inflight' \in SUBSET Jobs
        /\ jpc' \in JSPlaces
        /\ jarg' \in Jobs \cup {NoJob}
    BY <1>4, Zenon DEF SubmitEnd, JSPlaces
  <2>2. promise' \in [Jobs -> Settlements \cup {"none", "pending"}]
    BY <1>4, Zenon DEF SubmitEnd, Settlements
  <2>3. keepAlive' \in BOOLEAN
    BY <1>4, Zenon DEF SubmitEnd
  <2> QED
    BY <1>4, <2>1, <2>2, <2>3, Zenon DEF SubmitEnd, ringVars, jobVars, Kept, drainVars
<1>5. CASE SubmitCancel
  <2>1. jarg \in Jobs
    BY <1>5, Zenon DEF SubmitCancel, TasksInv
  <2> QED
    BY <1>5, <2>1, Zenon DEF SubmitCancel, JSPlaces, ringVars, taskVars, Kept, drainVars
<1>6. ASSUME EnsureDoorbell
      PROVE  /\ doorbell' \in Nat /\ bell' \in Nat
             /\ UNCHANGED <<ring, armed, ppc, ptr, closed, bells, muted>>
  BY <1>6 DEF EnsureDoorbell, SetDoorbell, ringVars
<1>7. ASSUME NEW j \in Jobs, NEW k \in Kinds, NEW s \in Signals, SubmitBegin(j, k, s)
      PROVE  TypeOK'
  <2>1. /\ kind' \in [Jobs -> {"copy", "into", "slice"}]
        /\ signal' \in [Jobs -> {"none", "live", "aborted"}]
    BY <1>7, RuntimeAssumption, Zenon DEF SubmitBegin
  <2>2. promise' \in [Jobs -> Settlements \cup {"none", "pending"}]
    BY <1>7, Zenon DEF SubmitBegin
  <2>3. EnsureDoorbell
    BY <1>7, Zenon DEF SubmitBegin
  <2>4. /\ doorbell' \in Nat /\ bell' \in Nat
        /\ UNCHANGED <<ring, armed, ppc, ptr, closed, bells, muted>>
    BY <1>6, <2>3, Zenon
  <2>5. /\ inflight' \in SUBSET Jobs
        /\ jarg' \in Jobs \cup {NoJob}
        /\ jpc' \in JSPlaces
        /\ keepAlive' \in BOOLEAN
        /\ UNCHANGED <<jstep, jstatus, cancelled, scheduled, drainCap, cap, guard, cutShort>>
    BY <1>7, Zenon DEF SubmitBegin, JSPlaces, jobVars, drainVars
  <2> QED
    BY <2>1, <2>2, <2>4, <2>5, Zenon
<1>8. ASSUME NEW j \in Jobs, SubmitInvalid(j) PROVE TypeOK'
  <2>1. promise' \in [Jobs -> Settlements \cup {"none", "pending"}]
    BY <1>8, Zenon DEF SubmitInvalid, Settlements
  <2>2. keepAlive' \in BOOLEAN
    BY <1>8, Zenon DEF SubmitInvalid
  <2>3. EnsureDoorbell
    BY <1>8, Zenon DEF SubmitInvalid
  <2> QED
    BY <1>6, <1>8, <2>1, <2>2, <2>3, ZenonT(30) DEF SubmitInvalid, jobVars, drainVars
<1>9. ASSUME NEW j \in Jobs, Abort(j) PROVE TypeOK'
  BY <1>9, ZenonT(30) DEF Abort, ringVars, Kept, drainVars
<1> QED
  BY <1>1, <1>2, <1>3, <1>4, <1>5, <1>7, <1>8, <1>9, Zenon

\* drainNow keeps the types.
LEMMA TypeDrain ==
  ASSUME TypeOK, PoolTypeOK', DrainBegin \/ DrainStep
  PROVE  TypeOK'
<1> USE DEF TypeOK
<1>1. CASE DrainBegin
  <2>1. /\ bells' \in Nat
        /\ UNCHANGED <<ring, armed, doorbell, ppc, ptr, closed, muted>>
    BY <1>1, SMTT(30) DEF DrainBegin, TakeBell, ringVars
  <2>2. guard' \in 0..(GuardMax - 1)
    BY <1>1, RuntimeAssumption DEF DrainBegin
  <2> QED
    BY <1>1, <2>1, <2>2, Zenon DEF DrainBegin, JSPlaces, jobVars, taskVars
<1>2. CASE DrainDisarm
  BY <1>2, Zenon DEF DrainDisarm, Disarm, JSPlaces, jobVars, taskVars, Kept, drainVars
<1>3. CASE DrainEmpty
  <2>1. keepAlive' \in BOOLEAN
    BY <1>3, Zenon DEF DrainEmpty
  <2> QED
    BY <1>3, <2>1, RuntimeAssumption DEF DrainEmpty, JSPlaces, ringVars, jobVars, taskVars
<1>4. ASSUME EndTurn
      PROVE  /\ cap' \in Nat
             /\ jpc' \in JSPlaces
             /\ guard' \in 0..(GuardMax - 1)
             /\ cutShort' \in BOOLEAN
             /\ keepAlive' \in BOOLEAN
  <2>1. cap' \in Nat /\ jpc' \in JSPlaces /\ guard' \in 0..(GuardMax - 1)
    BY <1>4, RuntimeAssumption DEF EndTurn, JSPlaces
  <2>2. cutShort' \in BOOLEAN /\ keepAlive' \in BOOLEAN
    BY <1>4, Zenon DEF EndTurn
  <2> QED
    BY <2>1, <2>2, Zenon
<1>5. CASE DrainConsume
  <2>1. EndTurn /\ TakeAll
    BY <1>5, Zenon DEF DrainConsume
  <2>2. <<>> \in Seq([id : Jobs, status : Status])
    OBVIOUS
  <2> QED
    BY <1>4, <1>5, <2>1, <2>2, ConsumeTypes, ZenonT(30) DEF DrainConsume, TakeAll, jobVars
<1>6. CASE DrainGrow
  <2>1. Len(ring) \in Nat
    OBVIOUS
  <2> QED
    BY <1>6, <2>1, Zenon DEF DrainGrow, JSPlaces, ringVars, jobVars, taskVars
<1>7. CASE DrainAgain
  <2>1. EndTurn
    BY <1>7, Zenon DEF DrainAgain
  <2> QED
    BY <1>4, <1>7, <2>1, Zenon DEF DrainAgain, ringVars, jobVars, taskVars
<1> QED
  BY <1>1, <1>2, <1>3, <1>5, <1>6, <1>7, Zenon DEF DrainStep

\* shutdown keeps the types.
LEMMA TypeShutdown ==
  ASSUME TypeOK, PoolTypeOK', ShutdownCancel \/ ShutdownStep
  PROVE  TypeOK'
<1> USE DEF TypeOK
<1>1. CASE ShutdownCancel
  BY <1>1, Zenon DEF ShutdownCancel, JSPlaces, Settlements, Status, ringVars, Kept, drainVars
<1>2. CASE ShutdownBell
  BY <1>2, Zenon DEF ShutdownBell, SetDoorbell, JSPlaces, jobVars, taskVars, Kept, drainVars
<1>3. CASE ShutdownPool
  BY <1>3, Zenon DEF ShutdownPool, JSPlaces, ringVars, jobVars, taskVars, Kept, drainVars
<1>4. CASE ShutdownRing
  BY <1>4 DEF ShutdownRing, ClearRing, JSPlaces, jobVars, taskVars, Kept, drainVars
<1>5. CASE ShutdownArm
  BY <1>5, Zenon DEF ShutdownArm, ClearArmed, Disarm, JSPlaces, jobVars, taskVars, Kept, drainVars
<1>6. CASE ShutdownClose
  <2>1. bells' \in Nat
    BY <1>6 DEF ShutdownClose, CloseBell, ringVars
  <2>2. closed' \in Nat
    BY <1>6, Zenon DEF ShutdownClose, CloseBell, ringVars
  <2>3. muted' \in BOOLEAN
    BY <1>6, Zenon DEF ShutdownClose, CloseBell, ringVars
  <2>4. UNCHANGED <<ring, armed, doorbell, ppc, ptr>>
    BY <1>6, Zenon DEF ShutdownClose, CloseBell, ringVars
  <2>5. /\ bell' \in Nat /\ keepAlive' \in BOOLEAN /\ jpc' \in JSPlaces
        /\ UNCHANGED <<jstep, jstatus, cancelled, jarg, kind, signal, inflight, promise,
                       scheduled, drainCap, cap, guard, cutShort>>
    BY <1>6, Zenon DEF ShutdownClose, JSPlaces, jobVars, taskVars, drainVars
  <2> QED
    BY <2>1, <2>2, <2>3, <2>4, <2>5, Zenon
<1> QED
  BY <1>1, <1>2, <1>3, <1>4, <1>5, <1>6, Zenon DEF ShutdownStep

\* Every step keeps the types.
LEMMA TypeRuntime ==
  ASSUME TypeOK, PoolInv, PoolInv', TasksInv, [Next]_vars
  PROVE  TypeOK'
<1>1. PoolTypeOK'
  BY Zenon DEF PoolInv
<1>2. CASE UNCHANGED vars
  BY <1>1, <1>2, Zenon DEF TypeOK, vars, ringVars, jobVars, jsVars, taskVars, drainVars
<1>3. CASE Next
  BY <1>1, <1>3, TypeWorker, TypeSubmit, TypeDrain, TypeShutdown, Zenon DEF Next, JSStep
<1> QED
  BY <1>2, <1>3, Zenon

-----------------------------------------------------------------------------
\* Only createTaskRuntime, ensureDoorbell and shutdown touch a trampoline.
LEMMA BellsStep ==
  ASSUME TypeOK, BellsInv, TasksInv, [Next]_vars
  PROVE  BellsInv'
<1> USE DEF BellsInv, FreshBell, Muting
<1>1. ASSUME UNCHANGED <<closed, bell, doorbell>>, jpc' \in Muting <=> jpc \in Muting
      PROVE  BellsInv'
  BY <1>1, Zenon
<1>2. CASE UNCHANGED vars \/ \E w \in Workers : WorkerStep(w)
  <2>1. UNCHANGED <<closed, bell, doorbell, jpc>>
    BY <1>2, Zenon DEF vars, ringVars, jsVars, WorkerStep, CheckCancelled, RunOp, ClearCancelled,
                       PushCompletion, EndJob, RingLoad, RingCall, Push, LoadBell, CallBell
  <2> QED
    BY <1>1, <2>1, Zenon
<1>3. CASE CreateBegin \/ SubmitStart \/ SubmitEnd \/ SubmitCancel \/ \E j \in Jobs : Abort(j)
  <2>1. UNCHANGED <<closed, bell, doorbell>> /\ jpc' \notin Muting /\ jpc \notin Muting
    BY <1>3, Zenon DEF CreateBegin, SubmitStart, SubmitEnd, SubmitCancel, Abort, ringVars, jsVars,
                       Kept
  <2> QED
    BY <1>1, <2>1, Zenon
<1>4. CASE DrainBegin \/ DrainStep
  <2>1. UNCHANGED <<closed, bell, doorbell>> /\ jpc' \notin Muting /\ jpc \notin Muting
    BY <1>4, Zenon DEF DrainBegin, TakeBell, DrainStep, DrainDisarm, Disarm, DrainEmpty,
                       DrainConsume, TakeAll, DrainGrow, DrainAgain, EndTurn, ringVars, Kept
  <2> QED
    BY <1>1, <2>1, Zenon
<1>5. CASE CreateEnd
  BY <1>5, Zenon DEF CreateEnd, SetDoorbell
<1>6. ASSUME NEW j \in Jobs,
             SubmitInvalid(j) \/ \E k \in Kinds, s \in Signals : SubmitBegin(j, k, s)
      PROVE  BellsInv'
  <2>1. EnsureDoorbell /\ jpc' \notin Muting /\ jpc \notin Muting
    BY <1>6, Zenon DEF SubmitBegin, SubmitInvalid
  <2> QED
    BY <2>1, Zenon DEF EnsureDoorbell, SetDoorbell, ringVars
<1>7. CASE ShutdownCancel \/ ShutdownPool \/ ShutdownRing \/ ShutdownArm
  <2>1. UNCHANGED <<closed, bell, doorbell>> /\ (jpc' \in Muting <=> jpc \in Muting)
    BY <1>7, Zenon DEF ShutdownCancel, ShutdownPool, ShutdownRing, ClearRing, ShutdownArm,
                       ClearArmed, Disarm, ringVars, Kept
  <2> QED
    BY <1>1, <2>1, Zenon
<1>8. CASE ShutdownBell
  BY <1>8, Zenon DEF ShutdownBell, SetDoorbell, Kept
<1>9. CASE ShutdownClose
  <2>1. doorbell' = 0 /\ bell' = 0 /\ jpc' = "idle"
    BY <1>9, Zenon DEF ShutdownClose, CloseBell, ringVars
  <2> QED
    BY <2>1, Zenon
<1> QED
  BY <1>2, <1>3, <1>4, <1>5, <1>6, <1>7, <1>8, <1>9, Zenon DEF Next, JSStep, ShutdownStep

-----------------------------------------------------------------------------
\* A settlement is neither "none" nor "pending".
LEMMA SettledIsNotPending ==
  ASSUME TypeOK, NEW j \in Completed
  PROVE  StatusOf(j) \notin {"none", "pending"}
BY StatusOfCompleted, Zenon DEF Status

\* The map and the promises change together.
LEMMA InflightStep ==
  ASSUME TypeOK, InflightIsPending, TasksInv, [Next]_vars
  PROVE  InflightIsPending'
<1> USE DEF InflightIsPending
<1>1. ASSUME UNCHANGED <<inflight, promise>> PROVE InflightIsPending'
  BY <1>1, Zenon
<1>2. CASE UNCHANGED vars \/ \E w \in Workers : WorkerStep(w)
  BY <1>1, <1>2, Zenon DEF vars, jsVars, taskVars, WorkerStep, CheckCancelled, RunOp,
                           ClearCancelled, PushCompletion, EndJob, RingLoad, RingCall
<1>3. CASE CreateBegin \/ CreateEnd \/ SubmitStart \/ SubmitCancel \/ \E j \in Jobs : Abort(j)
  BY <1>1, <1>3, Zenon DEF CreateBegin, CreateEnd, SubmitStart, SubmitCancel, Abort, jsVars,
                           taskVars
<1>4. CASE DrainBegin \/ DrainDisarm \/ DrainEmpty \/ DrainGrow \/ DrainAgain
  BY <1>1, <1>4, Zenon DEF DrainBegin, DrainDisarm, DrainEmpty, DrainGrow, DrainAgain, taskVars
<1>5. CASE ShutdownStep
  BY <1>1, <1>5, Zenon DEF ShutdownStep, ShutdownBell, ShutdownPool, ShutdownRing, ShutdownArm,
                           ShutdownClose, taskVars
<1>6. ASSUME NEW j \in Jobs, NEW k \in Kinds, NEW s \in Signals, SubmitBegin(j, k, s)
      PROVE  InflightIsPending'
  BY <1>6, Zenon DEF SubmitBegin, TypeOK
<1>7. ASSUME NEW j \in Jobs, SubmitInvalid(j) PROVE InflightIsPending'
  <2>1. promise[j] = "none"
    BY <1>7, Zenon DEF SubmitInvalid, TasksInv
  <2> QED
    BY <1>7, <2>1, Zenon DEF SubmitInvalid, TypeOK
<1>8. CASE SubmitEnd
  BY <1>8, Zenon DEF SubmitEnd, TypeOK, TasksInv
<1>9. CASE DrainConsume
  <2>1. \A j \in Jobs : promise'[j] = IF j \in inflight \cap Completed THEN StatusOf(j)
                                    ELSE promise[j]
    BY <1>9, Zenon DEF DrainConsume
  <2>2. inflight' = inflight \ Completed
    BY <1>9, Zenon DEF DrainConsume
  <2> QED
    BY <2>1, <2>2, SettledIsNotPending, Zenon
<1>10. CASE ShutdownCancel
  BY <1>10, Zenon DEF ShutdownCancel
<1> QED
  BY <1>2, <1>3, <1>4, <1>5, <1>6, <1>7, <1>8, <1>9, <1>10, Zenon DEF Next, JSStep, DrainStep

\* The ids in the ring after a push.
LEMMA CompletedAppend ==
  ASSUME TypeOK, NEW j \in Jobs, NEW s \in Status,
         ring' = Append(ring, [id |-> j, status |-> s])
  PROVE  Completed' = Completed \cup {j}
<1> DEFINE e == [id |-> j, status |-> s]
<1>1. ring \in Seq([id : Jobs, status : Status]) /\ e \in [id : Jobs, status : Status]
  BY Zenon DEF TypeOK
<1>2. /\ Len(ring') = Len(ring) + 1
      /\ Len(ring) \in Nat
      /\ \A i \in 1..Len(ring) : ring'[i] = ring[i]
      /\ ring'[Len(ring) + 1] = e
  BY <1>1, Appended
<1>3. e.id = j
  OBVIOUS
<1> HIDE DEF e
<1>4. Completed' = {ring'[i].id : i \in 1..Len(ring')}
  BY Zenon DEF Completed
<1>5. ASSUME NEW x \in Completed' PROVE x \in Completed \cup {j}
  BY <1>2, <1>3, <1>4, <1>5, SMTT(30) DEF Completed
<1>6. ASSUME NEW x \in Completed PROVE x \in Completed'
  BY <1>2, <1>4, <1>6, SMTT(30) DEF Completed
<1>7. j \in Completed'
  BY <1>2, <1>3, <1>4
<1> QED
  BY <1>5, <1>6, <1>7, Zenon

\* What a worker does to the ring and to the JS runtime: at most one more
\* completion, of an admitted job.
LEMMA WorkerFrame ==
  ASSUME TypeOK, PoolInv, NEW w \in Workers, WorkerStep(w)
  PROVE  /\ UNCHANGED jsVars
         /\ offered' = offered
         /\ Completed' = Completed \/ (armed' = TRUE /\ \E j \in offered : Completed' = Completed \cup {j})
<1>1. UNCHANGED jsVars
  BY Zenon DEF WorkerStep, CheckCancelled, RunOp, ClearCancelled, PushCompletion, EndJob,
               RingLoad, RingCall
<1>2. offered' = offered
  BY Zenon DEF WorkerStep, CheckCancelled, RunOp, ClearCancelled, PushCompletion, EndJob,
               RingLoad, RingCall, FinishJob, WorkerLoop, PopBatch, CheckRunning, LeaveIfEmpty,
               Park, WakeUp, poolVars
<1>3. CASE PushCompletion(w)
  <2>1. /\ wpc[w] = "run" /\ armed' = TRUE
        /\ ring' = Append(ring, [id |-> Job(w), status |-> jstatus[w]])
    BY <1>3, Zenon DEF PushCompletion, Push
  <2>2. PICK j, s : j = Job(w) /\ s = jstatus[w]
    OBVIOUS
  <2>3. j \in Jobs /\ j \in offered /\ s \in Status
    BY <2>1, <2>2, RunningJob, Zenon DEF TypeOK
  <2>4. Completed' = Completed \cup {j}
    BY <2>1, <2>2, <2>3, CompletedAppend, Zenon
  <2> QED
    BY <1>1, <1>2, <2>1, <2>3, <2>4, Zenon
<1>4. CASE ~PushCompletion(w)
  <2>1. ring' = ring
    BY <1>4, Zenon DEF WorkerStep, CheckCancelled, RunOp, ClearCancelled, RingLoad, RingCall,
                       LoadBell, CallBell, ringVars
  <2> QED
    BY <1>1, <1>2, <2>1, Zenon DEF Completed
<1> QED
  BY <1>3, <1>4, Zenon

\* A task is offered before it has a promise, and a completion is one of an
\* offered task.
LEMMA TasksStep ==
  ASSUME TypeOK, PoolInv, InflightIsPending, TasksInv, [Next]_vars
  PROVE  TasksInv'
<1> USE DEF TasksInv, Stopping, Muting
<1>1. ASSUME UNCHANGED <<promise, offered, inflight, jarg>>,
             ring' \in {ring, <<>>},
             jpc' \in {"submit", "cancel"} => jpc \in {"submit", "cancel"},
             jpc' \in {"unborn", "create"} \cup Stopping =>
               jpc \in {"unborn", "create"} \cup Stopping
      PROVE  TasksInv'
  <2>1. Completed' \subseteq Completed
    BY <1>1 DEF Completed
  <2> QED
    BY <1>1, <2>1, Zenon
<1>2. CASE UNCHANGED vars
  BY <1>1, <1>2, Zenon DEF vars, poolVars, ringVars, jsVars, taskVars
<1>3. ASSUME NEW w \in Workers, WorkerStep(w) PROVE TasksInv'
  <2>1. UNCHANGED <<promise, offered, inflight, jarg, jpc>> /\ Completed' \subseteq offered
    BY <1>3, WorkerFrame, Zenon DEF jsVars, taskVars
  <2> QED
    BY <2>1, Zenon
<1>4. CASE CreateBegin \/ CreateEnd
  BY <1>1, <1>4, Zenon DEF CreateBegin, CreateEnd, InitPool, SetDoorbell, poolVars, ringVars,
                           taskVars
<1>5. CASE SubmitStart
  BY <1>1, <1>5, Zenon DEF SubmitStart, StartSwap, Spawn, ringVars, jsVars, taskVars
<1>6. ASSUME NEW j \in Jobs, NEW k \in Kinds, NEW s \in Signals, SubmitBegin(j, k, s)
      PROVE  TasksInv'
  <2>1. ring' = ring
    BY <1>6, Zenon DEF SubmitBegin, EnsureDoorbell, SetDoorbell, ringVars
  <2>2. Completed' = Completed
    BY <2>1, Zenon DEF Completed
  <2>3. offered' = offered \cup {j} /\ jpc' = "submit" /\ jarg' \in inflight'
    BY <1>6, Zenon DEF SubmitBegin, Submit
  <2>4. \A i \in Jobs : i # j => promise'[i] = promise[i]
    BY <1>6, Zenon DEF SubmitBegin, TypeOK
  <2> QED
    BY <2>2, <2>3, <2>4, Zenon
<1>7. ASSUME NEW j \in Jobs, SubmitInvalid(j) PROVE TasksInv'
  <2>1. ring' = ring
    BY <1>7, Zenon DEF SubmitInvalid, EnsureDoorbell, SetDoorbell, ringVars
  <2>2. Completed' = Completed
    BY <2>1, Zenon DEF Completed
  <2>3. offered' = offered \cup {j} /\ jpc = "idle" /\ UNCHANGED <<jpc, jarg, inflight>>
    BY <1>7, Zenon DEF SubmitInvalid
  <2>4. \A i \in Jobs : i # j => promise'[i] = promise[i]
    BY <1>7, Zenon DEF SubmitInvalid, TypeOK
  <2> QED
    BY <2>2, <2>3, <2>4, Zenon
<1>8. CASE SubmitEnd
  <2>1. offered' = offered /\ ring' = ring /\ jpc' \in {"idle", "cancel"}
    BY <1>8, Zenon DEF SubmitEnd, TryEnqueue, ringVars
  <2>2. Completed' = Completed
    BY <2>1, Zenon DEF Completed
  <2>3. \A i \in Jobs : promise'[i] # "none" => promise[i] # "none"
    BY <1>8, Zenon DEF SubmitEnd, TypeOK, InflightIsPending
  <2>4. jpc' = "cancel" => jarg' = jarg /\ inflight' = inflight
    BY <1>8, Zenon DEF SubmitEnd
  <2> QED
    BY <1>8, <2>1, <2>2, <2>3, <2>4, Zenon DEF SubmitEnd
<1>9. CASE SubmitCancel
  <2>1. /\ UNCHANGED <<promise, offered, inflight>> /\ jpc' = "idle"
        /\ Completed' = Completed
    BY <1>9, Zenon DEF SubmitCancel, poolVars, ringVars, taskVars, Completed
  <2> QED
    BY <2>1, Zenon
<1>10. ASSUME NEW j \in Jobs, Abort(j) PROVE TasksInv'
  BY <1>1, <1>10, Zenon DEF Abort, poolVars, ringVars
<1>11. CASE DrainBegin \/ DrainDisarm \/ DrainEmpty \/ DrainGrow \/ DrainAgain
  <2>1. /\ UNCHANGED <<promise, offered, inflight, jarg, ring>>
        /\ jpc' \in {"idle", "disarm", "take"}
    BY <1>11, Zenon DEF DrainBegin, TakeBell, DrainDisarm, Disarm, DrainEmpty, DrainGrow,
                        DrainAgain, EndTurn, poolVars, ringVars, taskVars
  <2> QED
    BY <1>1, <2>1, Zenon
<1>12. CASE DrainConsume
  <2>1. /\ offered' = offered /\ ring' = <<>> /\ inflight' \subseteq inflight
        /\ jpc' \in {"idle", "disarm"}
    BY <1>12, Zenon DEF DrainConsume, TakeAll, EndTurn, poolVars
  <2>2. Completed' = {}
    BY <2>1 DEF Completed
  <2>3. \A i \in Jobs : promise'[i] # "none" => promise[i] # "none"
    BY <1>12, Zenon DEF DrainConsume, InflightIsPending
  <2> QED
    BY <2>1, <2>2, <2>3, Zenon
<1>13. CASE ShutdownCancel
  <2>1. offered' = offered /\ inflight' = {} /\ jpc' = "sh_bell" /\ Completed' = Completed
    BY <1>13, Zenon DEF ShutdownCancel, poolVars, ringVars, Completed
  <2>2. \A i \in Jobs : promise'[i] # "none" => promise[i] # "none"
    BY <1>13, Zenon DEF ShutdownCancel, InflightIsPending
  <2> QED
    BY <2>1, <2>2, Zenon
<1>14. CASE ShutdownStep
  <2>1. /\ UNCHANGED <<promise, offered, inflight, jarg>>
        /\ ring' \in {ring, <<>>}
        /\ jpc \in Stopping /\ jpc' \in Stopping \cup {"idle"}
    BY <1>14, Zenon DEF ShutdownStep, ShutdownBell, SetDoorbell, ShutdownPool, StopPool,
                        ShutdownRing, ClearRing, ShutdownArm, ClearArmed, Disarm, ShutdownClose,
                        CloseBell, poolVars, ringVars, taskVars
  <2> QED
    BY <1>1, <2>1, Zenon
<1> QED
  BY <1>2, <1>3, <1>4, <1>5, <1>6, <1>7, <1>8, <1>9, <1>10, <1>11, <1>12, <1>13, <1>14, Zenon
     DEF Next, JSStep, DrainStep

-----------------------------------------------------------------------------
\* Whoever arms the ring rings it, and only a drain or a shutdown disarms it.
LEMMA ArmedStep ==
  ASSUME TypeOK, ArmedInv, [Next]_vars
  PROVE  ArmedInv'
<1> USE DEF ArmedInv, WakeupComing
<1>1. ASSUME UNCHANGED <<armed, ppc, bells, muted>>, scheduled => scheduled',
             jpc' = "disarm" \/ jpc # "disarm"
      PROVE  ArmedInv'
  BY <1>1, Zenon
<1>2. CASE UNCHANGED vars
  BY <1>1, <1>2, Zenon DEF vars, ringVars, jsVars
<1>3. ASSUME NEW w \in Workers, WorkerStep(w) PROVE ArmedInv'
  <2>1. UNCHANGED <<scheduled, jpc>>
    BY <1>3, Zenon DEF WorkerStep, CheckCancelled, RunOp, ClearCancelled, PushCompletion, EndJob,
                       RingLoad, RingCall, jsVars
  <2>2. CASE PushCompletion(w)
    <3>1. Push(w, Job(w), jstatus[w])
      BY <2>2, Zenon DEF PushCompletion
    <3>2. CASE armed
      <4>1. ppc' = ppc /\ UNCHANGED <<bells, muted>>
        BY <3>1, <3>2, Zenon DEF Push, TypeOK
      <4> QED
        BY <2>1, <3>2, <4>1, Zenon
    <3>3. CASE ~armed
      <4>1. ppc'[w] = "load"
        BY <3>1, <3>3, Zenon DEF Push, TypeOK
      <4> QED
        BY <4>1, Zenon
    <3> QED
      BY <3>2, <3>3, Zenon
  <2>3. CASE RingLoad(w)
    <3>1. ppc'[w] = "call" \/ muted' = TRUE
      BY <2>3, Zenon DEF RingLoad, LoadBell, TypeOK
    <3> QED
      BY <3>1, Zenon
  <2>4. CASE RingCall(w)
    <3>1. bells' > 0 \/ muted' = TRUE
      BY <2>4 DEF RingCall, CallBell, TypeOK
    <3> QED
      BY <3>1, Zenon
  <2>5. CASE UNCHANGED ringVars
    BY <1>1, <2>1, <2>5, Zenon DEF ringVars
  <2> QED
    BY <1>3, <2>2, <2>3, <2>4, <2>5, Zenon DEF WorkerStep, CheckCancelled, RunOp, ClearCancelled
<1>4. CASE CreateBegin \/ CreateEnd
  BY <1>1, <1>4, Zenon DEF CreateBegin, CreateEnd, SetDoorbell, ringVars, Kept
<1>5. CASE SubmitStart \/ SubmitEnd \/ SubmitCancel
  BY <1>1, <1>5, Zenon DEF SubmitStart, SubmitEnd, SubmitCancel, ringVars, jsVars, Kept
<1>6. ASSUME NEW j \in Jobs,
             \/ SubmitInvalid(j)
             \/ Abort(j)
             \/ \E k \in Kinds, s \in Signals : SubmitBegin(j, k, s)
      PROVE  ArmedInv'
  <2>1. UNCHANGED <<armed, ppc, bells, muted, scheduled>> /\ jpc = "idle"
    BY <1>6, Zenon DEF SubmitInvalid, Abort, SubmitBegin, EnsureDoorbell, SetDoorbell, ringVars,
                       Kept
  <2> QED
    BY <1>1, <2>1, Zenon
<1>7. CASE DrainBegin
  BY <1>7, Zenon DEF DrainBegin
<1>8. CASE DrainDisarm
  BY <1>8, Zenon DEF DrainDisarm, Disarm
<1>9. CASE DrainEmpty \/ DrainConsume \/ DrainGrow \/ DrainAgain
  BY <1>1, <1>9, Zenon DEF DrainEmpty, DrainConsume, TakeAll, DrainGrow, DrainAgain, ringVars
<1>10. CASE ShutdownCancel \/ ShutdownBell \/ ShutdownPool \/ ShutdownRing
  BY <1>1, <1>10, Zenon DEF ShutdownCancel, ShutdownBell, SetDoorbell, ShutdownPool, ShutdownRing,
                            ClearRing, ringVars, Kept
<1>11. CASE ShutdownArm
  BY <1>11, Zenon DEF ShutdownArm, ClearArmed, Disarm
<1>12. CASE ShutdownClose
  <2>1. UNCHANGED <<armed, ppc, scheduled>> /\ jpc # "disarm"
    BY <1>12, Zenon DEF ShutdownClose, CloseBell, ringVars
  <2>2. (bells > 0 => bells' > 0 \/ muted') /\ (muted => muted')
    BY <1>12, Zenon DEF ShutdownClose, CloseBell, ringVars
  <2> QED
    BY <2>1, <2>2, Zenon
<1> QED
  BY <1>2, <1>3, <1>4, <1>5, <1>6, <1>7, <1>8, <1>9, <1>10, <1>11, <1>12, Zenon
     DEF Next, JSStep, DrainStep, ShutdownStep

\* A completion somebody waits for is not forgotten by a disarmed ring.
LEMMA WaitedStep ==
  ASSUME TypeOK, PoolInv, TasksInv, WaitedInv, [Next]_vars
  PROVE  WaitedInv'
<1> USE DEF WaitedInv, Draining
<1>1. ASSUME UNCHANGED <<armed, cutShort>>, inflight' \subseteq inflight,
             Completed' \subseteq Completed, jpc \notin {"disarm", "take"}
      PROVE  WaitedInv'
  BY <1>1, Zenon
<1>2. CASE UNCHANGED vars
  BY <1>2, Zenon DEF vars, ringVars, jsVars, taskVars, drainVars, Completed
<1>3. ASSUME NEW w \in Workers, WorkerStep(w) PROVE WaitedInv'
  <2>1. UNCHANGED <<inflight, jpc, cutShort>>
    BY <1>3, WorkerFrame, Zenon DEF jsVars, taskVars, drainVars
  <2>2. armed => armed'
    BY <1>3, Zenon DEF WorkerStep, CheckCancelled, RunOp, ClearCancelled, PushCompletion,
                       RingLoad, RingCall, Push, LoadBell, CallBell, ringVars
  <2>3. Completed' = Completed \/ armed' = TRUE
    BY <1>3, WorkerFrame, Zenon
  <2> QED
    BY <2>1, <2>2, <2>3, Zenon
<1>4. CASE CreateBegin \/ CreateEnd \/ SubmitStart \/ SubmitCancel \/ \E j \in Jobs : Abort(j)
  <2>1. UNCHANGED <<armed, cutShort, inflight, ring>> /\ jpc \notin {"disarm", "take"}
    BY <1>4, Zenon DEF CreateBegin, CreateEnd, SetDoorbell, SubmitStart, SubmitCancel, Abort,
                       ringVars, jsVars, taskVars, Kept, drainVars
  <2> QED
    BY <1>1, <2>1, Zenon DEF Completed
<1>5. ASSUME NEW j \in Jobs,
             SubmitInvalid(j) \/ \E k \in Kinds, s \in Signals : SubmitBegin(j, k, s)
      PROVE  WaitedInv'
  <2>1. j \notin Completed
    BY <1>5, Zenon DEF SubmitInvalid, SubmitBegin, Submit, TasksInv
  <2>2. UNCHANGED <<armed, ring, cutShort>> /\ jpc = "idle" /\ inflight' \subseteq inflight \cup {j}
    BY <1>5, Zenon DEF SubmitInvalid, SubmitBegin, EnsureDoorbell, SetDoorbell, ringVars,
                       drainVars
  <2>3. Completed' = Completed
    BY <2>2, Zenon DEF Completed
  <2> QED
    BY <2>1, <2>2, <2>3, Zenon
<1>6. CASE SubmitEnd
  <2>1. /\ UNCHANGED <<armed, cutShort, ring>> /\ jpc \notin {"disarm", "take"}
        /\ inflight' \subseteq inflight
    BY <1>6, Zenon DEF SubmitEnd, ringVars, Kept, drainVars
  <2> QED
    BY <1>1, <2>1, Zenon DEF Completed
<1>7. CASE DrainBegin \/ DrainDisarm \/ DrainGrow
  BY <1>7, Zenon DEF DrainBegin, DrainDisarm, DrainGrow
<1>8. CASE DrainEmpty \/ DrainConsume
  <2>1. ring' = <<>>
    BY <1>8, Zenon DEF DrainEmpty, DrainConsume, TakeAll, ringVars
  <2>2. Completed' = {}
    BY <2>1 DEF Completed
  <2> QED
    BY <2>2, Zenon
<1>9. CASE DrainAgain
  <2>1. ring' = ring /\ inflight' = inflight /\ EndTurn
    BY <1>9, Zenon DEF DrainAgain, ringVars, taskVars
  <2>2. jpc' = "disarm" \/ cutShort' = (ring' # <<>>)
    BY <2>1, Zenon DEF EndTurn
  <2>3. ring' = <<>> => Completed' = {}
    BY DEF Completed
  <2> QED
    BY <2>2, <2>3, Zenon
<1>10. CASE ShutdownCancel \/ ShutdownStep
  <2>1. inflight' = {}
    BY <1>10, Zenon DEF ShutdownCancel, ShutdownStep, ShutdownBell, ShutdownPool, ShutdownRing,
                        ShutdownArm, ShutdownClose, taskVars, TasksInv, Stopping, Muting
  <2> QED
    BY <2>1, Zenon
<1> QED
  BY <1>2, <1>3, <1>4, <1>5, <1>6, <1>7, <1>8, <1>9, <1>10, Zenon DEF Next, JSStep, DrainStep

\* The interval follows the map through every function that touches it.
LEMMA KeepAliveStep ==
  ASSUME TypeOK, TasksInv, KeepAliveInv, [Next]_vars
  PROVE  KeepAliveInv'
<1> USE DEF KeepAliveInv
<1>1. ASSUME UNCHANGED <<inflight, keepAlive>>,
             jpc' \in {"unborn", "create", "idle"} => jpc \in {"unborn", "create", "idle"}
      PROVE  KeepAliveInv'
  BY <1>1, Zenon
<1>2. CASE UNCHANGED vars \/ \E w \in Workers : WorkerStep(w)
  <2>1. UNCHANGED <<inflight, keepAlive, jpc>>
    BY <1>2, Zenon DEF vars, jsVars, taskVars, WorkerStep, CheckCancelled, RunOp, ClearCancelled,
                       PushCompletion, EndJob, RingLoad, RingCall
  <2> QED
    BY <1>1, <2>1, Zenon
<1>3. CASE CreateBegin \/ CreateEnd \/ SubmitStart \/ \E j \in Jobs : Abort(j)
  BY <1>1, <1>3, Zenon DEF CreateBegin, CreateEnd, SubmitStart, Abort, jsVars, taskVars
<1>4. ASSUME NEW j \in Jobs, NEW k \in Kinds, NEW s \in Signals, SubmitBegin(j, k, s)
      PROVE  KeepAliveInv'
  BY <1>4, Zenon DEF SubmitBegin
<1>5. ASSUME NEW j \in Jobs, SubmitInvalid(j) PROVE KeepAliveInv'
  BY <1>5, Zenon DEF SubmitInvalid
<1>6. CASE SubmitEnd
  <2>1. keepAlive /\ inflight # {}
    BY <1>6, Zenon DEF SubmitEnd, TasksInv
  <2>2. \/ keepAlive' = (keepAlive /\ inflight' # {})
        \/ UNCHANGED <<keepAlive, inflight>>
    BY <1>6, Zenon DEF SubmitEnd
  <2> QED
    BY <2>1, <2>2, Zenon
<1>7. CASE SubmitCancel
  <2>1. keepAlive /\ inflight # {} /\ UNCHANGED <<keepAlive, inflight>>
    BY <1>7, Zenon DEF SubmitCancel, TasksInv, taskVars
  <2> QED
    BY <2>1, Zenon
<1>8. CASE DrainBegin \/ DrainDisarm \/ DrainGrow
  <2>1. UNCHANGED <<inflight, keepAlive>> /\ jpc' \notin {"unborn", "create", "idle"}
    BY <1>8, Zenon DEF DrainBegin, DrainDisarm, DrainGrow, taskVars
  <2> QED
    BY <1>1, <2>1, Zenon
<1>9. CASE DrainEmpty \/ DrainConsume \/ DrainAgain
  <2>1. inflight' \subseteq inflight
    BY <1>9, Zenon DEF DrainEmpty, DrainConsume, DrainAgain, taskVars
  <2>2. \/ keepAlive' = (keepAlive /\ inflight' # {})
        \/ keepAlive' = keepAlive /\ jpc' = "disarm"
    BY <1>9, Zenon DEF DrainEmpty, DrainConsume, DrainAgain, EndTurn, taskVars
  <2> QED
    BY <2>1, <2>2, Zenon
<1>10. CASE ShutdownCancel \/ ShutdownBell \/ ShutdownPool \/ ShutdownRing \/ ShutdownArm
  <2>1. inflight' = {} /\ jpc' \notin {"unborn", "create", "idle"}
    BY <1>10, Zenon DEF ShutdownCancel, ShutdownBell, ShutdownPool, ShutdownRing, ShutdownArm,
                        taskVars, TasksInv, Stopping, Muting
  <2> QED
    BY <2>1, Zenon
<1>11. CASE ShutdownClose
  <2>1. inflight' = {} /\ keepAlive' = FALSE
    BY <1>11, Zenon DEF ShutdownClose, taskVars, TasksInv, Stopping, Muting
  <2> QED
    BY <2>1, Zenon
<1> QED
  BY <1>2, <1>3, <1>4, <1>5, <1>6, <1>7, <1>8, <1>9, <1>10, <1>11, Zenon
     DEF Next, JSStep, DrainStep, ShutdownStep

-----------------------------------------------------------------------------
\* A process that has not created its runtime satisfies the invariant.
LEMMA RuntimeInit ==
  ASSUME Init
  PROVE  RuntimeInv
<1>1. PoolInv
  BY PoolInitInv, Zenon DEF Init
<1>2. TypeOK
  <2>1. PoolTypeOK /\ <<>> \in Seq([id : Jobs, status : Status])
    BY <1>1 DEF PoolInv
  <2>2. DrainCap \in Nat /\ 0 \in 0..(GuardMax - 1)
    BY RuntimeAssumption
  <2> QED
    BY <2>1, <2>2, Zenon DEF Init, RingInit, TypeOK, Status, JSPlaces
<1>3. BellsInv
  BY Zenon DEF Init, RingInit, BellsInv
<1>4. Completed = {}
  <2>1. ring = <<>>
    BY Zenon DEF Init, RingInit
  <2> QED
    BY <2>1 DEF Completed
<1>5. InflightIsPending /\ TasksInv
  BY <1>4, Zenon DEF Init, InflightIsPending, TasksInv
<1>6. ArmedInv /\ WaitedInv /\ KeepAliveInv
  BY Zenon DEF Init, RingInit, ArmedInv, WaitedInv, KeepAliveInv
<1> QED
  BY <1>1, <1>2, <1>3, <1>5, <1>6, Zenon DEF RuntimeInv

\* Every step of the JS thread or of a worker keeps it.
LEMMA RuntimeStep ==
  ASSUME RuntimeInv, [Next]_vars
  PROVE  RuntimeInv'
BY PoolInvStep, TypeRuntime, BellsStep, InflightStep, TasksStep, ArmedStep, WaitedStep,
  KeepAliveStep, Zenon DEF RuntimeInv

\* The invariant holds throughout.
THEOREM RuntimeInvariant == Spec => []RuntimeInv
<1>1. Init => RuntimeInv
  BY RuntimeInit, Zenon
<1>2. RuntimeInv /\ [Next]_vars => RuntimeInv'
  BY RuntimeStep, Zenon
<1> QED
  BY <1>1, <1>2, PTL DEF Spec

\* The state of the pool, the ring and the JS runtime keeps its types, for
\* any number of workers and tasks and any bounds.
THEOREM TypeCorrect == Spec => []TypeOK
<1>1. RuntimeInv => TypeOK
  BY Zenon DEF RuntimeInv
<1> QED
  BY <1>1, RuntimeInvariant, PTL

\* The inflight map holds exactly the tasks whose promise is pending.
THEOREM InflightCorrect == Spec => []InflightIsPending
<1>1. RuntimeInv => InflightIsPending
  BY Zenon DEF RuntimeInv
<1> QED
  BY <1>1, RuntimeInvariant, PTL

\* The coalesced doorbell loses no wakeup: a completion that a pending task
\* waits for in the ring finds the JS thread draining or about to be woken,
\* whatever the interleaving of push, drain and shutdown.
THEOREM WakeupCorrect == Spec => []NoLostWakeup
<1>1. RuntimeInv => NoLostWakeup
  BY Zenon DEF RuntimeInv, ArmedInv, WaitedInv, NoLostWakeup, Draining
<1> QED
  BY <1>1, RuntimeInvariant, PTL

\* The native side never holds the address of a closed trampoline, across any
\* number of shutdowns and reuses.
THEOREM BellCorrect == Spec => []NativeBellOpen
<1>1. RuntimeInv => NativeBellOpen
  BY DEF RuntimeInv, TypeOK, BellsInv, NativeBellOpen, FreshBell, Muting
<1> QED
  BY <1>1, RuntimeInvariant, PTL

\* The keep-alive interval holds the process exactly while a task is in
\* flight.
THEOREM KeepAliveCorrect == Spec => []KeepAliveWhileInflight
<1>1. RuntimeInv => KeepAliveWhileInflight
  BY Zenon DEF RuntimeInv, KeepAliveInv, KeepAliveWhileInflight
<1> QED
  BY <1>1, RuntimeInvariant, PTL

-----------------------------------------------------------------------------
\* Settling a set of pending promises is one step of the service, and
\* settling none of them is no step.
LEMMA SettleSet ==
  ASSUME TypeOK, NEW S \in SUBSET Service!Pending, NEW r \in [S -> Service!Results],
         promise' = [t \in Jobs |-> IF t \in S THEN r[t] ELSE promise[t]]
  PROVE  [Service!ServiceNext]_promise
<1>1. CASE S = {}
  <2>1. promise \in [Jobs -> Settlements \cup {"none", "pending"}]
    BY Zenon DEF TypeOK
  <2>2. promise' = [t \in Jobs |-> promise[t]]
    BY <1>1, Zenon
  <2> QED
    BY <2>1, <2>2, Zenon
<1>2. CASE S # {}
  <2>1. Service!Settle(S)
    BY <1>2, Zenon DEF Service!Settle
  <2> QED
    BY <2>1, Zenon DEF Service!ServiceNext
<1> QED
  BY <1>1, <1>2, Zenon

\* Every step of the runtime is a step of the service or leaves the promises
\* alone.
LEMMA ServiceStep ==
  ASSUME RuntimeInv, [Next]_vars
  PROVE  [Service!ServiceNext]_promise
<1> DEFINE Goal == [Service!ServiceNext]_promise
<1>0. TypeOK /\ InflightIsPending /\ TasksInv
  BY Zenon DEF RuntimeInv
<1>1. inflight = Service!Pending
  BY <1>0, Zenon DEF InflightIsPending, Service!Pending
<1>2. CASE UNCHANGED vars \/ \E w \in Workers : WorkerStep(w)
  <2>1. UNCHANGED promise
    BY <1>2, Zenon DEF vars, jsVars, taskVars, WorkerStep, CheckCancelled, RunOp, ClearCancelled,
                       PushCompletion, EndJob, RingLoad, RingCall
  <2> QED
    BY <2>1, Zenon
<1>3. CASE CreateBegin \/ CreateEnd \/ SubmitStart \/ SubmitCancel \/ \E j \in Jobs : Abort(j)
  <2>1. UNCHANGED promise
    BY <1>3, Zenon DEF CreateBegin, CreateEnd, SubmitStart, SubmitCancel, Abort, jsVars, taskVars
  <2> QED
    BY <2>1, Zenon
<1>4. CASE DrainBegin \/ DrainDisarm \/ DrainEmpty \/ DrainGrow \/ DrainAgain
  <2>1. UNCHANGED promise
    BY <1>4, Zenon DEF DrainBegin, DrainDisarm, DrainEmpty, DrainGrow, DrainAgain, taskVars
  <2> QED
    BY <2>1, Zenon
<1>5. CASE ShutdownStep
  <2>1. UNCHANGED promise
    BY <1>5, Zenon DEF ShutdownStep, ShutdownBell, ShutdownPool, ShutdownRing, ShutdownArm,
                       ShutdownClose, taskVars
  <2> QED
    BY <2>1, Zenon
<1>6. ASSUME NEW j \in Jobs, NEW k \in Kinds, NEW s \in Signals, SubmitBegin(j, k, s)
      PROVE  Goal
  <2>1. promise[j] = "none" /\ promise' = [promise EXCEPT ![j] = "pending"]
    BY <1>0, <1>6, Zenon DEF SubmitBegin, Submit, TasksInv
  <2> QED
    BY <2>1, Zenon DEF Service!ServiceNext, Service!Accept
<1>7. ASSUME NEW j \in Jobs, SubmitInvalid(j) PROVE Goal
  <2>1. promise[j] = "none" /\ promise' = [promise EXCEPT ![j] = "invalid"]
    BY <1>0, <1>7, Zenon DEF SubmitInvalid, TasksInv
  <2> QED
    BY <2>1, Zenon DEF Service!ServiceNext, Service!Refuse
<1>8. CASE SubmitEnd
  <2>1. CASE UNCHANGED promise
    BY <2>1, Zenon
  <2>2. CASE promise' = [promise EXCEPT ![jarg] = "overloaded"]
    <3> DEFINE r == [t \in {jarg} |-> "overloaded"]
    <3>1. {jarg} \in SUBSET Service!Pending
      BY <1>0, <1>1, <1>8, Zenon DEF SubmitEnd, TasksInv
    <3>2. r \in [{jarg} -> Service!Results]
      BY Zenon DEF Service!Results
    <3>3. promise' = [t \in Jobs |-> IF t \in {jarg} THEN r[t] ELSE promise[t]]
      BY <1>0, <2>2, Zenon DEF TypeOK
    <3> HIDE DEF r
    <3> QED
      BY <1>0, <3>1, <3>2, <3>3, SettleSet, Zenon
  <2> QED
    BY <1>8, <2>1, <2>2, Zenon DEF SubmitEnd
<1>9. CASE DrainConsume
  <2> DEFINE S == inflight \cap Completed
             r == [t \in S |-> StatusOf(t)]
  <2>1. S \in SUBSET Service!Pending
    BY <1>1, Zenon
  <2>2. \A t \in S : StatusOf(t) \in Service!Results
    BY <1>0, StatusOfCompleted, Zenon DEF Status, Service!Results
  <2>3. r \in [S -> Service!Results]
    BY <2>2, Zenon
  <2>4. promise' = [t \in Jobs |-> IF t \in S THEN r[t] ELSE promise[t]]
    BY <1>9, Zenon DEF DrainConsume
  <2> HIDE DEF S, r
  <2> QED
    BY <1>0, <2>1, <2>3, <2>4, SettleSet, Zenon
<1>10. CASE ShutdownCancel
  <2> DEFINE r == [t \in inflight |-> "cancelled"]
  <2>1. r \in [inflight -> Service!Results]
    BY Zenon DEF Service!Results
  <2>2. promise' = [t \in Jobs |-> IF t \in inflight THEN r[t] ELSE promise[t]]
    BY <1>10, Zenon DEF ShutdownCancel
  <2> HIDE DEF r
  <2> QED
    BY <1>0, <1>1, <2>1, <2>2, SettleSet, Zenon
<1> QED
  BY <1>2, <1>3, <1>4, <1>5, <1>6, <1>7, <1>8, <1>9, <1>10, Zenon DEF Next, JSStep, DrainStep

\* The runtime implements the task service for every instance: a promise is
\* settled at most once and never reopened.
THEOREM ServiceCorrect == Spec => RefinesService
<1>1. Init => Service!ServiceInit
  BY Zenon DEF Init, Service!ServiceInit
<1>2. RuntimeInv /\ [Next]_vars => [Service!ServiceNext]_promise
  BY ServiceStep, Zenon
<1> QED
  BY <1>1, <1>2, RuntimeInvariant, PTL DEF Spec, RefinesService, Service!ServiceSpec

-----------------------------------------------------------------------------
(***************************************************************************)
(* The way of a job from the queue to the ring.  A task completes once,    *)
(* its buffer is held while it runs, and a task cancelled while it waits   *)
(* is not run.                                                             *)
(***************************************************************************)
\* The job was admitted and is in no queue and no batch any more, but for the
\* worker that still has to ring for it.
Done(j) ==
    /\ j \in accepted
    /\ ~InQueue(j)
    /\ \A w \in Workers : InBatch(w, j) => j = Job(w) /\ jstep[w] = "ring"

\* A worker that runs no job is ready to check the next one, and a job whose
\* completion is in the ring has no other there and is done.
JobsInv ==
    /\ \A w \in Workers : wpc[w] # "run" => jstep[w] = "check"
    /\ \A i, k \in 1..Len(ring) : ring[i].id = ring[k].id => i = k
    /\ \A j \in Completed : Done(j)

\* The pool has still to push the completion of the job.
Owed(j) ==
    \/ InQueue(j)
    \/ \E w \in Workers : InBatch(w, j) /\ (j = Job(w) => jstep[w] # "ring")

\* Until the first shutdown begins, every job the pool owes a completion for
\* is in the inflight map.
HeldInv ==
    /\ jpc = "submit" => carg[JS] = jarg
    /\ jpc \in {"sh_ring", "sh_arm", "sh_close"} => stops # 0
    /\ stops = 0 /\ jpc \notin Stopping => \A j \in Jobs : Owed(j) => j \in inflight

\* The two ways to say where a job is.
LEMMA ElemsOf ==
  ASSUME NEW j
  PROVE  /\ j \in Elems(queue) <=> InQueue(j)
         /\ \A w \in Workers : j \in Elems(batch[w]) <=> InBatch(w, j)
BY Zenon DEF Elems, InQueue, InBatch

\* The batch of a running worker without the job at its head.
LEMMA RestOfBatch ==
  ASSUME PoolInv, NEW w \in Workers, wpc[w] = "run", NEW j
  PROVE  /\ InBatch(w, Job(w))
         /\ j \in Elems(Tail(batch[w])) <=> InBatch(w, j) /\ j # Job(w)
<1>1. batch[w] \in Seq(Jobs) /\ batch[w] # <<>>
  BY Zenon DEF PoolInv, PoolTypeOK, BatchesBounded
<1> PICK s, h : s = batch[w] /\ h = Head(batch[w])
  BY Zenon
<1>2. /\ Len(s) \in Nat \ {0}
      /\ h = s[1]
      /\ Len(Tail(s)) = Len(s) - 1
      /\ \A i \in 1..(Len(s) - 1) : Tail(s)[i] = s[i + 1]
  BY <1>1, EmptyLen, Headless, Zenon
<1>3. \A i, k \in 1..Len(s) : s[i] = s[k] => i = k
  BY ZenonT(30) DEF PoolInv, EachJobOnce
<1>4. InBatch(w, h)
  <2>1. 1 \in 1..Len(s)
    BY <1>2
  <2> QED
    BY <1>2, <2>1, Zenon DEF InBatch
<1>5. ASSUME j \in Elems(Tail(s)) PROVE InBatch(w, j) /\ j # h
  BY <1>2, <1>3, <1>5 DEF Elems, InBatch
<1>6. ASSUME InBatch(w, j), j # h PROVE j \in Elems(Tail(s))
  <2>1. PICK i \in 1..Len(s) : s[i] = j
    BY <1>6, Zenon DEF InBatch
  <2>2. i - 1 \in 1..(Len(s) - 1) /\ (i - 1) + 1 = i
    BY <1>2, <1>6, <2>1
  <2> QED
    BY <1>2, <2>1, <2>2, Zenon DEF Elems
<1> QED
  BY <1>4, <1>5, <1>6, Zenon DEF Job

\* The job a worker runs is admitted, and in no other place.
LEMMA HeadAlone ==
  ASSUME PoolInv, NEW w \in Workers, wpc[w] = "run"
  PROVE  /\ Job(w) \in Jobs /\ Job(w) \in accepted
         /\ ~InQueue(Job(w))
         /\ \A v \in Workers : InBatch(v, Job(w)) => v = w
<1>1. PICK h \in Jobs : h = Job(w)
  BY RunningJob
<1>2. EachJobOnce /\ InBatch(w, h)
  BY <1>1, RestOfBatch, Zenon DEF PoolInv
<1>3. h \in accepted /\ ~InQueue(h)
  BY <1>2, Zenon DEF EachJobOnce
<1>4. \A v \in Workers : InBatch(v, h) => v = w
  BY <1>2 DEF EachJobOnce, InBatch
<1> QED
  BY <1>1, <1>3, <1>4, Zenon

\* What a step of a worker is to the jobs: it takes a batch, moves on without
\* touching a job, prepares the job at the head, pushes its completion, or is
\* done with it.
LEMMA WorkerKinds ==
  ASSUME TypeOK, PoolInv, NEW w \in Workers, WorkerStep(w)
  PROVE  \/ PopBatch(w) /\ UNCHANGED <<jstep, ring>>
         \/ /\ UNCHANGED <<queue, batch, accepted, jstep, ring>>
            /\ \A v \in Workers : wpc'[v] = "run" <=> wpc[v] = "run"
         \/ /\ UNCHANGED <<poolVars, ring>>
            /\ wpc[w] = "run" /\ jstep[w] # "ring"
            /\ \E p \in {"exec", "clear", "push"} : jstep' = [jstep EXCEPT ![w] = p]
         \/ /\ UNCHANGED poolVars
            /\ wpc[w] = "run" /\ jstep[w] = "push"
            /\ jstep' = [jstep EXCEPT ![w] = "ring"]
            /\ ring' = Append(ring, [id |-> Job(w), status |-> jstatus[w]])
         \/ /\ FinishJob(w)
            /\ jstep' = [jstep EXCEPT ![w] = "check"]
            /\ \/ jstep[w] = "ring" /\ ring' = ring
               \/ /\ jstep[w] = "push"
                  /\ ring' = Append(ring, [id |-> Job(w), status |-> jstatus[w]])
<1>1. CASE WorkerLoop(w) /\ UNCHANGED <<ringVars, jobVars, jsVars>>
  <2>1. CASE PopBatch(w)
    BY <1>1, <2>1, Zenon DEF ringVars, jobVars
  <2>2. CASE CheckRunning(w) \/ LeaveIfEmpty(w) \/ Park(w) \/ WakeUp(w)
    <3>1. UNCHANGED <<queue, batch, accepted>> /\ wpc[w] # "run"
      BY <2>2, Zenon DEF CheckRunning, LeaveIfEmpty, Park, WakeUp
    <3>2. PICK p \in WorkerPlaces \ {"run"} : wpc' = [wpc EXCEPT ![w] = p]
      BY <2>2, Zenon DEF CheckRunning, LeaveIfEmpty, Park, WakeUp, WorkerPlaces
    <3>3. \A v \in Workers : wpc'[v] = "run" <=> wpc[v] = "run"
      BY <3>1, <3>2, Zenon DEF PoolInv, PoolTypeOK
    <3> QED
      BY <1>1, <3>1, <3>3, Zenon DEF ringVars, jobVars
  <2> QED
    BY <1>1, <2>1, <2>2, Zenon DEF WorkerLoop
<1>2. CASE CheckCancelled(w) \/ RunOp(w) \/ ClearCancelled(w)
  BY <1>2, Zenon DEF CheckCancelled, RunOp, ClearCancelled, ringVars
<1>3. CASE PushCompletion(w)
  BY <1>3, Zenon DEF PushCompletion, EndJob, Push
<1>4. CASE RingCall(w)
  BY <1>4, Zenon DEF RingCall, EndJob, CallBell
<1>5. CASE RingLoad(w)
  BY <1>5, Zenon DEF RingLoad, EndJob, LoadBell, poolVars, jobVars
<1> QED
  BY <1>1, <1>2, <1>3, <1>4, <1>5, Zenon DEF WorkerStep

\* Of the JS thread's steps only the end of a submit moves a job, and none
\* puts a completion into the ring.
LEMMA ThreadFrame ==
  ASSUME TypeOK, [Next]_vars
  PROVE  \/ \E w \in Workers : WorkerStep(w)
         \/ SubmitEnd
         \/ /\ UNCHANGED <<queue, batch, accepted, jstep>>
            /\ ring' \in {ring, <<>>}
            /\ \A w \in Workers : wpc'[w] = "run" <=> wpc[w] = "run"
<1> DEFINE Frame == /\ UNCHANGED <<queue, batch, accepted, jstep>>
                    /\ ring' \in {ring, <<>>}
                    /\ \A w \in Workers : wpc'[w] = "run" <=> wpc[w] = "run"
<1>1. CASE UNCHANGED vars
  BY <1>1, Zenon DEF vars, poolVars, ringVars, jobVars
<1>2. CASE CreateBegin \/ CreateEnd
  BY <1>2, Zenon DEF CreateBegin, InitPool, CreateEnd, SetDoorbell, poolVars, ringVars, jobVars
<1>3. ASSUME NEW j \in Jobs,
             \/ SubmitInvalid(j)
             \/ Abort(j)
             \/ \E k \in Kinds, s \in Signals : SubmitBegin(j, k, s)
      PROVE  Frame
  BY <1>3, Zenon DEF SubmitInvalid, Abort, SubmitBegin, Submit, EnsureDoorbell, SetDoorbell,
                     poolVars, ringVars, jobVars
<1>4. CASE SubmitStart
  <2>1. UNCHANGED <<queue, batch, accepted, jstep, ring>>
    BY <1>4, Zenon DEF SubmitStart, StartSwap, Spawn, ringVars, jobVars
  <2>2. \A w \in Workers : wpc'[w] = "run" <=> wpc[w] = "run"
    <3>1. CASE StartSwap(JS)
      BY <3>1, Zenon DEF StartSwap
    <3>2. CASE Spawn(JS)
      <4>1. PICK S \in SUBSET {w \in Workers : wpc[w] = "absent"} :
                 wpc' = [w \in Workers |-> IF w \in S THEN "pop" ELSE wpc[w]]
        BY <3>2, Zenon DEF Spawn
      <4> QED
        BY <4>1, Zenon
    <3> QED
      BY <1>4, <3>1, <3>2, Zenon DEF SubmitStart
  <2> QED
    BY <2>1, <2>2, Zenon
<1>5. CASE SubmitCancel
  BY <1>5, Zenon DEF SubmitCancel, poolVars, ringVars
<1>6. CASE DrainBegin \/ DrainStep
  BY <1>6, Zenon DEF DrainBegin, TakeBell, DrainStep, DrainDisarm, Disarm, DrainEmpty,
                     DrainConsume, TakeAll, DrainGrow, DrainAgain, poolVars, ringVars, jobVars
<1>7. CASE ShutdownCancel \/ ShutdownStep
  BY <1>7, Zenon DEF ShutdownCancel, ShutdownStep, ShutdownBell, SetDoorbell, ShutdownPool,
                     StopPool, ShutdownRing, ClearRing, ShutdownArm, ClearArmed, Disarm,
                     ShutdownClose, CloseBell, poolVars, ringVars, jobVars
<1> QED
  BY <1>1, <1>2, <1>3, <1>4, <1>5, <1>6, <1>7, Zenon DEF Next, JSStep

\* What the end of a submit does to the jobs: the one submitted is new to the
\* queue, if it gets there.
LEMMA SubmitMoves ==
  ASSUME TypeOK, PoolInv, SubmitEnd
  PROVE  /\ UNCHANGED <<batch, wpc, jstep, ring>>
         /\ carg[JS] \in Jobs /\ carg[JS] \notin accepted
         /\ \/ UNCHANGED <<queue, accepted>> /\ Len(queue) >= QueueMax
            \/ /\ ~(Len(queue) >= QueueMax)
               /\ accepted' = accepted \cup {carg[JS]}
               /\ \A k : InQueue(k)' <=> InQueue(k) \/ k = carg[JS]
<1>1. UNCHANGED <<batch, wpc, jstep, ring>> /\ TryEnqueue(JS) /\ JS \in Callers
  BY RuntimeAssumption, Zenon DEF SubmitEnd, TryEnqueue, ringVars, jobVars
<1>2. carg[JS] \in Jobs /\ carg[JS] \notin accepted
  BY <1>1, Zenon DEF TryEnqueue, PoolInv, CallersInv, Submitting, PoolTypeOK
<1>3. CASE Len(queue) >= QueueMax
  BY <1>1, <1>2, <1>3, Zenon DEF TryEnqueue
<1>4. CASE ~(Len(queue) >= QueueMax)
  <2>1. queue' = Append(queue, carg[JS]) /\ accepted' = accepted \cup {carg[JS]}
    BY <1>1, <1>4, Zenon DEF TryEnqueue
  <2> PICK j \in Jobs : j = carg[JS]
    BY <1>2, Zenon
  <2>2. \A k : InQueue(k)' <=> InQueue(k) \/ k = j
    BY <2>1, EnqueueMoves, Zenon DEF PoolInv
  <2> QED
    BY <1>1, <1>2, <1>4, <2>1, <2>2, Zenon
<1> QED
  BY <1>3, <1>4, Zenon

\* A completion is pushed for a job that has none.
LEMMA PushOnce ==
  ASSUME TypeOK, JobsInv, NEW j \in Jobs, NEW s \in Status, j \notin Completed,
         ring' = Append(ring, [id |-> j, status |-> s])
  PROVE  /\ Completed' = Completed \cup {j}
         /\ \A i, k \in 1..Len(ring') : ring'[i].id = ring'[k].id => i = k
<1> DEFINE e == [id |-> j, status |-> s]
<1>1. ring \in Seq([id : Jobs, status : Status]) /\ e \in [id : Jobs, status : Status]
  BY Zenon DEF TypeOK
<1>2. /\ Len(ring') = Len(ring) + 1
      /\ Len(ring) \in Nat
      /\ \A i \in 1..Len(ring) : ring'[i] = ring[i]
      /\ ring'[Len(ring) + 1] = e
  BY <1>1, Appended
<1>3. e.id = j
  OBVIOUS
<1> HIDE DEF e
<1>4. \A i \in 1..Len(ring) : ring[i].id # j
  BY Zenon DEF Completed
<1>5. \A i, k \in 1..Len(ring) : ring[i].id = ring[k].id => i = k
  BY Zenon DEF JobsInv
<1>6. \A i, k \in 1..Len(ring') : ring'[i].id = ring'[k].id => i = k
  BY <1>2, <1>3, <1>4, <1>5
<1> QED
  BY <1>6, CompletedAppend, Zenon

\* The steps of a worker keep the jobs apart.
LEMMA JobsWorker ==
  ASSUME TypeOK, PoolInv, JobsInv, NEW w \in Workers, WorkerStep(w)
  PROVE  JobsInv'
<1>0. /\ PoolTypeOK /\ BatchesBounded /\ EachJobOnce
      /\ jstep \in [Workers -> {"check", "exec", "clear", "push", "ring"}]
      /\ wpc \in [Workers -> WorkerPlaces]
  BY Zenon DEF PoolInv, TypeOK, PoolTypeOK
<1>2. CASE PopBatch(w) /\ UNCHANGED <<jstep, ring>>
  <2>1. /\ wpc[w] = "pop" /\ accepted' = accepted /\ Completed' = Completed
        /\ \A v \in Workers : v # w => wpc'[v] = wpc[v]
    BY <1>0, <1>2, Zenon DEF PopBatch, Completed
  <2>2. /\ \A v \in Workers : v # w => batch'[v] = batch[v]
        /\ \A v \in Workers : v # w => \A j : InBatch(v, j)' <=> InBatch(v, j)
        /\ \A j : InQueue(j) <=> InQueue(j)' \/ InBatch(w, j)'
    BY <1>0, <1>2, PopMoves, Zenon
  <2>3. \A v \in Workers : v # w => Job(v)' = Job(v)
    BY <2>2, Zenon DEF Job
  <2>4. jstep[w] = "check"
    BY <2>1, Zenon DEF JobsInv
  <2>5. \A v \in Workers : wpc'[v] # "run" => jstep'[v] = "check"
    BY <1>2, <2>1, <2>4, Zenon DEF JobsInv
  <2>6. ASSUME NEW j, Done(j) PROVE Done(j)'
    BY <1>2, <2>1, <2>2, <2>3, <2>6, Zenon DEF Done
  <2> QED
    BY <1>2, <2>1, <2>5, <2>6, Zenon DEF JobsInv
<1>3. ASSUME UNCHANGED <<queue, batch, accepted, jstep, ring>>,
             \A v \in Workers : wpc'[v] = "run" <=> wpc[v] = "run"
      PROVE  JobsInv'
  <2>1. Completed' = Completed
    BY <1>3, Zenon DEF Completed
  <2>2. ASSUME NEW j, Done(j) PROVE Done(j)'
    BY <1>3, <2>2, Zenon DEF Done, InQueue, InBatch, Job
  <2> QED
    BY <1>3, <2>1, <2>2, Zenon DEF JobsInv
<1>4. ASSUME UNCHANGED <<poolVars, ring>>, wpc[w] = "run", jstep[w] # "ring",
             NEW p \in {"exec", "clear", "push"}, jstep' = [jstep EXCEPT ![w] = p]
      PROVE  JobsInv'
  <2>1. UNCHANGED <<queue, batch, accepted, wpc>> /\ Completed' = Completed
    BY <1>4, Zenon DEF poolVars, Completed
  <2>2. \A v \in Workers : jstep[v] = "ring" \/ wpc[v] # "run" => jstep'[v] = jstep[v]
    BY <1>0, <1>4, Zenon
  <2>3. ASSUME NEW j, Done(j) PROVE Done(j)'
    BY <2>1, <2>2, <2>3, Zenon DEF Done, InQueue, InBatch, Job
  <2>4. \A v \in Workers : wpc'[v] # "run" => jstep'[v] = "check"
    BY <2>1, <2>2, Zenon DEF JobsInv
  <2> QED
    BY <1>4, <2>1, <2>3, <2>4, Zenon DEF JobsInv
<1>5. ASSUME UNCHANGED poolVars, wpc[w] = "run", jstep[w] = "push",
             jstep' = [jstep EXCEPT ![w] = "ring"],
             ring' = Append(ring, [id |-> Job(w), status |-> jstatus[w]])
      PROVE  JobsInv'
  <2>1. UNCHANGED <<queue, batch, accepted, wpc>>
    BY <1>5, Zenon DEF poolVars
  <2> PICK h, s : h = Job(w) /\ s = jstatus[w]
    OBVIOUS
  <2>2. h \in Jobs /\ s \in Status /\ InBatch(w, h)
    BY <1>5, RunningJob, RestOfBatch, Zenon DEF TypeOK
  <2>3. h \notin Completed
    BY <1>5, <2>2, Zenon DEF JobsInv, Done
  <2>4. /\ Completed' = Completed \cup {h}
        /\ \A i, k \in 1..Len(ring') : ring'[i].id = ring'[k].id => i = k
    BY <1>5, <2>2, <2>3, PushOnce, Zenon
  <2>5. /\ h \in accepted /\ ~InQueue(h)
        /\ \A v \in Workers : InBatch(v, h) => v = w
    BY <1>5, HeadAlone, Zenon
  <2>6. jstep'[w] = "ring" /\ \A v \in Workers : v # w => jstep'[v] = jstep[v]
    BY <1>0, <1>5, Zenon
  <2>7. \A v \in Workers : wpc'[v] # "run" => jstep'[v] = "check"
    BY <1>5, <2>1, <2>6, Zenon DEF JobsInv
  <2>8. ASSUME NEW j, Done(j) PROVE Done(j)'
    BY <1>5, <2>1, <2>6, <2>8, Zenon DEF Done, InQueue, InBatch, Job
  <2>9. Done(h)'
    BY <2>1, <2>5, <2>6 DEF Done, InQueue, InBatch, Job
  <2> QED
    BY <2>4, <2>7, <2>8, <2>9, Zenon DEF JobsInv
<1>6. ASSUME FinishJob(w), jstep' = [jstep EXCEPT ![w] = "check"],
             \/ jstep[w] = "ring" /\ ring' = ring
             \/ /\ jstep[w] = "push"
                /\ ring' = Append(ring, [id |-> Job(w), status |-> jstatus[w]])
      PROVE  JobsInv'
  <2>1. wpc[w] = "run" /\ UNCHANGED <<queue, accepted>>
    BY <1>6, Zenon DEF FinishJob
  <2> PICK h, s : h = Job(w) /\ s = jstatus[w]
    OBVIOUS
  <2>2. h \in Jobs /\ s \in Status /\ InBatch(w, h)
    BY <2>1, RunningJob, RestOfBatch, Zenon DEF TypeOK
  <2>3. /\ \A v \in Workers : v # w => batch'[v] = batch[v] /\ wpc'[v] = wpc[v]
        /\ \A v \in Workers : v # w => \A j : InBatch(v, j)' <=> InBatch(v, j)
        /\ \A j : InBatch(w, j)' <=> InBatch(w, j) /\ j # h
    BY <1>0, <1>6, FinishMoves, Zenon DEF FinishJob, Job
  <2>4. /\ Completed' \subseteq Completed \cup {h}
        /\ \A i, k \in 1..Len(ring') : ring'[i].id = ring'[k].id => i = k
    <3>1. CASE ring' = ring
      BY <3>1, Zenon DEF JobsInv, Completed
    <3>2. CASE /\ jstep[w] = "push"
               /\ ring' = Append(ring, [id |-> Job(w), status |-> jstatus[w]])
      <4>1. h \notin Completed
        BY <2>2, <3>2, Zenon DEF JobsInv, Done
      <4> QED
        BY <2>2, <3>2, <4>1, PushOnce, Zenon
    <3> QED
      BY <1>6, <3>1, <3>2, Zenon
  <2>5. /\ h \in accepted /\ ~InQueue(h)
        /\ \A v \in Workers : InBatch(v, h) => v = w
    BY <2>1, HeadAlone, Zenon
  <2>6. jstep'[w] = "check" /\ \A v \in Workers : v # w => jstep'[v] = jstep[v]
    BY <1>0, <1>6, Zenon
  <2>7. \A v \in Workers : wpc'[v] # "run" => jstep'[v] = "check"
    BY <2>3, <2>6, ZenonT(30) DEF JobsInv
  <2>8. ASSUME NEW j, Done(j) PROVE Done(j)'
    BY <2>1, <2>3, <2>6, <2>8, Zenon DEF Done, InQueue, Job
  <2>9. Done(h)'
    BY <2>1, <2>3, <2>5, Zenon DEF Done, InQueue
  <2> QED
    BY <2>4, <2>7, <2>8, <2>9, Zenon DEF JobsInv
<1> QED
  BY <1>2, <1>3, <1>4, <1>5, <1>6, WorkerKinds, Zenon

\* Every step keeps the jobs apart.
LEMMA JobsStep ==
  ASSUME TypeOK, PoolInv, JobsInv, [Next]_vars
  PROVE  JobsInv'
<1>1. \A j \in Completed : j \in Jobs
  BY StatusOfCompleted, Zenon
<1>2. ASSUME UNCHANGED <<queue, batch, accepted, jstep>>, ring' \in {ring, <<>>},
             \A w \in Workers : wpc'[w] = "run" <=> wpc[w] = "run"
      PROVE  JobsInv'
  <2>0. 1..Len(<<>>) = {}
    OBVIOUS
  <2>1. Completed' \subseteq Completed
    BY <1>2, <2>0, Zenon DEF Completed
  <2>2. \A i, k \in 1..Len(ring') : ring'[i].id = ring'[k].id => i = k
    BY <1>2, <2>0, Zenon DEF JobsInv
  <2>3. ASSUME NEW j, Done(j) PROVE Done(j)'
    BY <1>2, <2>3 DEF Done, InQueue, InBatch, Job
  <2> QED
    BY <1>2, <2>1, <2>2, <2>3, Zenon DEF JobsInv
<1>3. CASE SubmitEnd
  <2>1. /\ UNCHANGED <<batch, wpc, jstep, ring>>
        /\ carg[JS] \in Jobs /\ carg[JS] \notin accepted
    BY <1>3, SubmitMoves, Zenon
  <2>2. Completed' = Completed
    BY <2>1, Zenon DEF Completed
  <2>3. /\ \A k \in Jobs : InQueue(k)' => InQueue(k) \/ k = carg[JS]
        /\ accepted \subseteq accepted'
    <3>1. CASE UNCHANGED <<queue, accepted>>
      BY <3>1, Zenon DEF InQueue
    <3> QED
      BY <1>3, <3>1, SubmitMoves, Zenon
  <2>4. ASSUME NEW j \in Jobs, Done(j) PROVE Done(j)'
    BY <2>1, <2>3, <2>4 DEF Done, InBatch, Job
  <2> QED
    BY <1>1, <2>1, <2>2, <2>4, Zenon DEF JobsInv
<1> QED
  BY <1>2, <1>3, ThreadFrame, JobsWorker, Zenon

\* A job that has a completion is owed none: no slot of the queue and no
\* worker has still to push one.
LEMMA JobsComplete ==
  ASSUME PoolInv, JobsInv
  PROVE  CompletesOnce
<1>1. ASSUME NEW j \in Completed, NEW w \in Workers PROVE j \notin Unpushed(w)
  <2>1. CASE jstep[w] = "ring"
    <3>1. wpc[w] = "run"
      BY <2>1, Zenon DEF JobsInv
    <3>2. j \in Elems(Tail(batch[w])) => InBatch(w, j) /\ j # Job(w)
      BY <3>1, RestOfBatch, Zenon
    <3> QED
      BY <2>1, <3>2, Zenon DEF JobsInv, Done, Unpushed
  <2>2. CASE jstep[w] # "ring"
    BY <2>2, ElemsOf, Zenon DEF JobsInv, Done, Unpushed
  <2> QED
    BY <2>1, <2>2, Zenon
<1> QED
  BY <1>1, ElemsOf, Zenon DEF JobsInv, Done, CompletesOnce

\* A process that has not created its runtime has no jobs.
LEMMA JobsInit ==
  ASSUME Init
  PROVE  JobsInv
<1>1. ring = <<>> /\ jstep = [w \in Workers |-> "check"]
  BY Zenon DEF Init, RingInit
<1>2. Completed = {} /\ \A i, k \in 1..Len(ring) : ring[i].id = ring[k].id => i = k
  BY <1>1 DEF Completed
<1> QED
  BY <1>1, <1>2, Zenon DEF JobsInv

\* The jobs are kept apart throughout.
THEOREM JobsInvariant == Spec => []JobsInv
<1>1. Init => JobsInv
  BY JobsInit, Zenon
<1>2. RuntimeInv /\ JobsInv /\ [Next]_vars => JobsInv'
  BY JobsStep, Zenon DEF RuntimeInv
<1> QED
  BY <1>1, <1>2, RuntimeInvariant, PTL DEF Spec

\* A task completes once: the ring never holds two completions of one task,
\* and while it holds one nobody has still to push another, for any number of
\* workers, tasks and shutdowns.
THEOREM CompletesOnceCorrect == Spec => []CompletesOnce
<1>1. RuntimeInv /\ JobsInv => CompletesOnce
  BY JobsComplete, Zenon DEF RuntimeInv
<1> QED
  BY <1>1, RuntimeInvariant, JobsInvariant, PTL

-----------------------------------------------------------------------------
\* A job is owed a completion only if it was admitted.
LEMMA OwedAccepted ==
  ASSUME PoolInv, NEW j \in Jobs, Owed(j)
  PROVE  j \in accepted
BY Zenon DEF Owed, PoolInv, EachJobOnce

\* No worker makes the pool owe a completion it did not owe before.
LEMMA OwedWorker ==
  ASSUME TypeOK, PoolInv, JobsInv, NEW w \in Workers, WorkerStep(w), NEW j, Owed(j)'
  PROVE  Owed(j)
<1>0. /\ PoolTypeOK /\ BatchesBounded /\ EachJobOnce
      /\ jstep \in [Workers -> {"check", "exec", "clear", "push", "ring"}]
  BY Zenon DEF PoolInv, TypeOK
<1>1. CASE PopBatch(w) /\ UNCHANGED <<jstep, ring>>
  <2>1. /\ \A v \in Workers : v # w => batch'[v] = batch[v]
        /\ \A v \in Workers : v # w => \A k : InBatch(v, k)' <=> InBatch(v, k)
        /\ \A k : InQueue(k) <=> InQueue(k)' \/ InBatch(w, k)'
    BY <1>0, <1>1, PopMoves, Zenon
  <2> QED
    BY <1>1, <2>1, Zenon DEF Owed, Job
<1>2. ASSUME UNCHANGED <<queue, batch, jstep>> PROVE Owed(j)
  BY <1>2, Zenon DEF Owed, InQueue, InBatch, Job
<1>3. ASSUME UNCHANGED <<queue, batch>>, jstep[w] # "ring",
             NEW p \in {"exec", "clear", "push", "ring"}, jstep' = [jstep EXCEPT ![w] = p]
      PROVE  Owed(j)
  <2>1. \A v \in Workers : jstep[v] = "ring" => jstep'[v] = "ring"
    BY <1>0, <1>3, Zenon
  <2> QED
    BY <1>3, <2>1 DEF Owed, InQueue, InBatch, Job
<1>4. ASSUME FinishJob(w), jstep' = [jstep EXCEPT ![w] = "check"] PROVE Owed(j)
  <2>1. /\ \A v \in Workers : v # w => batch'[v] = batch[v]
        /\ \A v \in Workers : v # w => \A k : InBatch(v, k)' <=> InBatch(v, k)
        /\ \A k : InBatch(w, k)' <=> InBatch(w, k) /\ k # Job(w)
    BY <1>0, <1>4, FinishMoves, Zenon DEF Job
  <2>2. \A v \in Workers : v # w => jstep'[v] = jstep[v]
    BY <1>0, <1>4, Zenon
  <2>3. queue' = queue
    BY <1>4, Zenon DEF FinishJob
  <2> QED
    BY <2>1, <2>2, <2>3, Zenon DEF Owed, InQueue, Job
<1>5. UNCHANGED poolVars => UNCHANGED <<queue, batch>>
  BY Zenon DEF poolVars
<1> QED
  BY <1>1, <1>2, <1>3, <1>4, <1>5, WorkerKinds, Zenon

\* What the steps of the JS thread other than the end of a submit do to the
\* map: outside shutdown() only a drain takes tasks out, completed ones.
LEMMA ThreadHolds ==
  ASSUME TypeOK, HeldInv, [Next]_vars, ~SubmitEnd, \A w \in Workers : ~WorkerStep(w)
  PROVE  /\ jpc' = "submit" => carg'[JS] = jarg'
         /\ jpc' \in {"sh_ring", "sh_arm", "sh_close"} => stops' # 0
         /\ \/ stops' # 0
            \/ jpc' \in Stopping
            \/ /\ stops' = stops /\ jpc \notin Stopping
               /\ inflight \ Completed \subseteq inflight'
<1> USE DEF HeldInv, Stopping, Muting
<1>1. CASE UNCHANGED vars
  BY <1>1, Zenon DEF vars, poolVars, jsVars, taskVars
<1>2. CASE CreateBegin \/ CreateEnd
  BY <1>2, Zenon DEF CreateBegin, InitPool, CreateEnd, poolVars, taskVars
<1>3. ASSUME NEW j \in Jobs, NEW k \in Kinds, NEW s \in Signals, SubmitBegin(j, k, s)
      PROVE  /\ jpc' = "submit" /\ jpc = "idle" /\ carg'[JS] = jarg'
             /\ stops' = stops /\ inflight \subseteq inflight'
  BY <1>3, RuntimeAssumption, Zenon DEF SubmitBegin, Submit, TypeOK, PoolTypeOK
<1>4. ASSUME NEW j \in Jobs, SubmitInvalid(j) \/ Abort(j)
      PROVE  /\ jpc' = "idle" /\ jpc = "idle" /\ UNCHANGED <<stops, inflight>>
  BY <1>4, Zenon DEF SubmitInvalid, Abort, poolVars
<1>5. CASE SubmitStart
  BY <1>5, Zenon DEF SubmitStart, StartSwap, Spawn, jsVars, taskVars
<1>6. CASE SubmitCancel
  BY <1>6, Zenon DEF SubmitCancel, poolVars, taskVars
<1>7. CASE DrainBegin \/ DrainStep
  <2>1. jpc \in {"idle", "disarm", "take"} /\ jpc' \in {"idle", "disarm", "take"}
    BY <1>7, Zenon DEF DrainBegin, DrainStep, DrainDisarm, DrainEmpty, DrainConsume, DrainGrow,
                       DrainAgain, EndTurn
  <2>2. stops' = stops /\ inflight \ Completed \subseteq inflight'
    BY <1>7, Zenon DEF DrainBegin, DrainStep, DrainDisarm, DrainEmpty, DrainConsume, DrainGrow,
                       DrainAgain, poolVars, taskVars
  <2> QED
    BY <2>1, <2>2, Zenon
<1>8. CASE ShutdownCancel \/ ShutdownBell
  BY <1>8, Zenon DEF ShutdownCancel, ShutdownBell
<1>9. CASE ShutdownPool
  <2>1. stops' # 0
    BY <1>9 DEF ShutdownPool, StopPool, TypeOK, PoolTypeOK
  <2> QED
    BY <1>9, <2>1, Zenon DEF ShutdownPool
<1>10. CASE ShutdownRing \/ ShutdownArm \/ ShutdownClose
  BY <1>10, Zenon DEF ShutdownRing, ShutdownArm, ShutdownClose, poolVars
<1> QED
  BY <1>1, <1>2, <1>3, <1>4, <1>5, <1>6, <1>7, <1>8, <1>9, <1>10, ZenonT(30)
     DEF Next, JSStep, ShutdownStep

\* Every step keeps what the pool owes in the map, until shutdown() begins.
LEMMA HeldStep ==
  ASSUME TypeOK, PoolInv, TasksInv, JobsInv, HeldInv, [Next]_vars
  PROVE  HeldInv'
<1>1. ASSUME NEW w \in Workers, WorkerStep(w) PROVE HeldInv'
  <2>1. UNCHANGED <<jpc, jarg, inflight>>
    BY <1>1, WorkerFrame, Zenon DEF jsVars, taskVars
  <2>2. UNCHANGED <<carg, stops>>
    BY <1>1, Zenon DEF WorkerStep, CheckCancelled, RunOp, ClearCancelled, PushCompletion, EndJob,
                       RingLoad, RingCall, FinishJob, WorkerLoop, PopBatch, CheckRunning,
                       LeaveIfEmpty, Park, WakeUp, poolVars
  <2>3. \A j \in Jobs : Owed(j)' => Owed(j)
    BY <1>1, OwedWorker, Zenon
  <2> QED
    BY <2>1, <2>2, <2>3, Zenon DEF HeldInv
<1>2. CASE SubmitEnd
  <2>1. jpc = "submit" /\ jpc' \in {"idle", "cancel"} /\ stops' = stops
    BY <1>2, Zenon DEF SubmitEnd, TryEnqueue
  <2>2. carg[JS] = jarg /\ jarg \in inflight
    BY <2>1, Zenon DEF HeldInv, TasksInv
  <2>3. UNCHANGED <<batch, jstep>> /\ jarg \notin accepted
    BY <1>2, <2>2, SubmitMoves, Zenon
  <2>4. CASE UNCHANGED queue /\ Len(queue) >= QueueMax
    <3>1. inflight' = inflight \ {jarg}
      BY <1>2, <2>4, Zenon DEF SubmitEnd
    <3>2. ASSUME NEW j \in Jobs, Owed(j)' PROVE Owed(j) /\ j # jarg
      <4>1. Owed(j)
        BY <2>3, <2>4, <3>2, Zenon DEF Owed, InQueue, InBatch, Job
      <4> QED
        BY <2>3, <4>1, OwedAccepted, Zenon
    <3> QED
      BY <2>1, <3>1, <3>2, Zenon DEF HeldInv, Stopping, Muting
  <2>5. CASE /\ ~(Len(queue) >= QueueMax)
             /\ \A k : InQueue(k)' <=> InQueue(k) \/ k = carg[JS]
    <3>1. inflight' = inflight
      BY <1>2, <2>5, Zenon DEF SubmitEnd
    <3>2. ASSUME NEW j \in Jobs, Owed(j)' PROVE Owed(j) \/ j = jarg
      BY <2>2, <2>3, <2>5, <3>2, Zenon DEF Owed, InBatch, Job
    <3> QED
      BY <2>1, <2>2, <3>1, <3>2, Zenon DEF HeldInv, Stopping, Muting
  <2> QED
    BY <1>2, <2>4, <2>5, SubmitMoves, Zenon
<1>3. CASE ~SubmitEnd /\ \A w \in Workers : ~WorkerStep(w)
  <2>1. UNCHANGED <<queue, batch, jstep>>
    BY <1>3, ThreadFrame, Zenon
  <2>2. ASSUME NEW j \in Jobs, Owed(j)' PROVE Owed(j)
    BY <2>1, <2>2, ZenonT(30) DEF Owed, InQueue, InBatch, Job
  <2>3. \A j \in Jobs : Owed(j) => j \notin Completed
    BY Zenon DEF Owed, JobsInv, Done
  <2> QED
    BY <1>3, <2>2, <2>3, ThreadHolds, Zenon DEF HeldInv
<1> QED
  BY <1>1, <1>2, <1>3, Zenon

\* The invariant holds throughout.
THEOREM HeldInvariant == Spec => []HeldInv
<1>1. Init => HeldInv
  <2>1. Init => jpc = "unborn" /\ queue = <<>> /\ batch = [w \in Workers |-> <<>>]
    BY Zenon DEF Init, PoolInit
  <2>2. Init => \A j : ~Owed(j)
    BY <2>1 DEF Owed, InQueue, InBatch
  <2> QED
    BY <2>1, <2>2, Zenon DEF HeldInv
<1>2. RuntimeInv /\ JobsInv /\ HeldInv /\ [Next]_vars => HeldInv'
  BY HeldStep, Zenon DEF RuntimeInv
<1> QED
  BY <1>1, <1>2, RuntimeInvariant, JobsInvariant, PTL DEF Spec

\* A worker runs a job on a zero-copy buffer only while the inflight map
\* holds the buffer, for any number of workers and tasks, until the first
\* shutdown() begins; shutdown() lets go of the buffers of the running jobs.
THEOREM BufferHeldCorrect == Spec => [](stops = 0 /\ jpc \notin Stopping => BufferHeld)
<1> DEFINE Held == stops = 0 /\ jpc \notin Stopping => BufferHeld
<1>1. RuntimeInv /\ HeldInv => Held
  <2>1. ASSUME PoolInv, NEW w \in Workers, wpc[w] = "run", jstep[w] = "exec"
        PROVE  Job(w) \in Jobs /\ Owed(Job(w))
    BY <2>1, HeadAlone, RestOfBatch, Zenon DEF Owed
  <2> QED
    BY <2>1, Zenon DEF RuntimeInv, HeldInv, BufferHeld
<1> HIDE DEF Held
<1>2. Spec => []Held
  BY <1>1, RuntimeInvariant, HeldInvariant, PTL
<1> QED
  BY <1>2 DEF Held

-----------------------------------------------------------------------------
\* Waiting, in terms of places.
Waits(j) ==
    \/ InQueue(j)
    \/ \E w \in Workers : InBatch(w, j) /\ (j = Job(w) => jstep[w] = "check")

\* The two say the same.
LEMMA WaitingWaits ==
  ASSUME NEW j
  PROVE  (Waiting(j) <=> Waits(j)) /\ (Waiting(j)' <=> Waits(j)')
<1>1. Waiting(j) <=> Waits(j)
  BY ElemsOf, Zenon DEF Waiting, Waits
<1>2. /\ (j \in Elems(queue))' <=> InQueue(j)'
      /\ \A w \in Workers : (j \in Elems(batch[w]))' <=> InBatch(w, j)'
  BY Zenon DEF Elems, InQueue, InBatch
<1> QED
  BY <1>1, <1>2, Zenon DEF Waiting, Waits

\* A worker past the check of its job has started it.
LEMMA StartedNotWaiting ==
  ASSUME PoolInv, NEW w \in Workers, wpc[w] = "run", jstep[w] # "check", NEW j, Waits(j)
  PROVE  j # Job(w)
<1> PICK h : h = Job(w)
  OBVIOUS
<1>1. ~InQueue(h) /\ \A v \in Workers : InBatch(v, h) => v = w
  BY HeadAlone, Zenon
<1> QED
  BY <1>1, Zenon DEF Waits

\* A job that waits goes on waiting while a worker moves on with another.
LEMMA WaitsOn ==
  ASSUME TypeOK, PoolInv, NEW w \in Workers, NEW j, Waits(j), j # Job(w)
  PROVE  /\ \A p : UNCHANGED <<queue, batch>> /\ jstep' = [jstep EXCEPT ![w] = p] => Waits(j)'
         /\ FinishJob(w) /\ jstep' = [jstep EXCEPT ![w] = "check"] => Waits(j)'
<1>0. /\ PoolTypeOK /\ BatchesBounded /\ EachJobOnce
      /\ jstep \in [Workers -> {"check", "exec", "clear", "push", "ring"}]
  BY Zenon DEF PoolInv, TypeOK
<1>1. ASSUME NEW p, UNCHANGED <<queue, batch>>, jstep' = [jstep EXCEPT ![w] = p]
      PROVE  Waits(j)'
  <2>1. \A v \in Workers : v # w => jstep'[v] = jstep[v]
    BY <1>0, <1>1, Zenon
  <2> QED
    BY <1>1, <2>1 DEF Waits, InQueue, InBatch, Job
<1>2. ASSUME FinishJob(w), jstep' = [jstep EXCEPT ![w] = "check"] PROVE Waits(j)'
  <2>1. /\ \A v \in Workers : v # w => batch'[v] = batch[v]
        /\ \A v \in Workers : v # w => (InBatch(v, j)' <=> InBatch(v, j))
        /\ InBatch(w, j)' <=> InBatch(w, j) /\ j # Job(w)
    BY <1>0, <1>2, FinishMoves, Zenon DEF Job
  <2>2. jstep'[w] = "check" /\ \A v \in Workers : v # w => jstep'[v] = jstep[v]
    BY <1>0, <1>2, Zenon
  <2>3. queue' = queue
    BY <1>2, Zenon DEF FinishJob
  <2> QED
    BY <2>1, <2>2, <2>3, Zenon DEF Waits, InQueue, Job
<1> QED
  BY <1>1, <1>2, Zenon

\* A worker leaves the mark of a waiting job alone, or finds it.
LEMMA CancelWorker ==
  ASSUME TypeOK, PoolInv, JobsInv, NEW w \in Workers, WorkerStep(w),
         NEW j \in cancelled, Waits(j)
  PROVE  \/ j \in cancelled' /\ Waits(j)'
         \/ wpc[w] = "run" /\ Job(w) = j /\ jstep'[w] = "clear" /\ jstatus'[w] = "cancelled"
<1>0. /\ PoolTypeOK
      /\ jstep \in [Workers -> {"check", "exec", "clear", "push", "ring"}]
      /\ w \in DOMAIN jstatus /\ w \in DOMAIN jstep
  BY Zenon DEF PoolInv, TypeOK
<1>1. CASE WorkerLoop(w) /\ UNCHANGED <<ringVars, jobVars, jsVars>>
  <2>1. UNCHANGED <<jstep, cancelled>>
    BY <1>1, Zenon DEF jobVars
  <2>2. CASE PopBatch(w)
    <3>1. wpc[w] = "pop" /\ jstep[w] = "check"
      BY <2>2, Zenon DEF PopBatch, JobsInv
    <3>2. batch[w] = <<>>
      BY <3>1, Zenon DEF PoolInv, BatchesBounded
    <3>3. ~InBatch(w, j)
      BY <3>2 DEF InBatch
    <3>4. /\ \A v \in Workers : v # w => batch'[v] = batch[v]
          /\ \A v \in Workers : v # w => (InBatch(v, j)' <=> InBatch(v, j))
          /\ InQueue(j) <=> InQueue(j)' \/ InBatch(w, j)'
      BY <1>0, <2>2, PopMoves, Zenon
    <3>5. Waits(j)'
      BY <2>1, <3>1, <3>3, <3>4, Zenon DEF Waits, Job
    <3> QED
      BY <2>1, <3>5, Zenon
  <2>3. CASE CheckRunning(w) \/ LeaveIfEmpty(w) \/ Park(w) \/ WakeUp(w)
    <3>1. UNCHANGED <<queue, batch>>
      BY <2>3, ZenonT(30) DEF CheckRunning, LeaveIfEmpty, Park, WakeUp
    <3>2. Waits(j)'
      BY <2>1, <3>1, Zenon DEF Waits, InQueue, InBatch, Job
    <3> QED
      BY <2>1, <3>2, Zenon
  <2> QED
    BY <1>1, <2>2, <2>3, Zenon DEF WorkerLoop
<1>2. CASE CheckCancelled(w)
  <2>1. CASE j = Job(w)
    BY <1>0, <1>2, <2>1, Zenon DEF CheckCancelled
  <2>2. CASE j # Job(w)
    BY <1>2, <2>2, WaitsOn, Zenon DEF CheckCancelled, poolVars
  <2> QED
    BY <2>1, <2>2, Zenon
<1>3. CASE RunOp(w) \/ ClearCancelled(w)
  <2>1. j # Job(w)
    BY <1>3, StartedNotWaiting, Zenon DEF RunOp, ClearCancelled
  <2> QED
    BY <1>3, <2>1, WaitsOn, Zenon DEF RunOp, ClearCancelled, poolVars
<1>4. CASE PushCompletion(w) \/ RingLoad(w) \/ RingCall(w)
  <2>1. j # Job(w)
    BY <1>4, StartedNotWaiting, Zenon DEF PushCompletion, RingLoad, RingCall
  <2>2. CASE EndJob(w)
    BY <2>1, <2>2, WaitsOn, Zenon DEF EndJob
  <2>3. CASE /\ PushCompletion(w) /\ jstep' = [jstep EXCEPT ![w] = "ring"]
             /\ UNCHANGED <<poolVars, jstatus, cancelled, jsVars>>
    BY <2>1, <2>3, WaitsOn, Zenon DEF poolVars
  <2>4. CASE UNCHANGED <<poolVars, jobVars, jsVars>>
    <3>1. UNCHANGED <<queue, batch, jstep, cancelled>>
      BY <2>4, Zenon DEF poolVars, jobVars
    <3>2. Waits(j)'
      BY <3>1, Zenon DEF Waits, InQueue, InBatch, Job
    <3> QED
      BY <3>1, <3>2, Zenon
  <2> QED
    BY <1>4, <2>2, <2>3, <2>4, Zenon DEF PushCompletion, RingLoad, RingCall
<1> QED
  BY <1>1, <1>2, <1>3, <1>4, Zenon DEF WorkerStep

\* The JS thread adds marks and takes none away.
LEMMA ThreadMarks ==
  ASSUME [Next]_vars, \A w \in Workers : ~WorkerStep(w)
  PROVE  cancelled \subseteq cancelled'
<1>1. CASE UNCHANGED vars
  BY <1>1, Zenon DEF vars, jobVars
<1>2. CASE CreateBegin \/ CreateEnd \/ SubmitStart \/ SubmitEnd \/ SubmitCancel
  BY <1>2, Zenon DEF CreateBegin, CreateEnd, SubmitStart, SubmitEnd, SubmitCancel, jobVars
<1>3. ASSUME NEW j \in Jobs, \/ SubmitInvalid(j)
                             \/ Abort(j)
                             \/ \E k \in Kinds, s \in Signals : SubmitBegin(j, k, s)
      PROVE  cancelled \subseteq cancelled'
  BY <1>3, Zenon DEF SubmitInvalid, Abort, SubmitBegin, jobVars
<1>4. CASE DrainBegin \/ DrainStep
  BY <1>4, Zenon DEF DrainBegin, DrainStep, DrainDisarm, DrainEmpty, DrainConsume, DrainGrow,
                     DrainAgain, jobVars
<1>5. CASE ShutdownCancel \/ ShutdownStep
  BY <1>5, Zenon DEF ShutdownCancel, ShutdownStep, ShutdownBell, ShutdownPool, ShutdownRing,
                     ShutdownArm, ShutdownClose, jobVars
<1> QED
  BY <1>1, <1>2, <1>3, <1>4, <1>5, Zenon DEF Next, JSStep

\* A waiting job stays marked, or its worker finds the mark.
LEMMA CancelStep ==
  ASSUME TypeOK, PoolInv, JobsInv, [Next]_vars, NEW j \in cancelled, Waits(j)
  PROVE  \/ j \in cancelled' /\ Waits(j)'
         \/ \E w \in Workers : /\ wpc[w] = "run" /\ Job(w) = j
                               /\ jstep'[w] = "clear" /\ jstatus'[w] = "cancelled"
<1>1. CASE \E w \in Workers : WorkerStep(w)
  BY <1>1, CancelWorker, Zenon
<1>2. CASE SubmitEnd /\ \A w \in Workers : ~WorkerStep(w)
  <2>1. UNCHANGED <<batch, jstep>> /\ (InQueue(j) => InQueue(j)')
    <3>1. CASE UNCHANGED queue
      BY <1>2, <3>1, SubmitMoves, Zenon DEF InQueue
    <3> QED
      BY <1>2, <3>1, SubmitMoves, Zenon
  <2>2. Waits(j)'
    BY <2>1, Zenon DEF Waits, InBatch, Job
  <2> QED
    BY <1>2, <2>2, ThreadMarks, Zenon
<1>3. CASE UNCHANGED <<queue, batch, jstep>> /\ \A w \in Workers : ~WorkerStep(w)
  <2>1. Waits(j)'
    BY <1>3, Zenon DEF Waits, InQueue, InBatch, Job
  <2> QED
    BY <1>3, <2>1, ThreadMarks, Zenon
<1> QED
  BY <1>1, <1>2, <1>3, ThreadFrame, Zenon

\* A task cancelled while it waits is never run: its mark stays until the worker
\* that takes it finds it there and completes it as cancelled, for any number of
\* workers and tasks and through any shutdown (ops.rs).
THEOREM CancelWaitingWinsCorrect == Spec => CancelWaitingWins
<1> DEFINE Step == \A j \in cancelled :
                      Waiting(j) => \/ j \in cancelled' /\ Waiting(j)'
                                    \/ \E w \in Workers : /\ wpc[w] = "run" /\ Job(w) = j
                                                          /\ jstep'[w] = "clear"
                                                          /\ jstatus'[w] = "cancelled"
<1>1. RuntimeInv /\ JobsInv /\ [Next]_vars => [Step]_vars
  BY CancelStep, WaitingWaits, Zenon DEF RuntimeInv
<1>2. CancelWaitingWins <=> [][Step]_vars
  BY PTL DEF CancelWaitingWins
<1> HIDE DEF Step
<1> QED
  BY <1>1, <1>2, RuntimeInvariant, JobsInvariant, PTL DEF Spec

=============================================================================
