------------------------------ MODULE TaskPool ------------------------------
(***************************************************************************)
(* The process-wide off-thread task pool of rust/task/runtime.rs: one      *)
(* bounded work queue, the worker threads that serve it, and the caller    *)
(* threads that start it, submit to it and shut it down.                   *)
(*                                                                         *)
(* Every critical section of the queue mutex is one step and every atomic  *)
(* load, store or swap outside a critical section is one step, so that the *)
(* interleavings of callers and workers are those of the code.  A worker   *)
(* thread is a slot of Workers: "absent" before it is spawned and after it *)
(* has left its loop.  The run of a job is one step here; TaskRuntime      *)
(* splits it into the steps of rust/task/ops.rs.                           *)
(***************************************************************************)
EXTENDS Integers, Sequences, FiniteSets

CONSTANTS
    Workers,         \* worker thread slots
    Callers,         \* threads that call init, submit and shutdown
    Jobs,            \* identities of the submitted jobs
    NoJob,           \* argument of a caller that is inside init
    InitThreads,     \* worker count given to init
    DefaultThreads,  \* default_threads(): count of an implicit start
    QueueMax,        \* CASTRUM_TASK_QUEUE_MAX
    BatchPop,        \* BATCH_POP
    SpawnMayFail,    \* may the operating system refuse a thread?
    MaxStops         \* bound on the number of shutdowns

ASSUME PoolAssumption ==
    /\ InitThreads \in Nat \ {0}
    /\ DefaultThreads \in Nat \ {0}
    /\ QueueMax \in Nat \ {0}
    /\ BatchPop \in Nat \ {0}
    /\ SpawnMayFail \in BOOLEAN
    /\ MaxStops \in Nat
    /\ NoJob \notin Jobs

VARIABLES
    queue,     \* TaskPool.queue
    running,   \* TaskPool.running
    threads,   \* TaskPool.threads
    wpc,       \* [Workers -> place in worker()]
    batch,     \* [Workers -> the jobs the worker has taken and not finished]
    cpc,       \* [Callers -> place in init() or submit()]
    carg,      \* [Callers -> the job being submitted, NoJob inside init()]
    offered,   \* history: jobs some caller has begun to submit
    accepted,  \* history: jobs try_enqueue admitted
    ran,       \* history: [Jobs -> how often the job has run]
    stops,     \* number of shutdowns so far, at most MaxStops
    raced      \* history: a shutdown met another caller inside the pool

poolVars == <<queue, running, threads, wpc, batch, cpc, carg,
              offered, accepted, ran, stops, raced>>

WorkerPlaces == {"absent", "pop", "run", "idle", "leave", "park", "wait"}
CallerPlaces == {"out", "swap", "spawn", "enqueue"}

\* The contents of a sequence as a set.
Elems(s) == {s[i] : i \in 1..Len(s)}

Live == {w \in Workers : wpc[w] # "absent"}

-----------------------------------------------------------------------------
\* TaskPool::new: nothing queued, not running, no thread.
PoolInit ==
    /\ queue = <<>>
    /\ running = FALSE
    /\ threads = 0
    /\ wpc = [w \in Workers |-> "absent"]
    /\ batch = [w \in Workers |-> <<>>]
    /\ cpc = [c \in Callers |-> "out"]
    /\ carg = [c \in Callers |-> NoJob]
    /\ offered = {}
    /\ accepted = {}
    /\ ran = [j \in Jobs |-> 0]
    /\ stops = 0
    /\ raced = FALSE

-----------------------------------------------------------------------------
(***************************************************************************)
(* Callers.                                                                *)
(***************************************************************************)
\* init(threads): the load of `running`, which decides between returning 1
\* at once and calling start.
InitPool(c) ==
    /\ cpc[c] = "out"
    /\ IF running
       THEN UNCHANGED <<cpc, carg>>
       ELSE /\ cpc' = [cpc EXCEPT ![c] = "swap"]
            /\ carg' = [carg EXCEPT ![c] = NoJob]
    /\ UNCHANGED <<queue, running, threads, wpc, batch, offered, accepted, ran, stops, raced>>

\* submit(job): the load of `running`, which decides whether start is called
\* before try_enqueue.
Submit(c, j) ==
    /\ cpc[c] = "out"
    /\ j \notin offered
    /\ offered' = offered \cup {j}
    /\ carg' = [carg EXCEPT ![c] = j]
    /\ cpc' = [cpc EXCEPT ![c] = IF running THEN "enqueue" ELSE "swap"]
    /\ UNCHANGED <<queue, running, threads, wpc, batch, accepted, ran, stops, raced>>

\* Where start() returns to: init() is over, submit() goes on to try_enqueue.
AfterStart(c) == IF carg[c] = NoJob THEN "out" ELSE "enqueue"

\* Mutant of StartSwap: the value the swap returns is ignored.
StartSwapIgnored(c) ==
    /\ cpc[c] = "swap"
    /\ running' = TRUE
    /\ cpc' = [cpc EXCEPT ![c] = "spawn"]
    /\ UNCHANGED <<queue, threads, wpc, batch, carg, offered, accepted, ran, stops, raced>>

\* start(), first half: running.swap(true).  Only the caller that saw false
\* goes on to spawn.
StartSwap(c) ==
    /\ cpc[c] = "swap"
    /\ running' = TRUE
    /\ cpc' = [cpc EXCEPT ![c] = IF running THEN AfterStart(c) ELSE "spawn"]
    /\ UNCHANGED <<queue, threads, wpc, batch, carg, offered, accepted, ran, stops, raced>>

\* start(), second half: threads.store(n), then n spawns.  The result of a
\* spawn is discarded, so a refused thread leaves the pool smaller.
Spawn(c) ==
    LET n == IF carg[c] = NoJob THEN InitThreads ELSE DefaultThreads
    IN  /\ cpc[c] = "spawn"
        /\ threads' = n
        /\ \E S \in SUBSET {w \in Workers : wpc[w] = "absent"} :
              /\ IF SpawnMayFail THEN Cardinality(S) <= n ELSE Cardinality(S) = n
              /\ wpc' = [w \in Workers |-> IF w \in S THEN "pop" ELSE wpc[w]]
        /\ cpc' = [cpc EXCEPT ![c] = AfterStart(c)]
        /\ UNCHANGED <<queue, running, batch, carg, offered, accepted, ran, stops, raced>>

\* try_enqueue: admission and push under the queue lock; notify_one only
\* shortens a wait that times out anyway.
TryEnqueue(c) ==
    /\ cpc[c] = "enqueue"
    /\ IF Len(queue) >= QueueMax
       THEN UNCHANGED <<queue, accepted>>
       ELSE /\ queue' = Append(queue, carg[c])
            /\ accepted' = accepted \cup {carg[c]}
    /\ cpc' = [cpc EXCEPT ![c] = "out"]
    /\ UNCHANGED <<running, threads, wpc, batch, carg, offered, ran, stops, raced>>

\* shutdown(): running.store(false); notify_all.
StopPool(c) ==
    /\ cpc[c] = "out"
    /\ stops < MaxStops
    /\ stops' = stops + 1
    /\ running' = FALSE
    /\ raced' = (raced \/ \E d \in Callers : cpc[d] # "out")
    /\ UNCHANGED <<queue, threads, wpc, batch, cpc, carg, offered, accepted, ran>>

-----------------------------------------------------------------------------
(***************************************************************************)
(* Workers: the loop of worker().                                          *)
(***************************************************************************)
\* How many jobs the locked section at the top of the loop takes: one, and
\* up to BATCH_POP of them when at least `threads` are left after the first.
PopCount ==
    IF queue = <<>> THEN 0
    ELSE IF Len(queue) - 1 >= threads /\ BatchPop <= Len(queue) THEN BatchPop
    ELSE IF Len(queue) - 1 >= threads THEN Len(queue)
    ELSE 1

\* Mutant of PopBatch: the last job taken is only peeked at.
PopBatchPeeks(w) ==
    /\ wpc[w] = "pop"
    /\ batch' = [batch EXCEPT ![w] = SubSeq(queue, 1, PopCount)]
    /\ queue' = SubSeq(queue, IF PopCount = 0 THEN 1 ELSE PopCount, Len(queue))
    /\ wpc' = [wpc EXCEPT ![w] = IF queue = <<>> THEN "idle" ELSE "run"]
    /\ UNCHANGED <<running, threads, cpc, carg, offered, accepted, ran, stops, raced>>

\* The locked section at the top of the loop.
PopBatch(w) ==
    /\ wpc[w] = "pop"
    /\ batch' = [batch EXCEPT ![w] = SubSeq(queue, 1, PopCount)]
    /\ queue' = SubSeq(queue, PopCount + 1, Len(queue))
    /\ wpc' = [wpc EXCEPT ![w] = IF queue = <<>> THEN "idle" ELSE "run"]
    /\ UNCHANGED <<running, threads, cpc, carg, offered, accepted, ran, stops, raced>>

\* Mutant of FinishJob: the job stays in the batch and runs again.
FinishJobKeeps(w) ==
    /\ wpc[w] = "run"
    /\ ran' = [ran EXCEPT ![Head(batch[w])] = @ + 1]
    /\ UNCHANGED <<batch, wpc>>
    /\ UNCHANGED <<queue, running, threads, cpc, carg, offered, accepted, stops, raced>>

\* One turn of `for job in batch.drain(..) { job(); }`.
FinishJob(w) ==
    /\ wpc[w] = "run"
    /\ ran' = [ran EXCEPT ![Head(batch[w])] = @ + 1]
    /\ batch' = [batch EXCEPT ![w] = Tail(@)]
    /\ wpc' = [wpc EXCEPT ![w] = IF Len(batch[w]) = 1 THEN "pop" ELSE "run"]
    /\ UNCHANGED <<queue, running, threads, cpc, carg, offered, accepted, stops, raced>>

\* The queue was empty: the load of `running`.  While the pool runs, the
\* worker spins (back to the top) or, after SPIN_ROUNDS of them, parks.
CheckRunning(w) ==
    /\ wpc[w] = "idle"
    /\ \E p \in (IF running THEN {"pop", "park"} ELSE {"leave"}) :
          wpc' = [wpc EXCEPT ![w] = p]
    /\ UNCHANGED <<queue, running, threads, batch, cpc, carg, offered, accepted, ran, stops, raced>>

\* Mutant of LeaveIfEmpty: no second look at the queue.
LeaveAtOnce(w) ==
    /\ wpc[w] = "leave"
    /\ wpc' = [wpc EXCEPT ![w] = "absent"]
    /\ UNCHANGED <<queue, running, threads, batch, cpc, carg, offered, accepted, ran, stops, raced>>

\* The pool has stopped: a second look at the queue under the lock, and the
\* thread ends only when it is still empty.
LeaveIfEmpty(w) ==
    /\ wpc[w] = "leave"
    /\ wpc' = [wpc EXCEPT ![w] = IF queue = <<>> THEN "absent" ELSE "pop"]
    /\ UNCHANGED <<queue, running, threads, batch, cpc, carg, offered, accepted, ran, stops, raced>>

\* Parking: under the lock the worker waits only on an empty queue of a
\* running pool.
Park(w) ==
    /\ wpc[w] = "park"
    /\ wpc' = [wpc EXCEPT ![w] = IF queue = <<>> /\ running THEN "wait" ELSE "pop"]
    /\ UNCHANGED <<queue, running, threads, batch, cpc, carg, offered, accepted, ran, stops, raced>>

\* wait_for returns: notified, or after PARK_TIMEOUT.
WakeUp(w) ==
    /\ wpc[w] = "wait"
    /\ wpc' = [wpc EXCEPT ![w] = "pop"]
    /\ UNCHANGED <<queue, running, threads, batch, cpc, carg, offered, accepted, ran, stops, raced>>

-----------------------------------------------------------------------------
\* The steps of a worker other than the run of a job.
WorkerLoop(w) ==
    \/ PopBatch(w)
    \/ CheckRunning(w)
    \/ LeaveIfEmpty(w)
    \/ Park(w)
    \/ WakeUp(w)

\* The steps a caller takes once it is inside init() or submit().
CallerStep(c) == StartSwap(c) \/ Spawn(c) \/ TryEnqueue(c)

PoolNext ==
    \/ \E c \in Callers :
          \/ InitPool(c)
          \/ \E j \in Jobs : Submit(c, j)
          \/ CallerStep(c)
          \/ StopPool(c)
    \/ \E w \in Workers : WorkerLoop(w) \/ FinishJob(w)

\* A thread that can take a step is scheduled in the end, a caller inside the
\* pool included; nobody is obliged to call it.
PoolFairness ==
    /\ \A w \in Workers : WF_poolVars(WorkerLoop(w)) /\ WF_poolVars(FinishJob(w))
    /\ \A c \in Callers : WF_poolVars(CallerStep(c))

PoolSpec == PoolInit /\ [][PoolNext]_poolVars /\ PoolFairness

-----------------------------------------------------------------------------
(***************************************************************************)
(* Properties.                                                             *)
(***************************************************************************)
\* Type invariant.
PoolTypeOK ==
    /\ queue \in Seq(Jobs)
    /\ running \in BOOLEAN
    /\ threads \in Nat
    /\ wpc \in [Workers -> WorkerPlaces]
    /\ batch \in [Workers -> Seq(Jobs)]
    /\ cpc \in [Callers -> CallerPlaces]
    /\ carg \in [Callers -> Jobs \cup {NoJob}]
    /\ offered \in SUBSET Jobs
    /\ accepted \in SUBSET Jobs
    /\ ran \in [Jobs -> Nat]
    /\ stops \in 0..MaxStops
    /\ raced \in BOOLEAN

\* try_enqueue refuses at the admission bound, so callers racing on the queue
\* never take it past CASTRUM_TASK_QUEUE_MAX (runtime.rs:133).
QueueBounded == Len(queue) <= QueueMax

InQueue(j) == \E i \in 1..Len(queue) : queue[i] = j
InBatch(w, j) == \E i \in 1..Len(batch[w]) : batch[w][i] = j

\* An admitted job is at exactly one place: in one slot of the queue, or in
\* one slot of the batch of one worker, or it has run, once.  No interleaving
\* of the batch pops loses or repeats it, across shutdowns and restarts
\* (runtime.rs:86).
EachJobOnce ==
    /\ \A i, k \in 1..Len(queue) : queue[i] = queue[k] => i = k
    /\ \A w, v \in Workers : \A i \in 1..Len(batch[w]), k \in 1..Len(batch[v]) :
          batch[w][i] = batch[v][k] => w = v /\ i = k
    /\ \A j \in Jobs :
          /\ InQueue(j) => \A w \in Workers : ~InBatch(w, j)
          /\ InQueue(j) \/ (\E w \in Workers : InBatch(w, j)) => j \in accepted /\ ran[j] = 0
          /\ j \in accepted => InQueue(j) \/ (\E w \in Workers : InBatch(w, j)) \/ ran[j] = 1
          /\ j \notin accepted => ran[j] = 0

\* The worker that serves nothing holds nothing, and the worker that is
\* running a batch never outgrows BATCH_POP (runtime.rs:104).
BatchesBounded ==
    \A w \in Workers :
        /\ Len(batch[w]) <= BatchPop
        /\ (wpc[w] = "run") <=> (batch[w] # <<>>)

\* `running` is a CAS, "so a concurrent init + implicit submit race cannot
\* double the pool" (runtime.rs:61): before the first shutdown there are never
\* more live workers than `threads`.  After one it is not so: workers that
\* have not left when the pool is restarted stay, next to the new ones.
OnePool == stops = 0 => Cardinality(Live) <= threads

\* An admitted job runs in the end, also one that is queued when the pool is
\* shut down or submitted after it ("a submit that raced the shutdown flag
\* still runs", runtime.rs:112).  The exception is the history: a shutdown in
\* the middle of another caller's submit, which may enqueue after the last
\* worker has left.
AcceptedJobsRun == \A j \in Jobs : (j \in accepted) ~> (ran[j] = 1 \/ raced)

=============================================================================
