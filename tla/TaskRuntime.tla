---------------------------- MODULE TaskRuntime -----------------------------
(***************************************************************************)
(* The off-thread task runtime as a whole: the JS runtime of               *)
(* src/task/runtime.ts, the C ABI of rust/ffi/task.rs, the execution of a  *)
(* job in rust/task/ops.rs, the pool (TaskPool) and the completion ring    *)
(* (CompletionRing).                                                       *)
(*                                                                         *)
(* The JS thread is one sequential process.  jpc is its place: "idle" is   *)
(* the event loop, every other value is inside a function that runs to     *)
(* completion while the worker threads go on.  A task is known by its id;  *)
(* ids come from a counter, so each member of Jobs is used at most once.   *)
(***************************************************************************)
EXTENDS TaskPool

CONSTANTS
    JS,          \* the JS thread, the only caller of the pool
    Kinds,       \* ways to submit that are exercised: submit ("copy"),
                 \* submitInto ("into") and submitSlice ("slice")
    OpResults,   \* results of run_op and run_into that are exercised
    Signals,     \* abort signals exercised: no signal ("none"), a live
                 \* signal ("live"), an aborted one ("aborted")
    DrainCap,    \* completions the initial drain buffer holds
    MaxPooled,   \* MAX_POOLED_DRAIN, in completions
    GuardMax     \* turns of the loop in drainNow (1024)

ASSUME RuntimeAssumption ==
    /\ Callers = {JS}
    /\ Kinds \subseteq {"copy", "into", "slice"}
    /\ OpResults \subseteq {"ok", "error", "too_small", "unsupported"}
    /\ OpResults \cap {"ok", "error"} # {}
    /\ Signals \subseteq {"none", "live", "aborted"}
    /\ DrainCap \in Nat \ {0}
    /\ MaxPooled \in Nat \ {0}
    /\ GuardMax \in Nat \ {0}

VARIABLES
    \* CompletionRing
    ring, armed, doorbell, ppc, ptr, closed, bells, muted,
    \* the job a worker is running, and ops.rs CANCELLED
    jstep,      \* [Workers -> step of the job at the head of the batch]
    jstatus,    \* [Workers -> the status the job will complete with]
    cancelled,  \* CANCELLED
    \* the JS runtime
    jpc,        \* place of the JS thread
    jarg,       \* id of the task being submitted, else NoJob
    kind,       \* [Jobs -> how the task was submitted]
    signal,     \* [Jobs -> its abort signal]
    inflight,   \* keys of the inflight map
    promise,    \* [Jobs -> state of the task's promise]
    bell,       \* `doorbell`: 0 for null, else the number of the JSCallback
    scheduled,  \* a drainNow microtask is queued
    keepAlive,  \* the keep-alive interval is set
    drainCap,   \* size of drainBuf
    cap,        \* size of the second buffer of a turn, 0 in the first drain
    guard,      \* turns of the drain loop completed, 0 outside it
    cutShort    \* history: the last drainNow ran out of turns with
                \* completions still in the ring

INSTANCE CompletionRing

Service == INSTANCE TaskService WITH Tasks <- Jobs

ringVars == <<ring, armed, doorbell, ppc, ptr, closed, bells, muted>>
jobVars == <<jstep, jstatus, cancelled>>
drainVars == <<drainCap, cap, guard, cutShort>>
taskVars == <<kind, signal, inflight, promise>>
jsVars == <<jpc, jarg, taskVars, bell, scheduled, keepAlive, drainVars>>
vars == <<poolVars, ringVars, jobVars, jsVars>>

Kept == <<bell, scheduled, drainVars>>

Settlements == Status \cup {"overloaded", "invalid"}

\* A new trampoline is none of those before it.
FreshBell == closed + 1

-----------------------------------------------------------------------------
Init ==
    /\ PoolInit
    /\ RingInit
    /\ jstep = [w \in Workers |-> "check"]
    /\ jstatus = [w \in Workers |-> "ok"]
    /\ cancelled = {}
    /\ jpc = "unborn"
    /\ jarg = NoJob
    /\ kind = [j \in Jobs |-> "copy"]
    /\ signal = [j \in Jobs |-> "none"]
    /\ inflight = {}
    /\ promise = [j \in Jobs |-> "none"]
    /\ bell = 0
    /\ scheduled = FALSE
    /\ keepAlive = FALSE
    /\ drainCap = DrainCap
    /\ cap = 0
    /\ guard = 0
    /\ cutShort = FALSE

-----------------------------------------------------------------------------
(***************************************************************************)
(* A worker runs one job: execute, execute_slice_guarded or                *)
(* execute_into_guarded, panics included (a contained panic is "error").   *)
(***************************************************************************)
Job(w) == Head(batch[w])

\* Only run_into reports a buffer that is too small or an op without a
\* zero-copy form.
Outcomes(k) == IF k = "into" THEN OpResults ELSE OpResults \cap {"ok", "error"}

\* is_cancelled(id), before any work is done.
CheckCancelled(w) ==
    /\ wpc[w] = "run" /\ jstep[w] = "check"
    /\ IF Job(w) \in cancelled
       THEN /\ jstep' = [jstep EXCEPT ![w] = "clear"]
            /\ jstatus' = [jstatus EXCEPT ![w] = "cancelled"]
       ELSE jstep' = [jstep EXCEPT ![w] = "exec"] /\ UNCHANGED jstatus
    /\ UNCHANGED <<poolVars, ringVars, cancelled, jsVars>>

\* run_op or run_into: reads the arguments, and for the zero-copy forms the
\* caller's buffer.
RunOp(w) ==
    /\ wpc[w] = "run" /\ jstep[w] = "exec"
    /\ \E s \in Outcomes(kind[Job(w)]) : jstatus' = [jstatus EXCEPT ![w] = s]
    /\ jstep' = [jstep EXCEPT ![w] = "clear"]
    /\ UNCHANGED <<poolVars, ringVars, cancelled, jsVars>>

\* Mutant of ClearCancelled: every mark is cleared.
ClearAllCancelled(w) ==
    /\ wpc[w] = "run" /\ jstep[w] = "clear"
    /\ cancelled' = {}
    /\ jstep' = [jstep EXCEPT ![w] = "push"]
    /\ UNCHANGED <<poolVars, ringVars, jstatus, jsVars>>

\* clear_cancelled(id).
ClearCancelled(w) ==
    /\ wpc[w] = "run" /\ jstep[w] = "clear"
    /\ cancelled' = cancelled \ {Job(w)}
    /\ jstep' = [jstep EXCEPT ![w] = "push"]
    /\ UNCHANGED <<poolVars, ringVars, jstatus, jsVars>>

\* The job is over: the worker goes on with its batch.
EndJob(w) ==
    /\ FinishJob(w)
    /\ jstep' = [jstep EXCEPT ![w] = "check"]
    /\ jstatus' = [jstatus EXCEPT ![w] = "ok"]
    /\ UNCHANGED <<cancelled, jsVars>>

\* completion::push(..), with the end of the job when nobody has to ring.
PushCompletion(w) ==
    /\ wpc[w] = "run" /\ jstep[w] = "push"
    /\ Push(w, Job(w), jstatus[w])
    /\ IF armed
       THEN EndJob(w)
       ELSE /\ jstep' = [jstep EXCEPT ![w] = "ring"]
            /\ UNCHANGED <<poolVars, jstatus, cancelled, jsVars>>

RingLoad(w) ==
    /\ wpc[w] = "run" /\ jstep[w] = "ring"
    /\ LoadBell(w)
    /\ IF doorbell = 0 THEN EndJob(w) ELSE UNCHANGED <<poolVars, jobVars, jsVars>>

RingCall(w) ==
    /\ wpc[w] = "run" /\ jstep[w] = "ring"
    /\ CallBell(w)
    /\ EndJob(w)

WorkerStep(w) ==
    \/ WorkerLoop(w) /\ UNCHANGED <<ringVars, jobVars, jsVars>>
    \/ CheckCancelled(w)
    \/ RunOp(w)
    \/ ClearCancelled(w)
    \/ PushCompletion(w)
    \/ RingLoad(w)
    \/ RingCall(w)

-----------------------------------------------------------------------------
(***************************************************************************)
(* createTaskRuntime: taskInit, then ensureDoorbell and one drainNow       *)
(* microtask.                                                              *)
(***************************************************************************)
CreateBegin ==
    /\ jpc = "unborn"
    /\ InitPool(JS)
    /\ jpc' = "create"
    /\ UNCHANGED <<ringVars, jobVars, jarg, taskVars, Kept, keepAlive>>

CreateEnd ==
    /\ jpc = "create" /\ cpc[JS] = "out"
    /\ SetDoorbell(FreshBell)
    /\ bell' = FreshBell
    /\ scheduled' = TRUE
    /\ jpc' = "idle"
    /\ UNCHANGED <<poolVars, jobVars, jarg, taskVars, keepAlive, drainVars>>

-----------------------------------------------------------------------------
(***************************************************************************)
(* submit, submitInto, submitSlice.                                        *)
(***************************************************************************)
\* ensureDoorbell().
EnsureDoorbell ==
    IF bell # 0
    THEN UNCHANGED <<ringVars, bell>>
    ELSE SetDoorbell(FreshBell) /\ bell' = FreshBell

\* Up to the call of the C ABI: the deferred is in the map, and the interval
\* held, before the pool can see the task.
SubmitBegin(j, k, s) ==
    /\ jpc = "idle"
    /\ Submit(JS, j)
    /\ EnsureDoorbell
    /\ kind' = [kind EXCEPT ![j] = k]
    /\ signal' = [signal EXCEPT ![j] = s]
    /\ inflight' = inflight \cup {j}
    /\ promise' = [promise EXCEPT ![j] = "pending"]
    /\ keepAlive' = TRUE
    /\ jarg' = j
    /\ jpc' = "submit"
    /\ UNCHANGED <<jobVars, scheduled, drainVars>>

\* The C ABI returns 0 for arguments it cannot use, without reaching the pool.
SubmitInvalid(j) ==
    /\ jpc = "idle"
    /\ j \notin offered
    /\ offered' = offered \cup {j}
    /\ EnsureDoorbell
    /\ promise' = [promise EXCEPT ![j] = "invalid"]
    /\ keepAlive' = (inflight # {})
    /\ UNCHANGED <<queue, running, threads, wpc, batch, cpc, carg, accepted, ran, stops, raced>>
    /\ UNCHANGED <<jobVars, jpc, jarg, kind, signal, inflight, scheduled, drainVars>>

\* submit() of the pool starts it when it is not running.
SubmitStart ==
    /\ jpc \in {"create", "submit"}
    /\ StartSwap(JS) \/ Spawn(JS)
    /\ UNCHANGED <<ringVars, jobVars, jsVars>>

\* try_enqueue, and what taskSubmitError makes of its answer.  An aborted
\* signal is looked at after the task is already in the queue.
SubmitEnd ==
    /\ jpc = "submit"
    /\ TryEnqueue(JS)
    /\ IF Len(queue) >= QueueMax
       THEN /\ inflight' = inflight \ {jarg}
            /\ promise' = [promise EXCEPT ![jarg] = "overloaded"]
            /\ keepAlive' = (keepAlive /\ inflight' # {})
            /\ jpc' = "idle"
       ELSE /\ jpc' = IF signal[jarg] = "aborted" THEN "cancel" ELSE "idle"
            /\ UNCHANGED <<inflight, promise, keepAlive>>
    /\ jarg' = IF jpc' = "cancel" THEN jarg ELSE NoJob
    /\ UNCHANGED <<ringVars, jobVars, kind, signal, Kept>>

\* taskCancel(id) of a task submitted with an aborted signal.
SubmitCancel ==
    /\ jpc = "cancel"
    /\ cancelled' = cancelled \cup {jarg}
    /\ jpc' = "idle"
    /\ jarg' = NoJob
    /\ UNCHANGED <<poolVars, ringVars, jstep, jstatus, taskVars, Kept, keepAlive>>

\* Mutant of Abort: the promise is rejected and its deferred dropped at once.
AbortDrops(j) ==
    /\ jpc = "idle"
    /\ promise[j] = "pending"
    /\ signal[j] = "live"
    /\ signal' = [signal EXCEPT ![j] = "aborted"]
    /\ cancelled' = cancelled \cup {j}
    /\ inflight' = inflight \ {j}
    /\ promise' = [promise EXCEPT ![j] = "cancelled"]
    /\ keepAlive' = (keepAlive /\ inflight' # {})
    /\ UNCHANGED <<poolVars, ringVars, jstep, jstatus, jpc, jarg, kind, Kept>>

\* The abort listener.  It is never removed, so the signal of a task that is
\* long settled still calls taskCancel.
Abort(j) ==
    /\ jpc = "idle"
    /\ promise[j] \in Status \cup {"pending"}
    /\ signal[j] = "live"
    /\ signal' = [signal EXCEPT ![j] = "aborted"]
    /\ cancelled' = cancelled \cup {j}
    /\ UNCHANGED <<poolVars, ringVars, jstep, jstatus, jpc, jarg, kind, inflight,
                   promise, Kept, keepAlive>>

-----------------------------------------------------------------------------
(***************************************************************************)
(* drainNow.                                                               *)
(***************************************************************************)
\* Entered from the doorbell callback or from the microtask of schedule().
DrainBegin ==
    /\ jpc = "idle"
    /\ \/ TakeBell
       \/ scheduled /\ UNCHANGED ringVars
    /\ scheduled' = FALSE
    /\ guard' = 0
    /\ cutShort' = FALSE
    /\ jpc' = "disarm"
    /\ UNCHANGED <<poolVars, jobVars, jarg, taskVars, bell, keepAlive, drainCap, cap>>

\* taskDrain, first step.
DrainDisarm ==
    /\ jpc = "disarm"
    /\ Disarm
    /\ jpc' = "take"
    /\ UNCHANGED <<poolVars, jobVars, jarg, taskVars, Kept, keepAlive>>

BufferSize == IF cap = 0 THEN drainCap ELSE cap

\* taskDrain, second step, with nothing pending: the loop breaks.
DrainEmpty ==
    /\ jpc = "take"
    /\ ring = <<>>
    /\ jpc' = "idle"
    /\ cap' = 0
    /\ guard' = 0
    /\ keepAlive' = (keepAlive /\ inflight # {})
    /\ UNCHANGED <<poolVars, ringVars, jobVars, jarg, taskVars, bell, scheduled,
                   drainCap, cutShort>>

\* The end of a turn: the next one, or the end of drainNow when it was the
\* last the guard allows.
EndTurn ==
    /\ cap' = 0
    /\ IF guard + 1 < GuardMax
       THEN /\ jpc' = "disarm"
            /\ guard' = guard + 1
            /\ UNCHANGED <<cutShort, keepAlive>>
       ELSE /\ jpc' = "idle"
            /\ guard' = 0
            /\ cutShort' = (ring' # <<>>)
            /\ keepAlive' = (keepAlive /\ inflight' # {})

Completed == {ring[i].id : i \in 1..Len(ring)}

\* The status of the completion of this task in the ring: there is one at
\* most (CompletesOnce).
StatusOf(j) == ring[CHOOSE i \in 1..Len(ring) : ring[i].id = j].status

\* Mutant of DrainConsume: completions of unknown ids are not skipped.
DrainConsumeUnknown ==
    /\ jpc = "take"
    /\ ring # <<>> /\ Len(ring) <= BufferSize
    /\ TakeAll
    /\ promise' = [j \in Jobs |-> IF j \in Completed THEN StatusOf(j) ELSE promise[j]]
    /\ inflight' = inflight \ Completed
    /\ EndTurn
    /\ UNCHANGED <<poolVars, jobVars, jarg, kind, signal, bell, scheduled, drainCap>>

\* Everything pending fits: each completion of a task that is in flight
\* settles its promise, any other is skipped.
DrainConsume ==
    /\ jpc = "take"
    /\ ring # <<>> /\ Len(ring) <= BufferSize
    /\ TakeAll
    /\ promise' = [j \in Jobs |-> IF j \in inflight \cap Completed THEN StatusOf(j)
                                  ELSE promise[j]]
    /\ inflight' = inflight \ Completed
    /\ EndTurn
    /\ UNCHANGED <<poolVars, jobVars, jarg, kind, signal, bell, scheduled, drainCap>>

\* The first drain of the turn reports a larger size: grow the pooled buffer
\* or take a fresh one, and drain again.
DrainGrow ==
    /\ jpc = "take"
    /\ cap = 0 /\ Len(ring) > BufferSize
    /\ cap' = Len(ring)
    /\ drainCap' = IF Len(ring) <= MaxPooled THEN Len(ring) ELSE drainCap
    /\ jpc' = "disarm"
    /\ UNCHANGED <<poolVars, ringVars, jobVars, jarg, taskVars, bell, scheduled,
                   keepAlive, guard, cutShort>>

\* The second drain of the turn finds that the ring has outgrown the new
\* buffer as well: `continue`.
DrainAgain ==
    /\ jpc = "take"
    /\ cap # 0 /\ Len(ring) > BufferSize
    /\ EndTurn
    /\ UNCHANGED <<poolVars, ringVars, jobVars, jarg, taskVars, bell, scheduled, drainCap>>

DrainStep == DrainDisarm \/ DrainEmpty \/ DrainConsume \/ DrainGrow \/ DrainAgain

-----------------------------------------------------------------------------
(***************************************************************************)
(* shutdown(): every statement that another thread can observe is a step   *)
(* of its own.                                                             *)
(***************************************************************************)
\* Everything in flight is marked cancelled, rejected and forgotten.
ShutdownCancel ==
    /\ jpc = "idle"
    /\ stops < MaxStops
    /\ cancelled' = cancelled \cup inflight
    /\ promise' = [j \in Jobs |-> IF j \in inflight THEN "cancelled" ELSE promise[j]]
    /\ inflight' = {}
    /\ jpc' = "sh_bell"
    /\ UNCHANGED <<poolVars, ringVars, jstep, jstatus, jarg, kind, signal, Kept, keepAlive>>

\* taskSetDoorbell(0); castrum_task_shutdown stores the same 0 once more.
ShutdownBell ==
    /\ jpc = "sh_bell"
    /\ SetDoorbell(0)
    /\ jpc' = "sh_pool"
    /\ UNCHANGED <<poolVars, jobVars, jarg, taskVars, Kept, keepAlive>>

\* task::shutdown().
ShutdownPool ==
    /\ jpc = "sh_pool"
    /\ StopPool(JS)
    /\ jpc' = "sh_ring"
    /\ UNCHANGED <<ringVars, jobVars, jarg, taskVars, Kept, keepAlive>>

\* completion::clear(), the locked section.
ShutdownRing ==
    /\ jpc = "sh_ring"
    /\ ClearRing
    /\ jpc' = "sh_arm"
    /\ UNCHANGED <<poolVars, jobVars, jarg, taskVars, Kept, keepAlive>>

\* completion::clear(), the store of ARMED.
ShutdownArm ==
    /\ jpc = "sh_arm"
    /\ ClearArmed
    /\ jpc' = "sh_close"
    /\ UNCHANGED <<poolVars, jobVars, jarg, taskVars, Kept, keepAlive>>

\* release(); doorbell?.close(); doorbell = null.
ShutdownClose ==
    /\ jpc = "sh_close"
    /\ IF bell = 0 THEN UNCHANGED ringVars ELSE CloseBell(bell)
    /\ bell' = 0
    /\ keepAlive' = FALSE
    /\ jpc' = "idle"
    /\ UNCHANGED <<poolVars, jobVars, jarg, taskVars, scheduled, drainVars>>

ShutdownStep ==
    ShutdownBell \/ ShutdownPool \/ ShutdownRing \/ ShutdownArm \/ ShutdownClose

-----------------------------------------------------------------------------
\* What the JS thread does inside a function it has entered.
JSStep ==
    \/ CreateEnd
    \/ SubmitStart
    \/ SubmitEnd
    \/ SubmitCancel
    \/ DrainStep
    \/ ShutdownStep

Next ==
    \/ CreateBegin
    \/ \E j \in Jobs :
          \/ \E k \in Kinds, s \in Signals : SubmitBegin(j, k, s)
          \/ SubmitInvalid(j)
          \/ Abort(j)
    \/ DrainBegin
    \/ ShutdownCancel
    \/ JSStep
    \/ \E w \in Workers : WorkerStep(w)

\* Threads that can go on are scheduled, a function of the JS thread runs to
\* its end, and the event loop delivers what is queued on it.  A worker may
\* spin instead of parking, but not for ever with a job in the queue: taking
\* it is one of the steps weak fairness of WorkerStep demands.
Fairness ==
    /\ \A w \in Workers : WF_vars(WorkerStep(w))
    /\ WF_vars(JSStep)
    /\ WF_vars(DrainBegin)

Spec == Init /\ [][Next]_vars /\ Fairness

-----------------------------------------------------------------------------
(***************************************************************************)
(* Properties.                                                             *)
(***************************************************************************)
JSPlaces == {"unborn", "create", "idle", "submit", "cancel", "disarm", "take",
             "sh_bell", "sh_pool", "sh_ring", "sh_arm", "sh_close"}

\* Type invariant.
TypeOK ==
    /\ PoolTypeOK
    /\ ring \in Seq([id : Jobs, status : Status])
    /\ armed \in BOOLEAN
    /\ doorbell \in Nat
    /\ ppc \in [Workers -> {"out", "load", "call"}]
    /\ ptr \in [Workers -> Nat]
    /\ closed \in Nat
    /\ bells \in Nat
    /\ muted \in BOOLEAN
    /\ jstep \in [Workers -> {"check", "exec", "clear", "push", "ring"}]
    /\ jstatus \in [Workers -> Status]
    /\ cancelled \in SUBSET Jobs
    /\ jpc \in JSPlaces
    /\ jarg \in Jobs \cup {NoJob}
    /\ kind \in [Jobs -> {"copy", "into", "slice"}]
    /\ signal \in [Jobs -> {"none", "live", "aborted"}]
    /\ inflight \in SUBSET Jobs
    /\ promise \in [Jobs -> Settlements \cup {"none", "pending"}]
    /\ bell \in Nat
    /\ scheduled \in BOOLEAN
    /\ keepAlive \in BOOLEAN
    /\ drainCap \in Nat
    /\ cap \in Nat
    /\ guard \in 0..(GuardMax - 1)
    /\ cutShort \in BOOLEAN

\* The jobs of a worker's batch whose completion is not pushed yet.
Unpushed(w) == IF jstep[w] = "ring" THEN Elems(Tail(batch[w])) ELSE Elems(batch[w])

\* No promise is forgotten: the tasks in flight are exactly those whose
\* promise is pending, through rejections, drains and shutdowns
\* (runtime.ts:355, 397, 600).
InflightIsPending == inflight = {j \in Jobs : promise[j] = "pending"}

\* A task completes once: the ring holds at most one completion for an id,
\* and then no worker or queue slot has still to produce one, so no promise
\* is settled by a second completion (ops.rs:250).
CompletesOnce ==
    /\ \A i, k \in 1..Len(ring) : ring[i].id = ring[k].id => i = k
    /\ \A j \in Completed :
          j \notin Elems(queue) /\ \A w \in Workers : j \notin Unpushed(w)

\* The JS thread is going to drain the ring without anybody's help.
Draining == jpc \in {"disarm", "take"}

\* A worker is on its way to the trampoline, a callback is queued on the
\* event loop, or the drainNow microtask is.
WakeupComing ==
    \/ \E w \in Workers : ppc[w] # "out"
    \/ bells > 0
    \/ scheduled

\* No lost wakeup: while the ring holds the completion of a pending task, the
\* JS thread is draining or is about to be woken.  "Disarm FIRST so a
\* completion pushed while we drain re-arms and rings the bell instead of
\* being stranded" (completion.rs:89).  The two exceptions are the histories:
\* a ring that met no live doorbell, and a drain cut short by its guard.
NoLostWakeup ==
    inflight \cap Completed # {} => Draining \/ WakeupComing \/ muted \/ cutShort

\* A zero-copy buffer is held by the inflight map while a worker uses it:
\* "Holding it here is what keeps it alive (and un-moved) until the
\* completion drains" (runtime.ts:102).
BufferHeld ==
    \A w \in Workers :
        wpc[w] = "run" /\ jstep[w] = "exec" /\ kind[Job(w)] # "copy"
            => Job(w) \in inflight

\* The doorbell the native side holds is the open one of the runtime: "the
\* native side NEVER holds the address of a closed JSCallback"
\* (runtime.ts:492).
NativeBellOpen ==
    /\ doorbell # 0 => doorbell > closed /\ doorbell = bell
    /\ jpc = "idle" => doorbell = bell

\* The process is kept alive exactly while something is in flight, whatever
\* was rejected or settled in between (runtime.ts:289, 398).  The interval's
\* own check of the map therefore never has anything to do.
KeepAliveWhileInflight ==
    /\ inflight # {} => keepAlive
    /\ jpc = "idle" => (keepAlive <=> inflight # {})

\* The job has not been started: it is in the queue, or in a batch and its
\* cancellation check is still to come.
Waiting(j) ==
    \/ j \in Elems(queue)
    \/ \E w \in Workers : j \in Elems(batch[w]) /\ (j = Job(w) => jstep[w] = "check")

\* A task cancelled while it waits is never run (ops.rs:251): it stays marked
\* until its worker turns it into a cancelled completion, whichever worker
\* takes it and whatever other marks come and go.
CancelWaitingWins ==
    [][\A j \in cancelled :
          Waiting(j) => \/ j \in cancelled' /\ Waiting(j)'
                        \/ \E w \in Workers : /\ wpc[w] = "run" /\ Job(w) = j
                                              /\ jstep'[w] = "clear"
                                              /\ jstatus'[w] = "cancelled"]_vars

\* The runtime implements the task service: a promise is settled at most once
\* and never reopened, whatever late completions, aborts and shutdowns meet it
\* (runtime.ts:356).
RefinesService == Service!ServiceSpec

\* Every task that is submitted settles, through a shutdown and reuse, unless
\* a ring went unheard (runtime.ts:595).
EveryTaskSettles ==
    \A j \in Jobs : (promise[j] = "pending") ~> (promise[j] \in Settlements \/ muted)

\* Every task that is submitted settles, also after a shutdown: a late
\* completion is drained by "poll-only mode" (completion.rs:58), and the
\* keep-alive interval is "a polling safety net if a doorbell ever fails to
\* arrive" (runtime.ts:291).
SettlesAfterReuse ==
    \A j \in Jobs : (promise[j] = "pending") ~> (promise[j] \in Settlements)

=============================================================================
