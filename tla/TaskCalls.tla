----------------------------- MODULE TaskCalls ------------------------------
(***************************************************************************)
(* The decompression calls of src/task/runtime.ts (gzipDecompress and      *)
(* brotliDecompress): a chain of up to three tasks,                        *)
(*                                                                         *)
(*   zeroCopyOnce(guess)                                                   *)
(*     .catch(err => isTooSmall(err) ? zeroCopyOnce(err.needed)            *)
(*                                   : copyPath())                         *)
(*     .catch(() => copyPath())                                            *)
(*                                                                         *)
(* Attempt n of call c is the task <<c, n>> of the service below, which    *)
(* TaskService describes.  What a task answers depends on the data (good   *)
(* or corrupt), on whether the first guess of the output size fits, and on *)
(* whether the addon knows the zero-copy form; a task whose signal is      *)
(* aborted answers as if it were not, or is cancelled, depending on        *)
(* whether a worker had started it.                                        *)
(***************************************************************************)
EXTENDS Integers, FiniteSets

CONSTANTS
    Chains,          \* calls made by the application
    MayOverload,     \* may the bounded queue refuse a task?
    MayShutdown      \* may the application call shutdown()?

ASSUME CallsAssumption == MayOverload \in BOOLEAN /\ MayShutdown \in BOOLEAN

Tasks == Chains \X (1..3)

VARIABLES
    promise,   \* [Tasks -> state of the task's promise]
    form,      \* [Chains -> form of the current attempt: "into" or "copy"]
    attempt,   \* [Chains -> number of the current attempt, 0 before the call]
    outcome,   \* [Chains -> state of the promise the call returned]
    data,      \* [Chains -> [direct, good, fits, known : BOOLEAN]]
    signal,    \* [Chains -> "none", "live" or "aborted"]
    up         \* the pool is running

chainVars == <<promise, form, attempt, outcome, data, signal, up>>

Service == INSTANCE TaskService

Results == Service!Results

Data == [direct : BOOLEAN, good : BOOLEAN, fits : BOOLEAN, known : BOOLEAN]

Current(c) == <<c, attempt[c]>>

ChainInit ==
    /\ Service!ServiceInit
    /\ form = [c \in Chains |-> "into"]
    /\ attempt = [c \in Chains |-> 0]
    /\ outcome = [c \in Chains |-> "none"]
    /\ data \in [Chains -> Data]
    /\ signal \in [Chains -> {"none", "live", "aborted"}]
    /\ up = TRUE

-----------------------------------------------------------------------------
\* The form of attempt n when the attempt before it was rejected with r.
\* Only the first catch retries the zero-copy form, and only when the
\* destination was too small.
NextForm(n, r) == IF n = 2 /\ r = "too_small" THEN "into" ELSE "copy"

\* submit or submitInto of attempt n in form f: the pool is started when it
\* is not running.
Attempt(c, n, f) ==
    /\ attempt' = [attempt EXCEPT ![c] = n]
    /\ form' = [form EXCEPT ![c] = f]
    /\ up' = TRUE
    /\ \E r \in {"pending"} \cup (IF MayOverload THEN {"overloaded"} ELSE {}) :
          promise' = [promise EXCEPT ![<<c, n>>] = r]

\* The application calls gzipDecompress or brotliDecompress, or one of the
\* calls that are a single task (an output below ZERO_COPY_MIN, pbkdf2Sha256,
\* gzipCompress, argon2Verify): those are direct, without the catches.
Call(c) ==
    /\ outcome[c] = "none"
    /\ outcome' = [outcome EXCEPT ![c] = "pending"]
    /\ Attempt(c, 1, IF data[c].direct THEN "copy" ELSE "into")
    /\ UNCHANGED <<data, signal>>

\* What the operation itself answers.
Answer(c) ==
    IF form[c] = "into" /\ ~data[c].known THEN "unsupported"
    ELSE IF ~data[c].good THEN "error"
    ELSE IF form[c] = "into" /\ attempt[c] = 1 /\ ~data[c].fits THEN "too_small"
    ELSE "ok"

\* The completion of the current attempt is drained.
Complete(c) ==
    /\ attempt[c] # 0 /\ promise[Current(c)] = "pending"
    /\ \E r \in {Answer(c)} \cup (IF signal[c] = "aborted" THEN {"cancelled"} ELSE {}) :
          promise' = [promise EXCEPT ![Current(c)] = r]
    /\ UNCHANGED <<form, attempt, outcome, data, signal, up>>

\* One turn of the chain (a microtask): the answer is handed to the caller
\* when it is final, else attempt n is submitted in form f.
Turn(c, final, n, f) ==
    /\ outcome[c] = "pending"
    /\ promise[Current(c)] \in Results
    /\ IF final
       THEN /\ outcome' = [outcome EXCEPT ![c] = promise[Current(c)]]
            /\ UNCHANGED <<promise, form, attempt, up>>
       ELSE Attempt(c, n, f) /\ UNCHANGED outcome
    /\ UNCHANGED <<data, signal>>

\* Mutant of Continue: TOO_SMALL repeats the attempt with the same guess.
ContinueSameGuess(c) ==
    LET r == promise[Current(c)]
        n == attempt[c] + (IF r = "too_small" THEN 0 ELSE 1)
    IN  Turn(c, r = "ok" \/ n = 4 \/ data[c].direct, n,
             IF r = "too_small" THEN "into" ELSE "copy")

\* Mutant of Continue: an op without a zero-copy form is not retried.
ContinueUnsupported(c) ==
    LET r == promise[Current(c)]
        n == attempt[c] + 1
    IN  Turn(c, r \in {"ok", "unsupported"} \/ n = 4 \/ data[c].direct, n, NextForm(n, r))

\* A value ends the chain, each of the two catches submits another attempt,
\* and past the second the rejection reaches the caller.
Continue(c) ==
    LET r == promise[Current(c)]
        n == attempt[c] + 1
    IN  Turn(c, r = "ok" \/ n = 4 \/ data[c].direct, n, NextForm(n, r))

\* The application aborts the signal it passed.
AbortCall(c) ==
    /\ signal[c] = "live" /\ attempt[c] # 0
    /\ signal' = [signal EXCEPT ![c] = "aborted"]
    /\ UNCHANGED <<promise, form, attempt, outcome, data, up>>

\* shutdown(): every pending promise is rejected as cancelled and the pool
\* stops.  On a stopped pool it changes nothing.
ShutdownPool ==
    /\ MayShutdown /\ up
    /\ promise' = [t \in Tasks |-> IF promise[t] = "pending" THEN "cancelled" ELSE promise[t]]
    /\ up' = FALSE
    /\ UNCHANGED <<form, attempt, outcome, data, signal>>

ChainNext ==
    \/ \E c \in Chains : Call(c) \/ Complete(c) \/ Continue(c) \/ AbortCall(c)
    \/ ShutdownPool

\* The service settles what it accepted, and microtasks run.
ChainFairness == \A c \in Chains : WF_chainVars(Complete(c)) /\ WF_chainVars(Continue(c))

ChainSpec == ChainInit /\ [][ChainNext]_chainVars /\ ChainFairness

-----------------------------------------------------------------------------
(***************************************************************************)
(* Properties.                                                             *)
(***************************************************************************)
\* The fallback is complete: a call none of whose tasks was refused or
\* cancelled yields the value of good data and the decoding error of corrupt
\* data, whatever the size guess and the addon ("on anything else ... fall
\* back, so behavior can't regress", runtime.ts:534).
LeftAloneAnswers ==
    \A c \in Chains :
        /\ outcome[c] \in Results
        /\ \A n \in 1..3 : promise[<<c, n>>] \notin {"overloaded", "cancelled"}
        => outcome[c] = IF data[c].good THEN "ok" ELSE "error"

\* Every call settles in the end (runtime.ts:541).
EveryCallSettles == \A c \in Chains : (outcome[c] = "pending") ~> (outcome[c] \in Results)

=============================================================================
