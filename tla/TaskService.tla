---------------------------- MODULE TaskService -----------------------------
(***************************************************************************)
(* What the task runtime promises to its callers, and nothing of how: a    *)
(* task gets a promise, the promise is settled at most once, and several   *)
(* promises may be settled by one step (a drain, a shutdown).  TaskRuntime *)
(* implements this specification; TaskCalls is a client of it.             *)
(***************************************************************************)
EXTENDS Integers

CONSTANT Tasks

VARIABLE promise   \* [Tasks -> "none", "pending" or a settlement]

\* How a promise of submit, submitInto or submitSlice can be settled.
Results == {"ok", "error", "cancelled", "too_small", "unsupported",
            "overloaded", "invalid"}

Pending == {t \in Tasks : promise[t] = "pending"}

ServiceInit == promise = [t \in Tasks |-> "none"]

\* A task is accepted: its promise is pending.
Accept(t) ==
    /\ promise[t] = "none"
    /\ promise' = [promise EXCEPT ![t] = "pending"]

\* A task is refused at once.
Refuse(t) ==
    /\ promise[t] = "none"
    /\ \E r \in {"overloaded", "invalid"} : promise' = [promise EXCEPT ![t] = r]

\* A non-empty set of pending promises is settled.
Settle(S) ==
    /\ S # {}
    /\ \E r \in [S -> Results] :
          promise' = [t \in Tasks |-> IF t \in S THEN r[t] ELSE promise[t]]

ServiceNext ==
    \/ \E t \in Tasks : Accept(t) \/ Refuse(t)
    \/ \E S \in SUBSET Pending : Settle(S)

ServiceSpec == ServiceInit /\ [][ServiceNext]_promise

=============================================================================
