----------------------------- MODULE Lifecycles -----------------------------
(***************************************************************************)
(* The parts that must come to an end by themselves: the worker pool of    *)
(* the task runtime, the chains of task calls made through it, and the     *)
(* ingress handler with the output buffers it lends to response bodies.    *)
(* They share no state (TaskCalls sees the pool through TaskService), so a *)
(* behaviour exercises one of them; unit says which.                       *)
(***************************************************************************)
EXTENDS TaskPool, TaskCalls, IngressHandler

VARIABLE unit

Units == {"pool", "calls", "handler"}

vars == <<unit, poolVars, chainVars, handlerVars>>

Init ==
    /\ unit \in Units
    /\ PoolInit
    /\ ChainInit /\ (unit # "calls" => \A c \in Chains : signal[c] = "none" /\ data[c].direct
                                         /\ data[c].good /\ data[c].fits /\ data[c].known)
    /\ HandlerInit

PoolStep ==
    /\ unit = "pool" /\ PoolNext
    /\ UNCHANGED <<unit, chainVars, handlerVars>>

ChainStep ==
    /\ unit = "calls" /\ ChainNext
    /\ UNCHANGED <<unit, poolVars, handlerVars>>

HandlerStep ==
    /\ unit = "handler" /\ HandlerNext
    /\ UNCHANGED <<unit, poolVars, chainVars>>

Next == PoolStep \/ ChainStep \/ HandlerStep

\* The fairness of each part; in its initial state nothing of a part is due.
Spec == Init /\ [][Next]_vars /\ PoolFairness /\ ChainFairness /\ HandlerFairness
=============================================================================
