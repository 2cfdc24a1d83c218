--------------------------- MODULE CompletionRing ---------------------------
(***************************************************************************)
(* The completion ring and the coalesced doorbell of                       *)
(* rust/task/completion.rs: worker threads push completions, the JS thread *)
(* takes all of them at once, and of the pushes between two drains only    *)
(* the first calls the doorbell trampoline.                                *)
(*                                                                         *)
(* The body of push() is three steps: the locked section (push_back and    *)
(* the swap of ARMED), the load of DOORBELL, and the call through the      *)
(* loaded pointer.  drain() is two: the store of ARMED, made before the    *)
(* lock is taken, and the locked section.  A completion is its task id and *)
(* its status; the size of a drain is counted in completions.              *)
(*                                                                         *)
(* Trampolines are numbered in the order their owner opens them.  It has   *)
(* one at a time, so those that are closed are the first ones.             *)
(*                                                                         *)
(* bells is external: a call of a live thread-safe trampoline makes Bun    *)
(* queue one invocation of the callback on the event loop of its owner.    *)
(***************************************************************************)
EXTENDS Integers, Sequences

CONSTANT Workers     \* the threads that push

VARIABLES
    ring,      \* RING: sequence of [id, status]
    armed,     \* ARMED
    doorbell,  \* DOORBELL: 0, or the number of a trampoline
    ppc,       \* [Workers -> place in push()]
    ptr,       \* [Workers -> the pointer push() has loaded]
    closed,    \* the trampolines 1..closed are closed by their owner
    bells,     \* callback invocations queued on the event loop
    muted      \* history: since the last disarm a ring went unheard

Status == {"ok", "error", "cancelled", "too_small", "unsupported"}

RingInit ==
    /\ ring = <<>>
    /\ armed = FALSE
    /\ doorbell = 0
    /\ ppc = [w \in Workers |-> "out"]
    /\ ptr = [w \in Workers |-> 0]
    /\ closed = 0
    /\ bells = 0
    /\ muted = FALSE

-----------------------------------------------------------------------------
\* Mutant of Push: the sense of the swap is inverted.
PushInverted(w, id, status) ==
    /\ ppc[w] = "out"
    /\ ring' = Append(ring, [id |-> id, status |-> status])
    /\ armed' = TRUE
    /\ ppc' = [ppc EXCEPT ![w] = IF armed THEN "load" ELSE "out"]
    /\ UNCHANGED <<doorbell, ptr, closed, bells, muted>>

\* push(), the locked section.  The caller that found ARMED clear rings.
Push(w, id, status) ==
    /\ ppc[w] = "out"
    /\ ring' = Append(ring, [id |-> id, status |-> status])
    /\ armed' = TRUE
    /\ ppc' = [ppc EXCEPT ![w] = IF armed THEN "out" ELSE "load"]
    /\ UNCHANGED <<doorbell, ptr, closed, bells, muted>>

\* push(), DOORBELL.load: nothing is called when it is 0.
LoadBell(w) ==
    /\ ppc[w] = "load"
    /\ ptr' = [ptr EXCEPT ![w] = doorbell]
    /\ ppc' = [ppc EXCEPT ![w] = IF doorbell = 0 THEN "out" ELSE "call"]
    /\ muted' = (muted \/ doorbell = 0)
    /\ UNCHANGED <<ring, armed, doorbell, closed, bells>>

\* push(), the call through the pointer.  A trampoline closed in the
\* meantime delivers nothing the program can rely on.
CallBell(w) ==
    /\ ppc[w] = "call"
    /\ ppc' = [ppc EXCEPT ![w] = "out"]
    /\ ptr' = [ptr EXCEPT ![w] = 0]
    /\ IF ptr[w] <= closed
       THEN muted' = TRUE /\ UNCHANGED bells
       ELSE bells' = bells + 1 /\ UNCHANGED muted
    /\ UNCHANGED <<ring, armed, doorbell, closed>>

-----------------------------------------------------------------------------
\* drain(), ARMED.store(false), before the ring is locked.
Disarm ==
    /\ armed' = FALSE
    /\ muted' = FALSE
    /\ UNCHANGED <<ring, doorbell, ppc, ptr, closed, bells>>

\* drain(), the locked section: all or nothing.  TakeAll is the case of a
\* buffer that holds everything pending; in the other two cases (nothing is
\* pending, or the needed size is returned) the ring is left as it is.
TakeAll ==
    /\ ring' = <<>>
    /\ UNCHANGED <<armed, doorbell, ppc, ptr, closed, bells, muted>>

\* set_doorbell and clear_doorbell.
SetDoorbell(p) ==
    /\ doorbell' = p
    /\ UNCHANGED <<ring, armed, ppc, ptr, closed, bells, muted>>

\* clear(): the ring is emptied under its lock, then ARMED is stored.
ClearRing ==
    /\ ring' = <<>>
    /\ UNCHANGED <<armed, doorbell, ppc, ptr, closed, bells, muted>>

ClearArmed == Disarm

\* The owner closes its trampoline.  What becomes of invocations that are
\* still queued is up to Bun: they run, or they are dropped.
CloseBell(p) ==
    /\ closed' = p
    /\ \/ UNCHANGED <<bells, muted>>
       \/ bells' = 0 /\ muted' = (muted \/ bells > 0)
    /\ UNCHANGED <<ring, armed, doorbell, ppc, ptr>>

\* The event loop takes one queued invocation of the callback.
TakeBell ==
    /\ bells > 0
    /\ bells' = bells - 1
    /\ UNCHANGED <<ring, armed, doorbell, ppc, ptr, closed, muted>>

=============================================================================
