----------------------------- MODULE BufferPool -----------------------------
(***************************************************************************)
(* The pool of reusable output buffers of src/shared/buffer-pool.ts.       *)
(*                                                                         *)
(* Buffers and handles are objects, numbered in the order in which they    *)
(* are allocated.  A handle object is recycled: after release() it waits   *)
(* in freeHandles, and a later acquire() points it at another buffer.      *)
(* Everything here runs on the JS thread, so an operation is one step.     *)
(***************************************************************************)
EXTENDS Integers, Sequences, FiniteSets

CONSTANTS
    InitialSize,  \* size of the buffers made at construction
    AskedSizes,   \* sizes that acquire() is asked for
    MaxBuffers,   \* buffers retained in the free list
    MaxInFlight,  \* buffers borrowed at once; 0 means no limit
    Prefill,      \* buffers made at construction beside the first one
    Estimates,    \* estimates an adaptive pool can reach, else {InitialSize}
    MaxCreated,   \* bound on the buffers of an instance
    MaxObjects    \* bound on its handle objects

ASSUME BufferAssumption ==
    /\ InitialSize \in Nat \ {0}
    /\ AskedSizes \subseteq Nat
    /\ MaxBuffers \in Nat \ {0}
    /\ MaxInFlight \in Nat
    /\ Prefill \in 0..(MaxBuffers - 1)
    /\ Estimates \subseteq Nat
    /\ Estimates # {}
    /\ \A e \in Estimates : e >= InitialSize
    /\ MaxCreated \in Nat
    /\ MaxObjects \in Nat

VARIABLES
    sizes,        \* byteLength of every buffer ever made
    free,         \* the free list
    handles,      \* every handle object: its buffer, its released flag and,
                  \* as a history, the size its checkout asked for
    freeHandles,  \* stack of handle objects to recycle
    inFlight      \* the pool's count of borrowed buffers

bufferVars == <<sizes, free, handles, freeHandles, inFlight>>

Maximum(a, b) == IF a >= b THEN a ELSE b

MaxHandles == MaxBuffers + Maximum(1, MaxInFlight)

BufferInit ==
    /\ sizes = [i \in 1..(Prefill + 1) |-> InitialSize]
    /\ free = [i \in 1..(Prefill + 1) |-> i]
    /\ handles = <<>>
    /\ freeHandles = <<>>
    /\ inFlight = 0

-----------------------------------------------------------------------------
\* Remove position i by moving the last element there.
SwapOut(s, i) == SubSeq([s EXCEPT ![i] = s[Len(s)]], 1, Len(s) - 1)

SizeAt(i) == sizes[free[i]]

\* The positions of the free list that are large enough, and the first one.
Fitting(n) == {i \in 1..Len(free) : SizeAt(i) >= n}
FirstFit(n) == CHOOSE i \in Fitting(n) : \A k \in Fitting(n) : i <= k

\* The first position with a largest, or a smallest, buffer.
Largest ==
    CHOOSE i \in 1..Len(free) : \A k \in 1..Len(free) :
        SizeAt(k) < SizeAt(i) \/ (SizeAt(k) = SizeAt(i) /\ i <= k)
Smallest ==
    CHOOSE i \in 1..Len(free) : \A k \in 1..Len(free) :
        SizeAt(k) > SizeAt(i) \/ (SizeAt(k) = SizeAt(i) /\ i <= k)

\* take() finds a buffer for n bytes: one that fits or, in place of the
\* largest one, a new one.
TakeIsReuse(n) == Fitting(n) # {}

Taken(n) == IF TakeIsReuse(n) THEN free[FirstFit(n)] ELSE Len(sizes) + 1

\* Mutant of TakeReused: the buffer stays in the free list.
TakeReusedKeeps(n) == TakeIsReuse(n) /\ UNCHANGED <<free, sizes>>

TakeReused(n) ==
    /\ TakeIsReuse(n)
    /\ free' = SwapOut(free, FirstFit(n))
    /\ UNCHANGED sizes

TakeNew(n, estimate) ==
    /\ ~TakeIsReuse(n)
    /\ Len(sizes) < MaxCreated
    /\ sizes' = Append(sizes, Maximum(estimate, n))
    /\ free' = IF free = <<>> THEN free ELSE SwapOut(free, Largest)

\* The handle object the next acquire() returns.
NextHandle ==
    IF freeHandles = <<>> THEN Len(handles) + 1 ELSE freeHandles[Len(freeHandles)]

Exhausted == MaxInFlight > 0 /\ inFlight >= MaxInFlight

\* acquire(n), which throws when the pool is exhausted.
Acquire(n) ==
    /\ ~Exhausted
    /\ TakeReused(n) \/ \E e \in Estimates : TakeNew(n, e)
    /\ inFlight' = inFlight + 1
    /\ LET h == [buffer |-> Taken(n), released |-> FALSE, asked |-> n]
       IN  IF freeHandles = <<>>
           THEN /\ Len(handles) < MaxObjects
                /\ handles' = Append(handles, h)
                /\ UNCHANGED freeHandles
           ELSE /\ handles' = [handles EXCEPT ![NextHandle] = h]
                /\ freeHandles' = SubSeq(freeHandles, 1, Len(freeHandles) - 1)

\* The free list with room for one more: at the bound the smallest one goes.
MadeRoom == IF Len(free) >= MaxBuffers THEN SwapOut(free, Smallest) ELSE free

\* returnHandle(h) and releaseBuffer.
ReturnHandle(h) ==
    /\ inFlight' = inFlight - 1
    /\ free' = Append(MadeRoom, handles[h].buffer)
    /\ freeHandles' = IF Len(freeHandles) < MaxHandles
                      THEN Append(freeHandles, h) ELSE freeHandles

\* release() of a handle object; nothing when it is already released.
Release(h) ==
    IF handles[h].released
    THEN UNCHANGED bufferVars
    ELSE /\ handles' = [handles EXCEPT ![h].released = TRUE, ![h].asked = 0]
         /\ ReturnHandle(h)
         /\ UNCHANGED sizes

\* shrink(): the free list is dropped, borrowed buffers are not touched.
Shrink ==
    /\ free' = <<>>
    /\ UNCHANGED <<sizes, handles, freeHandles, inFlight>>

\* A client that keeps the rule of the pool: it releases a handle only for
\* the checkout it belongs to.
BufferNext ==
    \/ \E n \in AskedSizes : Acquire(n)
    \/ \E h \in 1..Len(handles) : Release(h)
    \/ Shrink

BufferSpec == BufferInit /\ [][BufferNext]_bufferVars

-----------------------------------------------------------------------------
Borrowed == {h \in 1..Len(handles) : ~handles[h].released}

\* Every variable has its type: the free list and the handles name buffers
\* that exist, and the count of borrowed buffers never goes below zero.
BufferTypeOK ==
    /\ sizes \in Seq(Nat)
    /\ free \in Seq(1..Len(sizes))
    /\ handles \in Seq([buffer : 1..Len(sizes), released : BOOLEAN, asked : Nat])
    /\ freeHandles \in Seq(1..Len(handles))
    /\ inFlight \in Nat

\* No two hold the same buffer: two borrowers, a borrower and the free list,
\* or two places of the free list (take() and releaseBuffer).
OneHolder ==
    /\ \A h, k \in Borrowed : handles[h].buffer = handles[k].buffer => h = k
    /\ \A h \in Borrowed, i \in 1..Len(free) : handles[h].buffer # free[i]
    /\ \A i, k \in 1..Len(free) : free[i] = free[k] => i = k

\* A recycled handle object is nobody's: everything on the stack of
\* freeHandles is released and is there once, so that two checkouts never
\* share one.
HandlesRecycledOnce ==
    /\ \A i \in 1..Len(freeHandles) : handles[freeHandles[i]].released
    /\ \A i, k \in 1..Len(freeHandles) : freeHandles[i] = freeHandles[k] => i = k

\* The pool counts exactly the borrowed buffers, so the limit of acquire()
\* is the limit on what is borrowed and a refusal means that it is reached.
InFlightExact ==
    /\ inFlight = Cardinality(Borrowed)
    /\ MaxInFlight > 0 => Cardinality(Borrowed) <= MaxInFlight

\* A borrower has at least the bytes it asked for, however its buffer was
\* found: reused, grown or made.
LargeEnough ==
    \A h \in Borrowed : sizes[handles[h].buffer] >= handles[h].asked

\* Memory that is retained is bounded: buffers by maxBuffers, handle objects
\* by the most that can be in use at once, whatever was acquired before.
RetentionBounded ==
    /\ Len(free) <= MaxBuffers
    /\ Len(freeHandles) <= MaxHandles

=============================================================================
