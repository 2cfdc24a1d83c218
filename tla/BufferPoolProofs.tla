-------------------------- MODULE BufferPoolProofs --------------------------
(***************************************************************************)
(* Proofs about BufferPool, for every size, bound and order of checkouts.  *)
(***************************************************************************)
EXTENDS BufferPool, TLAPS, FiniteSetTheorems, WellFoundedInduction

\* There is a largest buffer: what makes Largest a position.
SizesBounded == \E u \in Nat : \A b \in 1..Len(sizes) : sizes[b] <= u

\* The inductive invariant.
BufferInv ==
    /\ BufferTypeOK
    /\ SizesBounded
    /\ OneHolder
    /\ HandlesRecycledOnce
    /\ InFlightExact
    /\ LargeEnough
    /\ RetentionBounded

-----------------------------------------------------------------------------
\* The empty list is the one of length 0.
LEMMA EmptyList ==
  ASSUME NEW S
  PROVE  <<>> \in Seq(S) /\ \A s \in Seq(S) : s # <<>> => Len(s) \in Nat \ {0}
OBVIOUS

\* The elements of a list are what it is a list of.
LEMMA ElementIn ==
  ASSUME NEW S, NEW s \in Seq(S), NEW i \in 1..Len(s)
  PROVE  s[i] \in S
OBVIOUS

\* A list of some elements is a list of more.
LEMMA Widened ==
  ASSUME NEW S, NEW T, NEW s \in Seq(S), S \subseteq T
  PROVE  s \in Seq(T)
OBVIOUS

\* A list with an element more.
LEMMA Extended ==
  ASSUME NEW S, NEW s \in Seq(S), NEW e \in S
  PROVE  /\ Append(s, e) \in Seq(S) /\ Len(Append(s, e)) = Len(s) + 1
         /\ \A i \in 1..Len(s) : Append(s, e)[i] = s[i]
         /\ Append(s, e)[Len(s) + 1] = e
OBVIOUS

\* A list with one element replaced.
LEMMA Replaced ==
  ASSUME NEW S, NEW s \in Seq(S), NEW i \in 1..Len(s), NEW e \in S
  PROVE  /\ [s EXCEPT ![i] = e] \in Seq(S) /\ Len([s EXCEPT ![i] = e]) = Len(s)
         /\ \A k \in 1..Len(s) : [s EXCEPT ![i] = e][k] = IF k = i THEN e ELSE s[k]
OBVIOUS

\* A non-empty set of naturals has a least element.
LEMMA LeastNat ==
  ASSUME NEW T \in SUBSET Nat, T # {}
  PROVE  \E x \in T : \A y \in T : x <= y
<1>1. PICK x \in T : \A y \in T : ~(<<y, x>> \in OpToRel(<, Nat))
  BY WFMin, NatLessThanWellFounded, Zenon
<1>2. \A y \in T : ~(y < x)
  BY <1>1, Zenon DEF OpToRel
<1> QED
  BY <1>2

\* The O(1) removal of take() and releaseBuffer: one element fewer, the last
\* one in the place of the one removed.
LEMMA SwapOutIs ==
  ASSUME NEW S, NEW s \in Seq(S), NEW i \in 1..Len(s)
  PROVE  /\ SwapOut(s, i) \in Seq(S)
         /\ Len(SwapOut(s, i)) = Len(s) - 1
         /\ \A k \in 1..(Len(s) - 1) :
               SwapOut(s, i)[k] = IF k = i THEN s[Len(s)] ELSE s[k]
<1> DEFINE t == [s EXCEPT ![i] = s[Len(s)]]
<1>1. Len(s) \in Nat /\ Len(s) \in 1..Len(s)
  OBVIOUS
<1>2. t \in Seq(S) /\ Len(t) = Len(s)
  BY <1>1
<1>3. \A k \in 1..Len(s) : t[k] = IF k = i THEN s[Len(s)] ELSE s[k]
  BY <1>1
<1> HIDE DEF t
<1>4. /\ SubSeq(t, 1, Len(s) - 1) \in Seq(S)
      /\ Len(SubSeq(t, 1, Len(s) - 1)) = Len(s) - 1
      /\ \A k \in 1..(Len(s) - 1) : SubSeq(t, 1, Len(s) - 1)[k] = t[k]
  BY <1>1, <1>2
<1>5. SwapOut(s, i) = SubSeq(t, 1, Len(s) - 1)
  BY DEF SwapOut, t
<1> QED
  BY <1>1, <1>3, <1>4, <1>5, SMTT(30)

\* What a removal leaves of a list without duplicates has none either and
\* does not hold the element that was removed.
LEMMA SwapOutDistinct ==
  ASSUME NEW S, NEW s \in Seq(S), NEW i \in 1..Len(s),
         \A j, k \in 1..Len(s) : s[j] = s[k] => j = k
  PROVE  /\ \A j, k \in 1..Len(SwapOut(s, i)) :
               SwapOut(s, i)[j] = SwapOut(s, i)[k] => j = k
         /\ \A k \in 1..Len(SwapOut(s, i)) : SwapOut(s, i)[k] # s[i]
         /\ \A k \in 1..Len(SwapOut(s, i)) : \E j \in 1..Len(s) : SwapOut(s, i)[k] = s[j]
<1> DEFINE t == SwapOut(s, i)
<1>0. Len(s) \in Nat \ {0}
  OBVIOUS
<1>1. /\ Len(t) = Len(s) - 1
      /\ \A k \in 1..(Len(s) - 1) : t[k] = IF k = i THEN s[Len(s)] ELSE s[k]
  BY SwapOutIs, ZenonT(30)
<1> HIDE DEF t
<1>2. \A j, k \in 1..Len(t) : t[j] = t[k] => j = k
  BY <1>0, <1>1
<1>3. \A k \in 1..Len(t) : t[k] # s[i]
  BY <1>0, <1>1
<1>4. \A k \in 1..Len(t) : \E j \in 1..Len(s) : t[k] = s[j]
  BY <1>0, <1>1
<1> QED
  BY <1>2, <1>3, <1>4 DEF t

\* What the types say of the free list.
LEMMA SizeTypes ==
  ASSUME BufferTypeOK
  PROVE  /\ Len(free) \in Nat /\ Len(sizes) \in Nat
         /\ \A i \in 1..Len(free) : free[i] \in 1..Len(sizes) /\ SizeAt(i) \in Nat
<1>1. sizes \in Seq(Nat) /\ free \in Seq(1..Len(sizes))
  BY DEF BufferTypeOK
<1>2. Len(free) \in Nat /\ Len(sizes) \in Nat
  BY <1>1
<1>3. \A i \in 1..Len(free) : free[i] \in 1..Len(sizes)
  BY <1>1
<1>4. \A b \in 1..Len(sizes) : sizes[b] \in Nat
  BY <1>1
<1> QED
  BY <1>2, <1>3, <1>4, Zenon DEF SizeAt

\* What the types say of a handle object.
LEMMA HandleTypes ==
  ASSUME BufferTypeOK
  PROVE  /\ Len(handles) \in Nat
         /\ \A h \in 1..Len(handles) :
               /\ handles[h] \in [buffer : 1..Len(sizes), released : BOOLEAN, asked : Nat]
               /\ handles[h].buffer \in 1..Len(sizes)
<1>1. handles \in Seq([buffer : 1..Len(sizes), released : BOOLEAN, asked : Nat])
  BY DEF BufferTypeOK
<1>2. Len(handles) \in Nat
  BY <1>1
<1>3. \A h \in 1..Len(handles) :
         handles[h] \in [buffer : 1..Len(sizes), released : BOOLEAN, asked : Nat]
  BY <1>1, ElementIn, Zenon
<1> QED
  BY <1>2, <1>3

\* The scans of take() and releaseBuffer find a position of the free list.
LEMMA FirstFitIs ==
  ASSUME BufferTypeOK, NEW n \in Nat, TakeIsReuse(n)
  PROVE  FirstFit(n) \in 1..Len(free) /\ SizeAt(FirstFit(n)) >= n
<1>1. Fitting(n) \in SUBSET Nat /\ Fitting(n) # {}
  BY SizeTypes DEF Fitting, TakeIsReuse
<1>2. \E i \in Fitting(n) : \A k \in Fitting(n) : i <= k
  BY <1>1, LeastNat
<1>3. FirstFit(n) \in Fitting(n)
  BY <1>2, Zenon DEF FirstFit
<1> QED
  BY <1>3 DEF Fitting

LEMMA SmallestIs ==
  ASSUME BufferTypeOK, Len(free) > 0
  PROVE  Smallest \in 1..Len(free)
<1>1. /\ Len(free) \in Nat
      /\ \A i \in 1..Len(free) : SizeAt(i) \in Nat
  BY SizeTypes
<1> DEFINE T == {SizeAt(i) : i \in 1..Len(free)}
<1>2. T \in SUBSET Nat /\ T # {}
  BY <1>1
<1>3. PICK m \in T : \A y \in T : m <= y
  BY <1>2, LeastNat, Zenon
<1> DEFINE I == {i \in 1..Len(free) : SizeAt(i) = m}
<1>4. I \in SUBSET Nat /\ I # {}
  BY <1>3
<1>5. PICK i \in I : \A k \in I : i <= k
  BY <1>4, LeastNat, Zenon
<1>6. \A k \in 1..Len(free) : SizeAt(k) >= m /\ SizeAt(i) = m
  BY <1>1, <1>3, <1>5
<1>7. \A k \in 1..Len(free) : SizeAt(k) > SizeAt(i) \/ (SizeAt(k) = SizeAt(i) /\ i <= k)
  BY <1>1, <1>2, <1>5, <1>6
<1>8. i \in 1..Len(free)
  BY <1>5
<1> QED
  BY <1>7, <1>8, Zenon DEF Smallest

LEMMA LargestIs ==
  ASSUME BufferTypeOK, SizesBounded, Len(free) > 0
  PROVE  Largest \in 1..Len(free)
<1>1. /\ Len(free) \in Nat
      /\ \A i \in 1..Len(free) : free[i] \in 1..Len(sizes) /\ SizeAt(i) \in Nat
  BY SizeTypes
<1> DEFINE U == {u \in Nat : \A i \in 1..Len(free) : SizeAt(i) <= u}
<1>2. U \in SUBSET Nat /\ U # {}
  BY <1>1, Zenon DEF SizesBounded, SizeAt
<1>3. PICK m \in U : \A y \in U : m <= y
  BY <1>2, LeastNat, Zenon
<1>4. m \in Nat /\ \A i \in 1..Len(free) : SizeAt(i) <= m
  BY <1>3
<1> DEFINE I == {i \in 1..Len(free) : SizeAt(i) = m}
<1>5. I # {}
  <2>1. SUFFICES ASSUME \A i \in 1..Len(free) : SizeAt(i) # m
                 PROVE  FALSE
    OBVIOUS
  <2>2. \A i \in 1..Len(free) : SizeAt(i) <= m - 1
    BY <1>1, <1>4, <2>1
  <2>3. m - 1 \in Nat
    BY <1>1, <1>4, <2>2
  <2>4. m - 1 \in U
    BY <2>2, <2>3
  <2> QED
    BY <1>3, <1>4, <2>4
<1>6. PICK i \in I : \A k \in I : i <= k
  <2>1. I \in SUBSET Nat
    OBVIOUS
  <2> QED
    BY <1>5, <2>1, LeastNat, Zenon
<1>7. \A k \in 1..Len(free) : SizeAt(k) < SizeAt(i) \/ (SizeAt(k) = SizeAt(i) /\ i <= k)
  BY <1>1, <1>4, <1>6
<1>8. i \in 1..Len(free)
  BY <1>6
<1> QED
  BY <1>7, <1>8, Zenon DEF Largest

-----------------------------------------------------------------------------
\* take(n): the buffer it returns exists, is large enough, is nobody's and is
\* no longer in the free list, which loses at most that one or the largest.
LEMMA TakeStep ==
  ASSUME BufferInv, NEW n \in Nat,
         TakeReused(n) \/ \E e \in Estimates : TakeNew(n, e)
  PROVE  /\ sizes' \in Seq(Nat) /\ Len(sizes') >= Len(sizes)
         /\ \A b \in 1..Len(sizes) : sizes'[b] = sizes[b]
         /\ SizesBounded'
         /\ Taken(n) \in 1..Len(sizes') /\ sizes'[Taken(n)] >= n
         /\ \A h \in Borrowed : handles[h].buffer # Taken(n)
         /\ free' \in Seq(1..Len(sizes')) /\ Len(free') <= MaxBuffers
         /\ \A i, k \in 1..Len(free') : free'[i] = free'[k] => i = k
         /\ \A k \in 1..Len(free') : free'[k] # Taken(n)
         /\ \A k \in 1..Len(free') : \E j \in 1..Len(free) : free'[k] = free[j]
<1>1. /\ Len(free) \in Nat /\ Len(sizes) \in Nat
      /\ \A i \in 1..Len(free) : free[i] \in 1..Len(sizes) /\ SizeAt(i) \in Nat
  BY SizeTypes DEF BufferInv
<1>2. /\ sizes \in Seq(Nat) /\ free \in Seq(1..Len(sizes))
      /\ Len(free) <= MaxBuffers /\ MaxBuffers \in Nat
      /\ handles \in Seq([buffer : 1..Len(sizes), released : BOOLEAN, asked : Nat])
  BY BufferAssumption DEF BufferInv, BufferTypeOK, RetentionBounded
<1>3. \A i, k \in 1..Len(free) : free[i] = free[k] => i = k
  BY DEF BufferInv, OneHolder
<1>4. CASE TakeReused(n)
  <2> DEFINE i == FirstFit(n)
  <2>1. i \in 1..Len(free) /\ SizeAt(i) >= n
    BY <1>4, FirstFitIs DEF BufferInv, TakeReused
  <2>2. free' = SwapOut(free, i) /\ sizes' = sizes /\ Taken(n) = free[i]
    BY <1>4 DEF TakeReused, Taken
  <2> HIDE DEF i
  <2>3. /\ SwapOut(free, i) \in Seq(1..Len(sizes))
        /\ Len(SwapOut(free, i)) = Len(free) - 1
    BY <1>2, <2>1, SwapOutIs
  <2>4. /\ \A j, k \in 1..Len(free') : free'[j] = free'[k] => j = k
        /\ \A k \in 1..Len(free') : free'[k] # free[i]
        /\ \A k \in 1..Len(free') : \E j \in 1..Len(free) : free'[k] = free[j]
    <3>1. /\ \A j, k \in 1..Len(SwapOut(free, i)) :
                SwapOut(free, i)[j] = SwapOut(free, i)[k] => j = k
          /\ \A k \in 1..Len(SwapOut(free, i)) : SwapOut(free, i)[k] # free[i]
          /\ \A k \in 1..Len(SwapOut(free, i)) :
                \E j \in 1..Len(free) : SwapOut(free, i)[k] = free[j]
      BY <1>2, <1>3, <2>1, SwapOutDistinct, ZenonT(30)
    <3> QED
      BY <2>2, <3>1, Zenon
  <2>5. \A h \in Borrowed : handles[h].buffer # free[i]
    BY <2>1, Zenon DEF BufferInv, OneHolder
  <2>6. SizesBounded'
    BY <2>2, Zenon DEF BufferInv, SizesBounded
  <2>7. free[i] \in 1..Len(sizes) /\ sizes[free[i]] >= n
    BY <1>1, <2>1 DEF SizeAt
  <2>8. Len(free') <= MaxBuffers /\ Len(sizes') >= Len(sizes)
    BY <1>1, <1>2, <2>2, <2>3
  <2> QED
    BY <1>2, <2>2, <2>3, <2>4, <2>5, <2>6, <2>7, <2>8, Zenon
<1>5. CASE \E e \in Estimates : TakeNew(n, e)
  <2>1. PICK e \in Estimates : TakeNew(n, e)
    BY <1>5
  <2>2. e \in Nat /\ Maximum(e, n) \in Nat /\ Maximum(e, n) >= n
    BY BufferAssumption DEF Maximum
  <2> DEFINE z == Maximum(e, n)
  <2>3. /\ sizes' = Append(sizes, z)
        /\ Taken(n) = Len(sizes) + 1
        /\ free' = IF free = <<>> THEN free ELSE SwapOut(free, Largest)
    BY <2>1 DEF TakeNew, Taken
  <2> HIDE DEF z
  <2>4. z \in Nat /\ z >= n
    BY <2>2 DEF z
  <2>5. /\ sizes' \in Seq(Nat) /\ Len(sizes') = Len(sizes) + 1
        /\ \A b \in 1..Len(sizes) : sizes'[b] = sizes[b]
        /\ sizes'[Len(sizes) + 1] = z
    BY <1>2, <2>3, <2>4, Extended
  <2>6. SizesBounded'
    <3>1. PICK u \in Nat : \A b \in 1..Len(sizes) : sizes[b] <= u
      BY Zenon DEF BufferInv, SizesBounded
    <3>2. u + z \in Nat
      BY <2>4
    <3>3. \A b \in 1..Len(sizes) : sizes[b] \in Nat
      BY <1>2
    <3>4. \A b \in 1..Len(sizes) : sizes'[b] <= u + z
      BY <1>1, <2>4, <2>5, <3>1, <3>3, SMTT(30)
    <3>5. sizes'[Len(sizes) + 1] <= u + z
      BY <2>4, <2>5
    <3>6. \A b \in 1..Len(sizes') : b \in 1..Len(sizes) \/ b = Len(sizes) + 1
      BY <1>1, <2>5
    <3>7. \A b \in 1..Len(sizes') : sizes'[b] <= u + z
      BY <3>4, <3>5, <3>6, Zenon
    <3> QED
      BY <3>2, <3>7, Zenon DEF SizesBounded
  <2>7. \A h \in Borrowed : handles[h].buffer # Len(sizes) + 1
    <3>1. \A h \in 1..Len(handles) : handles[h].buffer \in 1..Len(sizes)
      BY HandleTypes DEF BufferInv
    <3> QED
      BY <1>1, <3>1 DEF Borrowed
  <2>8. /\ free' \in Seq(1..Len(sizes)) /\ Len(free') <= Len(free)
        /\ \A j, k \in 1..Len(free') : free'[j] = free'[k] => j = k
        /\ \A k \in 1..Len(free') : \E j \in 1..Len(free) : free'[k] = free[j]
    <3>1. CASE free = <<>>
      <4>1. free' = free
        BY <2>3, <3>1
      <4> QED
        BY <1>1, <1>2, <1>3, <4>1
    <3>2. CASE free # <<>>
      <4>1. Len(free) > 0
        BY <1>1, <1>2, <3>2, EmptyList
      <4>2. Largest \in 1..Len(free)
        BY <4>1, LargestIs DEF BufferInv
      <4>3. free' = SwapOut(free, Largest)
        BY <2>3, <3>2
      <4>4. free' \in Seq(1..Len(sizes)) /\ Len(free') = Len(free) - 1
        BY <1>2, <4>2, <4>3, SwapOutIs, Zenon
      <4>5. /\ \A j, k \in 1..Len(free') : free'[j] = free'[k] => j = k
            /\ \A k \in 1..Len(free') : \E j \in 1..Len(free) : free'[k] = free[j]
        <5>1. /\ \A j, k \in 1..Len(SwapOut(free, Largest)) :
                    SwapOut(free, Largest)[j] = SwapOut(free, Largest)[k] => j = k
              /\ \A k \in 1..Len(SwapOut(free, Largest)) :
                    \E j \in 1..Len(free) : SwapOut(free, Largest)[k] = free[j]
          BY <1>2, <1>3, <4>2, SwapOutDistinct, ZenonT(30)
        <5> QED
          BY <4>3, <5>1, Zenon
      <4> QED
        BY <1>1, <4>4, <4>5
    <3> QED
      BY <3>1, <3>2
  <2>9. free' \in Seq(1..Len(sizes')) /\ Len(free') <= MaxBuffers
    BY <1>1, <1>2, <2>5, <2>8
  <2>10. \A k \in 1..Len(free') : free'[k] # Len(sizes) + 1
    BY <1>1, <2>8
  <2>11. Len(sizes) + 1 \in 1..Len(sizes') /\ Len(sizes') >= Len(sizes)
    BY <1>1, <2>5
  <2>12. sizes'[Len(sizes) + 1] >= n
    BY <2>4, <2>5
  <2>13. /\ \A h \in Borrowed : handles[h].buffer # Taken(n)
         /\ \A k \in 1..Len(free') : free'[k] # Taken(n)
         /\ Taken(n) \in 1..Len(sizes') /\ sizes'[Taken(n)] >= n
    BY <2>3, <2>7, <2>10, <2>11, <2>12, Zenon
  <2> QED
    BY <2>5, <2>6, <2>8, <2>9, <2>11, <2>13, Zenon
<1> QED
  BY <1>4, <1>5

\* The borrowed handles are a finite set.
LEMMA BorrowedFinite ==
  ASSUME BufferTypeOK
  PROVE  IsFiniteSet(Borrowed) /\ Cardinality(Borrowed) \in Nat
<1>1. Len(handles) \in Nat
  BY HandleTypes
<1>2. IsFiniteSet(1..Len(handles))
  BY <1>1, FS_Interval
<1>3. Borrowed \in SUBSET (1..Len(handles))
  BY DEF Borrowed
<1>4. IsFiniteSet(Borrowed)
  BY <1>2, <1>3, FS_Subset, Zenon
<1> QED
  BY <1>4, FS_CardinalityType

\* pop() of a stack that is not empty.
LEMMA PopIs ==
  ASSUME NEW S, NEW s \in Seq(S), Len(s) > 0
  PROVE  /\ SubSeq(s, 1, Len(s) - 1) \in Seq(S)
         /\ Len(SubSeq(s, 1, Len(s) - 1)) = Len(s) - 1
         /\ \A i \in 1..(Len(s) - 1) : SubSeq(s, 1, Len(s) - 1)[i] = s[i]
<1>1. Len(s) \in Nat /\ Len(s) - 1 \in 0..Len(s)
  OBVIOUS
<1> DEFINE m == Len(s) - 1
<1> HIDE DEF m
<1>2. m \in Nat /\ m <= Len(s)
  BY <1>1 DEF m
<1>3. SubSeq(s, 1, m) \in Seq(S) /\ Len(SubSeq(s, 1, m)) = m
  BY <1>1, <1>2
<1>4. \A i \in 1..m : SubSeq(s, 1, m)[i] = s[i]
  BY <1>1, <1>2
<1> QED
  BY <1>3, <1>4 DEF m

\* acquire() returns a handle object that nobody holds, points it at the
\* buffer and leaves all others alone.
LEMMA HandleStep ==
  ASSUME BufferInv, NEW n \in Nat, Acquire(n)
  PROVE  /\ NextHandle \in 1..Len(handles')
         /\ NextHandle \notin Borrowed
         /\ handles'[NextHandle] = [buffer |-> Taken(n), released |-> FALSE, asked |-> n]
         /\ handles' \in Seq([buffer : 1..Len(sizes'), released : BOOLEAN, asked : Nat])
         /\ Len(handles') \in Nat
         /\ 1..Len(handles') = 1..Len(handles) \cup {NextHandle}
         /\ \A k \in 1..Len(handles) : k # NextHandle => handles'[k] = handles[k]
         /\ freeHandles' \in Seq(1..Len(handles'))
         /\ Len(freeHandles') <= Len(freeHandles)
         /\ \A i \in 1..Len(freeHandles') :
               freeHandles'[i] = freeHandles[i] /\ freeHandles'[i] # NextHandle
<1> DEFINE R == [buffer : 1..Len(sizes'), released : BOOLEAN, asked : Nat]
           r == [buffer |-> Taken(n), released |-> FALSE, asked |-> n]
<1>0. /\ Taken(n) \in 1..Len(sizes') /\ Len(sizes') >= Len(sizes)
      /\ Len(sizes) \in Nat /\ Len(sizes') \in Nat
  <2>1. Taken(n) \in 1..Len(sizes') /\ Len(sizes') >= Len(sizes) /\ sizes' \in Seq(Nat)
    BY TakeStep DEF Acquire
  <2> QED
    BY <2>1 DEF BufferInv, BufferTypeOK
<1>1. /\ Len(handles) \in Nat /\ handles \in Seq(R) /\ r \in R
      /\ freeHandles \in Seq(1..Len(handles)) /\ Len(freeHandles) \in Nat
  <2>1. /\ handles \in Seq([buffer : 1..Len(sizes), released : BOOLEAN, asked : Nat])
        /\ freeHandles \in Seq(1..Len(handles))
    BY DEF BufferInv, BufferTypeOK
  <2>2. [buffer : 1..Len(sizes), released : BOOLEAN, asked : Nat] \subseteq R
    BY <1>0
  <2>3. r \in R
    BY <1>0
  <2> HIDE DEF R, r
  <2>4. handles \in Seq(R)
    BY <2>1, <2>2, Widened, Zenon
  <2> QED
    BY <2>1, <2>3, <2>4
<1>2. /\ \A i \in 1..Len(freeHandles) : handles[freeHandles[i]].released
      /\ \A i, k \in 1..Len(freeHandles) : freeHandles[i] = freeHandles[k] => i = k
  BY DEF BufferInv, HandlesRecycledOnce
<1> HIDE DEF R, r
<1>3. CASE freeHandles = <<>>
  <2>1. /\ NextHandle = Len(handles) + 1
        /\ handles' = Append(handles, r)
        /\ freeHandles' = freeHandles
    BY <1>3 DEF Acquire, NextHandle, r
  <2>2. /\ Len(handles') = Len(handles) + 1
        /\ \A k \in 1..Len(handles) : handles'[k] = handles[k]
        /\ handles'[Len(handles) + 1] = r
        /\ handles' \in Seq(R)
    BY <1>1, <2>1, Extended
  <2>3. Len(freeHandles') = 0
    BY <1>3, <2>1
  <2>4. 1..Len(handles') = 1..Len(handles) \cup {Len(handles) + 1}
    BY <1>1, <2>2
  <2>5. Len(handles) + 1 \notin Borrowed
    BY <1>1 DEF Borrowed
  <2>6. freeHandles' \in Seq(1..Len(handles'))
    BY <1>1, <2>1, <2>2
  <2>8. Len(handles') \in Nat /\ Len(freeHandles') <= Len(freeHandles)
    BY <1>1, <2>1, <2>2
  <2>9. \A i \in 1..Len(freeHandles') : FALSE
    BY <2>3
  <2>10. Len(handles) + 1 \in 1..Len(handles')
    BY <1>1, <2>2
  <2> QED
    BY <2>1, <2>2, <2>4, <2>5, <2>6, <2>8, <2>9, <2>10, Zenon DEF r, R
<1>4. CASE freeHandles # <<>>
  <2> DEFINE l == Len(freeHandles)
             h == freeHandles[l]
  <2>1. /\ NextHandle = h
        /\ handles' = [handles EXCEPT ![h] = r]
        /\ freeHandles' = SubSeq(freeHandles, 1, l - 1)
    BY <1>4 DEF Acquire, NextHandle, r
  <2>2. l \in Nat \ {0} /\ l \in 1..l
    BY <1>1, <1>4, EmptyList
  <2>3. h \in 1..Len(handles) /\ handles[h].released
    BY <1>1, <1>2, <2>2
  <2>4. /\ freeHandles' \in Seq(1..Len(handles))
        /\ Len(freeHandles') = l - 1
        /\ \A i \in 1..(l - 1) : freeHandles'[i] = freeHandles[i]
    BY <1>1, <2>1, <2>2, PopIs, SMTT(30)
  <2>5. \A i \in 1..(l - 1) : freeHandles[i] # h
    BY <1>2, <2>2
  <2> HIDE DEF h
  <2>6. /\ Len(handles') = Len(handles)
        /\ handles'[h] = r
        /\ \A k \in 1..Len(handles) : k # h => handles'[k] = handles[k]
    BY <1>1, <2>1, <2>3
  <2>10. handles' \in Seq(R)
    BY <1>1, <2>1, <2>3
  <2>7. h \notin Borrowed
    BY <2>3 DEF Borrowed
  <2>8. 1..Len(handles) = 1..Len(handles) \cup {h}
    BY <2>3
  <2>9. Len(freeHandles') <= Len(freeHandles)
    BY <2>2, <2>4
  <2> QED
    BY <1>1, <2>1, <2>3, <2>4, <2>5, <2>6, <2>7, <2>8, <2>9, <2>10, Zenon DEF r, R
<1> QED
  BY <1>3, <1>4, Zenon

\* acquire(n) keeps the invariant.
LEMMA AcquireStep ==
  ASSUME BufferInv, NEW n \in Nat, Acquire(n)
  PROVE  BufferInv'
<1> DEFINE h == NextHandle
<1>1. /\ sizes' \in Seq(Nat) /\ Len(sizes') >= Len(sizes)
      /\ \A b \in 1..Len(sizes) : sizes'[b] = sizes[b]
      /\ SizesBounded'
      /\ sizes'[Taken(n)] >= n
      /\ \A k \in Borrowed : handles[k].buffer # Taken(n)
      /\ free' \in Seq(1..Len(sizes')) /\ Len(free') <= MaxBuffers
      /\ \A i, k \in 1..Len(free') : free'[i] = free'[k] => i = k
      /\ \A k \in 1..Len(free') : free'[k] # Taken(n)
      /\ \A k \in 1..Len(free') : \E j \in 1..Len(free) : free'[k] = free[j]
  BY TakeStep, Zenon DEF Acquire
<1>2. /\ h \in 1..Len(handles') /\ h \notin Borrowed
      /\ handles'[h] = [buffer |-> Taken(n), released |-> FALSE, asked |-> n]
      /\ handles' \in Seq([buffer : 1..Len(sizes'), released : BOOLEAN, asked : Nat])
      /\ 1..Len(handles') = 1..Len(handles) \cup {h}
      /\ \A k \in 1..Len(handles) : k # h => handles'[k] = handles[k]
      /\ freeHandles' \in Seq(1..Len(handles'))
      /\ Len(freeHandles') <= Len(freeHandles)
      /\ \A i \in 1..Len(freeHandles') :
            freeHandles'[i] = freeHandles[i] /\ freeHandles'[i] # h
  BY HandleStep, Zenon
<1> HIDE DEF h
<1>3. handles'[h].buffer = Taken(n) /\ ~handles'[h].released /\ handles'[h].asked = n
  BY <1>2
<1>4. Borrowed' = Borrowed \cup {h}
  BY <1>2, <1>3, Zenon DEF Borrowed
<1>5. \A k \in Borrowed : k \in 1..Len(handles) /\ k # h /\ handles'[k] = handles[k]
  BY <1>2, Zenon DEF Borrowed
<1>6. inFlight' = inFlight + 1 /\ inFlight \in Nat
  BY DEF Acquire, BufferInv, BufferTypeOK
<1>7. BufferTypeOK'
  BY <1>1, <1>2, <1>6 DEF BufferTypeOK
<1>8. OneHolder'
  <2>1. /\ \A k, m \in Borrowed : handles[k].buffer = handles[m].buffer => k = m
        /\ \A k \in Borrowed, i \in 1..Len(free) : handles[k].buffer # free[i]
    BY DEF BufferInv, OneHolder
  <2>2. \A k \in Borrowed : handles'[k].buffer = handles[k].buffer
    BY <1>5
  <2>3. \A k \in Borrowed : handles'[k].buffer # handles'[h].buffer
    BY <1>1, <1>3, <2>2, Zenon
  <2>4. \A k, m \in Borrowed : handles'[k].buffer = handles'[m].buffer => k = m
    BY <2>1, <2>2, Zenon
  <2>5. \A k, m \in Borrowed' : handles'[k].buffer = handles'[m].buffer => k = m
    BY <1>4, <2>3, <2>4, SMT
  <2>6. \A k \in Borrowed, i \in 1..Len(free') : handles'[k].buffer # free'[i]
    <3> TAKE k \in Borrowed, i \in 1..Len(free')
    <3>1. PICK j \in 1..Len(free) : free'[i] = free[j]
      BY <1>1, Zenon
    <3> QED
      BY <2>1, <2>2, <3>1, Zenon
  <2>7. \A k \in Borrowed', i \in 1..Len(free') : handles'[k].buffer # free'[i]
    BY <1>1, <1>3, <1>4, <2>6, Zenon
  <2> QED
    BY <1>1, <2>5, <2>7, Zenon DEF OneHolder
<1>9. HandlesRecycledOnce'
  <2>1. Len(freeHandles') \in Nat /\ Len(freeHandles) \in Nat
    BY <1>2, SMTT(30) DEF BufferInv, BufferTypeOK
  <2>2. \A i \in 1..Len(freeHandles') : i \in 1..Len(freeHandles)
    BY <1>2, <2>1
  <2>3. \A i \in 1..Len(freeHandles') : freeHandles[i] \in 1..Len(handles)
    <3>1. freeHandles \in Seq(1..Len(handles))
      BY DEF BufferInv, BufferTypeOK
    <3> QED
      BY <2>2, <3>1, ElementIn
  <2>4. \A i \in 1..Len(freeHandles') : handles'[freeHandles'[i]].released
    BY <1>2, <2>2, <2>3, Zenon DEF BufferInv, HandlesRecycledOnce
  <2> QED
    BY <1>2, <2>2, <2>4, ZenonT(30) DEF BufferInv, HandlesRecycledOnce
<1>10. InFlightExact'
  <2>1. IsFiniteSet(Borrowed) /\ Cardinality(Borrowed) \in Nat
    BY BorrowedFinite DEF BufferInv
  <2>2. Cardinality(Borrowed \cup {h}) = Cardinality(Borrowed) + 1
    BY <1>2, <2>1, FS_AddElement, Zenon
  <2>3. Cardinality(Borrowed') = Cardinality(Borrowed) + 1
    BY <1>4, <2>2
  <2>4. inFlight = Cardinality(Borrowed)
    BY DEF BufferInv, InFlightExact
  <2>5. MaxInFlight > 0 => inFlight + 1 <= MaxInFlight
    BY <1>6, BufferAssumption DEF Acquire, Exhausted
  <2> QED
    BY <1>6, <2>3, <2>4, <2>5 DEF InFlightExact
<1>11. LargeEnough'
  <2>1. \A k \in Borrowed : handles[k].buffer \in 1..Len(sizes)
    BY HandleTypes DEF BufferInv, Borrowed
  <2>2. \A k \in Borrowed : sizes'[handles'[k].buffer] >= handles'[k].asked
    BY <1>1, <1>5, <2>1, Zenon DEF BufferInv, LargeEnough
  <2> QED
    BY <1>1, <1>3, <1>4, <2>2, Zenon DEF LargeEnough
<1>12. RetentionBounded'
  <2>1. Len(freeHandles) <= MaxHandles /\ MaxHandles \in Nat
    BY BufferAssumption DEF BufferInv, RetentionBounded, MaxHandles, Maximum
  <2>2. Len(freeHandles') \in Nat /\ Len(freeHandles) \in Nat
    BY <1>2 DEF BufferInv, BufferTypeOK
  <2>3. Len(freeHandles') <= MaxHandles
    BY <1>2, <2>1, <2>2
  <2>4. MaxHandles' = MaxHandles
    BY DEF MaxHandles, Maximum
  <2> QED
    BY <1>1, <2>3, <2>4 DEF RetentionBounded
<1> QED
  BY <1>1, <1>7, <1>8, <1>9, <1>10, <1>11, <1>12, Zenon DEF BufferInv

\* Room is made in the free list without adding to it.
LEMMA MadeRoomIs ==
  ASSUME BufferInv
  PROVE  /\ MadeRoom \in Seq(1..Len(sizes))
         /\ Len(MadeRoom) < MaxBuffers
         /\ \A i, k \in 1..Len(MadeRoom) : MadeRoom[i] = MadeRoom[k] => i = k
         /\ \A k \in 1..Len(MadeRoom) : \E j \in 1..Len(free) : MadeRoom[k] = free[j]
<1>1. /\ free \in Seq(1..Len(sizes)) /\ Len(free) \in Nat
      /\ Len(free) <= MaxBuffers /\ MaxBuffers \in Nat \ {0}
      /\ \A i, k \in 1..Len(free) : free[i] = free[k] => i = k
  <2>1. /\ free \in Seq(1..Len(sizes)) /\ Len(free) <= MaxBuffers /\ MaxBuffers \in Nat \ {0}
        /\ \A i, k \in 1..Len(free) : free[i] = free[k] => i = k
    BY BufferAssumption, Zenon DEF BufferInv, BufferTypeOK, RetentionBounded, OneHolder
  <2>2. Len(free) \in Nat
    BY <2>1
  <2> QED
    BY <2>1, <2>2, Zenon
<1>2. CASE Len(free) >= MaxBuffers
  <2>1. MadeRoom = SwapOut(free, Smallest)
    BY <1>2 DEF MadeRoom
  <2>2. Smallest \in 1..Len(free)
    BY <1>1, <1>2, SmallestIs DEF BufferInv
  <2>3. /\ SwapOut(free, Smallest) \in Seq(1..Len(sizes))
        /\ Len(SwapOut(free, Smallest)) = Len(free) - 1
    BY <1>1, <2>2, SwapOutIs
  <2>4. /\ \A j, k \in 1..Len(SwapOut(free, Smallest)) :
              SwapOut(free, Smallest)[j] = SwapOut(free, Smallest)[k] => j = k
        /\ \A k \in 1..Len(SwapOut(free, Smallest)) :
              \E j \in 1..Len(free) : SwapOut(free, Smallest)[k] = free[j]
    BY <1>1, <2>2, SwapOutDistinct, Zenon
  <2>5. Len(SwapOut(free, Smallest)) < MaxBuffers
    BY <1>1, <2>3
  <2> QED
    BY <2>1, <2>3, <2>4, <2>5, Zenon
<1>3. CASE ~(Len(free) >= MaxBuffers)
  <2>1. MadeRoom = free /\ Len(free) < MaxBuffers
    BY <1>1, <1>3 DEF MadeRoom
  <2> QED
    BY <1>1, <2>1, Zenon
<1> QED
  BY <1>2, <1>3, Zenon

\* release() of a handle object that is borrowed keeps the invariant.
LEMMA ReleaseStep ==
  ASSUME BufferInv, NEW h \in 1..Len(handles), ~handles[h].released, Release(h)
  PROVE  BufferInv'
<1> DEFINE b == handles[h].buffer
           m == MadeRoom
<1>1. /\ handles' = [handles EXCEPT ![h].released = TRUE, ![h].asked = 0]
      /\ inFlight' = inFlight - 1
      /\ free' = Append(m, b)
      /\ freeHandles' = IF Len(freeHandles) < MaxHandles
                        THEN Append(freeHandles, h) ELSE freeHandles
      /\ sizes' = sizes
  BY Zenon DEF Release, ReturnHandle
<1>2. /\ m \in Seq(1..Len(sizes)) /\ Len(m) < MaxBuffers /\ Len(m) \in Nat
      /\ \A i, k \in 1..Len(m) : m[i] = m[k] => i = k
      /\ \A k \in 1..Len(m) : \E j \in 1..Len(free) : m[k] = free[j]
  BY MadeRoomIs
<1> HIDE DEF m
<1>3. /\ Len(handles) \in Nat
      /\ handles \in Seq([buffer : 1..Len(sizes), released : BOOLEAN, asked : Nat])
      /\ handles[h] \in [buffer : 1..Len(sizes), released : BOOLEAN, asked : Nat]
      /\ b \in 1..Len(sizes)
      /\ freeHandles \in Seq(1..Len(handles)) /\ Len(freeHandles) \in Nat
      /\ sizes \in Seq(Nat) /\ inFlight \in Nat
      /\ MaxBuffers \in Nat /\ MaxHandles \in Nat
  BY HandleTypes, BufferAssumption, SMTT(30) DEF BufferInv, BufferTypeOK, MaxHandles, Maximum
<1>4. /\ Len(handles') = Len(handles)
      /\ handles'[h].released
      /\ \A k \in 1..Len(handles) : k # h => handles'[k] = handles[k]
      /\ handles' \in Seq([buffer : 1..Len(sizes), released : BOOLEAN, asked : Nat])
  <2> DEFINE R == [buffer : 1..Len(sizes), released : BOOLEAN, asked : Nat]
             r == [handles[h] EXCEPT !.released = TRUE, !.asked = 0]
  <2>1. r \in R /\ r.released
    BY <1>3, Zenon
  <2>2. handles' = [handles EXCEPT ![h] = r]
    BY <1>1, <1>3, Zenon
  <2> HIDE DEF R, r
  <2>3. handles \in Seq(R)
    BY <1>3 DEF R
  <2>4. /\ [handles EXCEPT ![h] = r] \in Seq(R)
        /\ Len([handles EXCEPT ![h] = r]) = Len(handles)
        /\ \A k \in 1..Len(handles) :
              [handles EXCEPT ![h] = r][k] = IF k = h THEN r ELSE handles[k]
    BY <2>1, <2>3, Replaced
  <2> QED
    BY <2>1, <2>2, <2>4, Zenon DEF R
<1>5. Borrowed' = Borrowed \ {h} /\ h \in Borrowed
  BY <1>4, Zenon DEF Borrowed
<1>6. \A k \in Borrowed' : k \in Borrowed /\ k # h /\ handles'[k] = handles[k]
  BY <1>4, <1>5, Zenon DEF Borrowed
<1>7. /\ free' \in Seq(1..Len(sizes)) /\ Len(free') = Len(m) + 1
      /\ \A i \in 1..Len(m) : free'[i] = m[i]
      /\ free'[Len(m) + 1] = b
  BY <1>1, <1>2, <1>3, Extended
<1>8. \A i \in 1..Len(free') : i \in 1..Len(m) \/ i = Len(m) + 1
  BY <1>2, <1>7
<1>9. /\ \A k, l \in Borrowed : handles[k].buffer = handles[l].buffer => k = l
      /\ \A k \in Borrowed, i \in 1..Len(free) : handles[k].buffer # free[i]
  BY DEF BufferInv, OneHolder
<1>10. OneHolder'
  <2>1. \A k, l \in Borrowed' : handles'[k].buffer = handles'[l].buffer => k = l
    BY <1>6, <1>9, Zenon
  <2>2. \A k \in Borrowed, i \in 1..Len(m) : handles[k].buffer # m[i]
    <3> TAKE k \in Borrowed, i \in 1..Len(m)
    <3>1. PICK j \in 1..Len(free) : m[i] = free[j]
      BY <1>2, Zenon
    <3> QED
      BY <1>9, <3>1, Zenon
  <2>3. \A k \in Borrowed' : handles'[k].buffer # b
    BY <1>5, <1>6, <1>9, Zenon
  <2>4. \A k \in Borrowed', i \in 1..Len(free') : handles'[k].buffer # free'[i]
    <3> TAKE k \in Borrowed', i \in 1..Len(free')
    <3>1. CASE i \in 1..Len(m)
      BY <1>6, <1>7, <2>2, <3>1, Zenon
    <3>2. CASE i = Len(m) + 1
      BY <1>7, <2>3, <3>2, Zenon
    <3> QED
      BY <1>8, <3>1, <3>2, Zenon
  <2>5. \A i \in 1..Len(m) : free'[i] # b
    BY <1>5, <1>7, <2>2, Zenon
  <2>6. \A i, k \in 1..Len(free') : free'[i] = free'[k] => i = k
    <3> TAKE i, k \in 1..Len(free')
    <3>1. CASE i \in 1..Len(m) /\ k \in 1..Len(m)
      BY <1>2, <1>7, <3>1, Zenon
    <3>2. CASE i = Len(m) + 1 \/ k = Len(m) + 1
      BY <1>7, <1>8, <2>5, <3>2, Zenon
    <3> QED
      BY <1>8, <3>1, <3>2, Zenon
  <2> QED
    BY <2>1, <2>4, <2>6, Zenon DEF OneHolder
<1>11. /\ freeHandles' \in Seq(1..Len(handles'))
       /\ Len(freeHandles') <= MaxHandles
       /\ HandlesRecycledOnce'
  <2>1. /\ \A i \in 1..Len(freeHandles) : handles[freeHandles[i]].released
        /\ \A i, k \in 1..Len(freeHandles) : freeHandles[i] = freeHandles[k] => i = k
        /\ Len(freeHandles) <= MaxHandles
    BY DEF BufferInv, HandlesRecycledOnce, RetentionBounded
  <2>2. \A i \in 1..Len(freeHandles) : freeHandles[i] \in 1..Len(handles)
    BY <1>3, ElementIn, Zenon
  <2>3. \A i \in 1..Len(freeHandles) : freeHandles[i] # h /\ handles'[freeHandles[i]].released
    BY <1>4, <2>1, <2>2, Zenon
  <2>4. CASE Len(freeHandles) < MaxHandles
    <3>1. freeHandles' = Append(freeHandles, h)
      BY <1>1, <2>4
    <3>2. /\ freeHandles' \in Seq(1..Len(handles))
          /\ Len(freeHandles') = Len(freeHandles) + 1
          /\ \A i \in 1..Len(freeHandles) : freeHandles'[i] = freeHandles[i]
          /\ freeHandles'[Len(freeHandles) + 1] = h
      BY <1>3, <3>1, Extended
    <3>3. \A i \in 1..Len(freeHandles') :
             i \in 1..Len(freeHandles) \/ i = Len(freeHandles) + 1
      BY <1>3, <3>2
    <3>4. \A i \in 1..Len(freeHandles') : handles'[freeHandles'[i]].released
      BY <1>4, <2>3, <3>2, <3>3, Zenon
    <3>5. \A i, k \in 1..Len(freeHandles') : freeHandles'[i] = freeHandles'[k] => i = k
      <4> TAKE i, k \in 1..Len(freeHandles')
      <4>1. CASE i \in 1..Len(freeHandles) /\ k \in 1..Len(freeHandles)
        BY <2>1, <3>2, <4>1, ZenonT(30)
      <4>2. CASE i = Len(freeHandles) + 1 \/ k = Len(freeHandles) + 1
        BY <2>3, <3>2, <3>3, <4>2, Zenon
      <4> QED
        BY <3>3, <4>1, <4>2, Zenon
    <3>6. Len(freeHandles') <= MaxHandles
      BY <1>3, <2>4, <3>2
    <3> QED
      BY <1>4, <3>2, <3>4, <3>5, <3>6, Zenon DEF HandlesRecycledOnce
  <2>5. CASE ~(Len(freeHandles) < MaxHandles)
    <3>1. freeHandles' = freeHandles
      BY <1>1, <2>5
    <3> QED
      BY <1>3, <1>4, <2>1, <2>3, <3>1, Zenon DEF HandlesRecycledOnce
  <2> QED
    BY <2>4, <2>5
<1>12. InFlightExact' /\ inFlight' \in Nat
  <2>1. IsFiniteSet(Borrowed) /\ Cardinality(Borrowed) \in Nat
    BY BorrowedFinite DEF BufferInv
  <2>2. /\ IsFiniteSet(Borrowed \ {h})
        /\ Cardinality(Borrowed \ {h}) = Cardinality(Borrowed) - 1
    BY <1>5, <2>1, FS_RemoveElement, Zenon
  <2>3. Cardinality(Borrowed \ {h}) \in Nat
    BY <2>2, FS_CardinalityType
  <2>4. /\ inFlight = Cardinality(Borrowed)
        /\ MaxInFlight > 0 => Cardinality(Borrowed) <= MaxInFlight
    BY DEF BufferInv, InFlightExact
  <2>5. Cardinality(Borrowed') = Cardinality(Borrowed) - 1
    BY <1>5, <2>2
  <2> QED
    BY <1>1, <1>5, <2>1, <2>3, <2>4, <2>5, BufferAssumption, SMTT(30) DEF InFlightExact
<1>13. LargeEnough'
  BY <1>1, <1>6, Zenon DEF BufferInv, LargeEnough
<1>14. SizesBounded'
  BY <1>1 DEF BufferInv, SizesBounded
<1>15. BufferTypeOK'
  BY <1>1, <1>3, <1>4, <1>7, <1>11, <1>12, Zenon DEF BufferTypeOK
<1>16. RetentionBounded'
  <2>1. Len(free') <= MaxBuffers
    BY <1>2, <1>3, <1>7
  <2> QED
    BY <1>11, <2>1 DEF RetentionBounded, MaxHandles, Maximum
<1> QED
  BY <1>10, <1>11, <1>12, <1>13, <1>14, <1>15, <1>16, Zenon DEF BufferInv

\* shrink() keeps the invariant: what is borrowed is not touched.
LEMMA ShrinkStep ==
  ASSUME BufferInv, Shrink
  PROVE  BufferInv'
<1>1. free' = <<>> /\ UNCHANGED <<sizes, handles, freeHandles, inFlight>>
  BY DEF Shrink
<1>2. free' \in Seq(1..Len(sizes)) /\ Len(free') = 0
  BY <1>1
<1>3. Borrowed' = Borrowed /\ SizesBounded'
  BY <1>1, Zenon DEF Borrowed, BufferInv, SizesBounded
<1>4. \A i \in 1..Len(free') : FALSE
  BY <1>2
<1>5. BufferTypeOK'
  BY <1>1, <1>2 DEF BufferInv, BufferTypeOK
<1>6. OneHolder'
  BY <1>1, <1>3, <1>4, Zenon DEF BufferInv, OneHolder
<1>7. HandlesRecycledOnce' /\ LargeEnough' /\ InFlightExact'
  BY <1>1, <1>3, Zenon DEF BufferInv, HandlesRecycledOnce, LargeEnough, InFlightExact
<1>8. RetentionBounded'
  BY <1>1, <1>2, BufferAssumption DEF BufferInv, RetentionBounded, MaxHandles, Maximum
<1> QED
  BY <1>3, <1>5, <1>6, <1>7, <1>8 DEF BufferInv

\* The constructor establishes the invariant.
LEMMA BufferInitInv ==
  ASSUME BufferInit
  PROVE  BufferInv
<1>0. InitialSize \in Nat /\ Prefill + 1 \in Nat /\ Prefill + 1 <= MaxBuffers
  BY BufferAssumption
<1>1. /\ sizes = [i \in 1..(Prefill + 1) |-> InitialSize]
      /\ free = [i \in 1..(Prefill + 1) |-> i]
      /\ handles = <<>> /\ freeHandles = <<>> /\ inFlight = 0
  BY DEF BufferInit
<1>2. sizes \in Seq(Nat) /\ Len(sizes) = Prefill + 1
  BY <1>0, <1>1
<1>3. free \in Seq(1..Len(sizes)) /\ Len(free) = Prefill + 1
  BY <1>0, <1>1, <1>2
<1>4. BufferTypeOK
  <2>1. handles \in Seq([buffer : 1..Len(sizes), released : BOOLEAN, asked : Nat])
    BY <1>1, EmptyList, Zenon
  <2>2. freeHandles \in Seq(1..Len(handles))
    BY <1>1, EmptyList, Zenon
  <2>3. inFlight \in Nat
    BY <1>1
  <2> QED
    BY <1>2, <1>3, <2>1, <2>2, <2>3, Zenon DEF BufferTypeOK
<1>5. SizesBounded
  BY <1>0, <1>1, <1>2 DEF SizesBounded
<1>6. Len(handles) = 0 /\ Len(freeHandles) = 0
  BY <1>1
<1>7. Borrowed = {}
  BY <1>6 DEF Borrowed
<1>8. \A i, k \in 1..Len(free) : free[i] = free[k] => i = k
  BY <1>1, <1>3, Zenon
<1>9. OneHolder /\ LargeEnough
  BY <1>7, <1>8 DEF OneHolder, LargeEnough
<1>10. HandlesRecycledOnce
  BY <1>6 DEF HandlesRecycledOnce
<1>11. InFlightExact
  <2>1. Cardinality(Borrowed) = 0
    BY <1>7, FS_EmptySet
  <2> QED
    BY <1>1, <2>1, BufferAssumption DEF InFlightExact
<1>12. RetentionBounded
  BY <1>0, <1>3, <1>6, BufferAssumption DEF RetentionBounded, MaxHandles, Maximum
<1> QED
  BY <1>4, <1>5, <1>9, <1>10, <1>11, <1>12 DEF BufferInv

\* Doing nothing to the pool keeps the invariant.
LEMMA BufferStutter ==
  ASSUME BufferInv, UNCHANGED bufferVars
  PROVE  BufferInv'
<1>1. UNCHANGED <<sizes, free, handles, freeHandles, inFlight>>
  BY DEF bufferVars
<1>2. Borrowed' = Borrowed
  BY <1>1 DEF Borrowed
<1>3. /\ BufferTypeOK' /\ SizesBounded' /\ OneHolder' /\ HandlesRecycledOnce'
      /\ InFlightExact' /\ LargeEnough' /\ RetentionBounded'
  BY <1>1, <1>2, Zenon DEF BufferInv, BufferTypeOK, SizesBounded, OneHolder,
     HandlesRecycledOnce, InFlightExact, LargeEnough, RetentionBounded, MaxHandles, Maximum
<1> QED
  BY <1>3 DEF BufferInv

\* Every operation of the pool keeps the invariant.
LEMMA BufferStep ==
  ASSUME BufferInv, [BufferNext]_bufferVars
  PROVE  BufferInv'
<1>1. CASE \E n \in AskedSizes : Acquire(n)
  BY <1>1, AcquireStep, BufferAssumption
<1>2. CASE \E h \in 1..Len(handles) : Release(h)
  <2>1. PICK h \in 1..Len(handles) : Release(h)
    BY <1>2
  <2>2. CASE handles[h].released
    BY <2>1, <2>2, BufferStutter DEF Release
  <2>3. CASE ~handles[h].released
    BY <2>1, <2>3, ReleaseStep
  <2> QED
    BY <2>2, <2>3
<1>3. CASE Shrink
  BY <1>3, ShrinkStep
<1>4. CASE UNCHANGED bufferVars
  BY <1>4, BufferStutter
<1> QED
  BY <1>1, <1>2, <1>3, <1>4 DEF BufferNext

\* The invariant holds throughout the life of a pool.
THEOREM BufferInvariant == BufferSpec => []BufferInv
<1>1. BufferInit => BufferInv
  BY BufferInitInv
<1>2. BufferInv /\ [BufferNext]_bufferVars => BufferInv'
  BY BufferStep
<1> QED
  BY <1>1, <1>2, PTL DEF BufferSpec

\* The free list and the handles name buffers that exist, and the count of
\* borrowed buffers never goes below zero.
THEOREM BufferTypes == BufferSpec => []BufferTypeOK
<1>1. BufferInv => BufferTypeOK
  BY DEF BufferInv
<1> QED
  BY <1>1, BufferInvariant, PTL

\* A buffer has one holder: one borrower, or one place in the free list,
\* through any mix of reuse, growth, eviction and shrink().
THEOREM BufferOneHolder == BufferSpec => []OneHolder
<1>1. BufferInv => OneHolder
  BY DEF BufferInv
<1> QED
  BY <1>1, BufferInvariant, PTL

\* Recycled handle objects are released and wait once: two checkouts never
\* share a handle.
THEOREM BufferHandles == BufferSpec => []HandlesRecycledOnce
<1>1. BufferInv => HandlesRecycledOnce
  BY DEF BufferInv
<1> QED
  BY <1>1, BufferInvariant, PTL

\* inFlight is the number of borrowed buffers and keeps to maxInFlight.
THEOREM BufferCount == BufferSpec => []InFlightExact
<1>1. BufferInv => InFlightExact
  BY DEF BufferInv
<1> QED
  BY <1>1, BufferInvariant, PTL

\* acquire(n) hands out at least n bytes, and they stay while borrowed.
THEOREM BufferLargeEnough == BufferSpec => []LargeEnough
<1>1. BufferInv => LargeEnough
  BY DEF BufferInv
<1> QED
  BY <1>1, BufferInvariant, PTL

\* The free list and the stack of handles keep their bounds.
THEOREM BufferRetention == BufferSpec => []RetentionBounded
<1>1. BufferInv => RetentionBounded
  BY DEF BufferInv
<1> QED
  BY <1>1, BufferInvariant, PTL

=============================================================================
