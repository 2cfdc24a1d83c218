----------------------------- MODULE ClientProofs ---------------------------
(***************************************************************************)
(* Proofs about what the two promise-returning layers above the native     *)
(* calls owe their callers: the task calls with their retries (TaskCalls), *)
(* for any number of calls, and the loader with its batches, contexts and  *)
(* cache (Loader), for any ops, inputs and number of calls.                *)
(***************************************************************************)
EXTENDS TaskCalls, Loader, FiniteSetTheorems, WellFoundedInduction, TLAPS

(***************************************************************************)
(* The task calls.                                                         *)
(***************************************************************************)
\* How far call c is, and what its current attempt can have been answered.
ChainKept(c) ==
    /\ attempt[c] \in 0..3
    /\ outcome[c] = "none" <=> attempt[c] = 0
    /\ data[c].direct /\ attempt[c] # 0 => attempt[c] = 1 /\ form[c] = "copy"
    /\ attempt[c] = 3 => form[c] = "copy"
    /\ attempt[c] = 2 /\ form[c] = "into" => data[c].known /\ data[c].good
    /\ attempt[c] # 0 =>
           promise[Current(c)] \in {"pending", "overloaded", "cancelled", Answer(c)}
    /\ outcome[c] \notin {"none", "pending"} =>
           /\ outcome[c] = promise[Current(c)]
           /\ outcome[c] = "ok" \/ attempt[c] = 3 \/ data[c].direct

\* The inductive invariant of the chains.
ChainInv ==
    /\ DOMAIN promise = Tasks
    /\ DOMAIN form = Chains /\ DOMAIN attempt = Chains /\ DOMAIN outcome = Chains
    /\ data \in [Chains -> Data]
    /\ \A c \in Chains : ChainKept(c)

-----------------------------------------------------------------------------
\* The chains start with no call made.
LEMMA ChainInitInv == ASSUME ChainInit PROVE ChainInv
<1>1. /\ promise = [t \in Tasks |-> "none"]
      /\ form = [c \in Chains |-> "into"]
      /\ attempt = [c \in Chains |-> 0]
      /\ outcome = [c \in Chains |-> "none"]
      /\ data \in [Chains -> Data]
  BY Zenon DEF ChainInit, Service!ServiceInit
<1>2. \A c \in Chains : attempt[c] = 0 /\ outcome[c] = "none" /\ data[c] \in Data
  BY <1>1, Zenon
<1>3. \A c \in Chains : ChainKept(c)
  BY <1>2 DEF ChainKept
<1> QED BY <1>1, <1>3, Zenon DEF ChainInv

\* A call whose state and whose current promise do not change.
LEMMA ChainFrame ==
  ASSUME NEW c \in Chains, ChainKept(c),
         attempt'[c] = attempt[c], outcome'[c] = outcome[c], form'[c] = form[c],
         data'[c] = data[c],
         attempt[c] # 0 => promise'[<<c, attempt[c]>>] = promise[<<c, attempt[c]>>]
  PROVE  ChainKept(c)'
<1>1. Answer(c)' = Answer(c)
  BY Zenon DEF Answer
<1>2. attempt[c] # 0 => promise'[<<c, attempt'[c]>>] = promise[<<c, attempt[c]>>]
  BY Zenon
<1>3. CASE attempt[c] = 0
  BY <1>3 DEF ChainKept
<1>4. CASE attempt[c] # 0
  BY <1>1, <1>2, <1>4, Zenon DEF ChainKept, Current
<1> QED BY <1>3, <1>4, Zenon

\* Attempt n of call c is submitted in form f, and no other call is touched.
Attempted(c, n, f) ==
    /\ attempt'[c] = n /\ form'[c] = f
    /\ promise'[<<c, n>>] \in {"pending", "overloaded"}
    /\ DOMAIN promise' = Tasks /\ DOMAIN form' = Chains /\ DOMAIN attempt' = Chains
    /\ \A d \in Chains \ {c} :
          /\ attempt'[d] = attempt[d] /\ form'[d] = form[d]
          /\ \A m \in 1..3 : promise'[<<d, m>>] = promise[<<d, m>>]

\* What submit and submitInto do to the chains.
LEMMA AttemptIs ==
  ASSUME ChainInv, NEW c \in Chains, NEW n \in 1..3, NEW f, Attempt(c, n, f)
  PROVE  Attempted(c, n, f)
<1>1. DOMAIN promise = Tasks /\ DOMAIN form = Chains /\ DOMAIN attempt = Chains
  BY Zenon DEF ChainInv
<1>2. PICK r \in {"pending", "overloaded"} : promise' = [promise EXCEPT ![<<c, n>>] = r]
  <2>1. PICK r \in {"pending"} \cup (IF MayOverload THEN {"overloaded"} ELSE {}) :
           promise' = [promise EXCEPT ![<<c, n>>] = r]
    BY Zenon DEF Attempt
  <2>2. r \in {"pending", "overloaded"}
    BY <2>1, Zenon
  <2> QED BY <2>1, <2>2, Zenon
<1>3. /\ attempt' = [attempt EXCEPT ![c] = n] /\ form' = [form EXCEPT ![c] = f]
  BY Zenon DEF Attempt
<1>4. <<c, n>> \in Tasks
  BY Zenon DEF Tasks
<1>5. \A d \in Chains \ {c}, m \in 1..3 : promise'[<<d, m>>] = promise[<<d, m>>]
  <2> SUFFICES ASSUME NEW d \in Chains \ {c}, NEW m \in 1..3
               PROVE  promise'[<<d, m>>] = promise[<<d, m>>]
    BY Zenon
  <2>1. <<d, m>> # <<c, n>>
    BY SMT
  <2>2. <<d, m>> \in Tasks
    BY Zenon DEF Tasks
  <2> QED BY <1>1, <1>2, <2>1, <2>2, Zenon
<1> QED BY <1>1, <1>2, <1>3, <1>4, <1>5, Zenon DEF Attempted

\* The first attempt of a call.
LEMMA CallStep ==
  ASSUME ChainInv, NEW c \in Chains, Call(c)
  PROVE  ChainInv'
<1> DEFINE f == IF data[c].direct THEN "copy" ELSE "into"
<1>1. /\ outcome[c] = "none" /\ outcome' = [outcome EXCEPT ![c] = "pending"]
      /\ Attempt(c, 1, f) /\ UNCHANGED data
  BY Zenon DEF Call
<1>0. PICK g : g = f
  OBVIOUS
<1>2. Attempted(c, 1, g)
  <2>1. 1 \in 1..3
    OBVIOUS
  <2>2. Attempt(c, 1, g)
    BY <1>0, <1>1
  <2> QED BY <2>1, <2>2, AttemptIs, Zenon
<1>3. /\ DOMAIN outcome' = Chains /\ outcome'[c] = "pending"
      /\ \A d \in Chains \ {c} : outcome'[d] = outcome[d]
  BY <1>1, Zenon DEF ChainInv
<1>4. ASSUME NEW d \in Chains, d # c PROVE ChainKept(d)'
  <2>1. ChainKept(d) /\ (attempt[d] # 0 => attempt[d] \in 1..3)
    BY DEF ChainInv, ChainKept
  <2> QED BY <1>1, <1>2, <1>3, <1>4, <2>1, ChainFrame, Zenon DEF Attempted
<1>5. ChainKept(c)'
  <2>1. Current(c)' = <<c, 1>>
    BY <1>2, Zenon DEF Attempted, Current
  <2>2. promise'[Current(c)'] \in {"pending", "overloaded"}
    BY <1>2, <2>1, Zenon DEF Attempted
  <2>3. data'[c].direct => form'[c] = "copy"
    BY <1>0, <1>1, <1>2, Zenon DEF Attempted
  <2>4. attempt'[c] = 1
    BY <1>2, Zenon DEF Attempted
  <2> HIDE DEF f
  <2> QED BY <1>3, <2>2, <2>3, <2>4 DEF ChainKept
<1> QED BY <1>1, <1>2, <1>3, <1>4, <1>5, Zenon DEF Attempted, ChainInv

\* The completion of an attempt.
LEMMA CompleteStep ==
  ASSUME ChainInv, NEW c \in Chains, Complete(c)
  PROVE  ChainInv'
<1>1. PICK r \in {Answer(c), "cancelled"} : promise' = [promise EXCEPT ![Current(c)] = r]
  BY Zenon DEF Complete
<1>2. /\ attempt[c] # 0 /\ promise[Current(c)] = "pending"
      /\ UNCHANGED <<form, attempt, outcome, data>>
  BY Zenon DEF Complete
<1>3. ChainKept(c) /\ DOMAIN promise = Tasks
  BY Zenon DEF ChainInv
<1>4. Current(c) \in Tasks
  BY <1>2, <1>3 DEF ChainKept, Current, Tasks
<1>5. DOMAIN promise' = Tasks /\ promise'[Current(c)] = r
  BY <1>1, <1>3, <1>4, Zenon
<1>6. ASSUME NEW d \in Chains, d # c PROVE ChainKept(d)'
  <2>1. ChainKept(d) /\ (attempt[d] # 0 => attempt[d] \in 1..3)
    BY DEF ChainInv, ChainKept
  <2>2. <<d, attempt[d]>> # Current(c)
    BY <1>6, SMT DEF Current
  <2>3. attempt[d] # 0 => <<d, attempt[d]>> \in Tasks
    BY <2>1, Zenon DEF Tasks
  <2>4. attempt[d] # 0 => promise'[<<d, attempt[d]>>] = promise[<<d, attempt[d]>>]
    BY <1>1, <1>3, <2>2, <2>3, Zenon
  <2> QED BY <1>2, <2>1, <2>4, ChainFrame, Zenon
<1>7. ChainKept(c)'
  <2>1. outcome[c] \in {"none", "pending"}
    <3>1. CASE outcome[c] \notin {"none", "pending"}
      BY <1>2, <1>3, <3>1 DEF ChainKept
    <3> QED BY <3>1, Zenon
  <2>2. Current(c)' = Current(c) /\ Answer(c)' = Answer(c)
    BY <1>2, Zenon DEF Current, Answer
  <2>3. promise'[Current(c)'] \in {Answer(c)', "cancelled"}
    BY <1>5, <2>2, Zenon
  <2> QED BY <1>2, <1>3, <2>1, <2>3, Zenon DEF ChainKept
<1> QED BY <1>2, <1>5, <1>6, <1>7, Zenon DEF ChainInv

\* One turn of the chain: the answer is final, or the next attempt is made
\* in the form the rejection calls for.
LEMMA ContinueStep ==
  ASSUME ChainInv, NEW c \in Chains, Continue(c)
  PROVE  ChainInv'
<1> DEFINE r == promise[Current(c)]
           n == attempt[c] + 1
           final == r = "ok" \/ n = 4 \/ data[c].direct
<1>1. /\ outcome[c] = "pending" /\ r \in Results /\ UNCHANGED data
      /\ IF final
         THEN /\ outcome' = [outcome EXCEPT ![c] = r]
              /\ UNCHANGED <<promise, form, attempt>>
         ELSE Attempt(c, n, NextForm(n, r)) /\ UNCHANGED outcome
  BY Zenon DEF Continue, Turn
<1>2. ChainKept(c) /\ DOMAIN outcome = Chains
  BY Zenon DEF ChainInv
<1>3. attempt[c] \in 1..3 /\ n \in 2..4
  BY <1>1, <1>2 DEF ChainKept
<1>4. r \in {"overloaded", "cancelled", Answer(c)}
  <2>1. r # "pending"
    BY <1>1 DEF Results, Service!Results
  <2>2. attempt[c] # 0
    BY <1>3
  <2> QED BY <1>2, <2>1, <2>2, Zenon DEF ChainKept
<1>5. CASE final
  <2>1. /\ outcome' = [outcome EXCEPT ![c] = r]
        /\ UNCHANGED <<promise, form, attempt, data>>
    BY <1>1, <1>5, Zenon
  <2>2. DOMAIN outcome' = Chains /\ outcome'[c] = r /\ \A d \in Chains \ {c} : outcome'[d] = outcome[d]
    BY <1>2, <2>1, Zenon
  <2>3. ASSUME NEW d \in Chains, d # c PROVE ChainKept(d)'
    BY <2>1, <2>2, <2>3, ChainFrame, Zenon DEF ChainInv
  <2>4. ChainKept(c)'
    <3>1. r = "ok" \/ attempt[c] = 3 \/ data[c].direct
      BY <1>3, <1>5
    <3>2. outcome'[c] # "none" /\ attempt[c] # 0
      BY <1>1, <1>3, <2>2 DEF Results, Service!Results
    <3>3. Current(c)' = Current(c) /\ Answer(c)' = Answer(c) /\ promise' = promise
      BY <2>1, Zenon DEF Current, Answer
    <3>4. outcome'[c] = promise'[Current(c)']
      BY <2>2, <3>3, Zenon
    <3>5. outcome'[c] = "ok" \/ attempt'[c] = 3 \/ data'[c].direct
      BY <2>1, <2>2, <3>1, Zenon
    <3> HIDE DEF r, n, final
    <3> QED BY <1>2, <2>1, <3>2, <3>3, <3>4, <3>5, Zenon DEF ChainKept
  <2> QED BY <2>1, <2>2, <2>3, <2>4, Zenon DEF ChainInv
<1>6. CASE ~final
  <2>1. Attempt(c, n, NextForm(n, r)) /\ UNCHANGED <<outcome, data>>
    BY <1>1, <1>6, Zenon
  <2>2. attempt[c] \in 1..2 /\ n \in 2..3 /\ ~data[c].direct
    BY <1>3, <1>6
  <2>3. PICK a : a = n
    OBVIOUS
  <2>4. PICK g : g = NextForm(n, r)
    OBVIOUS
  <2>5. Attempted(c, a, g)
    <3>1. a \in 1..3
      BY <2>2, <2>3
    <3>2. Attempt(c, a, g)
      BY <2>1, <2>3, <2>4, Zenon
    <3> HIDE DEF r, n, final
    <3> QED BY <3>1, <3>2, AttemptIs, Zenon
  <2>6. ASSUME NEW d \in Chains, d # c PROVE ChainKept(d)'
    <3>1. ChainKept(d) /\ (attempt[d] # 0 => attempt[d] \in 1..3)
      BY DEF ChainInv, ChainKept
    <3> QED BY <2>1, <2>5, <2>6, <3>1, ChainFrame, Zenon DEF Attempted
  <2>7. ChainKept(c)'
    <3>1. Current(c)' = <<c, a>>
      BY <2>5, Zenon DEF Attempted, Current
    <3>2. promise'[Current(c)'] \in {"pending", "overloaded"}
      BY <2>5, <3>1, Zenon DEF Attempted
    <3>3. a = 3 => g = "copy"
      BY <2>3, <2>4 DEF NextForm
    <3>4. a = 2 /\ g = "into" => data[c].known /\ data[c].good
      <4>1. ASSUME a = 2, g = "into" PROVE Answer(c) = "too_small"
        <5>1. r = "too_small"
          BY <2>3, <2>4, <4>1 DEF NextForm
        <5> QED BY <1>4, <5>1
      <4>2. Answer(c) = "too_small" => data[c].known /\ data[c].good
        BY DEF Answer
      <4> QED BY <4>1, <4>2, Zenon
    <3> HIDE DEF r, n, final
    <3>5. a \in 2..3 /\ outcome'[c] = "pending" /\ data' = data /\ ~data[c].direct
      BY <1>1, <2>1, <2>2, <2>3
    <3>6. attempt'[c] = a /\ form'[c] = g
      BY <2>5, Zenon DEF Attempted
    <3> QED BY <3>2, <3>3, <3>4, <3>5, <3>6 DEF ChainKept
  <2> QED BY <2>1, <2>5, <2>6, <2>7, Zenon DEF Attempted, ChainInv
<1> QED BY <1>5, <1>6, Zenon

\* shutdown() cancels what is pending.
LEMMA ShutdownStep ==
  ASSUME ChainInv, ShutdownPool
  PROVE  ChainInv'
<1>1. /\ promise' = [t \in Tasks |-> IF promise[t] = "pending" THEN "cancelled" ELSE promise[t]]
      /\ UNCHANGED <<form, attempt, outcome, data>>
  BY Zenon DEF ShutdownPool
<1>2. ASSUME NEW c \in Chains PROVE ChainKept(c)'
  <2>1. ChainKept(c)
    BY Zenon DEF ChainInv
  <2>2. Answer(c)' = Answer(c) /\ Current(c)' = Current(c)
    BY <1>1, Zenon DEF Answer, Current
  <2>3. attempt[c] # 0 => Current(c) \in Tasks
    BY <2>1 DEF ChainKept, Current, Tasks
  <2>4. attempt[c] # 0 =>
           promise'[Current(c)] = IF promise[Current(c)] = "pending"
                                  THEN "cancelled" ELSE promise[Current(c)]
    BY <1>1, <2>3, Zenon
  <2>5. CASE attempt[c] = 0
    BY <1>1, <2>1, <2>5 DEF ChainKept
  <2>6. CASE attempt[c] # 0
    <3>1. promise'[Current(c)'] \in {"pending", "overloaded", "cancelled", Answer(c)'}
      BY <2>1, <2>2, <2>4, <2>6, Zenon DEF ChainKept
    <3>2. outcome[c] \notin {"none", "pending"} => outcome[c] = promise'[Current(c)']
      <4>1. ASSUME outcome[c] \notin {"none", "pending"}
            PROVE  promise[Current(c)] = outcome[c] /\ outcome[c] # "pending"
        BY <2>1, <4>1, Zenon DEF ChainKept
      <4> QED BY <2>2, <2>4, <2>6, <4>1, Zenon
    <3> QED BY <1>1, <2>1, <2>6, <3>1, <3>2, Zenon DEF ChainKept
  <2> QED BY <2>5, <2>6, Zenon
<1> QED BY <1>1, <1>2, Zenon DEF ChainInv

\* Every step of the application and of the pool keeps the invariant.
LEMMA ChainStepKeeps ==
  ASSUME ChainInv, [ChainNext]_chainVars
  PROVE  ChainInv'
<1>1. CASE UNCHANGED <<promise, form, attempt, outcome, data>>
  BY <1>1, ChainFrame, Zenon DEF ChainInv
<1>2. ASSUME NEW c \in Chains, AbortCall(c) PROVE ChainInv'
  BY <1>1, <1>2, Zenon DEF AbortCall
<1>3. CASE UNCHANGED chainVars
  BY <1>1, <1>3, Zenon DEF chainVars
<1> QED BY <1>2, <1>3, CallStep, CompleteStep, ContinueStep, ShutdownStep, Zenon DEF ChainNext

\* The fallback of the decompression calls is complete: a call none of whose
\* tasks was refused or cancelled yields the value of good data and the
\* decoding error of corrupt data, whatever the size guess and the addon.
THEOREM LeftAloneAnswersCorrect == ChainSpec => []LeftAloneAnswers
<1>1. ChainInit => ChainInv
  BY ChainInitInv
<1>2. ChainInv /\ [ChainNext]_chainVars => ChainInv'
  BY ChainStepKeeps
<1>3. ChainInv => LeftAloneAnswers
  <2> SUFFICES ASSUME ChainInv, NEW c \in Chains, outcome[c] \in Results,
                      \A n \in 1..3 : promise[<<c, n>>] \notin {"overloaded", "cancelled"}
               PROVE  outcome[c] = IF data[c].good THEN "ok" ELSE "error"
    BY Zenon DEF LeftAloneAnswers
  <2>1. ChainKept(c) /\ data[c] \in Data
    BY Zenon DEF ChainInv
  <2>2. outcome[c] \notin {"none", "pending"}
    BY DEF Results, Service!Results
  <2>3. /\ attempt[c] \in 1..3
        /\ outcome[c] = promise[Current(c)]
        /\ outcome[c] = "ok" \/ attempt[c] = 3 \/ data[c].direct
        /\ promise[Current(c)] \in {"pending", "overloaded", "cancelled", Answer(c)}
    BY <2>1, <2>2 DEF ChainKept
  <2>4. outcome[c] = Answer(c)
    BY <2>2, <2>3, Zenon DEF Current
  <2>5. outcome[c] # "ok" => form[c] = "copy"
    BY <2>1, <2>3 DEF ChainKept
  <2> QED BY <2>4, <2>5 DEF Answer
<1> QED BY <1>1, <1>2, <1>3, PTL DEF ChainSpec

(***************************************************************************)
(* Recursive functions.  The library's induction theorems take a predicate *)
(* the backends do not instantiate; a least counterexample serves instead. *)
(***************************************************************************)
\* A set of naturals that is not empty has a least element.
LEMMA LeastOf ==
    ASSUME NEW S, S \subseteq Nat, S # {}
    PROVE  \E m \in S : \A y \in S : m <= y
<1> DEFINE R == OpToRel(<, Nat)
<1>1. IsWellFoundedOn(R, Nat)
  BY NatLessThanWellFounded, Zenon
<1>2. \A a, b \in Nat : a < b => <<a, b>> \in R
  BY DEF OpToRel
<1> HIDE DEF R
<1>3. PICK m \in S : \A y \in S : ~(<<y, m>> \in R)
  BY <1>1, WFMin, Zenon
<1>4. ASSUME NEW y \in S PROVE m <= y
  <2>1. m \in Nat /\ y \in Nat /\ ~(<<y, m>> \in R)
    BY <1>3
  <2>2. ~(y < m)
    BY <1>2, <2>1
  <2> QED BY <2>1, <2>2
<1> QED BY <1>3, <1>4, Zenon

\* A set that holds 0 and, with each number below n, its successor.
LEMMA UpTo ==
    ASSUME NEW n \in Nat, NEW P, 0 \in P, \A i \in 1 .. n : i - 1 \in P => i \in P
    PROVE  \A i \in 0 .. n : i \in P
<1> DEFINE S == {i \in 0 .. n : i \notin P}
<1> SUFFICES ASSUME S # {} PROVE FALSE
  OBVIOUS
<1>1. S \subseteq Nat
  OBVIOUS
<1>2. PICK k \in S : \A y \in S : k <= y
  BY <1>1, LeastOf, Zenon
<1>3. k \in 0 .. n /\ k \notin P /\ k # 0
  BY <1>2, Zenon
<1>4. k \in 1 .. n /\ k - 1 \in 0 .. n /\ ~(k <= k - 1)
  BY <1>3
<1>5. k - 1 \notin S
  BY <1>2, <1>4, Zenon
<1> QED BY <1>3, <1>4, <1>5

\* g applies step[1], step[2], ... step[k] in turn.
Iterates(g, M, start, step, k) ==
    /\ g \in [0 .. k -> M]
    /\ g[0] = start
    /\ \A i \in 1 .. k : g[i] = step[i][g[i - 1]]

\* Steps that stay in a set can be applied one after the other.
LEMMA Iteration ==
    ASSUME NEW M, NEW n \in Nat, NEW start \in M, NEW step \in [1 .. n -> [M -> M]]
    PROVE  \E g : Iterates(g, M, start, step, n)
<1> DEFINE P == {k \in 0 .. n : \E g : Iterates(g, M, start, step, k)}
<1>1. 0 \in P
  <2>1. Iterates([i \in 0 .. 0 |-> start], M, start, step, 0)
    BY DEF Iterates
  <2> QED BY <2>1
<1>2. ASSUME NEW k \in 1 .. n, k - 1 \in P PROVE k \in P
  <2>1. PICK g : Iterates(g, M, start, step, k - 1)
    BY <1>2
  <2> DEFINE h == [i \in 0 .. k |-> IF i = k THEN step[k][g[k - 1]] ELSE g[i]]
  <2>2. /\ g \in [0 .. k - 1 -> M] /\ g[0] = start
        /\ \A i \in 1 .. k - 1 : g[i] = step[i][g[i - 1]]
    BY <2>1 DEF Iterates
  <2>3. step[k] \in [M -> M] /\ g[k - 1] \in M
    BY <2>2
  <2>4. step[k][g[k - 1]] \in M
    BY <2>3
  <2>5. h \in [0 .. k -> M] /\ h[0] = start
    BY <2>2, <2>4
  <2>6. ASSUME NEW i \in 1 .. k PROVE h[i] = step[i][h[i - 1]]
    <3>1. i - 1 \in 0 .. k - 1 /\ i \in 0 .. k /\ h[i - 1] = g[i - 1]
      OBVIOUS
    <3>2. CASE i = k
      BY <3>1, <3>2
    <3>3. CASE i # k
      <4>1. i \in 1 .. k - 1 /\ h[i] = g[i]
        BY <3>1, <3>3
      <4> QED BY <2>2, <3>1, <4>1
    <3> QED BY <3>2, <3>3
  <2>7. Iterates(h, M, start, step, k)
    BY <2>5, <2>6, Zenon DEF Iterates
  <2> QED BY <2>7
<1> HIDE DEF P
<1>3. \A i \in 0 .. n : i \in P
  BY <1>1, <1>2, UpTo, Zenon
<1>4. n \in P
  BY <1>3
<1> QED BY <1>4 DEF P

-----------------------------------------------------------------------------
(* The cache.                                                              *)

\* The keys a request of this op and input can have.
KeysOf(op, input) == {DefaultKey(op, input), GivenKey(op, input)}
CacheKeys == UNION {KeysOf(op, input) : op \in Ops, input \in Inputs}

\* An entry holds what a caller of its key is owed.
Entry(k) == [key |-> k, val |-> NativeValue(k[1], k[3])]
GoodEntries == {Entry(k) : k \in CacheKeys}
GoodMaps(max) == {m \in Seq(GoodEntries) : Len(m) <= max}

\* A key of a request leads back to its op and input.
LEMMA KeyParts ==
    ASSUME NEW op \in Ops, NEW input \in Inputs, NEW k \in KeysOf(op, input)
    PROVE  k \in CacheKeys /\ NativeValue(k[1], k[3]) = NativeValue(op, input)
<1>1. k[1] = op /\ k[3] = input
  BY DEF KeysOf, DefaultKey, GivenKey
<1>2. k \in CacheKeys
  BY DEF CacheKeys
<1> QED BY <1>1, <1>2, Zenon

\* Taking an entry out of the map leaves the others.
LEMMA WithoutIn ==
    ASSUME NEW E, NEW map \in Seq(E), NEW key
    PROVE  /\ LruWithout(map, key) \in Seq(E)
           /\ Len(LruWithout(map, key)) <= Len(map)
           /\ LruHas(map, key) => Len(LruWithout(map, key)) = Len(map) - 1
<1>1. CASE ~LruHas(map, key)
  <2>1. LruWithout(map, key) = map
    BY <1>1, Zenon DEF LruWithout
  <2> QED BY <1>1, <2>1
<1>2. CASE LruHas(map, key)
  <2> DEFINE at == LruIndex(map, key)
             w == [i \in 1 .. Len(map) - 1 |-> IF i < at THEN map[i] ELSE map[i + 1]]
  <2>1. LruWithout(map, key) = w
    BY <1>2, Zenon DEF LruWithout
  <2>2. \E i \in DOMAIN map : map[i].key = key
    BY <1>2, Zenon DEF LruHas, LruKeys
  <2>3. Len(map) - 1 \in Nat
    BY <2>2
  <2>4. \A i \in 1 .. Len(map) - 1 : map[i] \in E /\ map[i + 1] \in E
    BY <2>3
  <2>5. w \in [1 .. Len(map) - 1 -> E]
    BY <2>4
  <2>6. w \in Seq(E) /\ Len(w) = Len(map) - 1
    BY <2>3, <2>5
  <2> HIDE DEF w
  <2> QED BY <2>1, <2>3, <2>6
<1> QED BY <1>1, <1>2

\* What the cache answers for a key is what a caller of that key is owed.
LEMMA PeekGood ==
    ASSUME NEW map \in Seq(GoodEntries), NEW key, LruHas(map, key)
    PROVE  /\ LruPeek(map, key) = NativeValue(key[1], key[3])
           /\ [key |-> key, val |-> LruPeek(map, key)] \in GoodEntries
<1> DEFINE at == LruIndex(map, key)
<1>1. at \in DOMAIN map /\ map[at].key = key
  BY Zenon DEF LruHas, LruKeys, LruIndex
<1> HIDE DEF at
<1>2. map[at] \in GoodEntries
  BY <1>1
<1>3. PICK k \in CacheKeys : map[at] = Entry(k)
  BY <1>2, Zenon DEF GoodEntries
<1>4. k = key /\ map[at].val = NativeValue(k[1], k[3])
  BY <1>1, <1>3 DEF Entry
<1>5. LruPeek(map, key) = map[at].val
  BY Zenon DEF LruPeek, at
<1>6. [key |-> key, val |-> LruPeek(map, key)] = Entry(k)
  BY <1>4, <1>5, Zenon DEF Entry
<1> QED BY <1>4, <1>5, <1>6, Zenon DEF GoodEntries

\* Reading the cache keeps it good.
LEMMA GetGood ==
    ASSUME NEW max \in Nat, NEW map \in GoodMaps(max), NEW key
    PROVE  LruGet(map, key) \in GoodMaps(max)
<1>0. map \in Seq(GoodEntries) /\ Len(map) <= max
  BY DEF GoodMaps
<1>1. CASE ~LruHas(map, key)
  BY <1>1, Zenon DEF LruGet
<1>2. CASE LruHas(map, key)
  <2> DEFINE e == [key |-> key, val |-> LruPeek(map, key)]
             rest == LruWithout(map, key)
  <2>1. e \in GoodEntries
    BY <1>0, <1>2, PeekGood, Zenon
  <2>2. rest \in Seq(GoodEntries) /\ Len(rest) = Len(map) - 1
    BY <1>0, <1>2, WithoutIn, Zenon
  <2>3. LruGet(map, key) = <<e>> \o rest
    BY <1>2, Zenon DEF LruGet
  <2> HIDE DEF e, rest
  <2>4. <<e>> \o rest \in Seq(GoodEntries) /\ Len(<<e>> \o rest) = Len(map)
    BY <1>0, <2>1, <2>2
  <2> QED BY <1>0, <2>3, <2>4 DEF GoodMaps
<1> QED BY <1>1, <1>2, Zenon

\* Writing what a key is owed keeps the cache good, and within its bound.
LEMMA SetGood ==
    ASSUME NEW max \in Nat, NEW map \in GoodMaps(max), NEW key \in CacheKeys
    PROVE  CacheSet(map, key, NativeValue(key[1], key[3]), max) \in GoodMaps(max)
<1> DEFINE e == [key |-> key, val |-> NativeValue(key[1], key[3])]
           rest == LruWithout(map, key)
           kept == IF Len(rest) >= max THEN SubSeq(rest, 1, max - 1) ELSE rest
<1>0. map \in Seq(GoodEntries) /\ Len(map) <= max
  BY DEF GoodMaps
<1>1. CASE max <= 0
  BY <1>1 DEF CacheSet
<1>2. CASE ~(max <= 0)
  <2>1. e \in GoodEntries
    BY Zenon DEF GoodEntries, Entry
  <2>2. rest \in Seq(GoodEntries) /\ Len(rest) <= Len(map)
    BY <1>0, WithoutIn, Zenon
  <2>3. CacheSet(map, key, NativeValue(key[1], key[3]), max) = <<e>> \o kept
    BY <1>2, Zenon DEF CacheSet, LruPut
  <2> HIDE DEF e, rest
  <2>4. kept \in Seq(GoodEntries) /\ Len(kept) <= max - 1
    BY <1>0, <1>2, <2>2
  <2> HIDE DEF kept
  <2>5. <<e>> \o kept \in Seq(GoodEntries) /\ Len(<<e>> \o kept) <= max
    BY <1>2, <2>1, <2>4
  <2> QED BY <2>3, <2>5 DEF GoodMaps
<1> QED BY <1>1, <1>2

\* The requests whose keys and results CacheAll may meet.

\* The definition of the function in CacheAll.
CacheRun(f, map, ids, reqs, results) ==
    f = [i \in 0 .. Len(ids) |->
            IF i = 0 THEN map
            ELSE IF reqs[ids[i]].key = NoKey THEN f[i - 1]
            ELSE CacheSet(f[i - 1], reqs[ids[i]].key, results[i], options.maxCacheKeys)]

\* Caching the results of a flush keeps the cache good, whatever the order and
\* the number of the requests.
LEMMA CacheAllGood ==
    ASSUME NEW map \in GoodMaps(options.maxCacheKeys), options.maxCacheKeys \in Nat,
           NEW ids \in Seq(Nat), NEW reqs, NEW results,
           \A i \in 1 .. Len(ids) :
              reqs[ids[i]].key # NoKey =>
                 /\ reqs[ids[i]].key \in CacheKeys
                 /\ results[i] = NativeValue(reqs[ids[i]].key[1], reqs[ids[i]].key[3])
    PROVE  CacheAll(map, ids, reqs, results) \in GoodMaps(options.maxCacheKeys)
<1> DEFINE max == options.maxCacheKeys
           n == Len(ids)
           M == GoodMaps(max)
           Set(i, m) == IF reqs[ids[i]].key = NoKey THEN m
                        ELSE CacheSet(m, reqs[ids[i]].key, results[i], max)
           step == [i \in 1 .. n |-> [m \in M |-> Set(i, m)]]
           f == CHOOSE h : CacheRun(h, map, ids, reqs, results)
<1>1. CacheAll(map, ids, reqs, results) = f[n]
  BY Zenon DEF CacheAll, CacheRun
<1>2. \A i \in 1 .. n : \A m \in M : Set(i, m) \in M
  <2> SUFFICES ASSUME NEW i \in 1 .. n, NEW m \in M PROVE Set(i, m) \in M
    BY Zenon
  <2>1. CASE reqs[ids[i]].key = NoKey
    BY <2>1, Zenon
  <2>2. CASE reqs[ids[i]].key # NoKey
    <3>1. /\ reqs[ids[i]].key \in CacheKeys
          /\ results[i] = NativeValue(reqs[ids[i]].key[1], reqs[ids[i]].key[3])
      BY <2>2, Zenon
    <3>2. Set(i, m) = CacheSet(m, reqs[ids[i]].key, results[i], max)
      BY <2>2, Zenon
    <3> DEFINE key == reqs[ids[i]].key
    <3>3. CacheSet(m, key, NativeValue(key[1], key[3]), max) \in M
      <4> HIDE DEF Set, key
      <4>1. key \in CacheKeys
        BY <3>1, Zenon DEF key
      <4> QED BY <4>1, SetGood, Zenon
    <3>4. CacheSet(m, key, results[i], max) = CacheSet(m, key, NativeValue(key[1], key[3]), max)
      BY <3>1, Zenon
    <3> QED BY <3>2, <3>3, <3>4, Zenon
  <2> QED BY <2>1, <2>2, Zenon
<1>n. n \in Nat
  OBVIOUS
<1>3. step \in [1 .. n -> [M -> M]]
  <2>1. \A i \in 1 .. n : [m \in M |-> Set(i, m)] \in [M -> M]
    BY <1>2, Zenon
  <2> HIDE DEF Set, M, n
  <2> QED BY <2>1, Zenon
<1>4. PICK g : Iterates(g, M, map, step, n)
  <2> HIDE DEF step, M, n
  <2>1. map \in M
    BY Zenon DEF M
  <2> QED BY <1>3, <1>n, <2>1, Iteration, Zenon
<1>5. CacheRun(g, map, ids, reqs, results)
  <2>1. g \in [0 .. n -> M] /\ g[0] = map /\ \A i \in 1 .. n : g[i] = step[i][g[i - 1]]
    BY <1>4, Zenon DEF Iterates
  <2>2. ASSUME NEW i \in 0 .. n
        PROVE  g[i] = IF i = 0 THEN map ELSE Set(i, g[i - 1])
    <3>1. CASE i = 0
      BY <2>1, <3>1, Zenon
    <3>2. CASE i # 0
      <4>1. i \in 1 .. n /\ i - 1 \in 0 .. n
        BY <3>2
      <4>2. g[i - 1] \in M /\ g[i] = step[i][g[i - 1]]
        BY <2>1, <4>1, Zenon
      <4>3. step[i][g[i - 1]] = Set(i, g[i - 1])
        <5> HIDE DEF Set, M, n
        <5> QED BY <4>1, <4>2, Zenon
      <4> QED BY <3>2, <4>2, <4>3, Zenon
    <3> QED BY <3>1, <3>2, Zenon
  <2>3. g = [i \in 0 .. n |-> IF i = 0 THEN map ELSE Set(i, g[i - 1])]
    <3> HIDE DEF Set, M, n, step
    <3> QED BY <2>1, <2>2, Zenon
  <2> QED BY <2>3, Zenon DEF CacheRun
<1>6. CacheRun(f, map, ids, reqs, results)
  BY <1>5, Zenon
<1> HIDE DEF f
<1>7. \A i \in 0 .. n : f[i] = IF i = 0 THEN map ELSE Set(i, f[i - 1])
  BY <1>6, Zenon DEF CacheRun
<1> DEFINE P == {i \in 0 .. n : f[i] \in M}
<1> HIDE DEF Set, M, n, step
<1>8. 0 \in P
  <2>1. 0 \in 0 .. n
    BY <1>n
  <2>2. map \in M
    BY Zenon DEF M
  <2> QED BY <1>7, <2>1, <2>2, Zenon
<1>9. ASSUME NEW i \in 1 .. n, i - 1 \in P PROVE i \in P
  <2>1. i \in 0 .. n /\ i # 0
    BY <1>n
  <2>2. f[i - 1] \in M /\ f[i] = Set(i, f[i - 1])
    BY <1>7, <1>9, <2>1, Zenon
  <2> QED BY <1>2, <2>1, <2>2, Zenon
<1>10. \A i \in 0 .. n : i \in P
  <2> HIDE DEF P
  <2> QED BY <1>n, <1>8, <1>9, UpTo, Zenon
<1>11. n \in P
  <2>1. n \in 0 .. n
    BY <1>n
  <2> QED BY <1>10, <2>1, Zenon
<1>12. f[n] \in M
  BY <1>11, Zenon
<1> QED BY <1>1, <1>12, Zenon DEF M, n

\* The definition of the function in TouchAll.
TouchRun(f, map, ids, reqs) ==
    f = [i \in 0 .. Len(ids) |->
            IF i = 0 THEN map
            ELSE IF reqs[ids[i]].key = NoKey THEN f[i - 1]
            ELSE LruGet(f[i - 1], reqs[ids[i]].key)]

\* Reading the keys of a flush keeps the cache good.
LEMMA TouchAllGood ==
    ASSUME NEW map \in GoodMaps(options.maxCacheKeys), options.maxCacheKeys \in Nat,
           NEW ids \in Seq(Nat), NEW reqs
    PROVE  TouchAll(map, ids, reqs) \in GoodMaps(options.maxCacheKeys)
<1> DEFINE max == options.maxCacheKeys
           n == Len(ids)
           M == GoodMaps(max)
           Set(i, m) == IF reqs[ids[i]].key = NoKey THEN m
                        ELSE LruGet(m, reqs[ids[i]].key)
           step == [i \in 1 .. n |-> [m \in M |-> Set(i, m)]]
           f == CHOOSE h : TouchRun(h, map, ids, reqs)
<1>1. TouchAll(map, ids, reqs) = f[n]
  BY Zenon DEF TouchAll, TouchRun
<1>2. \A i \in 1 .. n : \A m \in M : Set(i, m) \in M
  <2> SUFFICES ASSUME NEW i \in 1 .. n, NEW m \in M PROVE Set(i, m) \in M
    BY Zenon
  <2>1. CASE reqs[ids[i]].key = NoKey
    BY <2>1, Zenon
  <2>2. CASE reqs[ids[i]].key # NoKey
    BY <2>2, GetGood, Zenon
  <2> QED BY <2>1, <2>2, Zenon
<1>n. n \in Nat
  OBVIOUS
<1>3. step \in [1 .. n -> [M -> M]]
  <2>1. \A i \in 1 .. n : [m \in M |-> Set(i, m)] \in [M -> M]
    BY <1>2, Zenon
  <2> HIDE DEF Set, M, n
  <2> QED BY <2>1, Zenon
<1>4. PICK g : Iterates(g, M, map, step, n)
  <2> HIDE DEF step, M, n
  <2>1. map \in M
    BY Zenon DEF M
  <2> QED BY <1>3, <1>n, <2>1, Iteration, Zenon
<1>5. TouchRun(g, map, ids, reqs)
  <2>1. g \in [0 .. n -> M] /\ g[0] = map /\ \A i \in 1 .. n : g[i] = step[i][g[i - 1]]
    BY <1>4, Zenon DEF Iterates
  <2>2. ASSUME NEW i \in 0 .. n
        PROVE  g[i] = IF i = 0 THEN map ELSE Set(i, g[i - 1])
    <3>1. CASE i = 0
      BY <2>1, <3>1, Zenon
    <3>2. CASE i # 0
      <4>1. i \in 1 .. n /\ i - 1 \in 0 .. n
        BY <3>2
      <4>2. g[i - 1] \in M /\ g[i] = step[i][g[i - 1]]
        BY <2>1, <4>1, Zenon
      <4>3. step[i][g[i - 1]] = Set(i, g[i - 1])
        <5> HIDE DEF Set, M, n
        <5> QED BY <4>1, <4>2, Zenon
      <4> QED BY <3>2, <4>2, <4>3, Zenon
    <3> QED BY <3>1, <3>2, Zenon
  <2>3. g = [i \in 0 .. n |-> IF i = 0 THEN map ELSE Set(i, g[i - 1])]
    <3> HIDE DEF Set, M, n, step
    <3> QED BY <2>1, <2>2, Zenon
  <2> QED BY <2>3, Zenon DEF TouchRun
<1>6. TouchRun(f, map, ids, reqs)
  BY <1>5, Zenon
<1> HIDE DEF f
<1>7. \A i \in 0 .. n : f[i] = IF i = 0 THEN map ELSE Set(i, f[i - 1])
  BY <1>6, Zenon DEF TouchRun
<1> DEFINE P == {i \in 0 .. n : f[i] \in M}
<1> HIDE DEF Set, M, n, step
<1>8. 0 \in P
  <2>1. 0 \in 0 .. n
    BY <1>n
  <2>2. map \in M
    BY Zenon DEF M
  <2> QED BY <1>7, <2>1, <2>2, Zenon
<1>9. ASSUME NEW i \in 1 .. n, i - 1 \in P PROVE i \in P
  <2>1. i \in 0 .. n /\ i # 0
    BY <1>n
  <2>2. f[i - 1] \in M /\ f[i] = Set(i, f[i - 1])
    BY <1>7, <1>9, <2>1, Zenon
  <2> QED BY <1>2, <2>1, <2>2, Zenon
<1>10. \A i \in 0 .. n : i \in P
  <2> HIDE DEF P
  <2> QED BY <1>n, <1>8, <1>9, UpTo, Zenon
<1>11. n \in P
  <2>1. n \in 0 .. n
    BY <1>n
  <2> QED BY <1>10, <2>1, Zenon
<1>12. f[n] \in M
  BY <1>11, Zenon
<1> QED BY <1>1, <1>12, Zenon DEF M, n

\* Appending adds one element.
LEMMA AppendElements ==
    ASSUME NEW s \in Seq(Nat), NEW e \in Nat
    PROVE  Elements(Append(s, e)) = Elements(s) \cup {e}
<1> DEFINE a == Append(s, e)
           n == Len(s)
<1>1. /\ DOMAIN a = 1 .. n + 1 /\ DOMAIN s = 1 .. n /\ n \in Nat
      /\ a[n + 1] = e /\ \A i \in 1 .. n : a[i] = s[i]
  OBVIOUS
<1> HIDE DEF a, n
<1>2. ASSUME NEW x \in Elements(a) PROVE x \in Elements(s) \cup {e}
  <2>1. PICK i \in 1 .. n + 1 : x = a[i]
    BY <1>1 DEF Elements
  <2>2. i = n + 1 \/ i \in 1 .. n
    BY <1>1
  <2> QED BY <1>1, <2>1, <2>2 DEF Elements
<1>3. ASSUME NEW x \in Elements(s) PROVE x \in Elements(a)
  <2>1. PICK i \in 1 .. n : x = s[i]
    BY <1>1 DEF Elements
  <2>2. i \in 1 .. n + 1 /\ a[i] = x
    BY <1>1, <2>1
  <2> QED BY <1>1, <2>2 DEF Elements
<1>4. e \in Elements(a)
  BY <1>1 DEF Elements
<1> QED BY <1>2, <1>3, <1>4 DEF a

\* The definition of the function in Missed.
MissedRun(f, ids, hits) ==
    f = [i \in 0 .. Len(ids) |->
            IF i = 0 THEN <<>>
            ELSE IF ids[i] \in hits THEN f[i - 1] ELSE Append(f[i - 1], ids[i])]

\* The misses of a flush are the requests that are not hits.
LEMMA MissedAre ==
    ASSUME NEW ids \in Seq(Nat), NEW hits
    PROVE  /\ Missed(ids, hits) \in Seq(Nat)
           /\ Elements(Missed(ids, hits)) = Elements(ids) \ hits
<1> DEFINE n == Len(ids)
           M == Seq(Nat)
           Set(i, m) == IF ids[i] \in hits THEN m ELSE Append(m, ids[i])
           step == [i \in 1 .. n |-> [m \in M |-> Set(i, m)]]
           f == CHOOSE h : MissedRun(h, ids, hits)
<1>1. Missed(ids, hits) = f[n]
  BY Zenon DEF Missed, MissedRun
<1>2. \A i \in 1 .. n : \A m \in M : Set(i, m) \in M
  OBVIOUS
<1>n. n \in Nat
  OBVIOUS
<1>3. step \in [1 .. n -> [M -> M]]
  <2>1. \A i \in 1 .. n : [m \in M |-> Set(i, m)] \in [M -> M]
    BY <1>2, Zenon
  <2> HIDE DEF Set, M, n
  <2> QED BY <2>1, Zenon
<1>4. PICK g : Iterates(g, M, <<>>, step, n)
  <2> HIDE DEF step, M, n
  <2>1. <<>> \in M
    BY DEF M
  <2> QED BY <1>3, <1>n, <2>1, Iteration, Zenon
<1>5. MissedRun(g, ids, hits)
  <2>1. g \in [0 .. n -> M] /\ g[0] = <<>> /\ \A i \in 1 .. n : g[i] = step[i][g[i - 1]]
    BY <1>4, Zenon DEF Iterates
  <2>2. ASSUME NEW i \in 0 .. n
        PROVE  g[i] = IF i = 0 THEN <<>> ELSE Set(i, g[i - 1])
    <3>1. CASE i = 0
      BY <2>1, <3>1, Zenon
    <3>2. CASE i # 0
      <4>1. i \in 1 .. n /\ i - 1 \in 0 .. n
        BY <3>2
      <4>2. g[i - 1] \in M /\ g[i] = step[i][g[i - 1]]
        BY <2>1, <4>1, Zenon
      <4>3. step[i][g[i - 1]] = Set(i, g[i - 1])
        <5> HIDE DEF Set, M, n
        <5> QED BY <4>1, <4>2, Zenon
      <4> QED BY <3>2, <4>2, <4>3, Zenon
    <3> QED BY <3>1, <3>2, Zenon
  <2>3. g = [i \in 0 .. n |-> IF i = 0 THEN <<>> ELSE Set(i, g[i - 1])]
    <3> HIDE DEF Set, M, n, step
    <3> QED BY <2>1, <2>2, Zenon
  <2> QED BY <2>3, Zenon DEF MissedRun
<1>6. MissedRun(f, ids, hits)
  BY <1>5, Zenon
<1> HIDE DEF f
<1>7. \A i \in 0 .. n : f[i] = IF i = 0 THEN <<>> ELSE Set(i, f[i - 1])
  BY <1>6, Zenon DEF MissedRun
<1> DEFINE Front(i) == {ids[j] : j \in 1 .. i} \ hits
           P == {i \in 0 .. n : f[i] \in M /\ Elements(f[i]) = Front(i)}
<1> HIDE DEF step
<1>8. 0 \in P
  <2>1. 0 \in 0 .. n
    BY <1>n
  <2>2. f[0] = <<>>
    BY <1>7, <2>1, Zenon
  <2>3. Elements(<<>>) = {} /\ Front(0) = {} /\ <<>> \in Seq(Nat)
    BY DEF Elements
  <2> QED BY <2>1, <2>2, <2>3, Zenon
<1>9. ASSUME NEW i \in 1 .. n, i - 1 \in P PROVE i \in P
  <2>1. i \in 0 .. n /\ i # 0 /\ ids[i] \in Nat
    BY <1>n
  <2>2. f[i - 1] \in Seq(Nat) /\ Elements(f[i - 1]) = Front(i - 1)
    BY <1>9, Zenon
  <2>3. f[i] = Set(i, f[i - 1])
    BY <1>7, <2>1, Zenon
  <2>4. {ids[j] : j \in 1 .. i} = {ids[j] : j \in 1 .. i - 1} \cup {ids[i]}
    OBVIOUS
  <2>5. CASE ids[i] \in hits
    <3>1. f[i] = f[i - 1]
      BY <2>3, <2>5, Zenon
    <3>2. Front(i) = Front(i - 1)
      BY <2>4, <2>5
    <3> QED BY <2>1, <2>2, <3>1, <3>2, Zenon
  <2>6. CASE ids[i] \notin hits
    <3>1. f[i] = Append(f[i - 1], ids[i])
      BY <2>3, <2>6, Zenon
    <3>2. Front(i) = Front(i - 1) \cup {ids[i]}
      BY <2>4, <2>6
    <3>3. Append(f[i - 1], ids[i]) \in Seq(Nat)
      BY <2>1, <2>2
    <3>4. Elements(Append(f[i - 1], ids[i])) = Elements(f[i - 1]) \cup {ids[i]}
      BY <2>1, <2>2, AppendElements, Zenon
    <3> QED BY <2>1, <2>2, <3>1, <3>2, <3>3, <3>4, Zenon
  <2> QED BY <2>5, <2>6, Zenon
<1>10. \A i \in 0 .. n : i \in P
  <2> HIDE DEF P
  <2> QED BY <1>n, <1>8, <1>9, UpTo, Zenon
<1>11. n \in P
  <2>1. n \in 0 .. n
    BY <1>n
  <2> QED BY <1>10, <2>1, Zenon
<1>12. f[n] \in Seq(Nat) /\ Elements(f[n]) = Front(n)
  BY <1>11, Zenon
<1>13. Front(n) = Elements(ids) \ hits
  BY DEF Elements
<1> QED BY <1>1, <1>12, <1>13, Zenon

-----------------------------------------------------------------------------
(* The inductive invariant.                                                *)

OptionType == [caching : BOOLEAN, maxCacheKeys : Nat, batchMin : Int,
               loadStrategy : {"auto", "single"}]
CtxType == [mode : {"single", "coalesce"}, streak : Int, pending : Nat, attempts : Int,
            hits : Int, probe : Int, batchMin : Int]
Batch == [op : Ops, ids : Seq(Nat)]
Microtask == [kind : {"single", "flush"}, ctx : Nat, op : Ops]

Values == {NativeValue(op, input) : op \in Ops, input \in Inputs} \cup {<<>>}
RequestType == [op : Ops, input : Inputs, key : CacheKeys \cup {NoKey}, deferred : BOOLEAN,
                status : {"pending", "value", "error"}, value : Values]

\* A request's key is one of its own, and a value it has is the one it is owed.
Owed(q) ==
    /\ q.key # NoKey => q.key \in KeysOf(q.op, q.input)
    /\ q.status = "value" => q.value = NativeValue(q.op, q.input)
GoodRequests == {q \in RequestType : Owed(q)}

\* The batches hold requests that were made.
IdsWithin(batches, n) ==
    \A i \in DOMAIN batches : Elements(batches[i].ids) \subseteq 1 .. n

InBatches(batches, r) == \E i \in DOMAIN batches : r \in Elements(batches[i].ids)

\* Where the answer to a pending request will come from.
Placed(r) ==
    \/ InBatches(buffer, r)
    \/ InBatches(flushing, r)
    \/ \E c \in DOMAIN ctxs : ctxs[c].pending = r

LoaderTypes ==
    /\ options \in OptionType
    /\ ctxs \in Seq(CtxType)
    /\ current \in [Ops -> 0 .. Len(ctxs)]
    /\ buffer \in Seq(Batch) /\ flushing \in Seq(Batch) /\ micro \in Seq(Microtask)
    /\ uncaught \in BOOLEAN

\* References lead to requests and contexts that exist.
LoaderRefs ==
    /\ IdsWithin(buffer, Len(requests)) /\ IdsWithin(flushing, Len(requests))
    /\ \A c \in DOMAIN ctxs : ctxs[c].pending \in 0 .. Len(requests)
    /\ \A i \in DOMAIN micro : micro[i].kind = "single" => micro[i].ctx \in DOMAIN ctxs

\* What waits in the buffer or in a context has a microtask that takes it up.
LoaderWoken ==
    /\ buffer # <<>> => \E i \in DOMAIN micro : micro[i].kind = "flush"
    /\ \A c \in DOMAIN ctxs : ctxs[c].pending # 0 =>
          \E i \in DOMAIN micro : micro[i].kind = "single" /\ micro[i].ctx = c

LoaderPlaced ==
    ~uncaught => \A r \in DOMAIN requests : requests[r].status = "pending" => Placed(r)

LoaderInv ==
    /\ LoaderTypes
    /\ requests \in Seq(GoodRequests)
    /\ lcache \in GoodMaps(options.maxCacheKeys)
    /\ LoaderRefs
    /\ LoaderWoken
    /\ LoaderPlaced

-----------------------------------------------------------------------------
(* Contexts.                                                               *)

\* A new context waits for nothing.
LEMMA NewCtxIn ==
    ASSUME NEW opts \in OptionType
    PROVE  NewCtx(opts) \in CtxType /\ NewCtx(opts).pending = 0
BY DEF NewCtx, OptionType, CtxType

\* The contexts after ctxFor: the ones that were there, and perhaps a new one.
LEMMA CtxFor ==
    ASSUME LoaderTypes, NEW op \in Ops
    PROVE  /\ CtxAfter(op) \in Seq(CtxType) /\ Len(ctxs) <= Len(CtxAfter(op))
           /\ CtxId(op) \in 1 .. Len(CtxAfter(op))
           /\ Len(CtxAfter(op)) <= Len(ctxs) + 1
           /\ \A c \in 1 .. Len(ctxs) : CtxAfter(op)[c] = ctxs[c]
           /\ CtxId(op) > Len(ctxs) => CtxAfter(op)[CtxId(op)].pending = 0
           /\ \A c \in 1 .. Len(CtxAfter(op)) : c > Len(ctxs) => CtxAfter(op)[c].pending = 0
           /\ CtxAfter(op)[CtxId(op)] \in CtxType
<1>1. /\ options \in OptionType /\ ctxs \in Seq(CtxType)
      /\ current[op] \in 0 .. Len(ctxs)
  BY DEF LoaderTypes
<1>2. NewCtx(options) \in CtxType /\ NewCtx(options).pending = 0
  BY <1>1, NewCtxIn
<1>3. CASE current[op] = 0
  <2>1. CtxAfter(op) = Append(ctxs, NewCtx(options)) /\ CtxId(op) = Len(ctxs) + 1
    BY <1>3, Zenon DEF CtxAfter, CtxId
  <2> QED BY <1>1, <1>2, <2>1
<1>4. CASE current[op] # 0
  <2>1. CtxAfter(op) = ctxs /\ CtxId(op) = current[op]
    BY <1>4, Zenon DEF CtxAfter, CtxId
  <2> QED BY <1>1, <1>4, <2>1
<1> QED BY <1>3, <1>4, Zenon

\* The contexts wait for what they waited for, and new ones for nothing.
SamePendings(new) ==
    /\ new \in Seq(CtxType) /\ Len(ctxs) <= Len(new)
    /\ \A c \in 1 .. Len(new) : new[c].pending = IF c <= Len(ctxs) THEN ctxs[c].pending ELSE 0

\* Writing a context back that waits for the same request.
LEMMA CtxWritten ==
    ASSUME LoaderTypes, NEW op \in Ops, NEW c2 \in CtxType,
           c2.pending = CtxAfter(op)[CtxId(op)].pending
    PROVE  /\ SamePendings([CtxAfter(op) EXCEPT ![CtxId(op)] = c2])
           /\ [current EXCEPT ![op] = CtxId(op)]
                 \in [Ops -> 0 .. Len([CtxAfter(op) EXCEPT ![CtxId(op)] = c2])]
<1> DEFINE after == CtxAfter(op)
           me == CtxId(op)
           new == [after EXCEPT ![me] = c2]
<1>1. /\ after \in Seq(CtxType) /\ Len(ctxs) <= Len(after) /\ me \in 1 .. Len(after)
      /\ \A c \in 1 .. Len(ctxs) : after[c] = ctxs[c]
      /\ \A c \in 1 .. Len(after) : c > Len(ctxs) => after[c].pending = 0
      /\ c2.pending = after[me].pending
  BY CtxFor
<1>2. ctxs \in Seq(CtxType) /\ current \in [Ops -> 0 .. Len(ctxs)]
  BY DEF LoaderTypes
<1> HIDE DEF after, me
<1>3. /\ new \in Seq(CtxType) /\ Len(new) = Len(after)
      /\ \A c \in 1 .. Len(after) : new[c] = IF c = me THEN c2 ELSE after[c]
  BY <1>1
<1>4. [current EXCEPT ![op] = me] \in [Ops -> 0 .. Len(new)]
  BY <1>1, <1>2, <1>3
<1> HIDE DEF new
<1>5. ASSUME NEW c \in 1 .. Len(new)
      PROVE  new[c].pending = IF c <= Len(ctxs) THEN ctxs[c].pending ELSE 0
  <2>1. new[c].pending = after[c].pending
    BY <1>1, <1>3
  <2>2. Len(ctxs) \in Nat /\ c \in 1 .. Len(after)
    BY <1>2, <1>3
  <2>3. CASE c <= Len(ctxs)
    BY <1>1, <2>1, <2>2, <2>3
  <2>4. CASE ~(c <= Len(ctxs))
    BY <1>1, <2>1, <2>2, <2>4
  <2> QED BY <2>3, <2>4
<1>6. SamePendings(new)
  BY <1>1, <1>3, <1>5 DEF SamePendings
<1> QED BY <1>4, <1>6 DEF new, after, me

\* What the contexts wait for, when they still wait for the same.
LEMMA PendingsKept ==
    ASSUME LoaderTypes, SamePendings(ctxs')
    PROVE  /\ \A c \in DOMAIN ctxs : c \in DOMAIN ctxs' /\ ctxs'[c].pending = ctxs[c].pending
           /\ \A c \in DOMAIN ctxs' : ctxs'[c].pending # 0 =>
                 c \in DOMAIN ctxs /\ ctxs'[c].pending = ctxs[c].pending
           /\ ctxs' \in Seq(CtxType)
<1>1. ctxs \in Seq(CtxType)
  BY DEF LoaderTypes
<1>2. /\ ctxs' \in Seq(CtxType) /\ Len(ctxs) <= Len(ctxs')
      /\ \A c \in 1 .. Len(ctxs') : ctxs'[c].pending = IF c <= Len(ctxs) THEN ctxs[c].pending ELSE 0
  BY DEF SamePendings
<1>3. DOMAIN ctxs = 1 .. Len(ctxs) /\ DOMAIN ctxs' = 1 .. Len(ctxs') /\ Len(ctxs) \in Nat /\ Len(ctxs') \in Nat
  BY <1>1, <1>2
<1>4. ASSUME NEW c \in DOMAIN ctxs PROVE c \in DOMAIN ctxs' /\ ctxs'[c].pending = ctxs[c].pending
  BY <1>2, <1>3
<1>5. ASSUME NEW c \in DOMAIN ctxs', ctxs'[c].pending # 0
      PROVE  c \in DOMAIN ctxs /\ ctxs'[c].pending = ctxs[c].pending
  BY <1>2, <1>3, <1>5
<1> QED BY <1>2, <1>4, <1>5, Zenon

-----------------------------------------------------------------------------
(* Answers.                                                                *)

\* Requests answered with their own results, or rejected, are good requests.
LEMMA AnsweredGood ==
    ASSUME NEW reqs \in Seq(GoodRequests), NEW ids \in Seq(Nat), NEW results, NEW ok \in BOOLEAN,
           \A i \in DOMAIN ids : ids[i] \in DOMAIN reqs =>
              results[i] = NativeValue(reqs[ids[i]].op, reqs[ids[i]].input)
    PROVE  /\ Answered(reqs, ids, results, ok) \in Seq(GoodRequests)
           /\ Len(Answered(reqs, ids, results, ok)) = Len(reqs)
           /\ \A r \in DOMAIN reqs : Answered(reqs, ids, results, ok)[r].status = "pending" =>
                 r \notin Elements(ids) /\ reqs[r].status = "pending"
<1> DEFINE Val(r) == results[CHOOSE i \in DOMAIN ids : ids[i] = r]
           New(r) == IF r \notin Elements(ids) THEN reqs[r]
                     ELSE IF ok THEN [reqs[r] EXCEPT !.status = "value", !.value = Val(r)]
                     ELSE [reqs[r] EXCEPT !.status = "error"]
           new == [r \in DOMAIN reqs |-> New(r)]
<1>1. Answered(reqs, ids, results, ok) = new
  BY Zenon DEF Answered
<1>2. ASSUME NEW r \in DOMAIN reqs
      PROVE  /\ New(r) \in GoodRequests
             /\ New(r).status = "pending" => r \notin Elements(ids) /\ reqs[r].status = "pending"
  <2>1. reqs[r] \in GoodRequests
    OBVIOUS
  <2>2. CASE r \notin Elements(ids)
    BY <2>1, <2>2, Zenon
  <2>3. CASE r \in Elements(ids) /\ ~ok
    <3>1. New(r) = [reqs[r] EXCEPT !.status = "error"]
      BY <2>3, Zenon
    <3> HIDE DEF New
    <3>2. reqs[r] \in RequestType /\ Owed(reqs[r])
      BY <2>1, Zenon DEF GoodRequests
    <3>3. /\ New(r) \in RequestType /\ New(r).status = "error"
          /\ New(r).key = reqs[r].key /\ New(r).op = reqs[r].op /\ New(r).input = reqs[r].input
      BY <3>1, <3>2, Zenon DEF RequestType
    <3>4. Owed(New(r))
      BY <3>2, <3>3, Zenon DEF Owed
    <3> QED BY <3>3, <3>4, Zenon DEF GoodRequests
  <2>4. CASE r \in Elements(ids) /\ ok
    <3>1. New(r) = [reqs[r] EXCEPT !.status = "value", !.value = Val(r)]
      BY <2>4, Zenon
    <3>2. \E i \in DOMAIN ids : ids[i] = r
      BY <2>4, Zenon DEF Elements
    <3>3. PICK i \in DOMAIN ids : ids[i] = r /\ Val(r) = results[i]
      BY <3>2, Zenon
    <3>4. Val(r) = NativeValue(reqs[r].op, reqs[r].input)
      BY <3>3, Zenon
    <3> HIDE DEF New, Val
    <3>5. reqs[r] \in RequestType /\ Owed(reqs[r])
      BY <2>1, Zenon DEF GoodRequests
    <3>6. reqs[r].op \in Ops /\ reqs[r].input \in Inputs
      BY <3>5 DEF RequestType
    <3>7. Val(r) \in Values
      BY <3>4, <3>6 DEF Values
    <3>8. /\ New(r) \in RequestType /\ New(r).status = "value" /\ New(r).value = Val(r)
          /\ New(r).key = reqs[r].key /\ New(r).op = reqs[r].op /\ New(r).input = reqs[r].input
      BY <3>1, <3>5, <3>7, Zenon DEF RequestType
    <3>9. Owed(New(r))
      BY <3>4, <3>5, <3>8, Zenon DEF Owed
    <3> QED BY <3>8, <3>9, Zenon DEF GoodRequests
  <2> QED BY <2>2, <2>3, <2>4, Zenon
<1>3. DOMAIN reqs = 1 .. Len(reqs) /\ Len(reqs) \in Nat
  OBVIOUS
<1> HIDE DEF New
<1>4. new \in [1 .. Len(reqs) -> GoodRequests]
  BY <1>2, <1>3, Zenon
<1>5. \A r \in DOMAIN reqs : new[r] = New(r)
  BY Zenon
<1> HIDE DEF new
<1>6. new \in Seq(GoodRequests) /\ Len(new) = Len(reqs)
  BY <1>3, <1>4
<1> QED BY <1>1, <1>2, <1>5, <1>6, Zenon

\* The results of a packed call are what its requests are owed.
LEMMA CachedGood ==
    ASSUME NEW map \in GoodMaps(options.maxCacheKeys), options.maxCacheKeys \in Nat,
           NEW reqs \in Seq(GoodRequests), NEW ids \in Seq(Nat), Elements(ids) \subseteq DOMAIN reqs
    PROVE  CacheAll(map, ids, reqs, PackedResult(ids, reqs)) \in GoodMaps(options.maxCacheKeys)
<1> DEFINE results == PackedResult(ids, reqs)
<1>1. DOMAIN ids = 1 .. Len(ids)
  OBVIOUS
<1>2. ASSUME NEW i \in 1 .. Len(ids), reqs[ids[i]].key # NoKey
      PROVE  /\ reqs[ids[i]].key \in CacheKeys
             /\ results[i] = NativeValue(reqs[ids[i]].key[1], reqs[ids[i]].key[3])
  <2> DEFINE q == reqs[ids[i]]
  <2>1. ids[i] \in DOMAIN reqs
    BY <1>1, Zenon DEF Elements
  <2>2. q \in GoodRequests
    BY <2>1
  <2>3. results[i] = NativeValue(q.op, q.input)
    BY <1>1, Zenon DEF PackedResult
  <2> HIDE DEF q, results
  <2>4. q \in RequestType /\ Owed(q)
    BY <2>2, Zenon DEF GoodRequests
  <2>5. q.op \in Ops /\ q.input \in Inputs
    BY <2>4 DEF RequestType
  <2>6. q.key \in KeysOf(q.op, q.input)
    BY <1>2, <2>4, Zenon DEF Owed, q
  <2>7. q.key \in CacheKeys /\ NativeValue(q.key[1], q.key[3]) = NativeValue(q.op, q.input)
    BY <2>5, <2>6, KeyParts, Zenon
  <2> QED BY <2>3, <2>7, Zenon DEF q
<1> HIDE DEF results
<1>3. CacheAll(map, ids, reqs, results) \in GoodMaps(options.maxCacheKeys)
  BY <1>2, CacheAllGood, Zenon
<1> QED BY <1>3, Zenon DEF results

\* The results of a packed call answer its requests.
LEMMA PackedAnswers ==
    ASSUME NEW reqs \in Seq(GoodRequests), NEW ids \in Seq(Nat), NEW ok \in BOOLEAN
    PROVE  /\ Answered(reqs, ids, PackedResult(ids, reqs), ok) \in Seq(GoodRequests)
           /\ Len(Answered(reqs, ids, PackedResult(ids, reqs), ok)) = Len(reqs)
           /\ \A r \in DOMAIN reqs : Answered(reqs, ids, PackedResult(ids, reqs), ok)[r].status = "pending" =>
                 r \notin Elements(ids) /\ reqs[r].status = "pending"
<1> DEFINE results == PackedResult(ids, reqs)
<1>1. \A i \in DOMAIN ids : ids[i] \in DOMAIN reqs =>
         results[i] = NativeValue(reqs[ids[i]].op, reqs[ids[i]].input)
  BY Zenon DEF PackedResult
<1> HIDE DEF results
<1>2. /\ Answered(reqs, ids, results, ok) \in Seq(GoodRequests)
      /\ Len(Answered(reqs, ids, results, ok)) = Len(reqs)
      /\ \A r \in DOMAIN reqs : Answered(reqs, ids, results, ok)[r].status = "pending" =>
            r \notin Elements(ids) /\ reqs[r].status = "pending"
  BY <1>1, AnsweredGood, Zenon
<1> QED BY <1>2, Zenon DEF results

\* A batch of the snapshot is taken off, and its requests are answered.
LEMMA FlushKept ==
    ASSUME LoaderInv, flushing # <<>>, flushing' = Tail(flushing),
           options' = options, buffer' = buffer, micro' = micro, uncaught' = uncaught,
           SamePendings(ctxs'), current' \in [Ops -> 0 .. Len(ctxs')],
           requests' \in Seq(GoodRequests), Len(requests') = Len(requests),
           lcache' \in GoodMaps(options.maxCacheKeys),
           \A r \in DOMAIN requests : requests'[r].status = "pending" =>
              r \notin Elements(FlushedIds) /\ requests[r].status = "pending"
    PROVE  LoaderInv'
<1>0. /\ LoaderTypes /\ LoaderRefs /\ LoaderWoken /\ LoaderPlaced /\ requests \in Seq(GoodRequests)
  BY Zenon DEF LoaderInv
<1>1. /\ \A c \in DOMAIN ctxs : c \in DOMAIN ctxs' /\ ctxs'[c].pending = ctxs[c].pending
      /\ \A c \in DOMAIN ctxs' : ctxs'[c].pending # 0 =>
            c \in DOMAIN ctxs /\ ctxs'[c].pending = ctxs[c].pending
      /\ ctxs' \in Seq(CtxType)
  BY <1>0, PendingsKept, Zenon
<1>2. /\ flushing \in Seq(Batch) /\ Tail(flushing) \in Seq(Batch)
      /\ \A i \in DOMAIN Tail(flushing) : i + 1 \in DOMAIN flushing /\ Tail(flushing)[i] = flushing[i + 1]
      /\ \A i \in DOMAIN flushing : i = 1 \/ (i - 1 \in DOMAIN Tail(flushing) /\ Tail(flushing)[i - 1] = flushing[i])
      /\ Head(flushing) = flushing[1]
  BY <1>0 DEF LoaderTypes
<1>3. LoaderTypes'
  BY <1>0, <1>1, <1>2, Zenon DEF LoaderTypes
<1>4. LoaderRefs'
  <2>1. IdsWithin(Tail(flushing), Len(requests))
    BY <1>0, <1>2, Zenon DEF LoaderRefs, IdsWithin
  <2>2. \A c \in DOMAIN ctxs' : ctxs'[c].pending \in 0 .. Len(requests)
    <3> TAKE c \in DOMAIN ctxs'
    <3>1. CASE ctxs'[c].pending = 0
      BY <1>0, <3>1 DEF LoaderRefs
    <3>2. CASE ctxs'[c].pending # 0
      BY <1>0, <1>1, <3>2, Zenon DEF LoaderRefs
    <3> QED BY <3>1, <3>2
  <2>3. \A i \in DOMAIN micro : micro[i].kind = "single" => micro[i].ctx \in DOMAIN ctxs'
    BY <1>0, <1>1, Zenon DEF LoaderRefs
  <2>4. IdsWithin(buffer, Len(requests))
    BY <1>0, Zenon DEF LoaderRefs
  <2> QED BY <2>1, <2>2, <2>3, <2>4, Zenon DEF LoaderRefs
<1>5. LoaderWoken'
  <2>1. buffer # <<>> => \E i \in DOMAIN micro : micro[i].kind = "flush"
    BY <1>0, Zenon DEF LoaderWoken
  <2>2. \A c \in DOMAIN ctxs' : ctxs'[c].pending # 0 =>
           \E i \in DOMAIN micro : micro[i].kind = "single" /\ micro[i].ctx = c
    BY <1>0, <1>1, Zenon DEF LoaderWoken
  <2> QED BY <2>1, <2>2, Zenon DEF LoaderWoken
<1>6. LoaderPlaced'
  <2> SUFFICES ASSUME ~uncaught, NEW r \in DOMAIN requests', requests'[r].status = "pending"
               PROVE  Placed(r)'
    BY Zenon DEF LoaderPlaced
  <2>1. r \in DOMAIN requests
    BY <1>0
  <2>2. r \notin Elements(FlushedIds) /\ requests[r].status = "pending" /\ Placed(r)
    BY <1>0, <2>1, Zenon DEF LoaderPlaced
  <2>3. CASE InBatches(buffer, r)
    BY <2>3, Zenon DEF Placed
  <2>4. CASE \E c \in DOMAIN ctxs : ctxs[c].pending = r
    BY <1>1, <2>4, Zenon DEF Placed
  <2>5. CASE InBatches(flushing, r)
    <3>1. PICK i \in DOMAIN flushing : r \in Elements(flushing[i].ids)
      BY <2>5, Zenon DEF InBatches
    <3>2. i # 1
      BY <1>2, <2>2, <3>1, Zenon DEF FlushedIds
    <3>3. InBatches(Tail(flushing), r)
      BY <1>2, <3>1, <3>2, Zenon DEF InBatches
    <3>4. InBatches(flushing', r)
      BY <3>3, Zenon
    <3> QED BY <3>4, Zenon DEF Placed
  <2> QED BY <2>2, <2>3, <2>4, <2>5, Zenon DEF Placed
<1> QED BY <1>3, <1>4, <1>5, <1>6, Zenon DEF LoaderInv

\* What a batch of the snapshot is.
LEMMA HeadBatch ==
    ASSUME LoaderInv, flushing # <<>>
    PROVE  /\ FlushedOp \in Ops /\ FlushedIds \in Seq(Nat)
           /\ Elements(FlushedIds) \subseteq DOMAIN requests
<1>1. flushing \in Seq(Batch) /\ requests \in Seq(GoodRequests) /\ IdsWithin(flushing, Len(requests))
  BY Zenon DEF LoaderInv, LoaderTypes, LoaderRefs
<1>2. Head(flushing) = flushing[1] /\ 1 \in DOMAIN flushing /\ flushing[1] \in Batch
  BY <1>1
<1>3. FlushedOp \in Ops /\ FlushedIds \in Seq(Nat)
  BY <1>2 DEF FlushedOp, FlushedIds, Batch
<1>4. Elements(FlushedIds) \subseteq 1 .. Len(requests)
  BY <1>1, <1>2, Zenon DEF IdsWithin, FlushedIds
<1>5. DOMAIN requests = 1 .. Len(requests)
  BY <1>1
<1> QED BY <1>3, <1>4, <1>5, Zenon

\* The adaptive threshold stays a number.
LEMMA ThresholdsIn ==
    ASSUME NEW c \in CtxType, NEW n \in Nat
    PROVE  BulkThresholds(c, n) \subseteq Int
<1>1. c.batchMin \in Int /\ MinBatchMin \in Int /\ MaxBatchMin \in Int
  BY LoaderAssumption DEF CtxType
<1>2. \A v \in Int : ClampBatchMin(v) \in Int
  BY <1>1 DEF ClampBatchMin
<1>3. c.batchMin + 1 \in Int /\ c.batchMin - 1 \in Int
  BY <1>1
<1>4. RecordScalar(c.batchMin, n) \subseteq Int /\ RecordBatch(c.batchMin) \subseteq Int
  BY <1>1, <1>2, <1>3, Zenon DEF RecordScalar, RecordBatch
<1> QED BY <1>4, Zenon DEF BulkThresholds

\* Counting the probe changes nothing else of a context.
LEMMA ProbedIn ==
    ASSUME NEW c \in CtxType
    PROVE  Probed(c) \in CtxType /\ Probed(c).pending = c.pending
<1>1. c.probe \in Int /\ KeyProbeEvery \in Nat \ {0}
  BY LoaderAssumption DEF CtxType
<1>2. (c.probe + 1) % KeyProbeEvery \in Int
  BY <1>1
<1> QED BY <1>2 DEF Probed, CtxType

\* A burst on an op without a packed variant.
LEMMA FlushBulkInv ==
    ASSUME LoaderInv, NEW ok \in BOOLEAN, FlushBulk(ok)
    PROVE  LoaderInv'
<1> DEFINE op == FlushedOp
           me == CtxId(op)
           old == CtxAfter(op)[me]
           c == [old EXCEPT !.streak = 0]
           results == PackedResult(FlushedIds, requests)
<1>1. /\ flushing # <<>> /\ flushing' = Tail(flushing)
      /\ options' = options /\ buffer' = buffer /\ micro' = micro /\ uncaught' = uncaught
      /\ current' = [current EXCEPT ![op] = me]
      /\ requests' = Answered(requests, FlushedIds, results, ok)
      /\ lcache' = IF ok THEN CacheAll(lcache, FlushedIds, requests, results) ELSE lcache
  BY Zenon DEF FlushBulk, FlushFrame
<1>2. \E min \in IF ok THEN BulkThresholds(c, Len(FlushedIds)) ELSE {c.batchMin} :
         ctxs' = [CtxAfter(op) EXCEPT ![me] = [c EXCEPT !.batchMin = min]]
  BY Zenon DEF FlushBulk
<1>3. /\ LoaderTypes /\ requests \in Seq(GoodRequests) /\ lcache \in GoodMaps(options.maxCacheKeys)
  BY Zenon DEF LoaderInv
<1>4. /\ op \in Ops /\ FlushedIds \in Seq(Nat) /\ Elements(FlushedIds) \subseteq DOMAIN requests
  BY <1>1, HeadBatch, Zenon
<1>5. options.maxCacheKeys \in Nat
  BY <1>3 DEF LoaderTypes, OptionType
<1>6. old \in CtxType
  BY <1>3, <1>4, CtxFor, Zenon
<1> HIDE DEF op, me, old
<1>7. c \in CtxType /\ c.pending = old.pending
  BY <1>6 DEF CtxType
<1> HIDE DEF c
<1>8. PICK min : min \in Int /\ ctxs' = [CtxAfter(op) EXCEPT ![me] = [c EXCEPT !.batchMin = min]]
  <2>1. Len(FlushedIds) \in Nat /\ c.batchMin \in Int
    BY <1>4, <1>7 DEF CtxType
  <2>2. BulkThresholds(c, Len(FlushedIds)) \subseteq Int
    BY <1>7, <2>1, ThresholdsIn, Zenon
  <2> QED BY <1>2, <2>1, <2>2, Zenon
<1>9. [c EXCEPT !.batchMin = min] \in CtxType /\ [c EXCEPT !.batchMin = min].pending = old.pending
  BY <1>7, <1>8 DEF CtxType
<1>10. SamePendings(ctxs') /\ current' \in [Ops -> 0 .. Len(ctxs')]
  BY <1>1, <1>3, <1>4, <1>8, <1>9, CtxWritten, Zenon DEF me, old
<1>11. /\ requests' \in Seq(GoodRequests) /\ Len(requests') = Len(requests)
       /\ \A r \in DOMAIN requests : requests'[r].status = "pending" =>
             r \notin Elements(FlushedIds) /\ requests[r].status = "pending"
  BY <1>1, <1>3, <1>4, PackedAnswers, Zenon
<1>12. lcache' \in GoodMaps(options.maxCacheKeys)
  BY <1>1, <1>3, <1>4, <1>5, CachedGood, Zenon
<1> QED BY <1>1, <1>10, <1>11, <1>12, FlushKept, Zenon

\* What the first requests of a one-element batch are.
LEMMA Lone ==
    ASSUME NEW ids \in Seq(Nat), Len(ids) = 1
    PROVE  ids[1] \in Nat /\ <<ids[1]>> \in Seq(Nat) /\ Elements(ids) = {ids[1]} /\ Elements(<<ids[1]>>) = {ids[1]}
BY DEF Elements

\* A request given a key of its own, or keeping the one it has, is a good one.
LEMMA KeyedGood ==
    ASSUME NEW q \in GoodRequests, NEW key \in {q.key, DefaultKey(q.op, q.input)}, NEW d \in BOOLEAN
    PROVE  /\ [q EXCEPT !.key = key, !.deferred = d] \in GoodRequests
           /\ [q EXCEPT !.key = key] \in GoodRequests
<1>1. q \in RequestType /\ Owed(q)
  BY Zenon DEF GoodRequests
<1>2. q.op \in Ops /\ q.input \in Inputs /\ q.key \in CacheKeys \cup {NoKey}
  BY <1>1 DEF RequestType
<1>3. DefaultKey(q.op, q.input) \in KeysOf(q.op, q.input)
  BY Zenon DEF KeysOf
<1>4. DefaultKey(q.op, q.input) \in CacheKeys
  BY <1>2, <1>3, KeyParts, Zenon
<1>5. key \in CacheKeys \cup {NoKey} /\ (key # NoKey => key \in KeysOf(q.op, q.input))
  BY <1>1, <1>2, <1>3, <1>4, Zenon DEF Owed
<1> DEFINE a == [q EXCEPT !.key = key, !.deferred = d]
           b == [q EXCEPT !.key = key]
<1>6. /\ a \in RequestType /\ a.key = key /\ a.op = q.op /\ a.input = q.input /\ a.status = q.status /\ a.value = q.value
      /\ b \in RequestType /\ b.key = key /\ b.op = q.op /\ b.input = q.input /\ b.status = q.status /\ b.value = q.value
  BY <1>1, <1>5, Zenon DEF RequestType
<1> HIDE DEF a, b
<1>7. Owed(a) /\ Owed(b)
  BY <1>1, <1>5, <1>6, Zenon DEF Owed
<1> QED BY <1>6, <1>7, Zenon DEF GoodRequests, a, b

\* A request answered from the cache under its own key is a good one.
LEMMA HitGood ==
    ASSUME NEW map \in Seq(GoodEntries), NEW q \in GoodRequests,
           q.key \in KeysOf(q.op, q.input), LruHas(map, q.key)
    PROVE  [q EXCEPT !.status = "value", !.value = LruPeek(map, q.key)] \in GoodRequests
<1>1. q \in RequestType /\ Owed(q)
  BY Zenon DEF GoodRequests
<1>2. q.op \in Ops /\ q.input \in Inputs
  BY <1>1 DEF RequestType
<1>4. LruPeek(map, q.key) = NativeValue(q.op, q.input)
  BY <1>2, KeyParts, PeekGood, Zenon
<1> DEFINE v == LruPeek(map, q.key)
           a == [q EXCEPT !.status = "value", !.value = v]
<1>5. v = NativeValue(q.op, q.input)
  BY <1>4, Zenon
<1> HIDE DEF v
<1>6. v \in Values
  BY <1>2, <1>5 DEF Values
<1>7. /\ a \in RequestType /\ a.key = q.key /\ a.op = q.op /\ a.input = q.input /\ a.value = v
  BY <1>1, <1>6, Zenon DEF RequestType
<1> HIDE DEF a
<1>8. Owed(a)
  BY <1>1, <1>5, <1>7, Zenon DEF Owed
<1> QED BY <1>7, <1>8, Zenon DEF GoodRequests, a, v

\* The contexts, the options and the cache change, and what waits does not; or
\* an exception ends the flush.
LEMMA CtxOnlyInv ==
    ASSUME LoaderInv, SamePendings(ctxs'), current' \in [Ops -> 0 .. Len(ctxs')],
           options' \in OptionType, lcache' \in GoodMaps(options'.maxCacheKeys),
           buffer' = buffer, micro' = micro, requests' = requests,
           \/ flushing' = flushing /\ uncaught' = uncaught
           \/ flushing' = <<>> /\ uncaught' = TRUE
    PROVE  LoaderInv'
<1>0. /\ LoaderTypes /\ LoaderRefs /\ LoaderWoken /\ LoaderPlaced /\ requests \in Seq(GoodRequests)
  BY Zenon DEF LoaderInv
<1>1. /\ \A c \in DOMAIN ctxs : c \in DOMAIN ctxs' /\ ctxs'[c].pending = ctxs[c].pending
      /\ \A c \in DOMAIN ctxs' : ctxs'[c].pending # 0 =>
            c \in DOMAIN ctxs /\ ctxs'[c].pending = ctxs[c].pending
      /\ ctxs' \in Seq(CtxType)
  BY <1>0, PendingsKept, Zenon
<1>2. <<>> \in Seq(Batch) /\ IdsWithin(<<>>, Len(requests))
  BY DEF IdsWithin
<1>3. LoaderTypes'
  BY <1>0, <1>1, <1>2, Zenon DEF LoaderTypes
<1>4. LoaderRefs'
  <2>1. \A c \in DOMAIN ctxs' : ctxs'[c].pending \in 0 .. Len(requests)
    <3> TAKE c \in DOMAIN ctxs'
    <3>1. CASE ctxs'[c].pending = 0
      BY <1>0, <3>1 DEF LoaderRefs
    <3>2. CASE ctxs'[c].pending # 0
      BY <1>0, <1>1, <3>2, Zenon DEF LoaderRefs
    <3> QED BY <3>1, <3>2
  <2>2. \A i \in DOMAIN micro : micro[i].kind = "single" => micro[i].ctx \in DOMAIN ctxs'
    BY <1>0, <1>1, Zenon DEF LoaderRefs
  <2>3. IdsWithin(buffer, Len(requests)) /\ IdsWithin(flushing, Len(requests))
    BY <1>0, Zenon DEF LoaderRefs
  <2> QED BY <1>2, <2>1, <2>2, <2>3, Zenon DEF LoaderRefs
<1>5. LoaderWoken'
  BY <1>0, <1>1, Zenon DEF LoaderWoken
<1>6. LoaderPlaced'
  <2>1. CASE uncaught'
    BY <2>1, Zenon DEF LoaderPlaced
  <2>2. CASE ~uncaught'
    <3>1. uncaught' = uncaught /\ flushing' = flushing
      BY <2>2, Zenon
    <3>2. ASSUME NEW r, Placed(r) PROVE Placed(r)'
      BY <1>1, <3>1, <3>2, Zenon DEF Placed, InBatches
    <3> QED BY <1>0, <3>1, <3>2, Zenon DEF LoaderPlaced
  <2> QED BY <2>1, <2>2, Zenon
<1> QED BY <1>0, <1>3, <1>4, <1>5, <1>6, Zenon DEF LoaderInv

\* Contexts that were there wait for what they waited for.
LEMMA SamePendingsRefl ==
    ASSUME LoaderTypes
    PROVE  SamePendings(ctxs)
BY DEF LoaderTypes, SamePendings

\* loader.run.
LEMMA RunInv ==
    ASSUME LoaderInv, NEW op \in Ops, NEW n \in Nat, Run(op, n)
    PROVE  LoaderInv'
<1> DEFINE me == CtxId(op)
           c == CtxAfter(op)[me]
<1>1. LoaderTypes /\ lcache \in GoodMaps(options.maxCacheKeys) /\ options \in OptionType
  BY Zenon DEF LoaderInv, LoaderTypes
<1>2. /\ current' = [current EXCEPT ![op] = me]
      /\ options' = options /\ lcache' = lcache /\ buffer' = buffer /\ micro' = micro
      /\ flushing' = flushing /\ requests' = requests /\ uncaught' = uncaught
      /\ \E min \in BulkThresholds(c, n) : ctxs' = [CtxAfter(op) EXCEPT ![me] = [c EXCEPT !.batchMin = min]]
  BY Zenon DEF Run
<1>3. c \in CtxType
  BY <1>1, CtxFor, Zenon
<1> HIDE DEF c
<1>4. PICK min \in Int : ctxs' = [CtxAfter(op) EXCEPT ![me] = [c EXCEPT !.batchMin = min]]
  BY <1>2, <1>3, ThresholdsIn, Zenon
<1>5. [c EXCEPT !.batchMin = min] \in CtxType /\ [c EXCEPT !.batchMin = min].pending = c.pending
  BY <1>3 DEF CtxType
<1>6. SamePendings(ctxs') /\ current' \in [Ops -> 0 .. Len(ctxs')]
  BY <1>1, <1>2, <1>4, <1>5, CtxWritten, Zenon DEF c
<1> QED BY <1>1, <1>2, <1>6, CtxOnlyInv, Zenon

\* clear().
LEMMA ClearInv == ASSUME LoaderInv, ClearCache PROVE LoaderInv'
<1>1. LoaderTypes /\ options \in OptionType /\ current \in [Ops -> 0 .. Len(ctxs)]
  BY Zenon DEF LoaderInv, LoaderTypes
<1>2. /\ options' = options /\ lcache' = <<>> /\ buffer' = buffer /\ micro' = micro
      /\ flushing' = flushing /\ requests' = requests /\ uncaught' = uncaught
      /\ ctxs' = ctxs /\ current' = current
  BY Zenon DEF ClearCache
<1>3. <<>> \in GoodMaps(options.maxCacheKeys)
  BY <1>1 DEF GoodMaps, OptionType
<1>4. SamePendings(ctxs)
  BY <1>1, SamePendingsRefl, Zenon
<1> QED BY <1>1, <1>2, <1>3, <1>4, CtxOnlyInv, Zenon

\* configure(): new contexts replace the old ones, which keep what they wait for.
LEMMA ConfigureInv ==
    ASSUME LoaderInv, NEW next \in OptionType, Configure(next)
    PROVE  LoaderInv'
<1> DEFINE fresh == [i \in DOMAIN Memoized |-> NewCtx(next)]
           at(op) == CHOOSE i \in DOMAIN Memoized : Memoized[i] = op
<1>1. LoaderTypes /\ lcache \in GoodMaps(options.maxCacheKeys) /\ ctxs \in Seq(CtxType)
  BY Zenon DEF LoaderInv, LoaderTypes
<1>2. /\ options' = next /\ buffer' = buffer /\ micro' = micro
      /\ flushing' = flushing /\ requests' = requests /\ uncaught' = uncaught
      /\ lcache' = IF next.maxCacheKeys # options.maxCacheKeys THEN <<>> ELSE lcache
      /\ ctxs' = ctxs \o fresh
      /\ current' = [op \in Ops |-> IF op \in Elements(Memoized) THEN Len(ctxs) + at(op) ELSE 0]
  BY Zenon DEF Configure
<1>3. <<>> \in GoodMaps(next.maxCacheKeys)
  BY DEF GoodMaps, OptionType
<1>4. lcache' \in GoodMaps(options'.maxCacheKeys)
  BY <1>1, <1>2, <1>3, Zenon
<1>5. NewCtx(next) \in CtxType /\ NewCtx(next).pending = 0
  BY NewCtxIn, Zenon
<1>6. DOMAIN Memoized = 1 .. Len(Memoized) /\ Len(Memoized) \in Nat
  BY LoaderAssumption
<1>7. fresh \in Seq(CtxType) /\ Len(fresh) = Len(Memoized) /\ \A i \in 1 .. Len(Memoized) : fresh[i].pending = 0
  BY <1>5, <1>6
<1> HIDE DEF fresh
<1>8. /\ ctxs' \in Seq(CtxType) /\ Len(ctxs') = Len(ctxs) + Len(Memoized)
      /\ Len(ctxs) \in Nat
      /\ \A c \in 1 .. Len(ctxs') : ctxs'[c] = IF c <= Len(ctxs) THEN ctxs[c] ELSE fresh[c - Len(ctxs)]
  BY <1>1, <1>2, <1>7
<1>9. SamePendings(ctxs')
  <2>1. ASSUME NEW c \in 1 .. Len(ctxs')
        PROVE  ctxs'[c].pending = IF c <= Len(ctxs) THEN ctxs[c].pending ELSE 0
    <3>1. CASE c <= Len(ctxs)
      BY <1>8, <3>1
    <3>2. CASE ~(c <= Len(ctxs))
      <4>1. c - Len(ctxs) \in 1 .. Len(Memoized)
        BY <1>6, <1>8, <3>2
      <4> QED BY <1>7, <1>8, <3>2, <4>1
    <3> QED BY <3>1, <3>2
  <2>2. Len(ctxs) <= Len(ctxs')
    BY <1>6, <1>8
  <2> QED BY <1>8, <2>1, <2>2 DEF SamePendings
<1>10. current' \in [Ops -> 0 .. Len(ctxs')]
  <2>1. ASSUME NEW op \in Ops
        PROVE  (IF op \in Elements(Memoized) THEN Len(ctxs) + at(op) ELSE 0) \in 0 .. Len(ctxs')
    <3>1. CASE op \in Elements(Memoized)
      <4>1. at(op) \in DOMAIN Memoized
        BY <3>1, Zenon DEF Elements
      <4> HIDE DEF at
      <4>2. Len(ctxs) + at(op) \in 0 .. Len(ctxs')
        BY <1>6, <1>8, <4>1
      <4> QED BY <3>1, <4>2, Zenon
    <3>2. CASE op \notin Elements(Memoized)
      <4>1. 0 \in 0 .. Len(ctxs')
        BY <1>6, <1>8
      <4> QED BY <3>2, <4>1, Zenon
    <3> QED BY <3>1, <3>2, Zenon
  <2> HIDE DEF at
  <2> QED BY <1>2, <2>1, Zenon
<1> QED BY <1>2, <1>4, <1>9, <1>10, CtxOnlyInv, Zenon

\* The packed key call throws.
LEMMA KeysThrowInv == ASSUME LoaderInv, FlushKeysThrow PROVE LoaderInv'
<1> DEFINE op == FlushedOp
           me == CtxId(op)
           c == CtxAfter(op)[me]
           p == Probed(c)
           c2 == [p EXCEPT !.streak = 0, !.attempts = @ + Len(FlushedIds)]
<1>1. LoaderTypes /\ lcache \in GoodMaps(options.maxCacheKeys) /\ options \in OptionType
  BY Zenon DEF LoaderInv, LoaderTypes
<1>2. /\ flushing # <<>> /\ current' = [current EXCEPT ![op] = me]
      /\ options' = options /\ lcache' = lcache /\ buffer' = buffer /\ micro' = micro
      /\ flushing' = <<>> /\ requests' = requests /\ uncaught' = TRUE
      /\ ctxs' = [CtxAfter(op) EXCEPT ![me] = c2]
  BY Zenon DEF FlushKeysThrow
<1>3. op \in Ops /\ FlushedIds \in Seq(Nat)
  BY <1>2, HeadBatch, Zenon
<1>4. c \in CtxType
  BY <1>1, <1>3, CtxFor, Zenon
<1> HIDE DEF c, op
<1>5. p \in CtxType /\ p.pending = c.pending
  BY <1>4, ProbedIn, Zenon
<1> HIDE DEF p
<1>6. Len(FlushedIds) \in Int
  BY <1>3
<1>7. c2 \in CtxType /\ c2.pending = c.pending
  <2>1. p.attempts \in Int
    BY <1>5 DEF CtxType
  <2>2. p.attempts + Len(FlushedIds) \in Int
    BY <1>6, <2>1
  <2>3. 0 \in Int
    OBVIOUS
  <2> QED BY <1>5, <2>2, <2>3, Zenon DEF CtxType
<1> HIDE DEF c2
<1>8. SamePendings(ctxs') /\ current' \in [Ops -> 0 .. Len(ctxs')]
  BY <1>1, <1>2, <1>3, <1>7, CtxWritten, Zenon DEF c
<1> QED BY <1>1, <1>2, <1>8, CtxOnlyInv, Zenon

\* Counting adds to a context's own numbers only.
LEMMA CountedIn ==
    ASSUME NEW c \in CtxType, NEW a \in Int, NEW h \in Int
    PROVE  /\ [c EXCEPT !.attempts = @ + a, !.hits = @ + h] \in CtxType
           /\ [c EXCEPT !.attempts = @ + a, !.hits = @ + h].pending = c.pending
           /\ [c EXCEPT !.attempts = @ + a, !.hits = @ + h].mode = c.mode
<1>1. c.attempts \in Int /\ c.hits \in Int
  BY DEF CtxType
<1>2. c.attempts + a \in Int /\ c.hits + h \in Int
  BY <1>1
<1> QED BY <1>2, Zenon DEF CtxType

\* A lone request: answered from the cache, or by a single call.
LEMMA FlushOneInv ==
    ASSUME LoaderInv, NEW ok \in BOOLEAN, FlushOne(ok)
    PROVE  LoaderInv'
<1> DEFINE op == FlushedOp
           me == CtxId(op)
           c == CtxAfter(op)[me]
           id == FlushedIds[1]
           r == requests[id]
           low == c.mode = "coalesce" /\ options.loadStrategy = "auto"
           calm == IF low THEN [c EXCEPT !.streak = @ + 1,
                                         !.mode = IF c.streak + 1 >= SingleAfter THEN "single" ELSE @]
                   ELSE c
           keyed == r.deferred /\ ComputesKey(calm)
           asked == IF r.deferred THEN Probed(calm) ELSE calm
           key == IF keyed THEN DefaultKey(r.op, r.input) ELSE r.key
           hit == keyed /\ LruHas(lcache, key)
           a == IF keyed THEN 1 ELSE 0
           h == IF hit THEN 1 ELSE 0
           c2 == [asked EXCEPT !.attempts = @ + a, !.hits = @ + h]
           reqs == [requests EXCEPT ![id].key = key, ![id].deferred = FALSE]
           hitting == [reqs EXCEPT ![id].status = "value", ![id].value = LruPeek(lcache, key)]
           results == PackedResult(<<id>>, reqs)
<1>1. /\ flushing # <<>> /\ Len(FlushedIds) = 1 /\ flushing' = Tail(flushing)
      /\ options' = options /\ buffer' = buffer /\ micro' = micro /\ uncaught' = uncaught
      /\ current' = [current EXCEPT ![op] = me]
      /\ ctxs' = [CtxAfter(op) EXCEPT ![me] = c2]
      /\ \/ hit /\ requests' = hitting /\ lcache' = LruGet(lcache, key)
         \/ /\ requests' = Answered(reqs, <<id>>, results, ok)
            /\ lcache' = IF ok THEN CacheAll(lcache, <<id>>, reqs, results) ELSE lcache
  BY Zenon DEF FlushOne, FlushFrame
<1>2. /\ LoaderTypes /\ requests \in Seq(GoodRequests) /\ lcache \in GoodMaps(options.maxCacheKeys)
  BY Zenon DEF LoaderInv
<1>3. /\ op \in Ops /\ FlushedIds \in Seq(Nat) /\ Elements(FlushedIds) \subseteq DOMAIN requests
  BY <1>1, HeadBatch, Zenon
<1>4. options.maxCacheKeys \in Nat
  BY <1>2 DEF LoaderTypes, OptionType
<1>5. c \in CtxType
  BY <1>2, <1>3, CtxFor, Zenon
<1>6. /\ id \in Nat /\ <<id>> \in Seq(Nat) /\ Elements(FlushedIds) = {id} /\ Elements(<<id>>) = {id}
  BY <1>1, <1>3, Lone, Zenon
<1>7. id \in DOMAIN requests
  BY <1>3, <1>6, Zenon
<1>8. r \in GoodRequests
  BY <1>2, <1>7
<1> HIDE DEF op, me, c, id
<1>9. calm \in CtxType /\ calm.pending = c.pending
  <2>1. c.streak + 1 \in Int /\ c.mode \in {"single", "coalesce"}
    BY <1>5 DEF CtxType
  <2> DEFINE m == IF c.streak + 1 >= SingleAfter THEN "single" ELSE c.mode
  <2>2. m \in {"single", "coalesce"}
    BY <2>1, Zenon
  <2>3. calm = IF low THEN [c EXCEPT !.streak = @ + 1, !.mode = m] ELSE c
    BY Zenon
  <2> HIDE DEF m, calm, low
  <2> QED BY <1>5, <2>1, <2>2, <2>3, Zenon DEF CtxType
<1> HIDE DEF calm
<1>10. asked \in CtxType /\ asked.pending = c.pending
  BY <1>9, ProbedIn, Zenon
<1>11. a \in Int /\ h \in Int
  OBVIOUS
<1>12. key \in {r.key, DefaultKey(r.op, r.input)}
  BY Zenon
<1>13. hit => key \in KeysOf(r.op, r.input)
  BY Zenon DEF KeysOf
<1> HIDE DEF asked, a, h
<1>14. c2 \in CtxType /\ c2.pending = c.pending
  BY <1>10, <1>11, CountedIn, Zenon
<1> HIDE DEF c2
<1>15. SamePendings(ctxs') /\ current' \in [Ops -> 0 .. Len(ctxs')]
  BY <1>1, <1>2, <1>3, <1>14, CtxWritten, Zenon DEF me, c
<1> HIDE DEF key, hit
<1> DEFINE q == [r EXCEPT !.key = key, !.deferred = FALSE]
           v == LruPeek(lcache, key)
           q2 == [q EXCEPT !.status = "value", !.value = v]
<1>16. q \in GoodRequests
  BY <1>8, <1>12, KeyedGood, Zenon
<1>17. q.key = key /\ q.status = r.status /\ q.op = r.op /\ q.input = r.input
  BY <1>8, Zenon DEF GoodRequests, RequestType
<1>18. reqs = [requests EXCEPT ![id] = q]
  BY <1>7, Zenon
<1>19. hitting = [reqs EXCEPT ![id] = q2]
  <2>1. reqs[id] = q /\ id \in DOMAIN reqs
    BY <1>7, <1>18, Zenon
  <2> HIDE DEF reqs, q
  <2> QED BY <2>1, Zenon
<1> HIDE DEF reqs, hitting, q, r
<1>20. /\ reqs \in Seq(GoodRequests) /\ Len(reqs) = Len(requests) /\ DOMAIN reqs = DOMAIN requests
       /\ \A x \in DOMAIN requests : reqs[x] = IF x = id THEN q ELSE requests[x]
  BY <1>2, <1>7, <1>16, <1>18
<1>21. \A x \in DOMAIN requests : reqs[x].status = requests[x].status
  BY <1>17, <1>20, Zenon DEF r
<1>22. CASE hit /\ requests' = hitting /\ lcache' = LruGet(lcache, key)
  <2>1. q2 \in GoodRequests
    <3>1. LruHas(lcache, q.key) /\ q.key \in KeysOf(q.op, q.input)
      BY <1>13, <1>17, <1>22, Zenon DEF hit
    <3>2. lcache \in Seq(GoodEntries)
      BY <1>2, Zenon DEF GoodMaps
    <3> QED BY <1>16, <1>17, <3>1, <3>2, HitGood, Zenon
  <2>2. q2.status = "value"
    BY <1>16, Zenon DEF GoodRequests, RequestType
  <2> HIDE DEF q2
  <2>3. /\ hitting \in Seq(GoodRequests) /\ Len(hitting) = Len(requests)
        /\ \A x \in DOMAIN requests : hitting[x] = IF x = id THEN q2 ELSE reqs[x]
    BY <1>7, <1>19, <1>20, <2>1
  <2>4. \A x \in DOMAIN requests : hitting[x].status = "pending" =>
           x \notin Elements(FlushedIds) /\ requests[x].status = "pending"
    <3> TAKE x \in DOMAIN requests
    <3>1. CASE x = id
      BY <2>2, <2>3, <3>1
    <3>2. CASE x # id
      BY <1>6, <1>21, <2>3, <3>2, Zenon
    <3> QED BY <3>1, <3>2, Zenon
  <2>5. lcache' \in GoodMaps(options.maxCacheKeys)
    BY <1>2, <1>4, <1>22, GetGood, Zenon
  <2> QED BY <1>1, <1>15, <1>22, <2>3, <2>4, <2>5, FlushKept, Zenon
<1>23. CASE /\ requests' = Answered(reqs, <<id>>, results, ok)
            /\ lcache' = IF ok THEN CacheAll(lcache, <<id>>, reqs, results) ELSE lcache
  <2>1. /\ requests' \in Seq(GoodRequests) /\ Len(requests') = Len(reqs)
        /\ \A x \in DOMAIN reqs : requests'[x].status = "pending" =>
              x \notin Elements(<<id>>) /\ reqs[x].status = "pending"
    BY <1>6, <1>20, <1>23, PackedAnswers, ZenonT(30)
  <2>2. /\ Len(requests') = Len(requests)
        /\ \A x \in DOMAIN requests : requests'[x].status = "pending" =>
              x \notin Elements(FlushedIds) /\ requests[x].status = "pending"
    BY <1>6, <1>20, <1>21, <2>1, Zenon
  <2>3. Elements(<<id>>) \subseteq DOMAIN reqs
    BY <1>6, <1>7, <1>20, Zenon
  <2>4. lcache' \in GoodMaps(options.maxCacheKeys)
    BY <1>2, <1>4, <1>6, <1>20, <1>23, <2>3, CachedGood, Zenon
  <2> QED BY <1>1, <1>15, <2>1, <2>2, <2>4, FlushKept, Zenon
<1> QED BY <1>1, <1>22, <1>23, Zenon

\* A burst has finitely many requests.
LEMMA ElementsFinite ==
    ASSUME NEW ids \in Seq(Nat), NEW T \in SUBSET Elements(ids)
    PROVE  Cardinality(T) \in Nat
<1>1. ids \in Surjection(1 .. Len(ids), Elements(ids))
  BY DEF Surjection, Elements
<1>2. IsFiniteSet(1 .. Len(ids))
  BY FS_Interval
<1>3. IsFiniteSet(Elements(ids))
  BY <1>1, <1>2, FS_Surjection, Zenon
<1>4. IsFiniteSet(T)
  BY <1>3, FS_Subset, Zenon
<1> QED BY <1>4, FS_CardinalityType, Zenon

\* A burst's requests with the keys computed for them.
LEMMA KeyedAre ==
    ASSUME requests \in Seq(GoodRequests), NEW ids, NEW compute \in BOOLEAN
    PROVE  /\ Keyed(ids, compute) \in Seq(GoodRequests)
           /\ Len(Keyed(ids, compute)) = Len(requests)
           /\ DOMAIN Keyed(ids, compute) = DOMAIN requests
           /\ \A x \in DOMAIN requests : Keyed(ids, compute)[x].status = requests[x].status
<1> DEFINE Computed(x) == x \in Elements(ids) /\ requests[x].key = NoKey /\ requests[x].deferred /\ compute
           New(x) == IF Computed(x)
                       THEN [requests[x] EXCEPT !.key = DefaultKey(requests[x].op, requests[x].input)]
                       ELSE requests[x]
           new == [x \in DOMAIN requests |-> New(x)]
<1>1. Keyed(ids, compute) = new
  BY Zenon DEF Keyed
<1>2. ASSUME NEW x \in DOMAIN requests
      PROVE  New(x) \in GoodRequests /\ New(x).status = requests[x].status
  <2> DEFINE q == requests[x]
             k == DefaultKey(q.op, q.input)
  <2>1. q \in GoodRequests
    OBVIOUS
  <2>2. New(x) = IF Computed(x) THEN [q EXCEPT !.key = k] ELSE q
    BY Zenon
  <2> HIDE DEF New, Computed, q
  <2>3. [q EXCEPT !.key = k] \in GoodRequests
    BY <2>1, KeyedGood, Zenon
  <2>4. [q EXCEPT !.key = k].status = q.status
    BY <2>1, Zenon DEF GoodRequests, RequestType
  <2> QED BY <2>1, <2>2, <2>3, <2>4, Zenon DEF q
<1>3. DOMAIN requests = 1 .. Len(requests) /\ Len(requests) \in Nat
  OBVIOUS
<1> HIDE DEF New
<1>4. new \in [1 .. Len(requests) -> GoodRequests] /\ \A x \in DOMAIN requests : new[x] = New(x)
  BY <1>2, <1>3, Zenon
<1> HIDE DEF new
<1>5. new \in Seq(GoodRequests) /\ Len(new) = Len(requests) /\ DOMAIN new = DOMAIN requests
  BY <1>3, <1>4
<1> QED BY <1>1, <1>2, <1>4, <1>5, Zenon

\* The hits of a burst, answered from the cache.
HitsAnswered(reqs, map, hits) ==
    [r \in DOMAIN reqs |->
        IF r \in hits THEN [reqs[r] EXCEPT !.status = "value", !.value = LruPeek(map, reqs[r].key)]
        ELSE reqs[r]]

\* They get what they are owed, and the others are not touched.
LEMMA HitsGood ==
    ASSUME NEW map \in Seq(GoodEntries), NEW reqs \in Seq(GoodRequests), NEW hits,
           \A r \in hits : r \in DOMAIN reqs => reqs[r].key # NoKey /\ LruHas(map, reqs[r].key)
    PROVE  /\ HitsAnswered(reqs, map, hits) \in Seq(GoodRequests)
           /\ Len(HitsAnswered(reqs, map, hits)) = Len(reqs)
           /\ DOMAIN HitsAnswered(reqs, map, hits) = DOMAIN reqs
           /\ \A r \in DOMAIN reqs :
                 /\ HitsAnswered(reqs, map, hits)[r].op = reqs[r].op
                 /\ HitsAnswered(reqs, map, hits)[r].input = reqs[r].input
                 /\ HitsAnswered(reqs, map, hits)[r].status = "pending" =>
                       r \notin hits /\ reqs[r].status = "pending"
<1> DEFINE New(r) == IF r \in hits
                       THEN [reqs[r] EXCEPT !.status = "value", !.value = LruPeek(map, reqs[r].key)]
                       ELSE reqs[r]
           new == [r \in DOMAIN reqs |-> New(r)]
<1>1. HitsAnswered(reqs, map, hits) = new
  BY Zenon DEF HitsAnswered
<1>2. ASSUME NEW r \in DOMAIN reqs
      PROVE  /\ New(r) \in GoodRequests /\ New(r).op = reqs[r].op /\ New(r).input = reqs[r].input
             /\ New(r).status = "pending" => r \notin hits /\ reqs[r].status = "pending"
  <2>1. reqs[r] \in GoodRequests
    OBVIOUS
  <2>2. CASE r \notin hits
    BY <2>1, <2>2, Zenon
  <2>3. CASE r \in hits
    <3> DEFINE q == reqs[r]
               a == [q EXCEPT !.status = "value", !.value = LruPeek(map, q.key)]
    <3>1. New(r) = a
      BY <2>3, Zenon
    <3>2. q \in GoodRequests /\ q.key # NoKey /\ LruHas(map, q.key)
      BY <2>1, <2>3, Zenon
    <3> HIDE DEF q, New
    <3>3. q.key \in KeysOf(q.op, q.input)
      BY <3>2, Zenon DEF GoodRequests, Owed
    <3>4. a \in GoodRequests
      BY <3>2, <3>3, HitGood, Zenon
    <3>5. a.status = "value" /\ a.op = q.op /\ a.input = q.input
      BY <3>2, Zenon DEF GoodRequests, RequestType
    <3> HIDE DEF a
    <3>6. New(r).status # "pending"
      BY <3>1, <3>5
    <3> QED BY <3>1, <3>4, <3>5, <3>6, Zenon DEF q
  <2> QED BY <2>2, <2>3, Zenon
<1>3. DOMAIN reqs = 1 .. Len(reqs) /\ Len(reqs) \in Nat
  OBVIOUS
<1> HIDE DEF New
<1>4. new \in [1 .. Len(reqs) -> GoodRequests] /\ \A r \in DOMAIN reqs : new[r] = New(r)
  BY <1>2, <1>3, Zenon
<1> HIDE DEF new
<1>5. new \in Seq(GoodRequests) /\ Len(new) = Len(reqs) /\ DOMAIN new = DOMAIN reqs
  BY <1>3, <1>4
<1> QED BY <1>1, <1>2, <1>4, <1>5, Zenon

\* A burst on a fast op: hits are answered from the cache, and the misses by the
\* packed call that was built for them.
LEMMA FlushFastInv ==
    ASSUME LoaderInv, NEW ok \in BOOLEAN, FlushFast(ok)
    PROVE  LoaderInv'
<1> DEFINE op == FlushedOp
           me == CtxId(op)
           old == CtxAfter(op)[me]
           c == [old EXCEPT !.streak = 0]
           ids == FlushedIds
           need == \E i \in DOMAIN ids : requests[ids[i]].deferred
           compute == need /\ ComputesKey(c)
           asked == IF need THEN Probed(c) ELSE c
           reqs == Keyed(ids, compute)
           IsHit(id) == reqs[id].key # NoKey /\ LruHas(lcache, reqs[id].key)
           hits == {id \in Elements(ids) : IsHit(id)}
           missed == Missed(ids, hits)
           fromCache == HitsAnswered(reqs, lcache, hits)
           touched == TouchAll(lcache, ids, reqs)
           results == PackedResult(missed, reqs)
           a == IF compute THEN Len(ids) ELSE 0
           h == Cardinality({id \in hits : reqs[id].deferred})
           c2 == [asked EXCEPT !.attempts = @ + a, !.hits = @ + h]
<1>1. /\ flushing # <<>> /\ flushing' = Tail(flushing)
      /\ options' = options /\ buffer' = buffer /\ micro' = micro /\ uncaught' = uncaught
      /\ current' = [current EXCEPT ![op] = me]
      /\ ctxs' = [CtxAfter(op) EXCEPT ![me] = c2]
  BY Zenon DEF FlushFast, FlushFrame
<1>2. /\ requests' = Answered(fromCache, missed, results, ok)
      /\ lcache' = IF ok THEN CacheAll(touched, missed, reqs, results) ELSE touched
  BY Zenon DEF FlushFast, HitsAnswered, Repacked
<1>3. /\ LoaderTypes /\ requests \in Seq(GoodRequests) /\ lcache \in GoodMaps(options.maxCacheKeys)
  BY Zenon DEF LoaderInv
<1>4. /\ op \in Ops /\ ids \in Seq(Nat) /\ Elements(ids) \subseteq DOMAIN requests
  BY <1>1, HeadBatch, Zenon
<1>5. options.maxCacheKeys \in Nat
  BY <1>3 DEF LoaderTypes, OptionType
<1>6. old \in CtxType
  BY <1>3, <1>4, CtxFor, Zenon
<1> HIDE DEF op, me, old, ids
<1>7. c \in CtxType /\ c.pending = old.pending
  BY <1>6 DEF CtxType
<1> HIDE DEF c
<1>8. compute \in BOOLEAN
  BY Zenon DEF ComputesKey
<1> HIDE DEF need, compute
<1>9. asked \in CtxType /\ asked.pending = old.pending
  BY <1>7, ProbedIn, Zenon
<1>10. a \in Int
  BY <1>4
<1>11. h \in Int
  <2> DEFINE T == {id \in hits : reqs[id].deferred}
  <2>1. T \in SUBSET Elements(ids)
    BY Zenon
  <2> HIDE DEF T
  <2>2. Cardinality(T) \in Nat
    BY <1>4, <2>1, ElementsFinite, Zenon
  <2>3. Cardinality(T) \in Int
    BY <2>2
  <2> QED BY <2>3, Zenon DEF T
<1> HIDE DEF asked, a, h
<1>12. c2 \in CtxType /\ c2.pending = old.pending
  BY <1>9, <1>10, <1>11, CountedIn, Zenon
<1> HIDE DEF c2
<1>13. SamePendings(ctxs') /\ current' \in [Ops -> 0 .. Len(ctxs')]
  BY <1>1, <1>3, <1>4, <1>12, CtxWritten, Zenon DEF me, old
<1>14. /\ reqs \in Seq(GoodRequests) /\ Len(reqs) = Len(requests) /\ DOMAIN reqs = DOMAIN requests
       /\ \A x \in DOMAIN requests : reqs[x].status = requests[x].status
  BY <1>3, <1>8, KeyedAre, Zenon
<1> HIDE DEF reqs
<1>15. /\ \A r \in hits : reqs[r].key # NoKey /\ LruHas(lcache, reqs[r].key)
       /\ lcache \in Seq(GoodEntries)
  BY <1>3, Zenon DEF GoodMaps
<1> HIDE DEF hits
<1>16. /\ fromCache \in Seq(GoodRequests) /\ Len(fromCache) = Len(reqs) /\ DOMAIN fromCache = DOMAIN reqs
       /\ \A r \in DOMAIN reqs :
             /\ fromCache[r].op = reqs[r].op /\ fromCache[r].input = reqs[r].input
             /\ fromCache[r].status = "pending" => r \notin hits /\ reqs[r].status = "pending"
  <2>1. \A r \in hits : r \in DOMAIN reqs => reqs[r].key # NoKey /\ LruHas(lcache, reqs[r].key)
    BY <1>15, Zenon
  <2>2. reqs \in Seq(GoodRequests) /\ lcache \in Seq(GoodEntries)
    BY <1>14, <1>15, Zenon
  <2> QED BY <2>1, <2>2, HitsGood
<1>17. missed \in Seq(Nat) /\ Elements(missed) = Elements(ids) \ hits
  BY <1>4, MissedAre, Zenon
<1> HIDE DEF fromCache, missed
<1>18. /\ requests' \in Seq(GoodRequests) /\ Len(requests') = Len(fromCache)
       /\ \A r \in DOMAIN fromCache : requests'[r].status = "pending" =>
             r \notin Elements(missed) /\ fromCache[r].status = "pending"
  <2>1. \A i \in DOMAIN missed : missed[i] \in DOMAIN fromCache =>
           results[i] = NativeValue(fromCache[missed[i]].op, fromCache[missed[i]].input)
    BY <1>16, Zenon DEF PackedResult
  <2> HIDE DEF results
  <2>2. fromCache \in Seq(GoodRequests) /\ missed \in Seq(Nat)
    BY <1>16, <1>17, Zenon
  <2>3. requests' = Answered(fromCache, missed, results, ok)
    BY <1>2, Zenon
  <2> QED BY <2>1, <2>2, <2>3, AnsweredGood
<1>19. \A r \in DOMAIN requests : requests'[r].status = "pending" =>
          r \notin Elements(ids) /\ requests[r].status = "pending"
  BY <1>14, <1>16, <1>17, <1>18, Zenon
<1>20. touched \in GoodMaps(options.maxCacheKeys)
  BY <1>3, <1>4, <1>5, TouchAllGood, Zenon
<1> HIDE DEF touched
<1>21. lcache' \in GoodMaps(options.maxCacheKeys)
  <2>1. Elements(missed) \subseteq DOMAIN reqs
    BY <1>4, <1>14, <1>17, Zenon
  <2>2. CacheAll(touched, missed, reqs, PackedResult(missed, reqs)) \in GoodMaps(options.maxCacheKeys)
    BY <1>5, <1>14, <1>17, <1>20, <2>1, CachedGood, Zenon
  <2> QED BY <1>2, <1>20, <2>2, Zenon
<1>22. Len(requests') = Len(requests)
  BY <1>14, <1>16, <1>18, Zenon
<1> QED BY <1>1, <1>13, <1>18, <1>19, <1>21, <1>22, FlushKept, Zenon DEF ids

-----------------------------------------------------------------------------
(* Microtasks.                                                             *)

\* The tail of a queue is the queue without its head.
LEMMA TailIs ==
    ASSUME NEW S, NEW q \in Seq(S), q # <<>>
    PROVE  /\ Tail(q) \in Seq(S) /\ Head(q) = q[1] /\ 1 \in DOMAIN q
           /\ \A i \in DOMAIN Tail(q) : i + 1 \in DOMAIN q /\ Tail(q)[i] = q[i + 1]
           /\ \A i \in DOMAIN q : i = 1 \/ (i - 1 \in DOMAIN Tail(q) /\ Tail(q)[i - 1] = q[i])
OBVIOUS

\* The tick's microtask takes the buffer as its snapshot.
LEMMA FlushTickInv == ASSUME LoaderInv, FlushTick PROVE LoaderInv'
<1>0. /\ LoaderTypes /\ LoaderRefs /\ LoaderWoken /\ LoaderPlaced /\ requests \in Seq(GoodRequests)
      /\ lcache \in GoodMaps(options.maxCacheKeys) /\ micro \in Seq(Microtask)
  BY Zenon DEF LoaderInv, LoaderTypes
<1>1. /\ flushing = <<>> /\ micro # <<>> /\ Head(micro).kind = "flush"
      /\ micro' = Tail(micro) /\ flushing' = buffer /\ buffer' = <<>>
      /\ options' = options /\ ctxs' = ctxs /\ current' = current /\ lcache' = lcache
      /\ requests' = requests /\ uncaught' = uncaught
  BY Zenon DEF FlushTick
<1>2. /\ Tail(micro) \in Seq(Microtask) /\ Head(micro) = micro[1]
      /\ \A i \in DOMAIN Tail(micro) : i + 1 \in DOMAIN micro /\ Tail(micro)[i] = micro[i + 1]
      /\ \A i \in DOMAIN micro : i = 1 \/ (i - 1 \in DOMAIN Tail(micro) /\ Tail(micro)[i - 1] = micro[i])
  BY <1>0, <1>1, TailIs, Zenon
<1>3. <<>> \in Seq(Batch) /\ IdsWithin(<<>>, Len(requests)) /\ \A r : ~InBatches(<<>>, r)
  BY DEF IdsWithin, InBatches
<1>4. LoaderTypes'
  BY <1>0, <1>1, <1>2, <1>3, Zenon DEF LoaderTypes
<1>5. LoaderRefs'
  <2>1. \A i \in DOMAIN Tail(micro) : Tail(micro)[i].kind = "single" => Tail(micro)[i].ctx \in DOMAIN ctxs
    BY <1>0, <1>2, Zenon DEF LoaderRefs
  <2> QED BY <1>0, <1>1, <1>3, <2>1, Zenon DEF LoaderRefs
<1>6. LoaderWoken'
  <2>1. ASSUME NEW c \in DOMAIN ctxs, ctxs[c].pending # 0
        PROVE  \E i \in DOMAIN Tail(micro) : Tail(micro)[i].kind = "single" /\ Tail(micro)[i].ctx = c
    <3>1. PICK i \in DOMAIN micro : micro[i].kind = "single" /\ micro[i].ctx = c
      BY <1>0, <2>1, Zenon DEF LoaderWoken
    <3>2. i # 1
      BY <1>1, <1>2, <3>1
    <3> QED BY <1>2, <3>1, <3>2, Zenon
  <2> QED BY <1>1, <2>1, Zenon DEF LoaderWoken
<1>7. LoaderPlaced'
  <2>1. ASSUME NEW r, Placed(r) PROVE Placed(r)'
    BY <1>1, <1>3, <2>1, Zenon DEF Placed, InBatches
  <2> QED BY <1>0, <1>1, <2>1, Zenon DEF LoaderPlaced
<1> QED BY <1>0, <1>1, <1>4, <1>5, <1>6, <1>7, Zenon DEF LoaderInv

\* The microtask of a single dispatch answers the request its context waits for,
\* if a second call has not moved it to the buffer.
LEMMA FlushSingleInv ==
    ASSUME LoaderInv, NEW ok \in BOOLEAN, FlushSingle(ok)
    PROVE  LoaderInv'
<1> DEFINE m == Head(micro)
           c == ctxs[m.ctx]
           p == c.pending
           results == PackedResult(<<p>>, requests)
<1>0. /\ LoaderTypes /\ LoaderRefs /\ LoaderWoken /\ LoaderPlaced /\ requests \in Seq(GoodRequests)
      /\ lcache \in GoodMaps(options.maxCacheKeys) /\ micro \in Seq(Microtask) /\ ctxs \in Seq(CtxType)
  BY Zenon DEF LoaderInv, LoaderTypes
<1>1. /\ flushing = <<>> /\ micro # <<>> /\ m.kind = "single"
      /\ micro' = Tail(micro) /\ options' = options /\ current' = current /\ buffer' = buffer
      /\ flushing' = flushing /\ uncaught' = uncaught
      /\ \/ p = 0 /\ ctxs' = ctxs /\ lcache' = lcache /\ requests' = requests
         \/ /\ p # 0
            /\ ctxs' = [ctxs EXCEPT ![m.ctx] = [c EXCEPT !.pending = 0]]
            /\ requests' = Answered(requests, <<p>>, results, ok)
            /\ lcache' = IF ok THEN CacheAll(lcache, <<p>>, requests, results) ELSE lcache
  BY Zenon DEF FlushSingle
<1>2. /\ Tail(micro) \in Seq(Microtask) /\ Head(micro) = micro[1] /\ 1 \in DOMAIN micro
      /\ \A i \in DOMAIN Tail(micro) : i + 1 \in DOMAIN micro /\ Tail(micro)[i] = micro[i + 1]
      /\ \A i \in DOMAIN micro : i = 1 \/ (i - 1 \in DOMAIN Tail(micro) /\ Tail(micro)[i - 1] = micro[i])
  BY <1>0, <1>1, TailIs, Zenon
<1>3. m.ctx \in DOMAIN ctxs
  BY <1>0, <1>1, <1>2, Zenon DEF LoaderRefs
<1>4. c \in CtxType /\ p \in 0 .. Len(requests) /\ Len(requests) \in Nat /\ DOMAIN requests = 1 .. Len(requests)
  BY <1>0, <1>3 DEF LoaderRefs
<1>5. options.maxCacheKeys \in Nat
  BY <1>0 DEF LoaderTypes, OptionType
<1> HIDE DEF c, p
\* The contexts, the requests and the cache after it.
<1>6. /\ ctxs' \in Seq(CtxType) /\ Len(ctxs') = Len(ctxs) /\ DOMAIN ctxs' = DOMAIN ctxs
      /\ \A d \in DOMAIN ctxs : ctxs'[d].pending = IF d = m.ctx THEN 0 ELSE ctxs[d].pending
      /\ requests' \in Seq(GoodRequests) /\ Len(requests') = Len(requests)
      /\ \A r \in DOMAIN requests : requests'[r].status = "pending" => r # p /\ requests[r].status = "pending"
      /\ lcache' \in GoodMaps(options.maxCacheKeys)
  <2>1. CASE p = 0 /\ ctxs' = ctxs /\ lcache' = lcache /\ requests' = requests
    <3>1. \A d \in DOMAIN ctxs : ctxs'[d].pending = IF d = m.ctx THEN 0 ELSE ctxs[d].pending
      BY <2>1, Zenon DEF c, p
    <3>2. \A r \in DOMAIN requests : r # p
      BY <1>4, <2>1
    <3> QED BY <1>0, <2>1, <3>1, <3>2, Zenon
  <2>2. CASE /\ p # 0
             /\ ctxs' = [ctxs EXCEPT ![m.ctx] = [c EXCEPT !.pending = 0]]
             /\ requests' = Answered(requests, <<p>>, results, ok)
             /\ lcache' = IF ok THEN CacheAll(lcache, <<p>>, requests, results) ELSE lcache
    <3> DEFINE c2 == [c EXCEPT !.pending = 0]
    <3>1. c2 \in CtxType /\ c2.pending = 0
      BY <1>4 DEF CtxType
    <3> HIDE DEF c2, m
    <3>2. /\ ctxs' \in Seq(CtxType) /\ Len(ctxs') = Len(ctxs) /\ DOMAIN ctxs' = DOMAIN ctxs
          /\ \A d \in DOMAIN ctxs : ctxs'[d] = IF d = m.ctx THEN c2 ELSE ctxs[d]
      <4>1. ctxs' = [ctxs EXCEPT ![m.ctx] = c2]
        BY <2>2, Zenon DEF c2
      <4> QED BY <1>0, <1>3, <3>1, <4>1
    <3>3. <<p>> \in Seq(Nat) /\ Elements(<<p>>) = {p} /\ p \in DOMAIN requests
      BY <1>4, <2>2 DEF Elements
    <3>4. /\ requests' \in Seq(GoodRequests) /\ Len(requests') = Len(requests)
          /\ \A r \in DOMAIN requests : requests'[r].status = "pending" =>
                r \notin Elements(<<p>>) /\ requests[r].status = "pending"
      BY <1>0, <2>2, <3>3, PackedAnswers, Zenon
    <3>5. lcache' \in GoodMaps(options.maxCacheKeys)
      <4>1. Elements(<<p>>) \subseteq DOMAIN requests
        BY <3>3, Zenon
      <4>2. CacheAll(lcache, <<p>>, requests, PackedResult(<<p>>, requests)) \in GoodMaps(options.maxCacheKeys)
        BY <1>0, <1>5, <3>3, <4>1, CachedGood, Zenon
      <4> QED BY <1>0, <2>2, <4>2, Zenon
    <3>6. \A d \in DOMAIN ctxs : ctxs'[d].pending = IF d = m.ctx THEN 0 ELSE ctxs[d].pending
      BY <3>1, <3>2, Zenon
    <3> QED BY <3>2, <3>3, <3>4, <3>5, <3>6, Zenon
  <2> QED BY <1>1, <2>1, <2>2, Zenon
<1>7. LoaderTypes'
  BY <1>0, <1>1, <1>2, <1>6, Zenon DEF LoaderTypes
<1>8. LoaderRefs'
  <2>1. \A i \in DOMAIN Tail(micro) : Tail(micro)[i].kind = "single" => Tail(micro)[i].ctx \in DOMAIN ctxs
    BY <1>0, <1>2, Zenon DEF LoaderRefs
  <2>2. \A d \in DOMAIN ctxs : ctxs'[d].pending \in 0 .. Len(requests)
    <3>1. 0 \in 0 .. Len(requests)
      BY <1>4
    <3> QED BY <1>0, <1>6, <3>1, Zenon DEF LoaderRefs
  <2> QED BY <1>0, <1>1, <1>6, <2>1, <2>2, Zenon DEF LoaderRefs
<1>9. LoaderWoken'
  <2>1. ASSUME NEW d \in DOMAIN ctxs, ctxs'[d].pending # 0
        PROVE  \E i \in DOMAIN Tail(micro) : Tail(micro)[i].kind = "single" /\ Tail(micro)[i].ctx = d
    <3>1. d # m.ctx /\ ctxs[d].pending # 0
      BY <1>6, <2>1, Zenon
    <3>2. PICK i \in DOMAIN micro : micro[i].kind = "single" /\ micro[i].ctx = d
      BY <1>0, <3>1, Zenon DEF LoaderWoken
    <3>3. i # 1
      BY <1>2, <3>1, <3>2, Zenon
    <3> QED BY <1>2, <3>2, <3>3, Zenon
  <2>2. ASSUME buffer # <<>> PROVE \E i \in DOMAIN Tail(micro) : Tail(micro)[i].kind = "flush"
    <3>1. PICK i \in DOMAIN micro : micro[i].kind = "flush"
      BY <1>0, <2>2, Zenon DEF LoaderWoken
    <3>2. i # 1
      BY <1>1, <1>2, <3>1
    <3> QED BY <1>2, <3>1, <3>2, Zenon
  <2> QED BY <1>1, <1>6, <2>1, <2>2, Zenon DEF LoaderWoken
<1>10. LoaderPlaced'
  <2>1. ASSUME NEW r, Placed(r), r # p PROVE Placed(r)'
    <3>1. CASE InBatches(buffer, r) \/ InBatches(flushing, r)
      BY <1>1, <3>1, Zenon DEF Placed
    <3>2. CASE \E d \in DOMAIN ctxs : ctxs[d].pending = r
      <4>1. PICK d \in DOMAIN ctxs : ctxs[d].pending = r
        BY <3>2, Zenon
      <4>2. d # m.ctx
        BY <2>1, <4>1, Zenon DEF p, c
      <4> QED BY <1>6, <4>1, <4>2, Zenon DEF Placed
    <3> QED BY <2>1, <3>1, <3>2, Zenon DEF Placed
  <2>2. DOMAIN requests' = DOMAIN requests
    BY <1>0, <1>6
  <2> QED BY <1>0, <1>1, <1>6, <2>1, <2>2, Zenon DEF LoaderPlaced
<1> QED BY <1>1, <1>6, <1>7, <1>8, <1>9, <1>10, Zenon DEF LoaderInv

-----------------------------------------------------------------------------
(* load().                                                                 *)

\* A request joins the buffered batch of its op, or a new one.
LEMMA EnqueuedIs ==
    ASSUME NEW buf \in Seq(Batch), NEW op \in Ops, NEW id \in Nat
    PROVE  /\ Enqueued(buf, op, id) \in Seq(Batch)
           /\ \A r : InBatches(Enqueued(buf, op, id), r) <=> InBatches(buf, r) \/ r = id
<1> DEFINE new == Enqueued(buf, op, id)
<1>0. DOMAIN buf = 1 .. Len(buf) /\ Len(buf) \in Nat /\ \A i \in DOMAIN buf : buf[i] \in Batch
  OBVIOUS
<1>1. CASE op \in {buf[i].op : i \in DOMAIN buf}
  <2> DEFINE Joined(i) == IF buf[i].op = op THEN [buf[i] EXCEPT !.ids = Append(@, id)] ELSE buf[i]
  <2>1. new = [i \in DOMAIN buf |-> Joined(i)]
    BY <1>1, Zenon DEF Enqueued
  <2>2. ASSUME NEW i \in DOMAIN buf
        PROVE  /\ Joined(i) \in Batch
               /\ Elements(Joined(i).ids) = IF buf[i].op = op THEN Elements(buf[i].ids) \cup {id}
                                            ELSE Elements(buf[i].ids)
    <3>1. buf[i] \in Batch /\ buf[i].ids \in Seq(Nat)
      BY <1>0 DEF Batch
    <3>2. Append(buf[i].ids, id) \in Seq(Nat)
      BY <3>1
    <3>3. Elements(Append(buf[i].ids, id)) = Elements(buf[i].ids) \cup {id}
      BY <3>1, AppendElements, Zenon
    <3>4. CASE buf[i].op = op
      <4>1. Joined(i) = [buf[i] EXCEPT !.ids = Append(buf[i].ids, id)]
        BY <3>4, Zenon
      <4> HIDE DEF Joined
      <4>2. Joined(i) \in Batch /\ Joined(i).ids = Append(buf[i].ids, id)
        BY <3>1, <3>2, <4>1, Zenon DEF Batch
      <4> QED BY <3>3, <3>4, <4>2, Zenon
    <3>5. CASE buf[i].op # op
      BY <3>1, <3>5, Zenon
    <3> QED BY <3>4, <3>5, Zenon
  <2> HIDE DEF Joined
  <2>3. new \in [1 .. Len(buf) -> Batch] /\ \A i \in DOMAIN buf : new[i] = Joined(i)
    BY <1>0, <2>1, <2>2, Zenon
  <2>4. new \in Seq(Batch) /\ DOMAIN new = DOMAIN buf
    <3> HIDE DEF new
    <3> QED BY <1>0, <2>3
  <2>5. PICK j \in DOMAIN buf : buf[j].op = op
    BY <1>1, Zenon
  <2> HIDE DEF new
  <2>6. ASSUME NEW r PROVE InBatches(new, r) <=> InBatches(buf, r) \/ r = id
    <3>1. ASSUME InBatches(new, r) PROVE InBatches(buf, r) \/ r = id
      <4>1. PICK i \in DOMAIN buf : r \in Elements(Joined(i).ids)
        BY <2>3, <2>4, <3>1, Zenon DEF InBatches
      <4> QED BY <2>2, <4>1, Zenon DEF InBatches
    <3>2. ASSUME InBatches(buf, r) PROVE InBatches(new, r)
      <4>1. PICK i \in DOMAIN buf : r \in Elements(buf[i].ids)
        BY <3>2, Zenon DEF InBatches
      <4>2. r \in Elements(Joined(i).ids)
        BY <2>2, <4>1, Zenon
      <4> QED BY <2>3, <2>4, <4>2, Zenon DEF InBatches
    <3>3. InBatches(new, id)
      <4>1. id \in Elements(Joined(j).ids)
        BY <2>2, <2>5, Zenon
      <4> QED BY <2>3, <2>4, <4>1, Zenon DEF InBatches
    <3> QED BY <3>1, <3>2, <3>3, Zenon
  <2> QED BY <2>4, <2>6, Zenon DEF new
<1>2. CASE op \notin {buf[i].op : i \in DOMAIN buf}
  <2> DEFINE b == [op |-> op, ids |-> <<id>>]
  <2>1. new = Append(buf, b)
    BY <1>2, Zenon DEF Enqueued
  <2>2. b \in Batch /\ Elements(b.ids) = {id}
    BY DEF Batch, Elements
  <2> HIDE DEF b, new
  <2>3. /\ new \in Seq(Batch) /\ DOMAIN new = 1 .. Len(buf) + 1 /\ new[Len(buf) + 1] = b
        /\ \A i \in 1 .. Len(buf) : new[i] = buf[i]
    BY <2>1, <2>2
  <2>4. DOMAIN new = DOMAIN buf \cup {Len(buf) + 1}
    BY <1>0, <2>3
  <2>5. ASSUME NEW r PROVE InBatches(new, r) <=> InBatches(buf, r) \/ r = id
    BY <1>0, <2>2, <2>3, <2>4, Zenon DEF InBatches
  <2> QED BY <2>3, <2>5, Zenon DEF new
<1> QED BY <1>1, <1>2, Zenon

\* There is a flush microtask, and the others are still there.
LEMMA ScheduledIs ==
    ASSUME NEW queue \in Seq(Microtask), Ops # {}
    PROVE  /\ Scheduled(queue) \in Seq(Microtask)
           /\ \E i \in DOMAIN Scheduled(queue) : Scheduled(queue)[i].kind = "flush"
           /\ \A i \in DOMAIN queue : i \in DOMAIN Scheduled(queue) /\ Scheduled(queue)[i] = queue[i]
           /\ \A i \in DOMAIN Scheduled(queue) : Scheduled(queue)[i].kind = "single" =>
                 i \in DOMAIN queue /\ Scheduled(queue)[i] = queue[i]
<1>1. CASE \E i \in DOMAIN queue : queue[i].kind = "flush"
  BY <1>1, Zenon DEF Scheduled
<1>2. CASE ~\E i \in DOMAIN queue : queue[i].kind = "flush"
  <2> DEFINE t == [kind |-> "flush", ctx |-> 0, op |-> CHOOSE op \in Ops : TRUE]
  <2>1. Scheduled(queue) = Append(queue, t)
    BY <1>2, Zenon DEF Scheduled
  <2>2. (CHOOSE op \in Ops : TRUE) \in Ops
    BY Zenon
  <2>3. t \in Microtask /\ t.kind = "flush"
    BY <2>2 DEF Microtask
  <2> HIDE DEF t
  <2>4. /\ Append(queue, t) \in Seq(Microtask) /\ DOMAIN queue = 1 .. Len(queue) /\ Len(queue) \in Nat
        /\ DOMAIN Append(queue, t) = 1 .. Len(queue) + 1
        /\ Append(queue, t)[Len(queue) + 1] = t
        /\ \A i \in DOMAIN queue : Append(queue, t)[i] = queue[i]
    BY <2>3
  <2>5. DOMAIN Append(queue, t) = DOMAIN queue \cup {Len(queue) + 1}
    BY <2>4
  <2>6. "single" # "flush"
    OBVIOUS
  <2> QED BY <2>1, <2>3, <2>4, <2>5, <2>6, Zenon
<1> QED BY <1>1, <1>2, Zenon

\* `new` is the contexts with c2 written back as the one of op.
CtxPutIs(new, op, c2) ==
    /\ new \in Seq(CtxType)
    /\ CtxId(op) \in DOMAIN new /\ new[CtxId(op)] = c2 /\ CtxId(op) \in Nat
    /\ [current EXCEPT ![op] = CtxId(op)] \in [Ops -> 0 .. Len(new)]
    /\ \A d \in DOMAIN ctxs : d \in DOMAIN new /\ (d # CtxId(op) => new[d].pending = ctxs[d].pending)
    /\ \A d \in DOMAIN new : d # CtxId(op) /\ new[d].pending # 0 =>
          d \in DOMAIN ctxs /\ new[d].pending = ctxs[d].pending
    /\ \A d \in DOMAIN ctxs : d = CtxId(op) =>
          CtxAfter(op)[CtxId(op)].pending = ctxs[d].pending
    /\ CtxAfter(op)[CtxId(op)].pending # 0 =>
          CtxId(op) \in DOMAIN ctxs /\ CtxAfter(op)[CtxId(op)].pending = ctxs[CtxId(op)].pending

\* The contexts with any other one written back.
LEMMA CtxPut ==
    ASSUME LoaderTypes, NEW op \in Ops, NEW c2 \in CtxType, NEW new,
           new = [CtxAfter(op) EXCEPT ![CtxId(op)] = c2]
    PROVE  CtxPutIs(new, op, c2)
<1> DEFINE after == CtxAfter(op)
           me == CtxId(op)
<1>1. /\ after \in Seq(CtxType) /\ Len(ctxs) <= Len(after) /\ me \in 1 .. Len(after)
      /\ \A c \in 1 .. Len(ctxs) : after[c] = ctxs[c]
      /\ \A c \in 1 .. Len(after) : c > Len(ctxs) => after[c].pending = 0
  BY CtxFor
<1>2. ctxs \in Seq(CtxType) /\ current \in [Ops -> 0 .. Len(ctxs)]
  BY DEF LoaderTypes
<1>3. new = [after EXCEPT ![me] = c2]
  BY Zenon
<1> HIDE DEF after, me
<1>4. /\ new \in Seq(CtxType) /\ Len(new) = Len(after) /\ DOMAIN new = 1 .. Len(after)
      /\ \A c \in 1 .. Len(after) : new[c] = IF c = me THEN c2 ELSE after[c]
  <2> DEFINE w == [after EXCEPT ![me] = c2]
  <2>1. /\ w \in Seq(CtxType) /\ Len(w) = Len(after) /\ DOMAIN w = 1 .. Len(after)
        /\ \A c \in 1 .. Len(after) : w[c] = IF c = me THEN c2 ELSE after[c]
    BY <1>1
  <2>2. new = w
    BY <1>3, Zenon
  <2> HIDE DEF w
  <2> QED BY <2>1, <2>2, Zenon
<1>5. /\ DOMAIN ctxs = 1 .. Len(ctxs) /\ Len(ctxs) \in Nat /\ Len(after) \in Nat /\ me \in Nat
  BY <1>1, <1>2
<1>6. [current EXCEPT ![op] = me] \in [Ops -> 0 .. Len(new)]
  BY <1>1, <1>2, <1>4, <1>5, SMTT(30)
<1>7. ASSUME NEW d \in DOMAIN ctxs
      PROVE  /\ d \in DOMAIN new /\ after[d] = ctxs[d] /\ (d # me => new[d].pending = ctxs[d].pending)
  BY <1>1, <1>4, <1>5
<1>8. ASSUME NEW d \in 1 .. Len(after), after[d].pending # 0 PROVE d \in DOMAIN ctxs
  BY <1>1, <1>5, <1>8
<1>9. ASSUME NEW d \in DOMAIN new, d # me, new[d].pending # 0
      PROVE  d \in DOMAIN ctxs /\ new[d].pending = ctxs[d].pending
  <2>1. d \in 1 .. Len(after) /\ new[d] = after[d]
    BY <1>4, <1>9
  <2>2. d \in DOMAIN ctxs
    BY <1>8, <1>9, <2>1
  <2> QED BY <1>7, <2>1, <2>2, Zenon
<1> QED BY <1>1, <1>4, <1>5, <1>6, <1>7, <1>8, <1>9, Zenon DEF after, me, CtxPutIs

\* A request is made, and what waited waits still.
LEMMA LoadKept ==
    ASSUME LoaderInv, NEW q \in GoodRequests, requests' = Append(requests, q),
           NEW id, id = Len(requests) + 1,
           options' = options, flushing' = flushing, uncaught' = uncaught,
           lcache' \in GoodMaps(options.maxCacheKeys),
           ctxs' \in Seq(CtxType), current' \in [Ops -> 0 .. Len(ctxs')],
           buffer' \in Seq(Batch), micro' \in Seq(Microtask),
           \A r : InBatches(buffer', r) => InBatches(buffer, r) \/ r \in 1 .. Len(requests) + 1,
           \A d \in DOMAIN ctxs' : ctxs'[d].pending \in 0 .. Len(requests) + 1,
           \A i \in DOMAIN micro' : micro'[i].kind = "single" => micro'[i].ctx \in DOMAIN ctxs',
           LoaderWoken',
           \A r \in 1 .. Len(requests) : Placed(r) => Placed(r)',
           q.status = "pending" => Placed(id)'
    PROVE  LoaderInv'
<1> DEFINE n == Len(requests)
<1>0. /\ LoaderTypes /\ LoaderRefs /\ LoaderPlaced /\ requests \in Seq(GoodRequests)
  BY Zenon DEF LoaderInv
<1>1. /\ requests' \in Seq(GoodRequests) /\ Len(requests') = n + 1 /\ n \in Nat
      /\ DOMAIN requests = 1 .. n /\ DOMAIN requests' = 1 .. n + 1
      /\ requests'[n + 1] = q /\ \A r \in 1 .. n : requests'[r] = requests[r]
  BY <1>0
<1>2. LoaderTypes'
  BY <1>0, Zenon DEF LoaderTypes
<1> HIDE DEF n
<1>3. \A x \in 1 .. n : x \in 1 .. n + 1
  BY <1>1
<1>4. LoaderRefs'
  <2>1. IdsWithin(buffer', n + 1)
    <3>1. \A r : InBatches(buffer, r) => r \in 1 .. n
      BY <1>0, Zenon DEF LoaderRefs, IdsWithin, InBatches, n
    <3>2. \A r : InBatches(buffer', r) => r \in 1 .. n + 1
      BY <1>3, <3>1, Zenon DEF n
    <3> QED BY <3>2, Zenon DEF IdsWithin, InBatches
  <2>2. IdsWithin(flushing, n + 1)
    BY <1>0, <1>3, Zenon DEF LoaderRefs, IdsWithin, n
  <2>3. \A d \in DOMAIN ctxs' : ctxs'[d].pending \in 0 .. n + 1
    BY Zenon DEF n
  <2> QED BY <1>1, <2>1, <2>2, <2>3, Zenon DEF LoaderRefs
<1>5. LoaderPlaced'
  <2> SUFFICES ASSUME ~uncaught, NEW r \in 1 .. n + 1, requests'[r].status = "pending"
               PROVE  Placed(r)'
    BY <1>1, Zenon DEF LoaderPlaced
  <2>1. r \in 1 .. n \/ r = n + 1
    BY <1>1
  <2>2. CASE r \in 1 .. n
    BY <1>0, <1>1, <2>2, Zenon DEF LoaderPlaced, n
  <2>3. CASE r = n + 1
    <3>1. r = id /\ q.status = "pending"
      BY <1>1, <2>3, Zenon DEF n
    <3> QED BY <3>1, Zenon
  <2> QED BY <2>1, <2>2, <2>3
<1> QED BY <1>1, <1>2, <1>4, <1>5, Zenon DEF LoaderInv

\* The promise is handed to its op's context or to the buffer, with a microtask
\* that takes it up.
LEMMA DispatchKept ==
    ASSUME LoaderInv, NEW op \in Ops, NEW id, id = Len(requests) + 1, NEW c \in CtxType,
           c.pending = CtxAfter(op)[CtxId(op)].pending, Dispatch(op, id, c),
           flushing' = flushing
    PROVE  /\ ctxs' \in Seq(CtxType) /\ [current EXCEPT ![op] = CtxId(op)] \in [Ops -> 0 .. Len(ctxs')]
           /\ buffer' \in Seq(Batch) /\ micro' \in Seq(Microtask)
           /\ \A r : InBatches(buffer', r) => InBatches(buffer, r) \/ r \in 1 .. Len(requests) + 1
           /\ \A d \in DOMAIN ctxs' : ctxs'[d].pending \in 0 .. Len(requests) + 1
           /\ \A i \in DOMAIN micro' : micro'[i].kind = "single" => micro'[i].ctx \in DOMAIN ctxs'
           /\ LoaderWoken'
           /\ \A r \in 1 .. Len(requests) : Placed(r) => Placed(r)'
           /\ Placed(id)'
<1> DEFINE me == CtxId(op)
           n == Len(requests)
<1>0. /\ LoaderTypes /\ LoaderRefs /\ LoaderWoken /\ requests \in Seq(GoodRequests)
      /\ buffer \in Seq(Batch) /\ micro \in Seq(Microtask)
  BY Zenon DEF LoaderInv, LoaderTypes
<1>t. LoaderTypes
  BY <1>0, Zenon
<1>b. buffer \in Seq(Batch)
  BY <1>0, Zenon
<1>w. \A d \in DOMAIN ctxs : ctxs[d].pending # 0 =>
         \E i \in DOMAIN micro : micro[i].kind = "single" /\ micro[i].ctx = d
  BY <1>0, Zenon DEF LoaderWoken
<1>1. n \in Nat /\ id = n + 1
  BY <1>0
<1>2. \A d \in DOMAIN ctxs : ctxs[d].pending \in 0 .. n
  BY <1>0, Zenon DEF LoaderRefs
<1> HIDE DEF n
<1>3. /\ 0 \in 0 .. n + 1 /\ id \in 1 .. n + 1 /\ id \in 0 .. n + 1 /\ id # 0 /\ id \in Nat
      /\ \A x \in 0 .. n : x \in 0 .. n + 1 /\ (x # 0 => x \in 1 .. n + 1)
      /\ \A r \in 1 .. n : r # 0
  BY <1>1
<1>4. Ops # {}
  OBVIOUS
<1>5. /\ Scheduled(micro) \in Seq(Microtask)
      /\ \E i \in DOMAIN Scheduled(micro) : Scheduled(micro)[i].kind = "flush"
      /\ \A i \in DOMAIN micro : i \in DOMAIN Scheduled(micro) /\ Scheduled(micro)[i] = micro[i]
      /\ \A i \in DOMAIN Scheduled(micro) : Scheduled(micro)[i].kind = "single" =>
            i \in DOMAIN micro /\ Scheduled(micro)[i] = micro[i]
  BY <1>0, <1>4, ScheduledIs, Zenon
<1>6. CASE /\ c.pending = 0
           /\ ctxs' = [CtxAfter(op) EXCEPT ![me] = [c EXCEPT !.pending = id]]
           /\ micro' = Append(micro, [kind |-> "single", ctx |-> me, op |-> op])
           /\ buffer' = buffer
  <2> DEFINE c2 == [c EXCEPT !.pending = id]
             t == [kind |-> "single", ctx |-> me, op |-> op]
  <2>1. c2 \in CtxType /\ c2.pending = id
    BY <1>3, Zenon DEF CtxType
  <2>2. ctxs' = [CtxAfter(op) EXCEPT ![me] = c2] /\ micro' = Append(micro, t) /\ buffer' = buffer
    BY <1>6, Zenon
  <2> HIDE DEF c2
  <2>3. /\ ctxs' \in Seq(CtxType) /\ me \in DOMAIN ctxs' /\ ctxs'[me] = c2 /\ me \in Nat
        /\ [current EXCEPT ![op] = me] \in [Ops -> 0 .. Len(ctxs')]
        /\ \A d \in DOMAIN ctxs : d \in DOMAIN ctxs' /\ (d # me => ctxs'[d].pending = ctxs[d].pending)
        /\ \A d \in DOMAIN ctxs' : d # me /\ ctxs'[d].pending # 0 =>
              d \in DOMAIN ctxs /\ ctxs'[d].pending = ctxs[d].pending
        /\ \A d \in DOMAIN ctxs : d = me => c.pending = ctxs[d].pending
    <3>1. CtxPutIs([CtxAfter(op) EXCEPT ![CtxId(op)] = c2], op, c2)
      BY <1>t, <2>1, CtxPut, Zenon
    <3>2. CtxPutIs(ctxs', op, c2)
      BY <2>2, <3>1, Zenon
    <3> QED BY <3>2, Zenon DEF CtxPutIs
  <2>4. t \in Microtask /\ t.kind = "single" /\ t.ctx = me
    BY <2>3, SMTT(30) DEF Microtask
  <2> HIDE DEF t, me
  <2>5. /\ micro' \in Seq(Microtask) /\ DOMAIN micro' = 1 .. Len(micro) + 1 /\ DOMAIN micro = 1 .. Len(micro)
        /\ Len(micro) \in Nat
        /\ micro'[Len(micro) + 1] = t /\ \A i \in DOMAIN micro : micro'[i] = micro[i]
    BY <1>0, <2>2, <2>4, SMTT(30)
  <2>6. DOMAIN micro' = DOMAIN micro \cup {Len(micro) + 1}
    BY <2>5
  <2>7. \A d \in DOMAIN ctxs' : ctxs'[d].pending \in 0 .. n + 1
    BY <1>2, <1>3, <2>1, <2>3, Zenon
  <2>8. \A i \in DOMAIN micro' : micro'[i].kind = "single" => micro'[i].ctx \in DOMAIN ctxs'
    BY <1>0, <2>3, <2>4, <2>5, <2>6, Zenon DEF LoaderRefs
  <2>9. LoaderWoken'
    <3>1. ASSUME buffer' # <<>> PROVE \E i \in DOMAIN micro' : micro'[i].kind = "flush"
      BY <1>0, <2>2, <2>5, <2>6, <3>1, Zenon DEF LoaderWoken
    <3>2. ASSUME NEW d \in DOMAIN ctxs', ctxs'[d].pending # 0
          PROVE  \E i \in DOMAIN micro' : micro'[i].kind = "single" /\ micro'[i].ctx = d
      <4>1. CASE d = me
        BY <2>4, <2>5, <2>6, <4>1, Zenon
      <4>2. CASE d # me
        <5>1. d \in DOMAIN ctxs /\ ctxs[d].pending # 0
          BY <2>3, <3>2, <4>2, Zenon
        <5> QED BY <1>w, <2>5, <2>6, <5>1, Zenon
      <4> QED BY <4>1, <4>2
    <3> QED BY <3>1, <3>2, Zenon DEF LoaderWoken
  <2>10. ASSUME NEW r \in 1 .. n, Placed(r) PROVE Placed(r)'
    <3>1. CASE InBatches(buffer, r) \/ InBatches(flushing, r)
      BY <2>2, <3>1, Zenon DEF Placed
    <3>2. CASE \E d \in DOMAIN ctxs : ctxs[d].pending = r
      <4>1. PICK d \in DOMAIN ctxs : ctxs[d].pending = r
        BY <3>2, Zenon
      <4>2. d # me
        BY <1>3, <1>6, <2>3, <4>1, Zenon
      <4> QED BY <2>3, <4>1, <4>2, Zenon DEF Placed
    <3> QED BY <2>10, <3>1, <3>2, Zenon DEF Placed
  <2>11. Placed(id)'
    BY <2>1, <2>3, Zenon DEF Placed
  <2>12. \A r : InBatches(buffer', r) => InBatches(buffer, r)
    BY <2>2, Zenon
  <2>13. buffer' \in Seq(Batch)
    BY <1>b, <2>2, Zenon
  <2> QED BY <2>3, <2>5, <2>7, <2>8, <2>9, <2>10, <2>11, <2>12, <2>13, Zenon DEF me, n
<1>7. CASE /\ c.pending # 0
           /\ ctxs' = [CtxAfter(op) EXCEPT ![me] = [c EXCEPT !.mode = "coalesce", !.pending = 0]]
           /\ buffer' = Enqueued(Enqueued(buffer, op, c.pending), op, id)
           /\ micro' = Scheduled(micro)
  <2> DEFINE c2 == [c EXCEPT !.mode = "coalesce", !.pending = 0]
             first == Enqueued(buffer, op, c.pending)
  <2>1. c2 \in CtxType /\ c2.pending = 0 /\ c.pending \in Nat
    <3>1. 0 \in Nat
      OBVIOUS
    <3> QED BY <3>1, Zenon DEF CtxType
  <2>2. ctxs' = [CtxAfter(op) EXCEPT ![me] = c2] /\ buffer' = Enqueued(first, op, id)
    BY <1>7, Zenon
  <2> HIDE DEF c2
  <2>3. /\ ctxs' \in Seq(CtxType) /\ me \in DOMAIN ctxs' /\ ctxs'[me] = c2
        /\ [current EXCEPT ![op] = me] \in [Ops -> 0 .. Len(ctxs')]
        /\ \A d \in DOMAIN ctxs : d \in DOMAIN ctxs' /\ (d # me => ctxs'[d].pending = ctxs[d].pending)
        /\ \A d \in DOMAIN ctxs' : d # me /\ ctxs'[d].pending # 0 =>
              d \in DOMAIN ctxs /\ ctxs'[d].pending = ctxs[d].pending
        /\ \A d \in DOMAIN ctxs : d = me => c.pending = ctxs[d].pending
        /\ c.pending # 0 => me \in DOMAIN ctxs /\ c.pending = ctxs[me].pending
    <3>1. CtxPutIs([CtxAfter(op) EXCEPT ![CtxId(op)] = c2], op, c2)
      BY <1>t, <2>1, CtxPut, Zenon
    <3>2. CtxPutIs(ctxs', op, c2)
      BY <2>2, <3>1, Zenon
    <3> QED BY <3>2, Zenon DEF CtxPutIs
  <2>4. first \in Seq(Batch) /\ \A r : InBatches(first, r) <=> InBatches(buffer, r) \/ r = c.pending
    BY <1>0, <2>1, EnqueuedIs, Zenon
  <2> HIDE DEF first, me
  <2>5. buffer' \in Seq(Batch) /\ \A r : InBatches(buffer', r) <=> InBatches(first, r) \/ r = id
    <3>1. first \in Seq(Batch) /\ id \in Nat /\ buffer' = Enqueued(first, op, id)
      BY <1>3, <2>2, <2>4, Zenon
    <3> QED BY <3>1, EnqueuedIs, ZenonT(30)
  <2>6. c.pending \in 1 .. n + 1
    BY <1>2, <1>3, <1>7, <2>3, Zenon
  <2>7. \A r : InBatches(buffer', r) => InBatches(buffer, r) \/ r \in 1 .. n + 1
    BY <1>3, <2>4, <2>5, <2>6, Zenon
  <2>8. \A d \in DOMAIN ctxs' : ctxs'[d].pending \in 0 .. n + 1
    BY <1>2, <1>3, <2>1, <2>3, Zenon
  <2>9. \A i \in DOMAIN micro' : micro'[i].kind = "single" => micro'[i].ctx \in DOMAIN ctxs'
    BY <1>0, <1>5, <1>7, <2>3, ZenonT(30) DEF LoaderRefs
  <2>10. LoaderWoken'
    <3>1. ASSUME NEW d \in DOMAIN ctxs', ctxs'[d].pending # 0
          PROVE  \E i \in DOMAIN micro' : micro'[i].kind = "single" /\ micro'[i].ctx = d
      <4>1. d # me
        BY <2>1, <2>3, <3>1, Zenon
      <4>2. d \in DOMAIN ctxs /\ ctxs[d].pending # 0
        BY <2>3, <3>1, <4>1, Zenon
      <4>3. PICK i \in DOMAIN micro : micro[i].kind = "single" /\ micro[i].ctx = d
        BY <1>w, <4>2, Zenon
      <4>4. i \in DOMAIN micro' /\ micro'[i] = micro[i]
        BY <1>5, <1>7, Zenon
      <4> QED BY <4>3, <4>4, Zenon
    <3> QED BY <1>5, <1>7, <3>1, Zenon DEF LoaderWoken
  <2>11. ASSUME NEW r \in 1 .. n, Placed(r) PROVE Placed(r)'
    <3>1. CASE InBatches(buffer, r)
      BY <2>4, <2>5, <3>1, Zenon DEF Placed
    <3>2. CASE InBatches(flushing, r)
      BY <3>2, Zenon DEF Placed
    <3>3. CASE \E d \in DOMAIN ctxs : ctxs[d].pending = r
      <4>1. PICK d \in DOMAIN ctxs : ctxs[d].pending = r
        BY <3>3, Zenon
      <4>2. CASE d = me
        <5>1. InBatches(buffer', r)
          BY <2>3, <2>4, <2>5, <4>1, <4>2, Zenon
        <5> QED BY <5>1, Zenon DEF Placed
      <4>3. CASE d # me
        BY <2>3, <4>1, <4>3, Zenon DEF Placed
      <4> QED BY <4>2, <4>3
    <3> QED BY <2>11, <3>1, <3>2, <3>3, Zenon DEF Placed
  <2>12. Placed(id)'
    <3>1. InBatches(buffer', id)
      BY <2>5, Zenon
    <3> QED BY <3>1, Zenon DEF Placed
  <2> QED BY <1>5, <1>7, <2>3, <2>5, <2>7, <2>8, <2>9, <2>10, <2>11, <2>12, Zenon DEF me, n
<1>8. CASE /\ ctxs' = [CtxAfter(op) EXCEPT ![me] = c]
           /\ buffer' = Enqueued(buffer, op, id)
           /\ micro' = Scheduled(micro)
  <2>1. SamePendings(ctxs') /\ [current EXCEPT ![op] = me] \in [Ops -> 0 .. Len(ctxs')]
    BY <1>0, <1>8, CtxWritten, Zenon
  <2>2. /\ \A d \in DOMAIN ctxs : d \in DOMAIN ctxs' /\ ctxs'[d].pending = ctxs[d].pending
        /\ \A d \in DOMAIN ctxs' : ctxs'[d].pending # 0 =>
              d \in DOMAIN ctxs /\ ctxs'[d].pending = ctxs[d].pending
        /\ ctxs' \in Seq(CtxType)
    BY <1>0, <2>1, PendingsKept, Zenon
  <2> HIDE DEF me
  <2>3. buffer' \in Seq(Batch) /\ \A r : InBatches(buffer', r) <=> InBatches(buffer, r) \/ r = id
    <3>1. id \in Nat /\ buffer' = Enqueued(buffer, op, id)
      BY <1>3, <1>8, Zenon
    <3> QED BY <1>b, <3>1, EnqueuedIs, ZenonT(30)
  <2>4. \A r : InBatches(buffer', r) => InBatches(buffer, r) \/ r \in 1 .. n + 1
    BY <1>3, <2>3, Zenon
  <2>5. \A d \in DOMAIN ctxs' : ctxs'[d].pending \in 0 .. n + 1
    BY <1>2, <1>3, <2>2, Zenon
  <2>6. \A i \in DOMAIN micro' : micro'[i].kind = "single" => micro'[i].ctx \in DOMAIN ctxs'
    BY <1>0, <1>5, <1>8, <2>2, Zenon DEF LoaderRefs
  <2>7. LoaderWoken'
    <3>1. ASSUME NEW d \in DOMAIN ctxs', ctxs'[d].pending # 0
          PROVE  \E i \in DOMAIN micro' : micro'[i].kind = "single" /\ micro'[i].ctx = d
      <4>1. d \in DOMAIN ctxs /\ ctxs[d].pending # 0
        BY <2>2, <3>1, Zenon
      <4>2. PICK i \in DOMAIN micro : micro[i].kind = "single" /\ micro[i].ctx = d
        BY <1>w, <4>1, Zenon
      <4>3. i \in DOMAIN micro' /\ micro'[i] = micro[i]
        BY <1>5, <1>8, Zenon
      <4> QED BY <4>2, <4>3, Zenon
    <3> QED BY <1>5, <1>8, <3>1, Zenon DEF LoaderWoken
  <2>8. ASSUME NEW r \in 1 .. n, Placed(r) PROVE Placed(r)'
    BY <2>2, <2>3, <2>8, Zenon DEF Placed
  <2>9. Placed(id)'
    BY <2>3, Zenon DEF Placed
  <2> QED BY <1>5, <1>8, <2>1, <2>2, <2>3, <2>4, <2>5, <2>6, <2>7, <2>8, <2>9, Zenon DEF me, n
<1> QED BY <1>6, <1>7, <1>8, Zenon DEF Dispatch

\* A call of load().
LEMMA LoadInv ==
    ASSUME LoaderInv, NEW op \in Ops, NEW input \in Inputs, NEW given \in BOOLEAN,
           NEW cache \in BOOLEAN, Load(op, input, given, cache)
    PROVE  LoaderInv'
<1> DEFINE me       == CtxId(op)
           c        == CtxAfter(op)[me]
           id       == Len(requests) + 1
           caching  == options.caching /\ options.maxCacheKeys > 0 /\ cache
           deferred == /\ caching /\ ~given /\ c.mode = "coalesce" /\ op \in FastOps
                       /\ buffer # <<>>
           eager    == caching /\ ~given /\ ~deferred /\ ComputesKey(c)
           key      == IF caching /\ given THEN GivenKey(op, input)
                       ELSE IF eager THEN DefaultKey(op, input) ELSE NoKey
           hit      == key # NoKey /\ LruHas(lcache, key)
           asked    == IF caching /\ ~given /\ ~deferred THEN Probed(c) ELSE c
           a        == IF eager THEN 1 ELSE 0
           h        == IF eager /\ hit THEN 1 ELSE 0
           counted  == [asked EXCEPT !.attempts = @ + a, !.hits = @ + h]
           status   == IF hit THEN "value" ELSE "pending"
           value    == IF hit THEN LruPeek(lcache, key) ELSE <<>>
           q        == Request(op, input, key, deferred, status, value)
<1>0. /\ LoaderTypes /\ LoaderRefs /\ LoaderWoken /\ requests \in Seq(GoodRequests)
      /\ lcache \in GoodMaps(options.maxCacheKeys) /\ buffer \in Seq(Batch) /\ micro \in Seq(Microtask)
      /\ options \in OptionType
  BY Zenon DEF LoaderInv, LoaderTypes
<1>1. /\ current' = [current EXCEPT ![op] = me]
      /\ lcache' = IF key = NoKey THEN lcache ELSE LruGet(lcache, key)
      /\ requests' = Append(requests, q)
      /\ IF hit THEN ctxs' = [CtxAfter(op) EXCEPT ![me] = counted] /\ buffer' = buffer /\ micro' = micro
         ELSE Dispatch(op, id, counted)
      /\ options' = options /\ flushing' = flushing /\ uncaught' = uncaught
  BY Zenon DEF Load
<1>2. options.maxCacheKeys \in Nat /\ lcache \in Seq(GoodEntries) /\ LoaderTypes
  <2>1. options.maxCacheKeys \in Nat
    BY <1>0 DEF OptionType
  <2> QED BY <1>0, <2>1, Zenon DEF GoodMaps
<1>3. c \in CtxType
  BY <1>2, CtxFor, Zenon
<1>4. deferred \in BOOLEAN
  BY Zenon
<1> HIDE DEF c
<1>5. key = NoKey \/ key \in KeysOf(op, input)
  <2> HIDE DEF caching, eager
  <2> QED BY Zenon DEF KeysOf
<1> HIDE DEF caching, deferred, eager, key
<1>6. asked \in CtxType /\ asked.pending = c.pending
  BY <1>3, ProbedIn, Zenon
<1>7. a \in Int /\ h \in Int
  OBVIOUS
<1> HIDE DEF asked, a, h
<1>8. counted \in CtxType /\ counted.pending = c.pending
  BY <1>6, <1>7, CountedIn, ZenonT(30)
<1> HIDE DEF counted
<1>9. lcache' \in GoodMaps(options.maxCacheKeys)
  BY <1>0, <1>1, <1>2, GetGood, Zenon
<1>10. key \in CacheKeys \cup {NoKey} /\ (hit => LruPeek(lcache, key) = NativeValue(op, input))
  <2>1. CASE key = NoKey
    BY <2>1, Zenon
  <2>2. CASE key \in KeysOf(op, input)
    BY <1>2, <2>2, KeyParts, PeekGood, ZenonT(30)
  <2> QED BY <1>5, <2>1, <2>2, Zenon
<1>11. q \in GoodRequests /\ q.status = status
  <2>1. status \in {"pending", "value", "error"}
    BY Zenon
  <2>2. value \in Values
    <3>1. NativeValue(op, input) \in Values /\ <<>> \in Values
      BY DEF Values
    <3> QED BY <1>10, <3>1, Zenon
  <2>3. status = "value" => value = NativeValue(op, input)
    <3>1. "pending" # "value"
      OBVIOUS
    <3> QED BY <1>10, <3>1, Zenon
  <2> HIDE DEF status, value
  <2>4. /\ q \in RequestType /\ q.op = op /\ q.input = input /\ q.key = key
        /\ q.status = status /\ q.value = value
    BY <1>4, <1>10, <2>1, <2>2, Zenon DEF Request, RequestType
  <2> HIDE DEF q
  <2>5. Owed(q)
    BY <1>5, <2>3, <2>4, Zenon DEF Owed
  <2> QED BY <2>4, <2>5, Zenon DEF GoodRequests
<1> HIDE DEF q
<1>12. CASE hit
  <2>1. ctxs' = [CtxAfter(op) EXCEPT ![me] = counted] /\ buffer' = buffer /\ micro' = micro
    BY <1>1, <1>12, Zenon
  <2>2. SamePendings(ctxs') /\ current' \in [Ops -> 0 .. Len(ctxs')]
    BY <1>1, <1>2, <1>8, <2>1, CtxWritten, Zenon DEF c
  <2>3. /\ \A d \in DOMAIN ctxs : d \in DOMAIN ctxs' /\ ctxs'[d].pending = ctxs[d].pending
        /\ \A d \in DOMAIN ctxs' : ctxs'[d].pending # 0 =>
              d \in DOMAIN ctxs /\ ctxs'[d].pending = ctxs[d].pending
        /\ ctxs' \in Seq(CtxType)
    BY <1>2, <2>2, PendingsKept, Zenon
  <2>4. \A d \in DOMAIN ctxs' : ctxs'[d].pending \in 0 .. Len(requests) + 1
    <3>1. \A d \in DOMAIN ctxs : ctxs[d].pending \in 0 .. Len(requests)
      BY <1>0, Zenon DEF LoaderRefs
    <3>2. 0 \in 0 .. Len(requests) + 1 /\ \A x \in 0 .. Len(requests) : x \in 0 .. Len(requests) + 1
      BY <1>0
    <3> QED BY <2>3, <3>1, <3>2, Zenon
  <2>5. \A i \in DOMAIN micro' : micro'[i].kind = "single" => micro'[i].ctx \in DOMAIN ctxs'
    BY <1>0, <2>1, <2>3, Zenon DEF LoaderRefs
  <2>6. LoaderWoken'
    BY <1>0, <2>1, <2>3, Zenon DEF LoaderWoken
  <2>7. ASSUME NEW r, Placed(r) PROVE Placed(r)'
    BY <1>1, <2>1, <2>3, <2>7, Zenon DEF Placed, InBatches
  <2>8. q.status # "pending"
    BY <1>11, <1>12
  <2>9. buffer' \in Seq(Batch) /\ micro' \in Seq(Microtask)
        /\ \A r : InBatches(buffer', r) => InBatches(buffer, r)
    BY <1>0, <2>1, Zenon
  <2> QED BY <1>1, <1>9, <1>11, <2>2, <2>3, <2>4, <2>5, <2>6, <2>7, <2>8, <2>9, LoadKept, Zenon
<1>13. CASE ~hit
  <2>0. Dispatch(op, id, counted)
    BY <1>1, <1>13, Zenon
  <2>1. PICK n : n = id
    BY Zenon
  <2>2. Dispatch(op, n, counted)
    BY <2>0, <2>1, Zenon
  <2>3. PICK k \in CtxType : k = counted
    BY <1>8, Zenon
  <2>4. Dispatch(op, n, k)
    BY <2>2, <2>3, Zenon
  <2>5. k.pending = CtxAfter(op)[CtxId(op)].pending
    BY <1>8, <2>3, Zenon DEF c
  <2>6. /\ ctxs' \in Seq(CtxType) /\ [current EXCEPT ![op] = CtxId(op)] \in [Ops -> 0 .. Len(ctxs')]
        /\ buffer' \in Seq(Batch) /\ micro' \in Seq(Microtask)
        /\ \A r : InBatches(buffer', r) => InBatches(buffer, r) \/ r \in 1 .. Len(requests) + 1
        /\ \A d \in DOMAIN ctxs' : ctxs'[d].pending \in 0 .. Len(requests) + 1
        /\ \A i \in DOMAIN micro' : micro'[i].kind = "single" => micro'[i].ctx \in DOMAIN ctxs'
        /\ LoaderWoken'
        /\ \A r \in 1 .. Len(requests) : Placed(r) => Placed(r)'
        /\ Placed(n)'
    BY <1>1, <2>1, <2>4, <2>5, DispatchKept, Zenon
  <2>7. current' \in [Ops -> 0 .. Len(ctxs')]
    BY <1>1, <2>6, Zenon
  <2> QED BY <1>1, <1>9, <1>11, <2>1, <2>6, <2>7, LoadKept, Zenon
<1> QED BY <1>12, <1>13

\* The loader starts with nothing asked.
LEMMA LoaderInitInv == ASSUME LoaderInit PROVE LoaderInv
<1>1. /\ options \in [caching : {TRUE}, maxCacheKeys : {2}, batchMin : {MinBatchMin},
                      loadStrategy : {"auto", "single"}]
      /\ ctxs = <<>> /\ current = [op \in Ops |-> 0]
      /\ lcache = <<>> /\ buffer = <<>> /\ micro = <<>> /\ flushing = <<>>
      /\ requests = <<>> /\ uncaught = FALSE
  BY Zenon DEF LoaderInit
<1>2. options \in OptionType
  <2>1. MinBatchMin \in Int /\ 2 \in Nat
    BY LoaderAssumption
  <2> QED BY <1>1, <2>1, Zenon DEF OptionType
<1>3. LoaderTypes
  <2>1. current \in [Ops -> 0 .. Len(ctxs)]
    <3>1. 0 \in 0 .. Len(ctxs)
      BY <1>1
    <3> QED BY <1>1, <3>1, Zenon
  <2>2. ctxs \in Seq(CtxType) /\ buffer \in Seq(Batch) /\ flushing \in Seq(Batch)
        /\ micro \in Seq(Microtask) /\ uncaught \in BOOLEAN
    <3>1. <<>> \in Seq(CtxType) /\ <<>> \in Seq(Batch) /\ <<>> \in Seq(Microtask)
      OBVIOUS
    <3> QED BY <1>1, <3>1, Zenon
  <2> QED BY <1>2, <2>1, <2>2, Zenon DEF LoaderTypes
<1>4. requests \in Seq(GoodRequests) /\ lcache \in GoodMaps(options.maxCacheKeys)
  BY <1>1, <1>2 DEF GoodMaps, OptionType
<1>5. LoaderRefs /\ LoaderWoken /\ LoaderPlaced
  BY <1>1 DEF LoaderRefs, LoaderWoken, LoaderPlaced, IdsWithin
<1> QED BY <1>3, <1>4, <1>5, Zenon DEF LoaderInv

\* Every call and every microtask keeps the invariant.
LEMMA LoaderStep == ASSUME LoaderInv, [LoaderNext]_loaderVars PROVE LoaderInv'
<1>1. CASE \E op \in Ops, i \in Inputs, g, c \in BOOLEAN : Load(op, i, g, c)
  BY <1>1, LoadInv, Zenon
<1>2. CASE FlushTick
  BY <1>2, FlushTickInv, Zenon
<1>3. CASE FlushKeysThrow
  BY <1>3, KeysThrowInv, Zenon
<1>4. CASE \E ok \in BOOLEAN : FlushSingle(ok) \/ FlushOne(ok) \/ FlushFast(ok) \/ FlushBulk(ok)
  BY <1>4, FlushSingleInv, FlushOneInv, FlushFastInv, FlushBulkInv, Zenon
<1>5. CASE \E op \in Ops : Run(op, 2)
  <2>1. 2 \in Nat
    OBVIOUS
  <2> QED BY <1>5, <2>1, RunInv, Zenon
<1>6. CASE \E k \in {0, 1}, s \in {"auto", "single"} :
              Configure([options EXCEPT !.maxCacheKeys = k, !.loadStrategy = s])
  <2>1. PICK k \in {0, 1}, s \in {"auto", "single"} :
           Configure([options EXCEPT !.maxCacheKeys = k, !.loadStrategy = s])
    BY <1>6, Zenon
  <2>2. k \in Nat /\ options \in OptionType
    BY DEF LoaderInv, LoaderTypes
  <2> DEFINE next == [options EXCEPT !.maxCacheKeys = k, !.loadStrategy = s]
  <2>3. next \in OptionType
    BY <2>2, Zenon DEF OptionType
  <2>4. PICK o \in OptionType : o = next
    BY <2>3, Zenon
  <2>5. Configure(o)
    BY <2>1, <2>4, Zenon
  <2> QED BY <2>5, ConfigureInv, Zenon
<1>7. CASE ClearCache
  BY <1>7, ClearInv, Zenon
<1>8. CASE UNCHANGED loaderVars
  BY <1>8, Zenon DEF loaderVars, LoaderInv, LoaderTypes, LoaderRefs, LoaderWoken, LoaderPlaced,
                     Placed, InBatches, IdsWithin
<1> QED BY <1>1, <1>2, <1>3, <1>4, <1>5, <1>6, <1>7, <1>8, Zenon DEF LoaderNext

\* The invariant says what LoadsAnswered says.
LEMMA LoaderInvImplies == ASSUME LoaderInv PROVE LoadsAnswered
<1>0. /\ LoaderTypes /\ LoaderRefs /\ LoaderWoken /\ LoaderPlaced /\ requests \in Seq(GoodRequests)
      /\ lcache \in Seq(GoodEntries) /\ Len(lcache) <= options.maxCacheKeys
  BY Zenon DEF LoaderInv, GoodMaps
<1>1. ASSUME NEW r \in DOMAIN requests, requests[r].status = "value"
      PROVE  requests[r].value = NativeValue(requests[r].op, requests[r].input)
  <2>1. requests[r] \in GoodRequests
    BY <1>0
  <2> QED BY <1>1, <2>1, Zenon DEF GoodRequests, Owed
<1>2. ASSUME micro = <<>>, flushing = <<>>, ~uncaught, NEW r \in DOMAIN requests
      PROVE  requests[r].status # "pending"
  <2>1. buffer = <<>> /\ \A d \in DOMAIN ctxs : ctxs[d].pending = 0
    <3>1. ~\E i \in DOMAIN micro : TRUE
      BY <1>2
    <3> QED BY <1>0, <3>1, Zenon DEF LoaderWoken
  <2>2. r # 0
    BY <1>0
  <2>3. ~InBatches(<<>>, r)
    BY DEF InBatches
  <2>4. ~Placed(r)
    BY <1>2, <2>1, <2>2, <2>3, Zenon DEF Placed
  <2> QED BY <1>0, <1>2, <2>4, Zenon DEF LoaderPlaced
<1>3. ASSUME NEW i \in DOMAIN lcache
      PROVE  lcache[i].val = NativeValue(lcache[i].key[1], lcache[i].key[3])
  <2>1. lcache[i] \in GoodEntries
    BY <1>0
  <2>2. PICK k \in CacheKeys : lcache[i] = Entry(k)
    BY <2>1, Zenon DEF GoodEntries
  <2> QED BY <2>2 DEF Entry
<1> QED BY <1>0, <1>1, <1>2, <1>3, Zenon DEF LoadsAnswered

\* Whatever calls of load(), run(), configure() and clear() come between the
\* microtasks, and whichever native calls throw: a promise is only ever resolved
\* with the result of its own op and input, none is left pending when the queue
\* is empty and no exception left a microtask, and the cache holds, within its
\* bound, what callers of its keys are owed (loader/index.ts:215-515).  For any
\* ops, inputs and number of calls.
THEOREM LoadsAnsweredCorrect == LoaderSpec => []LoadsAnswered
<1>1. LoaderInit => LoaderInv
  BY LoaderInitInv, Zenon
<1>2. LoaderInv /\ [LoaderNext]_loaderVars => LoaderInv'
  BY LoaderStep, Zenon
<1>3. LoaderInv => LoadsAnswered
  BY LoaderInvImplies, Zenon
<1> QED BY <1>1, <1>2, <1>3, PTL DEF LoaderSpec

=============================================================================
