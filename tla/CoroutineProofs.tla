--------------------------- MODULE CoroutineProofs ---------------------------
(***************************************************************************)
(* Theorems about module Coroutine, for any number of threads and          *)
(* coroutines and any width of the count.                                  *)
(***************************************************************************)
EXTENDS Coroutine, Induction, TLAPS

(* No coroutine has two threads to run on or to be gone back to.  One that *)
(* a thread both runs and will go back to has resumed another.             *)
OneThread ==
  \A t, u \in Thread :
    /\ t # u /\ runs[t] \in Coro => runs[t] # runs[u]
    /\ t # u /\ main_ctx[t] \in Coro => main_ctx[t] # main_ctx[u]
    /\ runs[t] \in Coro /\ runs[t] = main_ctx[u] => t = u /\ t_cur_coro[t] = None

\* A thread that runs a coroutine has called setMain().
ContextSet == \A t \in Thread : runs[t] \in Coro => main_ctx[t] # None

Inv ==
  TypeOK /\ CurrentRuns /\ OnlyNestingLosesThis /\ AtRest /\ OneThread /\ ContextSet

USE DEF Party, ctxVars

\* Nothing runs and no coroutine exists at first.
LEMMA InvInit == Init => Inv
  <1> SUFFICES ASSUME Init PROVE Inv
    OBVIOUS
  <1>1. TypeOK
    <2>1. 0 \in 0 .. Modulus - 1
      BY ModulusAssumption
    <2> QED BY <2>1 DEF Init, TypeOK, Status, Crash
  <1>2. CurrentRuns /\ AtRest
    BY DistinctAssumption DEF Init, CurrentRuns, AtRest
  <1>3. OnlyNestingLosesThis /\ OneThread /\ ContextSet
    BY DistinctAssumption DEF Init, OnlyNestingLosesThis, OneThread, ContextSet
  <1> QED BY <1>1, <1>2, <1>3 DEF Inv

\* A call that the process does not survive changes nothing else.
LEMMA FailStep ==
  ASSUME Inv, NEW why \in Crash, Fail(why)
  PROVE  Inv'
  BY DEF Fail, Inv, TypeOK, CurrentRuns, OnlyNestingLosesThis, AtRest, OneThread,
         ContextSet

\* Counting up and down keeps a count in range.
LEMMA CountStep ==
  ASSUME TypeOK, NEW t \in Thread, CountUp(t) \/ CountDown(t)
  PROVE  coro_count' \in [Thread -> 0 .. Modulus - 1]
  <1>1. \A n \in Nat : n % Modulus \in 0 .. Modulus - 1
    BY ModulusAssumption
  <1>2. coro_count[t] + 1 \in Nat /\ coro_count[t] + Modulus - 1 \in Nat
    BY ModulusAssumption DEF TypeOK
  <1> QED BY <1>1, <1>2 DEF TypeOK, CountUp, CountDown

\* resume() of a coroutine that is at rest.
LEMMA ResumeStep ==
  ASSUME Inv, NEW t \in Thread, NEW c \in Coro, Resume(t, c)
  PROVE  Inv'
  <1>1. CASE m_status[c] \notin {"RADY", "SUSP"}
    BY <1>1, FailStep DEF Resume, Crash
  <1>2. CASE m_status[c] \in {"RADY", "SUSP"}
    <2>1. /\ m_status' = [m_status EXCEPT ![c] = "RUNN"]
          /\ t_cur_coro' = [t_cur_coro EXCEPT ![t] = c]
          /\ main_ctx' = [main_ctx EXCEPT ![t] = runs[t]]
          /\ runs' = [runs EXCEPT ![t] = c]
          /\ resumer' = [resumer EXCEPT ![c] = runs[t]]
          /\ UNCHANGED <<coro_count, crashed>>
      BY <1>2 DEF Resume, SetThis
    <2>2. \A u \in Thread : runs[u] # c /\ main_ctx[u] # c /\ t_cur_coro[u] # c
      BY <1>2, DistinctAssumption DEF Inv, AtRest, CurrentRuns
    <2>3. TypeOK'
      BY <2>1 DEF Inv, TypeOK, Status
    <2>4. CurrentRuns' /\ AtRest'
      BY <2>1, <2>2 DEF Inv, TypeOK, CurrentRuns, AtRest
    <2>5. OnlyNestingLosesThis' /\ ContextSet'
      BY <2>1, DistinctAssumption DEF Inv, TypeOK, OnlyNestingLosesThis, ContextSet
    <2>6. OneThread'
      BY <2>1, <2>2 DEF Inv, TypeOK, OneThread
    <2> QED BY <2>3, <2>4, <2>5, <2>6 DEF Inv
  <1> QED BY <1>1, <1>2

\* yield(), and the end of trampoline().
LEMMA LeaveStep ==
  ASSUME Inv, NEW t \in Thread, runs[t] \in Coro,
         NEW s \in {"SUSP", "DEAD", "ECPT", "RUNN"}, Leave(t, s)
  PROVE  Inv'
  <1>1. CASE t_cur_coro[t] = None
    BY <1>1, FailStep DEF Leave, Crash
  <1>2. CASE t_cur_coro[t] # None
    <2> DEFINE c == runs[t]
    <2>1. t_cur_coro[t] = c /\ main_ctx[t] # c /\ main_ctx[t] \in Party
      BY <1>2 DEF Inv, TypeOK, CurrentRuns, OneThread, ContextSet
    <2>2. /\ m_status' = [m_status EXCEPT ![c] = s]
          /\ t_cur_coro' = [t_cur_coro EXCEPT ![t] = None]
          /\ runs' = [runs EXCEPT ![t] = main_ctx[t]]
          /\ UNCHANGED <<main_ctx, resumer, coro_count, crashed>>
      BY <1>2, <2>1 DEF Leave, Forget
    <2>3. \A u \in Thread : main_ctx[u] # c /\ (u # t => runs[u] # c /\ t_cur_coro[u] # c)
      BY <1>2 DEF Inv, CurrentRuns, OneThread
    <2> HIDE DEF c
    <2>4. TypeOK'
      BY <2>1, <2>2 DEF Inv, TypeOK, Status
    <2>5. CurrentRuns'
      BY <2>1, <2>2, <2>3 DEF Inv, TypeOK, CurrentRuns
    <2>6. AtRest'
      BY <2>1, <2>2, <2>3 DEF Inv, TypeOK, AtRest
    <2>7. OnlyNestingLosesThis' /\ ContextSet'
      BY <2>1, <2>2, DistinctAssumption DEF Inv, TypeOK, OnlyNestingLosesThis, ContextSet
    <2>8. OneThread'
      BY <2>1, <2>2, <2>3 DEF Inv, TypeOK, OneThread
    <2> QED BY <2>4, <2>5, <2>6, <2>7, <2>8 DEF Inv
  <1> QED BY <1>1, <1>2

\* Each operation keeps the invariant.
LEMMA InvStep == Inv /\ [Next]_vars => Inv'
  <1> SUFFICES ASSUME Inv, [Next]_vars PROVE Inv'
    OBVIOUS
  <1>1. ASSUME NEW t \in Thread, SetMain(t) PROVE Inv'
    BY <1>1, DistinctAssumption
    DEF SetMain, Inv, TypeOK, CurrentRuns, OnlyNestingLosesThis, AtRest, OneThread,
        ContextSet
  <1>2. ASSUME NEW t \in Thread, Yield(t) PROVE Inv'
    BY <1>2, LeaveStep DEF Yield
  <1>3. ASSUME NEW t \in Thread, End(t) PROVE Inv'
    BY <1>3, LeaveStep DEF End
  <1>4. ASSUME NEW t \in Thread, NEW c \in Coro, Create(t, c) PROVE Inv'
    <2>1. coro_count' \in [Thread -> 0 .. Modulus - 1]
      BY <1>4, CountStep DEF Create, Inv
    <2> QED BY <1>4, <2>1
      DEF Create, Inv, TypeOK, Status, CurrentRuns, OnlyNestingLosesThis, AtRest,
          OneThread, ContextSet
  <1>5. ASSUME NEW t \in Thread, NEW c \in Coro, Destroy(t, c) PROVE Inv'
    <2>1. CASE m_status[c] \in {"DEAD", "ECPT"}
      <3>1. coro_count' \in [Thread -> 0 .. Modulus - 1]
        BY <1>5, <2>1, CountStep DEF Destroy, Inv
      <3> QED BY <1>5, <2>1, <3>1
        DEF Destroy, Inv, TypeOK, Status, CurrentRuns, OnlyNestingLosesThis, AtRest,
            OneThread, ContextSet
    <2>2. CASE m_status[c] \notin {"DEAD", "ECPT"}
      BY <1>5, <2>2, FailStep DEF Destroy, Crash
    <2> QED BY <2>1, <2>2
  <1>6. ASSUME NEW t \in Thread, NEW c \in Coro, Reset(t, c) PROVE Inv'
    <2>1. CASE MayReset(c)
      BY <1>6, <2>1
      DEF Reset, MayReset, Inv, TypeOK, Status, CurrentRuns, OnlyNestingLosesThis,
          AtRest, OneThread, ContextSet
    <2>2. CASE ~ MayReset(c)
      BY <1>6, <2>2, FailStep DEF Reset, Crash
    <2> QED BY <2>1, <2>2
  <1>7. CASE UNCHANGED vars
    BY <1>7 DEF vars, Inv, TypeOK, CurrentRuns, OnlyNestingLosesThis, AtRest, OneThread,
                ContextSet
  <1> QED BY <1>1, <1>2, <1>3, <1>4, <1>5, <1>6, <1>7, ResumeStep DEF Next, Step, Over

-----------------------------------------------------------------------------
(* The invariant that the theorems below are parts of.                     *)
THEOREM Invariance == Spec => []Inv
  BY InvInit, InvStep, PTL DEF Spec

(* Every variable keeps its type, however many coroutines are made and     *)
(* destroyed on however many threads.                                      *)
THEOREM TypeCorrect == Spec => []TypeOK
  BY Invariance, PTL DEF Inv

(* A coroutine that yields or ends makes the resume() that entered it      *)
(* return, through whatever threads and nested calls it went; the only one *)
(* that cannot is one that has resumed another.                            *)
THEOREM ControlReturns == Spec => []BackToResumer
  BY Invariance, PTL DEF Inv, BackToResumer

(* No stack is entered, reset or freed while a thread runs on it or will   *)
(* go back to it.                                                          *)
THEOREM StacksAtRest == Spec => []AtRest
  BY Invariance, PTL DEF Inv

-----------------------------------------------------------------------------
(* Sums over finite sets.  SumFunction adds the values of a function in   *)
(* an order that depends on the set alone, so that two functions that      *)
(* differ at one place have sums that differ as much.                      *)

First(s) == CHOOSE x \in s : TRUE
UpTo(S, n) == {s \in SUBSET S : Cardinality(s) <= n}

\* g gives the sum of f over every set of D.
IsSum(g, f, D) ==
  g = [s \in D |-> IF s = {} THEN 0 ELSE f[First(s)] + g[s \ {First(s)}]]

\* Without its first element a finite set is smaller.
LEMMA Smaller ==
  ASSUME NEW S, IsFiniteSet(S), NEW n \in Nat, NEW s \in UpTo(S, n + 1), s # {}
  PROVE  First(s) \in s /\ s \ {First(s)} \in UpTo(S, n)
  <1> DEFINE x == First(s)
  <1>1. x \in s
    BY DEF First
  <1>2. s \in SUBSET S /\ IsFiniteSet(s) /\ Cardinality(s) <= n + 1
    BY FS_Subset DEF UpTo
  <1> HIDE DEF x
  <1>3. Cardinality(s \ {x}) = Cardinality(s) - 1 /\ Cardinality(s) \in Nat
    BY <1>1, <1>2, FS_RemoveElement, FS_CardinalityType
  <1> QED BY <1>1, <1>2, <1>3 DEF UpTo, x

\* The empty set is one of them, and the only one of no elements.
LEMMA NoneIsEmpty ==
  ASSUME NEW S, IsFiniteSet(S)
  PROVE  UpTo(S, 0) = {{}} /\ \A n \in Nat : {} \in UpTo(S, n)
  <1>1. Cardinality({}) = 0
    BY FS_EmptySet
  <1>2. ASSUME NEW s \in UpTo(S, 0) PROVE s = {}
    <2>1. IsFiniteSet(s) /\ Cardinality(s) <= 0
      BY FS_Subset DEF UpTo
    <2> QED BY <2>1, FS_EmptySet, FS_CardinalityType
  <1> QED BY <1>1, <1>2 DEF UpTo

\* They are all the subsets in the end.
LEMMA AllSubsets ==
  ASSUME NEW S, IsFiniteSet(S)
  PROVE  Cardinality(S) \in Nat /\ UpTo(S, Cardinality(S)) = SUBSET S
  BY FS_Subset, FS_CardinalityType DEF UpTo

\* What holds of the empty set, and of a set if it holds of it without its
\* first element, holds of all.
LEMMA SubsetInduction ==
  ASSUME NEW S, IsFiniteSet(S), NEW H, {} \in H,
         \A s \in SUBSET S : s # {} /\ s \ {First(s)} \in H => s \in H
  PROVE  SUBSET S \subseteq H
  <1> DEFINE T == {n \in Nat : UpTo(S, n) \subseteq H}
  <1>1. 0 \in T
    BY NoneIsEmpty
  <1>2. ASSUME NEW n \in Nat, n \in T PROVE n + 1 \in T
    <2>1. ASSUME NEW s \in UpTo(S, n + 1) PROVE s \in H
      <3>1. CASE s = {}
        BY <3>1
      <3>2. CASE s # {}
        BY <1>2, <2>1, <3>2, Smaller DEF UpTo
      <3> QED BY <3>1, <3>2
    <2> QED BY <2>1
  <1>3. Nat \subseteq T
    <2> HIDE DEF T
    <2> QED BY <1>1, <1>2, SetInduction
  <1> QED BY <1>3, AllSubsets

\* Every function has a sum.
LEMMA SumExists ==
  ASSUME NEW S, IsFiniteSet(S), NEW f
  PROVE  \E g : IsSum(g, f, SUBSET S)
  <1> DEFINE T == {n \in Nat : \E g : IsSum(g, f, UpTo(S, n))}
  <1>1. 0 \in T
    <2> DEFINE g == [s \in UpTo(S, 0) |-> 0]
    <2>1. \A s \in UpTo(S, 0) : s = {}
      BY NoneIsEmpty
    <2>2. IsSum(g, f, UpTo(S, 0))
      BY <2>1 DEF IsSum
    <2> QED BY <2>2
  <1>2. ASSUME NEW n \in Nat, n \in T PROVE n + 1 \in T
    <2> DEFINE U == UpTo(S, n)
               V == UpTo(S, n + 1)
    <2>1. PICK g : IsSum(g, f, U)
      BY <1>2
    <2> DEFINE h == [s \in V |-> IF s = {} THEN 0 ELSE f[First(s)] + g[s \ {First(s)}]]
    <2>2. ASSUME NEW s \in V, s # {} PROVE h[s \ {First(s)}] = g[s \ {First(s)}]
      <3> DEFINE r == s \ {First(s)}
      <3>1. r \in U /\ r \in V
        <4>1. r \in U
          BY <2>2, Smaller
        <4>2. r \in SUBSET S /\ Cardinality(r) <= n /\ Cardinality(r) \in Nat
          BY <4>1, FS_Subset, FS_CardinalityType DEF UpTo
        <4> HIDE DEF r
        <4> QED BY <4>1, <4>2 DEF UpTo
      <3>2. g[r] = IF r = {} THEN 0 ELSE f[First(r)] + g[r \ {First(r)}]
        <4> HIDE DEF r, U
        <4> QED BY <2>1, <3>1 DEF IsSum
      <3>3. h[r] = IF r = {} THEN 0 ELSE f[First(r)] + g[r \ {First(r)}]
        <4> HIDE DEF r, V
        <4> QED BY <3>1
      <3> QED BY <3>2, <3>3
    <2>3. h = [s \in V |-> IF s = {} THEN 0 ELSE f[First(s)] + h[s \ {First(s)}]]
      <3> HIDE DEF V
      <3>1. \A s \in V : h[s] = IF s = {} THEN 0 ELSE f[First(s)] + g[s \ {First(s)}]
        OBVIOUS
      <3>2. h = [s \in V |-> h[s]]
        OBVIOUS
      <3> HIDE DEF h
      <3> QED BY <2>2, <3>1, <3>2
    <2>4. IsSum(h, f, V)
      <3> HIDE DEF h, V
      <3> QED BY <2>3 DEF IsSum
    <2> HIDE DEF h
    <2> QED BY <2>4
  <1>3. Nat \subseteq T
    <2> HIDE DEF T
    <2> QED BY <1>1, <1>2, SetInduction
  <1>4. Cardinality(S) \in T
    <2> HIDE DEF T
    <2> QED BY <1>3, AllSubsets
  <1> QED BY <1>4, AllSubsets

\* SumFunction is that sum.
LEMMA FoldIsSum ==
  ASSUME NEW S, IsFiniteSet(S), NEW f, DOMAIN f = S
  PROVE  \E g : IsSum(g, f, SUBSET S) /\ SumFunction(f) = g[S]
  <1> DEFINE g == CHOOSE iter : iter = [s \in SUBSET S |->
                    IF s = {} THEN 0
                    ELSE f[CHOOSE x \in s : TRUE] + iter[s \ {CHOOSE x \in s : TRUE}]]
  <1>1. SumFunction(f) = g[S]
    BY DEF SumFunction, SumFunctionOnSet, FoldFunctionOnSet, MapThenFoldSet
  <1>2. \E h : h = [s \in SUBSET S |->
                  IF s = {} THEN 0
                  ELSE f[CHOOSE x \in s : TRUE] + h[s \ {CHOOSE x \in s : TRUE}]]
    <2>1. PICK h : IsSum(h, f, SUBSET S)
      BY SumExists
    <2> QED BY <2>1 DEF IsSum, First
  <1>3. g = [s \in SUBSET S |->
              IF s = {} THEN 0
              ELSE f[CHOOSE x \in s : TRUE] + g[s \ {CHOOSE x \in s : TRUE}]]
    BY <1>2
  <1> HIDE DEF g
  <1>4. IsSum(g, f, SUBSET S)
    BY <1>3 DEF IsSum, First
  <1> QED BY <1>1, <1>4

\* The sum of nothing but zeros is zero.
LEMMA ZeroSum ==
  ASSUME NEW S, IsFiniteSet(S), NEW f, f = [x \in S |-> 0]
  PROVE  SumFunction(f) = 0
  <1>1. PICK g : IsSum(g, f, SUBSET S) /\ SumFunction(f) = g[S]
    BY FoldIsSum
  <1> DEFINE H == {s \in SUBSET S : g[s] = 0}
  <1>2. {} \in H
    BY <1>1 DEF IsSum
  <1>3. ASSUME NEW s \in SUBSET S, s # {}, s \ {First(s)} \in H PROVE s \in H
    <2>1. First(s) \in S
      BY <1>3 DEF First
    <2>2. g[s] = f[First(s)] + g[s \ {First(s)}]
      BY <1>1, <1>3 DEF IsSum
    <2> QED BY <1>3, <2>1, <2>2
  <1>4. SUBSET S \subseteq H
    <2> HIDE DEF H
    <2> QED BY <1>2, <1>3, SubsetInduction
  <1> QED BY <1>1, <1>4

\* A change at one place changes the sum as much.
LEMMA SumChanges ==
  ASSUME NEW S, IsFiniteSet(S), NEW f \in [S -> Nat], NEW e \in [S -> Nat], NEW t \in S,
         \A x \in S : x # t => e[x] = f[x]
  PROVE  /\ SumFunction(f) \in Nat /\ SumFunction(e) \in Nat
         /\ SumFunction(e) + f[t] = SumFunction(f) + e[t]
  <1>1. PICK g : IsSum(g, f, SUBSET S) /\ SumFunction(f) = g[S]
    BY FoldIsSum
  <1>2. PICK h : IsSum(h, e, SUBSET S) /\ SumFunction(e) = h[S]
    BY FoldIsSum
  <1> DEFINE H == {s \in SUBSET S : /\ g[s] \in Nat /\ h[s] \in Nat
                                    /\ t \in s => h[s] + f[t] = g[s] + e[t]
                                    /\ t \notin s => h[s] = g[s]}
  <1>3. {} \in H
    <2>1. g[{}] = 0 /\ h[{}] = 0
      BY <1>1, <1>2 DEF IsSum
    <2> QED BY <2>1
  <1>4. ASSUME NEW s \in SUBSET S, s # {}, s \ {First(s)} \in H PROVE s \in H
    <2> DEFINE x == First(s)
               r == s \ {x}
    <2>1. x \in s /\ x \in S
      BY <1>4 DEF First
    <2>2. g[s] = f[x] + g[r] /\ h[s] = e[x] + h[r]
      BY <1>1, <1>2, <1>4 DEF IsSum
    <2>3. /\ g[r] \in Nat /\ h[r] \in Nat
          /\ t \in r => h[r] + f[t] = g[r] + e[t]
          /\ t \notin r => h[r] = g[r]
      BY <1>4
    <2>4. f[x] \in Nat /\ e[x] \in Nat /\ f[t] \in Nat /\ e[t] \in Nat
      BY <2>1
    <2>5. CASE x = t
      <3>1. t \notin r /\ t \in s
        BY <2>1, <2>5
      <3> HIDE DEF x, r
      <3> QED BY <2>2, <2>3, <2>4, <2>5, <3>1
    <2>6. CASE x # t
      <3>1. e[x] = f[x] /\ (t \in s <=> t \in r)
        BY <2>1, <2>6
      <3> HIDE DEF x, r
      <3> QED BY <2>2, <2>3, <2>4, <3>1
    <2> QED BY <2>5, <2>6
  <1>5. SUBSET S \subseteq H
    <2> HIDE DEF H
    <2> QED BY <1>3, <1>4, SubsetInduction
  <1> QED BY <1>1, <1>2, <1>5

-----------------------------------------------------------------------------
(* Remainders.                                                             *)

\* A number is its quotient and its remainder.
LEMMA DivMod ==
  ASSUME NEW M \in Nat \ {0}, NEW a \in Nat
  PROVE  a = M * (a \div M) + (a % M) /\ a \div M \in Nat /\ a % M \in 0 .. M - 1
  OBVIOUS

\* A multiple of a positive number.
LEMMA Times ==
  ASSUME NEW M \in Nat \ {0}, NEW d \in Int, d > 0
  PROVE  M * d >= M
  OBVIOUS

\* Quotient and remainder are unique.
LEMMA Unique ==
  ASSUME NEW M \in Nat \ {0}, NEW q \in Int, NEW r \in 0 .. M - 1,
         NEW p \in Int, NEW s \in 0 .. M - 1, M * q + r = M * p + s
  PROVE  r = s
  <1>1. M * (q - p) = s - r
    OBVIOUS
  <1>2. CASE q - p > 0
    <2>1. M * (q - p) >= M
      BY <1>2, Times
    <2> QED BY <1>1, <2>1
  <1>3. CASE q - p < 0
    <2>1. M * (p - q) >= M
      BY <1>3, Times
    <2>2. M * (p - q) = r - s
      OBVIOUS
    <2> QED BY <2>2, <2>1
  <1>4. CASE q = p
    BY <1>4
  <1> QED BY <1>2, <1>3, <1>4

\* The remainder of the next number.
LEMMA ModSucc ==
  ASSUME NEW M \in Nat \ {0}, NEW a \in Nat
  PROVE  (a + 1) % M = IF (a % M) + 1 = M THEN 0 ELSE (a % M) + 1
  <1> DEFINE q == a \div M
             r == a % M
             p == (a + 1) \div M
             s == (a + 1) % M
  <1>1. a = M * q + r /\ q \in Nat /\ r \in 0 .. M - 1
    BY DivMod
  <1>2. a + 1 = M * p + s /\ p \in Nat /\ s \in 0 .. M - 1
    <2> DEFINE b == a + 1
    <2>1. b \in Nat
      OBVIOUS
    <2> HIDE DEF b
    <2>2. b = M * (b \div M) + (b % M) /\ b \div M \in Nat /\ b % M \in 0 .. M - 1
      BY <2>1, DivMod
    <2> QED BY <2>2 DEF b
  <1> HIDE DEF q, r, p, s
  <1>3. CASE r + 1 = M
    <2>1. M * (q + 1) + 0 = M * p + s
      BY <1>1, <1>2, <1>3
    <2>2. q + 1 \in Int /\ p \in Int /\ 0 \in 0 .. M - 1
      BY <1>1, <1>2
    <2>3. s = 0
      BY <2>1, <2>2, <1>2, Unique
    <2> QED BY <2>3, <1>3 DEF r, s
  <1>4. CASE r + 1 # M
    <2>1. M * q + (r + 1) = M * p + s
      BY <1>1, <1>2
    <2>2. q \in Int /\ p \in Int /\ r + 1 \in 0 .. M - 1
      BY <1>1, <1>2, <1>4
    <2>3. s = r + 1
      BY <2>1, <2>2, <1>2, Unique
    <2> QED BY <2>3, <1>4 DEF r, s
  <1> QED BY <1>3, <1>4 DEF r

\* A multiple more has the same remainder.
LEMMA ModMore ==
  ASSUME NEW M \in Nat \ {0}, NEW a \in Nat
  PROVE  (a + M) % M = a % M
  <1> DEFINE b == a + M
  <1>1. a = M * (a \div M) + (a % M) /\ a \div M \in Nat /\ a % M \in 0 .. M - 1
    BY DivMod
  <1>2. b \in Nat
    OBVIOUS
  <1> HIDE DEF b
  <1>3. b = M * (b \div M) + (b % M) /\ b \div M \in Nat /\ b % M \in 0 .. M - 1
    BY <1>2, DivMod
  <1>4. M * (a \div M + 1) + (a % M) = M * (b \div M) + (b % M)
    BY <1>1, <1>3 DEF b
  <1>5. (a \div M) + 1 \in Int /\ b \div M \in Int /\ a % M \in 0 .. M - 1 /\ b % M \in 0 .. M - 1
    BY <1>1, <1>3
  <1>6. a % M = b % M
    BY <1>4, <1>5, Unique
  <1> QED BY <1>6 DEF b

\* A number below the modulus is its own remainder.
LEMMA ModSmall ==
  ASSUME NEW M \in Nat \ {0}, NEW a \in 0 .. M - 1
  PROVE  a % M = a
  <1>1. a = M * (a \div M) + (a % M) /\ a \div M \in Nat /\ a % M \in 0 .. M - 1
    <2>1. a \in Nat
      OBVIOUS
    <2> QED BY <2>1, DivMod
  <1>2. M * 0 + a = M * (a \div M) + (a % M)
    BY <1>1
  <1> QED BY <1>1, <1>2, Unique

\* Numbers whose successors have one remainder have one.
LEMMA ModPred ==
  ASSUME NEW M \in Nat \ {0}, NEW a \in Nat, NEW b \in Nat,
         (a + 1) % M = (b + 1) % M
  PROVE  a % M = b % M
  <1>1. a % M \in 0 .. M - 1 /\ b % M \in 0 .. M - 1
    BY DivMod
  <1>2. /\ (a + 1) % M = IF (a % M) + 1 = M THEN 0 ELSE (a % M) + 1
        /\ (b + 1) % M = IF (b % M) + 1 = M THEN 0 ELSE (b % M) + 1
    BY ModSucc
  <1> DEFINE r == a % M
             s == b % M
             u == (a + 1) % M
             v == (b + 1) % M
  <1>3. u = v
    OBVIOUS
  <1> HIDE DEF r, s, u, v
  <1> QED BY <1>1, <1>2, <1>3 DEF r, s, u, v

-----------------------------------------------------------------------------
(* The counts.                                                             *)

Total == SumFunction(coro_count)
Alive == {c \in Coro : m_status[c] # "NONE"}

\* The coroutines are finitely many.
LEMMA AliveFinite == IsFiniteSet(Alive) /\ Cardinality(Alive) \in Nat
  BY FiniteAssumption, FS_Subset, FS_CardinalityType DEF Alive

\* A coroutine that is made is counted by the thread that makes it.
LEMMA CreateCounts ==
  ASSUME Inv, CountsAddUp, NEW t \in Thread, NEW c \in Coro, Create(t, c)
  PROVE  CountsAddUp'
  <1> DEFINE n == coro_count[t]
             e == coro_count'
             T == Total
             U == Total'
             k == Cardinality(Alive)
  <1>1. n \in 0 .. Modulus - 1 /\ Modulus \in Nat \ {0} /\ n \in Nat
    BY ModulusAssumption DEF Inv, TypeOK
  <1>2. /\ coro_count \in [Thread -> Nat] /\ e \in [Thread -> Nat]
        /\ e[t] = (n + 1) % Modulus /\ \A u \in Thread : u # t => e[u] = coro_count[u]
    <2>1. e = [coro_count EXCEPT ![t] = (n + 1) % Modulus]
      BY DEF Create, CountUp
    <2>2. coro_count \in [Thread -> 0 .. Modulus - 1]
      BY DEF Inv, TypeOK
    <2>3. e \in [Thread -> 0 .. Modulus - 1]
      BY <2>2, CountStep DEF Create, Inv
    <2> HIDE DEF n
    <2> QED BY <2>1, <2>2, <2>3, <1>1
  <1>3. T \in Nat /\ U \in Nat /\ U + n = T + e[t]
    <2> HIDE DEF e
    <2>1. U = SumFunction(e)
      BY DEF Total, e
    <2> QED BY <1>2, <2>1, FiniteAssumption, SumChanges DEF Total
  <1>4. k \in Nat /\ Cardinality(Alive') = k + 1
    <2>1. Alive' = Alive \cup {c} /\ c \notin Alive
      BY DEF Create, Alive, Inv, TypeOK
    <2> QED BY <2>1, AliveFinite, FS_AddElement
  <1>5. T % Modulus = k % Modulus
    BY DEF CountsAddUp, Total, Alive
  <1> HIDE DEF n, e, T, U, k
  <1>6. (T + 1) % Modulus = (k + 1) % Modulus
    <2>1. T \in Nat
      BY <1>3
    <2>2. (T + 1) % Modulus = IF (T % Modulus) + 1 = Modulus THEN 0 ELSE (T % Modulus) + 1
      BY <1>1, <2>1, ModSucc
    <2>3. (k + 1) % Modulus = IF (k % Modulus) + 1 = Modulus THEN 0 ELSE (k % Modulus) + 1
      BY <1>1, <1>4, ModSucc
    <2> QED BY <1>5, <2>2, <2>3
  <1>7. U % Modulus = (T + 1) % Modulus
    <2>1. e[t] = IF n + 1 = Modulus THEN 0 ELSE n + 1
      BY <1>1, <1>2, ModSucc, ModSmall
    <2>2. CASE n + 1 = Modulus
      <3>1. U + Modulus = T + 1
        BY <1>1, <1>3, <2>1, <2>2
      <3>2. (U + Modulus) % Modulus = U % Modulus
        BY <1>1, <1>3, ModMore
      <3> QED BY <3>1, <3>2
    <2>3. CASE n + 1 # Modulus
      <3>1. U = T + 1
        BY <1>1, <1>3, <2>1, <2>3
      <3> QED BY <3>1
    <2> QED BY <2>2, <2>3
  <1>8. U % Modulus = Cardinality(Alive') % Modulus
    BY <1>4, <1>6, <1>7
  <1> QED BY <1>8 DEF CountsAddUp, Total, Alive, U

\* A coroutine that is destroyed is counted out by the thread that does it.
LEMMA DestroyCounts ==
  ASSUME Inv, CountsAddUp, NEW t \in Thread, NEW c \in Coro, Destroy(t, c),
         m_status[c] \in {"DEAD", "ECPT"}
  PROVE  CountsAddUp'
  <1> DEFINE n == coro_count[t]
             e == coro_count'
             T == Total
             U == Total'
             k == Cardinality(Alive')
  <1>1. n \in 0 .. Modulus - 1 /\ Modulus \in Nat \ {0} /\ n \in Nat
    BY ModulusAssumption DEF Inv, TypeOK
  <1>2. /\ coro_count \in [Thread -> Nat] /\ e \in [Thread -> Nat]
        /\ e[t] = (n + Modulus - 1) % Modulus
        /\ \A u \in Thread : u # t => e[u] = coro_count[u]
    <2>1. e = [coro_count EXCEPT ![t] = (n + Modulus - 1) % Modulus]
      BY DEF Destroy, CountDown
    <2>2. coro_count \in [Thread -> 0 .. Modulus - 1]
      BY DEF Inv, TypeOK
    <2>3. e \in [Thread -> 0 .. Modulus - 1]
      BY <2>2, CountStep DEF Destroy, Inv
    <2> HIDE DEF n
    <2> QED BY <2>1, <2>2, <2>3, <1>1
  <1>3. T \in Nat /\ U \in Nat /\ U + n = T + e[t]
    <2> HIDE DEF e
    <2>1. U = SumFunction(e)
      BY DEF Total, e
    <2> QED BY <1>2, <2>1, FiniteAssumption, SumChanges DEF Total
  <1>4. k \in Nat /\ Cardinality(Alive) = k + 1
    <2>1. Alive' = Alive \ {c} /\ c \in Alive
      BY DEF Destroy, Alive, Inv, TypeOK
    <2>2. Cardinality(Alive') = Cardinality(Alive) - 1 /\ IsFiniteSet(Alive')
      BY <2>1, AliveFinite, FS_RemoveElement
    <2> QED BY <2>2, AliveFinite, FS_CardinalityType
  <1>5. T % Modulus = (k + 1) % Modulus
    BY <1>4 DEF CountsAddUp, Total, Alive
  <1> HIDE DEF n, e, T, U, k
  <1>6. (U + 1) % Modulus = T % Modulus
    <2>1. CASE n = 0
      <3>1. e[t] = Modulus - 1
        BY <1>1, <1>2, <2>1, ModSmall
      <3>2. U + 1 = T + Modulus
        BY <1>1, <1>3, <2>1, <3>1
      <3> QED BY <1>1, <1>3, <3>2, ModMore
    <2>2. CASE n # 0
      <3>1. n - 1 \in 0 .. Modulus - 1 /\ n + Modulus - 1 = (n - 1) + Modulus
        BY <1>1, <2>2
      <3>2. e[t] = n - 1
        <4> DEFINE p == n - 1
        <4>1. p \in Nat /\ p \in 0 .. Modulus - 1 /\ n + Modulus - 1 = p + Modulus
          BY <1>1, <3>1
        <4> HIDE DEF p
        <4>2. (p + Modulus) % Modulus = p
          BY <1>1, <4>1, ModMore, ModSmall
        <4> QED BY <1>2, <4>1, <4>2 DEF p
      <3>3. U + 1 = T
        BY <1>1, <1>3, <2>2, <3>2
      <3> QED BY <3>3
    <2> QED BY <2>1, <2>2
  <1>7. U % Modulus = k % Modulus
    <2>1. (U + 1) % Modulus = (k + 1) % Modulus
      BY <1>5, <1>6
    <2> QED BY <1>1, <1>3, <1>4, <2>1, ModPred
  <1> QED BY <1>7 DEF CountsAddUp, Total, Alive, U, k

\* Steps that count nothing.
LEMMA OthersCount ==
  ASSUME CountsAddUp, coro_count' = coro_count,
         \A c \in Coro : m_status'[c] = "NONE" <=> m_status[c] = "NONE"
  PROVE  CountsAddUp'
  <1>1. {c \in Coro : m_status[c] # "NONE"}' = {c \in Coro : m_status[c] # "NONE"}
    OBVIOUS
  <1> QED BY <1>1 DEF CountsAddUp

\* Every step.
LEMMA CountsStep == Inv /\ CountsAddUp /\ [Next]_vars => CountsAddUp'
  <1> SUFFICES ASSUME Inv, CountsAddUp, [Next]_vars PROVE CountsAddUp'
    OBVIOUS
  <1>1. ASSUME NEW t \in Thread, SetMain(t) PROVE CountsAddUp'
    BY <1>1, OthersCount DEF SetMain
  <1>2. ASSUME NEW t \in Thread, runs[t] \in Coro,
               NEW s \in {"SUSP", "DEAD", "ECPT", "RUNN"}, Leave(t, s)
        PROVE  CountsAddUp'
    BY <1>2, OthersCount DEF Leave, Fail, Inv, TypeOK, CurrentRuns
  <1>3. ASSUME NEW t \in Thread, NEW c \in Coro, Reset(t, c) \/ Resume(t, c)
        PROVE  CountsAddUp'
    BY <1>3, OthersCount DEF Reset, Resume, Fail, Inv, TypeOK
  <1>4. ASSUME NEW t \in Thread, NEW c \in Coro, Destroy(t, c) PROVE CountsAddUp'
    <2>1. CASE m_status[c] \notin {"DEAD", "ECPT"}
      BY <1>4, <2>1, OthersCount DEF Destroy, Fail
    <2> QED BY <1>4, <2>1, DestroyCounts
  <1>5. CASE UNCHANGED vars
    BY <1>5, OthersCount DEF vars
  <1> QED BY <1>1, <1>2, <1>3, <1>4, <1>5, CreateCounts DEF Next, Step, Over, Yield, End

(* Over all threads the counts give the number of coroutines, however many *)
(* are made by one thread and destroyed by another, and though counts wrap *)
(* below zero.                                                             *)
THEOREM CountsAreRight == Spec => []CountsAddUp
  <1>1. Init => CountsAddUp
    <2> SUFFICES ASSUME Init PROVE CountsAddUp
      OBVIOUS
    <2>1. Total = 0
      BY FiniteAssumption, ZeroSum DEF Init, Total
    <2>2. Cardinality(Alive) = 0
      <3>1. Alive = {}
        BY DEF Init, Alive
      <3> QED BY <3>1, FS_EmptySet
    <2> QED BY <2>1, <2>2 DEF CountsAddUp, Total, Alive
  <1> QED BY <1>1, CountsStep, Invariance, PTL DEF Spec
=============================================================================
