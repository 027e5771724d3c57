------------------------------ MODULE Coroutine ------------------------------
(***************************************************************************)
(* qc::coroutine::Coroutine: functions with a stack of their own that any  *)
(* thread may resume, and that yield to the thread.  A thread has one      *)
(* context to go back to, *t_main_ctx: resume() saves there whoever calls  *)
(* it, the thread's own code or another coroutine, and a coroutine that    *)
(* yields or ends goes on there.                                           *)
(*                                                                         *)
(* One action is one call, with the switch of contexts it ends in: nobody  *)
(* passes a coroutine on before its resume() has returned (scheduler.cpp:  *)
(* 124-129), so the moment between the mark and the switch is not seen.    *)
(***************************************************************************)
EXTENDS Naturals, FiniteSets, Functions

CONSTANTS
  Thread,
  Coro,   \* the Coroutine objects
  Main,   \* the code a thread runs outside of coroutines
  None,   \* a null pointer
  Modulus \* what coro_count is counted modulo (2^64 in the code)

ASSUME DistinctAssumption == {Main, None} \cap Coro = {} /\ Main # None
ASSUME ModulusAssumption == Modulus \in Nat \ {0}
ASSUME FiniteAssumption == IsFiniteSet(Thread) /\ IsFiniteSet(Coro)

VARIABLES
  m_status,    \* status of a coroutine, "NONE" when there is no such object
  main_ctx,    \* per thread: who goes on in *t_main_ctx; None: setMain() not called
  t_cur_coro,  \* per thread: the current coroutine
  coro_count,  \* per thread: the count of coroutines
  runs,        \* per thread: whose code its processor runs
  resumer,     \* history: who has called the last resume() of a coroutine
  crashed      \* why the process died, or None

ctxVars == <<main_ctx, t_cur_coro, runs, resumer>>
vars == <<m_status, ctxVars, coro_count, crashed>>

Party  == Coro \cup {Main}
Status == {"NONE", "RADY", "RUNN", "SUSP", "DEAD", "ECPT"}
Crash  == {"no current coroutine", "cannot resume", "cannot reset", "cannot deconstruct"}

TypeOK ==
  /\ m_status \in [Coro -> Status]
  /\ main_ctx \in [Thread -> Party \cup {None}]
  /\ t_cur_coro \in [Thread -> Coro \cup {None}]
  /\ coro_count \in [Thread -> 0 .. Modulus - 1]
  /\ runs \in [Thread -> Party]
  /\ resumer \in [Coro -> Party \cup {None}]
  /\ crashed \in Crash \cup {None}

Init ==
  /\ m_status = [c \in Coro |-> "NONE"]
  /\ main_ctx = [t \in Thread |-> None]
  /\ t_cur_coro = [t \in Thread |-> None]
  /\ coro_count = [t \in Thread |-> 0]
  /\ runs = [t \in Thread |-> Main]
  /\ resumer = [c \in Coro |-> None]
  /\ crashed = None

-----------------------------------------------------------------------------
Fail(why) == crashed' = why /\ UNCHANGED <<m_status, ctxVars, coro_count>>

\* The thread passes a context that getcontext() has filled in.
SetMain(t) ==
  /\ main_ctx[t] = None
  /\ main_ctx' = [main_ctx EXCEPT ![t] = Main]
  /\ UNCHANGED <<m_status, t_cur_coro, runs, resumer, coro_count, crashed>>

CountUp(t) == coro_count' = [coro_count EXCEPT ![t] = (@ + 1) % Modulus]

\* The constructor.  A destroyed object's memory may become a new one.
Create(t, c) ==
  /\ m_status[c] = "NONE"
  /\ m_status' = [m_status EXCEPT ![c] = "RADY"]
  /\ CountUp(t)
  /\ UNCHANGED <<ctxVars, crashed>>

CountDownSigned(t) == coro_count' = [coro_count EXCEPT ![t] = @ - 1]  \* mutant: signed
CountStopsAtZero(t) == coro_count' = [coro_count EXCEPT ![t] = IF @ = 0 THEN 0 ELSE @ - 1]  \* mutant
CountDown(t) == coro_count' = [coro_count EXCEPT ![t] = (@ + Modulus - 1) % Modulus]

\* The destructor asserts that the coroutine has ended, and frees its stack.
Destroy(t, c) ==
  /\ m_status[c] # "NONE"
  /\ IF m_status[c] \in {"DEAD", "ECPT"}
       THEN /\ m_status' = [m_status EXCEPT ![c] = "NONE"]
            /\ CountDown(t)
            /\ UNCHANGED <<ctxVars, crashed>>
       ELSE Fail("cannot deconstruct")

MayResetAny(c) == m_status[c] # "NONE"  \* mutant of MayReset: a running one too
MayReset(c) == m_status[c] # "RUNN"

\* reset() gives the coroutine another callable and an empty stack.
Reset(t, c) ==
  /\ m_status[c] # "NONE"
  /\ IF MayReset(c)
       THEN /\ m_status' = [m_status EXCEPT ![c] = "RADY"]
            /\ UNCHANGED <<ctxVars, coro_count, crashed>>
       ELSE Fail("cannot reset")

SetThis(t, c) == t_cur_coro' = [t_cur_coro EXCEPT ![t] = c]

\* resume(), called by whoever runs on the thread, whoever is in *t_main_ctx.
Resume(t, c) ==
  /\ main_ctx[t] # None
  /\ m_status[c] # "NONE"
  /\ IF m_status[c] \in {"RADY", "SUSP"}
       THEN /\ m_status' = [m_status EXCEPT ![c] = "RUNN"]
            /\ SetThis(t, c)
            /\ main_ctx' = [main_ctx EXCEPT ![t] = runs[t]]
            /\ runs' = [runs EXCEPT ![t] = c]
            /\ resumer' = [resumer EXCEPT ![c] = runs[t]]
            /\ UNCHANGED <<coro_count, crashed>>
       ELSE Fail("cannot resume")

ForgetNothing(t) == UNCHANGED t_cur_coro  \* mutant of Forget: setThis(nullptr) left out
Forget(t) == t_cur_coro' = [t_cur_coro EXCEPT ![t] = None]

\* The current coroutine, read from t_cur_coro, gets status s and gives way
\* to who is in *t_main_ctx.
Leave(t, s) ==
  IF t_cur_coro[t] = None
    THEN Fail("no current coroutine")
    ELSE /\ m_status' = [m_status EXCEPT ![t_cur_coro[t]] = s]
         /\ Forget(t)
         /\ runs' = [runs EXCEPT ![t] = main_ctx[t]]
         /\ UNCHANGED <<main_ctx, resumer, coro_count, crashed>>

\* getThis()->yield().
Yield(t) == runs[t] \in Coro /\ Leave(t, "SUSP")

\* trampoline(), when the callable returns, throws a std::exception, or
\* throws something else.
End(t) ==
  /\ runs[t] \in Coro
  /\ \/ Leave(t, "DEAD")
     \/ Leave(t, "ECPT")
     \/ Leave(t, "RUNN")

-----------------------------------------------------------------------------
Step(t) ==
  \/ SetMain(t) \/ Yield(t) \/ End(t)
  \/ \E c \in Coro : Create(t, c) \/ Destroy(t, c) \/ Reset(t, c) \/ Resume(t, c)

\* The process is dead.
Over == crashed # None /\ UNCHANGED vars

Next == (crashed = None /\ \E t \in Thread : Step(t)) \/ Over

Spec == Init /\ [][Next]_vars

-----------------------------------------------------------------------------
\* The current coroutine runs, and *t_main_ctx is its resumer's.
CurrentRuns ==
  \A t \in Thread : LET c == t_cur_coro[t] IN
    c # None => runs[t] = c /\ m_status[c] = "RUNN" /\ main_ctx[t] = resumer[c]

\* A coroutine that is not the current one has taken the thread's place in
\* *t_main_ctx: its next yield(), or its end, dereferences a null pointer.
OnlyNestingLosesThis ==
  \A t \in Thread : runs[t] \in Coro /\ t_cur_coro[t] = None => main_ctx[t] = runs[t]

(* The coroutine that getThis() answers is the one whose code runs on the  *)
(* thread, and *t_main_ctx is where the caller of its resume() goes on, be *)
(* that the thread or another coroutine, on whatever thread it was before: *)
(* so when it yields or ends, resume() returns.  Only a coroutine that has *)
(* resumed another one itself has no way back (coroutine.cpp:45, 52-79).   *)
BackToResumer == CurrentRuns /\ OnlyNestingLosesThis

(* A coroutine whose status lets resume(), reset() or the destructor touch *)
(* its context and stack is at rest: it runs on no thread, and no thread   *)
(* will go back to it (coroutine.cpp:32, 60, 82).                          *)
AtRest ==
  \A c \in Coro : m_status[c] # "RUNN" =>
    \A t \in Thread : runs[t] # c /\ main_ctx[t] # c

(* The counts of all threads add up to the number of coroutines, modulo    *)
(* what they wrap at, though the count of one thread falls below zero when *)
(* a coroutine made by another is destroyed on it (coroutine.cpp:14, 38).  *)
CountsAddUp ==
  SumFunction(coro_count) % Modulus =
    Cardinality({c \in Coro : m_status[c] # "NONE"}) % Modulus

=============================================================================
