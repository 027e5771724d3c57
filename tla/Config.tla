------------------------------- MODULE Config -------------------------------
(***************************************************************************)
(* qc::Config: variables registered by name; LoadFromYaml, which gives     *)
(* them the values of a file, one after the other, and tells their         *)
(* listeners; fromString, which sets one of them; GetConfig, which reads   *)
(* them all.                                                               *)
(*                                                                         *)
(* Loads and readings take the lock of Config, and in it the lock of one   *)
(* variable after the other; fromString takes the lock of its variable     *)
(* only.  What is done under a variable's read lock is one action.         *)
(***************************************************************************)
EXTENDS Yaml

CONSTANTS
  Thread,
  Decl,      \* the calls of Create; the variable that a call makes
  Name, Type, Default,  \* their arguments: functions on Decl
  Order,     \* the order in which unordered_map has variables: a sequence
  Throwing,  \* those whose listener may throw
  Direct,    \* those that fromString is called for
  File,      \* the trees that may be loaded
  Text,      \* the trees that fromString may be given as text
  Garbage,   \* what an uninitialized level may be
  MaxCalls,  \* bound: number of calls of LoadFromYaml, fromString, GetConfig
  MaxSets,   \* bound: number of calls of setListener
  None

ASSUME BoundsAssumption == MaxCalls \in Nat /\ MaxSets \in Nat
ASSUME DeclAssumption == Throwing \cup Direct \subseteq Decl /\ None \notin Decl \cup Thread
ASSUME DefaultAssumption == Default = [d \in Decl |-> Default[d]]
ASSUME OrderAssumption == ToSet(Order) = Decl

Names == {Name[d] : d \in Decl}

VARIABLES
  m_vars,   \* the registered variable of a name
  handle,   \* what Create returned: a variable, or None for null
  created,  \* the calls of Create so far
  m_value, m_cb,  \* of each variable: its value; whether it has a listener
  writing,  \* the thread that holds a variable's write lock
  lock,     \* the lock of Config: its writer, and its readers' counts
  call,     \* what each thread is doing
  saved,    \* history: what GetConfig has answered
  told,     \* history: the value a variable's listener has last heard of
  torn,     \* history: the variables whose listener has thrown
  last,     \* history: the file of the last load
  calls, sets     \* bounded counters

registry == <<m_vars, handle, created>>
vars == <<registry, m_value, m_cb, writing, lock, call, saved, told, torn, last, calls, sets>>

Idle == [at |-> "idle", root |-> Null, todo |-> <<>>, values |-> <<>>,
         var |-> None, node |-> Null, new |-> <<>>]

TypeOK ==
  /\ m_vars \in [Names -> Decl \cup {None}]
  /\ handle \in [Decl -> Decl \cup {None}]
  /\ created \subseteq Decl
  /\ m_cb \in [Decl -> BOOLEAN]
  /\ writing \in [Decl -> Thread \cup {None}]
  /\ lock.writer \in Thread \cup {None}
  /\ lock.readers \in [Thread -> 0 .. 2]
  /\ \A t \in Thread :
       call[t].at \in {"idle", "lock", "next", "var", "tell", "assign", "unlock",
                       "read", "visit", "reading", "answer"}
  /\ torn \subseteq Throwing
  /\ calls \in 0 .. MaxCalls /\ sets \in 0 .. MaxSets

Init ==
  /\ m_vars = [n \in Names |-> None]
  /\ handle = [d \in Decl |-> None]
  /\ created = {}
  /\ m_value = Default
  /\ m_cb = [d \in Decl |-> FALSE]
  /\ writing = [d \in Decl |-> None]
  /\ lock = [writer |-> None, readers |-> [t \in Thread |-> 0]]
  /\ call = [t \in Thread |-> Idle]
  /\ saved = {}
  /\ told = m_value
  /\ torn = {}
  /\ last = Null
  /\ calls = 0 /\ sets = 0

Goto(t, label) == call' = [call EXCEPT ![t].at = label]
Return(t)      == call' = [call EXCEPT ![t] = Idle]
Registered     == {m_vars[n] : n \in Names} \ {None}

-----------------------------------------------------------------------------
(* RWMutex.  With glibc's default a reader passes a waiting writer.        *)

\* mutant of MayRead: a waiting writer comes first
MayReadAfterWriters == lock.writer = None /\ \A u \in Thread : call[u].at # "lock"
MayRead  == lock.writer = None
MayWrite == lock.writer = None /\ \A u \in Thread : lock.readers[u] = 0

ReadLock(t)  == MayRead /\ lock' = [lock EXCEPT !.readers[t] = @ + 1]
WriteLock(t) == MayWrite /\ lock' = [lock EXCEPT !.writer = t]
\* mutant of Unlock: the count of readers, whoever holds the lock
UnlockReader(t) == lock' = [lock EXCEPT !.readers[t] = @ - 1]
Unlock(t) ==
  lock' = IF lock.writer = t THEN [lock EXCEPT !.writer = None]
          ELSE [lock EXCEPT !.readers[t] = @ - 1]

-----------------------------------------------------------------------------
(* Create takes no lock: it initializes static variables, which it has     *)
(* done, in any order, before main() begins.                               *)

\* mutant of Find: the name is not looked up
FindNothing(d) == None
Find(d) == m_vars[Name[d]]

Create(d) ==
  /\ d \notin created
  /\ created' = created \cup {d}
  /\ IF Name[d] = <<>> \/ ~ ValidName(Name[d])
       THEN UNCHANGED <<m_vars, handle>>
     ELSE IF Find(d) # None
       THEN /\ handle' = [handle EXCEPT ![d] = IF Type[Find(d)] = Type[d] THEN Find(d) ELSE None]
            /\ UNCHANGED m_vars
     ELSE /\ m_vars' = [m_vars EXCEPT ![Name[d]] = d]
          /\ handle' = [handle EXCEPT ![d] = d]
  /\ UNCHANGED <<m_value, m_cb, writing, lock, call, saved, told, torn, last, calls, sets>>

\* A new listener is supposed to know the value.
SetListener(d) ==
  /\ d \in Registered
  /\ writing[d] = None
  /\ m_cb' = [m_cb EXCEPT ![d] = TRUE]
  /\ told' = [told EXCEPT ![d] = m_value[d]]
  /\ torn' = torn \ {d}
  /\ sets < MaxSets /\ sets' = sets + 1
  /\ UNCHANGED <<registry, m_value, writing, lock, call, saved, last, calls>>

RemoveListener(d) ==
  /\ d \in Registered
  /\ writing[d] = None
  /\ m_cb[d]
  /\ m_cb' = [m_cb EXCEPT ![d] = FALSE]
  /\ UNCHANGED <<registry, m_value, writing, lock, call, saved, told, torn, last, calls, sets>>

-----------------------------------------------------------------------------
(* fromNode and fromString, under the variable's write lock.               *)

Begin(t, c) ==
  /\ call[t].at = "idle" /\ created = Decl
  /\ calls < MaxCalls
  /\ calls' = calls + 1
  /\ call' = [call EXCEPT ![t] = c]
  /\ UNCHANGED <<registry, m_value, m_cb, writing, lock, saved, told, torn, last, sets>>

FromString(t, d, node) ==
  /\ d \in Registered
  /\ Begin(t, [Idle EXCEPT !.at = "var", !.var = d, !.node = node])

\* mutant of VarLock: without the lock
VarLockNone(t) == UNCHANGED writing
VarLock(t) ==
  /\ writing[call[t].var] = None
  /\ writing' = [writing EXCEPT ![call[t].var] = t]

\* mutant of IsNew: setValue does not compare
IsNewAlways(d, value) == TRUE
IsNew(d, value) == value # m_value[d]

\* mutant of Caught: the exception ends the whole load
CaughtTooLate(t) == [call[t] EXCEPT !.at = "unlock", !.todo = <<>>]
\* What is thrown by the decoder or by the listener is caught and logged.
Caught(t) == [call[t] EXCEPT !.at = "unlock"]

\* The node is decoded, and setValue compares the values.
SetBegin(t) ==
  /\ call[t].at = "var"
  /\ VarLock(t)
  /\ \E garbage \in Garbage :
       LET d == call[t].var
           outcome == Decode(Type[d], call[t].node, garbage)
       IN  call' = [call EXCEPT ![t] =
             IF ~ outcome.ok THEN Caught(t)
             ELSE IF ~ IsNew(d, outcome.value) THEN [@ EXCEPT !.at = "unlock"]
             ELSE [@ EXCEPT !.at = IF m_cb[d] THEN "tell" ELSE "assign",
                            !.new = outcome.value]]
  /\ UNCHANGED <<registry, m_value, m_cb, lock, saved, told, torn, last, calls, sets>>

Tell(t) ==
  /\ call[t].at = "tell"
  /\ told' = [told EXCEPT ![call[t].var] = call[t].new]
  /\ UNCHANGED <<registry, m_value, m_cb, writing, lock, saved, last, calls, sets>>

TellReturns(t) == Tell(t) /\ Goto(t, "assign") /\ UNCHANGED torn

TellThrows(t) ==
  /\ Tell(t)
  /\ call[t].var \in Throwing
  /\ torn' = torn \cup {call[t].var}
  /\ call' = [call EXCEPT ![t] = Caught(t)]

Assign(t) ==
  /\ call[t].at = "assign"
  /\ m_value' = [m_value EXCEPT ![call[t].var] = call[t].new]
  /\ Goto(t, "unlock")
  /\ UNCHANGED <<registry, m_cb, writing, lock, saved, told, torn, last, calls, sets>>

\* fromNode returns to LoadFromYaml, which holds the lock of Config.
VarUnlock(t) ==
  /\ call[t].at = "unlock"
  /\ writing' = [writing EXCEPT ![call[t].var] = None]
  /\ call' = [call EXCEPT ![t] =
       IF lock.writer = t THEN [@ EXCEPT !.at = "next", !.var = None, !.node = Null, !.new = <<>>]
       ELSE Idle]
  /\ UNCHANGED <<registry, m_value, m_cb, lock, saved, told, torn, last, calls, sets>>

-----------------------------------------------------------------------------
(* LoadFromYaml.                                                           *)

\* The traversal, made under the lock, depends on the argument only.
LoadFromYaml(t, root) ==
  Begin(t, [Idle EXCEPT !.at = "lock", !.root = root, !.todo = TraversalYaml(root)])

LoadLock(t) ==
  /\ call[t].at = "lock"
  /\ WriteLock(t)
  /\ call' = [call EXCEPT ![t].at = "next", ![t].values = m_value]
  /\ UNCHANGED <<registry, m_value, m_cb, writing, saved, told, torn, last, calls, sets>>

Wanted(named) ==
  /\ named.name \in Names /\ m_vars[named.name] # None
  /\ named.node # Null

\* The next named node; only one that a variable wants stops here.
LoadNext(t) ==
  /\ call[t].at = "next"
  /\ \E i \in DOMAIN call[t].todo :
       /\ Wanted(call[t].todo[i])
       /\ \A j \in 1 .. i - 1 : ~ Wanted(call[t].todo[j])
       /\ call' = [call EXCEPT ![t] =
            [@ EXCEPT !.at = "var", !.var = m_vars[call[t].todo[i].name],
                      !.node = call[t].todo[i].node, !.todo = SubSeq(@, i + 1, Len(@))]]
  /\ UNCHANGED <<registry, m_value, m_cb, writing, lock, saved, told, torn, last, calls, sets>>

LoadUnlock(t) ==
  /\ call[t].at = "next"
  /\ \A i \in DOMAIN call[t].todo : ~ Wanted(call[t].todo[i])
  /\ Unlock(t)
  /\ last' = call[t].root
  /\ Return(t)
  /\ UNCHANGED <<registry, m_value, m_cb, writing, saved, told, torn, calls, sets>>

-----------------------------------------------------------------------------
(* GetConfig, and Visit, which takes the read lock a second time.          *)

GetConfig(t) == Begin(t, [Idle EXCEPT !.at = "read"])

Reading(t, from, to) ==
  /\ call[t].at = from
  /\ Goto(t, to)
  /\ UNCHANGED <<registry, m_value, m_cb, writing, saved, told, torn, last, calls, sets>>

GetLock(t) == ReadLock(t) /\ Reading(t, "read", "visit")

\* Visit copies the map; values holds those read so far.
VisitLock(t) == ReadLock(t) /\ Reading(t, "visit", "reading")

ToVisit(t) == Registered \ DOMAIN call[t].values
IsNext(t, d) ==
  \E i \in DOMAIN Order : Order[i] = d /\ \A j \in 1 .. i - 1 : Order[j] \notin ToVisit(t)

\* toNode, under the variable's read lock.
VisitVar(t) ==
  /\ call[t].at = "reading"
  /\ \E d \in ToVisit(t) :
       /\ IsNext(t, d)
       /\ writing[d] = None
       /\ call' = [call EXCEPT ![t] =
            [@ EXCEPT !.todo = Append(@, Pair(Name[d], Encode(Type[d], m_value[d]))),
                      !.values = [e \in DOMAIN @ \cup {d} |->
                                    IF e = d THEN m_value[d] ELSE @[e]]]]
  /\ UNCHANGED <<registry, m_value, m_cb, writing, lock, saved, told, torn, last, calls, sets>>

VisitUnlock(t) ==
  /\ ToVisit(t) = {}
  /\ Unlock(t)
  /\ Reading(t, "reading", "answer")

Answer(t) ==
  /\ call[t].at = "answer"
  /\ Unlock(t)
  /\ saved' = saved \cup {[root |-> Map(call[t].todo), values |-> call[t].values]}
  /\ Return(t)
  /\ UNCHANGED <<registry, m_value, m_cb, writing, told, torn, last, calls, sets>>

-----------------------------------------------------------------------------
Setting(t) == SetBegin(t) \/ TellReturns(t) \/ TellThrows(t) \/ Assign(t) \/ VarUnlock(t)

Step(t) ==
  \/ Setting(t)
  \/ LoadLock(t) \/ LoadNext(t) \/ LoadUnlock(t)
  \/ GetLock(t) \/ VisitLock(t) \/ VisitVar(t) \/ VisitUnlock(t) \/ Answer(t)

Call(t) ==
  \/ \E root \in File \cup {r.root : r \in saved} : LoadFromYaml(t, root)
  \/ \E d \in Direct, node \in Text : FromString(t, d, node)
  \/ GetConfig(t)

\* No call is left.
Terminating == calls = MaxCalls /\ (\A t \in Thread : call[t].at = "idle") /\ UNCHANGED vars

Next ==
  \/ Terminating
  \/ \E d \in Decl : Create(d) \/ SetListener(d) \/ RemoveListener(d)
  \/ \E t \in Thread : Call(t) \/ Step(t)

Spec == Init /\ [][Next]_vars

-----------------------------------------------------------------------------
(* What Settings says, of the variables that only loads change.  A load    *)
(* takes effect when it gives the lock of Config back.                     *)

Loaded == Decl \ Direct

Settled ==
  [d \in Registered \cap Loaded |->
     IF lock.writer = None THEN m_value[d] ELSE call[lock.writer].values[d]]

\* What the nodes with d's name offer it, in their order.
OffersOf(root, d) ==
  LET wanted  == SelectSeq(TraversalYaml(root),
                           LAMBDA n : n.name = Name[d] /\ n.node # Null)
      offered == [i \in DOMAIN wanted |->
                    {o \in {Decode(Type[d], wanted[i].node, g) : g \in Garbage} : o.ok}]
  IN  SelectSeq([i \in DOMAIN offered |-> {o.value : o \in offered[i]}],
                LAMBDA s : s # {})
Offers == [root \in File |-> [d \in Decl |-> OffersOf(root, d)]]

\* An empty container is written as null, and null is not loaded or not
\* decoded; what is written of one variable may bear the name of another.
HasEmpty(d, value) ==
  CASE Type[d] = "int"  -> FALSE
    [] Type[d] = "list" -> value = <<>>
    [] Type[d] = "set"  -> value = {}
    [] Type[d] = "logs" -> DOMAIN value = {} \/ \E key \in DOMAIN value :
                                                  value[key].appenders = <<>>
Shadowed(reading, d) ==
  \E e \in DOMAIN reading \ {d} :
    \E named \in ToSet(TraversalYaml(Encode(Type[e], reading[e]))) :
      Name[d] = Name[e] \o named.name
Restorable(reading, d) == ~ HasEmpty(d, reading[d]) /\ ~ Shadowed(reading, d)

Abstract == INSTANCE Settings WITH
  Decl <- Loaded, settings <- Settled,
  readings <- {[d \in DOMAIN r.values \cap Loaded |-> r.values[d]] : r \in saved}

(* A load is atomic for those who read the whole configuration, one bad    *)
(* entry or throwing listener costs no other variable its value, a reading *)
(* is a snapshot, and loading a reading restores it, empty containers      *)
(* apart (config.cpp:22-58, config.h:205-228).                             *)
IsSettings == Abstract!Spec

(* While nobody is setting a variable, its value is the one its listener   *)
(* was last told, unless the listener has thrown: the listener is called   *)
(* before the value is assigned, and must not be overtaken by another      *)
(* setter or added in between (config.h:233-241).                          *)
ToldIsValue ==
  \A d \in Decl : m_cb[d] /\ d \notin torn /\ writing[d] = None => told[d] = m_value[d]

(* However often a name is created, all who got a variable for it share    *)
(* the one that loads reach (config.h:283-300).                            *)
OneVariable ==
  \A d \in Decl : handle[d] # None =>
    handle[d] = m_vars[Name[d]] /\ Type[handle[d]] = Type[d]

\* A file that gives the variable no two values, and leaves out no level.
Definite(root, d) ==
  LET offers == OffersOf(root, d)
  IN  Len(offers) <= 1 /\ \A i \in DOMAIN offers : Cardinality(offers[i]) = 1

(* Loading the file of the last load again tells no listener anything,     *)
(* unless the file leaves a level to chance or names the variable twice,   *)
(* or the listener may throw (config.h:234, log_config.h:79-81).           *)
ReloadIsQuiet ==
  [][\A t \in Thread : call[t].at = "tell" /\ call'[t].at # "tell" =>
       LET d == call[t].var IN
         \/ d \in Direct \cup Throwing
         \/ call[t].root # last
         \/ ~ Definite(last, d)]_vars

Waits(t) ==
  \/ call[t].at = "lock" /\ ~ MayWrite
  \/ call[t].at \in {"read", "visit"} /\ ~ MayRead
  \/ call[t].at = "var" /\ writing[call[t].var] # None
  \/ call[t].at = "reading" /\ \E d \in ToVisit(t) : IsNext(t, d) /\ writing[d] # None

(* The calls under way never all wait for one another, although a reading  *)
(* takes the lock of Config twice and, like a load, holds it while it      *)
(* waits for variables (config.cpp:23, 32, 53).                            *)
SomeoneMoves ==
  (\E t \in Thread : call[t].at # "idle") =>
    \E t \in Thread : call[t].at # "idle" /\ ~ Waits(t)
=============================================================================
