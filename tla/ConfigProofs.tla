---------------------------- MODULE ConfigProofs ----------------------------
(***************************************************************************)
(* Theorems about Config: types, the variable that a name stands for, what *)
(* listeners know, and that calls never all wait for one another, for any  *)
(* variables, files, threads and numbers of calls.                         *)
(***************************************************************************)
EXTENDS Config, TLAPS

-----------------------------------------------------------------------------
(* The inductive invariant.                                                *)

\* The parts of a setting, under the variable's write lock, and of a load.
Set  == {"tell", "assign", "unlock"}
Load == {"next", "var"} \cup Set
Read == {"visit", "reading", "answer"}

Field == {"at", "root", "todo", "values", "var", "node", "new"}
IsCall(c) ==
  /\ c = [field \in Field |-> c[field]]
  /\ c.at \in {"idle", "lock", "read"} \cup Load \cup Read
  /\ c.at \in {"var"} \cup Set => c.var \in Decl

Typed ==
  /\ m_vars \in [Names -> Decl \cup {None}]
  /\ handle \in [Decl -> Decl \cup {None}]
  /\ created \subseteq Decl
  /\ m_value = [d \in Decl |-> m_value[d]]
  /\ told = [d \in Decl |-> told[d]]
  /\ m_cb \in [Decl -> BOOLEAN]
  /\ writing \in [Decl -> Thread \cup {None}]
  /\ lock \in [writer : Thread \cup {None}, readers : [Thread -> 0 .. 2]]
  /\ call = [t \in Thread |-> call[t]]
  /\ \A t \in Thread : IsCall(call[t])
  /\ torn \subseteq Throwing
  /\ calls \in 0 .. MaxCalls /\ sets \in 0 .. MaxSets

\* The lock of Config is held by a load, or by readings, once or twice each.
LockHeld ==
  /\ \A t \in Thread :
       /\ lock.writer = t => call[t].at \in Load
       /\ call[t].at = "next" => lock.writer = t
       /\ lock.readers[t] = IF call[t].at \in {"visit", "answer"} THEN 1
                            ELSE IF call[t].at = "reading" THEN 2 ELSE 0
  /\ lock.writer # None => \A t \in Thread : lock.readers[t] = 0

\* The write lock of a variable is held by the one call that sets it.
VarHeld ==
  /\ \A t \in Thread : call[t].at \in Set => writing[call[t].var] = t
  /\ \A d \in Decl, t \in Thread :
       writing[d] = t => call[t].at \in Set /\ call[t].var = d

\* A listener knows the value, or the one that is about to be assigned.
Knows(d) ==
  m_cb[d] /\ d \notin torn =>
    told[d] = IF writing[d] # None /\ call[writing[d]].at = "assign"
              THEN call[writing[d]].new ELSE m_value[d]
Told == \A d \in Decl : Knows(d)

Inv == Typed /\ OneVariable /\ LockHeld /\ VarHeld /\ Told

\* At first nothing is registered, held or under way.
LEMMA InvInit == Init => Inv
  <1> SUFFICES ASSUME Init PROVE Inv
    OBVIOUS
  <1>1. IsCall(Idle)
    BY DEF IsCall, Field, Idle, Load, Read, Set
  <1>2. \A t \in Thread : call[t] = Idle /\ call[t].at = "idle"
    BY DEF Init, Idle
  <1>3. Typed
    BY <1>1, BoundsAssumption, DefaultAssumption DEF Init, Typed
  <1>4. OneVariable
    BY DEF Init, OneVariable
  <1>5. LockHeld
    BY <1>2, DeclAssumption DEF Init, LockHeld, Load, Read
  <1>6. VarHeld
    BY <1>2, DeclAssumption DEF Init, VarHeld, Set
  <1>7. Told
    BY DEF Init, Told, Knows
  <1> QED BY <1>3, <1>4, <1>5, <1>6, <1>7 DEF Inv

-----------------------------------------------------------------------------
(* Registration and listeners.                                             *)

\* Only what was created is registered.
LEMMA RegisteredAreDecl == Typed => Registered \subseteq Decl
  BY DEF Typed, Registered

\* A name keeps the variable that was registered for it first.
LEMMA CreateKeeps ==
  ASSUME Inv, NEW d \in Decl, Create(d)
  PROVE  Inv'
  <1> USE DEF Inv
  <1>1. UNCHANGED <<m_value, m_cb, writing, lock, call, told, torn, calls, sets>>
    BY DEF Create
  <1>2. Name[d] \in Names
    BY DEF Names
  <1>3. /\ m_vars' \in [Names -> Decl \cup {None}] /\ handle' \in [Decl -> Decl \cup {None}]
        /\ created' \subseteq Decl
    BY <1>2 DEF Create, Find, Typed
  <1>4. Typed'
    BY <1>1, <1>3 DEF Typed
  <1>5. OneVariable'
    BY <1>2, DeclAssumption DEF Create, Find, Typed, OneVariable, Names
  <1>6. LockHeld' /\ VarHeld' /\ Told'
    BY <1>1 DEF LockHeld, VarHeld, Told, Knows
  <1> QED BY <1>4, <1>5, <1>6

\* Listeners come and go while nobody sets the variable.
LEMMA ListenerKeeps ==
  ASSUME Inv, NEW d \in Decl, SetListener(d) \/ RemoveListener(d)
  PROVE  Inv'
  <1> USE DEF Inv
  <1>1. UNCHANGED <<m_vars, handle, created, m_value, writing, lock, call, calls>>
    BY DEF SetListener, RemoveListener, registry
  <1>2. m_cb' \in [Decl -> BOOLEAN]
    BY DEF SetListener, RemoveListener, Typed
  <1>3. told' = [e \in Decl |-> told'[e]] /\ torn' \subseteq Throwing /\ sets' \in 0 .. MaxSets
    BY BoundsAssumption DEF SetListener, RemoveListener, Typed
  <1>4. Typed'
    BY <1>1, <1>2, <1>3 DEF Typed
  <1>5. OneVariable' /\ LockHeld' /\ VarHeld'
    BY <1>1 DEF OneVariable, LockHeld, VarHeld
  <1>6. Told'
    <2> SUFFICES ASSUME NEW e \in Decl, m_cb'[e], e \notin torn'
                 PROVE  told'[e] = IF writing[e] # None /\ call[writing[e]].at = "assign"
                                   THEN call[writing[e]].new ELSE m_value[e]
      BY <1>1 DEF Told, Knows
    <2>1. CASE SetListener(d)
      BY <2>1 DEF SetListener, Typed, Told, Knows
    <2>2. CASE RemoveListener(d)
      BY <2>2 DEF RemoveListener, Typed, Told, Knows
    <2> QED BY <2>1, <2>2
  <1> QED BY <1>4, <1>5, <1>6

-----------------------------------------------------------------------------
(* Calls.                                                                  *)

\* A call begins without a lock.
LEMMA BeginKeeps ==
  ASSUME Inv, NEW t \in Thread, NEW c, Begin(t, c), IsCall(c), c.at \in {"var", "lock", "read"}
  PROVE  Inv'
  <1> USE DEF Inv
  <1>1. /\ call[t].at = "idle" /\ call' = [call EXCEPT ![t] = c]
        /\ calls < MaxCalls /\ calls' = calls + 1
        /\ UNCHANGED <<m_vars, handle, created, m_value, m_cb, writing, lock, told, torn, sets>>
    BY DEF Begin, registry
  <1>2. Typed'
    <2>1. /\ call' = [u \in Thread |-> call'[u]]
          /\ \A u \in Thread : call'[u] = IF u = t THEN c ELSE call[u]
      BY <1>1 DEF Typed
    <2>2. \A u \in Thread : IsCall(call'[u])
      BY <2>1 DEF Typed
    <2>3. \A u \in Thread : IsCall(call[u])'
      BY <2>2 DEF IsCall
    <2> QED BY <1>1, <2>1, <2>3, BoundsAssumption DEF Typed
  <1>3. OneVariable'
    BY <1>1 DEF OneVariable
  <1>4. LockHeld'
    BY <1>1 DEF Typed, LockHeld, Load, Set
  <1>5. VarHeld'
    BY <1>1 DEF Typed, VarHeld, Set
  <1>6. Told'
    BY <1>1 DEF Typed, VarHeld, Told, Knows, Set
  <1> QED BY <1>2, <1>3, <1>4, <1>5, <1>6

\* What begins is a call: one at its lock, one with a variable, or a reading.
LEMMA BeginIsCall ==
  ASSUME NEW c, IsCall(c)
  PROVE  /\ \A root, todo : IsCall([c EXCEPT !.at = "lock", !.root = root, !.todo = todo])
         /\ \A d \in Decl : \A node : IsCall([c EXCEPT !.at = "var", !.var = d, !.node = node])
         /\ IsCall([c EXCEPT !.at = "read"])
  <1>1. ASSUME NEW root, NEW todo
        PROVE  IsCall([c EXCEPT !.at = "lock", !.root = root, !.todo = todo])
    <2> DEFINE b == [c EXCEPT !.at = "lock", !.root = root, !.todo = todo]
    <2>1. b = [field \in Field |-> b[field]]
      BY DEF IsCall
    <2>2. b.at = "lock"
      BY DEF IsCall, Field
    <2> HIDE DEF b
    <2>3. IsCall(b)
      BY <2>1, <2>2 DEF IsCall, Set
    <2> QED BY <2>3 DEF b
  <1>2. ASSUME NEW d \in Decl, NEW node
        PROVE  IsCall([c EXCEPT !.at = "var", !.var = d, !.node = node])
    <2> DEFINE b == [c EXCEPT !.at = "var", !.var = d, !.node = node]
    <2>1. b = [field \in Field |-> b[field]]
      BY DEF IsCall
    <2>2. b.at = "var" /\ b.var = d
      BY DEF IsCall, Field
    <2> HIDE DEF b
    <2>3. IsCall(b)
      BY <2>1, <2>2 DEF IsCall, Load
    <2> QED BY <2>3 DEF b
  <1>3. IsCall([c EXCEPT !.at = "read"])
    BY DEF IsCall, Field, Load, Set
  <1> QED BY <1>1, <1>2, <1>3

\* Each of the three calls.
LEMMA CallKeeps ==
  ASSUME Inv, NEW t \in Thread, Call(t)
  PROVE  Inv'
  <1>1. IsCall(Idle)
    BY DEF IsCall, Field, Idle, Set
  <1>2. ASSUME NEW root, LoadFromYaml(t, root) PROVE Inv'
    <2> DEFINE b == [Idle EXCEPT !.at = "lock", !.root = root, !.todo = TraversalYaml(root)]
    <2>1. Begin(t, b)
      BY <1>2 DEF LoadFromYaml
    <2>2. IsCall(b) /\ b.at = "lock"
      BY <1>1, BeginIsCall DEF Idle
    <2> HIDE DEF b
    <2> QED BY <2>1, <2>2, BeginKeeps
  <1>3. ASSUME NEW d \in Decl, NEW node, FromString(t, d, node) PROVE Inv'
    <2> DEFINE b == [Idle EXCEPT !.at = "var", !.var = d, !.node = node]
    <2>1. Begin(t, b)
      BY <1>3 DEF FromString
    <2>2. IsCall(b) /\ b.at = "var"
      BY <1>1, BeginIsCall DEF Idle
    <2> HIDE DEF b
    <2> QED BY <2>1, <2>2, BeginKeeps
  <1>4. ASSUME GetConfig(t) PROVE Inv'
    <2> DEFINE b == [Idle EXCEPT !.at = "read"]
    <2>1. Begin(t, b)
      BY <1>4 DEF GetConfig
    <2>2. IsCall(b) /\ b.at = "read"
      BY <1>1, BeginIsCall DEF Idle
    <2> HIDE DEF b
    <2> QED BY <2>1, <2>2, BeginKeeps
  <1> QED BY <1>2, <1>3, <1>4, DeclAssumption DEF Call

-----------------------------------------------------------------------------
(* The steps of a call.  One changes one call, to c.                       *)

\* A call that is changed field by field is a call.
LEMMA ChangeIsCall ==
  ASSUME NEW c, IsCall(c)
  PROVE  /\ \A label \in {"idle", "lock", "read", "next"} \cup Read : IsCall([c EXCEPT !.at = label])
         /\ c.var \in Decl => \A label \in Set : IsCall([c EXCEPT !.at = label])
  <1>1. ASSUME NEW label \in {"idle", "lock", "read", "next"} \cup Read
        PROVE  IsCall([c EXCEPT !.at = label])
    BY DEF IsCall, Field, Load, Set, Read
  <1>2. ASSUME NEW label \in Set, c.var \in Decl
        PROVE  IsCall([c EXCEPT !.at = label])
    BY <1>2 DEF IsCall, Field, Load, Set
  <1> QED BY <1>1, <1>2

\* Types, and what names stand for, when the rest keeps its type.
LEMMA StepTypes ==
  ASSUME Inv, NEW t \in Thread, NEW c, IsCall(c), call' = [call EXCEPT ![t] = c],
         m_value' = [d \in Decl |-> m_value'[d]], told' = [d \in Decl |-> told'[d]],
         writing' \in [Decl -> Thread \cup {None}],
         lock' \in [writer : Thread \cup {None}, readers : [Thread -> 0 .. 2]],
         torn' \subseteq Throwing, UNCHANGED <<m_vars, handle, created, m_cb, calls, sets>>
  PROVE  /\ Typed' /\ OneVariable'
         /\ \A u \in Thread : call'[u] = IF u = t THEN c ELSE call[u]
  <1> USE DEF Inv
  <1>1. /\ call' = [u \in Thread |-> call'[u]]
        /\ \A u \in Thread : call'[u] = IF u = t THEN c ELSE call[u]
    BY DEF Typed
  <1>2. \A u \in Thread : IsCall(call'[u])
    BY <1>1 DEF Typed
  <1>3. \A u \in Thread : IsCall(call[u])'
    BY <1>2 DEF IsCall
  <1>4. Typed'
    BY <1>1, <1>3 DEF Typed
  <1>5. OneVariable'
    BY DEF OneVariable
  <1> QED BY <1>1, <1>4, <1>5

\* What the listener of a variable knows while this call does not set it.
LEMMA StepKnows ==
  ASSUME Inv, NEW t \in Thread, NEW c,
         \A u \in Thread : call'[u] = IF u = t THEN c ELSE call[u],
         NEW e \in Decl, writing[e] # t,
         UNCHANGED <<writing[e], told[e], m_value[e], m_cb[e]>>, e \in torn' <=> e \in torn
  PROVE  Knows(e)'
  <1>1. writing[e] \in Thread \cup {None}
    BY DEF Inv, Typed
  <1>2. writing[e] # None => call'[writing[e]] = call[writing[e]]
    BY <1>1
  <1> QED BY <1>2 DEF Inv, Told, Knows

\* The write lock is taken, and the value looked at.
LEMMA SetBeginKeeps ==
  ASSUME Inv, NEW t \in Thread, SetBegin(t)
  PROVE  Inv'
  <1> USE DEF Inv
  <1> DEFINE d == call[t].var
  <1>1. /\ call[t].at = "var" /\ d \in Decl /\ IsCall(call[t]) /\ writing[d] = None
        /\ writing' = [writing EXCEPT ![d] = t]
        /\ UNCHANGED <<m_vars, handle, created, m_value, m_cb, lock, told, torn, calls, sets>>
    BY DEF SetBegin, VarLock, registry, Typed, IsCall
  <1>2. PICK c : /\ call' = [call EXCEPT ![t] = c]
                 /\ IsCall(c) /\ c.at \in Set /\ c.var = d /\ (c.at = "assign" => ~ m_cb[d])
    <2>1. PICK garbage \in Garbage :
        call' = [call EXCEPT ![t] =
          LET outcome == Decode(Type[d], call[t].node, garbage)
          IN  IF ~ outcome.ok THEN Caught(t)
              ELSE IF ~ IsNew(d, outcome.value) THEN [@ EXCEPT !.at = "unlock"]
              ELSE [@ EXCEPT !.at = IF m_cb[d] THEN "tell" ELSE "assign",
                             !.new = outcome.value]]
      BY DEF SetBegin
    <2>2. \A label \in Set : \A value :
            LET c == [call[t] EXCEPT !.at = label, !.new = value]
            IN  IsCall(c) /\ c.at = label /\ c.var = d
      BY <1>1, ZenonT(60) DEF IsCall, Field, Set, Load
    <2>3. LET c == [call[t] EXCEPT !.at = "unlock"]
          IN  IsCall(c) /\ c.at = "unlock" /\ c.var = d
      BY <1>1 DEF IsCall, Field, Set, Load
    <2> QED BY <2>1, <2>2, <2>3 DEF Caught, Set
  <1>3. Typed' /\ OneVariable' /\ \A u \in Thread : call'[u] = IF u = t THEN c ELSE call[u]
    <2>1. writing' \in [Decl -> Thread \cup {None}]
      BY <1>1 DEF Typed
    <2> QED BY <1>1, <1>2, <2>1, StepTypes DEF Typed
  <1>4. LockHeld'
    BY <1>1, <1>2, <1>3 DEF LockHeld, Set, Load
  <1>5. VarHeld'
    BY <1>1, <1>2, <1>3, DeclAssumption DEF VarHeld, Typed, Set
  <1>6. Told'
    <2>1. ASSUME NEW e \in Decl, e # d PROVE Knows(e)'
      <3>1. writing[e] # t
        BY <1>1 DEF VarHeld, Set
      <3>2. UNCHANGED <<writing[e], told[e], m_value[e], m_cb[e], torn>>
        BY <1>1, <2>1 DEF Typed
      <3> QED BY <1>3, <3>1, <3>2, StepKnows
    <2>2. ASSUME NEW e \in Decl, e = d PROVE Knows(e)'
      <3>1. writing'[e] = t /\ call'[t] = c
        BY <1>1, <1>3, <2>2 DEF Typed
      <3>2. m_cb[e] /\ e \notin torn => told[e] = m_value[e]
        BY <1>1, <2>2 DEF Told, Knows
      <3> QED BY <1>1, <1>2, <2>2, <3>1, <3>2 DEF Knows
    <2> QED BY <2>1, <2>2 DEF Told
  <1> QED BY <1>3, <1>4, <1>5, <1>6

\* The listener is told.
LEMMA TellKeeps ==
  ASSUME Inv, NEW t \in Thread, TellReturns(t) \/ TellThrows(t)
  PROVE  Inv'
  <1> USE DEF Inv
  <1> DEFINE d == call[t].var
  <1>1. /\ call[t].at = "tell" /\ d \in Decl /\ IsCall(call[t]) /\ writing[d] = t
        /\ told' = [told EXCEPT ![d] = call[t].new]
        /\ UNCHANGED <<m_vars, handle, created, m_value, m_cb, writing, lock, calls, sets>>
    BY DEF TellReturns, TellThrows, Tell, registry, Typed, IsCall, VarHeld, Set
  <1>2. PICK label \in {"assign", "unlock"} :
      /\ call' = [call EXCEPT ![t] = [call[t] EXCEPT !.at = label]]
      /\ IF label = "assign" THEN torn' = torn ELSE d \in Throwing /\ torn' = torn \cup {d}
    BY <1>1 DEF TellReturns, TellThrows, Goto, Caught, Typed
  <1> DEFINE c == [call[t] EXCEPT !.at = label]
  <1>3. IsCall(c)
    BY <1>1, ChangeIsCall DEF Set
  <1>4. c.at = label /\ c.var = d /\ c.new = call[t].new
    BY <1>1 DEF IsCall, Field
  <1>5. call' = [call EXCEPT ![t] = c]
    BY <1>2
  <1> HIDE DEF c
  <1>6. Typed' /\ OneVariable' /\ \A u \in Thread : call'[u] = IF u = t THEN c ELSE call[u]
    <2>1. told' = [e \in Decl |-> told'[e]] /\ torn' \subseteq Throwing
      BY <1>1, <1>2 DEF Typed
    <2> QED BY <1>1, <1>3, <1>5, <2>1, StepTypes DEF Typed
  <1>7. LockHeld'
    BY <1>1, <1>2, <1>4, <1>6 DEF LockHeld, Set, Load
  <1>8. VarHeld'
    BY <1>1, <1>2, <1>4, <1>6 DEF VarHeld, Set
  <1>9. Told'
    <2>1. ASSUME NEW e \in Decl, e # d PROVE Knows(e)'
      <3>1. writing[e] # t
        BY <2>1 DEF VarHeld
      <3>2. UNCHANGED <<writing[e], told[e], m_value[e], m_cb[e]>> /\ (e \in torn' <=> e \in torn)
        BY <1>1, <1>2, <2>1 DEF Typed
      <3> QED BY <1>6, <3>1, <3>2, StepKnows
    <2>2. ASSUME NEW e \in Decl, e = d PROVE Knows(e)'
      <3>1. writing'[e] = t /\ call'[t] = c /\ told'[e] = call[t].new
        BY <1>1, <1>6, <2>2 DEF Typed
      <3> QED BY <1>2, <1>4, <2>2, <3>1, DeclAssumption DEF Knows
    <2> QED BY <2>1, <2>2 DEF Told
  <1> QED BY <1>6, <1>7, <1>8, <1>9

\* The value is assigned.
LEMMA AssignKeeps ==
  ASSUME Inv, NEW t \in Thread, Assign(t)
  PROVE  Inv'
  <1> USE DEF Inv
  <1> DEFINE d == call[t].var
             c == [call[t] EXCEPT !.at = "unlock"]
  <1>1. /\ call[t].at = "assign" /\ d \in Decl /\ IsCall(call[t]) /\ writing[d] = t
        /\ m_value' = [m_value EXCEPT ![d] = call[t].new]
        /\ UNCHANGED <<m_vars, handle, created, m_cb, writing, lock, told, torn, calls, sets>>
    BY DEF Assign, registry, Typed, IsCall, VarHeld, Set
  <1>2. call' = [call EXCEPT ![t] = c]
    BY DEF Assign, Goto, Typed
  <1>3. IsCall(c)
    BY <1>1, ChangeIsCall DEF Set
  <1>4. c.at = "unlock" /\ c.var = d
    BY <1>1 DEF IsCall, Field
  <1> HIDE DEF c
  <1>5. Typed' /\ OneVariable' /\ \A u \in Thread : call'[u] = IF u = t THEN c ELSE call[u]
    <2>1. m_value' = [e \in Decl |-> m_value'[e]]
      BY <1>1 DEF Typed
    <2> QED BY <1>1, <1>2, <1>3, <2>1, StepTypes, ZenonT(60) DEF Typed
  <1>6. LockHeld'
    BY <1>1, <1>4, <1>5 DEF LockHeld, Set, Load
  <1>7. VarHeld'
    BY <1>1, <1>4, <1>5 DEF VarHeld, Set
  <1>8. Told'
    <2>1. ASSUME NEW e \in Decl, e # d PROVE Knows(e)'
      <3>1. writing[e] # t
        BY <2>1 DEF VarHeld
      <3>2. UNCHANGED <<writing[e], told[e], m_value[e], m_cb[e], torn>>
        BY <1>1, <2>1 DEF Typed
      <3> QED BY <1>5, <3>1, <3>2, StepKnows
    <2>2. ASSUME NEW e \in Decl, e = d PROVE Knows(e)'
      <3>1. writing'[e] = t /\ call'[t] = c /\ m_value'[e] = call[t].new
        BY <1>1, <1>5, <2>2 DEF Typed
      <3>2. m_cb[e] /\ e \notin torn => told[e] = call[t].new
        BY <1>1, <2>2, DeclAssumption DEF Told, Knows
      <3> QED BY <1>1, <1>4, <3>1, <3>2 DEF Knows
    <2> QED BY <2>1, <2>2 DEF Told
  <1> QED BY <1>5, <1>6, <1>7, <1>8

\* The write lock is given back, to the load or at the end of fromString().
LEMMA VarUnlockKeeps ==
  ASSUME Inv, NEW t \in Thread, VarUnlock(t)
  PROVE  Inv'
  <1> USE DEF Inv
  <1> DEFINE d == call[t].var
  <1>1. /\ call[t].at = "unlock" /\ d \in Decl /\ IsCall(call[t]) /\ writing[d] = t
        /\ writing' = [writing EXCEPT ![d] = None]
        /\ UNCHANGED <<m_vars, handle, created, m_value, m_cb, lock, told, torn, calls, sets>>
    BY DEF VarUnlock, registry, Typed, IsCall, VarHeld, Set
  <1>2. PICK c : /\ call' = [call EXCEPT ![t] = c]
                 /\ IsCall(c) /\ c.at = IF lock.writer = t THEN "next" ELSE "idle"
    <2> DEFINE b == [call[t] EXCEPT !.at = "next", !.var = None, !.node = Null, !.new = <<>>]
    <2>1. call' = [call EXCEPT ![t] = IF lock.writer = t THEN b ELSE Idle]
      BY DEF VarUnlock
    <2>2. IsCall(Idle) /\ Idle.at = "idle"
      BY DEF IsCall, Field, Idle, Set
    <2>3. IsCall(b) /\ b.at = "next"
      BY <1>1 DEF IsCall, Field, Set, Load
    <2> HIDE DEF b
    <2> QED BY <2>1, <2>2, <2>3
  <1>3. Typed' /\ OneVariable' /\ \A u \in Thread : call'[u] = IF u = t THEN c ELSE call[u]
    <2>1. writing' \in [Decl -> Thread \cup {None}]
      BY <1>1 DEF Typed
    <2> QED BY <1>1, <1>2, <2>1, StepTypes DEF Typed
  <1>4. LockHeld'
    BY <1>1, <1>2, <1>3 DEF LockHeld, Set, Load
  <1>5. VarHeld'
    BY <1>1, <1>2, <1>3, DeclAssumption DEF VarHeld, Typed, Set
  <1>6. Told'
    <2>1. ASSUME NEW e \in Decl, e # d PROVE Knows(e)'
      <3>1. writing[e] # t
        BY <2>1 DEF VarHeld
      <3>2. UNCHANGED <<writing[e], told[e], m_value[e], m_cb[e], torn>>
        BY <1>1, <2>1 DEF Typed
      <3> QED BY <1>3, <3>1, <3>2, StepKnows
    <2>2. ASSUME NEW e \in Decl, e = d PROVE Knows(e)'
      <3>1. writing'[e] = None
        BY <1>1, <2>2 DEF Typed
      <3>2. m_cb[e] /\ e \notin torn => told[e] = m_value[e]
        BY <1>1, <2>2 DEF Told, Knows
      <3> QED BY <1>1, <3>1, <3>2 DEF Knows
    <2> QED BY <2>1, <2>2 DEF Told
  <1> QED BY <1>3, <1>4, <1>5, <1>6

\* A step of a call that sets no variable.
LEMMA OutsideKeeps ==
  ASSUME Inv, NEW t \in Thread, NEW c, IsCall(c), call' = [call EXCEPT ![t] = c],
         call[t].at \notin Set, c.at \notin Set,
         lock' \in [writer : Thread \cup {None}, readers : [Thread -> 0 .. 2]], LockHeld',
         UNCHANGED <<m_vars, handle, created, m_value, m_cb, writing, told, torn, calls, sets>>
  PROVE  Inv'
  <1> USE DEF Inv
  <1>1. Typed' /\ OneVariable' /\ \A u \in Thread : call'[u] = IF u = t THEN c ELSE call[u]
    BY StepTypes DEF Typed
  <1>2. VarHeld'
    BY <1>1 DEF VarHeld
  <1>3. ASSUME NEW e \in Decl PROVE Knows(e)'
    <2>1. writing[e] # t
      BY DEF VarHeld
    <2>2. UNCHANGED <<writing[e], told[e], m_value[e], m_cb[e]>> /\ (e \in torn' <=> e \in torn)
      OBVIOUS
    <2> QED BY <1>1, <2>1, <2>2, StepKnows
  <1> QED BY <1>1, <1>2, <1>3 DEF Told

\* LoadFromYaml takes the lock of Config, when nobody reads.
LEMMA LoadLockKeeps ==
  ASSUME Inv, NEW t \in Thread, LoadLock(t)
  PROVE  Inv'
  <1> USE DEF Inv
  <1> DEFINE c == [call[t] EXCEPT !.at = "next", !.values = m_value]
  <1>1. /\ call[t].at = "lock" /\ IsCall(call[t]) /\ MayWrite
        /\ lock' = [lock EXCEPT !.writer = t]
        /\ UNCHANGED <<m_vars, handle, created, m_value, m_cb, writing, told, torn, calls, sets>>
    BY DEF LoadLock, WriteLock, registry, Typed
  <1>2. call' = [call EXCEPT ![t] = c]
    BY DEF LoadLock, Typed
  <1>3. IsCall(c) /\ c.at = "next"
    BY <1>1 DEF IsCall, Field, Load, Set
  <1> HIDE DEF c
  <1>4. /\ lock' \in [writer : Thread \cup {None}, readers : [Thread -> 0 .. 2]]
        /\ lock'.writer = t /\ lock'.readers = lock.readers
    BY <1>1 DEF Typed
  <1>5. LockHeld'
    <2>1. \A u \in Thread : call'[u] = IF u = t THEN c ELSE call[u]
      BY <1>2 DEF Typed
    <2> QED BY <2>1, <1>1, <1>2, <1>3, <1>4, DeclAssumption DEF LockHeld, MayWrite, Load, Set
  <1> QED BY <1>1, <1>2, <1>3, <1>4, <1>5, OutsideKeeps DEF Set

\* A load goes on with the next variable that its file names.
LEMMA LoadNextKeeps ==
  ASSUME Inv, NEW t \in Thread, LoadNext(t)
  PROVE  Inv'
  <1> USE DEF Inv
  <1>1. /\ call[t].at = "next" /\ IsCall(call[t])
        /\ UNCHANGED <<m_vars, handle, created, m_value, m_cb, writing, lock, told, torn, calls,
                       sets>>
    BY DEF LoadNext, registry, Typed
  <1>2. PICK d, node, todo :
          /\ d \in Decl
          /\ call' = [call EXCEPT ![t] =
                      [@ EXCEPT !.at = "var", !.var = d, !.node = node, !.todo = todo]]
    <2>1. PICK i \in DOMAIN call[t].todo :
        /\ Wanted(call[t].todo[i])
        /\ call' = [call EXCEPT ![t] =
             [@ EXCEPT !.at = "var", !.var = m_vars[call[t].todo[i].name],
                       !.node = call[t].todo[i].node, !.todo = SubSeq(@, i + 1, Len(@))]]
      BY DEF LoadNext
    <2>2. m_vars[call[t].todo[i].name] \in Decl
      BY <2>1 DEF Wanted, Typed
    <2> QED BY <2>1, <2>2
  <1> DEFINE c == [call[t] EXCEPT !.at = "var", !.var = d, !.node = node, !.todo = todo]
  <1>3. IsCall(c) /\ c.at = "var"
    BY <1>1, <1>2 DEF IsCall, Field, Load
  <1>4. call' = [call EXCEPT ![t] = c]
    BY <1>2 DEF Typed
  <1> HIDE DEF c
  <1>5. LockHeld'
    <2>1. \A u \in Thread : call'[u] = IF u = t THEN c ELSE call[u]
      BY <1>4 DEF Typed
    <2> QED BY <2>1, <1>1, <1>3, <1>4 DEF LockHeld, Load, Set
  <1> QED BY <1>1, <1>3, <1>4, <1>5, OutsideKeeps DEF Typed, Set

\* A load gives the lock of Config back.
LEMMA LoadUnlockKeeps ==
  ASSUME Inv, NEW t \in Thread, LoadUnlock(t)
  PROVE  Inv'
  <1> USE DEF Inv
  <1>1. /\ call[t].at = "next" /\ lock.writer = t /\ lock' = [lock EXCEPT !.writer = None]
        /\ call' = [call EXCEPT ![t] = Idle]
        /\ UNCHANGED <<m_vars, handle, created, m_value, m_cb, writing, told, torn, calls, sets>>
    BY DEF LoadUnlock, Unlock, Return, registry, LockHeld
  <1>2. IsCall(Idle) /\ Idle.at = "idle"
    BY DEF IsCall, Field, Idle, Set
  <1>3. /\ lock' \in [writer : Thread \cup {None}, readers : [Thread -> 0 .. 2]]
        /\ lock'.writer = None /\ lock'.readers = lock.readers
    BY <1>1 DEF Typed
  <1>4. LockHeld'
    <2>1. \A u \in Thread : call'[u] = IF u = t THEN Idle ELSE call[u]
      BY <1>1 DEF Typed
    <2> QED BY <2>1, <1>1, <1>2, <1>3, DeclAssumption DEF LockHeld, Load, Set
  <1> QED BY <1>1, <1>2, <1>3, <1>4, OutsideKeeps DEF Set

\* GetConfig and Visit each take the read lock, when nobody writes.
LEMMA ReadLockKeeps ==
  ASSUME Inv, NEW t \in Thread, GetLock(t) \/ VisitLock(t)
  PROVE  Inv'
  <1> USE DEF Inv
  <1>1. PICK from, to :
      /\ <<from, to>> \in {<<"read", "visit">>, <<"visit", "reading">>}
      /\ ReadLock(t) /\ Reading(t, from, to)
    BY DEF GetLock, VisitLock
  <1> DEFINE c == [call[t] EXCEPT !.at = to]
  <1>2. /\ call[t].at = from /\ IsCall(call[t]) /\ MayRead
        /\ lock' = [lock EXCEPT !.readers[t] = @ + 1]
        /\ UNCHANGED <<m_vars, handle, created, m_value, m_cb, writing, told, torn, calls, sets>>
    BY <1>1 DEF ReadLock, Reading, registry, Typed
  <1>3. call' = [call EXCEPT ![t] = c]
    BY <1>1 DEF Reading, Goto, Typed
  <1>4. IsCall(c)
    BY <1>1, <1>2, ChangeIsCall DEF Read
  <1>5. c.at = to
    BY <1>2 DEF IsCall, Field
  <1> HIDE DEF c
  <1>6. lock.readers[t] \in {0, 1}
    BY <1>1, <1>2 DEF LockHeld
  <1>7. /\ lock' \in [writer : Thread \cup {None}, readers : [Thread -> 0 .. 2]]
        /\ lock'.writer = None
        /\ \A u \in Thread :
             lock'.readers[u] = IF u = t THEN lock.readers[t] + 1 ELSE lock.readers[u]
    BY <1>2, <1>6 DEF Typed, MayRead
  <1>8. LockHeld'
    <2>1. \A u \in Thread : call'[u] = IF u = t THEN c ELSE call[u]
      BY <1>3 DEF Typed
    <2> QED BY <2>1, <1>1, <1>2, <1>3, <1>5, <1>7, DeclAssumption DEF LockHeld, MayRead, Load, Set
  <1> QED BY <1>1, <1>2, <1>3, <1>4, <1>5, <1>7, <1>8, OutsideKeeps DEF Set

\* Visit goes on with the next variable.
LEMMA VisitVarKeeps ==
  ASSUME Inv, NEW t \in Thread, VisitVar(t)
  PROVE  Inv'
  <1> USE DEF Inv
  <1>1. /\ call[t].at = "reading" /\ IsCall(call[t])
        /\ UNCHANGED <<m_vars, handle, created, m_value, m_cb, writing, lock, told, torn, calls,
                       sets>>
    BY DEF VisitVar, registry, Typed
  <1>2. PICK todo, values :
          call' = [call EXCEPT ![t] = [@ EXCEPT !.todo = todo, !.values = values]]
    BY DEF VisitVar
  <1> DEFINE c == [call[t] EXCEPT !.todo = todo, !.values = values]
  <1>3. IsCall(c) /\ c.at = "reading"
    BY <1>1 DEF IsCall, Field, Load, Read, Set
  <1>4. call' = [call EXCEPT ![t] = c]
    BY <1>2 DEF Typed
  <1> HIDE DEF c
  <1>5. LockHeld'
    <2>1. \A u \in Thread : call'[u] = IF u = t THEN c ELSE call[u]
      BY <1>4 DEF Typed
    <2> QED BY <2>1, <1>1, <1>3, <1>4 DEF LockHeld, Load, Set
  <1> QED BY <1>1, <1>3, <1>4, <1>5, OutsideKeeps DEF Typed, Set

\* Visit, and then GetConfig, give their read locks back.
LEMMA ReadUnlockKeeps ==
  ASSUME Inv, NEW t \in Thread, VisitUnlock(t) \/ Answer(t)
  PROVE  Inv'
  <1> USE DEF Inv
  <1>1. PICK c :
      /\ call' = [call EXCEPT ![t] = c] /\ IsCall(c)
      /\ <<call[t].at, c.at>> \in {<<"reading", "answer">>, <<"answer", "idle">>}
    <2>1. CASE VisitUnlock(t)
      <3> DEFINE b == [call[t] EXCEPT !.at = "answer"]
      <3>1. call' = [call EXCEPT ![t] = b] /\ call[t].at = "reading" /\ IsCall(call[t])
        BY <2>1 DEF VisitUnlock, Reading, Goto, Typed
      <3>2. IsCall(b)
        BY <3>1, ChangeIsCall DEF Read
      <3>3. b.at = "answer"
        BY <3>1 DEF IsCall, Field
      <3> HIDE DEF b
      <3> QED BY <3>1, <3>2, <3>3
    <2>2. CASE Answer(t)
      <3>1. IsCall(Idle) /\ Idle.at = "idle"
        BY DEF IsCall, Field, Idle, Set
      <3> QED BY <2>2, <3>1 DEF Answer, Return
    <2> QED BY <2>1, <2>2
  <1>2. /\ Unlock(t)
        /\ UNCHANGED <<m_vars, handle, created, m_value, m_cb, writing, told, torn, calls, sets>>
    BY DEF VisitUnlock, Answer, Reading, registry
  <1>3. lock.readers[t] \in {1, 2} /\ lock.writer = None
    BY <1>1 DEF LockHeld, Typed
  <1>4. lock' = [lock EXCEPT !.readers[t] = @ - 1]
    BY <1>2, <1>3, DeclAssumption DEF Unlock
  <1>5. /\ lock' \in [writer : Thread \cup {None}, readers : [Thread -> 0 .. 2]]
        /\ lock'.writer = None
        /\ \A u \in Thread :
             lock'.readers[u] = IF u = t THEN lock.readers[t] - 1 ELSE lock.readers[u]
    BY <1>3, <1>4 DEF Typed
  <1>6. LockHeld'
    <2>1. \A u \in Thread : call'[u] = IF u = t THEN c ELSE call[u]
      BY <1>1 DEF Typed
    <2> QED BY <2>1, <1>1, <1>5, DeclAssumption DEF LockHeld, Load, Set
  <1> QED BY <1>1, <1>2, <1>5, <1>6, OutsideKeeps DEF Set

-----------------------------------------------------------------------------
(* The theorems.                                                           *)

\* Every step keeps the invariant.
LEMMA InvStep == Inv /\ [Next]_vars => Inv'
  <1> SUFFICES ASSUME Inv, [Next]_vars PROVE Inv'
    OBVIOUS
  <1>1. CASE UNCHANGED vars
    <2>1. UNCHANGED <<m_vars, handle, created, m_value, m_cb, writing, lock, call, told, torn, calls,
                      sets>>
      BY <1>1 DEF vars, registry
    <2>2. Typed'
      BY <2>1 DEF Inv, Typed, IsCall
    <2> QED BY <2>1, <2>2 DEF Inv, OneVariable, LockHeld, VarHeld, Told, Knows
  <1>2. ASSUME NEW t \in Thread, Step(t) PROVE Inv'
    BY <1>2, SetBeginKeeps, TellKeeps, AssignKeeps, VarUnlockKeeps, LoadLockKeeps, LoadNextKeeps,
       LoadUnlockKeeps, ReadLockKeeps, VisitVarKeeps, ReadUnlockKeeps
    DEF Step, Setting
  <1> QED BY <1>1, <1>2, CreateKeeps, ListenerKeeps, CallKeeps DEF Next, Terminating

(* The invariant that the theorems below are parts of.                     *)
THEOREM Invariance == Spec => []Inv
  BY InvInit, InvStep, PTL DEF Spec

(* Every variable keeps its type, however many calls are made.             *)
THEOREM TypeCorrect == Spec => []TypeOK
  <1>1. Inv => TypeOK
    <2> SUFFICES ASSUME Inv PROVE TypeOK
      OBVIOUS
    <2>1. \A t \in Thread :
            call[t].at \in {"idle", "lock", "next", "var", "tell", "assign", "unlock",
                            "read", "visit", "reading", "answer"}
      BY DEF Inv, Typed, IsCall, Load, Read, Set
    <2> QED BY <2>1 DEF Inv, Typed, TypeOK
  <1> QED BY <1>1, Invariance, PTL

(* Whoever gets a variable for a name shares the one that loads reach      *)
(* (config.h:283-300).                                                     *)
THEOREM NamesShareVariables == Spec => []OneVariable
  <1>1. Inv => OneVariable
    BY DEF Inv
  <1> QED BY <1>1, Invariance, PTL

(* A listener that has not thrown knows the value of its variable, however *)
(* loads and fromString() interleave (config.h:233-241).                   *)
THEOREM ListenersKnow == Spec => []ToldIsValue
  <1>1. Inv => ToldIsValue
    BY DEF Inv, Told, Knows, ToldIsValue
  <1> QED BY <1>1, Invariance, PTL

(* No deadlock: among calls under way one does not wait, although readings *)
(* take the lock of Config twice and wait for variables inside it: who     *)
(* holds a variable waits for nobody, and who holds Config waits for       *)
(* variables only (config.cpp:23, 32, 53).                                 *)
THEOREM NoDeadlock == Spec => []SomeoneMoves
  <1>1. Inv => SomeoneMoves
    <2> SUFFICES ASSUME Inv, NEW t \in Thread, call[t].at # "idle",
                        \A u \in Thread : call[u].at # "idle" => Waits(u)
                 PROVE  FALSE
      BY DEF SomeoneMoves
    <2>1. \A d \in Decl : writing[d] = None
      <3> SUFFICES ASSUME NEW d \in Decl, writing[d] # None PROVE FALSE
        OBVIOUS
      <3> DEFINE u == writing[d]
      <3>1. u \in Thread /\ call[u].at \in Set
        BY DEF Inv, Typed, VarHeld
      <3> QED BY <3>1 DEF Waits, Set
    <2>2. \A u \in Thread : ~ Waits(u) \/ call[u].at \in {"lock", "read", "visit"}
      <3> SUFFICES ASSUME NEW u \in Thread, Waits(u), call[u].at \notin {"lock", "read", "visit"}
                   PROVE  FALSE
        OBVIOUS
      <3>1. \/ call[u].at = "var" /\ writing[call[u].var] # None
            \/ \E d \in ToVisit(u) : writing[d] # None
        BY DEF Waits
      <3>2. call[u].at = "var" => call[u].var \in Decl
        BY DEF Inv, Typed, IsCall
      <3>3. ToVisit(u) \subseteq Decl
        BY RegisteredAreDecl DEF Inv, ToVisit
      <3> QED BY <2>1, <3>1, <3>2, <3>3
    <2>3. lock.writer = None
      <3> SUFFICES ASSUME lock.writer # None PROVE FALSE
        OBVIOUS
      <3> DEFINE u == lock.writer
      <3>1. u \in Thread /\ call[u].at \in Load
        BY DEF Inv, Typed, LockHeld
      <3> QED BY <2>2, <3>1 DEF Load, Set
    <2>4. MayRead
      BY <2>3 DEF MayRead
    <2>5. \A u \in Thread : lock.readers[u] = 0
      <3> SUFFICES ASSUME NEW u \in Thread, lock.readers[u] # 0 PROVE FALSE
        OBVIOUS
      <3>1. call[u].at \in Read
        BY DEF Inv, LockHeld, Read
      <3> QED BY <2>2, <2>4, <3>1 DEF Waits, Read
    <2>6. MayWrite
      BY <2>3, <2>5 DEF MayWrite
    <2> QED BY <2>2, <2>4, <2>6 DEF Waits
  <1> QED BY <1>1, Invariance, PTL
=============================================================================
