---------------------------- MODULE LoggingProofs ----------------------------
(***************************************************************************)
(* Theorems about Logging, for any loggers, configurations, threads and    *)
(* client: types; messages can be printed, by the root logger if theirs    *)
(* refuses; no logger is valid half configured; between loads they are as  *)
(* `logs` says.                                                            *)
(***************************************************************************)
EXTENDS Logging, TLAPS

-----------------------------------------------------------------------------
(* The inductive invariant.                                                *)

Levels == Garbage \cup Level \cup {UNKNOW} \cup {c.level : c \in Conf}

\* A record with the fields of a logger.
IsLogger(l) ==
  /\ l = [m_valid |-> l.m_valid, m_level |-> l.m_level, m_layout |-> l.m_layout,
          m_appenders |-> l.m_appenders, skipped |-> l.skipped]
  /\ l.m_valid \in BOOLEAN
  /\ l.m_level \in Levels

LoggersOK ==
  /\ registered \subseteq Names
  /\ logger = [n \in Names |-> logger[n]]
  /\ \A n \in Names :
       IsLogger(logger[n]) /\ (n \notin registered => logger[n] = New(UNKNOW))

\* Where a load is at work on one logger.
SettingUp == {"invalid", "level", "layout", "clear", "add", "dress", "push"}
Dropping  == {"drop_invalid", "drop_clear"}

\* A load leaves the root logger alone, and sets up what is configured.
LoadOK ==
  /\ load = [at |-> load.at, new |-> load.new, todo |-> load.todo, name |-> load.name,
             rest |-> load.rest, appender |-> load.appender]
  /\ load.at \in {"idle", "setup", "drop"} \cup SettingUp \cup Dropping
  /\ load.new \in [Names -> Conf \cup {None}]
  /\ load.todo \subseteq Name
  /\ load.at \in {"setup"} \cup SettingUp => \A n \in load.todo : load.new[n] \in Conf
  /\ load.at \in SettingUp \cup Dropping => load.name \in Name \cap registered
  /\ load.at \in SettingUp => load.new[load.name] \in Conf
  /\ m_value \in [Names -> Conf \cup {None}]
  /\ behind \subseteq Name

\* The client has the loggers that it asked for.
ClientOK ==
  /\ Root \in registered
  /\ called \in 0 .. Len(Script)
  /\ \A i \in 1 .. called : Script[i].call = "getLogger" => Script[i].name \in registered
  /\ byHand \subseteq registered

ThreadsOK ==
  /\ at \in [Thread -> {"idle", "level", "log", "warn", "warn_log", "fallback"}]
  /\ msg \in [Thread -> [to : Names, level : Level \cup {UNKNOW}]]

Inv == LoggersOK /\ LoadOK /\ ClientOK /\ ThreadsOK

\* A change of one field leaves a logger a logger.
LEMMA ValidKeeps ==
  ASSUME NEW l, IsLogger(l), NEW valid \in BOOLEAN
  PROVE  IsLogger([l EXCEPT !.m_valid = valid])
  BY DEF IsLogger

\* The other fields.
LEMMA FieldKeeps ==
  ASSUME NEW l, IsLogger(l), NEW level \in Levels, NEW x
  PROVE  /\ IsLogger([l EXCEPT !.m_level = level])
         /\ IsLogger([l EXCEPT !.m_layout = x])
         /\ IsLogger([l EXCEPT !.m_appenders = x])
         /\ IsLogger([l EXCEPT !.skipped = x])
         /\ \A y : IsLogger([l EXCEPT !.m_appenders = x, !.skipped = y])
  <1>1. IsLogger([l EXCEPT !.m_level = level])
    BY DEF IsLogger
  <1>2. IsLogger([l EXCEPT !.m_layout = x]) /\ IsLogger([l EXCEPT !.m_appenders = x])
    BY DEF IsLogger
  <1>3. IsLogger([l EXCEPT !.skipped = x])
    BY DEF IsLogger
  <1>4. ASSUME NEW y PROVE IsLogger([l EXCEPT !.m_appenders = x, !.skipped = y])
    <2> DEFINE r == [l EXCEPT !.m_appenders = x]
    <2>1. IsLogger(r)
      BY <1>2
    <2>2. [l EXCEPT !.m_appenders = x, !.skipped = y] = [r EXCEPT !.skipped = y]
      OBVIOUS
    <2> HIDE DEF r
    <2>3. IsLogger([r EXCEPT !.skipped = y])
      BY <2>1 DEF IsLogger
    <2> QED BY <2>2, <2>3
  <1> QED BY <1>1, <1>2, <1>3, <1>4

\* The loggers keep their types when one becomes l.
LEMMA SetKeeps ==
  ASSUME LoggersOK, NEW n \in registered, NEW l, IsLogger(l),
         logger' = [logger EXCEPT ![n] = l], registered' = registered
  PROVE  LoggersOK'
  <1>1. \A m \in Names : logger'[m] = IF m = n THEN l ELSE logger[m]
    BY DEF LoggersOK
  <1>2. logger' = [m \in Names |-> logger'[m]]
    BY DEF LoggersOK
  <1> QED BY <1>1, <1>2 DEF LoggersOK, IsLogger

\* A logger that is asked for is registered, and is new if it was not.
LEMMA GetLoggerKeeps ==
  ASSUME LoggersOK, NEW n \in Names, GetLogger(n)
  PROVE  LoggersOK' /\ registered' = registered \cup {n}
  <1>1. registered' = registered \cup {n}
    BY DEF GetLogger
  <1>2. CASE n \in registered
    <2>1. logger' = logger /\ registered' = registered
      BY <1>2 DEF GetLogger
    <2> QED BY <1>1, <2>1 DEF LoggersOK
  <1>3. CASE n \notin registered
    <2>1. PICK garbage \in Garbage : logger' = [logger EXCEPT ![n] = New(garbage)]
      BY <1>3 DEF GetLogger
    <2>2. IsLogger(New(garbage))
      BY DEF IsLogger, New, Levels
    <2>3. \A m \in Names : logger'[m] = IF m = n THEN New(garbage) ELSE logger[m]
      BY <2>1 DEF LoggersOK
    <2>4. logger' = [m \in Names |-> logger'[m]]
      BY <2>1 DEF LoggersOK
    <2>5. LoggersOK'
      BY <1>1, <2>2, <2>3, <2>4 DEF LoggersOK, IsLogger
    <2> QED BY <1>1, <2>5
  <1> QED BY <1>2, <1>3

FirstAppender == [type |-> "ConsoleAppender", m_level |-> UNKNOW, m_layout |-> Pattern]

\* At first the root logger is valid and has an appender of its own.
LEMMA FirstLoggers ==
  ASSUME Init
  PROVE  /\ logger = [n \in Names |-> logger[n]]
         /\ \A n \in Names : n # Root => logger[n] = New(UNKNOW)
         /\ Root \in Names
         /\ LET root == logger[Root]
            IN  /\ IsLogger(root) /\ root.m_valid /\ root.m_layout = None
                /\ root.m_appenders = <<FirstAppender>>
  <1>1. PICK garbage \in Garbage :
      logger = [n \in Names |->
        IF n # Root THEN New(UNKNOW)
        ELSE [New(garbage) EXCEPT !.m_valid = TRUE, !.m_appenders = <<FirstAppender>>]]
    BY DEF Init, FirstAppender
  <1> DEFINE root == [New(garbage) EXCEPT !.m_valid = TRUE, !.m_appenders = <<FirstAppender>>]
  <1>2. \A n \in Names : logger[n] = IF n # Root THEN New(UNKNOW) ELSE root
    BY <1>1
  <1>3. IsLogger(root) /\ root.m_valid /\ root.m_layout = None
          /\ root.m_appenders = <<FirstAppender>>
    <2> DEFINE new == New(garbage)
    <2>1. IsLogger(new) /\ new.m_layout = None
      BY DEF IsLogger, New, Levels
    <2>2. root = [new EXCEPT !.m_valid = TRUE, !.m_appenders = <<FirstAppender>>]
      OBVIOUS
    <2> HIDE DEF new, root
    <2> QED BY <2>1, <2>2 DEF IsLogger
  <1> HIDE DEF root
  <1>4. Root \in Names
    BY DEF Names
  <1>5. logger[Root] = root
    BY <1>2, <1>4
  <1> QED BY <1>1, <1>2, <1>3, <1>4, <1>5

\* The invariant holds at first.
LEMMA InvInit == Init => Inv
  <1> SUFFICES ASSUME Init PROVE Inv
    OBVIOUS
  <1>1. IsLogger(New(UNKNOW))
    BY DEF IsLogger, New, Levels
  <1>2. LoggersOK
    <2>1. registered = {Root}
      BY DEF Init
    <2> QED BY <1>1, <2>1, FirstLoggers DEF LoggersOK
  <1>3. LoadOK
    BY DEF LoadOK, Init, Idle, SettingUp, Dropping
  <1>4. ClientOK
    BY ScriptAssumption DEF ClientOK, Init
  <1>5. ThreadsOK
    BY DEF ThreadsOK, Init, NoMessage, Names
  <1> QED BY <1>2, <1>3, <1>4, <1>5 DEF Inv

-----------------------------------------------------------------------------
(* Loading.                                                                *)

\* One call that a load makes of the logger at hand.
LEMMA CallKeeps ==
  ASSUME Inv, load.at \in SettingUp \cup Dropping, NEW l, IsLogger(l),
         logger' = [logger EXCEPT ![load.name] = l], LoadOK', byHand' \subseteq byHand,
         UNCHANGED <<registered, called, at, msg>>
  PROVE  Inv'
  <1> USE DEF Inv
  <1>1. load.name \in Name \cap registered
    BY DEF LoadOK
  <1>2. LoggersOK'
    BY <1>1, SetKeeps
  <1>3. ClientOK' /\ ThreadsOK'
    BY DEF ClientOK, ThreadsOK
  <1> QED BY <1>2, <1>3

\* One call after which it goes on with the next.
LEMMA SetupKeeps ==
  ASSUME Inv, NEW from, NEW to, NEW l, Setup(from, to, l),
         from \in SettingUp \cup Dropping, IsLogger(l),
         to \in {"setup"} \cup SettingUp => from \in SettingUp,
         to \in {"setup", "drop"} \cup SettingUp \cup Dropping,
         behind' \subseteq Name, byHand' \subseteq byHand
  PROVE  Inv'
  <1>1. /\ load.at = from /\ load' = [load EXCEPT !.at = to]
        /\ logger' = [logger EXCEPT ![load.name] = l]
        /\ UNCHANGED <<registered, m_value, called, at, msg>>
    BY DEF Setup
  <1>2. LoadOK'
    BY <1>1 DEF Inv, LoadOK, SettingUp, Dropping
  <1> QED BY <1>1, <1>2, CallKeeps

\* A step of a load that changes no logger.
LEMMA LoadKeeps ==
  ASSUME Inv, LoadOK', UNCHANGED <<registered, logger, clientVars, at, msg>>
  PROVE  Inv'
  BY DEF Inv, LoggersOK, ClientOK, ThreadsOK, clientVars

\* What setUp and drop find in a file.
LEMMA LoadBegins ==
  ASSUME Inv, NEW new \in Value, LoadFromYaml(new)
  PROVE  Inv'
  <1>1. new \in [Names -> Conf \cup {None}]
    BY ValueAssumption
  <1>2. load' = [at |-> "setup", new |-> new, todo |-> ToSetUp(new), name |-> None,
                 rest |-> <<>>, appender |-> None]
    BY DEF LoadFromYaml, Idle
  <1>3. ToSetUp(new) \subseteq Name /\ \A n \in ToSetUp(new) : new[n] \in Conf
    BY <1>1 DEF ToSetUp, Names
  <1>4. LoadOK'
    BY <1>1, <1>2, <1>3 DEF Inv, LoadOK, LoadFromYaml, SettingUp, Dropping
  <1> QED BY <1>4, LoadKeeps DEF LoadFromYaml

\* The load turns to a logger, which it may have to make.
LEMMA LoadTurns ==
  ASSUME Inv, SetupLogger \/ DropLogger
  PROVE  Inv'
  <1> USE DEF Inv
  <1>1. PICK n \in load.todo, to \in {"invalid", "drop_invalid"} :
      /\ GetLogger(n)
      /\ load' = [load EXCEPT !.at = to, !.name = n, !.todo = @ \ {n}]
      /\ to = "invalid" => load.at = "setup"
    BY DEF SetupLogger, DropLogger
  <1>2. n \in Name /\ n \in Names
    BY DEF LoadOK, Names
  <1>3. LoggersOK' /\ registered' = registered \cup {n}
    BY <1>1, <1>2, GetLoggerKeeps
  <1>4. UNCHANGED <<m_value, behind, byHand, called, at, msg>>
    BY DEF SetupLogger, DropLogger, clientVars
  <1>5. LoadOK'
    BY <1>1, <1>2, <1>3, <1>4 DEF LoadOK, SettingUp, Dropping
  <1>6. ClientOK' /\ ThreadsOK'
    BY <1>3, <1>4 DEF ClientOK, ThreadsOK
  <1> QED BY <1>3, <1>5, <1>6

\* Every other step of a load.
LEMMA LoadStepKeeps ==
  ASSUME Inv, LoadStep
  PROVE  Inv'
  <1>a. load.at \in SettingUp \cup Dropping => load.name \in Name \cap registered /\ IsLogger(This)
    BY DEF Inv, LoadOK, LoggersOK, This
  <1>b. load.at \in SettingUp => ThisConf \in Conf
    BY DEF Inv, LoadOK, ThisConf
  <1>c. behind \subseteq Name /\ LoadOK
    BY DEF Inv, LoadOK
  <1>1. CASE SetInvalid \/ DropInvalid
    <2>1. \/ Setup("invalid", "level", [This EXCEPT !.m_valid = FALSE])
          \/ Setup("drop_invalid", "drop_clear", [This EXCEPT !.m_valid = FALSE])
      BY <1>1 DEF SetInvalid, DropInvalid
    <2>2. IsLogger(This)
      BY <2>1, <1>a DEF Setup, SettingUp, Dropping
    <2>3. IsLogger([This EXCEPT !.m_valid = FALSE])
      BY <2>2, ValidKeeps, Zenon
    <2>4. behind' \subseteq Name /\ byHand' \subseteq byHand
      BY <1>1, <1>c DEF SetInvalid, DropInvalid
    <2>5. \A l : IsLogger(l) /\ Setup("invalid", "level", l) => Inv'
      BY <2>4, SetupKeeps DEF SettingUp
    <2>6. \A l : IsLogger(l) /\ Setup("drop_invalid", "drop_clear", l) => Inv'
      BY <2>4, SetupKeeps DEF SettingUp, Dropping
    <2> QED BY <2>1, <2>3, <2>5, <2>6, Zenon
  <1>2. CASE SetLevel \/ SetLayout
    <2> DEFINE level == LevelOf(ThisConf.level, UNKNOW)
               layout == PatternOf(ThisConf.pattern, Pattern)
    <2>1. \/ Setup("level", "layout", [This EXCEPT !.m_level = level])
          \/ Setup("layout", "clear", [This EXCEPT !.m_layout = layout])
      BY <1>2 DEF SetLevel, SetLayout
    <2>2. IsLogger(This) /\ ThisConf \in Conf
      BY <2>1, <1>a, <1>b DEF Setup, SettingUp
    <2>3. level \in Levels
      BY <2>2 DEF LevelOf, Levels
    <2>4. behind' \subseteq Name /\ byHand' \subseteq byHand
      BY <1>2, <1>c DEF SetLevel, SetLayout
    <2> HIDE DEF level, layout
    <2>5. /\ IsLogger([This EXCEPT !.m_level = level])
          /\ IsLogger([This EXCEPT !.m_layout = layout])
      BY <2>2, <2>3, FieldKeeps
    <2> QED BY <2>1, <2>4, <2>5, SetupKeeps DEF SettingUp
  <1>3. CASE ClearAppenders \/ AddAppender \/ SkipAppender
    <2>1. load.at \in SettingUp
      BY <1>3 DEF ClearAppenders, AddAppender, SkipAppender, SettingUp
    <2>2. load.name \in Names /\ IsLogger(This) /\ logger = [n \in Names |-> logger[n]]
      BY <2>1, <1>a DEF Inv, LoggersOK, Names
    <2>3. \A x, y : /\ IsLogger([This EXCEPT !.m_appenders = x])
                    /\ IsLogger([This EXCEPT !.skipped = x])
                    /\ IsLogger([This EXCEPT !.m_appenders = x, !.skipped = y])
      BY <2>2, FieldKeeps DEF Levels
    <2>4. PICK l : IsLogger(l) /\ logger' = [logger EXCEPT ![load.name] = l]
      <3>1. CASE ClearAppenders
        <4>1. logger' = [logger EXCEPT ![load.name] =
                           [This EXCEPT !.m_appenders = <<>>, !.skipped = {}]]
          BY <3>1, <2>2 DEF ClearAppenders, This
        <4> QED BY <2>3, <4>1
      <3>2. CASE AddAppender
        <4>1. PICK x : logger' = [logger EXCEPT ![load.name] = [This EXCEPT !.m_appenders = x]]
          BY <3>2, <2>2 DEF AddAppender, WithAppender, This
        <4> QED BY <2>3, <4>1
      <3>3. CASE SkipAppender
        <4>1. PICK x : logger' = [logger EXCEPT ![load.name] = [This EXCEPT !.skipped = x]]
          BY <3>3, <2>2 DEF SkipAppender, This
        <4> QED BY <2>3, <4>1
      <3> QED BY <1>3, <3>1, <3>2, <3>3
    <2>5. LoadOK'
      BY <1>3, <1>c DEF ClearAppenders, AddAppender, SkipAppender, LoadOK, SettingUp, Dropping
    <2>6. UNCHANGED <<registered, clientVars, at, msg>>
      BY <1>3 DEF ClearAppenders, AddAppender, SkipAppender
    <2> QED BY <2>1, <2>4, <2>5, <2>6, CallKeeps DEF clientVars
  <1>4. CASE SetValid
    <2>1. IsLogger(This)
      BY <1>4, <1>a DEF SetValid, Setup, SettingUp
    <2>2. IsLogger([This EXCEPT !.m_valid = TRUE])
      BY <2>1, ValidKeeps, Zenon
    <2>3. behind' \subseteq Name /\ byHand' \subseteq byHand
      BY <1>4, <1>c DEF SetValid
    <2>4. \A l : IsLogger(l) /\ Setup("add", "setup", l) => Inv'
      BY <2>3, SetupKeeps DEF SettingUp
    <2>5. Setup("add", "setup", [This EXCEPT !.m_valid = TRUE])
      BY <1>4 DEF SetValid
    <2> QED BY <2>2, <2>4, <2>5, Zenon
  <1>5. CASE DropClear
    <2>1. IsLogger(This)
      BY <1>5, <1>a DEF DropClear, Setup, Dropping
    <2>2. IsLogger([This EXCEPT !.m_appenders = <<>>])
      BY <2>1, FieldKeeps DEF Levels
    <2>3. behind' \subseteq Name /\ byHand' \subseteq byHand
      BY <1>5, <1>c DEF DropClear
    <2> QED BY <1>5, <2>2, <2>3, SetupKeeps DEF DropClear, SettingUp, Dropping
  <1>6. CASE MakeAppender \/ DressAppender
    <2>1. LoadOK'
      BY <1>6, <1>c DEF MakeAppender, DressAppender, LoadOK, SettingUp, Dropping
    <2> QED BY <1>6, <2>1, LoadKeeps DEF MakeAppender, DressAppender
  <1>7. CASE SetupDone \/ LoadDone
    <2>1. ToDrop(load.new) \subseteq Name
      BY DEF ToDrop
    <2>2. LoadOK'
      <3>1. CASE SetupDone
        BY <3>1, <2>1, <1>c DEF SetupDone, LoadOK, SettingUp, Dropping
      <3>2. CASE LoadDone
        BY <3>2, <1>c DEF LoadDone, LoadOK, Idle, SettingUp, Dropping
      <3> QED BY <1>7, <3>1, <3>2
    <2> QED BY <1>7, <2>2, LoadKeeps DEF SetupDone, LoadDone
  <1>8. CASE Throw
    <2>1. ToSetUp(load.new) \subseteq Name
      BY DEF ToSetUp
    <2>2. LoadOK'
      BY <1>8, <2>1, <1>c DEF Throw, LoadOK, Idle, SettingUp, Dropping
    <2> QED BY <1>8, <2>2, LoadKeeps DEF Throw
  <1> QED BY <1>1, <1>2, <1>3, <1>4, <1>5, <1>6, <1>7, <1>8, LoadTurns DEF LoadStep

-----------------------------------------------------------------------------
(* The client.                                                             *)

\* What the client calls next, and that it has the logger it calls it of.
LEMMA ClientHasLogger ==
  ASSUME Inv, NEW call, Calls(call)
  PROVE  /\ called + 1 \in DOMAIN Script /\ Arg.call = call /\ Arg.name \in Names
         /\ call # "getLogger" => Arg.name \in registered
  <1> DEFINE i == called + 1
  <1>1. /\ i \in DOMAIN Script /\ called \in Nat /\ Arg = Script[i] /\ Arg.call = call
        /\ Arg.name \in Names
    BY ScriptAssumption DEF Inv, ClientOK, Calls, Arg
  <1>2. ASSUME call # "getLogger", Arg.name # Root PROVE Arg.name \in registered
    <2>1. PICK j \in 1 .. i : Script[j].name = Arg.name /\ Script[j].call = "getLogger"
      BY <1>1, <1>2, ClientAssumption
    <2>2. j \in 1 .. called
      BY <1>1, <1>2, <2>1
    <2> QED BY <2>1, <2>2 DEF Inv, ClientOK
  <1> QED BY <1>1, <1>2 DEF Inv, ClientOK

\* A call of the logger that it has.
LEMMA ClientCallKeeps ==
  ASSUME Inv, NEW call, call # "getLogger", NEW l, ClientCall(call, l), IsLogger(l)
  PROVE  Inv'
  <1> USE DEF Inv
  <1>1. /\ Calls(call) /\ logger' = [logger EXCEPT ![Arg.name] = l] /\ called' = called + 1
        /\ byHand' = byHand \cup {Arg.name}
        /\ UNCHANGED <<registered, m_value, load, behind, at, msg>>
    BY DEF ClientCall
  <1>2. Arg.name \in registered
    BY <1>1, ClientHasLogger
  <1>3. LoggersOK'
    BY <1>1, <1>2, SetKeeps
  <1>4. LoadOK' /\ ThreadsOK'
    BY <1>1 DEF LoadOK, ThreadsOK
  <1>5. ClientOK'
    <2>1. called' \in 0 .. Len(Script)
      BY <1>1, ScriptAssumption DEF ClientOK, Calls
    <2>2. \A i \in 1 .. called' : i \in 1 .. called \/ i = called + 1
      BY <1>1 DEF ClientOK
    <2>3. Script[called + 1].call # "getLogger"
      BY <1>1, ClientHasLogger DEF Arg
    <2> QED BY <1>1, <1>2, <2>1, <2>2, <2>3 DEF ClientOK
  <1> QED BY <1>3, <1>4, <1>5

\* The client gets a logger.
LEMMA ClientGetLoggerKeeps ==
  ASSUME Inv, ClientGetLogger
  PROVE  Inv'
  <1> USE DEF Inv
  <1>1. /\ Calls("getLogger") /\ GetLogger(Arg.name) /\ called' = called + 1
        /\ UNCHANGED <<m_value, load, behind, byHand, at, msg>>
    BY DEF ClientGetLogger
  <1>2. LoggersOK' /\ registered' = registered \cup {Arg.name}
    BY <1>1, ClientHasLogger, GetLoggerKeeps
  <1>3. LoadOK' /\ ThreadsOK'
    BY <1>1, <1>2 DEF LoadOK, ThreadsOK
  <1>4. ClientOK'
    <2>1. called' \in 0 .. Len(Script)
      BY <1>1, ScriptAssumption DEF ClientOK, Calls
    <2>2. \A i \in 1 .. called' : i \in 1 .. called \/ i = called + 1
      BY <1>1 DEF ClientOK
    <2> QED BY <1>1, <1>2, <2>1, <2>2 DEF ClientOK, Arg
  <1> QED BY <1>2, <1>3, <1>4

\* Every call of the client.
LEMMA ClientStepKeeps ==
  ASSUME Inv, ClientStep
  PROVE  Inv'
  <1> DEFINE i == called + 1
  <1>a. \A call : Calls(call) =>
          /\ i \in DOMAIN Script /\ Arg = Script[i] /\ Arg.call = call
          /\ call # "getLogger" => IsLogger(Its)
    BY ClientHasLogger DEF Inv, LoggersOK, Its, Arg
  <1>1. CASE ClientSetLevel
    <2>1. ClientCall("setLevel", [Its EXCEPT !.m_level = Arg.level])
      BY <1>1 DEF ClientSetLevel
    <2>2. IsLogger(Its) /\ Arg.level \in Levels
      BY <2>1, <1>a, ScriptAssumption DEF ClientCall, Levels
    <2> QED BY <2>1, <2>2, FieldKeeps, ClientCallKeeps
  <1>2. CASE ClientSetValid
    <2>1. ClientCall("setValid", [Its EXCEPT !.m_valid = Arg.valid])
      BY <1>2 DEF ClientSetValid
    <2>2. IsLogger(Its) /\ Arg.valid \in BOOLEAN
      BY <2>1, <1>a, ScriptAssumption DEF ClientCall
    <2>3. IsLogger([Its EXCEPT !.m_valid = Arg.valid])
      BY <2>2, ValidKeeps, Zenon
    <2>4. \A l : IsLogger(l) /\ ClientCall("setValid", l) => Inv'
      BY ClientCallKeeps
    <2> QED BY <2>1, <2>3, <2>4, Zenon
  <1>3. CASE ClientSetLayout \/ ClientAddAppender \/ ClientClearAppenders
    <2>1. \/ ClientCall("setLayout", [Its EXCEPT !.m_layout = Arg.pattern])
          \/ ClientCall("addAppender", WithAppender(Its, Arg.appender))
          \/ ClientCall("clearAppenders", [Its EXCEPT !.m_appenders = <<>>])
      BY <1>3 DEF ClientSetLayout, ClientAddAppender, ClientClearAppenders
    <2>2. IsLogger(Its)
      BY <2>1, <1>a DEF ClientCall
    <2>3. \A x : IsLogger([Its EXCEPT !.m_layout = x]) /\ IsLogger([Its EXCEPT !.m_appenders = x])
      BY <2>2, FieldKeeps DEF Levels
    <2>4. IsLogger(WithAppender(Its, Arg.appender))
      BY <2>3 DEF WithAppender
    <2> QED BY <2>1, <2>3, <2>4, ClientCallKeeps
  <1> QED BY <1>1, <1>2, <1>3, ClientGetLoggerKeeps DEF ClientStep

-----------------------------------------------------------------------------
(* The threads that log.                                                   *)

\* A thread gets a logger, or goes one step on.
LEMMA ThreadKeeps ==
  ASSUME Inv, NEW t \in Thread,
         (\E n \in Names, level \in Level : CallGetLogger(t, n, level)) \/ ThreadStep(t)
  PROVE  Inv'
  <1> USE DEF Inv
  <1>1. ASSUME NEW n \in Names, NEW level \in Level, CallGetLogger(t, n, level) PROVE Inv'
    <2>1. LoggersOK' /\ registered' = registered \cup {n}
      BY <1>1, GetLoggerKeeps DEF CallGetLogger
    <2>2. ThreadsOK'
      BY <1>1 DEF CallGetLogger, Goto, ThreadsOK
    <2>3. LoadOK' /\ ClientOK'
      BY <1>1, <2>1 DEF CallGetLogger, clientVars, LoadOK, ClientOK
    <2> QED BY <2>1, <2>2, <2>3
  <1>2. ASSUME ThreadStep(t) PROVE Inv'
    <2>1. PICK from, to \in {"idle", "level", "log", "warn", "warn_log", "fallback"} :
            LogStep(t, from, to)
      BY <1>2 DEF ThreadStep, TestLevel, Log, Warn, WarnLog, Fallback
    <2>2. NoMessage \in [to : Names, level : Level \cup {UNKNOW}]
      BY DEF NoMessage, Names
    <2>3. ThreadsOK'
      BY <2>1, <2>2 DEF LogStep, Goto, ThreadsOK
    <2> QED BY <2>1, <2>3 DEF LogStep, clientVars, LoggersOK, LoadOK, ClientOK
  <1> QED BY <1>1, <1>2

-----------------------------------------------------------------------------
(* The theorems.                                                           *)

\* Every step keeps the invariant.
LEMMA InvStep == Inv /\ [Next]_vars => Inv'
  <1> SUFFICES ASSUME Inv, [Next]_vars PROVE Inv'
    OBVIOUS
  <1>1. CASE UNCHANGED vars
    BY <1>1 DEF vars, clientVars, Inv, LoggersOK, LoadOK, ClientOK, ThreadsOK
  <1> QED BY <1>1, LoadBegins, LoadStepKeeps, ClientStepKeeps, ThreadKeeps DEF Next

(* The invariant that the theorems below are parts of.                     *)
THEOREM Invariance == Spec => []Inv
  BY InvInit, InvStep, PTL DEF Spec

(* Every variable keeps its type, whatever is loaded, called and logged.   *)
THEOREM TypeCorrect == Spec => []TypeOK
  <1>1. Inv => TypeOK
    <2> SUFFICES ASSUME Inv PROVE TypeOK
      OBVIOUS
    <2>1. \A n \in Names :
            /\ logger[n].m_valid \in BOOLEAN /\ logger[n].m_level \in Levels
            /\ n \notin registered => logger[n] = New(UNKNOW)
      BY DEF Inv, LoggersOK, IsLogger
    <2>2. registered \subseteq Names /\ byHand \subseteq registered /\ called \in 0 .. Len(Script)
      BY DEF Inv, LoggersOK, ClientOK
    <2>3. /\ m_value \in [Names -> Conf \cup {None}] /\ load.todo \subseteq Names
          /\ behind \subseteq Name
          /\ load.at \in {"idle", "setup", "drop"} \cup SettingUp \cup Dropping
      BY DEF Inv, LoadOK, Names
    <2> QED BY <2>1, <2>2, <2>3 DEF Inv, ThreadsOK, SettingUp, Dropping, Levels, TypeOK
  <1> QED BY <1>1, Invariance, PTL

-----------------------------------------------------------------------------
(* Messages can be printed (PrintOK), and the loggers are as they were     *)
(* configured.  WInv says it of every moment of a load: what has been done *)
(* to the logger at hand (HalfDone, if the client leaves it alone), what   *)
(* the others are due to be (Settled).                                     *)

\* A record with the fields of an appender.
IsAppender(a) == a = [type |-> a.type, m_level |-> a.m_level, m_layout |-> a.m_layout]

\* Appenders that all have a layout.
Laid(s) ==
  /\ s \in Seq(Range(s))
  /\ \A k \in 1 .. Len(s) : s[k].m_layout # None

HasLayout == {"clear", "add", "dress", "push"}
Adding == {"add", "dress", "push"}

\* A valid logger, one of whose appenders prints every message.
TakesAll(l) ==
  l.m_valid /\ \E i \in DOMAIN l.m_appenders : l.m_appenders[i].m_level = UNKNOW

\* Nothing that has to be laid out lacks a layout, and the root logger takes
\* all messages unless the client has spoiled it.
PrintOK ==
  /\ \A n \in Names :
       /\ Laid(logger[n].m_appenders)
       /\ \A i \in 1 .. called :
            Script[i].call = "setLayout" /\ Script[i].name = n => logger[n].m_layout # None
  /\ load.at \in HasLayout => This.m_layout # None
  /\ load.at \in {"dress", "push"} => IsAppender(load.appender)
  /\ load.at = "push" => load.appender.m_layout # None
  /\ RootSpoiled \/ TakesAll(logger[Root])

\* What a load has still to add is the rest of what is configured.
RestOK ==
  /\ load.at \in Adding =>
       /\ load.rest \in Seq(Range(ThisConf.appenders))
       /\ Done \in Nat
       /\ \A k \in 1 .. Len(load.rest) : load.rest[k] = ThisConf.appenders[Done + k]
  /\ load.at \in {"dress", "push"} => load.rest # <<>> /\ Head(load.rest).type # "unknown"

ItsLevel  == LevelOf(ThisConf.level, UNKNOW)
ItsLayout == PatternOf(ThisConf.pattern, Pattern)

\* What a load has done so far to a logger that the client leaves alone.
HalfDone ==
  load.name \notin byHand =>
    /\ load.at \in (SettingUp \cup Dropping) \ {"invalid", "drop_invalid"} => ~ This.m_valid
    /\ load.at \in {"layout"} \cup HasLayout => This.m_level = ItsLevel
    /\ load.at \in HasLayout => This.m_layout = ItsLayout
    /\ load.at \in Adding => MadeOf(This, ThisConf, Done)
    /\ load.at = "dress" => load.appender = Appender(Head(load.rest), ItsLevel)
    /\ load.at = "push" =>
         load.appender = Dressed(Appender(Head(load.rest), ItsLevel), ItsLayout)

Whole ==
  \A n \in Name \ byHand : logger[n].m_valid => \E conf \in Conf : Is(logger[n], conf)

\* Which loggers a load has to turn to.
TodoOK ==
  /\ load.at \in {"setup"} \cup SettingUp => load.todo \subseteq ToSetUp(load.new)
  /\ load.at \in {"drop"} \cup Dropping => load.todo \subseteq ToDrop(load.new)
  /\ load.at \in SettingUp => load.name \in ToSetUp(load.new) \ load.todo
  /\ load.at \in Dropping => load.name \in ToDrop(load.new) \ load.todo

\* A logger is as the value v of `logs` says.
As(l, conf) ==
  IF conf = None THEN ~ l.m_valid /\ l.m_appenders = <<>> ELSE l.m_valid /\ Is(l, conf)

\* The value that the load under way should have brought a logger to.
Due(n) ==
  IF \/ load.at = "idle" \/ n \in load.todo
     \/ load.at \in {"setup"} \cup SettingUp /\ n \notin ToSetUp(load.new)
    THEN m_value[n] ELSE load.new[n]

Busy(n) == load.at \in SettingUp \cup Dropping /\ n = load.name

Settled == \A n \in Name \ (behind \cup byHand) : ~ Busy(n) => As(logger[n], Due(n))

WInv == PrintOK /\ RestOK /\ HalfDone /\ Whole /\ TodoOK /\ Settled

-----------------------------------------------------------------------------
(* What a logger's appenders are made of.                                  *)

\* No appender lacks a layout, and one more that has one is added.
LEMMA LaidMore ==
  /\ Laid(<<>>)
  /\ \A s, a : Laid(s) /\ a.m_layout # None => Laid(Append(s, a))
  <1>1. Laid(<<>>)
    BY DEF Laid
  <1>2. ASSUME NEW s, NEW a, Laid(s), a.m_layout # None PROVE Laid(Append(s, a))
    <2> DEFINE r == Append(s, a)
    <2>1. s \in Seq(Range(s)) /\ \A k \in 1 .. Len(s) : s[k].m_layout # None
      BY <1>2 DEF Laid
    <2>2. s \in Seq(Range(s) \cup {a})
      BY <2>1
    <2>3. /\ r \in Seq(Range(s) \cup {a}) /\ Len(r) = Len(s) + 1
          /\ \A k \in 1 .. Len(r) : r[k] = IF k = Len(s) + 1 THEN a ELSE s[k]
      BY <2>2
    <2>4. r \in Seq(Range(r))
      <3> HIDE DEF r
      <3>1. \A k \in 1 .. Len(r) : r[k] \in Range(r)
        BY <2>3 DEF Range
      <3> QED BY <2>3, <3>1
    <2>5. \A k \in 1 .. Len(r) : r[k].m_layout # None
      <3> HIDE DEF r
      <3> QED BY <2>1, <2>3, <1>2
    <2> QED BY <2>4, <2>5 DEF Laid
  <1> QED BY <1>1, <1>2

\* What is made depends on the appenders and on those skipped only.
LEMMA MadeSame ==
  ASSUME NEW conf, NEW k, NEW l, NEW r, MadeOf(l, conf, k),
         r.m_appenders = l.m_appenders, r.skipped = l.skipped
  PROVE  MadeOf(r, conf, k)
  BY DEF MadeOf

\* Nothing is made of nothing.
LEMMA MadeNone ==
  ASSUME NEW conf, NEW l, l.m_appenders = <<>>, l.skipped = {}
  PROVE  MadeOf(l, conf, 0)
  <1> DEFINE from == [i \in {} |-> 0]
  <1>1. DOMAIN l.m_appenders = {}
    <2>1. DOMAIN <<>> = {}
      OBVIOUS
    <2> QED BY <2>1
  <1>2. from \in [DOMAIN l.m_appenders -> 1 .. 0]
    BY <1>1
  <1>3. \A j \in 1 .. 0 : FALSE
    OBVIOUS
  <1> HIDE DEF from
  <1>4. \A i \in DOMAIN from : FALSE
    BY <1>1, <1>2
  <1> QED BY <1>2, <1>3, <1>4 DEF MadeOf

\* The next configured appender is skipped, unless it is a console ...
LEMMA MadeSkip ==
  ASSUME NEW conf, NEW l, NEW r, NEW k \in Nat, MadeOf(l, conf, k),
         r.m_appenders = l.m_appenders, r.skipped = l.skipped \cup {k + 1},
         conf.appenders[k + 1].type # "ConsoleAppender"
  PROVE  MadeOf(r, conf, k + 1)
  <1> DEFINE s == l.m_appenders
             M(i, j) == /\ conf.appenders[j].type # "unknown"
                        /\ s[i] = Made(conf.appenders[j], conf)
             C(j) == conf.appenders[j].type # "ConsoleAppender"
  <1>1. /\ l.skipped \subseteq 1 .. k /\ \A j \in l.skipped : C(j)
    BY DEF MadeOf
  <1>2. PICK from \in [DOMAIN s -> 1 .. k] :
        /\ \A j \in 1 .. k : j \in l.skipped \/ \E i \in DOMAIN from : from[i] = j
        /\ \A i, j \in DOMAIN from : i < j => from[i] < from[j]
        /\ \A i \in DOMAIN from : from[i] \notin l.skipped /\ M(i, from[i])
    BY DEF MadeOf
  <1> HIDE DEF M, C, s
  <1>3. C(k + 1)
    BY DEF C
  <1>4. r.skipped \subseteq 1 .. k + 1 /\ \A j \in r.skipped : C(j)
    BY <1>1, <1>3
  <1>5. from \in [DOMAIN s -> 1 .. k + 1]
    BY <1>2
  <1>6. \A j \in 1 .. k + 1 : j \in r.skipped \/ \E i \in DOMAIN from : from[i] = j
    BY <1>2
  <1>7. \A i \in DOMAIN from : from[i] \notin r.skipped /\ M(i, from[i])
    <2>1. \A i \in DOMAIN from : from[i] \in 1 .. k
      BY <1>2
    <2> QED BY <1>2, <2>1
  <1> QED BY <1>2, <1>4, <1>5, <1>6, <1>7 DEF MadeOf, M, C, s

\* ... or made.
LEMMA MadeMore ==
  ASSUME NEW conf, NEW l, NEW r, NEW k \in Nat, MadeOf(l, conf, k),
         NEW S, l.m_appenders \in Seq(S), conf.appenders[k + 1].type # "unknown",
         NEW a, a = Made(conf.appenders[k + 1], conf),
         r.m_appenders = Append(l.m_appenders, a), r.skipped = l.skipped
  PROVE  MadeOf(r, conf, k + 1)
  <1> DEFINE M(x, j) == /\ conf.appenders[j].type # "unknown"
                        /\ x = Made(conf.appenders[j], conf)
             C(j) == conf.appenders[j].type # "ConsoleAppender"
             s == l.m_appenders
             t == r.m_appenders
  <1>1. l.skipped \subseteq 1 .. k /\ \A j \in l.skipped : C(j)
    BY DEF MadeOf
  <1>2. PICK from \in [DOMAIN s -> 1 .. k] :
        /\ \A j \in 1 .. k : j \in l.skipped \/ \E i \in DOMAIN from : from[i] = j
        /\ \A i, j \in DOMAIN from : i < j => from[i] < from[j]
        /\ \A i \in DOMAIN from : from[i] \notin l.skipped /\ M(s[i], from[i])
    BY DEF MadeOf
  <1>3. M(a, k + 1)
    OBVIOUS
  <1>4. s \in Seq(S) /\ t = Append(s, a)
    OBVIOUS
  <1> HIDE DEF M, C, s, t
  <1> DEFINE n == Len(s)
  <1>5. n \in Nat /\ DOMAIN s = 1 .. n
    BY <1>4
  <1>6. /\ DOMAIN t = 1 .. n + 1
        /\ \A i \in 1 .. n + 1 : t[i] = IF i = n + 1 THEN a ELSE s[i]
    <2>1. s \in Seq(S \cup {a})
      BY <1>4
    <2> QED BY <1>4, <2>1
  <1> HIDE DEF n
  <1> DEFINE more == [i \in 1 .. n + 1 |-> IF i = n + 1 THEN k + 1 ELSE from[i]]
  <1>7. \A i \in 1 .. n : from[i] \in 1 .. k /\ DOMAIN from = 1 .. n
    BY <1>2, <1>5
  <1>8. /\ DOMAIN more = 1 .. n + 1
        /\ \A i \in 1 .. n + 1 : more[i] = IF i = n + 1 THEN k + 1 ELSE from[i]
    OBVIOUS
  <1>9. more \in [DOMAIN t -> 1 .. k + 1]
    <2>1. \A i \in 1 .. n + 1 : (IF i = n + 1 THEN k + 1 ELSE from[i]) \in 1 .. k + 1
      BY <1>5, <1>7
    <2> QED BY <1>6, <2>1
  <1> HIDE DEF more
  <1>10. \A j \in 1 .. k + 1 : j \in r.skipped \/ \E i \in DOMAIN more : more[i] = j
    <2> SUFFICES ASSUME NEW j \in 1 .. k + 1, j \notin l.skipped
                 PROVE  \E i \in DOMAIN more : more[i] = j
      OBVIOUS
    <2>1. CASE j = k + 1
      <3>1. n + 1 \in DOMAIN more /\ more[n + 1] = j
        BY <1>5, <1>8, <2>1
      <3> QED BY <3>1
    <2>2. CASE j # k + 1
      <3>1. PICK i \in DOMAIN from : from[i] = j
        BY <1>2, <2>2
      <3>2. i \in 1 .. n
        BY <1>2, <1>5, <3>1
      <3>3. i \in DOMAIN more /\ more[i] = j
        BY <1>5, <1>8, <3>1, <3>2
      <3> QED BY <3>3
    <2> QED BY <2>1, <2>2
  <1>11. \A i, j \in DOMAIN more : i < j => more[i] < more[j]
    <2> SUFFICES ASSUME NEW i \in 1 .. n + 1, NEW j \in 1 .. n + 1, i < j
                 PROVE  more[i] < more[j]
      BY <1>8
    <2>1. i \in 1 .. n /\ more[i] = from[i] /\ from[i] \in 1 .. k
      BY <1>5, <1>7, <1>8
    <2>2. CASE j = n + 1
      BY <1>8, <2>1, <2>2
    <2>3. CASE j # n + 1
      <3>1. j \in 1 .. n
        BY <1>5, <2>3
      <3>2. more[j] = from[j] /\ j \in DOMAIN from /\ i \in DOMAIN from
        BY <1>7, <1>8, <2>1, <2>3, <3>1
      <3> QED BY <1>2, <2>1, <3>2
    <2> QED BY <2>2, <2>3
  <1>12. \A i \in DOMAIN more : more[i] \notin r.skipped /\ M(t[i], more[i])
    <2> SUFFICES ASSUME NEW i \in 1 .. n + 1
                 PROVE  more[i] \notin l.skipped /\ M(t[i], more[i])
      BY <1>8
    <2>1. CASE i = n + 1
      BY <1>1, <1>3, <1>6, <1>8, <2>1
    <2>2. CASE i # n + 1
      <3>1. i \in 1 .. n /\ t[i] = s[i] /\ more[i] = from[i] /\ i \in DOMAIN from
        BY <1>2, <1>5, <1>6, <1>8, <2>2
      <3> QED BY <1>2, <3>1
    <2> QED BY <2>1, <2>2
  <1>13. r.skipped \subseteq 1 .. k + 1 /\ \A j \in r.skipped : C(j)
    BY <1>1
  <1>14. \A i \in DOMAIN more :
           /\ more[i] \notin r.skipped /\ conf.appenders[more[i]].type # "unknown"
           /\ r.m_appenders[i] = Made(conf.appenders[more[i]], conf)
    BY <1>12 DEF M, t
  <1>15. /\ more \in [DOMAIN r.m_appenders -> 1 .. k + 1]
         /\ \A j \in r.skipped : conf.appenders[j].type # "ConsoleAppender"
    BY <1>9, <1>13 DEF C, t
  <1> QED BY <1>10, <1>11, <1>13, <1>14, <1>15, Zenon DEF MadeOf

-----------------------------------------------------------------------------
(* What the steps do, field by field.                                      *)

\* A change of one field leaves the others.
LEMMA Fields ==
  ASSUME NEW l, IsLogger(l), NEW x
  PROVE  /\ LET r == [l EXCEPT !.m_level = x]
            IN  /\ r.m_valid = l.m_valid /\ r.m_level = x /\ r.m_layout = l.m_layout
                /\ r.m_appenders = l.m_appenders /\ r.skipped = l.skipped
         /\ LET r == [l EXCEPT !.m_layout = x]
            IN  /\ r.m_valid = l.m_valid /\ r.m_level = l.m_level /\ r.m_layout = x
                /\ r.m_appenders = l.m_appenders /\ r.skipped = l.skipped
         /\ LET r == [l EXCEPT !.m_appenders = x]
            IN  /\ r.m_valid = l.m_valid /\ r.m_level = l.m_level /\ r.m_layout = l.m_layout
                /\ r.m_appenders = x /\ r.skipped = l.skipped
         /\ LET r == [l EXCEPT !.skipped = x]
            IN  /\ r.m_valid = l.m_valid /\ r.m_level = l.m_level /\ r.m_layout = l.m_layout
                /\ r.m_appenders = l.m_appenders /\ r.skipped = x
         /\ \A y :
              LET r == [l EXCEPT !.m_appenders = x, !.skipped = y]
              IN  /\ r.m_valid = l.m_valid /\ r.m_level = l.m_level
                  /\ r.m_layout = l.m_layout /\ r.m_appenders = x /\ r.skipped = y
  BY DEF IsLogger

\* The same for m_valid, which is a truth value.
LEMMA ValidField ==
  ASSUME NEW l, IsLogger(l), NEW x \in BOOLEAN
  PROVE  LET r == [l EXCEPT !.m_valid = x]
         IN  /\ r.m_valid <=> x
             /\ r.m_level = l.m_level /\ r.m_layout = l.m_layout
             /\ r.m_appenders = l.m_appenders /\ r.skipped = l.skipped
  BY DEF IsLogger

\* The logger that a load is busy with, and all that is left alone.
LEMMA BusyWith ==
  ASSUME Inv, load.at \in SettingUp \cup Dropping
  PROVE  /\ load.name \in Name /\ load.name \in Names /\ load.name \in registered
         /\ load.name # Root /\ IsLogger(This)
         /\ load.at \in SettingUp => ThisConf \in Conf
         /\ \A l : logger' = [logger EXCEPT ![load.name] = l] =>
              /\ logger'[load.name] = l
              /\ \A m \in Names : m # load.name => logger'[m] = logger[m]
  BY NameAssumption DEF Inv, LoadOK, LoggersOK, This, ThisConf, Names

\* A load only goes to another place.
Goes(from, to) ==
  /\ load.at = from /\ load'.at = to
  /\ load'.new = load.new /\ load'.todo = load.todo /\ load'.name = load.name

\* A call that a load makes of a logger.
LEMMA SetupDoes ==
  ASSUME Inv, NEW from, NEW to, NEW l, Setup(from, to, l), from \in SettingUp \cup Dropping
  PROVE  /\ Goes(from, to) /\ load'.rest = load.rest /\ load'.appender = load.appender
         /\ logger'[load.name] = l
         /\ \A m \in Names : m # load.name => logger'[m] = logger[m]
         /\ UNCHANGED <<registered, m_value, called, at, msg>>
  <1>1. /\ load.at = from /\ load' = [load EXCEPT !.at = to]
        /\ logger' = [logger EXCEPT ![load.name] = l]
        /\ UNCHANGED <<registered, m_value, called, at, msg>>
    BY DEF Setup
  <1>2. Goes(from, to) /\ load'.rest = load.rest /\ load'.appender = load.appender
    BY <1>1 DEF Goes, Inv, LoadOK
  <1> QED BY <1>1, <1>2, BusyWith

\* Loggers that nobody asked for before are made, and not valid.
LEMMA GetLoggerDoes ==
  ASSUME Inv, NEW n \in Names, GetLogger(n)
  PROVE  \A m \in Names :
           \/ logger'[m] = logger[m]
           \/ /\ m \notin registered
              /\ logger[m] = New(UNKNOW) /\ \E g \in Garbage : logger'[m] = New(g)
  <1>1. CASE n \in registered
    BY <1>1 DEF GetLogger
  <1>2. CASE n \notin registered
    <2>1. PICK g \in Garbage : logger' = [logger EXCEPT ![n] = New(g)]
      BY <1>2 DEF GetLogger
    <2>2. \A m \in Names : logger'[m] = IF m = n THEN New(g) ELSE logger[m]
      BY <2>1 DEF Inv, LoggersOK
    <2> QED BY <1>2, <2>2 DEF Inv, LoggersOK
  <1> QED BY <1>1, <1>2

\* A new logger is neither valid nor laid out.
LEMMA NewIs ==
  ASSUME NEW level
  PROVE  /\ New(level).m_valid <=> FALSE
         /\ New(level).m_layout = None /\ New(level).m_appenders = <<>>
  BY DEF New

-----------------------------------------------------------------------------
(* Frames.                                                                 *)

\* While a load is busy with one logger, the others are as they were.
LEMMA BusyFrame ==
  ASSUME Inv, WInv, NEW from, NEW to, Goes(from, to),
         \/ from \in SettingUp /\ to \in SettingUp
         \/ from \in Dropping /\ to \in Dropping,
         \A m \in Names : m # load.name => logger'[m] = logger[m],
         logger'[load.name].m_valid =>
           load.name \in byHand' \/ logger'[load.name] = logger[load.name],
         byHand' \subseteq byHand, byHand \subseteq byHand' \cup {load.name},
         ~ logger'[load.name].m_valid \/ byHand' = byHand,
         UNCHANGED <<m_value, behind>>
  PROVE  Whole' /\ TodoOK' /\ Settled'
  <1>1. Whole'
    BY DEF WInv, Whole, Goes, Names
  <1>2. TodoOK'
    <2>1. ToSetUp(load.new)' = ToSetUp(load.new) /\ ToDrop(load.new)' = ToDrop(load.new)
      BY DEF Goes, ToSetUp, ToDrop
    <2> QED BY <2>1 DEF WInv, TodoOK, Goes, SettingUp, Dropping
  <1>3. Settled'
    <2> SUFFICES ASSUME NEW n \in Name, n \notin behind', n \notin byHand', ~ Busy(n)'
                 PROVE  As(logger[n], Due(n))'
      BY DEF Settled
    <2>1. n # load.name /\ ~ Busy(n)
      BY DEF Busy, Goes
    <2>2. As(logger[n], Due(n)) /\ n \in Names
      BY <2>1 DEF WInv, Settled, Names
    <2>3. ToSetUp(load.new)' = ToSetUp(load.new)
      BY DEF Goes, ToSetUp
    <2>4. Due(n)' = Due(n)
      BY <2>3 DEF Due, Goes, SettingUp, Dropping
    <2>5. logger'[n] = logger[n]
      BY <2>1, <2>2
    <2> QED BY <2>2, <2>4, <2>5 DEF As, Is
  <1> QED BY <1>1, <1>2, <1>3

\* A load that goes on with the same logger has the same configuration for it.
LEMMA GoesOn ==
  ASSUME NEW from, NEW to, Goes(from, to)
  PROVE  /\ This' = logger'[load.name] /\ ThisConf' = ThisConf
         /\ ItsLevel' = ItsLevel /\ ItsLayout' = ItsLayout
         /\ load'.rest = load.rest => Done' = Done
  BY DEF Goes, This, ThisConf, ItsLevel, ItsLayout, Done

\* What is printed, while a load is busy with one logger, which is not root.
LEMMA PrintFrame ==
  ASSUME Inv, PrintOK, load.at \in SettingUp \cup Dropping,
         \A m \in Names : m # load.name => logger'[m] = logger[m],
         Laid(logger'[load.name].m_appenders),
         logger'[load.name].m_layout # None
           \/ logger'[load.name].m_layout = logger[load.name].m_layout,
         load'.at \in HasLayout =>
           load'.name = load.name /\ logger'[load.name].m_layout # None,
         load'.at \in {"dress", "push"} => IsAppender(load'.appender),
         load'.at = "push" => load'.appender.m_layout # None,
         called' = called
  PROVE  PrintOK'
  <1>1. load.name \in Names /\ load.name # Root /\ Root \in Names
    BY BusyWith DEF Names
  <1>2. \A n \in Names : Laid(logger'[n].m_appenders)
    BY DEF PrintOK
  <1>3. \A n \in Names, i \in 1 .. called' :
          Script[i].call = "setLayout" /\ Script[i].name = n => logger'[n].m_layout # None
    BY <1>1 DEF PrintOK
  <1>4. load'.at \in HasLayout => This'.m_layout # None
    BY DEF This
  <1>5. (RootSpoiled \/ TakesAll(logger[Root]))'
    <2>1. logger'[Root] = logger[Root] /\ (RootSpoiled' <=> RootSpoiled)
      BY <1>1 DEF RootSpoiled
    <2> QED BY <2>1 DEF PrintOK, TakesAll
  <1> QED BY <1>2, <1>3, <1>4, <1>5 DEF PrintOK

\* The logger is made invalid: from here on it may be half configured.
LEMMA InvalidKeepsWhole ==
  ASSUME Inv, WInv, SetInvalid \/ DropInvalid
  PROVE  WInv'
  <1> DEFINE l == [This EXCEPT !.m_valid = FALSE]
  <1>1. PICK from, to : /\ Setup(from, to, l)
                        /\ \/ from = "invalid" /\ to = "level"
                           \/ from = "drop_invalid" /\ to = "drop_clear"
    BY DEF SetInvalid, DropInvalid
  <1>2. byHand' = byHand \ {load.name} /\ UNCHANGED behind
    BY DEF SetInvalid, DropInvalid
  <1>3. from \in SettingUp \cup Dropping /\ load.at \in SettingUp \cup Dropping
    BY <1>1 DEF SettingUp, Dropping, Setup
  <1>4. /\ ~ l.m_valid /\ l.m_layout = This.m_layout /\ l.m_appenders = This.m_appenders
    BY <1>3, BusyWith, ValidField
  <1> HIDE DEF l
  <1>5. /\ Goes(from, to) /\ logger'[load.name] = l
        /\ \A m \in Names : m # load.name => logger'[m] = logger[m]
        /\ UNCHANGED <<registered, m_value, called, at, msg>>
    BY <1>1, <1>3, SetupDoes
  <1>6. load'.at = to /\ load'.name = load.name /\ This' = l
    BY <1>5, GoesOn DEF Goes
  <1>7. Whole' /\ TodoOK' /\ Settled'
    <2>1. \/ from \in SettingUp /\ to \in SettingUp
          \/ from \in Dropping /\ to \in Dropping
      BY <1>1 DEF SettingUp, Dropping
    <2> QED BY <1>2, <1>4, <1>5, <2>1, BusyFrame
  <1>8. PrintOK'
    <2>1. /\ Laid(l.m_appenders) /\ load'.at \notin HasLayout
          /\ load'.at \notin {"dress", "push"}
      BY <1>1, <1>3, <1>4, <1>6, BusyWith DEF WInv, PrintOK, This, HasLayout
    <2> QED BY <1>3, <1>4, <1>5, <2>1, PrintFrame DEF WInv, This
  <1>9. RestOK'
    BY <1>1, <1>6 DEF RestOK, Adding
  <1>10. HalfDone'
    BY <1>1, <1>4, <1>6 DEF HalfDone, HasLayout, Adding
  <1> QED BY <1>7, <1>8, <1>9, <1>10 DEF WInv

\* Its level and its layout are set.
LEMMA SetKeepsWhole ==
  ASSUME Inv, WInv, SetLevel \/ SetLayout
  PROVE  WInv'
  <1> DEFINE r == [This EXCEPT !.m_level = ItsLevel]
             s == [This EXCEPT !.m_layout = ItsLayout]
  <1>1. PICK from, to, l :
          /\ Setup(from, to, l)
          /\ \/ from = "level" /\ to = "layout" /\ l = r
             \/ from = "layout" /\ to = "clear" /\ l = s
    BY DEF SetLevel, SetLayout, ItsLevel, ItsLayout
  <1>2. UNCHANGED <<byHand, behind>>
    BY DEF SetLevel, SetLayout
  <1>3. from \in SettingUp /\ to \in SettingUp /\ load.at = from
    BY <1>1 DEF SettingUp, Setup
  <1>4. /\ l.m_valid = This.m_valid /\ l.m_appenders = This.m_appenders
        /\ from = "level" => l.m_level = ItsLevel /\ l.m_layout = This.m_layout
        /\ from = "layout" => l.m_level = This.m_level /\ l.m_layout = ItsLayout
    <2>1. IsLogger(This)
      BY <1>3, BusyWith
    <2>2. /\ r.m_valid = This.m_valid /\ r.m_appenders = This.m_appenders
          /\ r.m_level = ItsLevel /\ r.m_layout = This.m_layout
      BY <2>1, Fields
    <2>3. /\ s.m_valid = This.m_valid /\ s.m_appenders = This.m_appenders
          /\ s.m_level = This.m_level /\ s.m_layout = ItsLayout
      BY <2>1, Fields
    <2> HIDE DEF r, s
    <2> QED BY <1>1, <2>2, <2>3
  <1> HIDE DEF r, s
  <1>5. /\ Goes(from, to) /\ logger'[load.name] = l
        /\ \A m \in Names : m # load.name => logger'[m] = logger[m]
        /\ UNCHANGED <<registered, m_value, called, at, msg>>
    BY <1>1, <1>3, SetupDoes
  <1>6. /\ load'.at = to /\ load'.name = load.name /\ This' = l
        /\ ItsLevel' = ItsLevel /\ ItsLayout' = ItsLayout
    BY <1>5, GoesOn DEF Goes
  <1>7. load.name \notin byHand => ~ This.m_valid
    BY <1>1, <1>3 DEF WInv, HalfDone, SettingUp
  <1>8. Whole' /\ TodoOK' /\ Settled'
    BY <1>2, <1>3, <1>4, <1>5, <1>7, BusyFrame
  <1>9. PrintOK'
    <2>1. ItsLayout # None
      BY PatternAssumption DEF ItsLayout, PatternOf
    <2>2. Laid(l.m_appenders) /\ load'.at \notin {"dress", "push"}
      BY <1>1, <1>3, <1>4, <1>6, BusyWith DEF WInv, PrintOK, This
    <2>3. l.m_layout # None \/ l.m_layout = logger[load.name].m_layout
      BY <1>1, <1>4, <2>1 DEF This
    <2>4. load'.at \in HasLayout => l.m_layout # None
      BY <1>1, <1>4, <1>6, <2>1 DEF HasLayout
    <2> QED BY <1>3, <1>5, <1>6, <2>2, <2>3, <2>4, PrintFrame DEF WInv
  <1>10. RestOK'
    BY <1>1, <1>6 DEF RestOK, Adding
  <1>11. HalfDone'
    <2>1. load.name \notin byHand /\ from = "layout" => This.m_level = ItsLevel
      BY <1>3 DEF WInv, HalfDone
    <2> QED BY <1>1, <1>2, <1>4, <1>6, <1>7, <2>1 DEF HalfDone, HasLayout, Adding, SettingUp
  <1> QED BY <1>8, <1>9, <1>10, <1>11 DEF WInv

\* The calls that make the appenders, field by field.
LEMMA AppenderDoes ==
  ASSUME Inv
  PROVE  /\ ClearAppenders =>
              /\ Goes("clear", "add") /\ load'.rest = ThisConf.appenders
              /\ logger' = [logger EXCEPT ![load.name] =
                   [This EXCEPT !.m_appenders = <<>>, !.skipped = {}]]
         /\ MakeAppender =>
              /\ Goes("add", "dress") /\ load'.rest = load.rest /\ logger' = logger
              /\ load.rest # <<>> /\ Head(load.rest).type # "unknown"
              /\ load'.appender = Appender(Head(load.rest), This.m_level)
         /\ DressAppender =>
              /\ Goes("dress", "push") /\ load'.rest = load.rest /\ logger' = logger
              /\ load'.appender = Dressed(load.appender, This.m_layout)
         /\ AddAppender =>
              /\ Goes("push", "add") /\ load'.rest = Tail(load.rest)
              /\ logger' = [logger EXCEPT ![load.name] =
                   [This EXCEPT !.m_appenders =
                      Append(This.m_appenders, Dressed(load.appender, This.m_layout))]]
         /\ SkipAppender =>
              /\ Goes("add", "add") /\ load'.rest = Tail(load.rest)
              /\ load.rest # <<>> /\ Head(load.rest).type # "ConsoleAppender"
              /\ logger' = [logger EXCEPT ![load.name] =
                   [This EXCEPT !.skipped = This.skipped \cup {Done + 1}]]
         /\ ClearAppenders \/ MakeAppender \/ DressAppender \/ AddAppender \/ SkipAppender =>
              UNCHANGED <<registered, m_value, behind, byHand, called, at, msg>>
  <1>1. load = [at |-> load.at, new |-> load.new, todo |-> load.todo, name |-> load.name,
                rest |-> load.rest, appender |-> load.appender]
    BY DEF Inv, LoadOK
  <1>2. ASSUME ClearAppenders
        PROVE  /\ Goes("clear", "add") /\ load'.rest = ThisConf.appenders
               /\ logger' = [logger EXCEPT ![load.name] =
                    [This EXCEPT !.m_appenders = <<>>, !.skipped = {}]]
    <2>1. load.name \in Names
      BY <1>2, BusyWith DEF ClearAppenders, SettingUp
    <2>2. logger' = [logger EXCEPT ![load.name] =
                       [This EXCEPT !.m_appenders = <<>>, !.skipped = {}]]
      BY <1>2, <2>1 DEF ClearAppenders, This, Inv, LoggersOK
    <2> QED BY <1>1, <1>2, <2>2 DEF ClearAppenders, Goes
  <1>3. ASSUME MakeAppender
        PROVE  /\ Goes("add", "dress") /\ load'.rest = load.rest /\ logger' = logger
               /\ load.rest # <<>> /\ Head(load.rest).type # "unknown"
               /\ load'.appender = Appender(Head(load.rest), This.m_level)
    BY <1>1, <1>3 DEF MakeAppender, Goes
  <1>4. ASSUME DressAppender
        PROVE  /\ Goes("dress", "push") /\ load'.rest = load.rest /\ logger' = logger
               /\ load'.appender = Dressed(load.appender, This.m_layout)
    BY <1>1, <1>4 DEF DressAppender, Goes
  <1>5. ASSUME AddAppender
        PROVE  /\ Goes("push", "add") /\ load'.rest = Tail(load.rest)
               /\ logger' = [logger EXCEPT ![load.name] =
                    [This EXCEPT !.m_appenders =
                       Append(This.m_appenders, Dressed(load.appender, This.m_layout))]]
    <2>1. load.name \in Names
      BY <1>5, BusyWith DEF AddAppender, SettingUp
    <2>2. logger' = [logger EXCEPT ![load.name] = WithAppender(This, load.appender)]
      BY <1>5, <2>1 DEF AddAppender, This, Inv, LoggersOK
    <2>3. Goes("push", "add") /\ load'.rest = Tail(load.rest)
      BY <1>1, <1>5 DEF AddAppender, Goes
    <2> QED BY <2>2, <2>3 DEF WithAppender
  <1>6. ASSUME SkipAppender
        PROVE  /\ Goes("add", "add") /\ load'.rest = Tail(load.rest)
               /\ load.rest # <<>> /\ Head(load.rest).type # "ConsoleAppender"
               /\ logger' = [logger EXCEPT ![load.name] =
                    [This EXCEPT !.skipped = This.skipped \cup {Done + 1}]]
    <2>1. load.name \in Names
      BY <1>6, BusyWith DEF SkipAppender, SettingUp
    <2>2. logger' = [logger EXCEPT ![load.name] =
                       [This EXCEPT !.skipped = This.skipped \cup {Done + 1}]]
      BY <1>6, <2>1 DEF SkipAppender, This, Inv, LoggersOK
    <2> QED BY <1>1, <1>6, <2>2 DEF SkipAppender, Goes
  <1>7. ASSUME ClearAppenders \/ MakeAppender \/ DressAppender \/ AddAppender \/ SkipAppender
        PROVE  UNCHANGED <<registered, m_value, behind, byHand, called, at, msg>>
    BY <1>7 DEF ClearAppenders, MakeAppender, DressAppender, AddAppender, SkipAppender, clientVars
  <1> QED BY <1>2, <1>3, <1>4, <1>5, <1>6, <1>7, Zenon

\* What is left of a sequence.
LEMMA TailIs ==
  ASSUME NEW R, NEW s \in Seq(R), s # <<>>
  PROVE  /\ Tail(s) \in Seq(R) /\ Len(s) \in Nat /\ Len(s) # 0 /\ Len(Tail(s)) = Len(s) - 1
         /\ Head(s) = s[1] /\ \A k \in 1 .. Len(s) - 1 : Tail(s)[k] = s[k + 1]
  OBVIOUS

\* One appender after the other is taken from what is configured.
LEMMA RestFrame ==
  ASSUME Inv, RestOK, load.at \in Adding, load.rest # <<>>, load'.rest = Tail(load.rest),
         NEW from, Goes(from, "add")
  PROVE  RestOK' /\ Done' = Done + 1 /\ Head(load.rest) = ThisConf.appenders[Done + 1]
  <1>1. /\ load.rest \in Seq(Range(ThisConf.appenders)) /\ Done \in Nat
        /\ \A k \in 1 .. Len(load.rest) : load.rest[k] = ThisConf.appenders[Done + k]
    BY DEF RestOK
  <1>2. ThisConf \in Conf /\ ThisConf.appenders \in Seq(Range(ThisConf.appenders))
    BY BusyWith, ConfAssumption DEF Adding, SettingUp
  <1> DEFINE R == Range(ThisConf.appenders)
             s == load.rest
             n == Len(ThisConf.appenders)
  <1>3. n \in Nat /\ Done = n - Len(s)
    BY <1>2 DEF Done
  <1> HIDE DEF R, n
  <1>4. /\ Tail(s) \in Seq(R) /\ Len(s) \in Nat \ {0} /\ Len(Tail(s)) = Len(s) - 1
        /\ Head(s) = s[1] /\ \A k \in 1 .. Len(s) - 1 : Tail(s)[k] = s[k + 1]
    <2>1. s \in Seq(R) /\ s # <<>>
      BY <1>1 DEF R
    <2> HIDE DEF s
    <2> QED BY <2>1, TailIs
  <1>5. ThisConf' = ThisConf /\ load'.at = "add"
    BY GoesOn DEF Goes
  <1>6. Done' = Done + 1
    <2>1. Done' = n - Len(Tail(s))
      BY <1>5 DEF Done, n
    <2> HIDE DEF s
    <2>2. Len(Tail(s)) = Len(s) - 1 /\ Len(s) \in Nat
      BY <1>4
    <2>3. \A l \in Nat : n - (l - 1) = n - l + 1
      BY <1>3
    <2> QED BY <1>3, <2>1, <2>2, <2>3
  <1>7. \A k \in 1 .. Len(Tail(s)) : Tail(s)[k] = ThisConf.appenders[Done + 1 + k]
    <2> SUFFICES ASSUME NEW k \in 1 .. Len(Tail(s))
                 PROVE  Tail(s)[k] = ThisConf.appenders[Done + 1 + k]
      OBVIOUS
    <2>1. k + 1 \in 1 .. Len(s) /\ Done + 1 + k = Done + (k + 1) /\ k \in 1 .. Len(s) - 1
      BY <1>1, <1>4
    <2> QED BY <1>1, <1>4, <2>1
  <1>8. RestOK'
    <2>1. load'.rest \in Seq(Range(ThisConf'.appenders))
      BY <1>4, <1>5 DEF R
    <2>2. Done' \in Nat
      BY <1>1, <1>6
    <2>3. \A k \in 1 .. Len(load'.rest) : load'.rest[k] = ThisConf'.appenders[Done' + k]
      BY <1>5, <1>6, <1>7
    <2> QED BY <1>5, <2>1, <2>2, <2>3 DEF RestOK
  <1>9. Head(s) = ThisConf.appenders[Done + 1]
    BY <1>1, <1>4
  <1> QED BY <1>6, <1>8, <1>9

\* What holds of all those calls.
LEMMA AppenderFrame ==
  ASSUME Inv, WInv, NEW from, NEW to, Goes(from, to), from \in HasLayout, to \in Adding,
         \A m \in Names : m # load.name => logger'[m] = logger[m],
         logger'[load.name].m_valid = This.m_valid, logger'[load.name].m_layout = This.m_layout,
         logger'[load.name].m_level = This.m_level,
         UNCHANGED <<m_value, behind, byHand>>
  PROVE  /\ Whole' /\ TodoOK' /\ Settled'
         /\ load.name \notin byHand => ~ This'.m_valid /\ This'.m_level = ItsLevel'
                                         /\ This'.m_layout = ItsLayout'
  <1>1. from \in SettingUp /\ to \in SettingUp /\ load.at = from
    BY DEF HasLayout, Adding, SettingUp, Goes
  <1>2. load.name \notin byHand =>
          ~ This.m_valid /\ This.m_level = ItsLevel /\ This.m_layout = ItsLayout
    BY <1>1 DEF WInv, HalfDone, HasLayout, SettingUp
  <1>3. Whole' /\ TodoOK' /\ Settled'
    BY <1>1, <1>2, BusyFrame
  <1> QED BY <1>2, <1>3, GoesOn

\* An appender is made, or dressed; its fields.
LEMMA AppenderIs ==
  /\ \A a, level : IsAppender(Appender(a, level))
  /\ \A a, layout : IsAppender(a) =>
       /\ IsAppender(Dressed(a, layout))
       /\ Dressed(a, layout).m_layout = PatternOf(a.m_layout, layout)
       /\ a.m_layout # None => Dressed(a, layout) = a
  /\ \A a, layout : DOMAIN a = {"type", "m_level", "m_layout"} =>
       Dressed(a, layout).m_layout = PatternOf(a.m_layout, layout)
  <1>1. ASSUME NEW a, NEW level PROVE IsAppender(Appender(a, level))
    BY DEF IsAppender, Appender
  <1>2. ASSUME NEW a, NEW layout, IsAppender(a)
        PROVE  /\ IsAppender(Dressed(a, layout))
               /\ Dressed(a, layout).m_layout = PatternOf(a.m_layout, layout)
               /\ a.m_layout # None => Dressed(a, layout) = a
    <2> DEFINE x == PatternOf(a.m_layout, layout)
               d == [a EXCEPT !.m_layout = x]
    <2>1. Dressed(a, layout) = d
      BY DEF Dressed
    <2>2. a.m_layout # None => x = a.m_layout
      BY DEF PatternOf
    <2> HIDE DEF x
    <2>3. IsAppender(d) /\ d.m_layout = x /\ (x = a.m_layout => d = a)
      BY <1>2 DEF IsAppender
    <2> HIDE DEF d
    <2> QED BY <2>1, <2>2, <2>3 DEF x
  <1>3. ASSUME NEW a, NEW layout, DOMAIN a = {"type", "m_level", "m_layout"}
        PROVE  Dressed(a, layout).m_layout = PatternOf(a.m_layout, layout)
    BY <1>3 DEF Dressed
  <1> QED BY <1>1, <1>2, <1>3

\* The appenders are made one by one.
LEMMA AppendersKeepWhole ==
  ASSUME Inv, WInv,
         ClearAppenders \/ MakeAppender \/ DressAppender \/ AddAppender \/ SkipAppender
  PROVE  WInv'
  <1>a. UNCHANGED <<registered, m_value, behind, byHand, called, at, msg>>
    BY AppenderDoes
  <1>b. load.at \in HasLayout /\ load.at \in SettingUp
    BY DEF ClearAppenders, MakeAppender, DressAppender, AddAppender, SkipAppender, HasLayout,
           SettingUp
  <1>c. /\ load.name \in Names /\ IsLogger(This) /\ This.m_layout # None
        /\ Laid(This.m_appenders)
    BY <1>b, BusyWith DEF WInv, PrintOK, This
  <1>1. CASE ClearAppenders
    <2> DEFINE l == [This EXCEPT !.m_appenders = <<>>, !.skipped = {}]
    <2>1. /\ Goes("clear", "add") /\ load'.rest = ThisConf.appenders
          /\ logger' = [logger EXCEPT ![load.name] = l]
      BY <1>1, AppenderDoes
    <2>2. /\ l.m_valid = This.m_valid /\ l.m_layout = This.m_layout
          /\ l.m_level = This.m_level /\ l.m_appenders = <<>> /\ l.skipped = {}
      BY <1>c, Fields
    <2> HIDE DEF l
    <2>3. /\ logger'[load.name] = l /\ This' = l /\ ThisConf' = ThisConf
          /\ \A m \in Names : m # load.name => logger'[m] = logger[m]
          /\ load'.at = "add" /\ load'.name = load.name
      BY <2>1, <1>b, BusyWith, GoesOn DEF Goes
    <2>4. /\ Whole' /\ TodoOK' /\ Settled'
          /\ load.name \notin byHand =>
               ~ This'.m_valid /\ This'.m_level = ItsLevel' /\ This'.m_layout = ItsLayout'
      BY <1>a, <2>1, <2>2, <2>3, AppenderFrame DEF HasLayout, Adding
    <2>5. PrintOK'
      BY <1>a, <1>b, <1>c, <2>2, <2>3, LaidMore, PrintFrame DEF WInv
    <2>6. RestOK' /\ Done' = 0
      <3>1. ThisConf.appenders \in Seq(Range(ThisConf.appenders))
        BY <1>b, BusyWith, ConfAssumption
      <3>2. Done' = 0
        BY <2>1, <2>3, <3>1 DEF Done
      <3>3. \A k \in 1 .. Len(load'.rest) : load'.rest[k] = ThisConf'.appenders[Done' + k]
        BY <2>1, <2>3, <3>2
      <3> QED BY <2>1, <2>3, <3>1, <3>2, <3>3 DEF RestOK
    <2>7. HalfDone'
      <3>1. MadeOf(This', ThisConf', Done')
        BY <2>2, <2>3, <2>6, MadeNone
      <3> QED BY <1>a, <2>3, <2>4, <3>1 DEF HalfDone
    <2> QED BY <2>4, <2>5, <2>6, <2>7 DEF WInv
  <1>2. CASE MakeAppender \/ DressAppender
    <2>1. PICK from, to :
            /\ Goes(from, to) /\ load'.rest = load.rest /\ logger' = logger
            /\ \/ /\ from = "add" /\ to = "dress"
                  /\ load.rest # <<>> /\ Head(load.rest).type # "unknown"
                  /\ load'.appender = Appender(Head(load.rest), This.m_level)
               \/ /\ from = "dress" /\ to = "push"
                  /\ load'.appender = Dressed(load.appender, This.m_layout)
      BY <1>2, AppenderDoes
    <2>2. /\ This' = This /\ ThisConf' = ThisConf /\ ItsLevel' = ItsLevel
          /\ ItsLayout' = ItsLayout /\ Done' = Done
          /\ load.at = from /\ load'.at = to /\ load'.name = load.name
      BY <2>1, GoesOn DEF Goes, This
    <2>3. /\ Whole' /\ TodoOK' /\ Settled'
          /\ load.name \notin byHand =>
               ~ This'.m_valid /\ This'.m_level = ItsLevel' /\ This'.m_layout = ItsLayout'
      BY <1>a, <2>1, AppenderFrame DEF HasLayout, Adding, This
    <2>4. PrintOK'
      <3>1. from = "dress" => IsAppender(load.appender)
        BY <2>2 DEF WInv, PrintOK
      <3>2. IsAppender(load'.appender)
        BY <2>1, <3>1, AppenderIs
      <3>3. to = "push" => load'.appender.m_layout # None
        BY <2>1, <3>1, <1>c, AppenderIs DEF PatternOf
      <3> QED BY <1>a, <1>b, <1>c, <2>1, <2>2, <3>2, <3>3, PrintFrame DEF WInv, This
    <2>5. RestOK'
      BY <2>1, <2>2 DEF WInv, RestOK, Adding
    <2>6. HalfDone'
      <3> SUFFICES ASSUME load.name \notin byHand PROVE HalfDone'
        BY <1>a, <2>2 DEF HalfDone
      <3>1. /\ MadeOf(This, ThisConf, Done)
            /\ This.m_level = ItsLevel /\ This.m_layout = ItsLayout
            /\ from = "dress" => load.appender = Appender(Head(load.rest), ItsLevel)
        BY <2>1, <2>2 DEF WInv, HalfDone, HasLayout, Adding
      <3>2. /\ to = "dress" => load'.appender = Appender(Head(load'.rest), ItsLevel')
            /\ to = "push" =>
                 load'.appender = Dressed(Appender(Head(load'.rest), ItsLevel'), ItsLayout')
        BY <2>1, <2>2, <3>1
      <3> QED BY <2>2, <2>3, <3>1, <3>2 DEF HalfDone
    <2> QED BY <2>3, <2>4, <2>5, <2>6 DEF WInv
  <1>3. CASE AddAppender
    <2> DEFINE a == Dressed(load.appender, This.m_layout)
               s == Append(This.m_appenders, a)
               l == [This EXCEPT !.m_appenders = s]
    <2>1. /\ Goes("push", "add") /\ load'.rest = Tail(load.rest)
          /\ logger' = [logger EXCEPT ![load.name] = l]
      BY <1>3, AppenderDoes
    <2>2. load.at = "push" /\ IsAppender(load.appender) /\ load.appender.m_layout # None
      BY <2>1 DEF Goes, WInv, PrintOK
    <2>3. a = load.appender
      BY <2>2, AppenderIs
    <2> HIDE DEF a
    <2>4. Laid(s)
      BY <1>c, <2>2, <2>3, LaidMore
    <2>5. /\ l.m_valid = This.m_valid /\ l.m_layout = This.m_layout
          /\ l.m_level = This.m_level /\ l.m_appenders = s /\ l.skipped = This.skipped
      BY <1>c, Fields
    <2> HIDE DEF l, s
    <2>6. /\ logger'[load.name] = l /\ This' = l /\ ThisConf' = ThisConf
          /\ ItsLevel' = ItsLevel /\ ItsLayout' = ItsLayout
          /\ \A m \in Names : m # load.name => logger'[m] = logger[m]
          /\ load'.at = "add" /\ load'.name = load.name
      BY <2>1, <1>b, BusyWith, GoesOn DEF Goes
    <2>7. /\ Whole' /\ TodoOK' /\ Settled'
          /\ load.name \notin byHand =>
               ~ This'.m_valid /\ This'.m_level = ItsLevel' /\ This'.m_layout = ItsLayout'
      BY <1>a, <2>1, <2>5, <2>6, AppenderFrame DEF HasLayout, Adding
    <2>8. PrintOK'
      BY <1>a, <1>b, <1>c, <2>4, <2>5, <2>6, PrintFrame DEF WInv
    <2>9. load.rest # <<>> /\ Head(load.rest).type # "unknown"
      BY <2>2 DEF WInv, RestOK
    <2>10. /\ RestOK' /\ Done' = Done + 1 /\ Done \in Nat
           /\ Head(load.rest) = ThisConf.appenders[Done + 1]
      BY <2>1, <2>2, <2>9, RestFrame DEF WInv, RestOK, Adding
    <2>11. HalfDone'
      <3> SUFFICES ASSUME load.name \notin byHand PROVE HalfDone'
        BY <1>a, <2>6 DEF HalfDone
      <3>1. /\ MadeOf(This, ThisConf, Done)
            /\ a = Made(ThisConf.appenders[Done + 1], ThisConf)
        BY <2>2, <2>3, <2>10 DEF WInv, HalfDone, Adding, Made, ItsLevel, ItsLayout
      <3>2. /\ This.m_appenders \in Seq(Range(This.m_appenders))
            /\ l.m_appenders = Append(This.m_appenders, a)
        BY <1>c, <2>5 DEF Laid, s
      <3>3. MadeOf(l, ThisConf, Done + 1)
        BY <2>5, <2>9, <2>10, <3>1, <3>2, MadeMore
      <3> QED BY <2>5, <2>6, <2>7, <2>10, <3>3 DEF HalfDone
    <2> QED BY <2>7, <2>8, <2>10, <2>11 DEF WInv
  <1>4. CASE SkipAppender
    <2> DEFINE l == [This EXCEPT !.skipped = This.skipped \cup {Done + 1}]
    <2>1. /\ Goes("add", "add") /\ load'.rest = Tail(load.rest)
          /\ load.rest # <<>> /\ Head(load.rest).type # "ConsoleAppender"
          /\ logger' = [logger EXCEPT ![load.name] = l]
      BY <1>4, AppenderDoes
    <2>2. /\ l.m_valid = This.m_valid /\ l.m_layout = This.m_layout
          /\ l.m_level = This.m_level /\ l.m_appenders = This.m_appenders
          /\ l.skipped = This.skipped \cup {Done + 1}
      BY <1>c, Fields
    <2> HIDE DEF l
    <2>3. /\ logger'[load.name] = l /\ This' = l /\ ThisConf' = ThisConf
          /\ \A m \in Names : m # load.name => logger'[m] = logger[m]
          /\ load.at = "add" /\ load'.at = "add" /\ load'.name = load.name
      BY <2>1, <1>b, BusyWith, GoesOn DEF Goes
    <2>4. /\ Whole' /\ TodoOK' /\ Settled'
          /\ load.name \notin byHand =>
               ~ This'.m_valid /\ This'.m_level = ItsLevel' /\ This'.m_layout = ItsLayout'
      BY <1>a, <2>1, <2>2, <2>3, AppenderFrame DEF HasLayout, Adding
    <2>5. PrintOK'
      BY <1>a, <1>b, <1>c, <2>2, <2>3, PrintFrame DEF WInv
    <2>6. /\ RestOK' /\ Done' = Done + 1 /\ Done \in Nat
          /\ Head(load.rest) = ThisConf.appenders[Done + 1]
      BY <2>1, <2>3, RestFrame DEF WInv, RestOK, Adding
    <2>7. HalfDone'
      <3> SUFFICES ASSUME load.name \notin byHand PROVE HalfDone'
        BY <1>a, <2>3 DEF HalfDone
      <3>1. MadeOf(This, ThisConf, Done)
        BY <2>3 DEF WInv, HalfDone, Adding
      <3>2. MadeOf(l, ThisConf, Done + 1)
        BY <2>1, <2>2, <2>6, <3>1, MadeSkip
      <3> QED BY <2>3, <2>4, <2>6, <3>2 DEF HalfDone
    <2> QED BY <2>4, <2>5, <2>6, <2>7 DEF WInv
  <1> QED BY <1>1, <1>2, <1>3, <1>4

\* A load that is done with a logger.
LEMMA DoneFrame ==
  ASSUME Inv, WInv, NEW from, NEW to, Goes(from, to),
         \/ from \in SettingUp /\ to = "setup"
         \/ from \in Dropping /\ to = "drop",
         \A m \in Names : m # load.name => logger'[m] = logger[m],
         Laid(logger'[load.name].m_appenders),
         logger'[load.name].m_layout = This.m_layout,
         load.name \notin byHand => As(logger'[load.name], load.new[load.name]),
         behind' = behind \ {load.name},
         UNCHANGED <<m_value, byHand, called>>
  PROVE  WInv'
  <1>1. /\ load.at \in SettingUp \cup Dropping /\ load.name \in Name /\ load.at = from
        /\ load'.at = to /\ load'.at \notin SettingUp \cup Dropping
        /\ load'.at \notin {"clear", "add", "dress", "push"}
    BY BusyWith DEF Goes, SettingUp, Dropping
  <1>2. PrintOK'
    BY <1>1, PrintFrame DEF WInv, This, HasLayout
  <1>3. RestOK' /\ HalfDone'
    BY <1>1 DEF RestOK, HalfDone, Adding, HasLayout, SettingUp
  <1>4. Whole'
    <2> SUFFICES ASSUME NEW n \in Name, n \notin byHand', logger'[n].m_valid
                 PROVE  \E conf \in Conf : Is(logger'[n], conf)
      BY DEF Whole, Is
    <2>1. CASE n # load.name
      BY <2>1 DEF WInv, Whole, Names
    <2>2. CASE n = load.name
      <3>1. load.new[n] \in Conf \cup {None}
        BY DEF Inv, LoadOK, Names
      <3> QED BY <2>2, <3>1 DEF As
    <2> QED BY <2>1, <2>2
  <1>5. ToSetUp(load.new)' = ToSetUp(load.new) /\ ToDrop(load.new)' = ToDrop(load.new)
    BY DEF Goes, ToSetUp, ToDrop
  <1>6. TodoOK'
    BY <1>1, <1>5 DEF WInv, TodoOK, Goes, SettingUp, Dropping
  <1>7. Settled'
    <2> SUFFICES ASSUME NEW n \in Name, n \notin behind', n \notin byHand'
                 PROVE  As(logger'[n], Due(n)')
      BY DEF Settled, As, Is
    <2>1. CASE n # load.name
      <3>1. ~ Busy(n) /\ n \in Names
        BY <2>1 DEF Busy, Names
      <3>2. As(logger[n], Due(n)) /\ logger'[n] = logger[n]
        BY <2>1, <3>1 DEF WInv, Settled
      <3>3. Due(n)' = Due(n)
        BY <1>1, <1>5 DEF Due, Goes, SettingUp, Dropping
      <3> QED BY <3>2, <3>3
    <2>2. CASE n = load.name
      <3>1. Due(n)' = load.new[n]
        BY <1>1, <1>5, <2>2 DEF Due, Goes, WInv, TodoOK, SettingUp, Dropping
      <3> QED BY <2>2, <3>1
    <2> QED BY <2>1, <2>2
  <1> QED BY <1>2, <1>3, <1>4, <1>6, <1>7 DEF WInv

\* A logger is set up, or dropped.
LEMMA LastCallKeepsWhole ==
  ASSUME Inv, WInv, SetValid \/ DropClear
  PROVE  WInv'
  <1>1. CASE SetValid
    <2> DEFINE l == [This EXCEPT !.m_valid = TRUE]
    <2>1. /\ load.rest = <<>> /\ Setup("add", "setup", l)
          /\ behind' = behind \ {load.name} /\ byHand' = byHand
      BY <1>1 DEF SetValid
    <2>2. /\ Goes("add", "setup") /\ logger'[load.name] = l
          /\ \A m \in Names : m # load.name => logger'[m] = logger[m]
          /\ UNCHANGED <<m_value, called>>
      <3> HIDE DEF l
      <3> QED BY <2>1, SetupDoes DEF SettingUp
    <2>3. load.at = "add" /\ load.at \in SettingUp
      BY <2>2 DEF Goes, SettingUp
    <2>4. /\ l.m_valid /\ l.m_layout = This.m_layout
          /\ l.m_level = This.m_level /\ l.m_appenders = This.m_appenders
          /\ l.skipped = This.skipped
      BY <2>3, BusyWith, ValidField
    <2> HIDE DEF l
    <2>5. Laid(l.m_appenders)
      BY <2>3, <2>4, BusyWith DEF WInv, PrintOK, This
    <2>6. ASSUME load.name \notin byHand PROVE As(l, load.new[load.name])
      <3>1. /\ This.m_level = ItsLevel /\ This.m_layout = ItsLayout
            /\ MadeOf(This, ThisConf, Done)
        BY <2>3, <2>6 DEF WInv, HalfDone, HasLayout, Adding
      <3>2. ThisConf \in Conf /\ ThisConf.appenders \in Seq(Range(ThisConf.appenders))
        BY <2>3, BusyWith, ConfAssumption
      <3>3. Done = Len(ThisConf.appenders)
        <4>1. Len(load.rest) = 0
          BY <2>1
        <4>2. Len(ThisConf.appenders) \in Nat
          BY <3>2
        <4> QED BY <4>1, <4>2 DEF Done
      <3>4. Is(l, ThisConf)
        <4>1. MadeOf(l, ThisConf, Len(ThisConf.appenders))
          BY <2>4, <3>1, <3>3, MadeSame
        <4> QED BY <2>4, <3>1, <4>1 DEF Is, ItsLevel, ItsLayout
      <3> QED BY <2>4, <3>2, <3>4, NameAssumption DEF As, ThisConf
    <2> QED BY <2>1, <2>2, <2>4, <2>5, <2>6, DoneFrame DEF SettingUp
  <1>2. CASE DropClear
    <2> DEFINE l == [This EXCEPT !.m_appenders = <<>>]
    <2>1. /\ Setup("drop_clear", "drop", l)
          /\ behind' = behind \ {load.name} /\ byHand' = byHand
      BY <1>2 DEF DropClear
    <2>2. /\ Goes("drop_clear", "drop") /\ logger'[load.name] = l
          /\ \A m \in Names : m # load.name => logger'[m] = logger[m]
          /\ UNCHANGED <<m_value, called>>
      <3> HIDE DEF l
      <3> QED BY <2>1, SetupDoes DEF Dropping
    <2>3. load.at = "drop_clear" /\ load.at \in Dropping
      BY <2>2 DEF Goes, Dropping
    <2>4. /\ l.m_valid = This.m_valid /\ l.m_layout = This.m_layout
          /\ l.m_appenders = <<>>
      BY <2>3, BusyWith, Fields
    <2> HIDE DEF l
    <2>5. Laid(l.m_appenders)
      BY <2>4, LaidMore
    <2>6. ASSUME load.name \notin byHand PROVE As(l, load.new[load.name])
      <3>1. ~ This.m_valid
        BY <2>3, <2>6 DEF WInv, HalfDone, Dropping
      <3>2. load.new[load.name] = None
        BY <2>3 DEF WInv, TodoOK, ToDrop
      <3> QED BY <2>4, <3>1, <3>2 DEF As
    <2> QED BY <2>1, <2>2, <2>4, <2>5, <2>6, DoneFrame DEF Dropping
  <1> QED BY <1>1, <1>2

\* A step of a load that changes no logger, into a place where it is not busy.
LEMMA RestingFrame ==
  ASSUME Inv, WInv, logger' = logger, byHand' = byHand, called' = called,
         load'.at \in {"idle", "setup", "drop"}, TodoOK',
         \A n \in Name \ behind' : n \notin behind /\ ~ Busy(n) /\ Due(n)' = Due(n)
  PROVE  WInv'
  <1>1. PrintOK' /\ Whole'
    BY DEF WInv, PrintOK, TakesAll, RootSpoiled, Whole, HasLayout, Is
  <1>2. RestOK' /\ HalfDone'
    BY DEF RestOK, HalfDone, Adding, HasLayout, SettingUp, Dropping
  <1>3. Settled'
    BY DEF WInv, Settled, As, Is
  <1> QED BY <1>1, <1>2, <1>3 DEF WInv

\* A load begins.
LEMMA BeginKeepsWhole ==
  ASSUME Inv, WInv, NEW new \in Value, LoadFromYaml(new)
  PROVE  WInv'
  <1>1. /\ load.at = "idle" /\ load'.at = "setup" /\ load'.new = new /\ load'.todo = ToSetUp(new)
        /\ UNCHANGED <<registered, logger, m_value, behind, byHand, called, at, msg>>
    BY DEF LoadFromYaml, Idle, clientVars
  <1>2. ToSetUp(load.new)' = load'.todo
    BY <1>1 DEF ToSetUp
  <1>3. TodoOK'
    BY <1>1, <1>2 DEF TodoOK, SettingUp, Dropping
  <1>4. \A n \in Name : ~ Busy(n) /\ Due(n)' = Due(n)
    BY <1>1, <1>2 DEF Busy, Due, SettingUp, Dropping
  <1> QED BY <1>1, <1>3, <1>4, RestingFrame

\* It turns to what is gone, is done, or is aborted.
LEMMA TurnKeepsWhole ==
  ASSUME Inv, WInv, SetupDone \/ LoadDone \/ Throw
  PROVE  WInv'
  <1>a. load = [at |-> load.at, new |-> load.new, todo |-> load.todo, name |-> load.name,
                rest |-> load.rest, appender |-> load.appender]
    BY DEF Inv, LoadOK
  <1>b. /\ load.new \in [Names -> Conf \cup {None}]
        /\ m_value \in [Names -> Conf \cup {None}]
    BY DEF Inv, LoadOK
  <1>1. CASE SetupDone
    <2>1. /\ load.at = "setup" /\ load.todo = {} /\ load'.at = "drop"
          /\ load'.new = load.new /\ load'.todo = ToDrop(load.new)
          /\ UNCHANGED <<registered, logger, m_value, behind, byHand, called, at, msg>>
      BY <1>1, <1>a DEF SetupDone, clientVars
    <2>2. ToDrop(load.new)' = load'.todo
      BY <2>1 DEF ToDrop
    <2>3. TodoOK'
      BY <2>1, <2>2 DEF TodoOK, SettingUp, Dropping
    <2>4. ASSUME NEW n \in Name PROVE ~ Busy(n) /\ Due(n)' = Due(n)
      <3>1. ~ Busy(n) /\ Due(n) = IF n \notin ToSetUp(load.new) THEN m_value[n] ELSE load.new[n]
        BY <2>1 DEF Busy, Due, SettingUp, Dropping
      <3>2. Due(n)' = IF n \in ToDrop(load.new) THEN m_value[n] ELSE load.new[n]
        BY <2>1 DEF Due, SettingUp
      <3> QED BY <1>b, <3>1, <3>2 DEF ToSetUp, ToDrop, Names
    <2> QED BY <2>1, <2>3, <2>4, RestingFrame
  <1>2. CASE LoadDone
    <2>1. /\ load.at = "drop" /\ load.todo = {} /\ load'.at = "idle" /\ m_value' = load.new
          /\ UNCHANGED <<registered, logger, behind, byHand, called, at, msg>>
      BY <1>2 DEF LoadDone, Idle, clientVars
    <2>2. TodoOK'
      BY <2>1 DEF TodoOK, SettingUp, Dropping
    <2>3. \A n \in Name : ~ Busy(n) /\ Due(n)' = Due(n)
      BY <2>1 DEF Busy, Due, SettingUp, Dropping
    <2> QED BY <2>1, <2>2, <2>3, RestingFrame
  <1>3. CASE Throw
    <2>1. /\ load.at = "add" /\ load'.at = "idle"
          /\ behind' = behind \cup (ToSetUp(load.new) \ load.todo)
          /\ UNCHANGED <<registered, logger, m_value, byHand, called, at, msg>>
      BY <1>3 DEF Throw, Idle, clientVars
    <2>2. TodoOK'
      BY <2>1 DEF TodoOK, SettingUp, Dropping
    <2>3. load.name \in behind'
      BY <2>1 DEF WInv, TodoOK, SettingUp
    <2>4. ASSUME NEW n \in Name \ behind'
          PROVE  n \notin behind /\ ~ Busy(n) /\ Due(n)' = Due(n)
      BY <2>1, <2>3, <2>4 DEF Busy, Due, SettingUp
    <2> QED BY <2>1, <2>2, <2>4, RestingFrame
  <1> QED BY <1>1, <1>2, <1>3

\* A logger that is made keeps what is said of it before anybody asks for it.
LEMMA GetKeeps ==
  ASSUME Inv, WInv, NEW n \in Names, GetLogger(n)
  PROVE  /\ \A m \in registered : logger'[m] = logger[m]
         /\ \A m \in Names :
              /\ Laid(logger'[m].m_appenders) /\ logger'[m].m_layout = logger[m].m_layout
              /\ logger'[m].m_valid => logger'[m] = logger[m]
              /\ \A conf : As(logger[m], conf) => As(logger'[m], conf)
  <1>1. \A m \in Names :
          \/ logger'[m] = logger[m]
          \/ /\ m \notin registered
             /\ logger[m] = New(UNKNOW) /\ \E g \in Garbage : logger'[m] = New(g)
    BY GetLoggerDoes
  <1>2. registered \subseteq Names
    BY DEF Inv, LoggersOK
  <1>3. ASSUME NEW m \in Names
        PROVE  /\ Laid(logger'[m].m_appenders) /\ logger'[m].m_layout = logger[m].m_layout
               /\ logger'[m].m_valid => logger'[m] = logger[m]
               /\ \A conf : As(logger[m], conf) => As(logger'[m], conf)
    <2>1. CASE logger'[m] = logger[m]
      BY <2>1 DEF WInv, PrintOK
    <2>2. CASE logger'[m] # logger[m]
      <3>1. PICK g \in Garbage : logger[m] = New(UNKNOW) /\ logger'[m] = New(g)
        BY <1>1, <2>2
      <3> QED BY <3>1, NewIs, LaidMore DEF As
    <2> QED BY <2>1, <2>2
  <1> QED BY <1>1, <1>2, <1>3

\* The root logger is there from the beginning.
LEMMA GetKeepsRoot ==
  ASSUME Inv, WInv, NEW n \in Names, GetLogger(n), called' \in {called, called + 1}
  PROVE  (RootSpoiled \/ TakesAll(logger[Root]))'
  <1>1. logger'[Root] = logger[Root] /\ called \in Nat
    BY GetKeeps DEF Inv, ClientOK
  <1>2. 1 .. called \subseteq 1 .. called'
    BY <1>1
  <1>3. RootSpoiled => RootSpoiled'
    BY <1>2 DEF RootSpoiled
  <1> QED BY <1>1, <1>3 DEF WInv, PrintOK, TakesAll

\* Somebody other than a load asks for a logger.
LEMMA GetKeepsWhole ==
  ASSUME Inv, WInv, NEW n \in Names, GetLogger(n), UNCHANGED <<m_value, load, behind, byHand>>,
         \/ called' = called
         \/ called' = called + 1 /\ Script[called + 1].call # "setLayout"
  PROVE  WInv'
  <1>1. load.at \in SettingUp \cup Dropping => This' = This
    BY GetKeeps, BusyWith DEF This
  <1>2. /\ ThisConf' = ThisConf /\ Done' = Done /\ ItsLevel' = ItsLevel /\ ItsLayout' = ItsLayout
        /\ ToSetUp(load.new)' = ToSetUp(load.new) /\ ToDrop(load.new)' = ToDrop(load.new)
    BY DEF ThisConf, Done, ItsLevel, ItsLayout, ToSetUp, ToDrop
  <1>3. PrintOK'
    <2>1. called \in Nat
      BY DEF Inv, ClientOK
    <2>2. ASSUME NEW m \in Names, NEW i \in 1 .. called', Script[i].call = "setLayout",
                 Script[i].name = m
          PROVE  logger'[m].m_layout # None
      <3>1. i \in 1 .. called
        BY <2>1, <2>2
      <3> QED BY <2>2, <3>1, GetKeeps DEF WInv, PrintOK
    <2>3. load.at \in HasLayout => load.at \in SettingUp
      BY DEF HasLayout, SettingUp
    <2>4. (RootSpoiled \/ TakesAll(logger[Root]))'
      BY GetKeepsRoot
    <2>5. \A m \in Names : Laid(logger'[m].m_appenders)
      BY GetKeeps
    <2> QED BY <1>1, <2>2, <2>3, <2>4, <2>5 DEF WInv, PrintOK
  <1>4. RestOK' /\ TodoOK'
    BY <1>2 DEF WInv, RestOK, TodoOK
  <1>5. HalfDone'
    <2>1. load.at \in {"layout"} \cup HasLayout \cup Adding => load.at \in SettingUp
      BY DEF HasLayout, Adding, SettingUp
    <2> QED BY <1>1, <1>2, <2>1 DEF WInv, HalfDone, HasLayout, Adding
  <1>6. Whole'
    <2>1. \A m \in Name \ byHand : logger'[m].m_valid => \E conf \in Conf : Is(logger'[m], conf)
      BY GetKeeps DEF WInv, Whole, Names
    <2> QED BY <2>1 DEF Whole, Is
  <1>7. Settled'
    <2>1. \A m \in Name : Due(m)' = Due(m) /\ (Busy(m)' <=> Busy(m))
      BY <1>2 DEF Due, Busy
    <2>2. \A m \in Name \ (behind \cup byHand) : ~ Busy(m) => As(logger'[m], Due(m))
      BY GetKeeps DEF WInv, Settled, Names
    <2> QED BY <2>1, <2>2 DEF Settled
  <1> QED BY <1>3, <1>4, <1>5, <1>6, <1>7 DEF WInv

\* A load turns to a logger.
LEMMA TurnToKeepsWhole ==
  ASSUME Inv, WInv, SetupLogger \/ DropLogger
  PROVE  WInv'
  <1>1. PICK n \in load.todo, from \in {"setup", "drop"}, to \in {"invalid", "drop_invalid"} :
      /\ load.at = from /\ GetLogger(n)
      /\ load' = [load EXCEPT !.at = to, !.name = n, !.todo = @ \ {n}]
      /\ \/ from = "setup" /\ to = "invalid"
         \/ from = "drop" /\ to = "drop_invalid"
    BY DEF SetupLogger, DropLogger
  <1>2. UNCHANGED <<m_value, behind, byHand, called, at, msg>>
    BY DEF SetupLogger, DropLogger, clientVars
  <1>3. n \in Name /\ n \in Names
    BY DEF Inv, LoadOK, Names
  <1>4. /\ load'.at = to /\ load'.name = n /\ load'.todo = load.todo \ {n}
        /\ load'.new = load.new
    BY <1>1 DEF Inv, LoadOK
  <1>5. ToSetUp(load.new)' = ToSetUp(load.new) /\ ToDrop(load.new)' = ToDrop(load.new)
    BY <1>2, <1>4 DEF ToSetUp, ToDrop
  <1>6. PrintOK'
    <2>1. (RootSpoiled \/ TakesAll(logger[Root]))'
      BY <1>1, <1>2, <1>3, GetKeepsRoot
    <2>2. \A m \in Names : /\ Laid(logger'[m].m_appenders)
                           /\ logger'[m].m_layout = logger[m].m_layout
      BY <1>1, <1>3, GetKeeps
    <2>3. load'.at \notin HasLayout /\ load'.at \notin {"dress", "push"}
      BY <1>1, <1>4 DEF HasLayout
    <2> QED BY <1>2, <2>1, <2>2, <2>3 DEF WInv, PrintOK
  <1>7. RestOK' /\ HalfDone'
    BY <1>1, <1>4 DEF RestOK, HalfDone, Adding, HasLayout
  <1>8. TodoOK'
    BY <1>1, <1>4, <1>5 DEF WInv, TodoOK, SettingUp, Dropping
  <1>9. Whole'
    <2>1. \A m \in Name \ byHand : logger'[m].m_valid => \E conf \in Conf : Is(logger'[m], conf)
      BY <1>1, <1>3, GetKeeps DEF WInv, Whole, Names
    <2> QED BY <1>2, <2>1 DEF Whole, Is
  <1>10. Settled'
    <2> SUFFICES ASSUME NEW m \in Name, m \notin behind', m \notin byHand', ~ Busy(m)'
                 PROVE  As(logger[m], Due(m))'
      BY DEF Settled
    <2>1. m # n /\ ~ Busy(m)
      BY <1>1, <1>4 DEF Busy, SettingUp, Dropping
    <2>2. As(logger[m], Due(m))
      BY <1>2, <2>1 DEF WInv, Settled
    <2>3. Due(m)' = Due(m)
      BY <1>1, <1>2, <1>4, <1>5, <2>1 DEF Due, SettingUp, Dropping
    <2>4. \A conf : As(logger[m], conf) => As(logger'[m], conf)
      BY <1>1, <1>3, GetKeeps DEF Names
    <2>5. As(logger'[m], Due(m)')
      BY <2>2, <2>3, <2>4
    <2> QED BY <2>5 DEF As, Is
  <1> QED BY <1>6, <1>7, <1>8, <1>9, <1>10 DEF WInv

\* Every step of a load.
LEMMA LoadKeepsWhole ==
  ASSUME Inv, WInv, LoadStep
  PROVE  WInv'
  BY InvalidKeepsWhole, SetKeepsWhole, AppendersKeepWhole, LastCallKeepsWhole, TurnKeepsWhole,
     TurnToKeepsWhole DEF LoadStep

\* A call of the client, which from now on answers for the logger itself.
LEMMA CallKeepsWhole ==
  ASSUME Inv, WInv, NEW call, call # "getLogger", NEW l, ClientCall(call, l),
         Laid(l.m_appenders),
         IF call = "setLayout" THEN l.m_layout # None ELSE l.m_layout = Its.m_layout,
         Arg.name = Root => RootSpoiled' \/ TakesAll(l) \/ ~ TakesAll(logger[Root])
  PROVE  WInv'
  <1>1. /\ Calls(call) /\ logger' = [logger EXCEPT ![Arg.name] = l] /\ called' = called + 1
        /\ byHand' = byHand \cup {Arg.name}
        /\ UNCHANGED <<registered, m_value, load, behind, at, msg>>
    BY DEF ClientCall
  <1>2. /\ called \in Nat /\ Arg = Script[called + 1] /\ Arg.call = call /\ Arg.name \in Names
        /\ load.at \in SettingUp \cup Dropping => load.name \in Name /\ load.name # Root
    BY <1>1, ClientHasLogger, BusyWith DEF Inv, ClientOK, Arg
  <1>3. \A m \in Names : logger'[m] = IF m = Arg.name THEN l ELSE logger[m]
    BY <1>1 DEF Inv, LoggersOK
  <1>4. /\ ThisConf' = ThisConf /\ Done' = Done /\ ItsLevel' = ItsLevel /\ ItsLayout' = ItsLayout
        /\ ToSetUp(load.new)' = ToSetUp(load.new) /\ ToDrop(load.new)' = ToDrop(load.new)
    BY <1>1 DEF ThisConf, Done, ItsLevel, ItsLayout, ToSetUp, ToDrop
  <1>5. \A m \in Name : m \in Names /\ m # Root
    BY NameAssumption DEF Names
  <1>6. PrintOK'
    <2>1. \A m \in Names : Laid(logger'[m].m_appenders)
      BY <1>3 DEF WInv, PrintOK
    <2>2. \A m \in Names : logger[m].m_layout # None => logger'[m].m_layout # None
      BY <1>3 DEF Its
    <2>3. ASSUME NEW m \in Names, NEW i \in 1 .. called', Script[i].call = "setLayout",
                 Script[i].name = m
          PROVE  logger'[m].m_layout # None
      <3>1. CASE i \in 1 .. called
        BY <2>2, <2>3, <3>1 DEF WInv, PrintOK
      <3>2. CASE i = called + 1
        BY <1>2, <1>3, <2>3, <3>2
      <3> QED BY <1>1, <1>2, <3>1, <3>2
    <2>4. load.at \in HasLayout => logger'[load.name].m_layout # None
      <3>1. load.at \in HasLayout => load.at \in SettingUp
        BY DEF HasLayout, SettingUp
      <3> QED BY <1>2, <1>5, <2>2, <3>1 DEF WInv, PrintOK, This
    <2>5. RootSpoiled' \/ TakesAll(logger'[Root])
      <3>1. RootSpoiled => RootSpoiled'
        <4>1. 1 .. called \subseteq 1 .. called'
          BY <1>1, <1>2
        <4> QED BY <4>1 DEF RootSpoiled
      <3>2. Arg.name # Root => logger'[Root] = logger[Root]
        BY <1>3 DEF Names
      <3>3. Arg.name = Root => logger'[Root] = l
        BY <1>2, <1>3
      <3>4. RootSpoiled \/ TakesAll(logger[Root])
        BY DEF WInv, PrintOK
      <3> QED BY <3>1, <3>2, <3>3, <3>4
    <2>6. TakesAll(logger'[Root]) => TakesAll(logger[Root])'
      BY DEF TakesAll
    <2> QED BY <1>1, <2>1, <2>3, <2>4, <2>5, <2>6 DEF WInv, PrintOK, This
  <1>7. RestOK' /\ TodoOK'
    BY <1>1, <1>4 DEF WInv, RestOK, TodoOK
  <1>8. HalfDone'
    <2> SUFFICES ASSUME load.name \notin byHand' PROVE HalfDone'
      BY <1>1 DEF HalfDone
    <2>1. load.at \in SettingUp \cup Dropping => This' = This
      BY <1>1, <1>2, <1>3, <1>5 DEF This
    <2>2. load.at \in {"layout"} \cup HasLayout \cup Adding => load.at \in SettingUp
      BY DEF HasLayout, Adding, SettingUp
    <2> QED BY <1>1, <1>4, <2>1, <2>2 DEF WInv, HalfDone, HasLayout, Adding
  <1>9. Whole'
    <2>1. \A m \in Name \ byHand' : logger'[m].m_valid => \E conf \in Conf : Is(logger'[m], conf)
      BY <1>1, <1>3, <1>5 DEF WInv, Whole
    <2> QED BY <2>1 DEF Whole, Is
  <1>10. Settled'
    <2>1. \A m \in Name : Due(m)' = Due(m) /\ (Busy(m)' <=> Busy(m))
      BY <1>1, <1>4 DEF Due, Busy
    <2>2. \A m \in Name \ (behind' \cup byHand') : ~ Busy(m) => As(logger'[m], Due(m))
      BY <1>1, <1>3, <1>5 DEF WInv, Settled
    <2> QED BY <2>1, <2>2 DEF Settled
  <1> QED BY <1>6, <1>7, <1>8, <1>9, <1>10 DEF WInv

\* The client has spoiled the root logger with this call.
LEMMA Spoils ==
  ASSUME called \in Nat, called' = called + 1, NEW arg, arg = Script[called + 1], arg.name = Root,
         arg.call = "clearAppenders" \/ (arg.call = "setValid" /\ ~ arg.valid)
  PROVE  RootSpoiled'
  <1>1. called + 1 \in 1 .. called'
    OBVIOUS
  <1> QED BY <1>1 DEF RootSpoiled

\* One more appender leaves a logger that takes all messages one that does.
LEMMA TakesMore ==
  ASSUME NEW l, NEW r, NEW a, Laid(l.m_appenders), TakesAll(l), r.m_valid = l.m_valid,
         r.m_appenders = Append(l.m_appenders, a)
  PROVE  TakesAll(r)
  <1> DEFINE s == l.m_appenders
             t == r.m_appenders
  <1>1. PICK i \in DOMAIN s : s[i].m_level = UNKNOW
    BY DEF TakesAll
  <1>2. s \in Seq(Range(s)) /\ t = Append(s, a)
    BY DEF Laid
  <1> HIDE DEF s, t
  <1>3. i \in DOMAIN t /\ t[i] = s[i]
    <2>1. s \in Seq(Range(s) \cup {a})
      BY <1>2
    <2> QED BY <1>1, <1>2, <2>1
  <1>4. t[i].m_level = UNKNOW
    BY <1>1, <1>3
  <1> QED BY <1>3, <1>4 DEF TakesAll, t

\* Every call of the client.
LEMMA ClientKeepsWhole ==
  ASSUME Inv, WInv, ClientStep
  PROVE  WInv'
  <1> DEFINE i == called + 1
  <1>a. ASSUME NEW call, Calls(call)
        PROVE  /\ i \in DOMAIN Script /\ Arg = Script[i] /\ Arg.call = call
               /\ Arg.name \in Names /\ called \in Nat
               /\ call # "getLogger" => IsLogger(Its) /\ Laid(Its.m_appenders)
               /\ Arg.name = Root => Its = logger[Root]
    <2>1. /\ i \in DOMAIN Script /\ Arg = Script[i] /\ Arg.call = call /\ Arg.name \in Names
          /\ called \in Nat
      BY <1>a, ClientHasLogger DEF Arg, Inv, ClientOK
    <2> QED BY <2>1 DEF Inv, LoggersOK, Its, WInv, PrintOK
  <1>1. CASE ClientSetLevel
    <2> DEFINE l == [Its EXCEPT !.m_level = Arg.level]
    <2>1. ClientCall("setLevel", l)
      BY <1>1 DEF ClientSetLevel
    <2>2. IsLogger(Its) /\ Laid(Its.m_appenders) /\ (Arg.name = Root => Its = logger[Root])
      BY <2>1, <1>a DEF ClientCall
    <2>3. l.m_valid = Its.m_valid /\ l.m_layout = Its.m_layout /\ l.m_appenders = Its.m_appenders
      BY <2>2, Fields
    <2> HIDE DEF l
    <2>4. TakesAll(Its) => TakesAll(l)
      BY <2>3 DEF TakesAll
    <2> QED BY <2>1, <2>2, <2>3, <2>4, CallKeepsWhole
  <1>2. CASE ClientSetLayout
    <2> DEFINE l == [Its EXCEPT !.m_layout = Arg.pattern]
    <2>1. ClientCall("setLayout", l)
      BY <1>2 DEF ClientSetLayout
    <2>2. /\ IsLogger(Its) /\ Laid(Its.m_appenders) /\ (Arg.name = Root => Its = logger[Root])
          /\ Arg.pattern # None
      BY <2>1, <1>a, LayoutAssumption DEF ClientCall
    <2>3. /\ l.m_valid = Its.m_valid /\ l.m_layout = Arg.pattern
          /\ l.m_appenders = Its.m_appenders
      BY <2>2, Fields
    <2> HIDE DEF l
    <2>4. TakesAll(Its) => TakesAll(l)
      BY <2>3 DEF TakesAll
    <2> QED BY <2>1, <2>2, <2>3, <2>4, CallKeepsWhole
  <1>3. CASE ClientSetValid
    <2> DEFINE l == [Its EXCEPT !.m_valid = Arg.valid]
    <2>1. ClientCall("setValid", l)
      BY <1>3 DEF ClientSetValid
    <2>2. /\ IsLogger(Its) /\ Laid(Its.m_appenders) /\ (Arg.name = Root => Its = logger[Root])
          /\ Arg.valid \in BOOLEAN
      BY <2>1, <1>a, ScriptAssumption DEF ClientCall
    <2>3. /\ l.m_valid <=> Arg.valid
          /\ l.m_layout = Its.m_layout /\ l.m_appenders = Its.m_appenders
      BY <2>2, ValidField
    <2> HIDE DEF l
    <2>4. Arg.valid /\ TakesAll(Its) => TakesAll(l)
      BY <2>3 DEF TakesAll
    <2>5. /\ called \in Nat /\ called' = called + 1 /\ Arg = Script[called + 1]
          /\ Arg.call = "setValid"
      BY <2>1, <1>a DEF ClientCall
    <2>6. Arg.name = Root /\ ~ Arg.valid => RootSpoiled'
      BY <2>5, Spoils
    <2>7. Arg.name = Root => RootSpoiled' \/ TakesAll(l) \/ ~ TakesAll(logger[Root])
      BY <2>2, <2>4, <2>6
    <2> QED BY <2>1, <2>2, <2>3, <2>7, CallKeepsWhole
  <1>4. CASE ClientAddAppender
    <2> DEFINE a == Dressed(Arg.appender, Its.m_layout)
               l == [Its EXCEPT !.m_appenders = Append(Its.m_appenders, a)]
    <2>1. ClientCall("addAppender", l)
      <3>1. WithAppender(Its, Arg.appender) = l
        BY DEF WithAppender
      <3> QED BY <1>4, <3>1 DEF ClientAddAppender
    <2>2. /\ IsLogger(Its) /\ Laid(Its.m_appenders) /\ (Arg.name = Root => Its = logger[Root])
          /\ DOMAIN Arg.appender = {"type", "m_level", "m_layout"}
      BY <2>1, <1>a, ScriptAssumption DEF ClientCall
    <2>3. /\ l.m_valid = Its.m_valid /\ l.m_layout = Its.m_layout
          /\ l.m_appenders = Append(Its.m_appenders, a)
      <3> HIDE DEF a
      <3> QED BY <2>2, Fields
    <2>4. a.m_layout # None
      <3>1. /\ i \in DOMAIN Script /\ Arg = Script[i] /\ Arg.call = "addAppender"
            /\ Arg.name \in Names /\ called \in Nat
        BY <2>1, <1>a DEF ClientCall
      <3>2. ASSUME Arg.appender.m_layout = None PROVE Its.m_layout # None
        <4>1. PICK j \in 1 .. i : Script[j].name = Arg.name /\ Script[j].call = "setLayout"
          BY <3>1, <3>2, LayoutAssumption
        <4>2. j \in 1 .. called
          BY <3>1, <4>1
        <4> QED BY <3>1, <4>1, <4>2 DEF WInv, PrintOK, Its
      <3>3. a.m_layout = PatternOf(Arg.appender.m_layout, Its.m_layout)
        BY <2>2, AppenderIs
      <3> QED BY <3>2, <3>3 DEF PatternOf
    <2> HIDE DEF a, l
    <2>5. Laid(l.m_appenders)
      BY <2>2, <2>3, <2>4, LaidMore
    <2>6. TakesAll(Its) => TakesAll(l)
      BY <2>2, <2>3, TakesMore
    <2> QED BY <2>1, <2>2, <2>3, <2>5, <2>6, CallKeepsWhole
  <1>5. CASE ClientClearAppenders
    <2> DEFINE l == [Its EXCEPT !.m_appenders = <<>>]
    <2>1. ClientCall("clearAppenders", l)
      BY <1>5 DEF ClientClearAppenders
    <2>2. IsLogger(Its)
      BY <2>1, <1>a DEF ClientCall
    <2>3. l.m_layout = Its.m_layout /\ l.m_appenders = <<>>
      BY <2>2, Fields
    <2> HIDE DEF l
    <2>4. Laid(l.m_appenders)
      BY <2>3, LaidMore
    <2>5. /\ called \in Nat /\ called' = called + 1 /\ Arg = Script[called + 1]
          /\ Arg.call = "clearAppenders"
      BY <2>1, <1>a DEF ClientCall
    <2>6. Arg.name = Root => RootSpoiled'
      BY <2>5, Spoils
    <2> QED BY <2>1, <2>3, <2>4, <2>6, CallKeepsWhole
  <1>6. CASE ClientGetLogger
    <2>1. /\ Calls("getLogger") /\ GetLogger(Arg.name) /\ called' = called + 1
          /\ UNCHANGED <<m_value, load, behind, byHand, at, msg>>
      BY <1>6 DEF ClientGetLogger
    <2>2. Arg.name \in Names /\ Script[called + 1].call # "setLayout"
      BY <2>1, <1>a
    <2> QED BY <2>1, <2>2, GetKeepsWhole
  <1> QED BY <1>1, <1>2, <1>3, <1>4, <1>5, <1>6 DEF ClientStep

\* What changes none of this keeps it.
LEMMA Stutters ==
  ASSUME WInv, UNCHANGED <<logger, m_value, load, behind, byHand, called>>
  PROVE  WInv'
  <1>1. /\ This' = This /\ ThisConf' = ThisConf /\ Done' = Done
        /\ ItsLevel' = ItsLevel /\ ItsLayout' = ItsLayout
        /\ ToSetUp(load.new)' = ToSetUp(load.new) /\ ToDrop(load.new)' = ToDrop(load.new)
        /\ \A n : Due(n)' = Due(n) /\ (Busy(n)' <=> Busy(n))
    BY DEF This, ThisConf, Done, ItsLevel, ItsLayout, ToSetUp, ToDrop, Due, Busy
  <1>2. PrintOK' /\ RestOK' /\ TodoOK'
    BY <1>1 DEF WInv, PrintOK, TakesAll, RootSpoiled, RestOK, TodoOK
  <1>3. HalfDone'
    BY <1>1 DEF WInv, HalfDone
  <1>4. Whole' /\ Settled'
    BY <1>1 DEF WInv, Whole, Settled, As, Is
  <1> QED BY <1>2, <1>3, <1>4 DEF WInv

\* The threads only ask for loggers.
LEMMA ThreadKeepsWhole ==
  ASSUME Inv, WInv, NEW t \in Thread,
         (\E n \in Names, level \in Level : CallGetLogger(t, n, level)) \/ ThreadStep(t)
  PROVE  WInv'
  <1>1. ASSUME NEW n \in Names, NEW level \in Level, CallGetLogger(t, n, level) PROVE WInv'
    BY <1>1, GetKeepsWhole DEF CallGetLogger, clientVars
  <1>2. ASSUME ThreadStep(t) PROVE WInv'
    <2>1. UNCHANGED <<registered, logger, m_value, load, behind, byHand, called>>
      BY <1>2 DEF ThreadStep, TestLevel, Log, Warn, WarnLog, Fallback, LogStep, clientVars
    <2> QED BY <2>1, Stutters
  <1> QED BY <1>1, <1>2

\* At first no name has a value and no logger but the root logger is valid.
LEMMA WInvInit == Init => WInv
  <1> SUFFICES ASSUME Init PROVE WInv
    OBVIOUS
  <1>1. \A n \in Name : n \in Names /\ n # Root
    BY NameAssumption DEF Names
  <1>2. \A n \in Name : logger[n] = New(UNKNOW)
    BY <1>1, FirstLoggers
  <1>3. \A n \in Name : /\ ~ logger[n].m_valid /\ logger[n].m_layout = None
                        /\ logger[n].m_appenders = <<>>
    BY <1>2, NewIs
  <1>4. /\ load.at = "idle" /\ called = 0 /\ byHand = {} /\ behind = {}
        /\ \A n \in Name : m_value[n] = None
    BY <1>1 DEF Init, Idle
  <1>a. RestOK /\ HalfDone
    BY <1>4 DEF RestOK, HalfDone, HasLayout, Adding, SettingUp, Dropping
  <1>5. PrintOK
    <2>1. FirstAppender.m_level = UNKNOW /\ FirstAppender.m_layout # None
      BY PatternAssumption DEF FirstAppender
    <2>2. /\ logger[Root].m_valid /\ logger[Root].m_appenders = <<FirstAppender>>
      BY FirstLoggers
    <2> HIDE DEF FirstAppender
    <2>3. <<FirstAppender>> = Append(<<>>, FirstAppender)
      OBVIOUS
    <2>4. Laid(logger[Root].m_appenders)
      BY <2>1, <2>2, <2>3, LaidMore
    <2>5. TakesAll(logger[Root])
      <3>1. 1 \in DOMAIN <<FirstAppender>> /\ <<FirstAppender>>[1] = FirstAppender
        OBVIOUS
      <3> QED BY <2>1, <2>2, <3>1 DEF TakesAll
    <2>6. \A n \in Names : Laid(logger[n].m_appenders)
      BY <1>3, <2>4, LaidMore DEF Names
    <2>7. \A i \in 1 .. called : FALSE
      BY <1>4
    <2> QED BY <1>4, <2>5, <2>6, <2>7 DEF PrintOK, HasLayout
  <1>6. Whole /\ TodoOK
    BY <1>3, <1>4 DEF Whole, TodoOK, SettingUp, Dropping
  <1>7. Settled
    <2>1. \A n \in Name : Due(n) = None
      BY <1>4 DEF Due
    <2> QED BY <1>3, <2>1 DEF Settled, As
  <1> QED BY <1>a, <1>5, <1>6, <1>7 DEF WInv

\* Every step keeps it.
LEMMA WInvStep == Inv /\ WInv /\ [Next]_vars => WInv'
  <1> SUFFICES ASSUME Inv, WInv, [Next]_vars PROVE WInv'
    OBVIOUS
  <1>1. CASE UNCHANGED vars
    BY <1>1, Stutters DEF vars, clientVars
  <1> QED BY <1>1, BeginKeepsWhole, LoadKeepsWhole, ClientKeepsWhole, ThreadKeepsWhole DEF Next

(* Messages can be printed and the loggers are as they were configured, in *)
(* every state.                                                            *)
LEMMA WInvariance == Spec => []WInv
  BY WInvInit, WInvStep, Invariance, PTL DEF Spec

(* Appenders that print have layouts, and the root logger takes every      *)
(* message that another logger refused, whatever `logs` is given, until    *)
(* the client itself invalidates or empties the root logger                *)
(* (warp.cpp:11-22, log_config.cpp:112-115, 128-130).                      *)
THEOREM MessagesCanBePrinted == Spec => []CanPrint
  <1>1. Inv /\ WInv => CanPrint
    <2> SUFFICES ASSUME Inv, WInv PROVE CanPrint
      OBVIOUS
    <2>1. \A n \in Names : \A a \in Range(logger[n].m_appenders) : a.m_layout # None
      <3> SUFFICES ASSUME NEW n \in Names
                   PROVE  \A a \in Range(logger[n].m_appenders) : a.m_layout # None
        OBVIOUS
      <3> DEFINE s == logger[n].m_appenders
      <3>1. s \in Seq(Range(s)) /\ \A k \in 1 .. Len(s) : s[k].m_layout # None
        BY DEF WInv, PrintOK, Laid
      <3> HIDE DEF s
      <3>2. \A a \in Range(s) : a.m_layout # None
        BY <3>1 DEF Range
      <3> QED BY <3>2 DEF s
    <2>2. \A t \in Thread : msg[t].to \in Names /\ msg[t].level \in Nat
      BY LevelAssumption DEF Inv, ThreadsOK, UNKNOW
    <2>3. ASSUME NEW t \in Thread, ~ RootSpoiled
          PROVE  /\ logger[Root].m_valid
                 /\ \E a \in Range(logger[Root].m_appenders) : Prints(a, msg[t].level)
      <3>1. TakesAll(logger[Root])
        BY <2>3 DEF WInv, PrintOK
      <3>2. PICK i \in DOMAIN logger[Root].m_appenders :
              logger[Root].m_appenders[i].m_level = UNKNOW
        BY <3>1 DEF TakesAll
      <3>3. Prints(logger[Root].m_appenders[i], msg[t].level)
        BY <2>2, <3>2 DEF Prints, UNKNOW
      <3> QED BY <3>1, <3>3 DEF TakesAll, Range
    <2>4. Root \in Names
      BY DEF Names
    <2> QED BY <2>1, <2>2, <2>3, <2>4 DEF CanPrint, To
  <1> QED BY <1>1, Invariance, WInvariance, PTL

(* A logger that is valid has the level, the layout and the appenders of   *)
(* one configuration, but for appenders the load skipped, whatever loads   *)
(* and whoever logs while it is set up, loads that fail half-way included; *)
(* unless the client has changed it since.                                 *)
THEOREM ValidLoggersAreWhole == Spec => []ValidIsWhole
  <1>1. WInv => ValidIsWhole
    BY DEF WInv, Whole, ValidIsWhole
  <1> QED BY <1>1, WInvariance, PTL

(* Between loads the loggers are as `logs` says, except where a load was   *)
(* aborted or a client has changed them.                                   *)
THEOREM LoggersAreAsLoaded == Spec => []LoadedWhenIdle
  <1>1. WInv => LoadedWhenIdle
    <2> SUFFICES ASSUME WInv, load.at = "idle", NEW n \in Name \ (behind \cup byHand)
                 PROVE  As(logger[n], m_value[n])
      BY DEF LoadedWhenIdle, As
    <2>1. ~ Busy(n) /\ Due(n) = m_value[n]
      BY DEF Busy, Due, SettingUp, Dropping
    <2> QED BY <2>1 DEF WInv, Settled
  <1> QED BY <1>1, WInvariance, PTL
=============================================================================
