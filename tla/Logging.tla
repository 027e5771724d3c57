------------------------------- MODULE Logging -------------------------------
(***************************************************************************)
(* qc::log and its configuration: the loggers that Manager registers by    *)
(* name, threads that log through them, and the loading of the             *)
(* configuration variable `logs`, whose listener rebuilds the loggers one  *)
(* locked step at a time while the threads go on logging and clients set   *)
(* loggers up by hand.  What a logger that is not valid refuses, the root  *)
(* logger prints.                                                          *)
(*                                                                         *)
(* Config::LoadFromYaml holds the lock of Config and the one of the        *)
(* variable until the listener has returned: there is one load at a time.  *)
(* Each other lock is held within one action.                              *)
(***************************************************************************)
EXTENDS Naturals, Sequences, Functions

CONSTANTS
  Name,      \* names of loggers other than Root
  Root,      \* "root"
  Conf,      \* the LogConfig values: [level, pattern, appenders]
  Value,     \* what a file may give `logs`: the configuration of each name, or None
  Level,     \* the levels of messages
  Garbage,   \* what m_level of a new Logger may hold: it is not initialized
  Pattern,   \* m_pattern of Manager
  Thread,    \* the threads that log
  Script,    \* the calls of Manager and of loggers that one client makes, in order
  None       \* no configuration; no pattern; no layout; no appender

UNKNOW == 0
ERROR  == 4
Names  == Name \cup {Root}

ASSUME NameAssumption == Root \notin Name /\ None \notin Conf /\ None \notin Names
ASSUME ConfAssumption == \A c \in Conf : c.appenders \in Seq(Range(c.appenders))
ASSUME PatternAssumption == Pattern # None
ASSUME ValueAssumption == Value \subseteq [Names -> Conf \cup {None}]
ASSUME LevelAssumption == Level \cup Garbage \subseteq Nat
ASSUME ScriptAssumption ==
  /\ Script \in Seq(Range(Script))
  /\ \A i \in DOMAIN Script :
       LET c == Script[i]
       IN  /\ c.name \in Names
           /\ c.call \in {"getLogger", "setLevel", "setLayout", "setValid", "addAppender",
                          "clearAppenders"}
           /\ c.call = "setLevel" => c.level \in Level
           /\ c.call = "setValid" => c.valid \in BOOLEAN
           /\ c.call = "addAppender" => DOMAIN c.appender = {"type", "m_level", "m_layout"}
\* The client asks Manager for a logger before it changes it.
ASSUME ClientAssumption ==
  \A i \in DOMAIN Script :
    Script[i].name = Root
      \/ \E j \in 1 .. i : Script[j].name = Script[i].name /\ Script[j].call = "getLogger"
\* The layouts it sets are none that is missing, and an appender that it adds
\* has a layout, unless the logger was given one to dress it in.
ASSUME LayoutAssumption ==
  \A i \in DOMAIN Script :
    LET c == Script[i]
    IN  /\ c.call = "setLayout" => c.pattern # None
        /\ c.call = "addAppender" /\ c.appender.m_layout = None =>
             \E j \in 1 .. i : Script[j].name = c.name /\ Script[j].call = "setLayout"

VARIABLES
  registered,  \* names in m_loggers
  logger,      \* the Logger under each of them; in `skipped`, history, the appenders
               \* of its configuration that the last load left out of it
  m_value,     \* value of g_log_config, the configuration variable `logs`
  load,        \* the load under way
  behind,      \* history: names whose logger an aborted load left changed
  byHand,      \* history: names the client has changed since a load last began to
  called,      \* how many calls the client has made
  at, msg      \* where a thread is, and its message

clientVars == <<byHand, called>>
vars == <<registered, logger, m_value, load, behind, clientVars, at, msg>>

-----------------------------------------------------------------------------
LevelOf(level, default)     == IF level # UNKNOW THEN level ELSE default
PatternOf(pattern, default) == IF pattern # None THEN pattern ELSE default

\* The appender that a configures, for a logger with this level; a layout
\* that a does not give is taken from the logger later.
Appender(a, level) ==
  [type |-> a.type, m_level |-> LevelOf(a.level, level), m_layout |-> a.pattern]

\* Dressed in the layout unless it has one.
Dressed(appender, layout) == [appender EXCEPT !.m_layout = PatternOf(@, layout)]

\* mutant of WithAppender: addAppender does not look for a layout
WithBareAppender(l, appender) == [l EXCEPT !.m_appenders = Append(@, appender)]

\* Logger::addAppender
WithAppender(l, appender) ==
  [l EXCEPT !.m_appenders = Append(@, Dressed(appender, l.m_layout))]

\* Appender::log: whether it prints a message of this level.
Prints(appender, level) == appender.m_level <= level

New(level) ==
  [m_valid |-> FALSE, m_level |-> level, m_layout |-> None, m_appenders |-> <<>>,
   skipped |-> {}]
NoMessage == [to |-> Root, level |-> UNKNOW]
Idle ==
  [at |-> "idle", new |-> [n \in Names |-> None], todo |-> {}, name |-> None, rest |-> <<>>,
   appender |-> None]

TypeOK ==
  /\ registered \subseteq Names
  /\ \A n \in Names :
       /\ logger[n].m_valid \in BOOLEAN
       /\ logger[n].m_level \in Garbage \cup Level \cup {UNKNOW} \cup {c.level : c \in Conf}
       /\ n \notin registered => logger[n] = New(UNKNOW)
  /\ m_value \in [Names -> Conf \cup {None}]
  /\ load.at \in {"idle", "setup", "invalid", "level", "layout", "clear", "add",
                  "dress", "push", "drop", "drop_invalid", "drop_clear"}
  /\ load.todo \subseteq Names
  /\ behind \subseteq Name
  /\ byHand \subseteq registered /\ called \in 0 .. Len(Script)
  /\ at \in [Thread -> {"idle", "level", "log", "warn", "warn_log", "fallback"}]
  /\ msg \in [Thread -> [to : Names, level : Level \cup {UNKNOW}]]

\* Manager::init; the level of the root logger is not set.
Init ==
  /\ registered = {Root}
  /\ \E garbage \in Garbage :
       logger = [n \in Names |->
         IF n # Root THEN New(UNKNOW)
         ELSE [New(garbage) EXCEPT
                 !.m_valid = TRUE,
                 !.m_appenders = <<[type |-> "ConsoleAppender", m_level |-> UNKNOW,
                                    m_layout |-> Pattern]>>]]
  /\ m_value = [n \in Names |-> None]
  /\ load = Idle
  /\ behind = {}
  /\ byHand = {} /\ called = 0
  /\ at = [t \in Thread |-> "idle"]
  /\ msg = [t \in Thread |-> NoMessage]

-----------------------------------------------------------------------------
(* Manager::getLogger: a logger that is not registered is created invalid. *)

\* mutant of GetLogger: the new logger is not put into m_loggers
GetLoggerUnregistered(n) ==
  /\ UNCHANGED registered
  /\ IF n \in registered THEN UNCHANGED logger
     ELSE \E garbage \in Garbage : logger' = [logger EXCEPT ![n] = New(garbage)]

GetLogger(n) ==
  /\ registered' = registered \cup {n}
  /\ IF n \in registered THEN UNCHANGED logger
     ELSE \E garbage \in Garbage : logger' = [logger EXCEPT ![n] = New(garbage)]

-----------------------------------------------------------------------------
(* Loading.  The listener first sets up what is new or changed ...         *)

\* mutant of ToSetUp: the root logger is not left out
ToSetUpRoot(new) == {n \in Names : new[n] \notin {None, m_value[n]}}
ToSetUp(new) == {n \in Name : new[n] \notin {None, m_value[n]}}

\* mutant of ToDrop: a name that is gone keeps its logger
ToDropNone(new) == {}
ToDrop(new)  == {n \in Name : new[n] = None /\ m_value[n] # None}

\* A value equal to the old one changes nothing and calls no listener.
LoadFromYaml(new) ==
  /\ load.at = "idle"
  /\ new # m_value
  /\ load' = [Idle EXCEPT !.at = "setup", !.new = new, !.todo = ToSetUp(new)]
  /\ UNCHANGED <<registered, logger, m_value, behind, clientVars, at, msg>>

\* setupLogger, one call of the logger after the other.
SetupLogger ==
  /\ load.at = "setup"
  /\ \E n \in load.todo :
       /\ GetLogger(n)
       /\ load' = [load EXCEPT !.at = "invalid", !.name = n, !.todo = @ \ {n}]
  /\ UNCHANGED <<m_value, behind, clientVars, at, msg>>

Setup(from, to, l) ==
  /\ load.at = from
  /\ load' = [load EXCEPT !.at = to]
  /\ logger' = [logger EXCEPT ![load.name] = l]
  /\ UNCHANGED <<registered, m_value, called, at, msg>>

This == logger[load.name]
ThisConf == load.new[load.name]

\* mutant of SetInvalid: the logger prints while it is set up
StaysValid ==
  /\ Setup("invalid", "level", This)
  /\ byHand' = byHand \ {load.name}
  /\ UNCHANGED behind

SetInvalid ==
  /\ Setup("invalid", "level", [This EXCEPT !.m_valid = FALSE])
  /\ byHand' = byHand \ {load.name}
  /\ UNCHANGED behind

SetLevel ==
  /\ Setup("level", "layout", [This EXCEPT !.m_level = LevelOf(ThisConf.level, UNKNOW)])
  /\ UNCHANGED <<behind, byHand>>

SetLayout ==
  /\ Setup("layout", "clear", [This EXCEPT !.m_layout = PatternOf(ThisConf.pattern, Pattern)])
  /\ UNCHANGED <<behind, byHand>>

ClearAppenders ==
  /\ load.at = "clear"
  /\ load' = [load EXCEPT !.at = "add", !.rest = ThisConf.appenders]
  /\ logger' = [logger EXCEPT ![load.name] = [@ EXCEPT !.m_appenders = <<>>, !.skipped = {}]]
  /\ UNCHANGED <<registered, m_value, behind, clientVars, at, msg>>

\* The appender is made with the level the logger has now, gets a layout
\* from it next, and is added last: three calls of the logger.
MakeAppender ==
  /\ load.at = "add" /\ load.rest # <<>>
  /\ Head(load.rest).type # "unknown"
  /\ load' = [load EXCEPT !.at = "dress", !.appender = Appender(Head(load.rest), This.m_level)]
  /\ UNCHANGED <<registered, logger, m_value, behind, clientVars, at, msg>>

DressAppender ==
  /\ load.at = "dress"
  /\ load' = [load EXCEPT !.at = "push", !.appender = Dressed(@, This.m_layout)]
  /\ UNCHANGED <<registered, logger, m_value, behind, clientVars, at, msg>>

AddAppender ==
  /\ load.at = "push"
  /\ load' = [load EXCEPT !.at = "add", !.rest = Tail(@), !.appender = None]
  /\ logger' = [logger EXCEPT ![load.name] = WithAppender(@, load.appender)]
  /\ UNCHANGED <<registered, m_value, behind, clientVars, at, msg>>

\* How many of its appenders the load has turned to.
Done == Len(ThisConf.appenders) - Len(load.rest)

\* mutant of SkipAppender: `break` in the place of `continue`
SkipAppenders ==
  /\ load.at = "add" /\ load.rest # <<>>
  /\ Head(load.rest).type # "ConsoleAppender"
  /\ load' = [load EXCEPT !.rest = <<>>]
  /\ logger' = [logger EXCEPT ![load.name].skipped = @ \cup {Done + 1}]
  /\ UNCHANGED <<registered, m_value, behind, clientVars, at, msg>>

\* Its type is unknown, or its directory or file could not be created.
SkipAppender ==
  /\ load.at = "add" /\ load.rest # <<>>
  /\ Head(load.rest).type # "ConsoleAppender"
  /\ load' = [load EXCEPT !.rest = Tail(@)]
  /\ logger' = [logger EXCEPT ![load.name].skipped = @ \cup {Done + 1}]
  /\ UNCHANGED <<registered, m_value, behind, clientVars, at, msg>>

\* std::filesystem::exists throws.  ConfigVar::fromNode catches it: the
\* variable keeps its value, the loggers stay as they are.
Throw ==
  /\ load.at = "add" /\ load.rest # <<>>
  /\ Head(load.rest).type = "FileAppender"
  /\ behind' = behind \cup (ToSetUp(load.new) \ load.todo)
  /\ load' = Idle
  /\ UNCHANGED <<registered, logger, m_value, clientVars, at, msg>>

SetValid ==
  /\ load.rest = <<>>
  /\ Setup("add", "setup", [This EXCEPT !.m_valid = TRUE])
  /\ behind' = behind \ {load.name}
  /\ UNCHANGED byHand

-----------------------------------------------------------------------------
(* ... and then invalidates what is gone.                                  *)

SetupDone ==
  /\ load.at = "setup" /\ load.todo = {}
  /\ load' = [load EXCEPT !.at = "drop", !.todo = ToDrop(load.new)]
  /\ UNCHANGED <<registered, logger, m_value, behind, clientVars, at, msg>>

DropLogger ==
  /\ load.at = "drop"
  /\ \E n \in load.todo :
       /\ GetLogger(n)
       /\ load' = [load EXCEPT !.at = "drop_invalid", !.name = n, !.todo = @ \ {n}]
  /\ UNCHANGED <<m_value, behind, clientVars, at, msg>>

DropInvalid ==
  /\ Setup("drop_invalid", "drop_clear", [This EXCEPT !.m_valid = FALSE])
  /\ byHand' = byHand \ {load.name}
  /\ UNCHANGED behind

DropClear ==
  /\ Setup("drop_clear", "drop", [This EXCEPT !.m_appenders = <<>>])
  /\ behind' = behind \ {load.name}
  /\ UNCHANGED byHand

\* The listener has returned; setValue assigns the new value.
LoadDone ==
  /\ load.at = "drop" /\ load.todo = {}
  /\ m_value' = load.new
  /\ load' = Idle
  /\ UNCHANGED <<registered, logger, behind, clientVars, at, msg>>

LoadStep ==
  \/ SetupLogger \/ SetInvalid \/ SetLevel \/ SetLayout \/ ClearAppenders
  \/ MakeAppender \/ DressAppender \/ AddAppender \/ SkipAppender \/ Throw \/ SetValid
  \/ SetupDone \/ DropLogger \/ DropInvalid \/ DropClear \/ LoadDone

-----------------------------------------------------------------------------
(* A client sets loggers up by hand, one locked call after the other.      *)

Calls(call) == called < Len(Script) /\ Script[called + 1].call = call
Arg == Script[called + 1]

ClientGetLogger ==
  /\ Calls("getLogger")
  /\ GetLogger(Arg.name)
  /\ called' = called + 1
  /\ UNCHANGED <<m_value, load, behind, byHand, at, msg>>

ClientCall(call, l) ==
  /\ Calls(call)
  /\ logger' = [logger EXCEPT ![Arg.name] = l]
  /\ called' = called + 1
  /\ byHand' = byHand \cup {Arg.name}
  /\ UNCHANGED <<registered, m_value, load, behind, at, msg>>

Its == logger[Arg.name]

ClientSetLevel  == ClientCall("setLevel", [Its EXCEPT !.m_level = Arg.level])
ClientSetLayout == ClientCall("setLayout", [Its EXCEPT !.m_layout = Arg.pattern])
ClientSetValid  == ClientCall("setValid", [Its EXCEPT !.m_valid = Arg.valid])
ClientAddAppender == ClientCall("addAppender", WithAppender(Its, Arg.appender))
ClientClearAppenders == ClientCall("clearAppenders", [Its EXCEPT !.m_appenders = <<>>])

ClientStep ==
  \/ ClientGetLogger \/ ClientSetLevel \/ ClientSetLayout \/ ClientSetValid
  \/ ClientAddAppender \/ ClientClearAppenders

-----------------------------------------------------------------------------
(* LOG_LEVEL(GET_LOGGER(n), level) << ...                                  *)

Goto(t, label) == at' = [at EXCEPT ![t] = label]
To(t) == logger[msg[t].to]

CallGetLogger(t, n, level) ==
  /\ at[t] = "idle"
  /\ GetLogger(n)
  /\ msg' = [msg EXCEPT ![t] = [to |-> n, level |-> level]]
  /\ Goto(t, "level")
  /\ UNCHANGED <<m_value, load, behind, clientVars>>

LogStep(t, from, to) ==
  /\ at[t] = from
  /\ Goto(t, to)
  /\ msg' = IF to = "idle" THEN [msg EXCEPT ![t] = NoMessage] ELSE msg
  /\ UNCHANGED <<registered, logger, m_value, load, behind, clientVars>>

TestLevel(t) ==
  LogStep(t, "level", IF To(t).m_level <= msg[t].level THEN "log" ELSE "idle")

\* Logger::log, which holds the logger's lock while its appenders print.
Log(t) == LogStep(t, "log", IF To(t).m_valid THEN "idle" ELSE "warn")

\* ~Warp: the logger is not valid.  A warning goes to the root logger by a
\* Warp of its own, whose destructor would warn again if root were invalid.
Warn(t) ==
  LogStep(t, "warn", IF logger[Root].m_level <= ERROR THEN "warn_log" ELSE "fallback")
WarnLog(t) ==
  LogStep(t, "warn_log", IF logger[Root].m_valid THEN "fallback" ELSE "warn")
Fallback(t) == LogStep(t, "fallback", "idle")

ThreadStep(t) == TestLevel(t) \/ Log(t) \/ Warn(t) \/ WarnLog(t) \/ Fallback(t)

-----------------------------------------------------------------------------
Next ==
  \/ \E new \in Value : LoadFromYaml(new)
  \/ LoadStep
  \/ ClientStep
  \/ \E t \in Thread :
       (\E n \in Names, level \in Level : CallGetLogger(t, n, level)) \/ ThreadStep(t)

Spec == Init /\ [][Next]_vars

\* The operating system schedules the threads; nobody has to load or to log.
FairSpec == Spec /\ WF_vars(LoadStep) /\ \A t \in Thread : WF_vars(ThreadStep(t))

-----------------------------------------------------------------------------
\* The appender that setupLogger makes of a, for a logger that conf configures.
Made(a, conf) ==
  Dressed(Appender(a, LevelOf(conf.level, UNKNOW)), PatternOf(conf.pattern, Pattern))

(* The appenders of l are what the first k of conf have become, in their   *)
(* order, but for those skipped: all of an unknown type, and those to      *)
(* files whose directory or file could not be made in that load.           *)
MadeOf(l, conf, k) ==
  /\ l.skipped \subseteq 1 .. k
  /\ \A j \in l.skipped : conf.appenders[j].type # "ConsoleAppender"
  /\ \E from \in [DOMAIN l.m_appenders -> 1 .. k] :
       /\ \A j \in 1 .. k : j \in l.skipped \/ \E i \in DOMAIN from : from[i] = j
       /\ \A i, j \in DOMAIN from : i < j => from[i] < from[j]
       /\ \A i \in DOMAIN from :
            /\ from[i] \notin l.skipped /\ conf.appenders[from[i]].type # "unknown"
            /\ l.m_appenders[i] = Made(conf.appenders[from[i]], conf)

\* The logger l is as conf says.
Is(l, conf) ==
  /\ l.m_level = LevelOf(conf.level, UNKNOW)
  /\ l.m_layout = PatternOf(conf.pattern, Pattern)
  /\ MadeOf(l, conf, Len(conf.appenders))

(* Whenever a logger is valid, which is when Logger::log prints through    *)
(* it, its level, its layout and its appenders are those of one            *)
(* configuration, however the calls of a load interleave with the threads, *)
(* even of one that failed half-way.  Only appenders that the load skipped *)
(* are missing, those behind them are there.  Loggers that a client has    *)
(* changed since may be a mixture.  A thread tests the level in a locked   *)
(* step before (macro.h:15): the level may have been that of an earlier    *)
(* configuration (log_config.cpp:25-98, logger.cpp:9-18).                  *)
ValidIsWhole ==
  \A n \in Name \ byHand : logger[n].m_valid => \E conf \in Conf : Is(logger[n], conf)

(* Between loads the loggers are as the variable `logs` says, and those it *)
(* does not name print nothing, except where a load was aborted by an      *)
(* exception and no later one has changed the logger again, or a client    *)
(* has changed it since the load began to: a load overwrites what clients  *)
(* did before it (log_config.cpp:108-139, config.h:233-241).               *)
LoadedWhenIdle ==
  load.at = "idle" =>
    \A n \in Name \ (behind \cup byHand) :
      IF m_value[n] = None
        THEN ~ logger[n].m_valid /\ logger[n].m_appenders = <<>>
        ELSE logger[n].m_valid /\ Is(logger[n], m_value[n])

\* The client has invalidated or emptied the root logger: setValid() and
\* clearAppenders() are public (logger.h:34, 43).
RootSpoiled ==
  \E i \in 1 .. called :
    /\ Script[i].name = Root
    /\ Script[i].call = "clearAppenders" \/ (Script[i].call = "setValid" /\ ~ Script[i].valid)

(* A thread can print its message.  An appender has a layout, which it     *)
(* dereferences (appender.cpp:25), whether a load or a client has added it *)
(* and in whatever order their calls reach the logger.  A message that its *)
(* logger refused finds the root logger valid and with an appender that    *)
(* prints it, whatever is loaded, `root` in `logs` included, unless the    *)
(* client itself has spoiled the root logger (warp.cpp:11-22,              *)
(* log_config.cpp:112-115, 128-130).                                       *)
CanPrint ==
  \A t \in Thread :
    /\ at[t] = "log" => \A a \in Range(To(t).m_appenders) : a.m_layout # None
    /\ at[t] \in {"warn", "warn_log", "fallback"} =>
         /\ \A a \in Range(logger[Root].m_appenders) : a.m_layout # None
         /\ RootSpoiled \/ /\ logger[Root].m_valid
                           /\ \E a \in Range(logger[Root].m_appenders) : Prints(a, msg[t].level)

(* Every call of a logging macro returns, though loggers are invalidated   *)
(* between the test of the level and the print: the fallback does not call *)
(* itself for ever, as long as the client does not spoil the root logger   *)
(* (warp.cpp:19).                                                          *)
MessageEnds == \A t \in Thread : at[t] # "idle" ~> at[t] = "idle" \/ RootSpoiled
=============================================================================
