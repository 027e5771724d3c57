----------------------------- MODULE MCLogging -----------------------------
(* Model-checking instance of Logging.                                     *)
EXTENDS Logging

ConsoleAppender(level, pattern) ==
  [type |-> "ConsoleAppender", level |-> level, pattern |-> pattern]
FileAppender(level, pattern) ==
  [type |-> "FileAppender", level |-> level, pattern |-> pattern]

\* Two configurations that differ in all they set.
Plain == [level |-> 0, pattern |-> None,
          appenders |-> <<[type |-> "unknown", level |-> 0, pattern |-> None],
                          ConsoleAppender(0, None)>>]
Rich  == [level |-> 2, pattern |-> "%m",
          appenders |-> <<FileAppender(0, None), ConsoleAppender(4, "%p %m")>>]
PlainAndRich == {Plain, Rich}

\* What `logs` may be given: from one to the next loggers appear, change and
\* go; one value configures the root logger too.
Logs(confA, confB, confRoot) ==
  [n \in Names |-> IF n = Root THEN confRoot ELSE IF n = "a" THEN confA ELSE confB]
SomeValues ==
  {Logs(Plain, None, None), Logs(Rich, Plain, None), Logs(None, None, Rich)}

DefaultPattern == "%d %m"

\* One message that Rich lets pass and its console does not print.
SomeLevels == {2}
\* A level that lets every message pass, and one that lets none pass.
AnyGarbage == {0, 9}

\* A client sets up a logger that `logs` names too, and then the root logger,
\* which it empties in the end.
SetUpByHand ==
  <<[call |-> "getLogger", name |-> "a"],
    [call |-> "setLayout", name |-> "a", pattern |-> DefaultPattern],
    [call |-> "setValid", name |-> "a", valid |-> TRUE],
    [call |-> "addAppender", name |-> "a",
     appender |-> [type |-> "ConsoleAppender", m_level |-> 2, m_layout |-> None]],
    [call |-> "setLevel", name |-> Root, level |-> 2],
    [call |-> "clearAppenders", name |-> Root]>>
=============================================================================
