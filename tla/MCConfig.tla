------------------------------ MODULE MCConfig ------------------------------
(* Model-checking instance of Config: the variables of the library, a list,*)
(* a name below `logs`, and further calls of Create for one of the names.  *)
EXTENDS Config

SomeDecl == {"logs", "level", "stack", "again", "other", "ports"}
SomeName ==
  [logs |-> <<"logs">>, level |-> <<"logs", "a", "level">>,
   stack |-> <<"coroutine", "stack_size">>, again |-> <<"coroutine", "stack_size">>,
   other |-> <<"coroutine", "stack_size">>, ports |-> <<"coroutine", "ports">>]
SomeType ==
  [logs |-> "logs", level |-> "int", stack |-> "int", again |-> "int", other |-> "set",
   ports |-> "list"]
SomeDefault ==
  [logs |-> [key \in {} |-> <<>>], level |-> "2", stack |-> "128", again |-> "64",
   other |-> {"1"}, ports |-> <<"7">>]

SomeOrder == <<"ports", "level", "stack", "again", "other", "logs">>

Console(level) == Map(<<Pair(<<"type">>, Scalar("ConsoleAppender")),
                        Pair(<<"level">>, Scalar(level))>>)
Key(name, node) == Pair(<<name>>, node)

\* A good file: one logger with an appender, the stack size, two ports.
GoodFile == Map(<<
  Key("logs", Map(<<Key("a", Map(<<Key("level", Scalar("1")),
                                   Key("appenders", Sequence(<<Console("2")>>))>>))>>)),
  Key("coroutine", Map(<<Key("stack_size", Scalar("64")),
                         Key("ports", Sequence(<<Scalar("1"), Scalar("2")>>))>>))>>)

\* Dotted and nested keys for one variable, a level left out, a text where
\* an integer should be, a bad key, null.
OddFile == Map(<<
  Pair(<<"coroutine", "ports">>, Sequence(<<Scalar("1")>>)),
  Key("logs", Map(<<Key("a", Map(<<Key("pattern", Scalar("m"))>>))>>)),
  Key("coroutine", Map(<<Key("stack_size", Scalar("many")),
                         Key("ports", Sequence(<<Scalar("2")>>)),
                         Key("$", Scalar("1"))>>)),
  Key("$", Map(<<Pair(<<"coroutine", "ports">>, Sequence(<<Scalar("1")>>))>>))>>)

SomeFiles == {GoodFile, OddFile}
SomeTexts == {Scalar("1"), Scalar("2"), Scalar("many")}
=============================================================================
