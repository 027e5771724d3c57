-------------------------------- MODULE Yaml --------------------------------
(***************************************************************************)
(* YAML nodes and what the configuration does with them: the conversions   *)
(* YAML::convert<T> between nodes and values, and the list of named nodes  *)
(* that TraversalYaml makes of a tree.                                     *)
(*                                                                         *)
(* A key or a name is a sequence of words, the parts between its dots.     *)
(* A scalar is its text.  A decoder answers Ok(value) or Throws: as<T>()   *)
(* throws whenever decode() answers false.                                 *)
(***************************************************************************)
EXTENDS Naturals, SequencesExt

CONSTANTS
  IntText,   \* the texts that are integers
  Bad,       \* a word with a character that no name may have
  MaxNodes   \* bound: number of nodes of a tree

Null            == [kind |-> "null"]
Scalar(text)    == [kind |-> "scalar", text |-> text]
Sequence(items) == [kind |-> "sequence", items |-> items]
Map(pairs)      == [kind |-> "map", pairs |-> pairs]
Pair(key, node) == [key |-> key, node |-> node]

Throws    == [ok |-> FALSE]
Ok(value) == [ok |-> TRUE, value |-> value]

\* All of these, or an exception.
All(outcomes) ==
  IF \A i \in DOMAIN outcomes : outcomes[i].ok
    THEN Ok([i \in DOMAIN outcomes |-> outcomes[i].value])
    ELSE Throws

-----------------------------------------------------------------------------
(* int and std::string, which yaml-cpp converts.                           *)

AsInt(node) ==
  IF node.kind = "scalar" /\ node.text \in IntText THEN Ok(node.text) ELSE Throws

AsString(node) ==
  CASE node.kind = "scalar" -> Ok(node.text)
    [] node.kind = "null"   -> Ok("null")
    [] OTHER                -> Throws

-----------------------------------------------------------------------------
(* Containers, of nodes that are encoded already.  The encoder adds the    *)
(* items to an empty Node, which is null until the first of them: an empty *)
(* container becomes a null node, which the decoder refuses.               *)

EncodeList(nodes) == IF nodes = <<>> THEN Null ELSE Sequence(nodes)

EncodeMap(nodes) ==
  IF DOMAIN nodes = {} THEN Null
  ELSE LET keys == SetToSeq(DOMAIN nodes)
       IN  Map([i \in DOMAIN keys |-> Pair(keys[i], nodes[keys[i]])])

\* The node under a key: the first one, for the lookup and for emplace().
Keys(node)    == {node.pairs[i].key : i \in DOMAIN node.pairs}
Has(node, key) == node.kind = "map" /\ key \in Keys(node)
At(node, key) == node.pairs[SelectInSeq(node.pairs, LAMBDA p : p.key = key)].node

-----------------------------------------------------------------------------
(* AppenderConfig and LogConfig.  A field the node does not have keeps     *)
(* what it was: an empty text, or, a level, what the memory held: garbage. *)

EncodeAppender(a) ==
  Map(<<Pair(<<"type">>, Scalar(a.type)), Pair(<<"level">>, Scalar(a.level)),
        Pair(<<"pattern">>, Scalar(a.pattern)), Pair(<<"filename">>, Scalar(a.filename))>>)

TextField(node, name) ==
  IF Has(node, <<name>>) THEN AsString(At(node, <<name>>)) ELSE Ok("")
LevelField(node, garbage) ==
  IF Has(node, <<"level">>) THEN AsInt(At(node, <<"level">>)) ELSE Ok(garbage)

DecodeAppender(node, garbage) ==
  LET type == TextField(node, "type")
  IN  IF \/ ~ Has(node, <<"type">>)
         \/ type.ok /\ type.value = "FileAppender" /\ ~ Has(node, <<"filename">>)
        THEN Throws
        ELSE All([type     |-> type,
                  level    |-> LevelField(node, garbage),
                  pattern  |-> TextField(node, "pattern"),
                  filename |-> TextField(node, "filename")])

\* std::list of either type; the other containers of items are decoded alike.
DecodeItem(type, node, garbage) ==
  IF type = "int" THEN AsInt(node) ELSE DecodeAppender(node, garbage)

DecodeList(type, node, garbage) ==
  IF node.kind # "sequence" THEN Throws
  ELSE All([i \in DOMAIN node.items |-> DecodeItem(type, node.items[i], garbage)])

EncodeLog(c) ==
  Map(<<Pair(<<"level">>, Scalar(c.level)), Pair(<<"pattern">>, Scalar(c.pattern)),
        Pair(<<"appenders">>,
             EncodeList([i \in DOMAIN c.appenders |-> EncodeAppender(c.appenders[i])]))>>)

\* A null node is a LogConfig with no field; looking into a scalar throws.
DecodeLog(node, garbage) ==
  IF node.kind = "scalar" THEN Throws
  ELSE All([level     |-> LevelField(node, garbage),
            pattern   |-> TextField(node, "pattern"),
            appenders |-> IF Has(node, <<"appenders">>)
                            THEN DecodeList("appender", At(node, <<"appenders">>), garbage)
                            ELSE Ok(<<>>)])

\* Every value is converted, those of repeated keys too.
DecodeLogs(node, garbage) ==
  IF node.kind # "map" THEN Throws
  ELSE IF ~ All([i \in DOMAIN node.pairs |-> DecodeLog(node.pairs[i].node, garbage)]).ok
    THEN Throws
  ELSE All([key \in Keys(node) |-> DecodeLog(At(node, key), garbage)])

-----------------------------------------------------------------------------
(* The types of variables: int, std::list<int>, std::set<int> and          *)
(* std::unordered_map<std::string, LogConfig>.                             *)

Encode(type, value) ==
  CASE type = "int"  -> Scalar(value)
    [] type = "list" -> EncodeList([i \in DOMAIN value |-> Scalar(value[i])])
    [] type = "set"  -> EncodeList(SetToSeq({Scalar(x) : x \in value}))
    [] type = "logs" -> EncodeMap([key \in DOMAIN value |-> EncodeLog(value[key])])

DecodeSet(node) ==
  LET list == DecodeList("int", node, "")
  IN  IF list.ok THEN Ok(ToSet(list.value)) ELSE Throws

Decode(type, node, garbage) ==
  CASE type = "int"  -> AsInt(node)
    [] type = "list" -> DecodeList("int", node, garbage)
    [] type = "set"  -> DecodeSet(node)
    [] type = "logs" -> DecodeLogs(node, garbage)

-----------------------------------------------------------------------------
(* TraversalYaml: every node with its dotted name, parents first, except   *)
(* below a name with a bad character.  todo is the recursion's stack.      *)

ValidName(name) == \A i \in DOMAIN name : name[i] # Bad

Children(named) ==
  IF named.node.kind # "map" THEN <<>>
  ELSE [i \in DOMAIN named.node.pairs |->
          [name |-> named.name \o named.node.pairs[i].key,
           node |-> named.node.pairs[i].node]]

Visit(state, step) ==
  IF state.todo = <<>> THEN state
  ELSE LET this == Head(state.todo)
           rest == Tail(state.todo)
       IN  IF ValidName(this.name)
             THEN [nodes |-> Append(state.nodes, this), todo |-> Children(this) \o rest]
             ELSE [state EXCEPT !.todo = rest]

TraversalYaml(root) ==
  FoldLeft(Visit, [nodes |-> <<>>, todo |-> <<[name |-> <<>>, node |-> root]>>],
           [i \in 1 .. MaxNodes |-> i]).nodes
=============================================================================
