------------------------------ MODULE HappyParser ------------------------------
(***************************************************************************)
(* The grammar half of Happy's Parser (tools/happy/src/Parser.cpp): the    *)
(* recursive functions parse_document, parse_struct and so on, over a      *)
(* document that is a sequence of symbols.  How symbols are read from the  *)
(* text is HappyReader's.                                                  *)
(*                                                                         *)
(* The program's stack is todo: what the functions that have been called   *)
(* have left to do, the innermost first.  A name of a symbol in todo is a  *)
(* parse_symbol, parse_identifier, parse_string or parse_integer, any      *)
(* other name a function to call, or a branch or a loop of a function;     *)
(* "return" ends the function of the innermost open node.  The document is *)
(* chosen symbol by symbol, when peek_symbol first looks at it.  What the  *)
(* documents should look like is HappyGrammar's.                           *)
(***************************************************************************)
EXTENDS Integers, Sequences

CONSTANT MaxSymbols      \* bound: symbols of a document, without the eof

ASSUME ParserAssumption == MaxSymbols \in Nat

VARIABLES
  todo,          \* the call stack
  next_symbol,   \* the cached symbol, or "invalid"
  open,          \* the nodes being built, the outermost first
  nodes,         \* the nodes that have been returned
  outcome,       \* "parsing", "document" or "exception"
  consumed       \* history: the symbols parsed so far

parserVars == <<todo, next_symbol, open, nodes, outcome, consumed>>

Symbols ==
  {"identifier", "string", "integer", "number", "namespace_kw", "include_kw",
   "struct_kw", "mapping_kw", "encoding_kw", "delta_kw", "colon", "namespace_sep",
   "curly_open", "curly_close", "bracket_open", "bracket_close", "eof", "error"}

--------------------------------------------------------------------------------
(* The functions. *)

ParseInclude == <<"include_kw", "string", "return">>

\* Mutant: the closing bracket is left to the caller.
ParseStructUnclosed ==
  <<"struct_kw", "identifier", "curly_open", "struct_fields", "return">>

ParseStruct ==
  <<"struct_kw", "identifier", "curly_open", "struct_fields", "curly_close", "return">>

ParseStructField == <<"identifier", "colon", "type", "return">>

\* Mutant: the loop looks at the symbol after the first field, not before.
ParseMappingDoWhile ==
  <<"mapping_kw", "identifier", "colon", "qualified_identifier", "curly_open",
    "mapping_field", "mapping_fields", "curly_close", "return">>

ParseMapping ==
  <<"mapping_kw", "identifier", "colon", "qualified_identifier", "curly_open",
    "mapping_fields", "curly_close", "return">>

ParseMappingField == <<"identifier", "colon", "string", "return">>

ParseEncoding ==
  <<"encoding_kw", "identifier", "encoding_id", "curly_open", "encoding_nodes",
    "curly_close", "return">>

ParseEncodingField == <<"identifier", "encoding_id", "return">>

ParseEncodingDeltaBlock == <<"delta_kw", "delta_fields", "return">>

ParseDocument == <<"includes", "namespace", "declarations", "return">>

\* The functions that return a node: each takes current_position() first.
Node ==
  [include |-> ParseInclude, struct |-> ParseStruct, struct_field |-> ParseStructField,
   mapping |-> ParseMapping, mapping_field |-> ParseMappingField,
   encoding |-> ParseEncoding, encoding_field |-> ParseEncodingField,
   encoding_delta_block |-> ParseEncodingDeltaBlock, document |-> ParseDocument]

ParseQualifiedIdentifier == <<"identifier", "more_identifiers">>

\* Mutant: only a plain name can be a type.
ParseTypeUnqualified == <<"identifier", "array">>

ParseType == <<"qualified_identifier", "array">>

\* The functions that return a plain value.
Value == [qualified_identifier |-> ParseQualifiedIdentifier, type |-> ParseType]

--------------------------------------------------------------------------------
(* The branches and loops: what is left to do when the next symbol is s. *)

Optional(s, what) == IF s = what[1] THEN what ELSE <<>>

MoreIdentifiers(s) == Optional(s, <<"namespace_sep", "identifier", "more_identifiers">>)
Array(s) == Optional(s, <<"bracket_open", "integer", "bracket_close">>)
EncodingId(s) == Optional(s, <<"colon", "identifier">>)
Namespace(s) == Optional(s, <<"namespace_kw", "qualified_identifier">>)
Includes(s) == IF s = "include_kw" THEN <<"include", "includes">> ELSE <<>>

Declarations(s) ==
  CASE s = "struct_kw" -> <<"struct", "declarations">>
    [] s = "mapping_kw" -> <<"mapping", "declarations">>
    [] s = "encoding_kw" -> <<"encoding", "declarations">>
    [] s = "eof" -> <<>>
    [] OTHER -> <<"unexpected">>

\* A loop up to the closing bracket.
Loop(s, call, loop) == IF s = "curly_close" THEN <<>> ELSE <<call, loop>>

\* Mutant: what is neither is left to the loop around the call.
EncodingNodeLenient(s) ==
  CASE s = "delta_kw" -> <<"encoding_delta_block">>
    [] s = "identifier" -> <<"encoding_field">>
    [] OTHER -> <<>>

EncodingNode(s) ==
  CASE s = "delta_kw" -> <<"encoding_delta_block">>
    [] s = "identifier" -> <<"encoding_field">>
    [] OTHER -> <<"unexpected">>

DeltaFields(s) ==
  CASE s = "identifier" -> <<"encoding_node">>
    [] s = "curly_open" -> <<"curly_open", "encoding_nodes", "curly_close">>
    [] OTHER -> <<"unexpected">>

Branch(item, s) ==
  CASE item = "includes" -> Includes(s)
    [] item = "namespace" -> Namespace(s)
    [] item = "declarations" -> Declarations(s)
    [] item = "more_identifiers" -> MoreIdentifiers(s)
    [] item = "array" -> Array(s)
    [] item = "encoding_id" -> EncodingId(s)
    [] item = "encoding_node" -> EncodingNode(s)
    [] item = "delta_fields" -> DeltaFields(s)
    [] item = "struct_fields" -> Loop(s, "struct_field", item)
    [] item = "mapping_fields" -> Loop(s, "mapping_field", item)
    [] item = "encoding_nodes" -> Loop(s, "encoding_node", item)

Branches ==
  {"includes", "namespace", "declarations", "more_identifiers", "array",
   "struct_fields", "mapping_fields", "encoding_nodes", "encoding_id",
   "encoding_node", "delta_fields"}

--------------------------------------------------------------------------------
(* The machine. *)

ParserInit ==
  /\ todo = <<"document">> /\ next_symbol = "invalid" /\ outcome = "parsing"
  /\ open = <<>> /\ nodes = <<>> /\ consumed = <<>>

\* What peek_symbol may return.
Peeked ==
  IF next_symbol # "invalid" THEN {next_symbol}
  ELSE IF Len(consumed) = MaxSymbols THEN {"eof"} ELSE Symbols

\* A function that returns a node is called.
CallNode ==
  /\ outcome = "parsing" /\ todo # <<>> /\ Head(todo) \in DOMAIN Node
  /\ open' = Append(open, [kind |-> Head(todo), before |-> Len(consumed),
                           skipped |-> next_symbol # "invalid"])
  /\ todo' = Node[Head(todo)] \o Tail(todo)
  /\ UNCHANGED <<next_symbol, nodes, outcome, consumed>>

CallValue ==
  /\ outcome = "parsing" /\ todo # <<>> /\ Head(todo) \in DOMAIN Value
  /\ todo' = Value[Head(todo)] \o Tail(todo)
  /\ UNCHANGED <<next_symbol, open, nodes, outcome, consumed>>

Look ==
  /\ outcome = "parsing" /\ todo # <<>> /\ Head(todo) \in Branches
  /\ \E s \in Peeked :
       /\ next_symbol' = s
       /\ todo' = Branch(Head(todo), s) \o Tail(todo)
  /\ UNCHANGED <<open, nodes, outcome, consumed>>

\* parse_symbol, parse_identifier, parse_string and parse_integer.
Parse ==
  /\ outcome = "parsing" /\ todo # <<>> /\ Head(todo) \in Symbols
  /\ Head(todo) \in Peeked
  /\ consumed' = Append(consumed, Head(todo))
  /\ next_symbol' = "invalid" /\ todo' = Tail(todo)
  /\ UNCHANGED <<open, nodes, outcome>>

\* unexpected, from expect or from a switch.
Unexpected ==
  /\ outcome = "parsing" /\ todo # <<>> /\ Head(todo) \in Symbols \cup {"unexpected"}
  /\ \E s \in Peeked \ {Head(todo)} : next_symbol' = s
  /\ outcome' = "exception"
  /\ UNCHANGED <<todo, open, nodes, consumed>>

\* The innermost function returns its node; after parse_document, parse does.
Return ==
  /\ outcome = "parsing" /\ todo # <<>> /\ Head(todo) = "return"
  /\ nodes' = Append(nodes, [node |-> open[Len(open)], after |-> Len(consumed)])
  /\ open' = SubSeq(open, 1, Len(open) - 1) /\ todo' = Tail(todo)
  /\ outcome' = IF Tail(todo) = <<>> THEN "document" ELSE "parsing"
  /\ UNCHANGED <<next_symbol, consumed>>

ParserNext == CallNode \/ CallValue \/ Look \/ Parse \/ Unexpected \/ Return

ParserSpec == ParserInit /\ [][ParserNext]_parserVars /\ WF_parserVars(ParserNext)

--------------------------------------------------------------------------------
\* The origin of every node but the root is the position of its first symbol:
\* current_position() is that only when the caller has already peeked, and so
\* skipped the whitespace before the symbol.
OriginsExact == \A k \in DOMAIN open : open[k].kind # "document" => open[k].skipped

\* Parsing a finite document ends: no loop goes round without taking a symbol.
Terminates == <>(outcome # "parsing")
================================================================================
