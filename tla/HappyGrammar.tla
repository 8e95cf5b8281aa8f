----------------------------- MODULE HappyGrammar -----------------------------
(***************************************************************************)
(* The grammar of Happy's documents, against which HappyParser is checked: *)
(* the phrases of every kind, as sets of sequences of symbols, without a   *)
(* stack and without lookahead.                                            *)
(***************************************************************************)
EXTENDS HappyParser

CONSTANT MaxPhrase       \* bound: symbols of a phrase

\* Five symbols complete a beginning, or half as many as it has: a block that
\* two symbols have opened wants one to close it.
ASSUME GrammarAssumption ==
  MaxPhrase \in Nat /\ MaxPhrase >= MaxSymbols + 5 /\ 2 * MaxPhrase >= 3 * MaxSymbols

Fitting(W, n) == {w \in W : Len(w) <= n}
Opt(W) == {<<>>} \cup W

\* A phrase of V and then one of W, n symbols at most.
Cat(V, W, n) ==
  LET Pairs(k) == {v \in V : Len(v) = k} \X Fitting(W, n - k)
  IN UNION {{p[1] \o p[2] : p \in Pairs(k)} : k \in 0 .. n}

\* Phrases of W, none of them empty, one after the other: n symbols at most.
Many(W, n) ==
  LET many[k \in 0 .. n] == {<<>>} \cup IF k = 0 THEN {} ELSE Cat(W, many[k - 1], n)
  IN many[n]

\* A block of phrases of W.
Block(W, n) ==
  {<<"curly_open">> \o w \o <<"curly_close">> : w \in IF n < 2 THEN {} ELSE Many(W, n - 2)}

EncodingFields == {<<"identifier">>, <<"identifier", "colon", "identifier">>}

\* DELTA applies to one field, or to a block with fields and DELTAs again.
DeltaBlocks[n \in 0 .. MaxPhrase] ==
  IF n = 0 THEN {}
  ELSE Cat({<<"delta_kw">>},
           EncodingFields \cup Block(EncodingFields \cup DeltaBlocks[n - 1], n - 1), n)

Then(V, W) == Cat(V, W, MaxPhrase)

QualifiedIds == Then({<<"identifier">>}, Many({<<"namespace_sep", "identifier">>}, MaxPhrase))
Types == Then(QualifiedIds, Opt({<<"bracket_open", "integer", "bracket_close">>}))
StructFields == Then({<<"identifier", "colon">>}, Types)
MappingFields == {<<"identifier", "colon", "string">>}
EncodingNodes == EncodingFields \cup DeltaBlocks[MaxPhrase - 4]

IncludePhrases == {<<"include_kw", "string">>}
Namespaces == Then({<<"namespace_kw">>}, QualifiedIds)
Structs == Then({<<"struct_kw", "identifier">>}, Block(StructFields, MaxPhrase - 2))
Mappings ==
  Then({<<"mapping_kw", "identifier", "colon">>},
       Then(QualifiedIds, Block(MappingFields, MaxPhrase - 2)))
Encodings ==
  Then({<<"encoding_kw">>}, Then(EncodingFields, Block(EncodingNodes, MaxPhrase - 2)))
Documents ==
  Then(Many(IncludePhrases, MaxPhrase),
       Then(Opt(Namespaces), Many(Structs \cup Mappings \cup Encodings, MaxPhrase)))

Phrases ==
  [document |-> Documents, include |-> IncludePhrases,
   struct |-> Structs, struct_field |-> StructFields,
   mapping |-> Mappings, mapping_field |-> MappingFields,
   encoding |-> Encodings, encoding_field |-> EncodingFields,
   encoding_delta_block |-> DeltaBlocks[MaxPhrase - 4]]

\* The beginnings of documents, with the eof.
Beginnings ==
  LET Ended(d) == Append(d, "eof")
  IN UNION {{SubSeq(Ended(d), 1, n) : n \in 0 .. Len(d) + 1} : d \in Documents}

--------------------------------------------------------------------------------

\* What a function has taken from the document when it returns its node is a
\* phrase of the node's kind, no symbol more and none less; so a document for
\* which parse returns a tree is one of the grammar, read to its end.
NodesArePhrases ==
  /\ \A k \in DOMAIN nodes :
       SubSeq(consumed, nodes[k].node.before + 1, nodes[k].after)
         \in Phrases[nodes[k].node.kind]
  /\ outcome = "document" =>
       /\ next_symbol = "eof"
       /\ consumed = SubSeq(consumed, nodes[Len(nodes)].node.before + 1, nodes[Len(nodes)].after)

\* A ParseException is deserved, and comes at the first symbol that deserves
\* it: with one symbol of lookahead the branches give up no document of the
\* grammar, and every symbol accepted so far could still have led to one.
RejectsEarly ==
  outcome = "exception" =>
    /\ Append(consumed, next_symbol) \notin Beginnings
    /\ consumed \in Beginnings
================================================================================
