---------------------------- MODULE HappyTreeProofs ----------------------------
(***************************************************************************)
(* The nodes of the tree that Happy's parser makes are phrases of the      *)
(* grammar, for documents of any length.                                   *)
(*                                                                         *)
(* Every "return" of the stack belongs to an open node. Opens(x, t) pairs  *)
(* the open nodes with what the innermost one still wants; a node that has *)
(* been opened inside another is, with what comes after it, what the outer *)
(* one wanted (Nested). Shaped says that the symbols the innermost node    *)
(* has taken, with what it still wants, are a phrase of its kind. When it  *)
(* returns it wants nothing any more, so what it has taken is a phrase.    *)
(*                                                                         *)
(* There is one exception: parse_encoding_delta_block finds its field      *)
(* through parse_encoding_node, which could also return another DELTA      *)
(* block, but is only called when an identifier comes next (Seen).         *)
(*                                                                         *)
(* The document itself is only accepted when the last loop has found the   *)
(* end of the file (Ends, Bottom).                                         *)
(***************************************************************************)
EXTENDS HappyRejectionProofs

--------------------------------------------------------------------------------
(* The open nodes of a stack, after the symbols x, and the language of what  *)
(* the innermost one still wants.                                            *)

OpenNodes == [kind : DOMAIN Node, before : Nat, skipped : BOOLEAN]
Values == Seq(OpenNodes) \X (SUBSET Words)

\* A phrase of a node n, and then a word of A, is what the node around it wants.
Nested(x, o, A, n) ==
  /\ n.before <= Len(x)
  /\ IF o = <<>> THEN n.before = 0
     ELSE /\ o[Len(o)].before <= n.before
          /\ \A w \in Put(n.kind, A) :
               SubSeq(x, o[Len(o)].before + 1, n.before) \o w \in Lang(o[Len(o)].kind)

OpenRule(x) ==
  {r \in Items \X Values \X Values :
     IF r[1] = "return"
     THEN \E n \in OpenNodes :
            /\ r[3][1] = Append(r[2][1], n) /\ r[3][2] = {<<>>}
            /\ Nested(x, r[2][1], r[2][2], n)
     ELSE r[3][1] = r[2][1] /\ r[3][2] = Put(r[1], r[2][2])}

Opens(x, t) == Runs(Values, {<< <<>>, {<<>>} >>}, OpenRule(x), t)

\* No node is open, and nothing is left.
LEMMA OpenBase == {<< <<>>, {<<>>} >>} \in SUBSET Values
<1>1. <<>> \in Seq(OpenNodes)
  OBVIOUS
<1>2. {<<>>} \in SUBSET Words
  BY WordEmpty
<1>3. << <<>>, {<<>>} >> \in Values
  BY <1>1, <1>2 DEF Values
<1> QED
  BY <1>3

\* The types of Opens.
LEMMA OpensType ==
  ASSUME NEW x, NEW t, NEW o, NEW A, <<o, A>> \in Opens(x, t)
  PROVE  o \in Seq(OpenNodes) /\ A \in SUBSET Words
<1>1. <<o, A>> \in Values
  BY RunsVals DEF Opens
<1> QED
  BY <1>1 DEF Values

\* The empty stack has no open node.
LEMMA OpensEmpty ==
  ASSUME NEW x
  PROVE  << <<>>, {<<>>} >> \in Opens(x, <<>>) /\ \A v \in Opens(x, <<>>) : v = << <<>>, {<<>>} >>
  BY OpenBase, RunsBase, RunsInvert DEF Opens

\* An item that is no return belongs to the innermost open node.
LEMMA OpensCons ==
  ASSUME NEW x, NEW t \in Stacks, NEW i \in Items, i # "return", NEW o, NEW A, <<o, A>> \in Opens(x, t)
  PROVE  <<o, Put(i, A)>> \in Opens(x, <<i>> \o t) /\ <<i>> \o t \in Stacks
<1>1. o \in Seq(OpenNodes) /\ A \in SUBSET Words /\ Put(i, A) \in SUBSET Words
  BY OpensType, PutWords
<1> DEFINE u == <<o, A>>
           v == <<o, Put(i, A)>>
<1>2. u \in Values /\ v \in Values /\ u[1] = o /\ u[2] = A /\ v[1] = o /\ v[2] = Put(i, A)
  BY <1>1 DEF Values
<1>3. u \in Opens(x, t)
  OBVIOUS
<1> HIDE DEF u, v
<1>4. <<i, u, v>> \in OpenRule(x)
  BY <1>2 DEF OpenRule
<1>5. v \in Opens(x, <<i>> \o t)
  BY <1>2, <1>3, <1>4, RunsCons DEF Opens
<1> QED
  BY <1>5, StackCons DEF v

\* A return ends the innermost open node.
LEMMA OpensNode ==
  ASSUME NEW x, NEW t \in Stacks, NEW n \in OpenNodes, NEW o, NEW A, <<o, A>> \in Opens(x, t), Nested(x, o, A, n)
  PROVE  <<Append(o, n), {<<>>}>> \in Opens(x, <<"return">> \o t) /\ <<"return">> \o t \in Stacks
<1>1. o \in Seq(OpenNodes) /\ A \in SUBSET Words
  BY OpensType
<1>a. Append(o, n) \in Seq(OpenNodes) /\ {<<>>} \in SUBSET Words /\ "return" \in Items
  BY <1>1, WordEmpty, ItemsAre
<1> DEFINE u == <<o, A>>
           v == <<Append(o, n), {<<>>}>>
<1>2. u \in Values /\ v \in Values /\ u[1] = o /\ u[2] = A /\ v[1] = Append(o, n) /\ v[2] = {<<>>}
  BY <1>1, <1>a DEF Values
<1>3. u \in Opens(x, t)
  OBVIOUS
<1> HIDE DEF u, v
<1>4. <<"return", u, v>> \in OpenRule(x)
  BY <1>a, <1>2 DEF OpenRule
<1>5. v \in Opens(x, <<"return">> \o t)
  BY <1>a, <1>2, <1>3, <1>4, RunsCons DEF Opens
<1> QED
  BY <1>a, <1>5, StackCons DEF v

\* Opens has nothing else.
LEMMA OpensInvert ==
  ASSUME NEW x, NEW t \in Stacks, NEW i \in Items, NEW o, NEW A, <<o, A>> \in Opens(x, <<i>> \o t)
  PROVE  IF i = "return"
         THEN \E p : \E B : \E n \in OpenNodes :
                <<p, B>> \in Opens(x, t) /\ o = Append(p, n) /\ A = {<<>>} /\ Nested(x, p, B, n)
         ELSE \E B : <<o, B>> \in Opens(x, t) /\ A = Put(i, B)
<1> DEFINE v == <<o, A>>
<1>1. v \in Opens(x, <<i>> \o t) /\ v[1] = o /\ v[2] = A
  OBVIOUS
<1> HIDE DEF v
<1>2. PICK u \in Opens(x, t) : <<i, u, v>> \in OpenRule(x)
  BY <1>1, OpenBase, RunsInvert DEF Opens
<1>3. u \in Values
  BY RunsVals DEF Opens
<1>4. u = <<u[1], u[2]>>
  BY <1>3 DEF Values
<1>5. IF i = "return"
      THEN \E n \in OpenNodes : o = Append(u[1], n) /\ A = {<<>>} /\ Nested(x, u[1], u[2], n)
      ELSE o = u[1] /\ A = Put(i, u[2])
  BY <1>1, <1>2 DEF OpenRule
<1>6. <<u[1], u[2]>> \in Opens(x, t)
  BY <1>4
<1> QED
  BY Zenon, <1>5, <1>6

\* One more symbol does not change what was taken before a node began.
LEMMA NestedMore ==
  ASSUME NEW x \in Words, NEW i \in Terminals, NEW o \in Seq(OpenNodes), NEW A, NEW n \in OpenNodes, Nested(x, o, A, n)
  PROVE  Nested(Append(x, i), o, A, n)
<1>0. n.before \in Nat /\ n.before <= Len(x) /\ Len(Append(x, i)) = Len(x) + 1 /\ Len(x) \in Nat
  BY RestAppend, WordLen DEF Nested, OpenNodes
<1>1. CASE o = <<>>
  BY <1>0, <1>1 DEF Nested
<1>2. CASE o # <<>>
  <2> DEFINE b == o[Len(o)].before
  <2>1. b \in Nat
    <3>1. o[Len(o)] \in OpenNodes
      BY <1>2
    <3> QED
      BY <3>1 DEF OpenNodes
  <2>2. SubSeq(Append(x, i), b + 1, n.before) = SubSeq(x, b + 1, n.before)
    <3> HIDE DEF b
    <3> QED
      BY <1>0, <2>1 DEF Words
  <2>3. n.before <= Len(Append(x, i))
    BY <1>0
  <2> QED
    BY <1>2, <2>2, <2>3 DEF Nested
<1> QED
  BY <1>1, <1>2

\* The symbols that come later change nothing in what is below.
LEMMA OpensMore ==
  ASSUME NEW x \in Words, NEW i \in Terminals, NEW t \in Stacks
  PROVE  Opens(x, t) \subseteq Opens(Append(x, i), t)
<1>1. OpenRule(x) \subseteq OpenRule(Append(x, i))
  <2> SUFFICES ASSUME NEW r \in OpenRule(x) PROVE r \in OpenRule(Append(x, i))
    OBVIOUS
  <2>1. r \in Items \X Values \X Values /\ r[2][1] \in Seq(OpenNodes)
    BY DEF OpenRule, Values
  <2> QED
    BY <2>1, NestedMore DEF OpenRule
<1> QED
  BY <1>1 DEF Opens, Runs, Closed

\* As long as the stack ends with a return there is an open node.
LEMMA OpensLast ==
  ASSUME NEW x, NEW t \in Stacks, t # <<>>, t[Len(t)] = "return", NEW o, NEW A, <<o, A>> \in Opens(x, t)
  PROVE  o # <<>>
<1> DEFINE Good(u, v) == u # <<>> /\ u[Len(u)] = "return" => v[1] # <<>>
           S == [u \in Stacks |-> {v \in Values : Good(u, v)}]
<1>1. ASSUME NEW u \in Stacks, NEW i \in Items, NEW v \in Values, NEW w \in Values, Good(u, v),
             <<i, v, w>> \in OpenRule(x)
      PROVE  Good(<<i>> \o u, w)
  <2>1. v[1] \in Seq(OpenNodes)
    BY DEF Values
  <2>2. i = "return" => w[1] # <<>>
    <3> SUFFICES ASSUME i = "return" PROVE w[1] # <<>>
      OBVIOUS
    <3>1. PICK n \in OpenNodes : w[1] = Append(v[1], n)
      BY <1>1 DEF OpenRule
    <3> QED
      BY <2>1, <3>1
  <2>3. i # "return" => w[1] = v[1]
    BY <1>1 DEF OpenRule
  <2>4. u = <<>> => (<<i>> \o u)[Len(<<i>> \o u)] = i
    OBVIOUS
  <2>5. u # <<>> => (<<i>> \o u)[Len(<<i>> \o u)] = u[Len(u)]
    BY DEF Stacks
  <2> QED
    BY <1>1, <2>2, <2>3, <2>4, <2>5
<1>2. Good(<<>>, << <<>>, {<<>>} >>)
  OBVIOUS
<1> HIDE DEF Good
<1>3. S \in [Stacks -> SUBSET Values]
  OBVIOUS
<1>4. Closed(S, Values, {<< <<>>, {<<>>} >>}, OpenRule(x))
  <2>1. {<< <<>>, {<<>>} >>} \subseteq S[<<>>]
    <3>1. <<>> \in Stacks
      BY DEF Stacks
    <3> QED
      BY <1>2, <3>1, OpenBase
  <2>2. ASSUME NEW u \in Stacks, NEW i \in Items, NEW v \in S[u], NEW w \in Values, <<i, v, w>> \in OpenRule(x)
        PROVE  w \in S[<<i>> \o u]
    <3>1. v \in Values /\ Good(u, v)
      OBVIOUS
    <3>2. Good(<<i>> \o u, w)
      BY <1>1, <2>2, <3>1
    <3> QED
      BY <3>2, StackCons
  <2> HIDE DEF S
  <2> QED
    BY <2>1, <2>2 DEF Closed
<1>5. <<o, A>> \in S[t]
  <2> HIDE DEF S
  <2> QED
    BY <1>3, <1>4, RunsInduction DEF Opens
<1>6. Good(t, <<o, A>>)
  BY <1>5
<1> QED
  BY <1>6 DEF Good

\* The body of a function that returns a node has the language of the node.
LEMMA OpensBody ==
  ASSUME NEW x, NEW t \in Stacks, NEW k \in DOMAIN Node, NEW o, NEW A, <<o, A>> \in Opens(x, <<"return">> \o t)
  PROVE  <<o, Put(k, A)>> \in Opens(x, Node[k] \o t)
<1>a. A \in SUBSET Words
  BY OpensType
<1>c. \A i \in Items \ {"return"} : \A v \in Stacks : \A B :
        <<o, B>> \in Opens(x, v) => <<o, Put(i, B)>> \in Opens(x, <<i>> \o v) /\ <<i>> \o v \in Stacks
  BY OpensCons
<1> DEFINE r == <<"return">> \o t
<1>r. <<o, A>> \in Opens(x, r) /\ r \in Stacks
  BY StackCons, ItemsAre
<1> HIDE DEF r
<1>2. CASE k = "include"
  <2>i. "include_kw" \in Items /\ "string" \in Items
    BY Lexemes, ItemsAre
  <2> DEFINE v0 == <<"include_kw">> \o (<<"string">> \o r)
             B0 == Put("include_kw", Put("string", A))
  <2>c0. <<o, B0>> \in Opens(x, v0) /\ v0 \in Stacks
    BY <1>r, <2>i, <1>c
  <2> HIDE DEF v0, B0
  <2>1. Node[k] \o t = v0
    BY <1>2, Bodies DEF v0, r
  <2>2. Put(k, A) = B0
    BY <1>a, <1>2, PutNode DEF B0
  <2> QED
    BY Zenon, <2>c0, <2>1, <2>2
<1>3. CASE k = "struct"
  <2>i. "struct_kw" \in Items /\ "identifier" \in Items /\ "curly_open" \in Items /\ "struct_fields" \in Items /\ "curly_close" \in Items
    BY Lexemes, ItemsAre
  <2> DEFINE v0 == <<"struct_kw">> \o (<<"identifier">> \o (<<"curly_open">> \o (<<"struct_fields">> \o (<<"curly_close">> \o r))))
             B0 == Put("struct_kw", Put("identifier", Put("curly_open", Put("struct_fields", Put("curly_close", A)))))
  <2>c0. <<o, B0>> \in Opens(x, v0) /\ v0 \in Stacks
    BY <1>r, <2>i, <1>c
  <2> HIDE DEF v0, B0
  <2>1. Node[k] \o t = v0
    BY <1>3, Bodies DEF v0, r
  <2>2. Put(k, A) = B0
    BY <1>a, <1>3, PutNode DEF B0
  <2> QED
    BY Zenon, <2>c0, <2>1, <2>2
<1>4. CASE k = "struct_field"
  <2>i. "identifier" \in Items /\ "colon" \in Items /\ "type" \in Items
    BY Lexemes, ItemsAre
  <2> DEFINE v0 == <<"identifier">> \o (<<"colon">> \o (<<"type">> \o r))
             B0 == Put("identifier", Put("colon", Put("type", A)))
  <2>c0. <<o, B0>> \in Opens(x, v0) /\ v0 \in Stacks
    BY <1>r, <2>i, <1>c
  <2> HIDE DEF v0, B0
  <2>1. Node[k] \o t = v0
    BY <1>4, Bodies DEF v0, r
  <2>2. Put(k, A) = B0
    BY <1>a, <1>4, PutNode DEF B0
  <2> QED
    BY Zenon, <2>c0, <2>1, <2>2
<1>5. CASE k = "mapping"
  <2>i. "mapping_kw" \in Items /\ "identifier" \in Items /\ "colon" \in Items /\ "qualified_identifier" \in Items /\ "curly_open" \in Items /\ "mapping_fields" \in Items /\ "curly_close" \in Items
    BY Lexemes, ItemsAre
  <2> DEFINE v0 == <<"mapping_kw">> \o (<<"identifier">> \o (<<"colon">> \o (<<"qualified_identifier">> \o (<<"curly_open">> \o (<<"mapping_fields">> \o (<<"curly_close">> \o r))))))
             B0 == Put("mapping_kw", Put("identifier", Put("colon", Put("qualified_identifier", Put("curly_open", Put("mapping_fields", Put("curly_close", A)))))))
  <2>c0. <<o, B0>> \in Opens(x, v0) /\ v0 \in Stacks
    BY <1>r, <2>i, <1>c
  <2> HIDE DEF v0, B0
  <2>1. Node[k] \o t = v0
    BY <1>5, Bodies DEF v0, r
  <2>2. Put(k, A) = B0
    BY <1>a, <1>5, PutNode DEF B0
  <2> QED
    BY Zenon, <2>c0, <2>1, <2>2
<1>6. CASE k = "mapping_field"
  <2>i. "identifier" \in Items /\ "colon" \in Items /\ "string" \in Items
    BY Lexemes, ItemsAre
  <2> DEFINE v0 == <<"identifier">> \o (<<"colon">> \o (<<"string">> \o r))
             B0 == Put("identifier", Put("colon", Put("string", A)))
  <2>c0. <<o, B0>> \in Opens(x, v0) /\ v0 \in Stacks
    BY <1>r, <2>i, <1>c
  <2> HIDE DEF v0, B0
  <2>1. Node[k] \o t = v0
    BY <1>6, Bodies DEF v0, r
  <2>2. Put(k, A) = B0
    BY <1>a, <1>6, PutNode DEF B0
  <2> QED
    BY Zenon, <2>c0, <2>1, <2>2
<1>7. CASE k = "encoding"
  <2>i. "encoding_kw" \in Items /\ "identifier" \in Items /\ "encoding_id" \in Items /\ "curly_open" \in Items /\ "encoding_nodes" \in Items /\ "curly_close" \in Items
    BY Lexemes, ItemsAre
  <2> DEFINE v0 == <<"encoding_kw">> \o (<<"identifier">> \o (<<"encoding_id">> \o (<<"curly_open">> \o (<<"encoding_nodes">> \o (<<"curly_close">> \o r)))))
             B0 == Put("encoding_kw", Put("identifier", Put("encoding_id", Put("curly_open", Put("encoding_nodes", Put("curly_close", A))))))
  <2>c0. <<o, B0>> \in Opens(x, v0) /\ v0 \in Stacks
    BY <1>r, <2>i, <1>c
  <2> HIDE DEF v0, B0
  <2>1. Node[k] \o t = v0
    BY <1>7, Bodies DEF v0, r
  <2>2. Put(k, A) = B0
    BY <1>a, <1>7, PutNode DEF B0
  <2> QED
    BY Zenon, <2>c0, <2>1, <2>2
<1>8. CASE k = "encoding_field"
  <2>i. "identifier" \in Items /\ "encoding_id" \in Items
    BY Lexemes, ItemsAre
  <2> DEFINE v0 == <<"identifier">> \o (<<"encoding_id">> \o r)
             B0 == Put("identifier", Put("encoding_id", A))
  <2>c0. <<o, B0>> \in Opens(x, v0) /\ v0 \in Stacks
    BY <1>r, <2>i, <1>c
  <2> HIDE DEF v0, B0
  <2>1. Node[k] \o t = v0
    BY <1>8, Bodies DEF v0, r
  <2>2. Put(k, A) = B0
    BY <1>a, <1>8, PutNode DEF B0
  <2> QED
    BY Zenon, <2>c0, <2>1, <2>2
<1>9. CASE k = "encoding_delta_block"
  <2>i. "delta_kw" \in Items /\ "delta_fields" \in Items
    BY Lexemes, ItemsAre
  <2> DEFINE v0 == <<"delta_kw">> \o (<<"delta_fields">> \o r)
             B0 == Put("delta_kw", Put("delta_fields", A))
  <2>c0. <<o, B0>> \in Opens(x, v0) /\ v0 \in Stacks
    BY <1>r, <2>i, <1>c
  <2> HIDE DEF v0, B0
  <2>1. Node[k] \o t = v0
    BY <1>9, Bodies DEF v0, r
  <2>2. Put(k, A) = B0
    BY <1>a, <1>9, PutNode DEF B0
  <2> QED
    BY Zenon, <2>c0, <2>1, <2>2
<1>10. CASE k = "document"
  <2>i. "includes" \in Items /\ "namespace" \in Items /\ "declarations" \in Items
    BY Lexemes, ItemsAre
  <2> DEFINE v0 == <<"includes">> \o (<<"namespace">> \o (<<"declarations">> \o r))
             B0 == Put("includes", Put("namespace", Put("declarations", A)))
  <2>c0. <<o, B0>> \in Opens(x, v0) /\ v0 \in Stacks
    BY <1>r, <2>i, <1>c
  <2> HIDE DEF v0, B0
  <2>1. Node[k] \o t = v0
    BY <1>10, Bodies DEF v0, r
  <2>2. Put(k, A) = B0
    BY <1>a, <1>10, PutNode DEF B0
  <2> QED
    BY Zenon, <2>c0, <2>1, <2>2
<1> QED
  BY <1>2, <1>3, <1>4, <1>5, <1>6, <1>7, <1>8, <1>9, <1>10, ItemsAre

\* The body of a function that returns a value has its language.
LEMMA OpensValue ==
  ASSUME NEW x, NEW t \in Stacks, NEW k \in DOMAIN Value, NEW o, NEW A, <<o, A>> \in Opens(x, t)
  PROVE  <<o, Put(k, A)>> \in Opens(x, Value[k] \o t)
<1>a. A \in SUBSET Words
  BY OpensType
<1>c. \A i \in Items \ {"return"} : \A v \in Stacks : \A B :
        <<o, B>> \in Opens(x, v) => <<o, Put(i, B)>> \in Opens(x, <<i>> \o v) /\ <<i>> \o v \in Stacks
  BY OpensCons
<1>r. <<o, A>> \in Opens(x, t) /\ t \in Stacks
  OBVIOUS
<1>2. CASE k = "qualified_identifier"
  <2>i. "identifier" \in Items /\ "more_identifiers" \in Items
    BY Lexemes, ItemsAre
  <2> DEFINE v0 == <<"identifier">> \o (<<"more_identifiers">> \o t)
             B0 == Put("identifier", Put("more_identifiers", A))
  <2>c0. <<o, B0>> \in Opens(x, v0) /\ v0 \in Stacks
    BY <1>r, <2>i, <1>c
  <2> HIDE DEF v0, B0
  <2>1. Value[k] \o t = v0
    BY <1>2, Bodies DEF v0
  <2>2. Put(k, A) = B0
    BY <1>a, <1>2, PutNode DEF B0
  <2> QED
    BY Zenon, <2>c0, <2>1, <2>2
<1>3. CASE k = "type"
  <2>i. "qualified_identifier" \in Items /\ "array" \in Items
    BY Lexemes, ItemsAre
  <2> DEFINE v0 == <<"qualified_identifier">> \o (<<"array">> \o t)
             B0 == Put("qualified_identifier", Put("array", A))
  <2>c0. <<o, B0>> \in Opens(x, v0) /\ v0 \in Stacks
    BY <1>r, <2>i, <1>c
  <2> HIDE DEF v0, B0
  <2>1. Value[k] \o t = v0
    BY <1>3, Bodies DEF v0
  <2>2. Put(k, A) = B0
    BY <1>a, <1>3, PutNode DEF B0
  <2> QED
    BY Zenon, <2>c0, <2>1, <2>2
<1> QED
  BY <1>2, <1>3, ItemsAre

\* A branch or a loop leaves phrases of the language it stands for; only the
\* field of a DELTA is found through parse_encoding_node.
LEMMA OpensLook ==
  ASSUME NEW x, NEW t \in Stacks, NEW i \in Branches, NEW s \in Symbols, NEW o, NEW A, <<o, A>> \in Opens(x, t)
  PROVE  \E B : B \subseteq Put(i, A) /\
           (\/ <<o, B>> \in Opens(x, Branch(i, s) \o t)
            \/ /\ s = "identifier" /\ Branch(i, s) = <<"encoding_node">>
               /\ <<o, B>> \in Opens(x, <<"encoding_field">> \o t))
<1>a. A \in SUBSET Words
  BY OpensType
<1>c. \A j \in Items \ {"return"} : \A v \in Stacks : \A B :
        <<o, B>> \in Opens(x, v) => <<o, Put(j, B)>> \in Opens(x, <<j>> \o v) /\ <<j>> \o v \in Stacks
  BY OpensCons
<1>r. <<o, A>> \in Opens(x, t) /\ t \in Stacks
  OBVIOUS
<1>u. ASSUME Branch(i, s) = <<"unexpected">>
      PROVE  \E B : B \subseteq Put(i, A) /\ <<o, B>> \in Opens(x, Branch(i, s) \o t)
  <2>1. <<o, Put("unexpected", A)>> \in Opens(x, <<"unexpected">> \o t)
    BY <1>c, <1>r, ItemsAre
  <2> QED
    BY <1>a, <1>u, <2>1, PutReturn
<1>e. ASSUME Branch(i, s) = <<>>, A \subseteq Put(i, A)
      PROVE  \E B : B \subseteq Put(i, A) /\ <<o, B>> \in Opens(x, Branch(i, s) \o t)
  BY <1>r, <1>e, BranchRows
<1>4. CASE i = "includes"
  <2>1. CASE s = "include_kw"
    <3>i. "include" \in Items /\ "includes" \in Items
      BY Lexemes, ItemsAre
    <3>1. Branch(i, s) = <<"include", "includes">>
      BY <1>4, <2>1, BranchIs
    <3> DEFINE v0 == <<"include">> \o (<<"includes">> \o t)
               B0 == Put("include", Put("includes", A))
    <3>c0. <<o, B0>> \in Opens(x, v0) /\ v0 \in Stacks
      BY <1>r, <3>i, <1>c
    <3> HIDE DEF v0, B0
    <3>2. Branch(i, s) \o t = v0
      BY <3>1, BranchRows DEF v0
    <3>3. B0 \subseteq Put(i, A)
      BY <1>a, <1>4, PutBranch DEF B0
    <3> QED
      BY Zenon, <3>c0, <3>2, <3>3
  <2>2. CASE s # "include_kw"
    <3>1. Branch(i, s) = <<>> /\ A \subseteq Put(i, A)
      BY <1>a, <1>4, <2>2, BranchIs, PutBranch
    <3> QED
      BY <1>e, <3>1
  <2> QED
    BY <2>1, <2>2
<1>5. CASE i = "namespace"
  <2>1. CASE s = "namespace_kw"
    <3>i. "namespace_kw" \in Items /\ "qualified_identifier" \in Items
      BY Lexemes, ItemsAre
    <3>1. Branch(i, s) = <<"namespace_kw", "qualified_identifier">>
      BY <1>5, <2>1, BranchIs
    <3> DEFINE v0 == <<"namespace_kw">> \o (<<"qualified_identifier">> \o t)
               B0 == Put("namespace_kw", Put("qualified_identifier", A))
    <3>c0. <<o, B0>> \in Opens(x, v0) /\ v0 \in Stacks
      BY <1>r, <3>i, <1>c
    <3> HIDE DEF v0, B0
    <3>2. Branch(i, s) \o t = v0
      BY <3>1, BranchRows DEF v0
    <3>3. B0 \subseteq Put(i, A)
      BY <1>a, <1>5, PutBranch DEF B0
    <3> QED
      BY Zenon, <3>c0, <3>2, <3>3
  <2>2. CASE s # "namespace_kw"
    <3>1. Branch(i, s) = <<>> /\ A \subseteq Put(i, A)
      BY <1>a, <1>5, <2>2, BranchIs, PutBranch
    <3> QED
      BY <1>e, <3>1
  <2> QED
    BY <2>1, <2>2
<1>6. CASE i = "declarations"
  <2>1. CASE s = "struct_kw"
    <3>i. "struct" \in Items /\ "declarations" \in Items
      BY Lexemes, ItemsAre
    <3>1. Branch(i, s) = <<"struct", "declarations">>
      BY <1>6, <2>1, BranchIs
    <3> DEFINE v0 == <<"struct">> \o (<<"declarations">> \o t)
               B0 == Put("struct", Put("declarations", A))
    <3>c0. <<o, B0>> \in Opens(x, v0) /\ v0 \in Stacks
      BY <1>r, <3>i, <1>c
    <3> HIDE DEF v0, B0
    <3>2. Branch(i, s) \o t = v0
      BY <3>1, BranchRows DEF v0
    <3>3. B0 \subseteq Put(i, A)
      BY <1>a, <1>6, PutBranch DEF B0
    <3> QED
      BY Zenon, <3>c0, <3>2, <3>3
  <2>2. CASE s = "mapping_kw"
    <3>i. "mapping" \in Items /\ "declarations" \in Items
      BY Lexemes, ItemsAre
    <3>1. Branch(i, s) = <<"mapping", "declarations">>
      BY <1>6, <2>2, BranchIs
    <3> DEFINE v0 == <<"mapping">> \o (<<"declarations">> \o t)
               B0 == Put("mapping", Put("declarations", A))
    <3>c0. <<o, B0>> \in Opens(x, v0) /\ v0 \in Stacks
      BY <1>r, <3>i, <1>c
    <3> HIDE DEF v0, B0
    <3>2. Branch(i, s) \o t = v0
      BY <3>1, BranchRows DEF v0
    <3>3. B0 \subseteq Put(i, A)
      BY <1>a, <1>6, PutBranch DEF B0
    <3> QED
      BY Zenon, <3>c0, <3>2, <3>3
  <2>3. CASE s = "encoding_kw"
    <3>i. "encoding" \in Items /\ "declarations" \in Items
      BY Lexemes, ItemsAre
    <3>1. Branch(i, s) = <<"encoding", "declarations">>
      BY <1>6, <2>3, BranchIs
    <3> DEFINE v0 == <<"encoding">> \o (<<"declarations">> \o t)
               B0 == Put("encoding", Put("declarations", A))
    <3>c0. <<o, B0>> \in Opens(x, v0) /\ v0 \in Stacks
      BY <1>r, <3>i, <1>c
    <3> HIDE DEF v0, B0
    <3>2. Branch(i, s) \o t = v0
      BY <3>1, BranchRows DEF v0
    <3>3. B0 \subseteq Put(i, A)
      BY <1>a, <1>6, PutBranch DEF B0
    <3> QED
      BY Zenon, <3>c0, <3>2, <3>3
  <2>4. CASE s = "eof"
    <3>1. Branch(i, s) = <<>> /\ A \subseteq Put(i, A)
      BY <1>a, <1>6, <2>4, BranchIs, PutBranch
    <3> QED
      BY <1>e, <3>1
  <2>5. CASE s # "struct_kw" /\ s # "mapping_kw" /\ s # "encoding_kw" /\ s # "eof"
    <3>1. Branch(i, s) = <<"unexpected">>
      BY <1>6, <2>5, BranchIs
    <3> QED
      BY <1>u, <3>1
  <2> QED
    BY <2>1, <2>2, <2>3, <2>4, <2>5
<1>7. CASE i = "more_identifiers"
  <2>1. CASE s = "namespace_sep"
    <3>i. "namespace_sep" \in Items /\ "identifier" \in Items /\ "more_identifiers" \in Items
      BY Lexemes, ItemsAre
    <3>1. Branch(i, s) = <<"namespace_sep", "identifier", "more_identifiers">>
      BY <1>7, <2>1, BranchIs
    <3> DEFINE v0 == <<"namespace_sep">> \o (<<"identifier">> \o (<<"more_identifiers">> \o t))
               B0 == Put("namespace_sep", Put("identifier", Put("more_identifiers", A)))
    <3>c0. <<o, B0>> \in Opens(x, v0) /\ v0 \in Stacks
      BY <1>r, <3>i, <1>c
    <3> HIDE DEF v0, B0
    <3>2. Branch(i, s) \o t = v0
      BY <3>1, BranchRows DEF v0
    <3>3. B0 \subseteq Put(i, A)
      BY <1>a, <1>7, PutBranch DEF B0
    <3> QED
      BY Zenon, <3>c0, <3>2, <3>3
  <2>2. CASE s # "namespace_sep"
    <3>1. Branch(i, s) = <<>> /\ A \subseteq Put(i, A)
      BY <1>a, <1>7, <2>2, BranchIs, PutBranch
    <3> QED
      BY <1>e, <3>1
  <2> QED
    BY <2>1, <2>2
<1>8. CASE i = "array"
  <2>1. CASE s = "bracket_open"
    <3>i. "bracket_open" \in Items /\ "integer" \in Items /\ "bracket_close" \in Items
      BY Lexemes, ItemsAre
    <3>1. Branch(i, s) = <<"bracket_open", "integer", "bracket_close">>
      BY <1>8, <2>1, BranchIs
    <3> DEFINE v0 == <<"bracket_open">> \o (<<"integer">> \o (<<"bracket_close">> \o t))
               B0 == Put("bracket_open", Put("integer", Put("bracket_close", A)))
    <3>c0. <<o, B0>> \in Opens(x, v0) /\ v0 \in Stacks
      BY <1>r, <3>i, <1>c
    <3> HIDE DEF v0, B0
    <3>2. Branch(i, s) \o t = v0
      BY <3>1, BranchRows DEF v0
    <3>3. B0 \subseteq Put(i, A)
      BY <1>a, <1>8, PutBranch DEF B0
    <3> QED
      BY Zenon, <3>c0, <3>2, <3>3
  <2>2. CASE s # "bracket_open"
    <3>1. Branch(i, s) = <<>> /\ A \subseteq Put(i, A)
      BY <1>a, <1>8, <2>2, BranchIs, PutBranch
    <3> QED
      BY <1>e, <3>1
  <2> QED
    BY <2>1, <2>2
<1>9. CASE i = "encoding_id"
  <2>1. CASE s = "colon"
    <3>i. "colon" \in Items /\ "identifier" \in Items
      BY Lexemes, ItemsAre
    <3>1. Branch(i, s) = <<"colon", "identifier">>
      BY <1>9, <2>1, BranchIs
    <3> DEFINE v0 == <<"colon">> \o (<<"identifier">> \o t)
               B0 == Put("colon", Put("identifier", A))
    <3>c0. <<o, B0>> \in Opens(x, v0) /\ v0 \in Stacks
      BY <1>r, <3>i, <1>c
    <3> HIDE DEF v0, B0
    <3>2. Branch(i, s) \o t = v0
      BY <3>1, BranchRows DEF v0
    <3>3. B0 \subseteq Put(i, A)
      BY <1>a, <1>9, PutBranch DEF B0
    <3> QED
      BY Zenon, <3>c0, <3>2, <3>3
  <2>2. CASE s # "colon"
    <3>1. Branch(i, s) = <<>> /\ A \subseteq Put(i, A)
      BY <1>a, <1>9, <2>2, BranchIs, PutBranch
    <3> QED
      BY <1>e, <3>1
  <2> QED
    BY <2>1, <2>2
<1>10. CASE i = "encoding_node"
  <2>1. CASE s = "delta_kw"
    <3>i. "encoding_delta_block" \in Items
      BY Lexemes, ItemsAre
    <3>1. Branch(i, s) = <<"encoding_delta_block">>
      BY <1>10, <2>1, BranchIs
    <3> DEFINE v0 == <<"encoding_delta_block">> \o t
               B0 == Put("encoding_delta_block", A)
    <3>c0. <<o, B0>> \in Opens(x, v0) /\ v0 \in Stacks
      BY <1>r, <3>i, <1>c
    <3> HIDE DEF v0, B0
    <3>2. Branch(i, s) \o t = v0
      BY <3>1, BranchRows DEF v0
    <3>3. B0 \subseteq Put(i, A)
      BY <1>a, <1>10, PutBranch DEF B0
    <3> QED
      BY Zenon, <3>c0, <3>2, <3>3
  <2>2. CASE s = "identifier"
    <3>i. "encoding_field" \in Items
      BY Lexemes, ItemsAre
    <3>1. Branch(i, s) = <<"encoding_field">>
      BY <1>10, <2>2, BranchIs
    <3> DEFINE v0 == <<"encoding_field">> \o t
               B0 == Put("encoding_field", A)
    <3>c0. <<o, B0>> \in Opens(x, v0) /\ v0 \in Stacks
      BY <1>r, <3>i, <1>c
    <3> HIDE DEF v0, B0
    <3>2. Branch(i, s) \o t = v0
      BY <3>1, BranchRows DEF v0
    <3>3. B0 \subseteq Put(i, A)
      BY <1>a, <1>10, PutBranch DEF B0
    <3> QED
      BY Zenon, <3>c0, <3>2, <3>3
  <2>3. CASE s # "delta_kw" /\ s # "identifier"
    <3>1. Branch(i, s) = <<"unexpected">>
      BY <1>10, <2>3, BranchIs
    <3> QED
      BY <1>u, <3>1
  <2> QED
    BY <2>1, <2>2, <2>3
<1>11. CASE i = "delta_fields"
  <2>1. CASE s = "identifier"
    <3>1. Branch(i, s) = <<"encoding_node">>
      BY <1>11, <2>1, BranchIs
    <3>2. Put("encoding_field", A) \subseteq Put(i, A)
      BY <1>a, <1>11, PutBranch
    <3>3. "encoding_field" \in Items
      BY ItemsAre
    <3>4. <<o, Put("encoding_field", A)>> \in Opens(x, <<"encoding_field">> \o t)
      BY <1>c, <1>r, <3>3
    <3> QED
      BY <2>1, <3>1, <3>2, <3>4
  <2>2. CASE s = "curly_open"
    <3>i. "curly_open" \in Items /\ "encoding_nodes" \in Items /\ "curly_close" \in Items
      BY Lexemes, ItemsAre
    <3>1. Branch(i, s) = <<"curly_open", "encoding_nodes", "curly_close">>
      BY <1>11, <2>2, BranchIs
    <3> DEFINE v0 == <<"curly_open">> \o (<<"encoding_nodes">> \o (<<"curly_close">> \o t))
               B0 == Put("curly_open", Put("encoding_nodes", Put("curly_close", A)))
    <3>c0. <<o, B0>> \in Opens(x, v0) /\ v0 \in Stacks
      BY <1>r, <3>i, <1>c
    <3> HIDE DEF v0, B0
    <3>2. Branch(i, s) \o t = v0
      BY <3>1, BranchRows DEF v0
    <3>3. B0 \subseteq Put(i, A)
      BY <1>a, <1>11, PutBranch DEF B0
    <3> QED
      BY Zenon, <3>c0, <3>2, <3>3
  <2>3. CASE s # "identifier" /\ s # "curly_open"
    <3>1. Branch(i, s) = <<"unexpected">>
      BY <1>11, <2>3, BranchIs
    <3> QED
      BY <1>u, <3>1
  <2> QED
    BY <2>1, <2>2, <2>3
<1>12. CASE i = "struct_fields"
  <2>1. CASE s = "curly_close"
    <3>1. Branch(i, s) = <<>> /\ A \subseteq Put(i, A)
      BY <1>a, <1>12, <2>1, BranchIs, PutBranch
    <3> QED
      BY <1>e, <3>1
  <2>2. CASE s # "curly_close"
    <3>i. "struct_field" \in Items /\ "struct_fields" \in Items
      BY Lexemes, ItemsAre
    <3>1. Branch(i, s) = <<"struct_field", "struct_fields">>
      BY <1>12, <2>2, BranchIs
    <3> DEFINE v0 == <<"struct_field">> \o (<<"struct_fields">> \o t)
               B0 == Put("struct_field", Put("struct_fields", A))
    <3>c0. <<o, B0>> \in Opens(x, v0) /\ v0 \in Stacks
      BY <1>r, <3>i, <1>c
    <3> HIDE DEF v0, B0
    <3>2. Branch(i, s) \o t = v0
      BY <3>1, BranchRows DEF v0
    <3>3. B0 \subseteq Put(i, A)
      BY <1>a, <1>12, PutBranch DEF B0
    <3> QED
      BY Zenon, <3>c0, <3>2, <3>3
  <2> QED
    BY <2>1, <2>2
<1>13. CASE i = "mapping_fields"
  <2>1. CASE s = "curly_close"
    <3>1. Branch(i, s) = <<>> /\ A \subseteq Put(i, A)
      BY <1>a, <1>13, <2>1, BranchIs, PutBranch
    <3> QED
      BY <1>e, <3>1
  <2>2. CASE s # "curly_close"
    <3>i. "mapping_field" \in Items /\ "mapping_fields" \in Items
      BY Lexemes, ItemsAre
    <3>1. Branch(i, s) = <<"mapping_field", "mapping_fields">>
      BY <1>13, <2>2, BranchIs
    <3> DEFINE v0 == <<"mapping_field">> \o (<<"mapping_fields">> \o t)
               B0 == Put("mapping_field", Put("mapping_fields", A))
    <3>c0. <<o, B0>> \in Opens(x, v0) /\ v0 \in Stacks
      BY <1>r, <3>i, <1>c
    <3> HIDE DEF v0, B0
    <3>2. Branch(i, s) \o t = v0
      BY <3>1, BranchRows DEF v0
    <3>3. B0 \subseteq Put(i, A)
      BY <1>a, <1>13, PutBranch DEF B0
    <3> QED
      BY Zenon, <3>c0, <3>2, <3>3
  <2> QED
    BY <2>1, <2>2
<1>14. CASE i = "encoding_nodes"
  <2>1. CASE s = "curly_close"
    <3>1. Branch(i, s) = <<>> /\ A \subseteq Put(i, A)
      BY <1>a, <1>14, <2>1, BranchIs, PutBranch
    <3> QED
      BY <1>e, <3>1
  <2>2. CASE s # "curly_close"
    <3>i. "encoding_node" \in Items /\ "encoding_nodes" \in Items
      BY Lexemes, ItemsAre
    <3>1. Branch(i, s) = <<"encoding_node", "encoding_nodes">>
      BY <1>14, <2>2, BranchIs
    <3> DEFINE v0 == <<"encoding_node">> \o (<<"encoding_nodes">> \o t)
               B0 == Put("encoding_node", Put("encoding_nodes", A))
    <3>c0. <<o, B0>> \in Opens(x, v0) /\ v0 \in Stacks
      BY <1>r, <3>i, <1>c
    <3> HIDE DEF v0, B0
    <3>2. Branch(i, s) \o t = v0
      BY <3>1, BranchRows DEF v0
    <3>3. B0 \subseteq Put(i, A)
      BY <1>a, <1>14, PutBranch DEF B0
    <3> QED
      BY Zenon, <3>c0, <3>2, <3>3
  <2> QED
    BY <2>1, <2>2
<1> QED
  BY <1>4, <1>5, <1>6, <1>7, <1>8, <1>9, <1>10, <1>11, <1>12, <1>13, <1>14 DEF Branches

--------------------------------------------------------------------------------
(* The last thing to do is to find the end of the document. *)
Ends(t) == \E a \in Stacks : t = a \o <<"declarations", "return">>

\* The rest of such a stack is one, but for the last two items of parse_document.
LEMMA EndsTail ==
  ASSUME NEW i \in Items, NEW t \in Stacks, Ends(<<i>> \o t)
  PROVE  \/ Ends(t)
         \/ i = "declarations" /\ t = <<"return">>
<1>0. "declarations" \in Items /\ "return" \in Items
  BY ItemsAre
<1>1. PICK a \in Stacks : <<i>> \o t = a \o <<"declarations", "return">>
  BY DEF Ends
<1>2. CASE a = <<>>
  <2>1. <<i>> \o t = <<"declarations", "return">>
    BY <1>1, <1>2
  <2>2. <<"declarations", "return">> = <<"declarations">> \o <<"return">>
    BY <1>0, Pair
  <2>3. <<"return">> \in Stacks
    BY <1>0 DEF Stacks
  <2>4. Head(<<i>> \o t) = i /\ Tail(<<i>> \o t) = t
    BY StackCons
  <2>5. Head(<<"declarations">> \o <<"return">>) = "declarations" /\ Tail(<<"declarations">> \o <<"return">>) = <<"return">>
    BY <1>0, <2>3, StackCons
  <2> QED
    BY <2>1, <2>2, <2>4, <2>5
<1>3. CASE a # <<>>
  <2> DEFINE e == <<"declarations", "return">>
  <2>1. e \in Stacks
    BY <1>0 DEF Stacks
  <2> HIDE DEF e
  <2>2. a = <<Head(a)>> \o Tail(a) /\ Head(a) \in Items /\ Tail(a) \in Stacks
    BY <1>3, StackHead
  <2>3. (<<Head(a)>> \o Tail(a)) \o e = <<Head(a)>> \o (Tail(a) \o e) /\ Tail(a) \o e \in Stacks
    BY <2>1, <2>2 DEF Stacks
  <2>4. <<i>> \o t = <<Head(a)>> \o (Tail(a) \o e)
    BY <1>1, <2>2, <2>3 DEF e
  <2>5. t = Tail(a) \o e
    <3> DEFINE f == Tail(a) \o e
    <3>1. Tail(<<i>> \o t) = t
      BY StackCons
    <3>2. Tail(<<Head(a)>> \o f) = f
      BY <2>2, <2>3, StackCons
    <3> QED
      BY Zenon, <2>4, <3>1, <3>2
  <2> QED
    BY <2>2, <2>5 DEF Ends, e
<1> QED
  BY <1>2, <1>3

\* More in front.
LEMMA EndsMore ==
  ASSUME NEW b \in Stacks, NEW t, Ends(t)
  PROVE  Ends(b \o t)
<1>0. "declarations" \in Items /\ "return" \in Items
  BY ItemsAre
<1>1. PICK a \in Stacks : t = a \o <<"declarations", "return">>
  BY DEF Ends
<1>2. b \o (a \o <<"declarations", "return">>) = (b \o a) \o <<"declarations", "return">> /\ b \o a \in Stacks
  BY <1>0 DEF Stacks
<1> QED
  BY <1>1, <1>2 DEF Ends

\* The last item is the return of parse_document.
LEMMA EndsLast ==
  ASSUME NEW t, Ends(t)
  PROVE  t \in Stacks /\ t # <<>> /\ t[Len(t)] = "return" /\ Tail(t) # <<>>
<1>0. "declarations" \in Items /\ "return" \in Items
  BY ItemsAre
<1>1. PICK a \in Stacks : t = a \o <<"declarations", "return">>
  BY DEF Ends
<1>2. t \in Stacks /\ Len(t) = Len(a) + 2 /\ t[Len(a) + 2] = "return" /\ Len(a) \in Nat
  BY <1>0, <1>1 DEF Stacks
<1>3. Len(t) # 0 /\ Len(Tail(t)) # 0
  BY <1>2 DEF Stacks
<1> QED
  BY <1>2, <1>3

\* The stack parse_document begins with.
LEMMA EndsDocument == Ends(Node["document"] \o <<>>)
<1> DEFINE e == <<"declarations", "return">>
           a == <<"includes", "namespace">>
<1>0. {"includes", "namespace", "declarations", "return"} \subseteq Items
  BY ItemsAre
<1>1. a \in Stacks /\ e \in Stacks
  BY <1>0 DEF Stacks
<1>2. a \o e = <<"includes">> \o (<<"namespace">> \o e)
  BY <1>0, <1>1, Row2
<1>3. <<>> \in Stacks /\ <<"return">> \o <<>> = <<"return">> /\ e = <<"declarations">> \o <<"return">>
  BY <1>0, Pair DEF Stacks
<1>4. Node["document"] \o <<>> = <<"includes">> \o (<<"namespace">> \o (<<"declarations">> \o (<<"return">> \o <<>>)))
  BY <1>3, Bodies
<1>5. Node["document"] \o <<>> = a \o e
  BY Zenon, <1>2, <1>3, <1>4
<1> HIDE DEF a
<1> QED
  BY <1>1, <1>5 DEF Ends

\* The loop over the declarations ends with eof only.
LEMMA EndsBranch ==
  ASSUME NEW s \in Symbols
  PROVE  \/ Ends(Branch("declarations", s) \o <<"return">>)
         \/ Branch("declarations", s) = <<"unexpected">>
         \/ Branch("declarations", s) = <<>> /\ s = "eof"
<1>0. {"struct", "mapping", "encoding", "declarations", "return"} \subseteq Items
  BY ItemsAre
<1>1. <<"return">> \in Stacks /\ <<"declarations">> \o <<"return">> = <<"declarations", "return">>
  <2>1. <<"return">> \in Stacks
    BY <1>0 DEF Stacks
  <2>2. <<"declarations">> \o <<"return">> = <<"declarations", "return">>
    BY <1>0, Pair
  <2> QED
    BY <2>1, <2>2
<1>2. ASSUME NEW k \in {"struct", "mapping", "encoding"} PROVE Ends(<<k, "declarations">> \o <<"return">>)
  <2>1. <<k, "declarations">> \o <<"return">> = <<k>> \o (<<"declarations">> \o <<"return">>)
    BY <1>0, <1>1, Row2
  <2>2. <<k>> \in Stacks
    BY <1>0 DEF Stacks
  <2> QED
    BY <1>1, <2>1, <2>2 DEF Ends
<1> QED
  BY <1>2, BranchIs

\* What is left to do, down to the end of the document.
Bottom(t, p, x) ==
  \/ t = <<"document">> /\ x = <<>>
  \/ Ends(t)
  \/ t # <<>> /\ Head(t) = "unexpected"
  \/ t = <<"return">> /\ p = "eof"

\* A part of a word.
LEMMA SubWord ==
  ASSUME NEW x \in Words, NEW a \in Nat, NEW b \in Nat, a <= b, b <= Len(x)
  PROVE  /\ SubSeq(x, a + 1, b) \in Words /\ Len(SubSeq(x, a + 1, b)) = b - a
         /\ \A j \in 1 .. b - a : SubSeq(x, a + 1, b)[j] = x[a + j]
  BY DEF Words

\* The symbols of two words put together.
LEMMA CatAt ==
  ASSUME NEW v \in Words, NEW w \in Words
  PROVE  /\ \A j \in 1 .. Len(v) : (v \o w)[j] = v[j]
         /\ \A j \in 1 .. Len(w) : (v \o w)[Len(v) + j] = w[j]
  BY DEF Words

\* A part in two parts.
LEMMA SubSplit ==
  ASSUME NEW x \in Words, NEW a \in Nat, NEW b \in Nat, NEW c \in Nat, a <= b, b <= c, c <= Len(x)
  PROVE  SubSeq(x, a + 1, c) = SubSeq(x, a + 1, b) \o SubSeq(x, b + 1, c)
<1> DEFINE v == SubSeq(x, a + 1, b)
           w == SubSeq(x, b + 1, c)
           y == SubSeq(x, a + 1, c)
<1>0. Len(x) \in Nat /\ b <= Len(x) /\ a <= c
  BY WordLen
<1>1. v \in Words /\ Len(v) = b - a /\ \A j \in 1 .. b - a : v[j] = x[a + j]
  BY <1>0, SubWord
<1>2. w \in Words /\ Len(w) = c - b /\ \A j \in 1 .. c - b : w[j] = x[b + j]
  BY <1>0, SubWord
<1>3. y \in Words /\ Len(y) = c - a /\ \A j \in 1 .. c - a : y[j] = x[a + j]
  BY <1>0, SubWord
<1> HIDE DEF v, w, y
<1>4. v \o w \in Words /\ Len(v \o w) = c - a
  BY <1>1, <1>2, WordCat
<1>5. ASSUME NEW j \in 1 .. c - a PROVE y[j] = (v \o w)[j]
  <2>1. CASE j <= b - a
    BY <1>1, <1>2, <1>3, <2>1, CatAt
  <2>2. CASE j > b - a
    <3> DEFINE k == j - (b - a)
    <3>1. k \in 1 .. c - b /\ j = (b - a) + k /\ b + k = a + j
      BY <2>2
    <3> HIDE DEF k
    <3>2. (v \o w)[Len(v) + k] = w[k]
      BY <1>1, <1>2, <3>1, CatAt
    <3> QED
      BY <1>1, <1>2, <1>3, <3>1, <3>2
  <2>3. j <= b - a \/ j > b - a
    OBVIOUS
  <2> QED
    BY Zenon, <2>1, <2>2, <2>3
<1>6. y = v \o w
  BY <1>3, <1>4, <1>5, WordEq
<1> QED
  BY <1>6 DEF v, w, y

\* The parts of a word with one symbol more.
LEMMA SubAppend ==
  ASSUME NEW x \in Words, NEW i \in Terminals, NEW a \in Nat, NEW b \in Nat, a <= b, b <= Len(x)
  PROVE  /\ SubSeq(Append(x, i), a + 1, b) = SubSeq(x, a + 1, b)
         /\ SubSeq(Append(x, i), a + 1, Len(x) + 1) = SubSeq(x, a + 1, Len(x)) \o <<i>>
<1> DEFINE z == Append(x, i)
<1>1. /\ z \in Words /\ Len(z) = Len(x) + 1 /\ Len(x) \in Nat
      /\ \A j \in 1 .. Len(x) : z[j] = x[j]
      /\ z[Len(x) + 1] = i
  BY RestAppend, WordLen DEF Words
<1> HIDE DEF z
<1>2. ASSUME NEW c \in Nat, a <= c, c <= Len(x) PROVE SubSeq(z, a + 1, c) = SubSeq(x, a + 1, c)
  <2> DEFINE v == SubSeq(z, a + 1, c)
             w == SubSeq(x, a + 1, c)
  <2>1. v \in Words /\ Len(v) = c - a /\ \A j \in 1 .. c - a : v[j] = z[a + j]
    BY <1>1, <1>2, SubWord
  <2>2. w \in Words /\ Len(w) = c - a /\ \A j \in 1 .. c - a : w[j] = x[a + j]
    BY <1>1, <1>2, SubWord
  <2> HIDE DEF v, w
  <2>3. \A j \in 1 .. Len(w) : v[j] = w[j]
    BY <1>1, <1>2, <2>1, <2>2
  <2>4. v = w
    BY <2>1, <2>2, <2>3, WordEq
  <2> QED
    BY <2>4 DEF v, w
<1>3. SubSeq(z, a + 1, Len(x) + 1) = SubSeq(z, a + 1, Len(x)) \o SubSeq(z, Len(x) + 1, Len(x) + 1)
  <2>1. Len(x) + 1 \in Nat /\ a <= Len(x) /\ Len(x) <= Len(x) + 1 /\ Len(x) + 1 <= Len(z)
    BY <1>1
  <2> QED
    BY <1>1, <2>1, SubSplit
<1>4. SubSeq(z, Len(x) + 1, Len(x) + 1) = <<i>>
  <2> DEFINE v == SubSeq(z, Len(x) + 1, Len(x) + 1)
  <2>1. v \in Words /\ Len(v) = 1 /\ v[1] = z[Len(x) + 1]
    <3>1. Len(x) + 1 \in Nat /\ Len(x) <= Len(x) + 1 /\ Len(x) + 1 <= Len(z) /\ 1 \in 1 .. (Len(x) + 1) - Len(x)
          /\ (Len(x) + 1) - Len(x) = 1
      BY <1>1
    <3> QED
      BY <1>1, <3>1, SubWord
  <2> HIDE DEF v
  <2>2. <<i>> \in Words /\ Len(<<i>>) = 1 /\ <<i>>[1] = i
    BY WordOne
  <2>3. v = <<i>>
    BY <1>1, <2>1, <2>2, WordEq
  <2> QED
    BY <2>3 DEF v
<1>5. a <= Len(x)
  BY <1>1
<1>6. SubSeq(z, a + 1, b) = SubSeq(x, a + 1, b) /\ SubSeq(z, a + 1, Len(x)) = SubSeq(x, a + 1, Len(x))
  BY <1>1, <1>2, <1>5
<1> QED
  BY <1>3, <1>4, <1>6 DEF z

\* The empty part and the whole.
LEMMA SubWhole ==
  ASSUME NEW x \in Words
  PROVE  SubSeq(x, Len(x) + 1, Len(x)) = <<>> /\ SubSeq(x, 0 + 1, Len(x)) = x
<1>0. Len(x) \in Nat
  BY WordLen
<1>1. SubSeq(x, Len(x) + 1, Len(x)) = <<>>
  BY <1>0, SubWord, WordLen
<1>2. SubSeq(x, 0 + 1, Len(x)) \in Words /\ Len(SubSeq(x, 0 + 1, Len(x))) = Len(x)
      /\ \A j \in 1 .. Len(x) : SubSeq(x, 0 + 1, Len(x))[j] = x[j]
  BY <1>0 DEF Words
<1> QED
  BY <1>1, <1>2, WordEq

--------------------------------------------------------------------------------
\* What the innermost open node has taken, and then a word of A, is its phrase.
Fits(o, A, x) ==
  o # <<>> =>
    /\ o[Len(o)].before <= Len(x)
    /\ \A w \in A : SubSeq(x, o[Len(o)].before + 1, Len(x)) \o w \in Lang(o[Len(o)].kind)

\* A call of parse_encoding_node with an identifier next is one of
\* parse_encoding_field.
Seen(t, p, u) ==
  \/ u = t
  \/ p = "identifier" /\ \E v \in Stacks : t = <<"encoding_node">> \o v /\ u = <<"encoding_field">> \o v

Shaped(t, p, o, x) ==
  \E u \in Stacks : \E A \in SUBSET Words : Seen(t, p, u) /\ <<o, A>> \in Opens(x, u) /\ Fits(o, A, x)

\* What Shaped says without the exception.
LEMMA ShapedPlain ==
  ASSUME NEW t \in Stacks, NEW i \in Items, NEW p, NEW o, NEW x, Shaped(<<i>> \o t, p, o, x),
         i # "encoding_node" \/ p # "identifier"
  PROVE  \E A \in SUBSET Words : <<o, A>> \in Opens(x, <<i>> \o t) /\ Fits(o, A, x)
<1>1. PICK u \in Stacks : \E A \in SUBSET Words :
        Seen(<<i>> \o t, p, u) /\ <<o, A>> \in Opens(x, u) /\ Fits(o, A, x)
  BY DEF Shaped
<1>2. "encoding_node" \in Items
  BY ItemsAre
<1>3. u = <<i>> \o t
  <2>1. ASSUME NEW v \in Stacks, <<i>> \o t = <<"encoding_node">> \o v PROVE i = "encoding_node"
    BY <1>2, <2>1, StackCons
  <2> QED
    BY <1>1, <2>1 DEF Seen
<1> QED
  BY <1>1, <1>3

\* And the other way round.
LEMMA ShapedIs ==
  ASSUME NEW t \in Stacks, NEW p, NEW o, NEW A, NEW x, <<o, A>> \in Opens(x, t), Fits(o, A, x)
  PROVE  Shaped(t, p, o, x)
<1>1. A \in SUBSET Words
  BY OpensType
<1>2. Seen(t, p, t)
  BY DEF Seen
<1> QED
  BY Zenon, <1>1, <1>2 DEF Shaped

\* Less may be left.
LEMMA FitsLess ==
  ASSUME NEW o, NEW A, NEW B, NEW x, B \subseteq A, Fits(o, A, x) PROVE Fits(o, B, x)
  BY DEF Fits

\* The innermost of the open nodes.
LEMMA LastOf ==
  ASSUME NEW o \in Seq(OpenNodes), NEW n \in OpenNodes
  PROVE  /\ Append(o, n) # <<>> /\ Append(o, n)[Len(Append(o, n))] = n /\ Append(o, n) \in Seq(OpenNodes)
         /\ SubSeq(Append(o, n), 1, Len(Append(o, n)) - 1) = o
         /\ o # <<>> => o[Len(o)] \in OpenNodes
<1>1. Append(o, n) # <<>> /\ Append(o, n)[Len(Append(o, n))] = n /\ Append(o, n) \in Seq(OpenNodes)
  OBVIOUS
<1>2. Len(Append(o, n)) - 1 = Len(o) /\ Len(o) \in Nat
  OBVIOUS
<1>3. SubSeq(Append(o, n), 1, Len(o)) = o
  OBVIOUS
<1>4. o # <<>> => o[Len(o)] \in OpenNodes
  OBVIOUS
<1> QED
  BY <1>1, <1>2, <1>3, <1>4

\* OpensInvert of an item that is no return.
LEMMA OpensUncons ==
  ASSUME NEW x, NEW t \in Stacks, NEW i \in Items, i # "return", NEW o, NEW A, <<o, A>> \in Opens(x, <<i>> \o t)
  PROVE  \E B \in SUBSET Words : <<o, B>> \in Opens(x, t) /\ A = Put(i, B)
<1>1. PICK B : <<o, B>> \in Opens(x, t) /\ A = Put(i, B)
  BY OpensInvert
<1> QED
  BY <1>1, OpensType

\* What is left after a call.
LEMMA ShapedCall ==
  ASSUME NEW x, NEW k \in Items, k # "return", k # "encoding_node", NEW t \in Stacks, NEW p, NEW o,
         Shaped(<<k>> \o t, p, o, x)
  PROVE  \E B \in SUBSET Words : <<o, B>> \in Opens(x, t) /\ Fits(o, Put(k, B), x)
<1>1. PICK A \in SUBSET Words : <<o, A>> \in Opens(x, <<k>> \o t) /\ Fits(o, A, x)
  BY ShapedPlain
<1>2. PICK B \in SUBSET Words : <<o, B>> \in Opens(x, t) /\ A = Put(k, B)
  BY <1>1, OpensUncons
<1> QED
  BY <1>1, <1>2

\* A function that returns a node opens it at the symbols taken so far.
LEMMA ShapedNode ==
  ASSUME NEW x \in Words, NEW k \in DOMAIN Node, NEW t \in Stacks, NEW p, NEW o, Shaped(<<k>> \o t, p, o, x),
         o = <<>> => x = <<>>, NEW n \in OpenNodes, n.kind = k, n.before = Len(x)
  PROVE  Shaped(Node[k] \o t, p, Append(o, n), x)
<1>0. k \in Items /\ k # "return" /\ k # "encoding_node" /\ Len(x) \in Nat
  BY ItemsAre, WordLen
<1>2. PICK B \in SUBSET Words : <<o, B>> \in Opens(x, t) /\ Fits(o, Put(k, B), x)
  BY <1>0, ShapedCall
<1>3. Nested(x, o, B, n)
  BY <1>0, <1>2, WordEmpty DEF Nested, Fits
<1>4. <<Append(o, n), {<<>>}>> \in Opens(x, <<"return">> \o t)
  BY <1>2, <1>3, OpensNode
<1>5. <<Append(o, n), Put(k, {<<>>})>> \in Opens(x, Node[k] \o t)
  BY <1>4, OpensBody
<1>6. Put(k, {<<>>}) = Lang(k) /\ Lang(k) \in SUBSET Words
  BY <1>0, LangWords, JoinEmpty DEF Put
<1>7. o \in Seq(OpenNodes)
  BY <1>2, OpensType
<1>8. Append(o, n)[Len(Append(o, n))] = n
  BY <1>7, LastOf
<1>9. Fits(Append(o, n), Lang(k), x)
  <2>1. \A w \in Lang(k) : SubSeq(x, Len(x) + 1, Len(x)) \o w \in Lang(k)
    BY <1>6, SubWhole, WordEmpty
  <2> QED
    BY <1>0, <1>8, <2>1 DEF Fits
<1>10. Node[k] \o t \in Stacks
  BY RowStacks
<1> QED
  BY <1>5, <1>6, <1>9, <1>10, ShapedIs

\* A function that returns a value opens none.
LEMMA ShapedValue ==
  ASSUME NEW x \in Words, NEW k \in DOMAIN Value, NEW t \in Stacks, NEW p, NEW o, Shaped(<<k>> \o t, p, o, x)
  PROVE  Shaped(Value[k] \o t, p, o, x)
<1>0. k \in Items /\ k # "return" /\ k # "encoding_node"
  BY ItemsAre
<1>2. PICK B \in SUBSET Words : <<o, B>> \in Opens(x, t) /\ Fits(o, Put(k, B), x)
  BY <1>0, ShapedCall
<1>3. <<o, Put(k, B)>> \in Opens(x, Value[k] \o t)
  BY <1>2, OpensValue
<1> QED
  BY <1>2, <1>3, RowStacks, ShapedIs

\* A look at the next symbol chooses among the phrases that are left.
LEMMA ShapedLook ==
  ASSUME NEW x \in Words, NEW i \in Branches, NEW t \in Stacks, NEW p, NEW o, Shaped(<<i>> \o t, p, o, x),
         NEW s \in Symbols, p \in {"invalid", s}
  PROVE  Shaped(Branch(i, s) \o t, s, o, x)
<1>0. i \in Items /\ i # "return" /\ Branch(i, s) \o t \in Stacks /\ "encoding_node" \in Items
      /\ "encoding_field" \in Items
  BY ItemsAre, RowStacks DEF Branches
<1>1. CASE i # "encoding_node" \/ p # "identifier"
  <2>1. PICK A \in SUBSET Words : <<o, A>> \in Opens(x, <<i>> \o t) /\ Fits(o, A, x)
    BY <1>0, <1>1, ShapedPlain
  <2>2. PICK B : <<o, B>> \in Opens(x, t) /\ A = Put(i, B)
    BY <1>0, <2>1, OpensInvert
  <2>3. PICK C : C \subseteq A /\
           (\/ <<o, C>> \in Opens(x, Branch(i, s) \o t)
            \/ /\ s = "identifier" /\ Branch(i, s) = <<"encoding_node">>
               /\ <<o, C>> \in Opens(x, <<"encoding_field">> \o t))
    BY <2>2, OpensLook
  <2>4. Fits(o, C, x)
    BY <2>1, <2>3, FitsLess
  <2>5. CASE <<o, C>> \in Opens(x, Branch(i, s) \o t)
    BY <1>0, <2>4, <2>5, ShapedIs
  <2>6. CASE /\ s = "identifier" /\ Branch(i, s) = <<"encoding_node">>
             /\ <<o, C>> \in Opens(x, <<"encoding_field">> \o t)
    <3>1. Seen(Branch(i, s) \o t, s, <<"encoding_field">> \o t)
      BY <2>6 DEF Seen
    <3>2. <<"encoding_field">> \o t \in Stacks /\ C \in SUBSET Words
      BY <1>0, <2>6, StackCons, OpensType
    <3> QED
      BY Zenon, <2>4, <2>6, <3>1, <3>2 DEF Shaped
  <2> QED
    BY <2>3, <2>5, <2>6
<1>2. CASE i = "encoding_node" /\ p = "identifier"
  <2>1. s = "identifier" /\ Branch(i, s) = <<"encoding_field">>
    BY <1>2, BranchIs
  <2>2. PICK u \in Stacks : \E A \in SUBSET Words :
          Seen(<<i>> \o t, p, u) /\ <<o, A>> \in Opens(x, u) /\ Fits(o, A, x)
    BY DEF Shaped
  <2>3. PICK A \in SUBSET Words : Seen(<<i>> \o t, p, u) /\ <<o, A>> \in Opens(x, u) /\ Fits(o, A, x)
    BY <2>2
  <2>4. CASE u = <<i>> \o t
    <3>1. PICK B : <<o, B>> \in Opens(x, t) /\ A = Put(i, B)
      BY <1>0, <2>3, <2>4, OpensInvert
    <3>2. Put("encoding_field", B) \subseteq A
      BY <1>2, <3>1, PutBranch, OpensType
    <3>3. <<o, Put("encoding_field", B)>> \in Opens(x, <<"encoding_field">> \o t)
      BY <1>0, <3>1, OpensCons
    <3>4. Fits(o, Put("encoding_field", B), x)
      BY <2>3, <3>2, FitsLess
    <3>5. <<o, Put("encoding_field", B)>> \in Opens(x, Branch(i, s) \o t)
      BY <2>1, <3>3
    <3> QED
      BY <1>0, <3>4, <3>5, ShapedIs
  <2>5. CASE u # <<i>> \o t
    <3>1. PICK v \in Stacks : <<i>> \o t = <<"encoding_node">> \o v /\ u = <<"encoding_field">> \o v
      BY <2>3, <2>5 DEF Seen
    <3>2. v = t
      <4>1. Tail(<<i>> \o t) = t /\ Tail(<<"encoding_node">> \o v) = v
        BY <1>0, StackCons
      <4> QED
        BY Zenon, <3>1, <4>1
    <3>3. <<o, A>> \in Opens(x, Branch(i, s) \o t)
      BY <2>1, <2>3, <3>1, <3>2
    <3> QED
      BY <1>0, <2>3, <3>3, ShapedIs
  <2> QED
    BY <2>4, <2>5
<1> QED
  BY <1>1, <1>2

\* A symbol that is taken is the first of what was left.
LEMMA ShapedParse ==
  ASSUME NEW x \in Words, NEW i \in Terminals, NEW t \in Stacks, NEW p, NEW o, Shaped(<<i>> \o t, p, o, x)
  PROVE  Shaped(t, "invalid", o, Append(x, i))
<1>0. i \in Items /\ i # "return" /\ i # "encoding_node" /\ Len(x) \in Nat
  BY ItemsAre, WordLen DEF Terminals, Symbols
<1>1. PICK A \in SUBSET Words : <<o, A>> \in Opens(x, <<i>> \o t) /\ Fits(o, A, x)
  BY <1>0, ShapedPlain
<1>2. PICK B : <<o, B>> \in Opens(x, t) /\ A = Put(i, B)
  BY <1>0, <1>1, OpensInvert
<1>3. <<o, B>> \in Opens(Append(x, i), t)
  BY <1>2, OpensMore
<1>4. B \in SUBSET Words /\ o \in Seq(OpenNodes)
  BY <1>2, OpensType
<1>5. Fits(o, B, Append(x, i))
  <2> SUFFICES ASSUME o # <<>>
               PROVE  /\ o[Len(o)].before <= Len(Append(x, i))
                      /\ \A w \in B : SubSeq(Append(x, i), o[Len(o)].before + 1, Len(Append(x, i))) \o w
                                        \in Lang(o[Len(o)].kind)
    BY DEF Fits
  <2> DEFINE n == o[Len(o)]
             y == SubSeq(x, n.before + 1, Len(x))
  <2>1. n \in OpenNodes
    BY <1>4
  <2>2. n.before \in Nat /\ n.before <= Len(x) /\ \A w \in A : y \o w \in Lang(n.kind)
    BY <1>1, <2>1 DEF Fits, OpenNodes
  <2> HIDE DEF n
  <2>3. Len(Append(x, i)) = Len(x) + 1
    BY RestAppend
  <2>4. SubSeq(Append(x, i), n.before + 1, Len(x) + 1) = y \o <<i>> /\ y \in Words
    <3>1. Len(x) <= Len(x)
      BY <1>0
    <3>2. y \in Words
      BY <1>0, <2>2, <3>1, SubWord
    <3>3. SubSeq(Append(x, i), n.before + 1, Len(x) + 1) = y \o <<i>>
      BY <1>0, <2>2, <3>1, SubAppend
    <3> QED
      BY <3>2, <3>3
  <2> HIDE DEF y
  <2>5. ASSUME NEW w \in B PROVE (y \o <<i>>) \o w \in Lang(n.kind)
    <3>1. (y \o <<i>>) \o w = y \o (<<i>> \o w)
      BY <1>4, <2>4, WordOne, WordAssoc
    <3>2. <<i>> \o w \in A
      BY <1>2, <1>4, PutOne, JoinOne
    <3> QED
      BY <2>2, <3>1, <3>2
  <2>6. n.before <= Len(Append(x, i))
    BY <1>0, <2>2, <2>3
  <2> QED
    BY <2>3, <2>4, <2>5, <2>6 DEF n
<1> QED
  BY <1>3, <1>5, ShapedIs

\* A return closes a node whose symbols are a phrase of its kind.
LEMMA ShapedReturn ==
  ASSUME NEW x \in Words, NEW t \in Stacks, NEW p, NEW o, Shaped(<<"return">> \o t, p, o, x)
  PROVE  \E q \in Seq(OpenNodes) : \E n \in OpenNodes :
           /\ o = Append(q, n) /\ n.before <= Len(x)
           /\ SubSeq(x, n.before + 1, Len(x)) \in Lang(n.kind)
           /\ Shaped(t, p, q, x)
           /\ t = <<>> => n.before = 0
<1>0. "return" \in Items /\ Len(x) \in Nat
  BY ItemsAre, WordLen
<1>1. PICK A \in SUBSET Words : <<o, A>> \in Opens(x, <<"return">> \o t) /\ Fits(o, A, x)
  BY <1>0, ShapedPlain
<1>2. PICK q, B : \E n \in OpenNodes :
        <<q, B>> \in Opens(x, t) /\ o = Append(q, n) /\ A = {<<>>} /\ Nested(x, q, B, n)
  BY <1>0, <1>1, OpensInvert
<1>3. PICK n \in OpenNodes : o = Append(q, n) /\ A = {<<>>} /\ Nested(x, q, B, n)
  BY <1>2
<1>4. q \in Seq(OpenNodes) /\ B \in SUBSET Words /\ <<q, B>> \in Opens(x, t)
  BY <1>2, OpensType
<1>5. o # <<>> /\ o[Len(o)] = n
  BY <1>3, <1>4, LastOf
<1> DEFINE y == SubSeq(x, n.before + 1, Len(x))
<1>6. n.before \in Nat /\ n.before <= Len(x) /\ n.kind \in DOMAIN Node
  BY <1>3 DEF Nested, OpenNodes
<1>7. y \in Words
  BY <1>0, <1>6, SubWord
<1>8. y \in Lang(n.kind)
  <2>1. y \o <<>> \in Lang(n.kind)
    BY <1>1, <1>3, <1>5 DEF Fits
  <2> HIDE DEF y
  <2> QED
    BY <1>7, <2>1, WordEmpty
<1>9. Fits(q, B, x)
  <2> SUFFICES ASSUME q # <<>>
               PROVE  /\ q[Len(q)].before <= Len(x)
                      /\ \A w \in B : SubSeq(x, q[Len(q)].before + 1, Len(x)) \o w \in Lang(q[Len(q)].kind)
    BY DEF Fits
  <2> DEFINE m == q[Len(q)]
             z == SubSeq(x, m.before + 1, n.before)
  <2>1. m \in OpenNodes
    BY <1>4
  <2>2. m.before \in Nat /\ m.before <= n.before /\ \A w \in Put(n.kind, B) : z \o w \in Lang(m.kind)
    BY <1>3, <2>1 DEF Nested, OpenNodes
  <2> HIDE DEF m
  <2>3. SubSeq(x, m.before + 1, Len(x)) = z \o y /\ z \in Words
    <3>1. Len(x) <= Len(x)
      BY <1>0
    <3>2. z \in Words
      BY <1>0, <1>6, <2>2, SubWord
    <3>3. SubSeq(x, m.before + 1, Len(x)) = z \o y
      BY <1>0, <1>6, <2>2, <3>1, SubSplit
    <3> QED
      BY <3>2, <3>3
  <2> HIDE DEF y, z
  <2>4. ASSUME NEW w \in B PROVE (z \o y) \o w \in Lang(m.kind)
    <3>1. (z \o y) \o w = z \o (y \o w)
      BY <1>4, <1>7, <2>3, WordAssoc
    <3>2. Lang(n.kind) \in SUBSET Words
      BY <1>6, ItemsAre, LangWords
    <3>3. y \o w \in Put(n.kind, B)
      BY <1>4, <1>8, <3>2, JoinIs DEF Put
    <3> QED
      BY <2>2, <3>1, <3>3
  <2>5. m.before <= Len(x)
    BY <1>0, <1>6, <2>2
  <2> QED
    BY <2>3, <2>4, <2>5 DEF m
<1>10. Shaped(t, p, q, x)
  BY <1>4, <1>9, ShapedIs
<1>11. t = <<>> => n.before = 0
  <2> SUFFICES ASSUME t = <<>> PROVE n.before = 0
    OBVIOUS
  <2>1. <<q, B>> = << <<>>, {<<>>} >>
    BY <1>4, OpensEmpty
  <2> QED
    BY <1>3, <2>1 DEF Nested
<1> HIDE DEF y
<1>12. o = Append(q, n)
  BY <1>3
<1> QED
  BY Zenon, <1>4, <1>6, <1>8, <1>10, <1>11, <1>12 DEF y

\* Before the document has ended a node is open.
LEMMA ShapedOpen ==
  ASSUME NEW t, NEW p, NEW o, NEW x, Ends(t), Shaped(t, p, o, x)
  PROVE  o # <<>>
<1>1. PICK u \in Stacks : \E A \in SUBSET Words : Seen(t, p, u) /\ <<o, A>> \in Opens(x, u) /\ Fits(o, A, x)
  BY DEF Shaped
<1>2. Ends(u)
  <2>1. ASSUME NEW v \in Stacks, t = <<"encoding_node">> \o v, u = <<"encoding_field">> \o v PROVE Ends(u)
    <3>0. "encoding_node" \in Items /\ <<"encoding_field">> \in Stacks
      BY ItemsAre DEF Stacks
    <3>1. Ends(v)
      BY <2>1, <3>0, EndsTail
    <3> QED
      BY <2>1, <3>0, <3>1, EndsMore
  <2> QED
    BY <1>1, <2>1 DEF Seen
<1> QED
  BY <1>1, <1>2, EndsLast, OpensLast

\* The inductive invariant of NodesArePhrases, on top of RejectInv.
PhraseInv ==
  /\ open \in Seq(OpenNodes)
  /\ nodes \in Seq([node : OpenNodes, after : Nat])
  /\ \A k \in DOMAIN nodes :
       /\ nodes[k].node.before <= nodes[k].after /\ nodes[k].after <= Len(consumed)
       /\ SubSeq(consumed, nodes[k].node.before + 1, nodes[k].after) \in Lang(nodes[k].node.kind)
  /\ outcome = "parsing" =>
       Bottom(todo, next_symbol, consumed) /\ Shaped(todo, next_symbol, open, consumed)
  /\ outcome = "document" =>
       /\ next_symbol = "eof" /\ nodes # <<>>
       /\ nodes[Len(nodes)].node.before = 0 /\ nodes[Len(nodes)].after = Len(consumed)

\* At first the invariant holds.
LEMMA PhraseInit == ParserInit => PhraseInv
<1> SUFFICES ASSUME ParserInit PROVE PhraseInv
  OBVIOUS
<1>1. "document" \in Items /\ <<>> \in Stacks /\ <<"document">> \o <<>> = <<"document">> /\ <<"document">> \in Stacks
  BY ItemsAre DEF Stacks
<1>2. << <<>>, Put("document", {<<>>}) >> \in Opens(<<>>, <<"document">>)
  BY <1>1, OpensEmpty, OpensCons
<1>3. Fits(<<>>, Put("document", {<<>>}), <<>>)
  BY DEF Fits
<1>4. Shaped(<<"document">>, "invalid", <<>>, <<>>)
  BY <1>1, <1>2, <1>3, ShapedIs
<1> QED
  BY <1>4 DEF ParserInit, PhraseInv, Bottom

\* What is below the first item of the stack.
LEMMA BottomStep ==
  ASSUME NEW i \in Items, NEW t \in Stacks, NEW p, NEW x, Bottom(<<i>> \o t, p, x), i # "unexpected"
  PROVE  \/ i = "document" /\ t = <<>> /\ x = <<>>
         \/ Ends(t)
         \/ i = "declarations" /\ t = <<"return">>
         \/ i = "return" /\ t = <<>> /\ p = "eof"
<1>1. Head(<<i>> \o t) = i /\ Tail(<<i>> \o t) = t
  BY StackCons
<1>2. \A a : Head(<<a>>) = a /\ Tail(<<a>>) = <<>>
  OBVIOUS
<1>3. CASE Ends(<<i>> \o t)
  BY <1>3, EndsTail
<1>4. CASE <<i>> \o t = <<"document">> /\ x = <<>>
  BY <1>1, <1>2, <1>4
<1>5. CASE <<i>> \o t = <<"return">> /\ p = "eof"
  BY <1>1, <1>2, <1>5
<1> QED
  BY <1>1, <1>3, <1>4, <1>5 DEF Bottom

\* A row of symbols is added to the nodes that have been returned.
LEMMA NodesMore ==
  ASSUME RejectInv, PhraseInv, NEW n \in OpenNodes, n.before <= Len(consumed),
         SubSeq(consumed, n.before + 1, Len(consumed)) \in Lang(n.kind),
         NEW ns, ns = Append(nodes, [node |-> n, after |-> Len(consumed)])
  PROVE  /\ ns \in Seq([node : OpenNodes, after : Nat]) /\ ns # <<>>
         /\ \A k \in DOMAIN ns :
              /\ ns[k].node.before <= ns[k].after /\ ns[k].after <= Len(consumed)
              /\ SubSeq(consumed, ns[k].node.before + 1, ns[k].after) \in Lang(ns[k].node.kind)
         /\ ns[Len(ns)].node.before = n.before /\ ns[Len(ns)].after = Len(consumed)
<1> DEFINE r == [node |-> n, after |-> Len(consumed)]
           T == [node : OpenNodes, after : Nat]
<1>1. Len(consumed) \in Nat
  BY WordLen DEF RejectInv
<1>2. r \in T /\ r.node = n /\ r.after = Len(consumed)
  BY <1>1
<1>3. nodes \in Seq(T) /\ ns = Append(nodes, r)
  BY DEF PhraseInv
<1> HIDE DEF r, T
<1>4. ns \in Seq(T) /\ ns # <<>> /\ ns[Len(ns)] = r
  BY <1>2, <1>3
<1>5. \A k \in DOMAIN ns : ns[k] = r \/ (k \in DOMAIN nodes /\ ns[k] = nodes[k])
  BY <1>2, <1>3
<1>6. ASSUME NEW k \in DOMAIN ns
      PROVE  /\ ns[k].node.before <= ns[k].after /\ ns[k].after <= Len(consumed)
             /\ SubSeq(consumed, ns[k].node.before + 1, ns[k].after) \in Lang(ns[k].node.kind)
  <2>1. CASE ns[k] = r
    BY <1>1, <1>2, <2>1
  <2>2. CASE k \in DOMAIN nodes /\ ns[k] = nodes[k]
    BY <2>2 DEF PhraseInv
  <2> QED
    BY <1>5, <2>1, <2>2
<1>7. ns[Len(ns)].node.before = n.before /\ ns[Len(ns)].after = Len(consumed)
  BY <1>2, <1>4
<1> QED
  BY <1>4, <1>6, <1>7 DEF T

\* A node of the tree is one that was open.
LEMMA NodeType ==
  ASSUME PhraseInv, NEW k \in DOMAIN nodes
  PROVE  nodes[k] \in [node : OpenNodes, after : Nat]
<1> DEFINE T == [node : OpenNodes, after : Nat]
<1>1. nodes \in Seq(T)
  BY DEF PhraseInv
<1> HIDE DEF T
<1>2. nodes[k] \in T
  BY <1>1
<1> QED
  BY <1>2 DEF T

\* Every step keeps the invariant.
LEMMA PhraseStep == RejectInv /\ PhraseInv /\ [ParserNext]_parserVars => PhraseInv'
<1> SUFFICES ASSUME RejectInv, PhraseInv, [ParserNext]_parserVars PROVE PhraseInv'
  OBVIOUS
<1> DEFINE i == Head(todo)
           t == Tail(todo)
<1>0. consumed \in Words /\ Len(consumed) \in Nat
  BY WordLen DEF RejectInv
<1>1. ASSUME outcome = "parsing", todo # <<>>
      PROVE  /\ i \in Items /\ t \in Stacks /\ todo = <<i>> \o t
             /\ Bottom(<<i>> \o t, next_symbol, consumed) /\ Shaped(<<i>> \o t, next_symbol, open, consumed)
  <2>1. i \in Items /\ t \in Stacks /\ todo = <<i>> \o t
    BY <1>1, StackHead DEF RejectInv
  <2>2. Bottom(todo, next_symbol, consumed) /\ Shaped(todo, next_symbol, open, consumed)
    BY <1>1 DEF PhraseInv
  <2> QED
    BY Zenon, <2>1, <2>2
<1>2. CASE CallNode
  <2>1. i \in DOMAIN Node /\ outcome = "parsing" /\ todo # <<>> /\ todo' = Node[i] \o t
    BY <1>2 DEF CallNode
  <2>2. \/ i = "document" /\ t = <<>> /\ consumed = <<>>
        \/ Ends(t)
    <3>1. i # "unexpected" /\ i # "declarations" /\ i # "return"
      BY <2>1, ItemsAre
    <3> QED
      BY <1>1, <2>1, <3>1, BottomStep
  <2>3. Ends(todo') /\ todo' \in Stacks
    <3>1. CASE i = "document" /\ t = <<>>
      <4>1. todo' = Node["document"] \o <<>>
        BY <2>1, <3>1
      <4> QED
        BY <4>1, EndsDocument, EndsLast
    <3>2. CASE Ends(t)
      <4>1. Node[i] \in Stacks
        BY <2>1, NodeRows
      <4> QED
        BY <2>1, <3>2, <4>1, EndsMore, EndsLast
    <3> QED
      BY <2>2, <3>1, <3>2
  <2>4. open = <<>> => consumed = <<>>
    <3>1. CASE Ends(t)
      <4>1. <<i>> \in Stacks
        BY <1>1, <2>1 DEF Stacks
      <4>2. Ends(<<i>> \o t)
        BY <3>1, <4>1, EndsMore
      <4> QED
        BY <1>1, <2>1, <4>2, ShapedOpen
    <3> QED
      BY <2>2, <3>1
  <2> DEFINE n == [kind |-> i, before |-> Len(consumed), skipped |-> next_symbol # "invalid"]
  <2>5. n \in OpenNodes /\ n.kind = i /\ n.before = Len(consumed) /\ open' = Append(open, n)
    <3>1. (next_symbol # "invalid") \in BOOLEAN
      OBVIOUS
    <3>2. n \in OpenNodes /\ n.kind = i /\ n.before = Len(consumed)
      BY <1>0, <2>1, <3>1 DEF OpenNodes
    <3>3. open' = Append(open, n)
      BY <1>2 DEF CallNode
    <3> QED
      BY <3>2, <3>3
  <2> HIDE DEF n
  <2>6. Shaped(todo', next_symbol, open', consumed)
    BY <1>0, <1>1, <2>1, <2>4, <2>5, ShapedNode
  <2>7. open' \in Seq(OpenNodes)
    BY <2>5 DEF PhraseInv
  <2>8. UNCHANGED <<next_symbol, nodes, outcome, consumed>> /\ outcome = "parsing"
    BY <1>2 DEF CallNode
  <2> QED
    BY <2>3, <2>6, <2>7, <2>8 DEF PhraseInv, Bottom
<1>3. CASE CallValue
  <2>1. i \in DOMAIN Value /\ outcome = "parsing" /\ todo # <<>> /\ todo' = Value[i] \o t
    BY <1>3 DEF CallValue
  <2>2. Ends(t)
    <3>1. i # "unexpected" /\ i # "declarations" /\ i # "return" /\ i # "document"
      BY <2>1, ItemsAre
    <3> QED
      BY <1>1, <2>1, <3>1, BottomStep
  <2>3. Ends(todo')
    BY <2>1, <2>2, NodeRows, EndsMore
  <2>4. Shaped(todo', next_symbol, open, consumed)
    BY <1>0, <1>1, <2>1, ShapedValue
  <2>5. UNCHANGED <<next_symbol, open, nodes, outcome, consumed>> /\ outcome = "parsing"
    BY <1>3 DEF CallValue
  <2> QED
    BY <2>3, <2>4, <2>5 DEF PhraseInv, Bottom
<1>4. CASE Look
  <2>1. i \in Branches /\ outcome = "parsing" /\ todo # <<>>
    BY <1>4 DEF Look
  <2>2. PICK s \in Peeked : next_symbol' = s /\ todo' = Branch(i, s) \o t
    BY <1>4 DEF Look
  <2>3. s \in Symbols /\ next_symbol \in {"invalid", s}
    BY PeekedIs
  <2>4. Shaped(todo', s, open, consumed)
    BY <1>0, <1>1, <2>1, <2>2, <2>3, ShapedLook
  <2>5. \/ Ends(t)
        \/ i = "declarations" /\ t = <<"return">>
    <3>1. i # "unexpected" /\ i # "document" /\ i # "return"
      BY <2>1 DEF Branches
    <3> QED
      BY <1>1, <2>1, <3>1, BottomStep
  <2>6. Bottom(todo', s, consumed)
    <3>1. CASE Ends(t)
      BY <2>1, <2>2, <2>3, <3>1, NodeRows, EndsMore DEF Bottom
    <3>2. CASE i = "declarations" /\ t = <<"return">>
      <4>1. todo' = Branch("declarations", s) \o <<"return">>
        BY <2>2, <3>2
      <4>2. <<"return">> \in Stacks /\ "unexpected" \in Items
        BY ItemsAre DEF Stacks
      <4>3. Head(<<"unexpected">> \o <<"return">>) = "unexpected" /\ <<"unexpected">> \o <<"return">> # <<>>
            /\ <<>> \o <<"return">> = <<"return">>
        BY <4>2, StackCons, BranchRows
      <4> QED
        BY <2>3, <4>1, <4>3, EndsBranch DEF Bottom
    <3> QED
      BY <2>5, <3>1, <3>2
  <2>7. UNCHANGED <<open, nodes, outcome, consumed>> /\ outcome = "parsing"
    BY <1>4 DEF Look
  <2> QED
    BY <2>2, <2>4, <2>6, <2>7 DEF PhraseInv
<1>5. CASE Parse
  <2>1. i \in Symbols /\ i \in Peeked /\ outcome = "parsing" /\ todo # <<>>
    BY <1>5 DEF Parse
  <2>2. i \in Terminals /\ t \in Stacks
    BY <1>1, <2>1, Heads
  <2>3. Ends(t)
    <3>1. i # "unexpected" /\ i # "document" /\ i # "return" /\ i # "declarations"
      BY <2>1 DEF Symbols
    <3> QED
      BY <1>1, <2>1, <3>1, BottomStep
  <2>4. Shaped(t, "invalid", open, Append(consumed, i))
    BY <1>0, <1>1, <2>1, <2>2, ShapedParse
  <2>5. Len(Append(consumed, i)) = Len(consumed) + 1
    BY <1>0, <2>2, RestAppend
  <2>6. /\ UNCHANGED <<open, nodes, outcome>> /\ outcome = "parsing"
        /\ todo' = t /\ next_symbol' = "invalid" /\ consumed' = Append(consumed, i)
    BY <1>5 DEF Parse
  <2>7. ASSUME NEW k \in DOMAIN nodes
        PROVE  /\ nodes[k].node.before <= nodes[k].after /\ nodes[k].after <= Len(consumed')
               /\ SubSeq(consumed', nodes[k].node.before + 1, nodes[k].after) \in Lang(nodes[k].node.kind)
    <3> DEFINE a == nodes[k].after
               b == nodes[k].node.before
               m == nodes[k].node.kind
    <3>1. a \in Nat /\ b \in Nat
      <4>1. nodes[k] \in [node : OpenNodes, after : Nat]
        BY NodeType
      <4> QED
        BY <4>1 DEF OpenNodes
    <3>2. b <= a /\ a <= Len(consumed) /\ SubSeq(consumed, b + 1, a) \in Lang(m)
      BY DEF PhraseInv
    <3> HIDE DEF a, b, m
    <3>3. SubSeq(consumed', b + 1, a) = SubSeq(consumed, b + 1, a)
      <4> HIDE DEF i
      <4> QED
        BY <1>0, <2>2, <2>6, <3>1, <3>2, SubAppend
    <3>4. a <= Len(consumed')
      BY <1>0, <2>5, <2>6, <3>1, <3>2
    <3> QED
      BY <3>2, <3>3, <3>4 DEF a, b, m
  <2> QED
    BY <2>3, <2>4, <2>6, <2>7 DEF PhraseInv, Bottom
<1>6. CASE Unexpected
  BY <1>6 DEF Unexpected, PhraseInv
<1>7. CASE Return
  <2>1. i = "return" /\ outcome = "parsing" /\ todo # <<>>
    BY <1>7 DEF Return
  <2>2. t \in Stacks /\ Bottom(<<"return">> \o t, next_symbol, consumed)
        /\ Shaped(<<"return">> \o t, next_symbol, open, consumed)
    BY <1>1, <2>1
  <2>a. PICK q \in Seq(OpenNodes) : \E n \in OpenNodes :
           /\ open = Append(q, n) /\ n.before <= Len(consumed)
           /\ SubSeq(consumed, n.before + 1, Len(consumed)) \in Lang(n.kind)
           /\ Shaped(t, next_symbol, q, consumed)
           /\ t = <<>> => n.before = 0
    <3> HIDE DEF t
    <3> QED
      BY <1>0, <2>2, ShapedReturn
  <2>3. PICK n \in OpenNodes :
           /\ open = Append(q, n) /\ n.before <= Len(consumed)
           /\ SubSeq(consumed, n.before + 1, Len(consumed)) \in Lang(n.kind)
           /\ Shaped(t, next_symbol, q, consumed)
           /\ t = <<>> => n.before = 0
    BY <2>a
  <2>4. open[Len(open)] = n /\ SubSeq(open, 1, Len(open) - 1) = q
    BY <2>3, LastOf
  <2>5. /\ nodes' = Append(nodes, [node |-> n, after |-> Len(consumed)])
        /\ open' = q /\ todo' = t
        /\ outcome' = (IF t = <<>> THEN "document" ELSE "parsing")
        /\ UNCHANGED <<next_symbol, consumed>>
    BY <1>7, <2>4 DEF Return
  <2>6. \/ Ends(t) /\ t # <<>>
        \/ t = <<>> /\ next_symbol = "eof"
    <3>1. "return" \in Items /\ "return" # "unexpected" /\ "return" # "document" /\ "return" # "declarations"
      BY ItemsAre
    <3>2. Ends(t) \/ (t = <<>> /\ next_symbol = "eof")
      BY <2>2, <3>1, BottomStep
    <3> QED
      BY <3>2, EndsLast
  <2>7. /\ nodes' \in Seq([node : OpenNodes, after : Nat]) /\ nodes' # <<>>
        /\ \A k \in DOMAIN nodes' :
             /\ nodes'[k].node.before <= nodes'[k].after /\ nodes'[k].after <= Len(consumed)
             /\ SubSeq(consumed, nodes'[k].node.before + 1, nodes'[k].after) \in Lang(nodes'[k].node.kind)
        /\ nodes'[Len(nodes')].node.before = n.before /\ nodes'[Len(nodes')].after = Len(consumed)
    BY <2>3, <2>5, NodesMore
  <2>8. CASE Ends(t) /\ t # <<>>
    BY <2>3, <2>5, <2>7, <2>8 DEF PhraseInv, Bottom
  <2>9. CASE t = <<>> /\ next_symbol = "eof"
    BY <2>3, <2>5, <2>7, <2>9 DEF PhraseInv
  <2> QED
    BY <2>6, <2>8, <2>9
<1>8. CASE UNCHANGED parserVars
  BY <1>8 DEF parserVars, PhraseInv
<1> QED
  BY <1>2, <1>3, <1>4, <1>5, <1>6, <1>7, <1>8 DEF ParserNext

\* The invariant implies NodesArePhrases.
LEMMA Phrased == RejectInv /\ PhraseInv => NodesArePhrases
<1> SUFFICES ASSUME RejectInv, PhraseInv PROVE NodesArePhrases
  OBVIOUS
<1>0. /\ consumed \in Words /\ Len(consumed) \in Nat /\ Len(consumed) <= MaxSymbols
      /\ MaxSymbols \in Nat /\ MaxPhrase \in Nat /\ MaxPhrase >= MaxSymbols + 5
  BY WordLen, ParserAssumption, GrammarAssumption DEF RejectInv
<1>1. ASSUME NEW k \in DOMAIN nodes
      PROVE  SubSeq(consumed, nodes[k].node.before + 1, nodes[k].after) \in Phrases[nodes[k].node.kind]
  <2> DEFINE a == nodes[k].after
             b == nodes[k].node.before
             m == nodes[k].node.kind
             w == SubSeq(consumed, b + 1, a)
  <2>1. nodes[k] \in [node : OpenNodes, after : Nat]
    BY NodeType
  <2>2. a \in Nat /\ b \in Nat /\ m \in DOMAIN Node
    BY <2>1 DEF OpenNodes
  <2>3. b <= a /\ a <= Len(consumed) /\ w \in Lang(m)
    BY DEF PhraseInv
  <2> HIDE DEF a, b, m
  <2>4. w \in Words /\ Len(w) = a - b
    BY <1>0, <2>2, <2>3, SubWord
  <2> HIDE DEF w
  <2>5. Len(w) <= MaxPhrase - 4
    BY <1>0, <2>2, <2>3, <2>4
  <2>6. w \in Phrases[m]
    BY <2>2, <2>3, <2>4, <2>5, ItemsAre, LangIs, PhrasesAre
  <2> QED
    BY <2>6 DEF a, b, m, w
<1>2. ASSUME outcome = "document"
      PROVE  /\ next_symbol = "eof"
             /\ consumed = SubSeq(consumed, nodes[Len(nodes)].node.before + 1, nodes[Len(nodes)].after)
  BY <1>0, <1>2, SubWhole DEF PhraseInv
<1> QED
  BY <1>1, <1>2 DEF NodesArePhrases

\* What a function has taken from the document when it returns its node is a
\* phrase of the node's kind, whatever the document (NodesArePhrases).
THEOREM NodesAreExact == ParserSpec => []NodesArePhrases
<1>1. ParserInit => RejectInv /\ PhraseInv
  BY RejectInit, PhraseInit
<1>2. (RejectInv /\ PhraseInv) /\ [ParserNext]_parserVars => (RejectInv /\ PhraseInv)'
  BY RejectStep, PhraseStep
<1> QED
  BY <1>1, <1>2, Phrased, PTL DEF ParserSpec
================================================================================
