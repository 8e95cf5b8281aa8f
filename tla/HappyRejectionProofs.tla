------------------------- MODULE HappyRejectionProofs --------------------------
(***************************************************************************)
(* A ParseException of Happy's parser comes in time, and to no document,   *)
(* of any length.                                                          *)
(*                                                                         *)
(* RejectsEarly has two halves. What the parser has taken is the beginning *)
(* of a document, and with the symbol it refuses it is not. For both, the  *)
(* stack stands for all that may still come (Hopeful): Left(todo) is what  *)
(* may follow the symbols taken, as far as it begins with the cached       *)
(* symbol.                                                                 *)
(*                                                                         *)
(* The phrases of HappyGrammar have MaxPhrase symbols at most, so the      *)
(* beginning must have a short completion. Need(i) symbols are enough for  *)
(* an item, and Owes adds them up along the stack. Room bounds what is     *)
(* below an item: the braces of DELTA blocks are the only ones that nest,  *)
(* and each has cost two symbols.                                          *)
(***************************************************************************)
EXTENDS HappyLanguageProofs

--------------------------------------------------------------------------------
(* How many symbols complete a document.  Need(i) symbols are enough for an  *)
(* item; Room(i, c, m) bounds the symbols c that what is below the item      *)
(* needs, after m symbols of the document.                                   *)

Need(i) ==
  CASE i \in Terminals -> 1
    [] i \in {"encoding_node", "delta_fields", "encoding_field", "qualified_identifier", "type"} -> 1
    [] i \in Nullable -> 0
    [] i \in {"include", "encoding_delta_block"} -> 2
    [] i \in {"struct_field", "mapping_field"} -> 3
    [] i \in {"struct", "encoding"} -> 4
    [] i = "mapping" -> 6
    [] i = "unexpected" -> 0

Room(i, c, m) ==
  CASE i \in Terminals -> 2 * c <= 10 \/ 2 * c <= m + 1
    [] i \in {"document", "includes", "namespace", "declarations", "include", "struct", "mapping", "encoding"} -> c = 0
    [] i \in {"struct_fields", "mapping_fields", "struct_field", "mapping_field", "type", "array"} -> c <= 1
    [] i \in {"qualified_identifier", "more_identifiers"} -> c <= 2
    [] i \in {"encoding_nodes", "encoding_node", "encoding_field", "encoding_delta_block"} -> 2 * c <= m - 1
    [] i = "delta_fields" -> 2 * c <= m - 2
    [] i = "encoding_id" -> 2 * c <= 4 \/ 2 * c <= m - 2
    [] i \in {"return", "unexpected"} -> TRUE

\* Need by name.
LEMMA NeedIs ==
  /\ \A i \in Terminals : Need(i) = 1
  /\ Need("include") = 2 /\ Need("includes") = 0 /\ Need("namespace") = 0 /\ Need("declarations") = 0
  /\ Need("document") = 0 /\ Need("qualified_identifier") = 1 /\ Need("more_identifiers") = 0
  /\ Need("type") = 1 /\ Need("array") = 0 /\ Need("struct") = 4 /\ Need("struct_field") = 3
  /\ Need("struct_fields") = 0 /\ Need("mapping") = 6 /\ Need("mapping_field") = 3
  /\ Need("mapping_fields") = 0 /\ Need("encoding") = 4 /\ Need("encoding_id") = 0
  /\ Need("encoding_field") = 1 /\ Need("encoding_node") = 1 /\ Need("encoding_nodes") = 0
  /\ Need("encoding_delta_block") = 2 /\ Need("delta_fields") = 1 /\ Need("return") = 0
  /\ Need("unexpected") = 0
<1>1. \A i \in Terminals : Need(i) = 1
  BY DEF Need, Terminals, Symbols, Nullable
<1> QED
  BY <1>1 DEF Need, Terminals, Symbols, Nullable

\* Need is a number.
LEMMA NeedNat == \A i \in Items : Need(i) \in Nat
<1> SUFFICES ASSUME NEW i \in Items PROVE Need(i) \in Nat
  OBVIOUS
<1>1. CASE i \in Terminals
  BY <1>1, NeedIs
<1>2. CASE i \in DOMAIN Node \cup DOMAIN Value \cup {"return", "unexpected"}
  BY <1>2, NeedIs, ItemsAre
<1>3. CASE i \in Branches
  BY <1>3, NeedIs DEF Branches
<1> QED
  BY <1>1, <1>2, <1>3 DEF Items

\* Room by name.
LEMMA RoomIs ==
  ASSUME NEW c, NEW m
  PROVE  /\ \A i \in Terminals : (Room(i, c, m) <=> (2 * c <= 10 \/ 2 * c <= m + 1))
         /\ (Room("document", c, m) <=> (c = 0)) /\ (Room("includes", c, m) <=> (c = 0))
         /\ (Room("namespace", c, m) <=> (c = 0)) /\ (Room("declarations", c, m) <=> (c = 0))
         /\ (Room("include", c, m) <=> (c = 0)) /\ (Room("struct", c, m) <=> (c = 0))
         /\ (Room("mapping", c, m) <=> (c = 0)) /\ (Room("encoding", c, m) <=> (c = 0))
         /\ (Room("struct_fields", c, m) <=> (c <= 1)) /\ (Room("mapping_fields", c, m) <=> (c <= 1))
         /\ (Room("struct_field", c, m) <=> (c <= 1)) /\ (Room("mapping_field", c, m) <=> (c <= 1))
         /\ (Room("type", c, m) <=> (c <= 1)) /\ (Room("array", c, m) <=> (c <= 1))
         /\ (Room("qualified_identifier", c, m) <=> (c <= 2)) /\ (Room("more_identifiers", c, m) <=> (c <= 2))
         /\ (Room("encoding_nodes", c, m) <=> (2 * c <= m - 1)) /\ (Room("encoding_node", c, m) <=> (2 * c <= m - 1))
         /\ (Room("encoding_field", c, m) <=> (2 * c <= m - 1))
         /\ (Room("encoding_delta_block", c, m) <=> (2 * c <= m - 1))
         /\ (Room("delta_fields", c, m) <=> (2 * c <= m - 2))
         /\ (Room("encoding_id", c, m) <=> (2 * c <= 4 \/ 2 * c <= m - 2))
         /\ Room("return", c, m)
<1>1. \A i \in Terminals : (Room(i, c, m) <=> (2 * c <= 10 \/ 2 * c <= m + 1))
  BY DEF Room, Terminals, Symbols
<1> QED
  BY <1>1 DEF Room, Terminals, Symbols

OweRule ==
  {r \in Items \X (Nat \X Nat) \X (Nat \X Nat) :
     /\ r[2][1] <= r[3][1] + Need(r[1])
     /\ Room(r[1], r[2][2], r[3][1])
     /\ r[3][2] = Need(r[1]) + r[2][2]}

\* After m symbols, a stack needs c symbols: <<m, c>> \in Owes(t).
Owes(t) == Runs(Nat \X Nat, Nat \X {0}, OweRule, t)

\* Owes has pairs of numbers.
LEMMA OwesType == ASSUME NEW t, NEW p \in Owes(t) PROVE p \in Nat \X Nat
  BY RunsVals DEF Owes

\* The empty stack owes nothing.
LEMMA OwesEmpty == \A m \in Nat : <<m, 0>> \in Owes(<<>>)
<1>1. Nat \X {0} \in SUBSET (Nat \X Nat)
  OBVIOUS
<1> QED
  BY <1>1, RunsBase DEF Owes

\* An item in front owes what it needs, if there is room for what comes after it.
LEMMA OwesCons ==
  ASSUME NEW t \in Stacks, NEW i \in Items, NEW m \in Nat, NEW n \in Nat, NEW c \in Nat,
         <<n, c>> \in Owes(t), n <= m + Need(i), Room(i, c, m)
  PROVE  <<m, Need(i) + c>> \in Owes(<<i>> \o t)
<1>1. Need(i) + c \in Nat
  BY NeedNat
<1> DEFINE p == <<n, c>>
           q == <<m, Need(i) + c>>
<1>2. p \in Nat \X Nat /\ q \in Nat \X Nat
  BY <1>1
<1>3. p[1] = n /\ p[2] = c /\ q[1] = m /\ q[2] = Need(i) + c
  OBVIOUS
<1>4. p \in Owes(t)
  OBVIOUS
<1> HIDE DEF p, q
<1>5. <<i, p, q>> \in OweRule
  BY <1>2, <1>3 DEF OweRule
<1>6. q \in Owes(<<i>> \o t)
  BY <1>2, <1>4, <1>5, RunsCons DEF Owes
<1> QED
  BY <1>6 DEF q

\* What a stack owes is what its first item needs and what its rest owes.
LEMMA OwesInvert ==
  ASSUME NEW t \in Stacks, NEW i \in Items, NEW m \in Nat, NEW c \in Nat, <<m, c>> \in Owes(<<i>> \o t)
  PROVE  \E n \in Nat : \E d \in Nat :
           <<n, d>> \in Owes(t) /\ n <= m + Need(i) /\ Room(i, d, m) /\ c = Need(i) + d
<1>1. Nat \X {0} \in SUBSET (Nat \X Nat)
  OBVIOUS
<1> DEFINE q == <<m, c>>
<1>2. q \in Owes(<<i>> \o t) /\ q[1] = m /\ q[2] = c
  OBVIOUS
<1> HIDE DEF q
<1>3. PICK p \in Owes(t) : <<i, p, q>> \in OweRule
  BY <1>1, <1>2, RunsInvert DEF Owes
<1>4. p \in Nat \X Nat
  BY OwesType
<1>5. p[1] \in Nat /\ p[2] \in Nat /\ p = <<p[1], p[2]>>
  BY <1>4
<1>6. p[1] <= m + Need(i) /\ Room(i, p[2], m) /\ c = Need(i) + p[2]
  BY <1>2, <1>3 DEF OweRule
<1>7. <<p[1], p[2]>> \in Owes(t)
  BY <1>5
<1> QED
  BY <1>5, <1>6, <1>7

\* More symbols leave more room.
LEMMA RoomMore ==
  ASSUME NEW i \in Items, NEW c \in Nat, NEW m \in Nat, NEW n \in Nat, m <= n, Room(i, c, m)
  PROVE  Room(i, c, n)
<1>1. CASE i \in Terminals
  <2>1. Room(i, c, m) <=> (2 * c <= 10 \/ 2 * c <= m + 1)
    BY <1>1 DEF Room, Terminals, Symbols
  <2>2. Room(i, c, n) <=> (2 * c <= 10 \/ 2 * c <= n + 1)
    BY <1>1 DEF Room, Terminals, Symbols
  <2> QED
    BY <2>1, <2>2
<1>2. CASE i \in {"document", "includes", "namespace", "declarations", "include", "struct", "mapping", "encoding"}
  <2>1. Room(i, c, m) <=> (c = 0)
    BY <1>2 DEF Room, Terminals, Symbols
  <2>2. Room(i, c, n) <=> (c = 0)
    BY <1>2 DEF Room, Terminals, Symbols
  <2> QED
    BY <2>1, <2>2
<1>3. CASE i \in {"struct_fields", "mapping_fields", "struct_field", "mapping_field", "type", "array"}
  <2>1. Room(i, c, m) <=> (c <= 1)
    BY <1>3 DEF Room, Terminals, Symbols
  <2>2. Room(i, c, n) <=> (c <= 1)
    BY <1>3 DEF Room, Terminals, Symbols
  <2> QED
    BY <2>1, <2>2
<1>4. CASE i \in {"qualified_identifier", "more_identifiers"}
  <2>1. Room(i, c, m) <=> (c <= 2)
    BY <1>4 DEF Room, Terminals, Symbols
  <2>2. Room(i, c, n) <=> (c <= 2)
    BY <1>4 DEF Room, Terminals, Symbols
  <2> QED
    BY <2>1, <2>2
<1>5. CASE i \in {"encoding_nodes", "encoding_node", "encoding_field", "encoding_delta_block"}
  <2>1. Room(i, c, m) <=> (2 * c <= m - 1)
    BY <1>5 DEF Room, Terminals, Symbols
  <2>2. Room(i, c, n) <=> (2 * c <= n - 1)
    BY <1>5 DEF Room, Terminals, Symbols
  <2> QED
    BY <2>1, <2>2
<1>6. CASE i = "delta_fields"
  <2>1. Room(i, c, m) <=> (2 * c <= m - 2)
    BY <1>6 DEF Room, Terminals, Symbols
  <2>2. Room(i, c, n) <=> (2 * c <= n - 2)
    BY <1>6 DEF Room, Terminals, Symbols
  <2> QED
    BY <2>1, <2>2
<1>7. CASE i = "encoding_id"
  <2>1. Room(i, c, m) <=> (2 * c <= 4 \/ 2 * c <= m - 2)
    BY <1>7 DEF Room, Terminals, Symbols
  <2>2. Room(i, c, n) <=> (2 * c <= 4 \/ 2 * c <= n - 2)
    BY <1>7 DEF Room, Terminals, Symbols
  <2> QED
    BY <2>1, <2>2
<1>8. CASE i \in {"return", "unexpected"}
  <2>1. Room(i, c, m) <=> (TRUE)
    BY <1>8 DEF Room, Terminals, Symbols
  <2>2. Room(i, c, n) <=> (TRUE)
    BY <1>8 DEF Room, Terminals, Symbols
  <2> QED
    BY <2>1, <2>2
<1> QED
  BY <1>1, <1>2, <1>3, <1>4, <1>5, <1>6, <1>7, <1>8, ItemsAre DEF Items, Branches

\* Symbols that have already come make room.
LEMMA OwesMore ==
  ASSUME NEW t \in Stacks, NEW m \in Nat, NEW c \in Nat, <<m, c>> \in Owes(t), NEW n \in Nat, m <= n
  PROVE  <<n, c>> \in Owes(t)
<1>1. CASE t = <<>>
  <2>1. Nat \X {0} \in SUBSET (Nat \X Nat)
    OBVIOUS
  <2>2. <<m, c>> \in Nat \X {0}
    BY <1>1, <2>1, RunsInvert DEF Owes
  <2> QED
    BY <1>1, <2>2, OwesEmpty
<1>2. CASE t # <<>>
  <2>1. PICK i \in Items, u \in Stacks : t = <<i>> \o u
    BY <1>2, StackHead
  <2>2. PICK k \in Nat, d \in Nat : <<k, d>> \in Owes(u) /\ k <= m + Need(i) /\ Room(i, d, m) /\ c = Need(i) + d
    BY <2>1, OwesInvert
  <2>3. k <= n + Need(i) /\ Room(i, d, n)
    BY <2>2, RoomMore, NeedNat
  <2> QED
    BY <2>1, <2>2, <2>3, OwesCons
<1> QED
  BY <1>1, <1>2

\* OwesCons, with the sum by name.
LEMMA OwesItem ==
  ASSUME NEW t \in Stacks, NEW i \in Items, NEW m \in Nat, NEW n \in Nat, NEW c \in Nat,
         NEW k \in Nat, NEW q \in Nat,
         <<n, c>> \in Owes(t), Need(i) = k, n <= m + k, Room(i, c, m), q = k + c
  PROVE  <<m, q>> \in Owes(<<i>> \o t) /\ <<i>> \o t \in Stacks
<1>1. <<m, Need(i) + c>> \in Owes(<<i>> \o t)
  BY OwesCons
<1> QED
  BY <1>1, StackCons

\* OwesItem of a symbol.
LEMMA OwesTerminal ==
  ASSUME NEW t \in Stacks, NEW i \in Terminals, NEW m \in Nat, NEW n \in Nat, NEW c \in Nat, NEW q \in Nat,
         <<n, c>> \in Owes(t), n <= m + 1, 2 * c <= 10 \/ 2 * c <= m + 1, q = 1 + c
  PROVE  <<m, q>> \in Owes(<<i>> \o t) /\ <<i>> \o t \in Stacks
<1>1. i \in Items /\ Need(i) = 1
  BY ItemsAre, NeedIs
<1>2. Room(i, c, m)
  BY RoomIs
<1> QED
  BY <1>1, <1>2, OwesItem

\* OwesItem of a return, which needs nothing.
LEMMA OwesReturn ==
  ASSUME NEW t \in Stacks, NEW m \in Nat, NEW n \in Nat, NEW c \in Nat, NEW q \in Nat,
         <<n, c>> \in Owes(t), n <= m, q = c
  PROVE  <<m, q>> \in Owes(<<"return">> \o t) /\ <<"return">> \o t \in Stacks
<1>1. "return" \in Items /\ Need("return") = 0
  BY ItemsAre, NeedIs
<1>2. Room("return", c, m)
  BY RoomIs
<1> QED
  BY <1>1, <1>2, OwesItem

\* Calling a function that returns a node leaves room.
LEMMA OwesNode ==
  ASSUME NEW t \in Stacks, NEW k \in DOMAIN Node, NEW m \in Nat, NEW c \in Nat, <<m, c>> \in Owes(<<k>> \o t)
  PROVE  \E q \in Nat : <<m, q>> \in Owes(Node[k] \o t)
<1>0. k \in Items
  BY ItemsAre
<1>1. PICK n \in Nat, d \in Nat : <<n, d>> \in Owes(t) /\ n <= m + Need(k) /\ Room(k, d, m)
  BY <1>0, OwesInvert
<1>2. CASE k = "include"
  <2>0. n <= m + 2 /\ d = 0 /\ <<n, d>> \in Owes(t)
    BY <1>1, <1>2, NeedIs, RoomIs
  <2> DEFINE v2 == <<"return">> \o t
             m2 == m + 2
             c2 == d + 0
  <2>a2. m2 \in Nat /\ c2 \in Nat /\ m2 = m + 2 /\ c2 = d + 0
    OBVIOUS
  <2> HIDE DEF m2, c2
  <2>b2. n <= m2 /\ c2 = d
    BY <2>0, <2>a2
  <2>c2. <<m2, c2>> \in Owes(v2) /\ v2 \in Stacks
    BY <2>0, <2>a2, <2>b2, OwesReturn
  <2> HIDE DEF v2
  <2> DEFINE v1 == <<"string">> \o v2
             m1 == m + 1
             c1 == d + 1
  <2>a1. m1 \in Nat /\ c1 \in Nat /\ m1 = m + 1 /\ c1 = d + 1
    OBVIOUS
  <2> HIDE DEF m1, c1
  <2>b1. m2 <= m1 + 1 /\ (2 * c2 <= 10 \/ 2 * c2 <= m1 + 1) /\ c1 = 1 + c2
    BY <2>0, <2>a1, <2>a2
  <2>c1. <<m1, c1>> \in Owes(v1) /\ v1 \in Stacks
    BY <2>c2, <2>a1, <2>b1, Lexemes, OwesTerminal, <2>a2
  <2> HIDE DEF v1
  <2> DEFINE v0 == <<"include_kw">> \o v1
             c0 == d + 2
  <2>a0. c0 \in Nat /\ c0 = d + 2
    OBVIOUS
  <2> HIDE DEF c0
  <2>b0. m1 <= m + 1 /\ (2 * c1 <= 10 \/ 2 * c1 <= m + 1) /\ c0 = 1 + c1
    BY <2>0, <2>a0, <2>a1
  <2>c0. <<m, c0>> \in Owes(v0) /\ v0 \in Stacks
    BY <2>c1, <2>a0, <2>b0, Lexemes, OwesTerminal, <2>a1
  <2> HIDE DEF v0
  <2>1. Node[k] \o t = v0
    BY <1>2, Bodies DEF v0, v1, v2
  <2> QED
    BY Zenon, <2>a0, <2>c0, <2>1
<1>3. CASE k = "struct"
  <2>0. n <= m + 4 /\ d = 0 /\ <<n, d>> \in Owes(t)
    BY <1>1, <1>3, NeedIs, RoomIs
  <2> DEFINE v5 == <<"return">> \o t
             m5 == m + 4
             c5 == d + 0
  <2>a5. m5 \in Nat /\ c5 \in Nat /\ m5 = m + 4 /\ c5 = d + 0
    OBVIOUS
  <2> HIDE DEF m5, c5
  <2>b5. n <= m5 /\ c5 = d
    BY <2>0, <2>a5
  <2>c5. <<m5, c5>> \in Owes(v5) /\ v5 \in Stacks
    BY <2>0, <2>a5, <2>b5, OwesReturn
  <2> HIDE DEF v5
  <2> DEFINE v4 == <<"curly_close">> \o v5
             m4 == m + 3
             c4 == d + 1
  <2>a4. m4 \in Nat /\ c4 \in Nat /\ m4 = m + 3 /\ c4 = d + 1
    OBVIOUS
  <2> HIDE DEF m4, c4
  <2>b4. m5 <= m4 + 1 /\ (2 * c5 <= 10 \/ 2 * c5 <= m4 + 1) /\ c4 = 1 + c5
    BY <2>0, <2>a4, <2>a5
  <2>c4. <<m4, c4>> \in Owes(v4) /\ v4 \in Stacks
    BY <2>c5, <2>a4, <2>b4, Lexemes, OwesTerminal, <2>a5
  <2> HIDE DEF v4
  <2> DEFINE v3 == <<"struct_fields">> \o v4
             m3 == m + 3
             c3 == d + 1
  <2>a3. m3 \in Nat /\ c3 \in Nat /\ m3 = m + 3 /\ c3 = d + 1
    OBVIOUS
  <2> HIDE DEF m3, c3
  <2>b3. m4 <= m3 + 0 /\ c4 <= 1 /\ c3 = 0 + c4
    BY <2>0, <2>a3, <2>a4
  <2>c3. <<m3, c3>> \in Owes(v3) /\ v3 \in Stacks
    <3>1. "struct_fields" \in Items /\ Need("struct_fields") = 0
      BY ItemsAre, NeedIs
    <3>2. Room("struct_fields", c4, m3)
      BY <2>b3, RoomIs
    <3> QED
      BY <2>c4, <2>a3, <2>b3, <3>1, <3>2, OwesItem, <2>a4
  <2> HIDE DEF v3
  <2> DEFINE v2 == <<"curly_open">> \o v3
             m2 == m + 2
             c2 == d + 2
  <2>a2. m2 \in Nat /\ c2 \in Nat /\ m2 = m + 2 /\ c2 = d + 2
    OBVIOUS
  <2> HIDE DEF m2, c2
  <2>b2. m3 <= m2 + 1 /\ (2 * c3 <= 10 \/ 2 * c3 <= m2 + 1) /\ c2 = 1 + c3
    BY <2>0, <2>a2, <2>a3
  <2>c2. <<m2, c2>> \in Owes(v2) /\ v2 \in Stacks
    BY <2>c3, <2>a2, <2>b2, Lexemes, OwesTerminal, <2>a3
  <2> HIDE DEF v2
  <2> DEFINE v1 == <<"identifier">> \o v2
             m1 == m + 1
             c1 == d + 3
  <2>a1. m1 \in Nat /\ c1 \in Nat /\ m1 = m + 1 /\ c1 = d + 3
    OBVIOUS
  <2> HIDE DEF m1, c1
  <2>b1. m2 <= m1 + 1 /\ (2 * c2 <= 10 \/ 2 * c2 <= m1 + 1) /\ c1 = 1 + c2
    BY <2>0, <2>a1, <2>a2
  <2>c1. <<m1, c1>> \in Owes(v1) /\ v1 \in Stacks
    BY <2>c2, <2>a1, <2>b1, Lexemes, OwesTerminal, <2>a2
  <2> HIDE DEF v1
  <2> DEFINE v0 == <<"struct_kw">> \o v1
             c0 == d + 4
  <2>a0. c0 \in Nat /\ c0 = d + 4
    OBVIOUS
  <2> HIDE DEF c0
  <2>b0. m1 <= m + 1 /\ (2 * c1 <= 10 \/ 2 * c1 <= m + 1) /\ c0 = 1 + c1
    BY <2>0, <2>a0, <2>a1
  <2>c0. <<m, c0>> \in Owes(v0) /\ v0 \in Stacks
    BY <2>c1, <2>a0, <2>b0, Lexemes, OwesTerminal, <2>a1
  <2> HIDE DEF v0
  <2>1. Node[k] \o t = v0
    BY <1>3, Bodies DEF v0, v1, v2, v3, v4, v5
  <2> QED
    BY Zenon, <2>a0, <2>c0, <2>1
<1>4. CASE k = "struct_field"
  <2>0. n <= m + 3 /\ d <= 1 /\ <<n, d>> \in Owes(t)
    BY <1>1, <1>4, NeedIs, RoomIs
  <2> DEFINE v3 == <<"return">> \o t
             m3 == m + 3
             c3 == d + 0
  <2>a3. m3 \in Nat /\ c3 \in Nat /\ m3 = m + 3 /\ c3 = d + 0
    OBVIOUS
  <2> HIDE DEF m3, c3
  <2>b3. n <= m3 /\ c3 = d
    BY <2>0, <2>a3
  <2>c3. <<m3, c3>> \in Owes(v3) /\ v3 \in Stacks
    BY <2>0, <2>a3, <2>b3, OwesReturn
  <2> HIDE DEF v3
  <2> DEFINE v2 == <<"type">> \o v3
             m2 == m + 2
             c2 == d + 1
  <2>a2. m2 \in Nat /\ c2 \in Nat /\ m2 = m + 2 /\ c2 = d + 1
    OBVIOUS
  <2> HIDE DEF m2, c2
  <2>b2. m3 <= m2 + 1 /\ c3 <= 1 /\ c2 = 1 + c3
    BY <2>0, <2>a2, <2>a3
  <2>c2. <<m2, c2>> \in Owes(v2) /\ v2 \in Stacks
    <3>1. "type" \in Items /\ Need("type") = 1
      BY ItemsAre, NeedIs
    <3>2. Room("type", c3, m2)
      BY <2>b2, RoomIs
    <3> QED
      BY <2>c3, <2>a2, <2>b2, <3>1, <3>2, OwesItem, <2>a3
  <2> HIDE DEF v2
  <2> DEFINE v1 == <<"colon">> \o v2
             m1 == m + 1
             c1 == d + 2
  <2>a1. m1 \in Nat /\ c1 \in Nat /\ m1 = m + 1 /\ c1 = d + 2
    OBVIOUS
  <2> HIDE DEF m1, c1
  <2>b1. m2 <= m1 + 1 /\ (2 * c2 <= 10 \/ 2 * c2 <= m1 + 1) /\ c1 = 1 + c2
    BY <2>0, <2>a1, <2>a2
  <2>c1. <<m1, c1>> \in Owes(v1) /\ v1 \in Stacks
    BY <2>c2, <2>a1, <2>b1, Lexemes, OwesTerminal, <2>a2
  <2> HIDE DEF v1
  <2> DEFINE v0 == <<"identifier">> \o v1
             c0 == d + 3
  <2>a0. c0 \in Nat /\ c0 = d + 3
    OBVIOUS
  <2> HIDE DEF c0
  <2>b0. m1 <= m + 1 /\ (2 * c1 <= 10 \/ 2 * c1 <= m + 1) /\ c0 = 1 + c1
    BY <2>0, <2>a0, <2>a1
  <2>c0. <<m, c0>> \in Owes(v0) /\ v0 \in Stacks
    BY <2>c1, <2>a0, <2>b0, Lexemes, OwesTerminal, <2>a1
  <2> HIDE DEF v0
  <2>1. Node[k] \o t = v0
    BY <1>4, Bodies DEF v0, v1, v2, v3
  <2> QED
    BY Zenon, <2>a0, <2>c0, <2>1
<1>5. CASE k = "mapping"
  <2>0. n <= m + 6 /\ d = 0 /\ <<n, d>> \in Owes(t)
    BY <1>1, <1>5, NeedIs, RoomIs
  <2> DEFINE v7 == <<"return">> \o t
             m7 == m + 6
             c7 == d + 0
  <2>a7. m7 \in Nat /\ c7 \in Nat /\ m7 = m + 6 /\ c7 = d + 0
    OBVIOUS
  <2> HIDE DEF m7, c7
  <2>b7. n <= m7 /\ c7 = d
    BY <2>0, <2>a7
  <2>c7. <<m7, c7>> \in Owes(v7) /\ v7 \in Stacks
    BY <2>0, <2>a7, <2>b7, OwesReturn
  <2> HIDE DEF v7
  <2> DEFINE v6 == <<"curly_close">> \o v7
             m6 == m + 5
             c6 == d + 1
  <2>a6. m6 \in Nat /\ c6 \in Nat /\ m6 = m + 5 /\ c6 = d + 1
    OBVIOUS
  <2> HIDE DEF m6, c6
  <2>b6. m7 <= m6 + 1 /\ (2 * c7 <= 10 \/ 2 * c7 <= m6 + 1) /\ c6 = 1 + c7
    BY <2>0, <2>a6, <2>a7
  <2>c6. <<m6, c6>> \in Owes(v6) /\ v6 \in Stacks
    BY <2>c7, <2>a6, <2>b6, Lexemes, OwesTerminal, <2>a7
  <2> HIDE DEF v6
  <2> DEFINE v5 == <<"mapping_fields">> \o v6
             m5 == m + 5
             c5 == d + 1
  <2>a5. m5 \in Nat /\ c5 \in Nat /\ m5 = m + 5 /\ c5 = d + 1
    OBVIOUS
  <2> HIDE DEF m5, c5
  <2>b5. m6 <= m5 + 0 /\ c6 <= 1 /\ c5 = 0 + c6
    BY <2>0, <2>a5, <2>a6
  <2>c5. <<m5, c5>> \in Owes(v5) /\ v5 \in Stacks
    <3>1. "mapping_fields" \in Items /\ Need("mapping_fields") = 0
      BY ItemsAre, NeedIs
    <3>2. Room("mapping_fields", c6, m5)
      BY <2>b5, RoomIs
    <3> QED
      BY <2>c6, <2>a5, <2>b5, <3>1, <3>2, OwesItem, <2>a6
  <2> HIDE DEF v5
  <2> DEFINE v4 == <<"curly_open">> \o v5
             m4 == m + 4
             c4 == d + 2
  <2>a4. m4 \in Nat /\ c4 \in Nat /\ m4 = m + 4 /\ c4 = d + 2
    OBVIOUS
  <2> HIDE DEF m4, c4
  <2>b4. m5 <= m4 + 1 /\ (2 * c5 <= 10 \/ 2 * c5 <= m4 + 1) /\ c4 = 1 + c5
    BY <2>0, <2>a4, <2>a5
  <2>c4. <<m4, c4>> \in Owes(v4) /\ v4 \in Stacks
    BY <2>c5, <2>a4, <2>b4, Lexemes, OwesTerminal, <2>a5
  <2> HIDE DEF v4
  <2> DEFINE v3 == <<"qualified_identifier">> \o v4
             m3 == m + 3
             c3 == d + 3
  <2>a3. m3 \in Nat /\ c3 \in Nat /\ m3 = m + 3 /\ c3 = d + 3
    OBVIOUS
  <2> HIDE DEF m3, c3
  <2>b3. m4 <= m3 + 1 /\ c4 <= 2 /\ c3 = 1 + c4
    BY <2>0, <2>a3, <2>a4
  <2>c3. <<m3, c3>> \in Owes(v3) /\ v3 \in Stacks
    <3>1. "qualified_identifier" \in Items /\ Need("qualified_identifier") = 1
      BY ItemsAre, NeedIs
    <3>2. Room("qualified_identifier", c4, m3)
      BY <2>b3, RoomIs
    <3> QED
      BY <2>c4, <2>a3, <2>b3, <3>1, <3>2, OwesItem, <2>a4
  <2> HIDE DEF v3
  <2> DEFINE v2 == <<"colon">> \o v3
             m2 == m + 2
             c2 == d + 4
  <2>a2. m2 \in Nat /\ c2 \in Nat /\ m2 = m + 2 /\ c2 = d + 4
    OBVIOUS
  <2> HIDE DEF m2, c2
  <2>b2. m3 <= m2 + 1 /\ (2 * c3 <= 10 \/ 2 * c3 <= m2 + 1) /\ c2 = 1 + c3
    BY <2>0, <2>a2, <2>a3
  <2>c2. <<m2, c2>> \in Owes(v2) /\ v2 \in Stacks
    BY <2>c3, <2>a2, <2>b2, Lexemes, OwesTerminal, <2>a3
  <2> HIDE DEF v2
  <2> DEFINE v1 == <<"identifier">> \o v2
             m1 == m + 1
             c1 == d + 5
  <2>a1. m1 \in Nat /\ c1 \in Nat /\ m1 = m + 1 /\ c1 = d + 5
    OBVIOUS
  <2> HIDE DEF m1, c1
  <2>b1. m2 <= m1 + 1 /\ (2 * c2 <= 10 \/ 2 * c2 <= m1 + 1) /\ c1 = 1 + c2
    BY <2>0, <2>a1, <2>a2
  <2>c1. <<m1, c1>> \in Owes(v1) /\ v1 \in Stacks
    BY <2>c2, <2>a1, <2>b1, Lexemes, OwesTerminal, <2>a2
  <2> HIDE DEF v1
  <2> DEFINE v0 == <<"mapping_kw">> \o v1
             c0 == d + 6
  <2>a0. c0 \in Nat /\ c0 = d + 6
    OBVIOUS
  <2> HIDE DEF c0
  <2>b0. m1 <= m + 1 /\ (2 * c1 <= 10 \/ 2 * c1 <= m + 1) /\ c0 = 1 + c1
    BY <2>0, <2>a0, <2>a1
  <2>c0. <<m, c0>> \in Owes(v0) /\ v0 \in Stacks
    BY <2>c1, <2>a0, <2>b0, Lexemes, OwesTerminal, <2>a1
  <2> HIDE DEF v0
  <2>1. Node[k] \o t = v0
    BY <1>5, Bodies DEF v0, v1, v2, v3, v4, v5, v6, v7
  <2> QED
    BY Zenon, <2>a0, <2>c0, <2>1
<1>6. CASE k = "mapping_field"
  <2>0. n <= m + 3 /\ d <= 1 /\ <<n, d>> \in Owes(t)
    BY <1>1, <1>6, NeedIs, RoomIs
  <2> DEFINE v3 == <<"return">> \o t
             m3 == m + 3
             c3 == d + 0
  <2>a3. m3 \in Nat /\ c3 \in Nat /\ m3 = m + 3 /\ c3 = d + 0
    OBVIOUS
  <2> HIDE DEF m3, c3
  <2>b3. n <= m3 /\ c3 = d
    BY <2>0, <2>a3
  <2>c3. <<m3, c3>> \in Owes(v3) /\ v3 \in Stacks
    BY <2>0, <2>a3, <2>b3, OwesReturn
  <2> HIDE DEF v3
  <2> DEFINE v2 == <<"string">> \o v3
             m2 == m + 2
             c2 == d + 1
  <2>a2. m2 \in Nat /\ c2 \in Nat /\ m2 = m + 2 /\ c2 = d + 1
    OBVIOUS
  <2> HIDE DEF m2, c2
  <2>b2. m3 <= m2 + 1 /\ (2 * c3 <= 10 \/ 2 * c3 <= m2 + 1) /\ c2 = 1 + c3
    BY <2>0, <2>a2, <2>a3
  <2>c2. <<m2, c2>> \in Owes(v2) /\ v2 \in Stacks
    BY <2>c3, <2>a2, <2>b2, Lexemes, OwesTerminal, <2>a3
  <2> HIDE DEF v2
  <2> DEFINE v1 == <<"colon">> \o v2
             m1 == m + 1
             c1 == d + 2
  <2>a1. m1 \in Nat /\ c1 \in Nat /\ m1 = m + 1 /\ c1 = d + 2
    OBVIOUS
  <2> HIDE DEF m1, c1
  <2>b1. m2 <= m1 + 1 /\ (2 * c2 <= 10 \/ 2 * c2 <= m1 + 1) /\ c1 = 1 + c2
    BY <2>0, <2>a1, <2>a2
  <2>c1. <<m1, c1>> \in Owes(v1) /\ v1 \in Stacks
    BY <2>c2, <2>a1, <2>b1, Lexemes, OwesTerminal, <2>a2
  <2> HIDE DEF v1
  <2> DEFINE v0 == <<"identifier">> \o v1
             c0 == d + 3
  <2>a0. c0 \in Nat /\ c0 = d + 3
    OBVIOUS
  <2> HIDE DEF c0
  <2>b0. m1 <= m + 1 /\ (2 * c1 <= 10 \/ 2 * c1 <= m + 1) /\ c0 = 1 + c1
    BY <2>0, <2>a0, <2>a1
  <2>c0. <<m, c0>> \in Owes(v0) /\ v0 \in Stacks
    BY <2>c1, <2>a0, <2>b0, Lexemes, OwesTerminal, <2>a1
  <2> HIDE DEF v0
  <2>1. Node[k] \o t = v0
    BY <1>6, Bodies DEF v0, v1, v2, v3
  <2> QED
    BY Zenon, <2>a0, <2>c0, <2>1
<1>7. CASE k = "encoding"
  <2>0. n <= m + 4 /\ d = 0 /\ <<n, d>> \in Owes(t)
    BY <1>1, <1>7, NeedIs, RoomIs
  <2> DEFINE v6 == <<"return">> \o t
             m6 == m + 4
             c6 == d + 0
  <2>a6. m6 \in Nat /\ c6 \in Nat /\ m6 = m + 4 /\ c6 = d + 0
    OBVIOUS
  <2> HIDE DEF m6, c6
  <2>b6. n <= m6 /\ c6 = d
    BY <2>0, <2>a6
  <2>c6. <<m6, c6>> \in Owes(v6) /\ v6 \in Stacks
    BY <2>0, <2>a6, <2>b6, OwesReturn
  <2> HIDE DEF v6
  <2> DEFINE v5 == <<"curly_close">> \o v6
             m5 == m + 3
             c5 == d + 1
  <2>a5. m5 \in Nat /\ c5 \in Nat /\ m5 = m + 3 /\ c5 = d + 1
    OBVIOUS
  <2> HIDE DEF m5, c5
  <2>b5. m6 <= m5 + 1 /\ (2 * c6 <= 10 \/ 2 * c6 <= m5 + 1) /\ c5 = 1 + c6
    BY <2>0, <2>a5, <2>a6
  <2>c5. <<m5, c5>> \in Owes(v5) /\ v5 \in Stacks
    BY <2>c6, <2>a5, <2>b5, Lexemes, OwesTerminal, <2>a6
  <2> HIDE DEF v5
  <2> DEFINE v4 == <<"encoding_nodes">> \o v5
             m4 == m + 3
             c4 == d + 1
  <2>a4. m4 \in Nat /\ c4 \in Nat /\ m4 = m + 3 /\ c4 = d + 1
    OBVIOUS
  <2> HIDE DEF m4, c4
  <2>b4. m5 <= m4 + 0 /\ 2 * c5 <= m4 - 1 /\ c4 = 0 + c5
    BY <2>0, <2>a4, <2>a5
  <2>c4. <<m4, c4>> \in Owes(v4) /\ v4 \in Stacks
    <3>1. "encoding_nodes" \in Items /\ Need("encoding_nodes") = 0
      BY ItemsAre, NeedIs
    <3>2. Room("encoding_nodes", c5, m4)
      BY <2>b4, RoomIs
    <3> QED
      BY <2>c5, <2>a4, <2>b4, <3>1, <3>2, OwesItem, <2>a5
  <2> HIDE DEF v4
  <2> DEFINE v3 == <<"curly_open">> \o v4
             m3 == m + 2
             c3 == d + 2
  <2>a3. m3 \in Nat /\ c3 \in Nat /\ m3 = m + 2 /\ c3 = d + 2
    OBVIOUS
  <2> HIDE DEF m3, c3
  <2>b3. m4 <= m3 + 1 /\ (2 * c4 <= 10 \/ 2 * c4 <= m3 + 1) /\ c3 = 1 + c4
    BY <2>0, <2>a3, <2>a4
  <2>c3. <<m3, c3>> \in Owes(v3) /\ v3 \in Stacks
    BY <2>c4, <2>a3, <2>b3, Lexemes, OwesTerminal, <2>a4
  <2> HIDE DEF v3
  <2> DEFINE v2 == <<"encoding_id">> \o v3
             m2 == m + 2
             c2 == d + 2
  <2>a2. m2 \in Nat /\ c2 \in Nat /\ m2 = m + 2 /\ c2 = d + 2
    OBVIOUS
  <2> HIDE DEF m2, c2
  <2>b2. m3 <= m2 + 0 /\ (2 * c3 <= 4 \/ 2 * c3 <= m2 - 2) /\ c2 = 0 + c3
    BY <2>0, <2>a2, <2>a3
  <2>c2. <<m2, c2>> \in Owes(v2) /\ v2 \in Stacks
    <3>1. "encoding_id" \in Items /\ Need("encoding_id") = 0
      BY ItemsAre, NeedIs
    <3>2. Room("encoding_id", c3, m2)
      BY <2>b2, RoomIs
    <3> QED
      BY <2>c3, <2>a2, <2>b2, <3>1, <3>2, OwesItem, <2>a3
  <2> HIDE DEF v2
  <2> DEFINE v1 == <<"identifier">> \o v2
             m1 == m + 1
             c1 == d + 3
  <2>a1. m1 \in Nat /\ c1 \in Nat /\ m1 = m + 1 /\ c1 = d + 3
    OBVIOUS
  <2> HIDE DEF m1, c1
  <2>b1. m2 <= m1 + 1 /\ (2 * c2 <= 10 \/ 2 * c2 <= m1 + 1) /\ c1 = 1 + c2
    BY <2>0, <2>a1, <2>a2
  <2>c1. <<m1, c1>> \in Owes(v1) /\ v1 \in Stacks
    BY <2>c2, <2>a1, <2>b1, Lexemes, OwesTerminal, <2>a2
  <2> HIDE DEF v1
  <2> DEFINE v0 == <<"encoding_kw">> \o v1
             c0 == d + 4
  <2>a0. c0 \in Nat /\ c0 = d + 4
    OBVIOUS
  <2> HIDE DEF c0
  <2>b0. m1 <= m + 1 /\ (2 * c1 <= 10 \/ 2 * c1 <= m + 1) /\ c0 = 1 + c1
    BY <2>0, <2>a0, <2>a1
  <2>c0. <<m, c0>> \in Owes(v0) /\ v0 \in Stacks
    BY <2>c1, <2>a0, <2>b0, Lexemes, OwesTerminal, <2>a1
  <2> HIDE DEF v0
  <2>1. Node[k] \o t = v0
    BY <1>7, Bodies DEF v0, v1, v2, v3, v4, v5, v6
  <2> QED
    BY Zenon, <2>a0, <2>c0, <2>1
<1>8. CASE k = "encoding_field"
  <2>0. n <= m + 1 /\ 2 * d <= m - 1 /\ <<n, d>> \in Owes(t)
    BY <1>1, <1>8, NeedIs, RoomIs
  <2> DEFINE v2 == <<"return">> \o t
             m2 == m + 1
             c2 == d + 0
  <2>a2. m2 \in Nat /\ c2 \in Nat /\ m2 = m + 1 /\ c2 = d + 0
    OBVIOUS
  <2> HIDE DEF m2, c2
  <2>b2. n <= m2 /\ c2 = d
    BY <2>0, <2>a2
  <2>c2. <<m2, c2>> \in Owes(v2) /\ v2 \in Stacks
    BY <2>0, <2>a2, <2>b2, OwesReturn
  <2> HIDE DEF v2
  <2> DEFINE v1 == <<"encoding_id">> \o v2
             m1 == m + 1
             c1 == d + 0
  <2>a1. m1 \in Nat /\ c1 \in Nat /\ m1 = m + 1 /\ c1 = d + 0
    OBVIOUS
  <2> HIDE DEF m1, c1
  <2>b1. m2 <= m1 + 0 /\ (2 * c2 <= 4 \/ 2 * c2 <= m1 - 2) /\ c1 = 0 + c2
    BY <2>0, <2>a1, <2>a2
  <2>c1. <<m1, c1>> \in Owes(v1) /\ v1 \in Stacks
    <3>1. "encoding_id" \in Items /\ Need("encoding_id") = 0
      BY ItemsAre, NeedIs
    <3>2. Room("encoding_id", c2, m1)
      BY <2>b1, RoomIs
    <3> QED
      BY <2>c2, <2>a1, <2>b1, <3>1, <3>2, OwesItem, <2>a2
  <2> HIDE DEF v1
  <2> DEFINE v0 == <<"identifier">> \o v1
             c0 == d + 1
  <2>a0. c0 \in Nat /\ c0 = d + 1
    OBVIOUS
  <2> HIDE DEF c0
  <2>b0. m1 <= m + 1 /\ (2 * c1 <= 10 \/ 2 * c1 <= m + 1) /\ c0 = 1 + c1
    BY <2>0, <2>a0, <2>a1
  <2>c0. <<m, c0>> \in Owes(v0) /\ v0 \in Stacks
    BY <2>c1, <2>a0, <2>b0, Lexemes, OwesTerminal, <2>a1
  <2> HIDE DEF v0
  <2>1. Node[k] \o t = v0
    BY <1>8, Bodies DEF v0, v1, v2
  <2> QED
    BY Zenon, <2>a0, <2>c0, <2>1
<1>9. CASE k = "encoding_delta_block"
  <2>0. n <= m + 2 /\ 2 * d <= m - 1 /\ <<n, d>> \in Owes(t)
    BY <1>1, <1>9, NeedIs, RoomIs
  <2> DEFINE v2 == <<"return">> \o t
             m2 == m + 2
             c2 == d + 0
  <2>a2. m2 \in Nat /\ c2 \in Nat /\ m2 = m + 2 /\ c2 = d + 0
    OBVIOUS
  <2> HIDE DEF m2, c2
  <2>b2. n <= m2 /\ c2 = d
    BY <2>0, <2>a2
  <2>c2. <<m2, c2>> \in Owes(v2) /\ v2 \in Stacks
    BY <2>0, <2>a2, <2>b2, OwesReturn
  <2> HIDE DEF v2
  <2> DEFINE v1 == <<"delta_fields">> \o v2
             m1 == m + 1
             c1 == d + 1
  <2>a1. m1 \in Nat /\ c1 \in Nat /\ m1 = m + 1 /\ c1 = d + 1
    OBVIOUS
  <2> HIDE DEF m1, c1
  <2>b1. m2 <= m1 + 1 /\ 2 * c2 <= m1 - 2 /\ c1 = 1 + c2
    BY <2>0, <2>a1, <2>a2
  <2>c1. <<m1, c1>> \in Owes(v1) /\ v1 \in Stacks
    <3>1. "delta_fields" \in Items /\ Need("delta_fields") = 1
      BY ItemsAre, NeedIs
    <3>2. Room("delta_fields", c2, m1)
      BY <2>b1, RoomIs
    <3> QED
      BY <2>c2, <2>a1, <2>b1, <3>1, <3>2, OwesItem, <2>a2
  <2> HIDE DEF v1
  <2> DEFINE v0 == <<"delta_kw">> \o v1
             c0 == d + 2
  <2>a0. c0 \in Nat /\ c0 = d + 2
    OBVIOUS
  <2> HIDE DEF c0
  <2>b0. m1 <= m + 1 /\ (2 * c1 <= 10 \/ 2 * c1 <= m + 1) /\ c0 = 1 + c1
    BY <2>0, <2>a0, <2>a1
  <2>c0. <<m, c0>> \in Owes(v0) /\ v0 \in Stacks
    BY <2>c1, <2>a0, <2>b0, Lexemes, OwesTerminal, <2>a1
  <2> HIDE DEF v0
  <2>1. Node[k] \o t = v0
    BY <1>9, Bodies DEF v0, v1, v2
  <2> QED
    BY Zenon, <2>a0, <2>c0, <2>1
<1>10. CASE k = "document"
  <2>0. n <= m + 0 /\ d = 0 /\ <<n, d>> \in Owes(t)
    BY <1>1, <1>10, NeedIs, RoomIs
  <2> DEFINE v3 == <<"return">> \o t
             c3 == d + 0
  <2>a3. c3 \in Nat /\ c3 = d + 0
    OBVIOUS
  <2> HIDE DEF c3
  <2>b3. n <= m /\ c3 = d
    BY <2>0, <2>a3
  <2>c3. <<m, c3>> \in Owes(v3) /\ v3 \in Stacks
    BY <2>0, <2>a3, <2>b3, OwesReturn
  <2> HIDE DEF v3
  <2> DEFINE v2 == <<"declarations">> \o v3
             c2 == d + 0
  <2>a2. c2 \in Nat /\ c2 = d + 0
    OBVIOUS
  <2> HIDE DEF c2
  <2>b2. m <= m + 0 /\ c3 = 0 /\ c2 = 0 + c3
    BY <2>0, <2>a2, <2>a3
  <2>c2. <<m, c2>> \in Owes(v2) /\ v2 \in Stacks
    <3>1. "declarations" \in Items /\ Need("declarations") = 0
      BY ItemsAre, NeedIs
    <3>2. Room("declarations", c3, m)
      BY <2>b2, RoomIs
    <3> QED
      BY <2>c3, <2>a2, <2>b2, <3>1, <3>2, OwesItem, <2>a3
  <2> HIDE DEF v2
  <2> DEFINE v1 == <<"namespace">> \o v2
             c1 == d + 0
  <2>a1. c1 \in Nat /\ c1 = d + 0
    OBVIOUS
  <2> HIDE DEF c1
  <2>b1. m <= m + 0 /\ c2 = 0 /\ c1 = 0 + c2
    BY <2>0, <2>a1, <2>a2
  <2>c1. <<m, c1>> \in Owes(v1) /\ v1 \in Stacks
    <3>1. "namespace" \in Items /\ Need("namespace") = 0
      BY ItemsAre, NeedIs
    <3>2. Room("namespace", c2, m)
      BY <2>b1, RoomIs
    <3> QED
      BY <2>c2, <2>a1, <2>b1, <3>1, <3>2, OwesItem, <2>a2
  <2> HIDE DEF v1
  <2> DEFINE v0 == <<"includes">> \o v1
             c0 == d + 0
  <2>a0. c0 \in Nat /\ c0 = d + 0
    OBVIOUS
  <2> HIDE DEF c0
  <2>b0. m <= m + 0 /\ c1 = 0 /\ c0 = 0 + c1
    BY <2>0, <2>a0, <2>a1
  <2>c0. <<m, c0>> \in Owes(v0) /\ v0 \in Stacks
    <3>1. "includes" \in Items /\ Need("includes") = 0
      BY ItemsAre, NeedIs
    <3>2. Room("includes", c1, m)
      BY <2>b0, RoomIs
    <3> QED
      BY <2>c1, <2>a0, <2>b0, <3>1, <3>2, OwesItem, <2>a1
  <2> HIDE DEF v0
  <2>1. Node[k] \o t = v0
    BY <1>10, Bodies DEF v0, v1, v2, v3
  <2> QED
    BY Zenon, <2>a0, <2>c0, <2>1
<1> QED
  BY <1>2, <1>3, <1>4, <1>5, <1>6, <1>7, <1>8, <1>9, <1>10, ItemsAre

\* Calling a function that returns a value leaves room.
LEMMA OwesValue ==
  ASSUME NEW t \in Stacks, NEW k \in DOMAIN Value, NEW m \in Nat, NEW c \in Nat, <<m, c>> \in Owes(<<k>> \o t)
  PROVE  \E q \in Nat : <<m, q>> \in Owes(Value[k] \o t)
<1>0. k \in Items
  BY ItemsAre
<1>1. PICK n \in Nat, d \in Nat : <<n, d>> \in Owes(t) /\ n <= m + Need(k) /\ Room(k, d, m)
  BY <1>0, OwesInvert
<1>2. CASE k = "qualified_identifier"
  <2>0. n <= m + 1 /\ d <= 2 /\ <<n, d>> \in Owes(t)
    BY <1>1, <1>2, NeedIs, RoomIs
  <2> DEFINE v1 == <<"more_identifiers">> \o t
             m1 == m + 1
             c1 == d + 0
  <2>a1. m1 \in Nat /\ c1 \in Nat /\ m1 = m + 1 /\ c1 = d + 0
    OBVIOUS
  <2> HIDE DEF m1, c1
  <2>b1. n <= m1 + 0 /\ d <= 2 /\ c1 = 0 + d
    BY <2>0, <2>a1
  <2>c1. <<m1, c1>> \in Owes(v1) /\ v1 \in Stacks
    <3>1. "more_identifiers" \in Items /\ Need("more_identifiers") = 0
      BY ItemsAre, NeedIs
    <3>2. Room("more_identifiers", d, m1)
      BY <2>b1, RoomIs
    <3> QED
      BY <2>0, <2>a1, <2>b1, <3>1, <3>2, OwesItem
  <2> HIDE DEF v1
  <2> DEFINE v0 == <<"identifier">> \o v1
             c0 == d + 1
  <2>a0. c0 \in Nat /\ c0 = d + 1
    OBVIOUS
  <2> HIDE DEF c0
  <2>b0. m1 <= m + 1 /\ (2 * c1 <= 10 \/ 2 * c1 <= m + 1) /\ c0 = 1 + c1
    BY <2>0, <2>a0, <2>a1
  <2>c0. <<m, c0>> \in Owes(v0) /\ v0 \in Stacks
    BY <2>c1, <2>a0, <2>b0, Lexemes, OwesTerminal, <2>a1
  <2> HIDE DEF v0
  <2>1. Value[k] \o t = v0
    BY <1>2, Bodies DEF v0, v1
  <2> QED
    BY Zenon, <2>a0, <2>c0, <2>1
<1>3. CASE k = "type"
  <2>0. n <= m + 1 /\ d <= 1 /\ <<n, d>> \in Owes(t)
    BY <1>1, <1>3, NeedIs, RoomIs
  <2> DEFINE v1 == <<"array">> \o t
             m1 == m + 1
             c1 == d + 0
  <2>a1. m1 \in Nat /\ c1 \in Nat /\ m1 = m + 1 /\ c1 = d + 0
    OBVIOUS
  <2> HIDE DEF m1, c1
  <2>b1. n <= m1 + 0 /\ d <= 1 /\ c1 = 0 + d
    BY <2>0, <2>a1
  <2>c1. <<m1, c1>> \in Owes(v1) /\ v1 \in Stacks
    <3>1. "array" \in Items /\ Need("array") = 0
      BY ItemsAre, NeedIs
    <3>2. Room("array", d, m1)
      BY <2>b1, RoomIs
    <3> QED
      BY <2>0, <2>a1, <2>b1, <3>1, <3>2, OwesItem
  <2> HIDE DEF v1
  <2> DEFINE v0 == <<"qualified_identifier">> \o v1
             c0 == d + 1
  <2>a0. c0 \in Nat /\ c0 = d + 1
    OBVIOUS
  <2> HIDE DEF c0
  <2>b0. m1 <= m + 1 /\ c1 <= 2 /\ c0 = 1 + c1
    BY <2>0, <2>a0, <2>a1
  <2>c0. <<m, c0>> \in Owes(v0) /\ v0 \in Stacks
    <3>1. "qualified_identifier" \in Items /\ Need("qualified_identifier") = 1
      BY ItemsAre, NeedIs
    <3>2. Room("qualified_identifier", c1, m)
      BY <2>b0, RoomIs
    <3> QED
      BY <2>c1, <2>a0, <2>b0, <3>1, <3>2, OwesItem, <2>a1
  <2> HIDE DEF v0
  <2>1. Value[k] \o t = v0
    BY <1>3, Bodies DEF v0, v1
  <2> QED
    BY Zenon, <2>a0, <2>c0, <2>1
<1> QED
  BY <1>2, <1>3, ItemsAre

\* A branch or a loop leaves room, whatever the next symbol is.
LEMMA OwesLook ==
  ASSUME NEW t \in Stacks, NEW i \in Branches, NEW s \in Symbols, NEW m \in Nat, NEW c \in Nat,
         <<m, c>> \in Owes(<<i>> \o t), Branch(i, s) # <<"unexpected">>
  PROVE  \E q \in Nat : <<m, q>> \in Owes(Branch(i, s) \o t)
<1>0. i \in Items
  BY ItemsAre
<1>1. PICK n \in Nat, d \in Nat : <<n, d>> \in Owes(t) /\ n <= m + Need(i) /\ Room(i, d, m)
  BY <1>0, OwesInvert
<1>2. n <= m => <<m, d>> \in Owes(t)
  BY <1>1, OwesMore
<1>3. <<>> \o t = t
  BY BranchRows
<1>4. CASE i = "includes"
  <2>0. n <= m + 0 /\ d = 0 /\ <<n, d>> \in Owes(t)
    BY <1>1, <1>4, NeedIs, RoomIs
  <2>1. CASE s = "include_kw"
    <3>1. Branch(i, s) = <<"include", "includes">>
      BY <1>4, <2>1, BranchIs
    <3> DEFINE v1 == <<"includes">> \o t
               m1 == m + 2
               c1 == d + 0
    <3>a1. m1 \in Nat /\ c1 \in Nat /\ m1 = m + 2 /\ c1 = d + 0
      OBVIOUS
    <3> HIDE DEF m1, c1
    <3>b1. n <= m1 + 0 /\ d = 0 /\ c1 = 0 + d
      BY <2>0, <3>a1
    <3>c1. <<m1, c1>> \in Owes(v1) /\ v1 \in Stacks
      <4>1. "includes" \in Items /\ Need("includes") = 0
        BY ItemsAre, NeedIs
      <4>2. Room("includes", d, m1)
        BY <3>b1, RoomIs
      <4> QED
        BY <2>0, <3>a1, <3>b1, <4>1, <4>2, OwesItem
    <3> HIDE DEF v1
    <3> DEFINE v0 == <<"include">> \o v1
               c0 == d + 2
    <3>a0. c0 \in Nat /\ c0 = d + 2
      OBVIOUS
    <3> HIDE DEF c0
    <3>b0. m1 <= m + 2 /\ c1 = 0 /\ c0 = 2 + c1
      BY <2>0, <3>a0, <3>a1
    <3>c0. <<m, c0>> \in Owes(v0) /\ v0 \in Stacks
      <4>1. "include" \in Items /\ Need("include") = 2
        BY ItemsAre, NeedIs
      <4>2. Room("include", c1, m)
        BY <3>b0, RoomIs
      <4> QED
        BY <3>c1, <3>a0, <3>b0, <4>1, <4>2, OwesItem, <3>a1
    <3> HIDE DEF v0
    <3>2. Branch(i, s) \o t = v0
      BY <3>1, BranchRows DEF v0, v1
    <3> QED
      BY Zenon, <3>a0, <3>c0, <3>2
  <2>2. CASE s # "include_kw"
    <3>1. Branch(i, s) = <<>>
      BY <1>4, <2>2, BranchIs
    <3> QED
      BY <1>2, <1>3, <2>0, <3>1
  <2> QED
    BY <2>1, <2>2
<1>5. CASE i = "namespace"
  <2>0. n <= m + 0 /\ d = 0 /\ <<n, d>> \in Owes(t)
    BY <1>1, <1>5, NeedIs, RoomIs
  <2>1. CASE s = "namespace_kw"
    <3>1. Branch(i, s) = <<"namespace_kw", "qualified_identifier">>
      BY <1>5, <2>1, BranchIs
    <3> DEFINE v1 == <<"qualified_identifier">> \o t
               m1 == m + 1
               c1 == d + 1
    <3>a1. m1 \in Nat /\ c1 \in Nat /\ m1 = m + 1 /\ c1 = d + 1
      OBVIOUS
    <3> HIDE DEF m1, c1
    <3>b1. n <= m1 + 1 /\ d <= 2 /\ c1 = 1 + d
      BY <2>0, <3>a1
    <3>c1. <<m1, c1>> \in Owes(v1) /\ v1 \in Stacks
      <4>1. "qualified_identifier" \in Items /\ Need("qualified_identifier") = 1
        BY ItemsAre, NeedIs
      <4>2. Room("qualified_identifier", d, m1)
        BY <3>b1, RoomIs
      <4> QED
        BY <2>0, <3>a1, <3>b1, <4>1, <4>2, OwesItem
    <3> HIDE DEF v1
    <3> DEFINE v0 == <<"namespace_kw">> \o v1
               c0 == d + 2
    <3>a0. c0 \in Nat /\ c0 = d + 2
      OBVIOUS
    <3> HIDE DEF c0
    <3>b0. m1 <= m + 1 /\ (2 * c1 <= 10 \/ 2 * c1 <= m + 1) /\ c0 = 1 + c1
      BY <2>0, <3>a0, <3>a1
    <3>c0. <<m, c0>> \in Owes(v0) /\ v0 \in Stacks
      BY <3>c1, <3>a0, <3>b0, Lexemes, OwesTerminal, <3>a1
    <3> HIDE DEF v0
    <3>2. Branch(i, s) \o t = v0
      BY <3>1, BranchRows DEF v0, v1
    <3> QED
      BY Zenon, <3>a0, <3>c0, <3>2
  <2>2. CASE s # "namespace_kw"
    <3>1. Branch(i, s) = <<>>
      BY <1>5, <2>2, BranchIs
    <3> QED
      BY <1>2, <1>3, <2>0, <3>1
  <2> QED
    BY <2>1, <2>2
<1>6. CASE i = "declarations"
  <2>0. n <= m + 0 /\ d = 0 /\ <<n, d>> \in Owes(t)
    BY <1>1, <1>6, NeedIs, RoomIs
  <2>1. CASE s = "struct_kw"
    <3>1. Branch(i, s) = <<"struct", "declarations">>
      BY <1>6, <2>1, BranchIs
    <3> DEFINE v1 == <<"declarations">> \o t
               m1 == m + 4
               c1 == d + 0
    <3>a1. m1 \in Nat /\ c1 \in Nat /\ m1 = m + 4 /\ c1 = d + 0
      OBVIOUS
    <3> HIDE DEF m1, c1
    <3>b1. n <= m1 + 0 /\ d = 0 /\ c1 = 0 + d
      BY <2>0, <3>a1
    <3>c1. <<m1, c1>> \in Owes(v1) /\ v1 \in Stacks
      <4>1. "declarations" \in Items /\ Need("declarations") = 0
        BY ItemsAre, NeedIs
      <4>2. Room("declarations", d, m1)
        BY <3>b1, RoomIs
      <4> QED
        BY <2>0, <3>a1, <3>b1, <4>1, <4>2, OwesItem
    <3> HIDE DEF v1
    <3> DEFINE v0 == <<"struct">> \o v1
               c0 == d + 4
    <3>a0. c0 \in Nat /\ c0 = d + 4
      OBVIOUS
    <3> HIDE DEF c0
    <3>b0. m1 <= m + 4 /\ c1 = 0 /\ c0 = 4 + c1
      BY <2>0, <3>a0, <3>a1
    <3>c0. <<m, c0>> \in Owes(v0) /\ v0 \in Stacks
      <4>1. "struct" \in Items /\ Need("struct") = 4
        BY ItemsAre, NeedIs
      <4>2. Room("struct", c1, m)
        BY <3>b0, RoomIs
      <4> QED
        BY <3>c1, <3>a0, <3>b0, <4>1, <4>2, OwesItem, <3>a1
    <3> HIDE DEF v0
    <3>2. Branch(i, s) \o t = v0
      BY <3>1, BranchRows DEF v0, v1
    <3> QED
      BY Zenon, <3>a0, <3>c0, <3>2
  <2>2. CASE s = "mapping_kw"
    <3>1. Branch(i, s) = <<"mapping", "declarations">>
      BY <1>6, <2>2, BranchIs
    <3> DEFINE v1 == <<"declarations">> \o t
               m1 == m + 6
               c1 == d + 0
    <3>a1. m1 \in Nat /\ c1 \in Nat /\ m1 = m + 6 /\ c1 = d + 0
      OBVIOUS
    <3> HIDE DEF m1, c1
    <3>b1. n <= m1 + 0 /\ d = 0 /\ c1 = 0 + d
      BY <2>0, <3>a1
    <3>c1. <<m1, c1>> \in Owes(v1) /\ v1 \in Stacks
      <4>1. "declarations" \in Items /\ Need("declarations") = 0
        BY ItemsAre, NeedIs
      <4>2. Room("declarations", d, m1)
        BY <3>b1, RoomIs
      <4> QED
        BY <2>0, <3>a1, <3>b1, <4>1, <4>2, OwesItem
    <3> HIDE DEF v1
    <3> DEFINE v0 == <<"mapping">> \o v1
               c0 == d + 6
    <3>a0. c0 \in Nat /\ c0 = d + 6
      OBVIOUS
    <3> HIDE DEF c0
    <3>b0. m1 <= m + 6 /\ c1 = 0 /\ c0 = 6 + c1
      BY <2>0, <3>a0, <3>a1
    <3>c0. <<m, c0>> \in Owes(v0) /\ v0 \in Stacks
      <4>1. "mapping" \in Items /\ Need("mapping") = 6
        BY ItemsAre, NeedIs
      <4>2. Room("mapping", c1, m)
        BY <3>b0, RoomIs
      <4> QED
        BY <3>c1, <3>a0, <3>b0, <4>1, <4>2, OwesItem, <3>a1
    <3> HIDE DEF v0
    <3>2. Branch(i, s) \o t = v0
      BY <3>1, BranchRows DEF v0, v1
    <3> QED
      BY Zenon, <3>a0, <3>c0, <3>2
  <2>3. CASE s = "encoding_kw"
    <3>1. Branch(i, s) = <<"encoding", "declarations">>
      BY <1>6, <2>3, BranchIs
    <3> DEFINE v1 == <<"declarations">> \o t
               m1 == m + 4
               c1 == d + 0
    <3>a1. m1 \in Nat /\ c1 \in Nat /\ m1 = m + 4 /\ c1 = d + 0
      OBVIOUS
    <3> HIDE DEF m1, c1
    <3>b1. n <= m1 + 0 /\ d = 0 /\ c1 = 0 + d
      BY <2>0, <3>a1
    <3>c1. <<m1, c1>> \in Owes(v1) /\ v1 \in Stacks
      <4>1. "declarations" \in Items /\ Need("declarations") = 0
        BY ItemsAre, NeedIs
      <4>2. Room("declarations", d, m1)
        BY <3>b1, RoomIs
      <4> QED
        BY <2>0, <3>a1, <3>b1, <4>1, <4>2, OwesItem
    <3> HIDE DEF v1
    <3> DEFINE v0 == <<"encoding">> \o v1
               c0 == d + 4
    <3>a0. c0 \in Nat /\ c0 = d + 4
      OBVIOUS
    <3> HIDE DEF c0
    <3>b0. m1 <= m + 4 /\ c1 = 0 /\ c0 = 4 + c1
      BY <2>0, <3>a0, <3>a1
    <3>c0. <<m, c0>> \in Owes(v0) /\ v0 \in Stacks
      <4>1. "encoding" \in Items /\ Need("encoding") = 4
        BY ItemsAre, NeedIs
      <4>2. Room("encoding", c1, m)
        BY <3>b0, RoomIs
      <4> QED
        BY <3>c1, <3>a0, <3>b0, <4>1, <4>2, OwesItem, <3>a1
    <3> HIDE DEF v0
    <3>2. Branch(i, s) \o t = v0
      BY <3>1, BranchRows DEF v0, v1
    <3> QED
      BY Zenon, <3>a0, <3>c0, <3>2
  <2>4. CASE s = "eof"
    <3>1. Branch(i, s) = <<>>
      BY <1>6, <2>4, BranchIs
    <3> QED
      BY <1>2, <1>3, <2>0, <3>1
  <2>5. CASE s # "struct_kw" /\ s # "mapping_kw" /\ s # "encoding_kw" /\ s # "eof"
    BY <1>6, <2>5, BranchIs
  <2> QED
    BY <2>1, <2>2, <2>3, <2>4, <2>5
<1>7. CASE i = "more_identifiers"
  <2>0. n <= m + 0 /\ d <= 2 /\ <<n, d>> \in Owes(t)
    BY <1>1, <1>7, NeedIs, RoomIs
  <2>1. CASE s = "namespace_sep"
    <3>1. Branch(i, s) = <<"namespace_sep", "identifier", "more_identifiers">>
      BY <1>7, <2>1, BranchIs
    <3> DEFINE v2 == <<"more_identifiers">> \o t
               m2 == m + 2
               c2 == d + 0
    <3>a2. m2 \in Nat /\ c2 \in Nat /\ m2 = m + 2 /\ c2 = d + 0
      OBVIOUS
    <3> HIDE DEF m2, c2
    <3>b2. n <= m2 + 0 /\ d <= 2 /\ c2 = 0 + d
      BY <2>0, <3>a2
    <3>c2. <<m2, c2>> \in Owes(v2) /\ v2 \in Stacks
      <4>1. "more_identifiers" \in Items /\ Need("more_identifiers") = 0
        BY ItemsAre, NeedIs
      <4>2. Room("more_identifiers", d, m2)
        BY <3>b2, RoomIs
      <4> QED
        BY <2>0, <3>a2, <3>b2, <4>1, <4>2, OwesItem
    <3> HIDE DEF v2
    <3> DEFINE v1 == <<"identifier">> \o v2
               m1 == m + 1
               c1 == d + 1
    <3>a1. m1 \in Nat /\ c1 \in Nat /\ m1 = m + 1 /\ c1 = d + 1
      OBVIOUS
    <3> HIDE DEF m1, c1
    <3>b1. m2 <= m1 + 1 /\ (2 * c2 <= 10 \/ 2 * c2 <= m1 + 1) /\ c1 = 1 + c2
      BY <2>0, <3>a1, <3>a2
    <3>c1. <<m1, c1>> \in Owes(v1) /\ v1 \in Stacks
      BY <3>c2, <3>a1, <3>b1, Lexemes, OwesTerminal, <3>a2
    <3> HIDE DEF v1
    <3> DEFINE v0 == <<"namespace_sep">> \o v1
               c0 == d + 2
    <3>a0. c0 \in Nat /\ c0 = d + 2
      OBVIOUS
    <3> HIDE DEF c0
    <3>b0. m1 <= m + 1 /\ (2 * c1 <= 10 \/ 2 * c1 <= m + 1) /\ c0 = 1 + c1
      BY <2>0, <3>a0, <3>a1
    <3>c0. <<m, c0>> \in Owes(v0) /\ v0 \in Stacks
      BY <3>c1, <3>a0, <3>b0, Lexemes, OwesTerminal, <3>a1
    <3> HIDE DEF v0
    <3>2. Branch(i, s) \o t = v0
      BY <3>1, BranchRows DEF v0, v1, v2
    <3> QED
      BY Zenon, <3>a0, <3>c0, <3>2
  <2>2. CASE s # "namespace_sep"
    <3>1. Branch(i, s) = <<>>
      BY <1>7, <2>2, BranchIs
    <3> QED
      BY <1>2, <1>3, <2>0, <3>1
  <2> QED
    BY <2>1, <2>2
<1>8. CASE i = "array"
  <2>0. n <= m + 0 /\ d <= 1 /\ <<n, d>> \in Owes(t)
    BY <1>1, <1>8, NeedIs, RoomIs
  <2>1. CASE s = "bracket_open"
    <3>1. Branch(i, s) = <<"bracket_open", "integer", "bracket_close">>
      BY <1>8, <2>1, BranchIs
    <3> DEFINE v2 == <<"bracket_close">> \o t
               m2 == m + 2
               c2 == d + 1
    <3>a2. m2 \in Nat /\ c2 \in Nat /\ m2 = m + 2 /\ c2 = d + 1
      OBVIOUS
    <3> HIDE DEF m2, c2
    <3>b2. n <= m2 + 1 /\ (2 * d <= 10 \/ 2 * d <= m2 + 1) /\ c2 = 1 + d
      BY <2>0, <3>a2
    <3>c2. <<m2, c2>> \in Owes(v2) /\ v2 \in Stacks
      BY <2>0, <3>a2, <3>b2, Lexemes, OwesTerminal
    <3> HIDE DEF v2
    <3> DEFINE v1 == <<"integer">> \o v2
               m1 == m + 1
               c1 == d + 2
    <3>a1. m1 \in Nat /\ c1 \in Nat /\ m1 = m + 1 /\ c1 = d + 2
      OBVIOUS
    <3> HIDE DEF m1, c1
    <3>b1. m2 <= m1 + 1 /\ (2 * c2 <= 10 \/ 2 * c2 <= m1 + 1) /\ c1 = 1 + c2
      BY <2>0, <3>a1, <3>a2
    <3>c1. <<m1, c1>> \in Owes(v1) /\ v1 \in Stacks
      BY <3>c2, <3>a1, <3>b1, Lexemes, OwesTerminal, <3>a2
    <3> HIDE DEF v1
    <3> DEFINE v0 == <<"bracket_open">> \o v1
               c0 == d + 3
    <3>a0. c0 \in Nat /\ c0 = d + 3
      OBVIOUS
    <3> HIDE DEF c0
    <3>b0. m1 <= m + 1 /\ (2 * c1 <= 10 \/ 2 * c1 <= m + 1) /\ c0 = 1 + c1
      BY <2>0, <3>a0, <3>a1
    <3>c0. <<m, c0>> \in Owes(v0) /\ v0 \in Stacks
      BY <3>c1, <3>a0, <3>b0, Lexemes, OwesTerminal, <3>a1
    <3> HIDE DEF v0
    <3>2. Branch(i, s) \o t = v0
      BY <3>1, BranchRows DEF v0, v1, v2
    <3> QED
      BY Zenon, <3>a0, <3>c0, <3>2
  <2>2. CASE s # "bracket_open"
    <3>1. Branch(i, s) = <<>>
      BY <1>8, <2>2, BranchIs
    <3> QED
      BY <1>2, <1>3, <2>0, <3>1
  <2> QED
    BY <2>1, <2>2
<1>9. CASE i = "encoding_id"
  <2>0. n <= m + 0 /\ (2 * d <= 4 \/ 2 * d <= m - 2) /\ <<n, d>> \in Owes(t)
    BY <1>1, <1>9, NeedIs, RoomIs
  <2>1. CASE s = "colon"
    <3>1. Branch(i, s) = <<"colon", "identifier">>
      BY <1>9, <2>1, BranchIs
    <3> DEFINE v1 == <<"identifier">> \o t
               m1 == m + 1
               c1 == d + 1
    <3>a1. m1 \in Nat /\ c1 \in Nat /\ m1 = m + 1 /\ c1 = d + 1
      OBVIOUS
    <3> HIDE DEF m1, c1
    <3>b1. n <= m1 + 1 /\ (2 * d <= 10 \/ 2 * d <= m1 + 1) /\ c1 = 1 + d
      BY <2>0, <3>a1
    <3>c1. <<m1, c1>> \in Owes(v1) /\ v1 \in Stacks
      BY <2>0, <3>a1, <3>b1, Lexemes, OwesTerminal
    <3> HIDE DEF v1
    <3> DEFINE v0 == <<"colon">> \o v1
               c0 == d + 2
    <3>a0. c0 \in Nat /\ c0 = d + 2
      OBVIOUS
    <3> HIDE DEF c0
    <3>b0. m1 <= m + 1 /\ (2 * c1 <= 10 \/ 2 * c1 <= m + 1) /\ c0 = 1 + c1
      BY <2>0, <3>a0, <3>a1
    <3>c0. <<m, c0>> \in Owes(v0) /\ v0 \in Stacks
      BY <3>c1, <3>a0, <3>b0, Lexemes, OwesTerminal, <3>a1
    <3> HIDE DEF v0
    <3>2. Branch(i, s) \o t = v0
      BY <3>1, BranchRows DEF v0, v1
    <3> QED
      BY Zenon, <3>a0, <3>c0, <3>2
  <2>2. CASE s # "colon"
    <3>1. Branch(i, s) = <<>>
      BY <1>9, <2>2, BranchIs
    <3> QED
      BY <1>2, <1>3, <2>0, <3>1
  <2> QED
    BY <2>1, <2>2
<1>10. CASE i = "encoding_node"
  <2>0. n <= m + 1 /\ 2 * d <= m - 1 /\ <<n, d>> \in Owes(t)
    BY <1>1, <1>10, NeedIs, RoomIs
  <2>1. CASE s = "delta_kw"
    <3>1. Branch(i, s) = <<"encoding_delta_block">>
      BY <1>10, <2>1, BranchIs
    <3> DEFINE v0 == <<"encoding_delta_block">> \o t
               c0 == d + 2
    <3>a0. c0 \in Nat /\ c0 = d + 2
      OBVIOUS
    <3> HIDE DEF c0
    <3>b0. n <= m + 2 /\ 2 * d <= m - 1 /\ c0 = 2 + d
      BY <2>0, <3>a0
    <3>c0. <<m, c0>> \in Owes(v0) /\ v0 \in Stacks
      <4>1. "encoding_delta_block" \in Items /\ Need("encoding_delta_block") = 2
        BY ItemsAre, NeedIs
      <4>2. Room("encoding_delta_block", d, m)
        BY <3>b0, RoomIs
      <4> QED
        BY <2>0, <3>a0, <3>b0, <4>1, <4>2, OwesItem
    <3> HIDE DEF v0
    <3>2. Branch(i, s) \o t = v0
      BY <3>1, BranchRows DEF v0
    <3> QED
      BY Zenon, <3>a0, <3>c0, <3>2
  <2>2. CASE s = "identifier"
    <3>1. Branch(i, s) = <<"encoding_field">>
      BY <1>10, <2>2, BranchIs
    <3> DEFINE v0 == <<"encoding_field">> \o t
               c0 == d + 1
    <3>a0. c0 \in Nat /\ c0 = d + 1
      OBVIOUS
    <3> HIDE DEF c0
    <3>b0. n <= m + 1 /\ 2 * d <= m - 1 /\ c0 = 1 + d
      BY <2>0, <3>a0
    <3>c0. <<m, c0>> \in Owes(v0) /\ v0 \in Stacks
      <4>1. "encoding_field" \in Items /\ Need("encoding_field") = 1
        BY ItemsAre, NeedIs
      <4>2. Room("encoding_field", d, m)
        BY <3>b0, RoomIs
      <4> QED
        BY <2>0, <3>a0, <3>b0, <4>1, <4>2, OwesItem
    <3> HIDE DEF v0
    <3>2. Branch(i, s) \o t = v0
      BY <3>1, BranchRows DEF v0
    <3> QED
      BY Zenon, <3>a0, <3>c0, <3>2
  <2>3. CASE s # "delta_kw" /\ s # "identifier"
    BY <1>10, <2>3, BranchIs
  <2> QED
    BY <2>1, <2>2, <2>3
<1>11. CASE i = "delta_fields"
  <2>0. n <= m + 1 /\ 2 * d <= m - 2 /\ <<n, d>> \in Owes(t)
    BY <1>1, <1>11, NeedIs, RoomIs
  <2>1. CASE s = "identifier"
    <3>1. Branch(i, s) = <<"encoding_node">>
      BY <1>11, <2>1, BranchIs
    <3> DEFINE v0 == <<"encoding_node">> \o t
               c0 == d + 1
    <3>a0. c0 \in Nat /\ c0 = d + 1
      OBVIOUS
    <3> HIDE DEF c0
    <3>b0. n <= m + 1 /\ 2 * d <= m - 1 /\ c0 = 1 + d
      BY <2>0, <3>a0
    <3>c0. <<m, c0>> \in Owes(v0) /\ v0 \in Stacks
      <4>1. "encoding_node" \in Items /\ Need("encoding_node") = 1
        BY ItemsAre, NeedIs
      <4>2. Room("encoding_node", d, m)
        BY <3>b0, RoomIs
      <4> QED
        BY <2>0, <3>a0, <3>b0, <4>1, <4>2, OwesItem
    <3> HIDE DEF v0
    <3>2. Branch(i, s) \o t = v0
      BY <3>1, BranchRows DEF v0
    <3> QED
      BY Zenon, <3>a0, <3>c0, <3>2
  <2>2. CASE s = "curly_open"
    <3>1. Branch(i, s) = <<"curly_open", "encoding_nodes", "curly_close">>
      BY <1>11, <2>2, BranchIs
    <3> DEFINE v2 == <<"curly_close">> \o t
               m2 == m + 1
               c2 == d + 1
    <3>a2. m2 \in Nat /\ c2 \in Nat /\ m2 = m + 1 /\ c2 = d + 1
      OBVIOUS
    <3> HIDE DEF m2, c2
    <3>b2. n <= m2 + 1 /\ (2 * d <= 10 \/ 2 * d <= m2 + 1) /\ c2 = 1 + d
      BY <2>0, <3>a2
    <3>c2. <<m2, c2>> \in Owes(v2) /\ v2 \in Stacks
      BY <2>0, <3>a2, <3>b2, Lexemes, OwesTerminal
    <3> HIDE DEF v2
    <3> DEFINE v1 == <<"encoding_nodes">> \o v2
               m1 == m + 1
               c1 == d + 1
    <3>a1. m1 \in Nat /\ c1 \in Nat /\ m1 = m + 1 /\ c1 = d + 1
      OBVIOUS
    <3> HIDE DEF m1, c1
    <3>b1. m2 <= m1 + 0 /\ 2 * c2 <= m1 - 1 /\ c1 = 0 + c2
      BY <2>0, <3>a1, <3>a2
    <3>c1. <<m1, c1>> \in Owes(v1) /\ v1 \in Stacks
      <4>1. "encoding_nodes" \in Items /\ Need("encoding_nodes") = 0
        BY ItemsAre, NeedIs
      <4>2. Room("encoding_nodes", c2, m1)
        BY <3>b1, RoomIs
      <4> QED
        BY <3>c2, <3>a1, <3>b1, <4>1, <4>2, OwesItem, <3>a2
    <3> HIDE DEF v1
    <3> DEFINE v0 == <<"curly_open">> \o v1
               c0 == d + 2
    <3>a0. c0 \in Nat /\ c0 = d + 2
      OBVIOUS
    <3> HIDE DEF c0
    <3>b0. m1 <= m + 1 /\ (2 * c1 <= 10 \/ 2 * c1 <= m + 1) /\ c0 = 1 + c1
      BY <2>0, <3>a0, <3>a1
    <3>c0. <<m, c0>> \in Owes(v0) /\ v0 \in Stacks
      BY <3>c1, <3>a0, <3>b0, Lexemes, OwesTerminal, <3>a1
    <3> HIDE DEF v0
    <3>2. Branch(i, s) \o t = v0
      BY <3>1, BranchRows DEF v0, v1, v2
    <3> QED
      BY Zenon, <3>a0, <3>c0, <3>2
  <2>3. CASE s # "identifier" /\ s # "curly_open"
    BY <1>11, <2>3, BranchIs
  <2> QED
    BY <2>1, <2>2, <2>3
<1>12. CASE i = "struct_fields"
  <2>0. n <= m + 0 /\ d <= 1 /\ <<n, d>> \in Owes(t)
    BY <1>1, <1>12, NeedIs, RoomIs
  <2>1. CASE s = "curly_close"
    <3>1. Branch(i, s) = <<>>
      BY <1>12, <2>1, BranchIs
    <3> QED
      BY <1>2, <1>3, <2>0, <3>1
  <2>2. CASE s # "curly_close"
    <3>1. Branch(i, s) = <<"struct_field", "struct_fields">>
      BY <1>12, <2>2, BranchIs
    <3> DEFINE v1 == <<"struct_fields">> \o t
               m1 == m + 3
               c1 == d + 0
    <3>a1. m1 \in Nat /\ c1 \in Nat /\ m1 = m + 3 /\ c1 = d + 0
      OBVIOUS
    <3> HIDE DEF m1, c1
    <3>b1. n <= m1 + 0 /\ d <= 1 /\ c1 = 0 + d
      BY <2>0, <3>a1
    <3>c1. <<m1, c1>> \in Owes(v1) /\ v1 \in Stacks
      <4>1. "struct_fields" \in Items /\ Need("struct_fields") = 0
        BY ItemsAre, NeedIs
      <4>2. Room("struct_fields", d, m1)
        BY <3>b1, RoomIs
      <4> QED
        BY <2>0, <3>a1, <3>b1, <4>1, <4>2, OwesItem
    <3> HIDE DEF v1
    <3> DEFINE v0 == <<"struct_field">> \o v1
               c0 == d + 3
    <3>a0. c0 \in Nat /\ c0 = d + 3
      OBVIOUS
    <3> HIDE DEF c0
    <3>b0. m1 <= m + 3 /\ c1 <= 1 /\ c0 = 3 + c1
      BY <2>0, <3>a0, <3>a1
    <3>c0. <<m, c0>> \in Owes(v0) /\ v0 \in Stacks
      <4>1. "struct_field" \in Items /\ Need("struct_field") = 3
        BY ItemsAre, NeedIs
      <4>2. Room("struct_field", c1, m)
        BY <3>b0, RoomIs
      <4> QED
        BY <3>c1, <3>a0, <3>b0, <4>1, <4>2, OwesItem, <3>a1
    <3> HIDE DEF v0
    <3>2. Branch(i, s) \o t = v0
      BY <3>1, BranchRows DEF v0, v1
    <3> QED
      BY Zenon, <3>a0, <3>c0, <3>2
  <2> QED
    BY <2>1, <2>2
<1>13. CASE i = "mapping_fields"
  <2>0. n <= m + 0 /\ d <= 1 /\ <<n, d>> \in Owes(t)
    BY <1>1, <1>13, NeedIs, RoomIs
  <2>1. CASE s = "curly_close"
    <3>1. Branch(i, s) = <<>>
      BY <1>13, <2>1, BranchIs
    <3> QED
      BY <1>2, <1>3, <2>0, <3>1
  <2>2. CASE s # "curly_close"
    <3>1. Branch(i, s) = <<"mapping_field", "mapping_fields">>
      BY <1>13, <2>2, BranchIs
    <3> DEFINE v1 == <<"mapping_fields">> \o t
               m1 == m + 3
               c1 == d + 0
    <3>a1. m1 \in Nat /\ c1 \in Nat /\ m1 = m + 3 /\ c1 = d + 0
      OBVIOUS
    <3> HIDE DEF m1, c1
    <3>b1. n <= m1 + 0 /\ d <= 1 /\ c1 = 0 + d
      BY <2>0, <3>a1
    <3>c1. <<m1, c1>> \in Owes(v1) /\ v1 \in Stacks
      <4>1. "mapping_fields" \in Items /\ Need("mapping_fields") = 0
        BY ItemsAre, NeedIs
      <4>2. Room("mapping_fields", d, m1)
        BY <3>b1, RoomIs
      <4> QED
        BY <2>0, <3>a1, <3>b1, <4>1, <4>2, OwesItem
    <3> HIDE DEF v1
    <3> DEFINE v0 == <<"mapping_field">> \o v1
               c0 == d + 3
    <3>a0. c0 \in Nat /\ c0 = d + 3
      OBVIOUS
    <3> HIDE DEF c0
    <3>b0. m1 <= m + 3 /\ c1 <= 1 /\ c0 = 3 + c1
      BY <2>0, <3>a0, <3>a1
    <3>c0. <<m, c0>> \in Owes(v0) /\ v0 \in Stacks
      <4>1. "mapping_field" \in Items /\ Need("mapping_field") = 3
        BY ItemsAre, NeedIs
      <4>2. Room("mapping_field", c1, m)
        BY <3>b0, RoomIs
      <4> QED
        BY <3>c1, <3>a0, <3>b0, <4>1, <4>2, OwesItem, <3>a1
    <3> HIDE DEF v0
    <3>2. Branch(i, s) \o t = v0
      BY <3>1, BranchRows DEF v0, v1
    <3> QED
      BY Zenon, <3>a0, <3>c0, <3>2
  <2> QED
    BY <2>1, <2>2
<1>14. CASE i = "encoding_nodes"
  <2>0. n <= m + 0 /\ 2 * d <= m - 1 /\ <<n, d>> \in Owes(t)
    BY <1>1, <1>14, NeedIs, RoomIs
  <2>1. CASE s = "curly_close"
    <3>1. Branch(i, s) = <<>>
      BY <1>14, <2>1, BranchIs
    <3> QED
      BY <1>2, <1>3, <2>0, <3>1
  <2>2. CASE s # "curly_close"
    <3>1. Branch(i, s) = <<"encoding_node", "encoding_nodes">>
      BY <1>14, <2>2, BranchIs
    <3> DEFINE v1 == <<"encoding_nodes">> \o t
               m1 == m + 1
               c1 == d + 0
    <3>a1. m1 \in Nat /\ c1 \in Nat /\ m1 = m + 1 /\ c1 = d + 0
      OBVIOUS
    <3> HIDE DEF m1, c1
    <3>b1. n <= m1 + 0 /\ 2 * d <= m1 - 1 /\ c1 = 0 + d
      BY <2>0, <3>a1
    <3>c1. <<m1, c1>> \in Owes(v1) /\ v1 \in Stacks
      <4>1. "encoding_nodes" \in Items /\ Need("encoding_nodes") = 0
        BY ItemsAre, NeedIs
      <4>2. Room("encoding_nodes", d, m1)
        BY <3>b1, RoomIs
      <4> QED
        BY <2>0, <3>a1, <3>b1, <4>1, <4>2, OwesItem
    <3> HIDE DEF v1
    <3> DEFINE v0 == <<"encoding_node">> \o v1
               c0 == d + 1
    <3>a0. c0 \in Nat /\ c0 = d + 1
      OBVIOUS
    <3> HIDE DEF c0
    <3>b0. m1 <= m + 1 /\ 2 * c1 <= m - 1 /\ c0 = 1 + c1
      BY <2>0, <3>a0, <3>a1
    <3>c0. <<m, c0>> \in Owes(v0) /\ v0 \in Stacks
      <4>1. "encoding_node" \in Items /\ Need("encoding_node") = 1
        BY ItemsAre, NeedIs
      <4>2. Room("encoding_node", c1, m)
        BY <3>b0, RoomIs
      <4> QED
        BY <3>c1, <3>a0, <3>b0, <4>1, <4>2, OwesItem, <3>a1
    <3> HIDE DEF v0
    <3>2. Branch(i, s) \o t = v0
      BY <3>1, BranchRows DEF v0, v1
    <3> QED
      BY Zenon, <3>a0, <3>c0, <3>2
  <2> QED
    BY <2>1, <2>2
<1> QED
  BY <1>4, <1>5, <1>6, <1>7, <1>8, <1>9, <1>10, <1>11, <1>12, <1>13, <1>14 DEF Branches

\* W has a word of length n.
Has(W, n) == \E w \in W : Len(w) = n

\* Lengths of joined words add up.
LEMMA HasJoin ==
  ASSUME NEW V \in SUBSET Words, NEW W \in SUBSET Words, NEW m \in Nat, NEW n \in Nat, Has(V, m), Has(W, n)
  PROVE  Has(Join(V, W), m + n)
<1>1. PICK v \in V : Len(v) = m
  BY DEF Has
<1>2. PICK w \in W : Len(w) = n
  BY DEF Has
<1>3. v \o w \in Join(V, W) /\ Len(v \o w) = m + n
  BY <1>1, <1>2, JoinIs, WordCat
<1> QED
  BY <1>3 DEF Has

\* A symbol has length one.
LEMMA HasOne == \A x \in Terminals : Has(One(x), 1)
  BY WordOne DEF Has, One

\* Need(i) symbols are enough for the item i.
LEMMA NeedLang == \A i \in Items : i # "unexpected" => Has(Lang(i), Need(i))
<1>a. \A W \in SUBSET Words : Has(Star(W), 0) /\ Has(Opt(W), 0)
  BY StarClosed, WordEmpty DEF Has, Opt
<1>b. \A x \in Terminals : \A W \in SUBSET Words : \A n \in Nat :
        Has(W, n) => Has(Join(One(x), W), 1 + n) /\ Join(One(x), W) \in SUBSET Words
  BY HasJoin, HasOne, OneIs, JoinWords
<1>c. \A W \in SUBSET Words : Has(BlockL(W), 2) /\ BlockL(W) \in SUBSET Words
  <2> TAKE W \in SUBSET Words
  <2>1. Has(Join(Star(W), One("curly_close")), 1)
    <3>1. Has(Join(Star(W), One("curly_close")), 0 + 1)
      BY <1>a, HasJoin, HasOne, OneIs, Lexemes, StarWords
    <3> QED
      BY <3>1
  <2>2. Has(Join(One("curly_open"), Join(Star(W), One("curly_close"))), 1 + 1)
    BY <1>b, <2>1, Lexemes, JoinWords
  <2> QED
    BY <2>2, BlockWords DEF BlockL
<1>l. /\ "include_kw" \in Terminals /\ "string" \in Terminals /\ "identifier" \in Terminals
      /\ "struct_kw" \in Terminals /\ "curly_open" \in Terminals /\ "curly_close" \in Terminals
      /\ "colon" \in Terminals /\ "mapping_kw" \in Terminals /\ "encoding_kw" \in Terminals
      /\ "delta_kw" \in Terminals /\ "namespace_sep" \in Terminals /\ "namespace_kw" \in Terminals
  BY Lexemes
<1>o. \A x \in Terminals : Has(One(x), 1) /\ One(x) \in SUBSET Words
  BY HasOne, OneIs
<1>1. Has(IncludeL, 2)
  <2>1. Has(Join(One("include_kw"), One("string")), 1 + 1)
    BY <1>b, <1>l, <1>o
  <2> QED
    BY <2>1 DEF IncludeL
<1>2. Has(MoreL, 0) /\ Has(ArrayL, 0) /\ Has(EncodingIdL, 0) /\ Has(NamespaceL, 0)
  BY <1>a, JoinWords DEF MoreL, ArrayL, EncodingIdL, NamespaceL
<1>3. Has(QualifiedL, 1)
  <2>1. Has(Join(One("identifier"), MoreL), 1 + 0)
    BY <1>b, <1>l, <1>2, Languages
  <2> QED
    BY <2>1 DEF QualifiedL
<1>4. Has(TypeL, 1)
  <2>1. Has(Join(QualifiedL, ArrayL), 1 + 0)
    BY <1>2, <1>3, Languages, HasJoin
  <2> QED
    BY <2>1 DEF TypeL
<1>5. Has(StructFieldL, 3)
  <2>1. Has(Join(One("colon"), TypeL), 1 + 1)
    BY <1>b, <1>l, <1>4, Languages
  <2>2. Has(Join(One("identifier"), Join(One("colon"), TypeL)), 1 + 2)
    BY <1>b, <1>l, <2>1, JoinWords
  <2> QED
    BY <2>2 DEF StructFieldL
<1>6. Has(StructL, 4)
  <2> DEFINE B == BlockL(StructFieldL)
  <2>0. B \in SUBSET Words /\ Has(B, 2)
    BY <1>c, Languages
  <2> HIDE DEF B
  <2>1. Has(Join(One("identifier"), B), 1 + 2)
    BY <1>b, <1>l, <2>0
  <2>2. Has(Join(One("struct_kw"), Join(One("identifier"), B)), 1 + 3)
    BY <1>b, <1>l, <2>1, JoinWords
  <2> QED
    BY <2>2 DEF StructL, B
<1>7. Has(MappingFieldL, 3)
  <2>1. Has(Join(One("colon"), One("string")), 1 + 1)
    BY <1>b, <1>l, <1>o
  <2>2. Has(Join(One("identifier"), Join(One("colon"), One("string"))), 1 + 2)
    BY <1>b, <1>l, <2>1, JoinWords
  <2> QED
    BY <2>2 DEF MappingFieldL
<1>8. Has(MappingL, 6)
  <2> DEFINE B == BlockL(MappingFieldL)
             C == Join(QualifiedL, B)
  <2>0. B \in SUBSET Words /\ Has(B, 2)
    BY <1>c, Languages
  <2> HIDE DEF B
  <2>1. Has(C, 1 + 2) /\ C \in SUBSET Words
    BY <1>3, <2>0, Languages, HasJoin, JoinWords
  <2> HIDE DEF C
  <2>2. Has(Join(One("colon"), C), 1 + 3)
    BY <1>b, <1>l, <2>1
  <2>3. Has(Join(One("identifier"), Join(One("colon"), C)), 1 + 4)
    BY <1>b, <1>l, <2>2, JoinWords
  <2>4. Has(Join(One("mapping_kw"), Join(One("identifier"), Join(One("colon"), C))), 1 + 5)
    BY <1>b, <1>l, <2>3, JoinWords
  <2> QED
    BY <2>4 DEF MappingL, B, C
<1>9. Has(EncodingFieldL, 1)
  <2>1. Has(Join(One("identifier"), EncodingIdL), 1 + 0)
    BY <1>b, <1>l, <1>2, Languages
  <2> QED
    BY <2>1 DEF EncodingFieldL
<1>10. Has(EncodingNodeL, 1) /\ Has(DeltaFieldsL, 1)
  BY <1>9 DEF EncodingNodeL, DeltaFieldsL, Has
<1>11. Has(DeltaL, 2)
  <2>1. Has(Join(One("delta_kw"), DeltaFieldsL), 1 + 1)
    BY <1>b, <1>l, <1>10, Languages
  <2> QED
    BY <2>1, DeltaJoin
<1>12. Has(EncodingL, 4)
  <2> DEFINE B == BlockL(EncodingNodeL)
             C == Join(EncodingIdL, B)
  <2>0. B \in SUBSET Words /\ Has(B, 2)
    BY <1>c, Languages
  <2> HIDE DEF B
  <2>1. Has(C, 0 + 2) /\ C \in SUBSET Words
    BY <1>2, <2>0, Languages, HasJoin, JoinWords
  <2> HIDE DEF C
  <2>2. Has(Join(One("identifier"), C), 1 + 2)
    BY <1>b, <1>l, <2>1
  <2>3. Has(Join(One("encoding_kw"), Join(One("identifier"), C)), 1 + 3)
    BY <1>b, <1>l, <2>2, JoinWords
  <2> QED
    BY <2>3 DEF EncodingL, B, C
<1>13. Has(Star(IncludeL), 0) /\ Has(Star(DeclarationL), 0) /\ Has(Star(StructFieldL), 0)
       /\ Has(Star(MappingFieldL), 0) /\ Has(Star(EncodingNodeL), 0)
  BY <1>a, Languages
<1>14. Has(DocumentL, 0)
  <2>1. Has(Join(NamespaceL, Star(DeclarationL)), 0 + 0)
    BY <1>2, <1>13, Languages, StarWords, HasJoin
  <2>2. Has(Join(Star(IncludeL), Join(NamespaceL, Star(DeclarationL))), 0 + 0)
    BY <1>13, <2>1, StarWords, JoinWords, HasJoin
  <2> QED
    BY <2>2 DEF DocumentL
<1> SUFFICES ASSUME NEW i \in Items, i # "unexpected" PROVE Has(Lang(i), Need(i))
  OBVIOUS
<1>15. CASE i \in Terminals
  BY <1>15, <1>o, NeedIs, LangTerminal
<1>16. CASE i \in DOMAIN Node
  BY <1>16, <1>1, <1>5, <1>6, <1>7, <1>8, <1>9, <1>11, <1>12, <1>14, NeedIs, LangIs, ItemsAre
<1>17. CASE i \in DOMAIN Value
  BY <1>17, <1>3, <1>4, NeedIs, LangIs, ItemsAre
<1>18. CASE i = "return"
  BY <1>18, NeedIs, LangIs, WordEmpty DEF Has
<1>19. CASE i \in Branches
  BY <1>19, <1>2, <1>10, <1>13, NeedIs, LangIs DEF Branches
<1> QED
  BY <1>15, <1>16, <1>17, <1>18, <1>19 DEF Items

\* What a stack owes completes the document.
LEMMA OwesLeft ==
  ASSUME NEW t \in Stacks, NEW L \in Left(t), NEW m \in Nat, NEW c \in Nat, <<m, c>> \in Owes(t)
  PROVE  Has(L, c)
<1> DEFINE Good(u, K) == \A k \in Nat : \A d \in Nat : <<k, d>> \in Owes(u) => Has(K, d)
           S == [u \in Stacks |-> {K \in SUBSET Words : Good(u, K)}]
<1>1. Good(<<>>, {<<>>})
  <2>1. Nat \X {0} \in SUBSET (Nat \X Nat)
    OBVIOUS
  <2>2. ASSUME NEW k \in Nat, NEW d \in Nat, <<k, d>> \in Owes(<<>>) PROVE Has({<<>>}, d)
    <3>1. <<k, d>> \in Nat \X {0}
      BY <2>1, <2>2, RunsInvert DEF Owes
    <3> QED
      BY <3>1, WordEmpty DEF Has
  <2> QED
    BY <2>2
<1>2. ASSUME NEW u \in Stacks, NEW i \in Items, NEW K \in SUBSET Words, Good(u, K), NEW M \in SUBSET Words,
             <<i, K, M>> \in LeftRule
      PROVE  Good(<<i>> \o u, M)
  <2>1. M = Put(i, K) /\ i # "unexpected"
    BY <1>2 DEF LeftRule
  <2> SUFFICES ASSUME NEW k \in Nat, NEW d \in Nat, <<k, d>> \in Owes(<<i>> \o u) PROVE Has(M, d)
    OBVIOUS
  <2>2. PICK n \in Nat, e \in Nat :
               <<n, e>> \in Owes(u) /\ n <= k + Need(i) /\ Room(i, e, k) /\ d = Need(i) + e
    BY OwesInvert
  <2>3. Has(K, e) /\ Has(Lang(i), Need(i)) /\ Lang(i) \in SUBSET Words /\ Need(i) \in Nat
    BY <1>2, <2>1, <2>2, NeedLang, LangWords, NeedNat
  <2>4. Has(Join(Lang(i), K), Need(i) + e)
    BY <2>3, HasJoin
  <2> QED
    BY <2>1, <2>2, <2>4 DEF Put
<1> HIDE DEF Good
<1>3. S \in [Stacks -> SUBSET SUBSET Words]
  OBVIOUS
<1>4. Closed(S, SUBSET Words, {{<<>>}}, LeftRule)
  <2>1. <<>> \in Stacks /\ {<<>>} \in SUBSET Words
    BY WordEmpty DEF Stacks
  <2>2. {{<<>>}} \subseteq S[<<>>]
    BY <1>1, <2>1
  <2>3. ASSUME NEW u \in Stacks, NEW i \in Items, NEW K \in S[u], NEW M \in SUBSET Words,
               <<i, K, M>> \in LeftRule
        PROVE  M \in S[<<i>> \o u]
    <3>1. K \in SUBSET Words /\ Good(u, K)
      OBVIOUS
    <3>2. Good(<<i>> \o u, M)
      BY <1>2, <2>3, <3>1
    <3> QED
      BY <3>2, StackCons
  <2> HIDE DEF S
  <2> QED
    BY <2>2, <2>3 DEF Closed
<1>5. L \in S[t]
  <2> HIDE DEF S
  <2> QED
    BY <1>3, <1>4, RunsInduction DEF Left
<1>6. Good(t, L)
  BY <1>5
<1> QED
  BY <1>6 DEF Good

--------------------------------------------------------------------------------
(* What may follow the symbols x. *)
Rest(x) == {w \in Words : x \o w \in DocumentL}

\* A few symbols more complete a document.
Completable(x) == \E w \in Rest(x) : 2 * Len(w) <= 10 \/ 2 * Len(w) <= Len(x)

\* After the symbols x and with the cached symbol p, the stack t stands for
\* what may follow, and has room.
Hopeful(t, p, x) ==
  /\ \E L \in Left(t) : IF p = "invalid" THEN L = Rest(x) ELSE Ahead(L, p) = Ahead(Rest(x), p)
  /\ \E c \in Nat : <<Len(x), c>> \in Owes(t)

\* At first everything may come, and the empty document is one.
LEMMA HopefulInit == Hopeful(<<"document">>, "invalid", <<>>) /\ Completable(<<>>)
<1>1. "document" \in Items /\ <<>> \in Stacks /\ <<"document">> \o <<>> = <<"document">>
  BY ItemsAre DEF Stacks
<1>2. DocumentL \in SUBSET Words /\ Rest(<<>>) = DocumentL
  BY Languages, WordEmpty DEF Rest
<1>3. Put("document", {<<>>}) = DocumentL
  BY <1>2, LangIs, JoinEmpty DEF Put
<1>4. Leads({<<>>}, Follow("document"))
  BY FollowIs DEF Leads, First
<1>5. Put("document", {<<>>}) \in Left(<<"document">> \o <<>>)
  BY <1>1, <1>4, LeftEmpty, LeftCons
<1>6. DocumentL \in Left(<<"document">>)
  BY Zenon, <1>1, <1>3, <1>5
<1>7. <<0, 0>> \in Owes(<<"document">>)
  <2>1. <<0, 0>> \in Owes(<<>>)
    BY OwesEmpty
  <2>2. Room("document", 0, 0) /\ Need("document") = 0
    BY RoomIs, NeedIs
  <2>3. 0 \in Nat /\ 0 <= 0 + 0 /\ 0 = 0 + 0
    OBVIOUS
  <2>4. <<0, 0>> \in Owes(<<"document">> \o <<>>)
    BY <1>1, <2>1, <2>2, <2>3, OwesItem
  <2> QED
    BY Zenon, <1>1, <2>4
<1>8. Has(DocumentL, 0)
  BY <1>1, NeedLang, LangIs, NeedIs
<1> QED
  BY <1>2, <1>6, <1>7, <1>8, WordEmpty DEF Hopeful, Completable, Has

\* A call of a function that returns a node keeps the hope.
LEMMA HopefulNode ==
  ASSUME NEW t \in Stacks, NEW k \in DOMAIN Node, NEW p, NEW x \in Words, Hopeful(<<k>> \o t, p, x)
  PROVE  Hopeful(Node[k] \o t, p, x)
<1>0. Len(x) \in Nat
  BY WordLen
<1>1. PICK L \in Left(<<k>> \o t) : IF p = "invalid" THEN L = Rest(x) ELSE Ahead(L, p) = Ahead(Rest(x), p)
  BY DEF Hopeful
<1>2. PICK c \in Nat : <<Len(x), c>> \in Owes(<<k>> \o t)
  BY DEF Hopeful
<1>3. L \in Left(Node[k] \o t)
  BY LeftNode
<1>4. \E q \in Nat : <<Len(x), q>> \in Owes(Node[k] \o t)
  BY <1>0, <1>2, OwesNode
<1> QED
  BY Zenon, <1>1, <1>3, <1>4 DEF Hopeful

\* So does a call of one that returns a value.
LEMMA HopefulValue ==
  ASSUME NEW t \in Stacks, NEW k \in DOMAIN Value, NEW p, NEW x \in Words, Hopeful(<<k>> \o t, p, x)
  PROVE  Hopeful(Value[k] \o t, p, x)
<1>0. Len(x) \in Nat
  BY WordLen
<1>1. PICK L \in Left(<<k>> \o t) : IF p = "invalid" THEN L = Rest(x) ELSE Ahead(L, p) = Ahead(Rest(x), p)
  BY DEF Hopeful
<1>2. PICK c \in Nat : <<Len(x), c>> \in Owes(<<k>> \o t)
  BY DEF Hopeful
<1>3. L \in Left(Value[k] \o t)
  BY LeftValue
<1>4. \E q \in Nat : <<Len(x), q>> \in Owes(Value[k] \o t)
  BY <1>0, <1>2, OwesValue
<1> QED
  BY Zenon, <1>1, <1>3, <1>4 DEF Hopeful

\* With one symbol of lookahead, the branches and loops give up no document.
LEMMA HopefulLook ==
  ASSUME NEW t \in Stacks, NEW i \in Branches, NEW p, NEW x \in Words, Hopeful(<<i>> \o t, p, x),
         NEW s \in Symbols, p \in {"invalid", s}
  PROVE  \/ Hopeful(Branch(i, s) \o t, s, x)
         \/ Branch(i, s) = <<"unexpected">> /\ Ahead(Rest(x), s) = {}
<1>0. Len(x) \in Nat /\ s # "invalid"
  BY WordLen DEF Symbols
<1>1. PICK L \in Left(<<i>> \o t) : IF p = "invalid" THEN L = Rest(x) ELSE Ahead(L, p) = Ahead(Rest(x), p)
  BY DEF Hopeful
<1>2. PICK c \in Nat : <<Len(x), c>> \in Owes(<<i>> \o t)
  BY DEF Hopeful
<1>3. Ahead(L, s) = Ahead(Rest(x), s)
  BY <1>1
<1>4. CASE Branch(i, s) = <<"unexpected">> /\ Ahead(L, s) = {}
  BY <1>3, <1>4
<1>5. ASSUME NEW M \in Left(Branch(i, s) \o t), Ahead(M, s) = Ahead(L, s)
      PROVE  Hopeful(Branch(i, s) \o t, s, x)
  <2>1. Branch(i, s) # <<"unexpected">>
    BY LeftInvert, ItemsAre
  <2>2. \E q \in Nat : <<Len(x), q>> \in Owes(Branch(i, s) \o t)
    BY <1>0, <1>2, <2>1, OwesLook
  <2>3. Ahead(M, s) = Ahead(Rest(x), s)
    BY <1>3, <1>5
  <2> QED
    BY Zenon, <1>0, <2>2, <2>3 DEF Hopeful
<1> QED
  BY <1>4, <1>5, LeftLook

\* What may come after one more symbol.
LEMMA RestAppend ==
  ASSUME NEW x \in Words, NEW i \in Terminals
  PROVE  /\ Append(x, i) \in Words /\ Len(Append(x, i)) = Len(x) + 1
         /\ \A w \in Words : w \in Rest(Append(x, i)) <=> <<i>> \o w \in Ahead(Rest(x), i)
<1>1. Append(x, i) = x \o <<i>> /\ Append(x, i) \in Words /\ Len(Append(x, i)) = Len(x) + 1
  BY DEF Words
<1>2. ASSUME NEW w \in Words PROVE w \in Rest(Append(x, i)) <=> <<i>> \o w \in Ahead(Rest(x), i)
  <2>1. (x \o <<i>>) \o w = x \o (<<i>> \o w) /\ <<i>> \o w \in Words
    BY WordOne, WordAssoc, WordCat
  <2>2. First(<<i>> \o w) = i
    BY WordOne, FirstCat DEF First
  <2> QED
    BY <1>1, <2>1, <2>2 DEF Rest, Ahead
<1> QED
  BY <1>1, <1>2

\* A symbol taken by parse_symbol and the like was one that may come next, and the
\* beginning is still one of a document.
LEMMA HopefulParse ==
  ASSUME NEW t \in Stacks, NEW i \in Terminals, NEW p, NEW x \in Words, Hopeful(<<i>> \o t, p, x),
         p \in {"invalid", i}
  PROVE  Hopeful(t, "invalid", Append(x, i)) /\ Completable(Append(x, i))
<1>0. Len(x) \in Nat /\ i # "invalid" /\ i \in Items /\ Need(i) = 1
  BY WordLen, ItemsAre, NeedIs DEF Symbols, Terminals
<1>1. PICK L \in Left(<<i>> \o t) : IF p = "invalid" THEN L = Rest(x) ELSE Ahead(L, p) = Ahead(Rest(x), p)
  BY DEF Hopeful
<1>2. Ahead(L, i) = Ahead(Rest(x), i)
  BY <1>1
<1>3. PICK A \in Left(t) : L = Put(i, A)
  BY <1>0, LeftInvert
<1>4. A \in SUBSET Words /\ L = Join(One(i), A)
  BY <1>3, LeftWords, PutOne
<1>5. ASSUME NEW w \in Words PROVE w \in A <=> <<i>> \o w \in Ahead(L, i)
  <2>1. w \in A => <<i>> \o w \in L
    BY <1>4, JoinOne
  <2>2. <<i>> \o w \in L => w \in A
    <3> SUFFICES ASSUME <<i>> \o w \in L PROVE w \in A
      OBVIOUS
    <3> DEFINE z == <<i>> \o w
    <3>0. z \in Join(One(i), A)
      BY <1>4
    <3> HIDE DEF z
    <3>1. PICK y \in A : z = <<i>> \o y
      BY <1>4, <3>0, JoinOne
    <3> USE DEF z
    <3> QED
      BY <1>4, <3>1, WordCancel
  <2>3. First(<<i>> \o w) = i
    BY WordOne, FirstCat DEF First
  <2> QED
    BY <2>1, <2>2, <2>3 DEF Ahead
<1>6. A = Rest(Append(x, i))
  <2>1. Rest(Append(x, i)) \in SUBSET Words
    BY DEF Rest
  <2>2. \A w \in Words : w \in A <=> w \in Rest(Append(x, i))
    BY <1>2, <1>5, RestAppend
  <2> QED
    BY <1>4, <2>1, <2>2
<1>7. PICK c \in Nat : <<Len(x), c>> \in Owes(<<i>> \o t)
  BY DEF Hopeful
<1>8. PICK n \in Nat, d \in Nat :
        <<n, d>> \in Owes(t) /\ n <= Len(x) + Need(i) /\ Room(i, d, Len(x)) /\ c = Need(i) + d
  BY <1>0, <1>7, OwesInvert
<1>9. Len(Append(x, i)) = Len(x) + 1
  BY RestAppend
<1>10. <<Len(Append(x, i)), d>> \in Owes(t)
  BY <1>0, <1>8, <1>9, OwesMore
<1>11. PICK w \in A : Len(w) = d
  BY <1>8, OwesLeft DEF Has
<1>12. 2 * d <= 10 \/ 2 * d <= Len(x) + 1
  BY <1>8, RoomIs
<1>13. Completable(Append(x, i))
  BY <1>6, <1>9, <1>11, <1>12 DEF Completable
<1>14. Hopeful(t, "invalid", Append(x, i))
  BY Zenon, <1>6, <1>10 DEF Hopeful
<1> QED
  BY <1>13, <1>14

\* An unexpected symbol could not have come.
LEMMA HopefulStop ==
  ASSUME NEW t \in Stacks, NEW i \in Terminals \cup {"unexpected"}, NEW p, NEW x \in Words,
         Hopeful(<<i>> \o t, p, x), NEW s \in Symbols, s # i, p \in {"invalid", s}
  PROVE  Ahead(Rest(x), s) = {}
<1>0. s # "invalid" /\ i \in Items
  BY ItemsAre DEF Symbols
<1>1. PICK L \in Left(<<i>> \o t) : IF p = "invalid" THEN L = Rest(x) ELSE Ahead(L, p) = Ahead(Rest(x), p)
  BY DEF Hopeful
<1>2. Ahead(L, s) = Ahead(Rest(x), s)
  BY <1>1
<1>3. i # "unexpected"
  BY <1>0, LeftInvert
<1>4. PICK A \in Left(t) : L = Put(i, A)
  BY <1>0, LeftInvert
<1>5. i \in Terminals /\ A \in SUBSET Words /\ L = Join(One(i), A)
  BY <1>3, <1>4, LeftWords, PutOne
<1>6. Ahead(L, s) = {}
  BY <1>5, JoinOne DEF Ahead
<1> QED
  BY <1>2, <1>6

\* A return keeps the hope.
LEMMA HopefulReturn ==
  ASSUME NEW t \in Stacks, NEW p, NEW x \in Words, Hopeful(<<"return">> \o t, p, x)
  PROVE  Hopeful(t, p, x)
<1>0. Len(x) \in Nat /\ "return" \in Items /\ Need("return") = 0
  BY WordLen, ItemsAre, NeedIs
<1>1. PICK L \in Left(<<"return">> \o t) :
        IF p = "invalid" THEN L = Rest(x) ELSE Ahead(L, p) = Ahead(Rest(x), p)
  BY DEF Hopeful
<1>2. PICK A \in Left(t) : L = Put("return", A)
  BY <1>0, LeftInvert
<1>3. L \in Left(t)
  BY <1>2, LeftWords, PutReturn
<1>4. PICK c \in Nat : <<Len(x), c>> \in Owes(<<"return">> \o t)
  BY DEF Hopeful
<1>5. PICK n \in Nat, d \in Nat :
        <<n, d>> \in Owes(t) /\ n <= Len(x) + Need("return") /\ Room("return", d, Len(x)) /\ c = Need("return") + d
  BY <1>0, <1>4, OwesInvert
<1>6. <<Len(x), d>> \in Owes(t)
  BY <1>0, <1>5, OwesMore
<1> QED
  BY Zenon, <1>1, <1>3, <1>6 DEF Hopeful

\* The rows of Node, Value and Branch are rows of items.
LEMMA NodeRows ==
  /\ \A k \in DOMAIN Node : Node[k] \in Stacks
  /\ \A k \in DOMAIN Value : Value[k] \in Stacks
  /\ \A i \in Branches : \A s \in Symbols : Branch(i, s) \in Stacks
<1>1. ASSUME NEW k \in DOMAIN Node PROVE Node[k] \in Stacks
  <2>1. {"include_kw", "string", "struct_kw", "identifier", "curly_open", "curly_close", "colon", "mapping_kw",
         "encoding_kw", "delta_kw", "return", "struct_fields", "type", "qualified_identifier",
         "mapping_fields", "encoding_id", "encoding_nodes", "delta_fields", "includes", "namespace",
         "declarations"} \subseteq Items
    BY ItemsAre, Lexemes
  <2>2. ParseInclude \in Stacks /\ ParseStruct \in Stacks /\ ParseStructField \in Stacks
    BY <2>1 DEF Stacks, ParseInclude, ParseStruct, ParseStructField
  <2>3. ParseMapping \in Stacks /\ ParseMappingField \in Stacks /\ ParseEncoding \in Stacks
    BY <2>1 DEF Stacks, ParseMapping, ParseMappingField, ParseEncoding
  <2>4. ParseEncodingField \in Stacks /\ ParseEncodingDeltaBlock \in Stacks /\ ParseDocument \in Stacks
    BY <2>1 DEF Stacks, ParseEncodingField, ParseEncodingDeltaBlock, ParseDocument
  <2> QED
    BY <2>2, <2>3, <2>4 DEF Node
<1>2. ASSUME NEW k \in DOMAIN Value PROVE Value[k] \in Stacks
  <2>1. {"identifier", "more_identifiers", "qualified_identifier", "array"} \subseteq Items
    BY ItemsAre, Lexemes
  <2>2. ParseQualifiedIdentifier \in Stacks /\ ParseType \in Stacks
    BY <2>1 DEF Stacks, ParseQualifiedIdentifier, ParseType
  <2> QED
    BY <2>2 DEF Value
<1>3. ASSUME NEW i \in Branches, NEW s \in Symbols PROVE Branch(i, s) \in Stacks
  <2>1. /\ {<<>>, <<"unexpected">>, <<"include", "includes">>, <<"namespace_kw", "qualified_identifier">>,
            <<"struct", "declarations">>, <<"mapping", "declarations">>, <<"encoding", "declarations">>}
             \subseteq Stacks
        /\ {<<"namespace_sep", "identifier", "more_identifiers">>,
            <<"bracket_open", "integer", "bracket_close">>, <<"colon", "identifier">>,
            <<"encoding_delta_block">>, <<"encoding_field">>, <<"encoding_node">>} \subseteq Stacks
        /\ {<<"curly_open", "encoding_nodes", "curly_close">>, <<"struct_field", "struct_fields">>,
            <<"mapping_field", "mapping_fields">>, <<"encoding_node", "encoding_nodes">>} \subseteq Stacks
    BY ItemsAre, Lexemes DEF Stacks
  <2> QED
    BY <2>1, BranchIs DEF Branches
<1> QED
  BY <1>1, <1>2, <1>3

\* So they are in front of a stack.
LEMMA RowStacks ==
  /\ \A k \in DOMAIN Node : \A t \in Stacks : Node[k] \o t \in Stacks
  /\ \A k \in DOMAIN Value : \A t \in Stacks : Value[k] \o t \in Stacks
  /\ \A i \in Branches : \A s \in Symbols : \A t \in Stacks : Branch(i, s) \o t \in Stacks
<1>1. \A a, b \in Stacks : a \o b \in Stacks
  BY DEF Stacks
<1> QED
  BY <1>1, NodeRows

\* No name is the name of a symbol and of something else.
LEMMA Heads ==
  /\ \A i \in Items : i \in Symbols => i \in Terminals
  /\ "unexpected" \notin Symbols \cup DOMAIN Node \cup DOMAIN Value \cup Branches \cup {"return"}
<1>1. \A i \in Items : i \in Symbols => i \in Terminals
  <2>1. \A i \in Branches \cup {"return", "unexpected"} : i \notin Symbols
    BY DEF Branches, Symbols
  <2>2. \A i \in DOMAIN Node \cup DOMAIN Value : i \notin Symbols
    BY ItemsAre DEF Symbols
  <2> QED
    BY <2>1, <2>2 DEF Items
<1>2. "unexpected" \notin Symbols \cup DOMAIN Node \cup DOMAIN Value \cup Branches \cup {"return"}
  BY ItemsAre DEF Symbols, Branches
<1> QED
  BY <1>1, <1>2

\* The parser is about to refuse a symbol with which no document goes on.
Doomed ==
  /\ todo # <<>> /\ Head(todo) = "unexpected" /\ next_symbol \in Symbols
  /\ Ahead(Rest(consumed), next_symbol) = {}

\* The inductive invariant of RejectsEarly.
RejectInv ==
  /\ consumed \in Words /\ Len(consumed) <= MaxSymbols
  /\ next_symbol \in Symbols \cup {"invalid"}
  /\ Len(consumed) = MaxSymbols => next_symbol \in {"invalid", "eof"}
  /\ Completable(consumed)
  /\ outcome \in {"parsing", "document", "exception"}
  /\ outcome = "parsing" => todo \in Stacks /\ (Hopeful(todo, next_symbol, consumed) \/ Doomed)
  /\ outcome = "exception" => next_symbol \in Symbols /\ Ahead(Rest(consumed), next_symbol) = {}

\* At first the invariant holds.
LEMMA RejectInit == ParserInit => RejectInv
<1> SUFFICES ASSUME ParserInit PROVE RejectInv
  OBVIOUS
<1>1. todo \in Stacks
  BY ItemsAre DEF ParserInit, Stacks
<1>2. consumed \in Words /\ Len(consumed) <= MaxSymbols
  BY WordEmpty, ParserAssumption DEF ParserInit
<1> QED
  BY <1>1, <1>2, HopefulInit DEF ParserInit, RejectInv

\* peek_symbol answers with the cached symbol, or with any; at the bound with eof.
LEMMA PeekedIs ==
  ASSUME RejectInv, NEW s \in Peeked
  PROVE  /\ s \in Symbols /\ s # "invalid" /\ next_symbol \in {"invalid", s}
         /\ Len(consumed) = MaxSymbols => s = "eof"
<1>1. s \in Symbols /\ next_symbol \in {"invalid", s} /\ (Len(consumed) = MaxSymbols => s = "eof")
  BY DEF RejectInv, Peeked, Symbols
<1> QED
  BY <1>1 DEF Symbols

\* Every step keeps the invariant.
LEMMA RejectStep == RejectInv /\ [ParserNext]_parserVars => RejectInv'
<1> SUFFICES ASSUME RejectInv, [ParserNext]_parserVars PROVE RejectInv'
  OBVIOUS
<1> DEFINE i == Head(todo)
           t == Tail(todo)
<1>0. ASSUME outcome = "parsing", todo # <<>>
      PROVE  i \in Items /\ t \in Stacks /\ todo = <<i>> \o t
  BY <1>0, StackHead DEF RejectInv
<1>1. ASSUME outcome = "parsing", todo # <<>>, i # "unexpected"
      PROVE  Hopeful(<<i>> \o t, next_symbol, consumed)
  <2>1. Hopeful(todo, next_symbol, consumed)
    BY <1>1 DEF RejectInv, Doomed
  <2> QED
    BY Zenon, <1>0, <1>1, <2>1
<1>2. CASE CallNode
  <2>1. i \in DOMAIN Node /\ outcome = "parsing" /\ todo # <<>> /\ todo' = Node[i] \o t
    BY <1>2 DEF CallNode
  <2>2. Hopeful(todo', next_symbol, consumed) /\ todo' \in Stacks
    BY <1>0, <1>1, <2>1, Heads, HopefulNode, RowStacks DEF RejectInv
  <2> QED
    BY <1>2, <2>1, <2>2 DEF CallNode, RejectInv
<1>3. CASE CallValue
  <2>1. i \in DOMAIN Value /\ outcome = "parsing" /\ todo # <<>> /\ todo' = Value[i] \o t
    BY <1>3 DEF CallValue
  <2>2. Hopeful(todo', next_symbol, consumed) /\ todo' \in Stacks
    BY <1>0, <1>1, <2>1, Heads, HopefulValue, RowStacks DEF RejectInv
  <2> QED
    BY <1>3, <2>1, <2>2 DEF CallValue, RejectInv
<1>4. CASE Look
  <2>1. i \in Branches /\ outcome = "parsing" /\ todo # <<>>
    BY <1>4 DEF Look
  <2>2. PICK s \in Peeked : next_symbol' = s /\ todo' = Branch(i, s) \o t
    BY <1>4 DEF Look
  <2>3. s \in Symbols /\ next_symbol \in {"invalid", s} /\ (Len(consumed) = MaxSymbols => s = "eof")
    BY PeekedIs
  <2>4. todo' \in Stacks /\ t \in Stacks
    BY <1>0, <2>1, <2>2, <2>3, RowStacks
  <2>5. Hopeful(<<i>> \o t, next_symbol, consumed) /\ consumed \in Words
    BY <1>1, <2>1, Heads DEF RejectInv
  <2>6. \/ Hopeful(Branch(i, s) \o t, s, consumed)
        \/ Branch(i, s) = <<"unexpected">> /\ Ahead(Rest(consumed), s) = {}
    BY <2>1, <2>3, <2>4, <2>5, HopefulLook
  <2>7. CASE Hopeful(Branch(i, s) \o t, s, consumed)
    BY <1>4, <2>2, <2>3, <2>4, <2>7 DEF Look, RejectInv
  <2>8. CASE Branch(i, s) = <<"unexpected">> /\ Ahead(Rest(consumed), s) = {}
    <3>1. todo' # <<>> /\ Head(todo') = "unexpected"
      BY <2>2, <2>4, <2>8, StackCons, ItemsAre
    <3> QED
      BY <1>4, <2>2, <2>3, <2>4, <2>8, <3>1 DEF Look, RejectInv, Doomed
  <2> QED
    BY <2>6, <2>7, <2>8
<1>5. CASE Parse
  <2>1. i \in Symbols /\ i \in Peeked /\ outcome = "parsing" /\ todo # <<>>
    BY <1>5 DEF Parse
  <2>2. i \in Terminals /\ t \in Stacks /\ consumed \in Words /\ i # "eof"
    BY <1>0, <2>1, Heads DEF RejectInv, Terminals
  <2>3. next_symbol \in {"invalid", i} /\ Len(consumed) # MaxSymbols
    BY <2>1, <2>2, PeekedIs
  <2>4. Hopeful(<<i>> \o t, next_symbol, consumed)
    BY <1>1, <2>1, Heads
  <2>5. Hopeful(t, "invalid", Append(consumed, i)) /\ Completable(Append(consumed, i))
    BY <2>2, <2>3, <2>4, HopefulParse
  <2>6. Append(consumed, i) \in Words /\ Len(Append(consumed, i)) <= MaxSymbols
    <3>1. Append(consumed, i) \in Words /\ Len(Append(consumed, i)) = Len(consumed) + 1 /\ Len(consumed) \in Nat
      BY <2>2, RestAppend, WordLen
    <3>2. Len(consumed) <= MaxSymbols /\ MaxSymbols \in Nat
      BY ParserAssumption DEF RejectInv
    <3> HIDE DEF i
    <3> QED
      BY <2>3, <3>1, <3>2
  <2> QED
    BY <1>5, <2>2, <2>5, <2>6 DEF Parse, RejectInv
<1>6. CASE Unexpected
  <2>1. i \in Symbols \cup {"unexpected"} /\ outcome = "parsing" /\ todo # <<>>
    BY <1>6 DEF Unexpected
  <2>2. PICK s \in Peeked \ {i} : next_symbol' = s
    BY <1>6 DEF Unexpected
  <2>3. s \in Symbols /\ s # "invalid" /\ next_symbol \in {"invalid", s} /\ (Len(consumed) = MaxSymbols => s = "eof")
    BY PeekedIs
  <2>4. Ahead(Rest(consumed), s) = {}
    <3>1. CASE Doomed
      BY <2>3, <3>1 DEF Doomed, Symbols
    <3>2. CASE ~Doomed
      <4>1. Hopeful(todo, next_symbol, consumed) /\ consumed \in Words
        BY <2>1, <3>2 DEF RejectInv
      <4>2. i \in Terminals \cup {"unexpected"} /\ t \in Stacks
        BY <1>0, <2>1, Heads
      <4>3. Hopeful(<<i>> \o t, next_symbol, consumed)
        BY Zenon, <1>0, <2>1, <4>1
      <4> QED
        BY <2>2, <2>3, <4>1, <4>2, <4>3, HopefulStop
    <3> QED
      BY <3>1, <3>2
  <2> QED
    BY <1>6, <2>2, <2>3, <2>4 DEF Unexpected, RejectInv
<1>7. CASE Return
  <2>1. i = "return" /\ outcome = "parsing" /\ todo # <<>>
    BY <1>7 DEF Return
  <2>2. t \in Stacks /\ consumed \in Words
    BY <1>0, <2>1 DEF RejectInv
  <2>3. Hopeful(<<"return">> \o t, next_symbol, consumed)
    BY <1>1, <2>1, Heads
  <2>4. Hopeful(t, next_symbol, consumed)
    BY <2>2, <2>3, HopefulReturn
  <2> QED
    BY <1>7, <2>2, <2>4 DEF Return, RejectInv
<1>8. CASE UNCHANGED parserVars
  BY <1>8 DEF parserVars, RejectInv, Doomed
<1> QED
  BY <1>2, <1>3, <1>4, <1>5, <1>6, <1>7, <1>8 DEF ParserNext

\* Words with the same symbols are equal.
LEMMA WordEq ==
  ASSUME NEW v \in Words, NEW w \in Words, Len(v) = Len(w), \A j \in 1 .. Len(w) : v[j] = w[j]
  PROVE  v = w
  BY DEF Words

\* The invariant implies RejectsEarly.
LEMMA Rejected == RejectInv => RejectsEarly
<1> SUFFICES ASSUME RejectInv, outcome = "exception"
             PROVE  /\ Append(consumed, next_symbol) \notin Beginnings
                    /\ consumed \in Beginnings
  BY DEF RejectsEarly
<1>0. MaxSymbols \in Nat /\ MaxPhrase \in Nat /\ MaxPhrase >= MaxSymbols + 5 /\ 2 * MaxPhrase >= 3 * MaxSymbols
  BY ParserAssumption, GrammarAssumption
<1>a. consumed \in Words /\ Len(consumed) \in Nat /\ Len(consumed) <= MaxSymbols
  BY WordLen DEF RejectInv
<1>b. Documents \subseteq DocumentL /\ Fitting(DocumentL, MaxPhrase) \subseteq Documents /\ DocumentL \in SUBSET Words
  BY PhrasesAre, Languages DEF Near
<1>c. Words \subseteq Seq(Symbols) /\ "eof" \in Symbols
  BY DEF Words, Terminals, Symbols
<1>1. consumed \in Beginnings
  <2>1. PICK w \in Rest(consumed) : 2 * Len(w) <= 10 \/ 2 * Len(w) <= Len(consumed)
    BY DEF RejectInv, Completable
  <2> DEFINE d == consumed \o w
  <2>2. w \in Words /\ d \in DocumentL /\ Len(d) = Len(consumed) + Len(w) /\ Len(w) \in Nat
    BY <1>a, <2>1, WordCat, WordLen DEF Rest
  <2>3. Len(d) <= MaxPhrase
    BY <1>0, <1>a, <2>1, <2>2
  <2>4. d \in Documents
    BY <1>b, <2>2, <2>3 DEF Fitting
  <2>5. SubSeq(Append(d, "eof"), 1, Len(consumed)) = consumed
    BY <1>a, <1>c, <2>2
  <2>6. Len(consumed) \in 0 .. Len(d) + 1
    BY <1>a, <2>2
  <2> HIDE DEF d
  <2>7. consumed \in {SubSeq(Append(d, "eof"), 1, n) : n \in 0 .. Len(d) + 1}
    BY <2>5, <2>6
  <2> QED
    BY Zenon, <2>4, <2>7 DEF Beginnings
<1>2. ASSUME Append(consumed, next_symbol) \in Beginnings PROVE FALSE
  <2>1. PICK d \in Documents : \E n \in 0 .. Len(d) + 1 : Append(consumed, next_symbol) = SubSeq(Append(d, "eof"), 1, n)
    BY <1>2 DEF Beginnings
  <2>2. PICK n \in 0 .. Len(d) + 1 : Append(consumed, next_symbol) = SubSeq(Append(d, "eof"), 1, n)
    BY <2>1
  <2>3. d \in DocumentL /\ d \in Words
    BY <1>b
  <2>4. Len(d) \in Nat /\ next_symbol \in Symbols /\ d \in Seq(Symbols) /\ consumed \in Seq(Symbols)
    BY <1>a, <1>c, <2>3, WordLen DEF RejectInv
  <2> DEFINE e == Append(d, "eof")
             k == Len(consumed)
  <2>5. e \in Seq(Symbols) /\ Len(e) = Len(d) + 1 /\ e[Len(d) + 1] = "eof" /\ \A j \in 1 .. Len(d) : e[j] = d[j]
    BY <1>c, <2>4
  <2>6. Len(SubSeq(e, 1, n)) = n /\ \A j \in 1 .. n : SubSeq(e, 1, n)[j] = e[j]
    BY <2>5
  <2>7. /\ Len(Append(consumed, next_symbol)) = k + 1 /\ Append(consumed, next_symbol)[k + 1] = next_symbol
        /\ \A j \in 1 .. k : Append(consumed, next_symbol)[j] = consumed[j]
    BY <2>4
  <2>8. n = k + 1 /\ e[k + 1] = next_symbol /\ \A j \in 1 .. k : e[j] = consumed[j]
    <3>1. n = k + 1
      BY <2>2, <2>6, <2>7
    <3>2. k + 1 \in 1 .. n /\ \A j \in 1 .. k : j \in 1 .. n
      BY <1>a, <3>1
    <3>3. Append(consumed, next_symbol) = SubSeq(e, 1, n)
      BY <2>2
    <3> HIDE DEF e, k
    <3> QED
      BY <2>6, <2>7, <3>1, <3>2, <3>3
  <2>9. k <= Len(d)
    BY <2>8
  <2>10. \A j \in 1 .. k : d[j] = consumed[j]
    BY <1>a, <2>4, <2>5, <2>8, <2>9
  <2> DEFINE w == SubSeq(d, k + 1, Len(d))
  <2>11. w \in Words /\ Len(w) = Len(d) - k /\ \A j \in 1 .. Len(d) - k : w[j] = d[k + j]
    BY <1>a, <2>3, <2>4, <2>9 DEF Words
  <2>12. consumed \o w = d
    <3>1. /\ consumed \o w \in Words /\ Len(consumed \o w) = Len(d)
      BY <1>a, <2>4, <2>9, <2>11, WordCat
    <3>2. \A j \in 1 .. Len(d) : (consumed \o w)[j] = d[j]
      <4> HIDE DEF w
      <4>1. \A j \in 1 .. k : (consumed \o w)[j] = consumed[j]
        BY <1>a, <2>11 DEF Words
      <4>2. \A j \in (k + 1) .. Len(d) : (consumed \o w)[j] = w[j - k]
        BY <1>a, <2>11, <2>4 DEF Words
      <4>3. \A j \in (k + 1) .. Len(d) : w[j - k] = d[j]
        BY <1>a, <2>11, <2>4, <2>9
      <4> HIDE DEF k
      <4>4. k \in Nat
        BY <1>a DEF k
      <4>5. \A j \in 1 .. Len(d) : j \in 1 .. k \/ j \in (k + 1) .. Len(d)
        BY <2>4, <4>4
      <4> QED
        BY <2>10, <4>1, <4>2, <4>3, <4>5
    <3> HIDE DEF w
    <3> QED
      BY <2>3, <3>1, <3>2, WordEq
  <2>13. First(w) = next_symbol
    <3>1. CASE k = Len(d)
      <4>1. w = <<>>
        BY <2>11, <3>1, WordLen
      <4>2. next_symbol = "eof"
        BY <2>5, <2>8, <3>1
      <4> QED
        BY <4>1, <4>2 DEF First
    <3>2. CASE k < Len(d)
      <4>1. w # <<>>
        <5>1. Len(w) # 0
          BY <1>a, <2>4, <2>11, <3>2
        <5> HIDE DEF w
        <5> QED
          BY <5>1
      <4>2. w[1] = d[k + 1]
        BY <1>a, <2>4, <2>11, <3>2
      <4>3. d[k + 1] = next_symbol
        BY <1>a, <2>4, <2>5, <2>8, <3>2
      <4> HIDE DEF w
      <4> QED
        BY <4>1, <4>2, <4>3 DEF First
    <3> QED
      BY <1>a, <2>4, <2>9, <3>1, <3>2
  <2>14. w \in Ahead(Rest(consumed), next_symbol)
    <3> HIDE DEF w
    <3> QED
      BY <2>3, <2>11, <2>12, <2>13 DEF Rest, Ahead
  <2> QED
    BY <2>14 DEF RejectInv
<1> QED
  BY <1>1, <1>2

\* A ParseException is deserved, and comes at the first symbol that deserves
\* it, whatever the document (RejectsEarly).
THEOREM RejectionIsEarly == ParserSpec => []RejectsEarly
  BY RejectInit, RejectStep, Rejected, PTL DEF ParserSpec
================================================================================
