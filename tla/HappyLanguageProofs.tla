-------------------------- MODULE HappyLanguageProofs --------------------------
(***************************************************************************)
(* The documents that Happy's parser reads, as languages of any length,    *)
(* and what one symbol of lookahead tells about them.                      *)
(*                                                                         *)
(* HappyGrammar enumerates the phrases up to a length. First the operators *)
(* it is built from are shown to be what they stand for: Cat, Many, Block  *)
(* and DeltaBlocks have the words of Join, Star, BlockL and DeltaL, as far *)
(* as they are short enough. The loops and the nesting have no bound, so   *)
(* Star and DeltaL are least languages, and what is proved of them is      *)
(* proved by induction in the form of a closed set.                        *)
(*                                                                         *)
(* The stack of HappyParser is a list of items, each of which takes a word *)
(* of its language Lang from the document. Left(t) is what may be left in  *)
(* the document when the stack is t and every item is followed by a symbol *)
(* that may follow it. Calling a function leaves it as it is (LeftNode,    *)
(* LeftValue), and so does a branch or a loop, for the documents that      *)
(* begin with the symbol it has peeked at (LeftLook): the grammar is       *)
(* LL(1).                                                                  *)
(*                                                                         *)
(* The module ends with the origins of the nodes, which need none of this: *)
(* a function that returns a node is only ever called by a branch that has *)
(* peeked. Its name stands nowhere in todo but at the front, and then a    *)
(* symbol is cached.                                                       *)
(***************************************************************************)
EXTENDS HappyGrammar, SequenceTheorems, WellFoundedInduction, TLAPS

--------------------------------------------------------------------------------
(* Induction and recursion. *)

\* A set of natural numbers has a least member.
LEMMA Least == ASSUME NEW T, T \subseteq Nat, T # {} PROVE \E x \in T : \A y \in T : x <= y
<1>1. IsWellFoundedOn(OpToRel(<, Nat), Nat)
  BY Zenon, NatLessThanWellFounded
<1>2. PICK x \in T : \A y \in T : ~ (<<y, x>> \in OpToRel(<, Nat))
  BY Zenon, <1>1, WFMin
<1>3. \A y \in T : ~ (y < x)
  BY Zenon, <1>2 DEF OpToRel
<1> QED
  BY <1>3

\* A set with 0 and the successors of its members has every number.
LEMMA Induction == ASSUME NEW S, 0 \in S, \A n \in Nat : n \in S => n + 1 \in S PROVE Nat \subseteq S
<1> DEFINE T == {n \in Nat : n \notin S}
<1> SUFFICES ASSUME T # {} PROVE FALSE
  OBVIOUS
<1> HIDE DEF T
<1>1. T \subseteq Nat
  BY DEF T
<1>2. PICK x \in T : \A y \in T : x <= y
  BY Zenon, <1>1, Least
<1>3. x \in Nat /\ x # 0
  BY <1>2 DEF T
<1>4. x - 1 \in Nat /\ (x - 1) + 1 = x
  BY <1>3
<1>5. x - 1 \notin T
  BY <1>2, <1>3, <1>4
<1> QED
  BY <1>2, <1>4, <1>5 DEF T

\* f begins with a and goes on with what step makes of its last value, up to len.
Iterates(f, a, step, len) ==
  f = [n \in 0 .. len |-> IF n = 0 THEN a ELSE step[n][f[n - 1]]]

\* One step more.
LEMMA IteratesExtend ==
  ASSUME NEW len \in Nat, NEW a, NEW step, NEW f, Iterates(f, a, step, len)
  PROVE  Iterates([n \in 0 .. len + 1 |-> IF n = len + 1 THEN step[len + 1][f[len]] ELSE f[n]],
                  a, step, len + 1)
<1> DEFINE g == [n \in 0 .. len + 1 |-> IF n = len + 1 THEN step[len + 1][f[len]] ELSE f[n]]
           h == [n \in 0 .. len + 1 |-> IF n = 0 THEN a ELSE step[n][g[n - 1]]]
<1>1. ASSUME NEW n \in 0 .. len + 1 PROVE g[n] = h[n]
  <2>1. CASE n = len + 1
    <3>1. n - 1 = len /\ len \in 0 .. len + 1 /\ len # len + 1 /\ n # 0
      BY <2>1
    <3>2. g[len] = f[len]
      BY <3>1
    <3> QED
      BY <2>1, <3>1, <3>2
  <2>2. CASE n = 0
    BY <2>2 DEF Iterates
  <2>3. CASE n # 0 /\ n # len + 1
    <3>1. n \in 0 .. len /\ n - 1 \in 0 .. len + 1 /\ n - 1 # len + 1
      BY <2>3
    <3>2. f[n] = step[n][f[n - 1]]
      BY <2>3, <3>1 DEF Iterates
    <3>3. g[n - 1] = f[n - 1]
      BY <3>1
    <3> QED
      BY <2>3, <3>2, <3>3
  <2> QED
    BY <2>1, <2>2, <2>3
<1>2. g = h
  BY <1>1
<1> QED
  BY <1>2 DEF Iterates

\* There are iterates of every length.
LEMMA IteratesExist == ASSUME NEW a, NEW step PROVE \A len \in Nat : \E f : Iterates(f, a, step, len)
<1> DEFINE S == {len \in Nat : \E f : Iterates(f, a, step, len)}
<1>1. 0 \in S
  <2>1. [n \in 0 .. 0 |-> a] = [n \in 0 .. 0 |-> IF n = 0 THEN a ELSE step[n][[k \in 0 .. 0 |-> a][n - 1]]]
    OBVIOUS
  <2> QED
    BY Zenon, <2>1 DEF Iterates
<1>2. \A len \in Nat : len \in S => len + 1 \in S
  <2> SUFFICES ASSUME NEW len \in Nat, NEW f, Iterates(f, a, step, len)
               PROVE  \E g : Iterates(g, a, step, len + 1)
    OBVIOUS
  <2> QED
    BY Zenon, IteratesExtend
<1> HIDE DEF S
<1>3. Nat \subseteq S
  BY <1>1, <1>2, Induction
<1> QED
  BY <1>3 DEF S

\* Induction up to len.
LEMMA UpTo ==
  ASSUME NEW len \in Nat, NEW S, 0 \in S, \A n \in 1 .. len : n - 1 \in S => n \in S
  PROVE  0 .. len \subseteq S
<1> DEFINE T == {n \in Nat : n <= len => n \in S}
<1>1. 0 \in T
  OBVIOUS
<1>2. \A n \in Nat : n \in T => n + 1 \in T
  <2> SUFFICES ASSUME NEW n \in Nat, n \in T, n + 1 <= len PROVE n + 1 \in S
    OBVIOUS
  <2>1. n + 1 \in 1 .. len /\ (n + 1) - 1 = n /\ n \in S
    OBVIOUS
  <2> QED
    BY <2>1
<1> HIDE DEF T
<1>3. Nat \subseteq T
  BY <1>1, <1>2, Induction
<1> QED
  BY <1>3 DEF T

\* A function defined by recursion, whose values stay where step keeps them.
LEMMA Recursion ==
  ASSUME NEW D, NEW a \in D, NEW len \in Nat, NEW step,
         \A n \in 1 .. len : \A x \in D : step[n][x] \in D
  PROVE  \E f : /\ Iterates(f, a, step, len)
                /\ \A n \in 0 .. len : n # 0 => f[n - 1] \in D
<1>1. PICK f : Iterates(f, a, step, len)
  BY IteratesExist
<1>2. f[0] = a
  BY <1>1 DEF Iterates
<1>3. \A n \in 1 .. len : f[n] = step[n][f[n - 1]]
  BY <1>1 DEF Iterates
<1> DEFINE S == {n \in 0 .. len : f[n] \in D}
<1>4. 0 \in S
  BY <1>2
<1>5. \A n \in 1 .. len : n - 1 \in S => n \in S
  BY <1>3
<1> HIDE DEF S
<1>6. 0 .. len \subseteq S
  BY <1>4, <1>5, UpTo
<1>7. \A n \in 0 .. len : n # 0 => n - 1 \in 0 .. len
  OBVIOUS
<1>8. \A n \in 0 .. len : n # 0 => f[n - 1] \in D
  BY <1>6, <1>7 DEF S
<1> QED
  BY <1>1, <1>8

--------------------------------------------------------------------------------
(* Words and languages. *)

Terminals == Symbols \ {"eof"}
Words == Seq(Terminals)

\* A word of V and then one of W.
Join(V, W) == {x \in Words : \E v \in V : \E w \in W : x = v \o w}

\* Words of W, one after the other: the least language with the empty word
\* that is closed under a word of W in front.
Star(W) == {w \in Words : \A S \in SUBSET Words : <<>> \in S /\ Join(W, S) \subseteq S => w \in S}

\* Words put together are a word.
LEMMA WordCat == \A v, w \in Words : v \o w \in Words /\ Len(v \o w) = Len(v) + Len(w)
  BY DEF Words

\* It does not matter which two of three words are put together first.
LEMMA WordAssoc == \A u, v, w \in Words : (u \o v) \o w = u \o (v \o w)
  BY DEF Words

\* The empty word changes nothing.
LEMMA WordEmpty == <<>> \in Words /\ Len(<<>>) = 0 /\ \A w \in Words : <<>> \o w = w /\ w \o <<>> = w
  BY DEF Words

\* Only the empty word has no length.
LEMMA WordLen == \A w \in Words : Len(w) \in Nat /\ (Len(w) = 0 <=> w = <<>>)
  BY DEF Words

\* A symbol is a word.
LEMMA WordOne == \A x \in Terminals : <<x>> \in Words /\ Len(<<x>>) = 1 /\ <<x>> # <<>> /\ <<x>>[1] = x
  BY DEF Words

\* The first symbol of a word, or the end of the document.
First(w) == IF w = <<>> THEN "eof" ELSE w[1]

\* Where a pair of words begins.
LEMMA FirstCat == \A v, w \in Words : First(v \o w) = IF v = <<>> THEN First(w) ELSE First(v)
<1> SUFFICES ASSUME NEW v \in Words, NEW w \in Words, v # <<>>
             PROVE  v \o w # <<>> /\ (v \o w)[1] = v[1]
  BY WordEmpty DEF First
<1> QED
  BY DEF Words

\* A word has one first symbol and one rest.
LEMMA WordCancel ==
  \A x, y \in Terminals : \A v, w \in Words : <<x>> \o v = <<y>> \o w => x = y /\ v = w
<1> SUFFICES ASSUME NEW x \in Terminals, NEW y \in Terminals, NEW v \in Words, NEW w \in Words,
                    <<x>> \o v = <<y>> \o w
             PROVE  x = y /\ v = w
  OBVIOUS
<1>1. (<<x>> \o v)[1] = x /\ (<<y>> \o w)[1] = y
  BY DEF Words
<1>2. Len(<<x>> \o v) = 1 + Len(v) /\ Len(<<y>> \o w) = 1 + Len(w)
  BY DEF Words
<1>3. \A j \in 1 .. Len(v) : (<<x>> \o v)[j + 1] = v[j]
  BY DEF Words
<1>4. \A j \in 1 .. Len(w) : (<<y>> \o w)[j + 1] = w[j]
  BY DEF Words
<1>5. Len(v) = Len(w) /\ \A j \in 1 .. Len(v) : v[j] = w[j]
  BY <1>2, <1>3, <1>4 DEF Words
<1> QED
  BY <1>1, <1>5 DEF Words

\* A word that is not empty has a first symbol.
LEMMA WordHead == \A w \in Words : w # <<>> => w[1] \in Terminals /\ \E v \in Words : w = <<w[1]>> \o v
<1> SUFFICES ASSUME NEW w \in Words, w # <<>>
             PROVE  w[1] \in Terminals /\ \E v \in Words : w = <<w[1]>> \o v
  OBVIOUS
<1>1. Tail(w) \in Words /\ w = <<w[1]>> \o Tail(w) /\ w[1] \in Terminals
  BY DEF Words
<1> QED
  BY <1>1

\* A word of Join is a word of each, one after the other.
LEMMA JoinIs ==
  ASSUME NEW V \in SUBSET Words, NEW W \in SUBSET Words
  PROVE  /\ Join(V, W) \in SUBSET Words
         /\ \A v \in V : \A w \in W : v \o w \in Join(V, W)
         /\ \A x \in Join(V, W) : \E v \in V : \E w \in W : x = v \o w
  BY WordCat DEF Join

\* Join is associative.
LEMMA JoinAssoc ==
  ASSUME NEW U \in SUBSET Words, NEW V \in SUBSET Words, NEW W \in SUBSET Words
  PROVE  Join(Join(U, V), W) = Join(U, Join(V, W))
<1>1. ASSUME NEW u \in U, NEW v \in V, NEW w \in W PROVE (u \o v) \o w = u \o (v \o w)
  BY WordAssoc
<1>2. Join(U, V) \in SUBSET Words /\ Join(V, W) \in SUBSET Words
  BY JoinIs
<1>3. ASSUME NEW x \in Join(Join(U, V), W) PROVE x \in Join(U, Join(V, W))
  <2>1. PICK y \in Join(U, V), w \in W : x = y \o w
    BY <1>2, JoinIs
  <2>2. PICK u \in U, v \in V : y = u \o v
    BY JoinIs
  <2>3. x = u \o (v \o w) /\ v \o w \in Join(V, W)
    BY <1>1, <2>1, <2>2, JoinIs
  <2> QED
    BY <1>2, <2>3, JoinIs
<1>4. ASSUME NEW x \in Join(U, Join(V, W)) PROVE x \in Join(Join(U, V), W)
  <2>1. PICK u \in U, y \in Join(V, W) : x = u \o y
    BY <1>2, JoinIs
  <2>2. PICK v \in V, w \in W : y = v \o w
    BY JoinIs
  <2>3. x = (u \o v) \o w /\ u \o v \in Join(U, V)
    BY <1>1, <2>1, <2>2, JoinIs
  <2> QED
    BY <1>2, <2>3, JoinIs
<1> QED
  BY <1>3, <1>4

\* The empty word is neutral for Join, and no words joined are none.
LEMMA JoinEmpty ==
  ASSUME NEW W \in SUBSET Words
  PROVE  Join({<<>>}, W) = W /\ Join(W, {<<>>}) = W /\ Join({}, W) = {}
  BY WordEmpty DEF Join

\* Join of more words has more words.
LEMMA JoinMonotone ==
  ASSUME NEW U, NEW V, NEW W, NEW X, U \subseteq V, W \subseteq X
  PROVE  Join(U, W) \subseteq Join(V, X)
  BY DEF Join

\* Star has words.
LEMMA StarWords == ASSUME NEW W PROVE Star(W) \in SUBSET Words
  BY DEF Star

\* Induction: what holds for the empty word and is closed holds for Star(W).
LEMMA StarInduction ==
  ASSUME NEW W, NEW S \in SUBSET Words, <<>> \in S, Join(W, S) \subseteq S
  PROVE  Star(W) \subseteq S
  BY DEF Star

\* Star has the empty word, and one more of W in front of each of its words.
LEMMA StarClosed ==
  ASSUME NEW W \in SUBSET Words
  PROVE  <<>> \in Star(W) /\ Join(W, Star(W)) \subseteq Star(W)
<1>1. <<>> \in Star(W)
  BY WordEmpty DEF Star
<1>2. ASSUME NEW v \in W, NEW w \in Star(W) PROVE v \o w \in Star(W)
  <2>1. w \in Words /\ v \o w \in Words
    BY WordCat DEF Star
  <2>2. ASSUME NEW S \in SUBSET Words, <<>> \in S, Join(W, S) \subseteq S PROVE v \o w \in S
    <3>1. w \in S
      BY <2>2 DEF Star
    <3> QED
      BY <2>1, <2>2, <3>1 DEF Join
  <2> QED
    BY <2>1, <2>2 DEF Star
<1> QED
  BY <1>1, <1>2 DEF Join, Star

\* A word of Star(W) is empty or begins with one of W.
LEMMA StarUnfold ==
  ASSUME NEW W \in SUBSET Words
  PROVE  Star(W) = {<<>>} \cup Join(W, Star(W))
<1> DEFINE S == {<<>>} \cup Join(W, Star(W))
<1>1. S \in SUBSET Words
  BY StarWords, JoinIs, WordEmpty
<1>2. S \subseteq Star(W)
  BY StarClosed
<1>3. Join(W, S) \subseteq S
  BY <1>2, JoinMonotone
<1>4. Star(W) \subseteq S
  BY <1>1, <1>3, StarInduction
<1> QED
  BY <1>2, <1>4

\* Star of more words has more words.
LEMMA StarMonotone ==
  ASSUME NEW V \in SUBSET Words, NEW W \in SUBSET Words, V \subseteq W
  PROVE  Star(V) \subseteq Star(W)
<1>1. Join(V, Star(W)) \subseteq Star(W)
  BY StarClosed, JoinMonotone
<1> QED
  BY <1>1, StarWords, StarClosed, StarInduction

\* Cat, of HappyGrammar, is Join for short words.
LEMMA CatIs ==
  ASSUME NEW V \in SUBSET Words, NEW W \in SUBSET Words, NEW n \in Nat
  PROVE  Cat(V, W, n) = Fitting(Join(V, W), n)
<1>1. ASSUME NEW x \in Cat(V, W, n) PROVE x \in Fitting(Join(V, W), n)
  <2>1. PICK k \in 0 .. n : \E p \in {v \in V : Len(v) = k} \X Fitting(W, n - k) : x = p[1] \o p[2]
    BY <1>1 DEF Cat
  <2>2. PICK p \in {v \in V : Len(v) = k} \X Fitting(W, n - k) : x = p[1] \o p[2]
    BY <2>1
  <2>3. p[1] \in V /\ Len(p[1]) = k /\ p[2] \in W /\ Len(p[2]) <= n - k
    BY DEF Fitting
  <2>4. Len(x) = k + Len(p[2]) /\ x \in Words /\ Len(p[2]) \in Nat
    BY <2>2, <2>3, WordCat, WordLen
  <2>5. Len(x) <= n
    BY <2>3, <2>4
  <2>6. x \in Join(V, W)
    BY <2>2, <2>3, JoinIs
  <2> QED
    BY <2>5, <2>6 DEF Fitting
<1>2. ASSUME NEW x \in Fitting(Join(V, W), n) PROVE x \in Cat(V, W, n)
  <2>1. x \in Join(V, W) /\ Len(x) <= n
    BY DEF Fitting
  <2>2. PICK v \in V, w \in W : x = v \o w
    BY <2>1, JoinIs
  <2>3. Len(x) = Len(v) + Len(w) /\ Len(v) \in Nat /\ Len(w) \in Nat
    BY <2>2, WordCat, WordLen
  <2>4. Len(v) \in 0 .. n /\ Len(w) <= n - Len(v)
    BY <2>1, <2>3
  <2>5. <<v, w>> \in {u \in V : Len(u) = Len(v)} \X Fitting(W, n - Len(v))
    BY <2>4 DEF Fitting
  <2>6. x = <<v, w>>[1] \o <<v, w>>[2]
    BY <2>2
  <2>7. x \in {p[1] \o p[2] : p \in {u \in V : Len(u) = Len(v)} \X Fitting(W, n - Len(v))}
    BY <2>5, <2>6
  <2> QED
    BY Zenon, <2>4, <2>7 DEF Cat
<1> QED
  BY <1>1, <1>2

\* The recursive function of Many.
Steps(W, n) ==
  LET many[k \in 0 .. n] == {<<>>} \cup IF k = 0 THEN {} ELSE Cat(W, many[k - 1], n)
  IN many

\* What the recursive function of Many computes, step by step.
LEMMA StepsAre ==
  ASSUME NEW W \in SUBSET Words, NEW n \in Nat
  PROVE  /\ Steps(W, n)[0] = {<<>>}
         /\ \A k \in 1 .. n : Steps(W, n)[k] = {<<>>} \cup Fitting(Join(W, Steps(W, n)[k - 1]), n)
         /\ \A k \in 0 .. n : Steps(W, n)[k] \in SUBSET Words
<1> DEFINE D == SUBSET Words
           step == [k \in 0 .. n |-> [X \in D |-> {<<>>} \cup Cat(W, X, n)]]
<1>1. {<<>>} \in D
  BY WordEmpty
<1>2. \A X \in D : {<<>>} \cup Cat(W, X, n) \in D
  <2> SUFFICES ASSUME NEW X \in D PROVE {<<>>} \cup Cat(W, X, n) \in D
    OBVIOUS
  <2>1. Cat(W, X, n) = Fitting(Join(W, X), n) /\ Join(W, X) \in SUBSET Words
    BY CatIs, JoinIs
  <2> QED
    BY <1>1, <2>1 DEF Fitting
<1> HIDE DEF D
<1>3. ASSUME NEW k \in 1 .. n, NEW X \in D PROVE step[k][X] \in D
  <2>1. step[k][X] = {<<>>} \cup Cat(W, X, n)
    OBVIOUS
  <2> QED
    BY <1>2, <2>1
<1> HIDE DEF step
<1>4. PICK f : Iterates(f, {<<>>}, step, n) /\ \A k \in 0 .. n : k # 0 => f[k - 1] \in D
  BY Zenon, <1>1, <1>3, Recursion
<1>5. f = [k \in 0 .. n |-> IF k = 0 THEN {<<>>} ELSE step[k][f[k - 1]]]
  BY <1>4 DEF Iterates
<1>6. \A k \in 0 .. n : (IF k = 0 THEN {<<>>} ELSE step[k][f[k - 1]])
                        = {<<>>} \cup IF k = 0 THEN {} ELSE Cat(W, f[k - 1], n)
  BY <1>4 DEF step
<1>7. f = [k \in 0 .. n |-> {<<>>} \cup IF k = 0 THEN {} ELSE Cat(W, f[k - 1], n)]
  BY <1>5, <1>6
<1> DEFINE g == Steps(W, n)
<1>8. g = [k \in 0 .. n |-> {<<>>} \cup IF k = 0 THEN {} ELSE Cat(W, g[k - 1], n)]
  BY <1>7 DEF Steps
<1> HIDE DEF g
<1>9. g[0] = {<<>>}
  BY <1>8
<1>10. ASSUME NEW k \in 1 .. n PROVE g[k] = {<<>>} \cup Cat(W, g[k - 1], n)
  <2>1. k \in 0 .. n /\ k # 0
    OBVIOUS
  <2>2. g[k] = {<<>>} \cup IF k = 0 THEN {} ELSE Cat(W, g[k - 1], n)
    BY Zenon, <1>8, <2>1
  <2> QED
    BY <2>1, <2>2
<1> DEFINE S == {k \in 0 .. n : g[k] \in D}
<1>11. 0 \in S
  BY <1>1, <1>9
<1>12. \A k \in 1 .. n : k - 1 \in S => k \in S
  BY <1>2, <1>10
<1> HIDE DEF S
<1>13. 0 .. n \subseteq S
  BY <1>11, <1>12, UpTo
<1>14. \A k \in 0 .. n : g[k] \in SUBSET Words
  BY <1>13 DEF S, D
<1>15. ASSUME NEW k \in 1 .. n PROVE g[k] = {<<>>} \cup Fitting(Join(W, g[k - 1]), n)
  <2>1. g[k - 1] \in SUBSET Words
    BY <1>14
  <2> QED
    BY <1>10, <2>1, CatIs
<1> QED
  BY <1>9, <1>14, <1>15 DEF g

\* Many is Star, as far as it goes.
LEMMA ManyIs ==
  ASSUME NEW W \in SUBSET Words, <<>> \notin W, NEW n \in Nat
  PROVE  Many(W, n) = Fitting(Star(W), n)
<1> DEFINE g == Steps(W, n)
<1>1. Many(W, n) = g[n]
  BY DEF Many, Steps
<1>2. /\ g[0] = {<<>>}
      /\ \A k \in 1 .. n : g[k] = {<<>>} \cup Fitting(Join(W, g[k - 1]), n)
      /\ \A k \in 0 .. n : g[k] \in SUBSET Words
  BY StepsAre
<1> HIDE DEF g
<1>3. Star(W) \in SUBSET Words /\ <<>> \in Star(W) /\ Join(W, Star(W)) \subseteq Star(W)
  BY StarWords, StarClosed
<1>4. \A k \in 0 .. n : g[k] \subseteq Fitting(Star(W), n)
  <2> DEFINE S == {k \in 0 .. n : g[k] \subseteq Fitting(Star(W), n)}
  <2>1. 0 \in S
    BY <1>2, <1>3, WordEmpty DEF Fitting
  <2>2. ASSUME NEW k \in 1 .. n, k - 1 \in S PROVE k \in S
    <3>1. g[k - 1] \subseteq Star(W)
      BY <2>2 DEF Fitting
    <3>2. Join(W, g[k - 1]) \subseteq Star(W)
      BY <1>3, <3>1, JoinMonotone
    <3>3. g[k] \subseteq {<<>>} \cup Fitting(Star(W), n)
      BY <1>2, <3>2 DEF Fitting
    <3> QED
      BY <2>1, <1>2, <3>3
  <2> HIDE DEF S
  <2>3. 0 .. n \subseteq S
    BY <2>1, <2>2, UpTo
  <2> QED
    BY <2>3 DEF S
<1>5. \A k \in 1 .. n : g[k - 1] \subseteq g[k]
  <2> DEFINE S == {k \in 0 .. n : k = 0 \/ g[k - 1] \subseteq g[k]}
  <2>1. 0 \in S
    OBVIOUS
  <2>2. ASSUME NEW k \in 1 .. n, k - 1 \in S PROVE g[k - 1] \subseteq g[k]
    <3>1. CASE k = 1
      BY <3>1, <1>2
    <3>2. CASE k # 1
      <4>1. k - 1 \in 1 .. n /\ g[(k - 1) - 1] \subseteq g[k - 1]
        BY <2>2, <3>2
      <4>2. Join(W, g[(k - 1) - 1]) \subseteq Join(W, g[k - 1])
        BY <4>1, JoinMonotone
      <4> QED
        BY <4>1, <4>2, <1>2 DEF Fitting
    <3> QED
      BY <3>1, <3>2
  <2>3. \A k \in 1 .. n : k - 1 \in S => k \in S
    BY <2>2
  <2> HIDE DEF S
  <2>4. 0 .. n \subseteq S
    BY <2>1, <2>3, UpTo
  <2> QED
    BY <2>4 DEF S
<1>6. \A w \in Star(W) : \A k \in 0 .. n : Len(w) <= k => w \in g[k]
  <2> DEFINE S == {w \in Words : \A k \in 0 .. n : Len(w) <= k => w \in g[k]}
  <2>1. <<>> \in S
    <3>1. \A k \in 0 .. n : <<>> \in g[k]
      BY <1>2
    <3> QED
      BY <3>1, WordEmpty
  <2>2. ASSUME NEW v \in W, NEW w \in S PROVE v \o w \in S
    <3>1. v \o w \in Words /\ Len(v \o w) = Len(v) + Len(w) /\ Len(v) \in Nat /\ Len(v) # 0 /\ Len(w) \in Nat
      BY WordCat, WordLen
    <3>2. ASSUME NEW k \in 0 .. n, Len(v \o w) <= k PROVE v \o w \in g[k]
      <4>1. k \in 1 .. n /\ k - 1 \in 0 .. n /\ Len(w) <= k - 1 /\ Len(v \o w) <= n
        BY <3>1, <3>2
      <4>2. w \in g[k - 1]
        BY <4>1
      <4>3. v \o w \in Join(W, g[k - 1])
        BY <4>1, <4>2, <1>2, JoinIs
      <4> QED
        BY <4>1, <4>3, <1>2 DEF Fitting
    <3> QED
      BY <3>1, <3>2
  <2>3. S \in SUBSET Words
    OBVIOUS
  <2> HIDE DEF S
  <2>4. ASSUME NEW x \in Join(W, S) PROVE x \in S
    <3>1. PICK v \in W, w \in S : x = v \o w
      BY <2>3, JoinIs
    <3> QED
      BY <2>2, <3>1
  <2>5. Star(W) \subseteq S
    BY <2>1, <2>3, <2>4, StarInduction
  <2> QED
    BY <2>5 DEF S
<1>7. n \in 0 .. n
  OBVIOUS
<1> QED
  BY <1>1, <1>4, <1>6, <1>7 DEF Fitting

\* A short word of Star(V) has short pieces.
LEMMA StarFitting ==
  ASSUME NEW V \in SUBSET Words, NEW W \in SUBSET Words, NEW n \in Nat, Fitting(V, n) \subseteq W
  PROVE  Fitting(Star(V), n) \subseteq Star(W)
<1> DEFINE S == {w \in Words : Len(w) <= n => w \in Star(W)}
<1>1. <<>> \in S
  BY WordEmpty, StarClosed
<1>2. ASSUME NEW v \in V, NEW w \in S, Len(v \o w) <= n PROVE v \o w \in Star(W)
  <2>1. Len(v \o w) = Len(v) + Len(w) /\ Len(v) \in Nat /\ Len(w) \in Nat
    BY WordCat, WordLen
  <2>2. Len(v) <= n /\ Len(w) <= n
    BY <1>2, <2>1
  <2>3. v \in W /\ w \in Star(W)
    BY <2>2 DEF Fitting
  <2> QED
    BY <2>3, StarClosed, StarWords, JoinIs
<1>3. S \in SUBSET Words /\ \A v \in V : \A w \in S : v \o w \in Words
  BY WordCat
<1>4. ASSUME NEW x \in Join(V, S) PROVE x \in S
  <2>1. PICK v \in V, w \in S : x = v \o w
    BY <1>3, JoinIs
  <2> QED
    BY <1>2, <1>3, <2>1
<1> HIDE DEF S
<1>5. Star(V) \subseteq S
  BY <1>1, <1>3, <1>4, StarInduction
<1> QED
  BY <1>5 DEF S, Fitting

\* One symbol.
One(x) == {<<x>>}

\* One is a language without the empty word.
LEMMA OneIs == \A x \in Terminals : One(x) \in SUBSET Words /\ <<>> \notin One(x)
  BY WordOne DEF One

\* The words that begin with x, and go on with a word of Y.
LEMMA JoinOne ==
  ASSUME NEW x \in Terminals, NEW Y \in SUBSET Words
  PROVE  /\ Join(One(x), Y) \in SUBSET Words
         /\ \A y \in Y : <<x>> \o y \in Join(One(x), Y)
         /\ \A z \in Join(One(x), Y) : \E y \in Y : z = <<x>> \o y
         /\ \A z \in Join(One(x), Y) : z # <<>> /\ First(z) = x
<1>1. One(x) \in SUBSET Words /\ One(x) = {<<x>>} /\ <<x>> \in Words /\ <<x>> # <<>> /\ <<x>>[1] = x
  BY OneIs, WordOne DEF One
<1>2. /\ Join(One(x), Y) \in SUBSET Words
      /\ \A v \in One(x) : \A w \in Y : v \o w \in Join(One(x), Y)
      /\ \A z \in Join(One(x), Y) : \E v \in One(x) : \E w \in Y : z = v \o w
  BY <1>1, JoinIs
<1>3. \A z \in Join(One(x), Y) : \E y \in Y : z = <<x>> \o y
  BY <1>1, <1>2
<1>4. \A y \in Y : First(<<x>> \o y) = x /\ <<x>> \o y # <<>>
  <2> SUFFICES ASSUME NEW y \in Y PROVE First(<<x>> \o y) = x /\ <<x>> \o y # <<>>
    OBVIOUS
  <2>1. First(<<x>>) = x
    BY <1>1 DEF First
  <2>2. x # "eof"
    BY DEF Terminals
  <2>3. First(<<x>> \o y) = x
    BY <1>1, <2>1, FirstCat
  <2> QED
    BY <2>2, <2>3 DEF First
<1> QED
  BY <1>1, <1>2, <1>3, <1>4

\* Words of W between braces.
BlockL(W) == Join(One("curly_open"), Join(Star(W), One("curly_close")))

\* The words of a block are words of W between braces.
LEMMA BlockMember ==
  ASSUME NEW W \in SUBSET Words
  PROVE  /\ BlockL(W) \in SUBSET Words
         /\ \A w \in Star(W) : /\ <<"curly_open">> \o w \o <<"curly_close">> \in BlockL(W)
                               /\ Len(<<"curly_open">> \o w \o <<"curly_close">>) = Len(w) + 2
         /\ \A x \in BlockL(W) : \E w \in Star(W) : x = <<"curly_open">> \o w \o <<"curly_close">>
<1>1. "curly_open" \in Terminals /\ "curly_close" \in Terminals
  BY DEF Terminals, Symbols
<1> DEFINE a == <<"curly_open">>
           b == <<"curly_close">>
<1>2. a \in Words /\ Len(a) = 1 /\ b \in Words /\ Len(b) = 1
  BY <1>1, WordOne
<1> DEFINE A == One("curly_open")
           B == One("curly_close")
           S == Star(W)
           T == Join(S, B)
<1>3. a \in A /\ b \in B /\ (\A x \in A : x = a) /\ (\A x \in B : x = b)
  BY DEF One
<1>4. S \in SUBSET Words /\ A \in SUBSET Words /\ B \in SUBSET Words
  BY <1>1, OneIs, StarWords
<1> HIDE DEF a, b, A, B, S
<1>5. T \in SUBSET Words /\ (\A w \in S : w \o b \in T) /\ \A x \in T : \E w \in S : x = w \o b
  <2>1. /\ T \in SUBSET Words /\ \A v \in S : \A w \in B : v \o w \in T
        /\ \A x \in T : \E v \in S : \E w \in B : x = v \o w
    BY <1>4, JoinIs
  <2> QED
    BY <1>3, <2>1
<1>6. BlockL(W) = Join(A, T)
  BY DEF BlockL, A, B, S
<1> HIDE DEF T
<1>7. /\ BlockL(W) \in SUBSET Words
      /\ \A y \in T : a \o y \in BlockL(W)
      /\ \A x \in BlockL(W) : \E y \in T : x = a \o y
  <2>1. /\ Join(A, T) \in SUBSET Words /\ \A v \in A : \A y \in T : v \o y \in Join(A, T)
        /\ \A x \in Join(A, T) : \E v \in A : \E y \in T : x = v \o y
    BY <1>4, <1>5, JoinIs
  <2> QED
    BY <1>3, <1>6, <2>1
<1>8. ASSUME NEW w \in S PROVE a \o w \o b \in BlockL(W) /\ Len(a \o w \o b) = Len(w) + 2
  <2>1. a \o (w \o b) \in BlockL(W)
    BY <1>5, <1>7
  <2>2. a \o (w \o b) = a \o w \o b
    BY <1>2, <1>4, WordAssoc
  <2>3. w \in Words /\ w \o b \in Words /\ Len(w \o b) = Len(w) + Len(b)
    BY <1>2, <1>4, WordCat
  <2>4. Len(a \o (w \o b)) = Len(a) + Len(w \o b) /\ Len(w) \in Nat
    BY <1>2, <2>3, WordCat, WordLen
  <2> QED
    BY <1>2, <2>1, <2>2, <2>3, <2>4
<1>9. ASSUME NEW x \in BlockL(W) PROVE \E w \in S : x = a \o w \o b
  <2>1. PICK y \in T : x = a \o y
    BY <1>7
  <2>2. PICK w \in S : y = w \o b
    BY <1>5
  <2>3. a \o (w \o b) = a \o w \o b
    BY <1>2, <1>4, WordAssoc
  <2> QED
    BY <2>1, <2>2, <2>3
<1> QED
  BY <1>7, <1>8, <1>9 DEF a, b, S

\* Blocks of more words are more blocks.
LEMMA BlockMonotone ==
  ASSUME NEW V \in SUBSET Words, NEW W \in SUBSET Words, V \subseteq W
  PROVE  BlockL(V) \subseteq BlockL(W)
  BY StarMonotone, JoinMonotone DEF BlockL

\* Block, of HappyGrammar, is BlockL for short words.
LEMMA BlockIs ==
  ASSUME NEW W \in SUBSET Words, <<>> \notin W, NEW n \in Nat
  PROVE  Block(W, n) = Fitting(BlockL(W), n)
<1> DEFINE Braced(w) == <<"curly_open">> \o w \o <<"curly_close">>
<1>1. \A w \in Star(W) : Len(w) \in Nat /\ Len(Braced(w)) = Len(w) + 2 /\ Braced(w) \in BlockL(W)
  BY BlockMember, StarWords, WordLen
<1>2. \A x \in BlockL(W) : \E w \in Star(W) : x = Braced(w)
  BY BlockMember
<1>3. Block(W, n) = {Braced(w) : w \in IF n < 2 THEN {} ELSE Many(W, n - 2)}
  BY DEF Block
<1> HIDE DEF Braced
<1>4. CASE n < 2
  BY <1>1, <1>2, <1>3, <1>4 DEF Fitting
<1>5. CASE n >= 2
  <2>1. Many(W, n - 2) = Fitting(Star(W), n - 2)
    BY <1>5, ManyIs
  <2>2. ASSUME NEW x \in Block(W, n) PROVE x \in Fitting(BlockL(W), n)
    <3>1. PICK w \in Fitting(Star(W), n - 2) : x = Braced(w)
      BY <1>3, <1>5, <2>1
    <3>2. w \in Star(W) /\ Len(w) <= n - 2
      BY DEF Fitting
    <3> QED
      BY <1>1, <3>1, <3>2 DEF Fitting
  <2>3. ASSUME NEW x \in Fitting(BlockL(W), n) PROVE x \in Block(W, n)
    <3>1. x \in BlockL(W) /\ Len(x) <= n
      BY DEF Fitting
    <3>2. PICK w \in Star(W) : x = Braced(w)
      BY <1>2, <3>1
    <3>3. w \in Fitting(Star(W), n - 2)
      BY <1>1, <3>1, <3>2 DEF Fitting
    <3> QED
      BY <1>3, <1>5, <2>1, <3>2, <3>3
  <2> QED
    BY <2>2, <2>3
<1> QED
  BY <1>4, <1>5

\* One DELTA more around the encoding nodes of D.
DeltaStep(D) == Join(One("delta_kw"), EncodingFields \cup BlockL(EncodingFields \cup D))

\* The DELTA blocks, nested to any depth.
DeltaL == {w \in Words : \A D \in SUBSET Words : DeltaStep(D) \subseteq D => w \in D}

\* No field is empty.
LEMMA FieldsAre == EncodingFields \in SUBSET Words /\ <<>> \notin EncodingFields
  BY DEF EncodingFields, Words, Terminals, Symbols

\* A delta block is delta_kw and a field, or delta_kw and a block.
LEMMA DeltaStepIs ==
  ASSUME NEW D \in SUBSET Words
  PROVE  /\ EncodingFields \cup D \in SUBSET Words
         /\ EncodingFields \cup BlockL(EncodingFields \cup D) \in SUBSET Words
         /\ DeltaStep(D) \in SUBSET (Words \ {<<>>})
         /\ \A y \in EncodingFields \cup BlockL(EncodingFields \cup D) : <<"delta_kw">> \o y \in DeltaStep(D)
         /\ \A x \in DeltaStep(D) : \E y \in EncodingFields \cup BlockL(EncodingFields \cup D) :
              x = <<"delta_kw">> \o y
<1> DEFINE Y == EncodingFields \cup BlockL(EncodingFields \cup D)
<1>1. EncodingFields \cup D \in SUBSET Words
  BY FieldsAre
<1>2. Y \in SUBSET Words
  BY <1>1, FieldsAre, BlockMember
<1>3. "delta_kw" \in Terminals
  BY DEF Terminals, Symbols
<1>5. DeltaStep(D) = Join(One("delta_kw"), Y)
  BY DEF DeltaStep
<1> HIDE DEF Y
<1>6. /\ DeltaStep(D) \in SUBSET Words
      /\ \A y \in Y : <<"delta_kw">> \o y \in DeltaStep(D)
      /\ \A x \in DeltaStep(D) : \E y \in Y : x = <<"delta_kw">> \o y
      /\ \A x \in DeltaStep(D) : x # <<>>
  <2> DEFINE J == Join(One("delta_kw"), Y)
  <2>1. /\ J \in SUBSET Words
        /\ \A y \in Y : <<"delta_kw">> \o y \in J
        /\ \A z \in J : \E y \in Y : z = <<"delta_kw">> \o y
        /\ \A z \in J : z # <<>> /\ First(z) = "delta_kw"
    BY <1>2, <1>3, JoinOne
  <2> QED
    BY <1>5, <2>1
<1> QED
  BY <1>1, <1>2, <1>6 DEF Y

\* More delta blocks inside, more delta blocks.
LEMMA DeltaMonotone ==
  ASSUME NEW D \in SUBSET Words, NEW E \in SUBSET Words, D \subseteq E
  PROVE  DeltaStep(D) \subseteq DeltaStep(E)
<1>1. EncodingFields \cup D \in SUBSET Words /\ EncodingFields \cup E \in SUBSET Words
  BY DeltaStepIs
<1>2. BlockL(EncodingFields \cup D) \subseteq BlockL(EncodingFields \cup E)
  BY <1>1, BlockMonotone
<1> DEFINE X == EncodingFields \cup BlockL(EncodingFields \cup D)
           Y == EncodingFields \cup BlockL(EncodingFields \cup E)
<1>3. X \subseteq Y
  BY <1>2
<1>4. DeltaStep(D) = Join(One("delta_kw"), X) /\ DeltaStep(E) = Join(One("delta_kw"), Y)
  BY DEF DeltaStep
<1> HIDE DEF X, Y
<1>5. Join(One("delta_kw"), X) \subseteq Join(One("delta_kw"), Y)
  BY <1>3, JoinMonotone
<1> QED
  BY <1>4, <1>5

\* DeltaL is the least language that is closed under DeltaStep.
LEMMA DeltaInduction ==
  ASSUME NEW D \in SUBSET Words, DeltaStep(D) \subseteq D
  PROVE  DeltaL \subseteq D
  BY DEF DeltaL

\* The delta blocks are the fields and the blocks of fields and delta blocks.
LEMMA DeltaUnfold == DeltaL \in SUBSET (Words \ {<<>>}) /\ DeltaL = DeltaStep(DeltaL)
<1>1. DeltaL \in SUBSET Words
  BY DEF DeltaL
<1>2. ASSUME NEW x \in DeltaStep(DeltaL) PROVE x \in DeltaL
  <2>1. ASSUME NEW D \in SUBSET Words, DeltaStep(D) \subseteq D PROVE x \in D
    <3>1. DeltaL \subseteq D
      BY <2>1, DeltaInduction
    <3>2. DeltaStep(DeltaL) \subseteq DeltaStep(D)
      BY <1>1, <3>1, DeltaMonotone
    <3> QED
      BY <2>1, <3>2
  <2>2. x \in Words
    BY <1>1, DeltaStepIs
  <2> QED
    BY <2>1, <2>2 DEF DeltaL
<1>3. DeltaStep(DeltaL) \in SUBSET (Words \ {<<>>})
  BY <1>1, DeltaStepIs
<1>4. DeltaStep(DeltaStep(DeltaL)) \subseteq DeltaStep(DeltaL)
  BY <1>1, <1>2, <1>3, DeltaMonotone
<1>5. DeltaL \subseteq DeltaStep(DeltaL)
  BY <1>3, <1>4, DeltaInduction
<1> QED
  BY <1>2, <1>3, <1>5

\* What the recursive function DeltaBlocks of HappyGrammar computes, step by step.
LEMMA DeltaBlocksAre ==
  /\ DeltaBlocks[0] = {}
  /\ \A n \in 1 .. MaxPhrase :
       DeltaBlocks[n] = Cat(One("delta_kw"),
                            EncodingFields \cup Block(EncodingFields \cup DeltaBlocks[n - 1], n - 1), n)
  /\ \A n \in 0 .. MaxPhrase : DeltaBlocks[n] \in SUBSET (Words \ {<<>>})
<1>0. MaxPhrase \in Nat
  BY GrammarAssumption
<1> DEFINE D == SUBSET (Words \ {<<>>})
           Blocks(n, X) == Cat(One("delta_kw"), EncodingFields \cup Block(EncodingFields \cup X, n - 1), n)
           step == [n \in 0 .. MaxPhrase |-> [X \in D |-> Blocks(n, X)]]
<1>1. {} \in D
  OBVIOUS
<1>2. ASSUME NEW n \in 1 .. MaxPhrase, NEW X \in D PROVE Blocks(n, X) \in D
  <2>1. n \in Nat /\ n - 1 \in Nat
    BY <1>0
  <2> DEFINE V == EncodingFields \cup X
             Y == EncodingFields \cup Block(V, n - 1)
  <2>2. V \in SUBSET Words /\ <<>> \notin V
    BY FieldsAre
  <2> HIDE DEF V
  <2>3. Block(V, n - 1) = Fitting(BlockL(V), n - 1) /\ BlockL(V) \in SUBSET Words
    BY <2>1, <2>2, BlockIs, BlockMember
  <2>4. Y \in SUBSET Words
    BY <2>3, FieldsAre DEF Fitting
  <2> HIDE DEF Y
  <2>5. "delta_kw" \in Terminals
    BY DEF Terminals, Symbols
  <2>6. Join(One("delta_kw"), Y) \in SUBSET (Words \ {<<>>}) /\ One("delta_kw") \in SUBSET Words
    BY <2>4, <2>5, JoinOne, OneIs
  <2>7. Cat(One("delta_kw"), Y, n) = Fitting(Join(One("delta_kw"), Y), n)
    BY <2>1, <2>4, <2>6, CatIs
  <2> QED
    BY <2>6, <2>7 DEF Fitting, V, Y
<1> HIDE DEF D
<1>3. ASSUME NEW n \in 1 .. MaxPhrase, NEW X \in D PROVE step[n][X] \in D
  <2>1. step[n][X] = Blocks(n, X)
    BY <1>0
  <2> HIDE DEF step
  <2> QED
    BY <1>2, <2>1
<1> HIDE DEF step
<1>4. PICK f : Iterates(f, {}, step, MaxPhrase) /\ \A n \in 0 .. MaxPhrase : n # 0 => f[n - 1] \in D
  BY Zenon, <1>0, <1>1, <1>3, Recursion
<1>5. f = [n \in 0 .. MaxPhrase |-> IF n = 0 THEN {} ELSE step[n][f[n - 1]]]
  BY <1>4 DEF Iterates
<1>6. ASSUME NEW n \in 0 .. MaxPhrase
      PROVE  (IF n = 0 THEN {} ELSE step[n][f[n - 1]]) = (IF n = 0 THEN {} ELSE Blocks(n, f[n - 1]))
  <2> HIDE DEF Blocks
  <2> QED
    BY <1>4 DEF step
<1>7. f = [n \in 0 .. MaxPhrase |-> IF n = 0 THEN {} ELSE Blocks(n, f[n - 1])]
  <2> HIDE DEF Blocks
  <2> QED
    BY <1>5, <1>6
<1> DEFINE g == DeltaBlocks
<1>8. g = [n \in 0 .. MaxPhrase |-> IF n = 0 THEN {} ELSE Blocks(n, g[n - 1])]
  BY Zenon, <1>7 DEF DeltaBlocks, One
<1> HIDE DEF g, Blocks
<1>9. g[0] = {}
  BY <1>0, <1>8
<1>10. ASSUME NEW n \in 1 .. MaxPhrase PROVE g[n] = Blocks(n, g[n - 1])
  <2>1. n \in 0 .. MaxPhrase /\ n # 0
    BY <1>0
  <2>2. g[n] = IF n = 0 THEN {} ELSE Blocks(n, g[n - 1])
    BY Zenon, <1>8, <2>1
  <2> QED
    BY <2>1, <2>2
<1> DEFINE S == {n \in 0 .. MaxPhrase : g[n] \in D}
<1>11. 0 \in S
  BY <1>0, <1>1, <1>9
<1>12. ASSUME NEW n \in 1 .. MaxPhrase, n - 1 \in S PROVE n \in S
  BY <1>0, <1>2, <1>10, <1>12
<1> HIDE DEF S
<1>13. 0 .. MaxPhrase \subseteq S
  BY <1>0, <1>11, <1>12, UpTo
<1> QED
  BY <1>9, <1>10, <1>13 DEF S, D, g, Blocks

\* DeltaBlocks[n] has the delta blocks of n symbols or fewer.
LEMMA DeltaIs == \A n \in 0 .. MaxPhrase : DeltaBlocks[n] = Fitting(DeltaL, n)
<1>0. MaxPhrase \in Nat
  BY GrammarAssumption
<1> DEFINE g == DeltaBlocks
           V(D) == EncodingFields \cup D
           Y(D) == EncodingFields \cup BlockL(V(D))
<1>1. /\ g[0] = {}
      /\ \A n \in 1 .. MaxPhrase :
           g[n] = Cat(One("delta_kw"), EncodingFields \cup Block(V(g[n - 1]), n - 1), n)
      /\ \A n \in 0 .. MaxPhrase : g[n] \in SUBSET (Words \ {<<>>})
  BY DeltaBlocksAre
<1> HIDE DEF g
<1>2. "delta_kw" \in Terminals
  BY DEF Terminals, Symbols
<1>3. ASSUME NEW n \in 1 .. MaxPhrase
      PROVE  /\ g[n - 1] \in SUBSET Words
             /\ g[n] = Fitting(Join(One("delta_kw"), EncodingFields \cup Fitting(BlockL(V(g[n - 1])), n - 1)), n)
  <2>1. n \in Nat /\ n - 1 \in Nat /\ n - 1 \in 0 .. MaxPhrase
    BY <1>0
  <2>2. g[n - 1] \in SUBSET Words /\ V(g[n - 1]) \in SUBSET Words /\ <<>> \notin V(g[n - 1])
    BY <1>1, <2>1, FieldsAre
  <2> DEFINE W == V(g[n - 1])
             X == EncodingFields \cup Block(W, n - 1)
  <2>3. g[n] = Cat(One("delta_kw"), X, n)
    BY <1>1
  <2> HIDE DEF W
  <2>4. Block(W, n - 1) = Fitting(BlockL(W), n - 1) /\ BlockL(W) \in SUBSET Words
    BY <2>1, <2>2, BlockIs, BlockMember DEF W
  <2>5. X \in SUBSET Words
    BY <2>4, FieldsAre DEF Fitting
  <2> HIDE DEF X
  <2>6. One("delta_kw") \in SUBSET Words
    BY <1>2, OneIs
  <2>7. g[n] = Fitting(Join(One("delta_kw"), X), n)
    BY <2>1, <2>3, <2>5, <2>6, CatIs
  <2> QED
    BY <2>2, <2>4, <2>7 DEF X, W
<1>4. DeltaL \in SUBSET (Words \ {<<>>}) /\ DeltaL = DeltaStep(DeltaL)
  BY DeltaUnfold
<1>5. \A n \in 0 .. MaxPhrase : g[n] \subseteq Fitting(DeltaL, n)
  <2> DEFINE S == {n \in 0 .. MaxPhrase : g[n] \subseteq Fitting(DeltaL, n)}
  <2>1. 0 \in S
    BY <1>0, <1>1
  <2>2. ASSUME NEW n \in 1 .. MaxPhrase, n - 1 \in S PROVE n \in S
    <3>1. g[n - 1] \in SUBSET Words /\ g[n - 1] \subseteq DeltaL
      BY <1>3, <2>2 DEF Fitting
    <3>2. DeltaStep(g[n - 1]) \subseteq DeltaL
      BY <1>4, <3>1, DeltaMonotone
    <3>3. EncodingFields \cup Fitting(BlockL(V(g[n - 1])), n - 1) \subseteq Y(g[n - 1])
      BY DEF Fitting
    <3>4. Join(One("delta_kw"), EncodingFields \cup Fitting(BlockL(V(g[n - 1])), n - 1)) \subseteq DeltaStep(g[n - 1])
      <4> DEFINE A == EncodingFields \cup Fitting(BlockL(V(g[n - 1])), n - 1)
                 B == Y(g[n - 1])
      <4> SUFFICES Join(One("delta_kw"), A) \subseteq Join(One("delta_kw"), B)
        BY DEF DeltaStep
      <4>1. A \subseteq B
        BY <3>3
      <4> HIDE DEF A, B
      <4> QED
        BY <4>1 DEF Join
    <3>5. g[n] \subseteq Fitting(DeltaL, n)
      BY <1>3, <3>2, <3>4 DEF Fitting
    <3> QED
      BY <1>0, <3>5
  <2> HIDE DEF S
  <2>3. 0 .. MaxPhrase \subseteq S
    BY <1>0, <2>1, <2>2, UpTo
  <2> QED
    BY <2>3 DEF S
<1>6. \A w \in DeltaL : \A n \in 0 .. MaxPhrase : Len(w) <= n => w \in g[n]
  <2> DEFINE S == {w \in Words : \A n \in 0 .. MaxPhrase : Len(w) <= n => w \in g[n]}
  <2>1. S \in SUBSET Words
    OBVIOUS
  <2>2. ASSUME NEW y \in Y(S), NEW n \in 0 .. MaxPhrase, Len(<<"delta_kw">> \o y) <= n
        PROVE  <<"delta_kw">> \o y \in g[n]
    <3>0. V(S) \in SUBSET Words /\ Y(S) \in SUBSET Words
      BY <2>1, DeltaStepIs
    <3>1. <<"delta_kw">> \in Words /\ Len(<<"delta_kw">>) = 1
      BY <1>2, WordOne
    <3>2. y \in Words
      BY <3>0
    <3>3. Len(<<"delta_kw">> \o y) = 1 + Len(y) /\ Len(y) \in Nat
      BY <3>1, <3>2, WordCat, WordLen
    <3>4. n \in 1 .. MaxPhrase /\ n - 1 \in 0 .. MaxPhrase /\ Len(y) <= n - 1 /\ n - 1 \in Nat
      BY <1>0, <2>2, <3>3
    <3>5. g[n - 1] \in SUBSET Words /\ V(g[n - 1]) \in SUBSET Words
      BY <1>3, <3>4, FieldsAre
    <3>6. y \in EncodingFields \cup Fitting(BlockL(V(g[n - 1])), n - 1)
      <4>1. CASE y \in EncodingFields
        BY <4>1
      <4>2. CASE y \in BlockL(V(S))
        <5> DEFINE A == V(S)
        <5>0. A \in SUBSET Words /\ y \in BlockL(A)
          BY <3>0, <4>2
        <5> HIDE DEF A
        <5>a. PICK w \in Star(A) : y = <<"curly_open">> \o w \o <<"curly_close">>
          BY <5>0, BlockMember
        <5>b. Len(y) = Len(w) + 2
          BY <5>0, <5>a, BlockMember
        <5>1. w \in Star(V(S)) /\ y = <<"curly_open">> \o w \o <<"curly_close">> /\ Len(y) = Len(w) + 2
          BY <5>a, <5>b DEF A
        <5>2. w \in Words /\ Len(w) \in Nat
          BY StarWords, WordLen
        <5>3. Len(w) <= n - 1
          BY <3>3, <3>4, <5>1, <5>2
        <5>4. Fitting(V(S), n - 1) \subseteq V(g[n - 1])
          BY <3>4 DEF Fitting
        <5>5. w \in Star(V(g[n - 1]))
          <6> DEFINE B == V(g[n - 1])
          <6>1. A \in SUBSET Words /\ B \in SUBSET Words /\ Fitting(A, n - 1) \subseteq B
            BY <3>0, <3>5, <5>4 DEF A
          <6>2. w \in Fitting(Star(A), n - 1)
            BY <5>a, <5>3 DEF Fitting
          <6> HIDE DEF B
          <6>3. w \in Star(B)
            BY Zenon, <3>4, <6>1, <6>2, StarFitting
          <6> QED
            BY <6>3 DEF B
        <5>6. y \in BlockL(V(g[n - 1]))
          BY <3>5, <5>1, <5>5, BlockMember
        <5> QED
          BY <3>4, <5>6 DEF Fitting
      <4> QED
        BY <4>1, <4>2
    <3> DEFINE X == EncodingFields \cup Fitting(BlockL(V(g[n - 1])), n - 1)
    <3>7. X \in SUBSET Words
      BY <3>5, FieldsAre, BlockMember DEF Fitting
    <3>8. g[n] = Fitting(Join(One("delta_kw"), X), n)
      BY <1>3, <3>4
    <3>9. y \in X
      BY <3>6
    <3> HIDE DEF X
    <3>10. <<"delta_kw">> \o y \in Join(One("delta_kw"), X)
      BY <1>2, <3>7, <3>9, JoinOne
    <3> QED
      BY <2>2, <3>8, <3>10 DEF Fitting
  <2>3. ASSUME NEW x \in DeltaStep(S) PROVE x \in S
    <3>1. PICK y \in Y(S) : x = <<"delta_kw">> \o y
      BY <2>1, DeltaStepIs
    <3>2. x \in Words
      BY <2>1, DeltaStepIs
    <3> QED
      BY <2>2, <3>1, <3>2
  <2> HIDE DEF S
  <2>4. DeltaL \subseteq S
    BY <2>1, <2>3, DeltaInduction
  <2> QED
    BY <2>4 DEF S
<1> QED
  BY <1>5, <1>6 DEF Fitting, g

--------------------------------------------------------------------------------
(* The phrases of the grammar are the words of unbounded languages, up to a  *)
(* length.                                                                   *)

IncludeL == Join(One("include_kw"), One("string"))
MoreL == Star(Join(One("namespace_sep"), One("identifier")))
QualifiedL == Join(One("identifier"), MoreL)
ArrayL == Opt(Join(One("bracket_open"), Join(One("integer"), One("bracket_close"))))
TypeL == Join(QualifiedL, ArrayL)
StructFieldL == Join(One("identifier"), Join(One("colon"), TypeL))
StructL == Join(One("struct_kw"), Join(One("identifier"), BlockL(StructFieldL)))
MappingFieldL == Join(One("identifier"), Join(One("colon"), One("string")))
MappingL ==
  Join(One("mapping_kw"), Join(One("identifier"), Join(One("colon"),
    Join(QualifiedL, BlockL(MappingFieldL)))))
EncodingIdL == Opt(Join(One("colon"), One("identifier")))
EncodingFieldL == Join(One("identifier"), EncodingIdL)
EncodingNodeL == EncodingFieldL \cup DeltaL
DeltaFieldsL == EncodingFieldL \cup BlockL(EncodingNodeL)
EncodingL ==
  Join(One("encoding_kw"), Join(One("identifier"), Join(EncodingIdL, BlockL(EncodingNodeL))))
NamespaceL == Opt(Join(One("namespace_kw"), QualifiedL))
DeclarationL == StructL \cup MappingL \cup EncodingL
DocumentL == Join(Star(IncludeL), Join(NamespaceL, Star(DeclarationL)))

\* Join has words.
LEMMA JoinWords == ASSUME NEW V, NEW W PROVE Join(V, W) \in SUBSET Words
  BY DEF Join

\* Opt has words.
LEMMA OptWords == ASSUME NEW W \in SUBSET Words PROVE Opt(W) \in SUBSET Words
  BY WordEmpty DEF Opt

\* Blocks are words.
LEMMA BlockWords == ASSUME NEW W PROVE BlockL(W) \in SUBSET Words
  BY JoinWords DEF BlockL

\* The symbols of the grammar.
LEMMA Lexemes ==
  {"identifier", "string", "integer", "namespace_kw", "include_kw", "struct_kw", "mapping_kw",
   "encoding_kw", "delta_kw", "colon", "namespace_sep", "curly_open", "curly_close",
   "bracket_open", "bracket_close"} \subseteq Terminals
  BY DEF Terminals, Symbols

\* The languages have words.
LEMMA Languages ==
  /\ IncludeL \in SUBSET Words /\ MoreL \in SUBSET Words /\ QualifiedL \in SUBSET Words
  /\ ArrayL \in SUBSET Words /\ TypeL \in SUBSET Words /\ StructFieldL \in SUBSET Words
  /\ StructL \in SUBSET Words /\ MappingFieldL \in SUBSET Words /\ MappingL \in SUBSET Words
  /\ EncodingIdL \in SUBSET Words /\ EncodingFieldL \in SUBSET Words
  /\ EncodingNodeL \in SUBSET Words /\ DeltaFieldsL \in SUBSET Words /\ EncodingL \in SUBSET Words
  /\ NamespaceL \in SUBSET Words /\ DeclarationL \in SUBSET Words /\ DocumentL \in SUBSET Words
<1>1. /\ IncludeL \in SUBSET Words /\ QualifiedL \in SUBSET Words /\ TypeL \in SUBSET Words
      /\ StructFieldL \in SUBSET Words /\ StructL \in SUBSET Words /\ MappingFieldL \in SUBSET Words
      /\ MappingL \in SUBSET Words /\ EncodingFieldL \in SUBSET Words /\ EncodingL \in SUBSET Words
      /\ DocumentL \in SUBSET Words
  BY Zenon, JoinWords DEF IncludeL, QualifiedL, TypeL, StructFieldL, StructL, MappingFieldL, MappingL,
     EncodingFieldL, EncodingL, DocumentL
<1>2. MoreL \in SUBSET Words
  BY Zenon, StarWords DEF MoreL
<1>3. ArrayL \in SUBSET Words /\ EncodingIdL \in SUBSET Words /\ NamespaceL \in SUBSET Words
  BY Zenon, JoinWords, OptWords DEF ArrayL, EncodingIdL, NamespaceL
<1>4. EncodingNodeL \in SUBSET Words
  BY <1>1, DeltaUnfold DEF EncodingNodeL
<1>5. DeltaFieldsL \in SUBSET Words
  BY <1>1, BlockWords DEF DeltaFieldsL
<1>6. DeclarationL \in SUBSET Words
  BY <1>1 DEF DeclarationL
<1> QED
  BY <1>1, <1>2, <1>3, <1>4, <1>5, <1>6

\* A list of two, item by item.
LEMMA Pair == ASSUME NEW T, NEW x \in T, NEW y \in T PROVE <<x, y>> = <<x>> \o <<y>> /\ <<x, y>> \in Seq(T)
<1> DEFINE s == <<x>> \o <<y>>
<1>1. s \in Seq(T) /\ Len(s) = 2 /\ s[1] = x /\ s[2] = y
  OBVIOUS
<1> HIDE DEF s
<1>2. s = <<x, y>>
  BY <1>1
<1> QED
  BY <1>1, <1>2 DEF s

\* A list of three, item by item.
LEMMA Triple ==
  ASSUME NEW T, NEW x \in T, NEW y \in T, NEW z \in T
  PROVE  <<x, y, z>> = <<x>> \o <<y, z>> /\ <<x, y, z>> \in Seq(T)
<1> DEFINE s == <<x>> \o <<y, z>>
<1>1. s \in Seq(T) /\ Len(s) = 3 /\ s[1] = x /\ s[2] = y /\ s[3] = z
  OBVIOUS
<1> HIDE DEF s
<1>2. s = <<x, y, z>>
  BY <1>1
<1> QED
  BY <1>1, <1>2 DEF s

\* Two and three symbols in a row.
LEMMA JoinTwo == \A x, y \in Terminals : Join(One(x), One(y)) = {<<x, y>>}
<1> SUFFICES ASSUME NEW x \in Terminals, NEW y \in Terminals PROVE Join(One(x), One(y)) = {<<x, y>>}
  OBVIOUS
<1>1. <<x>> \o <<y>> = <<x, y>> /\ <<x, y>> \in Words
  BY Pair DEF Words
<1> QED
  BY <1>1 DEF Join, One

\* Three symbols, one after the other.
LEMMA JoinThree == \A x, y, z \in Terminals : Join(One(x), Join(One(y), One(z))) = {<<x, y, z>>}
<1> SUFFICES ASSUME NEW x \in Terminals, NEW y \in Terminals, NEW z \in Terminals
             PROVE  Join(One(x), {<<y, z>>}) = {<<x, y, z>>}
  BY JoinTwo
<1>1. <<x>> \o <<y, z>> = <<x, y, z>> /\ <<x, y, z>> \in Words
  BY Triple DEF Words
<1> QED
  BY <1>1 DEF Join, One

\* The fields of an encoding.
LEMMA EncodingFieldIs == EncodingFieldL = EncodingFields
<1> DEFINE a == <<"identifier">>
           b == <<"colon", "identifier">>
           c == <<"identifier", "colon", "identifier">>
<1>1. EncodingIdL = {<<>>, b}
  BY Lexemes, JoinTwo DEF EncodingIdL, Opt
<1>2. a \o <<>> = a /\ a \in Words
  BY Lexemes, WordOne, WordEmpty
<1>3. a \o b = c /\ c \in Words
  <2>1. "identifier" \in Terminals /\ "colon" \in Terminals
    BY Lexemes
  <2> QED
    BY Zenon, <2>1, Triple DEF Words
<1> HIDE DEF a, b, c
<1>4. Join({a}, {<<>>, b}) = {a, c}
  BY <1>2, <1>3 DEF Join
<1> QED
  BY <1>1, <1>4 DEF a, c, EncodingFieldL, EncodingFields, One

\* One unfolding of the DELTA blocks.
LEMMA DeltaJoin == DeltaL = Join(One("delta_kw"), DeltaFieldsL)
  BY Zenon, DeltaUnfold, EncodingFieldIs DEF DeltaFieldsL, EncodingNodeL, DeltaStep

--------------------------------------------------------------------------------
(* V has words of W only, and all of them up to n symbols. *)
Near(V, W, n) == V \subseteq W /\ Fitting(W, n) \subseteq V

\* A language is near to itself.
LEMMA NearSame == ASSUME NEW W, NEW n PROVE Near(W, W, n)
  BY DEF Near, Fitting

\* What agrees on long words agrees on shorter ones.
LEMMA NearLess ==
  ASSUME NEW V, NEW W \in SUBSET Words, NEW n \in Int, NEW m \in Int, m <= n, Near(V, W, n)
  PROVE  Near(V, W, m)
  BY WordLen DEF Near, Fitting

\* Unions and optional phrases agree where their parts do.
LEMMA NearUnion ==
  ASSUME NEW V, NEW W, NEW X, NEW Y, NEW n, Near(V, W, n), Near(X, Y, n)
  PROVE  Near(V \cup X, W \cup Y, n) /\ Near(Opt(V), Opt(W), n)
  BY DEF Near, Fitting, Opt

\* A phrase of k symbols or more leaves k symbols less for the next.
LEMMA NearCat ==
  ASSUME NEW V, NEW W \in SUBSET Words, NEW X, NEW Y \in SUBSET Words, NEW n \in Nat, NEW m \in Nat,
         NEW k \in Nat, n <= m, Near(V, W, n), \A w \in W : Len(w) >= k, Near(X, Y, n - k)
  PROVE  Near(Cat(V, X, m), Join(W, Y), n)
<1>1. V \in SUBSET Words /\ X \in SUBSET Words
  BY DEF Near
<1>2. Cat(V, X, m) = Fitting(Join(V, X), m)
  BY <1>1, CatIs
<1>3. Join(V, X) \subseteq Join(W, Y)
  BY JoinMonotone DEF Near
<1>4. ASSUME NEW z \in Join(W, Y), Len(z) <= n PROVE z \in Join(V, X)
  <2>1. PICK w \in W : \E y \in Y : z = w \o y
    BY JoinIs
  <2>2. PICK y \in Y : z = w \o y
    BY <2>1
  <2>3. Len(z) = Len(w) + Len(y) /\ Len(w) \in Nat /\ Len(y) \in Nat /\ Len(w) >= k
    BY <2>2, WordCat, WordLen
  <2>4. w \in V /\ y \in X
    BY <1>4, <2>3 DEF Near, Fitting
  <2> QED
    BY <1>1, <2>2, <2>4, JoinIs
<1>5. \A z \in Join(W, Y) : Len(z) \in Nat
  BY JoinWords, WordLen
<1> QED
  BY <1>2, <1>3, <1>4, <1>5 DEF Near, Fitting

\* Repetitions agree where what is repeated does.
LEMMA NearMany ==
  ASSUME NEW V, NEW W \in SUBSET Words, <<>> \notin W, NEW n \in Nat, Near(V, W, n)
  PROVE  Near(Many(V, n), Star(W), n)
<1>1. V \in SUBSET Words /\ <<>> \notin V /\ V \subseteq W /\ Fitting(W, n) \subseteq V
  BY DEF Near
<1>2. Many(V, n) = Fitting(Star(V), n)
  BY <1>1, ManyIs
<1>3. Star(V) \subseteq Star(W)
  BY <1>1, StarMonotone
<1>4. Fitting(Star(W), n) \subseteq Star(V)
  BY <1>1, StarFitting
<1> QED
  BY <1>2, <1>3, <1>4 DEF Near, Fitting

\* Blocks agree on words two symbols longer: those of the braces.
LEMMA NearBlock ==
  ASSUME NEW V, NEW W \in SUBSET Words, <<>> \notin W, NEW n \in Nat, NEW m \in Nat, n <= m + 2, Near(V, W, m)
  PROVE  Near(Block(V, n), BlockL(W), n)
<1>1. V \in SUBSET Words /\ <<>> \notin V /\ V \subseteq W /\ Fitting(W, m) \subseteq V
  BY DEF Near
<1>2. Block(V, n) = Fitting(BlockL(V), n)
  BY <1>1, BlockIs
<1>3. BlockL(V) \subseteq BlockL(W)
  BY <1>1, BlockMonotone
<1>4. ASSUME NEW z \in BlockL(W), Len(z) <= n PROVE z \in BlockL(V)
  <2>1. PICK w \in Star(W) : z = <<"curly_open">> \o w \o <<"curly_close">>
    BY BlockMember
  <2>2. Len(z) = Len(w) + 2
    BY <2>1, BlockMember
  <2>3. w \in Words /\ Len(w) \in Nat
    BY StarWords, WordLen
  <2>4. Fitting(Star(W), m) \subseteq Star(V)
    BY <1>1, StarFitting
  <2>5. w \in Star(V)
    BY <1>4, <2>2, <2>3, <2>4 DEF Fitting
  <2> QED
    BY <1>1, <2>1, <2>5, BlockMember
<1> QED
  BY <1>2, <1>3, <1>4 DEF Near, Fitting

\* A symbol in front of a language, and what the languages begin with.
LEMMA Headed ==
  /\ \A w \in IncludeL : w # <<>> /\ First(w) = "include_kw"
  /\ \A w \in StructL : w # <<>> /\ First(w) = "struct_kw"
  /\ \A w \in MappingL : w # <<>> /\ First(w) = "mapping_kw"
  /\ \A w \in EncodingL : w # <<>> /\ First(w) = "encoding_kw"
  /\ \A w \in DeltaL : w # <<>> /\ First(w) = "delta_kw"
  /\ \A w \in StructFieldL \cup MappingFieldL \cup EncodingFieldL \cup QualifiedL :
       w # <<>> /\ First(w) = "identifier"
  /\ \A W : \A w \in BlockL(W) : w # <<>> /\ First(w) = "curly_open"
<1>1. ASSUME NEW x \in Terminals, NEW V, NEW W PROVE \A w \in Join(One(x), Join(V, W)) : w # <<>> /\ First(w) = x
  BY JoinWords, JoinOne
<1>2. ASSUME NEW x \in Terminals, NEW W \in SUBSET Words PROVE \A w \in Join(One(x), W) : w # <<>> /\ First(w) = x
  BY JoinOne
<1>3. ASSUME NEW W PROVE \A w \in BlockL(W) : w # <<>> /\ First(w) = "curly_open"
  BY Lexemes, <1>1 DEF BlockL
<1>4. /\ \A w \in StructL : w # <<>> /\ First(w) = "struct_kw"
      /\ \A w \in MappingL : w # <<>> /\ First(w) = "mapping_kw"
      /\ \A w \in EncodingL : w # <<>> /\ First(w) = "encoding_kw"
      /\ \A w \in StructFieldL \cup MappingFieldL : w # <<>> /\ First(w) = "identifier"
  BY Lexemes, <1>1 DEF StructL, MappingL, EncodingL, StructFieldL, MappingFieldL
<1>5. /\ \A w \in DeltaL : w # <<>> /\ First(w) = "delta_kw"
      /\ \A w \in EncodingFieldL \cup QualifiedL : w # <<>> /\ First(w) = "identifier"
  BY Lexemes, <1>2, Languages, DeltaJoin DEF EncodingFieldL, QualifiedL
<1>6. \A w \in IncludeL : w # <<>> /\ First(w) = "include_kw"
  BY Lexemes, OneIs, <1>2 DEF IncludeL
<1> QED
  BY <1>3, <1>4, <1>5, <1>6

\* The enumerated phrases are those of the languages: all documents of MaxPhrase
\* symbols or fewer, and no phrase of a node of up to MaxPhrase - 4 is missing.
LEMMA PhrasesAre ==
  /\ Near(Documents, DocumentL, MaxPhrase)
  /\ \A k \in DOMAIN Node : \A w \in Words :
       Len(w) <= MaxPhrase - 4 =>
         /\ k = "document" /\ w \in DocumentL => w \in Phrases[k]
         /\ k = "include" /\ w \in IncludeL => w \in Phrases[k]
         /\ k = "struct" /\ w \in StructL => w \in Phrases[k]
         /\ k = "struct_field" /\ w \in StructFieldL => w \in Phrases[k]
         /\ k = "mapping" /\ w \in MappingL => w \in Phrases[k]
         /\ k = "mapping_field" /\ w \in MappingFieldL => w \in Phrases[k]
         /\ k = "encoding" /\ w \in EncodingL => w \in Phrases[k]
         /\ k = "encoding_field" /\ w \in EncodingFieldL => w \in Phrases[k]
         /\ k = "encoding_delta_block" /\ w \in DeltaL => w \in Phrases[k]
<1> DEFINE N == MaxPhrase
<1>0. N \in Nat /\ N - 4 \in Nat /\ N - 2 \in Nat /\ N - 1 \in Nat /\ N - 4 \in 0 .. N
  BY GrammarAssumption, ParserAssumption
<1> HIDE DEF N
<1>a. /\ "identifier" \in Terminals /\ "colon" \in Terminals /\ "string" \in Terminals /\ "integer" \in Terminals
      /\ "bracket_open" \in Terminals /\ "bracket_close" \in Terminals /\ "namespace_sep" \in Terminals
      /\ "include_kw" \in Terminals /\ "namespace_kw" \in Terminals /\ "struct_kw" \in Terminals
      /\ "mapping_kw" \in Terminals /\ "encoding_kw" \in Terminals
  BY Lexemes
<1>b. ASSUME NEW V, NEW W \in SUBSET Words, NEW X, NEW Y \in SUBSET Words, Near(V, W, N), Near(X, Y, N)
      PROVE  Near(Then(V, X), Join(W, Y), N)
  <2>1. \A w \in W : Len(w) >= 0
    BY WordLen
  <2>2. N - 0 = N /\ N <= N /\ 0 \in Nat
    BY <1>0
  <2>3. Near(X, Y, N - 0)
    BY <1>b, <2>2
  <2>4. Near(Cat(V, X, N), Join(W, Y), N)
    BY Zenon, <1>0, <1>b, <2>1, <2>2, <2>3, NearCat
  <2> QED
    BY <2>4 DEF N, Then
<1>c. \A x \in Terminals : One(x) \in SUBSET Words /\ Near({<<x>>}, One(x), N)
  BY OneIs, NearSame DEF One
<1>1. Near(QualifiedIds, QualifiedL, N)
  <2> DEFINE W == Join(One("namespace_sep"), One("identifier"))
  <2>1. W = {<<"namespace_sep", "identifier">>} /\ W \in SUBSET Words /\ <<>> \notin W
    BY <1>a, JoinTwo, JoinOne, OneIs
  <2> HIDE DEF W
  <2>2. Near(Many(W, N), Star(W), N)
    BY <1>0, <2>1, NearSame, NearMany
  <2>3. Near(Then({<<"identifier">>}, Many(W, N)), Join(One("identifier"), Star(W)), N)
    BY <1>a, <1>b, <1>c, <2>2, StarWords
  <2> QED
    BY <2>1, <2>3 DEF W, N, QualifiedIds, QualifiedL, MoreL
<1>2. Near(Types, TypeL, N)
  <2> DEFINE W == Join(One("bracket_open"), Join(One("integer"), One("bracket_close")))
  <2>1. W = {<<"bracket_open", "integer", "bracket_close">>} /\ W \in SUBSET Words
    BY <1>a, JoinThree, JoinWords
  <2> HIDE DEF W
  <2>2. Near(Opt(W), Opt(W), N) /\ Opt(W) \in SUBSET Words
    BY <2>1, NearSame, OptWords
  <2>3. Near(Then(QualifiedIds, Opt(W)), Join(QualifiedL, Opt(W)), N)
    BY <1>1, <1>b, <2>2, Languages
  <2> QED
    BY <2>1, <2>3 DEF W, Types, TypeL, ArrayL
<1>3. Near(StructFields, StructFieldL, N)
  <2> DEFINE W == Join(One("identifier"), One("colon"))
  <2>1. W = {<<"identifier", "colon">>} /\ W \in SUBSET Words
    BY <1>a, JoinTwo, JoinWords
  <2>2. Join(W, TypeL) = StructFieldL
    BY <1>a, OneIs, Languages, JoinAssoc DEF StructFieldL
  <2> HIDE DEF W
  <2>3. Near(Then(W, Types), Join(W, TypeL), N)
    BY <1>2, <1>b, <2>1, NearSame, Languages
  <2> QED
    BY <2>1, <2>2, <2>3 DEF StructFields
<1>4. MappingFields = MappingFieldL /\ IncludePhrases = IncludeL
  BY <1>a, JoinTwo, JoinThree DEF MappingFields, MappingFieldL, IncludePhrases, IncludeL
<1>5. Near(Block(StructFields, N - 2), BlockL(StructFieldL), N - 2)
  BY <1>0, <1>3, Languages, Headed, NearBlock
<1>6. Near(Block(MappingFields, N - 2), BlockL(MappingFieldL), N - 2)
  <2>1. Near(MappingFields, MappingFieldL, N) /\ <<>> \notin MappingFieldL /\ N - 2 <= N + 2
    BY <1>0, <1>4, NearSame, Headed
  <2> QED
    BY <1>0, <2>1, Languages, NearBlock
<1>7. Near(Structs, StructL, N)
  <2> DEFINE W == Join(One("struct_kw"), One("identifier"))
             X == Block(StructFields, N - 2)
             Y == BlockL(StructFieldL)
  <2>1. W = {<<"struct_kw", "identifier">>} /\ W \in SUBSET Words /\ Y \in SUBSET Words
    BY <1>a, JoinTwo, JoinWords, BlockWords
  <2>2. Join(W, Y) = StructL
    BY <1>a, <2>1, OneIs, JoinAssoc DEF StructL
  <2> HIDE DEF W
  <2>3. \A w \in W : Len(w) >= 2
    BY <2>1
  <2>4. Near(X, Y, N - 2)
    BY <1>5
  <2>5. Structs = Cat(W, X, N)
    BY <2>1 DEF Structs, Then, N
  <2> HIDE DEF X, Y
  <2>6. Near(Cat(W, X, N), Join(W, Y), N)
    <3>1. Near(W, W, N) /\ N <= N /\ 2 \in Nat
      BY <1>0, NearSame
    <3> QED
      BY Zenon, <1>0, <2>1, <2>3, <2>4, <3>1, NearCat
  <2> QED
    BY <2>2, <2>5, <2>6
<1>8. Near(Mappings, MappingL, N)
  <2> DEFINE W == Join(One("mapping_kw"), Join(One("identifier"), One("colon")))
             B == Block(MappingFields, N - 2)
             Y == BlockL(MappingFieldL)
             X == Cat(QualifiedIds, B, N)
             Z == Join(QualifiedL, Y)
  <2>1. W = {<<"mapping_kw", "identifier", "colon">>} /\ W \in SUBSET Words /\ Y \in SUBSET Words /\ Z \in SUBSET Words
    BY <1>a, JoinThree, JoinWords, BlockWords
  <2>2. Join(W, Z) = MappingL
    <3>1. Join(W, Z) = Join(One("mapping_kw"), Join(Join(One("identifier"), One("colon")), Z))
      BY <1>a, <2>1, OneIs, JoinWords, JoinAssoc
    <3>2. Join(Join(One("identifier"), One("colon")), Z) = Join(One("identifier"), Join(One("colon"), Z))
      BY <1>a, <2>1, OneIs, JoinAssoc
    <3> QED
      BY <3>1, <3>2 DEF MappingL
  <2>3. Mappings = Cat(W, X, N)
    BY <2>1 DEF Mappings, Then, N
  <2> HIDE DEF W
  <2>4. \A w \in W : Len(w) >= 2
    BY <2>1
  <2>5. Near(B, Y, N - 2) /\ Near(QualifiedIds, QualifiedL, N - 2)
    BY <1>0, <1>1, <1>6, NearLess, Languages
  <2> HIDE DEF B, Y
  <2>6. Near(X, Z, N - 2)
    <3>1. (N - 2) - 0 = N - 2 /\ N - 2 <= N /\ \A w \in QualifiedL : Len(w) >= 0
      BY <1>0, WordLen, Languages
    <3> QED
      BY <1>0, <2>1, <2>5, <3>1, NearCat, Languages
  <2> HIDE DEF X, Z
  <2>7. Near(Cat(W, X, N), Join(W, Z), N)
    <3>1. Near(W, W, N) /\ N <= N /\ 2 \in Nat
      BY <1>0, NearSame
    <3> QED
      BY Zenon, <1>0, <2>1, <2>4, <2>6, <3>1, NearCat
  <2> QED
    BY <2>2, <2>3, <2>7
<1>9. Near(DeltaBlocks[N - 4], DeltaL, N - 4)
  BY <1>0, DeltaIs DEF N, Near, Fitting
<1>10. Near(Encodings, EncodingL, N)
  <2> DEFINE E == Block(EncodingNodes, N - 2)
             Y == BlockL(EncodingNodeL)
             X == Cat(EncodingFields, E, N)
             Z == Join(EncodingFieldL, Y)
  <2>1. Y \in SUBSET Words /\ Z \in SUBSET Words /\ One("encoding_kw") \in SUBSET Words
    BY <1>a, OneIs, JoinWords, BlockWords
  <2>2. Join(One("encoding_kw"), Z) = EncodingL
    BY <1>a, <2>1, OneIs, Languages, JoinAssoc DEF EncodingL, EncodingFieldL
  <2>3. Encodings = Cat(One("encoding_kw"), X, N)
    BY DEF Encodings, Then, N, One
  <2>4. Near(EncodingNodes, EncodingNodeL, N - 4)
    BY <1>9, EncodingFieldIs, NearSame, NearUnion DEF EncodingNodes, EncodingNodeL, N
  <2>5. Near(E, Y, N - 2)
    BY <1>0, <2>4, Languages, Headed, NearBlock DEF EncodingNodeL
  <2> HIDE DEF E, Y
  <2>6. Near(X, Z, N - 1)
    <3>1. (N - 1) - 1 = N - 2 /\ N - 1 <= N
      BY <1>0
    <3>2. \A w \in EncodingFieldL : Len(w) >= 1
      BY Languages, Headed, WordLen
    <3>3. Near(EncodingFields, EncodingFieldL, N - 1)
      BY EncodingFieldIs, NearSame
    <3> QED
      BY <1>0, <2>1, <2>5, <3>1, <3>2, <3>3, NearCat, Languages
  <2> HIDE DEF X, Z
  <2>7. \A w \in One("encoding_kw") : Len(w) >= 1
    BY DEF One
  <2>8. Near(Cat(One("encoding_kw"), X, N), Join(One("encoding_kw"), Z), N)
    <3>1. Near(One("encoding_kw"), One("encoding_kw"), N) /\ N <= N /\ 1 \in Nat
      BY <1>0, NearSame
    <3> QED
      BY Zenon, <1>0, <2>1, <2>6, <2>7, <3>1, NearCat
  <2> QED
    BY <2>2, <2>3, <2>8
<1>11. Near(Documents, DocumentL, N)
  <2> DEFINE D == Structs \cup Mappings \cup Encodings
             I == Many(IncludePhrases, N)
             M == Many(D, N)
             P == Opt(Namespaces)
  <2>1. Near(Namespaces, Join(One("namespace_kw"), QualifiedL), N)
    BY <1>1, <1>a, <1>b, <1>c, Languages DEF Namespaces
  <2>2. Near(P, NamespaceL, N)
    BY <2>1, NearUnion DEF NamespaceL
  <2>3. Near(D, DeclarationL, N)
    BY <1>7, <1>8, <1>10, NearUnion DEF DeclarationL
  <2>4. Documents = Then(I, Then(P, M))
    BY DEF Documents, N
  <2> HIDE DEF D, P
  <2>5. Near(M, Star(DeclarationL), N)
    BY <1>0, <2>3, Languages, Headed, NearMany DEF DeclarationL
  <2>6. Near(I, Star(IncludeL), N)
    BY <1>0, <1>4, NearSame, Languages, Headed, NearMany
  <2> HIDE DEF I, M
  <2>7. Near(Then(P, M), Join(NamespaceL, Star(DeclarationL)), N)
    BY <1>b, <2>2, <2>5, Languages, StarWords
  <2>8. Near(Then(I, Then(P, M)), Join(Star(IncludeL), Join(NamespaceL, Star(DeclarationL))), N)
    BY <1>b, <2>6, <2>7, JoinWords, StarWords
  <2> QED
    BY <2>4, <2>8 DEF DocumentL
<1>12. ASSUME NEW V, NEW W, Near(V, W, N) \/ Near(V, W, N - 4), NEW w \in Words, Len(w) <= N - 4, w \in W
       PROVE  w \in V
  BY <1>0, <1>12, WordLen DEF Near, Fitting
<1>13. ASSUME NEW w \in Words, Len(w) <= N - 4
       PROVE  /\ w \in DocumentL => w \in Phrases["document"]
              /\ w \in StructL => w \in Phrases["struct"]
              /\ w \in StructFieldL => w \in Phrases["struct_field"]
              /\ w \in MappingL => w \in Phrases["mapping"]
              /\ w \in EncodingL => w \in Phrases["encoding"]
              /\ w \in DeltaL => w \in Phrases["encoding_delta_block"]
  BY <1>3, <1>7, <1>8, <1>9, <1>10, <1>11, <1>12, <1>13 DEF Phrases, N
<1>14. /\ IncludeL = Phrases["include"]
       /\ MappingFieldL = Phrases["mapping_field"]
       /\ EncodingFieldL = Phrases["encoding_field"]
  BY <1>4, EncodingFieldIs DEF Phrases
<1> QED
  BY <1>11, <1>13, <1>14 DEF N

--------------------------------------------------------------------------------
(* The call stack. *)

Items == Terminals \cup Branches \cup DOMAIN Node \cup DOMAIN Value \cup {"return", "unexpected"}
Stacks == Seq(Items)

\* An item in front of a stack.
LEMMA StackCons ==
  \A i \in Items : \A t \in Stacks :
    /\ <<i>> \o t \in Stacks /\ <<i>> \o t # <<>>
    /\ Head(<<i>> \o t) = i /\ Tail(<<i>> \o t) = t
  BY DEF Stacks

\* A stack that is not empty has a first item.
LEMMA StackHead ==
  \A t \in Stacks :
    t # <<>> => /\ Head(t) \in Items /\ Tail(t) \in Stacks /\ t = <<Head(t)>> \o Tail(t)
                /\ Head(t) = t[1]
  BY DEF Stacks

(* Values that are computed along a stack, from the last item to the first:  *)
(* <<i, u, v>> \in Rule when an item i in front of a stack with the value u  *)
(* makes a stack with the value v.                                           *)
Closed(S, Vals, Base, Rule) ==
  /\ Base \subseteq S[<<>>]
  /\ \A t \in Stacks : \A i \in Items : \A u \in S[t] : \A v \in Vals :
       <<i, u, v>> \in Rule => v \in S[<<i>> \o t]

Runs(Vals, Base, Rule, t) ==
  {v \in Vals : \A S \in [Stacks -> SUBSET Vals] : Closed(S, Vals, Base, Rule) => v \in S[t]}

\* Runs is the least family that is closed under the rule.
LEMMA RunsInduction ==
  ASSUME NEW Vals, NEW Base, NEW Rule, NEW S \in [Stacks -> SUBSET Vals],
         Closed(S, Vals, Base, Rule), NEW t \in Stacks
  PROVE  Runs(Vals, Base, Rule, t) \subseteq S[t]
  BY DEF Runs

\* Runs of the empty stack has the base.
LEMMA RunsBase ==
  ASSUME NEW Vals, NEW Base \in SUBSET Vals, NEW Rule
  PROVE  Base \subseteq Runs(Vals, Base, Rule, <<>>)
  BY DEF Runs, Closed

\* The rule for one more item in front.
LEMMA RunsCons ==
  ASSUME NEW Vals, NEW Base, NEW Rule, NEW t \in Stacks, NEW i \in Items,
         NEW u \in Runs(Vals, Base, Rule, t), NEW v \in Vals, <<i, u, v>> \in Rule
  PROVE  v \in Runs(Vals, Base, Rule, <<i>> \o t)
<1> SUFFICES ASSUME NEW S \in [Stacks -> SUBSET Vals], Closed(S, Vals, Base, Rule)
             PROVE  v \in S[<<i>> \o t]
  BY DEF Runs
<1>1. u \in S[t]
  BY DEF Runs
<1> QED
  BY <1>1 DEF Closed

\* Runs has nothing else.
LEMMA RunsInvert ==
  ASSUME NEW Vals, NEW Base \in SUBSET Vals, NEW Rule
  PROVE  /\ \A v \in Runs(Vals, Base, Rule, <<>>) : v \in Base
         /\ \A t \in Stacks : \A i \in Items : \A v \in Runs(Vals, Base, Rule, <<i>> \o t) :
              \E u \in Runs(Vals, Base, Rule, t) : <<i, u, v>> \in Rule
<1> DEFINE R(t) == Runs(Vals, Base, Rule, t)
           Front(t, v) == \E i \in Items : \E u \in R(Tail(t)) : Head(t) = i /\ <<i, u, v>> \in Rule
           S == [t \in Stacks |-> {v \in R(t) : IF t = <<>> THEN v \in Base ELSE Front(t, v)}]
<1>0. <<>> \in Stacks
  BY DEF Stacks
<1>1. ASSUME NEW t \in Stacks PROVE R(t) \in SUBSET Vals
  BY DEF Runs
<1>2. S \in [Stacks -> SUBSET Vals]
  <2> HIDE DEF R, Front
  <2> QED
    BY <1>1
<1>3. Base \subseteq S[<<>>]
  <2>1. Base \subseteq R(<<>>)
    BY RunsBase
  <2> HIDE DEF R, Front
  <2> QED
    BY <1>0, <2>1
<1>4. ASSUME NEW t \in Stacks, NEW i \in Items, NEW u \in S[t], NEW v \in Vals, <<i, u, v>> \in Rule
      PROVE  v \in S[<<i>> \o t]
  <2>1. u \in R(t)
    <3> HIDE DEF R, Front
    <3> QED
      OBVIOUS
  <2>2. v \in R(<<i>> \o t)
    BY <1>4, <2>1, RunsCons
  <2> HIDE DEF R
  <2>3. Front(<<i>> \o t, v)
    BY <1>4, <2>1, StackCons
  <2> HIDE DEF Front
  <2> QED
    BY <2>2, <2>3, StackCons
<1>5. Closed(S, Vals, Base, Rule)
  <2> HIDE DEF S
  <2> QED
    BY <1>3, <1>4 DEF Closed
<1>6. ASSUME NEW t \in Stacks, NEW v \in R(t) PROVE IF t = <<>> THEN v \in Base ELSE Front(t, v)
  <2>1. v \in S[t]
    <3> HIDE DEF S
    <3> QED
      BY <1>2, <1>5, RunsInduction
  <2> HIDE DEF R, Front
  <2> QED
    BY <2>1
<1>7. ASSUME NEW t \in Stacks, NEW i \in Items, NEW v \in R(<<i>> \o t)
      PROVE  \E u \in R(t) : <<i, u, v>> \in Rule
  <2> HIDE DEF R
  <2>1. Front(<<i>> \o t, v)
    BY <1>6, StackCons
  <2> QED
    BY <2>1, StackCons
<1>8. ASSUME NEW v \in R(<<>>) PROVE v \in Base
  <2> HIDE DEF R, Front
  <2> QED
    BY <1>0, <1>6
<1> QED
  BY <1>7, <1>8

\* Runs has values only.
LEMMA RunsVals == ASSUME NEW Vals, NEW Base, NEW Rule, NEW t PROVE Runs(Vals, Base, Rule, t) \subseteq Vals
  BY DEF Runs

--------------------------------------------------------------------------------
(* The language of an item of the stack: what it may take from the document. *)

Lang(i) ==
  CASE i \in Terminals -> One(i)
    [] i = "include" -> IncludeL
    [] i = "includes" -> Star(IncludeL)
    [] i = "namespace" -> NamespaceL
    [] i = "declarations" -> Star(DeclarationL)
    [] i = "document" -> DocumentL
    [] i = "qualified_identifier" -> QualifiedL
    [] i = "more_identifiers" -> MoreL
    [] i = "type" -> TypeL
    [] i = "array" -> ArrayL
    [] i = "struct" -> StructL
    [] i = "struct_field" -> StructFieldL
    [] i = "struct_fields" -> Star(StructFieldL)
    [] i = "mapping" -> MappingL
    [] i = "mapping_field" -> MappingFieldL
    [] i = "mapping_fields" -> Star(MappingFieldL)
    [] i = "encoding" -> EncodingL
    [] i = "encoding_id" -> EncodingIdL
    [] i = "encoding_field" -> EncodingFieldL
    [] i = "encoding_node" -> EncodingNodeL
    [] i = "encoding_nodes" -> Star(EncodingNodeL)
    [] i = "encoding_delta_block" -> DeltaL
    [] i = "delta_fields" -> DeltaFieldsL
    [] i = "return" -> {<<>>}
    [] i = "unexpected" -> {}

\* A symbol stands for itself.
LEMMA LangTerminal == \A i \in Terminals : Lang(i) = One(i)
  BY DEF Lang, Terminals, Symbols

\* The language of every item.
LEMMA LangIs ==
  /\ Lang("include") = IncludeL
  /\ Lang("includes") = Star(IncludeL)
  /\ Lang("namespace") = NamespaceL
  /\ Lang("declarations") = Star(DeclarationL)
  /\ Lang("document") = DocumentL
  /\ Lang("qualified_identifier") = QualifiedL
  /\ Lang("more_identifiers") = MoreL
  /\ Lang("type") = TypeL
  /\ Lang("array") = ArrayL
  /\ Lang("struct") = StructL
  /\ Lang("struct_field") = StructFieldL
  /\ Lang("struct_fields") = Star(StructFieldL)
  /\ Lang("mapping") = MappingL
  /\ Lang("mapping_field") = MappingFieldL
  /\ Lang("mapping_fields") = Star(MappingFieldL)
  /\ Lang("encoding") = EncodingL
  /\ Lang("encoding_id") = EncodingIdL
  /\ Lang("encoding_field") = EncodingFieldL
  /\ Lang("encoding_node") = EncodingNodeL
  /\ Lang("encoding_nodes") = Star(EncodingNodeL)
  /\ Lang("encoding_delta_block") = DeltaL
  /\ Lang("delta_fields") = DeltaFieldsL
  /\ Lang("return") = {<<>>}
  /\ Lang("unexpected") = {}
  BY DEF Lang, Terminals, Symbols

\* The items by name.
LEMMA ItemsAre ==
  /\ Terminals \subseteq Items /\ Branches \subseteq Items
  /\ DOMAIN Node = {"include", "struct", "struct_field", "mapping", "mapping_field", "encoding",
                    "encoding_field", "encoding_delta_block", "document"}
  /\ DOMAIN Value = {"qualified_identifier", "type"}
  /\ {"include", "struct", "struct_field", "mapping", "mapping_field", "encoding",
      "encoding_field", "encoding_delta_block", "document", "qualified_identifier", "type",
      "return", "unexpected"} \subseteq Items
  /\ {"includes", "namespace", "declarations", "more_identifiers", "array", "struct_fields",
      "mapping_fields", "encoding_nodes", "encoding_id", "encoding_node", "delta_fields"} \subseteq Items
  BY DEF Items, Node, Value, Branches

\* The languages of the items have words.
LEMMA LangWords == \A i \in Items : Lang(i) \in SUBSET Words
<1> SUFFICES ASSUME NEW i \in Items PROVE Lang(i) \in SUBSET Words
  OBVIOUS
<1>1. CASE i \in Terminals
  BY <1>1, LangTerminal, OneIs
<1>2. CASE i \in DOMAIN Node
  BY <1>2, LangIs, ItemsAre, Languages, DeltaUnfold
<1>3. CASE i \in DOMAIN Value \cup {"return", "unexpected"}
  BY <1>3, LangIs, ItemsAre, Languages, WordEmpty
<1>4. CASE i \in Branches
  BY <1>4, LangIs, Languages, StarWords DEF Branches
<1> QED
  BY <1>1, <1>2, <1>3, <1>4 DEF Items

\* A choice, and then A.
LEMMA JoinUnion == ASSUME NEW V, NEW W, NEW A PROVE Join(V \cup W, A) = Join(V, A) \cup Join(W, A)
  BY DEF Join

\* What is optional comes before A or not.
LEMMA JoinOpt ==
  ASSUME NEW W \in SUBSET Words, NEW A \in SUBSET Words
  PROVE  Join(Opt(W), A) = A \cup Join(W, A)
  BY JoinUnion, JoinEmpty DEF Opt

\* A repetition ends, or goes on with one more.
LEMMA JoinStar ==
  ASSUME NEW W \in SUBSET Words, NEW A \in SUBSET Words
  PROVE  Join(Star(W), A) = A \cup Join(W, Join(Star(W), A))
<1>1. Star(W) = Opt(Join(W, Star(W)))
  BY StarUnfold DEF Opt
<1>2. Join(Opt(Join(W, Star(W))), A) = A \cup Join(Join(W, Star(W)), A)
  BY JoinWords, JoinOpt
<1>3. Join(Join(W, Star(W)), A) = Join(W, Join(Star(W), A))
  BY StarWords, JoinAssoc
<1> QED
  BY <1>1, <1>2, <1>3

\* A block, symbol by symbol.
LEMMA JoinBlock ==
  ASSUME NEW W, NEW A \in SUBSET Words
  PROVE  Join(BlockL(W), A) = Join(One("curly_open"), Join(Star(W), Join(One("curly_close"), A)))
<1>1. One("curly_open") \in SUBSET Words /\ One("curly_close") \in SUBSET Words
  BY Lexemes, OneIs
<1>2. Join(BlockL(W), A) = Join(One("curly_open"), Join(Join(Star(W), One("curly_close")), A))
  BY <1>1, JoinWords, JoinAssoc DEF BlockL
<1>3. Join(Join(Star(W), One("curly_close")), A) = Join(Star(W), Join(One("curly_close"), A))
  BY <1>1, StarWords, JoinAssoc
<1> QED
  BY <1>2, <1>3

\* Languages in a row, and then A.
LEMMA JoinRow ==
  ASSUME NEW x \in Terminals, NEW W \in SUBSET Words, NEW A \in SUBSET Words
  PROVE  Join(Join(One(x), W), A) = Join(One(x), Join(W, A))
  BY OneIs, JoinAssoc

\* What is left in the document when an item is in front of a stack with A.
Put(i, A) == Join(Lang(i), A)

\* Put has words.
LEMMA PutWords == ASSUME NEW i, NEW A PROVE Put(i, A) \in SUBSET Words
  BY JoinWords DEF Put

\* A return wants no symbol; after unexpected nothing helps.
LEMMA PutReturn == ASSUME NEW A \in SUBSET Words PROVE Put("return", A) = A /\ Put("unexpected", A) = {}
  BY LangIs, JoinEmpty DEF Put

\* A symbol is put in front.
LEMMA PutOne == ASSUME NEW i \in Terminals, NEW A PROVE Put(i, A) = Join(One(i), A)
  BY LangTerminal DEF Put

\* A function has the language of its body.
LEMMA PutNode ==
  ASSUME NEW A \in SUBSET Words
  PROVE  /\ Put("include", A) = Put("include_kw", Put("string", A))
         /\ Put("struct", A) = Put("struct_kw", Put("identifier", Put("curly_open",
                                 Put("struct_fields", Put("curly_close", A)))))
         /\ Put("struct_field", A) = Put("identifier", Put("colon", Put("type", A)))
         /\ Put("mapping", A) = Put("mapping_kw", Put("identifier", Put("colon",
                                  Put("qualified_identifier", Put("curly_open",
                                    Put("mapping_fields", Put("curly_close", A)))))))
         /\ Put("mapping_field", A) = Put("identifier", Put("colon", Put("string", A)))
         /\ Put("encoding", A) = Put("encoding_kw", Put("identifier", Put("encoding_id",
                                   Put("curly_open", Put("encoding_nodes", Put("curly_close", A))))))
         /\ Put("encoding_field", A) = Put("identifier", Put("encoding_id", A))
         /\ Put("encoding_delta_block", A) = Put("delta_kw", Put("delta_fields", A))
         /\ Put("document", A) = Put("includes", Put("namespace", Put("declarations", A)))
         /\ Put("qualified_identifier", A) = Put("identifier", Put("more_identifiers", A))
         /\ Put("type", A) = Put("qualified_identifier", Put("array", A))
<1>a. /\ "identifier" \in Terminals /\ "colon" \in Terminals /\ "string" \in Terminals
      /\ "curly_open" \in Terminals /\ "curly_close" \in Terminals /\ "delta_kw" \in Terminals
      /\ "include_kw" \in Terminals /\ "struct_kw" \in Terminals
      /\ "mapping_kw" \in Terminals /\ "encoding_kw" \in Terminals
  BY Lexemes
<1>b. /\ Put("identifier", A) = Join(One("identifier"), A)
      /\ \A x \in Terminals : \A W \in SUBSET Words : Put(x, W) = Join(One(x), W)
  BY <1>a, PutOne
<1>c. \A x \in Terminals : \A V \in SUBSET Words : Join(Join(One(x), V), A) = Put(x, Join(V, A))
  BY <1>b, JoinRow, JoinWords
<1>d. \A x \in Terminals : One(x) \in SUBSET Words
  BY OneIs
<1>1. Put("include", A) = Put("include_kw", Put("string", A))
  BY <1>a, <1>b, <1>c, <1>d, LangIs DEF Put, IncludeL
<1>2. ASSUME NEW V, NEW W, NEW x \in Terminals
      PROVE  Join(Join(One(x), Join(V, W)), A) = Put(x, Join(Join(V, W), A))
  BY <1>c, JoinWords
<1>3. Put("struct", A) = Put("struct_kw", Put("identifier", Put("curly_open",
                           Put("struct_fields", Put("curly_close", A)))))
  <2>1. Put("struct", A) = Put("struct_kw", Put("identifier", Join(BlockL(StructFieldL), A)))
    <3> DEFINE B == BlockL(StructFieldL)
    <3>0. B \in SUBSET Words
      BY BlockWords
    <3>1. Put("struct", A) = Join(Join(One("struct_kw"), Join(One("identifier"), B)), A)
      BY LangIs DEF StructL, Put
    <3> HIDE DEF B
    <3>2. Put("struct", A) = Put("struct_kw", Put("identifier", Join(B, A)))
      BY <1>a, <1>c, <1>2, <3>0, <3>1
    <3> QED
      BY <3>2 DEF B
  <2>2. Join(BlockL(StructFieldL), A) = Put("curly_open", Put("struct_fields", Put("curly_close", A)))
    BY <1>a, LangTerminal, LangIs, JoinBlock DEF Put
  <2> QED
    BY <2>1, <2>2
<1>4. Put("struct_field", A) = Put("identifier", Put("colon", Put("type", A)))
  <2>1. Put("struct_field", A) = Join(Join(One("identifier"), Join(One("colon"), TypeL)), A)
    BY LangIs DEF StructFieldL, Put
  <2>2. Put("struct_field", A) = Put("identifier", Put("colon", Join(TypeL, A)))
    BY <1>a, <1>c, <1>2, <2>1, Languages
  <2> QED
    BY <2>2, LangIs DEF Put
<1>5. Put("mapping", A) = Put("mapping_kw", Put("identifier", Put("colon",
                                  Put("qualified_identifier", Put("curly_open",
                                    Put("mapping_fields", Put("curly_close", A)))))))
  <2> DEFINE B == BlockL(MappingFieldL)
  <2>0. B \in SUBSET Words
    BY BlockWords
  <2>1. Join(B, A) = Put("curly_open", Put("mapping_fields", Put("curly_close", A)))
    BY <1>a, LangTerminal, LangIs, JoinBlock DEF Put
  <2>2. Put("mapping", A) = Join(Join(One("mapping_kw"), Join(One("identifier"), Join(One("colon"),
                                 Join(QualifiedL, B)))), A)
    BY LangIs DEF MappingL, Put
  <2> HIDE DEF B
  <2>3. Put("mapping", A) = Put("mapping_kw", Put("identifier", Put("colon", Join(Join(QualifiedL, B), A))))
    BY <1>a, <1>2, <2>2
  <2>4. Join(Join(QualifiedL, B), A) = Put("qualified_identifier", Join(B, A))
    BY <2>0, LangIs, Languages, JoinAssoc DEF Put
  <2> QED
    BY <2>1, <2>3, <2>4
<1>6. Put("mapping_field", A) = Put("identifier", Put("colon", Put("string", A)))
  <2>1. Put("mapping_field", A) = Join(Join(One("identifier"), Join(One("colon"), One("string"))), A)
    BY LangIs DEF MappingFieldL, Put
  <2>2. Put("mapping_field", A) = Put("identifier", Put("colon", Join(One("string"), A)))
    BY <1>a, <1>c, <1>2, <1>d, <2>1
  <2> QED
    BY <1>a, <1>b, <2>2
<1>7. Put("encoding", A) = Put("encoding_kw", Put("identifier", Put("encoding_id",
                                   Put("curly_open", Put("encoding_nodes", Put("curly_close", A))))))
  <2> DEFINE B == BlockL(EncodingNodeL)
  <2>0. B \in SUBSET Words
    BY BlockWords
  <2>1. Join(B, A) = Put("curly_open", Put("encoding_nodes", Put("curly_close", A)))
    BY <1>a, LangTerminal, LangIs, JoinBlock DEF Put
  <2>2. Put("encoding", A) = Join(Join(One("encoding_kw"), Join(One("identifier"), Join(EncodingIdL, B))), A)
    BY LangIs DEF EncodingL, Put
  <2> HIDE DEF B
  <2>3. Put("encoding", A) = Put("encoding_kw", Put("identifier", Join(Join(EncodingIdL, B), A)))
    BY <1>a, <1>2, <2>2
  <2>4. Join(Join(EncodingIdL, B), A) = Put("encoding_id", Join(B, A))
    BY <2>0, LangIs, Languages, JoinAssoc DEF Put
  <2> QED
    BY <2>1, <2>3, <2>4
<1>8. Put("encoding_field", A) = Put("identifier", Put("encoding_id", A))
  BY <1>a, <1>c, LangIs, Languages DEF Put, EncodingFieldL
<1>9. Put("encoding_delta_block", A) = Put("delta_kw", Put("delta_fields", A))
  BY <1>a, <1>c, LangIs, Languages, DeltaJoin DEF Put
<1>10. Put("document", A) = Put("includes", Put("namespace", Put("declarations", A)))
  <2>1. Join(Join(NamespaceL, Star(DeclarationL)), A) = Put("namespace", Put("declarations", A))
    BY LangIs, Languages, StarWords, JoinAssoc DEF Put
  <2>2. Put("document", A) = Put("includes", Join(Join(NamespaceL, Star(DeclarationL)), A))
    BY LangIs, Languages, StarWords, JoinWords, JoinAssoc DEF Put, DocumentL
  <2> QED
    BY <2>1, <2>2
<1>11. Put("qualified_identifier", A) = Put("identifier", Put("more_identifiers", A))
  BY <1>a, <1>c, LangIs, Languages DEF Put, QualifiedL
<1>12. Put("type", A) = Put("qualified_identifier", Put("array", A))
  BY LangIs, Languages, JoinAssoc DEF Put, TypeL
<1> QED
  BY <1>1, <1>3, <1>4, <1>5, <1>6, <1>7, <1>8, <1>9, <1>10, <1>11, <1>12

\* A branch has the languages of its alternatives.
LEMMA PutBranch ==
  ASSUME NEW A \in SUBSET Words
  PROVE  /\ Put("includes", A) = A \cup Put("include", Put("includes", A))
         /\ Put("namespace", A) = A \cup Put("namespace_kw", Put("qualified_identifier", A))
         /\ Put("declarations", A) = A \cup Put("struct", Put("declarations", A))
                                       \cup Put("mapping", Put("declarations", A))
                                       \cup Put("encoding", Put("declarations", A))
         /\ Put("more_identifiers", A) =
              A \cup Put("namespace_sep", Put("identifier", Put("more_identifiers", A)))
         /\ Put("array", A) = A \cup Put("bracket_open", Put("integer", Put("bracket_close", A)))
         /\ Put("struct_fields", A) = A \cup Put("struct_field", Put("struct_fields", A))
         /\ Put("mapping_fields", A) = A \cup Put("mapping_field", Put("mapping_fields", A))
         /\ Put("encoding_nodes", A) = A \cup Put("encoding_node", Put("encoding_nodes", A))
         /\ Put("encoding_id", A) = A \cup Put("colon", Put("identifier", A))
         /\ Put("encoding_node", A) = Put("encoding_field", A) \cup Put("encoding_delta_block", A)
         /\ Put("delta_fields", A) =
              Put("encoding_field", A) \cup Put("curly_open", Put("encoding_nodes", Put("curly_close", A)))
<1>a. /\ "identifier" \in Terminals /\ "colon" \in Terminals /\ "integer" \in Terminals
      /\ "curly_open" \in Terminals /\ "curly_close" \in Terminals /\ "namespace_kw" \in Terminals
      /\ "namespace_sep" \in Terminals /\ "bracket_open" \in Terminals /\ "bracket_close" \in Terminals
  BY Lexemes
<1>b. \A x \in Terminals : \A W \in SUBSET Words : Put(x, W) = Join(One(x), W) /\ One(x) \in SUBSET Words
  BY PutOne, OneIs
<1>c. \A x \in Terminals : \A V, W \in SUBSET Words : Join(Join(One(x), V), W) = Put(x, Join(V, W))
  BY <1>b, JoinRow, JoinWords
<1>1. /\ Put("includes", A) = A \cup Put("include", Put("includes", A))
      /\ Put("struct_fields", A) = A \cup Put("struct_field", Put("struct_fields", A))
      /\ Put("mapping_fields", A) = A \cup Put("mapping_field", Put("mapping_fields", A))
      /\ Put("encoding_nodes", A) = A \cup Put("encoding_node", Put("encoding_nodes", A))
  BY LangIs, Languages, JoinStar DEF Put
<1>2. Put("namespace", A) = A \cup Put("namespace_kw", Put("qualified_identifier", A))
  BY <1>a, <1>c, LangIs, Languages, JoinWords, JoinOpt DEF Put, NamespaceL
<1>3. Put("encoding_id", A) = A \cup Put("colon", Put("identifier", A))
  BY <1>a, <1>b, <1>c, LangIs, Languages, JoinWords, JoinOpt DEF Put, EncodingIdL
<1>4. Put("array", A) = A \cup Put("bracket_open", Put("integer", Put("bracket_close", A)))
  <2> DEFINE W == Join(One("integer"), One("bracket_close"))
  <2>1. Join(W, A) = Put("integer", Put("bracket_close", A))
    BY <1>a, <1>b, <1>c
  <2>2. W \in SUBSET Words
    BY JoinWords
  <2> HIDE DEF W
  <2>3. Join(Join(One("bracket_open"), W), A) = Put("bracket_open", Join(W, A))
    BY <1>a, <1>c, <2>2
  <2>4. Put("array", A) = A \cup Join(Join(One("bracket_open"), W), A)
    BY LangIs, JoinWords, JoinOpt DEF Put, ArrayL, W
  <2> QED
    BY <2>1, <2>3, <2>4
<1>5. Put("more_identifiers", A) =
        A \cup Put("namespace_sep", Put("identifier", Put("more_identifiers", A)))
  <2> DEFINE W == Join(One("namespace_sep"), One("identifier"))
             M == Put("more_identifiers", A)
  <2>1. M \in SUBSET Words /\ W \in SUBSET Words
    BY JoinWords, PutWords
  <2>2. M = A \cup Join(W, M)
    BY <2>1, LangIs, JoinStar DEF Put, MoreL
  <2> HIDE DEF M
  <2>3. Join(W, M) = Put("namespace_sep", Put("identifier", M))
    BY <1>a, <1>b, <1>c, <2>1
  <2> QED
    BY <2>2, <2>3 DEF M
<1>6. Put("declarations", A) = A \cup Put("struct", Put("declarations", A))
                                       \cup Put("mapping", Put("declarations", A))
                                       \cup Put("encoding", Put("declarations", A))
  <2> DEFINE M == Put("declarations", A)
  <2>1. M = A \cup Join(DeclarationL, M)
    BY LangIs, Languages, JoinStar DEF Put
  <2> HIDE DEF M
  <2>2. Join(DeclarationL, M) = Put("struct", M) \cup Put("mapping", M) \cup Put("encoding", M)
    <3>1. Join(DeclarationL, M) = Join(StructL \cup MappingL, M) \cup Join(EncodingL, M)
      BY JoinUnion DEF DeclarationL
    <3>2. Join(StructL \cup MappingL, M) = Join(StructL, M) \cup Join(MappingL, M)
      BY JoinUnion
    <3> QED
      BY <3>1, <3>2, LangIs DEF Put
  <2> QED
    BY <2>1, <2>2 DEF M
<1>7. Put("encoding_node", A) = Put("encoding_field", A) \cup Put("encoding_delta_block", A)
  BY LangIs, JoinUnion DEF Put, EncodingNodeL
<1>8. Put("delta_fields", A) =
        Put("encoding_field", A) \cup Put("curly_open", Put("encoding_nodes", Put("curly_close", A)))
  BY <1>a, LangTerminal, LangIs, JoinUnion, JoinBlock DEF Put, DeltaFieldsL
<1> QED
  BY <1>1, <1>2, <1>3, <1>4, <1>5, <1>6, <1>7, <1>8

\* Literal sequences in front of a stack, item by item.
LEMMA Row2 ==
  ASSUME NEW a \in Items, NEW b \in Items, NEW t \in Stacks
  PROVE  <<a, b>> \o t = <<a>> \o (<<b>> \o t)
<1>1. <<a, b>> = <<a>> \o <<b>>
  BY Pair
<1>2. (<<a>> \o <<b>>) \o t = <<a>> \o (<<b>> \o t)
  BY DEF Stacks
<1> QED
  BY Zenon, <1>1, <1>2

\* The bodies of the functions in front of a stack.
LEMMA Bodies ==
  ASSUME NEW t \in Stacks
  PROVE  /\ Node["include"] \o t = <<"include_kw">> \o (<<"string">> \o (<<"return">> \o t))
         /\ Node["struct"] \o t =
              <<"struct_kw">> \o (<<"identifier">> \o (<<"curly_open">> \o (<<"struct_fields">> \o
                (<<"curly_close">> \o (<<"return">> \o t)))))
         /\ Node["struct_field"] \o t = <<"identifier">> \o (<<"colon">> \o (<<"type">> \o (<<"return">> \o t)))
         /\ Node["mapping"] \o t =
              <<"mapping_kw">> \o (<<"identifier">> \o (<<"colon">> \o (<<"qualified_identifier">> \o
                (<<"curly_open">> \o (<<"mapping_fields">> \o (<<"curly_close">> \o (<<"return">> \o t)))))))
         /\ Node["mapping_field"] \o t =
              <<"identifier">> \o (<<"colon">> \o (<<"string">> \o (<<"return">> \o t)))
         /\ Node["encoding"] \o t =
              <<"encoding_kw">> \o (<<"identifier">> \o (<<"encoding_id">> \o (<<"curly_open">> \o
                (<<"encoding_nodes">> \o (<<"curly_close">> \o (<<"return">> \o t))))))
         /\ Node["encoding_field"] \o t = <<"identifier">> \o (<<"encoding_id">> \o (<<"return">> \o t))
         /\ Node["encoding_delta_block"] \o t = <<"delta_kw">> \o (<<"delta_fields">> \o (<<"return">> \o t))
         /\ Node["document"] \o t =
              <<"includes">> \o (<<"namespace">> \o (<<"declarations">> \o (<<"return">> \o t)))
         /\ Value["qualified_identifier"] \o t = <<"identifier">> \o (<<"more_identifiers">> \o t)
         /\ Value["type"] \o t = <<"qualified_identifier">> \o (<<"array">> \o t)
<1>1. /\ "include_kw" \in Items /\ "string" \in Items /\ "identifier" \in Items /\ "struct_kw" \in Items
      /\ "curly_open" \in Items /\ "curly_close" \in Items /\ "colon" \in Items /\ "mapping_kw" \in Items
      /\ "encoding_kw" \in Items /\ "delta_kw" \in Items /\ "return" \in Items
      /\ "struct_fields" \in Items /\ "mapping_fields" \in Items /\ "encoding_nodes" \in Items
      /\ "encoding_id" \in Items /\ "type" \in Items /\ "qualified_identifier" \in Items
      /\ "delta_fields" \in Items /\ "includes" \in Items /\ "namespace" \in Items
      /\ "declarations" \in Items /\ "more_identifiers" \in Items /\ "array" \in Items
  BY Lexemes, ItemsAre
<1>2. /\ Node["include"] = <<"include_kw", "string", "return">>
      /\ Node["struct"] = <<"struct_kw", "identifier", "curly_open", "struct_fields", "curly_close", "return">>
      /\ Node["struct_field"] = <<"identifier", "colon", "type", "return">>
      /\ Node["mapping"] = <<"mapping_kw", "identifier", "colon", "qualified_identifier", "curly_open",
                             "mapping_fields", "curly_close", "return">>
      /\ Node["mapping_field"] = <<"identifier", "colon", "string", "return">>
      /\ Node["encoding"] = <<"encoding_kw", "identifier", "encoding_id", "curly_open", "encoding_nodes",
                              "curly_close", "return">>
      /\ Node["encoding_field"] = <<"identifier", "encoding_id", "return">>
      /\ Node["encoding_delta_block"] = <<"delta_kw", "delta_fields", "return">>
      /\ Node["document"] = <<"includes", "namespace", "declarations", "return">>
      /\ Value["qualified_identifier"] = <<"identifier", "more_identifiers">>
      /\ Value["type"] = <<"qualified_identifier", "array">>
  BY DEF Node, ParseInclude, ParseStruct, ParseStructField, ParseMapping, ParseMappingField, ParseEncoding,
         ParseEncodingField, ParseEncodingDeltaBlock, ParseDocument, Value, ParseQualifiedIdentifier, ParseType
<1>3. Node["include"] \o t = <<"include_kw">> \o (<<"string">> \o (<<"return">> \o t))
  <2>1. <<"include_kw", "string", "return">> \o t = <<"include_kw">> \o (<<"string", "return">> \o t)
    BY DEF Stacks
  <2>2. <<"string", "return">> \o t = <<"string">> \o (<<"return">> \o t)
    BY <1>1, Row2
  <2> QED
    BY Zenon, <1>2, <2>1, <2>2
<1>4. Node["struct"] \o t = <<"struct_kw">> \o (<<"identifier">> \o (<<"curly_open">> \o (<<"struct_fields">> \o (<<"curly_close">> \o (<<"return">> \o t)))))
  <2>1. <<"struct_kw", "identifier", "curly_open", "struct_fields", "curly_close", "return">> \o t = <<"struct_kw">> \o (<<"identifier", "curly_open", "struct_fields", "curly_close", "return">> \o t)
    BY DEF Stacks
  <2>2. <<"identifier", "curly_open", "struct_fields", "curly_close", "return">> \o t = <<"identifier">> \o (<<"curly_open", "struct_fields", "curly_close", "return">> \o t)
    BY DEF Stacks
  <2>3. <<"curly_open", "struct_fields", "curly_close", "return">> \o t = <<"curly_open">> \o (<<"struct_fields", "curly_close", "return">> \o t)
    BY DEF Stacks
  <2>4. <<"struct_fields", "curly_close", "return">> \o t = <<"struct_fields">> \o (<<"curly_close", "return">> \o t)
    BY DEF Stacks
  <2>5. <<"curly_close", "return">> \o t = <<"curly_close">> \o (<<"return">> \o t)
    BY <1>1, Row2
  <2> QED
    BY Zenon, <1>2, <2>1, <2>2, <2>3, <2>4, <2>5
<1>5. Node["struct_field"] \o t = <<"identifier">> \o (<<"colon">> \o (<<"type">> \o (<<"return">> \o t)))
  <2>1. <<"identifier", "colon", "type", "return">> \o t = <<"identifier">> \o (<<"colon", "type", "return">> \o t)
    BY DEF Stacks
  <2>2. <<"colon", "type", "return">> \o t = <<"colon">> \o (<<"type", "return">> \o t)
    BY DEF Stacks
  <2>3. <<"type", "return">> \o t = <<"type">> \o (<<"return">> \o t)
    BY <1>1, Row2
  <2> QED
    BY Zenon, <1>2, <2>1, <2>2, <2>3
<1>6. Node["mapping"] \o t = <<"mapping_kw">> \o (<<"identifier">> \o (<<"colon">> \o (<<"qualified_identifier">> \o (<<"curly_open">> \o (<<"mapping_fields">> \o (<<"curly_close">> \o (<<"return">> \o t)))))))
  <2>1. <<"mapping_kw", "identifier", "colon", "qualified_identifier", "curly_open", "mapping_fields", "curly_close", "return">> \o t = <<"mapping_kw">> \o (<<"identifier", "colon", "qualified_identifier", "curly_open", "mapping_fields", "curly_close", "return">> \o t)
    BY SMTT(60) DEF Stacks
  <2>2. <<"identifier", "colon", "qualified_identifier", "curly_open", "mapping_fields", "curly_close", "return">> \o t = <<"identifier">> \o (<<"colon", "qualified_identifier", "curly_open", "mapping_fields", "curly_close", "return">> \o t)
    BY DEF Stacks
  <2>3. <<"colon", "qualified_identifier", "curly_open", "mapping_fields", "curly_close", "return">> \o t = <<"colon">> \o (<<"qualified_identifier", "curly_open", "mapping_fields", "curly_close", "return">> \o t)
    BY DEF Stacks
  <2>4. <<"qualified_identifier", "curly_open", "mapping_fields", "curly_close", "return">> \o t = <<"qualified_identifier">> \o (<<"curly_open", "mapping_fields", "curly_close", "return">> \o t)
    BY DEF Stacks
  <2>5. <<"curly_open", "mapping_fields", "curly_close", "return">> \o t = <<"curly_open">> \o (<<"mapping_fields", "curly_close", "return">> \o t)
    BY DEF Stacks
  <2>6. <<"mapping_fields", "curly_close", "return">> \o t = <<"mapping_fields">> \o (<<"curly_close", "return">> \o t)
    BY DEF Stacks
  <2>7. <<"curly_close", "return">> \o t = <<"curly_close">> \o (<<"return">> \o t)
    BY <1>1, Row2
  <2> QED
    BY Zenon, <1>2, <2>1, <2>2, <2>3, <2>4, <2>5, <2>6, <2>7
<1>7. Node["mapping_field"] \o t = <<"identifier">> \o (<<"colon">> \o (<<"string">> \o (<<"return">> \o t)))
  <2>1. <<"identifier", "colon", "string", "return">> \o t = <<"identifier">> \o (<<"colon", "string", "return">> \o t)
    BY DEF Stacks
  <2>2. <<"colon", "string", "return">> \o t = <<"colon">> \o (<<"string", "return">> \o t)
    BY DEF Stacks
  <2>3. <<"string", "return">> \o t = <<"string">> \o (<<"return">> \o t)
    BY <1>1, Row2
  <2> QED
    BY Zenon, <1>2, <2>1, <2>2, <2>3
<1>8. Node["encoding"] \o t = <<"encoding_kw">> \o (<<"identifier">> \o (<<"encoding_id">> \o (<<"curly_open">> \o (<<"encoding_nodes">> \o (<<"curly_close">> \o (<<"return">> \o t))))))
  <2>1. <<"encoding_kw", "identifier", "encoding_id", "curly_open", "encoding_nodes", "curly_close", "return">> \o t = <<"encoding_kw">> \o (<<"identifier", "encoding_id", "curly_open", "encoding_nodes", "curly_close", "return">> \o t)
    BY DEF Stacks
  <2>2. <<"identifier", "encoding_id", "curly_open", "encoding_nodes", "curly_close", "return">> \o t = <<"identifier">> \o (<<"encoding_id", "curly_open", "encoding_nodes", "curly_close", "return">> \o t)
    BY DEF Stacks
  <2>3. <<"encoding_id", "curly_open", "encoding_nodes", "curly_close", "return">> \o t = <<"encoding_id">> \o (<<"curly_open", "encoding_nodes", "curly_close", "return">> \o t)
    BY DEF Stacks
  <2>4. <<"curly_open", "encoding_nodes", "curly_close", "return">> \o t = <<"curly_open">> \o (<<"encoding_nodes", "curly_close", "return">> \o t)
    BY DEF Stacks
  <2>5. <<"encoding_nodes", "curly_close", "return">> \o t = <<"encoding_nodes">> \o (<<"curly_close", "return">> \o t)
    BY DEF Stacks
  <2>6. <<"curly_close", "return">> \o t = <<"curly_close">> \o (<<"return">> \o t)
    BY <1>1, Row2
  <2> QED
    BY Zenon, <1>2, <2>1, <2>2, <2>3, <2>4, <2>5, <2>6
<1>9. Node["encoding_field"] \o t = <<"identifier">> \o (<<"encoding_id">> \o (<<"return">> \o t))
  <2>1. <<"identifier", "encoding_id", "return">> \o t = <<"identifier">> \o (<<"encoding_id", "return">> \o t)
    BY DEF Stacks
  <2>2. <<"encoding_id", "return">> \o t = <<"encoding_id">> \o (<<"return">> \o t)
    BY <1>1, Row2
  <2> QED
    BY Zenon, <1>2, <2>1, <2>2
<1>10. Node["encoding_delta_block"] \o t = <<"delta_kw">> \o (<<"delta_fields">> \o (<<"return">> \o t))
  <2>1. <<"delta_kw", "delta_fields", "return">> \o t = <<"delta_kw">> \o (<<"delta_fields", "return">> \o t)
    BY DEF Stacks
  <2>2. <<"delta_fields", "return">> \o t = <<"delta_fields">> \o (<<"return">> \o t)
    BY <1>1, Row2
  <2> QED
    BY Zenon, <1>2, <2>1, <2>2
<1>11. Node["document"] \o t = <<"includes">> \o (<<"namespace">> \o (<<"declarations">> \o (<<"return">> \o t)))
  <2>1. <<"includes", "namespace", "declarations", "return">> \o t = <<"includes">> \o (<<"namespace", "declarations", "return">> \o t)
    BY DEF Stacks
  <2>2. <<"namespace", "declarations", "return">> \o t = <<"namespace">> \o (<<"declarations", "return">> \o t)
    BY DEF Stacks
  <2>3. <<"declarations", "return">> \o t = <<"declarations">> \o (<<"return">> \o t)
    BY <1>1, Row2
  <2> QED
    BY Zenon, <1>2, <2>1, <2>2, <2>3
<1>12. Value["qualified_identifier"] \o t = <<"identifier">> \o (<<"more_identifiers">> \o t)
  <2>1. <<"identifier", "more_identifiers">> \o t = <<"identifier">> \o (<<"more_identifiers">> \o t)
    BY <1>1, Row2
  <2> QED
    BY Zenon, <1>2, <2>1
<1>13. Value["type"] \o t = <<"qualified_identifier">> \o (<<"array">> \o t)
  <2>1. <<"qualified_identifier", "array">> \o t = <<"qualified_identifier">> \o (<<"array">> \o t)
    BY <1>1, Row2
  <2> QED
    BY Zenon, <1>2, <2>1
<1> QED
  BY <1>3, <1>4, <1>5, <1>6, <1>7, <1>8, <1>9, <1>10, <1>11, <1>12, <1>13

--------------------------------------------------------------------------------
(* One symbol of lookahead: the symbols an item may begin with, the items    *)
(* that may take nothing, and the symbols that may come after an item.       *)

FirstOf(i) ==
  CASE i \in Terminals -> {i}
    [] i \in {"include", "includes"} -> {"include_kw"}
    [] i = "namespace" -> {"namespace_kw"}
    [] i = "declarations" -> {"struct_kw", "mapping_kw", "encoding_kw"}
    [] i = "document" -> {"include_kw", "namespace_kw", "struct_kw", "mapping_kw", "encoding_kw"}
    [] i \in {"qualified_identifier", "type", "struct_field", "struct_fields", "mapping_field",
              "mapping_fields", "encoding_field"} -> {"identifier"}
    [] i = "more_identifiers" -> {"namespace_sep"}
    [] i = "array" -> {"bracket_open"}
    [] i = "struct" -> {"struct_kw"}
    [] i = "mapping" -> {"mapping_kw"}
    [] i = "encoding" -> {"encoding_kw"}
    [] i = "encoding_id" -> {"colon"}
    [] i \in {"encoding_node", "encoding_nodes"} -> {"identifier", "delta_kw"}
    [] i = "encoding_delta_block" -> {"delta_kw"}
    [] i = "delta_fields" -> {"identifier", "curly_open"}
    [] i \in {"return", "unexpected"} -> {}

Nullable ==
  {"includes", "namespace", "declarations", "document", "more_identifiers", "array", "struct_fields",
   "mapping_fields", "encoding_id", "encoding_nodes", "return"}

Punctuation == {"namespace_sep", "bracket_open", "colon"}

\* What may come after the item i.
Follow(i) ==
  CASE i \in Terminals -> Symbols
    [] i = "includes" -> Symbols \ (Punctuation \cup {"include_kw"})
    [] i = "namespace" -> Symbols \ (Punctuation \cup {"namespace_kw"})
    [] i \in {"declarations", "document"} -> {"eof"}
    [] i \in {"qualified_identifier", "more_identifiers"} -> Symbols \ {"namespace_sep"}
    [] i \in {"struct_fields", "mapping_fields", "encoding_nodes"} -> {"curly_close"}
    [] OTHER -> Symbols \ Punctuation

\* Every word of A begins with a symbol of F.
Leads(A, F) == \A w \in A : First(w) \in F

\* What a language begins with when it has the empty word only if e.
Begins(W, F, e) == W \in SUBSET Words /\ \A w \in W : IF w = <<>> THEN e ELSE First(w) \in F

\* How a joined language begins.
LEMMA BeginsJoin ==
  ASSUME NEW V, NEW W, NEW F, NEW G, NEW d \in BOOLEAN, NEW e \in BOOLEAN, Begins(V, F, d), Begins(W, G, e)
  PROVE  /\ Begins(Join(V, W), F \cup G, d /\ e)
         /\ ~ d => Begins(Join(V, W), F, FALSE)
<1>1. V \in SUBSET Words /\ W \in SUBSET Words
  BY DEF Begins
<1>2. ASSUME NEW z \in Join(V, W)
      PROVE  /\ z \in Words
             /\ \E v \in V : \E w \in W : /\ z = <<>> <=> (v = <<>> /\ w = <<>>)
                                          /\ First(z) = IF v = <<>> THEN First(w) ELSE First(v)
  <2>1. PICK v \in V : \E w \in W : z = v \o w
    BY <1>1, JoinIs
  <2>2. PICK w \in W : z = v \o w
    BY <2>1
  <2>3. v \in Words /\ w \in Words
    BY <1>1
  <2>4. z \in Words /\ First(z) = IF v = <<>> THEN First(w) ELSE First(v)
    BY <2>2, <2>3, FirstCat, WordCat
  <2>5. z = <<>> <=> (v = <<>> /\ w = <<>>)
    <3>1. Len(z) = Len(v) + Len(w) /\ Len(v) \in Nat /\ Len(w) \in Nat /\ z \in Words
      BY <2>2, <2>3, WordCat, WordLen
    <3>2. Len(z) = 0 <=> (Len(v) = 0 /\ Len(w) = 0)
      BY <3>1
    <3> QED
      BY Zenon, <2>3, <3>1, <3>2, WordLen
  <2> QED
    BY <2>4, <2>5
<1>3. ASSUME NEW v \in V PROVE IF v = <<>> THEN d ELSE First(v) \in F
  BY DEF Begins
<1>4. ASSUME NEW w \in W PROVE IF w = <<>> THEN e ELSE First(w) \in G
  BY DEF Begins
<1>5. ASSUME NEW z \in Join(V, W) PROVE IF z = <<>> THEN d /\ e ELSE First(z) \in F \cup G
  BY <1>2, <1>3, <1>4
<1> QED
  BY <1>2, <1>3, <1>5 DEF Begins

\* An optional phrase begins like the phrase, or is empty.
LEMMA BeginsOpt == ASSUME NEW W, NEW F, NEW e, Begins(W, F, e) PROVE Begins(Opt(W), F, TRUE)
  BY WordEmpty DEF Begins, Opt

\* A symbol begins with itself.
LEMMA BeginsOne == ASSUME NEW x \in Terminals PROVE Begins(One(x), {x}, FALSE)
  BY WordOne DEF Begins, One, First

\* A repetition begins like what it repeats, or is empty.
LEMMA BeginsStar == ASSUME NEW W, NEW F, Begins(W, F, FALSE) PROVE Begins(Star(W), F, TRUE)
<1>1. W \in SUBSET Words /\ Star(W) \in SUBSET Words
  BY StarWords DEF Begins
<1>2. Star(W) = Opt(Join(W, Star(W)))
  BY <1>1, StarUnfold DEF Opt
<1>3. ASSUME NEW z \in Join(W, Star(W)) PROVE First(z) \in F
  <2>1. PICK v \in W : \E w \in Star(W) : z = v \o w
    BY <1>1, JoinIs
  <2>2. PICK w \in Star(W) : z = v \o w
    BY <2>1
  <2>3. v # <<>> /\ First(v) \in F
    BY DEF Begins
  <2> QED
    BY <1>1, <2>2, <2>3, FirstCat
<1> QED
  BY <1>1, <1>2, <1>3 DEF Begins, Opt

\* A language whose words all begin with x.
LEMMA BeginsHead ==
  ASSUME NEW W, NEW x, NEW F, x \in F, W \in SUBSET Words, \A w \in W : w # <<>> /\ First(w) = x
  PROVE  Begins(W, F, FALSE)
  BY DEF Begins

\* The words of an item begin with its first symbols, and only those of the
\* nullable items may be empty.
LEMMA BeginsLang == \A i \in Items : Begins(Lang(i), FirstOf(i), i \in Nullable)
<1>1. ASSUME NEW i \in Terminals PROVE Begins(Lang(i), FirstOf(i), i \in Nullable)
  <2>1. FirstOf(i) = {i} /\ i \notin Nullable
    BY DEF FirstOf, Terminals, Symbols, Nullable
  <2> QED
    BY <2>1, BeginsOne, LangTerminal DEF Begins
<1>2. /\ Begins(IncludeL, {"include_kw"}, FALSE) /\ Begins(StructL, {"struct_kw"}, FALSE)
      /\ Begins(MappingL, {"mapping_kw"}, FALSE) /\ Begins(EncodingL, {"encoding_kw"}, FALSE)
      /\ Begins(DeltaL, {"delta_kw"}, FALSE)
      /\ Begins(StructFieldL, {"identifier"}, FALSE) /\ Begins(MappingFieldL, {"identifier"}, FALSE)
      /\ Begins(EncodingFieldL, {"identifier"}, FALSE) /\ Begins(QualifiedL, {"identifier"}, FALSE)
  BY Headed, Languages, DeltaUnfold DEF Begins
<1>3. /\ Begins(DeclarationL, {"struct_kw", "mapping_kw", "encoding_kw"}, FALSE)
      /\ Begins(EncodingNodeL, {"identifier", "delta_kw"}, FALSE)
  BY <1>2 DEF Begins, DeclarationL, EncodingNodeL
<1>4. Begins(DeltaFieldsL, {"identifier", "curly_open"}, FALSE)
  BY <1>2, Headed, BlockWords DEF Begins, DeltaFieldsL
<1>5. /\ Begins(Star(IncludeL), {"include_kw"}, TRUE)
      /\ Begins(Star(DeclarationL), {"struct_kw", "mapping_kw", "encoding_kw"}, TRUE)
      /\ Begins(Star(StructFieldL), {"identifier"}, TRUE) /\ Begins(Star(MappingFieldL), {"identifier"}, TRUE)
      /\ Begins(Star(EncodingNodeL), {"identifier", "delta_kw"}, TRUE)
  BY <1>2, <1>3, BeginsStar
<1>6. ASSUME NEW x \in Terminals, NEW W \in SUBSET Words
      PROVE  Begins(Join(One(x), W), {x}, FALSE)
  BY JoinOne, BeginsHead
<1>7. /\ Begins(MoreL, {"namespace_sep"}, TRUE)
      /\ Begins(ArrayL, {"bracket_open"}, TRUE)
      /\ Begins(EncodingIdL, {"colon"}, TRUE)
      /\ Begins(NamespaceL, {"namespace_kw"}, TRUE)
  <2>1. /\ "identifier" \in Terminals /\ "namespace_sep" \in Terminals /\ "bracket_open" \in Terminals
        /\ "colon" \in Terminals /\ "namespace_kw" \in Terminals
    BY Lexemes
  <2>2. /\ Begins(Join(One("namespace_sep"), One("identifier")), {"namespace_sep"}, FALSE)
        /\ Begins(Join(One("bracket_open"), Join(One("integer"), One("bracket_close"))), {"bracket_open"}, FALSE)
        /\ Begins(Join(One("colon"), One("identifier")), {"colon"}, FALSE)
        /\ Begins(Join(One("namespace_kw"), QualifiedL), {"namespace_kw"}, FALSE)
    BY <1>6, <2>1, OneIs, JoinWords, Languages
  <2> QED
    BY <2>2, BeginsStar, BeginsOpt DEF MoreL, ArrayL, EncodingIdL, NamespaceL
<1>8. Begins(TypeL, {"identifier"}, FALSE)
  BY <1>2, <1>7, BeginsJoin DEF TypeL
<1>9. Begins(DocumentL, {"include_kw", "namespace_kw", "struct_kw", "mapping_kw", "encoding_kw"}, TRUE)
  <2> DEFINE D == {"struct_kw", "mapping_kw", "encoding_kw"}
  <2>1. Begins(Join(NamespaceL, Star(DeclarationL)), {"namespace_kw"} \cup D, TRUE /\ TRUE)
    BY <1>5, <1>7, BeginsJoin
  <2>2. Begins(DocumentL, {"include_kw"} \cup ({"namespace_kw"} \cup D), TRUE /\ (TRUE /\ TRUE))
    BY <1>5, <2>1, BeginsJoin DEF DocumentL
  <2>3. {"include_kw"} \cup ({"namespace_kw"} \cup D) =
          {"include_kw", "namespace_kw", "struct_kw", "mapping_kw", "encoding_kw"}
    OBVIOUS
  <2> QED
    BY <2>2, <2>3
<1>10. Begins(Lang("return"), {}, TRUE) /\ Begins(Lang("unexpected"), {}, FALSE)
  BY LangIs, WordEmpty DEF Begins
<1>11. ASSUME NEW i \in DOMAIN Node PROVE Begins(Lang(i), FirstOf(i), i \in Nullable)
  BY <1>2, <1>9, LangIs, ItemsAre DEF FirstOf, Nullable, Terminals, Symbols, Begins
<1>12. ASSUME NEW i \in DOMAIN Value \cup {"return", "unexpected"}
       PROVE  Begins(Lang(i), FirstOf(i), i \in Nullable)
  BY <1>2, <1>8, <1>10, LangIs, ItemsAre DEF FirstOf, Nullable, Terminals, Symbols, Begins
<1>13. ASSUME NEW i \in Branches PROVE Begins(Lang(i), FirstOf(i), i \in Nullable)
  BY <1>3, <1>4, <1>5, <1>7, LangIs DEF Branches, FirstOf, Nullable, Terminals, Symbols, Begins
<1> QED
  BY <1>1, <1>11, <1>12, <1>13 DEF Items

\* What a stack begins with when an item is put in front of it.
LEMMA LeadsPut ==
  ASSUME NEW i \in Items, NEW A \in SUBSET Words, NEW F, Leads(A, F)
  PROVE  /\ Leads(Put(i, A), FirstOf(i) \cup F)
         /\ i \notin Nullable => Leads(Put(i, A), FirstOf(i))
<1> SUFFICES ASSUME NEW z \in Put(i, A)
             PROVE  First(z) \in FirstOf(i) \cup F /\ (i \notin Nullable => First(z) \in FirstOf(i))
  BY DEF Leads
<1>1. PICK v \in Lang(i) : \E w \in A : z = v \o w
  BY LangWords, JoinIs DEF Put
<1>2. PICK w \in A : z = v \o w
  BY <1>1
<1>3. First(z) = IF v = <<>> THEN First(w) ELSE First(v)
  BY <1>2, LangWords, FirstCat
<1>4. IF v = <<>> THEN i \in Nullable ELSE First(v) \in FirstOf(i)
  BY BeginsLang DEF Begins
<1>5. First(w) \in F
  BY DEF Leads
<1> QED
  BY <1>3, <1>4, <1>5

--------------------------------------------------------------------------------
(* The language of a stack in which every item may be followed by what is    *)
(* below it.                                                                 *)
LeftRule ==
  {r \in Items \X (SUBSET Words) \X (SUBSET Words) :
     r[1] # "unexpected" /\ Leads(r[2], Follow(r[1])) /\ r[3] = Put(r[1], r[2])}

Left(t) == Runs(SUBSET Words, {{<<>>}}, LeftRule, t)

\* What is left are words.
LEMMA LeftWords == ASSUME NEW t, NEW A \in Left(t) PROVE A \in SUBSET Words
  BY RunsVals DEF Left

\* Nothing is left for the empty stack.
LEMMA LeftEmpty == {<<>>} \in Left(<<>>)
<1>1. {{<<>>}} \in SUBSET SUBSET Words
  BY WordEmpty
<1> QED
  BY <1>1, RunsBase DEF Left

\* An item may come first if what is left after it begins with what may follow it.
LEMMA LeftCons ==
  ASSUME NEW t \in Stacks, NEW i \in Items, i # "unexpected", NEW A \in Left(t), Leads(A, Follow(i))
  PROVE  Put(i, A) \in Left(<<i>> \o t)
<1>1. A \in SUBSET Words /\ Put(i, A) \in SUBSET Words
  BY LeftWords, PutWords
<1>2. <<i, A, Put(i, A)>> \in LeftRule
  BY <1>1 DEF LeftRule
<1> QED
  BY <1>1, <1>2, RunsCons DEF Left

\* What is left for a stack is what is left for its rest, behind its first item.
LEMMA LeftInvert ==
  ASSUME NEW t \in Stacks, NEW i \in Items, NEW L \in Left(<<i>> \o t)
  PROVE  i # "unexpected" /\ \E A \in Left(t) : Leads(A, Follow(i)) /\ L = Put(i, A)
<1>1. {{<<>>}} \in SUBSET SUBSET Words
  BY WordEmpty
<1>2. PICK A \in Left(t) : <<i, A, L>> \in LeftRule
  BY <1>1, RunsInvert DEF Left
<1> QED
  BY <1>2 DEF LeftRule

\* Follow by name.
LEMMA FollowIs ==
  /\ \A i \in Terminals : Follow(i) = Symbols
  /\ \A i \in DOMAIN Node \cup {"return"} : Follow(i) \subseteq Symbols \ Punctuation
  /\ Follow("includes") = Symbols \ (Punctuation \cup {"include_kw"})
  /\ Follow("namespace") = Symbols \ (Punctuation \cup {"namespace_kw"})
  /\ Follow("declarations") = {"eof"} /\ Follow("document") = {"eof"}
  /\ Follow("qualified_identifier") = Symbols \ {"namespace_sep"}
  /\ Follow("more_identifiers") = Symbols \ {"namespace_sep"}
  /\ Follow("struct_fields") = {"curly_close"} /\ Follow("mapping_fields") = {"curly_close"}
  /\ Follow("encoding_nodes") = {"curly_close"}
  /\ Follow("type") = Symbols \ Punctuation /\ Follow("array") = Symbols \ Punctuation
  /\ Follow("encoding_id") = Symbols \ Punctuation /\ Follow("encoding_node") = Symbols \ Punctuation
  /\ Follow("delta_fields") = Symbols \ Punctuation
  /\ Follow("return") = Symbols \ Punctuation
  /\ Follow("include") = Symbols \ Punctuation /\ Follow("struct") = Symbols \ Punctuation
  /\ Follow("mapping") = Symbols \ Punctuation /\ Follow("encoding") = Symbols \ Punctuation
  /\ Follow("struct_field") = Symbols \ Punctuation /\ Follow("mapping_field") = Symbols \ Punctuation
  /\ Follow("encoding_field") = Symbols \ Punctuation
  /\ Follow("encoding_delta_block") = Symbols \ Punctuation
<1>1. \A i \in Terminals : Follow(i) = Symbols
  BY DEF Follow, Terminals, Symbols
<1>2. \A i \in DOMAIN Node \cup {"return"} : Follow(i) \subseteq Symbols \ Punctuation
  BY ItemsAre DEF Follow, Terminals, Symbols, Punctuation
<1> QED
  BY <1>1, <1>2 DEF Follow, Terminals, Symbols

\* First is a symbol.
LEMMA FirstSymbol == \A w \in Words : First(w) \in Symbols /\ First(w) # "invalid"
<1> SUFFICES ASSUME NEW w \in Words PROVE First(w) \in Symbols
  BY DEF Symbols
<1>1. w # <<>> => w[1] \in Terminals
  BY WordHead
<1> QED
  BY <1>1 DEF First, Terminals, Symbols

\* Leads with more symbols.
LEMMA LeadsMore == ASSUME NEW A, NEW F, NEW G, Leads(A, F), F \subseteq G PROVE Leads(A, G)
  BY DEF Leads

\* A symbol may come before anything.
LEMMA LeftTerminal ==
  ASSUME NEW t \in Stacks, NEW i \in Terminals, NEW A \in Left(t)
  PROVE  /\ Put(i, A) \in Left(<<i>> \o t)
         /\ Leads(Put(i, A), {i})
<1>1. i \in Items /\ i # "unexpected" /\ i \notin Nullable /\ FirstOf(i) = {i}
  BY ItemsAre DEF Terminals, Symbols, Nullable, FirstOf
<1>2. Leads(A, Symbols) /\ A \in SUBSET Words
  BY LeftWords, FirstSymbol DEF Leads
<1>3. Put(i, A) \in Left(<<i>> \o t)
  BY <1>1, <1>2, FollowIs, LeftCons
<1>4. Leads(Put(i, A), FirstOf(i))
  BY <1>1, <1>2, LeadsPut
<1> QED
  BY <1>1, <1>3, <1>4

\* Calling a function that returns a node leaves the language as it is.
LEMMA LeftNode ==
  ASSUME NEW t \in Stacks, NEW k \in DOMAIN Node, NEW L \in Left(<<k>> \o t)
  PROVE  L \in Left(Node[k] \o t)
<1>0. k \in Items
  BY ItemsAre
<1>1. PICK A \in Left(t) : Leads(A, Follow(k)) /\ L = Put(k, A)
  BY <1>0, LeftInvert
<1>2. A \in SUBSET Words
  BY LeftWords
<1> DEFINE u == <<"return">> \o t
<1>3. Leads(A, Symbols \ Punctuation)
  BY <1>1, FollowIs, LeadsMore
<1>4. A \in Left(u) /\ u \in Stacks
  <2>1. "return" \in Items /\ "return" # "unexpected"
    BY ItemsAre
  <2>2. Put("return", A) \in Left(u)
    BY <1>3, <2>1, FollowIs, LeftCons
  <2> QED
    BY <1>2, <2>1, <2>2, PutReturn, StackCons
<1> HIDE DEF u
<1>a. /\ "include_kw" \in Terminals /\ "string" \in Terminals /\ "identifier" \in Terminals
      /\ "struct_kw" \in Terminals /\ "curly_open" \in Terminals /\ "curly_close" \in Terminals
      /\ "colon" \in Terminals /\ "mapping_kw" \in Terminals /\ "encoding_kw" \in Terminals
      /\ "delta_kw" \in Terminals
  BY Lexemes
<1>b. \A i \in Terminals : \A v \in Stacks : \A B \in Left(v) :
        Put(i, B) \in Left(<<i>> \o v) /\ <<i>> \o v \in Stacks /\ Leads(Put(i, B), {i})
  BY LeftTerminal, StackCons, ItemsAre
<1>c. \A i \in Items : \A v \in Stacks : \A B \in Left(v) :
        i # "unexpected" /\ Leads(B, Follow(i)) => Put(i, B) \in Left(<<i>> \o v) /\ <<i>> \o v \in Stacks
  BY LeftCons, StackCons
<1>5. CASE k = "include"
  <2>1. Put("include_kw", Put("string", A)) \in Left(<<"include_kw">> \o (<<"string">> \o u))
    BY <1>4, <1>a, <1>b
  <2> QED
    BY <1>1, <1>2, <1>5, <2>1, Bodies, PutNode DEF u
<1>6. CASE k = "struct"
  <2> DEFINE B == Put("curly_close", A)
             v == <<"curly_close">> \o u
  <2>1. B \in Left(v) /\ v \in Stacks /\ Leads(B, {"curly_close"})
    BY <1>4, <1>a, <1>b
  <2> HIDE DEF B, v
  <2> DEFINE C == Put("struct_fields", B)
             x == <<"struct_fields">> \o v
  <2>2. C \in Left(x) /\ x \in Stacks
    <3>1. "struct_fields" \in Items /\ Leads(B, Follow("struct_fields"))
      BY <2>1, ItemsAre, FollowIs
    <3> QED
      BY <1>c, <2>1, <3>1
  <2> HIDE DEF C, x
  <2>3. Put("struct_kw", Put("identifier", Put("curly_open", C))) \in
          Left(<<"struct_kw">> \o (<<"identifier">> \o (<<"curly_open">> \o x)))
    BY <1>a, <1>b, <2>2
  <2> QED
    BY <1>1, <1>2, <1>6, <2>3, Bodies, PutNode DEF u, B, v, C, x
<1>7. CASE k = "struct_field"
  <2> DEFINE C == Put("type", A)
             x == <<"type">> \o u
  <2>1. "type" \in Items /\ Leads(A, Follow("type"))
    BY <1>3, ItemsAre, FollowIs
  <2>2. C \in Left(x) /\ x \in Stacks
    BY <1>4, <1>c, <2>1
  <2> HIDE DEF C, x
  <2>3. Put("identifier", Put("colon", C)) \in Left(<<"identifier">> \o (<<"colon">> \o x))
    BY <1>a, <1>b, <2>2
  <2> QED
    BY <1>1, <1>2, <1>7, <2>3, Bodies, PutNode DEF u, C, x
<1>8. CASE k = "mapping"
  <2> DEFINE B == Put("curly_close", A)
             v == <<"curly_close">> \o u
  <2>1. B \in Left(v) /\ v \in Stacks /\ Leads(B, {"curly_close"})
    BY <1>4, <1>a, <1>b
  <2> HIDE DEF B, v
  <2> DEFINE C == Put("curly_open", Put("mapping_fields", B))
             x == <<"curly_open">> \o (<<"mapping_fields">> \o v)
  <2>0. "mapping_fields" \in Items /\ Leads(B, Follow("mapping_fields"))
    BY <2>1, ItemsAre, FollowIs
  <2>2. Put("mapping_fields", B) \in Left(<<"mapping_fields">> \o v) /\ <<"mapping_fields">> \o v \in Stacks
    BY <1>c, <2>0, <2>1
  <2>3. C \in Left(x) /\ x \in Stacks /\ Leads(C, {"curly_open"})
    BY <1>a, <1>b, <2>2
  <2> HIDE DEF C, x
  <2> DEFINE D == Put("qualified_identifier", C)
             y == <<"qualified_identifier">> \o x
  <2>4. Leads(C, Follow("qualified_identifier"))
    BY <2>3, FollowIs, LeadsMore DEF Symbols
  <2>5. D \in Left(y) /\ y \in Stacks
    BY <1>c, <2>3, <2>4, ItemsAre
  <2> HIDE DEF D, y
  <2>6. Put("mapping_kw", Put("identifier", Put("colon", D))) \in
          Left(<<"mapping_kw">> \o (<<"identifier">> \o (<<"colon">> \o y)))
    BY <1>a, <1>b, <2>5
  <2> QED
    BY <1>1, <1>2, <1>8, <2>6, Bodies, PutNode DEF u, B, v, C, x, D, y
<1>9. CASE k = "mapping_field"
  <2>1. Put("identifier", Put("colon", Put("string", A))) \in
          Left(<<"identifier">> \o (<<"colon">> \o (<<"string">> \o u)))
    BY <1>4, <1>a, <1>b
  <2> QED
    BY <1>1, <1>2, <1>9, <2>1, Bodies, PutNode DEF u
<1>10. CASE k = "encoding"
  <2> DEFINE B == Put("curly_close", A)
             v == <<"curly_close">> \o u
  <2>1. B \in Left(v) /\ v \in Stacks /\ Leads(B, {"curly_close"})
    BY <1>4, <1>a, <1>b
  <2> HIDE DEF B, v
  <2> DEFINE C == Put("curly_open", Put("encoding_nodes", B))
             x == <<"curly_open">> \o (<<"encoding_nodes">> \o v)
  <2>0. "encoding_nodes" \in Items /\ Leads(B, Follow("encoding_nodes"))
    BY <2>1, ItemsAre, FollowIs
  <2>2. Put("encoding_nodes", B) \in Left(<<"encoding_nodes">> \o v) /\ <<"encoding_nodes">> \o v \in Stacks
    BY <1>c, <2>0, <2>1
  <2>3. C \in Left(x) /\ x \in Stacks /\ Leads(C, {"curly_open"})
    BY <1>a, <1>b, <2>2
  <2> HIDE DEF C, x
  <2> DEFINE D == Put("encoding_id", C)
             y == <<"encoding_id">> \o x
  <2>4. Leads(C, Follow("encoding_id"))
    BY <2>3, FollowIs, LeadsMore DEF Symbols, Punctuation
  <2>5. D \in Left(y) /\ y \in Stacks
    BY <1>c, <2>3, <2>4, ItemsAre
  <2> HIDE DEF D, y
  <2>6. Put("encoding_kw", Put("identifier", D)) \in Left(<<"encoding_kw">> \o (<<"identifier">> \o y))
    BY <1>a, <1>b, <2>5
  <2> QED
    BY <1>1, <1>2, <1>10, <2>6, Bodies, PutNode DEF u, B, v, C, x, D, y
<1>11. CASE k = "encoding_field"
  <2> DEFINE C == Put("encoding_id", A)
             x == <<"encoding_id">> \o u
  <2>1. "encoding_id" \in Items /\ Leads(A, Follow("encoding_id"))
    BY <1>3, ItemsAre, FollowIs
  <2>2. C \in Left(x) /\ x \in Stacks
    BY <1>4, <1>c, <2>1
  <2> HIDE DEF C, x
  <2>3. Put("identifier", C) \in Left(<<"identifier">> \o x)
    BY <1>a, <1>b, <2>2
  <2> QED
    BY <1>1, <1>2, <1>11, <2>3, Bodies, PutNode DEF u, C, x
<1>12. CASE k = "encoding_delta_block"
  <2> DEFINE C == Put("delta_fields", A)
             x == <<"delta_fields">> \o u
  <2>1. "delta_fields" \in Items /\ Leads(A, Follow("delta_fields"))
    BY <1>3, ItemsAre, FollowIs
  <2>2. C \in Left(x) /\ x \in Stacks
    BY <1>4, <1>c, <2>1
  <2> HIDE DEF C, x
  <2>3. Put("delta_kw", C) \in Left(<<"delta_kw">> \o x)
    BY <1>a, <1>b, <2>2
  <2> QED
    BY <1>1, <1>2, <1>12, <2>3, Bodies, PutNode DEF u, C, x
<1>13. CASE k = "document"
  <2> DEFINE B == Put("declarations", A)
             v == <<"declarations">> \o u
  <2>1. B \in Left(v) /\ v \in Stacks
    BY <1>1, <1>13, <1>4, <1>c, ItemsAre, FollowIs
  <2>2. Leads(B, {"struct_kw", "mapping_kw", "encoding_kw"} \cup {"eof"})
    <3>1. FirstOf("declarations") = {"struct_kw", "mapping_kw", "encoding_kw"}
      BY DEF FirstOf, Terminals, Symbols
    <3>2. Leads(A, {"eof"})
      BY <1>1, <1>13, FollowIs
    <3> QED
      BY <1>2, <3>1, <3>2, LeadsPut, ItemsAre
  <2> HIDE DEF B, v
  <2> DEFINE C == Put("namespace", B)
             x == <<"namespace">> \o v
  <2>3. Leads(B, Follow("namespace"))
    BY <2>2, FollowIs, LeadsMore DEF Symbols, Punctuation
  <2>4. C \in Left(x) /\ x \in Stacks
    BY <1>c, <2>1, <2>3, ItemsAre
  <2>5. Leads(C, {"namespace_kw"} \cup ({"struct_kw", "mapping_kw", "encoding_kw"} \cup {"eof"}))
    <3>1. FirstOf("namespace") = {"namespace_kw"}
      BY DEF FirstOf, Terminals, Symbols
    <3>2. B \in SUBSET Words
      BY <2>1, LeftWords
    <3> QED
      BY <2>2, <3>1, <3>2, LeadsPut, ItemsAre
  <2> HIDE DEF C, x
  <2>6. Leads(C, Follow("includes"))
    BY <2>5, FollowIs, LeadsMore DEF Symbols, Punctuation
  <2>7. Put("includes", C) \in Left(<<"includes">> \o x)
    BY <1>c, <2>4, <2>6, ItemsAre
  <2> QED
    BY <1>1, <1>2, <1>13, <2>7, Bodies, PutNode DEF u, B, v, C, x
<1> QED
  BY <1>5, <1>6, <1>7, <1>8, <1>9, <1>10, <1>11, <1>12, <1>13, ItemsAre

\* A call of parse_qualified_identifier or parse_type leaves what it left.
LEMMA LeftValue ==
  ASSUME NEW t \in Stacks, NEW k \in DOMAIN Value, NEW L \in Left(<<k>> \o t)
  PROVE  L \in Left(Value[k] \o t)
<1>0. k \in Items
  BY ItemsAre
<1>1. PICK A \in Left(t) : Leads(A, Follow(k)) /\ L = Put(k, A)
  BY <1>0, LeftInvert
<1>2. A \in SUBSET Words
  BY LeftWords
<1>3. CASE k = "qualified_identifier"
  <2> DEFINE B == Put("more_identifiers", A)
             v == <<"more_identifiers">> \o t
  <2>1. B \in Left(v) /\ v \in Stacks
    BY <1>1, <1>3, LeftCons, StackCons, ItemsAre, FollowIs
  <2> HIDE DEF B, v
  <2>2. Put("identifier", B) \in Left(<<"identifier">> \o v)
    BY <2>1, Lexemes, LeftTerminal
  <2> QED
    BY <1>1, <1>2, <1>3, <2>2, Bodies, PutNode DEF B, v
<1>4. CASE k = "type"
  <2> DEFINE B == Put("array", A)
             v == <<"array">> \o t
  <2>1. B \in Left(v) /\ v \in Stacks
    BY <1>1, <1>4, LeftCons, StackCons, ItemsAre, FollowIs
  <2>2. Leads(B, {"bracket_open"} \cup (Symbols \ Punctuation))
    <3>1. FirstOf("array") = {"bracket_open"}
      BY DEF FirstOf, Terminals, Symbols
    <3>2. Leads(A, Symbols \ Punctuation)
      BY <1>1, <1>4, FollowIs
    <3> QED
      BY <1>2, <3>1, <3>2, LeadsPut, ItemsAre
  <2> HIDE DEF B, v
  <2>3. Leads(B, Follow("qualified_identifier"))
    BY <2>2, FollowIs, LeadsMore DEF Symbols, Punctuation
  <2>4. Put("qualified_identifier", B) \in Left(<<"qualified_identifier">> \o v)
    BY <2>1, <2>3, LeftCons, ItemsAre
  <2> QED
    BY <1>1, <1>2, <1>4, <2>4, Bodies, PutNode DEF B, v
<1> QED
  BY <1>3, <1>4, ItemsAre

\* The words of W that begin with s.
Ahead(W, s) == {w \in W : First(w) = s}

\* What begins with s in either language.
LEMMA AheadUnion == ASSUME NEW V, NEW W, NEW s PROVE Ahead(V \cup W, s) = Ahead(V, s) \cup Ahead(W, s)
  BY DEF Ahead

\* Nothing begins with a symbol that does not lead.
LEMMA AheadNone == ASSUME NEW W, NEW F, NEW s, Leads(W, F), s \notin F PROVE Ahead(W, s) = {}
  BY DEF Ahead, Leads

\* What the branches and the loops put on the stack.
LEMMA BranchIs ==
  ASSUME NEW s \in Symbols
  PROVE  /\ Branch("includes", s) = IF s = "include_kw" THEN <<"include", "includes">> ELSE <<>>
         /\ Branch("namespace", s) =
              IF s = "namespace_kw" THEN <<"namespace_kw", "qualified_identifier">> ELSE <<>>
         /\ Branch("declarations", s) =
              IF s = "struct_kw" THEN <<"struct", "declarations">>
              ELSE IF s = "mapping_kw" THEN <<"mapping", "declarations">>
              ELSE IF s = "encoding_kw" THEN <<"encoding", "declarations">>
              ELSE IF s = "eof" THEN <<>> ELSE <<"unexpected">>
         /\ Branch("more_identifiers", s) =
              IF s = "namespace_sep" THEN <<"namespace_sep", "identifier", "more_identifiers">> ELSE <<>>
         /\ Branch("array", s) =
              IF s = "bracket_open" THEN <<"bracket_open", "integer", "bracket_close">> ELSE <<>>
         /\ Branch("encoding_id", s) = IF s = "colon" THEN <<"colon", "identifier">> ELSE <<>>
         /\ Branch("encoding_node", s) =
              IF s = "delta_kw" THEN <<"encoding_delta_block">>
              ELSE IF s = "identifier" THEN <<"encoding_field">> ELSE <<"unexpected">>
         /\ Branch("delta_fields", s) =
              IF s = "identifier" THEN <<"encoding_node">>
              ELSE IF s = "curly_open" THEN <<"curly_open", "encoding_nodes", "curly_close">> ELSE <<"unexpected">>
         /\ Branch("struct_fields", s) =
              IF s = "curly_close" THEN <<>> ELSE <<"struct_field", "struct_fields">>
         /\ Branch("mapping_fields", s) =
              IF s = "curly_close" THEN <<>> ELSE <<"mapping_field", "mapping_fields">>
         /\ Branch("encoding_nodes", s) =
              IF s = "curly_close" THEN <<>> ELSE <<"encoding_node", "encoding_nodes">>
<1>1. /\ Branch("includes", s) = Includes(s) /\ Branch("namespace", s) = Namespace(s)
      /\ Branch("declarations", s) = Declarations(s) /\ Branch("more_identifiers", s) = MoreIdentifiers(s)
      /\ Branch("array", s) = Array(s) /\ Branch("encoding_id", s) = EncodingId(s)
      /\ Branch("encoding_node", s) = EncodingNode(s) /\ Branch("delta_fields", s) = DeltaFields(s)
      /\ Branch("struct_fields", s) = Loop(s, "struct_field", "struct_fields")
      /\ Branch("mapping_fields", s) = Loop(s, "mapping_field", "mapping_fields")
      /\ Branch("encoding_nodes", s) = Loop(s, "encoding_node", "encoding_nodes")
  BY DEF Branch
<1>2. /\ Namespace(s) = IF s = "namespace_kw" THEN <<"namespace_kw", "qualified_identifier">> ELSE <<>>
      /\ MoreIdentifiers(s) =
           IF s = "namespace_sep" THEN <<"namespace_sep", "identifier", "more_identifiers">> ELSE <<>>
      /\ Array(s) = IF s = "bracket_open" THEN <<"bracket_open", "integer", "bracket_close">> ELSE <<>>
      /\ EncodingId(s) = IF s = "colon" THEN <<"colon", "identifier">> ELSE <<>>
  BY DEF Namespace, MoreIdentifiers, Array, EncodingId, Optional
<1>3. Declarations(s) = IF s = "struct_kw" THEN <<"struct", "declarations">>
              ELSE IF s = "mapping_kw" THEN <<"mapping", "declarations">>
              ELSE IF s = "encoding_kw" THEN <<"encoding", "declarations">>
              ELSE IF s = "eof" THEN <<>> ELSE <<"unexpected">>
  BY DEF Declarations
<1>4. /\ EncodingNode(s) = IF s = "delta_kw" THEN <<"encoding_delta_block">>
              ELSE IF s = "identifier" THEN <<"encoding_field">> ELSE <<"unexpected">>
      /\ DeltaFields(s) = IF s = "identifier" THEN <<"encoding_node">>
              ELSE IF s = "curly_open" THEN <<"curly_open", "encoding_nodes", "curly_close">> ELSE <<"unexpected">>
  BY DEF EncodingNode, DeltaFields
<1> QED
  BY <1>1, <1>2, <1>3, <1>4 DEF Includes, Loop

\* The lists of Branch, item by item.
LEMMA BranchRows ==
  ASSUME NEW t \in Stacks
  PROVE  /\ <<>> \o t = t
         /\ <<"include", "includes">> \o t = <<"include">> \o (<<"includes">> \o t)
         /\ <<"namespace_kw", "qualified_identifier">> \o t = <<"namespace_kw">> \o (<<"qualified_identifier">> \o t)
         /\ <<"struct", "declarations">> \o t = <<"struct">> \o (<<"declarations">> \o t)
         /\ <<"mapping", "declarations">> \o t = <<"mapping">> \o (<<"declarations">> \o t)
         /\ <<"encoding", "declarations">> \o t = <<"encoding">> \o (<<"declarations">> \o t)
         /\ <<"colon", "identifier">> \o t = <<"colon">> \o (<<"identifier">> \o t)
         /\ <<"struct_field", "struct_fields">> \o t = <<"struct_field">> \o (<<"struct_fields">> \o t)
         /\ <<"mapping_field", "mapping_fields">> \o t = <<"mapping_field">> \o (<<"mapping_fields">> \o t)
         /\ <<"encoding_node", "encoding_nodes">> \o t = <<"encoding_node">> \o (<<"encoding_nodes">> \o t)
         /\ <<"namespace_sep", "identifier", "more_identifiers">> \o t =
              <<"namespace_sep">> \o (<<"identifier">> \o (<<"more_identifiers">> \o t))
         /\ <<"bracket_open", "integer", "bracket_close">> \o t =
              <<"bracket_open">> \o (<<"integer">> \o (<<"bracket_close">> \o t))
         /\ <<"curly_open", "encoding_nodes", "curly_close">> \o t =
              <<"curly_open">> \o (<<"encoding_nodes">> \o (<<"curly_close">> \o t))
<1>1. <<>> \o t = t
  BY DEF Stacks
<1>2. /\ "namespace_kw" \in Items /\ "colon" \in Items /\ "identifier" \in Items /\ "integer" \in Items
      /\ "bracket_close" \in Items /\ "curly_close" \in Items
  BY Lexemes, ItemsAre
<1>3. /\ "include" \in Items /\ "includes" \in Items /\ "qualified_identifier" \in Items /\ "struct" \in Items
      /\ "mapping" \in Items /\ "encoding" \in Items /\ "declarations" \in Items
      /\ "struct_field" \in Items /\ "struct_fields" \in Items /\ "mapping_field" \in Items
      /\ "mapping_fields" \in Items /\ "encoding_node" \in Items /\ "encoding_nodes" \in Items
      /\ "more_identifiers" \in Items
  BY ItemsAre
<1>4. <<"include", "includes">> \o t = <<"include">> \o (<<"includes">> \o t)
  BY <1>3, Row2
<1>5. <<"namespace_kw", "qualified_identifier">> \o t = <<"namespace_kw">> \o (<<"qualified_identifier">> \o t)
  BY <1>2, <1>3, Row2
<1>6. <<"struct", "declarations">> \o t = <<"struct">> \o (<<"declarations">> \o t)
  BY <1>3, Row2
<1>7. <<"mapping", "declarations">> \o t = <<"mapping">> \o (<<"declarations">> \o t)
  BY <1>3, Row2
<1>8. <<"encoding", "declarations">> \o t = <<"encoding">> \o (<<"declarations">> \o t)
  BY <1>3, Row2
<1>9. <<"colon", "identifier">> \o t = <<"colon">> \o (<<"identifier">> \o t)
  BY <1>2, Row2
<1>10. <<"struct_field", "struct_fields">> \o t = <<"struct_field">> \o (<<"struct_fields">> \o t)
  BY <1>3, Row2
<1>11. <<"mapping_field", "mapping_fields">> \o t = <<"mapping_field">> \o (<<"mapping_fields">> \o t)
  BY <1>3, Row2
<1>12. <<"encoding_node", "encoding_nodes">> \o t = <<"encoding_node">> \o (<<"encoding_nodes">> \o t)
  BY <1>3, Row2
<1>13. <<"namespace_sep", "identifier", "more_identifiers">> \o t =
              <<"namespace_sep">> \o (<<"identifier">> \o (<<"more_identifiers">> \o t))
  <2>1. <<"namespace_sep", "identifier", "more_identifiers">> \o t =
          <<"namespace_sep">> \o (<<"identifier", "more_identifiers">> \o t)
    BY DEF Stacks
  <2>2. <<"identifier", "more_identifiers">> \o t = <<"identifier">> \o (<<"more_identifiers">> \o t)
    BY <1>2, <1>3, Row2
  <2> QED
    BY Zenon, <2>1, <2>2
<1>14. <<"bracket_open", "integer", "bracket_close">> \o t =
              <<"bracket_open">> \o (<<"integer">> \o (<<"bracket_close">> \o t))
  <2>1. <<"bracket_open", "integer", "bracket_close">> \o t =
          <<"bracket_open">> \o (<<"integer", "bracket_close">> \o t)
    BY DEF Stacks
  <2>2. <<"integer", "bracket_close">> \o t = <<"integer">> \o (<<"bracket_close">> \o t)
    BY <1>2, Row2
  <2> QED
    BY Zenon, <2>1, <2>2
<1>15. <<"curly_open", "encoding_nodes", "curly_close">> \o t =
              <<"curly_open">> \o (<<"encoding_nodes">> \o (<<"curly_close">> \o t))
  <2>1. <<"curly_open", "encoding_nodes", "curly_close">> \o t =
          <<"curly_open">> \o (<<"encoding_nodes", "curly_close">> \o t)
    BY DEF Stacks
  <2>2. <<"encoding_nodes", "curly_close">> \o t = <<"encoding_nodes">> \o (<<"curly_close">> \o t)
    BY <1>2, <1>3, Row2
  <2> QED
    BY Zenon, <2>1, <2>2
<1> QED
  BY <1>1, <1>4, <1>5, <1>6, <1>7, <1>8, <1>9, <1>10, <1>11, <1>12, <1>13, <1>14, <1>15

\* An item other than a symbol, in front of what may follow it.
LEMMA LeftItem ==
  ASSUME NEW t \in Stacks, NEW i \in Items, i # "unexpected", NEW A \in Left(t), NEW F, NEW G,
         Leads(A, F), F \subseteq Follow(i), FirstOf(i) = G
  PROVE  /\ <<i>> \o t \in Stacks
         /\ Put(i, A) \in Left(<<i>> \o t)
         /\ Leads(Put(i, A), G \cup F)
         /\ i \notin Nullable => Leads(Put(i, A), G)
<1>1. A \in SUBSET Words /\ Leads(A, Follow(i))
  BY LeftWords, LeadsMore
<1> QED
  BY <1>1, LeftCons, LeadsPut, StackCons

\* FirstOf by name.
LEMMA FirstsAre ==
  /\ \A i \in Terminals : FirstOf(i) = {i} /\ i \notin Nullable
  /\ FirstOf("include") = {"include_kw"} /\ FirstOf("includes") = {"include_kw"}
  /\ FirstOf("declarations") = {"struct_kw", "mapping_kw", "encoding_kw"}
  /\ FirstOf("struct") = {"struct_kw"} /\ FirstOf("mapping") = {"mapping_kw"}
  /\ FirstOf("encoding") = {"encoding_kw"} /\ FirstOf("encoding_delta_block") = {"delta_kw"}
  /\ FirstOf("struct_field") = {"identifier"} /\ FirstOf("struct_fields") = {"identifier"}
  /\ FirstOf("mapping_field") = {"identifier"} /\ FirstOf("mapping_fields") = {"identifier"}
  /\ FirstOf("encoding_field") = {"identifier"}
  /\ FirstOf("encoding_node") = {"identifier", "delta_kw"}
  /\ FirstOf("encoding_nodes") = {"identifier", "delta_kw"}
  /\ {"include", "struct", "mapping", "encoding", "encoding_delta_block", "struct_field", "mapping_field",
      "encoding_field", "encoding_node"} \cap Nullable = {}
<1>1. \A i \in Terminals : FirstOf(i) = {i} /\ i \notin Nullable
  BY DEF FirstOf, Terminals, Symbols, Nullable
<1> QED
  BY <1>1 DEF FirstOf, Terminals, Symbols, Nullable

\* A branch or a loop, with one symbol of lookahead: nothing that begins with
\* the symbol is lost, and nothing is won.
LEMMA LeftLook ==
  ASSUME NEW t \in Stacks, NEW i \in Branches, NEW s \in Symbols, NEW L \in Left(<<i>> \o t)
  PROVE  \/ Branch(i, s) = <<"unexpected">> /\ Ahead(L, s) = {}
         \/ \E M \in Left(Branch(i, s) \o t) : Ahead(M, s) = Ahead(L, s)
<1>0. i \in Items
  BY ItemsAre
<1>1. PICK A \in Left(t) : Leads(A, Follow(i)) /\ L = Put(i, A)
  BY <1>0, LeftInvert
<1>2. A \in SUBSET Words /\ <<>> \o t = t
  BY LeftWords, BranchRows
<1>3. ASSUME NEW X, L = A \cup X, s \notin Follow(i) PROVE Ahead(X, s) = Ahead(L, s)
  <2>1. Ahead(A, s) = {}
    BY <1>1, <1>3, AheadNone
  <2> QED
    BY <1>3, <2>1 DEF Ahead
<1>4. ASSUME NEW X, L = A \cup X, NEW F, Leads(X, F), s \notin F PROVE Ahead(A, s) = Ahead(L, s)
  <2>1. Ahead(X, s) = {}
    BY <1>4, AheadNone
  <2> QED
    BY <1>4, <2>1 DEF Ahead
<1>5. CASE i = "includes"
  <2> DEFINE B == Put("includes", A)
             u == <<"includes">> \o t
             X == Put("include", B)
  <2>1. L = A \cup X
    BY <1>1, <1>2, <1>5, PutBranch
  <2>2. "includes" \in Items /\ "includes" # "unexpected" /\ FirstOf("includes") = {"include_kw"}
    BY ItemsAre, FirstsAre
  <2>3. B \in Left(u) /\ u \in Stacks /\ Leads(B, {"include_kw"} \cup Follow("includes"))
    BY <1>1, <1>5, <2>2, LeftItem
  <2> HIDE DEF B, u
  <2>4. {"include_kw"} \cup Follow("includes") \subseteq Follow("include")
    BY FollowIs DEF Symbols, Punctuation
  <2>5. /\ "include" \in Items /\ "include" # "unexpected" /\ FirstOf("include") = {"include_kw"}
        /\ "include" \notin Nullable
    BY ItemsAre, FirstsAre
  <2>6. X \in Left(<<"include">> \o u) /\ Leads(X, {"include_kw"})
    BY <2>3, <2>4, <2>5, LeftItem
  <2> HIDE DEF X
  <2>11. Branch(i, s) = IF s = "include_kw" THEN <<"include", "includes">> ELSE <<>>
    BY <1>5, BranchIs
  <2>12. <<"include", "includes">> \o t = <<"include">> \o u
    BY BranchRows DEF u
  <2>13. CASE s = "include_kw"
    <3>1. X \in Left(Branch(i, s) \o t)
      BY Zenon, <2>11, <2>12, <2>13, <2>6
    <3>2. Ahead(X, s) = Ahead(L, s)
      BY <1>3, <1>5, <2>1, <2>13, FollowIs
    <3> QED
      BY <3>1, <3>2
  <2>14. CASE ~ (s = "include_kw")
    <3>1. A \in Left(Branch(i, s) \o t)
      BY <1>2, <2>11, <2>14
    <3>2. Ahead(A, s) = Ahead(L, s)
      BY <1>4, <2>1, <2>6, <2>14
    <3> QED
      BY <3>1, <3>2
  <2> QED
    BY <2>13, <2>14
<1>6. CASE i = "namespace"
  <2> DEFINE B == Put("qualified_identifier", A)
             u == <<"qualified_identifier">> \o t
             X == Put("namespace_kw", B)
  <2>1. L = A \cup X
    BY <1>1, <1>2, <1>6, PutBranch
  <2>2. Follow("namespace") \subseteq Follow("qualified_identifier")
    BY FollowIs DEF Symbols, Punctuation
  <2>3. "qualified_identifier" \in Items /\ "qualified_identifier" # "unexpected"
    BY ItemsAre
  <2>4. B \in Left(u) /\ u \in Stacks
    BY <1>1, <1>6, <2>2, <2>3, LeftItem
  <2> HIDE DEF B, u
  <2>5. X \in Left(<<"namespace_kw">> \o u) /\ Leads(X, {"namespace_kw"})
    BY <2>4, LeftTerminal, Lexemes
  <2> HIDE DEF X
  <2>11. Branch(i, s) = IF s = "namespace_kw" THEN <<"namespace_kw", "qualified_identifier">> ELSE <<>>
    BY <1>6, BranchIs
  <2>12. <<"namespace_kw", "qualified_identifier">> \o t = <<"namespace_kw">> \o u
    BY BranchRows DEF u
  <2>13. CASE s = "namespace_kw"
    <3>1. X \in Left(Branch(i, s) \o t)
      BY Zenon, <2>11, <2>12, <2>13, <2>5
    <3>2. Ahead(X, s) = Ahead(L, s)
      BY <1>3, <1>6, <2>1, <2>13, FollowIs
    <3> QED
      BY <3>1, <3>2
  <2>14. CASE ~ (s = "namespace_kw")
    <3>1. A \in Left(Branch(i, s) \o t)
      BY <1>2, <2>11, <2>14
    <3>2. Ahead(A, s) = Ahead(L, s)
      BY <1>4, <2>1, <2>5, <2>14
    <3> QED
      BY <3>1, <3>2
  <2> QED
    BY <2>13, <2>14
<1>7. CASE i = "more_identifiers"
  <2> DEFINE B == Put("more_identifiers", A)
             u == <<"more_identifiers">> \o t
             C == Put("identifier", B)
             v == <<"identifier">> \o u
             X == Put("namespace_sep", C)
  <2>1. L = A \cup X
    BY <1>1, <1>2, <1>7, PutBranch
  <2>2. "more_identifiers" \in Items /\ "more_identifiers" # "unexpected"
    BY ItemsAre
  <2>3. B \in Left(u) /\ u \in Stacks
    BY <1>1, <1>7, <2>2, LeftItem
  <2> HIDE DEF B, u
  <2>4. C \in Left(v) /\ v \in Stacks
    BY <2>3, LeftTerminal, Lexemes, StackCons, ItemsAre
  <2> HIDE DEF C, v
  <2>5. X \in Left(<<"namespace_sep">> \o v) /\ Leads(X, {"namespace_sep"})
    BY <2>4, LeftTerminal, Lexemes
  <2> HIDE DEF X
  <2>11. Branch(i, s) = IF s = "namespace_sep" THEN <<"namespace_sep", "identifier", "more_identifiers">> ELSE <<>>
    BY <1>7, BranchIs
  <2>12. <<"namespace_sep", "identifier", "more_identifiers">> \o t = <<"namespace_sep">> \o v
    BY BranchRows DEF u, v
  <2>13. CASE s = "namespace_sep"
    <3>1. X \in Left(Branch(i, s) \o t)
      BY Zenon, <2>11, <2>12, <2>13, <2>5
    <3>2. Ahead(X, s) = Ahead(L, s)
      BY <1>3, <1>7, <2>1, <2>13, FollowIs
    <3> QED
      BY <3>1, <3>2
  <2>14. CASE ~ (s = "namespace_sep")
    <3>1. A \in Left(Branch(i, s) \o t)
      BY <1>2, <2>11, <2>14
    <3>2. Ahead(A, s) = Ahead(L, s)
      BY <1>4, <2>1, <2>5, <2>14
    <3> QED
      BY <3>1, <3>2
  <2> QED
    BY <2>13, <2>14
<1>8. CASE i = "array"
  <2> DEFINE B == Put("bracket_close", A)
             u == <<"bracket_close">> \o t
             C == Put("integer", B)
             v == <<"integer">> \o u
             X == Put("bracket_open", C)
  <2>1. L = A \cup X
    BY <1>1, <1>2, <1>8, PutBranch
  <2>2. B \in Left(u) /\ u \in Stacks
    BY LeftTerminal, Lexemes, StackCons, ItemsAre
  <2> HIDE DEF B, u
  <2>3. C \in Left(v) /\ v \in Stacks
    BY <2>2, LeftTerminal, Lexemes, StackCons, ItemsAre
  <2> HIDE DEF C, v
  <2>5. X \in Left(<<"bracket_open">> \o v) /\ Leads(X, {"bracket_open"})
    BY <2>3, LeftTerminal, Lexemes
  <2> HIDE DEF X
  <2>11. Branch(i, s) = IF s = "bracket_open" THEN <<"bracket_open", "integer", "bracket_close">> ELSE <<>>
    BY <1>8, BranchIs
  <2>12. <<"bracket_open", "integer", "bracket_close">> \o t = <<"bracket_open">> \o v
    BY BranchRows DEF u, v
  <2>13. CASE s = "bracket_open"
    <3>1. X \in Left(Branch(i, s) \o t)
      BY Zenon, <2>11, <2>12, <2>13, <2>5
    <3>2. Ahead(X, s) = Ahead(L, s)
      BY <1>3, <1>8, <2>1, <2>13, FollowIs DEF Punctuation
    <3> QED
      BY <3>1, <3>2
  <2>14. CASE ~ (s = "bracket_open")
    <3>1. A \in Left(Branch(i, s) \o t)
      BY <1>2, <2>11, <2>14
    <3>2. Ahead(A, s) = Ahead(L, s)
      BY <1>4, <2>1, <2>5, <2>14
    <3> QED
      BY <3>1, <3>2
  <2> QED
    BY <2>13, <2>14
<1>9. CASE i = "encoding_id"
  <2> DEFINE C == Put("identifier", A)
             v == <<"identifier">> \o t
             X == Put("colon", C)
  <2>1. L = A \cup X
    BY <1>1, <1>2, <1>9, PutBranch
  <2>2. C \in Left(v) /\ v \in Stacks
    BY LeftTerminal, Lexemes, StackCons, ItemsAre
  <2> HIDE DEF C, v
  <2>5. X \in Left(<<"colon">> \o v) /\ Leads(X, {"colon"})
    BY <2>2, LeftTerminal, Lexemes
  <2> HIDE DEF X
  <2>11. Branch(i, s) = IF s = "colon" THEN <<"colon", "identifier">> ELSE <<>>
    BY <1>9, BranchIs
  <2>12. <<"colon", "identifier">> \o t = <<"colon">> \o v
    BY BranchRows DEF v
  <2>13. CASE s = "colon"
    <3>1. X \in Left(Branch(i, s) \o t)
      BY Zenon, <2>11, <2>12, <2>13, <2>5
    <3>2. Ahead(X, s) = Ahead(L, s)
      BY <1>3, <1>9, <2>1, <2>13, FollowIs DEF Punctuation
    <3> QED
      BY <3>1, <3>2
  <2>14. CASE ~ (s = "colon")
    <3>1. A \in Left(Branch(i, s) \o t)
      BY <1>2, <2>11, <2>14
    <3>2. Ahead(A, s) = Ahead(L, s)
      BY <1>4, <2>1, <2>5, <2>14
    <3> QED
      BY <3>1, <3>2
  <2> QED
    BY <2>13, <2>14
<1>10. CASE i = "struct_fields"
  <2> DEFINE B == Put("struct_fields", A)
             u == <<"struct_fields">> \o t
             X == Put("struct_field", B)
  <2>1. L = A \cup X
    BY <1>1, <1>2, <1>10, PutBranch
  <2>2. "struct_fields" \in Items /\ "struct_fields" # "unexpected" /\ FirstOf("struct_fields") = {"identifier"}
    BY ItemsAre, FirstsAre
  <2>3. B \in Left(u) /\ u \in Stacks /\ Leads(B, {"identifier"} \cup Follow("struct_fields"))
    BY <1>1, <1>10, <2>2, LeftItem
  <2> HIDE DEF B, u
  <2>4. {"identifier"} \cup Follow("struct_fields") \subseteq Follow("struct_field")
    BY FollowIs DEF Symbols, Punctuation
  <2>5. /\ "struct_field" \in Items /\ "struct_field" # "unexpected" /\ FirstOf("struct_field") = {"identifier"}
        /\ "struct_field" \notin Nullable
    BY ItemsAre, FirstsAre
  <2>6. X \in Left(<<"struct_field">> \o u) /\ Leads(X, {"identifier"})
    BY <2>3, <2>4, <2>5, LeftItem
  <2> HIDE DEF X
  <2>11. Branch(i, s) = IF s = "curly_close" THEN <<>> ELSE <<"struct_field", "struct_fields">>
    BY <1>10, BranchIs
  <2>12. <<"struct_field", "struct_fields">> \o t = <<"struct_field">> \o u
    BY BranchRows DEF u
  <2>13. CASE s # "curly_close"
    <3>1. X \in Left(Branch(i, s) \o t)
      BY Zenon, <2>11, <2>12, <2>13, <2>6
    <3>2. Ahead(X, s) = Ahead(L, s)
      BY <1>3, <1>10, <2>1, <2>13, FollowIs
    <3> QED
      BY <3>1, <3>2
  <2>14. CASE ~ (s # "curly_close")
    <3>1. A \in Left(Branch(i, s) \o t)
      BY <1>2, <2>11, <2>14
    <3>2. Ahead(A, s) = Ahead(L, s)
      BY <1>4, <2>1, <2>6, <2>14
    <3> QED
      BY <3>1, <3>2
  <2> QED
    BY <2>13, <2>14
<1>11. CASE i = "mapping_fields"
  <2> DEFINE B == Put("mapping_fields", A)
             u == <<"mapping_fields">> \o t
             X == Put("mapping_field", B)
  <2>1. L = A \cup X
    BY <1>1, <1>2, <1>11, PutBranch
  <2>2. "mapping_fields" \in Items /\ "mapping_fields" # "unexpected" /\ FirstOf("mapping_fields") = {"identifier"}
    BY ItemsAre, FirstsAre
  <2>3. B \in Left(u) /\ u \in Stacks /\ Leads(B, {"identifier"} \cup Follow("mapping_fields"))
    BY <1>1, <1>11, <2>2, LeftItem
  <2> HIDE DEF B, u
  <2>4. {"identifier"} \cup Follow("mapping_fields") \subseteq Follow("mapping_field")
    BY FollowIs DEF Symbols, Punctuation
  <2>5. /\ "mapping_field" \in Items /\ "mapping_field" # "unexpected" /\ FirstOf("mapping_field") = {"identifier"}
        /\ "mapping_field" \notin Nullable
    BY ItemsAre, FirstsAre
  <2>6. X \in Left(<<"mapping_field">> \o u) /\ Leads(X, {"identifier"})
    BY <2>3, <2>4, <2>5, LeftItem
  <2> HIDE DEF X
  <2>11. Branch(i, s) = IF s = "curly_close" THEN <<>> ELSE <<"mapping_field", "mapping_fields">>
    BY <1>11, BranchIs
  <2>12. <<"mapping_field", "mapping_fields">> \o t = <<"mapping_field">> \o u
    BY BranchRows DEF u
  <2>13. CASE s # "curly_close"
    <3>1. X \in Left(Branch(i, s) \o t)
      BY Zenon, <2>11, <2>12, <2>13, <2>6
    <3>2. Ahead(X, s) = Ahead(L, s)
      BY <1>3, <1>11, <2>1, <2>13, FollowIs
    <3> QED
      BY <3>1, <3>2
  <2>14. CASE ~ (s # "curly_close")
    <3>1. A \in Left(Branch(i, s) \o t)
      BY <1>2, <2>11, <2>14
    <3>2. Ahead(A, s) = Ahead(L, s)
      BY <1>4, <2>1, <2>6, <2>14
    <3> QED
      BY <3>1, <3>2
  <2> QED
    BY <2>13, <2>14
<1>12. CASE i = "encoding_nodes"
  <2> DEFINE B == Put("encoding_nodes", A)
             u == <<"encoding_nodes">> \o t
             X == Put("encoding_node", B)
  <2>1. L = A \cup X
    BY <1>1, <1>2, <1>12, PutBranch
  <2>2. "encoding_nodes" \in Items /\ "encoding_nodes" # "unexpected" /\ FirstOf("encoding_nodes") = {"identifier", "delta_kw"}
    BY ItemsAre, FirstsAre
  <2>3. B \in Left(u) /\ u \in Stacks /\ Leads(B, {"identifier", "delta_kw"} \cup Follow("encoding_nodes"))
    BY <1>1, <1>12, <2>2, LeftItem
  <2> HIDE DEF B, u
  <2>4. {"identifier", "delta_kw"} \cup Follow("encoding_nodes") \subseteq Follow("encoding_node")
    BY FollowIs DEF Symbols, Punctuation
  <2>5. /\ "encoding_node" \in Items /\ "encoding_node" # "unexpected" /\ FirstOf("encoding_node") = {"identifier", "delta_kw"}
        /\ "encoding_node" \notin Nullable
    BY ItemsAre, FirstsAre
  <2>6. X \in Left(<<"encoding_node">> \o u) /\ Leads(X, {"identifier", "delta_kw"})
    BY <2>3, <2>4, <2>5, LeftItem
  <2> HIDE DEF X
  <2>11. Branch(i, s) = IF s = "curly_close" THEN <<>> ELSE <<"encoding_node", "encoding_nodes">>
    BY <1>12, BranchIs
  <2>12. <<"encoding_node", "encoding_nodes">> \o t = <<"encoding_node">> \o u
    BY BranchRows DEF u
  <2>13. CASE s # "curly_close"
    <3>1. X \in Left(Branch(i, s) \o t)
      BY Zenon, <2>11, <2>12, <2>13, <2>6
    <3>2. Ahead(X, s) = Ahead(L, s)
      BY <1>3, <1>12, <2>1, <2>13, FollowIs
    <3> QED
      BY <3>1, <3>2
  <2>14. CASE ~ (s # "curly_close")
    <3>1. A \in Left(Branch(i, s) \o t)
      BY <1>2, <2>11, <2>14
    <3>2. Ahead(A, s) = Ahead(L, s)
      BY <1>4, <2>1, <2>6, <2>14
    <3> QED
      BY <3>1, <3>2
  <2> QED
    BY <2>13, <2>14
<1>13. CASE i = "declarations"
  <2> DEFINE B == Put("declarations", A)
             u == <<"declarations">> \o t
             X == Put("struct", B)
             Y == Put("mapping", B)
             Z == Put("encoding", B)
             F == {"struct_kw", "mapping_kw", "encoding_kw"} \cup {"eof"}
  <2>1. L = A \cup X \cup Y \cup Z
    BY <1>1, <1>2, <1>13, PutBranch
  <2>2. /\ "declarations" \in Items /\ "declarations" # "unexpected"
        /\ FirstOf("declarations") = {"struct_kw", "mapping_kw", "encoding_kw"}
    BY ItemsAre, FirstsAre
  <2>a. Leads(A, {"eof"}) /\ {"eof"} \subseteq Follow("declarations")
    BY <1>1, <1>13, FollowIs
  <2>3. B \in Left(u) /\ u \in Stacks /\ Leads(B, F)
    BY <2>2, <2>a, LeftItem
  <2> HIDE DEF B, u
  <2>4. F \subseteq Follow("struct") /\ F \subseteq Follow("mapping") /\ F \subseteq Follow("encoding")
    BY FollowIs DEF Symbols, Punctuation
  <2> HIDE DEF F
  <2>5. /\ "struct" \in Items /\ "struct" # "unexpected" /\ FirstOf("struct") = {"struct_kw"}
        /\ "mapping" \in Items /\ "mapping" # "unexpected" /\ FirstOf("mapping") = {"mapping_kw"}
        /\ "encoding" \in Items /\ "encoding" # "unexpected" /\ FirstOf("encoding") = {"encoding_kw"}
        /\ "struct" \notin Nullable /\ "mapping" \notin Nullable /\ "encoding" \notin Nullable
    BY ItemsAre, FirstsAre
  <2>6. X \in Left(<<"struct">> \o u) /\ Leads(X, {"struct_kw"})
    BY <2>3, <2>4, <2>5, LeftItem
  <2>7. Y \in Left(<<"mapping">> \o u) /\ Leads(Y, {"mapping_kw"})
    BY <2>3, <2>4, <2>5, LeftItem
  <2>8. Z \in Left(<<"encoding">> \o u) /\ Leads(Z, {"encoding_kw"})
    BY <2>3, <2>4, <2>5, LeftItem
  <2> HIDE DEF X, Y, Z
  <2>9. Ahead(L, s) = Ahead(A, s) \cup Ahead(X, s) \cup Ahead(Y, s) \cup Ahead(Z, s)
    BY <2>1 DEF Ahead
  <2>10. /\ s # "eof" => Ahead(A, s) = {}
         /\ s # "struct_kw" => Ahead(X, s) = {}
         /\ s # "mapping_kw" => Ahead(Y, s) = {}
         /\ s # "encoding_kw" => Ahead(Z, s) = {}
    BY <2>6, <2>7, <2>8, <2>a, AheadNone
  <2>11. Branch(i, s) = IF s = "struct_kw" THEN <<"struct", "declarations">>
              ELSE IF s = "mapping_kw" THEN <<"mapping", "declarations">>
              ELSE IF s = "encoding_kw" THEN <<"encoding", "declarations">>
              ELSE IF s = "eof" THEN <<>> ELSE <<"unexpected">>
    BY <1>13, BranchIs
  <2>12. /\ <<"struct", "declarations">> \o t = <<"struct">> \o u
         /\ <<"mapping", "declarations">> \o t = <<"mapping">> \o u
         /\ <<"encoding", "declarations">> \o t = <<"encoding">> \o u
    BY BranchRows DEF u
  <2>13. CASE s = "struct_kw"
    <3>1. X \in Left(Branch(i, s) \o t)
      BY <2>6, <2>11, <2>12, <2>13
    <3>2. Ahead(X, s) = Ahead(L, s)
      BY <2>9, <2>10, <2>13
    <3> QED
      BY <3>1, <3>2
  <2>14. CASE s = "mapping_kw"
    <3>1. Y \in Left(Branch(i, s) \o t)
      BY <2>7, <2>11, <2>12, <2>14
    <3>2. Ahead(Y, s) = Ahead(L, s)
      BY <2>9, <2>10, <2>14
    <3> QED
      BY <3>1, <3>2
  <2>15. CASE s = "encoding_kw"
    <3>1. Z \in Left(Branch(i, s) \o t)
      BY <2>8, <2>11, <2>12, <2>15
    <3>2. Ahead(Z, s) = Ahead(L, s)
      BY <2>9, <2>10, <2>15
    <3> QED
      BY <3>1, <3>2
  <2>16. CASE s = "eof"
    <3>1. A \in Left(Branch(i, s) \o t)
      BY <1>2, <2>11, <2>16
    <3>2. Ahead(A, s) = Ahead(L, s)
      BY <2>9, <2>10, <2>16
    <3> QED
      BY <3>1, <3>2
  <2>17. CASE s \notin {"struct_kw", "mapping_kw", "encoding_kw", "eof"}
    BY <2>9, <2>10, <2>11, <2>17
  <2> QED
    BY <2>13, <2>14, <2>15, <2>16, <2>17
<1>14. CASE i \in {"encoding_node", "delta_fields"}
  <2> DEFINE X == Put("encoding_field", A)
             Y == Put("encoding_delta_block", A)
             N == Put("encoding_node", A)
             B == Put("curly_close", A)
             u == <<"curly_close">> \o t
             C == Put("encoding_nodes", B)
             v == <<"encoding_nodes">> \o u
             Z == Put("curly_open", C)
  <2>1. N = X \cup Y /\ L = IF i = "encoding_node" THEN N ELSE X \cup Z
    BY <1>1, <1>2, <1>14, PutBranch
  <2>2. Leads(A, Symbols \ Punctuation)
    <3>1. Follow(i) = Symbols \ Punctuation
      BY <1>14, FollowIs
    <3> QED
      BY <1>1, <3>1
  <2>3. /\ "encoding_field" \in Items /\ "encoding_field" # "unexpected" /\ FirstOf("encoding_field") = {"identifier"}
        /\ "encoding_delta_block" \in Items /\ "encoding_delta_block" # "unexpected"
        /\ FirstOf("encoding_delta_block") = {"delta_kw"}
        /\ "encoding_node" \in Items /\ "encoding_node" # "unexpected"
        /\ "encoding_field" \notin Nullable /\ "encoding_delta_block" \notin Nullable
    BY ItemsAre, FirstsAre
  <2>4. /\ Follow("encoding_field") = Symbols \ Punctuation
        /\ Follow("encoding_delta_block") = Symbols \ Punctuation
        /\ Follow("encoding_node") = Symbols \ Punctuation
    BY FollowIs
  <2>5. X \in Left(<<"encoding_field">> \o t) /\ Leads(X, {"identifier"})
    BY <2>2, <2>3, <2>4, LeftItem
  <2>6. Y \in Left(<<"encoding_delta_block">> \o t) /\ Leads(Y, {"delta_kw"})
    BY <2>2, <2>3, <2>4, LeftItem
  <2>7. N \in Left(<<"encoding_node">> \o t)
    BY <2>2, <2>3, <2>4, LeftItem
  <2>8. B \in Left(u) /\ u \in Stacks /\ Leads(B, {"curly_close"})
    BY LeftTerminal, Lexemes, StackCons, ItemsAre
  <2> HIDE DEF X, Y, N, B, u
  <2>9. "encoding_nodes" \in Items /\ "encoding_nodes" # "unexpected" /\ {"curly_close"} \subseteq Follow("encoding_nodes")
    BY ItemsAre, FollowIs
  <2>10. C \in Left(v) /\ v \in Stacks
    BY <2>8, <2>9, LeftItem
  <2> HIDE DEF C, v
  <2>11. Z \in Left(<<"curly_open">> \o v) /\ Leads(Z, {"curly_open"})
    BY <2>10, LeftTerminal, Lexemes
  <2> HIDE DEF Z
  <2>12. /\ s # "identifier" => Ahead(X, s) = {}
         /\ s # "delta_kw" => Ahead(Y, s) = {}
         /\ s # "curly_open" => Ahead(Z, s) = {}
    BY <2>5, <2>6, <2>11, AheadNone
  <2>13. Ahead(N, s) = Ahead(X, s) \cup Ahead(Y, s) /\ Ahead(X \cup Z, s) = Ahead(X, s) \cup Ahead(Z, s)
    BY <2>1, AheadUnion
  <2>14. CASE i = "encoding_node"
    <3>1. Branch(i, s) = IF s = "delta_kw" THEN <<"encoding_delta_block">>
              ELSE IF s = "identifier" THEN <<"encoding_field">> ELSE <<"unexpected">>
      BY <2>14, BranchIs
    <3>2. CASE s = "delta_kw"
      <4>1. Y \in Left(Branch(i, s) \o t) /\ Ahead(Y, s) = Ahead(L, s)
        BY <2>1, <2>6, <2>12, <2>13, <2>14, <3>1, <3>2
      <4> QED
        BY <4>1
    <3>3. CASE s = "identifier"
      <4>1. X \in Left(Branch(i, s) \o t) /\ Ahead(X, s) = Ahead(L, s)
        BY <2>1, <2>5, <2>12, <2>13, <2>14, <3>1, <3>3
      <4> QED
        BY <4>1
    <3>4. CASE s \notin {"delta_kw", "identifier"}
      BY <2>1, <2>12, <2>13, <2>14, <3>1, <3>4
    <3> QED
      BY <3>2, <3>3, <3>4
  <2>15. CASE i = "delta_fields"
    <3>1. Branch(i, s) = IF s = "identifier" THEN <<"encoding_node">>
              ELSE IF s = "curly_open" THEN <<"curly_open", "encoding_nodes", "curly_close">> ELSE <<"unexpected">>
      BY <2>15, BranchIs
    <3>2. CASE s = "identifier"
      <4>1. N \in Left(Branch(i, s) \o t) /\ Ahead(N, s) = Ahead(L, s)
        BY <2>1, <2>7, <2>12, <2>13, <2>15, <3>1, <3>2
      <4> QED
        BY <4>1
    <3>3. CASE s = "curly_open"
      <4>1. <<"curly_open", "encoding_nodes", "curly_close">> \o t = <<"curly_open">> \o v
        BY BranchRows DEF u, v
      <4>2. Z \in Left(Branch(i, s) \o t)
        BY Zenon, <2>11, <3>1, <3>3, <4>1
      <4>3. Ahead(Z, s) = Ahead(L, s)
        BY <2>1, <2>12, <2>13, <2>15, <3>3
      <4> QED
        BY <4>2, <4>3
    <3>4. CASE s \notin {"curly_open", "identifier"}
      BY <2>1, <2>12, <2>13, <2>15, <3>1, <3>4
    <3> QED
      BY <3>2, <3>3, <3>4
  <2> QED
    BY <1>14, <2>14, <2>15
<1> QED
  BY <1>5, <1>6, <1>7, <1>8, <1>9, <1>10, <1>11, <1>12, <1>13, <1>14 DEF Branches

--------------------------------------------------------------------------------
(* The origins of the nodes. *)

Calls ==
  {"include", "struct", "struct_field", "mapping", "mapping_field", "encoding",
   "encoding_field", "encoding_delta_block"}

\* The items of the lists that are no calls.
Plain ==
  {"array", "bracket_close", "bracket_open", "colon", "curly_close",
   "curly_open", "declarations", "delta_fields", "delta_kw",
   "encoding_id", "encoding_kw", "encoding_node", "encoding_nodes",
   "identifier", "include_kw", "includes", "integer", "mapping_fields",
   "mapping_kw", "more_identifiers", "namespace", "namespace_kw",
   "namespace_sep", "qualified_identifier", "return", "string",
   "struct_fields", "struct_kw", "type", "unexpected"}

Listed == Plain \cup Calls \cup {"document"}

\* A list of things to do that calls a node's function at the front only.
Led(s) == s \in Seq(Listed) /\ (s # <<>> => Tail(s) \in Seq(Plain))

TodoInv == Led(todo) /\ (todo # <<>> /\ todo[1] \in Calls => next_symbol # "invalid")

Exact == {n \in [kind : Listed, before : Nat, skipped : BOOLEAN] :
            n.kind # "document" => n.skipped}

OriginInv ==
  /\ TodoInv /\ next_symbol \in Symbols \cup {"invalid"}
  /\ consumed \in Seq(Symbols) /\ open \in Seq(Exact)

\* Calls are the functions of Node, but for the root's.
LEMMA NodeNames == DOMAIN Node = Calls \cup {"document"}
BY DEF Node, Calls

\* An item is a call or not.
LEMMA WordsAreNoCalls == Plain \cap (Calls \cup {"document"}) = {}
<1> SUFFICES ASSUME NEW w \in Plain PROVE w \notin Calls /\ w # "document"
  OBVIOUS
<1> QED
  BY SMTT(60) DEF Plain, Calls

\* The functions do not call a node's function directly.
LEMMA BodiesPlain ==
  /\ \A f \in DOMAIN Node : Node[f] \in Seq(Plain)
  /\ \A f \in DOMAIN Value : Value[f] \in Seq(Plain)
<1>1. /\ ParseInclude \in Seq(Plain)
      /\ ParseStruct \in Seq(Plain)
      /\ ParseStructField \in Seq(Plain)
  BY DEF ParseInclude, ParseStruct, ParseStructField, Plain
<1>2. ParseMapping \in Seq(Plain) /\ ParseMappingField \in Seq(Plain)
  BY DEF ParseMapping, ParseMappingField, Plain
<1>3. ParseEncodingField \in Seq(Plain) /\ ParseEncodingDeltaBlock \in Seq(Plain)
  BY DEF ParseEncodingField, ParseEncodingDeltaBlock, Plain
<1>4. ParseEncoding \in Seq(Plain) /\ ParseDocument \in Seq(Plain)
  BY DEF ParseEncoding, ParseDocument, Plain
<1>5. ParseQualifiedIdentifier \in Seq(Plain) /\ ParseType \in Seq(Plain)
  BY DEF ParseQualifiedIdentifier, ParseType, Plain
<1>6. \A f \in DOMAIN Node : Node[f] \in Seq(Plain)
  BY <1>1, <1>2, <1>3, <1>4 DEF Node
<1>7. \A f \in DOMAIN Value : Value[f] \in Seq(Plain)
  BY <1>5 DEF Value
<1> QED
  BY <1>6, <1>7

\* Short lists.
LEMMA LedTuples ==
  /\ Led(<<>>)
  /\ \A a \in Listed : Led(<<a>>)
  /\ \A a \in Listed, b \in Plain : Led(<<a, b>>)
  /\ \A a \in Listed, b, c \in Plain : Led(<<a, b, c>>)
<1>0. \A b \in Plain : b \in Listed
  BY DEF Listed
<1>1. Led(<<>>)
  BY DEF Led
<1>2. ASSUME NEW a \in Listed PROVE Led(<<a>>)
  BY DEF Led
<1>3. ASSUME NEW a \in Listed, NEW b \in Plain PROVE Led(<<a, b>>)
  <2>1. Tail(<<a, b>>) = <<b>> /\ <<b>> \in Seq(Plain) /\ <<a, b>> \in Seq(Listed)
    BY <1>0
  <2> QED
    BY <2>1 DEF Led
<1>4. ASSUME NEW a \in Listed, NEW b \in Plain, NEW c \in Plain PROVE Led(<<a, b, c>>)
  <2>1. Tail(<<a, b, c>>) = <<b, c>> /\ <<b, c>> \in Seq(Plain) /\ <<a, b, c>> \in Seq(Listed)
    BY <1>0
  <2> QED
    BY <2>1 DEF Led
<1> QED
  BY <1>1, <1>2, <1>3, <1>4, Zenon

\* A branch leads to a call of a node's function at the front only.
LEMMA BranchesLed == \A item \in Branches, s \in Symbols : Led(Branch(item, s))
<1> SUFFICES ASSUME NEW item \in Branches, NEW s \in Symbols PROVE Led(Branch(item, s))
  OBVIOUS
<1>0. /\ \A a \in Plain : a \in Listed
      /\ \A a \in Calls : a \in Listed
  BY DEF Listed
<1>1. Led(Includes(s)) /\ Led(Declarations(s))
  <2>1. Led(<<>>) /\ Led(<<"include", "includes">>) /\ Led(<<"unexpected">>)
    BY <1>0, LedTuples, Zenon DEF Plain, Calls
  <2>2. /\ Led(<<"struct", "declarations">>) /\ Led(<<"mapping", "declarations">>)
        /\ Led(<<"encoding", "declarations">>)
    BY <1>0, LedTuples, Zenon DEF Plain, Calls
  <2> QED
    BY <2>1, <2>2, Zenon DEF Includes, Declarations
<1>2. Led(Namespace(s)) /\ Led(MoreIdentifiers(s)) /\ Led(Array(s)) /\ Led(EncodingId(s))
  <2>1. Led(<<"namespace_kw", "qualified_identifier">>) /\ Led(<<"colon", "identifier">>)
    BY <1>0, LedTuples, Zenon DEF Plain
  <2>2. /\ Led(<<"namespace_sep", "identifier", "more_identifiers">>)
        /\ Led(<<"bracket_open", "integer", "bracket_close">>) /\ Led(<<>>)
    BY <1>0, LedTuples, Zenon DEF Plain
  <2> QED
    BY <2>1, <2>2, Zenon DEF Namespace, MoreIdentifiers, Array, EncodingId, Optional
<1>3. Led(EncodingNode(s)) /\ Led(DeltaFields(s))
  <2>1. /\ Led(<<"encoding_delta_block">>) /\ Led(<<"encoding_field">>)
        /\ Led(<<"encoding_node">>) /\ Led(<<"unexpected">>)
    BY <1>0, LedTuples, Zenon DEF Plain, Calls
  <2>2. Led(<<"curly_open", "encoding_nodes", "curly_close">>)
    BY <1>0, LedTuples, Zenon DEF Plain
  <2> QED
    BY <2>1, <2>2, Zenon DEF EncodingNode, DeltaFields
<1>4. /\ Led(Loop(s, "struct_field", "struct_fields"))
      /\ Led(Loop(s, "mapping_field", "mapping_fields"))
      /\ Led(Loop(s, "encoding_node", "encoding_nodes"))
  <2>1. /\ Led(<<>>) /\ Led(<<"struct_field", "struct_fields">>)
        /\ Led(<<"mapping_field", "mapping_fields">>)
        /\ Led(<<"encoding_node", "encoding_nodes">>)
    BY <1>0, LedTuples, Zenon DEF Plain, Calls
  <2> QED
    BY <2>1, Zenon DEF Loop
<1> QED
  BY <1>1, <1>2, <1>3, <1>4 DEF Branch, Branches

\* What is put in front of the rest of a list.
LEMMA Pushing ==
  ASSUME NEW s, NEW t, Led(t), t # <<>>
  PROVE  /\ Tail(t) \in Seq(Plain)
         /\ s \in Seq(Plain) => s \o Tail(t) \in Seq(Plain)
         /\ Led(s) => Led(s \o Tail(t))
<1> DEFINE u == Tail(t)
<1>1. u \in Seq(Plain) /\ u \in Seq(Listed)
  BY DEF Led
<1> HIDE DEF u
<1>2. s \in Seq(Plain) => s \o u \in Seq(Plain)
  BY <1>1
<1>3. ASSUME Led(s), s # <<>> PROVE Led(s \o u)
  <2>1. s \o u \in Seq(Listed)
    BY <1>1, <1>3 DEF Led
  <2>2. Tail(s \o u) = Tail(s) \o u
    BY <1>1, <1>3 DEF Led
  <2>3. Tail(s) \o u \in Seq(Plain)
    BY <1>1, <1>3 DEF Led
  <2> QED
    BY <2>1, <2>2, <2>3 DEF Led
<1>4. ASSUME s = <<>> PROVE Led(s \o u)
  <2>1. s \o u = u
    BY <1>1, <1>4
  <2>2. u # <<>> => Tail(u) \in Seq(Plain)
    BY <1>1
  <2> QED
    BY <1>1, <2>1, <2>2 DEF Led
<1> QED
  BY <1>1, <1>2, <1>3, <1>4 DEF u

\* A list without a call at all needs no cached symbol.
LEMMA PlainIsLed ==
  ASSUME NEW t \in Seq(Plain)
  PROVE  Led(t) /\ (t # <<>> => t[1] \notin Calls)
<1>1. t \in Seq(Listed) /\ (t # <<>> => Tail(t) \in Seq(Plain) /\ t[1] \in Plain)
  BY DEF Listed
<1> QED
  BY <1>1, WordsAreNoCalls DEF Led

\* What is peeked is a symbol.
LEMMA PeekedSymbols ==
  ASSUME OriginInv
  PROVE  Peeked \subseteq Symbols
BY DEF OriginInv, Peeked, Symbols

\* At first nothing is called.
LEMMA InitOrigins == ParserInit => OriginInv
<1> SUFFICES ASSUME ParserInit PROVE OriginInv
  OBVIOUS
<1>1. "document" \in Listed /\ "document" \notin Calls
  BY DEF Listed, Calls
<1>2. Led(todo)
  <2>1. Tail(<<"document">>) = <<>>
    OBVIOUS
  <2> QED
    BY <1>1, <2>1 DEF ParserInit, Led
<1>3. todo[1] \notin Calls
  BY <1>1 DEF ParserInit
<1> QED
  BY <1>2, <1>3 DEF ParserInit, OriginInv, TodoInv

\* A node is opened when a symbol is cached, unless it is the root.
LEMMA CallNodeOrigins == OriginInv /\ CallNode => OriginInv'
<1> SUFFICES ASSUME OriginInv, CallNode PROVE OriginInv'
  OBVIOUS
<1> DEFINE item == Head(todo)
<1>1. /\ Led(todo) /\ todo # <<>> /\ todo \in Seq(Listed) /\ item = todo[1]
      /\ item \in Calls \cup {"document"}
  BY NodeNames DEF OriginInv, TodoInv, Led, CallNode
<1>2. item # "document" => next_symbol # "invalid"
  BY <1>1 DEF OriginInv, TodoInv
<1> DEFINE new == [kind |-> item, before |-> Len(consumed),
                   skipped |-> next_symbol # "invalid"]
<1>3. new \in Exact
  <2>1. item \in Listed /\ Len(consumed) \in Nat
    BY <1>1 DEF OriginInv, Listed
  <2> QED
    BY <1>2, <2>1 DEF Exact
<1>4. open' \in Seq(Exact)
  <2>1. open' = Append(open, new)
    BY DEF CallNode
  <2> HIDE DEF new
  <2> QED
    BY <1>3, <2>1 DEF OriginInv
<1>5. todo' \in Seq(Plain)
  <2>1. Node[item] \in Seq(Plain)
    BY BodiesPlain DEF CallNode
  <2>2. todo' = Node[item] \o Tail(todo)
    BY DEF CallNode
  <2> QED
    BY <1>1, <2>1, <2>2, Pushing
<1> QED
  BY <1>4, <1>5, PlainIsLed DEF OriginInv, TodoInv, CallNode

\* A branch has peeked when it calls a node's function.
LEMMA LookOrigins == OriginInv /\ Look => OriginInv'
<1> SUFFICES ASSUME OriginInv, Look PROVE OriginInv'
  OBVIOUS
<1>1. PICK s \in Peeked : next_symbol' = s /\ todo' = Branch(Head(todo), s) \o Tail(todo)
  BY DEF Look
<1>2. s \in Symbols /\ s # "invalid"
  BY PeekedSymbols DEF Symbols
<1>3. Led(Branch(Head(todo), s))
  BY <1>2, BranchesLed DEF Look
<1>4. Led(todo')
  BY <1>1, <1>3, Pushing DEF OriginInv, TodoInv, Look
<1> QED
  BY <1>1, <1>2, <1>4 DEF OriginInv, TodoInv, Look

\* The other steps call nothing that returns a node.
LEMMA OtherOrigins == OriginInv /\ (CallValue \/ Parse \/ Unexpected \/ Return) => OriginInv'
<1> SUFFICES ASSUME OriginInv, CallValue \/ Parse \/ Unexpected \/ Return PROVE OriginInv'
  OBVIOUS
<1>1. CASE CallValue
  <2>1. Value[Head(todo)] \in Seq(Plain)
    BY <1>1, BodiesPlain DEF CallValue
  <2>2. todo' \in Seq(Plain)
    BY <1>1, <2>1, Pushing DEF OriginInv, TodoInv, CallValue
  <2> QED
    BY <1>1, <2>2, PlainIsLed DEF OriginInv, TodoInv, CallValue
<1>2. CASE Parse
  <2>1. todo' \in Seq(Plain)
    BY <1>2, Pushing DEF OriginInv, TodoInv, Parse
  <2>2. consumed' \in Seq(Symbols)
    BY <1>2 DEF OriginInv, Parse
  <2> QED
    BY <1>2, <2>1, <2>2, PlainIsLed DEF OriginInv, TodoInv, Parse
<1>3. CASE Unexpected
  <2>1. next_symbol' \in Symbols
    BY <1>3, PeekedSymbols DEF Unexpected
  <2>2. next_symbol' # "invalid"
    BY <2>1 DEF Symbols
  <2> QED
    BY <1>3, <2>1, <2>2 DEF OriginInv, TodoInv, Unexpected
<1>4. CASE Return
  <2>1. todo' \in Seq(Plain)
    BY <1>4, Pushing DEF OriginInv, TodoInv, Return
  <2>2. open' \in Seq(Exact)
    <3>1. open' = SubSeq(open, 1, Len(open) - 1)
      BY <1>4 DEF Return
    <3> QED
      BY <3>1 DEF OriginInv
  <2> QED
    BY <1>4, <2>1, <2>2, PlainIsLed DEF OriginInv, TodoInv, Return
<1> QED
  BY <1>1, <1>2, <1>3, <1>4

\* Whatever the document and its length, every node but the root takes its
\* origin after its caller has peeked at its first symbol: the position an
\* AstNode carries is that of its first symbol and not of the blanks before it.
THEOREM OriginsAreExact == ParserSpec => []OriginsExact
<1>1. OriginInv /\ [ParserNext]_parserVars => OriginInv'
  <2>1. OriginInv /\ UNCHANGED parserVars => OriginInv'
    BY DEF OriginInv, TodoInv, parserVars
  <2> QED
    BY <2>1, CallNodeOrigins, LookOrigins, OtherOrigins DEF ParserNext
<1>2. OriginInv => OriginsExact
  BY DEF OriginInv, OriginsExact, Exact
<1> QED
  BY <1>1, <1>2, InitOrigins, PTL DEF ParserSpec
================================================================================
