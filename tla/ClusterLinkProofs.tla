--------------------------- MODULE ClusterLinkProofs ---------------------------
(***************************************************************************)
(* The connection between two servers, for any width of the length prefix, *)
(* any sizes of messages and any number of them.  The functions that the   *)
(* link is made of are defined by recursion, and what they compute is      *)
(* proved by induction: the prefix decodes to the length that was encoded, *)
(* and the loop of on_read takes from the stream the messages whose frames *)
(* were written to it.                                                     *)
(***************************************************************************)
EXTENDS ClusterLink, SequenceTheorems, WellFoundedInduction, TLAPS

(* Induction and recursion over numbers. *)

\* A set of numbers that has a member has a least one.
LEMMA Least == ASSUME NEW T, T \subseteq Nat, T # {} PROVE \E x \in T : \A y \in T : x <= y
<1>1. IsWellFoundedOn(OpToRel(<, Nat), Nat)
  BY Zenon, NatLessThanWellFounded
<1>2. PICK x \in T : \A y \in T : ~ (<<y, x>> \in OpToRel(<, Nat))
  BY Zenon, <1>1, WFMin
<1>3. \A y \in T : ~ (y < x)
  BY Zenon, <1>2 DEF OpToRel
<1> QED
  BY <1>3

\* A set with 0 and the successors of its members has every number.
LEMMA Induction == ASSUME NEW S, 0 \in S, \A n \in Nat : n \in S => n + 1 \in S PROVE Nat \subseteq S
<1> DEFINE T == {n \in Nat : n \notin S}
<1> SUFFICES ASSUME T # {} PROVE FALSE
  OBVIOUS
<1> HIDE DEF T
<1>1. T \subseteq Nat
  BY DEF T
<1>2. PICK x \in T : \A y \in T : x <= y
  BY Zenon, <1>1, Least
<1>3. x \in Nat /\ x # 0
  BY <1>2 DEF T
<1>4. x - 1 \in Nat /\ (x - 1) + 1 = x
  BY <1>3
<1>5. x - 1 \notin T
  BY <1>2, <1>3, <1>4
<1> QED
  BY <1>2, <1>4, <1>5 DEF T

\* f begins with a and goes on with what step makes of its last value.
Iterates(f, a, step, len) ==
  f = [n \in 0 .. len |-> IF n = 0 THEN a ELSE step[n][f[n - 1]]]

\* What is defined by recursion up to len can be defined up to len + 1.
LEMMA IteratesExtend ==
  ASSUME NEW len \in Nat, NEW a, NEW step, NEW f, Iterates(f, a, step, len)
  PROVE  Iterates([n \in 0 .. len + 1 |-> IF n = len + 1 THEN step[len + 1][f[len]] ELSE f[n]],
                  a, step, len + 1)
<1> DEFINE g == [n \in 0 .. len + 1 |-> IF n = len + 1 THEN step[len + 1][f[len]] ELSE f[n]]
           h == [n \in 0 .. len + 1 |-> IF n = 0 THEN a ELSE step[n][g[n - 1]]]
<1>1. ASSUME NEW n \in 0 .. len + 1 PROVE g[n] = h[n]
  <2>1. CASE n = len + 1
    <3>1. n - 1 = len /\ len \in 0 .. len + 1 /\ len # len + 1 /\ n # 0
      BY <2>1
    <3>2. g[n - 1] = f[len]
      BY <3>1
    <3> QED
      BY <2>1, <3>1, <3>2
  <2>2. CASE n = 0
    BY <2>2 DEF Iterates
  <2>3. CASE n # 0 /\ n # len + 1
    <3>1. n \in 0 .. len /\ n - 1 \in 0 .. len + 1 /\ n - 1 # len + 1
      BY <2>3
    <3>2. f[n] = step[n][f[n - 1]]
      BY <2>3, <3>1 DEF Iterates
    <3>3. g[n - 1] = f[n - 1] /\ g[n] = f[n]
      BY <2>3, <3>1
    <3> QED
      BY <2>3, <3>2, <3>3
  <2> QED
    BY <2>1, <2>2, <2>3
<1>2. g = h
  BY <1>1
<1> QED
  BY Zenon, <1>2 DEF Iterates

\* Recursion defines a function.
LEMMA IteratesExist == ASSUME NEW a, NEW step PROVE \A len \in Nat : \E f : Iterates(f, a, step, len)
<1> DEFINE S == {len \in Nat : \E f : Iterates(f, a, step, len)}
<1>1. 0 \in S
  <2>1. [n \in 0 .. 0 |-> a] = [n \in 0 .. 0 |-> IF n = 0 THEN a ELSE step[n][[k \in 0 .. 0 |-> a][n - 1]]]
    OBVIOUS
  <2> QED
    BY Zenon, <2>1 DEF Iterates
<1>2. \A len \in Nat : len \in S => len + 1 \in S
  <2> SUFFICES ASSUME NEW len \in Nat, NEW f, Iterates(f, a, step, len)
               PROVE  \E g : Iterates(g, a, step, len + 1)
    OBVIOUS
  <2> QED
    BY Zenon, IteratesExtend
<1> HIDE DEF S
<1>3. Nat \subseteq S
  BY <1>1, <1>2, Induction
<1> QED
  BY <1>3 DEF S

\* Induction up to len.
LEMMA UpTo ==
  ASSUME NEW len \in Nat, NEW S, 0 \in S, \A n \in 1 .. len : n - 1 \in S => n \in S
  PROVE  0 .. len \subseteq S
<1> DEFINE T == {n \in Nat : n <= len => n \in S}
<1>1. 0 \in T
  OBVIOUS
<1>2. \A n \in Nat : n \in T => n + 1 \in T
  <2> SUFFICES ASSUME NEW n \in Nat, n \in T, n + 1 <= len PROVE n + 1 \in S
    OBVIOUS
  <2>1. n + 1 \in 1 .. len /\ (n + 1) - 1 = n /\ n \in S
    OBVIOUS
  <2> QED
    BY <2>1
<1> HIDE DEF T
<1>3. Nat \subseteq T
  BY <1>1, <1>2, Induction
<1> QED
  BY <1>3 DEF T

\* A function defined by recursion, whose values stay where step keeps them.
LEMMA Recursion ==
  ASSUME NEW D, NEW a \in D, NEW len \in Nat, NEW step,
         \A n \in 1 .. len : \A x \in D : step[n][x] \in D
  PROVE  \E f : /\ Iterates(f, a, step, len)
                /\ \A n \in 0 .. len : n # 0 => f[n - 1] \in D
<1>1. PICK f : Iterates(f, a, step, len)
  BY IteratesExist
<1>2. f[0] = a
  BY <1>1 DEF Iterates
<1>3. \A n \in 1 .. len : f[n] = step[n][f[n - 1]]
  BY <1>1 DEF Iterates
<1> DEFINE S == {n \in 0 .. len : f[n] \in D}
<1>4. 0 \in S
  BY <1>2
<1>5. \A n \in 1 .. len : n - 1 \in S => n \in S
  BY <1>3
<1> HIDE DEF S
<1>6. 0 .. len \subseteq S
  BY <1>4, <1>5, UpTo
<1>7. \A n \in 0 .. len : n # 0 => n - 1 \in 0 .. len
  OBVIOUS
<1>8. \A n \in 0 .. len : n # 0 => f[n - 1] \in D
  BY <1>6, <1>7 DEF S
<1> QED
  BY <1>1, <1>8

--------------------------------------------------------------------------------
(* The length prefix. *)

\* Division with remainder.
LEMMA DivMod ==
  ASSUME NEW b \in Nat \ {0}, NEW x \in Nat
  PROVE  x % b \in 0 .. b - 1 /\ x = b * (x \div b) + (x % b)
OBVIOUS

\* The equations that define Values, ...
LEMMA ValuesDef ==
  /\ Values[0] = 1
  /\ \A n \in 1 .. PrefixSize : Values[n] = Base * Values[n - 1]
  /\ \A n \in 0 .. PrefixSize : Values[n] \in Nat \ {0}
<1> DEFINE step == [n \in 1 .. PrefixSize |-> [x \in Nat \ {0} |-> Base * x]]
<1>1. \A n \in 1 .. PrefixSize : \A x \in Nat \ {0} : step[n][x] = Base * x
  OBVIOUS
<1>2. \A x \in Nat \ {0} : Base * x \in Nat \ {0}
  BY LinkAssumption
<1>3. PrefixSize \in Nat /\ 1 \in Nat \ {0}
  BY LinkAssumption
<1> HIDE DEF step
<1>4. \A n \in 1 .. PrefixSize : \A x \in Nat \ {0} : step[n][x] \in Nat \ {0}
  BY <1>1, <1>2
<1>5. PICK f : /\ Iterates(f, 1, step, PrefixSize)
               /\ \A n \in 0 .. PrefixSize : n # 0 => f[n - 1] \in Nat \ {0}
  BY Zenon, <1>3, <1>4, Recursion
<1>6. f = [n \in 0 .. PrefixSize |-> IF n = 0 THEN 1 ELSE Base * f[n - 1]]
  <2>1. \A n \in 0 .. PrefixSize : n # 0 => step[n][f[n - 1]] = Base * f[n - 1]
    BY <1>1, <1>3, <1>5
  <2>2. [n \in 0 .. PrefixSize |-> IF n = 0 THEN 1 ELSE Base * f[n - 1]]
          = [n \in 0 .. PrefixSize |-> IF n = 0 THEN 1 ELSE step[n][f[n - 1]]]
    BY <2>1
  <2> QED
    BY <1>5, <2>2, Zenon DEF Iterates
<1>7. Values = [n \in 0 .. PrefixSize |-> IF n = 0 THEN 1 ELSE Base * Values[n - 1]]
  BY Zenon, <1>6 DEF Values
<1>8. Values[0] = 1
  BY <1>3, <1>7
<1>9. \A n \in 1 .. PrefixSize : Values[n] = Base * Values[n - 1]
  BY <1>3, <1>7
<1> DEFINE S == {n \in 0 .. PrefixSize : Values[n] \in Nat \ {0}}
<1>10. 0 \in S
  BY <1>3, <1>8
<1>11. \A n \in 1 .. PrefixSize : n - 1 \in S => n \in S
  BY <1>2, <1>3, <1>9
<1> HIDE DEF S
<1>12. 0 .. PrefixSize \subseteq S
  BY <1>3, <1>10, <1>11, UpTo
<1> QED
  BY <1>8, <1>9, <1>12 DEF S

\* ... the digits that are left of a number, ...
LEMMA ShiftedDef ==
  ASSUME NEW n \in Nat
  PROVE  /\ Shifted(n)[0] = n
         /\ \A j \in 1 .. PrefixSize : Shifted(n)[j] = Shifted(n)[j - 1] \div Base
         /\ \A j \in 0 .. PrefixSize : Shifted(n)[j] \in Nat
<1> DEFINE step == [j \in 1 .. PrefixSize |-> [x \in Nat |-> x \div Base]]
           rest == CHOOSE g : g = [j \in 0 .. PrefixSize |-> IF j = 0 THEN n ELSE g[j - 1] \div Base]
<1>0. Shifted(n) = rest
  BY DEF Shifted
<1>1. \A j \in 1 .. PrefixSize : \A x \in Nat : step[j][x] = x \div Base
  OBVIOUS
<1>2. \A x \in Nat : x \div Base \in Nat
  BY LinkAssumption
<1>3. PrefixSize \in Nat
  BY LinkAssumption
<1> HIDE DEF step
<1>4. \A j \in 1 .. PrefixSize : \A x \in Nat : step[j][x] \in Nat
  BY <1>1, <1>2
<1>5. PICK f : /\ Iterates(f, n, step, PrefixSize)
               /\ \A j \in 0 .. PrefixSize : j # 0 => f[j - 1] \in Nat
  BY Zenon, <1>3, <1>4, Recursion
<1>6. f = [j \in 0 .. PrefixSize |-> IF j = 0 THEN n ELSE f[j - 1] \div Base]
  <2>1. \A j \in 0 .. PrefixSize : j # 0 => step[j][f[j - 1]] = f[j - 1] \div Base
    BY <1>1, <1>3, <1>5
  <2>2. [j \in 0 .. PrefixSize |-> IF j = 0 THEN n ELSE f[j - 1] \div Base]
          = [j \in 0 .. PrefixSize |-> IF j = 0 THEN n ELSE step[j][f[j - 1]]]
    BY <2>1
  <2> QED
    BY <1>5, <2>2, Zenon DEF Iterates
<1>7. rest = [j \in 0 .. PrefixSize |-> IF j = 0 THEN n ELSE rest[j - 1] \div Base]
  BY Zenon, <1>6
<1> HIDE DEF rest
<1>8. rest[0] = n
  BY <1>3, <1>7
<1>9. \A j \in 1 .. PrefixSize : rest[j] = rest[j - 1] \div Base
  BY <1>3, <1>7
<1> DEFINE S == {j \in 0 .. PrefixSize : rest[j] \in Nat}
<1>10. 0 \in S
  BY <1>3, <1>8
<1>11. \A j \in 1 .. PrefixSize : j - 1 \in S => j \in S
  BY <1>2, <1>3, <1>9
<1> HIDE DEF S
<1>12. 0 .. PrefixSize \subseteq S
  BY <1>3, <1>10, <1>11, UpTo
<1> QED
  BY <1>0, <1>8, <1>9, <1>12 DEF S

\* ... and the value of a prefix.
LEMMA DecodeDef ==
  ASSUME NEW bytes, \A j \in 1 .. PrefixSize : bytes[j] \in Nat
  PROVE  \E value : /\ Decode(bytes) = value[PrefixSize]
                    /\ value[0] = 0
                    /\ \A j \in 1 .. PrefixSize :
                         value[j] = Base * value[j - 1] + bytes[PrefixSize + 1 - j]
                    /\ \A j \in 0 .. PrefixSize : value[j] \in Nat
<1> DEFINE step == [j \in 1 .. PrefixSize |-> [x \in Nat |-> Base * x + bytes[PrefixSize + 1 - j]]]
           value == CHOOSE g : g = [j \in 0 .. PrefixSize |->
                      IF j = 0 THEN 0 ELSE Base * g[j - 1] + bytes[PrefixSize + 1 - j]]
<1>0. Decode(bytes) = value[PrefixSize]
  BY DEF Decode
<1>1. \A j \in 1 .. PrefixSize : \A x \in Nat : step[j][x] = Base * x + bytes[PrefixSize + 1 - j]
  OBVIOUS
<1>3. PrefixSize \in Nat
  BY LinkAssumption
<1>2. \A j \in 1 .. PrefixSize : \A x \in Nat : Base * x + bytes[PrefixSize + 1 - j] \in Nat
  <2> SUFFICES ASSUME NEW j \in 1 .. PrefixSize, NEW x \in Nat
               PROVE  Base * x + bytes[PrefixSize + 1 - j] \in Nat
    OBVIOUS
  <2>1. PrefixSize + 1 - j \in 1 .. PrefixSize
    BY <1>3
  <2>2. bytes[PrefixSize + 1 - j] \in Nat /\ Base * x \in Nat
    BY <2>1, LinkAssumption
  <2> QED
    BY <2>2
<1> HIDE DEF step
<1>4. \A j \in 1 .. PrefixSize : \A x \in Nat : step[j][x] \in Nat
  BY <1>1, <1>2
<1>5. PICK f : /\ Iterates(f, 0, step, PrefixSize)
               /\ \A j \in 0 .. PrefixSize : j # 0 => f[j - 1] \in Nat
  BY Zenon, <1>3, <1>4, Recursion
<1>6. f = [j \in 0 .. PrefixSize |-> IF j = 0 THEN 0 ELSE Base * f[j - 1] + bytes[PrefixSize + 1 - j]]
  <2>1. \A j \in 0 .. PrefixSize : j # 0 => step[j][f[j - 1]] = Base * f[j - 1] + bytes[PrefixSize + 1 - j]
    BY <1>1, <1>3, <1>5
  <2>2. [j \in 0 .. PrefixSize |-> IF j = 0 THEN 0 ELSE Base * f[j - 1] + bytes[PrefixSize + 1 - j]]
          = [j \in 0 .. PrefixSize |-> IF j = 0 THEN 0 ELSE step[j][f[j - 1]]]
    BY <2>1
  <2> QED
    BY <1>5, <2>2, Zenon DEF Iterates
<1>7. value = [j \in 0 .. PrefixSize |-> IF j = 0 THEN 0 ELSE Base * value[j - 1] + bytes[PrefixSize + 1 - j]]
  BY Zenon, <1>6
<1> HIDE DEF value
<1>8. value[0] = 0
  BY <1>3, <1>7
<1>9. \A j \in 1 .. PrefixSize : value[j] = Base * value[j - 1] + bytes[PrefixSize + 1 - j]
  BY <1>3, <1>7
<1> DEFINE S == {j \in 0 .. PrefixSize : value[j] \in Nat}
<1>10. 0 \in S
  BY <1>3, <1>8
<1>11. \A j \in 1 .. PrefixSize : j - 1 \in S => j \in S
  BY <1>2, <1>3, <1>9
<1> HIDE DEF S
<1>12. 0 .. PrefixSize \subseteq S
  BY <1>3, <1>10, <1>11, UpTo
<1> QED
  BY <1>0, <1>8, <1>9, <1>12 DEF S

\* A prefix is PrefixSize bytes.
LEMMA EncodeType == ASSUME NEW n \in Nat PROVE Encode(n) \in Seq(Byte) /\ Len(Encode(n)) = PrefixSize
<1>1. PrefixSize \in Nat /\ Base \in Nat \ {0}
  BY LinkAssumption
<1>2. \A j \in 1 .. PrefixSize : Shifted(n)[j - 1] \in Nat
  <2>1. \A j \in 1 .. PrefixSize : j - 1 \in 0 .. PrefixSize
    BY <1>1
  <2> QED
    BY <2>1, ShiftedDef
<1>3. \A j \in 1 .. PrefixSize : Shifted(n)[j - 1] % Base \in Byte
  BY <1>1, <1>2, DivMod DEF Byte
<1> QED
  BY <1>1, <1>3 DEF Encode

\* The peer decodes the length that was encoded: no byte of the prefix is lost,
\* cut or in another place.
LEMMA DecodeEncode ==
  ASSUME NEW n \in 0 .. Values[PrefixSize] - 1, NEW bytes,
         \A j \in 1 .. PrefixSize : bytes[j] = Encode(n)[j]
  PROVE  Decode(bytes) = n
<1>1. PrefixSize \in Nat /\ Base \in Nat \ {0}
  BY LinkAssumption
<1> DEFINE rest == Shifted(n)
<1>2. /\ rest[0] = n
      /\ \A j \in 1 .. PrefixSize : rest[j] = rest[j - 1] \div Base
      /\ \A j \in 0 .. PrefixSize : rest[j] \in Nat
  <2>1. n \in Nat
    BY ValuesDef, <1>1
  <2> QED
    BY <2>1, ShiftedDef
<1>3. \A j \in 1 .. PrefixSize : bytes[j] = rest[j - 1] % Base
  BY DEF Encode
<1> HIDE DEF rest
<1>4. rest[PrefixSize] = 0
  <2> DEFINE S == {j \in 0 .. PrefixSize : rest[j] < Values[PrefixSize - j]}
  <2>1. 0 \in S
    <3>1. Values[PrefixSize] \in Nat /\ PrefixSize - 0 = PrefixSize
      BY <1>1, ValuesDef
    <3> QED
      BY <1>1, <1>2, <3>1
  <2>2. \A j \in 1 .. PrefixSize : j - 1 \in S => j \in S
    <3> SUFFICES ASSUME NEW j \in 1 .. PrefixSize, rest[j - 1] < Values[PrefixSize - (j - 1)]
                 PROVE  rest[j] < Values[PrefixSize - j]
      BY <1>1
    <3>1. /\ PrefixSize - (j - 1) \in 1 .. PrefixSize
          /\ (PrefixSize - (j - 1)) - 1 = PrefixSize - j
          /\ PrefixSize - j \in 0 .. PrefixSize /\ j - 1 \in 0 .. PrefixSize
      BY <1>1
    <3>2. Values[PrefixSize - (j - 1)] = Base * Values[PrefixSize - j] /\ Values[PrefixSize - j] \in Nat
      BY <3>1, ValuesDef
    <3>3. rest[j] = rest[j - 1] \div Base /\ rest[j - 1] \in Nat
      BY <1>2, <3>1
    <3>4. \A x, y \in Nat : x < Base * y => x \div Base < y
      BY <1>1
    <3> QED
      BY <3>2, <3>3, <3>4
  <2> HIDE DEF S
  <2>3. 0 .. PrefixSize \subseteq S
    BY <1>1, <2>1, <2>2, UpTo
  <2>4. rest[PrefixSize] < Values[0]
    BY <1>1, <2>3 DEF S
  <2> QED
    BY <1>1, <1>2, <2>4, ValuesDef
<1>5. PICK value : /\ Decode(bytes) = value[PrefixSize]
                   /\ value[0] = 0
                   /\ \A j \in 1 .. PrefixSize : value[j] = Base * value[j - 1] + bytes[PrefixSize + 1 - j]
                   /\ \A j \in 0 .. PrefixSize : value[j] \in Nat
  <2>1. \A j \in 1 .. PrefixSize : bytes[j] \in Nat
    <3>1. \A j \in 1 .. PrefixSize : rest[j - 1] \in Nat
      BY <1>1, <1>2
    <3> QED
      BY <1>1, <1>3, <3>1
  <2> QED
    BY <2>1, DecodeDef
<1> DEFINE S == {j \in 0 .. PrefixSize : value[j] = rest[PrefixSize - j]}
<1>6. 0 \in S
  BY <1>1, <1>4, <1>5
<1>7. \A j \in 1 .. PrefixSize : j - 1 \in S => j \in S
  <2> SUFFICES ASSUME NEW j \in 1 .. PrefixSize, value[j - 1] = rest[PrefixSize - (j - 1)]
               PROVE  value[j] = rest[PrefixSize - j]
    BY <1>1
  <2> DEFINE k == PrefixSize + 1 - j
  <2>1. k \in 1 .. PrefixSize /\ PrefixSize - (j - 1) = k /\ PrefixSize - j = k - 1 /\ k - 1 \in 0 .. PrefixSize
    BY <1>1
  <2>2. value[j] = Base * value[j - 1] + bytes[k]
    BY <1>5
  <2> HIDE DEF k
  <2>3. rest[k] = rest[k - 1] \div Base /\ rest[k - 1] \in Nat /\ bytes[k] = rest[k - 1] % Base
    BY <1>2, <1>3, <2>1
  <2>4. rest[k - 1] = Base * (rest[k - 1] \div Base) + (rest[k - 1] % Base)
    BY Zenon, <1>1, <2>3, DivMod
  <2>5. value[j] = Base * (rest[k - 1] \div Base) + (rest[k - 1] % Base)
    BY <2>1, <2>2, <2>3, Zenon
  <2> QED
    BY <2>1, <2>4, <2>5, Zenon
<1> HIDE DEF S
<1>8. 0 .. PrefixSize \subseteq S
  BY <1>1, <1>6, <1>7, UpTo
<1>9. value[PrefixSize] = rest[0]
  BY <1>1, <1>8 DEF S
<1> QED
  BY <1>2, <1>5, <1>9

--------------------------------------------------------------------------------
(* Streams of bytes.  The provers see Cat only by the laws that follow. *)

Bytes == Seq(Byte)

Cat(a, b) == a \o b

\* Two sequences joined are a sequence as long as both.
LEMMA CatType ==
  ASSUME NEW S, NEW a \in Seq(S), NEW b \in Seq(S)
  PROVE  Cat(a, b) \in Seq(S) /\ Len(Cat(a, b)) = Len(a) + Len(b) /\ Len(a) \in Nat /\ Len(b) \in Nat
BY ConcatProperties, LenProperties DEF Cat

\* The elements of two sequences joined.
LEMMA CatElements ==
  ASSUME NEW S, NEW a \in Seq(S), NEW b \in Seq(S)
  PROVE  \A i \in 1 .. Len(a) + Len(b) : Cat(a, b)[i] = IF i <= Len(a) THEN a[i] ELSE b[i - Len(a)]
BY ConcatProperties DEF Cat

\* Joining is associative.
LEMMA CatAssoc ==
  ASSUME NEW S, NEW a \in Seq(S), NEW b \in Seq(S), NEW c \in Seq(S)
  PROVE  Cat(Cat(a, b), c) = Cat(a, Cat(b, c))
BY ConcatAssociative, SMTT(30) DEF Cat

\* The empty sequence changes nothing that it is joined to.
LEMMA CatNone ==
  ASSUME NEW S, NEW a \in Seq(S)
  PROVE  <<>> \in Seq(S) /\ Cat(a, <<>>) = a /\ Cat(<<>>, a) = a
BY ConcatEmptySeq, EmptySeq DEF Cat

\* A sequence is its first n elements and the others.
LEMMA CatCut ==
  ASSUME NEW S, NEW a \in Seq(S), NEW n \in 0 .. Len(a)
  PROVE  /\ SubSeq(a, 1, n) \in Seq(S) /\ Len(SubSeq(a, 1, n)) = n
         /\ Drop(a, n) \in Seq(S) /\ Len(Drop(a, n)) = Len(a) - n
         /\ Cat(SubSeq(a, 1, n), Drop(a, n)) = a
<1>1. Len(a) \in Nat /\ \A i \in 1 .. Len(a) : a[i] \in S
  BY ElementOfSeq, LenProperties
<1>2. /\ SubSeq(a, 1, n) \in Seq(S) /\ Len(SubSeq(a, 1, n)) = (IF 1 <= n THEN n - 1 + 1 ELSE 0)
      /\ \A i \in 1 .. n - 1 + 1 : SubSeq(a, 1, n)[i] = a[1 + i - 1]
  <2>1. \A i \in 1 .. n : a[i] \in S
    BY <1>1
  <2> QED
    BY <2>1, <1>1, SubSeqProperties
<1>3. /\ Drop(a, n) \in Seq(S) /\ Len(Drop(a, n)) = (IF n + 1 <= Len(a) THEN Len(a) - (n + 1) + 1 ELSE 0)
      /\ \A i \in 1 .. Len(a) - (n + 1) + 1 : Drop(a, n)[i] = a[(n + 1) + i - 1]
  <2>1. \A i \in n + 1 .. Len(a) : a[i] \in S
    BY <1>1
  <2> QED
    BY <2>1, <1>1, SubSeqProperties DEF Drop
<1> DEFINE front == SubSeq(a, 1, n)
           back == Drop(a, n)
<1> HIDE DEF front, back
<1>4. front \in Seq(S) /\ Len(front) = n /\ \A i \in 1 .. n : front[i] = a[i]
  BY <1>1, <1>2 DEF front
<1>5. back \in Seq(S) /\ Len(back) = Len(a) - n /\ \A i \in 1 .. Len(a) - n : back[i] = a[n + i]
  BY <1>1, <1>3 DEF back
<1>6. /\ Cat(front, back) \in Seq(S) /\ Len(Cat(front, back)) = Len(front) + Len(back)
      /\ \A i \in 1 .. Len(front) + Len(back) :
           Cat(front, back)[i] = IF i <= Len(front) THEN front[i] ELSE back[i - Len(front)]
  BY Zenon, <1>4, <1>5, CatElements, CatType
<1>7. \A i \in 1 .. Len(a) : Cat(front, back)[i] = a[i]
  BY <1>1, <1>4, <1>5, <1>6
<1>8. Cat(front, back) = a
  <2>1. Len(Cat(front, back)) = Len(a)
    BY <1>1, <1>4, <1>5, <1>6
  <2> QED
    BY <1>6, <1>7, <2>1, SeqEqual
<1> QED
  BY <1>4, <1>5, <1>8 DEF front, back

\* Two ways to read a stream: the shorter front is the beginning of the longer.
LEMMA CatSplit ==
  ASSUME NEW S, NEW a \in Seq(S), NEW b \in Seq(S), NEW c \in Seq(S), NEW d \in Seq(S),
         Cat(a, b) = Cat(c, d), Len(c) <= Len(a)
  PROVE  c = SubSeq(a, 1, Len(c)) /\ Cat(Drop(a, Len(c)), b) = d
<1> DEFINE n == Len(c)
           front == SubSeq(a, 1, n)
           back == Drop(a, n)
<1>1. n \in 0 .. Len(a)
  BY LenProperties
<1>2. /\ front \in Seq(S) /\ Len(front) = n /\ back \in Seq(S)
      /\ Cat(front, back) = a
  BY <1>1, CatCut
<1> HIDE DEF front, back
<1>3. Cat(front, Cat(back, b)) = Cat(c, d) /\ Cat(back, b) \in Seq(S)
  BY <1>2, CatAssoc, CatType
<1> DEFINE rest == Cat(back, b)
<1> HIDE DEF rest
<1>4. rest \in Seq(S) /\ Cat(front, rest) = Cat(c, d)
  BY <1>3 DEF rest
<1>5. /\ \A i \in 1 .. Len(front) + Len(rest) :
           Cat(front, rest)[i] = IF i <= Len(front) THEN front[i] ELSE rest[i - Len(front)]
      /\ \A i \in 1 .. Len(c) + Len(d) : Cat(c, d)[i] = IF i <= Len(c) THEN c[i] ELSE d[i - Len(c)]
      /\ Len(Cat(front, rest)) = Len(front) + Len(rest) /\ Len(Cat(c, d)) = Len(c) + Len(d)
  BY Zenon, <1>2, <1>4, CatElements, CatType
<1>6. Len(c) \in Nat /\ Len(d) \in Nat /\ Len(rest) \in Nat
  BY <1>4, LenProperties
<1>7. Len(rest) = Len(d)
  BY <1>2, <1>4, <1>5, <1>6
<1>8. \A i \in 1 .. Len(c) : front[i] = c[i]
  BY <1>2, <1>4, <1>5, <1>6
<1>9. \A i \in 1 .. Len(d) : rest[i] = d[i]
  <2> SUFFICES ASSUME NEW i \in 1 .. Len(d) PROVE rest[i] = d[i]
    OBVIOUS
  <2>1. /\ n + i \in 1 .. Len(c) + Len(d) /\ n + i \in 1 .. Len(front) + Len(rest)
        /\ ~ (n + i <= n) /\ (n + i) - n = i
    BY <1>2, <1>6, <1>7
  <2> QED
    BY Zenon, <1>2, <1>4, <1>5, <2>1
<1>10. front = c
  BY <1>2, <1>8, SeqEqual
<1>11. rest = d
  BY <1>4, <1>7, <1>9, SeqEqual
<1> QED
  BY <1>10, <1>11 DEF front, rest, back

\* The bytes of all parts, one after the other.
Flatten(parts) ==
  LET flat[n \in 0 .. Len(parts)] == IF n = 0 THEN <<>> ELSE Cat(flat[n - 1], parts[n])
  IN  flat[Len(parts)]

\* The equations that define it.
LEMMA FlattenDef ==
  ASSUME NEW parts \in Seq(Bytes)
  PROVE  \E flat : /\ Flatten(parts) = flat[Len(parts)]
                   /\ flat[0] = <<>>
                   /\ \A n \in 1 .. Len(parts) : flat[n] = Cat(flat[n - 1], parts[n])
                   /\ \A n \in 0 .. Len(parts) : flat[n] \in Bytes
<1> DEFINE len == Len(parts)
           step == [n \in 1 .. len |-> [x \in Bytes |-> Cat(x, parts[n])]]
           flat == CHOOSE g : g = [n \in 0 .. len |-> IF n = 0 THEN <<>> ELSE Cat(g[n - 1], parts[n])]
<1>0. Flatten(parts) = flat[len]
  BY DEF Flatten
<1>1. \A n \in 1 .. len : \A x \in Bytes : step[n][x] = Cat(x, parts[n])
  OBVIOUS
<1>2. \A n \in 1 .. len : \A x \in Bytes : Cat(x, parts[n]) \in Bytes
  <2>1. \A n \in 1 .. len : parts[n] \in Bytes
    BY ElementOfSeq
  <2> QED
    BY Zenon, <2>1, CatType DEF Bytes
<1>3. len \in Nat /\ <<>> \in Bytes
  BY LenProperties, EmptySeq DEF Bytes
<1> HIDE DEF step, len
<1>4. \A n \in 1 .. len : \A x \in Bytes : step[n][x] \in Bytes
  BY <1>1, <1>2
<1>5. PICK f : /\ Iterates(f, <<>>, step, len)
               /\ \A n \in 0 .. len : n # 0 => f[n - 1] \in Bytes
  BY Zenon, <1>3, <1>4, Recursion
<1>6. f = [n \in 0 .. len |-> IF n = 0 THEN <<>> ELSE Cat(f[n - 1], parts[n])]
  <2>1. \A n \in 0 .. len : n # 0 => step[n][f[n - 1]] = Cat(f[n - 1], parts[n])
    BY <1>1, <1>3, <1>5
  <2>2. [n \in 0 .. len |-> IF n = 0 THEN <<>> ELSE Cat(f[n - 1], parts[n])]
          = [n \in 0 .. len |-> IF n = 0 THEN <<>> ELSE step[n][f[n - 1]]]
    BY <2>1
  <2> QED
    BY <1>5, <2>2, Zenon DEF Iterates
<1>7. flat = [n \in 0 .. len |-> IF n = 0 THEN <<>> ELSE Cat(flat[n - 1], parts[n])]
  BY Zenon, <1>6
<1> HIDE DEF flat
<1>8. flat[0] = <<>>
  BY <1>3, <1>7
<1>9. \A n \in 1 .. len : flat[n] = Cat(flat[n - 1], parts[n])
  BY <1>3, <1>7
<1> DEFINE S == {n \in 0 .. len : flat[n] \in Bytes}
<1>10. 0 \in S
  BY <1>3, <1>8
<1>11. \A n \in 1 .. len : n - 1 \in S => n \in S
  BY <1>2, <1>3, <1>9
<1> HIDE DEF S
<1>12. 0 .. len \subseteq S
  BY <1>3, <1>10, <1>11, UpTo
<1> QED
  BY <1>0, <1>8, <1>9, <1>12 DEF S, len

\* There is no other function with these equations.
LEMMA FlattenIs ==
  ASSUME NEW parts \in Seq(Bytes), NEW f, f[0] = <<>>,
         \A n \in 1 .. Len(parts) : f[n] = Cat(f[n - 1], parts[n])
  PROVE  Flatten(parts) = f[Len(parts)] /\ Flatten(parts) \in Bytes
<1>1. PICK flat : /\ Flatten(parts) = flat[Len(parts)]
                  /\ flat[0] = <<>>
                  /\ \A n \in 1 .. Len(parts) : flat[n] = Cat(flat[n - 1], parts[n])
                  /\ \A n \in 0 .. Len(parts) : flat[n] \in Bytes
  BY FlattenDef
<1>2. Len(parts) \in Nat /\ Len(parts) \in 0 .. Len(parts)
  BY LenProperties
<1> DEFINE S == {n \in 0 .. Len(parts) : f[n] = flat[n]}
<1>3. 0 \in S
  BY <1>1, <1>2
<1>4. \A n \in 1 .. Len(parts) : n - 1 \in S => n \in S
  BY <1>1, <1>2
<1> HIDE DEF S
<1>5. 0 .. Len(parts) \subseteq S
  BY Zenon, <1>2, <1>3, <1>4, UpTo
<1> QED
  BY <1>1, <1>2, <1>5 DEF S

\* No sequences, joined.
LEMMA FlattenNone == Flatten(<<>>) = <<>>
<1>1. <<>> \in Seq(Bytes) /\ Len(<<>>) = 0
  BY EmptySeq
<1>2. PICK flat : Flatten(<<>>) = flat[Len(<<>>)] /\ flat[0] = <<>>
  BY Zenon, <1>1, FlattenDef
<1> QED
  BY <1>1, <1>2

\* What is appended comes last.
LEMMA FlattenAppend ==
  ASSUME NEW parts \in Seq(Bytes), NEW b \in Bytes
  PROVE  /\ Flatten(parts) \in Bytes
         /\ Flatten(Append(parts, b)) = Cat(Flatten(parts), b)
<1> DEFINE longer == Append(parts, b)
           len == Len(parts)
<1>1. /\ longer \in Seq(Bytes) /\ Len(longer) = len + 1 /\ longer[len + 1] = b
      /\ \A n \in 1 .. len : longer[n] = parts[n]
  BY AppendProperties
<1>2. len \in Nat
  BY LenProperties
<1>3. PICK flat : /\ Flatten(longer) = flat[Len(longer)]
                  /\ flat[0] = <<>>
                  /\ \A n \in 1 .. Len(longer) : flat[n] = Cat(flat[n - 1], longer[n])
  BY Zenon, <1>1, FlattenDef
<1> HIDE DEF longer, len
<1>4. \A n \in 1 .. len : flat[n] = Cat(flat[n - 1], parts[n])
  BY <1>1, <1>2, <1>3
<1>5. Flatten(parts) = flat[len] /\ Flatten(parts) \in Bytes
  BY <1>3, <1>4, FlattenIs DEF len
<1>6. len + 1 \in 1 .. Len(longer) /\ (len + 1) - 1 = len
  BY <1>1, <1>2
<1>7. Flatten(longer) = Cat(flat[len], b)
  BY <1>1, <1>3, <1>6
<1> QED
  BY <1>5, <1>7 DEF longer

\* What is in front comes first.
LEMMA FlattenFirst ==
  ASSUME NEW parts \in Seq(Bytes), parts # <<>>
  PROVE  /\ Head(parts) \in Bytes /\ Flatten(Tail(parts)) \in Bytes
         /\ Flatten(parts) = Cat(Head(parts), Flatten(Tail(parts)))
<1> DEFINE first == Head(parts)
           tail == Tail(parts)
           len == Len(tail)
<1>1. /\ first \in Bytes /\ tail \in Seq(Bytes) /\ len = Len(parts) - 1 /\ first = parts[1]
      /\ \A n \in 1 .. len : tail[n] = parts[n + 1]
  BY HeadTailProperties
<1>2. len \in Nat /\ Len(parts) = len + 1
  BY <1>1, LenProperties
<1>3. PICK flat : /\ Flatten(tail) = flat[len]
                  /\ flat[0] = <<>>
                  /\ \A n \in 1 .. len : flat[n] = Cat(flat[n - 1], tail[n])
                  /\ \A n \in 0 .. len : flat[n] \in Bytes
  BY Zenon, <1>1, FlattenDef
<1> HIDE DEF first, tail, len
<1> DEFINE f == [n \in 0 .. len + 1 |-> IF n = 0 THEN <<>> ELSE Cat(first, flat[n - 1])]
<1>4. f[0] = <<>>
  BY <1>2
<1>5. \A n \in 1 .. len + 1 : f[n] = Cat(first, flat[n - 1])
  BY <1>2
<1>6. \A n \in 1 .. Len(parts) : f[n] = Cat(f[n - 1], parts[n])
  <2> SUFFICES ASSUME NEW n \in 1 .. len + 1 PROVE f[n] = Cat(f[n - 1], parts[n])
    BY <1>2
  <2>1. CASE n = 1
    <3>1. f[1] = Cat(first, <<>>) /\ Cat(f[0], parts[1]) = Cat(<<>>, first)
      BY <1>1, <1>2, <1>3, <1>4, <1>5
    <3> QED
      BY <1>1, <2>1, <3>1, CatNone DEF Bytes
  <2>2. CASE n # 1
    <3>1. n - 1 \in 1 .. len /\ n - 1 \in 1 .. len + 1 /\ (n - 1) - 1 \in 0 .. len /\ (n - 1) + 1 = n
      BY <1>2, <2>2
    <3>2. f[n] = Cat(first, flat[n - 1]) /\ f[n - 1] = Cat(first, flat[(n - 1) - 1])
      BY <1>5, <3>1
    <3> DEFINE front == flat[(n - 1) - 1]
    <3>3. flat[n - 1] = Cat(front, parts[n]) /\ tail[n - 1] = parts[n]
      BY <1>1, <1>3, <3>1
    <3>4. front \in Bytes /\ parts[n] \in Bytes
      BY <1>1, <1>3, <3>1, <3>3, ElementOfSeq DEF len
    <3> HIDE DEF f, front
    <3>5. Cat(Cat(first, front), parts[n]) = Cat(first, Cat(front, parts[n]))
      BY <1>1, <3>4, CatAssoc DEF Bytes
    <3> QED
      BY <3>2, <3>3, <3>5, Zenon DEF front
  <2> QED
    BY <2>1, <2>2
<1>7. Flatten(parts) = f[len + 1]
  <2> HIDE DEF f
  <2> QED
    BY <1>2, <1>4, <1>6, FlattenIs
<1>8. f[len + 1] = Cat(first, flat[len])
  <2>1. len + 1 \in 1 .. len + 1 /\ (len + 1) - 1 = len
    BY <1>2
  <2> HIDE DEF f
  <2> QED
    BY <1>5, <2>1
<1>9. flat[len] \in Bytes
  BY <1>2, <1>3
<1> QED
  BY <1>1, <1>3, <1>7, <1>8, <1>9 DEF first, tail

\* f applied to every element.
Map(f, s) == [i \in 1 .. Len(s) |-> f[s[i]]]

\* What Map makes of a sequence, element by element.
LEMMA MapType ==
  ASSUME NEW T, NEW f \in [T -> Bytes], NEW s \in Seq(T)
  PROVE  Map(f, s) \in Seq(Bytes) /\ Len(Map(f, s)) = Len(s) /\ \A i \in 1 .. Len(s) : Map(f, s)[i] = f[s[i]]
<1>1. Len(s) \in Nat /\ \A i \in 1 .. Len(s) : s[i] \in T
  BY ElementOfSeq, LenProperties
<1>2. \A i \in 1 .. Len(s) : f[s[i]] \in Bytes
  BY <1>1
<1> QED
  BY <1>1, <1>2 DEF Map

\* Map(f, s) begins and ends as s does.
LEMMA MapAppend ==
  ASSUME NEW T, NEW f \in [T -> Bytes], NEW s \in Seq(T), NEW x \in T
  PROVE  Map(f, Append(s, x)) = Append(Map(f, s), f[x])
<1> DEFINE long == Append(s, x)
           image == Map(f, s)
           a == Map(f, long)
           b == Append(image, f[x])
<1>1. /\ long \in Seq(T) /\ Len(long) = Len(s) + 1 /\ long[Len(s) + 1] = x
      /\ \A i \in 1 .. Len(s) : long[i] = s[i]
  BY AppendProperties
<1>2. image \in Seq(Bytes) /\ Len(image) = Len(s) /\ \A i \in 1 .. Len(s) : image[i] = f[s[i]]
  BY MapType
<1> HIDE DEF long, image
<1>3. a \in Seq(Bytes) /\ Len(a) = Len(long) /\ \A i \in 1 .. Len(long) : a[i] = f[long[i]]
  BY <1>1, MapType
<1>4. f[x] \in Bytes /\ Len(s) \in Nat
  BY LenProperties
<1>5. /\ b \in Seq(Bytes) /\ Len(b) = Len(image) + 1 /\ b[Len(image) + 1] = f[x]
      /\ \A i \in 1 .. Len(image) : b[i] = image[i]
  BY <1>2, <1>4, AppendProperties
<1> HIDE DEF a, b
<1>6. ASSUME NEW i \in 1 .. Len(a) PROVE a[i] = b[i]
  <2>1. a[i] = f[long[i]] /\ i \in 1 .. Len(s) + 1
    BY <1>1, <1>3
  <2>2. CASE i = Len(s) + 1
    <3>1. long[i] = x /\ b[i] = f[x]
      BY <1>1, <1>2, <1>5, <2>2
    <3> QED
      BY <2>1, <3>1
  <2>3. CASE i # Len(s) + 1
    <3>1. i \in 1 .. Len(s)
      BY <1>4, <2>1, <2>3
    <3>2. long[i] = s[i] /\ b[i] = f[s[i]]
      BY <1>1, <1>2, <1>5, <3>1
    <3> QED
      BY <2>1, <3>2
  <2> QED
    BY <2>2, <2>3
<1>7. a = b
  <2>1. Len(a) = Len(b)
    BY <1>1, <1>2, <1>3, <1>5
  <2> QED
    BY <1>3, <1>5, <1>6, <2>1, SeqEqual
<1> QED
  BY <1>7 DEF a, b, long, image

\* Map, one element at a time.
LEMMA MapFirst ==
  ASSUME NEW T, NEW f \in [T -> Bytes], NEW s \in Seq(T), s # <<>>
  PROVE  Map(f, s) # <<>> /\ Head(Map(f, s)) = f[Head(s)] /\ Tail(Map(f, s)) = Map(f, Tail(s))
<1> DEFINE tail == Tail(s)
           image == Map(f, s)
           a == Tail(image)
           b == Map(f, tail)
<1>1. /\ Len(s) \in Nat \ {0} /\ Head(s) = s[1] /\ tail \in Seq(T) /\ Len(tail) = Len(s) - 1
      /\ \A i \in 1 .. Len(tail) : tail[i] = s[i + 1]
  BY HeadTailProperties, EmptySeq
<1>2. image \in Seq(Bytes) /\ Len(image) = Len(s) /\ \A i \in 1 .. Len(s) : image[i] = f[s[i]]
  BY MapType
<1> HIDE DEF tail, image
<1>3. image # <<>>
  <2>1. Len(image) # 0
    BY <1>1, <1>2
  <2> QED
    BY <2>1, EmptySeq
<1>4. /\ a \in Seq(Bytes) /\ Len(a) = Len(image) - 1 /\ Head(image) = image[1]
      /\ \A i \in 1 .. Len(a) : a[i] = image[i + 1]
  BY <1>2, <1>3, HeadTailProperties
<1>5. b \in Seq(Bytes) /\ Len(b) = Len(tail) /\ \A i \in 1 .. Len(tail) : b[i] = f[tail[i]]
  <2>1. tail \in Seq(T)
    BY <1>1
  <2> QED
    BY <2>1, MapType
<1> HIDE DEF a, b
<1>6. ASSUME NEW i \in 1 .. Len(a) PROVE a[i] = b[i]
  <2>1. i \in 1 .. Len(tail) /\ i + 1 \in 1 .. Len(s)
    BY <1>1, <1>2, <1>4
  <2>2. a[i] = f[s[i + 1]] /\ b[i] = f[tail[i]] /\ tail[i] = s[i + 1]
    BY <1>1, <1>2, <1>4, <1>5, <2>1
  <2> QED
    BY <2>2
<1>7. a = b
  <2>1. Len(a) = Len(b)
    BY <1>1, <1>2, <1>4, <1>5
  <2> QED
    BY <1>4, <1>5, <1>6, <2>1, SeqEqual
<1>8. Head(image) = f[Head(s)]
  BY <1>1, <1>2, <1>4
<1> QED
  BY <1>3, <1>7, <1>8 DEF a, b, tail, image

\* A message on its way, and a stretch of messages.
Frame == [m \in Bytes |-> Cat(Encode(Len(m)), m)]
Frames(messages) == Flatten(Map(Frame, messages))

\* The bytes on their way.
Contents == [segment \in Segment |-> segment.bytes]
Payload(segments) == Flatten(Map(Contents, segments))

\* The frame of a message is its prefix and the message (do_write_message).
LEMMA FrameType == Frame \in [Bytes -> Bytes] /\ \A m \in Bytes : Frame[m] = Cat(Encode(Len(m)), m)
<1>1. \A m \in Bytes : Cat(Encode(Len(m)), m) \in Bytes
  <2> SUFFICES ASSUME NEW m \in Bytes PROVE Cat(Encode(Len(m)), m) \in Bytes
    OBVIOUS
  <2>1. Len(m) \in Nat
    BY LenProperties DEF Bytes
  <2>2. Encode(Len(m)) \in Seq(Byte)
    BY <2>1, EncodeType
  <2> QED
    BY <2>2, CatType DEF Bytes
<1> QED
  BY <1>1 DEF Frame

\* The contents of a segment are its bytes.
LEMMA ContentsType ==
  Contents \in [Segment -> Bytes] /\ \A segment \in Segment : Contents[segment] = segment.bytes
<1>1. \A segment \in Segment : segment.bytes \in Bytes
  BY DEF Segment, Bytes
<1> QED
  BY <1>1 DEF Contents

\* The laws of Frames ...
LEMMA FramesLaws ==
  ASSUME NEW ms \in Seq(Bytes)
  PROVE  /\ Frames(ms) \in Bytes
         /\ \A m \in Bytes : Frames(Append(ms, m)) = Cat(Frames(ms), Cat(Encode(Len(m)), m))
<1> DEFINE parts == Map(Frame, ms)
<1>1. parts \in Seq(Bytes)
  BY FrameType, MapType
<1>2. Flatten(parts) \in Bytes
  BY <1>1, FlattenIs, FlattenDef
<1>3. ASSUME NEW m \in Bytes PROVE Frames(Append(ms, m)) = Cat(Frames(ms), Cat(Encode(Len(m)), m))
  <2>1. Map(Frame, Append(ms, m)) = Append(parts, Frame[m])
    BY Zenon, FrameType, MapAppend
  <2>2. Frame[m] \in Bytes /\ Frame[m] = Cat(Encode(Len(m)), m)
    BY FrameType
  <2> HIDE DEF parts
  <2>3. Flatten(Append(parts, Frame[m])) = Cat(Flatten(parts), Frame[m])
    BY <1>1, <2>2, FlattenAppend
  <2> QED
    BY <2>1, <2>2, <2>3, Zenon DEF Frames, parts
<1> QED
  BY <1>2, <1>3 DEF Frames

\* The stream of some messages begins with the frame of the first.
LEMMA FramesFirst ==
  ASSUME NEW ms \in Seq(Bytes), ms # <<>>
  PROVE  Frames(ms) = Cat(Cat(Encode(Len(Head(ms))), Head(ms)), Frames(Tail(ms)))
<1> DEFINE parts == Map(Frame, ms)
<1>1. parts \in Seq(Bytes)
  BY FrameType, MapType
<1>2. parts # <<>> /\ Head(parts) = Frame[Head(ms)] /\ Tail(parts) = Map(Frame, Tail(ms))
  BY FrameType, MapFirst
<1>3. Head(ms) \in Bytes
  BY HeadTailProperties
<1> HIDE DEF parts
<1>4. Flatten(parts) = Cat(Head(parts), Flatten(Tail(parts)))
  BY <1>1, <1>2, FlattenFirst
<1>5. Frame[Head(ms)] = Cat(Encode(Len(Head(ms))), Head(ms))
  BY <1>3, FrameType
<1> QED
  BY <1>2, <1>4, <1>5, Zenon DEF Frames, parts

\* ... and of Payload.
LEMMA PayloadLaws ==
  ASSUME NEW ss \in Seq(Segment)
  PROVE  /\ Payload(ss) \in Bytes
         /\ \A s \in Segment : Payload(Append(ss, s)) = Cat(Payload(ss), s.bytes)
         /\ ss # <<>> => Payload(ss) = Cat(Head(ss).bytes, Payload(Tail(ss)))
<1> DEFINE parts == Map(Contents, ss)
<1>1. parts \in Seq(Bytes)
  BY ContentsType, MapType
<1>2. Flatten(parts) \in Bytes
  BY <1>1, FlattenIs, FlattenDef
<1>3. ASSUME NEW s \in Segment PROVE Payload(Append(ss, s)) = Cat(Payload(ss), s.bytes)
  <2>1. Map(Contents, Append(ss, s)) = Append(parts, Contents[s])
    BY ContentsType, MapAppend
  <2>2. Contents[s] \in Bytes /\ Contents[s] = s.bytes
    BY ContentsType
  <2> HIDE DEF parts
  <2>3. Flatten(Append(parts, Contents[s])) = Cat(Flatten(parts), Contents[s])
    BY <1>1, <2>2, FlattenAppend
  <2> QED
    BY <2>1, <2>2, <2>3, Zenon DEF Payload, parts
<1>4. ASSUME ss # <<>> PROVE Payload(ss) = Cat(Head(ss).bytes, Payload(Tail(ss)))
  <2>1. parts # <<>> /\ Head(parts) = Contents[Head(ss)] /\ Tail(parts) = Map(Contents, Tail(ss))
    BY <1>4, ContentsType, MapFirst
  <2>2. Contents[Head(ss)] = Head(ss).bytes
    BY <1>4, HeadTailProperties, ContentsType
  <2> HIDE DEF parts
  <2>3. Flatten(parts) = Cat(Head(parts), Flatten(Tail(parts)))
    BY <1>1, <2>1, FlattenFirst
  <2> QED
    BY <2>1, <2>2, <2>3, Zenon DEF Payload, parts
<1> QED
  BY <1>2, <1>3, <1>4 DEF Payload

\* Without messages or segments there are no bytes.
LEMMA NothingThere == Frames(<<>>) = <<>> /\ Payload(<<>>) = <<>>
<1>1. \A f : Map(f, <<>>) = <<>>
  BY DEF Map
<1> QED
  BY <1>1, FlattenNone DEF Frames, Payload

--------------------------------------------------------------------------------
(* The loop that reads messages. *)

\* Messages that send_message may be called with; their sizes fit the prefix.
Text == {m \in Bytes : Len(m) \in Sizes}

\* A reader with this in_message_len has the messages left before it.
Reads(len, stream, left) ==
  IF len = 0 THEN stream = Frames(left)
  ELSE /\ left # <<>> /\ Len(Head(left)) = len
       /\ stream = Cat(Head(left), Frames(Tail(left)))

\* Messages that send_message takes are byte sequences.
LEMMA TextType ==
  ASSUME NEW ms \in Seq(Text)
  PROVE  /\ ms \in Seq(Bytes)
         /\ ms # <<>> => Head(ms) \in Text /\ Head(ms) \in Bytes /\ Tail(ms) \in Seq(Text) /\ Tail(ms) \in Seq(Bytes)
<1>1. Text \subseteq Bytes
  BY DEF Text
<1>2. \A s \in Seq(Text) : s \in Seq(Bytes)
  BY <1>1, SeqMonotonic
<1>3. ms # <<>> => Head(ms) \in Text /\ Tail(ms) \in Seq(Text)
  BY HeadTailProperties
<1> QED
  BY <1>1, <1>2, <1>3

\* The first message may be counted to those before or to those after.
LEMMA ShiftFirst ==
  ASSUME NEW S, NEW s \in Seq(S), NEW t \in Seq(S), t # <<>>
  PROVE  Cat(Append(s, Head(t)), Tail(t)) = Cat(s, t)
<1> DEFINE h == Head(t)
           one == <<h>>
           tail == Tail(t)
<1>1. h \in S /\ tail \in Seq(S) /\ one \in Seq(S)
  BY HeadTailProperties
<1>2. Append(s, h) = Cat(s, one)
  BY <1>1, AppendIsConcat DEF Cat
<1>3. Cat(one, tail) = t
  <2>1. /\ Cat(one, tail) \in Seq(S) /\ Len(Cat(one, tail)) = Len(one) + Len(tail)
        /\ \A i \in 1 .. Len(one) + Len(tail) : Cat(one, tail)[i] = IF i <= Len(one) THEN one[i] ELSE tail[i - Len(one)]
    BY Zenon, <1>1, CatType, CatElements
  <2>2. Len(one) = 1 /\ one[1] = t[1]
    BY HeadTailProperties
  <2>3. Len(tail) = Len(t) - 1 /\ \A i \in 1 .. Len(tail) : tail[i] = t[i + 1]
    BY HeadTailProperties
  <2>4. Len(t) \in Nat \ {0}
    BY EmptySeq
  <2> HIDE DEF one, tail, h
  <2>5. Len(Cat(one, tail)) = Len(t)
    BY <2>1, <2>2, <2>3, <2>4
  <2>6. ASSUME NEW i \in 1 .. Len(t) PROVE Cat(one, tail)[i] = t[i]
    <3>1. i \in 1 .. Len(one) + Len(tail)
      BY <2>2, <2>3, <2>4
    <3>2. CASE i = 1
      BY <2>1, <2>2, <3>1, <3>2
    <3>3. CASE i # 1
      <4>1. ~ (i <= Len(one)) /\ i - Len(one) \in 1 .. Len(tail) /\ (i - Len(one)) + 1 = i
        BY <2>2, <2>3, <2>4, <3>3
      <4> QED
        BY <2>1, <2>3, <3>1, <4>1
    <3> QED
      BY <3>2, <3>3
  <2> QED
    BY <2>1, <2>5, <2>6, SeqEqual
<1> HIDE DEF one, tail, h
<1>4. Cat(Cat(s, one), tail) = Cat(s, Cat(one, tail))
  BY <1>1, CatAssoc
<1> QED
  BY Zenon, <1>2, <1>3, <1>4 DEF h, tail

\* What the reader takes as a prefix is the prefix of the next message.
LEMMA TakesPrefix ==
  ASSUME NEW buffer \in Bytes, NEW rest \in Bytes, NEW left \in Seq(Text),
         Cat(buffer, rest) = Frames(left), Len(buffer) >= PrefixSize
  PROVE  /\ left # <<>> /\ Decode(buffer) = Len(Head(left)) /\ Drop(buffer, PrefixSize) \in Bytes
         /\ Cat(Drop(buffer, PrefixSize), rest) = Cat(Head(left), Frames(Tail(left)))
<1>1. PrefixSize \in Nat \ {0} /\ Len(buffer) \in Nat
  BY LinkAssumption, LenProperties DEF Bytes
<1>2. left # <<>>
  <2>1. Len(Cat(buffer, rest)) = Len(buffer) + Len(rest) /\ Len(rest) \in Nat
    BY CatType DEF Bytes
  <2>2. left = <<>> => Cat(buffer, rest) = <<>>
    BY NothingThere
  <2>3. Len(<<>>) = 0
    BY EmptySeq
  <2> QED
    BY <1>1, <2>1, <2>2, <2>3
<1> DEFINE m == Head(left)
           later == Frames(Tail(left))
           prefix == Encode(Len(m))
<1>3. m \in Text /\ m \in Bytes /\ Tail(left) \in Seq(Bytes) /\ left \in Seq(Bytes)
  BY <1>2, TextType
<1>4. later \in Bytes
  BY Zenon, <1>3, FramesLaws
<1>5. Len(m) \in Nat /\ prefix \in Bytes /\ Len(prefix) = PrefixSize
  BY <1>3, LenProperties, EncodeType DEF Bytes
<1>6. Frames(left) = Cat(Cat(prefix, m), later)
  BY <1>2, <1>3, FramesFirst
<1> HIDE DEF m, later, prefix
<1>7. Cat(buffer, rest) = Cat(prefix, Cat(m, later)) /\ Cat(m, later) \in Bytes
  BY <1>3, <1>4, <1>5, <1>6, CatAssoc, CatType DEF Bytes
<1>8. prefix = SubSeq(buffer, 1, PrefixSize) /\ Cat(Drop(buffer, PrefixSize), rest) = Cat(m, later)
  BY <1>5, <1>7, CatSplit DEF Bytes
<1>9. PrefixSize \in 0 .. Len(buffer)
  BY <1>1
<1>10. Drop(buffer, PrefixSize) \in Bytes
  BY <1>9, CatCut DEF Bytes
<1>11. \A j \in 1 .. PrefixSize : buffer[j] = prefix[j]
  <2>1. \A j \in 1 .. PrefixSize : buffer[j] \in Byte
    BY <1>1, ElementOfSeq DEF Bytes
  <2>2. \A j \in 1 .. PrefixSize - 1 + 1 : SubSeq(buffer, 1, PrefixSize)[j] = buffer[1 + j - 1]
    BY <1>1, <2>1, SubSeqProperties
  <2> QED
    BY <1>1, <1>8, <2>2
<1>12. Decode(buffer) = Len(m)
  <2>1. Len(m) \in 0 .. Values[PrefixSize] - 1
    BY <1>3, LinkAssumption DEF Text
  <2> QED
    BY <1>11, <2>1, DecodeEncode DEF prefix
<1> QED
  BY <1>2, <1>8, <1>10, <1>12 DEF m, later

\* What the reader takes as a message is the next message.
LEMMA TakesMessage ==
  ASSUME NEW buffer \in Bytes, NEW rest \in Bytes, NEW left \in Seq(Text), left # <<>>,
         Cat(buffer, rest) = Cat(Head(left), Frames(Tail(left))),
         Len(buffer) >= Len(Head(left))
  PROVE  /\ SubSeq(buffer, 1, Len(Head(left))) = Head(left)
         /\ Drop(buffer, Len(Head(left))) \in Bytes
         /\ Cat(Drop(buffer, Len(Head(left))), rest) = Frames(Tail(left))
<1> DEFINE m == Head(left)
           later == Frames(Tail(left))
<1>1. m \in Bytes /\ Tail(left) \in Seq(Bytes)
  BY TextType
<1>2. later \in Bytes
  BY Zenon, <1>1, FramesLaws
<1> HIDE DEF m, later
<1>3. Cat(buffer, rest) = Cat(m, later) /\ Len(m) <= Len(buffer)
  <2>1. Len(m) \in Nat /\ Len(buffer) \in Nat
    BY <1>1, LenProperties DEF Bytes
  <2> QED
    BY <2>1 DEF m, later
<1>4. m = SubSeq(buffer, 1, Len(m)) /\ Cat(Drop(buffer, Len(m)), rest) = later
  BY <1>1, <1>2, <1>3, CatSplit DEF Bytes
<1>5. Len(m) \in 0 .. Len(buffer)
  BY <1>1, <1>3, LenProperties DEF Bytes
<1>6. Drop(buffer, Len(m)) \in Bytes
  BY <1>5, CatCut DEF Bytes
<1> QED
  BY <1>4, <1>6 DEF m, later

RoundState == [len : Nat, buffer : Bytes, messages : Seq(Bytes), end : {"none", "wait", "invalid"}]

\* The prefix is a number, and Drop leaves bytes.
LEMMA TakeLengthType ==
  ASSUME NEW len \in Nat, NEW buffer \in Bytes, len # 0 \/ Len(buffer) >= PrefixSize
  PROVE  TakeLength(len, buffer).len \in Nat /\ TakeLength(len, buffer).buffer \in Bytes
<1>1. PrefixSize \in Nat /\ Len(buffer) \in Nat
  BY LinkAssumption, LenProperties DEF Bytes
<1>2. CASE len # 0
  BY <1>2 DEF TakeLength
<1>3. CASE len = 0
  <2>1. PrefixSize \in 0 .. Len(buffer)
    BY <1>1, <1>3
  <2>2. Drop(buffer, PrefixSize) \in Bytes
    BY <2>1, CatCut DEF Bytes
  <2>3. \A j \in 1 .. PrefixSize : buffer[j] \in Nat
    <3>1. \A j \in 1 .. PrefixSize : buffer[j] \in Byte
      BY <1>1, <2>1, ElementOfSeq DEF Bytes
    <3> QED
      BY <3>1, LinkAssumption DEF Byte
  <2>4. PICK value : Decode(buffer) = value[PrefixSize] /\ \A j \in 0 .. PrefixSize : value[j] \in Nat
    BY <2>3, DecodeDef
  <2>5. Decode(buffer) \in Nat
    BY <1>1, <2>4
  <2> QED
    BY <1>3, <2>2, <2>5 DEF TakeLength
<1> QED
  BY <1>2, <1>3

\* A round of the loop of on_read leaves a state of the loop.
LEMMA RoundType == ASSUME NEW r \in RoundState PROVE Round(r) \in RoundState
<1>1. r.len \in Nat /\ r.buffer \in Bytes /\ r.messages \in Seq(Bytes) /\ PrefixSize \in Nat
  BY LinkAssumption DEF RoundState
<1>2. Len(r.buffer) \in Nat
  BY <1>1, LenProperties DEF Bytes
<1>3. CASE r.end # "none" \/ (r.len = 0 /\ Len(r.buffer) < PrefixSize)
  BY <1>3 DEF Round, RoundState
<1>4. CASE r.end = "none" /\ ~ (r.len = 0 /\ Len(r.buffer) < PrefixSize)
  <2> DEFINE t == TakeLength(r.len, r.buffer)
  <2>1. t.len \in Nat /\ t.buffer \in Bytes
    BY <1>1, <1>2, <1>4, TakeLengthType
  <2> HIDE DEF t
  <2>2. Len(t.buffer) \in Nat
    BY <2>1, LenProperties DEF Bytes
  <2>3. CASE t.len = 0
    <3>1. Round(r) = [r EXCEPT !.len = 0, !.buffer = t.buffer, !.end = "invalid"]
      BY <1>4, <2>3 DEF Round, t
    <3>2. [r EXCEPT !.len = 0, !.buffer = t.buffer, !.end = "invalid"] \in RoundState
      BY Zenon, <2>1 DEF RoundState
    <3> QED
      BY <3>1, <3>2, Zenon
  <2>4. CASE t.len # 0 /\ Len(t.buffer) < t.len
    <3>1. Round(r) = [r EXCEPT !.len = t.len, !.buffer = t.buffer, !.end = "wait"]
      BY <1>4, <2>4 DEF Round, t
    <3>2. [r EXCEPT !.len = t.len, !.buffer = t.buffer, !.end = "wait"] \in RoundState
      BY Zenon, <2>1 DEF RoundState
    <3> QED
      BY <3>1, <3>2, Zenon
  <2>5. CASE t.len # 0 /\ ~ (Len(t.buffer) < t.len)
    <3> DEFINE m == SubSeq(t.buffer, 1, t.len)
               rest == Drop(t.buffer, t.len)
    <3>1. Round(r) = [len |-> 0, buffer |-> rest, end |-> "none", messages |-> Append(r.messages, m)]
      BY <1>4, <2>5 DEF Round, t
    <3>2. t.len \in 0 .. Len(t.buffer)
      BY <2>1, <2>2, <2>5
    <3>3. m \in Bytes /\ rest \in Bytes
      BY <2>1, <3>2, CatCut DEF Bytes
    <3> HIDE DEF m, rest
    <3>4. Append(r.messages, m) \in Seq(Bytes)
      BY <1>1, <3>3, AppendProperties
    <3> QED
      BY <3>1, <3>3, <3>4 DEF RoundState
  <2> QED
    BY <2>3, <2>4, <2>5
<1> QED
  BY <1>3, <1>4

\* What the loop has read, and what is left, are the messages that were there;
\* it ends at an invalid length only before a message without bytes.
InStep(r, messages, rest) ==
  \E left \in Seq(Text) :
    /\ Cat(r.messages, left) = messages
    /\ r.end # "invalid" => Reads(r.len, Cat(r.buffer, rest), left)
    /\ r.end = "invalid" => left # <<>> /\ Len(Head(left)) = 0

\* A round takes from the stream what it adds to the messages, or nothing.
LEMMA RoundInStep ==
  ASSUME NEW r \in RoundState, NEW messages, NEW rest \in Bytes, InStep(r, messages, rest)
  PROVE  InStep(Round(r), messages, rest)
<1>1. r.len \in Nat /\ r.buffer \in Bytes /\ r.messages \in Seq(Bytes) /\ PrefixSize \in Nat
  BY LinkAssumption DEF RoundState
<1>2. Len(r.buffer) \in Nat
  BY <1>1, LenProperties DEF Bytes
<1>3. CASE r.end # "none"
  BY <1>3 DEF Round
<1>4. CASE r.end = "none" /\ r.len = 0 /\ Len(r.buffer) < PrefixSize
  <2>1. Round(r) = [r EXCEPT !.end = "wait"]
    BY <1>4 DEF Round
  <2>2. Round(r).len = r.len /\ Round(r).buffer = r.buffer /\ Round(r).messages = r.messages /\ Round(r).end = "wait"
    BY <2>1 DEF RoundState
  <2> QED
    BY <1>4, <2>2 DEF InStep
<1>5. CASE r.end = "none" /\ ~ (r.len = 0 /\ Len(r.buffer) < PrefixSize)
  <2>1. PICK left \in Seq(Text) : Cat(r.messages, left) = messages /\ Reads(r.len, Cat(r.buffer, rest), left)
    BY <1>5 DEF InStep
  <2> DEFINE t == TakeLength(r.len, r.buffer)
  <2>2. t.len \in Nat /\ t.buffer \in Bytes
    BY <1>1, <1>2, <1>5, TakeLengthType
  <2>3. left # <<>> /\ t.len = Len(Head(left)) /\ Cat(t.buffer, rest) = Cat(Head(left), Frames(Tail(left)))
    <3>1. CASE r.len = 0
      <4>1. Cat(r.buffer, rest) = Frames(left) /\ Len(r.buffer) >= PrefixSize
        BY <1>1, <1>2, <1>5, <2>1, <3>1 DEF Reads
      <4>2. t.len = Decode(r.buffer) /\ t.buffer = Drop(r.buffer, PrefixSize)
        BY <3>1 DEF TakeLength
      <4> QED
        BY <1>1, <4>1, <4>2, TakesPrefix
    <3>2. CASE r.len # 0
      BY <2>1, <3>2 DEF TakeLength, Reads
    <3> QED
      BY <3>1, <3>2
  <2> HIDE DEF t
  <2>4. Len(t.buffer) \in Nat
    BY <2>2, LenProperties DEF Bytes
  <2>5. CASE t.len = 0
    <3>1. Round(r) = [r EXCEPT !.len = 0, !.buffer = t.buffer, !.end = "invalid"]
      BY <1>5, <2>5 DEF Round, t
    <3>2. Round(r).messages = r.messages /\ Round(r).end = "invalid"
      BY <3>1 DEF RoundState
    <3> QED
      BY <2>1, <2>3, <2>5, <3>2 DEF InStep
  <2>6. CASE t.len # 0 /\ Len(t.buffer) < t.len
    <3>1. Round(r) = [r EXCEPT !.len = t.len, !.buffer = t.buffer, !.end = "wait"]
      BY <1>5, <2>6 DEF Round, t
    <3>2. Round(r).len = t.len /\ Round(r).buffer = t.buffer /\ Round(r).messages = r.messages /\ Round(r).end = "wait"
      BY <3>1 DEF RoundState
    <3>3. Reads(t.len, Cat(t.buffer, rest), left)
      BY <2>3, <2>6 DEF Reads
    <3> QED
      BY <2>1, <3>2, <3>3 DEF InStep
  <2>7. CASE t.len # 0 /\ ~ (Len(t.buffer) < t.len)
    <3> DEFINE m == SubSeq(t.buffer, 1, t.len)
               after == Drop(t.buffer, t.len)
    <3>1. Round(r) = [len |-> 0, buffer |-> after, end |-> "none", messages |-> Append(r.messages, m)]
      BY <1>5, <2>7 DEF Round, t
    <3>2. Len(t.buffer) >= Len(Head(left))
      BY <2>2, <2>3, <2>4, <2>7
    <3>3. m = Head(left) /\ Cat(after, rest) = Frames(Tail(left))
      BY <2>2, <2>3, <3>2, TakesMessage
    <3> HIDE DEF m, after
    <3>4. Round(r).len = 0 /\ Round(r).buffer = after /\ Round(r).end = "none" /\ Round(r).messages = Append(r.messages, m)
      BY <3>1
    <3>5. left \in Seq(Bytes) /\ Tail(left) \in Seq(Text)
      BY <2>3, TextType
    <3>6. Cat(Append(r.messages, m), Tail(left)) = Cat(r.messages, left)
      BY <1>1, <2>3, <3>3, <3>5, ShiftFirst
    <3>7. Reads(0, Cat(after, rest), Tail(left))
      BY <3>3 DEF Reads
    <3> QED
      BY Zenon, <2>1, <3>4, <3>5, <3>6, <3>7 DEF InStep
  <2> QED
    BY <2>5, <2>6, <2>7
<1> QED
  BY <1>3, <1>4, <1>5

\* The loop is its rounds, one after the other.
LEMMA ReadLoopDef ==
  ASSUME NEW len \in Nat, NEW buffer \in Bytes
  PROVE  \E rounds :
           /\ ReadLoop(len, buffer) = rounds[Len(buffer) + 1]
           /\ rounds[0] = [len |-> len, buffer |-> buffer, messages |-> <<>>, end |-> "none"]
           /\ \A n \in 1 .. Len(buffer) + 1 : rounds[n] = Round(rounds[n - 1])
           /\ \A n \in 0 .. Len(buffer) + 1 : rounds[n] \in RoundState
<1> DEFINE max == Len(buffer) + 1
           start == [len |-> len, buffer |-> buffer, messages |-> <<>>, end |-> "none"]
           step == [n \in 1 .. max |-> [x \in RoundState |-> Round(x)]]
           rounds == CHOOSE g : g = [n \in 0 .. max |-> IF n = 0 THEN start ELSE Round(g[n - 1])]
<1>0. ReadLoop(len, buffer) = rounds[max]
  BY DEF ReadLoop
<1>1. \A n \in 1 .. max : \A x \in RoundState : step[n][x] = Round(x)
  OBVIOUS
<1>2. start \in RoundState
  BY EmptySeq DEF RoundState
<1>3. max \in Nat
  BY LenProperties DEF Bytes
<1> HIDE DEF step, max, start
<1>4. \A n \in 1 .. max : \A x \in RoundState : step[n][x] \in RoundState
  BY <1>1, RoundType
<1>5. PICK f : /\ Iterates(f, start, step, max)
               /\ \A n \in 0 .. max : n # 0 => f[n - 1] \in RoundState
  BY Zenon, <1>2, <1>3, <1>4, Recursion
<1>6. f = [n \in 0 .. max |-> IF n = 0 THEN start ELSE Round(f[n - 1])]
  <2>1. \A n \in 0 .. max : n # 0 => step[n][f[n - 1]] = Round(f[n - 1])
    BY <1>1, <1>3, <1>5
  <2>2. [n \in 0 .. max |-> IF n = 0 THEN start ELSE Round(f[n - 1])]
          = [n \in 0 .. max |-> IF n = 0 THEN start ELSE step[n][f[n - 1]]]
    BY <2>1
  <2> QED
    BY <1>5, <2>2, Zenon DEF Iterates
<1>7. rounds = [n \in 0 .. max |-> IF n = 0 THEN start ELSE Round(rounds[n - 1])]
  BY Zenon, <1>6
<1> HIDE DEF rounds
<1>8. rounds[0] = start
  BY <1>3, <1>7
<1>9. \A n \in 1 .. max : rounds[n] = Round(rounds[n - 1])
  BY <1>3, <1>7
<1> DEFINE S == {n \in 0 .. max : rounds[n] \in RoundState}
<1>10. 0 \in S
  BY <1>2, <1>3, <1>8
<1>11. \A n \in 1 .. max : n - 1 \in S => n \in S
  BY <1>3, <1>9, RoundType
<1> HIDE DEF S
<1>12. 0 .. max \subseteq S
  BY <1>3, <1>10, <1>11, UpTo
<1> QED
  BY <1>0, <1>8, <1>9, <1>12 DEF S, start, max

\* The loop of on_read ends in a state of the loop.
LEMMA ReadLoopType == ASSUME NEW len \in Nat, NEW buffer \in Bytes PROVE ReadLoop(len, buffer) \in RoundState
<1>1. Len(buffer) + 1 \in 0 .. Len(buffer) + 1
  BY LenProperties DEF Bytes
<1> QED
  BY Zenon, <1>1, ReadLoopDef

\* on_read takes from the buffer messages that were written, whole and in order,
\* however the stream was divided, and knows where it is in the next one.
LEMMA ReadLoopReads ==
  ASSUME NEW len \in Nat, NEW buffer \in Bytes, NEW rest \in Bytes, NEW left \in Seq(Text),
         Reads(len, Cat(buffer, rest), left)
  PROVE  InStep(ReadLoop(len, buffer), left, rest)
<1> DEFINE max == Len(buffer) + 1
<1>1. PICK rounds :
        /\ ReadLoop(len, buffer) = rounds[max]
        /\ rounds[0] = [len |-> len, buffer |-> buffer, messages |-> <<>>, end |-> "none"]
        /\ \A n \in 1 .. max : rounds[n] = Round(rounds[n - 1])
        /\ \A n \in 0 .. max : rounds[n] \in RoundState
  BY ReadLoopDef
<1>2. max \in Nat
  BY LenProperties DEF Bytes
<1> HIDE DEF max
<1> DEFINE S == {n \in 0 .. max : InStep(rounds[n], left, rest)}
<1>3. 0 \in S
  <2>1. rounds[0].len = len /\ rounds[0].buffer = buffer /\ rounds[0].messages = <<>> /\ rounds[0].end = "none"
    BY <1>1
  <2>2. Cat(<<>>, left) = left
    BY CatNone
  <2>3. InStep(rounds[0], left, rest)
    BY <2>1, <2>2 DEF InStep
  <2> QED
    BY <1>2, <2>3
<1>4. \A n \in 1 .. max : n - 1 \in S => n \in S
  <2> SUFFICES ASSUME NEW n \in 1 .. max, n - 1 \in S PROVE InStep(rounds[n], left, rest)
    BY <1>2
  <2>1. n - 1 \in 0 .. max /\ InStep(rounds[n - 1], left, rest)
    OBVIOUS
  <2>2. rounds[n - 1] \in RoundState /\ rounds[n] = Round(rounds[n - 1])
    BY <1>1, <2>1
  <2> QED
    BY <2>1, <2>2, RoundInStep
<1> HIDE DEF S
<1>5. 0 .. max \subseteq S
  BY Zenon, <1>2, <1>3, <1>4, UpTo
<1>6. max \in 0 .. max
  BY <1>2
<1> QED
  BY <1>1, <1>5, <1>6 DEF S

--------------------------------------------------------------------------------
(* Type correctness: every handler leaves a connection a connection.        *)

StreamType == net \in [Peers -> Seq(Segment)]

\* The fields of a connection.
LEMMA ConnectionFields ==
  ASSUME NEW c \in Connection
  PROVE  /\ c.dropped \in BOOLEAN /\ c.shutting_down \in BOOLEAN /\ c.is_writing \in BOOLEAN
         /\ c.message_queue \in Seq(Bytes) /\ c.chunk \in Bytes /\ c.read_buffer \in Bytes
         /\ c.in_message_len \in Nat /\ c.accepted \in Seq(Bytes) /\ c.processed \in Seq(Bytes)
         /\ c.inbound \in {"none", "ssl_handshake", "ian_handshake", "read"}
         /\ c.inbound_ec \in OpStates /\ c.write_ec \in OpStates
         /\ c.outbound \in {"none", "ian_handshake", "message"}
         /\ c.shutdown_ec \in {"idle", "pending", "done"}
BY DEF Connection, Bytes

\* There are two peers.
LEMMA OtherPeer == ASSUME NEW p \in Peers PROVE Other(p) \in Peers /\ Other(Other(p)) = p /\ Other(p) # p
BY DEF Peers, Other

\* A step of one peer leaves the other one's connection.
LEMMA BecomesType ==
  ASSUME conn \in [Peers -> Connection], NEW p \in Peers, NEW c \in Connection, Becomes(p, c)
  PROVE  conn' \in [Peers -> Connection] /\ conn'[p] = c /\ conn'[Other(p)] = conn[Other(p)]
<1>1. Other(p) \in Peers /\ Other(p) # p
  BY OtherPeer
<1> QED
  BY <1>1 DEF Becomes

\* The reads and writes that start and end.
LEMMA EndsType ==
  ASSUME NEW c \in Connection
  PROVE  /\ EndRead(c) \in Connection /\ EndWrite(c) \in Connection
         /\ \A handler \in {"ian_handshake", "read"} : StartRead(c, handler) \in Connection
<1>1. <<>> \in Seq(Byte)
  BY EmptySeq
<1>2. "idle" \in OpStates /\ "pending" \in OpStates
  BY DEF OpStates
<1>3. EndRead(c) \in Connection
  BY Zenon, <1>1, <1>2 DEF Connection, EndRead
<1>4. EndWrite(c) \in Connection
  BY Zenon, <1>2 DEF Connection, EndWrite
<1>5. \A handler \in {"ian_handshake", "read"} : StartRead(c, handler) \in Connection
  BY Zenon, <1>1, <1>2 DEF Connection, StartRead
<1> QED
  BY <1>3, <1>4, <1>5

\* What is added to the stream of a peer.
LEMMA StreamGrows ==
  ASSUME TypeOK, NEW q \in Peers, NEW segments \in Seq(Segment), net' = [net EXCEPT ![q] = segments]
  PROVE  StreamType'
BY DEF TypeOK, StreamType

\* The prefix and the payload are bytes.
LEMMA PrefixType ==
  ASSUME NEW m \in Bytes
  PROVE  Encode(Len(m)) \in Bytes /\ Encode(Len(m)) \o m \in Bytes /\ Len(Encode(Len(m))) = PrefixSize
<1>1. Len(m) \in Nat
  BY LenProperties DEF Bytes
<1>2. Encode(Len(m)) \in Seq(Byte) /\ Len(Encode(Len(m))) = PrefixSize
  BY <1>1, EncodeType
<1>3. Cat(Encode(Len(m)), m) \in Bytes
  BY <1>2, CatType DEF Bytes
<1> QED
  BY <1>2, <1>3 DEF Cat, Bytes

\* The records of a message, in either form, carry its frame.
LEMMA RecordsAre ==
  ASSUME NEW m \in Bytes, NEW records \in Records(m)
  PROVE  \/ records = <<[kind |-> "tls", bytes |-> Cat(Encode(Len(m)), m)]>>
         \/ /\ m # <<>>
            /\ records = <<[kind |-> "tls", bytes |-> Encode(Len(m))], [kind |-> "tls", bytes |-> m]>>
BY DEF Records, Cat

\* A message is written as segments.
LEMMA RecordsType == ASSUME NEW m \in Bytes, NEW records \in Records(m) PROVE records \in Seq(Segment)
<1> DEFINE a == [kind |-> "tls", bytes |-> Cat(Encode(Len(m)), m)]
           b == [kind |-> "tls", bytes |-> Encode(Len(m))]
           d == [kind |-> "tls", bytes |-> m]
<1>1. Cat(Encode(Len(m)), m) \in Seq(Byte) /\ Encode(Len(m)) \in Seq(Byte) /\ m \in Seq(Byte)
  BY PrefixType DEF Cat, Bytes
<1>2. a \in Segment /\ b \in Segment /\ d \in Segment
  BY <1>1 DEF Segment
<1>3. records = <<a>> \/ records = <<b, d>>
  BY RecordsAre
<1> HIDE DEF a, b, d
<1>4. <<a>> \in Seq(Segment) /\ <<b, d>> \in Seq(Segment)
  BY <1>2
<1> QED
  BY Zenon, <1>3, <1>4

\* The part of a segment that is left is a segment.
LEMMA ConsumeType ==
  ASSUME NEW segments \in Seq(Segment), segments # <<>>, NEW n \in 0 .. Len(Head(segments).bytes)
  PROVE  Consume(segments, n) \in Seq(Segment)
<1>1. Head(segments) \in Segment /\ Tail(segments) \in Seq(Segment) /\ Head(segments) = segments[1]
  BY HeadTailProperties
<1>2. Len(segments) \in Nat /\ Len(segments) # 0
  BY LenProperties, EmptySeq
<1>3. CASE n = Len(Head(segments).bytes)
  BY <1>1, <1>3 DEF Consume
<1>4. CASE n # Len(Head(segments).bytes)
  <2> DEFINE head == segments[1]
             less == Drop(head.bytes, n)
             rest == [head EXCEPT !.bytes = less]
  <2>1. Consume(segments, n) = [segments EXCEPT ![1] = rest]
    BY <1>4 DEF Consume
  <2>2. head.bytes \in Seq(Byte)
    BY <1>1 DEF Segment
  <2>3. less \in Seq(Byte)
    BY <1>1, <2>2, CatCut
  <2>4. rest \in Segment
    BY <1>1, <2>3 DEF Segment
  <2> HIDE DEF rest
  <2>5. 1 \in 1 .. Len(segments)
    BY <1>2
  <2>6. [segments EXCEPT ![1] = rest] \in Seq(Segment)
    BY <2>4, <2>5, ExceptSeq
  <2> QED
    BY <2>1, <2>6
<1> QED
  BY <1>3, <1>4

\* An operation fails with an error code that is not ok.
LEMMA FailuresAre == ASSUME NEW p \in Peers PROVE Failures(p) \subseteq Results \ {"ok"}
BY DEF Failures, Results

\* What a completed operation leaves.
LEMMA CompletedType ==
  ASSUME NEW c \in Connection, NEW ec \in Results
  PROVE  /\ [c EXCEPT !.inbound_ec = ec] \in Connection
         /\ [c EXCEPT !.write_ec = ec] \in Connection
         /\ [c EXCEPT !.shutdown_ec = "done"] \in Connection
         /\ [c EXCEPT !.shutdown_ec = "idle", !.dropped = TRUE] \in Connection
<1>1. ec \in OpStates
  BY DEF OpStates
<1>2. [c EXCEPT !.inbound_ec = ec] \in Connection
  BY Zenon, <1>1 DEF Connection
<1>3. [c EXCEPT !.write_ec = ec] \in Connection
  BY Zenon, <1>1 DEF Connection
<1>4. [c EXCEPT !.shutdown_ec = "done"] \in Connection
  BY Zenon DEF Connection
<1>5. [c EXCEPT !.shutdown_ec = "idle", !.dropped = TRUE] \in Connection
  BY Zenon DEF Connection
<1> QED
  BY <1>2, <1>3, <1>4, <1>5

\* The n-th message: n % Base in every byte.
LEMMA MessageType ==
  ASSUME NEW size \in Sizes, NEW n \in Nat
  PROVE  [k \in 1 .. size |-> n % Base] \in Text /\ Len([k \in 1 .. size |-> n % Base]) = size
<1>1. Base \in Nat \ {0} /\ size \in 0 .. Values[PrefixSize] - 1 /\ size \in Nat
  BY LinkAssumption
<1>2. n % Base \in Byte
  BY <1>1 DEF Byte
<1> DEFINE b == n % Base
           m == [k \in 1 .. size |-> b]
<1> HIDE DEF b
<1>3. m \in Seq(Byte) /\ Len(m) = size
  BY <1>1, <1>2 DEF b
<1> QED
  BY <1>1, <1>3 DEF Text, Bytes, b

\* The connection that on_ian_handshake and on_read leave when they read on.
LEMMA ReadOnType ==
  ASSUME NEW c \in Connection, NEW len \in Nat, NEW buffer \in Bytes, NEW messages \in Seq(Bytes)
  PROVE  /\ [c EXCEPT !.in_message_len = len, !.read_buffer = buffer] \in Connection
         /\ [c EXCEPT !.in_message_len = len, !.read_buffer = buffer, !.processed = @ \o messages] \in Connection
<1> DEFINE all == Cat(c.processed, messages)
<1>1. c.processed \in Seq(Bytes)
  BY ConnectionFields
<1>2. all \in Seq(Seq(Byte))
  BY Zenon, <1>1, CatType DEF Bytes
<1>3. [c EXCEPT !.in_message_len = len, !.read_buffer = buffer] \in Connection
  BY Zenon DEF Connection, Bytes
<1>4. [c EXCEPT !.in_message_len = len, !.read_buffer = buffer, !.processed = c.processed \o messages]
        = [c EXCEPT !.in_message_len = len, !.read_buffer = buffer, !.processed = all]
  BY DEF Cat
<1> HIDE DEF all
<1>5. [c EXCEPT !.in_message_len = len, !.read_buffer = buffer, !.processed = all] \in Connection
  BY Zenon, <1>2 DEF Connection, Bytes
<1> QED
  BY <1>3, <1>4, <1>5

\* Every step keeps the types.
LEMMA NextType == TypeOK /\ [Next]_vars => TypeOK'
\* abort() keeps the types.
<1>AbortType. ASSUME TypeOK, NEW p \in Peers, NEW c \in Connection, Abort(p, c)
     PROVE  conn' \in [Peers -> Connection] /\ StreamType'
  <2> USE <1>AbortType
  <2>1. [c EXCEPT !.dropped = TRUE, !.message_queue = <<>>] \in Connection
    BY Zenon, EmptySeq DEF Connection
  <2> DEFINE d == IF c.dropped THEN c ELSE [c EXCEPT !.dropped = TRUE, !.message_queue = <<>>]
  <2>2. d \in Connection /\ Becomes(p, d)
    BY <2>1 DEF Abort
  <2> HIDE DEF d
  <2>3. conn' \in [Peers -> Connection]
    BY Zenon, <2>2, BecomesType DEF TypeOK
  <2> QED
    BY <2>3 DEF Abort, TypeOK, StreamType
\* shutdown() keeps the types.
<1>ShutdownType. ASSUME TypeOK, NEW p \in Peers, NEW c \in Connection, Shutdown(p, c)
     PROVE  conn' \in [Peers -> Connection] /\ StreamType'
  <2> USE <1>ShutdownType
  <2>1. CASE c.dropped \/ c.shutting_down
    <3>1. Becomes(p, c) /\ UNCHANGED net
      BY <2>1 DEF Shutdown
    <3>2. conn' \in [Peers -> Connection]
      BY Zenon, <3>1, BecomesType DEF TypeOK
    <3> QED
      BY <3>1, <3>2 DEF TypeOK, StreamType
  <2>2. CASE ~ (c.dropped \/ c.shutting_down)
    <3> DEFINE d == [c EXCEPT !.shutting_down = TRUE, !.shutdown_ec = "pending", !.message_queue = <<>>]
               close == [kind |-> "close", bytes |-> <<>>]
    <3>1. d \in Connection
      BY Zenon, EmptySeq DEF Connection
    <3>2. Becomes(p, d) /\ net' = [net EXCEPT ![Other(p)] = Append(@, close)]
      BY <2>2 DEF Shutdown
    <3>3. close \in Segment
      BY EmptySeq DEF Segment
    <3> HIDE DEF d, close
    <3>4. conn' \in [Peers -> Connection]
      BY <3>1, <3>2, BecomesType DEF TypeOK
    <3>5. Other(p) \in Peers /\ net[Other(p)] \in Seq(Segment)
      BY OtherPeer DEF TypeOK
    <3>6. Append(net[Other(p)], close) \in Seq(Segment)
      BY <3>3, <3>5, AppendProperties
    <3>7. StreamType'
      BY Zenon, <3>2, <3>5, <3>6, StreamGrows
    <3> QED
      BY <3>4, <3>7
  <2> QED
    BY <2>1, <2>2
\* handle_read_error and handle_write_error keep the types.
<1>HandleErrorType. ASSUME TypeOK, NEW p \in Peers, NEW c \in Connection, NEW ec \in Results, ec # "ok", HandleError(p, c, ec)
     PROVE  conn' \in [Peers -> Connection] /\ StreamType'
  <2> USE <1>HandleErrorType
  <2>1. CASE ec = "reset"
    BY <2>1, <1>AbortType DEF HandleError
  <2>2. CASE ec = "canceled"
    <3>1. Becomes(p, c) /\ UNCHANGED net
      BY <2>2 DEF HandleError
    <3>2. conn' \in [Peers -> Connection]
      BY Zenon, <3>1, BecomesType DEF TypeOK
    <3> QED
      BY <3>1, <3>2 DEF TypeOK, StreamType
  <2>3. CASE ec = "error"
    BY <2>3, <1>ShutdownType DEF HandleError
  <2> QED
    BY <2>1, <2>2, <2>3 DEF Results
\* Clear bytes join the stream as a segment, or the last one.
<1>FlowType. ASSUME NEW segments \in Seq(Segment), NEW bytes \in Bytes
     PROVE  Flow(segments, bytes) \in Seq(Segment)
  <2>1. CASE segments # <<>> /\ segments[Len(segments)].kind = "clear"
    <3> DEFINE n == Len(segments)
               last == segments[n]
               more == Cat(last.bytes, bytes)
    <3>1. n \in 1 .. Len(segments) /\ last \in Segment
      BY <2>1, LenProperties, EmptySeq, ElementOfSeq
    <3>2. last.bytes \in Seq(Byte)
      BY <3>1 DEF Segment
    <3>3. more \in Seq(Byte)
      BY Zenon, <3>2, CatType DEF Bytes
    <3>4. [last EXCEPT !.bytes = more] \in Segment
      BY Zenon, <3>1, <3>3 DEF Segment
    <3>5. Flow(segments, bytes) = [segments EXCEPT ![n] = [last EXCEPT !.bytes = more]]
      BY <2>1 DEF Flow, Cat
    <3> HIDE DEF n, last, more
    <3>6. [segments EXCEPT ![n] = [last EXCEPT !.bytes = more]] \in Seq(Segment)
      BY <3>1, <3>4, ExceptSeq
    <3> QED
      BY <3>5, <3>6
  <2>2. CASE ~ (segments # <<>> /\ segments[Len(segments)].kind = "clear")
    <3> DEFINE s == [kind |-> "clear", bytes |-> bytes]
    <3>1. s \in Segment
      BY DEF Segment, Bytes
    <3>2. Flow(segments, bytes) = Append(segments, s)
      BY <2>2 DEF Flow
    <3> HIDE DEF s
    <3> QED
      BY <3>1, <3>2, AppendProperties
  <2> QED
    BY <2>1, <2>2
\* Starting a write keeps the types.
<1>AsyncWriteType. ASSUME TypeOK, NEW p \in Peers, NEW c \in Connection, NEW handler \in {"ian_handshake", "message"},
            NEW m \in Bytes, NEW safe \in BOOLEAN, AsyncWrite(p, c, handler, m, safe)
     PROVE  conn' \in [Peers -> Connection] /\ StreamType'
  <2> USE <1>AsyncWriteType
  <2> DEFINE d == [c EXCEPT !.outbound = handler, !.write_ec = "pending"]
  <2>1. d \in Connection /\ Becomes(p, d)
    BY Zenon DEF Connection, OpStates, AsyncWrite
  <2> HIDE DEF d
  <2>2. conn' \in [Peers -> Connection]
    BY Zenon, <2>1, BecomesType DEF TypeOK
  <2>3. Other(p) \in Peers /\ net[Other(p)] \in Seq(Segment)
    BY OtherPeer DEF TypeOK
  <2>4. CASE c.dropped
    BY <2>2, <2>4 DEF AsyncWrite, TypeOK, StreamType
  <2>5. CASE ~c.dropped /\ safe
    <3>1. PICK records \in Records(m) : net' = [net EXCEPT ![Other(p)] = @ \o records]
      BY <2>5 DEF AsyncWrite
    <3>2. net[Other(p)] \o records \in Seq(Segment)
      BY <2>3, RecordsType, ConcatProperties
    <3>3. net' = [net EXCEPT ![Other(p)] = net[Other(p)] \o records]
      BY <3>1
    <3> QED
      BY Zenon, <2>2, <2>3, <3>2, <3>3, StreamGrows
  <2>6. CASE ~c.dropped /\ ~safe
    <3> DEFINE more == Flow(net[Other(p)], Encode(Len(m)) \o m)
    <3>1. net' = [net EXCEPT ![Other(p)] = more]
      BY <2>6 DEF AsyncWrite
    <3>2. more \in Seq(Segment)
      BY <2>3, PrefixType, <1>FlowType
    <3> HIDE DEF more
    <3> QED
      BY Zenon, <2>2, <2>3, <3>1, <3>2, StreamGrows
  <2> QED
    BY <2>4, <2>5, <2>6
\* Taking the next message from the queue keeps the types.
<1>WriteNextType. ASSUME TypeOK, NEW p \in Peers, NEW c \in Connection, WriteNext(p, c)
     PROVE  conn' \in [Peers -> Connection] /\ StreamType'
  <2> USE <1>WriteNextType
  <2>0. c.message_queue \in Seq(Bytes)
    BY ConnectionFields
  <2>1. CASE c.message_queue # <<>>
    <3> DEFINE d == [c EXCEPT !.message_queue = Tail(c.message_queue)]
               m == Head(c.message_queue)
    <3>1. m \in Bytes /\ Tail(c.message_queue) \in Seq(Seq(Byte))
      BY <2>0, <2>1, HeadTailProperties DEF Bytes
    <3>2. d \in Connection
      BY Zenon, <3>1 DEF Connection
    <3>3. AsyncWrite(p, d, "message", m, safe_link[p])
      BY <2>1 DEF WriteNext, DoWriteMessage
    <3>4. safe_link[p] \in BOOLEAN
      BY DEF TypeOK
    <3> HIDE DEF d, m
    <3> QED
      BY <3>1, <3>2, <3>3, <3>4, <1>AsyncWriteType
  <2>2. CASE c.message_queue = <<>>
    <3> DEFINE d == [c EXCEPT !.is_writing = FALSE]
    <3>1. d \in Connection /\ Becomes(p, d) /\ UNCHANGED net
      BY Zenon, <2>2 DEF WriteNext, Connection
    <3> HIDE DEF d
    <3>2. conn' \in [Peers -> Connection]
      BY Zenon, <3>1, BecomesType DEF TypeOK
    <3> QED
      BY <3>1, <3>2 DEF TypeOK, StreamType
  <2> QED
    BY <2>1, <2>2
\* What the SSL stream has read too much leaves a stream.
<1>OverreadType. ASSUME NEW p \in Peers, NEW segments \in Seq(Segment), NEW rest \in Overread(p, segments)
     PROVE  rest \in Seq(Segment)
  <2>1. CASE rest = segments
    BY <2>1
  <2>2. CASE rest # segments
    <3>1. PICK n \in 1 .. Len(Head(segments).bytes) : segments # <<>> /\ rest = Consume(segments, n)
      BY <2>2 DEF Overread
    <3>2. Head(segments) \in Segment
      BY <3>1, HeadTailProperties
    <3>3. Len(Head(segments).bytes) \in Nat
      BY <3>2, LenProperties DEF Segment
    <3>4. n \in 0 .. Len(Head(segments).bytes)
      BY <3>3
    <3> QED
      BY <3>1, <3>4, ConsumeType
  <2> QED
    BY <2>1, <2>2
\* A completed read keeps the types.
<1>ReceivedType. ASSUME TypeOK, NEW p \in Peers, NEW bytes \in Bytes, Received(p, bytes)
     PROVE  conn' \in [Peers -> Connection]
  <2> USE <1>ReceivedType
  <2> DEFINE d == [conn[p] EXCEPT !.inbound_ec = "ok", !.chunk = bytes]
  <2>1. conn[p] \in Connection /\ bytes \in Seq(Byte) /\ Becomes(p, d)
    BY DEF TypeOK, Bytes, Received
  <2>2. d \in Connection
    BY Zenon, <2>1 DEF Connection, OpStates, Results
  <2> HIDE DEF d
  <2> QED
    BY Zenon, <2>1, <2>2, BecomesType DEF TypeOK
\* A read of the SSL stream keeps the types.
<1>ReadSafeType. ASSUME TypeOK, NEW p \in Peers, net[p] # <<>>, ReadSafe(p)
     PROVE  conn' \in [Peers -> Connection] /\ StreamType'
  <2> USE <1>ReadSafeType
  <2> DEFINE c == conn[p]
             segment == Head(net[p])
  <2>1. c \in Connection /\ net[p] \in Seq(Segment)
    BY DEF TypeOK
  <2>2. segment \in Segment
    BY <2>1, HeadTailProperties
  <2>3. segment.bytes \in Seq(Byte) /\ segment.kind \in {"tls", "clear", "close"}
    BY <2>2 DEF Segment
  <2>4. Len(segment.bytes) \in Nat
    BY <2>3, LenProperties
  <2>5. CASE segment.kind = "tls"
    <3>1. PICK n \in Portions(c, segment) :
            /\ Received(p, SubSeq(segment.bytes, 1, n))
            /\ \E rest \in Overread(p, Consume(net[p], n)) : net' = [net EXCEPT ![p] = rest]
      BY Zenon, <2>5 DEF ReadSafe
    <3>2. n \in 0 .. Len(segment.bytes)
      BY <2>4 DEF Portions
    <3>3. SubSeq(segment.bytes, 1, n) \in Bytes
      BY <2>3, <3>2, CatCut DEF Bytes
    <3>4. PICK rest \in Overread(p, Consume(net[p], n)) : net' = [net EXCEPT ![p] = rest]
      BY Zenon, <3>1
    <3>5. Consume(net[p], n) \in Seq(Segment)
      BY <2>1, <3>2, ConsumeType
    <3>6. rest \in Seq(Segment)
      BY <3>5, <1>OverreadType
    <3> QED
      BY Zenon, <3>1, <3>3, <3>4, <3>6, <1>ReceivedType, StreamGrows
  <2>6. CASE segment.kind # "tls"
    <3>1. PICK ec \in {"error", "reset"} : Becomes(p, [c EXCEPT !.inbound_ec = ec]) /\ UNCHANGED net
      BY Zenon, <2>3, <2>6 DEF ReadSafe
    <3>2. [c EXCEPT !.inbound_ec = ec] \in Connection
      BY Zenon, <2>1 DEF Connection, OpStates, Results
    <3>3. conn' \in [Peers -> Connection]
      BY Zenon, <3>1, <3>2, BecomesType DEF TypeOK
    <3> QED
      BY <3>1, <3>3 DEF TypeOK, StreamType
  <2> QED
    BY <2>5, <2>6
\* A read of the socket keeps the types.
<1>ReadClearType. ASSUME TypeOK, NEW p \in Peers, net[p] # <<>>, ReadClear(p)
     PROVE  conn' \in [Peers -> Connection] /\ StreamType'
  <2> USE <1>ReadClearType
  <2> DEFINE segment == Head(net[p])
  <2>1. net[p] \in Seq(Segment)
    BY DEF TypeOK
  <2>2. segment \in Segment /\ Tail(net[p]) \in Seq(Segment)
    BY <2>1, HeadTailProperties
  <2>3. segment.bytes \in Seq(Byte)
    BY <2>2 DEF Segment
  <2>4. CASE segment.kind = "clear"
    <3>1. PICK n \in 1 .. Len(segment.bytes) :
            Received(p, SubSeq(segment.bytes, 1, n)) /\ net' = [net EXCEPT ![p] = Consume(net[p], n)]
      BY <2>4 DEF ReadClear
    <3>2. Len(segment.bytes) \in Nat
      BY <2>3, LenProperties
    <3>3. n \in 0 .. Len(segment.bytes)
      BY <3>2
    <3>4. SubSeq(segment.bytes, 1, n) \in Bytes /\ Consume(net[p], n) \in Seq(Segment)
      BY <2>1, <2>3, <3>3, CatCut, ConsumeType DEF Bytes
    <3> QED
      BY Zenon, <3>1, <3>4, <1>ReceivedType, StreamGrows
  <2>5. CASE segment.kind # "clear"
    <3>1. PICK bytes \in [1 .. PrefixSize -> Byte] : Received(p, bytes) /\ net' = [net EXCEPT ![p] = Tail(net[p])]
      BY <2>5 DEF ReadClear
    <3>2. bytes \in Bytes
      BY LinkAssumption DEF Bytes
    <3> QED
      BY Zenon, <2>2, <3>1, <3>2, <1>ReceivedType, StreamGrows
  <2> QED
    BY <2>4, <2>5
\* The completion of an operation keeps the types.
<1>CompletesType. ASSUME TypeOK, NEW p \in Peers,
            CompleteSslHandshake(p) \/ CompleteRead(p) \/ CompleteWrite(p) \/ CompleteShutdown(p)
     PROVE  conn' \in [Peers -> Connection] /\ StreamType'
  <2> USE <1>CompletesType
  <2>0. conn[p] \in Connection /\ Failures(p) \cup {"ok"} \subseteq Results /\ StreamType
    BY FailuresAre DEF TypeOK, StreamType, Results
  <2>1. CASE CompleteSslHandshake(p)
    <3>1. PICK ec \in Results : Becomes(p, [conn[p] EXCEPT !.inbound_ec = ec]) /\ UNCHANGED net
      BY <2>0, <2>1 DEF CompleteSslHandshake
    <3>2. [conn[p] EXCEPT !.inbound_ec = ec] \in Connection
      BY Zenon, <2>0, CompletedType
    <3> QED
      BY Zenon, <2>0, <3>1, <3>2, BecomesType DEF TypeOK, StreamType
  <2>2. CASE CompleteRead(p)
    <3>1. CASE net[p] # <<>> /\ ReadSafe(p)
      BY <3>1, <1>ReadSafeType
    <3>2. CASE net[p] # <<>> /\ ReadClear(p)
      BY <3>2, <1>ReadClearType
    <3>3. CASE (\E ec \in Failures(p) : Becomes(p, [conn[p] EXCEPT !.inbound_ec = ec])) /\ UNCHANGED net
      <4>1. PICK ec \in Results : Becomes(p, [conn[p] EXCEPT !.inbound_ec = ec])
        BY <2>0, <3>3
      <4>2. [conn[p] EXCEPT !.inbound_ec = ec] \in Connection
        BY Zenon, <2>0, CompletedType
      <4> QED
        BY Zenon, <2>0, <3>3, <4>1, <4>2, BecomesType DEF TypeOK, StreamType
    <3> QED
      BY <2>2, <3>1, <3>2, <3>3 DEF CompleteRead
  <2>3. CASE CompleteWrite(p)
    <3>1. PICK ec \in Results : Becomes(p, [conn[p] EXCEPT !.write_ec = ec]) /\ UNCHANGED net
      BY <2>0, <2>3 DEF CompleteWrite
    <3>2. [conn[p] EXCEPT !.write_ec = ec] \in Connection
      BY Zenon, <2>0, CompletedType
    <3> QED
      BY Zenon, <2>0, <3>1, <3>2, BecomesType DEF TypeOK, StreamType
  <2>4. CASE CompleteShutdown(p)
    <3>1. Becomes(p, [conn[p] EXCEPT !.shutdown_ec = "done"]) /\ UNCHANGED net
      BY <2>4 DEF CompleteShutdown
    <3>2. [conn[p] EXCEPT !.shutdown_ec = "done"] \in Connection
      BY Zenon, <2>0, CompletedType
    <3> QED
      BY Zenon, <2>0, <3>1, <3>2, BecomesType DEF TypeOK, StreamType
  <2> QED
    BY <2>1, <2>2, <2>3, <2>4
\* send_message keeps the types.
<1>SendMessageType. ASSUME TypeOK, NEW p \in Peers, NEW size \in Sizes, SendMessage(p, size)
     PROVE  conn' \in [Peers -> Connection] /\ StreamType'
  <2> USE <1>SendMessageType
  <2> DEFINE c == conn[p]
             m == [k \in 1 .. size |-> (Len(c.accepted) + 1) % Base]
             a == [c EXCEPT !.accepted = Append(c.accepted, m), !.is_writing = TRUE]
             b == [c EXCEPT !.accepted = Append(c.accepted, m), !.message_queue = Append(c.message_queue, m)]
  <2>1. c \in Connection /\ safe_link[p] \in BOOLEAN
    BY DEF TypeOK
  <2>2. c.accepted \in Seq(Bytes) /\ c.message_queue \in Seq(Bytes)
    BY <2>1, ConnectionFields
  <2>3. Len(c.accepted) + 1 \in Nat
    BY <2>2, LenProperties
  <2>4. m \in Bytes
    BY Zenon, <2>3, MessageType DEF Text
  <2>5. \/ AsyncWrite(p, a, "message", m, safe_link[p])
        \/ Becomes(p, b) /\ UNCHANGED net
    BY DEF SendMessage, DoWriteMessage
  <2> HIDE DEF m
  <2>6. Append(c.accepted, m) \in Seq(Seq(Byte)) /\ Append(c.message_queue, m) \in Seq(Seq(Byte))
    BY <2>2, <2>4, AppendProperties DEF Bytes
  <2>7. a \in Connection /\ b \in Connection
    BY Zenon, <2>1, <2>6 DEF Connection
  <2> HIDE DEF a, b
  <2>8. CASE AsyncWrite(p, a, "message", m, safe_link[p])
    BY <2>1, <2>4, <2>7, <2>8, <1>AsyncWriteType
  <2>9. CASE Becomes(p, b) /\ UNCHANGED net
    <3>1. conn' \in [Peers -> Connection]
      BY Zenon, <2>7, <2>9, BecomesType DEF TypeOK
    <3> QED
      BY <2>9, <3>1 DEF TypeOK, StreamType
  <2> QED
    BY <2>5, <2>8, <2>9
\* on_ssl_handshake keeps the types.
<1>OnSslHandshakeType. ASSUME TypeOK, NEW p \in Peers, OnSslHandshake(p)
     PROVE  conn' \in [Peers -> Connection] /\ StreamType'
  <2> USE <1>OnSslHandshakeType
  <2> DEFINE c == EndRead(conn[p])
             m == [k \in 1 .. HandshakeSize |-> 0]
  <2>1. c \in Connection
    BY EndsType DEF TypeOK
  <2>2. m \in Bytes
    BY LinkAssumption DEF Bytes, Byte
  <2>3. Abort(p, c) \/ AsyncWrite(p, c, "ian_handshake", m, TRUE)
    BY Zenon DEF OnSslHandshake
  <2> HIDE DEF c, m
  <2>4. CASE Abort(p, c)
    BY <2>1, <2>4, <1>AbortType
  <2>5. CASE AsyncWrite(p, c, "ian_handshake", m, TRUE)
    BY Zenon, <2>1, <2>2, <2>5, <1>AsyncWriteType
  <2> QED
    BY Zenon, <2>3, <2>4, <2>5
\* on_ian_handshake_sent keeps the types.
<1>OnIanHandshakeSentType. ASSUME TypeOK, NEW p \in Peers, OnIanHandshakeSent(p)
     PROVE  conn' \in [Peers -> Connection] /\ StreamType'
  <2> USE <1>OnIanHandshakeSentType
  <2> DEFINE c == EndWrite(conn[p])
             d == StartRead(c, "ian_handshake")
             ec == conn[p].write_ec
  <2>1. c \in Connection
    BY EndsType DEF TypeOK
  <2>2. d \in Connection
    BY <2>1, EndsType
  <2>3. ec \in Results
    BY DEF OnIanHandshakeSent
  <2>6. (ec # "ok" /\ HandleError(p, c, ec)) \/ (Becomes(p, d) /\ UNCHANGED net)
    BY DEF OnIanHandshakeSent
  <2> HIDE DEF c, d, ec
  <2>4. CASE ec # "ok" /\ HandleError(p, c, ec)
    BY <2>1, <2>3, <2>4, <1>HandleErrorType
  <2>5. CASE Becomes(p, d) /\ UNCHANGED net
    <3>1. conn' \in [Peers -> Connection]
      BY Zenon, <2>2, <2>5, BecomesType DEF TypeOK
    <3> QED
      BY <2>5, <3>1 DEF TypeOK, StreamType
  <2> QED
    BY <2>4, <2>5, <2>6
\* on_write_message keeps the types.
<1>OnWriteMessageType. ASSUME TypeOK, NEW p \in Peers, OnWriteMessage(p)
     PROVE  conn' \in [Peers -> Connection] /\ StreamType'
  <2> USE <1>OnWriteMessageType
  <2> DEFINE c == EndWrite(conn[p])
             ec == conn[p].write_ec
  <2>1. c \in Connection
    BY EndsType DEF TypeOK
  <2>2. ec \in Results /\ ((ec # "ok" /\ HandleError(p, c, ec)) \/ WriteNext(p, c))
    BY DEF OnWriteMessage
  <2> HIDE DEF c, ec
  <2> QED
    BY <2>1, <2>2, <1>HandleErrorType, <1>WriteNextType
\* on_ian_handshake keeps the types.
<1>OnIanHandshakeType. ASSUME TypeOK, NEW p \in Peers, OnIanHandshake(p)
     PROVE  conn' \in [Peers -> Connection] /\ StreamType'
  <2> USE <1>OnIanHandshakeType
  <2> DEFINE c == conn[p]
             e == EndRead(c)
             buffer == Cat(c.read_buffer, c.chunk)
             t == TakeLength(c.in_message_len, buffer)
             again == StartRead([c EXCEPT !.in_message_len = t.len, !.read_buffer = t.buffer], "ian_handshake")
             done == StartRead([c EXCEPT !.in_message_len = 0, !.read_buffer = <<>>], "read")
  <2>1. c \in Connection /\ c.inbound_ec \in Results
    BY DEF TypeOK, OnIanHandshake
  <2>2. e \in Connection
    BY <2>1, EndsType
  <2>3. c.in_message_len \in Nat /\ c.read_buffer \in Bytes /\ c.chunk \in Bytes
    BY <2>1, ConnectionFields
  <2>4. buffer \in Bytes
    BY Zenon, <2>3, CatType DEF Bytes
  <2>5. (c.inbound_ec # "ok" /\ HandleError(p, e, c.inbound_ec)) \/ IanHandshakeData(p, c)
    BY DEF OnIanHandshake
  <2>6. CASE c.inbound_ec # "ok" /\ HandleError(p, e, c.inbound_ec)
    BY <2>1, <2>2, <2>6, <1>HandleErrorType
  <2>7. CASE IanHandshakeData(p, c)
    <3> DEFINE short == c.in_message_len = 0 /\ Len(buffer) < PrefixSize
    <3>1. \/ Shutdown(p, e)
          \/ ~short /\ Becomes(p, again) /\ UNCHANGED net
          \/ WriteNext(p, done)
      BY Zenon, <2>7 DEF IanHandshakeData, Cat
    <3>2. ~short => t.len \in Nat /\ t.buffer \in Bytes
      <4>1. Len(buffer) \in Nat /\ PrefixSize \in Nat
        BY <2>4, LenProperties, LinkAssumption DEF Bytes
      <4>2. ~short => c.in_message_len # 0 \/ Len(buffer) >= PrefixSize
        BY <4>1
      <4> QED
        BY <2>3, <2>4, <4>2, TakeLengthType
    <3> HIDE DEF t
    <3>3. ~short => [c EXCEPT !.in_message_len = t.len, !.read_buffer = t.buffer] \in Connection
      <4>1. <<>> \in Seq(Bytes)
        BY EmptySeq
      <4> QED
        BY Zenon, <2>1, <3>2, <4>1, ReadOnType
    <3>4. ~short => again \in Connection
      BY <3>3, EndsType
    <3>5. done \in Connection
      <4>1. <<>> \in Seq(Bytes) /\ <<>> \in Bytes
        BY EmptySeq DEF Bytes
      <4>2. [c EXCEPT !.in_message_len = 0, !.read_buffer = <<>>] \in Connection
        BY Zenon, <2>1, <4>1, ReadOnType
      <4> QED
        BY <4>2, EndsType
    <3> HIDE DEF again, done, short, c, e, buffer
    <3>6. CASE Shutdown(p, e)
      BY <2>2, <3>6, <1>ShutdownType
    <3>7. CASE ~short /\ Becomes(p, again) /\ UNCHANGED net
      <4>1. conn' \in [Peers -> Connection]
        BY Zenon, <3>4, <3>7, BecomesType DEF TypeOK
      <4> QED
        BY <3>7, <4>1 DEF TypeOK, StreamType
    <3>8. CASE WriteNext(p, done)
      BY <3>5, <3>8, <1>WriteNextType
    <3> QED
      BY <3>1, <3>6, <3>7, <3>8
  <2> QED
    BY <2>5, <2>6, <2>7
\* on_read keeps the types.
<1>OnReadType. ASSUME TypeOK, NEW p \in Peers, OnRead(p)
     PROVE  conn' \in [Peers -> Connection] /\ StreamType'
  <2> USE <1>OnReadType
  <2> DEFINE c == conn[p]
             r == ReadLoop(c.in_message_len, Cat(c.read_buffer, c.chunk))
             after == [c EXCEPT !.in_message_len = r.len, !.read_buffer = r.buffer,
                                !.processed = @ \o r.messages]
             e == EndRead(c)
             f == EndRead(after)
             on == StartRead(after, "read")
             ec == c.inbound_ec
  <2>1. c \in Connection /\ ec \in Results
    BY DEF TypeOK, OnRead
  <2>2. c.in_message_len \in Nat /\ c.read_buffer \in Bytes /\ c.chunk \in Bytes
    BY <2>1, ConnectionFields
  <2>3. Cat(c.read_buffer, c.chunk) \in Bytes
    BY Zenon, <2>2, CatType DEF Bytes
  <2>4. r \in RoundState
    BY <2>2, <2>3, ReadLoopType
  <2>5. \/ ec # "ok" /\ HandleError(p, e, ec)
        \/ Shutdown(p, f)
        \/ Becomes(p, on) /\ UNCHANGED net
    BY DEF OnRead, Cat
  <2> HIDE DEF r
  <2>6. r.len \in Nat /\ r.buffer \in Bytes /\ r.messages \in Seq(Bytes)
    BY <2>4 DEF RoundState
  <2>7. after \in Connection
    BY Zenon, <2>1, <2>6, ReadOnType
  <2> HIDE DEF after
  <2>8. e \in Connection /\ f \in Connection /\ on \in Connection
    BY <2>1, <2>7, EndsType
  <2> HIDE DEF c, e, f, on, ec
  <2>9. CASE ec # "ok" /\ HandleError(p, e, ec)
    BY <2>1, <2>8, <2>9, <1>HandleErrorType
  <2>10. CASE Shutdown(p, f)
    BY <2>8, <2>10, <1>ShutdownType
  <2>11. CASE Becomes(p, on) /\ UNCHANGED net
    <3>1. conn' \in [Peers -> Connection]
      BY Zenon, <2>8, <2>11, BecomesType DEF TypeOK
    <3> QED
      BY <2>11, <3>1 DEF TypeOK, StreamType
  <2> QED
    BY <2>5, <2>9, <2>10, <2>11
\* on_shutdown keeps the types.
<1>OnShutdownType. ASSUME TypeOK, NEW p \in Peers, OnShutdown(p)
     PROVE  conn' \in [Peers -> Connection] /\ StreamType'
  <2> USE <1>OnShutdownType
  <2> DEFINE d == [conn[p] EXCEPT !.shutdown_ec = "idle", !.dropped = TRUE]
  <2>1. d \in Connection
    BY Zenon, CompletedType DEF TypeOK, Results
  <2>2. Becomes(p, d) /\ UNCHANGED net
    BY DEF OnShutdown
  <2> HIDE DEF d
  <2>3. conn' \in [Peers -> Connection]
    BY Zenon, <2>1, <2>2, BecomesType DEF TypeOK
  <2> QED
    BY <2>2, <2>3 DEF TypeOK, StreamType
<1> SUFFICES ASSUME TypeOK, [Next]_vars PROVE TypeOK'
  OBVIOUS
<1>1. \A p \in Peers :
        CompleteSslHandshake(p) \/ CompleteRead(p) \/ CompleteWrite(p) \/ CompleteShutdown(p) => TypeOK'
  <2> SUFFICES ASSUME NEW p \in Peers,
                      CompleteSslHandshake(p) \/ CompleteRead(p) \/ CompleteWrite(p) \/ CompleteShutdown(p)
               PROVE  TypeOK'
    OBVIOUS
  <2>1. conn' \in [Peers -> Connection] /\ StreamType'
    BY <1>CompletesType
  <2>2. UNCHANGED <<safe_link, fault, crashed>>
    BY DEF CompleteSslHandshake, CompleteRead, CompleteWrite, CompleteShutdown
  <2> QED
    BY <2>1, <2>2 DEF TypeOK, StreamType
<1>2. \A p \in Peers : Handlers(p) => TypeOK'
  <2> SUFFICES ASSUME NEW p \in Peers, Handlers(p) PROVE TypeOK'
    OBVIOUS
  <2>1. conn' \in [Peers -> Connection] /\ StreamType'
    BY <1>OnSslHandshakeType, <1>OnIanHandshakeSentType, <1>OnIanHandshakeType, <1>OnReadType, <1>OnWriteMessageType,
       <1>OnShutdownType DEF Handlers
  <2>2. UNCHANGED <<safe_link, fault>> /\ (UNCHANGED crashed \/ crashed' = TRUE)
    BY Zenon DEF Handlers, OnSslHandshake, OnIanHandshakeSent, OnIanHandshake, OnRead, OnWriteMessage, OnShutdown
  <2> QED
    BY Zenon, <2>1, <2>2 DEF TypeOK, StreamType
<1>3. \A p \in Peers : \A size \in Sizes : SendMessage(p, size) => TypeOK'
  <2> SUFFICES ASSUME NEW p \in Peers, NEW size \in Sizes, SendMessage(p, size) PROVE TypeOK'
    OBVIOUS
  <2>1. conn' \in [Peers -> Connection] /\ StreamType'
    BY <1>SendMessageType
  <2>2. UNCHANGED <<safe_link, fault, crashed>>
    BY DEF SendMessage
  <2> QED
    BY <2>1, <2>2 DEF TypeOK, StreamType
<1>4. CASE Fail \/ UNCHANGED vars
  BY Zenon, <1>4 DEF Fail, vars, TypeOK
<1> QED
  BY <1>1, <1>2, <1>3, <1>4 DEF Next

\* The initial states have the types.
LEMMA InitType == ASSUME Init PROVE TypeOK
<1> DEFINE c == [
       dropped |-> FALSE, shutting_down |-> FALSE, is_writing |-> TRUE,
       message_queue |-> <<>>,
       inbound |-> "ssl_handshake", inbound_ec |-> "pending", chunk |-> <<>>,
       outbound |-> "none", write_ec |-> "idle", shutdown_ec |-> "idle",
       in_message_len |-> 0, read_buffer |-> <<>>,
       accepted |-> <<>>, processed |-> <<>> ]
<1>1. c \in Connection
  BY EmptySeq DEF Connection, OpStates
<1>2. conn = [p \in Peers |-> c] /\ net = [p \in Peers |-> <<>>]
  BY DEF Init
<1> HIDE DEF c
<1>3. conn \in [Peers -> Connection] /\ net \in [Peers -> Seq(Segment)]
  BY <1>1, <1>2, EmptySeq
<1>4. safe_link \in [Peers -> BOOLEAN] /\ fault \in BOOLEAN /\ crashed \in BOOLEAN
  BY Zenon, LinkAssumption DEF Init
<1> QED
  BY <1>3, <1>4 DEF TypeOK

\* The fields of both connections and the streams keep their types: the prefix
\* is a number whatever bytes come, and no read goes past a segment.
THEOREM LinkTypeCorrect == Spec => []TypeOK
<1>1. Init => TypeOK
  BY InitType
<1>2. TypeOK /\ [Next]_vars => TypeOK'
  BY NextType
<1> QED
  BY <1>1, <1>2, PTL DEF Spec

--------------------------------------------------------------------------------
(* What every step leaves of a connection by itself. *)

Live(c) == ~c.dropped /\ ~c.shutting_down

\* An operation is there exactly while a handler of it is to come; a closed
\* connection has nothing to write.
Settled(c) ==
  /\ c.write_ec = "idle" <=> c.outbound = "none"
  /\ c.shutdown_ec # "idle" => c.shutting_down
  /\ c.inbound_ec # "ok" => c.chunk = <<>>
  /\ ~Live(c) => c.message_queue = <<>>

\* An open connection is in one of four phases: nothing is written before the
\* handshake, and nothing else meanwhile.
Phase(c) ==
  /\ \/ c.inbound \in {"ssl_handshake", "ian_handshake"} /\ c.outbound = "none"
     \/ c.inbound = "none" /\ c.outbound = "ian_handshake"
     \/ c.inbound = "read" /\ c.outbound # "ian_handshake"
  /\ c.is_writing <=> c.inbound # "read" \/ c.outbound # "none"
  /\ c.message_queue # <<>> => c.is_writing
  /\ c.inbound_ec # "canceled" /\ c.write_ec # "canceled"

Local(c) ==
  /\ Settled(c)
  /\ Live(c) => Phase(c)
  /\ ~Live(c) => c.inbound \in {"none", "read"} /\ c.outbound # "ian_handshake"
  /\ c.inbound = "ssl_handshake" \/ c.outbound = "ian_handshake" => c.in_message_len = 0
  /\ c.inbound # "read" /\ Live(c) /\ c.in_message_len = 0 => c.read_buffer = <<>>

LocalInv == \A p \in Peers : Local(conn[p])

\* What abort and shutdown make of a connection.
Aborted(c) == IF c.dropped THEN c ELSE [c EXCEPT !.dropped = TRUE, !.message_queue = <<>>]
Closed(c) ==
  IF c.dropped \/ c.shutting_down THEN c
  ELSE [c EXCEPT !.shutting_down = TRUE, !.shutdown_ec = "pending", !.message_queue = <<>>]

\* A connection that may be closed: no handshake is on its way.
Stops(c) == c.inbound \in {"none", "read"} /\ c.outbound # "ian_handshake"

\* The fields that neither abort nor shutdown changes.
SameReads(c, d) ==
  /\ d.inbound = c.inbound /\ d.inbound_ec = c.inbound_ec /\ d.chunk = c.chunk
  /\ d.in_message_len = c.in_message_len /\ d.read_buffer = c.read_buffer
  /\ d.processed = c.processed
SameWrites(c, d) == d.outbound = c.outbound /\ d.write_ec = c.write_ec /\ d.accepted = c.accepted

\* What abort() changes and what it leaves.
LEMMA AbortedIs ==
  ASSUME NEW c \in Connection
  PROVE  /\ Aborted(c) \in Connection /\ SameReads(c, Aborted(c)) /\ SameWrites(c, Aborted(c))
         /\ Aborted(c).dropped /\ ~Live(Aborted(c))
         /\ Aborted(c).message_queue = <<>> \/ (c.dropped /\ Aborted(c).message_queue = c.message_queue)
         /\ Aborted(c).shutdown_ec = c.shutdown_ec /\ Aborted(c).shutting_down = c.shutting_down
<1>1. CASE c.dropped
  BY <1>1 DEF Aborted, Live, SameReads, SameWrites
<1>2. CASE ~c.dropped
  <2> DEFINE d == [c EXCEPT !.dropped = TRUE, !.message_queue = <<>>]
  <2>1. Aborted(c) = d
    BY <1>2 DEF Aborted
  <2>2. d \in Connection
    BY Zenon, EmptySeq DEF Connection
  <2>3. SameReads(c, d) /\ SameWrites(c, d)
    BY DEF SameReads, SameWrites, Connection
  <2>4. d.dropped = TRUE /\ d.message_queue = <<>> /\ d.shutdown_ec = c.shutdown_ec /\ d.shutting_down = c.shutting_down
    BY DEF Connection
  <2> HIDE DEF d
  <2> QED
    BY <2>1, <2>2, <2>3, <2>4 DEF Live
<1> QED
  BY <1>1, <1>2

\* What shutdown() changes and what it leaves.
LEMMA ClosedIs ==
  ASSUME NEW c \in Connection
  PROVE  /\ Closed(c) \in Connection /\ SameReads(c, Closed(c)) /\ SameWrites(c, Closed(c))
         /\ ~Live(Closed(c)) /\ Closed(c).dropped = c.dropped
         /\ Closed(c).message_queue = <<>> \/ (~Live(c) /\ Closed(c).message_queue = c.message_queue)
         /\ (Closed(c).shutdown_ec = c.shutdown_ec /\ Closed(c).shutting_down = c.shutting_down) \/ Closed(c).shutting_down
<1>1. CASE c.dropped \/ c.shutting_down
  BY Zenon, <1>1 DEF Closed, Live, SameReads, SameWrites
<1>2. CASE ~ (c.dropped \/ c.shutting_down)
  <2> DEFINE d == [c EXCEPT !.shutting_down = TRUE, !.shutdown_ec = "pending", !.message_queue = <<>>]
  <2>1. Closed(c) = d
    BY <1>2 DEF Closed
  <2>2. d \in Connection
    BY Zenon, EmptySeq DEF Connection
  <2>3. SameReads(c, d) /\ SameWrites(c, d)
    BY DEF SameReads, SameWrites, Connection
  <2>4. d.shutting_down = TRUE /\ d.message_queue = <<>> /\ d.dropped = c.dropped
    BY DEF Connection
  <2> HIDE DEF d
  <2> QED
    BY <2>1, <2>2, <2>3, <2>4 DEF Live
<1> QED
  BY <1>1, <1>2

\* The step of a handler part, as an assignment.
LEMMA HandleErrorIs ==
  ASSUME NEW p, NEW c, NEW ec \in Results, ec # "ok", HandleError(p, c, ec)
  PROVE  \/ ec = "reset" /\ Becomes(p, Aborted(c)) /\ UNCHANGED net
         \/ ec = "canceled" /\ Becomes(p, c) /\ UNCHANGED net
         \/ ec = "error" /\ Shutdown(p, c)
<1>1. CASE ec = "reset"
  BY <1>1 DEF HandleError, Abort, Aborted
<1>2. CASE ec = "canceled"
  BY <1>2 DEF HandleError
<1>3. CASE ec = "error"
  BY <1>3 DEF HandleError
<1> QED
  BY <1>1, <1>2, <1>3 DEF Results

\* shutdown() closes the connection and sends a close_notify, once.
LEMMA ShutdownIs ==
  ASSUME NEW p, NEW c, Shutdown(p, c)
  PROVE  /\ Becomes(p, Closed(c))
         /\ IF Live(c) THEN net' = [net EXCEPT ![Other(p)] = Append(@, [kind |-> "close", bytes |-> <<>>])]
            ELSE UNCHANGED net
BY DEF Shutdown, Closed, Live

\* Reads and writes that end or start.
LEMMA EndsAre ==
  ASSUME NEW c \in Connection
  PROVE  /\ LET d == EndRead(c) IN
              /\ d.inbound = "none" /\ d.inbound_ec = "idle" /\ d.chunk = <<>> /\ SameWrites(c, d)
              /\ d.dropped = c.dropped /\ d.shutting_down = c.shutting_down /\ d.is_writing = c.is_writing
              /\ d.message_queue = c.message_queue /\ d.shutdown_ec = c.shutdown_ec
              /\ d.in_message_len = c.in_message_len /\ d.read_buffer = c.read_buffer /\ d.processed = c.processed
         /\ LET d == EndWrite(c) IN
              /\ d.outbound = "none" /\ d.write_ec = "idle" /\ d.accepted = c.accepted /\ SameReads(c, d)
              /\ d.dropped = c.dropped /\ d.shutting_down = c.shutting_down /\ d.is_writing = c.is_writing
              /\ d.message_queue = c.message_queue /\ d.shutdown_ec = c.shutdown_ec
BY DEF EndRead, EndWrite, Connection, SameReads, SameWrites

\* What the start of a read changes and what it leaves.
LEMMA StartReadIs ==
  ASSUME NEW c \in Connection, NEW handler \in {"ian_handshake", "read"}
  PROVE  LET d == StartRead(c, handler) IN
           /\ d.inbound = handler /\ d.inbound_ec = "pending" /\ d.chunk = <<>> /\ SameWrites(c, d)
           /\ d.dropped = c.dropped /\ d.shutting_down = c.shutting_down /\ d.is_writing = c.is_writing
           /\ d.message_queue = c.message_queue /\ d.shutdown_ec = c.shutdown_ec
           /\ d.in_message_len = c.in_message_len /\ d.read_buffer = c.read_buffer /\ d.processed = c.processed
BY DEF StartRead, Connection, SameWrites

\* The connection that a write of a message leaves.
Writing(c, handler) == [c EXCEPT !.outbound = handler, !.write_ec = "pending"]

\* What the start of a write changes and what it leaves.
LEMMA WritingIs ==
  ASSUME NEW c \in Connection, NEW handler \in {"ian_handshake", "message"}
  PROVE  LET d == Writing(c, handler) IN
           /\ d \in Connection
           /\ d.outbound = handler /\ d.write_ec = "pending" /\ d.accepted = c.accepted /\ SameReads(c, d)
           /\ d.dropped = c.dropped /\ d.shutting_down = c.shutting_down /\ d.is_writing = c.is_writing
           /\ d.message_queue = c.message_queue /\ d.shutdown_ec = c.shutdown_ec
<1>1. "pending" \in OpStates
  BY DEF OpStates
<1>2. Writing(c, handler) \in Connection
  BY Zenon, <1>1 DEF Writing, Connection
<1> QED
  BY <1>2 DEF Writing, Connection, SameReads

\* A connection that is about to write what is queued, after the handshake.
MayWrite(c) ==
  /\ Settled(c) /\ c.outbound = "none" /\ c.inbound \in {"none", "read"}
  /\ Live(c) => c.inbound = "read" /\ c.inbound_ec # "canceled" /\ c.is_writing

\* What WriteNext makes of it.
Popped(c) == [c EXCEPT !.message_queue = Tail(@)]
Rested(c) == [c EXCEPT !.is_writing = FALSE]

\* What the end of a write changes: the queue, or is_writing_.
LEMMA NextWriteIs ==
  ASSUME NEW c \in Connection
  PROVE  /\ c.message_queue # <<>> =>
              LET d == Popped(c) IN
              /\ d \in Connection /\ SameReads(c, d) /\ SameWrites(c, d)
              /\ d.dropped = c.dropped /\ d.shutting_down = c.shutting_down /\ d.is_writing = c.is_writing
              /\ d.message_queue = Tail(c.message_queue) /\ d.shutdown_ec = c.shutdown_ec
         /\ LET d == Rested(c) IN
              /\ d \in Connection /\ SameReads(c, d) /\ SameWrites(c, d)
              /\ d.dropped = c.dropped /\ d.shutting_down = c.shutting_down /\ ~d.is_writing
              /\ d.message_queue = c.message_queue /\ d.shutdown_ec = c.shutdown_ec
<1>1. ASSUME c.message_queue # <<>> PROVE Tail(c.message_queue) \in Seq(Seq(Byte))
  <2>1. c.message_queue \in Seq(Seq(Byte))
    BY ConnectionFields DEF Bytes
  <2> QED
    BY <1>1, <2>1, HeadTailProperties
<1>2. ASSUME c.message_queue # <<>> PROVE Popped(c) \in Connection
  BY Zenon, <1>1, <1>2 DEF Popped, Connection
<1>3. Rested(c) \in Connection
  BY Zenon DEF Rested, Connection
<1>4. LET d == Rested(c) IN
        /\ SameReads(c, d) /\ SameWrites(c, d)
        /\ d.dropped = c.dropped /\ d.shutting_down = c.shutting_down /\ d.is_writing = FALSE
        /\ d.message_queue = c.message_queue /\ d.shutdown_ec = c.shutdown_ec
  BY DEF Rested, Connection, SameReads, SameWrites
<1>5. LET d == Popped(c) IN
        /\ SameReads(c, d) /\ SameWrites(c, d)
        /\ d.dropped = c.dropped /\ d.shutting_down = c.shutting_down /\ d.is_writing = c.is_writing
        /\ d.message_queue = Tail(c.message_queue) /\ d.shutdown_ec = c.shutdown_ec
  BY DEF Popped, Connection, SameReads, SameWrites
<1> QED
  BY <1>2, <1>3, <1>4, <1>5

\* The connection with one more message taken over.
Taken(c, m) == [c EXCEPT !.accepted = Append(@, m), !.message_queue = Append(@, m)]
Sending(c, m) == [c EXCEPT !.accepted = Append(@, m), !.is_writing = TRUE]

\* What send_message changes and what it leaves.
LEMMA TakenIs ==
  ASSUME NEW c \in Connection, NEW m \in Bytes
  PROVE  /\ LET d == Taken(c, m) IN
              /\ d \in Connection /\ SameReads(c, d) /\ d.outbound = c.outbound /\ d.write_ec = c.write_ec
              /\ d.accepted = Append(c.accepted, m) /\ d.message_queue = Append(c.message_queue, m)
              /\ d.is_writing = c.is_writing /\ d.shutdown_ec = c.shutdown_ec
              /\ d.dropped = c.dropped /\ d.shutting_down = c.shutting_down
         /\ LET d == Sending(c, m) IN
              /\ d \in Connection /\ SameReads(c, d) /\ d.outbound = c.outbound /\ d.write_ec = c.write_ec
              /\ d.accepted = Append(c.accepted, m) /\ d.message_queue = c.message_queue
              /\ d.is_writing /\ d.shutdown_ec = c.shutdown_ec
              /\ d.dropped = c.dropped /\ d.shutting_down = c.shutting_down
<1>1. c.accepted \in Seq(Bytes) /\ c.message_queue \in Seq(Bytes)
  BY ConnectionFields
<1>2. Append(c.accepted, m) \in Seq(Seq(Byte)) /\ Append(c.message_queue, m) \in Seq(Seq(Byte))
  BY <1>1, AppendProperties DEF Bytes
<1>3. Taken(c, m) \in Connection /\ Sending(c, m) \in Connection
  BY Zenon, <1>2 DEF Taken, Sending, Connection
<1>4. LET d == Taken(c, m) IN
        /\ SameReads(c, d) /\ d.outbound = c.outbound /\ d.write_ec = c.write_ec
        /\ d.accepted = Append(c.accepted, m) /\ d.message_queue = Append(c.message_queue, m)
        /\ d.is_writing = c.is_writing /\ d.shutdown_ec = c.shutdown_ec
        /\ d.dropped = c.dropped /\ d.shutting_down = c.shutting_down
  BY DEF Taken, SameReads, Connection
<1>5. LET d == Sending(c, m) IN
        /\ SameReads(c, d) /\ d.outbound = c.outbound /\ d.write_ec = c.write_ec
        /\ d.accepted = Append(c.accepted, m) /\ d.message_queue = c.message_queue
        /\ d.is_writing = TRUE /\ d.shutdown_ec = c.shutdown_ec
        /\ d.dropped = c.dropped /\ d.shutting_down = c.shutting_down
  BY DEF Sending, SameReads, Connection
<1> QED
  BY <1>3, <1>4, <1>5

\* send_message, as it takes over the message m.
LEMMA SendMessageIs ==
  ASSUME TypeOK, NEW p \in Peers, NEW size \in Sizes, SendMessage(p, size)
  PROVE  \E m \in Text :
           /\ Live(conn[p])
           /\ \/ ~conn[p].is_writing /\ AsyncWrite(p, Sending(conn[p], m), "message", m, safe_link[p])
              \/ conn[p].is_writing /\ Becomes(p, Taken(conn[p], m)) /\ UNCHANGED net
<1> DEFINE c == conn[p]
           m == [k \in 1 .. size |-> (Len(c.accepted) + 1) % Base]
<1>1. c \in Connection
  BY DEF TypeOK
<1>2. Len(c.accepted) + 1 \in Nat
  BY <1>1, ConnectionFields, LenProperties
<1>3. m \in Text
  BY Zenon, <1>2, MessageType
<1>4. Live(c)
  BY DEF SendMessage, IsOpen, Live
<1>5. \/ ~c.is_writing /\ AsyncWrite(p, Sending(c, m), "message", m, safe_link[p])
      \/ c.is_writing /\ Becomes(p, Taken(c, m)) /\ UNCHANGED net
  BY DEF SendMessage, DoWriteMessage, Sending, Taken
<1> QED
  BY Zenon, <1>3, <1>4, <1>5

\* The connection after a read, and what on_ian_handshake and on_read make of it.
ReadOn(c, len, buffer) == [c EXCEPT !.in_message_len = len, !.read_buffer = buffer]
ReadMore(c, len, buffer, messages) ==
  [c EXCEPT !.in_message_len = len, !.read_buffer = buffer, !.processed = @ \o messages]

\* What a part of the handshake changes and what it leaves.
LEMMA ReadOnIs ==
  ASSUME NEW c \in Connection, NEW len \in Nat, NEW buffer \in Bytes
  PROVE  LET d == ReadOn(c, len, buffer) IN
           /\ d \in Connection /\ SameWrites(c, d)
           /\ d.dropped = c.dropped /\ d.shutting_down = c.shutting_down /\ d.is_writing = c.is_writing
           /\ d.message_queue = c.message_queue /\ d.shutdown_ec = c.shutdown_ec
           /\ d.in_message_len = len /\ d.read_buffer = buffer /\ d.processed = c.processed
           /\ d.inbound = c.inbound /\ d.inbound_ec = c.inbound_ec
<1>1. ReadOn(c, len, buffer) \in Connection
  <2>1. <<>> \in Seq(Bytes)
    BY EmptySeq
  <2> QED
    BY Zenon, <2>1, ReadOnType DEF ReadOn
<1> QED
  BY <1>1 DEF Connection, SameWrites, ReadOn

\* What the loop of on_read changes and what it leaves.
Advances(c, d, len, buffer, messages) ==
  /\ d \in Connection /\ SameWrites(c, d)
  /\ d.dropped = c.dropped /\ d.shutting_down = c.shutting_down /\ d.is_writing = c.is_writing
  /\ d.message_queue = c.message_queue /\ d.shutdown_ec = c.shutdown_ec
  /\ d.in_message_len = len /\ d.read_buffer = buffer /\ d.processed = Cat(c.processed, messages)
  /\ d.inbound = c.inbound /\ d.inbound_ec = c.inbound_ec

\* The loop of on_read only adds messages and moves on in the buffer.
LEMMA ReadMoreIs ==
  ASSUME NEW c \in Connection, NEW len \in Nat, NEW buffer \in Bytes, NEW messages \in Seq(Bytes)
  PROVE  Advances(c, ReadMore(c, len, buffer, messages), len, buffer, messages)
<1> DEFINE all == Cat(c.processed, messages)
<1>1. ReadMore(c, len, buffer, messages) \in Connection
  BY Zenon, ReadOnType DEF ReadMore
<1>2. ReadMore(c, len, buffer, messages)
        = [c EXCEPT !.in_message_len = len, !.read_buffer = buffer, !.processed = all]
  BY DEF Cat, ReadMore
<1> HIDE DEF all
<1>3. LET d == [c EXCEPT !.in_message_len = len, !.read_buffer = buffer, !.processed = all] IN
        /\ SameWrites(c, d)
        /\ d.dropped = c.dropped /\ d.shutting_down = c.shutting_down /\ d.is_writing = c.is_writing
        /\ d.message_queue = c.message_queue /\ d.shutdown_ec = c.shutdown_ec
        /\ d.in_message_len = len /\ d.read_buffer = buffer /\ d.processed = all
        /\ d.inbound = c.inbound /\ d.inbound_ec = c.inbound_ec
  BY DEF Connection, SameWrites
<1> QED
  BY <1>1, <1>2, <1>3 DEF all, Advances

\* The three outcomes of on_ian_handshake with data.
LEMMA IanHandshakeDataIs ==
  ASSUME NEW p \in Peers, NEW c \in Connection, IanHandshakeData(p, c)
  PROVE  LET buffer == Cat(c.read_buffer, c.chunk)
             t == TakeLength(c.in_message_len, buffer)
             short == c.in_message_len = 0 /\ Len(buffer) < PrefixSize
         IN /\ buffer \in Bytes
            /\ ~short => t.len \in Nat /\ t.buffer \in Bytes
            /\ \/ (short \/ t.len = 0 \/ Len(t.buffer) > t.len) /\ Shutdown(p, EndRead(c))
               \/ /\ ~short /\ t.len # 0 /\ Len(t.buffer) < t.len /\ UNCHANGED net
                  /\ Becomes(p, StartRead(ReadOn(c, t.len, t.buffer),
                                          "ian_handshake"))
               \/ /\ ~short /\ t.len # 0 /\ Len(t.buffer) = t.len
                  /\ WriteNext(p, StartRead(ReadOn(c, 0, <<>>), "read"))
<1> DEFINE buffer == Cat(c.read_buffer, c.chunk)
           t == TakeLength(c.in_message_len, buffer)
           short == c.in_message_len = 0 /\ Len(buffer) < PrefixSize
<1>1. c.in_message_len \in Nat /\ c.read_buffer \in Bytes /\ c.chunk \in Bytes
  BY ConnectionFields
<1>2. buffer \in Bytes
  BY Zenon, <1>1, CatType DEF Bytes
<1>3. ~short => t.len \in Nat /\ t.buffer \in Bytes
  <2>1. Len(buffer) \in Nat /\ PrefixSize \in Nat
    BY <1>2, LenProperties, LinkAssumption DEF Bytes
  <2>2. ~short => c.in_message_len # 0 \/ Len(buffer) >= PrefixSize
    BY <2>1
  <2> QED
    BY <1>1, <1>2, <2>2, TakeLengthType
<1>4. IF short \/ t.len = 0 \/ Len(t.buffer) > t.len
      THEN Shutdown(p, EndRead(c))
      ELSE IF Len(t.buffer) < t.len
      THEN /\ Becomes(p, StartRead(ReadOn(c, t.len, t.buffer),
                                   "ian_handshake"))
           /\ UNCHANGED net
      ELSE WriteNext(p, StartRead(ReadOn(c, 0, <<>>), "read"))
  BY Zenon DEF IanHandshakeData, Cat, ReadOn
<1>5. ~short => Len(t.buffer) \in Nat
  BY <1>3, LenProperties DEF Bytes
<1> HIDE DEF t, buffer, short
<1>6. ~short /\ ~ (Len(t.buffer) > t.len) /\ ~ (Len(t.buffer) < t.len) => Len(t.buffer) = t.len
  BY <1>3, <1>5
<1>7. CASE short \/ t.len = 0 \/ Len(t.buffer) > t.len
  BY Zenon, <1>2, <1>3, <1>4, <1>7 DEF t, buffer, short
<1>8. CASE ~ (short \/ t.len = 0 \/ Len(t.buffer) > t.len) /\ Len(t.buffer) < t.len
  BY Zenon, <1>2, <1>3, <1>4, <1>8 DEF t, buffer, short
<1>9. CASE ~ (short \/ t.len = 0 \/ Len(t.buffer) > t.len) /\ ~ (Len(t.buffer) < t.len)
  BY Zenon, <1>2, <1>3, <1>4, <1>6, <1>9 DEF t, buffer, short
<1> QED
  BY Zenon, <1>7, <1>8, <1>9

\* The three outcomes of on_read.
LEMMA OnReadIs ==
  ASSUME TypeOK, NEW p \in Peers, OnRead(p)
  PROVE  LET c == conn[p]
             r == ReadLoop(c.in_message_len, Cat(c.read_buffer, c.chunk))
             after == ReadMore(c, r.len, r.buffer, r.messages)
         IN /\ c.inbound = "read" /\ c.inbound_ec \in Results /\ r \in RoundState
            /\ r.len \in Nat /\ r.buffer \in Bytes /\ r.messages \in Seq(Bytes)
            /\ \/ c.inbound_ec # "ok" /\ HandleError(p, EndRead(c), c.inbound_ec)
               \/ c.inbound_ec = "ok" /\ r.end = "invalid" /\ Shutdown(p, EndRead(after))
               \/ c.inbound_ec = "ok" /\ r.end # "invalid" /\ Becomes(p, StartRead(after, "read")) /\ UNCHANGED net
<1> DEFINE c == conn[p]
           r == ReadLoop(c.in_message_len, Cat(c.read_buffer, c.chunk))
           after == ReadMore(c, r.len, r.buffer, r.messages)
<1>1. c \in Connection
  BY DEF TypeOK
<1>2. c.in_message_len \in Nat /\ c.read_buffer \in Bytes /\ c.chunk \in Bytes
  BY Zenon, <1>1, ConnectionFields
<1>3. Cat(c.read_buffer, c.chunk) \in Bytes
  BY Zenon, <1>2, CatType DEF Bytes
<1>4. r \in RoundState
  BY Zenon, <1>2, <1>3, ReadLoopType
<1>5. r.len \in Nat /\ r.buffer \in Bytes /\ r.messages \in Seq(Bytes)
  BY <1>4 DEF RoundState
<1>6. /\ c.inbound = "read" /\ c.inbound_ec \in Results
      /\ \/ c.inbound_ec # "ok" /\ HandleError(p, EndRead(c), c.inbound_ec)
         \/ c.inbound_ec = "ok" /\ r.end = "invalid" /\ Shutdown(p, EndRead(after))
         \/ c.inbound_ec = "ok" /\ r.end # "invalid" /\ Becomes(p, StartRead(after, "read")) /\ UNCHANGED net
  BY DEF OnRead, Cat, ReadMore
<1> QED
  BY Zenon, <1>4, <1>5, <1>6

\* Every step leaves both connections in order.
LEMMA NextLocal == TypeOK /\ LocalInv /\ [Next]_vars => LocalInv'
\* A connection in order stays so when it is closed.
<1>ClosedLocal. ASSUME NEW c \in Connection, Settled(c), Stops(c)
     PROVE  Local(Aborted(c)) /\ Local(Closed(c)) /\ (~Live(c) => Local(c))
  <2> USE <1>ClosedLocal
  <2>1. Local(Aborted(c))
    BY AbortedIs DEF Local, Settled, Stops, SameReads, SameWrites, Live
  <2>2. Local(Closed(c))
    BY ClosedIs DEF Local, Settled, Stops, SameReads, SameWrites, Live
  <2>3. ~Live(c) => Local(c)
    BY DEF Local, Stops
  <2> QED
    BY <2>1, <2>2, <2>3
\* The error handlers leave a connection in order, ignored codes included.
<1>HandleErrorLocal. ASSUME TypeOK, NEW p \in Peers, NEW c \in Connection, Settled(c), Stops(c),
            NEW ec \in Results, ec # "ok", ec = "canceled" => ~Live(c), HandleError(p, c, ec)
     PROVE  \E d \in Connection : Becomes(p, d) /\ Local(d)
  <2> USE <1>HandleErrorLocal
  <2>1. Local(Aborted(c)) /\ Local(Closed(c)) /\ (~Live(c) => Local(c))
    BY <1>ClosedLocal
  <2>2. Aborted(c) \in Connection /\ Closed(c) \in Connection
    BY AbortedIs, ClosedIs
  <2>3. CASE Becomes(p, Aborted(c))
    BY <2>1, <2>2, <2>3
  <2>4. CASE ec = "canceled" /\ Becomes(p, c)
    BY <2>1, <2>4
  <2>5. CASE Shutdown(p, c)
    <3>1. Becomes(p, Closed(c))
      BY <2>5, ShutdownIs
    <3> QED
      BY <2>1, <2>2, <3>1
  <2> QED
    BY <2>3, <2>4, <2>5, HandleErrorIs
\* After a write the next one begins, or is_writing_ is reset.
<1>WriteNextLocal. ASSUME TypeOK, NEW p \in Peers, NEW c \in Connection, MayWrite(c), WriteNext(p, c)
     PROVE  \E d \in Connection : Becomes(p, d) /\ Local(d)
  <2> USE <1>WriteNextLocal
  <2>1. CASE c.message_queue # <<>>
    <3> DEFINE b == Popped(c)
               d == Writing(b, "message")
    <3>1. Becomes(p, d)
      BY <2>1 DEF WriteNext, DoWriteMessage, AsyncWrite, Popped, Writing
    <3>2. /\ b \in Connection /\ SameReads(c, b) /\ SameWrites(c, b)
          /\ b.dropped = c.dropped /\ b.shutting_down = c.shutting_down /\ b.is_writing = c.is_writing
          /\ b.shutdown_ec = c.shutdown_ec
      BY <2>1, NextWriteIs
    <3> HIDE DEF b
    <3>3. /\ d \in Connection
          /\ d.outbound = "message" /\ d.write_ec = "pending" /\ SameReads(b, d)
          /\ d.dropped = b.dropped /\ d.shutting_down = b.shutting_down /\ d.is_writing = b.is_writing
          /\ d.shutdown_ec = b.shutdown_ec
      BY <3>2, WritingIs
    <3> HIDE DEF d
    <3>4. Live(c) /\ Live(d)
      BY <2>1, <3>2, <3>3 DEF MayWrite, Settled, Live
    <3>5. Settled(d)
      BY <3>2, <3>3, <3>4 DEF MayWrite, Settled, SameReads
    <3>6. Phase(d) /\ d.inbound = "read" /\ d.outbound = "message"
      BY <3>2, <3>3, <3>4 DEF MayWrite, Phase, SameReads
    <3>7. Local(d)
      BY <3>4, <3>5, <3>6 DEF Local
    <3> QED
      BY <3>1, <3>3, <3>7
  <2>2. CASE c.message_queue = <<>>
    <3> DEFINE d == Rested(c)
    <3>1. Becomes(p, d)
      BY <2>2 DEF WriteNext, Rested
    <3>2. /\ d \in Connection /\ SameReads(c, d) /\ SameWrites(c, d)
          /\ d.dropped = c.dropped /\ d.shutting_down = c.shutting_down /\ ~d.is_writing
          /\ d.message_queue = c.message_queue /\ d.shutdown_ec = c.shutdown_ec
      BY NextWriteIs
    <3> HIDE DEF d
    <3>3. Settled(d) /\ Stops(d)
      BY <2>2, <3>2 DEF MayWrite, Settled, Stops, SameReads, SameWrites, Live
    <3>4. Live(d) => Phase(d) /\ d.inbound = "read"
      BY <2>2, <3>2, <3>3 DEF MayWrite, Settled, Phase, SameReads, SameWrites, Live
    <3>5. Local(d)
      BY <3>3, <3>4 DEF Local, Stops
    <3> QED
      BY <3>1, <3>2, <3>5
  <2> QED
    BY <2>1, <2>2
\* A code that an operation completes with, and what that leaves.
<1>CompletedLocal. ASSUME NEW c \in Connection, Local(c), NEW ec \in Results, ec = "canceled" => c.shutting_down
     PROVE  /\ c.inbound_ec = "pending" => Local([c EXCEPT !.inbound_ec = ec])
            /\ c.write_ec = "pending" => Local([c EXCEPT !.write_ec = ec])
            /\ c.shutdown_ec = "pending" => Local([c EXCEPT !.shutdown_ec = "done"])
            /\ c.shutdown_ec = "done" => Local([c EXCEPT !.shutdown_ec = "idle", !.dropped = TRUE])
  <2> USE <1>CompletedLocal
  <2>1. c.inbound_ec = "pending" => Local([c EXCEPT !.inbound_ec = ec])
    BY DEF Local, Settled, Phase, Live, Connection, Results
  <2>2. c.write_ec = "pending" => Local([c EXCEPT !.write_ec = ec])
    BY DEF Local, Settled, Phase, Live, Connection, Results
  <2>3. c.shutdown_ec = "pending" => Local([c EXCEPT !.shutdown_ec = "done"])
    BY DEF Local, Settled, Phase, Live, Connection
  <2>4. c.shutdown_ec = "done" => Local([c EXCEPT !.shutdown_ec = "idle", !.dropped = TRUE])
    BY DEF Local, Settled, Phase, Live, Connection
  <2> QED
    BY <2>1, <2>2, <2>3, <2>4
\* "canceled" is the error code of a closed connection only.
<1>FailuresLocal. ASSUME TypeOK, NEW p \in Peers, NEW ec \in Failures(p), ec = "canceled"
     PROVE  conn[p].shutting_down
  BY <1>FailuresLocal DEF Failures
\* A completed read leaves a connection in order.
<1>ReceivedLocal. ASSUME NEW c \in Connection, Local(c), NEW bytes \in Bytes,
            c.inbound \in {"ian_handshake", "read"}, c.inbound_ec = "pending"
     PROVE  LET d == [c EXCEPT !.inbound_ec = "ok", !.chunk = bytes] IN d \in Connection /\ Local(d)
  <2> USE <1>ReceivedLocal
  <2> DEFINE d == [c EXCEPT !.inbound_ec = "ok", !.chunk = bytes]
  <2>1. d \in Connection
    BY Zenon DEF Connection, OpStates, Results, Bytes
  <2>2. Local(d)
    BY DEF Local, Settled, Phase, Live, Connection
  <2> QED
    BY <2>1, <2>2
\* The bytes of a read, in each of its forms.
<1>ReadIs. ASSUME TypeOK, NEW p \in Peers, net[p] # <<>>, ReadSafe(p) \/ ReadClear(p)
     PROVE  \/ \E bytes \in Bytes : Received(p, bytes)
            \/ \E ec \in {"error", "reset"} : Becomes(p, [conn[p] EXCEPT !.inbound_ec = ec])
  <2> USE <1>ReadIs
  <2> DEFINE segment == Head(net[p])
  <2>1. net[p] \in Seq(Segment)
    BY DEF TypeOK
  <2>2. segment \in Segment
    BY <2>1, HeadTailProperties
  <2>3. segment.bytes \in Seq(Byte) /\ segment.kind \in {"tls", "clear", "close"}
    BY <2>2 DEF Segment
  <2>4. Len(segment.bytes) \in Nat
    BY <2>3, LenProperties
  <2>5. \A n \in 0 .. Len(segment.bytes) : SubSeq(segment.bytes, 1, n) \in Bytes
    BY <2>3, CatCut DEF Bytes
  <2>6. CASE ReadSafe(p) /\ segment.kind = "tls"
    <3>1. PICK n \in Portions(conn[p], segment) : Received(p, SubSeq(segment.bytes, 1, n))
      BY Zenon, <2>6 DEF ReadSafe
    <3>2. n \in 0 .. Len(segment.bytes)
      BY <2>4 DEF Portions
    <3> QED
      BY <2>5, <3>1, <3>2
  <2>7. CASE ReadSafe(p) /\ segment.kind # "tls"
    BY Zenon, <2>3, <2>7 DEF ReadSafe
  <2>8. CASE ReadClear(p) /\ segment.kind = "clear"
    <3>1. PICK n \in 1 .. Len(segment.bytes) : Received(p, SubSeq(segment.bytes, 1, n))
      BY <2>8 DEF ReadClear
    <3>2. n \in 0 .. Len(segment.bytes)
      BY <2>4
    <3> QED
      BY <2>5, <3>1, <3>2
  <2>9. CASE ReadClear(p) /\ segment.kind # "clear"
    <3>1. PICK bytes \in [1 .. PrefixSize -> Byte] : Received(p, bytes)
      BY <2>9 DEF ReadClear
    <3>2. bytes \in Bytes
      BY LinkAssumption DEF Bytes
    <3> QED
      BY <3>1, <3>2
  <2> QED
    BY <2>6, <2>7, <2>8, <2>9
\* The completion of an operation leaves a connection in order.
<1>CompletesLocal. ASSUME TypeOK, LocalInv, NEW p \in Peers,
            CompleteSslHandshake(p) \/ CompleteRead(p) \/ CompleteWrite(p) \/ CompleteShutdown(p)
     PROVE  \E d \in Connection : Becomes(p, d) /\ Local(d)
  <2> USE <1>CompletesLocal
  <2> DEFINE c == conn[p]
  <2>1. c \in Connection /\ Local(c)
    BY DEF TypeOK, LocalInv
  <2>2. \A ec \in Failures(p) \cup {"ok"} : ec \in Results /\ (ec = "canceled" => c.shutting_down)
    BY FailuresAre, <1>FailuresLocal DEF Results
  <2>3. \A ec \in Results : /\ [c EXCEPT !.inbound_ec = ec] \in Connection
                            /\ [c EXCEPT !.write_ec = ec] \in Connection
    BY Zenon, <2>1, CompletedType
  <2>4. [c EXCEPT !.shutdown_ec = "done"] \in Connection
    BY Zenon, <2>1, CompletedType DEF Results
  <2>5. CASE \E ec \in Failures(p) \cup {"ok"} : c.inbound_ec = "pending" /\ Becomes(p, [c EXCEPT !.inbound_ec = ec])
    <3>1. PICK ec \in Failures(p) \cup {"ok"} : c.inbound_ec = "pending" /\ Becomes(p, [c EXCEPT !.inbound_ec = ec])
      BY <2>5
    <3>2. Local([c EXCEPT !.inbound_ec = ec])
      BY Zenon, <2>1, <2>2, <3>1, <1>CompletedLocal
    <3> QED
      BY Zenon, <2>2, <2>3, <3>1, <3>2
  <2>6. CASE CompleteSslHandshake(p)
    BY <2>5, <2>6 DEF CompleteSslHandshake
  <2>7. CASE CompleteRead(p)
    <3>1. c.inbound \in {"ian_handshake", "read"} /\ c.inbound_ec = "pending"
      BY <2>7 DEF CompleteRead
    <3>2. CASE net[p] # <<>> /\ (ReadSafe(p) \/ ReadClear(p))
      <4>1. CASE \E bytes \in Bytes : Received(p, bytes)
        BY Zenon, <2>1, <3>1, <4>1, <1>ReceivedLocal DEF Received
      <4>2. CASE \E ec \in {"error", "reset"} : Becomes(p, [c EXCEPT !.inbound_ec = ec])
        <5>1. PICK ec \in {"error", "reset"} : Becomes(p, [c EXCEPT !.inbound_ec = ec])
          BY <4>2
        <5>2. ec \in Results /\ ec # "canceled"
          BY DEF Results
        <5>3. Local([c EXCEPT !.inbound_ec = ec])
          BY Zenon, <2>1, <3>1, <5>2, <1>CompletedLocal
        <5> QED
          BY Zenon, <2>3, <5>1, <5>2, <5>3
      <4> QED
        BY <3>2, <4>1, <4>2, <1>ReadIs
    <3>3. CASE \E ec \in Failures(p) : Becomes(p, [c EXCEPT !.inbound_ec = ec])
      BY <2>5, <3>1, <3>3
    <3> QED
      BY Zenon, <2>7, <3>2, <3>3 DEF CompleteRead
  <2>8. CASE CompleteWrite(p)
    <3>1. PICK ec \in Failures(p) \cup {"ok"} : c.write_ec = "pending" /\ Becomes(p, [c EXCEPT !.write_ec = ec])
      BY <2>8 DEF CompleteWrite
    <3>2. Local([c EXCEPT !.write_ec = ec])
      BY Zenon, <2>1, <2>2, <3>1, <1>CompletedLocal
    <3> QED
      BY Zenon, <2>2, <2>3, <3>1, <3>2
  <2>9. CASE CompleteShutdown(p)
    <3>1. c.shutdown_ec = "pending" /\ Becomes(p, [c EXCEPT !.shutdown_ec = "done"])
      BY <2>9 DEF CompleteShutdown
    <3>2. Local([c EXCEPT !.shutdown_ec = "done"])
      BY Zenon, <2>1, <3>1, <1>CompletedLocal DEF Results
    <3> QED
      BY <2>4, <3>1, <3>2
  <2> QED
    BY <2>6, <2>7, <2>8, <2>9
\* send_message leaves a connection in order.
<1>SendMessageLocal. ASSUME TypeOK, LocalInv, NEW p \in Peers, NEW size \in Sizes, SendMessage(p, size)
     PROVE  \E d \in Connection : Becomes(p, d) /\ Local(d)
  <2> USE <1>SendMessageLocal
  <2> DEFINE c == conn[p]
  <2>1. c \in Connection /\ Local(c)
    BY DEF TypeOK, LocalInv
  <2>2. PICK m \in Text :
          /\ Live(c)
          /\ \/ ~c.is_writing /\ AsyncWrite(p, Sending(c, m), "message", m, safe_link[p])
             \/ c.is_writing /\ Becomes(p, Taken(c, m)) /\ UNCHANGED net
    BY SendMessageIs
  <2>3. m \in Bytes
    BY DEF Text
  <2>4. CASE ~c.is_writing /\ AsyncWrite(p, Sending(c, m), "message", m, safe_link[p])
    <3> DEFINE b == Sending(c, m)
               d == Writing(b, "message")
    <3>1. Becomes(p, d)
      BY <2>4 DEF AsyncWrite, Writing
    <3>2. /\ b \in Connection /\ SameReads(c, b) /\ b.outbound = c.outbound /\ b.write_ec = c.write_ec
          /\ b.message_queue = c.message_queue /\ b.is_writing /\ b.shutdown_ec = c.shutdown_ec
          /\ b.dropped = c.dropped /\ b.shutting_down = c.shutting_down
      BY <2>1, <2>3, TakenIs
    <3> HIDE DEF b
    <3>3. /\ d \in Connection
          /\ d.outbound = "message" /\ d.write_ec = "pending" /\ SameReads(b, d)
          /\ d.dropped = b.dropped /\ d.shutting_down = b.shutting_down /\ d.is_writing = b.is_writing
          /\ d.shutdown_ec = b.shutdown_ec
      BY Zenon, <3>2, WritingIs
    <3> HIDE DEF d
    <3>4. c.inbound = "read" /\ c.inbound_ec # "canceled"
      BY Zenon, <2>1, <2>2, <2>4 DEF Local, Phase
    <3>5. Live(d) /\ Settled(d)
      BY Zenon, <2>1, <2>2, <3>2, <3>3 DEF Local, Settled, SameReads, Live
    <3>6. Phase(d) /\ d.inbound = "read" /\ d.outbound = "message"
      BY <3>2, <3>3, <3>4 DEF Phase, SameReads
    <3>7. Local(d)
      BY <3>5, <3>6 DEF Local
    <3> QED
      BY <3>1, <3>3, <3>7
  <2>5. CASE c.is_writing /\ Becomes(p, Taken(c, m)) /\ UNCHANGED net
    <3> DEFINE d == Taken(c, m)
    <3>1. /\ d \in Connection /\ SameReads(c, d) /\ d.outbound = c.outbound /\ d.write_ec = c.write_ec
          /\ d.is_writing = c.is_writing /\ d.shutdown_ec = c.shutdown_ec
          /\ d.dropped = c.dropped /\ d.shutting_down = c.shutting_down
      BY <2>1, <2>3, TakenIs
    <3> HIDE DEF d
    <3>2. Live(d) /\ Settled(d)
      BY Zenon, <2>1, <2>2, <3>1 DEF Local, Settled, SameReads, Live
    <3>3. Phase(d)
      BY Zenon, <2>1, <2>2, <2>5, <3>1 DEF Local, Phase, SameReads
    <3>4. Local(d)
      BY Zenon, <2>1, <2>2, <3>1, <3>2, <3>3 DEF Local, SameReads
    <3> QED
      BY <2>5, <3>1, <3>4 DEF d
  <2> QED
    BY <2>2, <2>4, <2>5
\* on_ssl_handshake leaves a connection in order.
<1>OnSslHandshakeLocal. ASSUME TypeOK, LocalInv, NEW p \in Peers, OnSslHandshake(p)
     PROVE  \E d \in Connection : Becomes(p, d) /\ Local(d)
  <2> USE <1>OnSslHandshakeLocal
  <2> DEFINE b == conn[p]
             c == EndRead(b)
             d == Writing(c, "ian_handshake")
  <2>1. b \in Connection /\ Local(b) /\ b.inbound = "ssl_handshake"
    BY DEF TypeOK, LocalInv, OnSslHandshake
  <2>2. Becomes(p, Aborted(c)) \/ Becomes(p, d)
    BY DEF OnSslHandshake, Abort, Aborted, AsyncWrite, Writing
  <2> HIDE DEF b
  <2>3. /\ c \in Connection
        /\ c.inbound = "none" /\ c.inbound_ec = "idle" /\ c.chunk = <<>> /\ SameWrites(b, c)
        /\ c.dropped = b.dropped /\ c.shutting_down = b.shutting_down /\ c.is_writing = b.is_writing
        /\ c.message_queue = b.message_queue /\ c.shutdown_ec = b.shutdown_ec
        /\ c.in_message_len = b.in_message_len /\ c.read_buffer = b.read_buffer
    BY <2>1, EndsAre, EndsType
  <2> HIDE DEF c
  <2>4. Live(b) /\ b.outbound = "none" /\ b.is_writing /\ b.in_message_len = 0 /\ b.read_buffer = <<>>
    BY <2>1 DEF Local, Phase
  <2>5. Settled(c) /\ Stops(c) /\ Live(c)
    BY <2>1, <2>3, <2>4 DEF Local, Settled, Stops, SameWrites, Live
  <2>6. Local(Aborted(c)) /\ Aborted(c) \in Connection
    BY <2>3, <2>5, <1>ClosedLocal, AbortedIs
  <2>7. /\ d \in Connection
        /\ d.outbound = "ian_handshake" /\ d.write_ec = "pending" /\ SameReads(c, d)
        /\ d.dropped = c.dropped /\ d.shutting_down = c.shutting_down /\ d.is_writing = c.is_writing
        /\ d.message_queue = c.message_queue /\ d.shutdown_ec = c.shutdown_ec
    BY <2>3, WritingIs
  <2> HIDE DEF d
  <2>8. Live(d) /\ Settled(d) /\ Phase(d)
    BY <2>3, <2>4, <2>5, <2>7 DEF Settled, Phase, SameReads, Live
  <2>9. Local(d)
    BY <2>3, <2>4, <2>7, <2>8 DEF Local, SameReads
  <2> QED
    BY <2>2, <2>6, <2>7, <2>9
\* on_ian_handshake_sent leaves a connection in order.
<1>OnIanHandshakeSentLocal. ASSUME TypeOK, LocalInv, NEW p \in Peers, OnIanHandshakeSent(p)
     PROVE  \E d \in Connection : Becomes(p, d) /\ Local(d)
  <2> USE <1>OnIanHandshakeSentLocal
  <2> DEFINE b == conn[p]
             c == EndWrite(b)
             d == StartRead(c, "ian_handshake")
             ec == b.write_ec
  <2>1. b \in Connection /\ Local(b) /\ b.outbound = "ian_handshake" /\ ec \in Results
    BY DEF TypeOK, LocalInv, OnIanHandshakeSent
  <2>2. (ec # "ok" /\ HandleError(p, c, ec)) \/ Becomes(p, d)
    BY DEF OnIanHandshakeSent
  <2> HIDE DEF b
  <2>3. /\ c \in Connection
        /\ c.outbound = "none" /\ c.write_ec = "idle" /\ SameReads(b, c)
        /\ c.dropped = b.dropped /\ c.shutting_down = b.shutting_down /\ c.is_writing = b.is_writing
        /\ c.message_queue = b.message_queue /\ c.shutdown_ec = b.shutdown_ec
    BY <2>1, EndsAre, EndsType
  <2> HIDE DEF c
  <2>4. Live(b) /\ b.inbound = "none" /\ b.is_writing /\ b.in_message_len = 0 /\ b.read_buffer = <<>> /\ ec # "canceled"
    BY <2>1 DEF Local, Phase
  <2>5. Settled(c) /\ Stops(c) /\ Live(c)
    BY <2>1, <2>3, <2>4 DEF Local, Settled, Stops, SameReads, Live
  <2>6. CASE ec # "ok" /\ HandleError(p, c, ec)
    BY <2>1, <2>3, <2>4, <2>5, <2>6, <1>HandleErrorLocal
  <2>7. /\ d \in Connection
        /\ d.inbound = "ian_handshake" /\ d.inbound_ec = "pending" /\ d.chunk = <<>> /\ SameWrites(c, d)
        /\ d.dropped = c.dropped /\ d.shutting_down = c.shutting_down /\ d.is_writing = c.is_writing
        /\ d.message_queue = c.message_queue /\ d.shutdown_ec = c.shutdown_ec
        /\ d.in_message_len = c.in_message_len /\ d.read_buffer = c.read_buffer
    BY <2>3, StartReadIs, EndsType
  <2> HIDE DEF d
  <2>8. Live(d) /\ Settled(d) /\ Phase(d)
    BY <2>3, <2>4, <2>5, <2>7 DEF Settled, Phase, SameWrites, Live
  <2>9. Local(d)
    BY <2>3, <2>4, <2>7, <2>8 DEF Local, SameReads, SameWrites
  <2> QED
    BY <2>2, <2>6, <2>7, <2>9
\* A read that ends, of the handshake or of messages, leaves a connection that
\* may be closed.
<1>EndReadSettled. ASSUME NEW b \in Connection, Local(b), b.inbound \in {"ian_handshake", "read"}
     PROVE  EndRead(b) \in Connection /\ Settled(EndRead(b)) /\ Stops(EndRead(b)) /\ (Live(EndRead(b)) <=> Live(b))
  <2> USE <1>EndReadSettled
  <2> DEFINE c == EndRead(b)
  <2>1. /\ c \in Connection
        /\ c.inbound = "none" /\ c.inbound_ec = "idle" /\ c.chunk = <<>> /\ SameWrites(b, c)
        /\ c.dropped = b.dropped /\ c.shutting_down = b.shutting_down
        /\ c.message_queue = b.message_queue /\ c.shutdown_ec = b.shutdown_ec
    BY EndsAre, EndsType
  <2> HIDE DEF c
  <2>2. Live(c) <=> Live(b)
    BY <2>1 DEF Live
  <2>3. Settled(c) /\ Stops(c)
    BY <2>1, <2>2 DEF Local, Settled, Phase, Stops, SameWrites
  <2> QED
    BY <2>1, <2>2, <2>3 DEF c
\* on_ian_handshake leaves a connection in order.
<1>OnIanHandshakeLocal. ASSUME TypeOK, LocalInv, NEW p \in Peers, OnIanHandshake(p)
     PROVE  \E d \in Connection : Becomes(p, d) /\ Local(d)
  <2> USE <1>OnIanHandshakeLocal
  <2> DEFINE c == conn[p]
             ec == c.inbound_ec
  <2>1. c \in Connection /\ Local(c) /\ c.inbound = "ian_handshake" /\ ec \in Results
    BY DEF TypeOK, LocalInv, OnIanHandshake
  <2>2. (ec # "ok" /\ HandleError(p, EndRead(c), ec)) \/ IanHandshakeData(p, c)
    BY DEF OnIanHandshake
  <2> HIDE DEF c
  <2>3. Live(c) /\ c.outbound = "none" /\ c.is_writing /\ ec # "canceled"
    BY <2>1 DEF Local, Phase
  <2>4. /\ EndRead(c) \in Connection /\ Settled(EndRead(c)) /\ Stops(EndRead(c)) /\ Live(EndRead(c))
    BY <2>1, <2>3, <1>EndReadSettled
  <2>5. CASE ec # "ok" /\ HandleError(p, EndRead(c), ec)
    BY <2>1, <2>3, <2>4, <2>5, <1>HandleErrorLocal
  <2>6. CASE IanHandshakeData(p, c)
    <3> DEFINE buffer == Cat(c.read_buffer, c.chunk)
               t == TakeLength(c.in_message_len, buffer)
               short == c.in_message_len = 0 /\ Len(buffer) < PrefixSize
               a1 == ReadOn(c, t.len, t.buffer)
               a2 == StartRead(a1, "ian_handshake")
               b1 == ReadOn(c, 0, <<>>)
               b2 == StartRead(b1, "read")
    <3>1. /\ ~short => t.len \in Nat /\ t.buffer \in Bytes
          /\ \/ Shutdown(p, EndRead(c))
             \/ ~short /\ t.len # 0 /\ Becomes(p, a2)
             \/ WriteNext(p, b2)
      BY Zenon, <2>1, <2>6, IanHandshakeDataIs
    <3> HIDE DEF t, short
    <3>2. CASE Shutdown(p, EndRead(c))
      <4>1. Becomes(p, Closed(EndRead(c)))
        BY <3>2, ShutdownIs
      <4> QED
        BY <2>4, <4>1, <1>ClosedLocal, ClosedIs
    <3>3. CASE ~short /\ t.len # 0 /\ Becomes(p, a2)
      <4>0. t.len \in Nat /\ t.buffer \in Bytes
        BY <3>1, <3>3
      <4>1. /\ a1 \in Connection /\ SameWrites(c, a1)
            /\ a1.dropped = c.dropped /\ a1.shutting_down = c.shutting_down /\ a1.is_writing = c.is_writing
            /\ a1.message_queue = c.message_queue /\ a1.shutdown_ec = c.shutdown_ec /\ a1.in_message_len = t.len
        BY Zenon, <2>1, <4>0, ReadOnIs
      <4> HIDE DEF a1
      <4>2. /\ a2 \in Connection
            /\ a2.inbound = "ian_handshake" /\ a2.inbound_ec = "pending" /\ a2.chunk = <<>> /\ SameWrites(a1, a2)
            /\ a2.dropped = a1.dropped /\ a2.shutting_down = a1.shutting_down /\ a2.is_writing = a1.is_writing
            /\ a2.message_queue = a1.message_queue /\ a2.shutdown_ec = a1.shutdown_ec
            /\ a2.in_message_len = a1.in_message_len
        BY <4>1, StartReadIs, EndsType
      <4> HIDE DEF a2
      <4>3. Live(a2) /\ Settled(a2) /\ Phase(a2)
        BY <2>1, <2>3, <4>1, <4>2 DEF Local, Settled, Phase, SameWrites, Live
      <4>4. Local(a2)
        BY <3>3, <4>1, <4>2, <4>3, <2>3 DEF Local, SameWrites
      <4> QED
        BY <3>3, <4>2, <4>4
    <3>4. CASE WriteNext(p, b2)
      <4>0. 0 \in Nat /\ <<>> \in Bytes
        BY EmptySeq DEF Bytes
      <4>1. /\ b1 \in Connection /\ SameWrites(c, b1)
            /\ b1.dropped = c.dropped /\ b1.shutting_down = c.shutting_down /\ b1.is_writing = c.is_writing
            /\ b1.message_queue = c.message_queue /\ b1.shutdown_ec = c.shutdown_ec
        BY <2>1, <4>0, ReadOnIs
      <4> HIDE DEF b1
      <4>2. /\ b2 \in Connection
            /\ b2.inbound = "read" /\ b2.inbound_ec = "pending" /\ b2.chunk = <<>> /\ SameWrites(b1, b2)
            /\ b2.dropped = b1.dropped /\ b2.shutting_down = b1.shutting_down /\ b2.is_writing = b1.is_writing
            /\ b2.message_queue = b1.message_queue /\ b2.shutdown_ec = b1.shutdown_ec
        BY <4>1, StartReadIs, EndsType
      <4> HIDE DEF b2
      <4>3. MayWrite(b2)
        BY <2>1, <2>3, <4>1, <4>2 DEF Local, Settled, MayWrite, SameWrites, Live
      <4> QED
        BY <3>4, <4>2, <4>3, <1>WriteNextLocal
    <3> QED
      BY <3>1, <3>2, <3>3, <3>4
  <2> QED
    BY <2>2, <2>5, <2>6
\* on_read leaves a connection in order.
<1>OnReadLocal. ASSUME TypeOK, LocalInv, NEW p \in Peers, OnRead(p)
     PROVE  \E d \in Connection : Becomes(p, d) /\ Local(d)
  <2> USE <1>OnReadLocal
  <2> DEFINE c == conn[p]
             ec == c.inbound_ec
             r == ReadLoop(c.in_message_len, Cat(c.read_buffer, c.chunk))
             after == ReadMore(c, r.len, r.buffer, r.messages)
             d == StartRead(after, "read")
  <2>1. c \in Connection /\ Local(c)
    BY DEF TypeOK, LocalInv
  <2>2. /\ c.inbound = "read" /\ ec \in Results
        /\ r.len \in Nat /\ r.buffer \in Bytes /\ r.messages \in Seq(Bytes)
        /\ \/ ec # "ok" /\ HandleError(p, EndRead(c), ec)
           \/ ec = "ok" /\ Shutdown(p, EndRead(after))
           \/ ec = "ok" /\ Becomes(p, d)
    BY Zenon, OnReadIs
  <2> HIDE DEF c, r
  <2>3. ec = "canceled" => ~Live(c)
    BY <2>1 DEF Local, Phase
  <2>4. /\ after \in Connection /\ SameWrites(c, after)
        /\ after.dropped = c.dropped /\ after.shutting_down = c.shutting_down /\ after.is_writing = c.is_writing
        /\ after.message_queue = c.message_queue /\ after.shutdown_ec = c.shutdown_ec
        /\ after.inbound = c.inbound /\ after.inbound_ec = c.inbound_ec
    <3>1. c \in Connection
      BY <2>1
    <3>2. r.len \in Nat /\ r.buffer \in Bytes /\ r.messages \in Seq(Bytes)
      BY <2>2
    <3>3. Advances(c, after, r.len, r.buffer, r.messages)
      BY <3>1, <3>2, ReadMoreIs
    <3> QED
      BY <3>3 DEF Advances
  <2> HIDE DEF after
  <2>5. CASE ec # "ok" /\ HandleError(p, EndRead(c), ec)
    <3>1. /\ EndRead(c) \in Connection /\ Settled(EndRead(c)) /\ Stops(EndRead(c)) /\ (Live(EndRead(c)) <=> Live(c))
      BY <2>1, <2>2, <1>EndReadSettled
    <3> QED
      BY <2>2, <2>3, <2>5, <3>1, <1>HandleErrorLocal
  <2>6. CASE ec = "ok" /\ Shutdown(p, EndRead(after))
    <3> DEFINE e == EndRead(after)
    <3>1. /\ e \in Connection
          /\ e.inbound = "none" /\ e.inbound_ec = "idle" /\ e.chunk = <<>> /\ SameWrites(after, e)
          /\ e.dropped = after.dropped /\ e.shutting_down = after.shutting_down
          /\ e.message_queue = after.message_queue /\ e.shutdown_ec = after.shutdown_ec
      BY <2>4, EndsAre, EndsType
    <3>2. Becomes(p, Closed(e))
      BY <2>6, ShutdownIs
    <3> HIDE DEF e
    <3>3. Settled(e) /\ Stops(e)
      BY Zenon, <2>1, <2>2, <2>4, <3>1 DEF Local, Settled, Phase, Stops, SameWrites, Live
    <3> QED
      BY <3>1, <3>2, <3>3, <1>ClosedLocal, ClosedIs
  <2>7. CASE ec = "ok" /\ Becomes(p, d)
    <3>1. /\ d \in Connection
          /\ d.inbound = "read" /\ d.inbound_ec = "pending" /\ d.chunk = <<>> /\ SameWrites(after, d)
          /\ d.dropped = after.dropped /\ d.shutting_down = after.shutting_down /\ d.is_writing = after.is_writing
          /\ d.message_queue = after.message_queue /\ d.shutdown_ec = after.shutdown_ec
      BY <2>4, StartReadIs, EndsType
    <3> HIDE DEF d
    <3>2. Settled(d) /\ (Live(d) <=> Live(c))
      BY <2>1, <2>4, <3>1 DEF Local, Settled, SameWrites, Live
    <3>3. Live(d) => Phase(d)
      BY Zenon, <2>1, <2>2, <2>4, <3>1, <3>2 DEF Local, Phase, SameWrites
    <3>4. Local(d)
      BY Zenon, <2>1, <2>2, <2>4, <3>1, <3>2, <3>3 DEF Local, Phase, SameWrites
    <3> QED
      BY <2>7, <3>1, <3>4
  <2> QED
    BY <2>2, <2>5, <2>6, <2>7
\* on_write_message leaves a connection in order.
<1>OnWriteMessageLocal. ASSUME TypeOK, LocalInv, NEW p \in Peers, OnWriteMessage(p)
     PROVE  \E d \in Connection : Becomes(p, d) /\ Local(d)
  <2> USE <1>OnWriteMessageLocal
  <2> DEFINE b == conn[p]
             c == EndWrite(b)
             ec == b.write_ec
  <2>1. b \in Connection /\ Local(b) /\ b.outbound = "message" /\ ec \in Results
    BY DEF TypeOK, LocalInv, OnWriteMessage
  <2>2. (ec # "ok" /\ HandleError(p, c, ec)) \/ WriteNext(p, c)
    BY DEF OnWriteMessage
  <2> HIDE DEF b
  <2>3. /\ c \in Connection
        /\ c.outbound = "none" /\ c.write_ec = "idle" /\ SameReads(b, c)
        /\ c.dropped = b.dropped /\ c.shutting_down = b.shutting_down /\ c.is_writing = b.is_writing
        /\ c.message_queue = b.message_queue /\ c.shutdown_ec = b.shutdown_ec
    BY <2>1, EndsAre, EndsType
  <2> HIDE DEF c
  <2>4. (Live(b) <=> Live(c)) /\ (ec = "canceled" => ~Live(c))
    BY <2>1, <2>3 DEF Local, Phase, Live
  <2>5. b.inbound \in {"none", "read"} /\ (Live(b) => b.inbound = "read" /\ b.is_writing /\ b.inbound_ec # "canceled")
    BY <2>1 DEF Local, Phase
  <2>6. Settled(c) /\ Stops(c) /\ MayWrite(c)
    BY <2>1, <2>3, <2>4, <2>5 DEF Local, Settled, Stops, MayWrite, SameReads
  <2> QED
    BY <2>1, <2>2, <2>3, <2>4, <2>6, <1>HandleErrorLocal, <1>WriteNextLocal
\* on_shutdown leaves a connection in order.
<1>OnShutdownLocal. ASSUME TypeOK, LocalInv, NEW p \in Peers, OnShutdown(p)
     PROVE  \E d \in Connection : Becomes(p, d) /\ Local(d)
  <2> USE <1>OnShutdownLocal
  <2> DEFINE c == conn[p]
  <2>1. c \in Connection /\ Local(c) /\ c.shutdown_ec = "done"
    BY DEF TypeOK, LocalInv, OnShutdown
  <2>2. Becomes(p, [c EXCEPT !.shutdown_ec = "idle", !.dropped = TRUE])
    BY DEF OnShutdown
  <2>3. "ok" \in Results
    BY DEF Results
  <2> QED
    BY Zenon, <2>1, <2>2, <2>3, <1>CompletedLocal, CompletedType
<1> SUFFICES ASSUME TypeOK, LocalInv, [Next]_vars PROVE LocalInv'
  OBVIOUS
<1>1. ASSUME NEW p \in Peers, NEW d \in Connection, Becomes(p, d), Local(d) PROVE LocalInv'
  <2>1. conn'[p] = d /\ \A q \in Peers : q # p => conn'[q] = conn[q]
    BY <1>1, BecomesType DEF TypeOK, Becomes
  <2> QED
    BY <1>1, <2>1 DEF LocalInv
<1>2. ASSUME NEW p \in Peers, Handlers(p) PROVE \E d \in Connection : Becomes(p, d) /\ Local(d)
  BY <1>2, <1>OnSslHandshakeLocal, <1>OnIanHandshakeSentLocal, <1>OnIanHandshakeLocal, <1>OnReadLocal, <1>OnWriteMessageLocal,
     <1>OnShutdownLocal DEF Handlers
<1>3. ASSUME NEW p \in Peers,
             \/ CompleteSslHandshake(p) \/ CompleteRead(p) \/ CompleteWrite(p) \/ CompleteShutdown(p)
             \/ Handlers(p) \/ \E size \in Sizes : SendMessage(p, size)
      PROVE  LocalInv'
  BY <1>1, <1>2, <1>3, <1>CompletesLocal, <1>SendMessageLocal
<1>4. CASE Fail \/ UNCHANGED vars
  BY <1>4 DEF Fail, vars, LocalInv
<1> QED
  BY <1>3, <1>4 DEF Next

\* New connections are in order.
LEMMA InitLocal == ASSUME Init PROVE LocalInv
BY DEF Init, LocalInv, Local, Settled, Phase, Live

\* is_writing_ of a connection in order is exact.
LEMMA LocalWriter == ASSUME TypeOK, LocalInv PROVE WriterAwake
<1> SUFFICES ASSUME NEW p \in Peers, IsOpen(p)
             PROVE  LET c == conn[p] IN
                    /\ c.is_writing <=> c.inbound # "read" \/ c.write_ec # "idle"
                    /\ c.message_queue # <<>> => c.is_writing
  BY DEF WriterAwake
<1>1. Local(conn[p]) /\ Live(conn[p])
  BY DEF LocalInv, IsOpen, Live
<1> QED
  BY <1>1 DEF Local, Phase, Settled

\* One write at a time: as long as a connection is open, is_writing_ is set
\* exactly before the end of the handshake and around every write, so send_message
\* never starts a write beside another one nor leaves a message in an idle queue.
THEOREM OneWriteAtATime == Spec => []WriterAwake
<1>1. Init => TypeOK /\ LocalInv
  BY InitType, InitLocal
<1>2. TypeOK /\ LocalInv /\ [Next]_vars => TypeOK' /\ LocalInv'
  BY NextType, NextLocal
<1>3. TypeOK /\ LocalInv => WriterAwake
  BY LocalWriter
<1> QED
  BY <1>1, <1>2, <1>3, PTL DEF Spec
================================================================================
