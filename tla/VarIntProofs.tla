---------------------------- MODULE VarIntProofs ----------------------------
(***************************************************************************)
(* Proofs about the variable-length integers of module VarInt, for every   *)
(* width of a byte, that of the code among them: a value is read back from *)
(* the bytes it is written as, and no other bytes that are as long are     *)
(* read as it.  With that, about one value on its way (VarIntLink): what   *)
(* is read is what was written, in its one shortest form.                  *)
(***************************************************************************)
EXTENDS VarIntLink, FiniteSetTheorems, TLAPS

-----------------------------------------------------------------------------
(* Every set of natural numbers has a least element, *)
LEMMA LeastNatural ==
  ASSUME NEW T, T \subseteq Nat, T # {}
  PROVE  \E x \in T : \A y \in T : x <= y
<1>1. IsWellFoundedOn(OpToRel(<, Nat), Nat)
  BY NatLessThanWellFounded, Zenon
<1>2. PICK x \in T : \A y \in T : <<y, x>> \notin OpToRel(<, Nat)
  BY <1>1, WFMin, Zenon
<1>3. \A y \in T : <<y, x>> \in Nat \X Nat
  OBVIOUS
<1>4. \A y \in T : ~(y < x)
  BY <1>2, <1>3, Zenon DEF OpToRel
<1>. QED
  BY <1>4

(* which is induction: the least number without the property has a          *)
(* predecessor with it.                                                     *)
LEMMA SetInduction ==
  ASSUME NEW P, 0 \in P, \A n \in Nat : n \in P => n + 1 \in P
  PROVE  Nat \subseteq P
<1>. SUFFICES ASSUME Nat \ P # {} PROVE FALSE
  OBVIOUS
<1>1. PICK x \in Nat \ P : \A y \in Nat \ P : x <= y
  BY LeastNatural
<1>2. x - 1 \in Nat /\ x - 1 \in P
  BY <1>1
<1>. QED
  BY <1>1, <1>2

(* A bounded set of natural numbers has a greatest element. *)
LEMMA GreatestNatural ==
  ASSUME NEW T, T \subseteq Nat, T # {}, NEW b \in Nat, \A y \in T : y <= b
  PROVE  \E x \in T : \A y \in T : y <= x
<1>. DEFINE D == {n \in Nat : \A y \in T : y <= n}
<1>1. PICK n \in D : \A d \in D : n <= d
  <2>1. D \subseteq Nat /\ b \in D
    OBVIOUS
  <2>. QED
    BY <2>1, LeastNatural
<1>2. n \in T
  <2>. SUFFICES ASSUME n \notin T PROVE FALSE
    OBVIOUS
  <2>1. \A y \in T : y <= n - 1
    BY <1>1
  <2>2. n - 1 \in Nat
    <3>1. PICK y \in T : y <= n /\ y # n
      BY <1>1
    <3>. QED
      BY <3>1, n \in Nat
  <2>3. n - 1 \in D
    BY <2>1, <2>2
  <2>. QED
    BY <1>1, <2>3
<1>. QED
  BY <1>1, <1>2

-----------------------------------------------------------------------------
(* A walk of n steps through the places D: F gives the next place. *)
LEMMA WalkExists ==
  ASSUME NEW D, NEW c \in D, NEW n \in Nat, NEW F \in [1 .. n -> [D -> D]]
  PROVE  \E g \in [0 .. n -> D] : g[0] = c /\ \A k \in 1 .. n : g[k] = F[k][g[k - 1]]
<1>. DEFINE Walk(g, m) == g[0] = c /\ \A k \in 1 .. m : g[k] = F[k][g[k - 1]]
            P == {m \in Nat : m <= n => \E g \in [0 .. m -> D] : Walk(g, m)}
<1>1. 0 \in P
  <2>1. [k \in 0 .. 0 |-> c] \in [0 .. 0 -> D] /\ Walk([k \in 0 .. 0 |-> c], 0)
    OBVIOUS
  <2>. QED
    BY <2>1
<1>2. ASSUME NEW m \in Nat, m \in P PROVE m + 1 \in P
  <2>. SUFFICES ASSUME m + 1 <= n PROVE \E g \in [0 .. m + 1 -> D] : Walk(g, m + 1)
    OBVIOUS
  <2>1. PICK g \in [0 .. m -> D] : Walk(g, m)
    BY <1>2
  <2>. DEFINE next == F[m + 1][g[m]]
              h == [k \in 0 .. m + 1 |-> IF k = m + 1 THEN next ELSE g[k]]
  <2>2. next \in D
    OBVIOUS
  <2>. HIDE DEF next
  <2>3. h \in [0 .. m + 1 -> D] /\ h[m + 1] = next /\ \A k \in 0 .. m : h[k] = g[k]
    BY <2>2
  <2>. HIDE DEF h
  <2>4. ASSUME NEW k \in 1 .. m + 1 PROVE h[k] = F[k][h[k - 1]]
    <3>1. CASE k = m + 1
      BY <2>3, <3>1 DEF next
    <3>2. CASE k # m + 1
      <4>1. k \in 1 .. m /\ k \in 0 .. m /\ k - 1 \in 0 .. m
        BY <3>2
      <4>. QED
        BY <2>1, <2>3, <4>1
    <3>. QED
      BY <3>1, <3>2
  <2>. QED
    BY <2>1, <2>3, <2>4
<1>. HIDE DEF P
<1>3. Nat \subseteq P
  BY <1>1, <1>2, SetInduction
<1>. QED
  BY <1>3 DEF P

-----------------------------------------------------------------------------
(* g starts at c and takes each number m times and a term further. *)
Steps(g, n, c, m, term) ==
  g = [k \in 1 .. n |-> IF k = 1 THEN c ELSE (g[k - 1] * m) + term[k]]

(* Such a recursion defines a function, of numbers. *)
LEMMA Recursion ==
  ASSUME NEW m \in Int, NEW c \in Int, NEW term
  PROVE  \A n \in Nat : \E g : Steps(g, n, c, m, term)
<1>. DEFINE P == {n \in Nat : \E g : Steps(g, n, c, m, term)}
<1>1. 0 \in P
  <2>1. Steps([k \in 1 .. 0 |-> c], 0, c, m, term)
    BY DEF Steps
  <2>. QED
    BY <2>1
<1>2. ASSUME NEW n \in Nat, n \in P PROVE n + 1 \in P
  <2>1. PICK g : Steps(g, n, c, m, term)
    BY <1>2
  <2>. DEFINE h == [k \in 1 .. n + 1 |->
                      IF k \in 1 .. n THEN g[k]
                      ELSE IF k = 1 THEN c ELSE (g[k - 1] * m) + term[k]]
  <2>2. ASSUME NEW k \in 1 .. n + 1
        PROVE  h[k] = IF k = 1 THEN c ELSE (h[k - 1] * m) + term[k]
    <3>1. CASE k = 1
      BY <2>1, <3>1 DEF Steps
    <3>2. CASE k # 1
      <4>1. k - 1 \in 1 .. n /\ h[k - 1] = g[k - 1]
        BY <3>2
      <4>2. k \in 1 .. n => g[k] = (g[k - 1] * m) + term[k]
        BY <2>1, <3>2 DEF Steps
      <4>. QED
        BY <3>2, <4>1, <4>2
    <3>. QED
      BY <3>1, <3>2
  <2>3. h = [k \in 1 .. n + 1 |-> h[k]]
    OBVIOUS
  <2>. HIDE DEF h
  <2>4. Steps(h, n + 1, c, m, term)
    BY <2>2, <2>3 DEF Steps
  <2>. QED
    BY <2>4
<1>. HIDE DEF P
<1>3. Nat \subseteq P
  BY <1>1, <1>2, SetInduction
<1>. QED
  BY <1>3 DEF P

LEMMA RecursionOfInts ==
  ASSUME NEW n \in Nat, NEW c \in Int, NEW m \in Int, NEW term,
         \A k \in 2 .. n : term[k] \in Int, NEW g, Steps(g, n, c, m, term)
  PROVE  \A k \in 1 .. n : g[k] \in Int
<1>. DEFINE P == {k \in Nat : k + 1 \in 1 .. n => g[k + 1] \in Int}
<1>1. 0 \in P
  BY DEF Steps
<1>2. ASSUME NEW k \in Nat, k \in P PROVE k + 1 \in P
  <2>. SUFFICES ASSUME k + 2 \in 1 .. n PROVE g[k + 2] \in Int
    OBVIOUS
  <2>1. g[k + 2] = (g[k + 1] * m) + term[k + 2]
    BY DEF Steps
  <2>2. g[k + 1] \in Int /\ term[k + 2] \in Int
    BY <1>2
  <2>. QED
    BY <2>1, <2>2
<1>. HIDE DEF P
<1>3. Nat \subseteq P
  BY <1>1, <1>2, SetInduction
<1>4. ASSUME NEW k \in 1 .. n PROVE g[k] \in Int
  <2>1. k - 1 \in P
    BY <1>3
  <2>. QED
    BY <2>1 DEF P
<1>. QED
  BY <1>4

-----------------------------------------------------------------------------
(* Division by what a divisor is a product of. *)
LEMMA DivisionInSteps ==
  ASSUME NEW x \in Nat, NEW a \in Nat \ {0}, NEW b \in Nat \ {0}
  PROVE  (x \div a) \div b = x \div (a * b)
OBVIOUS

LEMMA Quotient ==
  ASSUME NEW b \in Nat \ {0}, NEW q \in Int, NEW r \in 0 .. b - 1
  PROVE  ((q * b) + r) \div b = q /\ ((q * b) + r) % b = r
OBVIOUS

LEMMA Division ==
  ASSUME NEW x \in Nat, NEW b \in Nat \ {0}
  PROVE  /\ x \div b \in Nat /\ x % b \in 0 .. b - 1
         /\ x = ((x \div b) * b) + (x % b)
OBVIOUS

-----------------------------------------------------------------------------
(* Powers of two count subsets, and one element more doubles their number. *)
LEMMA PowerOfZero == 2 ^ 0 = 1
OBVIOUS

LEMMA SubsetsOf ==
  ASSUME NEW k \in Nat
  PROVE  IsFiniteSet(SUBSET (1 .. k)) /\ Cardinality(SUBSET (1 .. k)) = 2 ^ k
<1>1. IsFiniteSet(1 .. k) /\ Cardinality(1 .. k) = k
  BY FS_Interval
<1>. QED
  BY <1>1, FS_SUBSET

LEMMA PowerType == \A k \in Nat : 2 ^ k \in Nat \ {0}
<1>. SUFFICES ASSUME NEW k \in Nat PROVE 2 ^ k \in Nat \ {0}
  OBVIOUS
<1>1. 2 ^ k \in Nat
  BY SubsetsOf, FS_CardinalityType
<1>2. SUBSET (1 .. k) # {}
  OBVIOUS
<1>3. Cardinality(SUBSET (1 .. k)) # 0
  BY <1>2, SubsetsOf, FS_EmptySet
<1>. QED
  BY <1>1, <1>3, SubsetsOf

LEMMA PowerStep == \A k \in Nat : 2 ^ (k + 1) = 2 * 2 ^ k
<1>. SUFFICES ASSUME NEW k \in Nat PROVE 2 ^ (k + 1) = 2 * 2 ^ k
  OBVIOUS
<1>. DEFINE S == SUBSET (1 .. k)
            T == {s \cup {k + 1} : s \in S}
            f == [s \in S |-> s \cup {k + 1}]
<1>1. SUBSET (1 .. k + 1) = S \cup T
  <2>1. ASSUME NEW s \in SUBSET (1 .. k + 1) PROVE s \in S \cup T
    <3>1. CASE k + 1 \in s
      <4>1. s \ {k + 1} \in S /\ s = (s \ {k + 1}) \cup {k + 1}
        BY <3>1
      <4>. QED
        BY <4>1
    <3>2. CASE k + 1 \notin s
      BY <3>2
    <3>. QED
      BY <3>1, <3>2
  <2>2. ASSUME NEW s \in S \cup T PROVE s \in SUBSET (1 .. k + 1)
    OBVIOUS
  <2>. QED
    BY <2>1, <2>2
<1>2. S \cap T = {}
  OBVIOUS
<1>3. f \in Bijection(S, T)
  <2>1. f \in [S -> T]
    OBVIOUS
  <2>2. ASSUME NEW s \in S, NEW t \in S, f[s] = f[t] PROVE s = t
    <3>1. s = f[s] \ {k + 1} /\ t = f[t] \ {k + 1}
      OBVIOUS
    <3>. QED
      BY <2>2, <3>1
  <2>3. \A t \in T : \E s \in S : f[s] = t
    OBVIOUS
  <2>. QED
    BY <2>1, <2>2, <2>3 DEF Bijection, Injection, Surjection, IsInjective
<1>4. IsFiniteSet(S) /\ Cardinality(S) = 2 ^ k
  BY SubsetsOf
<1>5. IsFiniteSet(T) /\ Cardinality(T) = 2 ^ k
  BY <1>3, <1>4, FS_Bijection DEF ExistsBijection
<1>6. Cardinality(S \cup T) = Cardinality(S) + Cardinality(T) - Cardinality(S \cap T)
  BY <1>4, <1>5, FS_Union
<1>7. Cardinality(S \cap T) = 0
  BY <1>2, FS_EmptySet
<1>8. Cardinality(SUBSET (1 .. k + 1)) = 2 ^ (k + 1)
  <2>1. ASSUME NEW j \in Nat PROVE Cardinality(SUBSET (1 .. j)) = 2 ^ j
    BY SubsetsOf
  <2>2. k + 1 \in Nat
    OBVIOUS
  <2>. QED
    BY <2>1, <2>2
<1>9. 2 ^ k \in Nat
  BY PowerType
<1>10. Cardinality(S \cup T) = 2 ^ k + 2 ^ k
  <2>. HIDE DEF S, T
  <2>. QED
    BY <1>4, <1>5, <1>6, <1>7, <1>9
<1>11. Cardinality(S \cup T) = 2 ^ (k + 1)
  BY <1>1, <1>8, Zenon
<1>12. 2 ^ (k + 1) = 2 ^ k + 2 ^ k
  BY <1>10, <1>11, Zenon
<1>. QED
  BY <1>9, <1>12

(* The product of powers adds their exponents; powers grow. *)
LEMMA PowerSum == \A a, b \in Nat : 2 ^ (a + b) = 2 ^ a * 2 ^ b
<1>. SUFFICES ASSUME NEW a \in Nat PROVE \A b \in Nat : 2 ^ (a + b) = 2 ^ a * 2 ^ b
  OBVIOUS
<1>. DEFINE P == {b \in Nat : 2 ^ (a + b) = 2 ^ a * 2 ^ b}
<1>1. 0 \in P
  BY PowerType, PowerOfZero
<1>2. ASSUME NEW b \in Nat, b \in P PROVE b + 1 \in P
  <2>1. 2 ^ (a + b + 1) = 2 * 2 ^ (a + b) /\ 2 ^ (b + 1) = 2 * 2 ^ b
    BY PowerStep
  <2>2. 2 ^ a \in Nat /\ 2 ^ b \in Nat /\ 2 ^ (a + b) = 2 ^ a * 2 ^ b
    BY <1>2, PowerType
  <2>3. 2 ^ (a + (b + 1)) = 2 ^ (a + b + 1)
    OBVIOUS
  <2>. QED
    BY <2>1, <2>2, <2>3
<1>. HIDE DEF P
<1>3. Nat \subseteq P
  BY <1>1, <1>2, SetInduction
<1>. QED
  BY <1>3 DEF P

LEMMA PowerMonotone == \A a, b \in Nat : a <= b => 2 ^ a <= 2 ^ b
<1>. SUFFICES ASSUME NEW a \in Nat, NEW b \in Nat, a <= b PROVE 2 ^ a <= 2 ^ b
  OBVIOUS
<1>1. 2 ^ (a + (b - a)) = 2 ^ a * 2 ^ (b - a) /\ b - a \in Nat
  BY PowerSum
<1>2. 2 ^ a \in Nat \ {0} /\ 2 ^ (b - a) \in Nat \ {0}
  BY PowerType
<1>3. a + (b - a) = b
  OBVIOUS
<1>. QED
  BY <1>1, <1>2, <1>3

LEMMA PowerAbove == \A k \in Nat : k < 2 ^ k
<1>. DEFINE P == {k \in Nat : k < 2 ^ k}
<1>1. 0 \in P
  BY PowerOfZero
<1>2. ASSUME NEW k \in Nat, k \in P PROVE k + 1 \in P
  BY <1>2, PowerStep, PowerType
<1>. HIDE DEF P
<1>3. Nat \subseteq P
  BY <1>1, <1>2, SetInduction
<1>. QED
  BY <1>3 DEF P

-----------------------------------------------------------------------------
LEMMA ElementTaken ==
  ASSUME NEW T, T # {}, IsFiniteSet(T), NEW x \in T
  PROVE  /\ IsFiniteSet(T \ {x}) /\ Cardinality(T) \in Nat \ {0}
         /\ Cardinality(T \ {x}) = Cardinality(T) - 1
BY FS_RemoveElement, FS_CardinalityType, FS_EmptySet

(* A finite set of natural numbers is bounded. *)
LEMMA FiniteBound ==
  ASSUME NEW S, IsFiniteSet(S), S \subseteq Nat
  PROVE  \E b \in Nat : \A y \in S : y <= b
<1>. DEFINE Bounded(T) == \E b \in Nat : \A y \in T : y <= b
            P == {n \in Nat : \A T \in SUBSET S : Cardinality(T) = n => Bounded(T)}
<1>1. \A T \in SUBSET S : IsFiniteSet(T) /\ Cardinality(T) \in Nat
  BY FS_Subset, FS_CardinalityType
<1>2. 0 \in P
  <2>1. \A T \in SUBSET S : Cardinality(T) = 0 => T = {}
    BY <1>1, FS_EmptySet
  <2>2. Bounded({})
    OBVIOUS
  <2>. HIDE DEF Bounded
  <2>. QED
    BY <2>1, <2>2
<1>3. ASSUME NEW n \in Nat, n \in P PROVE n + 1 \in P
  <2>. SUFFICES ASSUME NEW T \in SUBSET S, Cardinality(T) = n + 1 PROVE Bounded(T)
    OBVIOUS
  <2>1. PICK x : x \in T
    BY FS_EmptySet
  <2>2. Cardinality(T \ {x}) = n
    BY <1>1, <2>1, ElementTaken
  <2>3. PICK b \in Nat : \A y \in T \ {x} : y <= b
    BY <1>3, <2>2
  <2>4. CASE x <= b
    BY <2>3, <2>4
  <2>5. CASE ~(x <= b)
    <3>1. x \in Nat /\ \A y \in T : y \in Nat /\ y <= x
      BY <2>1, <2>3, <2>5
    <3>. QED
      BY <3>1
  <2>. QED
    BY <2>4, <2>5
<1>. HIDE DEF P
<1>4. Nat \subseteq P
  BY <1>2, <1>3, SetInduction
<1>. QED
  BY <1>1, <1>4 DEF P

-----------------------------------------------------------------------------

(* How many values there are. *)
Values == 0 .. 2 ^ (W * W) - 1

-----------------------------------------------------------------------------
(* Powers with the exponents the forms use. *)
LEMMA WidthType == W \in Nat /\ W >= 1
BY WidthAssumption

LEMMA ByteValuesType == ByteValues \in Nat \ {0, 1}
<1>1. 2 ^ 1 = 2
  OBVIOUS
<1>2. 2 ^ 1 <= 2 ^ W /\ 2 ^ W \in Nat
  BY WidthType, PowerType, PowerMonotone
<1>. QED
  BY <1>1, <1>2 DEF ByteValues

LEMMA ProductType == \A i, j \in Nat : i * j \in Nat
OBVIOUS

LEMMA PayloadsType == \A k \in Forms : Payloads(k) \in Nat \ {0}
<1>. SUFFICES ASSUME NEW k \in Forms PROVE Payloads(k) \in Nat \ {0}
  OBVIOUS
<1>1. (W - 1) * k \in Nat /\ W * W \in Nat
  BY WidthType, ProductType DEF Forms
<1>. QED
  BY <1>1, PowerType DEF Payloads

-----------------------------------------------------------------------------
(* The table of first values. *)
LEMMA BaseDef ==
  \A k \in Forms : Base[k] = IF k = 1 THEN 0 ELSE Base[k - 1] + Payloads(k - 1)
<1>. DEFINE term == [k \in 2 .. W + 1 |-> Payloads(k - 1)]
<1>1. W + 1 \in Nat /\ \A k \in 2 .. W + 1 : term[k] \in Int
  BY WidthType, PayloadsType DEF Forms
<1>2. PICK g : Steps(g, W + 1, 0, 1, term)
  <2>. HIDE DEF term
  <2>1. \A n \in Nat : \E g : Steps(g, n, 0, 1, term)
    BY Recursion
  <2>. QED
    BY <1>1, <2>1
<1>3. \A k \in 1 .. W + 1 : g[k] \in Int
  <2>. HIDE DEF term
  <2>. QED
    BY <1>1, <1>2, RecursionOfInts
<1>4. ASSUME NEW k \in Forms
      PROVE  g[k] = IF k = 1 THEN 0 ELSE g[k - 1] + Payloads(k - 1)
  <2>1. CASE k = 1
    BY <1>2, <2>1, WidthType DEF Steps, Forms
  <2>2. CASE k # 1
    <3>1. k \in 2 .. W + 1 /\ k - 1 \in 1 .. W + 1
      BY <2>2, WidthType DEF Forms
    <3>2. k \in 1 .. W + 1 /\ term[k] = Payloads(k - 1)
      BY <3>1, WidthType
    <3>3. g[k] = (g[k - 1] * 1) + term[k]
      <4>. HIDE DEF term
      <4>. QED
        BY <1>2, <2>2, <3>2 DEF Steps
    <3>. QED
      BY <1>3, <2>2, <3>1, <3>2, <3>3
  <2>. QED
    BY <2>1, <2>2
<1>5. g = [k \in Forms |-> IF k = 1 THEN 0 ELSE g[k - 1] + Payloads(k - 1)]
  <2>1. g = [k \in Forms |-> g[k]]
    BY <1>2 DEF Steps, Forms
  <2>. QED
    BY <1>4, <2>1
<1>6. Base = [k \in Forms |-> IF k = 1 THEN 0 ELSE Base[k - 1] + Payloads(k - 1)]
  BY <1>5, Zenon DEF Base
<1>. QED
  BY <1>6, Zenon

LEMMA BaseType == \A k \in Forms : Base[k] \in Nat
<1>. DEFINE P == {k \in Nat : k + 1 \in Forms => Base[k + 1] \in Nat}
<1>1. 0 \in P
  BY BaseDef
<1>2. ASSUME NEW k \in Nat, k \in P PROVE k + 1 \in P
  <2>. SUFFICES ASSUME k + 2 \in Forms PROVE Base[k + 2] \in Nat
    OBVIOUS
  <2>1. k + 1 \in Forms
    BY WidthType DEF Forms
  <2>. QED
    BY <1>2, <2>1, BaseDef, PayloadsType
<1>. HIDE DEF P
<1>3. Nat \subseteq P
  BY <1>1, <1>2, SetInduction
<1>4. ASSUME NEW k \in Forms PROVE Base[k] \in Nat
  <2>1. k - 1 \in P /\ (k - 1) + 1 = k
    BY <1>3, WidthType DEF Forms
  <2>. QED
    BY <2>1 DEF P
<1>. QED
  BY <1>4

LEMMA BaseNext ==
  \A k \in 1 .. W : Base[k + 1] = Base[k] + Payloads(k) /\ k \in Forms /\ k + 1 \in Forms
BY BaseDef, WidthType DEF Forms

LEMMA BaseMonotone ==
  \A j, k \in Forms : j < k => Base[j] + Payloads(j) <= Base[k]
<1>. SUFFICES ASSUME NEW j \in Forms
              PROVE  \A k \in Forms : j < k => Base[j] + Payloads(j) <= Base[k]
  OBVIOUS
<1>. DEFINE P == {d \in Nat : j + d + 1 \in Forms => Base[j] + Payloads(j) <= Base[j + d + 1]}
<1>0. j \in Nat /\ Base[j] \in Nat /\ Payloads(j) \in Nat
  BY BaseType, PayloadsType DEF Forms
<1>1. 0 \in P
  <2>. SUFFICES ASSUME j + 1 \in Forms PROVE Base[j] + Payloads(j) <= Base[j + 1]
    BY <1>0
  <2>1. j \in 1 .. W
    BY WidthType DEF Forms
  <2>. QED
    BY <1>0, <2>1, BaseNext
<1>2. ASSUME NEW d \in Nat, d \in P PROVE d + 1 \in P
  <2>. SUFFICES ASSUME j + d + 2 \in Forms PROVE Base[j] + Payloads(j) <= Base[j + d + 2]
    BY <1>0
  <2>1. j + d + 1 \in 1 .. W /\ j + d + 1 \in Forms
    BY <1>0, WidthType DEF Forms
  <2>2. Base[j + d + 2] = Base[j + d + 1] + Payloads(j + d + 1)
    <3>1. (j + d + 1) + 1 = j + d + 2
      BY <1>0
    <3>2. \A k \in 1 .. W : Base[k + 1] = Base[k] + Payloads(k)
      BY BaseNext
    <3>. QED
      BY <2>1, <3>1, <3>2
  <2>3. Base[j] + Payloads(j) <= Base[j + d + 1]
    BY <1>2, <2>1
  <2>4. Base[j + d + 1] \in Nat /\ Payloads(j + d + 1) \in Nat
    BY <2>1, BaseType, PayloadsType
  <2>. QED
    BY <1>0, <2>2, <2>3, <2>4
<1>. HIDE DEF P
<1>3. Nat \subseteq P
  BY <1>1, <1>2, SetInduction
<1>4. ASSUME NEW k \in Forms, j < k PROVE Base[j] + Payloads(j) <= Base[k]
  <2>1. k - j - 1 \in P /\ j + (k - j - 1) + 1 = k
    BY <1>0, <1>3, <1>4 DEF Forms
  <2>. QED
    BY <2>1 DEF P
<1>. QED
  BY <1>4

(* The form of a value: there is one, and only one has room. *)
HasRoom(v, k) == v >= Base[k] /\ (k > W \/ v < Base[k + 1])

LEMMA FormIsUnique ==
  ASSUME NEW v \in Nat, NEW j \in Forms, NEW k \in Forms, HasRoom(v, j), HasRoom(v, k)
  PROVE  j = k
<1>1. ASSUME NEW a \in Forms, NEW b \in Forms, HasRoom(v, a), HasRoom(v, b) PROVE ~(a < b)
  <2>. SUFFICES ASSUME a < b PROVE FALSE
    OBVIOUS
  <2>1. a \in 1 .. W /\ Base[a + 1] = Base[a] + Payloads(a) /\ v < Base[a + 1]
    <3>1. a \in 1 .. W
      BY WidthType DEF Forms
    <3>. QED
      BY <1>1, <3>1, BaseNext, WidthType DEF HasRoom
  <2>2. Base[a] + Payloads(a) <= Base[b] /\ Base[b] <= v
    BY <1>1, BaseMonotone DEF HasRoom
  <2>. QED
    BY <2>1, <2>2, BaseType, PayloadsType
<1>2. ~(j < k) /\ ~(k < j)
  BY <1>1
<1>. QED
  BY <1>2 DEF Forms

LEMMA FormFacts ==
  ASSUME NEW v \in Nat
  PROVE  /\ Form(v) \in Forms /\ HasRoom(v, Form(v))
         /\ \A k \in Forms : HasRoom(v, k) => Form(v) = k
<1>. DEFINE T == {k \in Forms : Base[k] <= v}
<1>1. PICK k \in T : \A j \in T : j <= k
  <2>1. 1 \in T /\ T \subseteq Nat /\ \A j \in T : j <= W + 1
    BY BaseDef, WidthType DEF Forms
  <2>2. W + 1 \in Nat
    BY WidthType
  <2>. HIDE DEF T
  <2>. QED
    BY <2>1, <2>2, GreatestNatural
<1>2. HasRoom(v, k)
  <2>1. CASE k > W
    BY <2>1, BaseType DEF HasRoom
  <2>2. CASE ~(k > W)
    <3>1. k + 1 \in Forms /\ k + 1 \notin T
      BY <1>1, <2>2, WidthType DEF Forms
    <3>. QED
      BY <3>1, BaseType DEF HasRoom
  <2>. QED
    BY <2>1, <2>2
<1>3. Form(v) = CHOOSE j \in Forms : HasRoom(v, j)
  BY DEF Form, HasRoom
<1>4. Form(v) \in Forms /\ HasRoom(v, Form(v))
  BY <1>2, <1>3
<1>. QED
  BY <1>4, FormIsUnique

-----------------------------------------------------------------------------
(* The first bytes: form k has 2^(W - k) of them, the longest form one. *)
LEMMA LeadFacts ==
  /\ Lead(1) = 0 /\ Lead(W + 1) = ByteValues - 1
  /\ \A k \in Forms : Lead(k) \in Byte
  /\ \A k \in 1 .. W : Lead(k + 1) = Lead(k) + 2 ^ (W - k) /\ 2 ^ (W - k) \in Nat \ {0}
<1>1. ASSUME NEW k \in Forms PROVE Lead(k) \in Byte
  <2>1. W - k + 1 \in Nat /\ W - k + 1 <= W
    BY WidthType DEF Forms
  <2>2. 2 ^ (W - k + 1) \in Nat \ {0} /\ 2 ^ (W - k + 1) <= 2 ^ W
    BY <2>1, WidthType, PowerType, PowerMonotone
  <2>. QED
    BY <2>2, ByteValuesType DEF Lead, Byte, ByteValues
<1>2. Lead(1) = 0
  <2>1. W - 1 + 1 = W
    BY WidthType
  <2>. QED
    BY <2>1, ByteValuesType DEF Lead, ByteValues
<1>3. Lead(W + 1) = ByteValues - 1
  <2>1. W - (W + 1) + 1 = 0
    BY WidthType
  <2>. QED
    BY <2>1, PowerOfZero DEF Lead
<1>4. ASSUME NEW k \in 1 .. W
      PROVE  Lead(k + 1) = Lead(k) + 2 ^ (W - k) /\ 2 ^ (W - k) \in Nat \ {0}
  <2>1. W - k \in Nat /\ W - (k + 1) + 1 = W - k
    BY WidthType
  <2>2. 2 ^ (W - k + 1) = 2 * 2 ^ (W - k) /\ 2 ^ (W - k) \in Nat \ {0}
    BY <2>1, PowerStep, PowerType
  <2>. QED
    BY <2>1, <2>2, ByteValuesType DEF Lead
<1>. QED
  BY <1>1, <1>2, <1>3, <1>4

LEMMA LeadMonotone ==
  \A j, k \in Forms : j < k => Lead(j + 1) <= Lead(k)
<1>. SUFFICES ASSUME NEW j \in Forms, NEW k \in Forms, j < k PROVE Lead(j + 1) <= Lead(k)
  OBVIOUS
<1>1. W - k + 1 \in Nat /\ W - (j + 1) + 1 \in Nat /\ W - k + 1 <= W - (j + 1) + 1
  BY WidthType DEF Forms
<1>2. 2 ^ (W - k + 1) <= 2 ^ (W - (j + 1) + 1)
  BY <1>1, PowerMonotone
<1>3. 2 ^ (W - k + 1) \in Nat /\ 2 ^ (W - (j + 1) + 1) \in Nat
  BY <1>1, PowerType
<1>. QED
  BY <1>2, <1>3, ByteValuesType DEF Lead

Announces(b, k) == Lead(k) <= b /\ (k > W \/ b < Lead(k + 1))

LEMMA FormOfFacts ==
  ASSUME NEW b \in Byte
  PROVE  /\ FormOf(b) \in Forms /\ Announces(b, FormOf(b))
         /\ \A k \in Forms : Announces(b, k) => FormOf(b) = k
<1>0. b \in Nat /\ \A k \in Forms : Lead(k) \in Nat
  BY LeadFacts, ByteValuesType DEF Byte
<1>. DEFINE T == {k \in Forms : Lead(k) <= b}
<1>1. PICK k \in T : \A j \in T : j <= k
  <2>1. 1 \in T /\ T \subseteq Nat /\ \A j \in T : j <= W + 1
    BY <1>0, LeadFacts, WidthType DEF Forms
  <2>2. W + 1 \in Nat
    BY WidthType
  <2>. HIDE DEF T
  <2>. QED
    BY <2>1, <2>2, GreatestNatural
<1>2. Announces(b, k)
  <2>1. CASE k > W
    BY <2>1 DEF Announces
  <2>2. CASE ~(k > W)
    <3>1. k + 1 \in Forms /\ k + 1 \notin T
      BY <1>1, <2>2, WidthType DEF Forms
    <3>. QED
      BY <1>0, <3>1 DEF Announces
  <2>. QED
    BY <2>1, <2>2
<1>3. FormOf(b) = CHOOSE j \in Forms : Announces(b, j)
  BY DEF FormOf, Announces
<1>4. FormOf(b) \in Forms /\ Announces(b, FormOf(b))
  BY <1>2, <1>3
<1>5. ASSUME NEW i \in Forms, NEW j \in Forms, Announces(b, i), Announces(b, j) PROVE ~(i < j)
  <2>. SUFFICES ASSUME i < j PROVE FALSE
    OBVIOUS
  <2>1. b < Lead(i + 1) /\ i + 1 \in Forms
    BY <1>5, WidthType DEF Announces, Forms
  <2>2. Lead(i + 1) <= Lead(j) /\ Lead(j) <= b
    BY <1>5, LeadMonotone DEF Announces
  <2>. QED
    BY <1>0, <2>1, <2>2
<1>6. \A i \in Forms : Announces(b, i) => ~(i < FormOf(b)) /\ ~(FormOf(b) < i)
  BY <1>4, <1>5
<1>. QED
  BY <1>4, <1>6 DEF Forms

(* What the first byte of form k holds besides the fixed bits. *)
Span(k) == IF k <= W THEN 2 ^ (W - k) ELSE 1

LEMMA FirstBytes ==
  ASSUME NEW k \in Forms
  PROVE  /\ Span(k) \in Nat \ {0} /\ Span(k) <= ByteValues
         /\ \A d \in 0 .. Span(k) - 1 : Lead(k) + d \in Byte /\ Announces(Lead(k) + d, k)
         /\ \A b \in Byte : Announces(b, k) => b - Lead(k) \in 0 .. Span(k) - 1
<1>0. k \in Nat /\ Lead(k) \in 0 .. ByteValues - 1 /\ ByteValues \in Nat
  BY LeadFacts, ByteValuesType DEF Byte, Forms
<1>1. CASE k \in 1 .. W
  <2>1. Span(k) = 2 ^ (W - k) /\ Lead(k + 1) = Lead(k) + 2 ^ (W - k) /\ 2 ^ (W - k) \in Nat \ {0}
    BY <1>1, LeadFacts DEF Span
  <2>2. Lead(k + 1) \in 0 .. ByteValues - 1
    BY <1>1, LeadFacts, WidthType DEF Forms, Byte
  <2>. QED
    BY <1>0, <1>1, <2>1, <2>2, WidthType DEF Announces, Byte
<1>2. CASE k = W + 1
  <2>1. Span(k) = 1 /\ Lead(k) = ByteValues - 1
    BY <1>2, LeadFacts, WidthType DEF Span
  <2>. QED
    BY <1>0, <1>2, <2>1, WidthType DEF Announces, Byte
<1>3. k \in 1 .. W \/ k = W + 1
  BY WidthType DEF Forms
<1>. QED
  BY <1>1, <1>2, <1>3

-----------------------------------------------------------------------------
(* Weight(j) is what the byte counts that j bytes follow. *)
Weight(j) == 2 ^ (W * j)

LEMMA WeightFacts ==
  /\ Weight(0) = 1
  /\ \A j \in Nat : Weight(j) \in Nat \ {0} /\ Weight(j + 1) = Weight(j) * ByteValues
<1>1. W * 0 = 0 /\ W \in Nat
  BY WidthType
<1>2. ASSUME NEW j \in Nat
      PROVE  Weight(j) \in Nat \ {0} /\ Weight(j + 1) = Weight(j) * ByteValues
  <2>1. W * j \in Nat /\ W * (j + 1) = (W * j) + W
    BY <1>1, ProductType
  <2>2. 2 ^ ((W * j) + W) = 2 ^ (W * j) * 2 ^ W
    BY <1>1, <2>1, PowerSum
  <2>3. 2 ^ (W * j) \in Nat \ {0}
    BY <2>1, PowerType
  <2>. QED
    BY <2>1, <2>2, <2>3 DEF Weight, ByteValues
<1>. QED
  BY <1>1, <1>2, PowerOfZero DEF Weight

LEMMA PayloadsSplit ==
  ASSUME NEW k \in Forms
  PROVE  Payloads(k) = Span(k) * Weight(k - 1)
<1>0. k \in Nat \ {0} /\ W \in Nat
  BY WidthType DEF Forms
<1>1. CASE k <= W
  <2>1. W * (k - 1) \in Nat /\ W - k \in Nat /\ (W - 1) * k = (W - k) + (W * (k - 1))
    BY <1>0, <1>1, ProductType
  <2>2. 2 ^ ((W - k) + (W * (k - 1))) = 2 ^ (W - k) * 2 ^ (W * (k - 1))
    BY <2>1, PowerSum
  <2>. QED
    BY <1>1, <2>1, <2>2 DEF Payloads, Span, Weight
<1>2. CASE ~(k <= W)
  <2>1. k - 1 = W
    BY <1>2, WidthType DEF Forms
  <2>2. 2 ^ (W * W) \in Nat
    BY <1>0, ProductType, PowerType
  <2>. QED
    BY <1>2, <2>1, <2>2 DEF Payloads, Span, Weight
<1>. QED
  BY <1>1, <1>2

(* The reader's loop over the bytes, and the digits of a payload of k bytes. *)
Loop(up, stream, p, k) ==
  /\ up[1] = stream[p] - Lead(k)
  /\ \A i \in 2 .. k : up[i] = (up[i - 1] * ByteValues) + stream[p + i - 1]
  /\ PayloadAt(stream, p, k) = up[k]

LEMMA LoopIsDefined ==
  ASSUME NEW stream, NEW p \in Nat, NEW k \in Forms, \A i \in 1 .. k : stream[p + i - 1] \in Byte
  PROVE  \E up : Loop(up, stream, p, k)
<1>0. k \in Nat \ {0} /\ ByteValues \in Int
  BY WidthType, ByteValuesType DEF Forms
<1>. DEFINE c == stream[p] - Lead(k)
            term == [i \in 2 .. k |-> stream[p + i - 1]]
            up == CHOOSE u : u = [i \in 1 .. k |-> IF i = 1 THEN stream[p] - Lead(k)
                                                   ELSE (u[i - 1] * ByteValues) + stream[p + i - 1]]
<1>1. c \in Int
  <2>1. Lead(k) \in Int
    BY LeadFacts, ByteValuesType DEF Byte
  <2>2. stream[p + 1 - 1] \in Byte /\ p + 1 - 1 = p
    BY <1>0
  <2>. QED
    BY <2>1, <2>2, ByteValuesType DEF Byte
<1>2. PICK g : Steps(g, k, c, ByteValues, term)
  <2>. HIDE DEF c, term
  <2>1. \A n \in Nat : \E g : Steps(g, n, c, ByteValues, term)
    BY <1>0, <1>1, Recursion
  <2>. QED
    BY <1>0, <2>1
<1>3. g = [i \in 1 .. k |-> IF i = 1 THEN stream[p] - Lead(k)
                            ELSE (g[i - 1] * ByteValues) + stream[p + i - 1]]
  <2>1. g = [i \in 1 .. k |-> g[i]]
    BY <1>2 DEF Steps
  <2>2. ASSUME NEW i \in 1 .. k
        PROVE  g[i] = IF i = 1 THEN stream[p] - Lead(k)
                      ELSE (g[i - 1] * ByteValues) + stream[p + i - 1]
    <3>1. g[i] = IF i = 1 THEN c ELSE (g[i - 1] * ByteValues) + term[i]
      <4>. HIDE DEF c, term
      <4>. QED
        BY <1>2 DEF Steps
    <3>2. i # 1 => term[i] = stream[p + i - 1]
      BY <1>0
    <3>. QED
      BY <3>1, <3>2
  <2>. QED
    BY <2>1, <2>2
<1>4. up = [i \in 1 .. k |-> IF i = 1 THEN stream[p] - Lead(k)
                             ELSE (up[i - 1] * ByteValues) + stream[p + i - 1]]
  BY <1>3, Zenon
<1>5. PayloadAt(stream, p, k) = up[k]
  BY Zenon DEF PayloadAt
<1>. HIDE DEF up
<1>6. up[1] = stream[p] - Lead(k) /\ \A i \in 2 .. k : up[i] = (up[i - 1] * ByteValues) + stream[p + i - 1]
  BY <1>0, <1>4
<1>. QED
  BY <1>5, <1>6 DEF Loop

Digit(x, k, i) == (x \div Weight(k - i)) % ByteValues

(* The bytes of a payload are read as the payload, *)
LEMMA DigitsAreRead ==
  ASSUME NEW k \in Forms, NEW x \in 0 .. Payloads(k) - 1, NEW stream, NEW p \in Nat,
         \A i \in 1 .. k : stream[p + i - 1] \in Byte,
         stream[p] = Lead(k) + Digit(x, k, 1),
         \A i \in 2 .. k : stream[p + i - 1] = Digit(x, k, i)
  PROVE  PayloadAt(stream, p, k) = x
<1>0. k \in Nat \ {0} /\ x \in Nat /\ ByteValues \in Nat \ {0} /\ Lead(k) \in Int
  BY WidthType, ByteValuesType, PayloadsType, LeadFacts DEF Forms, Byte
<1>1. PICK up : Loop(up, stream, p, k)
  BY LoopIsDefined
<1>2. x \div Weight(k - 1) \in 0 .. ByteValues - 1
  <2>1. Weight(k - 1) \in Nat \ {0} /\ Span(k) \in Nat /\ Span(k) <= ByteValues
    BY <1>0, WeightFacts, FirstBytes
  <2>2. x < Span(k) * Weight(k - 1)
    BY <1>0, PayloadsSplit, PayloadsType
  <2>3. x \div Weight(k - 1) < Span(k) /\ x \div Weight(k - 1) \in Nat
    BY <1>0, <2>1, <2>2
  <2>. QED
    BY <1>0, <2>1, <2>3
<1>. DEFINE P == {j \in Nat : j + 1 \in 1 .. k => up[j + 1] = x \div Weight(k - (j + 1))}
<1>3. 0 \in P
  <2>1. Digit(x, k, 1) = x \div Weight(k - 1)
    BY <1>0, <1>2 DEF Digit
  <2>2. up[1] = x \div Weight(k - 1)
    BY <1>0, <1>1, <1>2, <2>1 DEF Loop
  <2>. QED
    BY <2>2
<1>4. ASSUME NEW j \in Nat, j \in P PROVE j + 1 \in P
  <2>. SUFFICES ASSUME j + 2 \in 1 .. k PROVE up[j + 2] = x \div Weight(k - (j + 2))
    OBVIOUS
  <2>. DEFINE d == k - (j + 2)
              q == x \div Weight(d)
  <2>1. d \in Nat /\ k - (j + 1) = d + 1
    BY <1>0
  <2>2. Weight(d) \in Nat \ {0} /\ Weight(d + 1) = Weight(d) * ByteValues
    BY <2>1, WeightFacts
  <2>3. up[j + 1] = x \div (Weight(d) * ByteValues)
    BY <1>4, <2>1, <2>2, <1>0
  <2>4. up[j + 1] = q \div ByteValues
    <3>. HIDE DEF d
    <3>. QED
      BY <1>0, <2>2, <2>3, DivisionInSteps
  <2>5. up[j + 2] = (up[j + 1] * ByteValues) + Digit(x, k, j + 2)
    <3>1. j + 2 \in 2 .. k /\ (j + 2) - 1 = j + 1
      BY <1>0
    <3>2. up[j + 2] = (up[(j + 2) - 1] * ByteValues) + stream[p + (j + 2) - 1]
      BY <1>1, <3>1 DEF Loop
    <3>3. stream[p + (j + 2) - 1] = Digit(x, k, j + 2)
      BY <3>1
    <3>. QED
      BY <3>1, <3>2, <3>3
  <2>6. Digit(x, k, j + 2) = q % ByteValues
    BY DEF Digit
  <2>7. q \in Nat
    <3>. HIDE DEF d
    <3>. QED
      BY <1>0, <2>2, Division
  <2>8. q = ((q \div ByteValues) * ByteValues) + (q % ByteValues)
    <3>. HIDE DEF q
    <3>. QED
      BY <1>0, <2>7, Division
  <2>. QED
    BY <2>4, <2>5, <2>6, <2>8
<1>. HIDE DEF P
<1>5. Nat \subseteq P
  BY <1>3, <1>4, SetInduction
<1>6. up[k] = x \div Weight(0)
  <2>1. k - 1 \in P /\ (k - 1) + 1 = k /\ k - k = 0
    BY <1>0, <1>5
  <2>. QED
    BY <1>0, <2>1 DEF P
<1>7. x \div 1 = x
  BY <1>0
<1>. QED
  BY <1>1, <1>6, <1>7, WeightFacts DEF Loop

(* and what is read of any bytes has these bytes for its digits. *)
LEMMA ReadHasDigits ==
  ASSUME NEW k \in Forms, NEW stream, NEW p \in Nat,
         \A i \in 1 .. k : stream[p + i - 1] \in Byte, Announces(stream[p], k)
  PROVE  LET x == PayloadAt(stream, p, k)
         IN  /\ x \in 0 .. Payloads(k) - 1
             /\ stream[p] = Lead(k) + Digit(x, k, 1)
             /\ \A i \in 2 .. k : stream[p + i - 1] = Digit(x, k, i)
<1>. DEFINE x == PayloadAt(stream, p, k)
<1>0. k \in Nat \ {0} /\ ByteValues \in Nat \ {0} /\ Lead(k) \in Int
  BY WidthType, ByteValuesType, LeadFacts DEF Forms, Byte
<1>1. PICK up : Loop(up, stream, p, k)
  BY LoopIsDefined
<1>first. stream[p] \in Byte
  <2>1. 1 \in 1 .. k /\ p + 1 - 1 = p
    BY <1>0
  <2>2. stream[p + 1 - 1] \in Byte
    BY <2>1
  <2>. QED
    BY <2>1, <2>2
<1>2. Span(k) \in Nat \ {0} /\ Span(k) <= ByteValues /\ up[1] \in 0 .. Span(k) - 1
  BY <1>1, <1>first, FirstBytes DEF Loop
<1>. DEFINE P == {j \in Nat : j + 1 \in 1 .. k => up[j + 1] \in 0 .. (Span(k) * Weight(j)) - 1}
<1>3. 0 \in P
  BY <1>2, WeightFacts
<1>4. ASSUME NEW j \in Nat, j \in P PROVE j + 1 \in P
  <2>. SUFFICES ASSUME j + 2 \in 1 .. k
                PROVE  up[j + 2] \in 0 .. (Span(k) * Weight(j + 1)) - 1
    OBVIOUS
  <2>1. up[j + 1] \in 0 .. (Span(k) * Weight(j)) - 1
    <3>1. j + 1 \in 1 .. k
      BY <1>0
    <3>. QED
      BY <1>4, <3>1
  <2>2. up[j + 2] = (up[j + 1] * ByteValues) + stream[p + j + 1] /\ stream[p + j + 1] \in 0 .. ByteValues - 1
    <3>1. j + 2 \in 2 .. k /\ j + 2 \in 1 .. k /\ (j + 2) - 1 = j + 1 /\ p + (j + 2) - 1 = p + j + 1
      BY <1>0
    <3>2. stream[p + (j + 2) - 1] \in Byte
      BY <3>1
    <3>3. up[j + 2] = (up[(j + 2) - 1] * ByteValues) + stream[p + (j + 2) - 1]
      BY <1>1, <3>1 DEF Loop
    <3>. QED
      BY <3>1, <3>2, <3>3 DEF Byte
  <2>3. Weight(j) \in Nat \ {0} /\ Weight(j + 1) = Weight(j) * ByteValues
    BY WeightFacts
  <2>4. ASSUME NEW a \in Nat, NEW b \in Nat, NEW s \in Nat, NEW w \in Nat, NEW v \in Nat \ {0},
               a < s * w, b < v
        PROVE  (a * v) + b < s * (w * v)
    <3>1. a + 1 <= s * w /\ s * w \in Nat
      BY <2>4
    <3>2. (a + 1) * v <= (s * w) * v
      BY <3>1
    <3>. QED
      BY <2>4, <3>2
  <2>5. Span(k) * Weight(j) \in Nat
    BY <1>2, <2>3
  <2>6. up[j + 1] \in Nat /\ stream[p + j + 1] \in Nat /\ up[j + 1] < Span(k) * Weight(j) /\ stream[p + j + 1] < ByteValues
    BY <1>0, <2>1, <2>2, <2>5
  <2>7. (up[j + 1] * ByteValues) + stream[p + j + 1] < Span(k) * (Weight(j) * ByteValues)
    BY <1>0, <1>2, <2>3, <2>4, <2>6
  <2>8. (up[j + 1] * ByteValues) + stream[p + j + 1] \in Nat
    BY <1>0, <2>6
  <2>9. Span(k) * Weight(j + 1) \in Int /\ Span(k) * Weight(j + 1) = Span(k) * (Weight(j) * ByteValues)
    BY <1>0, <1>2, <2>3
  <2>. QED
    BY <2>2, <2>7, <2>8, <2>9
<1>. HIDE DEF P
<1>5. \A i \in 1 .. k : up[i] \in 0 .. (Span(k) * Weight(i - 1)) - 1
  <2>1. Nat \subseteq P
    BY <1>3, <1>4, SetInduction
  <2>2. \A i \in 1 .. k : i - 1 \in P /\ (i - 1) + 1 = i
    BY <1>0, <2>1
  <2>. QED
    BY <2>2 DEF P
<1>6. x = up[k] /\ x \in 0 .. Payloads(k) - 1
  <2>1. k \in 1 .. k
    BY <1>0
  <2>. QED
    BY <1>1, <1>5, <2>1, PayloadsSplit DEF Loop
<1>. DEFINE Q == {j \in Nat : k - j \in 1 .. k => x \div Weight(j) = up[k - j]}
<1>. HIDE DEF x
<1>7. 0 \in Q
  <2>1. k - 0 = k /\ x \div 1 = x
    BY <1>0, <1>6, PayloadsType
  <2>. QED
    BY <1>6, <2>1, WeightFacts
<1>8. ASSUME NEW i \in 2 .. k
      PROVE  up[i] \div ByteValues = up[i - 1] /\ up[i] % ByteValues = stream[p + i - 1]
  <2>1. i \in 1 .. k /\ i - 1 \in 1 .. k
    BY <1>0
  <2>2. stream[p + i - 1] \in 0 .. ByteValues - 1 /\ up[i - 1] \in Int
    BY <1>5, <2>1 DEF Byte
  <2>3. up[i] = (up[i - 1] * ByteValues) + stream[p + i - 1]
    BY <1>1 DEF Loop
  <2>4. PICK b \in Nat \ {0} : b = ByteValues
    BY <1>0
  <2>5. PICK q \in Int, r \in 0 .. b - 1 : q = up[i - 1] /\ r = stream[p + i - 1]
    BY <2>2, <2>4
  <2>6. ((q * b) + r) \div b = q /\ ((q * b) + r) % b = r
    BY Quotient
  <2>. QED
    BY <2>3, <2>4, <2>5, <2>6
<1>9. ASSUME NEW j \in Nat, j \in Q PROVE j + 1 \in Q
  <2>. SUFFICES ASSUME k - (j + 1) \in 1 .. k PROVE x \div Weight(j + 1) = up[k - (j + 1)]
    OBVIOUS
  <2>1. k - j \in 2 .. k /\ k - j \in 1 .. k /\ (k - j) - 1 = k - (j + 1)
    BY <1>0
  <2>2. x \div Weight(j) = up[k - j]
    BY <1>9, <2>1
  <2>3. up[k - j] \div ByteValues = up[k - (j + 1)]
    BY <1>8, <2>1
  <2>4. Weight(j) \in Nat \ {0} /\ Weight(j + 1) = Weight(j) * ByteValues /\ x \in Nat
    BY <1>6, WeightFacts
  <2>5. (x \div Weight(j)) \div ByteValues = x \div (Weight(j) * ByteValues)
    BY <1>0, <2>4, DivisionInSteps
  <2>. QED
    BY <2>2, <2>3, <2>4, <2>5
<1>. HIDE DEF Q
<1>10. \A i \in 1 .. k : x \div Weight(k - i) = up[i]
  <2>1. Nat \subseteq Q
    BY <1>7, <1>9, SetInduction
  <2>2. \A i \in 1 .. k : k - i \in Q /\ k - (k - i) = i
    BY <1>0, <2>1
  <2>. QED
    BY <2>2 DEF Q
<1>11. stream[p] = Lead(k) + Digit(x, k, 1)
  <2>1. up[1] = x \div Weight(k - 1) /\ up[1] = stream[p] - Lead(k)
    BY <1>0, <1>1, <1>10 DEF Loop
  <2>2. up[1] % ByteValues = up[1]
    BY <1>0, <1>2
  <2>4. stream[p] \in Int
    BY <1>first, ByteValuesType DEF Byte
  <2>. QED
    BY <1>0, <2>1, <2>2, <2>4 DEF Digit
<1>12. ASSUME NEW i \in 2 .. k PROVE stream[p + i - 1] = Digit(x, k, i)
  <2>1. i \in 1 .. k
    BY <1>0
  <2>. QED
    BY <1>8, <1>10, <2>1 DEF Digit
<1>. QED
  BY <1>6, <1>11, <1>12 DEF x

-----------------------------------------------------------------------------
(* The longest form reaches every value: it starts below the end of them. *)
LEMMA BaseBound == Base[W + 1] <= 2 ^ (W * W)
<1>1. CASE W = 1
  <2>1. Base[1] = 0 /\ Base[2] = Base[1] + Payloads(1)
    BY <1>1, BaseDef DEF Forms
  <2>2. Payloads(1) = 1 /\ 2 ^ (1 * 1) = 2
    BY <1>1, PowerOfZero DEF Payloads
  <2>. QED
    BY <1>1, <2>1, <2>2
<1>2. CASE W > 1
  <2>. DEFINE P == {k \in Nat : k + 1 \in Forms => Base[k + 1] <= 2 ^ (((W - 1) * k) + 1)}
  <2>0. W \in Nat /\ W >= 2
    BY <1>2, WidthType
  <2>1. 0 \in P
    <3>1. ((W - 1) * 0) + 1 \in Nat
      BY <2>0
    <3>. QED
      BY <3>1, BaseDef, PowerType
  <2>2. ASSUME NEW k \in Nat, k \in P PROVE k + 1 \in P
    <3>. SUFFICES ASSUME k + 2 \in Forms PROVE Base[k + 2] <= 2 ^ (((W - 1) * (k + 1)) + 1)
      OBVIOUS
    <3>1. k + 1 \in 1 .. W /\ k + 1 \in Forms /\ (k + 1) + 1 = k + 2
      BY <2>0 DEF Forms
    <3>2. Base[k + 2] = Base[k + 1] + 2 ^ ((W - 1) * (k + 1))
      <4>1. \A j \in 1 .. W : Base[j + 1] = Base[j] + Payloads(j)
        BY BaseNext
      <4>2. Payloads(k + 1) = 2 ^ ((W - 1) * (k + 1))
        BY <2>0, <3>1 DEF Payloads
      <4>. QED
        BY <3>1, <4>1, <4>2
    <3>. DEFINE a == (W - 1) * k
                b == (W - 1) * (k + 1)
    <3>3. a \in Nat /\ b \in Nat /\ a + 1 <= b
      <4>1. W - 1 \in Nat /\ W - 1 >= 1 /\ b = a + (W - 1)
        BY <2>0
      <4>. QED
        BY <4>1, ProductType
    <3>4. Base[k + 1] <= 2 ^ (a + 1)
      BY <2>2, <3>1
    <3>. HIDE DEF a, b
    <3>5. 2 ^ (a + 1) <= 2 ^ b /\ 2 ^ (b + 1) = 2 * 2 ^ b
      BY <3>3, PowerMonotone, PowerStep
    <3>6. 2 ^ (a + 1) \in Nat /\ 2 ^ b \in Nat /\ Base[k + 1] \in Nat
      BY <3>1, <3>3, PowerType, BaseType
    <3>7. Base[k + 2] <= 2 ^ (b + 1)
      BY <3>2, <3>4, <3>5, <3>6 DEF b
    <3>. QED
      BY <3>7 DEF b
  <2>. HIDE DEF P
  <2>3. Nat \subseteq P
    BY <2>1, <2>2, SetInduction
  <2>4. Base[W + 1] <= 2 ^ (((W - 1) * W) + 1)
    <3>1. W \in P /\ W + 1 \in Forms
      BY <2>0, <2>3 DEF Forms
    <3>. QED
      BY <3>1 DEF P
  <2>5. ((W - 1) * W) + 1 \in Nat /\ W * W \in Nat /\ ((W - 1) * W) + 1 <= W * W
    <3>1. (W - 1) * W = (W * W) - W
      BY <2>0
    <3>2. W - 1 \in Nat
      BY <2>0
    <3>3. (W - 1) * W \in Nat /\ W * W \in Nat
      BY <2>0, <3>2, ProductType
    <3>. QED
      BY <2>0, <3>1, <3>3
  <2>6. 2 ^ (((W - 1) * W) + 1) <= 2 ^ (W * W)
    BY <2>5, PowerMonotone
  <2>. QED
    BY <2>4, <2>5, <2>6, BaseType, PowerType, <2>0 DEF Forms
<1>. QED
  BY <1>1, <1>2, WidthType

LEMMA ValuesType == 2 ^ (W * W) \in Nat \ {0} /\ Values \subseteq Nat
<1>1. W * W \in Nat
  BY WidthType, ProductType
<1>2. 2 ^ (W * W) \in Nat \ {0}
  BY <1>1, PowerType
<1>. QED
  BY <1>2 DEF Values

-----------------------------------------------------------------------------
(* What is written: as many bytes as the form has, the payload's digits. *)
LEMMA BytesWritten ==
  ASSUME NEW v \in Values
  PROVE  LET k == Form(v)
             x == v - Base[k]
             bytes == VarU64Bytes(v)
         IN  /\ k \in Forms /\ HasRoom(v, k) /\ x \in 0 .. Payloads(k) - 1
             /\ bytes \in Seq(Byte) /\ Len(bytes) = k
             /\ bytes[1] = Lead(k) + Digit(x, k, 1) /\ Announces(bytes[1], k)
             /\ \A i \in 2 .. k : bytes[i] = Digit(x, k, i)
<1>. DEFINE k == Form(v)
            x == v - Base[k]
            bytes == VarU64Bytes(v)
<1>0. v \in Nat /\ v < 2 ^ (W * W) /\ 2 ^ (W * W) \in Nat
  BY ValuesType DEF Values
<1>1. k \in Forms /\ HasRoom(v, k)
  BY <1>0, FormFacts
<1>. HIDE DEF k
<1>2. k \in Nat \ {0} /\ Base[k] \in Nat /\ Payloads(k) \in Nat \ {0} /\ W \in Nat
  BY <1>1, WidthType, BaseType, PayloadsType DEF Forms
<1>3. x \in 0 .. Payloads(k) - 1
  <2>1. CASE k <= W
    <3>1. Base[k + 1] = Base[k] + Payloads(k) /\ v < Base[k + 1]
      BY <1>1, <1>2, <2>1, BaseNext DEF HasRoom
    <3>. QED
      BY <1>0, <1>1, <1>2, <3>1 DEF HasRoom
  <2>2. CASE ~(k <= W)
    <3>1. Payloads(k) = 2 ^ (W * W)
      BY <2>2 DEF Payloads
    <3>. QED
      BY <1>0, <1>1, <1>2, <3>1 DEF HasRoom
  <2>. QED
    BY <2>1, <2>2
<1>4. bytes = [i \in 1 .. k |-> Digit(x, k, i) + (IF i = 1 THEN Lead(k) ELSE 0)]
  BY DEF VarU64Bytes, Digit, Weight, k
<1>. HIDE DEF x, bytes
<1>5. ASSUME NEW i \in 1 .. k PROVE Digit(x, k, i) \in 0 .. ByteValues - 1
  <2>1. Weight(k - i) \in Nat \ {0} /\ x \in Nat
    BY <1>2, <1>3, WeightFacts
  <2>2. x \div Weight(k - i) \in Nat
    BY <2>1, Division
  <2>. QED
    BY <2>2, ByteValuesType, Division DEF Digit
<1>6. Digit(x, k, 1) \in 0 .. Span(k) - 1
  <2>1. Weight(k - 1) \in Nat \ {0} /\ Span(k) \in Nat \ {0} /\ Span(k) <= ByteValues
    BY <1>1, <1>2, WeightFacts, FirstBytes
  <2>2. x < Span(k) * Weight(k - 1) /\ x \in Nat
    BY <1>1, <1>2, <1>3, PayloadsSplit
  <2>3. x \div Weight(k - 1) < Span(k) /\ x \div Weight(k - 1) \in Nat
    BY <2>1, <2>2
  <2>4. Digit(x, k, 1) = x \div Weight(k - 1)
    BY <2>1, <2>3, ByteValuesType DEF Digit
  <2>. QED
    BY <2>1, <2>3, <2>4
<1>7. Lead(k) \in Nat /\ Lead(k) + Digit(x, k, 1) \in Byte /\ Announces(Lead(k) + Digit(x, k, 1), k)
  BY <1>1, <1>6, FirstBytes, LeadFacts, ByteValuesType DEF Byte
<1>8. /\ bytes[1] = Lead(k) + Digit(x, k, 1)
      /\ \A i \in 2 .. k : bytes[i] = Digit(x, k, i)
  <2>1. 1 \in 1 .. k /\ Digit(x, k, 1) \in Int
    BY <1>2, <1>5
  <2>2. bytes[1] = Digit(x, k, 1) + Lead(k)
    BY <1>4, <2>1
  <2>3. ASSUME NEW i \in 2 .. k PROVE bytes[i] = Digit(x, k, i)
    <3>1. i \in 1 .. k /\ i # 1 /\ Digit(x, k, i) \in Int
      BY <1>2, <1>5
    <3>2. bytes[i] = Digit(x, k, i) + 0
      BY <1>4, <3>1
    <3>. QED
      BY <3>1, <3>2
  <2>. QED
    BY <1>7, <2>1, <2>2, <2>3
<1>9. bytes \in [1 .. k -> Byte]
  <2>1. ASSUME NEW i \in 1 .. k PROVE bytes[i] \in Byte
    <3>1. CASE i = 1
      BY <1>7, <1>8, <3>1
    <3>2. CASE i # 1
      <4>1. i \in 2 .. k
        BY <1>2, <3>2
      <4>. QED
        BY <1>5, <1>8, <4>1 DEF Byte
    <3>. QED
      BY <3>1, <3>2
  <2>2. bytes = [i \in 1 .. k |-> bytes[i]]
    BY <1>4
  <2>. QED
    BY <2>1, <2>2
<1>10. bytes \in Seq(Byte) /\ Len(bytes) = k
  BY <1>2, <1>9
<1>. QED
  BY <1>1, <1>3, <1>7, <1>8, <1>10 DEF k, x, bytes

-----------------------------------------------------------------------------
(* A value is read where it was written, whatever is before and behind it. *)
LEMMA ValueIsRead ==
  ASSUME NEW v \in Values, NEW stream, NEW p \in Nat,
         \A i \in 1 .. Form(v) : stream[p + i - 1] = VarU64Bytes(v)[i]
  PROVE  VarU64At(stream, p) = [value |-> v, width |-> Form(v)]
<1>. DEFINE k == Form(v)
            x == v - Base[k]
            bytes == VarU64Bytes(v)
<1>1. /\ k \in Forms /\ HasRoom(v, k) /\ x \in 0 .. Payloads(k) - 1
      /\ bytes \in Seq(Byte) /\ Len(bytes) = k
      /\ bytes[1] = Lead(k) + Digit(x, k, 1) /\ Announces(bytes[1], k)
      /\ \A i \in 2 .. k : bytes[i] = Digit(x, k, i)
  BY BytesWritten
<1>2. \A i \in 1 .. k : stream[p + i - 1] = bytes[i]
  OBVIOUS
<1>. HIDE DEF k, bytes
<1>3. k \in Nat \ {0} /\ Base[k] \in Nat /\ v \in Nat /\ v < 2 ^ (W * W)
  BY <1>1, WidthType, BaseType, ValuesType DEF Forms, Values
<1>4. stream[p] = bytes[1] /\ \A i \in 1 .. k : stream[p + i - 1] \in Byte
  <2>1. 1 \in 1 .. k /\ p + 1 - 1 = p
    BY <1>3
  <2>2. \A i \in 1 .. k : bytes[i] \in Byte
    BY <1>1
  <2>. QED
    BY <1>2, <2>1, <2>2
<1>5. FormOf(stream[p]) = k
  <2>1. bytes[1] \in Byte
    BY <1>1, <1>3
  <2>. QED
    BY <1>1, <1>4, <2>1, FormOfFacts
<1>6. PayloadAt(stream, p, k) = x
  <2>1. \A i \in 2 .. k : stream[p + i - 1] = Digit(x, k, i)
    BY <1>1, <1>2
  <2>. HIDE DEF x
  <2>. QED
    BY <1>1, <1>4, <2>1, DigitsAreRead
<1>7. x + Base[k] = v
  BY <1>3
<1>8. v % 2 ^ (W * W) = v
  BY <1>3, ValuesType
<1>9. VarU64At(stream, p) = [value |-> IF k > W THEN v % 2 ^ (W * W) ELSE v, width |-> k]
  BY <1>5, <1>6, <1>7 DEF VarU64At
<1>. QED
  BY <1>8, <1>9 DEF k

(* Any k bytes that start as form k does are read as a value: they are the  *)
(* bytes of that value, or the value has a shorter form, when the sum of    *)
(* the longest form wrapped.                                                *)
LEMMA BytesAreRead ==
  ASSUME NEW stream, NEW p \in Nat, NEW k \in Forms,
         \A i \in 1 .. k : stream[p + i - 1] \in Byte, FormOf(stream[p]) = k
  PROVE  LET r == VarU64At(stream, p)
         IN  /\ r.width = k /\ r.value \in Values
             /\ \/ Form(r.value) < k
                \/ Form(r.value) = k /\ \A i \in 1 .. k : VarU64Bytes(r.value)[i] = stream[p + i - 1]
<1>. DEFINE x == PayloadAt(stream, p, k)
            r == VarU64At(stream, p)
            N == 2 ^ (W * W)
<1>0. k \in Nat \ {0} /\ Base[k] \in Nat /\ N \in Nat \ {0} /\ W \in Nat
  BY WidthType, BaseType, ValuesType DEF Forms
<1>1. stream[p] \in Byte
  <2>1. 1 \in 1 .. k /\ p + 1 - 1 = p
    BY <1>0
  <2>2. stream[p + 1 - 1] \in Byte
    BY <2>1
  <2>. QED
    BY <2>1, <2>2
<1>2. Announces(stream[p], k)
  BY <1>1, FormOfFacts
<1>3. /\ x \in 0 .. Payloads(k) - 1
      /\ stream[p] = Lead(k) + Digit(x, k, 1)
      /\ \A i \in 2 .. k : stream[p + i - 1] = Digit(x, k, i)
  BY <1>2, ReadHasDigits
<1>4. r = [value |-> IF k > W THEN (x + Base[k]) % N ELSE x + Base[k], width |-> k]
  BY DEF VarU64At
<1>. HIDE DEF x, N
<1>5. x \in Nat /\ x < Payloads(k)
  BY <1>3, PayloadsType
<1>6. ASSUME x + Base[k] < N, HasRoom(x + Base[k], k), r.value = x + Base[k]
      PROVE  /\ r.value \in Values /\ Form(r.value) = k
             /\ \A i \in 1 .. k : VarU64Bytes(r.value)[i] = stream[p + i - 1]
  <2>. DEFINE v == x + Base[k]
  <2>1. v \in Nat /\ v \in Values
    BY <1>0, <1>5, <1>6 DEF Values, N
  <2>2. Form(v) = k /\ v - Base[k] = x
    BY <1>0, <1>5, <1>6, <2>1, FormFacts
  <2>. HIDE DEF v
  <2>3. /\ VarU64Bytes(v)[1] = Lead(k) + Digit(x, k, 1)
        /\ \A i \in 2 .. k : VarU64Bytes(v)[i] = Digit(x, k, i)
    BY <2>1, <2>2, BytesWritten
  <2>4. ASSUME NEW i \in 1 .. k PROVE VarU64Bytes(v)[i] = stream[p + i - 1]
    <3>1. CASE i = 1
      BY <1>3, <2>3, <3>1
    <3>2. CASE i # 1
      BY <1>0, <1>3, <2>3, <3>2
    <3>. QED
      BY <3>1, <3>2
  <2>5. r.value = v
    BY <1>6 DEF v
  <2>. HIDE DEF r
  <2>. QED
    BY <2>1, <2>2, <2>4, <2>5
<1>7. r.width = k
  BY <1>4
<1>8. CASE k <= W
  <2>1. Base[k + 1] = Base[k] + Payloads(k) /\ k + 1 \in Forms
    BY <1>0, <1>8, BaseNext
  <2>2. Base[k + 1] <= N
    <3>1. k + 1 = W + 1 \/ Base[k + 1] + Payloads(k + 1) <= Base[W + 1]
      BY <1>0, <1>8, <2>1, BaseMonotone, WidthType DEF Forms
    <3>2. W + 1 \in Forms /\ Base[W + 1] \in Nat /\ Base[k + 1] \in Nat /\ Payloads(k + 1) \in Nat
      BY <2>1, BaseType, PayloadsType, WidthType DEF Forms
    <3>3. Base[W + 1] <= N
      BY BaseBound DEF N
    <3>. QED
      BY <1>0, <3>1, <3>2, <3>3
  <2>3. x + Base[k] < N /\ HasRoom(x + Base[k], k)
    BY <1>0, <1>5, <2>1, <2>2, PayloadsType DEF HasRoom
  <2>4. r.value = x + Base[k]
    BY <1>0, <1>4, <1>8
  <2>. QED
    BY <1>6, <1>7, <2>3, <2>4
<1>9. CASE k = W + 1
  <2>1. r.value = (x + Base[k]) % N /\ Payloads(k) = N
    BY <1>0, <1>4, <1>9 DEF Payloads, N
  <2>2. CASE x + Base[k] < N
    <3>1. r.value = x + Base[k] /\ HasRoom(x + Base[k], k)
      BY <1>0, <1>5, <1>9, <2>1, <2>2 DEF HasRoom
    <3>. QED
      BY <1>6, <1>7, <2>2, <3>1
  <2>3. CASE ~(x + Base[k] < N)
    <3>1. Base[k] <= N
      BY <1>9, BaseBound DEF N
    <3>2. r.value = x + Base[k] - N
      <4>1. x + Base[k] - N \in 0 .. N - 1
        BY <1>0, <1>5, <2>1, <2>3, <3>1
      <4>2. x + Base[k] = (1 * N) + (x + Base[k] - N)
        BY <1>0, <1>5
      <4>3. ((1 * N) + (x + Base[k] - N)) % N = x + Base[k] - N
        <5>1. ASSUME NEW n \in Nat \ {0}, NEW y \in 0 .. n - 1 PROVE ((1 * n) + y) % n = y
          OBVIOUS
        <5>. QED
          BY <1>0, <4>1, <5>1
      <4>. QED
        BY <2>1, <4>2, <4>3
    <3>3. r.value \in Values /\ r.value \in Nat /\ r.value < Base[k]
      BY <1>0, <1>5, <2>1, <2>3, <3>1, <3>2 DEF Values, N
    <3>4. Form(r.value) \in Forms /\ HasRoom(r.value, Form(r.value))
      BY <3>3, FormFacts
    <3>5. Form(r.value) # k /\ Form(r.value) <= W + 1 /\ Form(r.value) \in Nat
      BY <1>0, <3>3, <3>4 DEF HasRoom, Forms
    <3>. QED
      BY <1>7, <1>9, <3>3, <3>5
  <2>. QED
    BY <2>2, <2>3
<1>10. k <= W \/ k = W + 1
  BY WidthType DEF Forms
<1>. QED
  BY <1>8, <1>9, <1>10

-----------------------------------------------------------------------------
(* What a number reads as depends on its own bytes only. *)
LEMMA ReadDependsOnItsBytes ==
  ASSUME NEW a, NEW b, NEW p \in Nat, NEW k \in Forms, FormOf(a[p]) = k,
         \A i \in 1 .. k : a[p + i - 1] \in Byte /\ b[p + i - 1] = a[p + i - 1]
  PROVE  VarU64At(b, p) = VarU64At(a, p)
<1>. DEFINE x == PayloadAt(a, p, k)
<1>0. k \in Nat /\ 1 \in 1 .. k /\ p + 1 - 1 = p /\ \A i \in 2 .. k : i \in 1 .. k
  BY WidthType DEF Forms
<1>1. a[p] \in Byte /\ b[p] = a[p]
  <2>1. a[p + 1 - 1] \in Byte /\ b[p + 1 - 1] = a[p + 1 - 1]
    BY <1>0
  <2>. QED
    BY <1>0, <2>1
<1>2. Announces(a[p], k)
  BY <1>1, FormOfFacts
<1>3. \A i \in 1 .. k : a[p + i - 1] \in Byte
  OBVIOUS
<1>4. x \in 0 .. Payloads(k) - 1 /\ a[p] = Lead(k) + Digit(x, k, 1)
      /\ \A i \in 2 .. k : a[p + i - 1] = Digit(x, k, i)
  BY <1>2, <1>3, ReadHasDigits
<1>. HIDE DEF x
<1>5. /\ \A i \in 1 .. k : b[p + i - 1] \in Byte
      /\ b[p] = Lead(k) + Digit(x, k, 1)
      /\ \A i \in 2 .. k : b[p + i - 1] = Digit(x, k, i)
  BY <1>0, <1>1, <1>4
<1>6. PayloadAt(b, p, k) = x
  BY <1>4, <1>5, DigitsAreRead
<1>7. PayloadAt(a, p, k) = x
  BY DEF x
<1>. QED
  BY <1>1, <1>6, <1>7 DEF VarU64At

(* The bytes of a value as a header in front of something. *)
HeaderOf(v) == [i \in 0 .. Form(v) - 1 |-> VarU64Bytes(v)[i + 1]]

LEMMA HeadHasBytes ==
  ASSUME NEW v \in Values
  PROVE  Form(v) \in 1 .. W + 1 /\ HeaderOf(v) \in [0 .. Form(v) - 1 -> Byte]
<1>. DEFINE k == Form(v)
            bytes == VarU64Bytes(v)
<1>1. k \in 1 .. W + 1 /\ bytes \in Seq(Byte) /\ Len(bytes) = k
  BY BytesWritten DEF Forms
<1>2. HeaderOf(v) = [i \in 0 .. k - 1 |-> bytes[i + 1]]
  BY DEF HeaderOf
<1>. HIDE DEF k, bytes
<1>3. ASSUME NEW i \in 0 .. k - 1 PROVE bytes[i + 1] \in Byte
  <2>1. i + 1 \in 1 .. Len(bytes)
    BY <1>1, WidthType
  <2>. QED
    BY <1>1, <2>1
<1>. QED
  BY <1>1, <1>2, <1>3 DEF k

(* The border between the first two forms is far from the last value. *)
LEMMA FirstBorder ==
  ASSUME W >= 2
  PROVE  Base[2] \in Nat /\ Base[2] + 1 \in Values
<1>. DEFINE N == 2 ^ (W * W)
<1>1. N \in Nat \ {0} /\ Values = 0 .. N - 1
  BY ValuesType DEF Values
<1>2. W \in Nat /\ W >= 2
  BY WidthType
<1>3. Base[2] = Base[1] + Payloads(1) /\ Base[1] = 0
  BY <1>2, BaseDef DEF Forms
<1>4. Payloads(1) = 2 ^ ((W - 1) * 1)
  BY <1>2 DEF Payloads
<1>5. (W - 1) * 1 = W - 1 /\ W - 1 \in Nat /\ W + 1 \in Nat /\ (W - 1) + 1 = W
  BY <1>2
<1>6. W + 1 <= W * W /\ W * W \in Nat
  BY <1>2
<1>7. 2 ^ (W + 1) <= N
  BY <1>5, <1>6, PowerMonotone
<1>8. 2 ^ ((W - 1) + 1) = 2 * 2 ^ (W - 1)
  BY <1>5, PowerStep
<1>9. 2 ^ (W + 1) = 2 * 2 ^ W
  BY <1>2, PowerStep
<1>10. 2 ^ (W - 1) \in Nat \ {0}
  BY <1>5, PowerType
<1>11. Base[2] = 2 ^ (W - 1)
  BY <1>3, <1>4, <1>5, <1>10
<1>12. 2 ^ (W - 1) + 1 < N
  <2>1. ASSUME NEW x \in Nat \ {0}, NEW y \in Nat, 2 * (2 * x) <= y PROVE x + 1 < y
    BY <2>1
  <2>2. 2 ^ W = 2 * 2 ^ (W - 1)
    BY <1>5, <1>8
  <2>3. 2 * (2 * 2 ^ (W - 1)) <= N
    BY <1>7, <1>9, <2>2
  <2>. QED
    BY <1>1, <1>10, <2>1, <2>3
<1>. HIDE DEF N
<1>. QED
  BY <1>1, <1>10, <1>11, <1>12

-----------------------------------------------------------------------------
(* Signed values: half of the numbers each way. *)
SignedValues == -(2 ^ (W * W - 1)) .. 2 ^ (W * W - 1) - 1

LEMMA HalfOfValues ==
  /\ 2 ^ (W * W - 1) \in Nat \ {0}
  /\ 2 ^ (W * W) = 2 * 2 ^ (W * W - 1)
<1>1. W * W - 1 \in Nat /\ (W * W - 1) + 1 = W * W
  <2>1. W * W >= 1
    BY WidthType
  <2>. QED
    BY <2>1, WidthType, ProductType
<1>. QED
  BY <1>1, PowerType, PowerStep

LEMMA ZigZagRoundTrip ==
  ASSUME NEW v \in SignedValues
  PROVE  ZigZag(v) \in Values /\ UnZigZag(ZigZag(v)) = v
<1>. DEFINE H == 2 ^ (W * W - 1)
<1>1. H \in Nat \ {0} /\ v \in Int /\ -H <= v /\ v < H /\ Values = 0 .. (2 * H) - 1
  BY HalfOfValues DEF Values, SignedValues
<1>. HIDE DEF H
<1>2. CASE v >= 0
  <2>1. ZigZag(v) = 2 * v /\ (2 * v) % 2 = 0 /\ (2 * v) \div 2 = v
    BY <1>1, <1>2 DEF ZigZag
  <2>. QED
    BY <1>1, <1>2, <2>1 DEF UnZigZag
<1>3. CASE ~(v >= 0)
  <2>1. ZigZag(v) = (-2 * v) - 1
    BY <1>1, <1>3 DEF ZigZag
  <2>2. ((-2 * v) - 1) % 2 = 1 /\ ((-2 * v) - 1) \div 2 = -v - 1
    <3>1. (-2 * v) - 1 = (2 * (-v - 1)) + 1
      BY <1>1
    <3>. QED
      BY <1>1, <1>3, <3>1
  <2>3. -(-v - 1) - 1 = v
    BY <1>1
  <2>. QED
    BY <1>1, <1>3, <2>1, <2>2, <2>3 DEF UnZigZag
<1>. QED
  BY <1>2, <1>3

LEMMA SignedValueIsRead ==
  ASSUME NEW v \in SignedValues, NEW stream, NEW p \in Nat,
         \A i \in 1 .. Len(VarS64Bytes(v)) : stream[p + i - 1] = VarS64Bytes(v)[i]
  PROVE  VarS64At(stream, p) = [value |-> v, width |-> Len(VarS64Bytes(v))]
<1>1. ZigZag(v) \in Values /\ UnZigZag(ZigZag(v)) = v
  BY ZigZagRoundTrip
<1>2. VarS64Bytes(v) = VarU64Bytes(ZigZag(v)) /\ Len(VarS64Bytes(v)) = Form(ZigZag(v))
  BY <1>1, BytesWritten DEF VarS64Bytes
<1>3. VarU64At(stream, p) = [value |-> ZigZag(v), width |-> Form(ZigZag(v))]
  BY <1>1, <1>2, ValueIsRead
<1>. QED
  BY <1>1, <1>2, <1>3 DEF VarS64At

-----------------------------------------------------------------------------
(* The wire is what somebody wrote: the bytes of the value sent, or as many *)
(* bytes of a foreign writer as the first one announces.                    *)
SentSigned == signed /\ sent \in SValues /\ wire = VarS64Bytes(sent)
SentUnsigned == ~signed /\ sent \in UValues /\ wire = VarU64Bytes(sent)
SentForeign ==
  /\ ~signed /\ sent = Null
  /\ \E k \in Forms : wire \in [1 .. k -> Byte] /\ FormOf(wire[1]) = k
Sent == SentSigned \/ SentUnsigned \/ SentForeign

(* The inductive invariant: nothing is read before something was sent, and  *)
(* after the read the reader has what the bytes say and stands behind it.   *)
Unsent == wire = <<>> /\ sent = Null /\ ~signed /\ got = Null /\ position = 0
Unread == Sent /\ got = Null /\ position = 0
ReadAs(r) == got = r.value /\ position = r.width
HasRead == Sent /\ ReadAs(IF signed THEN VarS64At(wire, 1) ELSE VarU64At(wire, 1))
IInv == Unsent \/ Unread \/ HasRead

(* Whoever wrote it, the wire is one form, of bytes. *)
IsForm(k) ==
  /\ wire \in Seq(Byte) /\ Len(wire) = k /\ \A i \in 1 .. k : wire[1 + i - 1] \in Byte
  /\ wire[1] \in Byte /\ FormOf(wire[1]) = k
  /\ VarU64At(wire, 1).width = k /\ VarS64At(wire, 1).width = k

LEMMA SentIsForm == Sent => \E k \in Forms : IsForm(k) /\ wire # <<>>
<1>. SUFFICES ASSUME Sent PROVE \E k \in Forms : IsForm(k) /\ wire # <<>>
  OBVIOUS
<1>1. ASSUME NEW k \in Forms, wire \in Seq(Byte), Len(wire) = k, FormOf(wire[1]) = k
      PROVE  IsForm(k) /\ wire # <<>>
  <2>1. k \in Nat \ {0}
    BY WidthType DEF Forms
  <2>2. wire[1] \in Byte /\ \A i \in 1 .. k : wire[i] \in Byte
    BY <1>1, <2>1
  <2>3. \A i \in 1 .. k : 1 + i - 1 = i
    BY <2>1
  <2>4. VarU64At(wire, 1).width = k /\ VarS64At(wire, 1).width = k
    BY <1>1 DEF VarU64At, VarS64At
  <2>. QED
    BY <1>1, <2>1, <2>2, <2>3, <2>4 DEF IsForm
<1>2. ASSUME NEW v \in Values, wire = VarU64Bytes(v) PROVE \E k \in Forms : IsForm(k) /\ wire # <<>>
  <2>. DEFINE k == Form(v)
  <2>1. k \in Forms /\ wire \in Seq(Byte) /\ Len(wire) = k /\ Announces(wire[1], k)
    BY <1>2, BytesWritten
  <2>2. wire[1] \in Byte
    BY <2>1, WidthType DEF Forms
  <2>3. FormOf(wire[1]) = k
    BY <2>1, <2>2, FormOfFacts
  <2>. HIDE DEF k
  <2>. QED
    BY <1>1, <2>1, <2>3
<1>3. CASE SentSigned
  <2>1. ZigZag(sent) \in Values
    BY <1>3, ZigZagRoundTrip DEF SentSigned, SValues, SignedValues
  <2>. QED
    BY <1>2, <1>3, <2>1 DEF SentSigned, VarS64Bytes
<1>4. CASE SentUnsigned
  BY <1>2, <1>4 DEF SentUnsigned, UValues, Values
<1>5. CASE SentForeign
  <2>1. PICK k \in Forms : wire \in [1 .. k -> Byte] /\ FormOf(wire[1]) = k
    BY <1>5 DEF SentForeign
  <2>2. wire \in Seq(Byte) /\ Len(wire) = k
    BY <2>1, WidthType DEF Forms
  <2>. QED
    BY <1>1, <2>1, <2>2
<1>. QED
  BY <1>3, <1>4, <1>5 DEF Sent

LEMMA InitHolds == Init => IInv
BY DEF Init, IInv, Unsent

LEMMA WriteKeeps ==
  ASSUME IInv, Write
  PROVE  IInv'
<1>1. Unsent
  <2>1. Unread \/ HasRead => Sent
    BY DEF Unread, HasRead
  <2>. QED
    BY <2>1, SentIsForm DEF IInv, Write
<1>2. CASE \E v \in UValues : AppendVarU64(v)
  <2>1. SentUnsigned'
    BY <1>2 DEF AppendVarU64, SentUnsigned
  <2>. QED
    BY <1>1, <2>1 DEF Write, Unsent, IInv, Unread, Sent
<1>3. CASE \E v \in SValues : AppendVarS64(v)
  <2>1. SentSigned'
    BY <1>3 DEF AppendVarS64, SentSigned
  <2>. QED
    BY <1>1, <2>1 DEF Write, Unsent, IInv, Unread, Sent
<1>4. CASE \E k \in Forms : \E bytes \in [1 .. k -> Byte] : Foreign(bytes)
  <2>1. PICK k \in Forms : \E bytes \in [1 .. k -> Byte] : Foreign(bytes)
    BY <1>4
  <2>2. PICK bytes \in [1 .. k -> Byte] : Foreign(bytes)
    BY <2>1
  <2>3. Len(bytes) = k
    BY <2>1, WidthType DEF Forms
  <2>4. SentForeign'
    BY <1>1, <2>2, <2>3 DEF Foreign, SentForeign, Unsent
  <2>. QED
    BY <1>1, <2>4 DEF Write, Unsent, IInv, Unread, Sent
<1>. QED
  BY <1>2, <1>3, <1>4 DEF Write

LEMMA ReadKeeps ==
  ASSUME IInv, Read
  PROVE  IInv'
<1>1. Sent
  BY DEF IInv, Unsent, Unread, HasRead, Read
<1>2. Sent'
  BY <1>1 DEF Read, Sent, SentSigned, SentUnsigned, SentForeign
<1>3. PICK k \in Forms : IsForm(k)
  BY <1>1, SentIsForm
<1>4. k \in Nat /\ position = 0
  BY WidthType DEF Forms, Read
<1>5. CASE signed
  <2>1. position' = k /\ got' = VarS64At(wire, 1).value /\ signed' /\ wire' = wire
    BY <1>3, <1>4, <1>5 DEF Read, NextVarS64, IsForm
  <2>. QED
    BY <1>2, <1>3, <2>1 DEF IInv, HasRead, ReadAs, IsForm
<1>6. CASE ~signed
  <2>1. position' = k /\ got' = VarU64At(wire, 1).value /\ ~signed' /\ wire' = wire
    BY <1>3, <1>4, <1>6 DEF Read, NextVarU64, IsForm
  <2>. QED
    BY <1>2, <1>3, <2>1 DEF IInv, HasRead, ReadAs, IsForm
<1>. QED
  BY <1>5, <1>6

LEMMA StepKeeps == IInv /\ [Next]_vars => IInv'
<1>. SUFFICES ASSUME IInv, [Next]_vars PROVE IInv'
  OBVIOUS
<1>1. CASE UNCHANGED vars
  BY <1>1 DEF vars, IInv, Unsent, Unread, HasRead, ReadAs, Sent, SentSigned, SentUnsigned, SentForeign
<1>. QED
  BY <1>1, WriteKeeps, ReadKeeps DEF Next

-----------------------------------------------------------------------------
(* What the reader has of each writer. *)
LEMMA UnsignedIsRead ==
  ASSUME SentUnsigned
  PROVE  sent \in Values /\ VarU64At(wire, 1) = [value |-> sent, width |-> Len(wire)]
<1>1. sent \in Values /\ wire = VarU64Bytes(sent)
  BY DEF SentUnsigned, UValues, Values
<1>2. Form(sent) \in Forms /\ Len(wire) = Form(sent)
  BY <1>1, BytesWritten
<1>3. \A i \in 1 .. Form(sent) : wire[1 + i - 1] = VarU64Bytes(sent)[i]
  BY <1>1, <1>2, WidthType DEF Forms
<1>. QED
  BY <1>1, <1>2, <1>3, ValueIsRead

LEMMA SignedIsRead ==
  ASSUME SentSigned
  PROVE  VarS64At(wire, 1) = [value |-> sent, width |-> Len(wire)]
<1>1. sent \in SignedValues /\ wire = VarS64Bytes(sent)
  BY DEF SentSigned, SValues, SignedValues
<1>2. Len(wire) \in Nat
  <2>1. wire \in Seq(Byte)
    BY <1>1, ZigZagRoundTrip, BytesWritten DEF VarS64Bytes
  <2>. QED
    BY <2>1
<1>3. \A i \in 1 .. Len(wire) : wire[1 + i - 1] = VarS64Bytes(sent)[i]
  BY <1>1, <1>2
<1>. QED
  BY <1>1, <1>3, SignedValueIsRead

-----------------------------------------------------------------------------
(* The bytes are bytes and what is sent and got fits the 64 bits.           *)
(* dyb_append_var_u64, dyb_append_var_s64, dyb_next_var_u64 and             *)
(* dyb_next_var_s64 for every width of a byte.                              *)
LEMMA InvariantGivesType == IInv => TypeOK
<1>. SUFFICES ASSUME IInv PROVE TypeOK
  OBVIOUS
<1>1. CASE Unsent
  BY <1>1 DEF Unsent, TypeOK
<1>2. ASSUME Sent PROVE /\ wire \in Seq(Byte)
                        /\ sent = Null \/ sent \in (IF signed THEN SValues ELSE UValues)
  BY <1>2, SentIsForm DEF IsForm, Sent, SentSigned, SentUnsigned, SentForeign
<1>3. CASE Unread
  BY <1>2, <1>3 DEF Unread, TypeOK
<1>4. CASE HasRead
  <2>1. CASE signed
    BY <1>2, <1>4, <2>1, SignedIsRead
       DEF HasRead, ReadAs, TypeOK, Sent, SentSigned, SentUnsigned, SentForeign
  <2>2. CASE ~signed
    <3>1. PICK k \in Forms : IsForm(k)
      BY <1>4, SentIsForm DEF HasRead
    <3>2. VarU64At(wire, 1).value \in Values
      BY <3>1, BytesAreRead DEF IsForm
    <3>. QED
      BY <1>2, <1>4, <2>2, <3>2 DEF HasRead, ReadAs, TypeOK, Values, UValues
  <2>. QED
    BY <2>1, <2>2
<1>. QED
  BY <1>1, <1>3, <1>4 DEF IInv

THEOREM TypeCorrect == Spec => []TypeOK
<1>. QED
  BY InitHolds, StepKeeps, InvariantGivesType, PTL DEF Spec

(* What dyb_next_var_u64 and dyb_next_var_s64 give back is what             *)
(* dyb_append_var_u64 and dyb_append_var_s64 were given, and the reader     *)
(* stops where the bytes end: for every value of 64 bits, and of every      *)
(* other width.                                                             *)
LEMMA InvariantGivesRoundTrip == IInv => RoundTrip
<1>. SUFFICES ASSUME IInv, got # Null PROVE position = Len(wire) /\ (sent # Null => got = sent)
  BY DEF RoundTrip
<1>1. HasRead
  BY DEF IInv, Unsent, Unread
<1>2. PICK k \in Forms : IsForm(k)
  BY <1>1, SentIsForm DEF HasRead
<1>3. position = Len(wire)
  BY <1>1, <1>2 DEF HasRead, ReadAs, IsForm
<1>4. CASE SentSigned
  BY <1>1, <1>3, <1>4, SignedIsRead DEF HasRead, ReadAs, SentSigned
<1>5. CASE SentUnsigned
  BY <1>1, <1>3, <1>5, UnsignedIsRead DEF HasRead, ReadAs, SentUnsigned
<1>6. CASE SentForeign
  BY <1>3, <1>6 DEF SentForeign
<1>. QED
  BY <1>1, <1>4, <1>5, <1>6 DEF HasRead, Sent

THEOREM RoundTripAlways == Spec => []RoundTrip
<1>. QED
  BY InitHolds, StepKeeps, InvariantGivesRoundTrip, PTL DEF Spec

(* The form dyb_append_var_u64 picks is the one shortest: of the bytes that *)
(* dyb_next_var_u64 reads as the same value no others are as short.         *)
LEMMA InvariantGivesShortest == IInv => Shortest
<1>. SUFFICES ASSUME IInv, got # Null, ~signed
              PROVE  Len(VarU64Bytes(got)) < Len(wire) \/ VarU64Bytes(got) = wire
  BY DEF Shortest
<1>1. HasRead
  BY DEF IInv, Unsent, Unread
<1>2. PICK k \in Forms : IsForm(k)
  BY <1>1, SentIsForm DEF HasRead
<1>3. /\ got \in Values
      /\ \/ Form(got) < k
         \/ Form(got) = k /\ \A i \in 1 .. k : VarU64Bytes(got)[i] = wire[1 + i - 1]
  <2>1. got = VarU64At(wire, 1).value
    BY <1>1 DEF HasRead, ReadAs
  <2>. QED
    BY <1>2, <2>1, BytesAreRead DEF IsForm
<1>4. VarU64Bytes(got) \in Seq(Byte) /\ Len(VarU64Bytes(got)) = Form(got) /\ k \in Nat
  BY <1>3, BytesWritten, WidthType DEF Forms
<1>5. CASE Form(got) < k
  BY <1>2, <1>4, <1>5 DEF IsForm
<1>6. CASE Form(got) = k /\ \A i \in 1 .. k : VarU64Bytes(got)[i] = wire[1 + i - 1]
  <2>1. \A i \in 1 .. k : VarU64Bytes(got)[i] = wire[i]
    BY <1>4, <1>6
  <2>2. ASSUME NEW s \in Seq(Byte), NEW t \in Seq(Byte), Len(s) = Len(t),
               \A i \in 1 .. Len(s) : s[i] = t[i]
        PROVE  s = t
    BY <2>2
  <2>. QED
    BY <1>2, <1>4, <1>6, <2>1, <2>2 DEF IsForm
<1>. QED
  BY <1>3, <1>5, <1>6

THEOREM ShortestAlways == Spec => []Shortest
<1>. QED
  BY InitHolds, StepKeeps, InvariantGivesShortest, PTL DEF Spec

=============================================================================
