---------------------------- MODULE DypktProofs ----------------------------
(***************************************************************************)
(* Proofs about packets (module Dypkt), for every set of records the       *)
(* parameters of the dyp_append_ functions can hold, every number of them  *)
(* and every place where a packet is cut.  The markers (module Typdex) and *)
(* the variable-length integers (VarIntProofs, at the width of the code)   *)
(* are read where they stand in a wire; so is a payload of every coding;   *)
(* and a packet begins with every packet of fewer records.                 *)
(***************************************************************************)
EXTENDS Dypkt, FiniteSetTheorems, TLAPS

-----------------------------------------------------------------------------
(* The natural numbers and the variable-length integers, at the width of the code. *)
VP == INSTANCE VarIntProofs WITH
  W <- 8, sent <- Null, signed <- FALSE, wire <- <<>>, position <- 0, got <- Null

LEMMA WidthOfTheCode == 8 \in Nat /\ 8 >= 1
OBVIOUS

(* What the proofs need of natural numbers, as module VarIntProofs proves it. *)
LEMMA SetInduction ==
  ASSUME NEW P, 0 \in P, \A n \in Nat : n \in P => n + 1 \in P
  PROVE  Nat \subseteq P
BY WidthOfTheCode, VP!SetInduction, Zenon

LEMMA DivisionInSteps ==
  ASSUME NEW x \in Nat, NEW a \in Nat \ {0}, NEW b \in Nat \ {0}
  PROVE  (x \div a) \div b = x \div (a * b)
BY WidthOfTheCode, VP!DivisionInSteps, Zenon

LEMMA Division ==
  ASSUME NEW x \in Nat, NEW b \in Nat \ {0}
  PROVE  /\ x \div b \in Nat /\ x % b \in 0 .. b - 1
         /\ x = ((x \div b) * b) + (x % b)
BY WidthOfTheCode, VP!Division, Zenon

LEMMA PowerOfZero == 2 ^ 0 = 1
BY WidthOfTheCode, VP!PowerOfZero, Zenon

LEMMA PowerType == \A k \in Nat : 2 ^ k \in Nat \ {0}
BY WidthOfTheCode, VP!PowerType, Zenon

LEMMA PowerStep == \A k \in Nat : 2 ^ (k + 1) = 2 * 2 ^ k
BY WidthOfTheCode, VP!PowerStep, Zenon

LEMMA PowerSum == \A a, b \in Nat : 2 ^ (a + b) = 2 ^ a * 2 ^ b
BY WidthOfTheCode, VP!PowerSum, Zenon

-----------------------------------------------------------------------------
-----------------------------------------------------------------------------
(* The marker e stands at p in a wire. *)
StandsAt(e, w, p) == \A j \in 1 .. Len(e) : w[p + j - 1] = e[j]

(* The proofs use the bounds of MaxIndex, not its digits, and compare        *)
(* instead of naming intervals: an interval of literals is enumerated.       *)
LEMMA MaxIndexBounds ==
  /\ MaxIndex \in Nat
  /\ MaxIndex < 16 * Word
  /\ 8191 <= MaxIndex
  /\ Word = 256 * 256
BY DEF MaxIndex, Word

(* The byte of the shortest layout splits into type and index again. *)
LEMMA OneByte ==
  ASSUME NEW type \in Nat, type < 16, NEW index \in Nat, index < 8,
         NEW b, b = type * 8 + index
  PROVE  b \in Nat /\ b < 128 /\ b \div 8 = type /\ b % 8 = index
OBVIOUS

(* The bytes of the two long layouts. *)
IsThree(type, index, b0, b1, b2) ==
  /\ type \in Nat /\ type < 256 /\ index \in Nat /\ index < 32 * 256
  /\ b0 = 192 + (type \div 8)
  /\ b1 = (type % 8) * 32 + (index \div 256)
  /\ b2 = index % 256
IsFour(type, index, b0, b1, b2, b3) ==
  /\ type \in Nat /\ type < 256 /\ index \in Nat /\ index <= MaxIndex
  /\ b0 = 224 + (type \div 16)
  /\ b1 = (type % 16) * 16 + (index \div Word)
  /\ b2 = (index \div 256) % 256
  /\ b3 = index % 256

LEMMA ThreeBytes ==
  ASSUME NEW type, NEW index, NEW b0, NEW b1, NEW b2, IsThree(type, index, b0, b1, b2)
  PROVE  /\ b0 \in Int /\ 192 <= b0 /\ b0 < 224
         /\ (b0 - 192) * 8 + (b1 \div 32) = type
         /\ (b1 % 32) * 256 + b2 = index
<1>0. type \in Nat /\ type < 256 /\ index \in Nat /\ index < 32 * 256
  BY DEF IsThree
<1>. DEFINE q == index \div 256
            r == type % 8
<1>1. q \in Nat /\ q < 32 /\ q * 256 + (index % 256) = index
  BY <1>0
<1>2. type \div 8 \in Nat /\ type \div 8 < 32 /\ r \in Nat /\ r < 8 /\ (type \div 8) * 8 + r = type
  BY <1>0
<1>3. b0 = 192 + (type \div 8) /\ b1 = r * 32 + q /\ b2 = index % 256
  BY DEF IsThree
<1>. HIDE DEF q, r
<1>4. (r * 32 + q) \div 32 = r /\ (r * 32 + q) % 32 = q
  BY <1>1, <1>2
<1>5. b1 \div 32 = r /\ b1 % 32 = q
  BY <1>3, <1>4
<1>6. b0 \in Int /\ 192 <= b0 /\ b0 < 224 /\ b0 - 192 = type \div 8
  BY <1>2, <1>3
<1>7. (b0 - 192) * 8 + (b1 \div 32) = type
  BY <1>2, <1>5, <1>6
<1>8. (b1 % 32) * 256 + b2 = index
  BY <1>1, <1>3, <1>5
<1>. QED
  BY <1>6, <1>7, <1>8

LEMMA FourBytes ==
  ASSUME NEW type, NEW index, NEW b0, NEW b1, NEW b2, NEW b3,
         IsFour(type, index, b0, b1, b2, b3)
  PROVE  /\ b0 \in Int /\ 224 <= b0 /\ b0 < 240
         /\ (b0 - 224) * 16 + (b1 \div 16) = type
         /\ (b1 % 16) * Word + b2 * 256 + b3 = index
<1>0. type \in Nat /\ type < 256 /\ index \in Nat /\ index <= MaxIndex
  BY DEF IsFour
<1>. DEFINE q == index \div 256
            a == q \div 256
            t == type % 16
<1>1. index \in Nat /\ index < 16 * Word /\ Word = 256 * 256
  BY <1>0, MaxIndexBounds
<1>2. type \div 16 \in Nat /\ type \div 16 < 16 /\ t \in Nat /\ t < 16 /\ (type \div 16) * 16 + t = type
  BY <1>0
<1>3. b0 = 224 + (type \div 16) /\ b1 = t * 16 + (index \div Word)
      /\ b2 = q % 256 /\ b3 = index % 256
  BY DEF IsFour
<1>4. q \in Nat /\ b3 \in Nat /\ b3 < 256 /\ index = q * 256 + b3
  BY <1>1, <1>3
<1>. HIDE DEF q, t
<1>5. a \in Nat /\ b2 \in Nat /\ b2 < 256 /\ q = a * 256 + b2
  BY <1>3, <1>4
<1>. HIDE DEF a
<1>6. index = a * (256 * 256) + (b2 * 256 + b3) /\ b2 * 256 + b3 \in Nat
      /\ b2 * 256 + b3 < 256 * 256
  BY <1>4, <1>5
<1>7. index \div (256 * 256) = a
  BY <1>1, <1>5, <1>6
<1>8. a < 16
  BY <1>1, <1>5, <1>6
<1>9. b1 = t * 16 + a
  BY <1>1, <1>3, <1>7
<1>10. (t * 16 + a) \div 16 = t /\ (t * 16 + a) % 16 = a
  BY <1>2, <1>5, <1>8
<1>11. b1 \div 16 = t /\ b1 % 16 = a
  BY <1>9, <1>10
<1>12. b0 \in Int /\ 224 <= b0 /\ b0 < 240 /\ b0 - 224 = type \div 16
  BY <1>2, <1>3
<1>13. a * Word + b2 * 256 + b3 = index
  BY <1>1, <1>4, <1>5, <1>6
<1>14. (b0 - 224) * 16 + (b1 \div 16) = type
  BY <1>2, <1>11, <1>12
<1>15. (b1 % 16) * Word + b2 * 256 + b3 = index
  BY <1>11, <1>13
<1>. QED
  BY <1>12, <1>14, <1>15

(* For every type 0 .. 255 and every index up to 0x0FFFFF, the marker       *)
(* dyb_append_typdex writes is read back by dyb_next_typdex, whatever       *)
(* follows it: the type and the index are the ones written, and exactly the *)
(* bytes of the marker are consumed.                                        *)
THEOREM TypdexRoundTrip ==
  ASSUME NEW type \in Nat, type < 256, NEW index \in Nat, index <= MaxIndex,
         NEW w, NEW p \in Nat, StandsAt(TypdexBytes(type, index), w, p)
  PROVE  /\ TypdexAt(w, p) =
              [type |-> type, index |-> index, width |-> Width(type, index)]
         /\ Len(TypdexBytes(type, index)) = Width(type, index)
         /\ Width(type, index) \in 1 .. 4
<1>1. CASE type <= 15 /\ index <= 7
  <2>. DEFINE b == type * 8 + index
  <2>1. Width(type, index) = 1
    BY <1>1 DEF Width
  <2>2. TypdexBytes(type, index) = <<b>>
    BY <2>1 DEF TypdexBytes
  <2>3. type < 16 /\ index < 8
    BY <1>1
  <2>4. b \in Nat /\ b < 128 /\ b \div 8 = type /\ b % 8 = index
    BY <2>3, OneByte
  <2>. HIDE DEF b
  <2>5. w[p] = b
    BY <2>2 DEF StandsAt
  <2>6. WidthOf(b) = 1
    BY <2>4 DEF WidthOf
  <2>7. TypdexAt(w, p) = [type |-> type, index |-> index, width |-> 1]
    BY <2>4, <2>5, <2>6 DEF TypdexAt
  <2>. QED
    BY <2>1, <2>2, <2>7
<1>2. CASE ~(type <= 15 /\ index <= 7) /\ type <= 63 /\ index <= 255
  <2>1. Width(type, index) = 2
    BY <1>2 DEF Width
  <2>2. TypdexBytes(type, index) = <<128 + type, index>>
    BY <2>1 DEF TypdexBytes
  <2>3. w[p] = 128 + type /\ w[p + 1] = index
    BY <2>2 DEF StandsAt
  <2>4. WidthOf(128 + type) = 2 /\ (128 + type) - 128 = type
    BY <1>2 DEF WidthOf
  <2>5. TypdexAt(w, p) = [type |-> type, index |-> index, width |-> 2]
    BY <2>3, <2>4 DEF TypdexAt
  <2>. QED
    BY <2>1, <2>2, <2>5
<1>3. CASE ~(type <= 15 /\ index <= 7) /\ ~(type <= 63 /\ index <= 255) /\ index <= 8191
  <2>. DEFINE b0 == 192 + (type \div 8)
              b1 == (type % 8) * 32 + (index \div 256)
              b2 == index % 256
  <2>1. Width(type, index) = 3
    BY <1>3 DEF Width
  <2>2. TypdexBytes(type, index) = <<b0, b1, b2>>
    BY <2>1 DEF TypdexBytes
  <2>3. index < 32 * 256
    BY <1>3
  <2>4. IsThree(type, index, b0, b1, b2)
    BY <2>3 DEF IsThree
  <2>. HIDE DEF b0, b1, b2
  <2>5. b0 \in Int /\ 192 <= b0 /\ b0 < 224 /\ (b0 - 192) * 8 + (b1 \div 32) = type
        /\ (b1 % 32) * 256 + b2 = index
    BY <2>4, ThreeBytes
  <2>6. w[p] = b0 /\ w[p + 1] = b1 /\ w[p + 2] = b2
    BY <2>2 DEF StandsAt
  <2>7. WidthOf(b0) = 3
    BY <2>5 DEF WidthOf
  <2>8. TypdexAt(w, p) = [type |-> type, index |-> index, width |-> 3]
    BY <2>5, <2>6, <2>7 DEF TypdexAt
  <2>. QED
    BY <2>1, <2>2, <2>8
<1>4. CASE ~(type <= 15 /\ index <= 7) /\ ~(type <= 63 /\ index <= 255) /\ ~(index <= 8191)
  <2>. DEFINE b0 == 224 + (type \div 16)
              b1 == (type % 16) * 16 + (index \div Word)
              b2 == (index \div 256) % 256
              b3 == index % 256
  <2>1. Width(type, index) = 4
    BY <1>4 DEF Width
  <2>2. TypdexBytes(type, index) = <<b0, b1, b2, b3>>
    BY <2>1 DEF TypdexBytes
  <2>3. IsFour(type, index, b0, b1, b2, b3)
    BY DEF IsFour
  <2>. HIDE DEF b0, b1, b2, b3
  <2>4. b0 \in Int /\ 224 <= b0 /\ b0 < 240 /\ (b0 - 224) * 16 + (b1 \div 16) = type
        /\ (b1 % 16) * Word + b2 * 256 + b3 = index
    BY <2>3, FourBytes
  <2>5. w[p] = b0 /\ w[p + 1] = b1 /\ w[p + 2] = b2 /\ w[p + 3] = b3
    BY <2>2 DEF StandsAt
  <2>6. WidthOf(b0) = 4
    BY <2>4 DEF WidthOf
  <2>7. TypdexAt(w, p) = [type |-> type, index |-> index, width |-> 4]
    BY <2>4, <2>5, <2>6 DEF TypdexAt
  <2>. QED
    BY <2>1, <2>2, <2>7
<1>. QED
  BY <1>1, <1>2, <1>3, <1>4

-----------------------------------------------------------------------------
LEMMA SameBytes ==
  /\ \A v : V!VarU64Bytes(v) = VP!VarU64Bytes(v)
  /\ \A v : V!ZigZag(v) = VP!ZigZag(v)
  /\ \A v : V!VarS64Bytes(v) = VP!VarS64Bytes(v)
  /\ \A b : V!FormOf(b) = VP!FormOf(b)
BY DEF V!VarU64Bytes, VP!VarU64Bytes, V!VarS64Bytes, VP!VarS64Bytes, V!ZigZag, VP!ZigZag,
       V!FormOf, VP!FormOf, V!Form, VP!Form, V!Base, VP!Base, V!Forms, VP!Forms,
       V!ByteValues, VP!ByteValues, V!Payloads, VP!Payloads, V!Lead, VP!Lead

LEMMA SameReads ==
  \A w, p : V!VarU64At(w, p) = VP!VarU64At(w, p) /\ V!VarS64At(w, p) = VP!VarS64At(w, p)
BY DEF V!VarU64At, VP!VarU64At, V!VarS64At, VP!VarS64At, V!PayloadAt, VP!PayloadAt,
       V!UnZigZag, VP!UnZigZag,
       V!FormOf, VP!FormOf, V!Base, VP!Base, V!Forms, VP!Forms,
       V!ByteValues, VP!ByteValues, V!Payloads, VP!Payloads, V!Lead, VP!Lead

(* The powers of two of the code. *)
LEMMA Powers ==
  /\ 2 ^ 8 = 256
  /\ 2 ^ (8 * 8) = ((Word * Word) * Word) * Word
<1>1. 2 ^ (0 + 1) = 2 /\ 0 + 1 = 1
  BY PowerOfZero, PowerStep
<1>2. 2 ^ (1 + 1) = 2 ^ 1 * 2 ^ 1 /\ 1 + 1 = 2
  BY PowerSum
<1>3. 2 ^ (2 + 2) = 2 ^ 2 * 2 ^ 2 /\ 2 + 2 = 4
  BY PowerSum
<1>4. 2 ^ (4 + 4) = 2 ^ 4 * 2 ^ 4 /\ 4 + 4 = 8
  BY PowerSum
<1>5. 2 ^ 8 = 256
  BY <1>1, <1>2, <1>3, <1>4
<1>6. 2 ^ (8 + 8) = 2 ^ 8 * 2 ^ 8 /\ 8 + 8 = 16
  BY PowerSum
<1>7. 2 ^ 16 = Word
  BY <1>5, <1>6 DEF Word
<1>8. 2 ^ (16 + 16) = Word * Word /\ 16 + 16 = 32
  BY <1>7, PowerSum
<1>9. 2 ^ (32 + 32) = (Word * Word) * (Word * Word)
  <2>1. 2 ^ 32 = Word * Word
    BY <1>8
  <2>2. 2 ^ (32 + 32) = 2 ^ 32 * 2 ^ 32
    BY PowerSum
  <2>. QED
    BY <2>1, <2>2
<1>10. (Word * Word) * (Word * Word) = ((Word * Word) * Word) * Word
  BY MaxIndexBounds
<1>11. 8 * 8 = 32 + 32
  OBVIOUS
<1>. QED
  BY <1>5, <1>9, <1>10, <1>11

(* Uint64 and Uint32 are the ranges they stand for. *)
LEMMA Ranges ==
  ASSUME NEW n \in Nat
  PROVE  /\ Uint64(n) => n \in VP!Values
         /\ Uint32(n) => Uint64(n)
<1>. DEFINE a == n \div Word
            b == a \div Word
            c == b \div Word
            d == c \div Word
            two == Word * Word
            three == two * Word
            N == 2 ^ (8 * 8)
<1>0. Word \in Nat \ {0}
  BY DEF Word
<1>1. Uint64(n) = (d = 0) /\ Uint32(n) = (b = 0)
  BY DEF Uint64, Uint32
<1>2. a \in Nat /\ b \in Nat /\ c \in Nat /\ d \in Nat
  BY <1>0, Division
<1>3. b = 0 => c = 0 /\ d = 0
  BY <1>0
<1>4. ASSUME NEW x \in Nat \ {0}, NEW y \in Nat \ {0} PROVE x * y \in Nat \ {0}
  OBVIOUS
<1>5. two \in Nat \ {0} /\ three \in Nat \ {0}
  <2>1. two \in Nat \ {0}
    BY <1>0, <1>4
  <2>. HIDE DEF two
  <2>. QED
    BY <1>0, <1>4, <2>1
<1>6. b = n \div two
  BY <1>0, DivisionInSteps
<1>. HIDE DEF a, b, two
<1>7. c = n \div three
  BY <1>0, <1>5, <1>6, DivisionInSteps
<1>. HIDE DEF c, three
<1>8. d = n \div (three * Word)
  BY <1>0, <1>5, <1>7, DivisionInSteps
<1>9. N = three * Word
  BY Powers DEF three, two
<1>10. N \in Nat \ {0}
  <2>1. 8 * 8 \in Nat
    OBVIOUS
  <2>. QED
    BY <2>1, PowerType
<1>11. VP!Values = 0 .. N - 1
  BY DEF VP!Values
<1>. HIDE DEF d, N
<1>12. d = 0 => n < N
  <2>1. d = n \div N
    BY <1>8, <1>9
  <2>2. n % N \in 0 .. N - 1 /\ n = ((n \div N) * N) + (n % N)
    BY <1>10, Division
  <2>3. d = 0 => n = n % N
    BY <1>10, <2>1, <2>2
  <2>. QED
    BY <1>10, <2>2, <2>3
<1>13. d = 0 => n \in VP!Values
  BY <1>10, <1>11, <1>12
<1>. QED
  BY <1>1, <1>3, <1>13

(* The cast to uint leaves what fits one. *)
LEMMA UintFacts ==
  ASSUME NEW n \in Nat
  PROVE  /\ Uint(n) \in Nat
         /\ Uint32(n) => Uint(n) = n
         /\ \A m \in Nat : m <= n /\ Uint32(n) => Uint32(m)
<1>. DEFINE two == Word * Word
<1>0. Word \in Nat \ {0} /\ two \in Nat \ {0}
  BY DEF Word
<1>1. \A m \in Nat : (m \div Word) \div Word = m \div two
  BY <1>0, DivisionInSteps
<1>2. \A m \in Nat : m \div two \in Nat /\ m % two \in 0 .. two - 1 /\ m = ((m \div two) * two) + (m % two)
  BY <1>0, Division
<1>3. \A x \in Nat : (x * Word) * Word = x * two
  BY <1>0
<1>4. Uint(n) = n - (n \div two) * two
  BY <1>1, <1>2, <1>3 DEF Uint
<1>5. \A m \in Nat : Uint32(m) = (m \div two = 0)
  BY <1>1 DEF Uint32
<1>. HIDE DEF two
<1>6. Uint(n) \in Nat
  <2>. DEFINE q == n \div two
              r == n % two
  <2>1. q \in Nat /\ r \in Nat /\ n = (q * two) + r /\ Uint(n) = n - q * two
    BY <1>0, <1>2, <1>4
  <2>. HIDE DEF q, r
  <2>2. q * two \in Nat
    BY <1>0, <2>1
  <2>. QED
    BY <2>1, <2>2
<1>7. ASSUME Uint32(n) PROVE Uint(n) = n /\ n < two
  <2>. DEFINE q == n \div two
              m == n % two
  <2>1. q \in Nat /\ m \in Nat /\ m < two /\ n = (q * two) + m /\ Uint(n) = n - q * two
    BY <1>0, <1>2, <1>4
  <2>2. q = 0
    BY <1>5, <1>7
  <2>. HIDE DEF q, m
  <2>3. q * two = 0
    BY <1>0, <2>2
  <2>. QED
    BY <2>1, <2>3
<1>8. ASSUME NEW m \in Nat, m <= n, Uint32(n) PROVE Uint32(m)
  <2>. DEFINE q == m \div two
              r == m % two
  <2>1. n < two
    BY <1>7, <1>8
  <2>2. q \in Nat /\ r \in Nat /\ m = (q * two) + r
    BY <1>0, <1>2
  <2>. HIDE DEF q, r
  <2>3. q = 0
    <3>. SUFFICES ASSUME q >= 1 PROVE FALSE
      BY <2>2
    <3>1. q * two >= 1 * two
      BY <1>0, <2>2
    <3>. QED
      BY <1>0, <1>8, <2>1, <2>2, <3>1
  <2>. QED
    BY <1>5, <2>3 DEF q
<1>. QED
  BY <1>6, <1>7, <1>8

-----------------------------------------------------------------------------
(* A sequence stands at p in a wire: p is the place of its first element. *)
LEMMA ByteIsByte == VP!Byte = UByte
BY Powers DEF VP!Byte, VP!ByteValues, UByte

(* A uint64 is read where its bytes stand. *)
LEMMA UnsignedNumber ==
  ASSUME NEW v \in Nat, Uint64(v)
  PROVE  /\ V!VarU64Bytes(v) \in Seq(UByte) /\ Len(V!VarU64Bytes(v)) \in Nat \ {0}
         /\ \A w : \A p \in Nat : StandsAt(V!VarU64Bytes(v), w, p) =>
              /\ V!VarU64At(w, p) = [value |-> v, width |-> Len(V!VarU64Bytes(v))]
              /\ V!FormOf(w[p]) = Len(V!VarU64Bytes(v))
<1>. DEFINE bytes == VP!VarU64Bytes(v)
            k == VP!Form(v)
<1>1. v \in VP!Values /\ bytes = V!VarU64Bytes(v)
  BY Ranges, SameBytes
<1>2. k \in VP!Forms /\ bytes \in Seq(UByte) /\ Len(bytes) = k
  BY <1>1, VP!BytesWritten, ByteIsByte
<1>3. k \in Nat \ {0}
  BY <1>2 DEF VP!Forms
<1>. HIDE DEF bytes, k
<1>4. ASSUME NEW w, NEW p \in Nat, StandsAt(bytes, w, p)
      PROVE  VP!VarU64At(w, p) = [value |-> v, width |-> k] /\ VP!FormOf(w[p]) = k
  <2>1. \A i \in 1 .. k : w[p + i - 1] = bytes[i]
    BY <1>2, <1>4 DEF StandsAt
  <2>2. VP!VarU64At(w, p) = [value |-> v, width |-> k]
    BY <1>1, <2>1, VP!ValueIsRead DEF bytes, k
  <2>. QED
    BY <2>2 DEF VP!VarU64At
<1>. QED
  BY <1>1, <1>2, <1>3, <1>4, SameBytes, SameReads

(* So is an int64. *)
LEMMA SignedNumber ==
  ASSUME NEW v \in Int, Uint64(V!ZigZag(v))
  PROVE  /\ V!VarS64Bytes(v) \in Seq(UByte) /\ Len(V!VarS64Bytes(v)) \in Nat \ {0}
         /\ \A w : \A p \in Nat : StandsAt(V!VarS64Bytes(v), w, p) =>
              /\ V!VarS64At(w, p) = [value |-> v, width |-> Len(V!VarS64Bytes(v))]
              /\ V!FormOf(w[p]) = Len(V!VarS64Bytes(v))
<1>. DEFINE z == V!ZigZag(v)
<1>1. z \in Nat
  BY DEF V!ZigZag
<1>2. v \in VP!SignedValues
  <2>. DEFINE H == 2 ^ (8 * 8 - 1)
              N == 2 ^ (8 * 8)
  <2>1. H \in Nat \ {0} /\ N = 2 * H
    BY WidthOfTheCode, VP!HalfOfValues
  <2>2. VP!SignedValues = -H .. H - 1 /\ VP!Values = 0 .. N - 1
    BY DEF VP!SignedValues, VP!Values
  <2>3. z \in VP!Values
    BY <1>1, Ranges
  <2>. HIDE DEF H, N
  <2>. QED
    BY <2>1, <2>2, <2>3 DEF V!ZigZag
<1>3. V!VarS64Bytes(v) = V!VarU64Bytes(z) /\ V!VarS64Bytes(v) = VP!VarS64Bytes(v)
  BY SameBytes DEF V!VarS64Bytes
<1>. HIDE DEF z
<1>4. /\ V!VarU64Bytes(z) \in Seq(UByte) /\ Len(V!VarU64Bytes(z)) \in Nat \ {0}
      /\ \A w : \A p \in Nat : StandsAt(V!VarU64Bytes(z), w, p) =>
              V!FormOf(w[p]) = Len(V!VarU64Bytes(z))
  BY <1>1, UnsignedNumber DEF z
<1>5. ASSUME NEW w, NEW p \in Nat, StandsAt(V!VarS64Bytes(v), w, p)
      PROVE  V!VarS64At(w, p) = [value |-> v, width |-> Len(V!VarS64Bytes(v))]
  <2>1. \A i \in 1 .. Len(VP!VarS64Bytes(v)) : w[p + i - 1] = VP!VarS64Bytes(v)[i]
    BY <1>3, <1>5 DEF StandsAt
  <2>2. VP!VarS64At(w, p) = [value |-> v, width |-> Len(VP!VarS64Bytes(v))]
    BY <1>2, <2>1, WidthOfTheCode, VP!SignedValueIsRead
  <2>. QED
    BY <1>3, <2>2, SameReads
<1>. QED
  BY <1>3, <1>4, <1>5

-----------------------------------------------------------------------------
(* The bytes of a marker are bytes. *)
LEMMA MarkerBytes ==
  ASSUME NEW type \in Nat, type < 256, NEW index \in Nat, index <= MaxIndex
  PROVE  TypdexBytes(type, index) \in Seq(UByte)
<1>1. CASE Width(type, index) = 1
  <2>1. type <= 15 /\ index <= 7
    BY <1>1 DEF Width
  <2>2. type * 8 + index \in UByte
    BY <2>1 DEF UByte
  <2>. QED
    BY <1>1, <2>2 DEF TypdexBytes
<1>2. CASE Width(type, index) = 2
  <2>1. type <= 63 /\ index <= 255
    BY <1>2 DEF Width
  <2>2. 128 + type \in UByte /\ index \in UByte
    BY <2>1 DEF UByte
  <2>. QED
    BY <1>2, <2>2 DEF TypdexBytes
<1>3. CASE Width(type, index) = 3
  <2>1. index <= 8191
    BY <1>3 DEF Width
  <2>2. /\ type \div 8 \in Nat /\ type \div 8 < 32 /\ type % 8 \in Nat /\ type % 8 < 8
        /\ index \div 256 \in Nat /\ index \div 256 < 32
    BY <2>1
  <2>3. 192 + (type \div 8) \in UByte /\ (type % 8) * 32 + (index \div 256) \in UByte
    BY <2>2 DEF UByte
  <2>4. index % 256 \in UByte
    BY DEF UByte
  <2>. QED
    BY <1>3, <2>3, <2>4 DEF TypdexBytes
<1>4. CASE Width(type, index) = 4
  <2>1. /\ type \div 16 \in Nat /\ type \div 16 < 16 /\ type % 16 \in Nat /\ type % 16 < 16
        /\ index \div Word \in Nat /\ index \div Word < 16
    BY MaxIndexBounds
  <2>2. 224 + (type \div 16) \in UByte /\ (type % 16) * 16 + (index \div Word) \in UByte
    BY <2>1 DEF UByte
  <2>3. (index \div 256) % 256 \in UByte /\ index % 256 \in UByte
    BY DEF UByte
  <2>. QED
    BY <1>4, <2>2, <2>3 DEF TypdexBytes
<1>. QED
  BY <1>1, <1>2, <1>3, <1>4 DEF Width

-----------------------------------------------------------------------------
(* The bytes a writer appends for a record, and for the first n of s. *)
RecordBytes(record) ==
  TypdexBytes(record.type, record.index)
    \o Payload(Coding(record.type, record.index), record.value)
Packet(s, n) == FlattenSeq([j \in 1 .. n |-> RecordBytes(s[j])])

(* FlattenSeq is a recursion: f holds what it has put together so far. *)
Flat(f, s, n) ==
  f = [i \in 1 .. n |-> IF i = 1 THEN RecordBytes(s[1]) ELSE f[i - 1] \o RecordBytes(s[i])]

LEMMA FlatExists == \A s : \A n \in Nat : \E f : Flat(f, s, n)
<1>. SUFFICES ASSUME NEW s PROVE \A n \in Nat : \E f : Flat(f, s, n)
  OBVIOUS
<1>. DEFINE P == {n \in Nat : \E f : Flat(f, s, n)}
<1>1. 0 \in P
  <2>1. Flat([i \in 1 .. 0 |-> 0], s, 0)
    BY DEF Flat
  <2>. QED
    BY <2>1
<1>2. ASSUME NEW n \in Nat, n \in P PROVE n + 1 \in P
  <2>1. PICK f : Flat(f, s, n)
    BY <1>2
  <2>. DEFINE h == [i \in 1 .. n + 1 |->
                      IF i \in 1 .. n THEN f[i]
                      ELSE IF i = 1 THEN RecordBytes(s[1]) ELSE f[i - 1] \o RecordBytes(s[i])]
  <2>2. ASSUME NEW i \in 1 .. n + 1
        PROVE  h[i] = IF i = 1 THEN RecordBytes(s[1]) ELSE h[i - 1] \o RecordBytes(s[i])
    <3>1. CASE i = 1
      BY <2>1, <3>1 DEF Flat
    <3>2. CASE i # 1
      <4>1. i - 1 \in 1 .. n /\ h[i - 1] = f[i - 1]
        BY <3>2
      <4>2. i \in 1 .. n => f[i] = f[i - 1] \o RecordBytes(s[i])
        BY <2>1, <3>2 DEF Flat
      <4>. QED
        BY <3>2, <4>1, <4>2
    <3>. QED
      BY <3>1, <3>2
  <2>3. h = [i \in 1 .. n + 1 |-> h[i]]
    OBVIOUS
  <2>. HIDE DEF h
  <2>4. Flat(h, s, n + 1)
    BY <2>2, <2>3 DEF Flat
  <2>. QED
    BY <2>4
<1>. HIDE DEF P
<1>3. Nat \subseteq P
  BY <1>1, <1>2, SetInduction
<1>. QED
  BY <1>3 DEF P

(* One record on: the packet of j records is that of one fewer, and the last. *)
Goes(f, s, j) == f[j] = f[j - 1] \o RecordBytes(s[j])

LEMMA FlatStep ==
  ASSUME NEW f, NEW s, NEW n \in Nat, Flat(f, s, n), NEW j \in 2 .. n
  PROVE  Goes(f, s, j)
<1>1. j \in 1 .. n /\ j # 1
  OBVIOUS
<1>2. f[j] = IF j = 1 THEN RecordBytes(s[1]) ELSE f[j - 1] \o RecordBytes(s[j])
  BY <1>1, Zenon DEF Flat
<1>. QED
  BY <1>1, <1>2 DEF Goes

LEMMA FlatIsUnique ==
  ASSUME NEW s, NEW m \in Nat, NEW n \in Nat, NEW f, NEW g, Flat(f, s, m), Flat(g, s, n)
  PROVE  \A i \in 1 .. m : i <= n => f[i] = g[i]
<1>. DEFINE P == {i \in Nat : i + 1 <= m /\ i + 1 <= n => f[i + 1] = g[i + 1]}
<1>1. 0 \in P
  BY DEF Flat
<1>2. ASSUME NEW i \in Nat, i \in P PROVE i + 1 \in P
  <2>. SUFFICES ASSUME i + 2 <= m, i + 2 <= n PROVE f[i + 2] = g[i + 2]
    OBVIOUS
  <2>1. f[i + 1] = g[i + 1]
    BY <1>2
  <2>. DEFINE j == i + 2
  <2>2. j - 1 = i + 1 /\ j \in 2 .. m /\ j \in 2 .. n
    OBVIOUS
  <2>. HIDE DEF j
  <2>3. Goes(f, s, j)
    BY <2>2, FlatStep
  <2>5. Goes(g, s, j)
    BY <2>2, FlatStep
  <2>4. f[j] = g[j]
    BY <2>1, <2>2, <2>3, <2>5 DEF Goes
  <2>. QED
    BY <2>4 DEF j
<1>. HIDE DEF P
<1>3. Nat \subseteq P
  BY <1>1, <1>2, SetInduction
<1>4. ASSUME NEW i \in 1 .. m, i <= n PROVE f[i] = g[i]
  <2>1. i - 1 \in P
    BY <1>3
  <2>. QED
    BY <1>4, <2>1 DEF P
<1>. QED
  BY <1>4

(* The packet of n records is where the recursion ends. *)
LEMMA PacketIsFlat ==
  ASSUME NEW s, NEW n \in Nat \ {0}
  PROVE  \E f : Flat(f, s, n) /\ Packet(s, n) = f[n]
<1>. DEFINE seqs == [j \in 1 .. n |-> RecordBytes(s[j])]
            F(f) == f = [i \in 1 .. Len(seqs) |-> IF i = 1 THEN seqs[i] ELSE f[i - 1] \o seqs[i]]
            flat == CHOOSE f : F(f)
<1>1. Len(seqs) = n
  OBVIOUS
<1>2. \A f : F(f) <=> Flat(f, s, n)
  <2>1. ASSUME NEW f PROVE F(f) <=> Flat(f, s, n)
    <3>1. [i \in 1 .. n |-> IF i = 1 THEN seqs[i] ELSE f[i - 1] \o seqs[i]]
            = [i \in 1 .. n |-> IF i = 1 THEN RecordBytes(s[1]) ELSE f[i - 1] \o RecordBytes(s[i])]
      OBVIOUS
    <3>. QED
      BY <1>1, <3>1 DEF Flat
  <2>. QED
    BY <2>1
<1>3. F(flat)
  <2>0. \E f : Flat(f, s, n)
    BY FlatExists
  <2>. HIDE DEF F
  <2>1. \E f : F(f)
    BY <1>2, <2>0
  <2>. QED
    BY <2>1, Zenon
<1>4. FlattenSeq(seqs) = flat[Len(seqs)]
  BY <1>1 DEF FlattenSeq
<1>. HIDE DEF seqs, flat
<1>. QED
  BY <1>1, <1>2, <1>3, <1>4 DEF Packet, seqs

LEMMA PacketOfNothing == \A s : Packet(s, 0) = <<>>
<1>. SUFFICES ASSUME NEW s PROVE Packet(s, 0) = <<>>
  OBVIOUS
<1>. DEFINE seqs == [j \in 1 .. 0 |-> RecordBytes(s[j])]
<1>1. seqs = <<>>
  OBVIOUS
<1>2. FlattenSeq(<<>>) = <<>>
  BY DEF FlattenSeq
<1>. QED
  BY <1>1, <1>2 DEF Packet

LEMMA PacketStep ==
  ASSUME NEW s, NEW n \in Nat, RecordBytes(s[n + 1]) \in Seq(UByte)
  PROVE  Packet(s, n + 1) = Packet(s, n) \o RecordBytes(s[n + 1])
<1>1. PICK g : Flat(g, s, n + 1) /\ Packet(s, n + 1) = g[n + 1]
  BY PacketIsFlat
<1>2. CASE n = 0
  <2>1. g[1] = RecordBytes(s[1])
    <3>1. 1 \in 1 .. n + 1
      OBVIOUS
    <3>2. g[1] = IF 1 = 1 THEN RecordBytes(s[1]) ELSE g[1 - 1] \o RecordBytes(s[1])
      BY <1>1, <3>1, Zenon DEF Flat
    <3>. QED
      BY <3>2
  <2>2. \A t \in Seq(UByte) : <<>> \o t = t
    OBVIOUS
  <2>. QED
    BY <1>1, <1>2, <2>1, <2>2, PacketOfNothing
<1>3. CASE n # 0
  <2>1. PICK f : Flat(f, s, n) /\ Packet(s, n) = f[n]
    BY <1>3, PacketIsFlat
  <2>. DEFINE m == n + 1
  <2>2. m \in 2 .. m /\ m - 1 = n /\ m \in Nat /\ n \in 1 .. n /\ n <= m
    BY <1>3
  <2>3. Flat(g, s, m)
    BY <1>1
  <2>. HIDE DEF m
  <2>4. \A i \in 1 .. n : i <= m => f[i] = g[i]
    BY <2>1, <2>2, <2>3, FlatIsUnique
  <2>5. Goes(g, s, m)
    BY <2>2, <2>3, FlatStep
  <2>6. g[m] = f[n] \o RecordBytes(s[m])
    BY <2>2, <2>4, <2>5 DEF Goes
  <2>. QED
    BY <1>1, <2>1, <2>6 DEF m
<1>. QED
  BY <1>2, <1>3

LEMMA PacketAgrees ==
  ASSUME NEW s, NEW t, NEW n \in Nat, \A j \in 1 .. n : s[j] = t[j]
  PROVE  Packet(s, n) = Packet(t, n)
<1>1. [j \in 1 .. n |-> RecordBytes(s[j])] = [j \in 1 .. n |-> RecordBytes(t[j])]
  OBVIOUS
<1>. QED
  BY <1>1 DEF Packet

(* Every packet begins with each shorter one. *)
Sent(s) == \A j \in 1 .. Len(s) : RecordBytes(s[j]) \in Seq(UByte)

LEMMA PacketBytes ==
  ASSUME NEW s, Len(s) \in Nat, Sent(s)
  PROVE  \A n \in 0 .. Len(s) : Packet(s, n) \in Seq(UByte)
<1>. DEFINE P == {n \in Nat : n <= Len(s) => Packet(s, n) \in Seq(UByte)}
<1>1. 0 \in P
  <2>1. Packet(s, 0) = <<>>
    BY PacketOfNothing
  <2>2. \A S : <<>> \in Seq(S)
    OBVIOUS
  <2>. QED
    BY <2>1, <2>2
<1>2. ASSUME NEW n \in Nat, n \in P PROVE n + 1 \in P
  <2>. SUFFICES ASSUME n + 1 <= Len(s) PROVE Packet(s, n + 1) \in Seq(UByte)
    OBVIOUS
  <2>1. RecordBytes(s[n + 1]) \in Seq(UByte) /\ Packet(s, n) \in Seq(UByte)
    BY <1>2 DEF Sent
  <2>2. Packet(s, n + 1) = Packet(s, n) \o RecordBytes(s[n + 1])
    BY <2>1, PacketStep
  <2>3. \A a, b \in Seq(UByte) : a \o b \in Seq(UByte)
    OBVIOUS
  <2>. QED
    BY <2>1, <2>2, <2>3
<1>. HIDE DEF P
<1>3. Nat \subseteq P
  BY <1>1, <1>2, SetInduction
<1>. QED
  BY <1>3 DEF P

BeginsWith(t, a) == Len(a) <= Len(t) /\ \A i \in 1 .. Len(a) : t[i] = a[i]

LEMMA PacketBegins ==
  ASSUME NEW s, Len(s) \in Nat, Sent(s), NEW n \in 0 .. Len(s)
  PROVE  \A m \in n .. Len(s) : BeginsWith(Packet(s, m), Packet(s, n))
<1>. DEFINE P == {d \in Nat : n + d <= Len(s) => BeginsWith(Packet(s, n + d), Packet(s, n))}
<1>1. 0 \in P
  <2>1. Len(Packet(s, n)) \in Nat
    BY PacketBytes
  <2>. QED
    BY <2>1 DEF BeginsWith
<1>2. ASSUME NEW d \in Nat, d \in P PROVE d + 1 \in P
  <2>. DEFINE m == n + d
  <2>. SUFFICES ASSUME m + 1 <= Len(s) PROVE BeginsWith(Packet(s, m + 1), Packet(s, n))
    OBVIOUS
  <2>1. m \in 0 .. Len(s) /\ m + 1 \in 1 .. Len(s) /\ BeginsWith(Packet(s, m), Packet(s, n))
    BY <1>2
  <2>. HIDE DEF m
  <2>2. RecordBytes(s[m + 1]) \in Seq(UByte) /\ Packet(s, m) \in Seq(UByte) /\ Packet(s, n) \in Seq(UByte)
    BY <2>1, PacketBytes DEF Sent
  <2>3. Packet(s, m + 1) = Packet(s, m) \o RecordBytes(s[m + 1])
    BY <2>1, <2>2, PacketStep
  <2>4. ASSUME NEW a \in Seq(UByte), NEW b \in Seq(UByte), NEW c \in Seq(UByte), BeginsWith(a, c)
        PROVE  BeginsWith(a \o b, c)
    BY <2>4 DEF BeginsWith
  <2>. QED
    BY <2>1, <2>2, <2>3, <2>4
<1>. HIDE DEF P
<1>3. Nat \subseteq P
  BY <1>1, <1>2, SetInduction
<1>4. ASSUME NEW m \in n .. Len(s) PROVE BeginsWith(Packet(s, m), Packet(s, n))
  <2>1. m - n \in P /\ n + (m - n) = m
    BY <1>3
  <2>. QED
    BY <2>1 DEF P
<1>. QED
  BY <1>4

-----------------------------------------------------------------------------
(* Parts of a wire. *)
LEMMA PartsStand ==
  ASSUME NEW a \in Seq(UByte), NEW b \in Seq(UByte), NEW w, NEW p \in Nat, StandsAt(a \o b, w, p)
  PROVE  StandsAt(a, w, p) /\ StandsAt(b, w, p + Len(a))
<1>1. ASSUME NEW j \in 1 .. Len(a) PROVE w[p + j - 1] = a[j]
  <2>1. j \in 1 .. Len(a \o b) /\ (a \o b)[j] = a[j]
    OBVIOUS
  <2>. QED
    BY <2>1 DEF StandsAt
<1>2. ASSUME NEW j \in 1 .. Len(b) PROVE w[p + Len(a) + j - 1] = b[j]
  <2>. DEFINE k == Len(a) + j
  <2>1. k \in 1 .. Len(a \o b) /\ (a \o b)[k] = b[j] /\ p + k - 1 = p + Len(a) + j - 1
    OBVIOUS
  <2>. HIDE DEF k
  <2>2. w[p + k - 1] = (a \o b)[k]
    BY <2>1 DEF StandsAt
  <2>. QED
    BY <2>1, <2>2
<1>. QED
  BY <1>1, <1>2 DEF StandsAt

LEMMA PartIsCut ==
  ASSUME NEW t \in Seq(UByte), NEW a \in Seq(UByte), NEW p \in Nat, p + Len(a) <= Len(t),
         StandsAt(a, t, p + 1)
  PROVE  SubSeq(t, p + 1, p + Len(a)) = a
<1>. DEFINE c == SubSeq(t, p + 1, p + Len(a))
<1>1. c \in Seq(UByte) /\ Len(c) = Len(a)
  OBVIOUS
<1>2. ASSUME NEW i \in 1 .. Len(a) PROVE c[i] = a[i]
  <2>1. c[i] = t[p + i]
    OBVIOUS
  <2>2. t[p + 1 + i - 1] = a[i] /\ p + 1 + i - 1 = p + i
    BY DEF StandsAt
  <2>. QED
    BY <2>1, <2>2
<1>. HIDE DEF c
<1>3. ASSUME NEW x \in Seq(UByte), NEW y \in Seq(UByte), Len(x) = Len(y),
             \A i \in 1 .. Len(y) : x[i] = y[i]
      PROVE  x = y
  BY <1>3
<1>4. c = a
  BY <1>1, <1>2, <1>3
<1>. QED
  BY <1>4 DEF c

(* How bytes are joined does not matter. *)
LEMMA Joining == \A a, b, c \in Seq(UByte) : (a \o b) \o c = a \o (b \o c)
OBVIOUS

-----------------------------------------------------------------------------
(* What Holds says of each coding. *)
LEMMA CodingHolds ==
  ASSUME NEW coding, NEW value, Holds(coding, value)
  PROVE  \/ coding = "bool" /\ value \in BOOLEAN
         \/ coding = "s64" /\ value \in Int /\ Uint64(V!ZigZag(value))
         \/ coding = "u64" /\ value \in Nat /\ Uint64(value)
         \/ coding = "float" /\ value \in Seq(UByte) /\ Len(value) = 4
         \/ coding = "double" /\ value \in Seq(UByte) /\ Len(value) = 8
         \/ /\ coding = "cstring" /\ value \in Seq(UByte)
            /\ Uint32(Len(value) + 1) /\ Uint64(Len(value) + 1)
         \/ coding = "data" /\ value \in Seq(UByte) /\ Uint32(Len(value)) /\ Uint64(Len(value))
         \/ coding = "nothing" /\ value = <<>>
<1>1. ASSUME value \in Seq(UByte)
      PROVE  /\ Uint32(Len(value) + 1) => Uint64(Len(value) + 1)
             /\ Uint32(Len(value)) => Uint64(Len(value))
  <2>1. Len(value) \in Nat /\ Len(value) + 1 \in Nat
    BY <1>1
  <2>. QED
    BY <2>1, Ranges
<1>2. CASE coding = "bool"
  BY <1>2 DEF Holds
<1>3. CASE coding \in {"s64", "u64"}
  BY <1>3 DEF Holds
<1>4. CASE coding \in {"float", "double"}
  BY <1>4 DEF Holds
<1>5. CASE coding \in {"cstring", "data"}
  <2>1. /\ value \in Seq(UByte)
        /\ coding = "cstring" => Uint32(Len(value) + 1)
        /\ coding = "data" => Uint32(Len(value))
    BY <1>5 DEF Holds
  <2>. QED
    BY <1>1, <1>5, <2>1
<1>6. CASE coding = "nothing"
  BY <1>6 DEF Holds
<1>7. coding \in {"bool", "s64", "u64", "float", "double", "cstring", "data", "nothing"}
  BY DEF Holds
<1>. QED
  BY <1>2, <1>3, <1>4, <1>5, <1>6, <1>7

(* The payload is made of bytes. *)
LEMMA PayloadBytes ==
  ASSUME NEW coding, NEW value, Holds(coding, value)
  PROVE  Payload(coding, value) \in Seq(UByte)
<1>0. /\ 0 \in UByte /\ 1 \in UByte /\ <<>> \in Seq(UByte)
      /\ \A x \in UByte : <<x>> \in Seq(UByte)
      /\ \A a, b \in Seq(UByte) : a \o b \in Seq(UByte)
  BY DEF UByte
<1>1. CASE coding = "bool" /\ value \in BOOLEAN
  BY <1>0, <1>1 DEF Payload
<1>2. CASE coding = "s64" /\ value \in Int /\ Uint64(V!ZigZag(value))
  BY <1>2, SignedNumber DEF Payload
<1>3. CASE coding = "u64" /\ value \in Nat /\ Uint64(value)
  BY <1>3, UnsignedNumber DEF Payload
<1>4. CASE coding \in {"float", "double"} /\ value \in Seq(UByte)
  BY <1>4 DEF Payload
<1>5. CASE coding = "cstring" /\ value \in Seq(UByte) /\ Uint64(Len(value) + 1)
  <2>1. Len(value) + 1 \in Nat
    BY <1>5
  <2>2. V!VarU64Bytes(Len(value) + 1) \in Seq(UByte)
    BY <1>5, <2>1, UnsignedNumber
  <2>. QED
    BY <1>0, <1>5, <2>2 DEF Payload, Cstring
<1>6. CASE coding = "data" /\ value \in Seq(UByte) /\ Uint64(Len(value))
  <2>1. Len(value) \in Nat
    BY <1>6
  <2>2. V!VarU64Bytes(Len(value)) \in Seq(UByte)
    BY <1>6, <2>1, UnsignedNumber
  <2>. QED
    BY <1>0, <1>6, <2>2 DEF Payload, Data
<1>7. CASE coding = "nothing" /\ value = <<>>
  BY <1>0, <1>7 DEF Payload
<1>. QED
  BY <1>1, <1>2, <1>3, <1>4, <1>5, <1>6, <1>7, CodingHolds

-----------------------------------------------------------------------------
(* A payload behind p is inside what was given, as far as its width says. *)
Arrived(coding, p) ==
  CASE coding = "nothing" -> TRUE
    [] coding = "bool" -> p + 1 <= limit
    [] coding = "float" -> p + 4 <= limit
    [] coding = "double" -> p + 8 <= limit
    [] OTHER -> p < limit /\ p + V!FormOf(wire[p + 1]) <= limit

(* A payload stands behind p; the reader makes of it what was sent, or a    *)
(* null of a block that did not arrive whole.                               *)
Stands(coding, value, p) ==
  /\ Holds(coding, value)
  /\ wire \in Seq(UByte) /\ Uint32(Len(wire)) /\ limit \in 0 .. Len(wire) /\ p \in 0 .. limit
  /\ p + Len(Payload(coding, value)) <= Len(wire)
  /\ StandsAt(Payload(coding, value), wire, p + 1)
  /\ Arrived(coding, p)
GotWhole(coding, value, p) ==
  /\ PayloadAt(coding, p) = [value |-> value, end |-> p + Len(Payload(coding, value))]
  /\ p + Len(Payload(coding, value)) <= limit
GotNull(coding, value, p) ==
  /\ PayloadAt(coding, p).value = Null
  /\ PayloadAt(coding, p).end \in p .. limit
  /\ limit < p + Len(Payload(coding, value))
Got(coding, value, p) == GotWhole(coding, value, p) \/ GotNull(coding, value, p)

LEMMA NumberIsRead ==
  ASSUME NEW coding \in {"s64", "u64"}, NEW value, NEW p, Stands(coding, value, p)
  PROVE  GotWhole(coding, value, p)
<1>0. p \in Nat /\ p + 1 \in Nat /\ limit \in Nat
  BY DEF Stands
<1>1. CASE coding = "s64"
  <2>. DEFINE bytes == V!VarS64Bytes(value)
  <2>1. value \in Int /\ Uint64(V!ZigZag(value))
    BY <1>1, CodingHolds DEF Stands
  <2>2. Payload(coding, value) = bytes
    BY <1>1 DEF Payload
  <2>3. StandsAt(bytes, wire, p + 1) /\ p + V!FormOf(wire[p + 1]) <= limit
    BY <1>1, <2>2 DEF Stands, Arrived
  <2>4. /\ V!VarS64At(wire, p + 1) = [value |-> value, width |-> Len(bytes)]
        /\ V!FormOf(wire[p + 1]) = Len(bytes)
    BY <1>0, <2>1, <2>3, SignedNumber
  <2>5. PayloadAt(coding, p) = [value |-> value, end |-> p + Len(bytes)]
    BY <1>1, <2>4 DEF PayloadAt, Fixed
  <2>. QED
    BY <2>2, <2>3, <2>4, <2>5 DEF GotWhole
<1>2. CASE coding = "u64"
  <2>. DEFINE bytes == V!VarU64Bytes(value)
  <2>1. value \in Nat /\ Uint64(value)
    BY <1>2, CodingHolds DEF Stands
  <2>2. Payload(coding, value) = bytes
    BY <1>2 DEF Payload
  <2>3. StandsAt(bytes, wire, p + 1) /\ p + V!FormOf(wire[p + 1]) <= limit
    BY <1>2, <2>2 DEF Stands, Arrived
  <2>4. /\ V!VarU64At(wire, p + 1) = [value |-> value, width |-> Len(bytes)]
        /\ V!FormOf(wire[p + 1]) = Len(bytes)
    BY <1>0, <2>1, <2>3, UnsignedNumber
  <2>5. PayloadAt(coding, p) = [value |-> value, end |-> p + Len(bytes)]
    BY <1>2, <2>4 DEF PayloadAt, Fixed
  <2>. QED
    BY <2>2, <2>3, <2>4, <2>5 DEF GotWhole
<1>. QED
  BY <1>1, <1>2

LEMMA FixedIsRead ==
  ASSUME NEW coding \in {"bool", "float", "double", "nothing"}, NEW value, NEW p, Stands(coding, value, p)
  PROVE  GotWhole(coding, value, p)
<1>0. /\ p \in Nat /\ limit \in Nat /\ wire \in Seq(UByte) /\ Len(wire) \in Nat
      /\ p <= limit /\ limit <= Len(wire)
  BY DEF Stands
<1>1. CASE coding = "bool"
  <2>1. value \in BOOLEAN
    BY <1>1, CodingHolds DEF Stands
  <2>. DEFINE b == IF value THEN 1 ELSE 0
  <2>2. Payload(coding, value) = <<b>> /\ Len(<<b>>) = 1 /\ <<b>>[1] = b
    BY <1>1 DEF Payload
  <2>3. wire[p + 1] = b
    <3>1. wire[p + 1 + 1 - 1] = <<b>>[1]
      BY <2>2 DEF Stands, StandsAt
    <3>2. p + 1 + 1 - 1 = p + 1
      BY <1>0
    <3>. QED
      BY <2>2, <3>1, <3>2
  <2>4. (b # 0) = value
    BY <2>1
  <2>5. PayloadAt(coding, p) = [value |-> value, end |-> p + 1]
    BY <1>1, <2>3, <2>4 DEF PayloadAt, Fixed
  <2>6. p + 1 <= limit
    BY <1>1 DEF Stands, Arrived
  <2>. QED
    BY <2>2, <2>5, <2>6 DEF GotWhole
<1>2. CASE coding \in {"float", "double"}
  <2>. DEFINE n == IF coding = "float" THEN 4 ELSE 8
  <2>1. value \in Seq(UByte) /\ Len(value) = n
    BY <1>2, CodingHolds DEF Stands
  <2>2. Payload(coding, value) = value
    BY <1>2 DEF Payload
  <2>3. p + n <= limit
    BY <1>2 DEF Stands, Arrived
  <2>4. PayloadAt(coding, p) = [value |-> SubSeq(wire, p + 1, p + n), end |-> p + n]
    BY <1>2 DEF PayloadAt, Fixed
  <2>5. n \in Nat
    OBVIOUS
  <2>. HIDE DEF n
  <2>6. SubSeq(wire, p + 1, p + Len(value)) = value
    BY <1>0, <2>1, <2>2, <2>3, <2>5, PartIsCut DEF Stands
  <2>. QED
    BY <2>1, <2>2, <2>3, <2>4, <2>6 DEF GotWhole
<1>3. CASE coding = "nothing"
  <2>1. value = <<>> /\ Payload(coding, value) = <<>> /\ Len(<<>>) = 0
    BY <1>3, CodingHolds DEF Stands, Payload
  <2>2. PayloadAt(coding, p) = [value |-> <<>>, end |-> p + 0]
    BY <1>3 DEF PayloadAt, Fixed
  <2>. QED
    BY <1>0, <2>1, <2>2 DEF GotWhole
<1>. QED
  BY <1>1, <1>2, <1>3

(* What the reader of a block does once it has its length. *)
LEMMA LengthIsRead ==
  ASSUME NEW p, NEW cut, NEW n, NEW k, V!VarU64At(wire, p + 1) = [value |-> n, width |-> k],
         Uint(n) = n
  PROVE  VarLength(p, cut) =
           IF n < cut \/ (n # 0 /\ Uint(p + k + n) > limit)
           THEN [value |-> Null, end |-> p + k]
           ELSE [value |-> SubSeq(wire, p + k + 1, (p + k + n) - cut), end |-> p + k + n]
<1>. DEFINE length == V!VarU64At(wire, p + 1)
            len == Uint(length.value)
<1>1. VarLength(p, cut) =
        IF len < cut \/ (len # 0 /\ Uint(p + length.width + len) > limit)
        THEN [value |-> Null, end |-> p + length.width]
        ELSE [value |-> SubSeq(wire, p + length.width + 1, (p + length.width + len) - cut),
              end |-> p + length.width + len]
  BY DEF VarLength
<1>2. len = n /\ length.width = k
  OBVIOUS
<1>. HIDE DEF length, len
<1>. QED
  BY <1>1, <1>2, Zenon

(* A block follows the length of it: its bytes, or those and a zero. *)
LEMMA BlockIsRead ==
  ASSUME NEW value \in Seq(UByte), NEW tail \in Seq(UByte), NEW p \in Nat,
         wire \in Seq(UByte), limit \in 0 .. Len(wire),
         Uint32(Len(wire)), Uint32(Len(value) + Len(tail)), Uint64(Len(value) + Len(tail)),
         StandsAt(V!VarU64Bytes(Len(value) + Len(tail)) \o (value \o tail), wire, p + 1),
         p + Len(V!VarU64Bytes(Len(value) + Len(tail)) \o (value \o tail)) <= Len(wire),
         p < limit, p + V!FormOf(wire[p + 1]) <= limit
  PROVE  LET r == VarLength(p, Len(tail))
             end == p + Len(V!VarU64Bytes(Len(value) + Len(tail)) \o (value \o tail))
         IN  \/ r = [value |-> value, end |-> end] /\ end <= limit
             \/ r.value = Null /\ r.end \in p .. limit /\ limit < end
<1>. DEFINE n == Len(value) + Len(tail)
            head == V!VarU64Bytes(n)
            k == Len(head)
            start == p + k
            block == value \o tail
            all == head \o block
<1>1. n \in Nat /\ Len(value) \in Nat /\ Len(tail) \in Nat /\ p + 1 \in Nat /\ limit \in Nat
  OBVIOUS
<1>2. /\ head \in Seq(UByte) /\ k \in Nat \ {0}
      /\ \A w : \A q \in Nat : StandsAt(head, w, q) =>
           V!VarU64At(w, q) = [value |-> n, width |-> k] /\ V!FormOf(w[q]) = k
  <2>. HIDE DEF n
  <2>1. Uint64(n)
    BY DEF n
  <2>. QED
    BY <1>1, <2>1, UnsignedNumber
<1>3. block \in Seq(UByte) /\ Len(block) = n
  OBVIOUS
<1>4. StandsAt(all, wire, p + 1) /\ p + Len(all) <= Len(wire)
  OBVIOUS
<1>. HIDE DEF head
<1>5. StandsAt(head, wire, p + 1) /\ StandsAt(block, wire, p + 1 + k)
  <2>. HIDE DEF block
  <2>. QED
    BY <1>1, <1>2, <1>3, <1>4, PartsStand
<1>6. Len(all) = k + n
  <2>1. \A a, b \in Seq(UByte) : Len(a \o b) = Len(a) + Len(b)
    OBVIOUS
  <2>. HIDE DEF block, n
  <2>. QED
    BY <1>2, <1>3, <2>1
<1>7. StandsAt(value, wire, start + 1)
  <2>1. StandsAt(value, wire, p + 1 + k) /\ p + 1 + k = start + 1
    BY <1>1, <1>2, <1>5, PartsStand
  <2>. QED
    BY <2>1
<1>8. V!VarU64At(wire, p + 1) = [value |-> n, width |-> k] /\ start <= limit
  BY <1>1, <1>2, <1>5
<1>9. VarLength(p, Len(tail)) =
        IF n < Len(tail) \/ (n # 0 /\ Uint(start + n) > limit)
        THEN [value |-> Null, end |-> start]
        ELSE [value |-> SubSeq(wire, start + 1, (start + n) - Len(tail)), end |-> start + n]
  <2>1. Uint(n) = n
    <3>1. Uint32(n)
      OBVIOUS
    <3>. HIDE DEF n
    <3>. QED
      BY <1>1, <3>1, UintFacts
  <2>. HIDE DEF k, n
  <2>. QED
    BY <1>8, <2>1, LengthIsRead
<1>10. /\ (start + n) - Len(tail) = start + Len(value) /\ start + n = p + Len(all)
       /\ start \in Nat /\ p <= start /\ start + Len(value) <= Len(wire)
  <2>. HIDE DEF k, all
  <2>. QED
    BY <1>1, <1>2, <1>4, <1>6
<1>. HIDE DEF start, all
<1>11. SubSeq(wire, start + 1, start + Len(value)) = value
  BY <1>7, <1>10, PartIsCut
<1>. DEFINE end == p + Len(all)
<1>13. ~(n < Len(tail)) /\ Uint(start + n) = start + n
  <2>1. ~(n < Len(tail))
    BY <1>1
  <2>2. start + n \in Nat /\ start + n <= Len(wire) /\ Len(wire) \in Nat /\ Uint32(Len(wire))
    BY <1>1, <1>4, <1>10
  <2>3. Uint32(start + n)
    BY <2>2, UintFacts
  <2>. QED
    BY <2>1, <2>2, <2>3, UintFacts
<1>. HIDE DEF n
<1>12. \/ VarLength(p, Len(tail)) = [value |-> value, end |-> end] /\ end <= limit
       \/ /\ VarLength(p, Len(tail)).value = Null /\ VarLength(p, Len(tail)).end \in p .. limit
          /\ limit < end
  <2>. HIDE DEF end
  <2>0. end = start + n
    BY <1>10 DEF end
  <2>1. CASE n # 0 /\ start + n > limit
    BY <1>1, <1>8, <1>9, <1>10, <1>13, <2>0, <2>1
  <2>2. CASE ~(n # 0 /\ start + n > limit)
    <3>1. start + n <= limit
      BY <1>1, <1>8, <1>10, <2>2
    <3>2. VarLength(p, Len(tail)) = [value |-> value, end |-> start + n]
      BY <1>9, <1>10, <1>11, <1>13, <2>2
    <3>. QED
      BY <2>0, <3>1, <3>2
  <2>. QED
    BY <2>1, <2>2
<1>. QED
  BY <1>12 DEF all, n, head

LEMMA PayloadIsRead ==
  ASSUME NEW coding, NEW value, NEW p, Stands(coding, value, p)
  PROVE  Got(coding, value, p)
<1>0. /\ p \in Nat /\ wire \in Seq(UByte) /\ limit \in 0 .. Len(wire)
      /\ \A S : <<>> \in Seq(S)
  BY DEF Stands
<1>1. CASE coding \in {"s64", "u64"}
  BY <1>1, NumberIsRead DEF Got
<1>2. CASE coding \in {"bool", "float", "double", "nothing"}
  BY <1>2, FixedIsRead DEF Got
<1>3. CASE coding = "cstring"
  <2>. DEFINE tail == <<0>>
  <2>1. value \in Seq(UByte) /\ Uint32(Len(value) + 1) /\ Uint64(Len(value) + 1)
    BY <1>3, CodingHolds DEF Stands
  <2>2. tail \in Seq(UByte) /\ Len(tail) = 1
    BY DEF UByte
  <2>3. Payload(coding, value) = V!VarU64Bytes(Len(value) + Len(tail)) \o (value \o tail)
    <3>1. \A a, b, c \in Seq(UByte) : (a \o b) \o c = a \o (b \o c)
      OBVIOUS
    <3>2. V!VarU64Bytes(Len(value) + 1) \in Seq(UByte)
      BY <2>1, UnsignedNumber
    <3>. QED
      BY <1>3, <2>1, <2>2, <3>1, <3>2 DEF Payload, Cstring
  <2>4. PayloadAt(coding, p) = VarLength(p, Len(tail))
    BY <1>3, <2>2 DEF PayloadAt
  <2>5. p < limit /\ p + V!FormOf(wire[p + 1]) <= limit
    BY <1>3 DEF Stands, Arrived
  <2>. HIDE DEF tail
  <2>. QED
    BY <1>0, <2>1, <2>2, <2>3, <2>4, <2>5, BlockIsRead DEF Stands, Got, GotWhole, GotNull
<1>4. CASE coding = "data"
  <2>. DEFINE tail == <<>>
  <2>1. value \in Seq(UByte) /\ Uint32(Len(value)) /\ Uint64(Len(value))
    BY <1>4, CodingHolds DEF Stands
  <2>2. tail \in Seq(UByte) /\ Len(tail) = 0
    BY <1>0
  <2>3. value \o tail = value /\ Len(value) + 0 = Len(value)
    BY <2>1
  <2>4. Payload(coding, value) = V!VarU64Bytes(Len(value) + Len(tail)) \o (value \o tail)
    BY <1>4, <2>2, <2>3 DEF Payload, Data
  <2>5. PayloadAt(coding, p) = VarLength(p, Len(tail))
    BY <1>4, <2>2 DEF PayloadAt
  <2>6. p < limit /\ p + V!FormOf(wire[p + 1]) <= limit
    BY <1>4 DEF Stands, Arrived
  <2>. HIDE DEF tail
  <2>. QED
    BY <1>0, <2>1, <2>2, <2>3, <2>4, <2>5, <2>6, BlockIsRead DEF Stands, Got, GotWhole, GotNull
<1>. QED
  BY <1>1, <1>2, <1>3, <1>4, CodingHolds DEF Stands

-----------------------------------------------------------------------------
(* What the reader does with any bytes: they need not be those of a record. *)
Codings == {"bool", "s64", "u64", "float", "double", "cstring", "data", "nothing"}

LEMMA AnyForm ==
  ASSUME NEW b \in UByte
  PROVE  V!FormOf(b) \in VP!Forms /\ V!FormOf(b) \in Nat \ {0}
<1>1. VP!FormOf(b) \in VP!Forms
  BY WidthOfTheCode, ByteIsByte, VP!FormOfFacts
<1>2. VP!Forms = 1 .. 8 + 1
  BY DEF VP!Forms
<1>. QED
  BY <1>1, <1>2, SameBytes

LEMMA WidthsAreNatural ==
  ASSUME NEW coding \in Codings, NEW p \in Nat, wire \in Seq(UByte), limit \in 0 .. Len(wire),
         NEW n \in PayloadWidths(coding, p)
  PROVE  n \in Nat
<1>1. CASE coding \in {"nothing", "bool", "float", "double"}
  BY <1>1 DEF PayloadWidths
<1>2. CASE coding \in {"s64", "u64", "cstring", "data"}
  <2>1. n \in IF p < limit THEN {V!FormOf(wire[p + 1])} ELSE V!Forms
    BY <1>2 DEF PayloadWidths
  <2>2. V!Forms \subseteq Nat
    BY DEF V!Forms
  <2>3. CASE p < limit
    <3>1. wire[p + 1] \in UByte
      BY <2>3
    <3>. QED
      BY <2>1, <2>3, <3>1, AnyForm
  <2>. QED
    BY <2>1, <2>2, <2>3
<1>. QED
  BY <1>1, <1>2 DEF Codings

LEMMA WidthArrived ==
  ASSUME NEW coding \in Codings, NEW p \in Nat, wire \in Seq(UByte), limit \in 0 .. Len(wire),
         NEW n \in PayloadWidths(coding, p), p + n <= limit
  PROVE  Arrived(coding, p)
<1>1. CASE coding \in {"nothing", "bool", "float", "double"}
  BY <1>1 DEF PayloadWidths, Arrived
<1>2. CASE coding \in {"s64", "u64", "cstring", "data"}
  <2>1. n \in IF p < limit THEN {V!FormOf(wire[p + 1])} ELSE V!Forms
    BY <1>2 DEF PayloadWidths
  <2>2. p < limit
    <3>1. \A k \in V!Forms : k \in Nat /\ k >= 1
      BY DEF V!Forms
    <3>. QED
      BY <2>1, <3>1
  <2>. QED
    BY <1>2, <2>1, <2>2 DEF Arrived
<1>. QED
  BY <1>1, <1>2 DEF Codings

(* A code of k bytes is read as k bytes. *)
LEMMA CodeIsRead ==
  ASSUME NEW stream, NEW q \in Nat, NEW k \in VP!Forms,
         \A i \in 1 .. k : stream[q + i - 1] \in VP!Byte, VP!FormOf(stream[q]) = k
  PROVE  VP!VarU64At(stream, q).width = k /\ VP!VarU64At(stream, q).value \in VP!Values
BY WidthOfTheCode, VP!BytesAreRead

(* A block ends inside what was given, or its end wraps there. *)
LEMMA LengthInside ==
  ASSUME NEW p \in Nat, wire \in Seq(UByte), Uint32(Len(wire)), limit \in 0 .. Len(wire),
         p < limit, p + V!FormOf(wire[p + 1]) <= limit, NEW cut
  PROVE  Uint(VarLength(p, cut).end) \in 0 .. limit
<1>. DEFINE k == V!FormOf(wire[p + 1])
            length == V!VarU64At(wire, p + 1)
            len == Uint(length.value)
            start == p + k
<1>0. p + 1 \in Nat /\ limit \in Nat /\ Len(wire) \in Nat /\ limit <= Len(wire)
  OBVIOUS
<1>1. wire[p + 1] \in UByte
  OBVIOUS
<1>2. k \in VP!Forms /\ k \in Nat \ {0} /\ p + k <= limit
  BY <1>1, AnyForm
<1>. HIDE DEF k
<1>3. \A i \in 1 .. k : wire[p + 1 + i - 1] \in VP!Byte
  <2>1. ASSUME NEW i \in 1 .. k PROVE wire[p + 1 + i - 1] \in UByte
    <3>1. p + 1 + i - 1 \in 1 .. Len(wire)
      BY <1>0, <1>2
    <3>. QED
      BY <3>1
  <2>. QED
    BY <2>1, ByteIsByte
<1>4. VP!FormOf(wire[p + 1]) = k
  BY SameBytes DEF k
<1>5. length.width = k /\ length.value \in VP!Values
  <2>1. ASSUME NEW q \in Nat, \A i \in 1 .. k : wire[q + i - 1] \in VP!Byte, VP!FormOf(wire[q]) = k
        PROVE  VP!VarU64At(wire, q).width = k /\ VP!VarU64At(wire, q).value \in VP!Values
    BY <1>2, <2>1, CodeIsRead
  <2>2. /\ VP!VarU64At(wire, p + 1).width = k
        /\ VP!VarU64At(wire, p + 1).value \in VP!Values
    BY <1>0, <1>3, <1>4, <2>1
  <2>. QED
    BY <2>2, SameReads
<1>6. length.value \in Nat
  BY <1>5, WidthOfTheCode, VP!ValuesType
<1>7. VarLength(p, cut).end = p + length.width \/ (VarLength(p, cut).end = p + length.width + len
        /\ ~(len # 0 /\ Uint(p + length.width + len) > limit))
  BY DEF VarLength
<1>8. len \in Nat
  BY <1>6, UintFacts
<1>. HIDE DEF length, len
<1>9. start \in Nat /\ start <= limit /\ Uint(start) = start
  <2>1. start \in Nat /\ start <= limit
    BY <1>0, <1>2
  <2>2. Uint32(start)
    BY <1>0, <2>1, UintFacts
  <2>. QED
    BY <2>1, <2>2, UintFacts
<1>10. CASE VarLength(p, cut).end = start
  BY <1>0, <1>9, <1>10
<1>11. CASE VarLength(p, cut).end = start + len /\ ~(len # 0 /\ Uint(start + len) > limit)
  <2>1. CASE len = 0
    <3>1. start + len = start
      BY <1>9, <2>1
    <3>. QED
      BY <1>0, <1>9, <1>11, <3>1
  <2>2. CASE len # 0
    <3>1. start + len \in Nat
      BY <1>8, <1>9
    <3>2. Uint(start + len) \in Nat
      BY <3>1, UintFacts
    <3>. QED
      BY <1>0, <1>11, <2>2, <3>2
  <2>. QED
    BY <2>1, <2>2
<1>. QED
  BY <1>5, <1>7, <1>10, <1>11

LEMMA EndInside ==
  ASSUME NEW coding \in Codings, NEW p \in Nat, wire \in Seq(UByte), Uint32(Len(wire)),
         limit \in 0 .. Len(wire), NEW n \in PayloadWidths(coding, p), p + n <= limit
  PROVE  Uint(PayloadAt(coding, p).end) \in 0 .. limit
<1>0. n \in Nat /\ Arrived(coding, p) /\ limit \in Nat /\ limit <= Len(wire) /\ Len(wire) \in Nat
  BY WidthsAreNatural, WidthArrived
<1>1. CASE coding \in {"cstring", "data"}
  <2>1. p < limit /\ p + V!FormOf(wire[p + 1]) <= limit
    BY <1>0, <1>1 DEF Arrived
  <2>2. \E cut : PayloadAt(coding, p) = VarLength(p, cut)
    BY <1>1 DEF PayloadAt
  <2>. QED
    BY <2>1, <2>2, LengthInside
<1>2. ASSUME PayloadAt(coding, p).end = p + n PROVE Uint(PayloadAt(coding, p).end) \in 0 .. limit
  <2>1. p + n \in Nat /\ p + n <= limit
    BY <1>0
  <2>2. Uint32(p + n)
    BY <1>0, <2>1, UintFacts
  <2>3. Uint(p + n) = p + n
    BY <2>1, <2>2, UintFacts
  <2>. QED
    BY <1>2, <2>1, <2>3
<1>3. CASE coding \in {"nothing", "bool", "float", "double"}
  <2>1. PayloadAt(coding, p).end = p + n
    BY <1>3 DEF PayloadAt, PayloadWidths, Fixed
  <2>. QED
    BY <1>2, <2>1
<1>4. CASE coding \in {"s64", "u64"}
  <2>1. n = V!FormOf(wire[p + 1])
    BY <1>0, <1>4 DEF PayloadWidths, Arrived
  <2>2. V!VarU64At(wire, p + 1).width = n /\ V!VarS64At(wire, p + 1).width = n
    BY <2>1 DEF V!VarS64At, V!VarU64At
  <2>3. PayloadAt(coding, p).end = p + n
    BY <1>4, <2>2 DEF PayloadAt, Fixed
  <2>. QED
    BY <1>2, <2>3
<1>. QED
  BY <1>1, <1>3, <1>4 DEF Codings

(* Where the payload of a record does not end inside what was given, that   *)
(* ends inside the payload.                                                 *)
Announces(head, bytes, p) ==
  /\ head \in Seq(UByte) /\ Len(head) \in Nat \ {0}
  /\ StandsAt(head, wire, p + 1) => V!FormOf(wire[p + 1]) = Len(head)
  /\ \E tail \in Seq(UByte) : bytes = head \o tail

LEMMA CutIsMissing ==
  ASSUME NEW coding, NEW value, Holds(coding, value), NEW p \in Nat,
         wire \in Seq(UByte), limit \in 0 .. Len(wire),
         StandsAt(Payload(coding, value), wire, p + 1),
         NEW n \in PayloadWidths(coding, p), p + n > limit
  PROVE  limit < p + Len(Payload(coding, value))
<1>. DEFINE bytes == Payload(coding, value)
<1>0. limit \in Nat /\ p + 1 \in Nat /\ bytes \in Seq(UByte) /\ Len(bytes) \in Nat
  BY PayloadBytes
<1>1. ASSUME n = Len(bytes) PROVE limit < p + Len(bytes)
  BY <1>1
<1>2. CASE coding = "nothing"
  <2>1. bytes = <<>> /\ Len(<<>>) = 0
    BY <1>2, CodingHolds DEF Payload
  <2>. QED
    BY <1>1, <1>2, <2>1 DEF PayloadWidths
<1>3. CASE coding = "bool"
  <2>1. \E b : bytes = <<b>>
    BY <1>3 DEF Payload
  <2>2. \A b : Len(<<b>>) = 1
    OBVIOUS
  <2>3. n = 1
    BY <1>3 DEF PayloadWidths
  <2>. QED
    BY <1>1, <2>1, <2>2, <2>3
<1>4. CASE coding \in {"float", "double"}
  <2>1. bytes = value
    BY <1>4 DEF Payload
  <2>2. n = IF coding = "float" THEN 4 ELSE 8
    BY <1>4 DEF PayloadWidths
  <2>3. Len(value) = IF coding = "float" THEN 4 ELSE 8
    BY <1>4, CodingHolds
  <2>. QED
    BY <1>1, <2>1, <2>2, <2>3
<1>5. ASSUME coding \in {"s64", "u64", "cstring", "data"}, NEW head, Announces(head, bytes, p)
      PROVE  limit < p + Len(bytes)
  <2>1. PICK tail \in Seq(UByte) : bytes = head \o tail
    BY <1>5 DEF Announces
  <2>2. head \in Seq(UByte) /\ Len(head) \in Nat \ {0}
    BY <1>5 DEF Announces
  <2>3. V!FormOf(wire[p + 1]) = Len(head)
    BY <1>0, <1>5, <2>1, <2>2, PartsStand DEF Announces
  <2>4. Len(bytes) = Len(head) + Len(tail) /\ Len(tail) \in Nat
    BY <2>1, <2>2
  <2>5. n \in IF p < limit THEN {V!FormOf(wire[p + 1])} ELSE V!Forms
    BY <1>5 DEF PayloadWidths
  <2>6. CASE p < limit
    BY <1>0, <2>2, <2>3, <2>4, <2>5, <2>6
  <2>7. CASE ~(p < limit)
    BY <1>0, <2>2, <2>4, <2>7
  <2>. QED
    BY <2>6, <2>7
<1>6. <<>> \in Seq(UByte) /\ <<0>> \in Seq(UByte) /\ \A a \in Seq(UByte) : a \o <<>> = a
  <2>1. 0 \in UByte
    BY DEF UByte
  <2>2. <<>> \in Seq(UByte) /\ <<0>> \in Seq(UByte)
    BY <2>1
  <2>3. \A a \in Seq(UByte) : a \o <<>> = a
    OBVIOUS
  <2>. QED
    BY <2>2, <2>3
<1>7. \A b, c \in Seq(UByte) : b \o c \in Seq(UByte)
  OBVIOUS
<1>. HIDE DEF bytes
<1>8. ASSUME NEW v \in Nat, Uint64(v), NEW tail \in Seq(UByte), bytes = V!VarU64Bytes(v) \o tail
      PROVE  Announces(V!VarU64Bytes(v), bytes, p)
  BY <1>0, <1>8, UnsignedNumber DEF Announces
<1>9. CASE coding = "s64"
  <2>1. value \in Int /\ Uint64(V!ZigZag(value)) /\ bytes = V!VarS64Bytes(value)
    BY <1>9, CodingHolds DEF bytes, Payload
  <2>2. bytes = V!VarS64Bytes(value) \o <<>>
    BY <1>0, <1>6, <2>1
  <2>3. Announces(V!VarS64Bytes(value), bytes, p)
    BY <1>0, <1>6, <2>1, <2>2, SignedNumber DEF Announces
  <2>. QED
    BY <1>5, <1>9, <2>3 DEF bytes
<1>10. CASE coding = "u64"
  <2>1. value \in Nat /\ Uint64(value) /\ bytes = V!VarU64Bytes(value)
    BY <1>10, CodingHolds DEF bytes, Payload
  <2>2. bytes = V!VarU64Bytes(value) \o <<>>
    BY <1>0, <1>6, <2>1
  <2>3. Announces(V!VarU64Bytes(value), bytes, p)
    BY <1>6, <1>8, <2>1, <2>2
  <2>. QED
    BY <1>5, <1>10, <2>3 DEF bytes
<1>11. CASE coding = "cstring"
  <2>. DEFINE v == Len(value) + 1
  <2>1. value \in Seq(UByte) /\ v \in Nat /\ Uint64(v) /\ bytes = V!VarU64Bytes(v) \o value \o <<0>>
    <3>1. value \in Seq(UByte) /\ Uint64(Len(value) + 1)
      BY <1>11, CodingHolds
    <3>2. bytes = Cstring(value)
      BY <1>11 DEF bytes, Payload
    <3>. QED
      BY <3>1, <3>2 DEF Cstring
  <2>2. V!VarU64Bytes(v) \in Seq(UByte)
    BY <2>1, UnsignedNumber
  <2>. HIDE DEF v
  <2>3. bytes = V!VarU64Bytes(v) \o (value \o <<0>>) /\ value \o <<0>> \in Seq(UByte)
    <3>1. value \o <<0>> \in Seq(UByte)
      BY <1>6, <1>7, <2>1, Zenon
    <3>2. (V!VarU64Bytes(v) \o value) \o <<0>> = V!VarU64Bytes(v) \o (value \o <<0>>)
      BY <1>6, <2>1, <2>2, Joining, Zenon
    <3>. QED
      BY <2>1, <3>1, <3>2, Zenon
  <2>4. Announces(V!VarU64Bytes(v), bytes, p)
    BY <1>8, <2>1, <2>3
  <2>. QED
    BY <1>5, <1>11, <2>4 DEF bytes
<1>12. CASE coding = "data"
  <2>. DEFINE v == Len(value)
  <2>1. value \in Seq(UByte) /\ v \in Nat /\ Uint64(v) /\ bytes = V!VarU64Bytes(v) \o value
    BY <1>12, CodingHolds DEF bytes, Payload, Data
  <2>. HIDE DEF v
  <2>2. Announces(V!VarU64Bytes(v), bytes, p)
    BY <1>8, <2>1
  <2>. QED
    BY <1>5, <1>12, <2>2 DEF bytes
<1>. QED
  BY <1>2, <1>3, <1>4, <1>9, <1>10, <1>11, <1>12, CodingHolds DEF bytes

LEMMA ByteRange ==
  ASSUME NEW x
  PROVE  x \in UByte <=> x \in Nat /\ x <= 255
BY DEF UByte

(* What dyp_next_type gives of any bytes. *)
LEMMA AnyMarker ==
  ASSUME NEW q \in Nat \ {0}, wire \in Seq(UByte), q <= Len(wire), q - 1 + WidthOf(wire[q]) <= Len(wire)
  PROVE  /\ TypdexAt(wire, q) \in [type : UByte, index : 0 .. MaxIndex, width : 0 .. 4]
         /\ WidthOf(wire[q]) \in 0 .. 4
<1>. DEFINE b == wire[q]
<1>1. b \in UByte /\ b \in Nat /\ b <= 255
  <2>1. b \in UByte
    OBVIOUS
  <2>. QED
    BY <2>1, ByteRange
<1>2. ASSUME NEW i \in 1 .. Len(wire)
      PROVE  wire[i] \in Nat /\ wire[i] <= 255
  <2>1. wire[i] \in UByte
    OBVIOUS
  <2>. QED
    BY <2>1, ByteRange
<1>3. WidthOf(b) \in 0 .. 4
  BY DEF WidthOf
<1>4. TypdexAt(wire, q).width = WidthOf(b)
  BY DEF TypdexAt
<1>5. ASSUME NEW t, NEW i, t \in UByte, i \in 0 .. MaxIndex, TypdexAt(wire, q) = [type |-> t, index |-> i, width |-> WidthOf(b)]
      PROVE  TypdexAt(wire, q) \in [type : UByte, index : 0 .. MaxIndex, width : 0 .. 4]
  <2>. HIDE DEF b
  <2>. QED
    BY <1>3, <1>5
<1>6. CASE WidthOf(b) = 1
  <2>1. TypdexAt(wire, q) = [type |-> b \div 8, index |-> b % 8, width |-> WidthOf(b)]
    BY <1>6 DEF TypdexAt
  <2>. HIDE DEF b
  <2>2. b \div 8 \in Nat /\ b \div 8 <= 255 /\ b % 8 \in 0 .. MaxIndex
    BY <1>1, MaxIndexBounds
  <2>3. b \div 8 \in UByte
    BY <2>2, ByteRange
  <2>. QED
    BY <1>5, <2>1, <2>2, <2>3 DEF b
<1>7. CASE WidthOf(b) = 2
  <2>. DEFINE x == wire[q + 1]
  <2>1. TypdexAt(wire, q) = [type |-> b - 128, index |-> x, width |-> WidthOf(b)]
    BY <1>7 DEF TypdexAt
  <2>2. x \in Nat /\ x <= 255
    <3>1. q + 1 \in 1 .. Len(wire)
      BY <1>7
    <3>. QED
      BY <1>2, <3>1
  <2>3. 128 <= b
    BY <1>1, <1>7 DEF WidthOf
  <2>. HIDE DEF b, x
  <2>4. b - 128 \in Nat /\ b - 128 <= 255 /\ x \in 0 .. MaxIndex
    BY <1>1, <2>2, <2>3, MaxIndexBounds
  <2>5. b - 128 \in UByte
    BY <2>4, ByteRange
  <2>. QED
    BY <1>5, <2>1, <2>4, <2>5 DEF b
<1>8. CASE WidthOf(b) = 3
  <2>. DEFINE x == wire[q + 1]
              y == wire[q + 2]
  <2>1. TypdexAt(wire, q) = [type |-> (b - 192) * 8 + (x \div 32), index |-> (x % 32) * 256 + y,
                             width |-> WidthOf(b)]
    BY <1>8 DEF TypdexAt
  <2>2. x \in Nat /\ x <= 255 /\ y \in Nat /\ y <= 255
    <3>1. q + 1 \in 1 .. Len(wire) /\ q + 2 \in 1 .. Len(wire)
      BY <1>8
    <3>. QED
      BY <1>2, <3>1
  <2>3. 192 <= b /\ b < 224
    BY <1>1, <1>8 DEF WidthOf
  <2>. HIDE DEF b, x, y
  <2>4. x \div 32 \in Nat /\ x \div 32 <= 7 /\ x % 32 \in Nat /\ x % 32 <= 31
    BY <2>2
  <2>5. (b - 192) * 8 + (x \div 32) \in UByte
    <3>. DEFINE t == (b - 192) * 8 + (x \div 32)
    <3>1. t \in Nat /\ t <= 255
      BY <1>1, <2>3, <2>4
    <3>. HIDE DEF t
    <3>2. t \in UByte
      BY <3>1, ByteRange
    <3>. QED
      BY <3>2 DEF t
  <2>6. (x % 32) * 256 + y \in 0 .. MaxIndex
    BY <2>2, <2>4, MaxIndexBounds
  <2>. QED
    BY <1>5, <2>1, <2>5, <2>6 DEF b
<1>9. CASE WidthOf(b) = 4
  <2>. DEFINE x == wire[q + 1]
              y == wire[q + 2]
              z == wire[q + 3]
  <2>1. TypdexAt(wire, q) = [type |-> (b - 224) * 16 + (x \div 16), 
                             index |-> (x % 16) * Word + y * 256 + z, width |-> WidthOf(b)]
    BY <1>9 DEF TypdexAt
  <2>2. x \in Nat /\ x <= 255 /\ y \in Nat /\ y <= 255 /\ z \in Nat /\ z <= 255
    <3>1. q + 1 \in 1 .. Len(wire) /\ q + 2 \in 1 .. Len(wire) /\ q + 3 \in 1 .. Len(wire)
      BY <1>9
    <3>. QED
      BY <1>2, <3>1
  <2>3. 224 <= b /\ b < 240
    BY <1>1, <1>9 DEF WidthOf
  <2>. HIDE DEF b, x, y, z
  <2>4. x \div 16 \in Nat /\ x \div 16 <= 15 /\ x % 16 \in Nat /\ x % 16 <= 15
    BY <2>2
  <2>5. (b - 224) * 16 + (x \div 16) \in UByte
    <3>. DEFINE t == (b - 224) * 16 + (x \div 16)
    <3>1. t \in Nat /\ t <= 255
      BY <1>1, <2>3, <2>4
    <3>. HIDE DEF t
    <3>2. t \in UByte
      BY <3>1, ByteRange
    <3>. QED
      BY <3>2 DEF t
  <2>6. (x % 16) * Word + y * 256 + z \in 0 .. MaxIndex
    <3>. DEFINE h == x % 16
    <3>1. h \in Nat /\ h <= 15
      BY <2>4
    <3>2. Word \in Nat /\ y * 256 + z \in Nat /\ y * 256 + z <= Word - 1
      BY <2>2 DEF Word
    <3>3. MaxIndex = 16 * Word - 1
      BY DEF MaxIndex
    <3>. HIDE DEF h
    <3>4. h * Word \in Nat /\ h * Word <= 15 * Word
      BY <3>1, <3>2
    <3>5. h * Word + y * 256 + z = h * Word + (y * 256 + z)
      BY <2>2, <3>4
    <3>. QED
      BY <3>2, <3>3, <3>4, <3>5 DEF h
  <2>. QED
    BY <1>5, <2>1, <2>5, <2>6 DEF b
<1>10. CASE WidthOf(b) = 0
  <2>1. TypdexAt(wire, q) = [type |-> b, index |-> 0, width |-> WidthOf(b)]
    BY <1>10 DEF TypdexAt
  <2>2. 0 \in 0 .. MaxIndex
    BY MaxIndexBounds
  <2>. QED
    BY <1>1, <1>5, <2>1, <2>2
<1>. QED
  BY <1>3, <1>6, <1>7, <1>8, <1>9, <1>10

-----------------------------------------------------------------------------
(* The inductive invariant.  The wire is the packet of the records written, *)
Packed ==
  /\ written \in Seq(Records)
  /\ \A j \in 1 .. Len(written) : written[j].index <= MaxIndex
  /\ wire = Packet(written, Len(written))
  /\ Uint32(Len(wire))
(* the reader starts when it is given a part of it, and is inside it until  *)
(* it has read bytes behind it,                                             *)
Listed == \E S : read \in Seq(S)
Given ==
  \/ limit = Null /\ position = 0 /\ read = <<>> /\ seen = Null /\ astray = FALSE
  \/ /\ limit \in 0 .. Len(wire) /\ position \in Nat /\ (~astray => position <= limit)
     /\ seen = Null \/ seen \in [type : UByte, index : 0 .. MaxIndex, width : 0 .. 4]
     /\ astray \in BOOLEAN /\ (astray => seen = Null)
     /\ Listed
(* and what it has read is one record for each written, in their order:     *)
InOrder(n) == \A j \in 1 .. n : read[j] = written[j]
(* it stands behind the last of them, and sees what is there;               *)
InFront ==
  /\ ~astray
  /\ Len(read) <= Len(written) /\ InOrder(Len(read))
  /\ position = Len(Packet(written, Len(read)))
  /\ seen # Null => position < limit /\ seen = TypdexAt(wire, position + 1)
(* or has overread one that was cut,                                        *)
Behind ==
  /\ astray /\ limit < Len(wire)
  /\ Len(read) <= Len(written) /\ InOrder(Len(read))
(* or has got the null of one that was cut, and then anything.              *)
NullAt(k) ==
  /\ k <= Len(written) /\ InOrder(k - 1)
  /\ read[k] = [written[k] EXCEPT !.value = Null]
AfterNull == limit < Len(wire) /\ \E k \in 1 .. Len(read) : NullAt(k)
IInv == Packed /\ Given /\ (InFront \/ Behind \/ AfterNull)

(* What a record of the writer is. *)
LEMMA RecordFacts ==
  ASSUME NEW record \in Records
  PROVE  /\ record = [type |-> record.type, index |-> record.index, value |-> record.value]
         /\ record.index \in Nat /\ record.value # Null
         /\ Holds(Coding(record.type, record.index), record.value)
         /\ record.type \in Nat /\ record.type < 256
         /\ [record EXCEPT !.value = Null] =
              [type |-> record.type, index |-> record.index, value |-> Null]
<1>1. /\ record = [type |-> record.type, index |-> record.index, value |-> record.value]
      /\ record.index \in Nat /\ record.value # Null
      /\ Holds(Coding(record.type, record.index), record.value)
  BY RecordsAssumption
<1>2. record.type \in {1, 2, 3, 6, 7, 10, 11, 15}
  <2>. SUFFICES ASSUME record.type \notin {1, 2, 3, 6, 7, 10, 11, 15} PROVE FALSE
    OBVIOUS
  <2>1. Coding(record.type, record.index) = "unknown"
    BY DEF Coding, dype_bool, dype_int, dype_uint, dype_float, dype_double, dype_string,
           dype_bytes, dype_f
  <2>2. ~Holds("unknown", record.value)
    BY DEF Holds
  <2>. QED
    BY <1>1, <2>1, <2>2
<1>3. record.type \in Nat /\ record.type < 256
  BY <1>2
<1>4. [record EXCEPT !.value = Null] =
        [type |-> record.type, index |-> record.index, value |-> Null]
  <2>1. ASSUME NEW t, NEW x, NEW v
        PROVE  [[type |-> t, index |-> x, value |-> v] EXCEPT !.value = Null]
                 = [type |-> t, index |-> x, value |-> Null]
    OBVIOUS
  <2>. QED
    BY <1>1, <2>1
<1>. QED
  BY <1>1, <1>3, <1>4

(* Its bytes are a marker and a payload. *)
LEMMA RecordIsSent ==
  ASSUME NEW record \in Records, record.index <= MaxIndex
  PROVE  /\ TypdexBytes(record.type, record.index) \in Seq(UByte)
         /\ Payload(Coding(record.type, record.index), record.value) \in Seq(UByte)
         /\ RecordBytes(record) \in Seq(UByte)
<1>1. TypdexBytes(record.type, record.index) \in Seq(UByte)
  BY RecordFacts, MarkerBytes
<1>2. Payload(Coding(record.type, record.index), record.value) \in Seq(UByte)
  BY RecordFacts, PayloadBytes
<1>3. \A a, b \in Seq(UByte) : a \o b \in Seq(UByte)
  OBVIOUS
<1>. QED
  BY <1>1, <1>2, <1>3 DEF RecordBytes

LEMMA WrittenIsSent ==
  ASSUME Packed
  PROVE  /\ Len(written) \in Nat /\ Sent(written) /\ written \in Seq(Records)
         /\ \A n \in 0 .. Len(written) : Packet(written, n) \in Seq(UByte)
         /\ wire \in Seq(UByte)
<1>1. Len(written) \in Nat /\ \A j \in 1 .. Len(written) : written[j] \in Records
  BY DEF Packed
<1>2. Sent(written)
  BY <1>1, RecordIsSent DEF Packed, Sent
<1>3. \A n \in 0 .. Len(written) : Packet(written, n) \in Seq(UByte)
  BY <1>1, <1>2, PacketBytes
<1>. QED
  BY <1>1, <1>2, <1>3 DEF Packed

(* A reader that has read nothing stands in front of the packet. *)
LEMMA ReaderStarts ==
  /\ read = <<>> /\ position = 0 /\ seen = Null /\ astray = FALSE /\ Len(written) \in Nat => InFront
  /\ read' = <<>> /\ position' = 0 /\ seen' = Null /\ astray' = FALSE /\ Len(written') \in Nat => InFront'
<1>1. Len(<<>>) = 0 /\ \A s : Len(Packet(s, 0)) = 0
  BY PacketOfNothing
<1>. QED
  BY <1>1 DEF InFront, InOrder

LEMMA InitHolds == Init => IInv
<1>. SUFFICES ASSUME Init PROVE IInv
  OBVIOUS
<1>1. /\ \A S : <<>> \in Seq(S)
      /\ Len(<<>>) = 0 /\ Len(<<>>) \in Nat
  OBVIOUS
<1>2. Packet(<<>>, 0) = <<>>
  BY PacketOfNothing
<1>3. Uint32(0)
  BY DEF Uint32, Word
<1>4. Packed
  BY <1>1, <1>2, <1>3 DEF Init, Packed
<1>5. Given
  BY DEF Init, Given
<1>6. InFront
  BY <1>1, ReaderStarts DEF Init
<1>. QED
  BY <1>4, <1>5, <1>6 DEF IInv

(* A record more is a packet more. *)
LEMMA AppendKeeps ==
  ASSUME IInv, NEW record \in Records, record.index <= MaxIndex, AppendRecord(record)
  PROVE  IInv'
<1>. DEFINE n == Len(written)
<1>1. /\ limit = Null /\ position = 0 /\ read = <<>> /\ seen = Null /\ astray = FALSE
      /\ limit' = limit /\ position' = position /\ read' = read /\ seen' = seen /\ astray' = astray
  BY RecordsAssumption DEF AppendRecord, reader, IInv, Given
<1>2. /\ written \in Seq(Records) /\ written' = Append(written, record) /\ n \in Nat
      /\ written' \in Seq(Records) /\ Len(written') = n + 1 /\ written'[n + 1] = record
      /\ \A j \in 1 .. n : written'[j] = written[j]
  BY DEF AppendRecord, IInv, Packed
<1>3. \A j \in 1 .. Len(written') : written'[j].index <= MaxIndex
  <2>1. \A j \in 1 .. n + 1 : j \in 1 .. n \/ j = n + 1
    BY <1>2
  <2>. QED
    BY <1>2, <2>1 DEF IInv, Packed
<1>4. /\ TypdexBytes(record.type, record.index) \in Seq(UByte)
      /\ Payload(Coding(record.type, record.index), record.value) \in Seq(UByte)
      /\ RecordBytes(record) \in Seq(UByte)
  BY RecordIsSent
<1>5. wire' = wire \o RecordBytes(record)
  <2>1. \A a, b, c \in Seq(UByte) : (a \o b) \o c = a \o (b \o c)
    OBVIOUS
  <2>2. wire \in Seq(UByte)
    BY WrittenIsSent DEF IInv
  <2>. QED
    BY <1>4, <2>1, <2>2 DEF AppendRecord, RecordBytes
<1>6. wire' = Packet(written', Len(written'))
  <2>1. Packet(written', n) = Packet(written, n)
    BY <1>2, PacketAgrees
  <2>2. Packet(written', n + 1) = Packet(written', n) \o RecordBytes(written'[n + 1])
    BY <1>2, <1>4, PacketStep
  <2>3. wire = Packet(written, n)
    BY DEF IInv, Packed
  <2>. QED
    BY <1>2, <1>5, <2>1, <2>2, <2>3
<1>7. Packed'
  BY <1>2, <1>3, <1>6 DEF Packed, AppendRecord
<1>8. Given'
  BY <1>1 DEF Given
<1>9. InFront'
  BY <1>1, <1>2, ReaderStarts DEF AppendRecord
<1>. QED
  BY <1>7, <1>8, <1>9 DEF IInv

LEMMA UnpackKeeps ==
  ASSUME IInv, NEW size \in 0 .. Len(wire), Unpack(size)
  PROVE  IInv'
<1>1. /\ position = 0 /\ read = <<>> /\ seen = Null /\ astray = FALSE /\ limit' = size
      /\ wire' = wire /\ written' = written /\ position' = position /\ read' = read
      /\ seen' = seen /\ astray' = astray
  BY RecordsAssumption DEF Unpack, reader, IInv, Given
<1>2. Packed' /\ Len(wire) \in Nat /\ Len(written) \in Nat
  BY <1>1, WrittenIsSent DEF IInv, Packed
<1>3. Given'
  <2>1. <<>> \in Seq({})
    OBVIOUS
  <2>2. Listed'
    BY <1>1, <2>1 DEF Listed
  <2>3. limit' \in 0 .. Len(wire') /\ position' \in Nat /\ position' <= limit'
    BY <1>1, <1>2
  <2>4. seen' = Null /\ astray' \in BOOLEAN /\ (astray' => seen' = Null)
    BY <1>1
  <2>. QED
    BY <2>2, <2>3, <2>4, Zenon DEF Given
<1>4. InFront'
  BY <1>1, <1>2, ReaderStarts
<1>. QED
  BY <1>2, <1>3, <1>4 DEF IInv

-----------------------------------------------------------------------------
(* A reader that is in front of a record finds its bytes there, though it   *)
(* may not have been given all of them.                                     *)
LEMMA InFrontOfRecord ==
  ASSUME IInv, InFront, limit # Null, Len(read) < Len(written)
  PROVE  LET n == Len(read)
             record == written[n + 1]
         IN  /\ n \in Nat /\ record \in Records /\ record.index <= MaxIndex
             /\ InOrder(n) /\ position \in Nat
             /\ limit \in 0 .. Len(wire) /\ position <= limit
             /\ wire \in Seq(UByte) /\ Uint32(Len(wire)) /\ Len(wire) \in Nat
             /\ StandsAt(RecordBytes(record), wire, position + 1)
             /\ position + Len(RecordBytes(record)) = Len(Packet(written, n + 1))
             /\ Len(Packet(written, n + 1)) <= Len(wire)
<1>. DEFINE n == Len(read)
            record == written[n + 1]
<1>1. /\ Len(written) \in Nat /\ written \in Seq(Records)
      /\ wire \in Seq(UByte) /\ Sent(written) /\ wire = Packet(written, Len(written))
      /\ \A m \in 0 .. Len(written) : Packet(written, m) \in Seq(UByte)
      /\ Uint32(Len(wire)) /\ Len(wire) \in Nat
  BY WrittenIsSent DEF IInv, Packed
<1>2. limit \in 0 .. Len(wire) /\ position \in Nat /\ position <= limit
  BY DEF IInv, Given, InFront
<1>4. n \in Nat /\ InOrder(n) /\ position = Len(Packet(written, n))
  <2>1. n \in Nat
    BY DEF IInv, Given, Listed
  <2>. QED
    BY <2>1 DEF InFront
<1>5. n < Len(written)
  OBVIOUS
<1>6. record \in Records /\ record.index <= MaxIndex
  <2>1. n + 1 \in 1 .. Len(written)
    BY <1>1, <1>4, <1>5
  <2>. QED
    BY <1>1, <2>1 DEF IInv, Packed
<1>. HIDE DEF n, record
<1>7. RecordBytes(record) \in Seq(UByte) /\ Packet(written, n) \in Seq(UByte)
  <2>1. n \in 0 .. Len(written)
    BY <1>1, <1>4, <1>5 DEF n
  <2>. QED
    BY <1>1, <1>6, <2>1, RecordIsSent
<1>8. Packet(written, n + 1) = Packet(written, n) \o RecordBytes(record)
  BY <1>4, <1>7, PacketStep DEF record
<1>9. BeginsWith(wire, Packet(written, n + 1))
  <2>1. n + 1 \in 0 .. Len(written) /\ Len(written) \in n + 1 .. Len(written)
    BY <1>1, <1>4, <1>5 DEF n
  <2>. QED
    BY <1>1, <2>1, PacketBegins
<1>10. ASSUME NEW a \in Seq(UByte), NEW b \in Seq(UByte), NEW t, BeginsWith(t, a \o b)
       PROVE  StandsAt(b, t, Len(a) + 1) /\ Len(a) + Len(b) = Len(a \o b) /\ Len(a \o b) <= Len(t)
  <2>1. ASSUME NEW j \in 1 .. Len(b) PROVE t[Len(a) + 1 + j - 1] = b[j]
    <3>. DEFINE k == Len(a) + j
    <3>1. k \in 1 .. Len(a \o b) /\ (a \o b)[k] = b[j] /\ Len(a) + 1 + j - 1 = k
      OBVIOUS
    <3>. HIDE DEF k
    <3>2. t[k] = (a \o b)[k]
      BY <1>10, <3>1 DEF BeginsWith
    <3>. QED
      BY <3>1, <3>2
  <2>. QED
    BY <1>10, <2>1 DEF StandsAt, BeginsWith
<1>11. /\ StandsAt(RecordBytes(record), wire, position + 1)
       /\ position + Len(RecordBytes(record)) = Len(Packet(written, n + 1))
       /\ Len(Packet(written, n + 1)) <= Len(wire)
  BY <1>4, <1>7, <1>8, <1>9, <1>10
<1>. QED
  BY <1>1, <1>2, <1>4, <1>5, <1>6, <1>11 DEF n, record

LEMMA RemainderIsRecord ==
  ASSUME IInv, InFront, limit # Null, position < limit
  PROVE  Len(read) < Len(written)
<1>1. Len(written) \in Nat /\ Len(wire) \in Nat /\ wire = Packet(written, Len(written))
  BY WrittenIsSent DEF IInv, Packed
<1>2. limit \in 0 .. Len(wire) /\ Len(read) \in Nat
  BY DEF IInv, Given, InFront, Listed
<1>3. Len(read) <= Len(written) /\ position = Len(Packet(written, Len(read)))
  BY DEF InFront
<1>. QED
  BY <1>1, <1>2, <1>3

(* It sees the marker of that record, and its payload is behind the marker. *)
LEMMA MarkerIsRead ==
  ASSUME IInv, InFront, limit # Null, Len(read) < Len(written)
  PROVE  LET record == written[Len(read) + 1]
             marker == TypdexAt(wire, position + 1)
             coding == Coding(record.type, record.index)
             p == position + marker.width
             payload == Payload(coding, record.value)
         IN  /\ marker.type = record.type /\ marker.index = record.index
             /\ marker.width = WidthOf(wire[position + 1]) /\ marker.width \in 1 .. 4
             /\ p \in Nat /\ Holds(coding, record.value)
             /\ StandsAt(payload, wire, p + 1)
             /\ p + Len(payload) = Len(Packet(written, Len(read) + 1))
             /\ p + Len(payload) <= Len(wire) /\ Len(payload) \in Nat
<1>. DEFINE record == written[Len(read) + 1]
            marker == TypdexAt(wire, position + 1)
            coding == Coding(record.type, record.index)
            p == position + marker.width
            head == TypdexBytes(record.type, record.index)
            payload == Payload(coding, record.value)
<1>1. /\ record \in Records /\ record.index <= MaxIndex
      /\ position \in Nat /\ limit \in 0 .. Len(wire) /\ wire \in Seq(UByte)
      /\ StandsAt(RecordBytes(record), wire, position + 1)
      /\ position + Len(RecordBytes(record)) = Len(Packet(written, Len(read) + 1))
      /\ Len(Packet(written, Len(read) + 1)) <= Len(wire)
  BY InFrontOfRecord
<1>. HIDE DEF record
<1>2. /\ head \in Seq(UByte) /\ payload \in Seq(UByte) /\ RecordBytes(record) = head \o payload
  BY <1>1, RecordIsSent DEF RecordBytes
<1>3. /\ record.index \in Nat /\ record.type \in Nat /\ record.type < 256
      /\ Holds(coding, record.value)
  BY <1>1, RecordFacts
<1>4. WidthOf(wire[position + 1]) = marker.width
  BY DEF TypdexAt
<1>. HIDE DEF head, payload, coding
<1>5. StandsAt(head, wire, position + 1) /\ StandsAt(payload, wire, position + 1 + Len(head))
  BY <1>1, <1>2, PartsStand
<1>6. /\ marker = [type |-> record.type, index |-> record.index,
                   width |-> Width(record.type, record.index)]
      /\ Len(head) = Width(record.type, record.index) /\ Len(head) \in 1 .. 4
  <2>1. ASSUME NEW type \in Nat, type < 256, NEW index \in Nat, index <= MaxIndex,
               NEW q \in Nat, StandsAt(TypdexBytes(type, index), wire, q)
        PROVE  /\ TypdexAt(wire, q) = [type |-> type, index |-> index, width |-> Width(type, index)]
               /\ Len(TypdexBytes(type, index)) = Width(type, index)
               /\ Width(type, index) \in 1 .. 4
    BY <2>1, TypdexRoundTrip
  <2>2. position + 1 \in Nat
    BY <1>1
  <2>. QED
    BY <1>1, <1>3, <1>5, <2>1, <2>2 DEF head
<1>7. marker.type = record.type /\ marker.index = record.index /\ marker.width = Len(head)
  BY <1>6
<1>. HIDE DEF marker
<1>8. Len(RecordBytes(record)) = Len(head) + Len(payload) /\ Len(head) \in Nat /\ Len(payload) \in Nat
  BY <1>2
<1>9. /\ p \in Nat /\ p + Len(payload) = Len(Packet(written, Len(read) + 1))
      /\ position + 1 + Len(head) = p + 1
  BY <1>1, <1>7, <1>8
<1>10. StandsAt(payload, wire, p + 1) /\ p + Len(payload) <= Len(wire)
  BY <1>1, <1>5, <1>9
<1>11. marker.width \in 1 .. 4 /\ marker.width = WidthOf(wire[position + 1])
  BY <1>4, <1>6, <1>7
<1>. QED
  BY <1>3, <1>7, <1>8, <1>9, <1>10, <1>11 DEF record, marker, coding, payload

-----------------------------------------------------------------------------
(* What a reader has got it keeps. *)
Kept ==
  /\ wire' = wire /\ written' = written /\ limit' = limit
  /\ Len(read) \in Nat /\ Len(read') \in Nat /\ Len(read) <= Len(read')
  /\ \A j \in 1 .. Len(read) : read'[j] = read[j]

LEMMA AfterNullStays ==
  ASSUME AfterNull, Kept
  PROVE  AfterNull'
<1>1. PICK k \in 1 .. Len(read) : NullAt(k)
  BY DEF AfterNull
<1>2. k \in 1 .. Len(read') /\ \A j \in 1 .. k - 1 : j \in 1 .. Len(read)
  BY DEF Kept
<1>3. NullAt(k)'
  <2>1. k <= Len(written') /\ read'[k] = [written'[k] EXCEPT !.value = Null]
    BY <1>1 DEF Kept, NullAt
  <2>2. \A j \in 1 .. k - 1 : read'[j] = written'[j]
    BY <1>1, <1>2 DEF Kept, NullAt, InOrder
  <2>. QED
    BY <2>1, <2>2 DEF NullAt, InOrder
<1>4. limit' < Len(wire')
  BY DEF AfterNull, Kept
<1>. QED
  BY <1>2, <1>3, <1>4 DEF AfterNull

LEMMA ReaderFacts ==
  ASSUME IInv, limit # Null
  PROVE  /\ wire \in Seq(UByte) /\ Uint32(Len(wire)) /\ Len(wire) \in Nat
         /\ limit \in 0 .. Len(wire) /\ limit \in Nat
         /\ position \in Nat /\ (~astray => position <= limit)
         /\ astray \in BOOLEAN /\ (astray => seen = Null)
         /\ Len(read) \in Nat /\ Listed
<1>1. wire \in Seq(UByte) /\ Uint32(Len(wire))
  BY WrittenIsSent DEF IInv, Packed
<1>2. /\ limit \in 0 .. Len(wire) /\ position \in Nat /\ (~astray => position <= limit)
      /\ astray \in BOOLEAN /\ (astray => seen = Null) /\ Listed
  BY DEF IInv, Given
<1>3. Len(wire) \in Nat /\ Len(read) \in Nat
  BY <1>1, <1>2 DEF Listed
<1>. QED
  BY <1>1, <1>2, <1>3

(* Whatever it reads, a dyp_next_ function stays inside what was given, or  *)
(* is astray.                                                               *)
LEMMA NextRecordKeeps ==
  ASSUME IInv, limit # Null, ~astray, NEW type, NEW coding \in Codings, NextRecord(type, coding)
  PROVE  Packed' /\ Given' /\ Kept
<1>1. /\ wire \in Seq(UByte) /\ Uint32(Len(wire)) /\ Len(wire) \in Nat
      /\ limit \in 0 .. Len(wire) /\ limit \in Nat /\ position \in Nat /\ position <= limit
      /\ Len(read) \in Nat
  BY ReaderFacts
<1>2. wire' = wire /\ written' = written /\ limit' = limit /\ seen' = Null
  BY DEF NextRecord
<1>3. PICK w \in MarkerWidths : \E n \in PayloadWidths(coding, position + w) :
        IF position < limit /\ position + w + n <= limit
        THEN ReadPayload(type, coding, position + w)
        ELSE Overread(position + w + n)
  BY DEF NextRecord
<1>4. w \in Nat
  BY DEF MarkerWidths, WidthOf
<1>. DEFINE p == position + w
<1>5. PICK n \in PayloadWidths(coding, p) :
        IF position < limit /\ p + n <= limit THEN ReadPayload(type, coding, p) ELSE Overread(p + n)
  BY <1>3
<1>6. p \in Nat
  BY <1>1, <1>4
<1>. HIDE DEF p
<1>7. n \in Nat
  BY <1>1, <1>6, WidthsAreNatural
<1>8. Listed
  BY ReaderFacts
<1>9. ASSUME NEW x, read' = Append(read, x)
      PROVE  Kept /\ Listed'
  <2>1. Listed' /\ Len(read') = Len(read) + 1
        /\ \A j \in 1 .. Len(read) : read'[j] = read[j]
    <3>1. PICK S : read \in Seq(S)
      BY <1>8 DEF Listed
    <3>2. read' \in Seq(S \cup {x})
      BY <1>9, <3>1
    <3>3. Listed'
      BY <3>2 DEF Listed
    <3>. QED
      BY <1>9, <3>1, <3>3
  <2>. QED
    BY <1>1, <1>2, <2>1 DEF Kept
<1>10. Packed'
  BY <1>2 DEF IInv, Packed
<1>11. CASE position < limit /\ p + n <= limit
  <2>1. position' \in 0 .. limit
    BY <1>1, <1>5, <1>6, <1>11, EndInside DEF ReadPayload
  <2>2. Kept /\ Listed'
    BY <1>5, <1>9, <1>11 DEF ReadPayload
  <2>3. astray' \in BOOLEAN
    BY <1>5, <1>11 DEF ReadPayload
  <2>4. position' \in Nat /\ position' <= limit
    BY <1>1, <2>1
  <2>5. Given'
    BY <1>1, <1>2, <2>2, <2>3, <2>4 DEF Given
  <2>. QED
    BY <1>10, <2>2, <2>5
<1>12. CASE ~(position < limit /\ p + n <= limit)
  <2>1. position' = p + n /\ astray' = TRUE /\ read' = read
    BY <1>5, <1>12 DEF Overread
  <2>2. position' \in Nat
    BY <1>6, <1>7, <2>1
  <2>3. Kept
    BY <1>1, <1>2, <2>1 DEF Kept
  <2>4. Listed'
    BY <1>8, <2>1 DEF Listed
  <2>5. Given'
    BY <1>1, <1>2, <2>1, <2>2, <2>4 DEF Given
  <2>. QED
    BY <1>10, <2>3, <2>5
<1>. QED
  BY <1>11, <1>12

(* In front of a record it makes of that the record, or its null or reads   *)
(* behind the limit if it was cut.                                          *)
LEMMA NextRecordInFront ==
  ASSUME IInv, InFront, limit # Null, Len(read) < Len(written),
         LET record == written[Len(read) + 1]
         IN  NextRecord(record.type, Coding(record.type, record.index))
  PROVE  IInv'
<1>0. PICK m \in Nat : m = Len(read)
  BY ReaderFacts
<1>. DEFINE record == written[m + 1]
            coding == Coding(record.type, record.index)
            marker == TypdexAt(wire, position + 1)
            p == position + marker.width
            payload == PayloadAt(coding, p)
            length == Len(Payload(coding, record.value))
            got == [type |-> record.type, index |-> marker.index, value |-> payload.value]
<1>1. /\ m \in Nat /\ record \in Records /\ InOrder(m) /\ position \in Nat
      /\ limit \in 0 .. Len(wire) /\ position <= limit /\ limit \in Nat
      /\ wire \in Seq(UByte) /\ Uint32(Len(wire)) /\ Len(wire) \in Nat
      /\ Len(Packet(written, m + 1)) <= Len(wire) /\ Len(written) \in Nat
  BY <1>0, InFrontOfRecord, WrittenIsSent DEF IInv
<1>2. /\ marker.index = record.index /\ marker.width = WidthOf(wire[position + 1])
      /\ marker.width \in 1 .. 4 /\ p \in Nat /\ Holds(coding, record.value)
      /\ StandsAt(Payload(coding, record.value), wire, p + 1)
      /\ p + length = Len(Packet(written, m + 1)) /\ p + length <= Len(wire) /\ length \in Nat
  BY <1>0, MarkerIsRead
<1>3. coding \in Codings
  BY <1>2, CodingHolds DEF Codings
<1>4. ~astray /\ NextRecord(record.type, coding)
  BY <1>0 DEF InFront
<1>12. position < p
  <2>. HIDE DEF marker
  <2>1. PICK k \in 1 .. 4 : k = marker.width
    BY <1>2
  <2>2. PICK x \in Nat : x = position
    BY <1>1
  <2>3. x < x + k
    OBVIOUS
  <2>. QED
    BY <2>1, <2>2, <2>3
<1>. HIDE DEF record, coding
<1>5. Packed' /\ Given' /\ Kept
  BY <1>3, <1>4, NextRecordKeeps
<1>6. PICK w \in MarkerWidths : \E n \in PayloadWidths(coding, position + w) :
        IF position < limit /\ position + w + n <= limit
        THEN ReadPayload(record.type, coding, position + w)
        ELSE Overread(position + w + n)
  BY <1>4 DEF NextRecord
<1>7. PICK n \in PayloadWidths(coding, position + w) :
        IF position < limit /\ position + w + n <= limit
        THEN ReadPayload(record.type, coding, position + w)
        ELSE Overread(position + w + n)
  BY <1>6
<1>8. position < limit => position + w = p
  BY <1>2 DEF MarkerWidths
<1>9. seen' = Null
  BY <1>4 DEF NextRecord
<1>. HIDE DEF marker, p
<1>10. CASE position < limit /\ p + n <= limit
  <2>1. ReadPayload(record.type, coding, p) /\ n \in PayloadWidths(coding, p)
    BY <1>7, <1>8, <1>10
  <2>2. Arrived(coding, p)
    BY <1>1, <1>2, <1>3, <1>10, <2>1, WidthArrived
  <2>3. n \in Nat
    BY <1>1, <1>2, <1>3, <2>1, WidthsAreNatural
  <2>4. p \in 0 .. limit
    BY <1>1, <1>2, <1>10, <2>3
  <2>5. Stands(coding, record.value, p)
    BY <1>1, <1>2, <2>2, <2>4 DEF Stands
  <2>6. Got(coding, record.value, p)
    BY <2>5, PayloadIsRead
  <2>7. position' = Uint(payload.end) /\ read' = Append(read, got)
        /\ astray' = (payload.end # Uint(payload.end))
    BY <2>1 DEF ReadPayload, marker
  <2>. HIDE DEF got, payload
  <2>8. read'[m + 1] = got /\ Len(read') = m + 1 /\ \A j \in 1 .. m : read'[j] = read[j]
    <3>1. PICK S : read \in Seq(S)
      BY ReaderFacts DEF Listed
    <3>. QED
      BY <1>0, <2>7, <3>1
  <2>9. InOrder(m)'
    BY <1>0, <1>1, <1>5, <2>8 DEF InOrder, Kept
  <2>10. CASE GotWhole(coding, record.value, p)
    <3>1. payload.value = record.value /\ payload.end = p + length /\ p + length <= limit
      BY <2>10 DEF GotWhole, payload
    <3>2. Uint(p + length) = p + length
      <4>1. p + length \in Nat
        BY <1>2
      <4>2. Uint32(p + length)
        BY <1>1, <1>2, <4>1, UintFacts
      <4>. QED
        BY <4>1, <4>2, UintFacts
    <3>3. got = record
      BY <1>1, <1>2, <3>1, RecordFacts DEF got
    <3>4. InOrder(m + 1)'
      <4>1. \A j \in 1 .. m + 1 : j \in 1 .. m \/ j = m + 1
        BY <1>1
      <4>2. read'[m + 1] = written'[m + 1]
        BY <1>5, <2>8, <3>3 DEF Kept, record
      <4>. QED
        BY <2>9, <4>1, <4>2 DEF InOrder
    <3>5. position' = Len(Packet(written, m + 1)) /\ astray' = FALSE
      BY <1>2, <2>7, <3>1, <3>2
    <3>6. m + 1 <= Len(written')
      BY <1>0, <1>1, <1>5 DEF Kept
    <3>7. InFront'
      BY <1>5, <1>9, <2>8, <3>4, <3>5, <3>6 DEF InFront, Kept
    <3>. QED
      BY <1>5, <3>7 DEF IInv
  <2>11. CASE GotNull(coding, record.value, p)
    <3>1. payload.value = Null /\ limit < p + length
      BY <2>11 DEF GotNull, payload
    <3>2. got = [record EXCEPT !.value = Null]
      BY <1>1, <1>2, <3>1, RecordFacts DEF got
    <3>3. NullAt(m + 1)'
      <4>1. m + 1 - 1 = m /\ m + 1 <= Len(written')
        BY <1>0, <1>1, <1>5 DEF Kept
      <4>2. read'[m + 1] = [written'[m + 1] EXCEPT !.value = Null]
        BY <1>5, <2>8, <3>2 DEF Kept, record
      <4>. QED
        BY <2>9, <4>1, <4>2 DEF NullAt
    <3>4. limit' < Len(wire')
      BY <1>1, <1>2, <1>5, <3>1 DEF Kept
    <3>5. m + 1 \in 1 .. Len(read')
      BY <1>1, <2>8
    <3>6. AfterNull'
      BY <3>3, <3>4, <3>5 DEF AfterNull
    <3>. QED
      BY <1>5, <3>6 DEF IInv
  <2>. QED
    BY <2>6, <2>10, <2>11 DEF Got
<1>11. CASE ~(position < limit /\ p + n <= limit)
  <2>1. astray' = TRUE /\ read' = read
    BY <1>7, <1>8, <1>11 DEF Overread
  <2>2. limit < Len(wire)
    <3>1. CASE position < limit
      <4>1. n \in PayloadWidths(coding, p)
        BY <1>7, <1>8, <3>1
      <4>2. n \in Nat
        BY <1>1, <1>2, <1>3, <4>1, WidthsAreNatural
      <4>3. p + n > limit
        BY <1>1, <1>2, <1>11, <3>1, <4>2
      <4>4. limit < p + length
        BY <1>1, <1>2, <4>1, <4>3, CutIsMissing
      <4>. QED
        BY <1>1, <1>2, <4>4
    <3>2. CASE ~(position < limit)
      BY <1>1, <1>2, <1>12, <3>2
    <3>. QED
      BY <3>1, <3>2
  <2>3. Behind'
    BY <1>0, <1>1, <1>5, <2>1, <2>2 DEF Behind, Kept, InOrder
  <2>. QED
    BY <1>5, <2>3 DEF IInv
<1>. QED
  BY <1>10, <1>11

(* Behind the null of a record that was cut it may make anything of what    *)
(* it reads.                                                                *)
LEMMA NextRecordAfterNull ==
  ASSUME IInv, AfterNull, limit # Null, ~astray, NEW type, NEW coding \in Codings,
         NextRecord(type, coding)
  PROVE  IInv'
BY NextRecordKeeps, AfterNullStays DEF IInv

LEMMA NextTypeKeeps ==
  ASSUME IInv, NextType
  PROVE  IInv'
<1>1. limit # Null /\ ~astray /\ seen = Null /\ limit - position > 0
      /\ wire' = wire /\ written' = written /\ limit' = limit /\ position' = position /\ read' = read
  BY DEF NextType, Reading
<1>2. /\ wire \in Seq(UByte) /\ Len(wire) \in Nat
      /\ limit \in 0 .. Len(wire) /\ limit \in Nat /\ position \in Nat /\ position < limit
      /\ Len(read) \in Nat /\ Listed
  <2>1. /\ wire \in Seq(UByte) /\ Len(wire) \in Nat
        /\ limit \in 0 .. Len(wire) /\ limit \in Nat /\ position \in Nat
        /\ Len(read) \in Nat /\ Listed
    BY <1>1, ReaderFacts
  <2>. QED
    BY <1>1, <2>1
<1>3. Packed' /\ Kept
  BY <1>1, <1>2 DEF IInv, Packed, Kept
<1>. DEFINE marker == TypdexAt(wire, position + 1)
            w == WidthOf(wire[position + 1])
<1>4. w \in Nat
  BY DEF WidthOf
<1>5. CASE position + w <= limit
  <2>1. seen' = marker /\ astray' = astray
    BY <1>5 DEF NextType
  <2>2. marker \in [type : UByte, index : 0 .. MaxIndex, width : 0 .. 4]
    <3>1. position + 1 \in Nat \ {0} /\ position + 1 <= Len(wire) /\ position + 1 - 1 = position
      BY <1>2
    <3>2. position + 1 - 1 + w <= Len(wire)
      BY <1>2, <1>4, <1>5, <3>1
    <3>. HIDE DEF w
    <3>. QED
      BY <1>2, <3>1, <3>2, AnyMarker DEF w
  <2>. HIDE DEF marker, w
  <2>3. Given'
    <3>1. Listed' /\ astray' \in BOOLEAN /\ ~astray'
      BY <1>1, <1>2, <2>1, ReaderFacts DEF Listed
    <3>2. limit' \in 0 .. Len(wire') /\ position' \in Nat /\ position' <= limit'
      BY <1>1, <1>2
    <3>. QED
      BY <2>1, <2>2, <3>1, <3>2 DEF Given
  <2>4. CASE InFront
    <3>1. InFront'
      BY <1>1, <1>2, <2>1, <2>4 DEF InFront, InOrder, marker
    <3>. QED
      BY <1>3, <2>3, <3>1 DEF IInv
  <2>5. CASE AfterNull
    BY <1>3, <2>3, <2>5, AfterNullStays DEF IInv
  <2>. QED
    BY <1>1, <2>4, <2>5 DEF IInv, Behind
<1>6. CASE ~(position + w <= limit)
  <2>1. seen' = seen /\ astray' = TRUE
    BY <1>6 DEF NextType
  <2>2. Given'
    BY <1>1, <1>2, <2>1 DEF Given, Listed
  <2>3. CASE InFront
    <3>1. Len(read) < Len(written)
      BY <1>1, <1>2, <2>3, RemainderIsRecord
    <3>. DEFINE record == written[Len(read) + 1]
                length == Len(Payload(Coding(record.type, record.index), record.value))
    <3>2. marker.width = w /\ position + marker.width + length <= Len(wire) /\ length \in Nat
      BY <1>1, <2>3, <3>1, MarkerIsRead
    <3>. HIDE DEF length, marker, w
    <3>3. limit < Len(wire)
      BY <1>2, <1>4, <1>6, <3>2
    <3>4. Behind'
      BY <1>1, <2>1, <2>3, <3>3 DEF Behind, InFront, InOrder
    <3>. QED
      BY <1>3, <2>2, <3>4 DEF IInv
  <2>4. CASE AfterNull
    BY <1>3, <2>2, <2>4, AfterNullStays DEF IInv
  <2>. QED
    BY <1>1, <2>3, <2>4 DEF IInv, Behind
<1>. QED
  BY <1>5, <1>6

LEMMA ReadByTypeKeeps ==
  ASSUME IInv, ReadByType
  PROVE  IInv'
<1>. DEFINE coding == Coding(seen.type, seen.index)
<1>1. seen # Null /\ limit # Null
  BY RecordsAssumption DEF ReadByType, IInv, Given
<1>2. Len(read) \in Nat
  BY <1>1, ReaderFacts
<1>3. CASE coding \in Cases
  <2>1. NextRecord(seen.type, coding) /\ coding \in Codings
    BY <1>3 DEF ReadByType, Cases, Codings
  <2>2. CASE InFront
    <3>1. position < limit /\ seen = TypdexAt(wire, position + 1)
      BY <1>1, <2>2 DEF InFront
    <3>2. Len(read) < Len(written)
      BY <1>1, <2>2, <3>1, RemainderIsRecord
    <3>. DEFINE record == written[Len(read) + 1]
    <3>3. seen.type = record.type /\ seen.index = record.index
      BY <1>1, <2>2, <3>1, <3>2, MarkerIsRead
    <3>4. NextRecord(record.type, Coding(record.type, record.index))
      BY <2>1, <3>3
    <3>. QED
      BY <1>1, <2>2, <3>2, <3>4, NextRecordInFront
  <2>3. CASE AfterNull /\ ~astray
    <3>. HIDE DEF coding
    <3>. QED
      BY <1>1, <2>1, <2>3, NextRecordAfterNull
  <2>4. ~astray
    BY <1>1, ReaderFacts
  <2>. QED
    BY <2>2, <2>3, <2>4 DEF IInv, Behind
<1>4. CASE coding \notin Cases
  <2>1. seen' = Null /\ UNCHANGED <<wire, written, limit, position, read, astray>>
    BY <1>4 DEF ReadByType
  <2>2. Packed' /\ Given'
    BY <1>1, <2>1 DEF IInv, Packed, Given, Listed
  <2>3. Kept
    BY <1>2, <2>1 DEF Kept
  <2>4. InFront => InFront'
    BY <2>1 DEF InFront, InOrder
  <2>5. Behind => Behind'
    BY <2>1 DEF Behind, InOrder
  <2>6. AfterNull => AfterNull'
    BY <2>3, AfterNullStays
  <2>. QED
    BY <2>2, <2>4, <2>5, <2>6 DEF IInv
<1>. QED
  BY <1>3, <1>4

LEMMA ReadInOrderKeeps ==
  ASSUME IInv, ReadInOrder
  PROVE  IInv'
<1>. DEFINE record == written[Len(read) + 1]
            coding == Coding(record.type, record.index)
<1>1. limit # Null /\ ~astray /\ Len(read) < Len(written) /\ NextRecord(record.type, coding)
  BY DEF ReadInOrder, Reading
<1>2. coding \in Codings
  <2>1. Len(read) \in Nat /\ Len(written) \in Nat /\ written \in Seq(Records)
    BY <1>1, ReaderFacts, WrittenIsSent DEF IInv
  <2>2. record \in Records
    BY <1>1, <2>1
  <2>. QED
    BY <2>2, RecordFacts, CodingHolds DEF Codings
<1>3. CASE InFront
  BY <1>1, <1>3, NextRecordInFront
<1>4. CASE AfterNull
  <2>. HIDE DEF coding
  <2>. QED
    BY <1>1, <1>2, <1>4, NextRecordAfterNull
<1>. QED
  BY <1>1, <1>3, <1>4 DEF IInv, Behind

LEMMA StepKeeps == IInv /\ [Next]_vars => IInv'
<1>. SUFFICES ASSUME IInv, [Next]_vars PROVE IInv'
  OBVIOUS
<1>1. ASSUME NEW record \in Records, record.index <= MaxIndex, AppendRecord(record) PROVE IInv'
  BY <1>1, AppendKeeps
<1>2. ASSUME NEW size \in 0 .. Len(wire), Unpack(size) PROVE IInv'
  BY <1>2, UnpackKeeps
<1>3. CASE NextType
  BY <1>3, NextTypeKeeps
<1>4. CASE ReadByType
  BY <1>4, ReadByTypeKeeps
<1>5. CASE ReadInOrder
  BY <1>5, ReadInOrderKeeps
<1>6. CASE UNCHANGED vars
  BY <1>6 DEF vars, reader, IInv, Packed, Given, Listed, InFront, Behind, AfterNull, NullAt, InOrder
<1>. QED
  BY <1>1, <1>2, <1>3, <1>4, <1>5, <1>6 DEF Next, Loop, Pack

-----------------------------------------------------------------------------
(* The wire holds bytes, what is written are records, and the reader leaves *)
(* what it was given only by reading bytes behind it: dyp_append_* and      *)
(* dyp_next_* of c/dypkt.h.                                                 *)
LEMMA InvariantGivesType == IInv => TypeOK
<1>. SUFFICES ASSUME IInv PROVE TypeOK
  OBVIOUS
<1>1. wire \in Seq(UByte) /\ written \in Seq(Records)
  BY WrittenIsSent DEF IInv, Packed
<1>2. Null \notin Nat /\ Len(wire) \in Nat
  BY <1>1, RecordsAssumption
<1>3. CASE limit = Null /\ position = 0 /\ read = <<>> /\ seen = Null /\ astray = FALSE
  <2>1. limit = Null /\ position = 0 /\ seen = Null /\ astray = FALSE
    BY <1>3
  <2>2. position \in Nat /\ position <= 0
    BY <2>1
  <2>3. position <= (IF limit = Null THEN 0 ELSE limit)
    BY <2>1, <2>2, Zenon
  <2>4. astray \in BOOLEAN
    BY <2>1, Zenon
  <2>. QED
    BY <1>1, <2>1, <2>2, <2>3, <2>4, Zenon DEF TypeOK
<1>4. CASE ~(limit = Null /\ position = 0 /\ read = <<>> /\ seen = Null /\ astray = FALSE)
  <2>1. /\ limit \in 0 .. Len(wire) /\ position \in Nat /\ (~astray => position <= limit)
        /\ seen = Null \/ seen \in [type : UByte, index : 0 .. MaxIndex, width : 0 .. 4]
        /\ astray \in BOOLEAN
    BY <1>4 DEF IInv, Given
  <2>2. limit # Null
    BY <1>2, <2>1
  <2>. QED
    BY <1>1, <2>1, <2>2 DEF TypeOK
<1>. QED
  BY <1>3, <1>4

THEOREM TypeCorrect == Spec => []TypeOK
<1>. QED
  BY InitHolds, StepKeeps, InvariantGivesType, PTL DEF Spec

(* A record that was read with its value is not the null of any.            *)
LEMMA NullIsNoValue ==
  ASSUME IInv, NEW k \in 1 .. Len(written), NullAt(k)
  PROVE  read[k].value = Null
<1>1. written[k] \in Records
  BY DEF IInv, Packed
<1>2. read[k] = [type |-> written[k].type, index |-> written[k].index, value |-> Null]
  BY <1>1, RecordFacts DEF NullAt
<1>. QED
  BY <1>2

(* Whatever records are packed, wherever the packet is cut, and whatever    *)
(* the bytes behind the cut hold, reading by type or in order (c/main.c,    *)
(* c/README.md) gives back the records in the order they were appended up   *)
(* to the null of a block that was cut; a packet that arrived whole gives   *)
(* no null and leads to no byte behind it.                                  *)
LEMMA InvariantGivesPrefix == IInv => ReadIsPrefix
<1>. SUFFICES ASSUME IInv PROVE ReadIsPrefix
  OBVIOUS
<1>1. Len(written) \in Nat /\ Len(read) \in Nat
  <2>1. Len(read) \in Nat
    BY DEF IInv, Given, Listed
  <2>. QED
    BY <2>1, WrittenIsSent DEF IInv
<1>2. ASSUME Len(read) <= Len(written), InOrder(Len(read)), NEW j \in 1 .. Len(read)
      PROVE  j <= Len(written) /\ read[j] = written[j]
  BY <1>1, <1>2 DEF InOrder
<1>3. CASE InFront
  BY <1>2, <1>3 DEF InFront, ReadIsPrefix
<1>4. CASE Behind
  BY <1>2, <1>4 DEF Behind, ReadIsPrefix
<1>5. CASE AfterNull
  <2>1. PICK k \in 1 .. Len(read) : NullAt(k)
    BY <1>5 DEF AfterNull
  <2>2. k \in 1 .. Len(written) /\ k <= Len(written) /\ InOrder(k - 1)
        /\ read[k] = [written[k] EXCEPT !.value = Null]
    BY <1>1, <2>1 DEF NullAt
  <2>3. read[k].value = Null
    BY <2>1, <2>2, NullIsNoValue
  <2>4. ASSUME NEW j \in 1 .. Len(read), \A i \in 1 .. j - 1 : read[i].value # Null
        PROVE  /\ j <= Len(written)
               /\ \/ read[j] = written[j]
                  \/ limit < Len(wire) /\ read[j] = [written[j] EXCEPT !.value = Null]
    <3>1. CASE j = k
      BY <1>5, <2>2, <3>1 DEF AfterNull
    <3>2. CASE j < k
      <4>1. j \in 1 .. k - 1 /\ j <= Len(written)
        BY <1>1, <2>2, <3>2
      <4>. QED
        BY <2>2, <4>1 DEF InOrder
    <3>3. CASE k < j
      <4>1. k \in 1 .. j - 1
        BY <1>1, <3>3
      <4>. QED
        BY <2>3, <2>4, <4>1
    <3>. QED
      BY <1>1, <3>1, <3>2, <3>3
  <2>5. limit < Len(wire)
    BY <1>5 DEF AfterNull
  <2>. QED
    BY <2>4, <2>5 DEF ReadIsPrefix
<1>. QED
  BY <1>3, <1>4, <1>5 DEF IInv

THEOREM ReadIsPrefixAlways == Spec => []ReadIsPrefix
<1>. QED
  BY InitHolds, StepKeeps, InvariantGivesPrefix, PTL DEF Spec

(* After every whole record the reader stands behind exactly the bytes that *)
(* dyp_append_* wrote for the records read: markers, lengths and payloads   *)
(* leave no slack.                                                          *)
LEMMA InvariantGivesBoundary == IInv => AtRecordBoundary
<1>. SUFFICES ASSUME IInv, ~astray, \A j \in 1 .. Len(read) : read[j].value # Null
              PROVE  SubSeq(wire, 1, position) = Packet(written, Len(read))
  BY DEF AtRecordBoundary, Packet, RecordBytes
<1>. DEFINE n == Len(read)
            part == Packet(written, n)
<1>0. ~AfterNull
  <2>1. ASSUME NEW k \in 1 .. Len(read), NullAt(k) PROVE FALSE
    <3>1. Len(written) \in Nat /\ Len(read) \in Nat
      BY WrittenIsSent DEF IInv, Given, Listed
    <3>2. k \in 1 .. Len(written)
      BY <2>1, <3>1 DEF NullAt
    <3>. QED
      BY <2>1, <3>2, NullIsNoValue
  <2>. QED
    BY <2>1 DEF AfterNull
<1>2. InFront
  BY <1>0 DEF IInv, Behind
<1>1. /\ n \in Nat /\ n <= Len(written) /\ Len(written) \in Nat /\ Sent(written)
      /\ wire \in Seq(UByte) /\ part \in Seq(UByte) /\ wire = Packet(written, Len(written))
      /\ written \in Seq(Records)
  <2>1. n \in Nat
    BY DEF IInv, Given, Listed
  <2>2. n <= Len(written)
    BY <1>2 DEF InFront
  <2>3. /\ Len(written) \in Nat /\ Sent(written) /\ written \in Seq(Records)
        /\ wire \in Seq(UByte) /\ wire = Packet(written, Len(written))
        /\ \A m \in 0 .. Len(written) : Packet(written, m) \in Seq(UByte)
    BY WrittenIsSent DEF IInv, Packed
  <2>4. n \in 0 .. Len(written)
    BY <2>1, <2>2, <2>3
  <2>. QED
    BY <2>1, <2>2, <2>3, <2>4
<1>3. position = Len(part)
  BY <1>2 DEF InFront
<1>4. BeginsWith(wire, part)
  <2>1. n \in 0 .. Len(written) /\ Len(written) \in n .. Len(written)
    BY <1>1
  <2>. HIDE DEF n
  <2>. QED
    BY <1>1, <2>1, PacketBegins
<1>. HIDE DEF part, n
<1>5. StandsAt(part, wire, 0 + 1) /\ 0 + Len(part) <= Len(wire)
  <2>1. \A j \in 1 .. Len(part) : 0 + 1 + j - 1 = j
    OBVIOUS
  <2>. QED
    BY <1>1, <1>4, <2>1 DEF BeginsWith, StandsAt
<1>6. SubSeq(wire, 0 + 1, 0 + Len(part)) = part
  BY <1>1, <1>5, PartIsCut
<1>7. 0 + 1 = 1 /\ 0 + Len(part) = position
  BY <1>1, <1>3
<1>. QED
  BY <1>6, <1>7 DEF part, n

THEOREM BoundaryAlways == Spec => []AtRecordBoundary
<1>. QED
  BY InitHolds, StepKeeps, InvariantGivesBoundary, PTL DEF Spec

=============================================================================
