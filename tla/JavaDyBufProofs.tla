--------------------------- MODULE JavaDyBufProofs ---------------------------
(***************************************************************************)
(* Proofs about the Java buffer of module JavaDyBuf, for every width of a  *)
(* byte, every unit of its arrays and every bound: the fields keep their   *)
(* types and the order of the cursors, also when a call throws halfway,    *)
(* the buffer implements the tape with coded blocks, and what is sealed    *)
(* with a checksum and a mask opens to what it was.                        *)
(***************************************************************************)
EXTENDS JavaDyBuf, FiniteSetTheorems, TLAPS

-----------------------------------------------------------------------------
(* The natural numbers and the variable-length integers, of this width of a byte. *)
VP == INSTANCE VarIntProofs WITH
  W <- Bits, sent <- Null, signed <- FALSE, wire <- <<>>, position <- 0, got <- Null

LEMMA WidthOfBytes == Bits \in Nat /\ Bits >= 1
BY JavaAssumption

(* What the proofs need of natural numbers, as module VarIntProofs proves it. *)
LEMMA LeastNatural ==
  ASSUME NEW T, T \subseteq Nat, T # {}
  PROVE  \E x \in T : \A y \in T : x <= y
BY WidthOfBytes, VP!LeastNatural, Zenon

LEMMA SetInduction ==
  ASSUME NEW P, 0 \in P, \A n \in Nat : n \in P => n + 1 \in P
  PROVE  Nat \subseteq P
BY WidthOfBytes, VP!SetInduction, Zenon

LEMMA WalkExists ==
  ASSUME NEW D, NEW c \in D, NEW n \in Nat, NEW F \in [1 .. n -> [D -> D]]
  PROVE  \E g \in [0 .. n -> D] : g[0] = c /\ \A k \in 1 .. n : g[k] = F[k][g[k - 1]]
BY WidthOfBytes, VP!WalkExists

LEMMA DivisionInSteps ==
  ASSUME NEW x \in Nat, NEW a \in Nat \ {0}, NEW b \in Nat \ {0}
  PROVE  (x \div a) \div b = x \div (a * b)
BY WidthOfBytes, VP!DivisionInSteps, Zenon

LEMMA Division ==
  ASSUME NEW x \in Nat, NEW b \in Nat \ {0}
  PROVE  /\ x \div b \in Nat /\ x % b \in 0 .. b - 1
         /\ x = ((x \div b) * b) + (x % b)
BY WidthOfBytes, VP!Division, Zenon

LEMMA PowerOfZero == 2 ^ 0 = 1
BY WidthOfBytes, VP!PowerOfZero, Zenon

LEMMA PowerType == \A k \in Nat : 2 ^ k \in Nat \ {0}
BY WidthOfBytes, VP!PowerType, Zenon

LEMMA PowerStep == \A k \in Nat : 2 ^ (k + 1) = 2 * 2 ^ k
BY WidthOfBytes, VP!PowerStep, Zenon

LEMMA PowerMonotone == \A a, b \in Nat : a <= b => 2 ^ a <= 2 ^ b
BY WidthOfBytes, VP!PowerMonotone, Zenon

LEMMA PowerAbove == \A k \in Nat : k < 2 ^ k
BY WidthOfBytes, VP!PowerAbove, Zenon

-----------------------------------------------------------------------------
(* The inductive invariant.  The types alone are not inductive: a read takes *)
(* bytes at addresses only the order of the cursors puts inside the memory.  *)
Fields ==
  /\ capacity \in 0 .. MaxLimit
  /\ data \in Block(capacity)
  /\ limit \in Nat /\ position \in Nat /\ mark \in Nat
  /\ CursorOrder
IoOK == io = Null \/ \E n \in 0 .. MaxLimit : io \in Block(n)
IInv == Fields /\ IoOK

-----------------------------------------------------------------------------
(* The invariant as facts about numbers, of this state and of the next. *)
LEMMA FieldFacts ==
  Fields => /\ capacity \in Nat /\ limit \in Nat /\ position \in Nat /\ mark \in Nat
            /\ data \in Block(capacity)
            /\ mark <= position /\ position <= limit /\ limit <= capacity
            /\ capacity <= MaxLimit /\ MaxLimit \in Nat
BY BoundAssumption DEF Fields, CursorOrder

LEMMA NextFieldFacts ==
  Fields' => /\ capacity' \in Nat /\ limit' \in Nat /\ position' \in Nat /\ mark' \in Nat
             /\ data' \in Block(capacity')
             /\ mark' <= position' /\ position' <= limit' /\ limit' <= capacity'
BY BoundAssumption DEF Fields, CursorOrder

LEMMA RadixType == Radix \in Nat \ {0, 1} /\ Bits \in Nat /\ Bits >= 2
<1>1. Bits \in Nat /\ Bits >= 2 /\ 1 <= Bits
  BY JavaAssumption
<1>2. 2 ^ Bits \in Nat /\ 2 ^ 1 <= 2 ^ Bits
  BY <1>1, PowerType, PowerMonotone
<1>3. 2 ^ (0 + 1) = 2 * 2 ^ 0
  BY PowerStep
<1>. QED
  BY <1>1, <1>2, <1>3, PowerOfZero DEF Radix

LEMMA ByteType == Byte \subseteq Nat /\ 0 \in Byte /\ \A b \in Nat : b < Radix => b \in Byte
BY RadixType DEF Byte

LEMMA NoBytesIsBlock == NoBytes \in Block(0)
BY DEF NoBytes, Block

LEMMA NothingCarried == io' = Null \/ io' = NoBytes => IoOK'
BY NoBytesIsBlock, BoundAssumption DEF IoOK

-----------------------------------------------------------------------------
(* Rounding gives a number, and never less than what was asked for: among    *)
(* the powers there is one above n, and so a least one.                      *)
LEMMA RoundedIsEnough ==
  ASSUME NEW n \in Nat
  PROVE  Rounded(n) \in Nat /\ n <= Rounded(n)
<1>. DEFINE powers == {Unit * 2 ^ k : k \in 0 .. n}
            enough == {c \in powers : c >= n}
<1>1. Unit \in Nat \ {0}
  BY JavaAssumption
<1>2. ASSUME NEW k \in Nat PROVE Unit * 2 ^ k \in Nat
  <2>1. 2 ^ k \in Nat
    BY PowerType
  <2>. QED
    BY <1>1, <2>1
<1>3. powers \subseteq Nat
  BY <1>2
<1>4. Unit * 2 ^ n \in enough
  <2>1. 2 ^ n \in Nat /\ n < 2 ^ n
    BY PowerType, PowerAbove
  <2>2. ASSUME NEW x \in Nat PROVE Unit * x >= x
    BY <1>1
  <2>3. Unit * 2 ^ n >= n /\ Unit * 2 ^ n \in Nat
    BY <2>1, <2>2, <1>2
  <2>. QED
    BY <2>3
<1>5. \E c \in enough : \A d \in enough : c <= d
  <2>1. enough \subseteq Nat /\ enough # {}
    BY <1>3, <1>4
  <2>. HIDE DEF enough
  <2>. QED
    BY <2>1, LeastNatural
<1>6. \E c \in powers : c >= n /\ \A d \in powers : d >= n => c <= d
  BY <1>5
<1>. HIDE DEF powers
<1>7. Rounded(n) = CHOOSE c \in powers : c >= n /\ \A d \in powers : d >= n => c <= d
  BY DEF Rounded, powers
<1>8. Rounded(n) \in powers /\ Rounded(n) >= n
  BY <1>6, <1>7
<1>. QED
  BY <1>3, <1>8

(* Grown memory is memory, and keeps the old bytes. *)
LEMMA GrownIsMemory ==
  ASSUME Fields, NEW end \in Nat, Rounded(end) <= MaxLimit, NEW bytes \in Grown(end)
  PROVE  /\ RoomFor(end) \in 0 .. MaxLimit
         /\ end <= RoomFor(end) /\ capacity <= RoomFor(end)
         /\ bytes \in Block(RoomFor(end))
         /\ \A i \in 0 .. capacity - 1 : bytes[i] = data[i]
<1>1. CASE end > capacity
  BY <1>1, FieldFacts, RoundedIsEnough DEF RoomFor, Grown, Fresh, Copied
<1>2. CASE ~(end > capacity)
  BY <1>2, FieldFacts DEF RoomFor, Grown
<1>. QED
  BY <1>1, <1>2

-----------------------------------------------------------------------------
(* A buffer is created, or adopts an array, with its cursors in order. *)
LEMMA InitIInv == Init => IInv
<1>. SUFFICES ASSUME Init PROVE IInv
  OBVIOUS
<1>1. \A n \in 0 .. MaxBlock : n \in Nat /\ n <= MaxLimit /\ Rounded(n) \in Nat
                               /\ n <= Rounded(n) /\ Rounded(n) <= MaxLimit
  BY BoundAssumption, RoomAssumption, RoundedIsEnough
<1>2. Rounded(Unit) \in Nat /\ Rounded(Unit) <= MaxLimit
  BY JavaAssumption, RoomAssumption, RoundedIsEnough
<1>3. capacity \in 0 .. MaxLimit /\ data \in Block(capacity)
  BY <1>1, <1>2, BoundAssumption DEF Init, Fresh
<1>4. limit \in Nat /\ limit <= capacity
  BY <1>1, <1>2, BoundAssumption DEF Init
<1>5. Fields
  BY <1>3, <1>4 DEF Init, Fields, CursorOrder
<1>6. IoOK
  BY NoBytesIsBlock, BoundAssumption DEF Init, IoOK
<1>. QED
  BY <1>5, <1>6 DEF IInv

(* The calls that move no bytes, or move them to the front. *)
LEMMA ThrowsKeeps == ASSUME Fields, Throws PROVE Fields' /\ IoOK'
BY NothingCarried DEF Throws, Fields, CursorOrder, memory, cursors

LEMMA CompactKeeps == ASSUME Fields, Compact PROVE Fields' /\ IoOK'
<1>1. CASE Gives(NoBytes)
  BY <1>1, NothingCarried DEF Gives, Fields, CursorOrder, memory, cursors
<1>2. CASE ~Gives(NoBytes)
  <2>1. /\ data' = [i \in DOMAIN data |-> IF i < Remaining THEN data[position + i] ELSE data[i]]
        /\ limit' = Remaining /\ position' = 0 /\ mark' = 0 /\ io' = NoBytes
        /\ capacity' = capacity
    BY <1>2 DEF Compact
  <2>2. Remaining \in Nat /\ Remaining <= capacity /\ position + Remaining = limit
    BY FieldFacts DEF Remaining
  <2>3. DOMAIN data = 0 .. capacity - 1
    BY FieldFacts DEF Block
  <2>4. ASSUME NEW i \in 0 .. capacity - 1
        PROVE  (IF i < Remaining THEN data[position + i] ELSE data[i]) \in Byte
    <3>1. i < Remaining => position + i \in 0 .. capacity - 1
      BY <2>2, FieldFacts
    <3>. QED
      BY <3>1, FieldFacts DEF Block
  <2>5. data' \in Block(capacity)
    BY <2>1, <2>3, <2>4 DEF Block
  <2>. QED
    BY <2>1, <2>2, <2>5, FieldFacts, NothingCarried DEF Fields, CursorOrder
<1>. QED
  BY <1>1, <1>2

LEMMA CursorsMoveKeeps ==
  ASSUME Fields, NEW n \in Nat, SetPosition(n) \/ Mark \/ Reset \/ Clear \/ Flip \/ Rewind
  PROVE  Fields' /\ IoOK'
<1>1. CASE n > limit /\ Throws
  BY <1>1, ThrowsKeeps
<1>2. CASE ~(n > limit /\ Throws)
  <2>1. UNCHANGED memory /\ io' = NoBytes
    BY <1>2 DEF SetPosition, Mark, Reset, Clear, Flip, Rewind
  <2>2. /\ limit' \in Nat /\ position' \in Nat /\ mark' \in Nat
        /\ mark' <= position' /\ position' <= limit' /\ limit' <= capacity
    BY <1>2, FieldFacts
      DEF SetPosition, Mark, Reset, Clear, Flip, Rewind, memory, cursors
  <2>. QED
    BY <2>1, <2>2, FieldFacts, NothingCarried DEF Fields, CursorOrder, memory
<1>. QED
  BY <1>1, <1>2

-----------------------------------------------------------------------------
(* A write of n bytes: the memory and the limit grow to its end if they must, *)
(* and what is not written stays.                                             *)
Written(index, n, block) ==
  /\ capacity' \in 0 .. MaxLimit /\ capacity <= capacity'
  /\ data' \in Block(capacity')
  /\ limit' = (IF index + n > limit THEN index + n ELSE limit)
  /\ limit' \in Nat /\ limit <= limit' /\ index + n <= limit' /\ limit' <= capacity'
  /\ n \in 0 .. MaxLimit
  /\ \A i \in 0 .. n - 1 : data'[index + i] = block[i]
  /\ \A i \in 0 .. limit - 1 : (i < index \/ i >= index + n) => data'[i] = data[i]

LEMMA WriteKeeps ==
  ASSUME Fields, NEW index \in Nat, NEW n \in Nat, NEW block \in Block(n),
         Fits(index + n), WriteAt(index, n, block)
  PROVE  Written(index, n, block)
<1>. DEFINE end == index + n
            room == IF end > limit THEN RoomFor(end) ELSE capacity
<1>1. end \in Nat /\ Rounded(end) <= MaxLimit
  BY DEF Fits
<1>2. PICK bytes \in IF end > limit THEN Grown(end) ELSE {data} :
             data' = [i \in DOMAIN bytes |->
                        IF i \in index .. end - 1 THEN block[i - index] ELSE bytes[i]]
  BY DEF WriteAt
<1>3. capacity' = room /\ limit' = IF end > limit THEN end ELSE limit
  BY DEF WriteAt
<1>4. end = index + n
  OBVIOUS
<1>. HIDE DEF end
<1>5. room \in 0 .. MaxLimit /\ capacity <= room /\ bytes \in Block(room)
      /\ (end > limit => end <= room) /\ \A i \in 0 .. capacity - 1 : bytes[i] = data[i]
  <2>1. CASE end > limit
    BY <1>1, <1>2, <2>1, GrownIsMemory
  <2>2. CASE ~(end > limit)
    BY <1>2, <2>2, FieldFacts
  <2>. QED
    BY <2>1, <2>2
<1>. HIDE DEF room
<1>6. limit' \in Nat /\ limit <= limit' /\ end <= limit' /\ limit' <= room
  BY <1>1, <1>3, <1>5, FieldFacts
<1>7. DOMAIN bytes = 0 .. room - 1
  BY <1>5 DEF Block
<1>8. data' \in Block(capacity')
  <2>1. ASSUME NEW i \in 0 .. room - 1
        PROVE  (IF i \in index .. end - 1 THEN block[i - index] ELSE bytes[i]) \in Byte
    <3>1. i \in index .. end - 1 => i - index \in 0 .. n - 1
      BY <1>4
    <3>. QED
      BY <1>5, <3>1 DEF Block
  <2>. QED
    BY <1>2, <1>3, <1>7, <2>1 DEF Block
<1>9. ASSUME NEW i \in 0 .. n - 1 PROVE data'[index + i] = block[i]
  <2>1. index + i \in 0 .. room - 1 /\ index + i \in index .. end - 1 /\ (index + i) - index = i
    BY <1>4, <1>5, <1>6
  <2>. QED
    BY <1>2, <1>7, <2>1
<1>10. ASSUME NEW i \in 0 .. limit - 1, i < index \/ i >= end PROVE data'[i] = data[i]
  <2>1. i \in 0 .. room - 1 /\ i \in 0 .. capacity - 1 /\ i \notin index .. end - 1
    BY <1>1, <1>5, <1>10, FieldFacts
  <2>. QED
    BY <1>2, <1>5, <1>7, <2>1
<1>11. n \in 0 .. MaxLimit
  BY <1>1, <1>4, <1>5, <1>6, FieldFacts
<1>. QED
  BY <1>3, <1>4, <1>5, <1>6, <1>8, <1>9, <1>10, <1>11 DEF Written

(* A block behind a header of k bytes is one block of k + n bytes. *)
Frame(k, header, n, block) ==
  [i \in 0 .. k + n - 1 |-> IF i < k THEN header[i] ELSE block[i - k]]

LEMMA FrameIsBlock ==
  ASSUME NEW k \in Nat, NEW header \in Block(k), NEW n \in Nat, NEW block \in Block(n)
  PROVE  /\ Frame(k, header, n, block) \in Block(k + n)
         /\ \A i \in 0 .. k - 1 : Frame(k, header, n, block)[i] = header[i]
         /\ \A i \in 0 .. n - 1 : Frame(k, header, n, block)[k + i] = block[i]
<1>1. ASSUME NEW i \in 0 .. k + n - 1
      PROVE  (IF i < k THEN header[i] ELSE block[i - k]) \in Byte
  BY DEF Block
<1>2. ASSUME NEW i \in 0 .. n - 1
      PROVE  k + i \in 0 .. k + n - 1 /\ ~(k + i < k) /\ (k + i) - k = i
  OBVIOUS
<1>. QED
  BY <1>1, <1>2 DEF Frame, Block

LEMMA PutFramedKeeps ==
  ASSUME Fields, NEW k \in Nat, NEW header \in Block(k), NEW n \in Nat, NEW block \in Block(n),
         Fits(position + k + n), PutFramed(k, header, n, block)
  PROVE  /\ Fields' /\ IoOK'
         /\ Written(position, k + n, Frame(k, header, n, block))
<1>1. /\ WriteAt(position, k + n, Frame(k, header, n, block))
      /\ position' = position + k + n /\ mark' = mark /\ io' = block
  BY DEF PutFramed, Frame
<1>2. k + n \in Nat /\ position + (k + n) = position + k + n
  BY FieldFacts
<1>3. Written(position, k + n, Frame(k, header, n, block))
  <2>1. Frame(k, header, n, block) \in Block(k + n)
    BY FrameIsBlock
  <2>. QED
    BY <1>1, <1>2, <2>1, WriteKeeps, FieldFacts
<1>4. /\ capacity' \in 0 .. MaxLimit /\ data' \in Block(capacity')
      /\ limit' \in Nat /\ position + (k + n) <= limit' /\ limit' <= capacity'
      /\ k + n \in 0 .. MaxLimit
  BY <1>3 DEF Written
<1>5. Fields'
  BY <1>1, <1>2, <1>4, FieldFacts DEF Fields, CursorOrder
<1>6. IoOK'
  BY <1>1, <1>4, FieldFacts DEF IoOK
<1>. QED
  BY <1>3, <1>5, <1>6

LEMMA PutKeeps ==
  ASSUME Fields, NEW n \in Nat, NEW block \in Block(n), Fits(position + n), Put(n, block)
  PROVE  Fields' /\ IoOK'
<1>1. position + 0 + n = position + n
  BY FieldFacts
<1>. QED
  BY <1>1, PutFramedKeeps, NoBytesIsBlock DEF Put

LEMMA PutAtKeeps ==
  ASSUME Fields, NEW index \in Nat, NEW n \in Nat, NEW block \in Block(n),
         Fits(index + n), PutAt(index, n, block)
  PROVE  Fields' /\ IoOK'
<1>1. WriteAt(index, n, block) /\ position' = position /\ mark' = mark /\ io' = block
  BY DEF PutAt
<1>2. Written(index, n, block)
  BY <1>1, WriteKeeps
<1>. QED
  BY <1>1, <1>2, FieldFacts DEF Written, Fields, CursorOrder, IoOK

(* A length below LengthSpace(k) is written as k bytes. *)
LEMMA HeaderBytes ==
  ASSUME NEW k \in 1 .. 2, NEW n \in Nat, n < LengthSpace(k)
  PROVE  Header(k, n) \in Block(k)
<1>1. CASE k = 1
  BY <1>1, ByteType DEF Header, LengthSpace, Block
<1>2. CASE k = 2
  <2>1. n < Radix * Radix /\ Radix \in Nat \ {0}
    BY <1>2, RadixType DEF LengthSpace
  <2>2. n \div Radix \in Nat /\ n % Radix \in 0 .. Radix - 1
        /\ n = ((n \div Radix) * Radix) + (n % Radix)
    BY <2>1, Division
  <2>3. n \div Radix < Radix
    <3>1. SUFFICES ASSUME n \div Radix >= Radix PROVE FALSE
      BY <2>1, <2>2
    <3>2. ASSUME NEW q \in Nat, q >= Radix PROVE q * Radix >= Radix * Radix
      BY <2>1, <3>2
    <3>. QED
      BY <3>1, <3>2, <2>1, <2>2
  <2>. QED
    BY <1>2, <2>1, <2>2, <2>3, ByteType DEF Header, Block
<1>. QED
  BY <1>1, <1>2

-----------------------------------------------------------------------------
LEMMA SameIntegers ==
  /\ \A v : V!VarU64Bytes(v) = VP!VarU64Bytes(v)
  /\ \A v : V!Form(v) = VP!Form(v)
  /\ \A b : V!FormOf(b) = VP!FormOf(b)
  /\ \A w, p : V!VarU64At(w, p) = VP!VarU64At(w, p)
  /\ V!Base[2] = VP!Base[2]
  /\ VP!Byte = Byte
BY DEF V!VarU64Bytes, VP!VarU64Bytes, V!FormOf, VP!FormOf, V!Form, VP!Form, V!Base, VP!Base,
       V!Forms, VP!Forms, V!ByteValues, VP!ByteValues, V!Payloads, VP!Payloads, V!Lead, VP!Lead,
       V!VarU64At, VP!VarU64At, V!PayloadAt, VP!PayloadAt, VP!Byte, Byte, Radix

(* The header of a length has as many bytes as its form. *)
LEMMA VarHeaderBytes ==
  ASSUME NEW v \in VP!Values
  PROVE  VarWidth(v) \in 1 .. Bits + 1 /\ VarHeader(v) \in Block(VarWidth(v))
<1>1. VarWidth(v) = VP!Form(v) /\ VarHeader(v) = VP!HeaderOf(v)
  BY SameIntegers DEF VarWidth, VarHeader, VP!HeaderOf
<1>2. VP!Form(v) \in 1 .. Bits + 1 /\ VP!HeaderOf(v) \in [0 .. VP!Form(v) - 1 -> VP!Byte]
  BY WidthOfBytes, VP!HeadHasBytes
<1>. QED
  BY <1>1, <1>2, SameIntegers DEF Block

(* Blocks of the bound, and the numbers put, are values. *)
LEMMA ValuesPut ==
  /\ \A n \in Lengths : n \in VP!Values
  /\ \A v \in 0 .. V!Base[2] + 1 : v \in VP!Values
<1>. DEFINE N == 2 ^ (Bits * Bits)
<1>1. N \in Nat \ {0} /\ VP!Values = 0 .. N - 1
  BY WidthOfBytes, VP!ValuesType DEF VP!Values
<1>2. Bits >= 2
  BY JavaAssumption
<1>3. V!Base[2] \in Nat /\ V!Base[2] + 1 \in VP!Values
  BY <1>2, WidthOfBytes, VP!FirstBorder, SameIntegers
<1>. HIDE DEF N
<1>4. ASSUME NEW n \in Lengths PROVE n \in VP!Values
  <2>1. MaxBlock < N /\ MaxBlock \in Nat
    BY BoundAssumption DEF N
  <2>. QED
    BY <1>1, <2>1 DEF Lengths
<1>5. ASSUME NEW v \in 0 .. V!Base[2] + 1 PROVE v \in VP!Values
  BY <1>1, <1>3
<1>. QED
  BY <1>4, <1>5

-----------------------------------------------------------------------------
(* Bytes below the limit are a block. *)
LEMMA BytesAreBlock ==
  ASSUME Fields, NEW from \in Nat, NEW n \in Nat, from + n <= limit
  PROVE  Bytes(from, n) \in Block(n) /\ n \in 0 .. MaxLimit
<1>1. ASSUME NEW i \in 0 .. n - 1 PROVE data[from + i] \in Byte
  <2>1. from + i \in 0 .. capacity - 1
    BY FieldFacts
  <2>. QED
    BY <2>1, FieldFacts DEF Block
<1>. QED
  BY <1>1, FieldFacts DEF Bytes, Block

(* A read moves the position to a place below the limit, and gives back a    *)
(* block or nothing.                                                         *)
LEMMA ReadKeeps ==
  ASSUME Fields, UNCHANGED <<memory, limit, mark>>, position' \in position .. limit,
         \/ io' = Null
         \/ \E from, n \in Nat : from + n <= limit /\ io' = Bytes(from, n)
  PROVE  Fields' /\ IoOK'
<1>1. IoOK'
  BY BytesAreBlock DEF IoOK
<1>. QED
  BY <1>1, FieldFacts DEF Fields, CursorOrder, memory

LEMMA TakeKeeps ==
  ASSUME Fields, NEW k \in Nat, position + k <= limit, NEW n \in Int, Take(k, n)
  PROVE  Fields' /\ IoOK'
<1>1. position + k \in Nat /\ position + k \in position .. limit
  BY FieldFacts
<1>2. CASE Consumed(k)
  BY <1>1, <1>2, ReadKeeps DEF Consumed
<1>3. CASE n >= 0 /\ Readable(position + k, n) /\ position' = position + k + n
           /\ io' = Bytes(position + k, n) /\ UNCHANGED <<memory, limit, mark>>
  <2>1. n \in Nat /\ (position + k) + n <= limit /\ position' \in position .. limit
    BY <1>1, <1>3, FieldFacts DEF Readable
  <2>. QED
    BY <1>1, <1>3, <2>1, ReadKeeps
<1>. QED
  BY <1>2, <1>3 DEF Take

LEMMA LookKeeps ==
  ASSUME Fields, NEW from \in Nat, NEW n \in Nat, from + n <= limit, Gives(Bytes(from, n))
  PROVE  Fields' /\ IoOK'
<1>1. position \in position .. limit
  BY FieldFacts
<1>. QED
  BY <1>1, ReadKeeps DEF Gives, cursors

LEMMA GetAtKeeps ==
  ASSUME Fields, NEW index \in Nat, NEW n \in Nat, GetAt(index, n)
  PROVE  Fields' /\ IoOK'
<1>1. CASE ~Readable(index, n) /\ Throws
  BY <1>1, ThrowsKeeps
<1>2. CASE Readable(index, n) /\ Gives(Bytes(index, n))
  BY <1>2, LookKeeps DEF Readable
<1>. QED
  BY <1>1, <1>2 DEF GetAt

-----------------------------------------------------------------------------
(* The bits of a number: the lowest one, and the others. *)
LEMMA LowestBit ==
  ASSUME NEW c \in Nat
  PROVE  Bit(c, 0) = c % 2
<1>1. c \div 1 = c
  OBVIOUS
<1>. QED
  BY <1>1, PowerOfZero DEF Bit

LEMMA OtherBits ==
  ASSUME NEW c \in Nat, NEW i \in Nat
  PROVE  Bit(c, i + 1) = Bit(c \div 2, i)
<1>1. 2 ^ i \in Nat \ {0} /\ 2 ^ (i + 1) = 2 * 2 ^ i
  BY PowerType, PowerStep
<1>2. (c \div 2) \div 2 ^ i = c \div (2 * 2 ^ i)
  BY <1>1, DivisionInSteps
<1>. QED
  BY <1>1, <1>2 DEF Bit

(* For every pattern of bits there is a number, *)
LEMMA BitsExist ==
  ASSUME NEW n \in Nat, NEW p \in [0 .. n - 1 -> {0, 1}]
  PROVE  \E c \in 0 .. 2 ^ n - 1 : \A i \in 0 .. n - 1 : Bit(c, i) = p[i]
<1>. DEFINE P == {m \in Nat : \A q \in [0 .. m - 1 -> {0, 1}] :
                    \E c \in 0 .. 2 ^ m - 1 : \A i \in 0 .. m - 1 : Bit(c, i) = q[i]}
<1>1. 0 \in P
  <2>1. 0 \in 0 .. 2 ^ 0 - 1
    BY PowerOfZero
  <2>. QED
    BY <2>1
<1>2. ASSUME NEW m \in Nat, m \in P PROVE m + 1 \in P
  <2>. SUFFICES ASSUME NEW q \in [0 .. m -> {0, 1}]
                PROVE  \E c \in 0 .. 2 ^ (m + 1) - 1 : \A i \in 0 .. m : Bit(c, i) = q[i]
    OBVIOUS
  <2>. DEFINE r == [i \in 0 .. m - 1 |-> q[i + 1]]
  <2>1. r \in [0 .. m - 1 -> {0, 1}]
    OBVIOUS
  <2>2. PICK d \in 0 .. 2 ^ m - 1 : \A i \in 0 .. m - 1 : Bit(d, i) = r[i]
    BY <1>2, <2>1
  <2>. DEFINE c == (d * 2) + q[0]
  <2>3. 2 ^ m \in Nat \ {0} /\ 2 ^ (m + 1) = 2 * 2 ^ m
    BY PowerType, PowerStep
  <2>4. q[0] \in {0, 1} /\ d \in Nat
    BY <2>3
  <2>5. c \in Nat /\ c \div 2 = d /\ c % 2 = q[0]
    BY <2>4
  <2>6. c \in 0 .. 2 ^ (m + 1) - 1
    BY <2>3, <2>4
  <2>. HIDE DEF c
  <2>7. ASSUME NEW i \in 0 .. m PROVE Bit(c, i) = q[i]
    <3>1. CASE i = 0
      BY <2>5, <3>1, LowestBit
    <3>2. CASE i # 0
      <4>1. i - 1 \in 0 .. m - 1 /\ (i - 1) + 1 = i /\ i - 1 \in Nat
        BY <3>2
      <4>2. Bit(c, (i - 1) + 1) = Bit(d, i - 1)
        BY <2>5, <4>1, OtherBits
      <4>3. Bit(d, i - 1) = r[i - 1] /\ r[i - 1] = q[(i - 1) + 1]
        BY <2>2, <4>1
      <4>. QED
        BY <4>1, <4>2, <4>3
    <3>. QED
      BY <3>1, <3>2
  <2>. QED
    BY <2>6, <2>7
<1>. HIDE DEF P
<1>3. Nat \subseteq P
  BY <1>1, <1>2, SetInduction
<1>. QED
  BY <1>3 DEF P

(* and only one. *)
LEMMA BitsDetermine ==
  ASSUME NEW n \in Nat, NEW a \in 0 .. 2 ^ n - 1, NEW b \in 0 .. 2 ^ n - 1,
         \A i \in 0 .. n - 1 : Bit(a, i) = Bit(b, i)
  PROVE  a = b
<1>. DEFINE P == {m \in Nat : \A x, y \in 0 .. 2 ^ m - 1 :
                    (\A i \in 0 .. m - 1 : Bit(x, i) = Bit(y, i)) => x = y}
<1>1. 0 \in P
  BY PowerOfZero
<1>2. ASSUME NEW m \in Nat, m \in P PROVE m + 1 \in P
  <2>. SUFFICES ASSUME NEW x \in 0 .. 2 ^ (m + 1) - 1, NEW y \in 0 .. 2 ^ (m + 1) - 1,
                       \A i \in 0 .. m : Bit(x, i) = Bit(y, i)
                PROVE  x = y
    OBVIOUS
  <2>1. 2 ^ m \in Nat \ {0} /\ 2 ^ (m + 1) = 2 * 2 ^ m
    BY PowerType, PowerStep
  <2>2. x \in Nat /\ y \in Nat
    BY <2>1
  <2>3. /\ x \div 2 \in 0 .. 2 ^ m - 1 /\ y \div 2 \in 0 .. 2 ^ m - 1
        /\ x = ((x \div 2) * 2) + (x % 2) /\ y = ((y \div 2) * 2) + (y % 2)
    BY <2>1, <2>2
  <2>4. x % 2 = y % 2
    BY <2>2, LowestBit
  <2>5. ASSUME NEW i \in 0 .. m - 1 PROVE Bit(x \div 2, i) = Bit(y \div 2, i)
    <3>1. i + 1 \in 0 .. m /\ i \in Nat
      OBVIOUS
    <3>. QED
      BY <2>2, <3>1, OtherBits
  <2>6. x \div 2 = y \div 2
    BY <1>2, <2>3, <2>5
  <2>. QED
    BY <2>3, <2>4, <2>6
<1>. HIDE DEF P
<1>3. Nat \subseteq P
  BY <1>1, <1>2, SetInduction
<1>. QED
  BY <1>3 DEF P

(* ^ gives a byte, and a second ^ with the same byte takes it back. *)
LEMMA BitIsBit == ASSUME NEW c \in Nat, NEW i \in Nat PROVE Bit(c, i) \in {0, 1}
<1>1. 2 ^ i \in Nat \ {0}
  BY PowerType
<1>2. c \div 2 ^ i \in Nat
  BY <1>1, Division
<1>. QED
  BY <1>2 DEF Bit

LEMMA XoredFacts ==
  ASSUME NEW a \in Byte, NEW b \in Byte
  PROVE  /\ Xored(a, b) \in Byte
         /\ \A i \in 0 .. Bits - 1 : Bit(Xored(a, b), i) = (Bit(a, i) + Bit(b, i)) % 2
<1>. DEFINE p == [i \in 0 .. Bits - 1 |-> (Bit(a, i) + Bit(b, i)) % 2]
<1>1. a \in Nat /\ b \in Nat /\ Bits \in Nat
  BY ByteType, RadixType
<1>2. p \in [0 .. Bits - 1 -> {0, 1}]
  <2>1. ASSUME NEW i \in 0 .. Bits - 1 PROVE (Bit(a, i) + Bit(b, i)) % 2 \in {0, 1}
    <3>1. Bit(a, i) \in {0, 1} /\ Bit(b, i) \in {0, 1}
      BY <1>1, BitIsBit
    <3>. QED
      BY <3>1
  <2>. QED
    BY <2>1
<1>3. \E c \in Byte : \A i \in 0 .. Bits - 1 : Bit(c, i) = p[i]
  BY <1>1, <1>2, BitsExist DEF Byte, Radix
<1>4. \E c \in Byte : \A i \in 0 .. Bits - 1 : Bit(c, i) = (Bit(a, i) + Bit(b, i)) % 2
  BY <1>3
<1>. QED
  BY <1>4 DEF Xored

LEMMA XoredTwice ==
  ASSUME NEW a \in Byte, NEW b \in Byte
  PROVE  Xored(Xored(a, b), b) = a
<1>. DEFINE c == Xored(a, b)
            d == Xored(c, b)
<1>1. c \in Byte /\ \A i \in 0 .. Bits - 1 : Bit(c, i) = (Bit(a, i) + Bit(b, i)) % 2
  BY XoredFacts
<1>. HIDE DEF c
<1>2. d \in Byte /\ \A i \in 0 .. Bits - 1 : Bit(d, i) = (Bit(c, i) + Bit(b, i)) % 2
  BY <1>1, XoredFacts
<1>. HIDE DEF d
<1>3. ASSUME NEW i \in 0 .. Bits - 1 PROVE Bit(d, i) = Bit(a, i)
  <2>1. Bit(a, i) \in {0, 1} /\ Bit(b, i) \in {0, 1}
    BY BitIsBit, ByteType
  <2>. QED
    BY <1>1, <1>2, <2>1
<1>4. d = a
  BY <1>2, <1>3, RadixType, BitsDetermine DEF Byte, Radix
<1>. QED
  BY <1>4 DEF c, d

-----------------------------------------------------------------------------
(* The checksum is where a walk through the bytes ends; every such walk stays *)
(* among the bytes, and depends on the bytes it passes only.                  *)
CrcStep(crc, i, b) == Xored(IF (i - 1) % CrcPeriod = 0 THEN Radix - 1 - crc ELSE crc, b)
CrcWalk(g, bytes, n) ==
  g = [i \in 0 .. n |-> IF i = 0 THEN 0 ELSE CrcStep(g[i - 1], i, bytes[i - 1])]

LEMMA CrcStepIsByte ==
  ASSUME NEW crc \in Byte, NEW i, NEW b \in Byte
  PROVE  CrcStep(crc, i, b) \in Byte
<1>1. Radix - 1 - crc \in Byte
  BY RadixType DEF Byte
<1>. QED
  BY <1>1, XoredFacts DEF CrcStep

LEMMA CrcWalks ==
  ASSUME NEW n \in Nat, NEW bytes, \A i \in 0 .. n - 1 : bytes[i] \in Byte
  PROVE  \E g : CrcWalk(g, bytes, n) /\ Crc(bytes, n) = g[n]
<1>. DEFINE F == [k \in 1 .. n |-> [x \in Byte |-> CrcStep(x, k, bytes[k - 1])]]
<1>1. F \in [1 .. n -> [Byte -> Byte]]
  <2>1. ASSUME NEW k \in 1 .. n, NEW x \in Byte PROVE CrcStep(x, k, bytes[k - 1]) \in Byte
    <3>1. k - 1 \in 0 .. n - 1
      OBVIOUS
    <3>. QED
      BY <3>1, CrcStepIsByte
  <2>. QED
    BY <2>1
<1>2. \A k \in 1 .. n : \A x \in Byte : F[k][x] = CrcStep(x, k, bytes[k - 1])
  OBVIOUS
<1>. HIDE DEF F
<1>3. PICK g \in [0 .. n -> Byte] : g[0] = 0 /\ \A k \in 1 .. n : g[k] = F[k][g[k - 1]]
  <2>1. 0 \in Byte
    BY ByteType
  <2>. QED
    BY <1>1, <2>1, WalkExists
<1>4. CrcWalk(g, bytes, n)
  <2>1. ASSUME NEW i \in 0 .. n
        PROVE  g[i] = IF i = 0 THEN 0 ELSE CrcStep(g[i - 1], i, bytes[i - 1])
    <3>1. i # 0 => i \in 1 .. n /\ i - 1 \in 0 .. n
      OBVIOUS
    <3>. QED
      BY <1>2, <1>3, <3>1
  <2>. QED
    BY <2>1 DEF CrcWalk
<1>5. Crc(bytes, n) = (CHOOSE h : CrcWalk(h, bytes, n))[n]
  BY DEF Crc, CrcWalk, CrcStep
<1>. QED
  BY <1>4, <1>5

LEMMA CrcIsByte ==
  ASSUME NEW n \in Nat, NEW bytes, \A i \in 0 .. n - 1 : bytes[i] \in Byte
  PROVE  Crc(bytes, n) \in Byte
<1>1. PICK g : CrcWalk(g, bytes, n) /\ Crc(bytes, n) = g[n]
  BY CrcWalks
<1>. DEFINE P == {i \in Nat : i <= n => g[i] \in Byte}
<1>2. \A i \in 0 .. n : g[i] = IF i = 0 THEN 0 ELSE CrcStep(g[i - 1], i, bytes[i - 1])
  BY <1>1 DEF CrcWalk
<1>3. 0 \in P
  BY <1>2, ByteType
<1>4. ASSUME NEW i \in Nat, i \in P PROVE i + 1 \in P
  <2>. SUFFICES ASSUME i + 1 <= n PROVE g[i + 1] \in Byte
    OBVIOUS
  <2>1. g[i + 1] = CrcStep(g[i], i + 1, bytes[i]) /\ g[i] \in Byte /\ bytes[i] \in Byte
    BY <1>2, <1>4
  <2>. QED
    BY <2>1, CrcStepIsByte
<1>. HIDE DEF P
<1>5. Nat \subseteq P
  BY <1>3, <1>4, SetInduction
<1>. QED
  BY <1>1, <1>5 DEF P

LEMMA CrcAgrees ==
  ASSUME NEW n \in Nat, NEW a, NEW b,
         \A i \in 0 .. n - 1 : a[i] \in Byte /\ b[i] = a[i]
  PROVE  Crc(a, n) = Crc(b, n)
<1>1. PICK g : CrcWalk(g, a, n) /\ Crc(a, n) = g[n]
  BY CrcWalks
<1>2. PICK h : CrcWalk(h, b, n) /\ Crc(b, n) = h[n]
  BY CrcWalks
<1>. DEFINE P == {i \in Nat : i <= n => g[i] = h[i]}
<1>3. /\ \A i \in 0 .. n : g[i] = IF i = 0 THEN 0 ELSE CrcStep(g[i - 1], i, a[i - 1])
      /\ \A i \in 0 .. n : h[i] = IF i = 0 THEN 0 ELSE CrcStep(h[i - 1], i, b[i - 1])
  BY <1>1, <1>2 DEF CrcWalk
<1>4. 0 \in P
  BY <1>3
<1>5. ASSUME NEW i \in Nat, i \in P PROVE i + 1 \in P
  <2>. SUFFICES ASSUME i + 1 <= n PROVE g[i + 1] = h[i + 1]
    OBVIOUS
  <2>1. /\ g[i + 1] = CrcStep(g[i], i + 1, a[i])
        /\ h[i + 1] = CrcStep(h[i], i + 1, b[i])
        /\ g[i] = h[i] /\ a[i] = b[i]
    BY <1>3, <1>5
  <2>. QED
    BY <2>1
<1>. HIDE DEF P
<1>6. Nat \subseteq P
  BY <1>4, <1>5, SetInduction
<1>. QED
  BY <1>1, <1>2, <1>6 DEF P

-----------------------------------------------------------------------------
(* The mask is such a walk from the last byte to the first: a masked byte is  *)
(* the byte and its successor, masked.                                        *)
MaskWalk(g, bytes, n) ==
  g = [i \in 0 .. n |-> IF i = n THEN Seed ELSE Xored(bytes[i], g[i + 1])]

LEMMA SeedIsByte == Seed \in Byte
BY JavaAssumption DEF Byte, Radix

LEMMA MaskWalks ==
  ASSUME NEW n \in Nat, NEW bytes, \A i \in 0 .. n - 1 : bytes[i] \in Byte
  PROVE  \E g : /\ MaskWalk(g, bytes, n)
                /\ Masked(bytes, n) =
                     [i \in DOMAIN bytes |-> IF i < n THEN g[i] ELSE bytes[i]]
<1>. DEFINE F == [k \in 1 .. n |-> [x \in Byte |-> Xored(bytes[n - k], x)]]
<1>1. F \in [1 .. n -> [Byte -> Byte]]
  <2>1. ASSUME NEW k \in 1 .. n, NEW x \in Byte PROVE Xored(bytes[n - k], x) \in Byte
    <3>1. n - k \in 0 .. n - 1
      OBVIOUS
    <3>. QED
      BY <3>1, XoredFacts
  <2>. QED
    BY <2>1
<1>2. \A k \in 1 .. n : \A x \in Byte : F[k][x] = Xored(bytes[n - k], x)
  OBVIOUS
<1>. HIDE DEF F
<1>3. PICK w \in [0 .. n -> Byte] : w[0] = Seed /\ \A k \in 1 .. n : w[k] = F[k][w[k - 1]]
  BY <1>1, WalkExists, SeedIsByte
<1>. DEFINE g == [i \in 0 .. n |-> w[n - i]]
<1>4. MaskWalk(g, bytes, n)
  <2>1. ASSUME NEW i \in 0 .. n
        PROVE  g[i] = IF i = n THEN Seed ELSE Xored(bytes[i], g[i + 1])
    <3>1. CASE i = n
      BY <1>3, <3>1
    <3>2. CASE i # n
      <4>1. /\ n - i \in 1 .. n /\ (n - i) - 1 = n - (i + 1) /\ n - (n - i) = i
            /\ i + 1 \in 0 .. n /\ (n - i) - 1 \in 0 .. n
        BY <3>2
      <4>2. w[n - i] = Xored(bytes[i], w[n - (i + 1)])
        <5>1. w[n - i] = F[n - i][w[(n - i) - 1]] /\ w[(n - i) - 1] \in Byte
          BY <1>3, <4>1
        <5>2. F[n - i][w[(n - i) - 1]] = Xored(bytes[n - (n - i)], w[(n - i) - 1])
          BY <1>2, <4>1, <5>1
        <5>. QED
          BY <4>1, <5>1, <5>2
      <4>. QED
        BY <3>2, <4>1, <4>2
    <3>. QED
      BY <3>1, <3>2
  <2>2. g = [i \in 0 .. n |-> g[i]]
    OBVIOUS
  <2>. HIDE DEF g
  <2>. QED
    BY <2>1, <2>2 DEF MaskWalk
<1>5. Masked(bytes, n) = [i \in DOMAIN bytes |->
                            IF i < n THEN (CHOOSE h : MaskWalk(h, bytes, n))[i] ELSE bytes[i]]
  BY DEF Masked, MaskWalk
<1>. QED
  BY <1>4, <1>5

LEMMA MaskedFacts ==
  ASSUME NEW size \in Nat, NEW bytes \in Block(size), NEW n \in 0 .. size
  PROVE  /\ Masked(bytes, n) \in Block(size)
         /\ \A i \in 0 .. n - 1 :
              Masked(bytes, n)[i] =
                Xored(bytes[i], IF i = n - 1 THEN Seed ELSE Masked(bytes, n)[i + 1])
         /\ \A i \in n .. size - 1 : Masked(bytes, n)[i] = bytes[i]
<1>1. /\ n \in Nat /\ DOMAIN bytes = 0 .. size - 1 /\ n <= size
      /\ \A i \in 0 .. size - 1 : bytes[i] \in Byte
      /\ \A i \in 0 .. n - 1 : bytes[i] \in Byte
  BY DEF Block
<1>2. PICK g : /\ MaskWalk(g, bytes, n)
               /\ Masked(bytes, n) = [i \in DOMAIN bytes |-> IF i < n THEN g[i] ELSE bytes[i]]
  BY <1>1, MaskWalks
<1>3. \A i \in 0 .. n : g[i] = IF i = n THEN Seed ELSE Xored(bytes[i], g[i + 1])
  BY <1>2 DEF MaskWalk
<1>. DEFINE P == {k \in Nat : k <= n => g[n - k] \in Byte}
<1>4. 0 \in P
  BY <1>3, SeedIsByte
<1>5. ASSUME NEW k \in Nat, k \in P PROVE k + 1 \in P
  <2>. SUFFICES ASSUME k + 1 <= n PROVE g[n - (k + 1)] \in Byte
    OBVIOUS
  <2>. DEFINE i == n - (k + 1)
  <2>1. i \in 0 .. n - 1 /\ i \in 0 .. n /\ i # n /\ i + 1 = n - k
    OBVIOUS
  <2>2. g[i] = Xored(bytes[i], g[i + 1]) /\ g[i + 1] \in Byte /\ bytes[i] \in Byte
    BY <1>1, <1>3, <1>5, <2>1
  <2>. QED
    BY <2>2, XoredFacts
<1>. HIDE DEF P
<1>6. Nat \subseteq P
  BY <1>4, <1>5, SetInduction
<1>7. ASSUME NEW i \in 0 .. n PROVE g[i] \in Byte
  <2>1. n - i \in Nat /\ n - i <= n /\ n - (n - i) = i
    OBVIOUS
  <2>. QED
    BY <1>6, <2>1 DEF P
<1>8. Masked(bytes, n) \in Block(size)
  BY <1>1, <1>2, <1>7 DEF Block
<1>9. ASSUME NEW i \in 0 .. n - 1
      PROVE  Masked(bytes, n)[i] =
               Xored(bytes[i], IF i = n - 1 THEN Seed ELSE Masked(bytes, n)[i + 1])
  <2>1. Masked(bytes, n)[i] = g[i] /\ g[i] = Xored(bytes[i], g[i + 1])
    BY <1>1, <1>2, <1>3
  <2>2. CASE i = n - 1
    BY <1>3, <2>1, <2>2
  <2>3. CASE i # n - 1
    <3>1. i + 1 \in 0 .. n - 1 /\ i + 1 \in DOMAIN bytes
      BY <1>1, <2>3
    <3>2. Masked(bytes, n)[i + 1] = g[i + 1]
      BY <1>2, <3>1
    <3>. QED
      BY <2>1, <2>3, <3>2
  <2>. QED
    BY <2>2, <2>3
<1>10. \A i \in n .. size - 1 : Masked(bytes, n)[i] = bytes[i]
  BY <1>1, <1>2
<1>. QED
  BY <1>8, <1>9, <1>10

LEMMA UnmaskedFacts ==
  ASSUME NEW size \in Nat, NEW bytes \in Block(size), NEW n \in 0 .. size
  PROVE  /\ Unmasked(bytes, n) \in Block(size)
         /\ \A i \in 0 .. n - 1 :
              Unmasked(bytes, n)[i] =
                Xored(bytes[i], IF i = n - 1 THEN Seed ELSE bytes[i + 1])
         /\ \A i \in n .. size - 1 : Unmasked(bytes, n)[i] = bytes[i]
<1>1. n \in Nat /\ n <= size /\ DOMAIN bytes = 0 .. size - 1
      /\ \A i \in 0 .. size - 1 : bytes[i] \in Byte
  BY DEF Block
<1>2. ASSUME NEW i \in 0 .. size - 1
      PROVE  (IF i < n THEN Xored(bytes[i], IF i = n - 1 THEN Seed ELSE bytes[i + 1])
                       ELSE bytes[i]) \in Byte
  <2>1. i < n /\ i # n - 1 => i + 1 \in 0 .. size - 1
    BY <1>1
  <2>. QED
    BY <1>1, <2>1, SeedIsByte, XoredFacts
<1>. QED
  BY <1>1, <1>2 DEF Unmasked, Block

(* Taking the mask off gives back the bytes it was put on. *)
LEMMA MaskComesOff ==
  ASSUME NEW n \in Nat, NEW bytes \in Block(n)
  PROVE  /\ Unmasked(Masked(bytes, n), n) \in Block(n)
         /\ \A i \in 0 .. n - 1 : Unmasked(Masked(bytes, n), n)[i] = bytes[i]
<1>. DEFINE m == Masked(bytes, n)
<1>1. n \in 0 .. n
  OBVIOUS
<1>2. /\ m \in Block(n)
      /\ \A i \in 0 .. n - 1 : m[i] = Xored(bytes[i], IF i = n - 1 THEN Seed ELSE m[i + 1])
  BY <1>1, MaskedFacts
<1>. HIDE DEF m
<1>3. /\ Unmasked(m, n) \in Block(n)
      /\ \A i \in 0 .. n - 1 :
           Unmasked(m, n)[i] = Xored(m[i], IF i = n - 1 THEN Seed ELSE m[i + 1])
  BY <1>1, <1>2, UnmaskedFacts
<1>4. ASSUME NEW i \in 0 .. n - 1 PROVE Unmasked(m, n)[i] = bytes[i]
  <2>. DEFINE x == IF i = n - 1 THEN Seed ELSE m[i + 1]
  <2>1. x \in Byte /\ bytes[i] \in Byte
    <3>1. i # n - 1 => i + 1 \in 0 .. n - 1
      OBVIOUS
    <3>. QED
      BY <1>2, <3>1, SeedIsByte DEF Block
  <2>2. m[i] = Xored(bytes[i], x) /\ Unmasked(m, n)[i] = Xored(m[i], x)
    BY <1>2, <1>3
  <2>. HIDE DEF x
  <2>. QED
    BY <2>1, <2>2, XoredTwice
<1>. QED
  BY <1>3, <1>4 DEF m

-----------------------------------------------------------------------------
(* What is read as a length. *)
LEMMA ReadableBytes ==
  ASSUME Fields, NEW index \in Nat, NEW n \in Nat, Readable(index, n)
  PROVE  \A i \in 0 .. n - 1 : data[index + i] \in Byte /\ data[index + i] \in Nat
<1>1. ASSUME NEW i \in 0 .. n - 1 PROVE data[index + i] \in Byte
  <2>1. index + i \in 0 .. capacity - 1
    BY FieldFacts DEF Readable
  <2>. QED
    BY <2>1, FieldFacts DEF Block
<1>. QED
  BY <1>1, ByteType

LEMMA LengthIsInteger ==
  ASSUME Fields, NEW k \in 1 .. 2, Readable(position, k)
  PROVE  LengthAt(k) \in Int
<1>1. position \in Nat /\ k \in Nat /\ Radix \in Nat
  BY FieldFacts, RadixType
<1>2. \A i \in 0 .. k - 1 : data[position + i] \in Nat
  BY <1>1, ReadableBytes
<1>3. data[position] \in Nat
  <2>1. data[position + 0] \in Nat
    BY <1>1, <1>2
  <2>. QED
    BY <1>1, <2>1
<1>4. CASE k = 1
  <2>1. Radix \div 2 \in Nat
    BY <1>1
  <2>. QED
    BY <1>1, <1>3, <1>4, <2>1 DEF LengthAt, Signed
<1>5. CASE k = 2
  <2>1. data[position + 1] \in Nat
    BY <1>2, <1>5
  <2>. QED
    BY <1>1, <1>3, <1>5, <2>1 DEF LengthAt
<1>. QED
  BY <1>4, <1>5

LEMMA FormIsNumber ==
  ASSUME Fields, Readable(position, 1)
  PROVE  V!FormOf(data[position]) \in 1 .. Bits + 1 /\ V!FormOf(data[position]) \in Nat
<1>1. data[position] \in VP!Byte
  <2>1. data[position + 0] \in Byte
    BY ReadableBytes, FieldFacts
  <2>. QED
    BY <2>1, FieldFacts, SameIntegers
<1>. QED
  BY <1>1, WidthOfBytes, VP!FormOfFacts, SameIntegers DEF VP!Forms

LEMMA ValueIsNumber ==
  ASSUME Fields, Readable(position, 1), Readable(position, V!FormOf(data[position]))
  PROVE  V!VarU64At(data, position).value \in Nat
<1>. DEFINE k == VP!FormOf(data[position])
<1>1. k \in VP!Forms /\ k \in Nat /\ Readable(position, k)
  BY FormIsNumber, SameIntegers DEF VP!Forms
<1>. HIDE DEF k
<1>2. ASSUME NEW i \in 1 .. k PROVE data[position + i - 1] \in VP!Byte
  <2>1. i - 1 \in 0 .. k - 1 /\ position + (i - 1) = position + i - 1
    BY <1>1, FieldFacts
  <2>2. data[position + (i - 1)] \in Byte
    BY <1>1, <2>1, ReadableBytes, FieldFacts
  <2>. QED
    BY <2>1, <2>2, SameIntegers
<1>3. VP!VarU64At(data, position).value \in VP!Values
  <2>1. position \in Nat /\ VP!FormOf(data[position]) = k
    BY FieldFacts DEF k
  <2>. QED
    BY <1>1, <1>2, <2>1, WidthOfBytes, VP!BytesAreRead
<1>. QED
  BY <1>3, WidthOfBytes, VP!ValuesType, SameIntegers

(* An int is left of a number, the number itself when it is small. *)
LEMMA IntOfFacts ==
  ASSUME NEW n \in Nat
  PROVE  /\ IntOf(n) \in Int
         /\ n < IntModulus /\ IntOf(n) >= 0 => IntOf(n) = n
         /\ n < IntModulus /\ IntOf(n) < 0 => n > MaxLimit
<1>1. IntModulus \in Nat \ {0} /\ MaxLimit < IntModulus \div 2 /\ MaxLimit \in Nat
  BY IntAssumption, BoundAssumption
<1>2. n % IntModulus \in 0 .. IntModulus - 1 /\ (n < IntModulus => n % IntModulus = n)
      /\ IntModulus \div 2 \in Nat
  BY <1>1
<1>. QED
  BY <1>1, <1>2 DEF IntOf

LEMMA ConsumedKeeps ==
  ASSUME Fields, NEW k \in Nat, Readable(position, k), Consumed(k)
  PROVE  Fields' /\ IoOK'
<1>1. position + k \in position .. limit
  BY FieldFacts DEF Readable
<1>. QED
  BY <1>1, ReadKeeps DEF Consumed

LEMMA GetKeeps ==
  ASSUME Fields, NEW n \in Nat, Get(n)
  PROVE  Fields' /\ IoOK'
<1>1. position + 0 <= limit
  BY FieldFacts
<1>. QED
  BY <1>1, TakeKeeps DEF Get

LEMMA GetBytesWithLenKeeps ==
  ASSUME Fields, NEW k \in 1 .. 2, GetBytesWithLen(k)
  PROVE  Fields' /\ IoOK'
<1>1. CASE Throws
  BY <1>1, ThrowsKeeps
<1>2. CASE Readable(position, k) /\ Take(k, LengthAt(k))
  BY <1>2, LengthIsInteger, TakeKeeps DEF Readable
<1>. QED
  BY <1>1, <1>2 DEF GetBytesWithLen

LEMMA GetVarLongKeeps == ASSUME Fields, GetVarLong PROVE Fields' /\ IoOK'
<1>1. CASE Throws
  BY <1>1, ThrowsKeeps
<1>2. CASE Readable(position, 1)
  BY <1>2, FormIsNumber, GetKeeps, ConsumedKeeps DEF GetVarLong
<1>. QED
  BY <1>1, <1>2 DEF GetVarLong

LEMMA GetVarLengthDataKeeps == ASSUME Fields, GetVarLengthData PROVE Fields' /\ IoOK'
<1>. DEFINE w == V!FormOf(data[position])
            n == V!VarU64At(data, position).value
<1>1. CASE Throws
  BY <1>1, ThrowsKeeps
<1>2. CASE Readable(position, 1) /\ Consumed(1)
  BY <1>2, ConsumedKeeps
<1>3. CASE Readable(position, 1) /\ Readable(position, w) /\ Take(w, IntOf(n))
  <2>1. w \in Nat /\ IntOf(n) \in Int
    BY <1>3, FormIsNumber, ValueIsNumber, IntOfFacts
  <2>. HIDE DEF w, n
  <2>. QED
    BY <1>3, <2>1, TakeKeeps DEF Readable
<1>. QED
  BY <1>1, <1>2, <1>3 DEF GetVarLengthData

LEMMA GetWholeKeeps ==
  ASSUME Fields, NEW longest, GetWhole(longest)
  PROVE  Fields' /\ IoOK'
<1>1. CASE Throws
  BY <1>1, ThrowsKeeps
<1>2. CASE ~Throws
  BY <1>2, FormIsNumber, GetKeeps DEF GetWhole
<1>. QED
  BY <1>1, <1>2

(* Calls that hand out what is before or behind the position. *)
LEMMA GivesKeeps ==
  ASSUME Fields, NEW n \in Nat,
         GetLastBytes \/ ToBytes \/ DumpDataToFile(n) \/ (mark = 0 /\ WriteBytesTo)
  PROVE  Fields' /\ IoOK'
<1>1. CASE GetLastBytes
  <2>1. Remaining \in Nat /\ position + Remaining <= limit /\ limit \in position .. limit
    BY FieldFacts DEF Remaining
  <2>. QED
    BY <1>1, <2>1, ReadKeeps, FieldFacts DEF GetLastBytes
<1>2. CASE ToBytes
  <2>1. position - mark \in Nat /\ mark + (position - mark) <= limit
    BY FieldFacts
  <2>. QED
    BY <1>2, <2>1, LookKeeps, FieldFacts DEF ToBytes
<1>3. CASE DumpDataToFile(n)
  <2>. DEFINE m == IF Remaining < n THEN Remaining ELSE n
  <2>1. m \in Nat /\ position + m <= limit
    BY FieldFacts DEF Remaining
  <2>. QED
    BY <1>3, <2>1, LookKeeps, FieldFacts DEF DumpDataToFile
<1>4. CASE mark = 0 /\ WriteBytesTo
  <2>1. Gives(Bytes(mark, position)) /\ mark + position <= limit
    BY <1>4, FieldFacts DEF WriteBytesTo
  <2>. QED
    BY <2>1, LookKeeps, FieldFacts
<1>. QED
  BY <1>1, <1>2, <1>3, <1>4

(* Sealing and opening. *)
LEMMA PrefixIsBytes ==
  ASSUME Fields, NEW n \in Nat, n <= limit
  PROVE  n \in 0 .. capacity /\ \A i \in 0 .. n - 1 : data[i] \in Byte
BY FieldFacts DEF Block

LEMMA ChecksumIsBlock ==
  ASSUME Fields
  PROVE  [i \in 0 .. 0 |-> Crc(data, position)] \in Block(1)
<1>1. Crc(data, position) \in Byte
  BY PrefixIsBytes, FieldFacts, CrcIsByte
<1>. QED
  BY <1>1 DEF Block

LEMMA TruncateKeeps ==
  ASSUME Fields, position = 0, mark = 0, Truncate1ByteCRC
  PROVE  Fields' /\ IoOK'
<1>1. CASE Throws
  BY <1>1, ThrowsKeeps
<1>2. CASE ~Throws
  <2>1. limit' = limit - 1 /\ limit > 0 /\ io' = NoBytes /\ UNCHANGED <<memory, position, mark>>
    BY <1>2 DEF Truncate1ByteCRC, CrcMatches
  <2>. QED
    BY <2>1, FieldFacts, NothingCarried DEF Fields, CursorOrder, memory
<1>. QED
  BY <1>1, <1>2

LEMMA MaskKeeps ==
  ASSUME Fields, ApplyXOR \/ UnapplyXOR
  PROVE  Fields' /\ IoOK'
<1>1. PICK n \in {position, limit} :
        /\ data' = Masked(data, n) \/ data' = Unmasked(data, n)
        /\ io' = [i \in 0 .. n - 1 |-> data'[i]]
        /\ UNCHANGED <<capacity, cursors>>
  BY DEF ApplyXOR, UnapplyXOR
<1>2. n \in Nat /\ n \in 0 .. capacity /\ n <= MaxLimit
  BY FieldFacts
<1>3. data' \in Block(capacity)
  BY <1>1, <1>2, FieldFacts, MaskedFacts, UnmaskedFacts
<1>4. io' \in Block(n)
  BY <1>1, <1>2, <1>3, FieldFacts DEF Block
<1>5. IoOK'
  BY <1>2, <1>4, FieldFacts DEF IoOK
<1>. QED
  BY <1>1, <1>3, <1>5, FieldFacts DEF Fields, CursorOrder, cursors

-----------------------------------------------------------------------------
(* What callers pass is in the types the lemmas ask for. *)
LEMMA Arguments ==
  /\ Sizes \subseteq Nat /\ Lengths \subseteq Nat /\ 0 \in Sizes /\ MaxLimit \in Nat
  /\ \A n \in Lengths : \A block \in [0 .. n - 1 -> PutByte] : block \in Block(n)
<1>1. \A n : \A block \in [0 .. n - 1 -> PutByte] : block \in Block(n)
  BY BoundAssumption DEF Block, Byte, Radix
<1>. QED
  BY <1>1, BoundAssumption DEF Sizes, Lengths

(* What a file leaves in the buffer: its bytes, then zeroes. *)
FromFile(n, m, bytes) == [i \in 0 .. n - 1 |-> IF i < m THEN bytes[i] ELSE 0]

LEMMA FileIsBlock ==
  ASSUME NEW n \in Nat, NEW m, NEW bytes \in Block(n)
  PROVE  FromFile(n, m, bytes) \in Block(n)
BY ByteType DEF FromFile, Block

(* The calls, one group per kind. *)
Moves ==
  \/ \E n \in Sizes : SetPosition(n)
  \/ Compact \/ Mark \/ Reset \/ Clear \/ Flip \/ Rewind
Reads ==
  \/ \E n \in Lengths : Get(n)
  \/ \E n \in Lengths : \E index \in Sizes : GetAt(index, n)
  \/ position < limit /\ data[position] < Radix \div 2 /\ GetBytesWithLen(1)
  \/ GetBytesWithLen(2)
  \/ GetVarLong \/ GetVarLongBytes \/ GetTypdex
  \/ LengthIsInt /\ GetVarLengthData
Hands ==
  \/ \E n \in Sizes : DumpDataToFile(n)
  \/ GetLastBytes \/ ToBytes
  \/ mark = 0 /\ WriteBytesTo
Puts(n, block) ==
  \/ Fits(position + n) /\ Put(n, block)
  \/ \E index \in Sizes : Fits(index + n) /\ PutAt(index, n, block)
  \/ \E m \in 0 .. n - 1 : Fits(position + n) /\ ReadDataFromFile(n, m, block)
  \/ Fits(position + VarWidth(n) + n) /\ PutVarLengthData(n, block)
  \/ \E k \in 1 .. 2 : Fits(position + k + n) /\ PutBytesWithLen(k, n, block)
PutsNumber ==
  \E v \in 0 .. V!Base[2] + 1 : Fits(position + VarWidth(v)) /\ PutVarLong(v)
Seals ==
  \/ Fits(position + 1) /\ Put1ByteCRC
  \/ position = 0 /\ mark = 0 /\ Truncate1ByteCRC
  \/ ApplyXOR \/ UnapplyXOR

LEMMA NextInGroups ==
  ASSUME [Next]_vars
  PROVE  \/ Moves \/ Reads \/ Hands \/ PutsNumber \/ Seals \/ Throws \/ UNCHANGED vars
         \/ \E n \in Lengths : \E block \in [0 .. n - 1 -> PutByte] : Puts(n, block)
<1>1. \A k, n : PutBytesWithLenThrows(k, n) => Throws
  BY DEF PutBytesWithLenThrows
<1>2. PutTypdexThrows => Throws
  BY DEF PutTypdexThrows
<1>. QED
  BY <1>1, <1>2, Zenon DEF Next, Moves, Reads, Hands, PutsNumber, Seals, Puts

LEMMA MovesKeep == ASSUME Fields, Moves PROVE Fields' /\ IoOK'
<1>1. CASE Compact
  BY <1>1, CompactKeeps
<1>2. ASSUME NEW n \in Sizes, SetPosition(n) \/ Mark \/ Reset \/ Clear \/ Flip \/ Rewind
      PROVE  Fields' /\ IoOK'
  BY <1>2, Arguments, CursorsMoveKeeps
<1>. QED
  BY <1>1, <1>2, Arguments DEF Moves

LEMMA ReadsKeep == ASSUME Fields, Reads PROVE Fields' /\ IoOK'
<1>1. CASE \E n \in Lengths : Get(n)
  BY <1>1, Arguments, GetKeeps
<1>2. CASE \E n \in Lengths : \E index \in Sizes : GetAt(index, n)
  BY <1>2, Arguments, GetAtKeeps
<1>3. CASE \E k \in 1 .. 2 : GetBytesWithLen(k)
  BY <1>3, GetBytesWithLenKeeps
<1>4. CASE GetVarLong \/ GetVarLengthData
  BY <1>4, GetVarLongKeeps, GetVarLengthDataKeeps
<1>5. CASE GetVarLongBytes \/ GetTypdex
  BY <1>5, GetWholeKeeps DEF GetVarLongBytes, GetTypdex
<1>. QED
  BY <1>1, <1>2, <1>3, <1>4, <1>5 DEF Reads

LEMMA HandsKeep == ASSUME Fields, Hands PROVE Fields' /\ IoOK'
BY GivesKeeps, Arguments DEF Hands

LEMMA PutsKeep ==
  ASSUME Fields, NEW n \in Lengths, NEW block \in [0 .. n - 1 -> PutByte], Puts(n, block)
  PROVE  Fields' /\ IoOK'
<1>0. n \in Nat /\ block \in Block(n)
  BY Arguments
<1>1. CASE Fits(position + n) /\ Put(n, block)
  BY <1>0, <1>1, PutKeeps
<1>2. CASE \E index \in Sizes : Fits(index + n) /\ PutAt(index, n, block)
  BY <1>0, <1>2, Arguments, PutAtKeeps
<1>3. CASE \E m \in 0 .. n - 1 : Fits(position + n) /\ ReadDataFromFile(n, m, block)
  <2>1. PICK m \in 0 .. n - 1 : Fits(position + n) /\ Put(n, FromFile(n, m, block))
    BY <1>3 DEF ReadDataFromFile, FromFile
  <2>. QED
    BY <1>0, <2>1, FileIsBlock, PutKeeps
<1>4. CASE Fits(position + VarWidth(n) + n) /\ PutVarLengthData(n, block)
  <2>1. VarWidth(n) \in Nat /\ VarHeader(n) \in Block(VarWidth(n))
    BY ValuesPut, VarHeaderBytes
  <2>. QED
    BY <1>0, <1>4, <2>1, PutFramedKeeps DEF PutVarLengthData
<1>5. CASE \E k \in 1 .. 2 : Fits(position + k + n) /\ PutBytesWithLen(k, n, block)
  BY <1>0, <1>5, HeaderBytes, PutFramedKeeps DEF PutBytesWithLen
<1>. QED
  BY <1>1, <1>2, <1>3, <1>4, <1>5 DEF Puts

LEMMA PutsNumberKeeps == ASSUME Fields, PutsNumber PROVE Fields' /\ IoOK'
<1>1. PICK v \in 0 .. V!Base[2] + 1 : Fits(position + VarWidth(v)) /\ PutVarLong(v)
  BY DEF PutsNumber
<1>2. VarWidth(v) \in Nat /\ VarHeader(v) \in Block(VarWidth(v))
  BY ValuesPut, VarHeaderBytes
<1>. QED
  BY <1>1, <1>2, PutKeeps DEF PutVarLong

LEMMA SealsKeep == ASSUME Fields, Seals PROVE Fields' /\ IoOK'
<1>1. CASE Fits(position + 1) /\ Put1ByteCRC
  BY <1>1, ChecksumIsBlock, PutKeeps DEF Put1ByteCRC
<1>2. CASE position = 0 /\ mark = 0 /\ Truncate1ByteCRC
  BY <1>2, TruncateKeeps
<1>3. CASE ApplyXOR \/ UnapplyXOR
  BY <1>3, MaskKeeps
<1>. QED
  BY <1>1, <1>2, <1>3 DEF Seals

(* Every call keeps the types and the order, whether it returns or throws. *)
LEMMA NextKeepsIInv == IInv /\ [Next]_vars => IInv'
<1>. SUFFICES ASSUME Fields, IoOK, [Next]_vars PROVE Fields' /\ IoOK'
  BY DEF IInv
<1>1. CASE UNCHANGED vars
  BY <1>1 DEF vars, memory, cursors, Fields, IoOK, CursorOrder
<1>. QED
  BY <1>1, NextInGroups, MovesKeep, ReadsKeep, HandsKeep, PutsKeep, PutsNumberKeeps,
     SealsKeep, ThrowsKeeps

LEMMA IInvHolds == Spec => []IInv
BY InitIInv, NextKeepsIInv, PTL DEF Spec

(* The array has its size and holds bytes, whatever it held before, and      *)
(* every block put or given back consists of bytes, whatever calls are made. *)
THEOREM TypeCorrect == Spec => []TypeOK
<1>1. IInv => TypeOK
  BY DEF IInv, Fields, IoOK, TypeOK
<1>. QED
  BY <1>1, IInvHolds, PTL

(* 0 <= mark <= position <= limit <= capacity after every sequence of calls, *)
(* those that threw halfway included.                                        *)
THEOREM CursorsOrdered == Spec => []CursorOrder
<1>1. IInv => CursorOrder
  BY DEF IInv, Fields
<1>. QED
  BY <1>1, IInvHolds, PTL

(* Whatever a buffer holds before its position, the bytes with their checksum *)
(* behind them, masked, come apart again: unmasked, the checksum is that of   *)
(* the other bytes, and those are what they were.                             *)
THEOREM SealsOpen == Spec => []SealOpens
<1>1. ASSUME Fields PROVE SealOpens
  <2>. DEFINE n == position
              signed == [i \in 0 .. n |-> IF i < n THEN data[i] ELSE Crc(data, n)]
              opened == Unmasked(Masked(signed, n + 1), n + 1)
  <2>1. n \in Nat /\ n + 1 \in Nat /\ n <= limit
    BY <1>1, FieldFacts
  <2>2. \A i \in 0 .. n - 1 : data[i] \in Byte
    BY <1>1, <2>1, PrefixIsBytes
  <2>3. Crc(data, n) \in Byte
    BY <2>1, <2>2, CrcIsByte
  <2>4. /\ signed \in Block(n + 1)
        /\ \A i \in 0 .. n - 1 : signed[i] = data[i]
        /\ signed[n] = Crc(data, n)
    BY <2>1, <2>2, <2>3 DEF Block
  <2>. HIDE DEF signed
  <2>5. \A i \in 0 .. n : opened[i] = signed[i]
    <3>1. \A i \in 0 .. (n + 1) - 1 : opened[i] = signed[i]
      BY <2>1, <2>4, MaskComesOff
    <3>. QED
      BY <2>1, <3>1
  <2>. HIDE DEF opened
  <2>6. \A i \in 0 .. n - 1 : data[i] \in Byte /\ opened[i] = data[i]
    BY <2>1, <2>2, <2>4, <2>5
  <2>7. Crc(data, n) = Crc(opened, n)
    <3>. HIDE DEF n
    <3>. QED
      BY <2>1, <2>6, CrcAgrees
  <2>8. opened[n] = Crc(opened, n)
    BY <2>1, <2>4, <2>5, <2>7
  <2>9. CrcMatches(opened, n + 1)
    <3>1. (n + 1) - 1 = n /\ n + 1 > 0
      BY <2>1
    <3>. QED
      BY <2>8, <3>1 DEF CrcMatches
  <2>. QED
    BY <2>6, <2>9 DEF SealOpens, signed, opened
<1>. QED
  BY <1>1, IInvHolds, PTL DEF IInv

-----------------------------------------------------------------------------
(* The buffer is a tape: the bytes of the array below the limit, the position *)
(* as head and the mark as bookmark.  One lemma per group of calls.           *)
View == [i \in 0 .. limit - 1 |-> data[i]]

LEMMA SameBlocks == (\A n : Tape!Block(n) = Block(n)) /\ Tape!NoBytes = NoBytes
BY DEF Tape!Block, Tape!Byte, Tape!NoBytes, Block, Byte, NoBytes

LEMMA ViewIsTape ==
  ASSUME Fields
  PROVE  View \in Block(limit) /\ \A i \in 0 .. limit - 1 : View[i] = data[i] /\ i \in 0 .. capacity - 1
BY FieldFacts DEF View, Block

LEMMA NextViewIsTape ==
  ASSUME Fields'
  PROVE  /\ View' \in Tape!Block(limit') /\ limit' \in Nat
         /\ \A i \in 0 .. limit' - 1 : View'[i] = data'[i] /\ i \in 0 .. capacity' - 1
BY NextFieldFacts, SameBlocks DEF View, Block

LEMMA InitRefines == Init => Tape!Init
<1>. SUFFICES ASSUME Init PROVE Tape!Init
  OBVIOUS
<1>1. View \in Tape!Block(limit) /\ limit \in Nat
  BY InitIInv, ViewIsTape, SameBlocks, FieldFacts DEF IInv
<1>. QED
  BY <1>1, SameBlocks DEF Init, Tape!Init, View

(* A call that moves the cursors over memory it leaves alone, or the unread  *)
(* bytes to the front.                                                       *)
LEMMA ThrowsRefines == ASSUME Fields, Throws PROVE Tape!Refuse(0)
<1>1. View' = View
  BY DEF Throws, memory, cursors, View
<1>. QED
  BY <1>1, FieldFacts DEF Throws, cursors, Tape!Refuse, View

LEMMA MovesRefine ==
  ASSUME Fields, Fields', NEW n \in Nat,
         SetPosition(n) \/ Mark \/ Reset \/ Clear \/ Flip \/ Rewind \/ Throws
  PROVE  Tape!CodedNext
<1>1. data' = data
  BY DEF SetPosition, Mark, Reset, Clear, Flip, Rewind, Throws, memory
<1>2. limit' = limit => View' = View
  BY <1>1 DEF View
<1>3. ASSUME Throws PROVE Tape!Refuse(0)
  BY <1>2, <1>3, FieldFacts DEF Throws, cursors, Tape!Refuse, View
<1>4. ASSUME (SetPosition(n) /\ ~Throws) \/ Reset PROVE Tape!Seek
  <2>1. limit' = limit /\ position' \in mark .. limit /\ mark' = mark /\ io' = NoBytes
    BY <1>4, FieldFacts DEF SetPosition, Reset
  <2>. QED
    BY <1>2, <2>1, SameBlocks DEF Tape!Seek, View
<1>5. ASSUME Mark PROVE Tape!SetBookmark
  BY <1>2, <1>5, SameBlocks DEF Mark, Tape!SetBookmark, View
<1>6. ASSUME Clear \/ Rewind PROVE Tape!Restart
  <2>1. limit <= limit' /\ position' = 0 /\ mark' = 0 /\ io' = NoBytes
    BY <1>6, FieldFacts DEF Clear, Rewind
  <2>2. ASSUME NEW i \in 0 .. limit - 1 PROVE View'[i] = View[i]
    <3>1. i \in 0 .. limit' - 1
      BY <2>1, FieldFacts, NextFieldFacts
    <3>. QED
      BY <1>1, <3>1, ViewIsTape, NextViewIsTape
  <2>3. View' \in Tape!Block(limit') /\ limit' \in Nat /\ limit' >= limit
    BY <2>1, NextViewIsTape, FieldFacts
  <2>. QED
    BY <2>1, <2>2, <2>3, SameBlocks DEF Tape!Restart, View
<1>7. ASSUME Flip PROVE Tape!Cut
  <2>1. View' = [i \in 0 .. limit' - 1 |-> View[i]]
    BY <1>1, <1>7, FieldFacts DEF Flip, View
  <2>. QED
    BY <1>7, <2>1, SameBlocks DEF Flip, Tape!Cut, View
<1>. QED
  BY <1>3, <1>4, <1>5, <1>6, <1>7 DEF Tape!CodedNext, Tape!Next

LEMMA CompactRefines ==
  ASSUME Fields, Fields', Compact
  PROVE  Tape!Drop \/ Tape!Look
<1>1. CASE Gives(NoBytes)
  <2>1. View' = View /\ limit' = limit /\ position' = position /\ mark' = mark /\ io' = NoBytes
    BY <1>1 DEF Gives, memory, cursors, View
  <2>2. 0 \in 0 .. limit /\ 0 - 0 - 1 = -1 /\ 0 .. -1 = {}
    BY FieldFacts
  <2>3. io' = [i \in 0 .. 0 - 0 - 1 |-> View[0 + i]]
    BY <2>1, <2>2 DEF NoBytes
  <2>. QED
    BY <2>1, <2>2, <2>3 DEF Tape!Look, View
<1>2. CASE ~Gives(NoBytes)
  <2>1. /\ data' = [i \in DOMAIN data |-> IF i < Remaining THEN data[position + i] ELSE data[i]]
        /\ limit' = Remaining /\ position' = 0 /\ mark' = 0 /\ io' = NoBytes
    BY <1>2 DEF Compact
  <2>2. limit' = limit - position /\ DOMAIN data = 0 .. capacity - 1
    BY <2>1, FieldFacts DEF Remaining, Block
  <2>3. ASSUME NEW i \in 0 .. limit' - 1 PROVE View'[i] = View[position + i]
    <3>1. i \in 0 .. capacity - 1 /\ i < Remaining /\ position + i \in 0 .. limit - 1
      BY <2>1, <2>2, FieldFacts
    <3>. QED
      BY <2>1, <2>2, <3>1, ViewIsTape, NextViewIsTape
  <2>4. View' = [i \in 0 .. limit' - 1 |-> View[position + i]]
    BY <2>3 DEF View
  <2>. QED
    BY <2>1, <2>2, <2>4, SameBlocks DEF Tape!Drop, View
<1>. QED
  BY <1>1, <1>2

-----------------------------------------------------------------------------
(* A write leaves the tape as it was, but for the block it puts there. *)
OnTape(index, n, block) ==
  /\ View' \in Tape!Block(limit') /\ limit' \in Nat
  /\ limit' >= limit /\ limit' = Tape!MAX(limit, index + n) /\ index + n <= limit'
  /\ \A i \in 0 .. limit - 1 : (i < index \/ i >= index + n) => View'[i] = View[i]
  /\ \A i \in 0 .. n - 1 : View'[index + i] = block[i]

LEMMA WriteOnTape ==
  ASSUME Fields, Fields', NEW index \in Nat, NEW n \in Nat, NEW block,
         Written(index, n, block)
  PROVE  OnTape(index, n, block)
<1>1. /\ limit' = (IF index + n > limit THEN index + n ELSE limit)
      /\ limit' \in Nat /\ limit <= limit' /\ index + n <= limit'
      /\ \A i \in 0 .. n - 1 : data'[index + i] = block[i]
      /\ \A i \in 0 .. limit - 1 : (i < index \/ i >= index + n) => data'[i] = data[i]
  BY DEF Written
<1>2. limit' >= limit /\ limit' = Tape!MAX(limit, index + n)
  BY <1>1, FieldFacts DEF Tape!MAX
<1>3. ASSUME NEW i \in 0 .. limit - 1, i < index \/ i >= index + n PROVE View'[i] = View[i]
  <2>1. i \in 0 .. limit' - 1
    BY <1>1, FieldFacts
  <2>. QED
    BY <1>1, <1>3, <2>1, ViewIsTape, NextViewIsTape
<1>4. ASSUME NEW i \in 0 .. n - 1 PROVE View'[index + i] = block[i]
  <2>1. index + i \in 0 .. limit' - 1
    BY <1>1
  <2>. QED
    BY <1>1, <2>1, NextViewIsTape
<1>5. View' \in Tape!Block(limit')
  BY NextViewIsTape
<1>6. \A i \in 0 .. limit - 1 : (i < index \/ i >= index + n) => View'[i] = View[i]
  BY <1>3
<1>7. \A i \in 0 .. n - 1 : View'[index + i] = block[i]
  BY <1>4
<1>. QED
  BY <1>1, <1>2, <1>5, <1>6, <1>7 DEF OnTape

(* A block of n bytes behind a header of k bytes goes over the tape. *)
LEMMA OverwriteRefines ==
  ASSUME Fields, Fields', NEW k \in Nat, NEW n \in Nat, NEW bytes \in Block(k + n),
         Written(position, k + n, bytes),
         position' = position + k + n, mark' = mark,
         io' = [i \in 0 .. n - 1 |-> bytes[k + i]]
  PROVE  /\ Tape!Overwrite(k)
         /\ position' - position - k = n
         /\ \A i \in 0 .. k - 1 : View'[position + i] = bytes[i]
<1>0. position \in Nat
  BY FieldFacts
<1>1. k + n \in Nat /\ position \in Nat /\ position + (k + n) = position'
      /\ position' - position - k = n /\ position' - position - k - 1 = n - 1
      /\ position' \in Nat /\ position' >= position + k
  <2>1. PICK p \in Nat : p = position
    BY <1>0
  <2>2. PICK e \in Nat : e = p + k + n
    OBVIOUS
  <2>3. /\ k + n \in Nat /\ p + (k + n) = e /\ e - p - k = n
        /\ e - p - k - 1 = n - 1 /\ e >= p + k
    BY <2>2
  <2>4. position' = e
    BY <2>1, <2>2
  <2>. QED
    BY <2>1, <2>3, <2>4
<1>2. /\ View' \in Tape!Block(limit') /\ limit' \in Nat
      /\ limit' = Tape!MAX(limit, position')
      /\ \A i \in 0 .. limit - 1 : (i < position \/ i >= position') => View'[i] = View[i]
      /\ \A i \in 0 .. (k + n) - 1 : View'[position + i] = bytes[i]
  <2>1. PICK s \in Nat : s = k + n
    BY <1>1
  <2>2. Written(position, s, bytes)
    BY <2>1
  <2>3. OnTape(position, s, bytes)
    BY <1>0, <2>2, WriteOnTape
  <2>. QED
    BY <1>1, <2>1, <2>3 DEF OnTape
<1>3. ASSUME NEW i \in 0 .. n - 1 PROVE View'[position + k + i] = bytes[k + i]
  <2>1. k + i \in 0 .. (k + n) - 1 /\ position + (k + i) = position + k + i
    BY <1>1
  <2>. QED
    BY <1>2, <2>1
<1>4. io' = [i \in 0 .. position' - position - k - 1 |-> View'[position + k + i]]
  BY <1>1, <1>3
<1>5. \A i \in 0 .. k - 1 : View'[position + i] = bytes[i]
  <2>. SUFFICES ASSUME NEW i \in 0 .. k - 1 PROVE View'[position + i] = bytes[i]
    OBVIOUS
  <2>1. i \in 0 .. (k + n) - 1
    OBVIOUS
  <2>. QED
    BY <1>2, <2>1
<1>. QED
  BY <1>1, <1>2, <1>4, <1>5 DEF Tape!Overwrite, View

LEMMA PutFramedRefines ==
  ASSUME Fields, Fields', NEW k \in Nat, NEW header \in Block(k), NEW n \in Nat,
         NEW block \in Block(n), Fits(position + k + n), PutFramed(k, header, n, block)
  PROVE  /\ Tape!Overwrite(k)
         /\ position' - position - k = n
         /\ \A i \in 0 .. k - 1 : View'[position + i] = header[i]
<1>. DEFINE bytes == Frame(k, header, n, block)
<1>1. Written(position, k + n, bytes) /\ position' = position + k + n /\ mark' = mark /\ io' = block
  BY PutFramedKeeps DEF PutFramed
<1>2. bytes \in Block(k + n) /\ \A i \in 0 .. k - 1 : bytes[i] = header[i]
  BY FrameIsBlock
<1>3. io' = [i \in 0 .. n - 1 |-> bytes[k + i]]
  <2>1. \A i \in 0 .. n - 1 : bytes[k + i] = block[i]
    BY FrameIsBlock
  <2>. HIDE DEF bytes
  <2>2. block = [i \in 0 .. n - 1 |-> block[i]]
    BY DEF Block
  <2>. QED
    BY <1>1, <2>1, <2>2
<1>. HIDE DEF bytes
<1>. QED
  BY <1>1, <1>2, <1>3, OverwriteRefines

LEMMA PutRefines ==
  ASSUME Fields, Fields', NEW n \in Nat, NEW block \in Block(n), Fits(position + n), Put(n, block)
  PROVE  Tape!Overwrite(0)
<1>1. position + 0 + n = position + n
  BY FieldFacts
<1>. QED
  BY <1>1, NoBytesIsBlock, PutFramedRefines DEF Put

LEMMA PutAtRefines ==
  ASSUME Fields, Fields', NEW index \in Nat, NEW n \in Nat, NEW block \in Block(n),
         Fits(index + n), PutAt(index, n, block)
  PROVE  Tape!Patch
<1>. DEFINE to == index + n
<1>1. /\ View' \in Tape!Block(limit') /\ limit' \in Nat /\ limit' >= limit
      /\ limit' = Tape!MAX(limit, to) /\ to <= limit'
      /\ \A i \in 0 .. limit - 1 : (i < index \/ i >= to) => View'[i] = View[i]
      /\ \A i \in 0 .. n - 1 : View'[index + i] = block[i]
  <2>1. Written(index, n, block)
    BY WriteKeeps DEF PutAt
  <2>2. OnTape(index, n, block)
    BY <2>1, WriteOnTape
  <2>. QED
    BY <2>2 DEF OnTape
<1>2. index \in 0 .. limit' /\ to \in 0 .. limit' /\ index <= to /\ to - index - 1 = n - 1
  BY <1>1
<1>3. io' = [i \in 0 .. to - index - 1 |-> View'[index + i]]
  BY <1>1, <1>2 DEF PutAt, Block
<1>. HIDE DEF to
<1>. QED
  BY <1>1, <1>2, <1>3 DEF PutAt, Tape!Patch, View

-----------------------------------------------------------------------------
(* Bytes that are read below the limit are bytes of the tape. *)
LEMMA BytesOnTape ==
  ASSUME Fields, NEW from \in Nat, NEW n \in Nat, from + n <= limit
  PROVE  Bytes(from, n) = [i \in 0 .. n - 1 |-> View[from + i]]
<1>1. ASSUME NEW i \in 0 .. n - 1 PROVE View[from + i] = data[from + i]
  BY ViewIsTape, FieldFacts
<1>. QED
  BY <1>1 DEF Bytes

LEMMA LookRefines ==
  ASSUME Fields, NEW from \in Nat, NEW n \in Nat, from + n <= limit,
         UNCHANGED <<memory, cursors>>, io' = Bytes(from, n)
  PROVE  Tape!Look
<1>. DEFINE to == from + n
<1>1. from \in 0 .. limit /\ to \in 0 .. limit /\ from <= to /\ to - from - 1 = n - 1
  BY FieldFacts
<1>2. io' = [i \in 0 .. to - from - 1 |-> View[from + i]]
  BY <1>1, BytesOnTape
<1>3. View' = View
  BY DEF memory, cursors, View
<1>. HIDE DEF to
<1>. QED
  BY <1>1, <1>2, <1>3 DEF Tape!Look, View, cursors

(* A block behind a header of k bytes, or a block that is not there. *)
LEMMA TakeOnTape ==
  ASSUME Fields, NEW k \in Nat, position + k <= limit, NEW n \in Int, Take(k, n)
  PROVE  /\ UNCHANGED <<View, limit, mark>>
         /\ \/ /\ n < 0 \/ position' + n > limit
               /\ position' = position + k /\ io' = Null
            \/ /\ n \in Nat /\ position' = position + k + n /\ position' <= limit
               /\ io' = [i \in 0 .. n - 1 |-> View[position + k + i]]
<1>0. UNCHANGED <<View, limit, mark>>
  BY DEF Take, Consumed, memory, View
<1>1. position + k \in Nat /\ limit \in Nat
  BY FieldFacts
<1>2. CASE (n < 0 \/ ~Readable(position + k, n)) /\ Consumed(k)
  BY <1>0, <1>1, <1>2 DEF Consumed, Readable
<1>3. CASE n >= 0 /\ Readable(position + k, n) /\ position' = position + k + n
           /\ io' = Bytes(position + k, n)
  <2>1. n \in Nat /\ (position + k) + n <= limit
    BY <1>3 DEF Readable
  <2>2. io' = [i \in 0 .. n - 1 |-> View[position + k + i]]
    BY <1>1, <1>3, <2>1, BytesOnTape
  <2>. QED
    BY <1>0, <1>3, <2>1, <2>2
<1>. QED
  BY <1>2, <1>3 DEF Take

LEMMA TakeRefines ==
  ASSUME Fields, NEW k \in 0 .. 2, position + k <= limit, NEW n \in Nat,
         k > 0 => n = Tape!Announced(k), Take(k, n)
  PROVE  Tape!Take(k) \/ Tape!Refuse(k)
<1>0. UNCHANGED <<View, limit, mark>>
  BY TakeOnTape
<1>1. CASE position' + n > limit /\ position' = position + k /\ io' = Null
  BY <1>0, <1>1 DEF Tape!Refuse, View
<1>2. CASE position' = position + k + n /\ position' <= limit
           /\ io' = [i \in 0 .. n - 1 |-> View[position + k + i]]
  <2>0. position \in Nat
    BY FieldFacts
  <2>1. position' \in Nat /\ position' >= position + k /\ position' - position - k - 1 = n - 1
    BY <1>2, <2>0
  <2>. QED
    BY <1>0, <1>2, <2>1 DEF Tape!Take, View
<1>. QED
  BY <1>1, <1>2, TakeOnTape

LEMMA GetRefines ==
  ASSUME Fields, NEW n \in Nat, Get(n)
  PROVE  Tape!Take(0) \/ Tape!Refuse(0)
<1>1. position + 0 <= limit
  BY FieldFacts
<1>. QED
  BY <1>1, TakeRefines DEF Get

(* The length in front of a block is the one the tape announces: one of a    *)
(* byte, when its highest bit is not set.                                    *)
LEMMA LengthOnTape ==
  ASSUME Fields, NEW k \in 1 .. 2, Readable(position, k),
         k = 1 => data[position] < Radix \div 2
  PROVE  LengthAt(k) \in Nat /\ LengthAt(k) = Tape!Announced(k)
<1>1. View[position] = data[position] /\ (k = 2 => View[position + 1] = data[position + 1])
  BY ViewIsTape, FieldFacts DEF Readable
<1>2. position \in Nat /\ k \in Nat /\ Radix \in Nat
  BY FieldFacts, RadixType
<1>3. \A i \in 0 .. k - 1 : data[position + i] \in Nat
  BY <1>2, ReadableBytes
<1>4. data[position] \in Nat
  <2>1. data[position + 0] \in Nat
    BY <1>2, <1>3
  <2>. QED
    BY <1>2, <2>1
<1>5. CASE k = 1
  <2>1. LengthAt(k) = data[position]
    <3>1. Radix \div 2 \in Nat
      BY <1>2
    <3>. QED
      BY <1>4, <1>5, <3>1 DEF LengthAt, Signed
  <2>. QED
    BY <1>1, <1>4, <1>5, <2>1 DEF Tape!Announced, View
<1>6. CASE k = 2
  <2>1. data[position + 1] \in Nat
    BY <1>3, <1>6
  <2>2. LengthAt(k) = (data[position] * Radix) + data[position + 1]
    BY <1>6 DEF LengthAt
  <2>. QED
    BY <1>1, <1>2, <1>4, <1>6, <2>1, <2>2 DEF Tape!Announced, View
<1>. QED
  BY <1>5, <1>6

LEMMA GetBytesWithLenRefines ==
  ASSUME Fields, NEW k \in 1 .. 2, k = 1 => position < limit /\ data[position] < Radix \div 2,
         GetBytesWithLen(k)
  PROVE  Tape!Refuse(0) \/ Tape!Take(k) \/ Tape!Refuse(k)
<1>1. CASE Throws
  BY <1>1, ThrowsRefines
<1>2. CASE Readable(position, k) /\ Take(k, LengthAt(k))
  <2>1. LengthAt(k) \in Nat /\ LengthAt(k) = Tape!Announced(k)
    BY <1>2, LengthOnTape
  <2>2. position + k <= limit /\ k \in 0 .. 2
    BY <1>2 DEF Readable
  <2>. QED
    BY <1>2, <2>1, <2>2, TakeRefines
<1>. QED
  BY <1>1, <1>2 DEF GetBytesWithLen

-----------------------------------------------------------------------------
(* The integers of the tape are those of the buffer. *)
LEMMA SameTapeIntegers ==
  /\ \A v : Tape!V!VarU64Bytes(v) = V!VarU64Bytes(v)
  /\ \A v : Tape!V!Form(v) = V!Form(v)
  /\ \A b : Tape!V!FormOf(b) = V!FormOf(b)
  /\ \A w, p : Tape!V!VarU64At(w, p) = V!VarU64At(w, p)
BY DEF V!VarU64Bytes, Tape!V!VarU64Bytes, V!FormOf, Tape!V!FormOf, V!Form, Tape!V!Form,
       V!Base, Tape!V!Base, V!Forms, Tape!V!Forms, V!ByteValues, Tape!V!ByteValues,
       V!Payloads, Tape!V!Payloads, V!Lead, Tape!V!Lead,
       V!VarU64At, Tape!V!VarU64At, V!PayloadAt, Tape!V!PayloadAt

(* The header at the head of the tape. *)
LEMMA VarOnTape ==
  ASSUME Fields, Readable(position, 1)
  PROVE  LET w == V!FormOf(data[position])
         IN  /\ Tape!VarComplete <=> Readable(position, w)
             /\ Readable(position, w) =>
                  /\ Tape!VarWidth = w
                  /\ Tape!VarAnnounced = V!VarU64At(data, position).value
<1>. DEFINE w == V!FormOf(data[position])
<1>1. w \in 1 .. Bits + 1 /\ w \in Nat
  BY FormIsNumber
<1>2. View[position] = data[position] /\ position < limit
  BY ViewIsTape, FieldFacts DEF Readable
<1>3. Tape!VarComplete <=> position + w <= limit
  BY <1>2, SameTapeIntegers DEF Tape!VarComplete, View
<1>4. ASSUME Readable(position, w) PROVE V!VarU64At(View, position) = V!VarU64At(data, position)
  <2>1. VP!FormOf(data[position]) = w /\ w \in VP!Forms /\ position \in Nat
    BY <1>1, SameIntegers, FieldFacts DEF VP!Forms
  <2>. HIDE DEF w
  <2>2. ASSUME NEW i \in 1 .. w
        PROVE  data[position + i - 1] \in VP!Byte
               /\ View[position + i - 1] = data[position + i - 1]
    <3>1. position + i - 1 \in 0 .. limit - 1
      BY <1>1, <1>4, FieldFacts DEF Readable
    <3>2. position + i - 1 \in 0 .. capacity - 1
      BY <3>1, ViewIsTape
    <3>. QED
      BY <3>1, <3>2, ViewIsTape, FieldFacts, SameIntegers DEF Block
  <2>3. VP!VarU64At(View, position) = VP!VarU64At(data, position)
    BY <2>1, <2>2, WidthOfBytes, VP!ReadDependsOnItsBytes
  <2>. QED
    BY <2>3, SameIntegers
<1>5. V!VarU64At(View, position).width = w
  BY <1>2 DEF V!VarU64At
<1>6. Tape!V!VarU64At(View, position) = V!VarU64At(View, position)
  BY SameTapeIntegers
<1>. QED
  BY <1>3, <1>4, <1>5, <1>6 DEF Readable, Tape!VarWidth, Tape!VarAnnounced, View

(* A number cut short costs its first byte. *)
LEMMA CutShortRefines ==
  ASSUME Fields, Readable(position, 1), ~Readable(position, V!FormOf(data[position])), Consumed(1)
  PROVE  Tape!RefuseVar
<1>1. ~Tape!VarComplete
  BY VarOnTape
<1>2. position < limit
  BY FieldFacts DEF Readable
<1>3. UNCHANGED <<View, limit, mark>>
  BY DEF Consumed, memory, View
<1>. QED
  BY <1>1, <1>2, <1>3 DEF Consumed, Tape!RefuseVar, View

LEMMA GetVarLongRefines ==
  ASSUME Fields, GetVarLong
  PROVE  Tape!Refuse(0) \/ Tape!Take(0) \/ Tape!RefuseVar
<1>1. CASE Throws
  BY <1>1, ThrowsRefines
<1>2. CASE Readable(position, 1)
  BY <1>2, FormIsNumber, GetRefines, CutShortRefines DEF GetVarLong
<1>. QED
  BY <1>1, <1>2 DEF GetVarLong

(* The length that is announced, when an int has bits for it, is the one that *)
(* is read; cut to less than zero it was beyond every limit.                  *)
LEMMA GetVarLengthDataRefines ==
  ASSUME Fields, LengthIsInt, GetVarLengthData
  PROVE  Tape!Refuse(0) \/ Tape!TakeVar \/ Tape!RefuseVar
<1>. DEFINE w == V!FormOf(data[position])
            n == V!VarU64At(data, position).value
<1>1. CASE Throws
  BY <1>1, ThrowsRefines
<1>2. CASE Readable(position, 1) /\ ~Readable(position, w) /\ Consumed(1)
  BY <1>2, CutShortRefines
<1>3. CASE Readable(position, 1) /\ Readable(position, w) /\ Take(w, IntOf(n))
  <2>1. w \in Nat /\ n \in Nat /\ n < IntModulus /\ position + w <= limit
    BY <1>3, FormIsNumber, ValueIsNumber DEF LengthIsInt, Readable
  <2>2. Tape!VarComplete /\ Tape!VarWidth = w /\ Tape!VarAnnounced = n
    BY <1>3, VarOnTape
  <2>3. Take(w, IntOf(n))
    BY <1>3
  <2>. HIDE DEF w, n
  <2>4. IntOf(n) \in Int /\ (IntOf(n) >= 0 => IntOf(n) = n) /\ (IntOf(n) < 0 => n > MaxLimit)
    BY <2>1, IntOfFacts
  <2>. DEFINE m == IntOf(n)
  <2>5. m \in Int /\ (m >= 0 => m = n) /\ (m < 0 => n > MaxLimit) /\ Take(w, m)
    BY <2>3, <2>4
  <2>. HIDE DEF m
  <2>6. UNCHANGED <<View, limit, mark>>
    BY <2>1, <2>5, TakeOnTape
  <2>7. CASE (m < 0 \/ position' + m > limit) /\ position' = position + w /\ io' = Null
    <3>1. position' + n > limit
      <4>1. position \in Nat /\ limit \in Nat /\ limit <= MaxLimit /\ MaxLimit \in Nat
        BY FieldFacts
      <4>. QED
        BY <2>1, <2>5, <2>7, <4>1
    <3>. QED
      BY <2>2, <2>6, <2>7, <3>1 DEF Tape!RefuseVar, View
  <2>8. CASE m \in Nat /\ position' = position + w + m /\ position' <= limit
             /\ io' = [i \in 0 .. m - 1 |-> View[position + w + i]]
    <3>1. m = n
      BY <2>5, <2>8
    <3>. QED
      BY <2>2, <2>6, <2>8, <3>1 DEF Tape!TakeVar, View
  <2>. QED
    BY <2>1, <2>5, <2>7, <2>8, TakeOnTape
<1>. QED
  BY <1>1, <1>2, <1>3 DEF GetVarLengthData

LEMMA GetWholeRefines ==
  ASSUME Fields, NEW longest, GetWhole(longest)
  PROVE  Tape!Refuse(0) \/ Tape!Take(0)
<1>1. CASE Throws
  BY <1>1, ThrowsRefines
<1>2. CASE ~Throws
  BY <1>2, FormIsNumber, GetRefines DEF GetWhole
<1>. QED
  BY <1>1, <1>2

(* Bytes that are handed out are looked at, or taken up to the limit. *)
LEMMA GivesRefines ==
  ASSUME Fields, NEW n \in Nat,
         GetLastBytes \/ ToBytes \/ DumpDataToFile(n) \/ (mark = 0 /\ WriteBytesTo)
  PROVE  Tape!Take(0) \/ Tape!Look \/ Tape!Refuse(0)
<1>1. CASE GetLastBytes
  <2>1. /\ Remaining \in Nat /\ position + Remaining = limit /\ limit <= limit
        /\ position + 0 = position /\ Remaining >= 0
    BY FieldFacts DEF Remaining
  <2>2. Get(Remaining)
    <3>1. Readable(position + 0, Remaining)
      BY <2>1 DEF Readable
    <3>2. position' = position + 0 + Remaining
      BY <1>1, <2>1 DEF GetLastBytes
    <3>3. io' = Bytes(position + 0, Remaining) /\ UNCHANGED <<memory, limit, mark>>
      BY <1>1, <2>1 DEF GetLastBytes
    <3>. QED
      BY <2>1, <3>1, <3>2, <3>3 DEF Get, Take
  <2>. QED
    BY <2>1, <2>2, GetRefines
<1>2. CASE ToBytes
  <2>1. position - mark \in Nat /\ mark + (position - mark) <= limit
    BY FieldFacts
  <2>. QED
    BY <1>2, <2>1, LookRefines, FieldFacts DEF ToBytes, Gives
<1>3. CASE DumpDataToFile(n)
  <2>. DEFINE m == IF Remaining < n THEN Remaining ELSE n
  <2>1. m \in Nat /\ position + m <= limit
    BY FieldFacts DEF Remaining
  <2>. QED
    BY <1>3, <2>1, LookRefines, FieldFacts DEF DumpDataToFile, Gives
<1>4. CASE mark = 0 /\ WriteBytesTo
  <2>1. Gives(Bytes(mark, position)) /\ mark + position <= limit
    BY <1>4, FieldFacts DEF WriteBytesTo
  <2>. QED
    BY <2>1, LookRefines, FieldFacts DEF Gives
<1>. QED
  BY <1>1, <1>2, <1>3, <1>4

-----------------------------------------------------------------------------
(* What goes behind a variable-length header. *)
LEMMA PutVarLengthDataRefines ==
  ASSUME Fields, Fields', NEW n \in Lengths, NEW block \in Block(n),
         Fits(position + VarWidth(n) + n), PutVarLengthData(n, block)
  PROVE  Tape!OverwriteVar
<1>. DEFINE w == VarWidth(n)
            header == VarHeader(n)
<1>1. w \in 1 .. Bits + 1 /\ w \in Nat /\ header \in Block(w) /\ n \in Nat
  BY ValuesPut, VarHeaderBytes, Arguments, WidthOfBytes
<1>2. w = Tape!V!Form(n) /\ header = Tape!VarHeader(n)
  BY SameTapeIntegers DEF VarWidth, VarHeader, Tape!VarHeader
<1>3. PutFramed(w, header, n, block) /\ Fits(position + w + n)
  BY DEF PutVarLengthData
<1>. HIDE DEF w, header
<1>4. Tape!Overwrite(w) /\ position' - position - w = n
      /\ \A i \in 0 .. w - 1 : View'[position + i] = header[i]
  BY <1>1, <1>3, PutFramedRefines
<1>. QED
  BY <1>1, <1>2, <1>4 DEF Tape!OverwriteVar, View

(* Sealing and opening: the checksum is put, or taken off the end; the mask  *)
(* goes over what it covers.                                                 *)
LEMMA TruncateRefines ==
  ASSUME Fields, Fields', position = 0, mark = 0, Truncate1ByteCRC
  PROVE  Tape!Resize \/ Tape!Refuse(0)
<1>1. CASE Throws
  BY <1>1, ThrowsRefines
<1>2. CASE ~Throws
  <2>1. limit' = limit - 1 /\ limit > 0 /\ io' = NoBytes /\ UNCHANGED <<memory, position, mark>>
    BY <1>2 DEF Truncate1ByteCRC, CrcMatches
  <2>2. Tape!MIN(limit, limit') = limit' /\ Tape!MIN(position, limit') = position'
        /\ Tape!MIN(mark, limit') = mark'
    BY <2>1, FieldFacts, NextFieldFacts DEF Tape!MIN
  <2>3. ASSUME NEW i \in 0 .. limit' - 1 PROVE View'[i] = View[i]
    <3>1. i \in 0 .. limit - 1 /\ data' = data
      BY <2>1, FieldFacts, NextFieldFacts DEF memory
    <3>2. View'[i] = data'[i]
      BY NextViewIsTape
    <3>3. View[i] = data[i]
      BY <3>1, ViewIsTape
    <3>. QED
      BY <3>1, <3>2, <3>3
  <2>. QED
    BY <2>1, <2>2, <2>3, NextViewIsTape, SameBlocks DEF Tape!Resize, View
<1>. QED
  BY <1>1, <1>2

LEMMA MaskRefines ==
  ASSUME Fields, Fields', NEW n \in Nat, n <= limit,
         data' = Masked(data, n) \/ data' = Unmasked(data, n),
         io' = [i \in 0 .. n - 1 |-> data'[i]],
         UNCHANGED <<capacity, cursors>>
  PROVE  Tape!Patch
<1>1. limit \in Nat /\ limit <= capacity /\ capacity \in Nat /\ data \in Block(capacity)
  BY FieldFacts
<1>2. limit' = limit /\ position' = position /\ mark' = mark
  BY DEF cursors
<1>3. \A i \in n .. capacity - 1 : data'[i] = data[i]
  <2>1. n \in 0 .. capacity
    BY <1>1
  <2>2. /\ \A i \in n .. capacity - 1 : Masked(data, n)[i] = data[i]
        /\ \A i \in n .. capacity - 1 : Unmasked(data, n)[i] = data[i]
    BY <1>1, <2>1, MaskedFacts, UnmaskedFacts
  <2>3. CASE data' = Masked(data, n)
    BY <2>2, <2>3
  <2>4. CASE data' = Unmasked(data, n)
    BY <2>2, <2>4
  <2>. QED
    BY <2>3, <2>4
<1>4. /\ \A i \in 0 .. limit - 1 : View[i] = data[i]
      /\ \A i \in 0 .. limit - 1 : View'[i] = data'[i]
  BY <1>2 DEF View
<1>5. ASSUME NEW i \in 0 .. limit - 1, i < 0 \/ i >= n PROVE View'[i] = View[i]
  <2>1. i \in n .. capacity - 1
    BY <1>1, <1>5
  <2>. QED
    BY <1>3, <1>4, <2>1
<1>6. n - 0 - 1 = n - 1 /\ 0 \in 0 .. limit' /\ n \in 0 .. limit' /\ 0 <= n /\ limit' >= limit
  BY <1>1, <1>2
<1>7. io' = [i \in 0 .. n - 0 - 1 |-> View'[0 + i]]
  <2>1. ASSUME NEW i \in 0 .. n - 1 PROVE View'[0 + i] = data'[i]
    <3>1. i \in 0 .. limit - 1 /\ 0 + i = i
      BY <1>1
    <3>. QED
      BY <1>4, <3>1
  <2>. QED
    BY <1>6, <2>1
<1>8. limit' = Tape!MAX(limit, n)
  BY <1>1, <1>2 DEF Tape!MAX
<1>. QED
  BY <1>2, <1>5, <1>6, <1>7, <1>8, NextViewIsTape DEF Tape!Patch, View

-----------------------------------------------------------------------------
(* Every call is a step of the tape. *)
LEMMA MovesStep == ASSUME Fields, Fields', Moves PROVE Tape!CodedNext
<1>1. CASE Compact
  BY <1>1, CompactRefines DEF Tape!CodedNext, Tape!Next
<1>2. ASSUME NEW n \in Sizes, SetPosition(n) \/ Mark \/ Reset \/ Clear \/ Flip \/ Rewind
      PROVE  Tape!CodedNext
  BY <1>2, Arguments, MovesRefine
<1>. QED
  BY <1>1, <1>2, Arguments DEF Moves

LEMMA ReadsStep == ASSUME Fields, Reads PROVE Tape!CodedNext
<1>0. ASSUME \/ Tape!Take(0) \/ Tape!Refuse(0) \/ Tape!Look \/ Tape!TakeVar \/ Tape!RefuseVar
             \/ \E k \in 1 .. 2 : Tape!Take(k) \/ Tape!Refuse(k)
      PROVE  Tape!CodedNext
  BY <1>0 DEF Tape!CodedNext, Tape!Next
<1>1. CASE \E n \in Lengths : Get(n)
  BY <1>0, <1>1, Arguments, GetRefines
<1>2. CASE \E n \in Lengths : \E index \in Sizes : GetAt(index, n)
  <2>1. PICK n \in Nat, index \in Nat : GetAt(index, n)
    BY <1>2, Arguments
  <2>. QED
    BY <1>0, <2>1, ThrowsRefines, LookRefines DEF GetAt, Readable, Gives
<1>3. CASE position < limit /\ data[position] < Radix \div 2 /\ GetBytesWithLen(1)
  <2>1. Tape!Refuse(0) \/ Tape!Take(1) \/ Tape!Refuse(1)
    BY <1>3, GetBytesWithLenRefines
  <2>. QED
    BY <1>0, <2>1
<1>4. CASE GetBytesWithLen(2)
  <2>1. Tape!Refuse(0) \/ Tape!Take(2) \/ Tape!Refuse(2)
    BY <1>4, GetBytesWithLenRefines
  <2>. QED
    BY <1>0, <2>1
<1>5. CASE GetVarLong
  BY <1>0, <1>5, GetVarLongRefines
<1>6. CASE LengthIsInt /\ GetVarLengthData
  BY <1>0, <1>6, GetVarLengthDataRefines
<1>7. CASE GetVarLongBytes \/ GetTypdex
  BY <1>0, <1>7, GetWholeRefines DEF GetVarLongBytes, GetTypdex
<1>. QED
  BY <1>1, <1>2, <1>3, <1>4, <1>5, <1>6, <1>7 DEF Reads

LEMMA HandsStep == ASSUME Fields, Hands PROVE Tape!CodedNext
<1>1. PICK n \in Nat : GetLastBytes \/ ToBytes \/ DumpDataToFile(n) \/ (mark = 0 /\ WriteBytesTo)
  BY Arguments DEF Hands
<1>2. Tape!Take(0) \/ Tape!Look \/ Tape!Refuse(0)
  BY <1>1, GivesRefines
<1>. QED
  BY <1>2 DEF Tape!CodedNext, Tape!Next

LEMMA PutsStep ==
  ASSUME Fields, Fields', NEW n \in Lengths, NEW block \in [0 .. n - 1 -> PutByte],
         Puts(n, block)
  PROVE  Tape!CodedNext
<1>0. n \in Nat /\ block \in Block(n)
  BY Arguments
<1>1. CASE Fits(position + n) /\ Put(n, block)
  BY <1>0, <1>1, PutRefines DEF Tape!CodedNext, Tape!Next
<1>2. CASE \E index \in Sizes : Fits(index + n) /\ PutAt(index, n, block)
  BY <1>0, <1>2, Arguments, PutAtRefines DEF Tape!CodedNext, Tape!Next
<1>3. CASE \E m \in 0 .. n - 1 : Fits(position + n) /\ ReadDataFromFile(n, m, block)
  <2>1. PICK m \in 0 .. n - 1 : Fits(position + n) /\ Put(n, FromFile(n, m, block))
    BY <1>3 DEF ReadDataFromFile, FromFile
  <2>. QED
    BY <1>0, <2>1, FileIsBlock, PutRefines DEF Tape!CodedNext, Tape!Next
<1>4. CASE Fits(position + VarWidth(n) + n) /\ PutVarLengthData(n, block)
  BY <1>0, <1>4, PutVarLengthDataRefines DEF Tape!CodedNext
<1>5. CASE \E k \in 1 .. 2 : Fits(position + k + n) /\ PutBytesWithLen(k, n, block)
  <2>1. PICK k \in 1 .. 2 : Fits(position + k + n) /\ PutBytesWithLen(k, n, block)
    BY <1>5
  <2>2. Tape!Overwrite(k) /\ k \in 0 .. 2
    BY <1>0, <2>1, HeaderBytes, PutFramedRefines DEF PutBytesWithLen
  <2>. QED
    BY <2>2 DEF Tape!CodedNext, Tape!Next
<1>. QED
  BY <1>1, <1>2, <1>3, <1>4, <1>5 DEF Puts

LEMMA PutsNumberStep == ASSUME Fields, Fields', PutsNumber PROVE Tape!CodedNext
<1>1. PICK v \in 0 .. V!Base[2] + 1 : Fits(position + VarWidth(v)) /\ PutVarLong(v)
  BY DEF PutsNumber
<1>2. VarWidth(v) \in Nat /\ VarHeader(v) \in Block(VarWidth(v))
  BY ValuesPut, VarHeaderBytes
<1>3. Tape!Overwrite(0)
  BY <1>1, <1>2, PutRefines DEF PutVarLong
<1>. QED
  BY <1>3 DEF Tape!CodedNext, Tape!Next

LEMMA SealsStep == ASSUME Fields, Fields', Seals PROVE Tape!CodedNext
<1>1. CASE Fits(position + 1) /\ Put1ByteCRC
  <2>1. Tape!Overwrite(0)
    BY <1>1, ChecksumIsBlock, PutRefines DEF Put1ByteCRC
  <2>. QED
    BY <2>1 DEF Tape!CodedNext, Tape!Next
<1>2. CASE position = 0 /\ mark = 0 /\ Truncate1ByteCRC
  BY <1>2, TruncateRefines DEF Tape!CodedNext, Tape!Next
<1>3. CASE ApplyXOR
  BY <1>3, MaskRefines, FieldFacts DEF ApplyXOR, Tape!CodedNext, Tape!Next
<1>4. CASE UnapplyXOR
  BY <1>4, MaskRefines, FieldFacts DEF UnapplyXOR, Tape!CodedNext, Tape!Next
<1>. QED
  BY <1>1, <1>2, <1>3, <1>4 DEF Seals

LEMMA NextRefines == IInv /\ IInv' /\ [Next]_vars => [Tape!CodedNext]_Tape!vars
<1>. SUFFICES ASSUME Fields, Fields', [Next]_vars PROVE [Tape!CodedNext]_Tape!vars
  BY DEF IInv
<1>1. CASE UNCHANGED vars
  BY <1>1 DEF vars, memory, cursors, Tape!vars
<1>2. CASE Throws
  BY <1>2, ThrowsRefines DEF Tape!CodedNext, Tape!Next
<1>. QED
  BY <1>1, <1>2, NextInGroups, MovesStep, ReadsStep, HandsStep, PutsStep, PutsNumberStep, SealsStep

(* The Java buffer is the tape the C buffer is, with blocks behind variable- *)
(* length headers: growing into reused arrays, compacting in place, sealing  *)
(* and opening lose, invent and reorder no byte below the limit, whichever   *)
(* calls return, throw or throw halfway.                                     *)
THEOREM JavaDyBufIsATape == Spec => TapeSpec
<1>1. Init => Tape!Init
  BY InitRefines
<1>2. IInv /\ IInv' /\ [Next]_vars => [Tape!CodedNext]_Tape!vars
  BY NextRefines
<1>. QED
  BY <1>1, <1>2, IInvHolds, PTL DEF Spec, TapeSpec, Tape!CodedSpec
=============================================================================
