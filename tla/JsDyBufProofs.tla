---------------------------- MODULE JsDyBufProofs ----------------------------
(***************************************************************************)
(* Proofs about the JavaScript buffer of module JsDyBuf, for every width   *)
(* of a byte, every rounding of capacities and every bound: the fields     *)
(* keep their types and the order of the cursors, also when a call throws  *)
(* halfway, and the buffer implements the tape with coded blocks.          *)
(***************************************************************************)
EXTENDS JsDyBuf, FiniteSetTheorems, TLAPS

-----------------------------------------------------------------------------
(* The natural numbers and the variable-length integers, of this width of a byte. *)
VP == INSTANCE VarIntProofs WITH
  W <- Bits, sent <- Null, signed <- FALSE, wire <- <<>>, position <- 0, got <- Null

LEMMA WidthOfBytes == Bits \in Nat /\ Bits >= 1
BY BitsAssumption

(* What the proofs need of natural numbers, as module VarIntProofs proves it. *)
LEMMA Division ==
  ASSUME NEW x \in Nat, NEW b \in Nat \ {0}
  PROVE  /\ x \div b \in Nat /\ x % b \in 0 .. b - 1
         /\ x = ((x \div b) * b) + (x % b)
BY WidthOfBytes, VP!Division, Zenon

LEMMA PowerOfZero == 2 ^ 0 = 1
BY WidthOfBytes, VP!PowerOfZero, Zenon

LEMMA PowerType == \A k \in Nat : 2 ^ k \in Nat \ {0}
BY WidthOfBytes, VP!PowerType, Zenon

LEMMA PowerStep == \A k \in Nat : 2 ^ (k + 1) = 2 * 2 ^ k
BY WidthOfBytes, VP!PowerStep, Zenon

LEMMA PowerMonotone == \A a, b \in Nat : a <= b => 2 ^ a <= 2 ^ b
BY WidthOfBytes, VP!PowerMonotone, Zenon

-----------------------------------------------------------------------------
(* The inductive invariant.  The types alone are not inductive: a read takes *)
(* bytes at addresses only the order of the cursors puts inside the memory.  *)
Fields ==
  /\ size \in 0 .. MaxLimit
  /\ data \in Block(size)
  /\ limit \in Nat /\ position \in Nat /\ mark \in Nat
  /\ CursorOrder
IoOK == io = Null \/ \E n \in 0 .. MaxLimit : io \in Block(n)
IInv == Fields /\ IoOK

-----------------------------------------------------------------------------
(* The invariant as facts about numbers, of this state and of the next. *)
LEMMA FieldFacts ==
  Fields => /\ size \in Nat /\ limit \in Nat /\ position \in Nat /\ mark \in Nat
            /\ capacity = size /\ data \in Block(size)
            /\ mark <= position /\ position <= limit /\ limit <= size
            /\ size <= MaxLimit /\ MaxLimit \in Nat
BY BoundAssumption DEF Fields, CursorOrder

LEMMA NextFieldFacts ==
  Fields' => /\ size' \in Nat /\ limit' \in Nat /\ position' \in Nat /\ mark' \in Nat
             /\ capacity' = size' /\ data' \in Block(size')
             /\ mark' <= position' /\ position' <= limit' /\ limit' <= size'
BY BoundAssumption DEF Fields, CursorOrder

LEMMA RadixType == Radix \in Nat \ {0, 1} /\ Bits \in Nat /\ Bits >= 1
<1>1. Bits \in Nat /\ Bits >= 1
  BY BitsAssumption
<1>2. 2 ^ Bits \in Nat /\ 2 ^ 1 <= 2 ^ Bits
  BY <1>1, PowerType, PowerMonotone
<1>3. 2 ^ (0 + 1) = 2 * 2 ^ 0
  BY PowerStep
<1>. QED
  BY <1>1, <1>2, <1>3, PowerOfZero DEF Radix

LEMMA ByteType == Byte \subseteq Nat /\ 0 \in Byte /\ \A b \in Nat : b < Radix => b \in Byte
BY RadixType DEF Byte

LEMMA NoBytesIsBlock == NoBytes \in Block(0)
BY DEF NoBytes, Block

LEMMA NothingCarried == io' = Null \/ io' = NoBytes => IoOK'
BY NoBytesIsBlock, BoundAssumption DEF IoOK

-----------------------------------------------------------------------------
(* Rounding up never gives less than what was asked for. *)
LEMMA RoundedUp ==
  ASSUME NEW n \in Nat, NEW grain \in Nat \ {0}
  PROVE  Rounded(n, grain) \in Nat /\ n <= Rounded(n, grain)
<1>. DEFINE x == n + grain - 1
<1>1. x \in Nat
  OBVIOUS
<1>2. /\ x \div grain \in Nat /\ x % grain \in 0 .. grain - 1
      /\ x = ((x \div grain) * grain) + (x % grain)
  BY <1>1, Division
<1>3. (x \div grain) * grain \in Nat
  BY <1>2
<1>. QED
  BY <1>2, <1>3 DEF Rounded

LEMMA CapacityIsEnough ==
  ASSUME NEW n \in Nat
  PROVE  Capacity(n) \in Nat /\ n <= Capacity(n)
<1>1. /\ Grains[1] \in Nat \ {0} /\ Grains[2] \in Nat \ {0} /\ Grains[3] \in Nat \ {0}
      /\ Thresholds[1] \in Nat /\ Thresholds[2] \in Nat
  BY RoundingAssumption
<1>. QED
  BY <1>1, RoundedUp DEF Capacity

LEMMA RoomIsEnough ==
  ASSUME Fields, NEW n \in Nat, Capacity(n) <= MaxLimit
  PROVE  RoomFor(n) \in 0 .. MaxLimit /\ n <= RoomFor(n) /\ size <= RoomFor(n)
BY FieldFacts, CapacityIsEnough DEF RoomFor

(* Grown memory is memory, and keeps the old bytes. *)
LEMMA GrownIsMemory ==
  ASSUME Fields, NEW n \in Nat
  PROVE  Grown(n) \in Block(n)
<1>1. ASSUME NEW i \in 0 .. n - 1 PROVE (IF i < size THEN data[i] ELSE 0) \in Byte
  BY FieldFacts, ByteType DEF Block
<1>. QED
  BY <1>1 DEF Grown, Block

-----------------------------------------------------------------------------
(* A buffer is created, or adopts an array, with its cursors in order. *)
LEMMA InitIInv == Init => IInv
<1>. SUFFICES ASSUME Init PROVE IInv
  OBVIOUS
<1>1. size \in Nat /\ size \in 0 .. MaxLimit
  BY BoundAssumption DEF Init
<1>2. data \in Block(size)
  BY ByteType DEF Init, Block
<1>3. limit \in Nat /\ limit <= size
  BY <1>1 DEF Init
<1>4. Fields
  BY <1>1, <1>2, <1>3 DEF Init, Fields, CursorOrder
<1>5. IoOK
  BY NoBytesIsBlock, BoundAssumption DEF Init, IoOK
<1>. QED
  BY <1>4, <1>5 DEF IInv

(* The calls that move cursors or resize the memory. *)
LEMMA ThrowsKeeps == ASSUME Fields, Throws PROVE Fields' /\ IoOK'
BY NothingCarried DEF Throws, Fields, CursorOrder, memory, cursors

LEMMA SetCapacityKeeps ==
  ASSUME Fields, NEW n \in Nat, Capacity(n) <= MaxLimit, SetCapacity(n)
  PROVE  Fields' /\ IoOK' /\ size <= size'
<1>1. Capacity(n) \in Nat
  BY CapacityIsEnough
<1>2. size' \in 0 .. MaxLimit /\ capacity' = size' /\ size <= size'
  BY <1>1, FieldFacts DEF SetCapacity
<1>3. data' \in Block(size')
  BY <1>2, GrownIsMemory DEF SetCapacity
<1>4. limit' = limit /\ position' = position /\ mark' = mark
  BY <1>2, FieldFacts DEF SetCapacity, Lower
<1>. QED
  BY <1>2, <1>3, <1>4, FieldFacts, NothingCarried DEF SetCapacity, Fields, CursorOrder

LEMMA SetLimitKeeps ==
  ASSUME Fields, NEW n \in Nat, Capacity(n) <= MaxLimit, SetLimit(n)
  PROVE  Fields' /\ IoOK' /\ size <= size'
<1>1. size' \in 0 .. MaxLimit /\ capacity' = size' /\ size <= size' /\ n <= size'
  BY RoomIsEnough, FieldFacts DEF SetLimit, RoomFor
<1>2. data' \in Block(size')
  BY <1>1, GrownIsMemory DEF SetLimit
<1>. QED
  BY <1>1, <1>2, FieldFacts, NothingCarried DEF SetLimit, Fields, CursorOrder, Lower

LEMMA CursorsMoveKeeps ==
  ASSUME Fields, NEW n \in Nat, SetPosition(n) \/ Mark \/ Reset \/ Clear \/ Flip \/ Rewind
  PROVE  Fields' /\ IoOK'
<1>1. CASE n > limit /\ Throws
  BY <1>1, ThrowsKeeps
<1>2. CASE ~(n > limit /\ Throws)
  <2>1. UNCHANGED memory /\ io' = NoBytes
    BY <1>2 DEF SetPosition, Mark, Reset, Clear, Flip, Rewind
  <2>2. /\ limit' \in Nat /\ position' \in Nat /\ mark' \in Nat
        /\ mark' <= position' /\ position' <= limit' /\ limit' <= size
    BY <1>2, FieldFacts
      DEF SetPosition, Mark, Reset, Clear, Flip, Rewind, Higher, memory, cursors
  <2>. QED
    BY <2>1, <2>2, FieldFacts, NothingCarried DEF Fields, CursorOrder, memory
<1>. QED
  BY <1>1, <1>2

-----------------------------------------------------------------------------
(* A write of n bytes: the memory and the limit grow to its end if they must. *)
LEMMA WriteKeeps ==
  ASSUME Fields, NEW index \in Nat, NEW n \in Nat, NEW block \in Block(n),
         Capacity(index + n) <= MaxLimit, WriteAt(index, n, block)
  PROVE  /\ size' \in 0 .. MaxLimit /\ capacity' = size' /\ size <= size'
         /\ data' \in Block(size')
         /\ limit' = (IF index + n > limit THEN index + n ELSE limit)
         /\ limit' \in Nat /\ limit <= limit' /\ index + n <= limit' /\ limit' <= size'
         /\ n \in 0 .. MaxLimit
<1>. DEFINE end == index + n
<1>1. end \in Nat
  OBVIOUS
<1>2. RoomFor(end) \in 0 .. MaxLimit /\ end <= RoomFor(end) /\ size <= RoomFor(end)
  BY <1>1, RoomIsEnough
<1>3. /\ capacity' = IF end > limit THEN RoomFor(end) ELSE capacity
      /\ size' = IF end > limit /\ end > capacity THEN capacity' ELSE size
      /\ data' = Written(Grown(size'), index, n, block)
      /\ limit' = IF end > limit THEN end ELSE limit
  BY DEF WriteAt
<1>. HIDE DEF end
<1>4. size' \in 0 .. MaxLimit /\ capacity' = size' /\ size <= size'
  BY <1>1, <1>2, <1>3, FieldFacts DEF RoomFor
<1>5. /\ limit' \in Nat /\ limit <= limit' /\ end <= limit' /\ limit' <= size'
  BY <1>1, <1>2, <1>3, <1>4, FieldFacts DEF RoomFor
<1>6. data' \in Block(size')
  <2>1. Grown(size') \in Block(size')
    BY <1>4, GrownIsMemory
  <2>2. ASSUME NEW i \in 0 .. size' - 1
        PROVE  (IF i \in index .. index + n - 1 THEN block[i - index] ELSE Grown(size')[i]) \in Byte
    BY <2>1 DEF Block
  <2>. QED
    BY <1>3, <2>1, <2>2 DEF Written, Block
<1>7. n \in 0 .. MaxLimit
  BY <1>4, <1>5, FieldFacts DEF end
<1>. QED
  BY <1>3, <1>4, <1>5, <1>6, <1>7 DEF end

LEMMA PutKeeps ==
  ASSUME Fields, NEW n \in Nat, NEW block \in Block(n), Capacity(position + n) <= MaxLimit,
         Put(n, block)
  PROVE  Fields' /\ IoOK'
<1>1. WriteAt(position, n, block) /\ position' = position + n /\ mark' = mark /\ io' = block
  BY DEF Put
<1>. QED
  BY <1>1, WriteKeeps, FieldFacts DEF Fields, CursorOrder, IoOK

LEMMA PutAtKeeps ==
  ASSUME Fields, NEW index \in Nat, NEW n \in Nat, NEW block \in Block(n),
         Capacity(index + n) <= MaxLimit, PutAt(index, n, block)
  PROVE  Fields' /\ IoOK'
<1>1. WriteAt(index, n, block) /\ position' = position /\ mark' = mark /\ io' = block
  BY DEF PutAt
<1>. QED
  BY <1>1, WriteKeeps, FieldFacts DEF Fields, CursorOrder, IoOK

(* A block behind a header of k bytes is one block of k + n bytes. *)
Frame(k, header, n, block) ==
  [i \in 0 .. k + n - 1 |-> IF i < k THEN header[i] ELSE block[i - k]]

LEMMA FrameIsBlock ==
  ASSUME NEW k \in Nat, NEW header \in Block(k), NEW n \in Nat, NEW block \in Block(n)
  PROVE  /\ Frame(k, header, n, block) \in Block(k + n)
         /\ \A i \in 0 .. k - 1 : Frame(k, header, n, block)[i] = header[i]
         /\ \A i \in 0 .. n - 1 : Frame(k, header, n, block)[k + i] = block[i]
<1>1. ASSUME NEW i \in 0 .. k + n - 1
      PROVE  (IF i < k THEN header[i] ELSE block[i - k]) \in Byte
  BY DEF Block
<1>2. ASSUME NEW i \in 0 .. n - 1
      PROVE  k + i \in 0 .. k + n - 1 /\ ~(k + i < k) /\ (k + i) - k = i
  OBVIOUS
<1>. QED
  BY <1>1, <1>2 DEF Frame, Block

LEMMA PutFramedKeeps ==
  ASSUME Fields, NEW k \in Nat, NEW header \in Block(k), NEW n \in Nat, NEW block \in Block(n),
         Capacity(position + k + n) <= MaxLimit, PutFramed(k, header, n, block)
  PROVE  Fields' /\ IoOK'
<1>1. /\ WriteAt(position, k + n, Frame(k, header, n, block))
      /\ position' = position + k + n /\ mark' = mark /\ io' = block
  BY DEF PutFramed, Frame
<1>2. k + n \in Nat /\ position + (k + n) = position + k + n
  BY FieldFacts
<1>3. Frame(k, header, n, block) \in Block(k + n)
  BY FrameIsBlock
<1>4. /\ size' \in 0 .. MaxLimit /\ capacity' = size' /\ data' \in Block(size')
      /\ limit' \in Nat /\ position + (k + n) <= limit' /\ limit' <= size'
      /\ k + n \in 0 .. MaxLimit
  BY <1>1, <1>2, <1>3, WriteKeeps, FieldFacts
<1>. QED
  BY <1>1, <1>2, <1>4, FieldFacts DEF Fields, CursorOrder, IoOK

(* A length below LengthSpace(k) is written as k bytes. *)
LEMMA HeaderBytes ==
  ASSUME NEW k \in 1 .. 2, NEW n \in Nat, n < LengthSpace(k)
  PROVE  Header(k, n) \in Block(k)
<1>1. CASE k = 1
  BY <1>1, ByteType DEF Header, LengthSpace, Block
<1>2. CASE k = 2
  <2>1. n < Radix * Radix /\ Radix \in Nat \ {0}
    BY <1>2, RadixType DEF LengthSpace
  <2>2. n \div Radix \in Nat /\ n % Radix \in 0 .. Radix - 1
        /\ n = ((n \div Radix) * Radix) + (n % Radix)
    BY <2>1, Division
  <2>3. n \div Radix < Radix
    <3>1. SUFFICES ASSUME n \div Radix >= Radix PROVE FALSE
      BY <2>1, <2>2
    <3>2. ASSUME NEW q \in Nat, q >= Radix PROVE q * Radix >= Radix * Radix
      BY <2>1, <3>2
    <3>. QED
      BY <3>1, <3>2, <2>1, <2>2
  <2>. QED
    BY <1>2, <2>1, <2>2, <2>3, ByteType DEF Header, Block
<1>. QED
  BY <1>1, <1>2

-----------------------------------------------------------------------------
LEMMA SameIntegers ==
  /\ \A v : V!VarU64Bytes(v) = VP!VarU64Bytes(v)
  /\ \A v : V!Form(v) = VP!Form(v)
  /\ \A b : V!FormOf(b) = VP!FormOf(b)
  /\ \A w, p : V!VarU64At(w, p) = VP!VarU64At(w, p)
  /\ V!Base[2] = VP!Base[2]
  /\ VP!Byte = Byte
BY DEF V!VarU64Bytes, VP!VarU64Bytes, V!FormOf, VP!FormOf, V!Form, VP!Form, V!Base, VP!Base,
       V!Forms, VP!Forms, V!ByteValues, VP!ByteValues, V!Payloads, VP!Payloads, V!Lead, VP!Lead,
       V!VarU64At, VP!VarU64At, V!PayloadAt, VP!PayloadAt, VP!Byte, Byte, Radix

(* The header of a length has as many bytes as its form. *)
LEMMA VarHeaderBytes ==
  ASSUME NEW v \in VP!Values
  PROVE  VarWidth(v) \in 1 .. Bits + 1 /\ VarHeader(v) \in Block(VarWidth(v))
<1>1. VarWidth(v) = VP!Form(v) /\ VarHeader(v) = VP!HeaderOf(v)
  BY SameIntegers DEF VarWidth, VarHeader, VP!HeaderOf
<1>2. VP!Form(v) \in 1 .. Bits + 1 /\ VP!HeaderOf(v) \in [0 .. VP!Form(v) - 1 -> VP!Byte]
  BY WidthOfBytes, VP!HeadHasBytes
<1>. QED
  BY <1>1, <1>2, SameIntegers DEF Block

(* Blocks of the bound, and the numbers put, are values. *)
LEMMA ValuesPut ==
  /\ \A n \in Lengths : n \in VP!Values
  /\ \A v \in 0 .. V!Base[2] + 1 : v \in VP!Values
<1>. DEFINE N == 2 ^ (Bits * Bits)
<1>1. N \in Nat \ {0} /\ VP!Values = 0 .. N - 1
  BY WidthOfBytes, VP!ValuesType DEF VP!Values
<1>2. Bits >= 2
  BY BitsAssumption
<1>3. V!Base[2] \in Nat /\ V!Base[2] + 1 \in VP!Values
  BY <1>2, WidthOfBytes, VP!FirstBorder, SameIntegers
<1>. HIDE DEF N
<1>4. ASSUME NEW n \in Lengths PROVE n \in VP!Values
  <2>1. MaxBlock < N /\ MaxBlock \in Nat
    BY BoundAssumption DEF N
  <2>. QED
    BY <1>1, <2>1 DEF Lengths
<1>5. ASSUME NEW v \in 0 .. V!Base[2] + 1 PROVE v \in VP!Values
  BY <1>1, <1>3
<1>. QED
  BY <1>4, <1>5

-----------------------------------------------------------------------------
(* Bytes below the limit are a block. *)
LEMMA BytesAreBlock ==
  ASSUME Fields, NEW from \in Nat, NEW n \in Nat, from + n <= limit
  PROVE  Bytes(from, n) \in Block(n) /\ n \in 0 .. MaxLimit
<1>1. ASSUME NEW i \in 0 .. n - 1 PROVE data[from + i] \in Byte
  <2>1. from + i \in 0 .. size - 1
    BY FieldFacts
  <2>. QED
    BY <2>1, FieldFacts DEF Block
<1>. QED
  BY <1>1, FieldFacts DEF Bytes, Block

(* A read moves the position to a place below the limit, and gives back a    *)
(* block or nothing.                                                         *)
LEMMA ReadKeeps ==
  ASSUME Fields, UNCHANGED <<memory, limit, mark>>, position' \in position .. limit,
         \/ io' = Null
         \/ \E from, n \in Nat : from + n <= limit /\ io' = Bytes(from, n)
  PROVE  Fields' /\ IoOK'
<1>1. IoOK'
  BY BytesAreBlock DEF IoOK
<1>. QED
  BY <1>1, FieldFacts DEF Fields, CursorOrder, memory

LEMMA GetKeeps ==
  ASSUME Fields, NEW n \in Nat, Get(n)
  PROVE  Fields' /\ IoOK'
<1>1. CASE ~Readable(position, n) /\ Throws
  BY <1>1, ThrowsKeeps
<1>2. CASE Readable(position, n) /\ position' = position + n /\ io' = Bytes(position, n)
           /\ UNCHANGED <<memory, limit, mark>>
  <2>1. position + n <= limit /\ position' \in position .. limit
    BY <1>2, FieldFacts DEF Readable
  <2>. QED
    BY <1>2, <2>1, FieldFacts, ReadKeeps
<1>. QED
  BY <1>1, <1>2 DEF Get

LEMMA GetAtKeeps ==
  ASSUME Fields, NEW index \in Nat, NEW n \in Nat, GetAt(index, n)
  PROVE  Fields' /\ IoOK'
<1>1. CASE ~Readable(index, n) /\ Throws
  BY <1>1, ThrowsKeeps
<1>2. CASE Readable(index, n) /\ io' = Bytes(index, n) /\ UNCHANGED <<memory, cursors>>
  <2>1. index + n <= limit /\ position' \in position .. limit
    BY <1>2, FieldFacts DEF Readable, cursors
  <2>. QED
    BY <1>2, <2>1, ReadKeeps DEF cursors
<1>. QED
  BY <1>1, <1>2 DEF GetAt

(* A length that was read is a number. *)
LEMMA LengthIsNumber ==
  ASSUME Fields, NEW k \in 1 .. 2, Readable(position, k)
  PROVE  LengthAt(k) \in Nat /\ position + k \in Nat /\ position + k <= limit
<1>1. k \in Nat /\ position + k <= limit /\ position \in 0 .. size - 1
      /\ (k = 2 => position + 1 \in 0 .. size - 1)
  BY FieldFacts DEF Readable
<1>2. data[position] \in Nat /\ (k = 2 => data[position + 1] \in Nat)
  BY <1>1, FieldFacts, ByteType DEF Block
<1>3. LengthAt(k) \in Nat
  <2>1. CASE k = 1
    BY <1>2, <2>1 DEF LengthAt
  <2>2. CASE k = 2
    <3>1. data[position] * Radix \in Nat
      BY <1>2, RadixType
    <3>. QED
      BY <1>2, <2>2, <3>1 DEF LengthAt
  <2>. QED
    BY <2>1, <2>2
<1>. QED
  BY <1>1, <1>3, FieldFacts

LEMMA GetBytesWithLenKeeps ==
  ASSUME Fields, NEW k \in 1 .. 2, GetBytesWithLen(k)
  PROVE  Fields' /\ IoOK'
<1>1. CASE ~Readable(position, k)
  BY <1>1, ThrowsKeeps DEF GetBytesWithLen
<1>2. CASE Readable(position, k)
  <2>. DEFINE n == LengthAt(k)
              start == position + k
  <2>1. n \in Nat /\ start \in Nat /\ position <= start /\ start <= limit
    BY <1>2, LengthIsNumber, FieldFacts
  <2>2. \/ Consumed(k)
        \/ Readable(start, n) /\ position' = start + n /\ io' = Bytes(start, n)
           /\ UNCHANGED <<memory, limit, mark>>
    BY <1>2 DEF GetBytesWithLen
  <2>. HIDE DEF n, start
  <2>3. UNCHANGED <<memory, limit, mark>> /\ position' \in position .. limit
    BY <2>1, <2>2, FieldFacts DEF Consumed, Readable, start
  <2>4. io' = Null \/ \E from, m \in Nat : from + m <= limit /\ io' = Bytes(from, m)
    BY <2>1, <2>2 DEF Consumed, Readable
  <2>. QED
    BY <2>3, <2>4, ReadKeeps
<1>. QED
  BY <1>1, <1>2

(* The form of the number at the position, and when all of it is there its   *)
(* value: both are numbers.                                                  *)
LEMMA FormIsNumber ==
  ASSUME Fields, Readable(position, 1)
  PROVE  /\ V!FormOf(data[position]) \in 1 .. Bits + 1
         /\ V!FormOf(data[position]) \in Nat
<1>1. data[position] \in Byte
  <2>1. position \in 0 .. size - 1
    BY FieldFacts DEF Readable
  <2>. QED
    BY <2>1, FieldFacts DEF Block
<1>. QED
  BY <1>1, WidthOfBytes, VP!FormOfFacts, SameIntegers DEF VP!Forms

LEMMA ValueIsNumber ==
  ASSUME Fields, Readable(position, 1), Readable(position, V!FormOf(data[position]))
  PROVE  V!VarU64At(data, position).value \in Nat
<1>. DEFINE k == VP!FormOf(data[position])
<1>1. k \in VP!Forms /\ k \in Nat /\ position + k <= limit
  BY FormIsNumber, SameIntegers DEF Readable, VP!Forms
<1>. HIDE DEF k
<1>2. ASSUME NEW i \in 1 .. k PROVE data[position + i - 1] \in VP!Byte
  <2>1. position + i - 1 \in 0 .. size - 1
    BY <1>1, FieldFacts
  <2>. QED
    BY <2>1, FieldFacts, SameIntegers DEF Block
<1>3. VP!VarU64At(data, position).value \in VP!Values
  <2>1. position \in Nat /\ VP!FormOf(data[position]) = k
    BY FieldFacts DEF k
  <2>. QED
    BY <1>1, <1>2, <2>1, WidthOfBytes, VP!BytesAreRead
<1>. QED
  BY <1>3, WidthOfBytes, VP!ValuesType, SameIntegers

(* What reading a number with or without a block behind it comes to. *)
LEMMA GetVarCases ==
  ASSUME Fields, NEW withBlock \in BOOLEAN, GetVar(withBlock)
  PROVE  \/ Throws
         \/ /\ Readable(position, 1)
            /\ LET w == V!FormOf(data[position])
                   n == V!VarU64At(data, position).value
               IN  \/ ~Readable(position, w) /\ Consumed(1)
                   \/ Readable(position, w) /\ Get(w)
                   \/ Readable(position, w) /\ ~Readable(position + w, n) /\ Consumed(w)
                   \/ /\ Readable(position, w) /\ Readable(position + w, n)
                      /\ position' = position + w + n
                      /\ io' = Bytes(position + w, n)
                      /\ UNCHANGED <<memory, limit, mark>>
BY DEF GetVar

LEMMA GetVarKeeps ==
  ASSUME Fields, NEW withBlock \in BOOLEAN, GetVar(withBlock)
  PROVE  Fields' /\ IoOK'
<1>1. CASE Throws
  BY <1>1, ThrowsKeeps
<1>2. CASE ~Throws
  <2>. DEFINE w == V!FormOf(data[position])
              n == V!VarU64At(data, position).value
  <2>1. /\ Readable(position, 1)
        /\ \/ ~Readable(position, w) /\ Consumed(1)
           \/ Readable(position, w) /\ Get(w)
           \/ Readable(position, w) /\ ~Readable(position + w, n) /\ Consumed(w)
           \/ /\ Readable(position, w) /\ Readable(position + w, n)
              /\ position' = position + w + n
              /\ io' = Bytes(position + w, n)
              /\ UNCHANGED <<memory, limit, mark>>
    BY <1>2, GetVarCases
  <2>2. w \in Nat /\ (Readable(position, w) => n \in Nat)
    BY <2>1, FormIsNumber, ValueIsNumber
  <2>. HIDE DEF w, n
  <2>3. CASE Consumed(1)
    BY <2>1, <2>3, ReadKeeps, FieldFacts DEF Consumed, Readable
  <2>4. CASE Get(w)
    BY <2>2, <2>4, GetKeeps
  <2>5. CASE Readable(position, w) /\ Consumed(w)
    BY <2>2, <2>5, ReadKeeps, FieldFacts DEF Consumed, Readable
  <2>6. CASE Readable(position, w) /\ Readable(position + w, n) /\ position' = position + w + n
             /\ io' = Bytes(position + w, n) /\ UNCHANGED <<memory, limit, mark>>
    <3>1. position + w \in Nat /\ n \in Nat /\ (position + w) + n <= limit
          /\ position' \in position .. limit
      BY <2>2, <2>6, FieldFacts DEF Readable
    <3>. QED
      BY <2>6, <3>1, ReadKeeps
  <2>. QED
    BY <2>1, <2>3, <2>4, <2>5, <2>6
<1>. QED
  BY <1>1, <1>2

-----------------------------------------------------------------------------
(* What callers pass is in the types the lemmas ask for. *)
LEMMA Arguments ==
  /\ Sizes \subseteq Nat /\ Lengths \subseteq Nat /\ 0 \in Sizes /\ MaxLimit \in Nat
  /\ \A n \in Lengths : \A block \in [0 .. n - 1 -> PutByte] : block \in Block(n)
<1>1. \A n : \A block \in [0 .. n - 1 -> PutByte] : block \in Block(n)
  BY BoundAssumption DEF Block, Byte, Radix
<1>. QED
  BY <1>1, BoundAssumption DEF Sizes, Lengths

(* The calls, one group per kind. *)
MovesOrResizes ==
  \/ \E n \in Sizes : \/ SetCapacityThrows(n) \/ SetPosition(n)
                      \/ Capacity(n) <= MaxLimit /\ (SetCapacity(n) \/ SetLimit(n))
  \/ Mark \/ Reset \/ Clear \/ Flip \/ Rewind
Reads ==
  \/ \E n \in Lengths : Get(n)
  \/ \E n \in Lengths : \E index \in Sizes : GetAt(index, n)
  \/ \E k \in 1 .. 2 : GetBytesWithLen(k)
  \/ GetVarULong \/ GetBytesWithVarLength \/ GetTypdex \/ GetLastBytes \/ BytesBefore
Puts(n, block) ==
  \/ Capacity(position + n) <= MaxLimit /\ Put(n, block)
  \/ Capacity(position + VarWidth(n) + n) <= MaxLimit /\ PutBytesWithVarLength(n, block)
  \/ \E index \in Sizes : Capacity(index + n) <= MaxLimit /\ PutAt(index, n, block)
  \/ \E k \in 1 .. 2 : Capacity(position + k + n) <= MaxLimit /\ PutBytesWithLen(k, n, block)
PutsNumber ==
  \E v \in 0 .. V!Base[2] + 1 : Capacity(position + VarWidth(v)) <= MaxLimit /\ PutVarULong(v)

LEMMA NextInGroups ==
  ASSUME [Next]_vars
  PROVE  \/ MovesOrResizes \/ Reads \/ PutsNumber \/ Throws \/ UNCHANGED vars
         \/ \E n \in Lengths : \E block \in [0 .. n - 1 -> PutByte] : Puts(n, block)
<1>1. \A n : LongThrows(n) => Throws
  BY DEF LongThrows
<1>2. \A k, n : PutBytesWithLenThrows(k, n) => Throws
  BY DEF PutBytesWithLenThrows
<1>3. PutTypdexThrows => Throws
  BY DEF PutTypdexThrows
<1>. QED
  BY <1>1, <1>2, <1>3, Zenon DEF Next, MovesOrResizes, Reads, PutsNumber, Puts

LEMMA MovesKeep == ASSUME Fields, MovesOrResizes PROVE Fields' /\ IoOK'
<1>1. ASSUME NEW n \in Sizes, SetCapacityThrows(n) PROVE Fields' /\ IoOK'
  BY <1>1, ThrowsKeeps DEF SetCapacityThrows
<1>2. ASSUME NEW n \in Sizes, Capacity(n) <= MaxLimit, SetCapacity(n) \/ SetLimit(n)
      PROVE  Fields' /\ IoOK'
  BY <1>2, Arguments, SetCapacityKeeps, SetLimitKeeps
<1>3. ASSUME NEW n \in Sizes, SetPosition(n) \/ Mark \/ Reset \/ Clear \/ Flip \/ Rewind
      PROVE  Fields' /\ IoOK'
  BY <1>3, Arguments, CursorsMoveKeeps
<1>. QED
  BY <1>1, <1>2, <1>3, Arguments DEF MovesOrResizes

LEMMA ReadsKeep == ASSUME Fields, Reads PROVE Fields' /\ IoOK'
<1>1. CASE \E n \in Lengths : Get(n)
  BY <1>1, Arguments, GetKeeps
<1>2. CASE \E n \in Lengths : \E index \in Sizes : GetAt(index, n)
  BY <1>2, Arguments, GetAtKeeps
<1>3. CASE \E k \in 1 .. 2 : GetBytesWithLen(k)
  BY <1>3, GetBytesWithLenKeeps
<1>4. CASE GetVarULong \/ GetBytesWithVarLength
  BY <1>4, GetVarKeeps DEF GetVarULong, GetBytesWithVarLength
<1>5. CASE GetTypdex
  <2>1. CASE Throws
    BY <2>1, ThrowsKeeps
  <2>2. CASE ~Throws
    BY <1>5, <2>2, GetKeeps, FormIsNumber DEF GetTypdex
  <2>. QED
    BY <2>1, <2>2
<1>6. CASE GetLastBytes
  <2>1. UNCHANGED <<memory, limit, mark>> /\ position' = limit
        /\ (io' = Null \/ io' = Bytes(position, limit - position))
    BY <1>6 DEF GetLastBytes, Remaining
  <2>2. position \in Nat /\ limit - position \in Nat /\ position + (limit - position) <= limit
        /\ limit \in position .. limit
    BY FieldFacts
  <2>. QED
    BY <2>1, <2>2, ReadKeeps
<1>7. CASE BytesBefore
  <2>1. UNCHANGED <<memory, limit, mark>> /\ position' = position
        /\ io' = Bytes(mark, position - mark)
    BY <1>7 DEF BytesBefore, cursors
  <2>2. mark \in Nat /\ position - mark \in Nat /\ mark + (position - mark) <= limit
        /\ position \in position .. limit
    BY FieldFacts
  <2>. QED
    BY <2>1, <2>2, ReadKeeps
<1>. QED
  BY <1>1, <1>2, <1>3, <1>4, <1>5, <1>6, <1>7 DEF Reads

LEMMA PutsKeep ==
  ASSUME Fields, NEW n \in Lengths, NEW block \in [0 .. n - 1 -> PutByte], Puts(n, block)
  PROVE  Fields' /\ IoOK'
<1>0. n \in Nat /\ block \in Block(n)
  BY Arguments
<1>1. CASE Capacity(position + n) <= MaxLimit /\ Put(n, block)
  BY <1>0, <1>1, PutKeeps
<1>2. CASE Capacity(position + VarWidth(n) + n) <= MaxLimit /\ PutBytesWithVarLength(n, block)
  <2>1. VarWidth(n) \in Nat /\ VarHeader(n) \in Block(VarWidth(n))
    BY ValuesPut, VarHeaderBytes
  <2>. QED
    BY <1>0, <1>2, <2>1, PutFramedKeeps DEF PutBytesWithVarLength
<1>3. CASE \E index \in Sizes : Capacity(index + n) <= MaxLimit /\ PutAt(index, n, block)
  BY <1>0, <1>3, Arguments, PutAtKeeps
<1>4. CASE \E k \in 1 .. 2 :
             Capacity(position + k + n) <= MaxLimit /\ PutBytesWithLen(k, n, block)
  BY <1>0, <1>4, HeaderBytes, PutFramedKeeps DEF PutBytesWithLen
<1>. QED
  BY <1>1, <1>2, <1>3, <1>4 DEF Puts

LEMMA PutsNumberKeeps == ASSUME Fields, PutsNumber PROVE Fields' /\ IoOK'
<1>1. PICK v \in 0 .. V!Base[2] + 1 :
        Capacity(position + VarWidth(v)) <= MaxLimit /\ PutVarULong(v)
  BY DEF PutsNumber
<1>2. VarWidth(v) \in Nat /\ VarHeader(v) \in Block(VarWidth(v))
  BY ValuesPut, VarHeaderBytes
<1>. QED
  BY <1>1, <1>2, PutKeeps DEF PutVarULong

(* Every call keeps the types and the order, whether it returns or throws. *)
LEMMA NextKeepsIInv == IInv /\ [Next]_vars => IInv'
<1>. SUFFICES ASSUME Fields, IoOK, [Next]_vars PROVE Fields' /\ IoOK'
  BY DEF IInv
<1>1. CASE UNCHANGED vars
  BY <1>1 DEF vars, memory, cursors, Fields, IoOK, CursorOrder
<1>. QED
  BY <1>1, NextInGroups, MovesKeep, ReadsKeep, PutsKeep, PutsNumberKeeps, ThrowsKeeps

LEMMA IInvHolds == Spec => []IInv
BY InitIInv, NextKeepsIInv, PTL DEF Spec

(* The memory has its size and holds bytes, and every block that is put or   *)
(* given back consists of bytes, whatever calls are made.                    *)
THEOREM TypeCorrect == Spec => []TypeOK
<1>1. IInv => TypeOK
  BY DEF IInv, Fields, IoOK, TypeOK
<1>. QED
  BY <1>1, IInvHolds, PTL

(* 0 <= mark <= position <= limit <= capacity, and the capacity is that of   *)
(* the ArrayBuffer, after every sequence of calls, those that threw halfway  *)
(* included.                                                                 *)
THEOREM CursorsOrdered == Spec => []CursorOrder
<1>1. IInv => CursorOrder
  BY DEF IInv, Fields
<1>. QED
  BY <1>1, IInvHolds, PTL

-----------------------------------------------------------------------------
(* The buffer is a tape: the view of the memory below the limit, the position *)
(* as head and the mark as bookmark.  One lemma per group of calls.           *)
View == [i \in 0 .. limit - 1 |-> data[i]]

LEMMA SameBlocks == (\A n : Tape!Block(n) = Block(n)) /\ Tape!NoBytes = NoBytes
BY DEF Tape!Block, Tape!Byte, Tape!NoBytes, Block, Byte, NoBytes

LEMMA ViewIsTape ==
  ASSUME Fields
  PROVE  View \in Block(limit) /\ \A i \in 0 .. limit - 1 : View[i] = data[i] /\ i \in 0 .. size - 1
BY FieldFacts DEF View, Block

LEMMA NextViewIsTape ==
  ASSUME Fields'
  PROVE  /\ View' \in Tape!Block(limit') /\ limit' \in Nat
         /\ \A i \in 0 .. limit' - 1 : View'[i] = data'[i] /\ i \in 0 .. size' - 1
BY NextFieldFacts, SameBlocks DEF View, Block

LEMMA InitRefines == Init => Tape!Init
<1>. SUFFICES ASSUME Init PROVE Tape!Init
  OBVIOUS
<1>1. View \in Tape!Block(limit) /\ limit \in Nat
  BY InitIInv, ViewIsTape, SameBlocks, FieldFacts DEF IInv
<1>. QED
  BY <1>1, SameBlocks DEF Init, Tape!Init, View

(* Calls that change where the tape ends keep what is below both ends. *)
LEMMA ResizeRefines ==
  ASSUME Fields, Fields', NEW n \in Nat, Capacity(n) <= MaxLimit, SetCapacity(n) \/ SetLimit(n)
  PROVE  Tape!Resize
<1>1. size <= size' /\ data' = Grown(size') /\ io' = NoBytes
  BY SetCapacityKeeps, SetLimitKeeps DEF SetCapacity, SetLimit
<1>2. ASSUME NEW i \in 0 .. limit - 1, i \in 0 .. limit' - 1 PROVE View'[i] = View[i]
  <2>1. View'[i] = Grown(size')[i] /\ i \in 0 .. size' - 1
    BY <1>1, <1>2, NextViewIsTape
  <2>2. View[i] = data[i] /\ i < size
    BY <1>2, ViewIsTape, FieldFacts
  <2>. QED
    BY <2>1, <2>2 DEF Grown
<1>3. position' = Lower(position, limit') /\ mark' = Lower(mark, limit')
  BY <1>1, FieldFacts, NextFieldFacts DEF SetCapacity, SetLimit, Lower
<1>4. \A i \in 0 .. Lower(limit, limit') - 1 : i \in 0 .. limit - 1 /\ i \in 0 .. limit' - 1
  BY FieldFacts, NextFieldFacts DEF Lower
<1>5. View' \in Tape!Block(limit') /\ limit' \in Nat
  BY NextViewIsTape
<1>6. Lower(limit, limit') = Tape!MIN(limit, limit') /\ Lower(position, limit') = Tape!MIN(position, limit')
      /\ Lower(mark, limit') = Tape!MIN(mark, limit')
  BY DEF Tape!MIN, Lower
<1>. QED
  BY <1>1, <1>2, <1>3, <1>4, <1>5, <1>6, SameBlocks DEF Tape!Resize, View

(* Calls that move cursors over memory they leave alone. *)
LEMMA MovesRefine ==
  ASSUME Fields, Fields', NEW n \in Nat,
         SetPosition(n) \/ Mark \/ Reset \/ Clear \/ Flip \/ Rewind \/ Throws
  PROVE  Tape!CodedNext
<1>1. data' = data
  BY DEF SetPosition, Mark, Reset, Clear, Flip, Rewind, Throws, memory
<1>2. limit' = limit => View' = View
  BY <1>1 DEF View
<1>3. ASSUME Throws PROVE Tape!Refuse(0)
  BY <1>2, <1>3, FieldFacts DEF Throws, cursors, Tape!Refuse, View
<1>4. ASSUME (SetPosition(n) /\ ~Throws) \/ Reset PROVE Tape!Seek
  <2>1. limit' = limit /\ position' \in mark .. limit /\ mark' = mark /\ io' = NoBytes
    BY <1>4, FieldFacts DEF SetPosition, Reset, Higher
  <2>. QED
    BY <1>2, <2>1, SameBlocks DEF Tape!Seek, View
<1>5. ASSUME Mark PROVE Tape!SetBookmark
  BY <1>2, <1>5, SameBlocks DEF Mark, Tape!SetBookmark, View
<1>6. ASSUME Clear \/ Rewind PROVE Tape!Restart
  <2>1. limit <= limit' /\ position' = 0 /\ mark' = 0 /\ io' = NoBytes
    BY <1>6, FieldFacts DEF Clear, Rewind
  <2>2. ASSUME NEW i \in 0 .. limit - 1 PROVE View'[i] = View[i]
    <3>1. i \in 0 .. limit' - 1
      BY <2>1, FieldFacts, NextFieldFacts
    <3>. QED
      BY <1>1, <3>1, ViewIsTape, NextViewIsTape
  <2>3. View' \in Tape!Block(limit') /\ limit' \in Nat /\ limit' >= limit
    BY <2>1, NextViewIsTape, FieldFacts
  <2>. QED
    BY <2>1, <2>2, <2>3, SameBlocks DEF Tape!Restart, View
<1>7. ASSUME Flip PROVE Tape!Cut
  <2>1. View' = [i \in 0 .. limit' - 1 |-> View[i]]
    BY <1>1, <1>7, FieldFacts DEF Flip, View
  <2>. QED
    BY <1>7, <2>1, SameBlocks DEF Flip, Tape!Cut, View
<1>. QED
  BY <1>3, <1>4, <1>5, <1>6, <1>7 DEF Tape!CodedNext, Tape!Next

-----------------------------------------------------------------------------
(* A write leaves the tape as it was, but for the block it puts there. *)
OnTape(index, n, block) ==
  /\ View' \in Tape!Block(limit') /\ limit' \in Nat
  /\ limit' >= limit /\ limit' = Tape!MAX(limit, index + n) /\ index + n <= limit'
  /\ \A i \in 0 .. limit - 1 : (i < index \/ i >= index + n) => View'[i] = View[i]
  /\ \A i \in 0 .. n - 1 : View'[index + i] = block[i]

LEMMA WriteOnTape ==
  ASSUME Fields, Fields', NEW index \in Nat, NEW n \in Nat, NEW block \in Block(n),
         Capacity(index + n) <= MaxLimit, WriteAt(index, n, block)
  PROVE  OnTape(index, n, block)
<1>1. /\ limit' = (IF index + n > limit THEN index + n ELSE limit)
      /\ limit' \in Nat /\ limit <= limit' /\ index + n <= limit'
  BY WriteKeeps
<1>2. limit' >= limit /\ limit' = Tape!MAX(limit, index + n)
  BY <1>1, FieldFacts DEF Tape!MAX
<1>3. ASSUME NEW i \in 0 .. limit' - 1
      PROVE  View'[i] = IF i \in index .. index + n - 1 THEN block[i - index] ELSE Grown(size')[i]
  <2>1. View'[i] = data'[i] /\ i \in 0 .. size' - 1
    BY NextViewIsTape
  <2>2. data' = Written(Grown(size'), index, n, block)
    BY DEF WriteAt
  <2>. QED
    BY <2>1, <2>2 DEF Written, Grown
<1>4. ASSUME NEW i \in 0 .. limit - 1, i < index \/ i >= index + n PROVE View'[i] = View[i]
  <2>1. i \in 0 .. limit' - 1 /\ i \notin index .. index + n - 1
    BY <1>1, <1>4, FieldFacts
  <2>2. i \in 0 .. size' - 1 /\ i < size /\ View[i] = data[i]
    BY <2>1, ViewIsTape, NextViewIsTape, FieldFacts
  <2>. QED
    BY <1>3, <2>1, <2>2 DEF Grown
<1>5. ASSUME NEW i \in 0 .. n - 1 PROVE View'[index + i] = block[i]
  <2>1. index + i \in 0 .. limit' - 1 /\ index + i \in index .. index + n - 1
        /\ (index + i) - index = i
    BY <1>1
  <2>. QED
    BY <1>3, <2>1
<1>6. View' \in Tape!Block(limit')
  BY NextViewIsTape
<1>7. \A i \in 0 .. limit - 1 : (i < index \/ i >= index + n) => View'[i] = View[i]
  BY <1>4
<1>8. \A i \in 0 .. n - 1 : View'[index + i] = block[i]
  BY <1>5
<1>. QED
  BY <1>1, <1>2, <1>6, <1>7, <1>8 DEF OnTape

(* A block of n bytes behind a header of k bytes goes over the tape. *)
LEMMA OverwriteRefines ==
  ASSUME Fields, Fields', NEW k \in Nat, NEW n \in Nat, NEW bytes \in Block(k + n),
         Capacity(position + (k + n)) <= MaxLimit, WriteAt(position, k + n, bytes),
         position' = position + k + n, mark' = mark,
         io' = [i \in 0 .. n - 1 |-> bytes[k + i]]
  PROVE  /\ Tape!Overwrite(k)
         /\ position' - position - k = n
         /\ \A i \in 0 .. k - 1 : View'[position + i] = bytes[i]
<1>0. position \in Nat
  BY FieldFacts
<1>1. k + n \in Nat /\ position \in Nat /\ position + (k + n) = position'
      /\ position' - position - k = n /\ position' - position - k - 1 = n - 1
      /\ position' \in Nat /\ position' >= position + k
  <2>1. PICK p \in Nat : p = position
    BY <1>0
  <2>2. PICK e \in Nat : e = p + k + n
    OBVIOUS
  <2>3. /\ k + n \in Nat /\ p + (k + n) = e /\ e - p - k = n
        /\ e - p - k - 1 = n - 1 /\ e >= p + k
    BY <2>2
  <2>4. position' = e
    BY <2>1, <2>2
  <2>. QED
    BY <2>1, <2>3, <2>4
<1>2. /\ View' \in Tape!Block(limit') /\ limit' \in Nat
      /\ limit' = Tape!MAX(limit, position')
      /\ \A i \in 0 .. limit - 1 : (i < position \/ i >= position') => View'[i] = View[i]
      /\ \A i \in 0 .. (k + n) - 1 : View'[position + i] = bytes[i]
  <2>1. PICK s \in Nat : s = k + n
    BY <1>1
  <2>2. bytes \in Block(s) /\ Capacity(position + s) <= MaxLimit /\ WriteAt(position, s, bytes)
    BY <2>1
  <2>3. OnTape(position, s, bytes)
    BY <1>0, <2>2, WriteOnTape
  <2>. QED
    BY <1>1, <2>1, <2>3 DEF OnTape
<1>3. ASSUME NEW i \in 0 .. n - 1 PROVE View'[position + k + i] = bytes[k + i]
  <2>1. k + i \in 0 .. (k + n) - 1 /\ position + (k + i) = position + k + i
    BY <1>1
  <2>. QED
    BY <1>2, <2>1
<1>4. io' = [i \in 0 .. position' - position - k - 1 |-> View'[position + k + i]]
  BY <1>1, <1>3
<1>5. \A i \in 0 .. k - 1 : View'[position + i] = bytes[i]
  <2>. SUFFICES ASSUME NEW i \in 0 .. k - 1 PROVE View'[position + i] = bytes[i]
    OBVIOUS
  <2>1. i \in 0 .. (k + n) - 1
    OBVIOUS
  <2>. QED
    BY <1>2, <2>1
<1>. QED
  BY <1>1, <1>2, <1>4, <1>5 DEF Tape!Overwrite, View

-----------------------------------------------------------------------------
(* Bytes that are read below the limit are bytes of the tape. *)
LEMMA BytesOnTape ==
  ASSUME Fields, NEW from \in Nat, NEW n \in Nat, from + n <= limit
  PROVE  Bytes(from, n) = [i \in 0 .. n - 1 |-> View[from + i]]
<1>1. ASSUME NEW i \in 0 .. n - 1 PROVE View[from + i] = data[from + i]
  BY ViewIsTape, FieldFacts
<1>. QED
  BY <1>1 DEF Bytes

(* A read takes what is there or refuses; a look moves nothing. *)
LEMMA TakeRefines ==
  ASSUME Fields, NEW n \in Nat, position + n <= limit, UNCHANGED <<memory, limit, mark>>,
         position' = position + n, io' = Bytes(position, n)
  PROVE  Tape!Take(0)
<1>1. position \in Nat /\ position' - position - 0 - 1 = n - 1 /\ position' \in Nat
      /\ position' >= position + 0 /\ position + 0 = position
  BY FieldFacts
<1>2. io' = [i \in 0 .. position' - position - 0 - 1 |-> View[position + 0 + i]]
  BY <1>1, BytesOnTape
<1>3. View' = View
  BY DEF memory, View
<1>. QED
  BY <1>1, <1>2, <1>3 DEF Tape!Take, View

LEMMA LookRefines ==
  ASSUME Fields, NEW from \in Nat, NEW n \in Nat, from + n <= limit,
         UNCHANGED <<memory, cursors>>, io' = Bytes(from, n)
  PROVE  Tape!Look
<1>. DEFINE to == from + n
<1>1. from \in 0 .. limit /\ to \in 0 .. limit /\ from <= to /\ to - from - 1 = n - 1
  BY FieldFacts
<1>2. io' = [i \in 0 .. to - from - 1 |-> View[from + i]]
  BY <1>1, BytesOnTape
<1>3. View' = View
  BY DEF memory, cursors, View
<1>. HIDE DEF to
<1>. QED
  BY <1>1, <1>2, <1>3 DEF Tape!Look, View, cursors

LEMMA ThrowsRefines == ASSUME Fields, Throws PROVE Tape!Refuse(0)
<1>1. View' = View
  BY DEF Throws, memory, cursors, View
<1>. QED
  BY <1>1, FieldFacts DEF Throws, cursors, Tape!Refuse, View

LEMMA GetRefines ==
  ASSUME Fields, NEW n \in Nat, Get(n)
  PROVE  Tape!Take(0) \/ Tape!Refuse(0)
BY ThrowsRefines, TakeRefines DEF Get, Readable

(* A block behind a length of k bytes. *)
LEMMA LengthOnTape ==
  ASSUME Fields, NEW k \in 1 .. 2, Readable(position, k)
  PROVE  Tape!Announced(k) = LengthAt(k)
<1>1. View[position] = data[position] /\ (k = 2 => View[position + 1] = data[position + 1])
  BY ViewIsTape, FieldFacts DEF Readable
<1>. QED
  BY <1>1 DEF Tape!Announced, LengthAt, View

LEMMA GetBytesWithLenRefines ==
  ASSUME Fields, NEW k \in 1 .. 2, GetBytesWithLen(k)
  PROVE  Tape!Refuse(0) \/ Tape!Take(k) \/ Tape!Refuse(k)
<1>1. CASE ~Readable(position, k)
  BY <1>1, ThrowsRefines DEF GetBytesWithLen
<1>2. CASE Readable(position, k)
  <2>. DEFINE n == LengthAt(k)
              start == position + k
  <2>1. n \in Nat /\ start \in Nat /\ start <= limit /\ n = Tape!Announced(k)
    BY <1>2, LengthIsNumber, LengthOnTape
  <2>2. \/ ~Readable(start, n) /\ Consumed(k)
        \/ Readable(start, n) /\ position' = start + n /\ io' = Bytes(start, n)
           /\ UNCHANGED <<memory, limit, mark>>
    BY <1>2 DEF GetBytesWithLen
  <2>3. View' = View /\ limit' = limit /\ mark' = mark
    BY <2>2 DEF Consumed, memory, View
  <2>4. start = position + k
    OBVIOUS
  <2>. HIDE DEF n, start
  <2>5. CASE ~Readable(start, n) /\ Consumed(k)
    <3>1. position' = start /\ position' <= limit /\ ~(position' + n <= limit) /\ io' = Null
      BY <2>1, <2>4, <2>5 DEF Consumed, Readable
    <3>2. position' + n > limit
      BY <2>1, <3>1, FieldFacts
    <3>. QED
      BY <2>1, <2>3, <2>4, <3>1, <3>2 DEF Tape!Refuse, View
  <2>6. CASE Readable(start, n) /\ position' = start + n /\ io' = Bytes(start, n)
    <3>1. start + n <= limit /\ io' = [i \in 0 .. n - 1 |-> View[start + i]]
      BY <2>1, <2>6, BytesOnTape DEF Readable
    <3>2. position' \in Nat /\ position' >= position + k /\ position' <= limit
          /\ position' = position + k + n /\ position' - position - k - 1 = n - 1
      <4>1. position \in Nat /\ limit \in Nat /\ start \in Nat /\ n \in Nat /\ k \in Nat
        BY <2>1, FieldFacts
      <4>2. start = position + k /\ position' = start + n /\ start + n <= limit
        BY <2>4, <2>6, <3>1
      <4>. QED
        BY <4>1, <4>2
    <3>3. io' = [i \in 0 .. position' - position - k - 1 |-> View[position + k + i]]
      BY <2>4, <3>1, <3>2
    <3>. QED
      BY <2>1, <2>3, <3>2, <3>3 DEF Tape!Take, View
  <2>. QED
    BY <2>2, <2>5, <2>6
<1>. QED
  BY <1>1, <1>2

-----------------------------------------------------------------------------
(* The integers of the tape are those of the buffer. *)
LEMMA SameTapeIntegers ==
  /\ \A v : Tape!V!VarU64Bytes(v) = V!VarU64Bytes(v)
  /\ \A v : Tape!V!Form(v) = V!Form(v)
  /\ \A b : Tape!V!FormOf(b) = V!FormOf(b)
  /\ \A w, p : Tape!V!VarU64At(w, p) = V!VarU64At(w, p)
BY DEF V!VarU64Bytes, Tape!V!VarU64Bytes, V!FormOf, Tape!V!FormOf, V!Form, Tape!V!Form,
       V!Base, Tape!V!Base, V!Forms, Tape!V!Forms, V!ByteValues, Tape!V!ByteValues,
       V!Payloads, Tape!V!Payloads, V!Lead, Tape!V!Lead,
       V!VarU64At, Tape!V!VarU64At, V!PayloadAt, Tape!V!PayloadAt

(* The header at the head of the tape. *)
LEMMA VarOnTape ==
  ASSUME Fields, Readable(position, 1)
  PROVE  LET w == V!FormOf(data[position])
         IN  /\ Tape!VarComplete <=> Readable(position, w)
             /\ Readable(position, w) =>
                  /\ Tape!VarWidth = w
                  /\ Tape!VarAnnounced = V!VarU64At(data, position).value
<1>. DEFINE w == V!FormOf(data[position])
<1>1. w \in 1 .. Bits + 1 /\ w \in Nat
  BY FormIsNumber
<1>2. View[position] = data[position] /\ position < limit
  BY ViewIsTape, FieldFacts DEF Readable
<1>3. Tape!VarComplete <=> position + w <= limit
  BY <1>2, SameTapeIntegers DEF Tape!VarComplete, View
<1>4. ASSUME Readable(position, w) PROVE V!VarU64At(View, position) = V!VarU64At(data, position)
  <2>1. VP!FormOf(data[position]) = w /\ w \in VP!Forms /\ position \in Nat
    BY <1>1, SameIntegers, FieldFacts DEF VP!Forms
  <2>. HIDE DEF w
  <2>2. ASSUME NEW i \in 1 .. w
        PROVE  data[position + i - 1] \in VP!Byte
               /\ View[position + i - 1] = data[position + i - 1]
    <3>1. position + i - 1 \in 0 .. limit - 1
      BY <1>1, <1>4, FieldFacts DEF Readable
    <3>2. position + i - 1 \in 0 .. size - 1
      BY <3>1, ViewIsTape
    <3>. QED
      BY <3>1, <3>2, ViewIsTape, FieldFacts, SameIntegers DEF Block
  <2>3. VP!VarU64At(View, position) = VP!VarU64At(data, position)
    BY <2>1, <2>2, WidthOfBytes, VP!ReadDependsOnItsBytes
  <2>. QED
    BY <2>3, SameIntegers
<1>5. V!VarU64At(View, position).width = w
  BY <1>2 DEF V!VarU64At
<1>6. Tape!V!VarU64At(View, position) = V!VarU64At(View, position)
  BY SameTapeIntegers
<1>. QED
  BY <1>3, <1>4, <1>5, <1>6 DEF Readable, Tape!VarWidth, Tape!VarAnnounced, View

(* Reading a number, alone or with the block it announces. *)
LEMMA GetVarRefines ==
  ASSUME Fields, NEW withBlock \in BOOLEAN, GetVar(withBlock)
  PROVE  Tape!Refuse(0) \/ Tape!Take(0) \/ Tape!TakeVar \/ Tape!RefuseVar
<1>1. CASE Throws
  BY <1>1, ThrowsRefines
<1>2. CASE ~Throws
  <2>. DEFINE w == V!FormOf(data[position])
              n == V!VarU64At(data, position).value
  <2>1. /\ Readable(position, 1)
        /\ \/ ~Readable(position, w) /\ Consumed(1)
           \/ Readable(position, w) /\ Get(w)
           \/ Readable(position, w) /\ ~Readable(position + w, n) /\ Consumed(w)
           \/ /\ Readable(position, w) /\ Readable(position + w, n)
              /\ position' = position + w + n
              /\ io' = Bytes(position + w, n)
              /\ UNCHANGED <<memory, limit, mark>>
    BY <1>2, GetVarCases
  <2>2. w \in Nat /\ (Readable(position, w) => n \in Nat)
    BY <2>1, FormIsNumber, ValueIsNumber
  <2>3. /\ Tape!VarComplete <=> Readable(position, w)
        /\ Readable(position, w) => Tape!VarWidth = w /\ Tape!VarAnnounced = n
    BY <2>1, VarOnTape
  <2>. HIDE DEF w, n
  <2>4. position \in Nat /\ limit \in Nat /\ position < limit
    BY <2>1, FieldFacts DEF Readable
  <2>5. UNCHANGED <<memory, limit, mark>> => UNCHANGED <<View, limit, mark>>
    BY DEF memory, View
  <2>6. CASE ~Readable(position, w) /\ Consumed(1)
    BY <2>3, <2>4, <2>5, <2>6 DEF Consumed, Tape!RefuseVar, View
  <2>7. CASE Get(w)
    BY <2>2, <2>7, GetRefines
  <2>8. CASE Readable(position, w) /\ ~Readable(position + w, n) /\ Consumed(w)
    <3>1. position' = position + w /\ ~(position' + n <= limit) /\ n \in Nat /\ io' = Null
      BY <2>2, <2>8 DEF Consumed, Readable
    <3>2. position' + n > limit
      BY <2>2, <2>4, <3>1
    <3>. QED
      BY <2>3, <2>5, <2>8, <3>1, <3>2 DEF Consumed, Tape!RefuseVar, View
  <2>9. CASE Readable(position, w) /\ Readable(position + w, n) /\ position' = position + w + n
             /\ io' = Bytes(position + w, n) /\ UNCHANGED <<memory, limit, mark>>
    <3>1. n \in Nat /\ position + w \in Nat /\ (position + w) + n <= limit
      BY <2>2, <2>4, <2>9 DEF Readable
    <3>2. io' = [i \in 0 .. n - 1 |-> View[position + w + i]]
      BY <2>9, <3>1, BytesOnTape
    <3>3. position' <= limit
      BY <2>9, <3>1
    <3>. QED
      BY <2>3, <2>5, <2>9, <3>2, <3>3 DEF Tape!TakeVar, View
  <2>. QED
    BY <2>1, <2>6, <2>7, <2>8, <2>9
<1>. QED
  BY <1>1, <1>2

-----------------------------------------------------------------------------
(* What is put goes over the tape at the head, or anywhere. *)
LEMMA PutRefines ==
  ASSUME Fields, Fields', NEW n \in Nat, NEW block \in Block(n),
         Capacity(position + n) <= MaxLimit, Put(n, block)
  PROVE  Tape!Overwrite(0)
<1>1. 0 + n = n /\ position + 0 + n = position + n /\ \A i \in 0 .. n - 1 : 0 + i = i
  BY FieldFacts
<1>2. block = [i \in 0 .. n - 1 |-> block[0 + i]]
  BY <1>1 DEF Block
<1>. QED
  BY <1>1, <1>2, OverwriteRefines DEF Put

LEMMA PutAtRefines ==
  ASSUME Fields, Fields', NEW index \in Nat, NEW n \in Nat, NEW block \in Block(n),
         Capacity(index + n) <= MaxLimit, PutAt(index, n, block)
  PROVE  Tape!Patch
<1>. DEFINE to == index + n
<1>1. /\ View' \in Tape!Block(limit') /\ limit' \in Nat /\ limit' >= limit
      /\ limit' = Tape!MAX(limit, to) /\ to <= limit'
      /\ \A i \in 0 .. limit - 1 : (i < index \/ i >= to) => View'[i] = View[i]
      /\ \A i \in 0 .. n - 1 : View'[index + i] = block[i]
  <2>1. OnTape(index, n, block)
    BY WriteOnTape DEF PutAt
  <2>. QED
    BY <2>1 DEF OnTape
<1>2. index \in 0 .. limit' /\ to \in 0 .. limit' /\ index <= to /\ to - index - 1 = n - 1
  BY <1>1
<1>3. io' = [i \in 0 .. to - index - 1 |-> View'[index + i]]
  BY <1>1, <1>2 DEF PutAt, Block
<1>. HIDE DEF to
<1>. QED
  BY <1>1, <1>2, <1>3 DEF PutAt, Tape!Patch, View

LEMMA PutFramedRefines ==
  ASSUME Fields, Fields', NEW k \in Nat, NEW header \in Block(k), NEW n \in Nat,
         NEW block \in Block(n), Capacity(position + k + n) <= MaxLimit,
         PutFramed(k, header, n, block)
  PROVE  /\ Tape!Overwrite(k)
         /\ position' - position - k = n
         /\ \A i \in 0 .. k - 1 : View'[position + i] = header[i]
<1>. DEFINE bytes == Frame(k, header, n, block)
<1>1. WriteAt(position, k + n, bytes) /\ position' = position + k + n /\ mark' = mark /\ io' = block
  BY DEF PutFramed, Frame
<1>2. position + (k + n) = position + k + n
  BY FieldFacts
<1>3. bytes \in Block(k + n) /\ \A i \in 0 .. k - 1 : bytes[i] = header[i]
  BY FrameIsBlock
<1>4. io' = [i \in 0 .. n - 1 |-> bytes[k + i]]
  <2>1. \A i \in 0 .. n - 1 : bytes[k + i] = block[i]
    BY FrameIsBlock
  <2>. HIDE DEF bytes
  <2>2. block = [i \in 0 .. n - 1 |-> block[i]]
    BY DEF Block
  <2>. QED
    BY <1>1, <2>1, <2>2
<1>. HIDE DEF bytes
<1>. QED
  BY <1>1, <1>2, <1>3, <1>4, OverwriteRefines

LEMMA PutBytesWithVarLengthRefines ==
  ASSUME Fields, Fields', NEW n \in Lengths, NEW block \in Block(n),
         Capacity(position + VarWidth(n) + n) <= MaxLimit, PutBytesWithVarLength(n, block)
  PROVE  Tape!OverwriteVar
<1>. DEFINE w == VarWidth(n)
            header == VarHeader(n)
<1>1. w \in 1 .. Bits + 1 /\ w \in Nat /\ header \in Block(w) /\ n \in Nat
  BY ValuesPut, VarHeaderBytes, Arguments, WidthOfBytes
<1>2. w = Tape!V!Form(n) /\ header = Tape!VarHeader(n)
  BY SameTapeIntegers DEF VarWidth, VarHeader, Tape!VarHeader
<1>3. PutFramed(w, header, n, block) /\ Capacity(position + w + n) <= MaxLimit
  BY DEF PutBytesWithVarLength
<1>. HIDE DEF w, header
<1>4. Tape!Overwrite(w) /\ position' - position - w = n
      /\ \A i \in 0 .. w - 1 : View'[position + i] = header[i]
  BY <1>1, <1>3, PutFramedRefines
<1>. QED
  BY <1>1, <1>2, <1>4 DEF Tape!OverwriteVar, View

-----------------------------------------------------------------------------
(* Every call is a step of the tape. *)
LEMMA MovesOrResizesRefine == ASSUME Fields, Fields', MovesOrResizes PROVE Tape!CodedNext
<1>1. ASSUME NEW n \in Sizes, SetCapacityThrows(n) PROVE Tape!CodedNext
  BY <1>1, ThrowsRefines DEF SetCapacityThrows, Tape!CodedNext, Tape!Next
<1>2. ASSUME NEW n \in Sizes, Capacity(n) <= MaxLimit, SetCapacity(n) \/ SetLimit(n)
      PROVE  Tape!CodedNext
  BY <1>2, Arguments, ResizeRefines DEF Tape!CodedNext, Tape!Next
<1>3. ASSUME NEW n \in Sizes, SetPosition(n) \/ Mark \/ Reset \/ Clear \/ Flip \/ Rewind
      PROVE  Tape!CodedNext
  BY <1>3, Arguments, MovesRefine
<1>. QED
  BY <1>1, <1>2, <1>3, Arguments DEF MovesOrResizes

LEMMA ReadsRefine == ASSUME Fields, Reads PROVE Tape!CodedNext
<1>0. ASSUME \/ Tape!Take(0) \/ Tape!Refuse(0) \/ Tape!Look \/ Tape!TakeVar \/ Tape!RefuseVar
             \/ \E k \in 1 .. 2 : Tape!Take(k) \/ Tape!Refuse(k)
      PROVE  Tape!CodedNext
  BY <1>0 DEF Tape!CodedNext, Tape!Next
<1>1. CASE \E n \in Lengths : Get(n)
  BY <1>0, <1>1, Arguments, GetRefines
<1>2. CASE \E n \in Lengths : \E index \in Sizes : GetAt(index, n)
  <2>1. PICK n \in Nat, index \in Nat : GetAt(index, n)
    BY <1>2, Arguments
  <2>. QED
    BY <1>0, <2>1, ThrowsRefines, LookRefines DEF GetAt, Readable
<1>3. CASE \E k \in 1 .. 2 : GetBytesWithLen(k)
  BY <1>0, <1>3, GetBytesWithLenRefines
<1>4. CASE GetVarULong \/ GetBytesWithVarLength
  BY <1>0, <1>4, GetVarRefines DEF GetVarULong, GetBytesWithVarLength
<1>5. CASE GetTypdex
  <2>1. CASE Throws
    BY <1>0, <2>1, ThrowsRefines
  <2>2. CASE ~Throws
    BY <1>0, <1>5, <2>2, GetRefines, FormIsNumber DEF GetTypdex
  <2>. QED
    BY <2>1, <2>2
<1>6. CASE GetLastBytes
  <2>. DEFINE n == limit - position
  <2>1. n \in Nat /\ position + n = limit
    BY FieldFacts
  <2>2. UNCHANGED <<memory, limit, mark>> /\ position' = limit
        /\ io' = IF n <= 0 THEN Null ELSE Bytes(position, n)
    BY <1>6 DEF GetLastBytes, Remaining
  <2>. HIDE DEF n
  <2>3. CASE n <= 0
    <3>1. Throws
      BY <2>1, <2>2, <2>3, FieldFacts DEF Throws, cursors
    <3>. QED
      BY <1>0, <3>1, ThrowsRefines
  <2>4. CASE ~(n <= 0)
    <3>1. Tape!Take(0)
      BY <2>1, <2>2, <2>4, FieldFacts, TakeRefines
    <3>. QED
      BY <1>0, <3>1
  <2>. QED
    BY <2>3, <2>4
<1>7. CASE BytesBefore
  <2>1. mark \in Nat /\ position - mark \in Nat /\ mark + (position - mark) <= limit
    BY FieldFacts
  <2>2. Tape!Look
    BY <1>7, <2>1, LookRefines DEF BytesBefore
  <2>. QED
    BY <1>0, <2>2
<1>. QED
  BY <1>1, <1>2, <1>3, <1>4, <1>5, <1>6, <1>7 DEF Reads

LEMMA PutsRefine ==
  ASSUME Fields, Fields', NEW n \in Lengths, NEW block \in [0 .. n - 1 -> PutByte],
         Puts(n, block)
  PROVE  Tape!CodedNext
<1>0. n \in Nat /\ block \in Block(n)
  BY Arguments
<1>1. CASE Capacity(position + n) <= MaxLimit /\ Put(n, block)
  BY <1>0, <1>1, PutRefines DEF Tape!CodedNext, Tape!Next
<1>2. CASE Capacity(position + VarWidth(n) + n) <= MaxLimit /\ PutBytesWithVarLength(n, block)
  BY <1>0, <1>2, PutBytesWithVarLengthRefines DEF Tape!CodedNext
<1>3. CASE \E index \in Sizes : Capacity(index + n) <= MaxLimit /\ PutAt(index, n, block)
  BY <1>0, <1>3, Arguments, PutAtRefines DEF Tape!CodedNext, Tape!Next
<1>4. CASE \E k \in 1 .. 2 :
             Capacity(position + k + n) <= MaxLimit /\ PutBytesWithLen(k, n, block)
  <2>1. PICK k \in 1 .. 2 :
          Capacity(position + k + n) <= MaxLimit /\ PutBytesWithLen(k, n, block)
    BY <1>4
  <2>2. Tape!Overwrite(k) /\ k \in 0 .. 2
    BY <1>0, <2>1, HeaderBytes, PutFramedRefines DEF PutBytesWithLen
  <2>. QED
    BY <2>2 DEF Tape!CodedNext, Tape!Next
<1>. QED
  BY <1>1, <1>2, <1>3, <1>4 DEF Puts

LEMMA PutsNumberRefines == ASSUME Fields, Fields', PutsNumber PROVE Tape!CodedNext
<1>1. PICK v \in 0 .. V!Base[2] + 1 :
        Capacity(position + VarWidth(v)) <= MaxLimit /\ PutVarULong(v)
  BY DEF PutsNumber
<1>2. VarWidth(v) \in Nat /\ VarHeader(v) \in Block(VarWidth(v))
  BY ValuesPut, VarHeaderBytes
<1>3. Tape!Overwrite(0)
  BY <1>1, <1>2, PutRefines DEF PutVarULong
<1>. QED
  BY <1>3 DEF Tape!CodedNext, Tape!Next

LEMMA NextRefines == IInv /\ IInv' /\ [Next]_vars => [Tape!CodedNext]_Tape!vars
<1>. SUFFICES ASSUME Fields, Fields', [Next]_vars PROVE [Tape!CodedNext]_Tape!vars
  BY DEF IInv
<1>1. CASE UNCHANGED vars
  BY <1>1 DEF vars, memory, cursors, Tape!vars
<1>2. CASE Throws
  BY <1>2, ThrowsRefines DEF Tape!CodedNext, Tape!Next
<1>. QED
  BY <1>1, <1>2, NextInGroups, MovesOrResizesRefine, ReadsRefine, PutsRefine, PutsNumberRefines

(* The JavaScript buffer is the tape the C buffer is, with blocks behind     *)
(* variable-length headers: no sequence of calls, whether they return, throw *)
(* or throw halfway, loses, invents or reorders a byte below the limit.      *)
(* compact, which does, is not among them.                                   *)
THEOREM JsDyBufIsATape == Spec => TapeSpec
<1>1. Init => Tape!Init
  BY InitRefines
<1>2. IInv /\ IInv' /\ [Next]_vars => [Tape!CodedNext]_Tape!vars
  BY NextRefines
<1>. QED
  BY <1>1, <1>2, IInvHolds, PTL DEF Spec, TapeSpec, Tape!CodedSpec
=============================================================================
