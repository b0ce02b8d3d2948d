---------------------------- MODULE DybufProofs ----------------------------
(***************************************************************************)
(* Proofs about the cursor buffer of module Dybuf: the fields keep their   *)
(* types and the order 0 <= mark <= position <= limit <= capacity that     *)
(* c/dybuf.h states for them, for every byte radix, allocation unit and    *)
(* bound; they keep the memory they refer to and the bytes behind the      *)
(* mark, and implement a byte tape.  Then about its Python binding, module *)
(* PyDyBuf: its calls keep the contract of the buffer.                     *)
(***************************************************************************)
EXTENDS PyDyBuf, TLAPS

(* The inductive invariant.  The types alone are not inductive: a read or a *)
(* compact takes bytes of data at addresses only the order puts inside it.  *)
IInv == TypeOK /\ CursorOrder

-----------------------------------------------------------------------------
(* A length header of k bytes announces less than its k bytes can hold. *)
LEMMA HeaderLength ==
  ASSUME NEW k \in 1 .. 2, NEW header \in Block(k)
  PROVE  LengthIn(k, header) \in 0 .. LengthSpace(k) - 1
<1>1. CASE k = 1
  BY <1>1, RadixAssumption DEF LengthIn, LengthSpace, Block, Byte
<1>2. CASE k = 2
  <2>1. header[0] \in 0 .. Radix - 1 /\ header[1] \in 0 .. Radix - 1
    BY <1>2, RadixAssumption DEF Block, Byte
  <2>2. ASSUME NEW a \in 0 .. Radix - 1 PROVE a * Radix \in Nat /\ a * Radix <= (Radix - 1) * Radix
    BY RadixAssumption
  <2>3. (Radix - 1) * Radix = Radix * Radix - Radix
    BY RadixAssumption
  <2>4. header[0] * Radix \in Nat /\ header[0] * Radix <= Radix * Radix - Radix
    BY <2>1, <2>2, <2>3
  <2>5. Radix * Radix \in Nat
    BY RadixAssumption
  <2>. QED
    BY <1>2, <2>1, <2>4, <2>5, RadixAssumption DEF LengthIn, LengthSpace
<1>. QED
  BY <1>1, <1>2

(* A length below LengthSpace(k) is written as k bytes. *)
LEMMA HeaderBytes ==
  ASSUME NEW k \in 1 .. 2, NEW n \in 0 .. LengthSpace(k) - 1
  PROVE  Header(k, n) \in Block(k)
<1>1. CASE k = 1
  BY <1>1, RadixAssumption DEF Header, LengthSpace, Block, Byte
<1>2. CASE k = 2
  <2>1. n \in Nat /\ n < Radix * Radix
    BY <1>2, RadixAssumption DEF LengthSpace
  <2>2. n % Radix \in 0 .. Radix - 1
    BY <2>1, RadixAssumption
  <2>3. n \div Radix \in Nat /\ n = Radix * (n \div Radix) + (n % Radix)
    BY <2>1, RadixAssumption
  <2>4. n \div Radix < Radix
    <3>1. SUFFICES ASSUME n \div Radix >= Radix PROVE FALSE
      BY <2>3, RadixAssumption
    <3>2. ASSUME NEW q \in Nat, q >= Radix PROVE Radix * q >= Radix * Radix
      BY <3>2, RadixAssumption
    <3>. QED
      BY <3>1, <3>2, <2>1, <2>2, <2>3, RadixAssumption
  <2>. QED
    BY <1>2, <2>2, <2>3, <2>4, RadixAssumption DEF Header, Block, Byte
<1>. QED
  BY <1>1, <1>2

-----------------------------------------------------------------------------
(* The bytes a read delivers form a block of the length asked for. *)
LEMMA DeliveredIsBlock ==
  ASSUME NEW from, NEW n \in 0 .. UintModulus, NEW b \in Delivered(from, n)
  PROVE  b = Null \/ \E m \in 0 .. UintModulus : b \in Block(m)
BY DEF Delivered

(* The fields part of the invariant, without io: what a call must leave. *)
Fields ==
  /\ capacity \in 0 .. MaxCapacity
  /\ data \in Block(capacity)
  /\ limit \in Nat
  /\ position \in Nat
  /\ mark \in Nat
  /\ fixed \in BOOLEAN
  /\ CursorOrder

IoOK == io = Null \/ \E n \in 0 .. UintModulus : io \in Block(n)

LEMMA IInvParts == IInv <=> Fields /\ IoOK
BY DEF IInv, TypeOK, Fields, IoOK

LEMMA NoBytesIsBlock == NoBytes \in Block(0)
BY DEF NoBytes, Block

(* A buffer is created, referred to or copied with its cursors in order. *)
LEMMA InitIInv == Init => IInv
<1>. SUFFICES ASSUME Init PROVE Fields /\ IoOK
  BY IInvParts
<1>1. IoOK
  BY NoBytesIsBlock, SizeAssumption, RadixAssumption DEF Init, IoOK
<1>2. ASSUME InitCreate PROVE Fields
  <2>1. capacity \in 0 .. MaxCapacity /\ limit = 0 /\ position = 0 /\ mark = 0
    BY <1>2, SizeAssumption DEF Init, InitCreate, AllocSize, MAX
  <2>2. data \in Block(capacity)
    BY <1>2, <2>1, RadixAssumption DEF InitCreate, Block, Byte
  <2>3. fixed \in BOOLEAN
    BY <1>2 DEF InitCreate
  <2>. QED
    BY <2>1, <2>2, <2>3, SizeAssumption DEF Fields, CursorOrder
<1>3. ASSUME InitRefer PROVE Fields
  <2>1. PICK n \in 0 .. MaxCapacity, forWrite \in BOOLEAN :
          /\ capacity = n
          /\ data \in Block(n)
          /\ limit = IF forWrite THEN 0 ELSE n
          /\ fixed = TRUE
    BY <1>3 DEF InitRefer
  <2>2. limit \in 0 .. n
    BY <2>1, SizeAssumption
  <2>. QED
    BY <2>1, <2>2, SizeAssumption DEF Init, Fields, CursorOrder
<1>4. ASSUME InitCopy PROVE Fields
  <2>0. PICK n \in 0 .. MaxCapacity, noCopy \in BOOLEAN :
          \E bytes \in Block(n) :
            /\ capacity = IF noCopy THEN n ELSE AllocSize(n)
            /\ data = [i \in 0 .. capacity - 1 |-> IF i < n THEN bytes[i] ELSE 0]
            /\ limit = n
            /\ fixed = FALSE
    BY <1>4 DEF InitCopy
  <2>1. PICK bytes \in Block(n) :
          /\ capacity = IF noCopy THEN n ELSE AllocSize(n)
          /\ data = [i \in 0 .. capacity - 1 |-> IF i < n THEN bytes[i] ELSE 0]
          /\ limit = n
          /\ fixed = FALSE
    BY <2>0
  <2>2. capacity \in 0 .. MaxCapacity /\ n <= capacity
    BY <2>1, SizeAssumption DEF AllocSize, MAX
  <2>3. data \in Block(capacity)
    BY <2>1, <2>2, RadixAssumption DEF Block, Byte
  <2>4. limit = n /\ position = 0 /\ mark = 0
    BY <2>1 DEF Init
  <2>5. fixed \in BOOLEAN
    BY <2>1
  <2>. QED
    BY <2>2, <2>3, <2>4, <2>5, SizeAssumption DEF Fields, CursorOrder
<1>. QED
  BY <1>1, <1>2, <1>3, <1>4 DEF Init

-----------------------------------------------------------------------------
(* Reallocation yields memory of the new size, filled with bytes. *)
LEMMA ReallocatedIsMemory ==
  ASSUME Fields, NEW n \in Nat
  PROVE  Reallocated(n) \in Block(n)
BY RadixAssumption DEF Fields, Reallocated, Block, Byte

(* The calls that move cursors or resize the memory. *)
LEMMA CursorCallsKeepFields ==
  ASSUME Fields, CursorCalls
  PROVE  Fields' /\ IoOK'
<1>. USE SizeAssumption
<1>1. ASSUME NEW n \in Sizes, SetCapacity(n) PROVE Fields'
  <2>1. capacity' \in 0 .. MaxCapacity
    BY <1>1 DEF SetCapacity, AllocSize, MAX, Sizes
  <2>2. data' \in Block(capacity')
    BY <1>1, <2>1, ReallocatedIsMemory DEF SetCapacity
  <2>. QED
    BY <1>1, <2>1, <2>2 DEF SetCapacity, Fields, CursorOrder, MIN
<1>2. ASSUME NEW n \in Sizes, SetLimit(n) PROVE Fields'
  <2>1. capacity' \in 0 .. MaxCapacity /\ n <= capacity'
    BY <1>2 DEF SetLimit, RoomFor, AllocSize, MAX, Sizes, Fields
  <2>2. data' \in Block(capacity')
    BY <1>2, <2>1, ReallocatedIsMemory DEF SetLimit
  <2>. QED
    BY <1>2, <2>1, <2>2 DEF SetLimit, Fields, CursorOrder, MIN, Sizes
<1>3. ASSUME NEW n \in Sizes,
             SetCapacityRefused(n) \/ SetLimitRefused(n) \/ SetPositionRefused(n)
      PROVE  Fields'
  BY <1>3 DEF SetCapacityRefused, SetLimitRefused, SetPositionRefused,
              memory, cursors, Fields, CursorOrder
<1>4. ASSUME NEW n \in Sizes, SetPosition(n) PROVE Fields'
  BY <1>4 DEF SetPosition, MAX, memory, Fields, CursorOrder, Sizes
<1>5. ASSUME Clear \/ Mark \/ Reset \/ Flip \/ Rewind PROVE Fields'
  <2>1. UNCHANGED <<data, capacity, fixed>>
    BY <1>5 DEF Clear, Mark, Reset, Flip, Rewind, memory
  <2>2. /\ mark' \in {0, mark, position}
        /\ position' \in {0, mark, position}
        /\ limit' \in {capacity, limit, position}
        /\ mark' <= position' /\ position' <= limit' /\ limit' <= capacity
    BY <1>5 DEF Clear, Mark, Reset, Flip, Rewind, memory, Fields, CursorOrder
  <2>. QED
    BY <2>1, <2>2 DEF Fields, CursorOrder
<1>6. ASSUME Compact PROVE Fields'
  <2>1. Remainder \in Nat /\ position + Remainder <= capacity
    BY DEF Remainder, Fields, CursorOrder
  <2>2. ASSUME NEW i \in 0 .. capacity - 1
        PROVE  (IF i < Remainder THEN data[position + i] ELSE data[i]) \in Byte
    BY <2>1 DEF Fields, CursorOrder, Block
  <2>3. data' \in Block(capacity)
    BY <1>6, <2>2 DEF Compact, Block
  <2>. QED
    BY <1>6, <2>1, <2>3 DEF Compact, Remainder, Fields, CursorOrder
<1>7. Fields'
  BY <1>1, <1>2, <1>3, <1>4, <1>5, <1>6 DEF CursorCalls
<1>8. io' = Null \/ io' = NoBytes
  BY DEF CursorCalls, SetCapacity, SetCapacityRefused, SetLimit, SetLimitRefused,
         SetPosition, SetPositionRefused, Clear, Mark, Reset, Flip, Rewind, Compact
<1>9. IoOK'
  BY <1>8, NoBytesIsBlock, RadixAssumption DEF IoOK
<1>. QED
  BY <1>7, <1>9

(* An append inside the contract: the memory grows as needed, the order holds. *)
LEMMA PutBytesKeepsFields ==
  ASSUME Fields, NEW m \in Nat, NEW bytes \in Block(m), Writable(m), PutBytes(m, bytes)
  PROVE  Fields'
<1>. DEFINE end == position + m
            extends == end > limit /\ LimitGranted(end)
<1>1. capacity' = (IF extends THEN RoomFor(end) ELSE capacity)
      /\ data' = Stored(Reallocated(capacity'), m, bytes)
      /\ limit' = (IF extends THEN end ELSE limit)
      /\ position' = end /\ mark' = mark /\ fixed' = fixed
  BY DEF PutBytes
<1>2. capacity' \in 0 .. MaxCapacity /\ limit' \in Nat /\ position' \in Nat
  BY <1>1, SizeAssumption
    DEF Fields, CursorOrder, RoomFor, AllocSize, MAX, LimitGranted, Writable
<1>3. data' \in Block(capacity')
  <2>1. Reallocated(capacity') \in Block(capacity')
    BY <1>2, ReallocatedIsMemory
  <2>. QED
    BY <1>1, <1>2, <2>1 DEF Stored, Block, Fields
<1>4. CursorOrder'
  BY <1>1, SizeAssumption
    DEF Fields, CursorOrder, RoomFor, AllocSize, MAX, LimitGranted, Writable
<1>. QED
  BY <1>1, <1>2, <1>3, <1>4 DEF Fields

(* A block read moves the position inside the limit, or leaves it at start. *)
LEMMA TakeBytesKeepsFields ==
  ASSUME Fields, NEW start \in position .. limit, NEW n \in Nat,
         start + n < UintModulus, TakeBytes(start, n)
  PROVE  Fields' /\ IoOK'
<1>1. (start + n) % UintModulus = start + n
  BY SizeAssumption DEF Fields
<1>2. Fields'
  BY <1>1 DEF TakeBytes, Available, memory, Fields, CursorOrder
<1>3. IoOK'
  <2>1. n \in 0 .. UintModulus
    BY SizeAssumption DEF Fields
  <2>. QED
    BY <2>1, DeliveredIsBlock DEF TakeBytes, IoOK
<1>. QED
  BY <1>2, <1>3

-----------------------------------------------------------------------------
(* Every step inside the contract keeps the types and the order. *)
LEMMA NextKeepsIInv == IInv /\ [Next]_vars => IInv'
<1>. SUFFICES ASSUME Fields, IoOK, [Next]_vars PROVE Fields' /\ IoOK'
  BY IInvParts DEF IInv, TypeOK, Fields, IoOK
<1>. USE SizeAssumption, RadixAssumption
<1>1. CASE CursorCalls
  BY <1>1, CursorCallsKeepFields
<1>2. ASSUME NEW n \in Lengths, NEW block \in Block(n), Writable(n), Append(n, block)
      PROVE  Fields' /\ IoOK'
  <2>1. Fields'
    BY <1>2, PutBytesKeepsFields DEF Append, Lengths
  <2>2. n \in 0 .. UintModulus
    BY <1>2 DEF Writable, Fields, CursorOrder, Lengths
  <2>. QED
    BY <1>2, <2>1, <2>2 DEF Append, IoOK
<1>3. ASSUME NEW n \in Lengths, Readable(n), Next_n(n) \/ Peek(n)
      PROVE  Fields' /\ IoOK'
  <2>1. Fields'
    BY <1>3 DEF Next_n, Peek, Readable, Remainder, memory, cursors, Fields, CursorOrder, Lengths
  <2>2. n \in 0 .. UintModulus
    BY <1>3 DEF Readable, Remainder, Fields, CursorOrder, Lengths
  <2>3. io' \in Delivered(position, n)
    BY <1>3 DEF Next_n, Peek
  <2>. QED
    BY <2>1, <2>2, <2>3 DEF Delivered, IoOK
<1>4. ASSUME NEW n \in Lengths, position + n < UintModulus, NextData(n)
      PROVE  Fields' /\ IoOK'
  BY <1>4, TakeBytesKeepsFields DEF NextData, Lengths, Fields, CursorOrder
<1>5. ASSUME NEW n \in Lengths, NEW k \in 1 .. 2, n < LengthSpace(k), Writable(k + n),
             NEW block \in Block(n), AppendWithLen(k, n, block)
      PROVE  Fields' /\ IoOK'
  <2>. DEFINE frame == [i \in 0 .. k + n - 1 |->
                          IF i < k THEN Header(k, n)[i] ELSE block[i - k]]
  <2>1. LengthSpace(k) \in Nat \ {0} /\ n \in 0 .. LengthSpace(k) - 1
    BY <1>5 DEF LengthSpace, Lengths
  <2>2. n % LengthSpace(k) = n
    BY <2>1
  <2>3. PutBytes(k + n, frame) /\ io' = block
    BY <1>5, <2>2 DEF AppendWithLen
  <2>4. Header(k, n) \in Block(k)
    BY <2>1, HeaderBytes
  <2>5. frame \in Block(k + n)
    BY <2>1, <2>4 DEF Block, Lengths
  <2>6. Fields'
    BY <1>5, <2>3, <2>5, PutBytesKeepsFields DEF Lengths
  <2>7. n \in 0 .. UintModulus
    BY <1>5 DEF Writable, Fields, CursorOrder, Lengths
  <2>. QED
    BY <1>5, <2>3, <2>6, <2>7 DEF IoOK
<1>6. ASSUME NEW k \in 1 .. 2, Readable(k), NextDataWithLen(k)
      PROVE  Fields' /\ IoOK'
  <2>1. PICK header \in Delivered(position, k) :
          TakeBytes(position + k, LengthIn(k, header))
    BY <1>6 DEF NextDataWithLen
  <2>2. LengthIn(k, header) \in 0 .. LengthSpace(k) - 1
    BY HeaderLength DEF Delivered
  <2>3. Radix * Radix \in Nat /\ Radix <= Radix * Radix
    OBVIOUS
  <2>4. LengthSpace(k) \in Nat /\ LengthSpace(k) <= Radix * Radix
    BY <2>3 DEF LengthSpace
  <2>5. position + k \in position .. limit
    BY <1>6 DEF Readable, Remainder, Fields, CursorOrder
  <2>6. position + k + LengthIn(k, header) < UintModulus
    BY <2>2, <2>3, <2>4, <2>5 DEF Fields, CursorOrder
  <2>. QED
    BY <2>1, <2>2, <2>4, <2>5, <2>6, TakeBytesKeepsFields
<1>7. ASSUME DataBefore PROVE Fields' /\ IoOK'
  <2>1. Fields'
    BY <1>7 DEF DataBefore, memory, cursors, Fields, CursorOrder
  <2>2. position \in 0 .. UintModulus
    BY DEF Fields, CursorOrder
  <2>. QED
    BY <1>7, <2>1, <2>2 DEF DataBefore, Delivered, IoOK
<1>8. CASE UNCHANGED vars
  BY <1>8 DEF vars, Fields, IoOK, CursorOrder
<1>. QED
  BY <1>1, <1>2, <1>3, <1>4, <1>5, <1>6, <1>7, <1>8 DEF Next

(* The fields of a dybuf keep their types whatever calls are made. *)
THEOREM TypeCorrect == Spec => []TypeOK
<1>1. Spec => []IInv
  BY InitIInv, NextKeepsIInv, PTL DEF Spec
<1>2. IInv => TypeOK
  BY DEF IInv
<1>. QED
  BY <1>1, <1>2, PTL

(* 0 <= mark <= position <= limit <= capacity after every sequence of calls *)
(* inside the contract.                                                     *)
THEOREM CursorsOrdered == Spec => []CursorOrder
<1>1. Spec => []IInv
  BY InitIInv, NextKeepsIInv, PTL DEF Spec
<1>2. IInv => CursorOrder
  BY DEF IInv
<1>. QED
  BY <1>1, <1>2, PTL

(* Memory referred to is never replaced. *)
THEOREM ReferredMemoryIsKept == Spec => ReferredMemoryKept
<1>1. TypeOK /\ [Next]_vars => [fixed => fixed' /\ capacity' = capacity]_vars
  <2>. SUFFICES ASSUME TypeOK, [Next]_vars, fixed
                PROVE  fixed' = fixed /\ capacity' = capacity
    OBVIOUS
  <2>1. ASSUME NEW n \in Sizes, SetCapacity(n) \/ SetLimit(n)
        PROVE  fixed' = fixed /\ capacity' = capacity
    <3>1. CASE SetCapacity(n)
      BY <3>1 DEF SetCapacity
    <3>2. CASE SetLimit(n)
      <4>1. n <= capacity /\ fixed' = fixed
        BY <3>2 DEF SetLimit, LimitGranted
      <4>. QED
        BY <3>2, <4>1, SizeAssumption DEF SetLimit, RoomFor, Sizes, TypeOK
    <3>. QED
      BY <2>1, <3>1, <3>2
  <2>2. ASSUME CursorCalls PROVE fixed' = fixed /\ capacity' = capacity
    <3>1. ASSUME NEW n \in Sizes,
                 \/ SetCapacityRefused(n) \/ SetLimitRefused(n)
                 \/ SetPosition(n) \/ SetPositionRefused(n)
          PROVE  fixed' = fixed /\ capacity' = capacity
      BY <3>1 DEF SetCapacityRefused, SetLimitRefused, SetPosition, SetPositionRefused, memory
    <3>2. ASSUME Clear \/ Mark \/ Reset \/ Flip \/ Rewind \/ Compact
          PROVE  fixed' = fixed /\ capacity' = capacity
      BY <3>2 DEF Clear, Mark, Reset, Flip, Rewind, Compact, memory
    <3>. QED
      BY <2>1, <2>2, <3>1, <3>2 DEF CursorCalls
  <2>3. ASSUME NEW m \in Nat, NEW bytes, PutBytes(m, bytes)
        PROVE  fixed' = fixed /\ capacity' = capacity
    BY <2>3 DEF PutBytes, LimitGranted, RoomFor, TypeOK
  <2>4. ASSUME NEW n \in Lengths, NEW k \in 1 .. 2, NEW block \in Block(n), AppendWithLen(k, n, block)
        PROVE  fixed' = fixed /\ capacity' = capacity
    <3>1. k + (n % LengthSpace(k)) \in Nat
      BY RadixAssumption, SizeAssumption DEF LengthSpace, Lengths
    <3>. QED
      BY <2>3, <2>4, <3>1 DEF AppendWithLen
  <2>5. ASSUME NEW start, NEW n, TakeBytes(start, n)
        PROVE  fixed' = fixed /\ capacity' = capacity
    BY <2>5 DEF TakeBytes, memory
  <2>6. ASSUME NEW n \in Lengths, NextData(n) PROVE fixed' = fixed /\ capacity' = capacity
    BY <2>5, <2>6 DEF NextData
  <2>7. ASSUME NEW k \in 1 .. 2, NextDataWithLen(k) PROVE fixed' = fixed /\ capacity' = capacity
    BY <2>5, <2>7 DEF NextDataWithLen
  <2>8. ASSUME NEW n \in Lengths, Next_n(n) \/ Peek(n) PROVE fixed' = fixed /\ capacity' = capacity
    BY <2>8 DEF Next_n, Peek, memory
  <2>9. ASSUME NEW n \in Lengths, NEW block \in Block(n), Append(n, block)
        PROVE  fixed' = fixed /\ capacity' = capacity
    <3>1. n \in Nat
      BY SizeAssumption DEF Lengths
    <3>. QED
      BY <2>3, <2>9, <3>1 DEF Append
  <2>10. ASSUME DataBefore \/ vars' = vars PROVE fixed' = fixed /\ capacity' = capacity
    BY <2>10 DEF DataBefore, memory, vars
  <2>. QED
    BY <2>2, <2>4, <2>6, <2>7, <2>8, <2>9, <2>10 DEF Next
<1>. QED
  BY <1>1, TypeCorrect, PTL DEF Spec, ReferredMemoryKept

-----------------------------------------------------------------------------
(* Inside its contract a dybuf implements the tape of module ByteTape: the  *)
(* view of the memory below the limit, the position as head and the mark as *)
(* bookmark.  One lemma per group of calls; the theorem combines them.      *)

View == [i \in 0 .. limit - 1 |-> data[i]]

(* What the invariant says, spread out. *)
LEMMA FieldFacts ==
  Fields => /\ capacity \in Nat /\ limit \in Nat /\ position \in Nat /\ mark \in Nat
            /\ data \in Block(capacity)
            /\ mark <= position /\ position <= limit /\ limit <= capacity
<1>1. MaxCapacity \in Nat
  BY SizeAssumption
<1>. QED
  BY <1>1 DEF Fields, CursorOrder

LEMMA NextFieldFacts ==
  Fields' => /\ capacity' \in Nat /\ limit' \in Nat /\ position' \in Nat /\ mark' \in Nat
             /\ data' \in Block(capacity')
             /\ mark' <= position' /\ position' <= limit' /\ limit' <= capacity'
<1>1. MaxCapacity \in Nat
  BY SizeAssumption
<1>. QED
  BY <1>1 DEF Fields, CursorOrder

(* The first l bytes of a memory of c bytes. *)
LEMMA BlockPrefix ==
  ASSUME NEW c \in Nat, NEW l \in Nat, l <= c, NEW d \in Block(c)
  PROVE  [i \in 0 .. l - 1 |-> d[i]] \in Block(l)
BY DEF Block

LEMMA ViewIsTape ==
  ASSUME Fields
  PROVE  View \in Block(limit)
BY BlockPrefix, FieldFacts DEF View

LEMMA NextViewIsTape ==
  ASSUME Fields'
  PROVE  /\ View' = [i \in 0 .. limit' - 1 |-> data'[i]]
         /\ View' \in Block(limit')
         /\ limit' \in Nat
<1>1. View' = [i \in 0 .. limit' - 1 |-> data'[i]]
  BY DEF View
<1>. QED
  BY <1>1, NextFieldFacts, BlockPrefix

LEMMA Below ==
  \A a, b \in Nat : a < b => a \in 0 .. b - 1
OBVIOUS

LEMMA BelowBoth ==
  ASSUME NEW a \in Nat, NEW b \in Nat
  PROVE  /\ MIN(a, b) \in Nat /\ MIN(a, b) <= a /\ MIN(a, b) <= b
         /\ \A i \in 0 .. MIN(a, b) - 1 : i \in Nat /\ i < a /\ i < b
<1>1. MIN(a, b) \in Nat /\ MIN(a, b) <= a /\ MIN(a, b) <= b
  BY DEF MIN
<1>. QED
  BY <1>1

LEMMA SameBlocks == \A n : Tape!Block(n) = Block(n)
BY DEF Tape!Block, Tape!Byte, Block, Byte

LEMMA SameNoBytes == Tape!NoBytes = NoBytes
BY DEF Tape!NoBytes, NoBytes

LEMMA InitRefines == Init => Tape!Init
<1>. SUFFICES ASSUME Init PROVE Tape!Init
  OBVIOUS
<1>1. Fields
  BY InitIInv, IInvParts
<1>2. View \in Tape!Block(limit)
  BY <1>1, ViewIsTape, SameBlocks
<1>. QED
  BY <1>1, <1>2, SameNoBytes DEF Init, Tape!Init, View, Fields

-----------------------------------------------------------------------------
(* Calls that change the size of the tape: reallocation keeps what is below *)
(* the old and the new limit.                                               *)
LEMMA ResizeRefines ==
  ASSUME Fields, Fields', NEW n \in Sizes, SetCapacity(n) \/ SetLimit(n)
  PROVE  Tape!Resize
<1>1. View' \in Tape!Block(limit')
  BY NextViewIsTape, SameBlocks
<1>2. n \in Nat
  BY SizeAssumption DEF Sizes
<1>3. ASSUME NEW i \in 0 .. MIN(limit, limit') - 1 PROVE View'[i] = View[i]
  <2>1. data' = Reallocated(capacity')
    BY DEF SetCapacity, SetLimit
  <2>2. i \in 0 .. limit - 1 /\ i \in 0 .. limit' - 1
        /\ i < capacity /\ i \in 0 .. capacity' - 1
    <3>1. limit \in Nat /\ limit' \in Nat
      BY DEF Fields
    <3>2. i \in Nat /\ i < limit /\ i < limit'
      BY <3>1, BelowBoth
    <3>. QED
      BY <3>2, FieldFacts, NextFieldFacts
  <2>. QED
    BY <2>1, <2>2 DEF Reallocated, View
<1>4. position' = MIN(position, limit') /\ mark' = MIN(mark, limit')
  BY <1>2 DEF SetCapacity, SetLimit, Fields, CursorOrder, MIN
<1>5. io' = NoBytes
  BY DEF SetCapacity, SetLimit
<1>6. limit' \in Nat
  BY DEF Fields
<1>. QED
  BY <1>1, <1>3, <1>4, <1>5, <1>6, SameNoBytes DEF Tape!Resize, Tape!MIN, MIN, View
(* dyb_clear and dyb_rewind wind the tape back; nothing of it is lost. *)
LEMMA RestartRefines ==
  ASSUME Fields, Fields', Clear \/ Rewind
  PROVE  Tape!Restart
<1>1. data' = data /\ limit <= limit'
  BY FieldFacts DEF Clear, Rewind, memory
<1>2. ASSUME NEW i \in 0 .. limit - 1 PROVE View'[i] = View[i]
  BY <1>1, FieldFacts, NextFieldFacts DEF View
<1>3. View' \in Tape!Block(limit') /\ limit' \in Nat
  BY NextViewIsTape, SameBlocks
<1>4. position' = 0 /\ mark' = 0 /\ io' = NoBytes
  BY DEF Clear, Rewind
<1>. QED
  BY <1>1, <1>2, <1>3, <1>4, SameNoBytes DEF Tape!Restart, View

(* dyb_flip cuts the tape at the head, dyb_compact drops what is before it. *)
LEMMA CutRefines ==
  ASSUME Fields, Fields', Flip
  PROVE  Tape!Cut
<1>1. data' = data /\ limit' = position
  BY DEF Flip, memory
<1>2. View' = [i \in 0 .. limit' - 1 |-> View[i]]
  BY <1>1, FieldFacts DEF View
<1>. QED
  BY <1>1, <1>2, SameNoBytes DEF Flip, Tape!Cut, View

LEMMA DropRefines ==
  ASSUME Fields, Fields', Compact
  PROVE  Tape!Drop
<1>1. limit' = limit - position
  BY DEF Compact, Remainder
<1>2. ASSUME NEW i \in 0 .. limit' - 1 PROVE data'[i] = View[position + i]
  <2>1. i \in 0 .. capacity - 1 /\ i < Remainder /\ position + i \in 0 .. limit - 1
    BY <1>1, FieldFacts DEF Remainder
  <2>. QED
    BY <2>1 DEF Compact, View
<1>3. View' = [i \in 0 .. limit' - 1 |-> View[position + i]]
  BY <1>2, NextViewIsTape
<1>. QED
  BY <1>1, <1>3, SameNoBytes DEF Compact, Tape!Drop, View

(* The calls that only move the head or the bookmark, and the refusals. *)
LEMMA SeekRefines ==
  ASSUME Fields, Fields', NEW n \in Sizes,
         \/ SetPosition(n) \/ Mark \/ Reset
         \/ SetCapacityRefused(n) \/ SetLimitRefused(n) \/ SetPositionRefused(n)
  PROVE  Tape!Seek \/ Tape!SetBookmark \/ Tape!Refuse(0)
<1>1. data' = data /\ limit' = limit
  BY DEF SetPosition, Mark, Reset, SetCapacityRefused, SetLimitRefused,
         SetPositionRefused, memory, cursors
<1>2. View' = View
  BY <1>1 DEF View
<1>3. CASE SetPosition(n) \/ Reset
  <2>1. position' \in mark .. limit /\ mark' = mark /\ io' = NoBytes
    BY <1>1, <1>3, FieldFacts, NextFieldFacts DEF SetPosition, Reset, MAX
  <2>. QED
    BY <1>1, <1>2, <2>1, SameNoBytes DEF Tape!Seek, View
<1>4. CASE Mark
  BY <1>1, <1>2, <1>4, SameNoBytes DEF Mark, Tape!SetBookmark, View
<1>5. CASE SetCapacityRefused(n) \/ SetLimitRefused(n) \/ SetPositionRefused(n)
  <2>1. UNCHANGED <<position, mark>> /\ io' = Null
    BY <1>5 DEF SetCapacityRefused, SetLimitRefused, SetPositionRefused, cursors
  <2>. QED
    BY <1>1, <1>2, <2>1, FieldFacts DEF Tape!Refuse, View
<1>. QED
  BY <1>3, <1>4, <1>5
-----------------------------------------------------------------------------
(* An append of m bytes, the first k of them a length header, overwrites the *)
(* tape at the head, or extends it, and touches nothing else.                *)
LEMMA OverwriteRefines ==
  ASSUME Fields, Fields', NEW m \in Nat, NEW bytes \in Block(m), Writable(m),
         PutBytes(m, bytes), NEW k \in 0 .. 2, k <= m,
         io' = [i \in 0 .. m - k - 1 |-> bytes[k + i]]
  PROVE  Tape!Overwrite(k)
<1>1. position' = position + m /\ mark' = mark
      /\ data' = Stored(Reallocated(capacity'), m, bytes)
  BY DEF PutBytes
<1>2. position + m > limit => LimitGranted(position + m)
  BY FieldFacts DEF LimitGranted, Writable
<1>3. limit' = IF position + m > limit THEN position + m ELSE limit
  BY <1>2 DEF PutBytes
<1>4. limit' = Tape!MAX(limit, position')
  BY <1>1, <1>3, FieldFacts DEF Tape!MAX
<1>5. limit' >= limit /\ limit' >= position'
  BY <1>1, <1>3, FieldFacts
<1>6. ASSUME NEW i \in 0 .. limit' - 1
      PROVE  View'[i] = IF position <= i /\ i < position + m
                        THEN bytes[i - position] ELSE Reallocated(capacity')[i]
  <2>1. i \in 0 .. capacity' - 1
    BY NextFieldFacts
  <2>2. View'[i] = data'[i]
    BY NextViewIsTape
  <2>. QED
    BY <1>1, <2>1, <2>2 DEF Stored, Reallocated
<1>7. ASSUME NEW i \in 0 .. limit - 1, i < position \/ i >= position'
      PROVE  View'[i] = View[i]
  <2>1. i \in 0 .. limit' - 1 /\ i \in 0 .. capacity' - 1 /\ i < capacity
    BY <1>5, FieldFacts, NextFieldFacts
  <2>2. ~(position <= i /\ i < position + m)
    BY <1>1, <1>7, FieldFacts
  <2>3. View'[i] = Reallocated(capacity')[i]
    BY <1>6, <2>1, <2>2
  <2>. QED
    BY <2>1, <2>3 DEF Reallocated, View
<1>8. ASSUME NEW i \in 0 .. m - k - 1
      PROVE  View'[position + k + i] = bytes[k + i]
  <2>1. position \in Nat /\ limit' \in Nat /\ k \in Nat /\ i \in Nat /\ k + i < m
    BY FieldFacts, NextFieldFacts
  <2>2. position + m <= limit'
    BY <1>1, <1>5
  <2>3. PICK j \in Nat : j = position + k + i
    BY <2>1
  <2>4. position <= j /\ j < position + m /\ j - position = k + i
    BY <2>1, <2>3
  <2>5. j < limit'
    BY <2>1, <2>2, <2>4
  <2>6. j \in 0 .. limit' - 1
    BY <2>1, <2>5, Below
  <2>7. View'[j] = bytes[j - position]
    BY <1>6, <2>4, <2>6
  <2>. QED
    BY <2>3, <2>4, <2>7
<1>9. position' - position - k - 1 = m - k - 1
  BY <1>1, FieldFacts
<1>10. io' = [i \in 0 .. position' - position - k - 1 |-> View'[position + k + i]]
  BY <1>8, <1>9
<1>11. View' \in Tape!Block(limit')
  BY NextViewIsTape, SameBlocks
<1>12. position' \in Nat /\ position' >= position + k
  BY <1>1, FieldFacts
<1>. QED
  BY <1>1, <1>4, <1>7, <1>10, <1>11, <1>12 DEF Tape!Overwrite, View

-----------------------------------------------------------------------------
(* Bytes delivered from below the limit are the bytes of the tape. *)
LEMMA DeliveredFromTape ==
  ASSUME Fields, NEW from \in Nat, NEW n \in Nat, from + n <= limit,
         NEW b \in Delivered(from, n)
  PROVE  b = [i \in 0 .. n - 1 |-> View[from + i]]
<1>1. b \in Block(n)
  BY DEF Delivered
<1>2. ASSUME NEW i \in 0 .. n - 1 PROVE b[i] = View[from + i]
  <2>1. from + i < capacity /\ from + i \in 0 .. limit - 1
    BY FieldFacts
  <2>. QED
    BY <2>1 DEF Delivered, View
<1>. QED
  BY <1>1, <1>2 DEF Block

(* A fixed-width read of bytes that are there, or a look at them. *)
LEMMA TakeRefines ==
  ASSUME Fields, Fields', NEW n \in Nat, Readable(n), Next_n(n)
  PROVE  Tape!Take(0)
<1>1. data' = data /\ limit' = limit /\ mark' = mark /\ position' = position + n
      /\ position + n <= limit
  BY FieldFacts DEF Next_n, memory, Readable, Remainder
<1>2. View' = View
  BY <1>1 DEF View
<1>3. io' = [i \in 0 .. n - 1 |-> View[position + i]]
  BY <1>1, FieldFacts, DeliveredFromTape DEF Next_n
<1>4. io' = [i \in 0 .. position' - position - 0 - 1 |-> View[position + 0 + i]]
  <2>1. position' - position - 0 - 1 = n - 1
    BY <1>1, FieldFacts
  <2>2. ASSUME NEW i \in 0 .. n - 1 PROVE position + 0 + i = position + i
    BY FieldFacts
  <2>. QED
    BY <1>3, <2>1, <2>2
<1>. QED
  BY <1>1, <1>2, <1>4, FieldFacts DEF Tape!Take, View

LEMMA LookRefines ==
  ASSUME Fields, Fields', NEW n \in Nat, (Readable(n) /\ Peek(n)) \/ DataBefore
  PROVE  Tape!Look
<1>1. data' = data /\ limit' = limit /\ mark' = mark /\ position' = position
  BY DEF Peek, DataBefore, memory, cursors
<1>2. View' = View
  BY <1>1 DEF View
<1>3. PICK from \in 0 .. limit, to \in 0 .. limit :
        from <= to /\ io' = [i \in 0 .. to - from - 1 |-> View[from + i]]
  <2>1. CASE Readable(n) /\ Peek(n)
    <3>1. position + n <= limit /\ (position + n) - position - 1 = n - 1
      BY <2>1, FieldFacts DEF Readable, Remainder
    <3>2. io' = [i \in 0 .. n - 1 |-> View[position + i]]
      BY <2>1, <3>1, FieldFacts, DeliveredFromTape DEF Peek
    <3>3. position \in 0 .. limit /\ position + n \in 0 .. limit /\ position <= position + n
      BY <3>1, FieldFacts
    <3>. QED
      BY <3>1, <3>2, <3>3
  <2>2. CASE DataBefore
    <3>1. io' = [i \in 0 .. position - 1 |-> View[0 + i]]
      BY <2>2, FieldFacts, DeliveredFromTape DEF DataBefore
    <3>2. 0 \in 0 .. limit /\ position \in 0 .. limit /\ position - 0 - 1 = position - 1
      BY FieldFacts
    <3>. QED
      BY <3>1, <3>2, FieldFacts
  <2>. QED
    BY <2>1, <2>2
<1>. QED
  BY <1>1, <1>2, <1>3 DEF Tape!Look, View

(* A read of a block behind a header of k bytes that announced n bytes. *)
LEMMA BlockRefines ==
  ASSUME Fields, Fields', NEW k \in 0 .. 2, NEW n \in Nat, position + k <= limit,
         position + k + n < UintModulus, k > 0 => Tape!Announced(k) = n,
         TakeBytes(position + k, n)
  PROVE  Tape!Take(k) \/ Tape!Refuse(k)
<1>. DEFINE start == position + k
<1>1. data' = data /\ limit' = limit /\ mark' = mark
  BY DEF TakeBytes, memory
<1>2. View' = View
  BY <1>1 DEF View
<1>3. start \in Nat /\ (start + n) % UintModulus = start + n
  <2>1. start \in Nat
    BY FieldFacts
  <2>2. start + n \in Nat /\ start + n < UintModulus /\ UintModulus \in Nat
    BY <2>1, SizeAssumption
  <2>. QED
    BY <2>1, <2>2
<1>4. CASE Available(start, n)
  <2>1. start + n <= limit /\ position' = start + n /\ io' \in Delivered(start, n)
    BY <1>3, <1>4 DEF Available, TakeBytes
  <2>2. io' = [i \in 0 .. n - 1 |-> View[start + i]]
    BY <1>3, <2>1, DeliveredFromTape
  <2>3. position' - position - k - 1 = n - 1
    BY <2>1, FieldFacts
  <2>4. io' = [i \in 0 .. position' - position - k - 1 |-> View[position + k + i]]
    BY <2>2, <2>3
  <2>5. position' \in Nat /\ position' >= position + k /\ position' <= limit
    BY <1>3, <2>1
  <2>6. k > 0 => position' = position + k + Tape!Announced(k)
    BY <2>1
  <2>. QED
    BY <1>1, <1>2, <2>4, <2>5, <2>6 DEF Tape!Take, View
<1>5. CASE ~Available(start, n)
  <2>1. position' = start /\ io' = Null
    BY <1>3, <1>5 DEF TakeBytes
  <2>2. n = 0 \/ start + n > limit
    BY <1>3, <1>5, FieldFacts DEF Available
  <2>3. k > 0 => Tape!Announced(k) = 0 \/ position' + Tape!Announced(k) > limit
    BY <2>1, <2>2
  <2>. QED
    BY <1>1, <1>2, <2>1, <2>3 DEF Tape!Refuse, View
<1>. QED
  BY <1>4, <1>5

(* The header that is read is the one on the tape. *)
LEMMA AnnouncedIsRead ==
  ASSUME Fields, NEW k \in 1 .. 2, position + k <= limit,
         NEW header \in Delivered(position, k)
  PROVE  Tape!Announced(k) = LengthIn(k, header)
<1>1. header = [i \in 0 .. k - 1 |-> View[position + i]]
  BY FieldFacts, DeliveredFromTape
<1>2. header[0] = View[position]
  <2>1. 0 \in 0 .. k - 1 /\ position + 0 = position
    BY FieldFacts
  <2>. QED
    BY <1>1, <2>1
<1>3. CASE k = 1
  BY <1>2, <1>3 DEF Tape!Announced, LengthIn, View
<1>4. CASE k = 2
  <2>1. header[1] = View[position + 1]
    BY <1>1, <1>4
  <2>. QED
    BY <1>2, <1>4, <2>1 DEF Tape!Announced, LengthIn, View
<1>. QED
  BY <1>3, <1>4

-----------------------------------------------------------------------------
(* Every step inside the contract is a step of the tape. *)
LEMMA NextRefines == IInv /\ IInv' /\ [Next]_vars => [Tape!Next]_Tape!vars
<1>. SUFFICES ASSUME Fields, Fields', [Next]_vars PROVE [Tape!Next]_Tape!vars
  BY IInvParts DEF IInv, TypeOK, Fields
<1>1. CASE CursorCalls
  <2>1. ASSUME NEW n \in Sizes, SetCapacity(n) \/ SetLimit(n) PROVE Tape!Next
    BY <2>1, ResizeRefines DEF Tape!Next
  <2>2. ASSUME NEW n \in Sizes,
               \/ SetPosition(n) \/ SetCapacityRefused(n)
               \/ SetLimitRefused(n) \/ SetPositionRefused(n)
        PROVE  Tape!Next
    BY <2>2, SeekRefines DEF Tape!Next
  <2>3. ASSUME Mark \/ Reset PROVE Tape!Next
    <3>1. 0 \in Sizes
      BY SizeAssumption DEF Sizes
    <3>. QED
      BY <2>3, <3>1, SeekRefines DEF Tape!Next
  <2>4. CASE Clear \/ Rewind
    BY <2>4, RestartRefines DEF Tape!Next
  <2>5. CASE Flip
    BY <2>5, CutRefines DEF Tape!Next
  <2>6. CASE Compact
    BY <2>6, DropRefines DEF Tape!Next
  <2>. QED
    BY <1>1, <2>1, <2>2, <2>3, <2>4, <2>5, <2>6 DEF CursorCalls
<1>2. ASSUME NEW n \in Lengths, NEW block \in Block(n), Writable(n), Append(n, block)
      PROVE  Tape!Next
  <2>1. n \in Nat
    BY SizeAssumption DEF Lengths
  <2>2. io' = [i \in 0 .. n - 0 - 1 |-> block[0 + i]]
    BY <1>2, <2>1 DEF Append, Block
  <2>3. Tape!Overwrite(0)
    BY <1>2, <2>1, <2>2, OverwriteRefines DEF Append
  <2>. QED
    BY <2>3 DEF Tape!Next
<1>3. ASSUME NEW n \in Lengths, Readable(n), Next_n(n) \/ Peek(n)
      PROVE  Tape!Next
  BY <1>3, TakeRefines, LookRefines, SizeAssumption DEF Tape!Next, Lengths
<1>4. ASSUME NEW n \in Lengths, position + n < UintModulus, NextData(n)
      PROVE  Tape!Next
  <2>1. n \in Nat /\ position + 0 = position
    BY FieldFacts, SizeAssumption DEF Lengths
  <2>2. Tape!Take(0) \/ Tape!Refuse(0)
    BY <1>4, <2>1, BlockRefines, FieldFacts DEF NextData
  <2>. QED
    BY <2>2 DEF Tape!Next
<1>5. ASSUME NEW n \in Lengths, NEW k \in 1 .. 2, n < LengthSpace(k), Writable(k + n),
             NEW block \in Block(n), AppendWithLen(k, n, block)
      PROVE  Tape!Next
  <2>. DEFINE frame == [i \in 0 .. k + n - 1 |->
                          IF i < k THEN Header(k, n)[i] ELSE block[i - k]]
  <2>1. LengthSpace(k) \in Nat \ {0} /\ n \in 0 .. LengthSpace(k) - 1 /\ n \in Nat
    BY <1>5, RadixAssumption, SizeAssumption DEF LengthSpace, Lengths
  <2>2. n % LengthSpace(k) = n
    BY <2>1
  <2>3. PutBytes(k + n, frame) /\ io' = block
    BY <1>5, <2>2 DEF AppendWithLen
  <2>4. Header(k, n) \in Block(k)
    BY <2>1, HeaderBytes
  <2>5. frame \in Block(k + n)
    BY <2>1, <2>4 DEF Block
  <2>6. PICK m \in Nat : m = k + n
    BY <2>1
  <2>7. io' = [i \in 0 .. m - k - 1 |-> frame[k + i]]
    <3>1. m - k - 1 = n - 1
      BY <2>1, <2>6
    <3>2. ASSUME NEW i \in 0 .. n - 1 PROVE frame[k + i] = block[i]
      <4>1. k + i \in 0 .. k + n - 1 /\ ~(k + i < k) /\ k + i - k = i
        BY <2>1
      <4>. QED
        BY <4>1
    <3>3. io' = [i \in 0 .. n - 1 |-> frame[k + i]]
      BY <2>3, <3>2 DEF Block
    <3>. QED
      BY <3>1, <3>3
  <2>. HIDE DEF frame
  <2>8. k \in 0 .. 2 /\ k <= m
    BY <2>1, <2>6
  <2>9. Writable(m) /\ PutBytes(m, frame) /\ frame \in Block(m)
    BY <1>5, <2>3, <2>5, <2>6
  <2>11. Tape!Overwrite(k)
    BY <2>7, <2>8, <2>9, OverwriteRefines
  <2>. QED
    BY <2>11 DEF Tape!Next
<1>6. ASSUME NEW k \in 1 .. 2, Readable(k), NextDataWithLen(k)
      PROVE  Tape!Next
  <2>1. PICK header \in Delivered(position, k) :
          TakeBytes(position + k, LengthIn(k, header))
    BY <1>6 DEF NextDataWithLen
  <2>2. position + k <= limit
    BY <1>6, FieldFacts DEF Readable, Remainder
  <2>3. LengthIn(k, header) \in 0 .. LengthSpace(k) - 1
    BY HeaderLength DEF Delivered
  <2>4. Radix * Radix \in Nat /\ Radix <= Radix * Radix
    BY RadixAssumption
  <2>5. LengthSpace(k) \in Nat /\ LengthSpace(k) <= Radix * Radix
    BY <2>4, RadixAssumption DEF LengthSpace
  <2>6. LengthIn(k, header) \in Nat /\ position + k + LengthIn(k, header) < UintModulus
    BY <2>2, <2>3, <2>4, <2>5, SizeAssumption DEF Fields, CursorOrder
  <2>7. Tape!Announced(k) = LengthIn(k, header)
    BY <2>2, AnnouncedIsRead
  <2>8. Tape!Take(k) \/ Tape!Refuse(k)
    BY <2>1, <2>2, <2>6, <2>7, BlockRefines
  <2>. QED
    BY <2>8 DEF Tape!Next
<1>7. ASSUME DataBefore PROVE Tape!Next
  BY <1>7, LookRefines DEF Tape!Next
<1>8. CASE UNCHANGED vars
  BY <1>8 DEF vars, Tape!vars
<1>. QED
  BY <1>1, <1>2, <1>3, <1>4, <1>5, <1>6, <1>7, <1>8 DEF Next

(* A dybuf used inside its contract is a tape: no sequence of growing,      *)
(* compacting, flipping, appending and reading loses, invents or reorders   *)
(* a byte below the limit.                                                  *)
THEOREM DybufIsATape == Spec => TapeSpec
<1>1. Spec => []IInv
  BY InitIInv, NextKeepsIInv, PTL DEF Spec
<1>2. Init => Tape!Init
  BY InitRefines
<1>3. IInv /\ IInv' /\ [Next]_vars => [Tape!Next]_Tape!vars
  BY NextRefines
<1>. QED
  BY <1>1, <1>2, <1>3, PTL DEF Spec, TapeSpec, Tape!Spec

-----------------------------------------------------------------------------
(* The bytes between mark and position, under the calls that replace memory: *)
(* what is below the position, and below the new end, is copied or not       *)
(* touched.                                                                  *)
MarkedKept == mark' = mark /\ mark' > 0 =>
  \A i \in mark .. MIN(position, position') - 1 : data'[i] = data[i]

LEMMA BelowPositions ==
  ASSUME Fields, Fields', NEW i \in mark .. MIN(position, position') - 1
  PROVE  /\ i \in Nat /\ i < position /\ i < position' /\ i < capacity
         /\ i \in 0 .. capacity' - 1
BY FieldFacts, NextFieldFacts DEF MIN

LEMMA ReallocationKeepsMarked ==
  ASSUME Fields, Fields', data' = Reallocated(capacity')
  PROVE  MarkedKept
BY BelowPositions DEF MarkedKept, Reallocated

LEMMA WritingKeepsMarked ==
  ASSUME Fields, Fields', NEW m \in Nat, NEW bytes, PutBytes(m, bytes)
  PROVE  MarkedKept
<1>1. data' = Stored(Reallocated(capacity'), m, bytes)
  BY DEF PutBytes
<1>2. ASSUME NEW i \in mark .. MIN(position, position') - 1 PROVE data'[i] = data[i]
  <2>1. i \in 0 .. capacity' - 1 /\ i < capacity /\ ~(position <= i)
    BY BelowPositions, FieldFacts
  <2>. QED
    BY <1>1, <2>1 DEF Stored, Reallocated
<1>. QED
  BY <1>2 DEF MarkedKept

LEMMA StepKeepsMarked ==
  ASSUME IInv, IInv', [Next]_vars
  PROVE  MarkedKept
<1>0. Fields /\ Fields'
  BY IInvParts DEF IInv, TypeOK, Fields
<1>1. ASSUME data' = data PROVE MarkedKept
  BY <1>1 DEF MarkedKept
<1>2. CASE CursorCalls
  <2>1. ASSUME NEW n \in Sizes, SetCapacity(n) \/ SetLimit(n) PROVE MarkedKept
    BY <1>0, <2>1, ReallocationKeepsMarked DEF SetCapacity, SetLimit
  <2>2. ASSUME Compact PROVE MarkedKept
    BY <2>2 DEF Compact, MarkedKept
  <2>3. ASSUME NEW n \in Sizes,
               SetCapacityRefused(n) \/ SetLimitRefused(n) \/ SetPosition(n) \/ SetPositionRefused(n)
        PROVE  MarkedKept
    BY <1>1, <2>3 DEF SetCapacityRefused, SetLimitRefused, SetPosition, SetPositionRefused, memory
  <2>4. ASSUME Clear \/ Mark \/ Reset \/ Flip \/ Rewind PROVE MarkedKept
    BY <1>1, <2>4 DEF Clear, Mark, Reset, Flip, Rewind, memory
  <2>. QED
    BY <1>2, <2>1, <2>2, <2>3, <2>4 DEF CursorCalls
<1>3. ASSUME NEW n \in Lengths, NEW block \in Block(n), Append(n, block) PROVE MarkedKept
  BY <1>0, <1>3, WritingKeepsMarked, SizeAssumption DEF Append, Lengths
<1>4. ASSUME NEW n \in Lengths, NEW k \in 1 .. 2, NEW block \in Block(n), AppendWithLen(k, n, block)
      PROVE  MarkedKept
  <2>1. k + (n % LengthSpace(k)) \in Nat
    BY RadixAssumption, SizeAssumption DEF LengthSpace, Lengths
  <2>. QED
    BY <1>0, <1>4, <2>1, WritingKeepsMarked DEF AppendWithLen
<1>5. ASSUME NEW n, Next_n(n) \/ Peek(n) \/ NextData(n) \/ NextDataWithLen(n) PROVE MarkedKept
  BY <1>1, <1>5 DEF Next_n, Peek, NextData, NextDataWithLen, TakeBytes, memory
<1>6. CASE DataBefore \/ UNCHANGED vars
  BY <1>1, <1>6 DEF DataBefore, memory, vars
<1>. QED
  BY <1>2, <1>3, <1>4, <1>5, <1>6 DEF Next

(* What lies between the mark and the position is not changed by any call    *)
(* that keeps the mark, so that dyb_reset finds it again: not by growing,    *)
(* not by appending, not by a position that was pulled back.                 *)
THEOREM MarkedBytesAreKept == Spec => MarkedBytesKept
<1>1. Spec => []IInv
  BY InitIInv, NextKeepsIInv, PTL DEF Spec
<1>2. IInv /\ IInv' /\ [Next]_vars =>
        [mark' = mark /\ mark' > 0 =>
           \A i \in mark .. MIN(position, position') - 1 : data'[i] = data[i]]_vars
  BY StepKeepsMarked DEF MarkedKept
<1>. QED
  BY <1>1, <1>2, PTL DEF Spec, MarkedBytesKept

-----------------------------------------------------------------------------
(* The Python binding: it makes calls inside the contract of the C buffer   *)
(* until one goes outside in a way that GoesOutside names, for every radix, *)
(* unit and bound, so that the theorems above carry over that far.          *)
VP == INSTANCE VarIntProofs WITH
  W <- Bits, Null <- Nothing, sent <- Nothing, signed <- FALSE, wire <- <<>>, position <- 0,
  got <- Nothing

(* A length that was read ahead is a uint. *)
AheadOK ==
  \/ ahead = Nothing
  \/ /\ ahead \in Nat /\ ahead < UintModulus
     /\ ahead <= MaxBlock \/ ahead > MaxCapacity

PyInv == outside = Nothing => IInv /\ AheadOK

-----------------------------------------------------------------------------
(* The integers of this module are those of VarIntProofs. *)
LEMMA WidthOfBytes == Bits \in Nat /\ Bits >= 1
BY BitsAssumption

LEMMA SameIntegers ==
  /\ V!Forms = 1 .. Bits + 1 /\ VP!Forms = 1 .. Bits + 1
  /\ \A b : V!FormOf(b) = VP!FormOf(b)
  /\ \A w, p : V!VarU64At(w, p) = VP!VarU64At(w, p)
  /\ VP!Byte = Byte
BY BitsAssumption DEF V!FormOf, VP!FormOf, V!Base, VP!Base,
   V!Forms, VP!Forms, V!ByteValues, VP!ByteValues, V!Payloads, VP!Payloads, V!Lead, VP!Lead,
   V!VarU64At, VP!VarU64At, V!PayloadAt, VP!PayloadAt, VP!Byte, Byte

(* The invariant of the C buffer, as numbers. *)
LEMMA CursorFacts ==
  ASSUME IInv
  PROVE  /\ position \in Nat /\ limit \in Nat /\ mark \in Nat /\ capacity \in Nat
         /\ position <= limit /\ limit <= capacity /\ capacity <= MaxCapacity
         /\ MaxCapacity \in Nat /\ MaxBlock \in Nat /\ UintModulus \in Nat
         /\ position < UintModulus /\ limit < UintModulus
<1>1. Radix * Radix \in Nat
  BY RadixAssumption
<1>. QED
  BY <1>1, SizeAssumption DEF IInv, TypeOK, CursorOrder

(* A length whose bytes are there is read from them, as a number. *)
LEMMA LengthRead ==
  ASSUME IInv, VarComplete
  PROVE  VarValue \in Nat
<1>. DEFINE view == [i \in 1 .. limit |-> data[i - 1]]
            k == VP!FormOf(data[position])
<1>1. position \in Nat /\ limit \in Nat /\ limit <= capacity /\ position < limit
      /\ capacity \in Nat
  BY CursorFacts DEF VarComplete, Remainder
<1>2. \A i \in 0 .. capacity - 1 : data[i] \in Byte
  BY DEF IInv, TypeOK, Block
<1>3. data[position] \in VP!Byte
  BY <1>1, <1>2, SameIntegers
<1>4. k \in VP!Forms /\ k \in Nat /\ position + k <= limit
  <2>1. k \in VP!Forms
    BY <1>3, WidthOfBytes, VP!FormOfFacts
  <2>2. k \in Nat
    BY <2>1, SameIntegers
  <2>3. k <= limit - position
    BY SameIntegers DEF VarComplete, VarWidth, Remainder
  <2>. QED
    BY <1>1, <2>1, <2>2, <2>3
<1>. HIDE DEF k
<1>5. ASSUME NEW i \in 1 .. k PROVE view[(position + 1) + i - 1] \in VP!Byte
  <2>1. (position + 1) + i - 1 \in 1 .. limit /\ position + i - 1 \in 0 .. capacity - 1
        /\ ((position + 1) + i - 1) - 1 = position + i - 1
    BY <1>1, <1>4
  <2>. QED
    BY <1>2, <2>1, SameIntegers
<1>6. VP!FormOf(view[position + 1]) = k /\ position + 1 \in Nat
  <2>1. position + 1 \in 1 .. limit /\ (position + 1) - 1 = position
    BY <1>1
  <2>. QED
    BY <1>1, <2>1 DEF k
<1>. HIDE DEF view
<1>7. VP!VarU64At(view, position + 1).value \in VP!Values
  BY <1>4, <1>5, <1>6, WidthOfBytes, VP!BytesAreRead
<1>8. VP!VarU64At(view, position + 1).value \in Nat
  BY <1>7, WidthOfBytes, VP!ValuesType
<1>. QED
  BY <1>8, SameIntegers DEF VarValue, view

(* A number whose bytes are missing takes the position beyond the limit. *)
LEMMA OverreadPasses ==
  ASSUME IInv, NEW n, Overread(n)
  PROVE  position' > limit
<1>1. n \in Nat /\ n >= 1
  BY BitsAssumption, SameIntegers DEF Overread
<1>2. position' = position + n /\ ~VarComplete /\ (position < capacity => n = VarWidth)
  BY DEF Overread, Next_n
<1>3. CASE position = limit
  BY <1>1, <1>2, <1>3, CursorFacts
<1>4. CASE position < limit
  <2>1. n = VarWidth
    BY <1>2, <1>4, CursorFacts
  <2>2. ~(n <= limit - position)
    BY <1>2, <1>4, <2>1, CursorFacts DEF VarComplete, Remainder
  <2>. QED
    BY <1>1, <1>2, <2>2, CursorFacts
<1>. QED
  BY <1>3, <1>4, CursorFacts

-----------------------------------------------------------------------------
(* Each group of methods makes a call of the contract, none, or one that    *)
(* goes outside as GoesOutside says.                                        *)
LEMMA CursorMethods ==
  ASSUME NEW n \in Sizes, PySetLimit(n) \/ PySetPosition(n) \/ EnsureCapacity(n)
  PROVE  Next
BY DEF PySetLimit, PySetPosition, EnsureCapacity, Next, CursorCalls

LEMMA AppendMethod ==
  ASSUME IInv, outside = Nothing, NEW n \in Lengths, NEW block \in Block(n),
         AppendBytes(n, block) \/ AppendBeyond(n, block)
  PROVE  Next \/ GoesOutside
<1>1. CASE AppendBytes(n, block)
  BY <1>1 DEF AppendBytes, Next
<1>2. CASE AppendBeyond(n, block)
  <2>1. n \in Nat /\ fixed /\ ~(position + n <= capacity)
    BY <1>2, CursorFacts DEF AppendBeyond, Writable, Lengths
  <2>2. position' > capacity
    BY <1>2, <2>1, CursorFacts DEF AppendBeyond
  <2>. QED
    BY <1>2, <2>1, <2>2 DEF AppendBeyond, Leaves, GoesOutside
<1>. QED
  BY <1>1, <1>2

LEMMA AppendMethods ==
  ASSUME IInv, outside = Nothing, NEW n \in Lengths, NEW block \in Block(n),
         AppendBytes(n, block) \/ AppendBeyond(n, block) \/ AppendVarBytes(n, block)
  PROVE  Next \/ GoesOutside
<1>1. CASE AppendVarBytes(n, block)
  <2>1. PICK m \in Lengths :
          /\ Frame(n, block) \in Block(m)
          /\ AppendBytes(m, Frame(n, block)) \/ AppendBeyond(m, Frame(n, block))
    BY <1>1 DEF AppendVarBytes
  <2>. QED
    BY <2>1, AppendMethod
<1>. QED
  BY <1>1, AppendMethod

(* Data that is taken lies below the limit, unless the sum of position and  *)
(* length wraps; a refusal is that of no data.                              *)
LEMMA DataRead ==
  ASSUME IInv, NEW n \in Nat, n <= MaxBlock \/ n > MaxCapacity,
         position + n < UintModulus \/ ~Available(position, n), NextData(n)
  PROVE  Next
<1>1. CASE Available(position, n)
  <2>1. (position + n) % UintModulus = position + n /\ position + n < UintModulus
    BY <1>1, CursorFacts
  <2>2. n \in Lengths
    BY <1>1, <2>1, CursorFacts DEF Available, Lengths
  <2>. QED
    BY <2>1, <2>2 DEF Next
<1>2. CASE ~Available(position, n)
  <2>1. ~Available(position, 0)
    BY DEF Available
  <2>2. NextData(0)
    BY <1>2, <2>1 DEF NextData, TakeBytes
  <2>3. 0 \in Lengths /\ position + 0 < UintModulus
    BY CursorFacts DEF Lengths
  <2>. QED
    BY <2>2, <2>3 DEF Next
<1>. QED
  BY <1>1, <1>2

LEMMA ReadMethods ==
  ASSUME IInv, NEW n \in Lengths, NextFixed(n) \/ Read(n)
  PROVE  Next \/ UNCHANGED vars
<1>1. n \in Nat
  BY DEF Lengths
<1>2. EnsureReadable(n) => Readable(n) /\ position + n < UintModulus
  BY <1>1, CursorFacts DEF EnsureReadable, Readable, Remainder
<1>3. ASSUME NEW e, Raise(e) PROVE UNCHANGED vars
  BY <1>3 DEF Raise
<1>4. CASE NextFixed(n)
  BY <1>2, <1>3, <1>4 DEF NextFixed, Next
<1>5. CASE Read(n)
  BY <1>2, <1>3, <1>5 DEF Read, Next
<1>. QED
  BY <1>4, <1>5

LEMMA TypdexMethods ==
  ASSUME IInv, Typdex
  PROVE  Next \/ UNCHANGED vars
<1>1. ASSUME NEW e, Raise(e) PROVE UNCHANGED vars
  BY <1>1 DEF Raise
<1>2. ASSUME NEW needed \in Lengths, needed <= Remainder, Next_n(needed) \/ Peek(needed)
      PROVE  Next
  BY <1>2 DEF Readable, Next
<1>. QED
  BY <1>1, <1>2 DEF Typdex

LEMMA VarMethods ==
  ASSUME IInv, outside = Nothing, NextVar \/ NextVarLength
  PROVE  Next \/ GoesOutside
<1>1. ASSUME NEW n \in Lengths, VarComplete, n = VarWidth, Next_n(n)
      PROVE  Next
  BY <1>1 DEF VarComplete, Readable, Next
<1>2. ASSUME NEW n, Overread(n), Leaves("next_var") \/ Leaves("next_var_bytes")
      PROVE  GoesOutside
  <2>1. ~VarComplete /\ position' > limit
    BY <1>2, OverreadPasses DEF Overread
  <2>. QED
    BY <1>2, <2>1 DEF Leaves, GoesOutside
<1>. QED
  BY <1>1, <1>2 DEF NextVar, NextVarLength

(* Whatever a method does, the C buffer makes a step of its contract, or    *)
(* this is the call that goes outside.                                      *)
LEMMA StepInContract ==
  ASSUME PyInv, [PyNext]_pyVars
  PROVE  [Next \/ GoesOutside]_vars
<1>1. CASE UNCHANGED pyVars
  BY <1>1 DEF pyVars
<1>2. CASE outside = Nothing /\ ahead = Nothing /\ Methods
  <2>0. IInv
    BY <1>2 DEF PyInv
  <2>1. CASE \E n \in Sizes : PySetLimit(n) \/ PySetPosition(n) \/ EnsureCapacity(n)
    BY <2>1, CursorMethods
  <2>2. CASE PyCursorCall
    BY <2>2 DEF PyCursorCall, Next, CursorCalls
  <2>3. CASE \E n \in Lengths : \E block \in Block(n) :
               AppendBytes(n, block) \/ AppendBeyond(n, block) \/ AppendVarBytes(n, block)
    BY <1>2, <2>0, <2>3, AppendMethods
  <2>4. CASE \E n \in Lengths : (n # 0 /\ NextFixed(n)) \/ Read(n)
    BY <2>0, <2>4, ReadMethods
  <2>5. CASE ValueOutOfRange
    BY <2>5 DEF ValueOutOfRange, Raise
  <2>6. CASE Typdex
    BY <2>0, <2>6, TypdexMethods
  <2>7. CASE NextVar \/ NextVarLength
    BY <1>2, <2>0, <2>7, VarMethods
  <2>. QED
    BY <1>2, <2>1, <2>2, <2>3, <2>4, <2>5, <2>6, <2>7 DEF Methods
<1>3. CASE outside = Nothing /\ ahead # Nothing /\ NextVarData
  <2>1. IInv /\ ahead \in Nat /\ (ahead <= MaxBlock \/ ahead > MaxCapacity)
    BY <1>3 DEF PyInv, AheadOK
  <2>2. CASE Wraps
    BY <1>3, <2>2 DEF NextVarData, GoesOutside
  <2>3. CASE ~Wraps
    <3>1. position + ahead < UintModulus \/ ~Available(position, ahead)
      BY <2>1, <2>3, CursorFacts DEF Wraps
    <3>. QED
      BY <1>3, <2>1, <3>1, DataRead DEF NextVarData
  <2>. QED
    BY <2>2, <2>3
<1>4. CASE outside # Nothing /\ UNCHANGED pyVars
  BY <1>4 DEF pyVars
<1>. QED
  BY <1>1, <1>2, <1>3, <1>4 DEF PyNext

LEMMA StepKeepsAhead ==
  ASSUME PyInv, outside = Nothing, [PyNext]_pyVars, outside' = Nothing
  PROVE  AheadOK'
<1>0. IInv /\ AheadOK
  BY DEF PyInv
<1>1. CASE UNCHANGED pyVars
  BY <1>0, <1>1 DEF pyVars, vars, AheadOK
<1>2. CASE ahead = Nothing /\ Methods /\ ~NextVarLength
  <2>1. ASSUME NEW m, Leaves(m) PROVE ahead' = Nothing
    BY <2>1 DEF Leaves
  <2>2. ahead' = Nothing
    BY <1>2, <2>1 DEF Methods, PySetLimit, PySetPosition, EnsureCapacity, PyCursorCall,
       AppendBytes, AppendBeyond, AppendVarBytes, NextFixed, Read, ValueOutOfRange, Typdex,
       NextVar, Returns, Refused, Raise
  <2>. QED
    BY <2>2 DEF AheadOK
<1>3. CASE NextVarLength
  <2>1. CASE ahead' = Nothing
    BY <2>1 DEF AheadOK
  <2>2. CASE ahead' # Nothing
    <3>1. /\ VarComplete
          /\ ahead' = VarValue % UintModulus
          /\ ahead' <= MaxBlock \/ ahead' > MaxCapacity
      BY <1>3, <2>2 DEF NextVarLength, Leaves
    <3>2. PICK v \in Nat : v = VarValue
      BY <1>0, <3>1, LengthRead
    <3>3. UintModulus \in Nat \ {0}
      BY <1>0, CursorFacts
    <3>4. v % UintModulus \in Nat /\ v % UintModulus < UintModulus
      BY <3>3
    <3>. QED
      BY <3>1, <3>2, <3>4 DEF AheadOK
  <2>. QED
    BY <2>1, <2>2
<1>4. CASE NextVarData
  BY <1>4 DEF NextVarData, AheadOK
<1>. QED
  BY <1>1, <1>2, <1>3, <1>4 DEF PyNext

LEMMA StepKeepsPyInv ==
  ASSUME PyInv, [PyNext]_pyVars
  PROVE  PyInv'
<1>. SUFFICES ASSUME outside' = Nothing PROVE IInv' /\ AheadOK'
  BY DEF PyInv
<1>1. outside = Nothing
  BY DEF PyNext, pyVars
<1>2. ~GoesOutside
  BY NothingAssumption DEF GoesOutside
<1>3. IInv /\ [Next]_vars
  BY <1>1, <1>2, StepInContract DEF PyInv
<1>. QED
  BY <1>1, <1>3, StepKeepsAhead, NextKeepsIInv

LEMMA PyInvHolds == PySpec => []PyInv
<1>1. PyInit => PyInv
  BY InitIInv DEF PyInit, PyInv, AheadOK
<1>2. PyInv /\ [PyNext]_pyVars => PyInv'
  BY StepKeepsPyInv
<1>. QED
  BY <1>1, <1>2, PTL DEF PySpec

-----------------------------------------------------------------------------
(* Every call of the binding that has a test is one of the guarded calls of *)
(* c/dybuf.h; a call goes outside the contract only by appending beyond     *)
(* referred memory, by reading a number whose bytes are missing or by a     *)
(* length that wraps.                                                       *)
THEOREM BindingKeepsContract == PySpec => ContractKept
<1>1. PyInit => Init
  BY DEF PyInit
<1>2. PyInv /\ [PyNext]_pyVars => [Next \/ GoesOutside]_vars
  BY StepInContract
<1>. QED
  BY <1>1, <1>2, PyInvHolds, PTL DEF PySpec, ContractKept

(* So the cursors of a Python DyBuf keep the order c/dybuf.h states, until  *)
(* a call goes outside.                                                     *)
THEOREM BindingKeepsCursors == PySpec => [](outside = Nothing => CursorOrder)
<1>1. PyInv => (outside = Nothing => CursorOrder)
  BY DEF PyInv, IInv
<1>. QED
  BY <1>1, PyInvHolds, PTL

(* The exceptions of a method that is not next_var_bytes. *)
LEMMA RaisedBefore ==
  ASSUME Methods, raised' = "EOFError"
  PROVE  UNCHANGED <<memory, cursors>>
<1>1. ASSUME Raise("EOFError") PROVE UNCHANGED <<memory, cursors>>
  BY <1>1 DEF Raise, vars, memory, cursors
<1>2. ASSUME Returns \/ Refused \/ Raise("ValueError") PROVE FALSE
  BY <1>2, NothingAssumption DEF Returns, Refused, Raise
<1>2a. ASSUME NEW m, Leaves(m) PROVE FALSE
  BY <1>2a, NothingAssumption DEF Leaves
<1>3. ASSUME NEW n, NextFixed(n) \/ Read(n) PROVE UNCHANGED <<memory, cursors>>
  BY <1>1, <1>2, <1>3, NothingAssumption DEF NextFixed, Read
<1>4. ASSUME Typdex PROVE UNCHANGED <<memory, cursors>>
  BY <1>1, <1>2, <1>4 DEF Typdex
<1>5. ASSUME NEW n, PySetLimit(n) \/ PySetPosition(n) \/ EnsureCapacity(n) PROVE FALSE
  BY <1>2, <1>5 DEF PySetLimit, PySetPosition, EnsureCapacity
<1>6. ASSUME NEW n, NEW block,
             AppendBytes(n, block) \/ AppendBeyond(n, block) \/ AppendVarBytes(n, block)
      PROVE  FALSE
  BY <1>2, <1>2a, <1>6 DEF AppendBytes, AppendBeyond, AppendVarBytes
<1>7. ASSUME PyCursorCall \/ ValueOutOfRange \/ NextVar PROVE FALSE
  BY <1>2, <1>2a, <1>7 DEF PyCursorCall, ValueOutOfRange, NextVar
<1>8. ASSUME NextVarLength PROVE FALSE
  BY <1>2a, <1>8, NothingAssumption DEF NextVarLength
<1>. QED
  BY <1>3, <1>4, <1>5, <1>6, <1>7, <1>8 DEF Methods

(* The second half of next_var_bytes raises when the data is missing. *)
LEMMA RaisedAfterLength ==
  ASSUME PyInv, outside = Nothing, ahead # Nothing, NextVarData, raised' = "EOFError"
  PROVE  UNCHANGED <<memory, cursors>> /\ ahead > Remainder
<1>1. IInv /\ ahead \in Nat /\ ahead < UintModulus
  BY DEF PyInv, AheadOK
<1>2. io' = Null /\ ahead # 0 /\ NextData(ahead)
  BY NothingAssumption DEF NextVarData
<1>3. position \in Nat /\ limit \in Nat /\ limit < UintModulus /\ UintModulus \in Nat
  BY <1>1, CursorFacts
<1>4. ~Available(position, ahead)
  <2>1. ahead \in 0 .. UintModulus
    BY <1>1, <1>3
  <2>2. Null \notin Block(ahead)
    BY <2>1, NullAssumption DEF Block, Byte
  <2>. QED
    BY <1>2, <2>2 DEF NextData, TakeBytes, Delivered
<1>5. UNCHANGED <<memory, cursors>>
  BY <1>2, <1>4 DEF NextData, TakeBytes, cursors
<1>6. ~(position + ahead <= limit)
  <2>1. ASSUME position + ahead <= limit PROVE FALSE
    <3>1. (position + ahead) % UintModulus = position + ahead
      BY <1>1, <1>3, <2>1
    <3>. QED
      BY <1>2, <1>4, <2>1, <3>1 DEF Available
  <2>. QED
    BY <2>1
<1>7. ahead > Remainder
  BY <1>1, <1>3, <1>6 DEF Remainder
<1>. QED
  BY <1>5, <1>7

(* An EOFError tells the truth and costs nothing but, in next_var_bytes, the *)
(* length that was read: memory and cursors are as they were, and the data   *)
(* the length announced is more than what is left.                           *)
THEOREM EofErrorsAreSound == PySpec => EofErrorIsSound
<1>1. PyInv /\ [PyNext]_pyVars =>
        [raised' = "EOFError" =>
           /\ UNCHANGED <<memory, cursors>>
           /\ ahead # Nothing => ahead > Remainder]_pyVars
  BY RaisedBefore, RaisedAfterLength DEF PyNext
<1>. QED
  BY <1>1, PyInvHolds, PTL DEF PySpec, EofErrorIsSound
=============================================================================
