------------------------------ MODULE JsDyBuf ------------------------------
(***************************************************************************)
(* The JavaScript buffer (js/DyBuf.js): an ArrayBuffer behind a position,  *)
(* a mark and a limit.  Every read asks prepareForRead first, every write  *)
(* prepareForWrite, which grows the memory; a call that cannot be done     *)
(* throws.  There is no fixed capacity.  Numbers, strings and floats go    *)
(* through the same few calls: a number of fixed width is a block of so    *)
(* many bytes, a string is its bytes.                                      *)
(***************************************************************************)
EXTENDS Naturals, SequencesExt

CONSTANTS
  Bits,         \* bits of a byte: 8
  MaxLong,      \* bytes of the widest number: 8
  MaxMarker,    \* bytes of the longest typdex marker: 4
  Grains,       \* capacities are rounded up to multiples: <<64, 128, 1024>>
  Thresholds,   \* below these capacities: <<1024, 1024 * 1024>>
  MaxLimit,     \* bound: the largest capacity or limit that comes about
  MaxBlock,     \* bound: the longest block put or got
  PutByte,      \* bound: the bytes put; the buffer adopts any bytes
  Null          \* the result of a call that throws, or null

ASSUME BitsAssumption == Bits \in Nat \ {0, 1}
ASSUME RoundingAssumption ==
  /\ \A k \in 1 .. 3 : Grains[k] \in Nat \ {0}
  /\ \A k \in 1 .. 2 : Thresholds[k] \in Nat
ASSUME BoundAssumption ==
  /\ MaxLimit \in Nat
  /\ MaxBlock \in 0 .. MaxLimit
  /\ MaxBlock < 2 ^ (Bits * Bits)   \* the number in front of a block holds it
  /\ PutByte \subseteq 0 .. 2 ^ Bits - 1

VARIABLES
  data,      \* the bytes of the ArrayBuffer
  size,      \* its byteLength
  capacity,  \* _capacity
  limit,     \* _limit
  position,  \* _position
  mark,      \* _mark
  io         \* the bytes the last call carried in or gave back, or Null

cursors == <<limit, position, mark>>
memory == <<data, size, capacity>>
vars == <<memory, cursors, io>>

Radix == 2 ^ Bits
Byte == 0 .. Radix - 1
Block(n) == [0 .. n - 1 -> Byte]
NoBytes == [i \in {} |-> 0]
Lower(a, b) == IF a <= b THEN a ELSE b
Higher(a, b) == IF a >= b THEN a ELSE b

Remaining == limit - position
Bytes(from, n) == [i \in 0 .. n - 1 |-> data[from + i]]
Written(mem, from, n, block) ==
  [i \in DOMAIN mem |-> IF i \in from .. from + n - 1 THEN block[i - from] ELSE mem[i]]

Throws == io' = Null /\ UNCHANGED <<memory, cursors>>

-----------------------------------------------------------------------------
Init ==
  /\ size \in 0 .. MaxBlock
  /\ capacity = size
  /\ \/ limit = 0 /\ data = [i \in 0 .. size - 1 |-> 0]  \* new DyBuf(size)
     \/ limit = size /\ data \in Block(size)              \* new DyBuf(buffer)
  /\ position = 0
  /\ mark = 0
  /\ io = NoBytes

(* Math.ceil(n / grain) * grain *)
Rounded(n, grain) == ((n + grain - 1) \div grain) * grain
Capacity(n) ==
  IF n < Thresholds[1] THEN Rounded(n, Grains[1])
  ELSE IF n < Thresholds[2] THEN Rounded(n, Grains[2])
  ELSE Rounded(n, Grains[3])

(* The old bytes are copied to the front of new, zeroed memory. *)
GrownShort(n) == [i \in 0 .. n - 1 |-> IF i + 1 < size THEN data[i] ELSE 0]
Grown(n) == [i \in 0 .. n - 1 |-> IF i < size THEN data[i] ELSE 0]

(* Copying the whole old memory into a smaller one throws, before anything  *)
(* is assigned.                                                             *)
SetCapacityThrows(n) ==
  /\ n # capacity
  /\ Capacity(n) < size
  /\ Throws
SetCapacityUnrounded(n) ==
  /\ n = capacity \/ Capacity(n) >= size
  /\ capacity' = Capacity(n)
  /\ size' = capacity'
  /\ data' = Grown(n)
  /\ limit' = Lower(limit, capacity')
  /\ position' = Lower(position, capacity')
  /\ mark' = Lower(mark, capacity')
  /\ io' = NoBytes
SetCapacity(n) ==
  /\ n = capacity \/ Capacity(n) >= size
  /\ capacity' = IF n = capacity THEN n ELSE Capacity(n)
  /\ size' = IF n = capacity THEN size ELSE capacity'
  /\ data' = Grown(size')
  /\ limit' = Lower(limit, capacity')
  /\ position' = Lower(position, capacity')
  /\ mark' = Lower(mark, capacity')
  /\ io' = NoBytes

(* The memory behind a limit of n, which setLimit grows when it must. *)
RoomFor(n) == IF n > capacity THEN Capacity(n) ELSE capacity

SetLimit(n) ==
  /\ capacity' = RoomFor(n)
  /\ size' = IF n > capacity THEN capacity' ELSE size
  /\ data' = Grown(size')
  /\ limit' = n
  /\ position' = Lower(position, n)
  /\ mark' = Lower(mark, n)
  /\ io' = NoBytes

SetPosition(n) ==
  \/ n > limit /\ Throws
  \/ /\ n <= limit
     /\ position' = Higher(n, mark)
     /\ io' = NoBytes
     /\ UNCHANGED <<memory, limit, mark>>

(* slice(position, limit - position): the end is taken for a length. *)
Compact ==
  \/ position = 0 /\ io' = NoBytes /\ UNCHANGED <<memory, cursors>>
  \/ /\ position > 0
     /\ size' = IF limit - position > position THEN limit - position - position ELSE 0
     /\ data' = Bytes(position, size')
     /\ limit' = Remaining
     /\ position' = 0
     /\ mark' = 0
     /\ io' = NoBytes
     /\ UNCHANGED capacity

Mark == mark' = position /\ io' = NoBytes /\ UNCHANGED <<memory, limit, position>>
ResetToStart == position' = 0 /\ io' = NoBytes /\ UNCHANGED <<memory, limit, mark>>
Reset == position' = mark /\ io' = NoBytes /\ UNCHANGED <<memory, limit, mark>>

Clear ==
  /\ limit' = capacity /\ position' = 0 /\ mark' = 0
  /\ io' = NoBytes
  /\ UNCHANGED memory
Flip ==
  /\ limit' = position /\ position' = 0 /\ mark' = 0
  /\ io' = NoBytes
  /\ UNCHANGED memory
Rewind ==
  /\ position' = 0 /\ mark' = 0
  /\ io' = NoBytes
  /\ UNCHANGED <<memory, limit>>

-----------------------------------------------------------------------------
(* prepareForWriteAt and the bytes: the limit grows to the end of them. *)
WriteAt(index, n, block) ==
  LET end == index + n
      extends == end > limit
  IN /\ capacity' = IF extends THEN RoomFor(end) ELSE capacity
     /\ size' = IF extends /\ end > capacity THEN capacity' ELSE size
     /\ data' = Written(Grown(size'), index, n, block)
     /\ limit' = IF extends THEN end ELSE limit

(* put..., putLastBytes *)
Put(n, block) ==
  /\ WriteAt(position, n, block)
  /\ position' = position + n
  /\ io' = block
  /\ UNCHANGED mark

(* put...At *)
PutAt(index, n, block) ==
  /\ WriteAt(index, n, block)
  /\ io' = block
  /\ UNCHANGED <<position, mark>>

(* putBytesWithOneByteLength, putBytesWithTwoByteLength: a length that does *)
(* not fit its k bytes throws before anything is written.                   *)
LengthSpace(k) == IF k = 1 THEN Radix ELSE Radix * Radix
Header(k, n) ==
  IF k = 1 THEN [i \in 0 .. 0 |-> n]
           ELSE [i \in 0 .. 1 |-> IF i = 0 THEN n \div Radix ELSE n % Radix]
PutFramed(k, header, n, block) ==
  /\ WriteAt(position, k + n,
             [i \in 0 .. k + n - 1 |-> IF i < k THEN header[i] ELSE block[i - k]])
  /\ position' = position + k + n
  /\ io' = block
  /\ UNCHANGED mark
PutBytesWithLenThrows(k, n) == n >= LengthSpace(k) /\ Throws
PutBytesWithLen(k, n, block) == n < LengthSpace(k) /\ PutFramed(k, Header(k, n), n, block)

(* The variable-length integers, with the forms of C.                       *)
V == INSTANCE VarInt WITH W <- Bits
VarWidth(v) == V!Form(v)
VarHeader(v) == [i \in 0 .. VarWidth(v) - 1 |-> V!VarU64Bytes(v)[i + 1]]

PutVarULong(v) == Put(VarWidth(v), VarHeader(v))
PutBytesWithVarLength(n, block) == PutFramed(VarWidth(n), VarHeader(n), n, block)

(* A number of 1 to 8 bytes is a block; of another length it throws before  *)
(* anything is read or written.  So does a typdex whose type or index no    *)
(* marker of 1 to 4 bytes holds.                                            *)
LongThrows(n) == n \notin 1 .. MaxLong /\ Throws
PutTypdexThrows == Throws

-----------------------------------------------------------------------------
(* prepareForRead, prepareForReadAt *)
Readable(index, n) == index + n <= limit

(* get..., getBytesWithFixedLength *)
Get(n) ==
  \/ ~Readable(position, n) /\ Throws
  \/ /\ Readable(position, n)
     /\ position' = position + n
     /\ io' = Bytes(position, n)
     /\ UNCHANGED <<memory, limit, mark>>

(* peek..., get...At *)
GetAt(index, n) ==
  \/ ~Readable(index, n) /\ Throws
  \/ /\ Readable(index, n)
     /\ io' = Bytes(index, n)
     /\ UNCHANGED <<memory, cursors>>

(* A call that throws halfway keeps what it has read.                       *)
Consumed(n) == position' = position + n /\ io' = Null /\ UNCHANGED <<memory, limit, mark>>

(* getBytesWithOneByteLength, getBytesWithTwoByteLength: the length has     *)
(* been consumed when the bytes behind it turn out to be missing.           *)
LengthAt(k) == IF k = 1 THEN data[position] ELSE data[position] * Radix + data[position + 1]
GetBytesWithLen(k) ==
  \/ ~Readable(position, k) /\ Throws
  \/ /\ Readable(position, k)
     /\ ~Readable(position + k, LengthAt(k))
     /\ Consumed(k)
  \/ /\ Readable(position, k)
     /\ Readable(position + k, LengthAt(k))
     /\ position' = position + k + LengthAt(k)
     /\ io' = Bytes(position + k, LengthAt(k))
     /\ UNCHANGED <<memory, limit, mark>>

(* getVarULong, alone or with a block of the length it gives behind it: the *)
(* first byte is consumed when the others are missing, the header when the  *)
(* block is missing.                                                        *)
GetVar(withBlock) ==
  \/ ~Readable(position, 1) /\ Throws
  \/ /\ Readable(position, 1)
     /\ LET w == V!FormOf(data[position])
            n == V!VarU64At(data, position).value
        IN \/ ~Readable(position, w) /\ Consumed(1)
           \/ Readable(position, w) /\ ~withBlock /\ Get(w)
           \/ /\ Readable(position, w) /\ withBlock
              /\ ~Readable(position + w, n)
              /\ Consumed(w)
           \/ /\ Readable(position, w) /\ withBlock
              /\ Readable(position + w, n)
              /\ position' = position + w + n
              /\ io' = Bytes(position + w, n)
              /\ UNCHANGED <<memory, limit, mark>>
GetVarULong == GetVar(FALSE)
GetBytesWithVarLength == GetVar(TRUE)

(* getTypdex looks at the first byte, which must be there and tell of a     *)
(* marker, then reads that marker whole or not at all.                      *)
GetTypdex ==
  \/ ~Readable(position, 1) /\ Throws
  \/ /\ Readable(position, 1)
     /\ LET w == V!FormOf(data[position])
        IN IF w > MaxMarker THEN Throws ELSE Get(w)

(* getLastBytes: everything up to the limit, null if there is nothing. *)
GetLastBytes ==
  /\ position' = limit
  /\ io' = IF Remaining <= 0 THEN Null ELSE Bytes(position, Remaining)
  /\ UNCHANGED <<memory, limit, mark>>

(* toBytesBeforeCurrentPosition *)
BytesBefore ==
  /\ io' = Bytes(mark, position - mark)
  /\ UNCHANGED <<memory, cursors>>

-----------------------------------------------------------------------------
Sizes == 0 .. MaxLimit
Lengths == 0 .. MaxBlock

Next ==
  \/ \E n \in Sizes :
       \/ SetCapacityThrows(n)
       \/ Capacity(n) <= MaxLimit /\ (SetCapacity(n) \/ SetLimit(n))
       \/ SetPosition(n)
  \/ Mark \/ Reset \/ Clear \/ Flip \/ Rewind
  \/ \E n \in Lengths :
       \/ Get(n) \/ LongThrows(n)
       \/ \E index \in Sizes : GetAt(index, n)
       \/ \E block \in [0 .. n - 1 -> PutByte] :
            \/ Capacity(position + n) <= MaxLimit /\ Put(n, block)
            \/ /\ Capacity(position + VarWidth(n) + n) <= MaxLimit
               /\ PutBytesWithVarLength(n, block)
            \/ \E index \in Sizes : Capacity(index + n) <= MaxLimit /\ PutAt(index, n, block)
            \/ \E k \in 1 .. 2 :
                 Capacity(position + k + n) <= MaxLimit /\ PutBytesWithLen(k, n, block)
  \/ \E v \in 0 .. V!Base[2] + 1 :
       Capacity(position + VarWidth(v)) <= MaxLimit /\ PutVarULong(v)
  \/ \E k \in 1 .. 2 : GetBytesWithLen(k) \/ PutBytesWithLenThrows(k, LengthSpace(k))
  \/ GetVarULong \/ GetBytesWithVarLength \/ GetTypdex \/ PutTypdexThrows
  \/ GetLastBytes \/ BytesBefore

Spec == Init /\ [][Next]_vars
CompactSpec == Init /\ [][Next \/ Compact]_vars

-----------------------------------------------------------------------------
TypeOK ==
  /\ size \in 0 .. MaxLimit
  /\ data \in Block(size)
  /\ io = Null \/ \E n \in 0 .. MaxLimit : io \in Block(n)

(* As in C, 0 <= mark <= position <= limit <= capacity, and the capacity is *)
(* the memory there is, also after calls that threw halfway.                *)
CursorOrder ==
  /\ mark <= position
  /\ position <= limit
  /\ limit <= capacity
  /\ capacity = size

(* The JavaScript buffer is the tape the C buffer is (js/README.md: the     *)
(* cursor semantics of C); compact, which is not, is checked by itself.     *)
Tape == INSTANCE CodedTape WITH
  tape <- [i \in 0 .. limit - 1 |-> data[i]],
  len <- limit, head <- position, bookmark <- mark
TapeSpec == Tape!CodedSpec

(* The comment on compact: the bytes between the position and the limit are *)
(* copied to the beginning of the buffer.                                   *)
CompactKeepsUnread ==
  [][ Compact =>
        \A i \in 0 .. Remaining - 1 : i < size' /\ data'[i] = data[position + i] ]_vars

=============================================================================
