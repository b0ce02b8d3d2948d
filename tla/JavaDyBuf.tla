----------------------------- MODULE JavaDyBuf -----------------------------
(***************************************************************************)
(* One Java buffer (java/src/oyo/lol/util/DyBuf.java) in the hands of one  *)
(* thread: cursors, blocks, lengths, variable-length headers, checksum and *)
(* masking, file access.  Arrays come from the shared cache (JavaMemCache) *)
(* with whatever bytes they held.  Limit and capacity cannot be set from   *)
(* outside; they grow with the writes.  A call that cannot be done throws. *)
(***************************************************************************)
EXTENDS Integers, SequencesExt

CONSTANTS
  Bits,         \* bits of a byte: 8
  Unit,         \* CACHE_SIZE_UNIT: 16
  IntModulus,   \* a length is cut to an int: 2^32
  CrcPeriod,    \* the checksum is complemented every 16 bytes
  Seed,         \* where the masking starts: 0xff, or 0x5a
  MaxMarker,    \* bytes of the longest typdex marker: 4
  MaxLimit,     \* bound: the largest limit that comes about
  MaxBlock,     \* bound: the longest block put or got
  PutByte,      \* bound: the bytes put; the buffer adopts any bytes
  Null          \* the result of a call that throws, or false

ASSUME JavaAssumption ==
  /\ Bits \in Nat \ {0, 1}
  /\ Unit \in Nat \ {0}
  /\ CrcPeriod \in Nat \ {0}
  /\ Seed \in 0 .. 2 ^ Bits - 1
ASSUME BoundAssumption ==
  /\ MaxLimit \in Nat
  /\ MaxBlock \in 0 .. MaxLimit
  /\ MaxBlock < 2 ^ (Bits * Bits)   \* the number in front of a block holds it
  /\ PutByte \subseteq 0 .. 2 ^ Bits - 1
ASSUME IntAssumption ==              \* the cursors are ints
  IntModulus \in Nat /\ MaxLimit < IntModulus \div 2

VARIABLES
  data,      \* _data; its length is _capacity
  capacity,  \* _capacity
  limit,     \* _limit
  position,  \* _position
  mark,      \* _mark
  io         \* the bytes the last call carried in or gave back, or Null

cursors == <<limit, position, mark>>
memory == <<data, capacity>>
vars == <<memory, cursors, io>>

Radix == 2 ^ Bits
Byte == 0 .. Radix - 1
Block(n) == [0 .. n - 1 -> Byte]
NoBytes == [i \in {} |-> 0]
V == INSTANCE VarInt WITH W <- Bits

Remaining == limit - position
Bytes(from, n) == [i \in 0 .. n - 1 |-> data[from + i]]

Throws == io' = Null /\ UNCHANGED <<memory, cursors>>
Gives(block) == io' = block /\ UNCHANGED <<memory, cursors>>

-----------------------------------------------------------------------------
(* allocBytes: the least Unit * 2^k that is not below n. *)
Rounded(n) ==
  LET powers == {Unit * 2 ^ k : k \in 0 .. n}
  IN CHOOSE c \in powers : c >= n /\ \A d \in powers : d >= n => c <= d

ASSUME RoomAssumption == \A n \in 0 .. MaxBlock \cup {Unit} : Rounded(n) <= MaxLimit

(* What an array of n bytes can hold that starts with the m bytes of block. *)
Fresh(n, m, block) ==
  {bytes \in Block(n) : \A i \in 0 .. m - 1 : bytes[i] = block[i]}

(* new DyBuf(n), new DyBuf(bytes, noCopy), new DyBuf(null, noCopy) *)
Init ==
  /\ \/ \E n \in 0 .. MaxBlock :
          /\ capacity = Rounded(n) /\ data \in Block(capacity)
          /\ limit = 0
     \/ \E n \in 0 .. MaxBlock :
          /\ capacity = n /\ data \in Block(n)
          /\ limit = n
     \/ \E n \in 0 .. MaxBlock : \E bytes \in Block(n) :
          /\ capacity = Rounded(n) /\ data \in Fresh(capacity, n, bytes)
          /\ limit = n
     \/ /\ capacity = Rounded(Unit) /\ data \in Block(capacity)
        /\ limit = capacity
  /\ position = 0
  /\ mark = 0
  /\ io = NoBytes

(* prepareForWrite, and limit and capacity for it: the array behind a       *)
(* limit that reaches end, and what it may hold.                            *)
CopiedShort(n) == n - 1
Copied(n) == n

RoomAsked(end) == IF end > capacity THEN end ELSE capacity
RoomFor(end) == IF end > capacity THEN Rounded(end) ELSE capacity
Grown(end) ==
  IF end > capacity THEN Fresh(Rounded(end), Copied(capacity), data) ELSE {data}

-----------------------------------------------------------------------------
(* position(n): not beyond the limit, never before the mark. *)
SetPosition(n) ==
  \/ n > limit /\ Throws
  \/ /\ n <= limit
     /\ position' = IF n < mark THEN mark ELSE n
     /\ io' = NoBytes
     /\ UNCHANGED <<memory, limit, mark>>

(* The unread bytes move to the front of the same array. *)
Compact ==
  \/ position = 0 /\ Gives(NoBytes)
  \/ /\ position > 0
     /\ data' = [i \in DOMAIN data |-> IF i < Remaining THEN data[position + i] ELSE data[i]]
     /\ limit' = Remaining
     /\ position' = 0
     /\ mark' = 0
     /\ io' = NoBytes
     /\ UNCHANGED capacity

Mark == mark' = position /\ io' = NoBytes /\ UNCHANGED <<memory, limit, position>>
ResetToStart == position' = 0 /\ io' = NoBytes /\ UNCHANGED <<memory, limit, mark>>
Reset == position' = mark /\ io' = NoBytes /\ UNCHANGED <<memory, limit, mark>>

Clear ==
  /\ limit' = capacity /\ position' = 0 /\ mark' = 0
  /\ io' = NoBytes
  /\ UNCHANGED memory
Flip ==
  /\ limit' = position /\ position' = 0 /\ mark' = 0
  /\ io' = NoBytes
  /\ UNCHANGED memory
Rewind ==
  /\ position' = 0 /\ mark' = 0
  /\ io' = NoBytes
  /\ UNCHANGED <<memory, limit>>

-----------------------------------------------------------------------------
(* prepareForWrite and the n bytes stored at index. *)
WriteAt(index, n, block) ==
  LET end == index + n
      extends == end > limit
  IN /\ capacity' = IF extends THEN RoomFor(end) ELSE capacity
     /\ limit' = IF extends THEN end ELSE limit
     /\ \E bytes \in IF extends THEN Grown(end) ELSE {data} :
          data' = [i \in DOMAIN bytes |->
                     IF i \in index .. end - 1 THEN block[i - index] ELSE bytes[i]]

(* The k bytes of a header and the n bytes of a block, at the position. *)
PutFramed(k, header, n, block) ==
  /\ WriteAt(position, k + n,
             [i \in 0 .. k + n - 1 |-> IF i < k THEN header[i] ELSE block[i - k]])
  /\ position' = position + k + n
  /\ io' = block
  /\ UNCHANGED mark

(* The relative puts of a number, putLastBytes, putBytes *)
Put(n, block) == PutFramed(0, NoBytes, n, block)

(* The puts at an index *)
PutAt(index, n, block) ==
  /\ WriteAt(index, n, block)
  /\ io' = block
  /\ UNCHANGED <<position, mark>>

(* putBytesWithOneByteLength, putBytesWithTwoBytesLength *)
LengthSpace(k) == IF k = 1 THEN Radix ELSE Radix * Radix
Header(k, n) ==
  IF k = 1 THEN [i \in 0 .. 0 |-> n]
           ELSE [i \in 0 .. 1 |-> IF i = 0 THEN n \div Radix ELSE n % Radix]
PutBytesWithLenThrows(k, n) == n >= LengthSpace(k) /\ Throws
PutBytesWithLen(k, n, block) == n < LengthSpace(k) /\ PutFramed(k, Header(k, n), n, block)

(* putVarLong, putVarLengthData: the header has the forms of C.             *)
VarWidth(v) == V!Form(v)
VarHeader(v) == [i \in 0 .. VarWidth(v) - 1 |-> V!VarU64Bytes(v)[i + 1]]
PutVarLong(v) == Put(VarWidth(v), VarHeader(v))
PutVarLengthData(n, block) == PutFramed(VarWidth(n), VarHeader(n), n, block)

(* putTypdex of a type or an index no marker holds; others are a Put.       *)
PutTypdexThrows == Throws

-----------------------------------------------------------------------------
(* prepareForRead *)
Readable(index, n) == index + n <= limit

(* A call that throws halfway keeps what it has read. *)
Consumed(n) == position' = position + n /\ io' = Null /\ UNCHANGED <<memory, limit, mark>>

(* The block of n bytes behind a header of k; n may be negative, which only *)
(* the copy notices.                                                        *)
Take(k, n) ==
  \/ (n < 0 \/ ~Readable(position + k, n)) /\ Consumed(k)
  \/ /\ n >= 0 /\ Readable(position + k, n)
     /\ position' = position + k + n
     /\ io' = Bytes(position + k, n)
     /\ UNCHANGED <<memory, limit, mark>>

(* The relative gets of a number, getBytesWithFixedLength *)
Get(n) == Take(0, n)

(* The peeks, the gets at an index *)
GetAt(index, n) ==
  \/ ~Readable(index, n) /\ Throws
  \/ Readable(index, n) /\ Gives(Bytes(index, n))

(* getBytesWithOneByteLength takes its length for a signed byte,            *)
(* getBytesWithTwoBytesLength does not.                                     *)
Signed(b) == IF b >= Radix \div 2 THEN b - Radix ELSE b
LengthAt(k) ==
  IF k = 1 THEN Signed(data[position]) ELSE data[position] * Radix + data[position + 1]
GetBytesWithLen(k) ==
  \/ ~Readable(position, k) /\ Throws
  \/ Readable(position, k) /\ Take(k, LengthAt(k))

(* getVarLong: the first byte is consumed when the others are missing.      *)
GetVarLong ==
  \/ ~Readable(position, 1) /\ Throws
  \/ /\ Readable(position, 1)
     /\ LET w == V!FormOf(data[position])
        IN IF Readable(position, w) THEN Get(w) ELSE Consumed(1)

(* getVarLengthData: the length is cut to an int.                           *)
IntOf(n) ==
  LET m == n % IntModulus IN IF m >= IntModulus \div 2 THEN m - IntModulus ELSE m
GetVarLengthData ==
  \/ ~Readable(position, 1) /\ Throws
  \/ /\ Readable(position, 1)
     /\ LET w == V!FormOf(data[position])
        IN \/ ~Readable(position, w) /\ Consumed(1)
           \/ Readable(position, w) /\ Take(w, IntOf(V!VarU64At(data, position).value))

(* getVarLongBytes looks at the first byte and reads all of the bytes or    *)
(* none; so does getTypdex, for which some first bytes are no marker.       *)
GetWhole(longest) ==
  \/ ~Readable(position, 1) /\ Throws
  \/ /\ Readable(position, 1)
     /\ LET w == V!FormOf(data[position])
        IN IF w > longest THEN Throws ELSE Get(w)
GetVarLongBytes == GetWhole(Bits + 1)
GetTypdex == GetWhole(MaxMarker)

(* getLastBytes: everything up to the limit. *)
GetLastBytes ==
  /\ position' = limit
  /\ io' = Bytes(position, Remaining)
  /\ UNCHANGED <<memory, limit, mark>>

(* toBytesBeforeCurrentPosition, toOutputStream *)
ToBytes == Gives(Bytes(mark, position - mark))

(* writeBytesBeforeCurrentPositionTo hands over as many bytes from the mark *)
(* as the position says, or throws where the array has fewer.               *)
WriteBytesTo ==
  IF mark + position > capacity THEN Throws ELSE Gives(Bytes(mark, position))

(* readDataFromFile: the m bytes of the file that are there, then zeroes.   *)
ReadDataFromFile(n, m, bytes) ==
  Put(n, [i \in 0 .. n - 1 |-> IF i < m THEN bytes[i] ELSE 0])

(* dumpDataToFile *)
DumpDataToFile(n) == Gives(Bytes(position, IF Remaining < n THEN Remaining ELSE n))

-----------------------------------------------------------------------------
(* a ^ b: the byte whose bits are set where those of a and b differ. *)
Bit(b, i) == (b \div 2 ^ i) % 2
Xored(a, b) == CHOOSE c \in Byte : \A i \in 0 .. Bits - 1 : Bit(c, i) = (Bit(a, i) + Bit(b, i)) % 2

(* The checksum of the first n bytes. *)
Crc(bytes, n) ==
  LET upTo[i \in 0 .. n] ==
        IF i = 0 THEN 0
        ELSE LET crc == upTo[i - 1]
             IN Xored(IF (i - 1) % CrcPeriod = 0 THEN Radix - 1 - crc ELSE crc, bytes[i - 1])
  IN upTo[n]

(* applyXOR, applyXOR2: from the last of n bytes to the first, each byte    *)
(* gathers all those behind it; unapplyXOR, unapplyXOR2 take it apart.      *)
Masked(bytes, n) ==
  LET from[i \in 0 .. n] == IF i = n THEN Seed ELSE Xored(bytes[i], from[i + 1])
  IN [i \in DOMAIN bytes |-> IF i < n THEN from[i] ELSE bytes[i]]
UnmaskedFromFront(bytes, n) ==
  [i \in DOMAIN bytes |->
     IF i < n THEN Xored(bytes[i], IF i = 0 THEN Seed ELSE bytes[i - 1]) ELSE bytes[i]]
Unmasked(bytes, n) ==
  [i \in DOMAIN bytes |->
     IF i < n THEN Xored(bytes[i], IF i = n - 1 THEN Seed ELSE bytes[i + 1]) ELSE bytes[i]]

Put1ByteCRC == Put(1, [i \in 0 .. 0 |-> Crc(data, position)])

(* The last byte below the limit goes if it is the checksum of the others.  *)
CrcMatches(bytes, n) == n > 0 /\ bytes[n - 1] = Crc(bytes, n - 1)
Truncate1ByteCRC ==
  \/ ~CrcMatches(data, limit) /\ Throws
  \/ /\ CrcMatches(data, limit)
     /\ limit' = limit - 1
     /\ io' = NoBytes
     /\ UNCHANGED <<memory, position, mark>>

ApplyXOR ==
  /\ data' = Masked(data, position)
  /\ io' = [i \in 0 .. position - 1 |-> data'[i]]
  /\ UNCHANGED <<capacity, cursors>>
UnapplyXOR ==
  /\ data' = Unmasked(data, limit)
  /\ io' = [i \in 0 .. limit - 1 |-> data'[i]]
  /\ UNCHANGED <<capacity, cursors>>

-----------------------------------------------------------------------------
Sizes == 0 .. MaxLimit
Lengths == 0 .. MaxBlock
Fits(end) == Rounded(end) <= MaxLimit

(* The length a whole header announces is one that an int has bits for.     *)
LengthIsInt ==
  LET w == V!FormOf(data[position])
  IN Readable(position, 1) /\ Readable(position, w) =>
       V!VarU64At(data, position).value < IntModulus

(* The lengths of one byte that Next reads are below half the range, those  *)
(* of a varint below 2^32; it hands bytes to another buffer only with the   *)
(* mark at the start, and takes the checksum off only "after init", as the  *)
(* comment on it demands.                                                   *)
Next ==
  \/ \E n \in Sizes : SetPosition(n) \/ DumpDataToFile(n)
  \/ Compact \/ Mark \/ Reset \/ Clear \/ Flip \/ Rewind
  \/ \E n \in Lengths :
       \/ Get(n)
       \/ \E index \in Sizes : GetAt(index, n)
       \/ \E block \in [0 .. n - 1 -> PutByte] :
            \/ Fits(position + n) /\ Put(n, block)
            \/ \E index \in Sizes : Fits(index + n) /\ PutAt(index, n, block)
            \/ \E m \in 0 .. n - 1 : Fits(position + n) /\ ReadDataFromFile(n, m, block)
            \/ Fits(position + VarWidth(n) + n) /\ PutVarLengthData(n, block)
            \/ \E k \in 1 .. 2 : Fits(position + k + n) /\ PutBytesWithLen(k, n, block)
  \/ \E v \in 0 .. V!Base[2] + 1 : Fits(position + VarWidth(v)) /\ PutVarLong(v)
  \/ \E k \in 1 .. 2 : PutBytesWithLenThrows(k, LengthSpace(k))
  \/ position < limit /\ data[position] < Radix \div 2 /\ GetBytesWithLen(1)
  \/ GetBytesWithLen(2)
  \/ GetVarLong \/ GetVarLongBytes
  \/ LengthIsInt /\ GetVarLengthData
  \/ GetTypdex \/ PutTypdexThrows
  \/ GetLastBytes \/ ToBytes
  \/ mark = 0 /\ WriteBytesTo
  \/ Fits(position + 1) /\ Put1ByteCRC
  \/ position = 0 /\ mark = 0 /\ Truncate1ByteCRC
  \/ ApplyXOR \/ UnapplyXOR

Spec == Init /\ [][Next]_vars

-----------------------------------------------------------------------------
TypeOK ==
  /\ capacity \in 0 .. MaxLimit
  /\ data \in Block(capacity)
  /\ io = Null \/ \E n \in 0 .. MaxLimit : io \in Block(n)

(* The comment on the fields: 0 <= mark <= position <= limit <= capacity,   *)
(* also after calls that threw halfway.                                     *)
CursorOrder ==
  /\ mark <= position
  /\ position <= limit
  /\ limit <= capacity

(* The Java buffer is the tape the C buffer is: growing into reused arrays, *)
(* compacting in place, masking and checking lose and invent no byte below  *)
(* the limit that another call put there.                                   *)
Tape == INSTANCE CodedTape WITH
  tape <- [i \in 0 .. limit - 1 |-> data[i]],
  len <- limit, head <- position, bookmark <- mark
TapeSpec == Tape!CodedSpec

(* What is sealed with a checksum and a mask (put1ByteCRC, applyXOR) and    *)
(* sent is found whole by a buffer that adopts it (unapplyXOR,              *)
(* truncate1ByteCRC): the checksum matches and the bytes are the same.      *)
SealOpens ==
  LET n == position
      signed == [i \in 0 .. n |-> IF i < n THEN data[i] ELSE Crc(data, n)]
      opened == Unmasked(Masked(signed, n + 1), n + 1)
  IN /\ CrcMatches(opened, n + 1)
     /\ \A i \in 0 .. n - 1 : opened[i] = data[i]

=============================================================================
