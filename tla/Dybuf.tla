------------------------------- MODULE Dybuf -------------------------------
(***************************************************************************)
(* The cursor buffer of c/dybuf.h: a block of memory with a position, a    *)
(* mark and a limit, created (dyb_create), copied or adopted (dyb_copy) or *)
(* referred to (dyb_refer, fixed capacity), and the calls that move the    *)
(* cursors, resize the memory, append bytes and read them.                 *)
(*                                                                         *)
(* The calls check little: the fixed-width reads check nothing, and the    *)
(* appends ignore the failure of dyb_set_limit on a fixed buffer.  Next is *)
(* the calls that stay inside the contract the bindings keep by testing    *)
(* the remainder first (module PyDyBuf).                                   *)
(***************************************************************************)
EXTENDS Naturals

CONSTANTS
  Radix,        \* number of byte values: 256
  Unit,         \* CACHE_SIZE_UNIT: the smallest dynamic allocation, 16
  UintModulus,  \* the cursors are uint: 2^32
  MaxCapacity,  \* bound: the largest capacity or limit a caller asks for
  MaxBlock,     \* bound: the longest block a caller appends or reads
  Null

ASSUME RadixAssumption == Radix \in Nat /\ Radix >= 2
ASSUME SizeAssumption ==
  /\ Unit \in Nat \ {0}
  /\ MaxCapacity \in Nat
  /\ MaxBlock \in Nat
  /\ UintModulus \in Nat
  /\ Unit <= MaxCapacity
  /\ MaxCapacity + Radix * Radix < UintModulus
ASSUME NullAssumption ==
  \A n \in 0 .. UintModulus : Null \notin [0 .. n - 1 -> 0 .. Radix - 1]

VARIABLES
  data,      \* _data, the bytes at addresses 0 .. capacity - 1
  capacity,  \* _capacity
  limit,     \* _limit
  position,  \* _position
  mark,      \* _mark
  fixed,     \* _fixedCapacity
  io         \* the bytes the last call carried in or gave back, or Null

cursors == <<limit, position, mark>>
memory == <<data, capacity, fixed>>
vars == <<data, capacity, limit, position, mark, fixed, io>>

Byte == 0 .. Radix - 1
Block(n) == [0 .. n - 1 -> Byte]
NoBytes == [i \in {} |-> 0]

MAX(a, b) == IF a >= b THEN a ELSE b
MIN(a, b) == IF a <= b THEN a ELSE b

Remainder == limit - position

-----------------------------------------------------------------------------
(* dyb_mem_alloc with dyn: at least one cache unit. *)
AllocSize(n) == MAX(Unit, n)

(* Fresh memory is zeroed, then the old bytes that fit are copied. *)
ReallocatedShort(n) ==
  [i \in 0 .. n - 1 |-> IF i + 1 < capacity THEN data[i] ELSE 0]
Reallocated(n) ==
  [i \in 0 .. n - 1 |-> IF i < capacity THEN data[i] ELSE 0]

(* The memory behind a limit of n: dyb_set_limit grows it only when it must. *)
RoomFor(n) == IF n > capacity THEN AllocSize(n) ELSE capacity

(* dyb_set_limit(n) fails only where it would have to grow a fixed buffer. *)
LimitAlways(n) == TRUE
LimitGranted(n) == n <= capacity \/ ~fixed

(* m bytes stored at the position; those beyond the memory land elsewhere. *)
Stored(mem, m, bytes) ==
  [i \in DOMAIN mem |->
     IF position <= i /\ i < position + m THEN bytes[i - position] ELSE mem[i]]

(* What a read of n bytes at from can give: the bytes of the memory, and    *)
(* whatever lies behind it.                                                 *)
Delivered(from, n) ==
  {bytes \in Block(n) :
     \A i \in 0 .. n - 1 : from + i < capacity => bytes[i] = data[from + i]}

(* The k-byte length header: written big-endian, the length cut to its width. *)
LengthSpace(k) == IF k = 1 THEN Radix ELSE Radix * Radix
Header(k, n) ==
  IF k = 1 THEN [i \in 0 .. 0 |-> n]
           ELSE [i \in 0 .. 1 |-> IF i = 0 THEN n \div Radix ELSE n % Radix]
LengthIn(k, header) ==
  IF k = 1 THEN header[0] ELSE header[0] * Radix + header[1]

-----------------------------------------------------------------------------
InitCreate ==
  \E n \in 0 .. MaxCapacity :
    /\ capacity = AllocSize(n)
    /\ data = [i \in 0 .. AllocSize(n) - 1 |-> 0]
    /\ limit = 0
    /\ fixed = FALSE

InitRefer ==
  \E n \in 0 .. MaxCapacity, forWrite \in BOOLEAN :
    /\ capacity = n
    /\ data \in Block(n)
    /\ limit = IF forWrite THEN 0 ELSE n
    /\ fixed = TRUE

(* dyb_copy: no_copy adopts the caller's memory as it is. *)
InitCopy ==
  \E n \in 0 .. MaxCapacity, noCopy \in BOOLEAN :
    \E bytes \in Block(n) :
      /\ capacity = IF noCopy THEN n ELSE AllocSize(n)
      /\ data = [i \in 0 .. capacity - 1 |-> IF i < n THEN bytes[i] ELSE 0]
      /\ limit = n
      /\ fixed = FALSE

Init ==
  /\ InitCreate \/ InitRefer \/ InitCopy
  /\ position = 0
  /\ mark = 0
  /\ io = NoBytes

-----------------------------------------------------------------------------
(* Capacity and limit *)

SetCapacityRefused(n) ==
  /\ fixed
  /\ n # capacity
  /\ io' = Null
  /\ UNCHANGED <<memory, cursors>>

SetCapacityUnrounded(n) ==
  /\ ~fixed \/ n = capacity
  /\ capacity' = n
  /\ data' = Reallocated(AllocSize(n))
  /\ limit' = MIN(limit, capacity')
  /\ position' = MIN(position, capacity')
  /\ mark' = MIN(mark, capacity')
  /\ io' = NoBytes
  /\ UNCHANGED fixed
SetCapacity(n) ==
  /\ ~fixed \/ n = capacity
  /\ capacity' = IF n = capacity THEN n ELSE AllocSize(n)
  /\ data' = Reallocated(capacity')
  /\ limit' = MIN(limit, capacity')
  /\ position' = MIN(position, capacity')
  /\ mark' = MIN(mark, capacity')
  /\ io' = NoBytes
  /\ UNCHANGED fixed

SetLimitRefused(n) ==
  /\ ~LimitGranted(n)
  /\ io' = Null
  /\ UNCHANGED <<memory, cursors>>

SetLimit(n) ==
  /\ LimitGranted(n)
  /\ capacity' = RoomFor(n)
  /\ data' = Reallocated(capacity')
  /\ limit' = n
  /\ position' = MIN(position, n)
  /\ mark' = MIN(mark, n)
  /\ io' = NoBytes
  /\ UNCHANGED fixed

(* dyb_clear puts the limit at the capacity. *)
Clear ==
  /\ limit' = capacity
  /\ position' = 0
  /\ mark' = 0
  /\ io' = NoBytes
  /\ UNCHANGED memory

-----------------------------------------------------------------------------
(* Cursor calls *)

SetPositionRefused(n) ==
  /\ n > limit
  /\ io' = Null
  /\ UNCHANGED <<memory, cursors>>

SetPosition(n) ==
  /\ n <= limit
  /\ position' = MAX(n, mark)
  /\ io' = NoBytes
  /\ UNCHANGED <<memory, limit, mark>>

Mark ==
  /\ mark' = position
  /\ io' = NoBytes
  /\ UNCHANGED <<memory, limit, position>>

Reset ==
  /\ position' = mark
  /\ io' = NoBytes
  /\ UNCHANGED <<memory, limit, mark>>

FlipKeepsMark ==
  /\ limit' = position
  /\ position' = 0
  /\ io' = NoBytes
  /\ UNCHANGED <<memory, mark>>
Flip ==
  /\ limit' = position
  /\ position' = 0
  /\ mark' = 0
  /\ io' = NoBytes
  /\ UNCHANGED memory

Rewind ==
  /\ position' = 0
  /\ mark' = 0
  /\ io' = NoBytes
  /\ UNCHANGED <<memory, limit>>

(* The unread bytes move to the front; the rest of the memory stays as it is. *)
Compact ==
  /\ data' = [i \in 0 .. capacity - 1 |->
                IF i < Remainder THEN data[position + i] ELSE data[i]]
  /\ limit' = Remainder
  /\ position' = 0
  /\ mark' = 0
  /\ io' = NoBytes
  /\ UNCHANGED <<capacity, fixed>>

-----------------------------------------------------------------------------
(* Appending *)

(* m bytes go in at the position.  The limit is moved first if they end     *)
(* beyond it; that dyb_set_limit may refuse is ignored.                     *)
PutBytes(m, bytes) ==
  LET end == position + m
      extends == end > limit /\ LimitGranted(end)
  IN /\ capacity' = IF extends THEN RoomFor(end) ELSE capacity
     /\ data' = Stored(Reallocated(capacity'), m, bytes)
     /\ limit' = IF extends THEN end ELSE limit
     /\ position' = end
     /\ UNCHANGED <<mark, fixed>>

(* The fixed-width appends, the structures and the data without a length. *)
Append(n, block) ==
  /\ PutBytes(n, block)
  /\ io' = block

(* Data behind a length of k bytes: the length is masked to its k bytes and *)
(* no more of the data than that is taken.                                  *)
AppendWithLen(k, n, block) ==
  LET length == n % LengthSpace(k)
      frame == [i \in 0 .. k + length - 1 |->
                  IF i < k THEN Header(k, length)[i] ELSE block[i - k]]
  IN /\ PutBytes(k + length, frame)
     /\ io' = block

-----------------------------------------------------------------------------
(* Reading *)

(* The fixed-width reads test nothing. *)
Next_n(n) ==
  /\ position' = position + n
  /\ io' \in Delivered(position, n)
  /\ UNCHANGED <<memory, limit, mark>>

Peek(n) ==
  /\ io' \in Delivered(position, n)
  /\ UNCHANGED <<memory, cursors>>

(* n bytes behind start are there: the sum is a uint. *)
Available(start, n) == n # 0 /\ (start + n) % UintModulus <= limit

(* The common end of the reads of a block, once start is behind its header. *)
TakeBytes(start, n) ==
  /\ \/ /\ Available(start, n)
        /\ position' = (start + n) % UintModulus
        /\ io' \in Delivered(start, n)
     \/ /\ ~Available(start, n)
        /\ position' = start
        /\ io' = Null
  /\ UNCHANGED <<memory, limit, mark>>

NextData(n) == TakeBytes(position, n)

NextDataWithLen(k) ==
  \E header \in Delivered(position, k) :
    TakeBytes(position + k, LengthIn(k, header))

(* dyb_get_data_before_current_position *)
DataBefore ==
  /\ io' \in Delivered(0, position)
  /\ UNCHANGED <<memory, cursors>>

-----------------------------------------------------------------------------
Sizes == 0 .. MaxCapacity
Lengths == 0 .. MaxBlock

CursorCalls ==
  \/ \E n \in Sizes :
       \/ SetCapacity(n) \/ SetCapacityRefused(n)
       \/ SetLimit(n) \/ SetLimitRefused(n)
       \/ SetPosition(n) \/ SetPositionRefused(n)
  \/ Clear \/ Mark \/ Reset \/ Flip \/ Rewind \/ Compact

(* The contract: a read of n bytes finds them before the limit (the         *)
(* bindings test the remainder), a write finds room, a length fits its      *)
(* header and the uint.                                                     *)
Readable(n) == n <= Remainder
Writable(n) == position + n <= (IF fixed THEN capacity ELSE MaxCapacity)

Next ==
  \/ CursorCalls
  \/ \E n \in Lengths :
       \/ Writable(n) /\ \E block \in Block(n) : Append(n, block)
       \/ Readable(n) /\ (Next_n(n) \/ Peek(n))
       \/ position + n < UintModulus /\ NextData(n)
       \/ \E k \in 1 .. 2 :
            /\ n < LengthSpace(k)
            /\ Writable(k + n)
            /\ \E block \in Block(n) : AppendWithLen(k, n, block)
  \/ \E k \in 1 .. 2 : Readable(k) /\ NextDataWithLen(k)
  \/ DataBefore

Spec == Init /\ [][Next]_vars

-----------------------------------------------------------------------------
(* The types of the fields. *)
TypeOK ==
  /\ capacity \in 0 .. MaxCapacity
  /\ data \in Block(capacity)
  /\ limit \in Nat
  /\ position \in Nat
  /\ mark \in Nat
  /\ fixed \in BOOLEAN
  /\ io = Null \/ \E n \in 0 .. UintModulus : io \in Block(n)

(* The comment that introduces struct dybuf: 0 <= mark <= position <= limit *)
(* <= capacity.  Every read and append computes addresses from it.          *)
CursorOrder ==
  /\ mark <= position
  /\ position <= limit
  /\ limit <= capacity

(* Inside the contract a dybuf is a tape: growing, rounding, reallocating   *)
(* and copying lose and invent no byte below the limit, and what is read is *)
(* what was written there last.                                             *)
Tape == INSTANCE ByteTape WITH
  tape <- [i \in 0 .. limit - 1 |-> data[i]],
  len <- limit, head <- position, bookmark <- mark
TapeSpec == Tape!Spec

(* dyb_refer: memory from outside is never released and never replaced, so  *)
(* its size never changes, whatever limit or capacity is asked for.         *)
ReferredMemoryKept ==
  [][fixed => fixed' /\ capacity' = capacity]_vars

(* The bytes between the mark and the position can be read again with       *)
(* dyb_reset: while the mark is set and stays where it is, no call changes  *)
(* them, through growth, refused calls and reads that come back.            *)
MarkedBytesKept ==
  [][mark' = mark /\ mark' > 0 =>
       \A i \in mark .. MIN(position, position') - 1 : data'[i] = data[i]]_vars

=============================================================================
