------------------------------ MODULE PyDyBuf ------------------------------
(***************************************************************************)
(* The Python binding (py/src/dybuf/_core.pyx): the class DyBuf puts tests *)
(* in front of the calls of the C buffer and turns their refusals into     *)
(* exceptions.  The state is that of Dybuf, every action is the calls one  *)
(* method makes.  The question is whether the binding keeps the contract   *)
(* Dybuf needs, so that all that holds of the C buffer holds here.         *)
(*                                                                         *)
(* Some calls are not tested: an append that finds no room in memory that  *)
(* was referred to, next_var_* where the bytes of the number are missing,  *)
(* and next_var_bytes of a length that wraps the uint.  They go through to *)
(* C as they are; the model shows what such a call does to the cursors and *)
(* says nothing of what follows.                                           *)
(***************************************************************************)
EXTENDS Dybuf

CONSTANTS
  Bits,     \* bits of a byte: 8
  Markers,  \* layouts of a typdex marker: 4
  MaxData,  \* bound: the most data a caller appends
  Nothing   \* no exception, no length read ahead

ASSUME BitsAssumption == Bits \in Nat \ {0} /\ Radix = 2 ^ Bits
ASSUME NothingAssumption ==
  /\ Nothing \notin {"ValueError", "EOFError", "MemoryError"}
  /\ Nothing \notin {"append", "next_var", "next_var_bytes"}
  /\ Nothing \notin Nat

VARIABLES
  raised,  \* the exception the last call ended with, or Nothing
  ahead,   \* inside next_var_bytes: the length it has read
  outside  \* the method that went outside the contract of C, or Nothing

pyVars == <<vars, raised, ahead, outside>>

V == INSTANCE VarInt WITH W <- Bits

-----------------------------------------------------------------------------
(* Neither memory that was adopted, which dyb_copy is never asked for, nor  *)
(* a reference to nothing, which raises.                                    *)
PyInit ==
  /\ Init
  /\ IF fixed THEN capacity # 0 ELSE capacity >= Unit
  /\ raised = Nothing
  /\ ahead = Nothing
  /\ outside = Nothing

Returns == raised' = Nothing /\ UNCHANGED <<ahead, outside>>
Leaves(method) == outside' = method /\ raised' = Nothing /\ ahead' = Nothing

RaiseAfterReading(exception) ==
  /\ raised' = exception
  /\ position' = MIN(position + 1, limit)
  /\ UNCHANGED <<memory, limit, mark, io, ahead, outside>>
Raise(exception) ==
  /\ raised' = exception
  /\ UNCHANGED <<vars, ahead, outside>>

(* _ensure_success: the C call has refused. *)
Refused == raised' = "MemoryError" /\ UNCHANGED <<ahead, outside>>

EnsureReadableButOne(n) == n <= Remainder + 1
EnsureReadable(n) == n <= Remainder

-----------------------------------------------------------------------------
(* The properties and the calls that move cursors. *)
PySetLimit(n) ==
  \/ SetLimit(n) /\ Returns
  \/ SetLimitRefused(n) /\ Refused

PySetPosition(n) ==
  \/ SetPosition(n) /\ Returns
  \/ SetPositionRefused(n) /\ Refused

EnsureCapacity(n) ==
  \/ SetCapacity(n) /\ Returns
  \/ SetCapacityRefused(n) /\ Refused

PyCursorCall == (Clear \/ Flip \/ Rewind \/ Compact \/ Mark \/ Reset) /\ Returns

-----------------------------------------------------------------------------
(* Appending.  write, append_bool, append_uint8 to append_uint64,           *)
(* append_var_u64 and append_var_s64, append_typdex: n bytes.               *)
AppendBytes(n, block) == Writable(n) /\ Append(n, block) /\ Returns

(* Referred memory is too short for them: C ignores that its limit cannot   *)
(* be moved, or, of a method that appends twice, not beyond the first part, *)
(* and stores behind the memory.                                            *)
AppendBeyond(n, block) ==
  /\ fixed /\ ~Writable(n)
  /\ data' = Stored(data, n, block)
  /\ limit' \in limit .. capacity
  /\ position' = position + n
  /\ io' = block
  /\ UNCHANGED <<capacity, mark, fixed>>
  /\ Leaves("append")

(* append_var_bytes and append_var_string: the length, then the data.  The  *)
(* second append goes on growing where the first left off, and memory of n  *)
(* bytes holds at least a unit either way: they add up to one.              *)
Frame(n, block) ==
  LET header == V!VarU64Bytes(n)
      k == V!Form(n)
  IN [i \in 0 .. k + n - 1 |-> IF i < k THEN header[i + 1] ELSE block[i - k]]

AppendVarBytes(n, block) ==
  \E m \in Lengths :
    /\ m = V!Form(n) + n
    /\ Frame(n, block) \in Block(m)
    /\ AppendBytes(m, Frame(n, block)) \/ AppendBeyond(m, Frame(n, block))

(* A value too wide for its method, an index no marker carries. *)
ValueOutOfRange == Raise("ValueError")

-----------------------------------------------------------------------------
(* Reading.  next_bool, next_uint8 to next_uint64 and their peeks. *)
NextFixed(n) ==
  \/ EnsureReadable(n) /\ (Next_n(n) \/ Peek(n)) /\ Returns
  \/ ~EnsureReadable(n) /\ Raise("EOFError")

(* read(n); read() asks for the remainder. *)
Read(n) ==
  \/ n = 0 /\ raised' = Nothing /\ UNCHANGED <<vars, ahead, outside>>
  \/ n # 0 /\ EnsureReadable(n) /\ NextData(n) /\ Returns
  \/ n # 0 /\ ~EnsureReadable(n) /\ Raise("EOFError")

(* _required_typdex_length: a marker's first byte has as many leading ones  *)
(* as the marker has further bytes, and a byte with more is not a marker.   *)
RequiredTypdexLength(header) ==
  LET k == V!FormOf(header) IN IF k <= Markers THEN k ELSE 0

(* _ensure_typdex_available, then next_typdex or peek_typdex. *)
Typdex ==
  \/ /\ Remainder = 0
     /\ Raise("EOFError")
  \/ /\ Remainder # 0
     /\ \E needed \in Lengths :
          /\ needed = RequiredTypdexLength(data[position])
          /\ \/ needed = 0 /\ Raise("ValueError")
             \/ needed # 0 /\ needed > Remainder /\ Raise("EOFError")
             \/ needed # 0 /\ needed <= Remainder /\ (Next_n(needed) \/ Peek(needed)) /\ Returns

(* A variable-length integer: its width, its value, and whether its bytes   *)
(* are there.  Behind the memory the first byte may be any.                 *)
VarWidth == V!FormOf(data[position])
VarValue == V!VarU64At([i \in 1 .. limit |-> data[i - 1]], position + 1).value
VarComplete == Remainder # 0 /\ VarWidth <= Remainder
Overread(n) ==
  /\ ~VarComplete
  /\ n \in V!Forms
  /\ position < capacity => n = VarWidth
  /\ Next_n(n)

(* next_var_u64, next_var_s64 and their deprecated names test nothing. *)
NextVar ==
  \E n \in Lengths :
    \/ VarComplete /\ n = VarWidth /\ Next_n(n) /\ Returns
    \/ Overread(n) /\ Leaves("next_var")

(* next_var_bytes and next_var_string: the length is read and consumed, *)
NextVarLength ==
  \E n \in Lengths :
    \/ /\ VarComplete /\ n = VarWidth
       /\ Next_n(n)
       /\ ahead' = VarValue % UintModulus
       /\ ahead' <= MaxBlock \/ ahead' > MaxCapacity   \* the bound of Dybuf
       /\ raised' = Nothing
       /\ UNCHANGED outside
    \/ Overread(n) /\ Leaves("next_var_bytes")

(* and the data is taken, or missing.  Null for no data is an empty result. *)
Wraps == position + ahead >= UintModulus /\ Available(position, ahead)
NextVarData ==
  /\ NextData(ahead)
  /\ raised' = IF io' = Null /\ ahead # 0 THEN "EOFError" ELSE Nothing
  /\ ahead' = Nothing
  /\ outside' = IF Wraps THEN "next_var_bytes" ELSE Nothing

-----------------------------------------------------------------------------
Methods ==
  \/ \E n \in Sizes : PySetLimit(n) \/ PySetPosition(n) \/ EnsureCapacity(n)
  \/ PyCursorCall
  \/ \E n \in Lengths :
       /\ n <= MaxData
       /\ \E block \in Block(n) :
            AppendBytes(n, block) \/ AppendBeyond(n, block) \/ AppendVarBytes(n, block)
  \/ \E n \in Lengths :
       \/ n # 0 /\ NextFixed(n)
       \/ Read(n)
  \/ ValueOutOfRange
  \/ Typdex
  \/ NextVar
  \/ NextVarLength

(* A method runs to its end before another one starts; after a call outside *)
(* the contract nothing is said of the next one.                            *)
PyNext ==
  \/ outside = Nothing /\ ahead = Nothing /\ Methods
  \/ outside = Nothing /\ ahead # Nothing /\ NextVarData
  \/ outside # Nothing /\ UNCHANGED pyVars

PySpec == PyInit /\ [][PyNext]_pyVars

-----------------------------------------------------------------------------
(* The binding's tests are enough for every method that has one: numbers,   *)
(* markers, data and data behind a length are asked of the C buffer inside  *)
(* its contract, so that what is proved of Dybuf holds here.  What is not   *)
(* tested goes outside only as follows: past the end of referred memory,    *)
(* past the limit where the bytes of a number are missing, or by a length   *)
(* that wraps.                                                              *)
GoesOutside ==
  /\ outside = Nothing
  /\ \/ outside' = "append" /\ fixed /\ position' > capacity
     \/ outside' \in {"next_var", "next_var_bytes"} /\ ~VarComplete /\ position' > limit
     \/ outside' = "next_var_bytes" /\ ahead # Nothing /\ Wraps
ContractKept == Init /\ [][Next \/ GoesOutside]_vars

(* An EOFError is sound: the bytes asked for are really missing, and a      *)
(* caller that catches it finds memory and cursors as they were, so that it *)
(* can go on; of next_var_bytes only the length is gone.                    *)
EofErrorIsSound ==
  [][ raised' = "EOFError" =>
        /\ UNCHANGED <<memory, cursors>>
        /\ ahead # Nothing => ahead > Remainder ]_pyVars

=============================================================================
