------------------------------- MODULE VarInt -------------------------------
(***************************************************************************)
(* The variable-length integers of c/dybuf.h (dyb_append_var_u64,          *)
(* dyb_next_var_u64, dyb_append_var_s64, dyb_next_var_s64).  The code has  *)
(* bytes of W = 8 bits and 64-bit values: k bytes, k = 1 .. 8, start with  *)
(* k - 1 one bits and a zero and carry 7 * k bits; nine bytes start with   *)
(* 0xFF and carry 64 bits.  Each form starts counting where the shorter    *)
(* one ends (0x80, 0x4080, 0x204080, ...).  Here W is a parameter: bytes   *)
(* of W bits, W + 1 forms and values of W * W bits.                        *)
(***************************************************************************)
EXTENDS Integers, Sequences

CONSTANT W  \* bits of a byte: 8

ASSUME WidthAssumption == W \in Nat /\ W >= 1

ByteValues == 2 ^ W
Byte == 0 .. ByteValues - 1
Forms == 1 .. W + 1

(* How many values a form of k bytes holds. *)
Payloads(k) == IF k <= W THEN 2 ^ ((W - 1) * k) ELSE 2 ^ (W * W)

(* The first value each form holds. *)
Base[k \in Forms] == IF k = 1 THEN 0 ELSE Base[k - 1] + Payloads(k - 1)

(* The fixed bits of the first byte of a form. *)
Lead(k) == ByteValues - 2 ^ (W - k + 1)

(* The form a value is written in. *)
Form(v) == CHOOSE k \in Forms : v >= Base[k] /\ (k > W \/ v < Base[k + 1])

VarU64BytesLong(v) ==
  LET payload == (v - Base[W + 1]) % 2 ^ (W * W)
  IN [i \in 1 .. W + 1 |->
        IF i = 1 THEN ByteValues - 1 ELSE (payload \div 2 ^ (W * (W + 1 - i))) % ByteValues]
VarU64Bytes(v) ==
  LET k == Form(v)
      payload == v - Base[k]
      digit(i) == (payload \div 2 ^ (W * (k - i))) % ByteValues
  IN [i \in 1 .. k |-> digit(i) + (IF i = 1 THEN Lead(k) ELSE 0)]

(* The form the first byte announces. *)
FormOf(b) == CHOOSE k \in Forms : Lead(k) <= b /\ (k > W \/ b < Lead(k + 1))

(* The payload of k bytes at p in a wire, read big-endian. *)
PayloadAt(wire, p, k) ==
  LET upTo[i \in 1 .. k] ==
        IF i = 1 THEN wire[p] - Lead(k) ELSE upTo[i - 1] * ByteValues + wire[p + i - 1]
  IN upTo[k]

(* The value at p and how many bytes it takes.  The longest form wraps.     *)
VarU64AtUnwrapped(wire, p) ==
  LET k == FormOf(wire[p])
  IN [value |-> PayloadAt(wire, p, k) + Base[k], width |-> k]
VarU64At(wire, p) ==
  LET k == FormOf(wire[p])
      sum == PayloadAt(wire, p, k) + Base[k]
  IN [value |-> IF k > W THEN sum % 2 ^ (W * W) ELSE sum, width |-> k]

(* (value << 1) ^ (value >> 63) and its inverse. *)
ZigZag(v) == IF v >= 0 THEN 2 * v ELSE -2 * v - 1
UnZigZagNegated(u) == IF u % 2 = 0 THEN u \div 2 ELSE -(u \div 2)
UnZigZag(u) == IF u % 2 = 0 THEN u \div 2 ELSE -(u \div 2) - 1

VarS64Bytes(v) == VarU64Bytes(ZigZag(v))
VarS64At(wire, p) ==
  [value |-> UnZigZag(VarU64At(wire, p).value), width |-> VarU64At(wire, p).width]

=============================================================================
