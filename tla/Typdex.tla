------------------------------- MODULE Typdex -------------------------------
(***************************************************************************)
(* The type/index marker in front of every record: dyb_append_typdex,      *)
(* dyb_next_typdex and dyb_peek_typdex of c/dybuf.h.  A wire is a function *)
(* or sequence of bytes 0 .. 255.  The bit patterns of the four layouts    *)
(*    0ttt tiii     10tt tttt iiii iiii     110t tttt ttti iiii iiii iiii  *)
(*    1110 tttt tttt iiii iiii iiii iiii iiii                              *)
(* are written with \div and %.                                            *)
(***************************************************************************)
EXTENDS Integers, Sequences

UByte == 0 .. 255

Word == 256 * 256
MaxIndex == 16 * Word - 1  \* 0x0FFFFF, the largest index a marker can carry

(* How many bytes the marker takes; 0 where no layout fits. *)
WidthLate(type, index) ==
  IF type <= 15 /\ index <= 8 THEN 1
  ELSE IF type <= 63 /\ index <= 255 THEN 2
  ELSE IF type <= 255 /\ index <= 8191 THEN 3
  ELSE IF type <= 255 /\ index <= MaxIndex THEN 4
  ELSE 0
Width(type, index) ==
  IF type <= 15 /\ index <= 7 THEN 1
  ELSE IF type <= 63 /\ index <= 255 THEN 2
  ELSE IF type <= 255 /\ index <= 8191 THEN 3
  ELSE IF type <= 255 /\ index <= MaxIndex THEN 4
  ELSE 0

(* The bytes of the marker, none where dyb_append_typdex returns null. *)
TypdexBytes(type, index) ==
  CASE Width(type, index) = 1 -> <<type * 8 + index>>
    [] Width(type, index) = 2 -> <<128 + type, index>>
    [] Width(type, index) = 3 ->
         <<192 + (type \div 8), (type % 8) * 32 + (index \div 256), index % 256>>
    [] Width(type, index) = 4 ->
         <<224 + (type \div 16), (type % 16) * 16 + (index \div Word),
           (index \div 256) % 256, index % 256>>
    [] OTHER -> <<>>

(* The width a first byte announces; 0 for 1111 xxxx. *)
WidthOf(b) ==
  IF b < 128 THEN 1 ELSE IF b < 192 THEN 2 ELSE IF b < 224 THEN 3
  ELSE IF b < 240 THEN 4 ELSE 0

(* What dyb_next_typdex finds at p, and how many bytes it consumes.  A first *)
(* byte 1111 xxxx is taken for a type, and nothing is consumed.              *)
TypdexAt(wire, p) ==
  LET b == wire[p]
      type ==
        CASE WidthOf(b) = 1 -> b \div 8
          [] WidthOf(b) = 2 -> b - 128
          [] WidthOf(b) = 3 -> (b - 192) * 8 + (wire[p + 1] \div 32)
          [] WidthOf(b) = 4 -> (b - 224) * 16 + (wire[p + 1] \div 16)
          [] OTHER -> b
      index ==
        CASE WidthOf(b) = 1 -> b % 8
          [] WidthOf(b) = 2 -> wire[p + 1]
          [] WidthOf(b) = 3 -> (wire[p + 1] % 32) * 256 + wire[p + 2]
          [] WidthOf(b) = 4 ->
               (wire[p + 1] % 16) * Word + wire[p + 2] * 256 + wire[p + 3]
          [] OTHER -> 0
  IN [type |-> type, index |-> index, width |-> WidthOf(b)]

=============================================================================
