----------------------------- MODULE VarIntLink -----------------------------
(***************************************************************************)
(* One value on its way from a writer to a reader, for every value a small *)
(* byte width allows: written by dyb_append_var_u64 or dyb_append_var_s64, *)
(* or sent by a foreign writer that may use any form that has room, and    *)
(* read by dyb_next_var_u64 or dyb_next_var_s64.                           *)
(***************************************************************************)
EXTENDS VarInt

CONSTANT Null

VARIABLES
  sent,      \* the value written, Null when a foreign writer wrote
  signed,    \* whether it was written as an int64
  wire,      \* the bytes between the two
  position,  \* of the reader in the wire
  got        \* the value read, Null before the read

vars == <<sent, signed, wire, position, got>>

UValues == 0 .. 2 ^ (W * W) - 1
SValues == -(2 ^ (W * W - 1)) .. 2 ^ (W * W - 1) - 1

Init ==
  /\ sent = Null /\ signed = FALSE /\ got = Null
  /\ wire = <<>>
  /\ position = 0

AppendVarU64(v) ==
  /\ sent' = v
  /\ signed' = FALSE
  /\ wire' = VarU64Bytes(v)

AppendVarS64(v) ==
  /\ sent' = v
  /\ signed' = TRUE
  /\ wire' = VarS64Bytes(v)

(* A foreign writer: a first byte and as many more as it announces. *)
Foreign(bytes) ==
  /\ Len(bytes) = FormOf(bytes[1])
  /\ sent' = Null
  /\ UNCHANGED signed
  /\ wire' = bytes

Write ==
  /\ wire = <<>>
  /\ \/ \E v \in UValues : AppendVarU64(v)
     \/ \E v \in SValues : AppendVarS64(v)
     \/ \E k \in Forms : \E bytes \in [1 .. k -> Byte] : Foreign(bytes)
  /\ UNCHANGED <<position, got>>

NextVarU64 ==
  /\ got' = VarU64At(wire, position + 1).value
  /\ position' = position + VarU64At(wire, position + 1).width
NextVarS64 ==
  /\ got' = VarS64At(wire, position + 1).value
  /\ position' = position + VarS64At(wire, position + 1).width

Read ==
  /\ wire # <<>>
  /\ position = 0
  /\ IF signed THEN NextVarS64 ELSE NextVarU64
  /\ UNCHANGED <<sent, signed, wire>>

Next == Write \/ Read

Spec == Init /\ [][Next]_vars

-----------------------------------------------------------------------------
(* The bytes are bytes and the values fit their 64 bits. *)
TypeOK ==
  /\ wire \in Seq(Byte)
  /\ got = Null \/ got \in (IF signed THEN SValues ELSE UValues)
  /\ sent = Null \/ sent \in (IF signed THEN SValues ELSE UValues)

(* What dyb_next_var_* reads is what dyb_append_var_* wrote, at the borders *)
(* of all W + 1 forms too, and the reader stops at the end of it.           *)
RoundTrip ==
  got # Null =>
    /\ position = Len(wire)
    /\ sent # Null => got = sent

(* The writer picks the one shortest form: no foreign bytes that are read   *)
(* as the same value are shorter, and none of the same length differ.       *)
Shortest ==
  got # Null /\ ~signed =>
    \/ Len(VarU64Bytes(got)) < Len(wire)
    \/ VarU64Bytes(got) = wire

=============================================================================
