----------------------------- MODULE CodedTape -----------------------------
(***************************************************************************)
(* A ByteTape whose user also writes and reads blocks behind a variable-   *)
(* length header (VarInt), as every binding of the repository does.  The   *)
(* header of a block that is written is the one VarInt gives for its       *)
(* length; a header that is read may be any of the forms.                  *)
(***************************************************************************)
EXTENDS ByteTape

CONSTANT Bits   \* bits of a byte, 8: Radix = 2 ^ Bits

V == INSTANCE VarInt WITH W <- Bits

VarHeader(n) == [i \in 0 .. V!Form(n) - 1 |-> V!VarU64Bytes(n)[i + 1]]

VarComplete == head < len /\ head + V!FormOf(tape[head]) <= len
VarWidth == V!VarU64At(tape, head).width
VarAnnounced == V!VarU64At(tape, head).value

(* A block of n bytes goes in behind its header. *)
OverwriteVar ==
  \E w \in 1 .. Bits + 1 :
    /\ Overwrite(w)
    /\ LET n == head' - head - w
       IN /\ w = V!Form(n)
          /\ \A i \in 0 .. w - 1 : tape'[head + i] = VarHeader(n)[i]

(* The head passes a header and the block it announces. *)
TakeVar ==
  /\ VarComplete
  /\ head' = head + VarWidth + VarAnnounced
  /\ head' <= len
  /\ io' = [i \in 0 .. VarAnnounced - 1 |-> tape[head + VarWidth + i]]
  /\ UNCHANGED <<tape, len, bookmark>>

(* A header that is cut short costs its first byte, a header whose block is *)
(* cut short is consumed.                                                   *)
RefuseVar ==
  /\ \/ /\ head < len /\ ~VarComplete
        /\ head' = head + 1
     \/ /\ VarComplete
        /\ head' = head + VarWidth
        /\ head' + VarAnnounced > len
  /\ io' = Null
  /\ UNCHANGED <<tape, len, bookmark>>

CodedNext == Next \/ OverwriteVar \/ TakeVar \/ RefuseVar

CodedSpec == Init /\ [][CodedNext]_vars
=============================================================================
