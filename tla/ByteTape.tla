------------------------------ MODULE ByteTape ------------------------------
(***************************************************************************)
(* What a dybuf promises to its user, without memory management: a tape of *)
(* len bytes with a head and a bookmark.  Capacity, reallocation, the      *)
(* rounding of allocations and the fixed-capacity mode are invisible here. *)
(* The cursor buffers of the repository are shown to implement this module *)
(* (CROSS_LANGUAGE_ALIGNMENT.md asks position, limit and compact to behave *)
(* the same in every language).                                            *)
(*                                                                         *)
(* io is what the last call carried in or gave back: the block appended or *)
(* read, NoBytes for a call that moves no bytes, Null for a refusal.       *)
(***************************************************************************)
EXTENDS Naturals

CONSTANTS
  Radix,   \* number of byte values, 256 in the code
  Null     \* the null result of a refused call

VARIABLES tape, len, head, bookmark, io

vars == <<tape, len, head, bookmark, io>>

Byte == 0 .. Radix - 1
Block(n) == [0 .. n - 1 -> Byte]
NoBytes == [i \in {} |-> 0]

MAX(a, b) == IF a >= b THEN a ELSE b
MIN(a, b) == IF a <= b THEN a ELSE b

(* The length announced by a k-byte big-endian header at the head. *)
Announced(k) ==
  IF k = 1 THEN tape[head] ELSE tape[head] * Radix + tape[head + 1]

-----------------------------------------------------------------------------
TypeOK ==
  /\ len \in Nat
  /\ tape \in Block(len)
  /\ head \in 0 .. len
  /\ bookmark \in 0 .. head

Init ==
  /\ len \in Nat
  /\ tape \in Block(len)
  /\ head = 0
  /\ bookmark = 0
  /\ io = NoBytes

(* The head writes io' over what is there, and past the end, after a length *)
(* header of k bytes (none for k = 0); every other byte stays.              *)
Overwrite(k) ==
  /\ head' \in Nat
  /\ head' >= head + k
  /\ len' = MAX(len, head')
  /\ tape' \in Block(len')
  /\ \A i \in 0 .. len - 1 : (i < head \/ i >= head') => tape'[i] = tape[i]
  /\ io' = [i \in 0 .. head' - head - k - 1 |-> tape'[head + k + i]]
  /\ UNCHANGED bookmark

(* Bytes anywhere are written over, and the tape grows if they end beyond   *)
(* it; head and bookmark stay.                                              *)
Patch ==
  /\ len' \in Nat
  /\ len' >= len
  /\ tape' \in Block(len')
  /\ \E from, to \in 0 .. len' :
       /\ from <= to
       /\ len' = MAX(len, to)
       /\ \A i \in 0 .. len - 1 : (i < from \/ i >= to) => tape'[i] = tape[i]
       /\ io' = [i \in 0 .. to - from - 1 |-> tape'[from + i]]
  /\ UNCHANGED <<head, bookmark>>

(* The head passes a header of k bytes and the block behind it. *)
Take(k) ==
  /\ head' \in Nat
  /\ head' >= head + k
  /\ head' <= len
  /\ k > 0 => head' = head + k + Announced(k)
  /\ io' = [i \in 0 .. head' - head - k - 1 |-> tape[head + k + i]]
  /\ UNCHANGED <<tape, len, bookmark>>

(* A look at bytes of the tape that moves nothing. *)
Look ==
  /\ \E from, to \in 0 .. len :
       /\ from <= to
       /\ io' = [i \in 0 .. to - from - 1 |-> tape[from + i]]
  /\ UNCHANGED <<tape, len, head, bookmark>>

(* A call is refused; a k-byte header that was read is consumed all the same, *)
(* and announced nothing or more than the tape holds.                         *)
Refuse(k) ==
  /\ head' = head + k
  /\ head' <= len
  /\ k > 0 => Announced(k) = 0 \/ head' + Announced(k) > len
  /\ io' = Null
  /\ UNCHANGED <<tape, len, bookmark>>

(* The end of the tape moves; what it keeps is unchanged and what it gains  *)
(* is unspecified.  Head and bookmark stay, or are pulled back to the end.  *)
Resize ==
  /\ len' \in Nat
  /\ tape' \in Block(len')
  /\ \A i \in 0 .. MIN(len, len') - 1 : tape'[i] = tape[i]
  /\ head' = MIN(head, len')
  /\ bookmark' = MIN(bookmark, len')
  /\ io' = NoBytes

(* The tape is wound back; nothing of it is lost, and it may gain bytes. *)
Restart ==
  /\ len' \in Nat
  /\ len' >= len
  /\ tape' \in Block(len')
  /\ \A i \in 0 .. len - 1 : tape'[i] = tape[i]
  /\ head' = 0
  /\ bookmark' = 0
  /\ io' = NoBytes

(* The bytes before the head are cut off. *)
Drop ==
  /\ len' = len - head
  /\ tape' = [i \in 0 .. len' - 1 |-> tape[head + i]]
  /\ head' = 0
  /\ bookmark' = 0
  /\ io' = NoBytes

(* The tape ends where the head is, and is wound back: what was written, no *)
(* more and no less, can be read.                                           *)
Cut ==
  /\ len' = head
  /\ tape' = [i \in 0 .. len' - 1 |-> tape[i]]
  /\ head' = 0
  /\ bookmark' = 0
  /\ io' = NoBytes

(* The head moves, never before the bookmark; or the bookmark moves to it. *)
Seek ==
  /\ head' \in bookmark .. len
  /\ io' = NoBytes
  /\ UNCHANGED <<tape, len, bookmark>>

SetBookmark ==
  /\ bookmark' = head
  /\ io' = NoBytes
  /\ UNCHANGED <<tape, len, head>>

Next ==
  \/ \E k \in 0 .. 2 : Overwrite(k) \/ Take(k) \/ Refuse(k)
  \/ Look \/ Patch \/ Resize \/ Restart \/ Drop \/ Cut \/ Seek \/ SetBookmark

Spec == Init /\ [][Next]_vars
=============================================================================
