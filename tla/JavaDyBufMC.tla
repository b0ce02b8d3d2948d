---------------------------- MODULE JavaDyBufMC ----------------------------
(***************************************************************************)
(* The Java buffer for TLC.  JavaDyBuf says of Xored which bits it has, so   *)
(* that it can be proved about; here it is compared with the ^ of ints.    *)
(***************************************************************************)
EXTENDS JavaDyBuf, Bitwise

ASSUME XorIsBitwise == \A a, b \in Byte : Xored(a, b) = a ^^ b
=============================================================================
