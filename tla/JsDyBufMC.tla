----------------------------- MODULE JsDyBufMC -----------------------------
(* Rounding in three steps, as in js/DyBuf.js, of small capacities.          *)
EXTENDS JsDyBuf

SmallGrains == <<1, 2, 4>>
SmallThresholds == <<2, 4>>
=============================================================================
