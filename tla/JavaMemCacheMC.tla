--------------------------- MODULE JavaMemCacheMC ---------------------------
(* Symmetry of module JavaMemCache: threads and arrays are interchangeable.  *)
EXTENDS JavaMemCache

Symmetry == Permutations(Threads) \cup Permutations(Arrays)
=============================================================================
